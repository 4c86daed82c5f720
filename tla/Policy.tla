--------------------------------- MODULE Policy ---------------------------------
(***************************************************************************)
(* The action policy (src/policy/policy.ts) and the route patterns it is   *)
(* written in (src/policy/routes.ts).  A url has a scheme, a host and a    *)
(* path, the sequence of its segments; in a pattern "*" stands for one     *)
(* segment of a path and "**" for any number.                              *)
(***************************************************************************)
EXTENDS Integers, Sequences

CONSTANTS AllowedHosts, AllowedActions, RiskyNames,
          AllowedRoutes, DeniedRoutes   \* sets of [method, path]

\* from[i] are the segments from which the pattern from its token i on matches the path.
MatchSegs(pat, segs) ==
    LET end == Len(segs) + 1
        from[i \in 1..Len(pat) + 1] ==
          {j \in 1..end :
             \/ j = end /\ \A k \in i..Len(pat) : pat[k] = "**"
             \/ /\ j < end /\ i <= Len(pat) /\ pat[i] = "**"
                /\ i = Len(pat) \/ \E k \in j..end : k \in from[i + 1]
             \/ /\ j < end /\ i <= Len(pat) /\ pat[i] # "**"
                /\ pat[i] \in {"*", segs[j]} /\ j + 1 \in from[i + 1]}
    IN 1 \in from[1]

MatchMethod(ruleMethod, method) == ruleMethod \in {"*", "ANY", method}
MatchRoute(rule, method, path) == MatchMethod(rule.method, method) /\ MatchSegs(rule.path, path)

\* No rule is asked about a page that comes from no host.
IsUncheckedOrigin(url) == url.scheme \in {"about:", "data:", "blob:"}

\* Denied wins; what no rule names is not allowed.
AssertRequest(method, url) ==
    \/ IsUncheckedOrigin(url)
    \/ /\ url.host \in AllowedHosts
       /\ ~\E rule \in DeniedRoutes : MatchRoute(rule, method, url.path)
       /\ \E rule \in AllowedRoutes : MatchRoute(rule, method, url.path)

AssertUrl(url) == AssertRequest("GET", url)
AssertAction(action, url) == action \in AllowedActions /\ AssertUrl(url)

\* The exact name of a control, at discovery only.
ProposeRisk(control) == IF control \in RiskyNames THEN "risky" ELSE "safe"
================================================================================
