----------------------------- MODULE Intervention -----------------------------
(***************************************************************************)
(* The life of an intervention request, as src/escalation/lifecycle.ts     *)
(* promises it: a record moves along ALLOWED and stamps every state it     *)
(* passes (claimedAt, inControlAt, returnedAt, ...).  This is the abstract *)
(* specification that the control plane implements; a single handler of    *)
(* the control plane may take several transitions at once.                 *)
(***************************************************************************)

CONSTANT Ids    \* intervention ids (randomUUID)

States == {"raised", "claimed", "in_control", "returned", "resolved", "abandoned"}

\* The transition table.
Allowed ==
  [ raised     |-> {"claimed", "abandoned"},
    claimed    |-> {"in_control", "abandoned"},
    in_control |-> {"returned", "abandoned"},
    returned   |-> {"resolved", "abandoned"},
    resolved   |-> {},
    abandoned  |-> {} ]

Terminal == {"resolved", "abandoned"}

VARIABLE stamps    \* stamps[i]: the states intervention i has passed; {} before it is raised

\* A legal history starts at "raised", enters each state from a state that
\* allows it, and ends at most once.
Legal(h) ==
  /\ h \subseteq States
  /\ \A s \in h : s = "raised" \/ \E q \in h : s \in Allowed[q]
  /\ ~ Terminal \subseteq h

Ended(h) == h \cap Terminal # {}

Init == stamps = [i \in Ids |-> {}]

\* One handler moves intervention i forward by one or more transitions.
Advance(i) ==
  /\ ~ Ended(stamps[i])
  /\ Legal(stamps'[i])
  /\ stamps[i] \subseteq stamps'[i]
  /\ stamps' = [stamps EXCEPT ![i] = stamps'[i]]

Next == \E i \in Ids : Advance(i)

Spec == Init /\ [][Next]_stamps
===============================================================================
