------------------------------- MODULE RateWindow -------------------------------
(***************************************************************************)
(* What the rate limiter of src/policy/runtime.ts promises: runs are       *)
(* admitted in the order of their times, and one is admitted only while    *)
(* the hour that ends with it holds fewer than the cap, for its capability *)
(* and for its tenant.  When the promise is off (`spoilt`), anything may   *)
(* be admitted; Governance says what spoils it.                            *)
(***************************************************************************)
EXTENDS Integers, FiniteSets

CONSTANTS Caps,       \* capability ids
          Tenants,    \* tenant ids
          Window,     \* the hour, in ticks
          PerCap,     \* maxInvocationsPerCapabilityPerHour
          PerTenant   \* maxInvocationsPerTenantPerHour

VARIABLES admitted,   \* the stamps of the runs that were let through
          spoilt      \* the promise no longer holds

vars == <<admitted, spoilt>>

Stamp == [n: Nat, at: Int, cap: Caps, tenant: Tenants]

\* The stamps of S from `since` on, of one tenant, and of one of its capabilities.
OfTenant(S, t, since) == {s \in S : s.at >= since /\ s.tenant = t}
OfCap(S, c, t, since) == {s \in OfTenant(S, t, since) : s.cap = c}

Below(S, max) == Cardinality(S) < max

Init == admitted = {} /\ spoilt = FALSE

Admit ==
    \E s \in admitted' \ admitted :
        /\ admitted' = admitted \union {s}
        /\ s \in Stamp
        /\ \A r \in admitted : r.at <= s.at /\ r.n # s.n
        /\ Below(OfCap(admitted, s.cap, s.tenant, s.at - Window), PerCap)
        /\ Below(OfTenant(admitted, s.tenant, s.at - Window), PerTenant)
        /\ UNCHANGED spoilt

Spoil == spoilt' = TRUE /\ UNCHANGED admitted
Overrun == spoilt /\ UNCHANGED spoilt

Next == Admit \/ Spoil \/ Overrun

Spec == Init /\ [][Next]_vars

\* Safety the promise is for: whatever hour one looks at, it holds no more runs
\* than the caps allow (README: "a cap of 30 runs per capability per hour").
Hour(S, e) == {s \in S : s.at <= e}
NoHourOverflows ==
    ~spoilt => \A e \in {s.at : s \in admitted}, t \in Tenants :
        /\ Cardinality(OfTenant(Hour(admitted, e), t, e - Window)) <= PerTenant
        /\ \A c \in Caps : Cardinality(OfCap(Hour(admitted, e), c, t, e - Window)) <= PerCap
=============================================================================
