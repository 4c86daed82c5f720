----------------------------- MODULE MCGovernance -----------------------------
(* Governance for TLC.  A cap of one run per capability and two per tenant and hour makes *)
(* both limits, and the runs at the limit, reachable with three starts.   *)
EXTENDS Governance, TLC

CONSTANTS p1, p2, k1, k2, lookup, reissue, tenant9

MCLimits == [perCap |-> 1, perTenant |-> 2]
MCDefaultLimits == [perCap |-> 2, perTenant |-> 3]
MCOrders == {[clear |-> FALSE, caps |-> {lookup}, tenants |-> {}],
             [clear |-> FALSE, caps |-> {}, tenants |-> {tenant9}],
             [clear |-> TRUE, caps |-> {reissue}, tenants |-> {}]}

\* Once the caps or the switch are void, the properties ask nothing more of them.
NothingVoid == ~spoilt /\ ~muddled
Symmetry == Permutations(Processes) \union Permutations(Commands)
=============================================================================
