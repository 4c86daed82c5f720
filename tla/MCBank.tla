------------------------------- MODULE MCBank -------------------------------
(* Instances of the bank console for TLC. *)
EXTENDS BankPages, TLC

CONSTANTS jane, rest, byId, byName, byPart, byRest, byNone, d1, d2, k1, k2, k3, teller, wrong, s1, s2

JanesDisputes == [d \in Disputes |-> jane]
JanesCards == [k \in Cards |-> jane]

\* The forms of Jane's rows that can be acted on, and one for a restricted member.
SomePosts == {SubAccountOf(jane), SubAccountOf(rest), DisputeBy(jane, d1),
              CardForm("block", k1), CardForm("reissue", k1)}

\* An exact id, a last name that two share, a part of both, the restricted, and nobody.
ListOrder == <<jane, rest>>
ExactOf == (byId :> jane) @@ (byName :> None) @@ (byPart :> None) @@ (byRest :> None) @@ (byNone :> None)
ByLastOf == (byId :> {}) @@ (byName :> {jane, rest}) @@ (byPart :> {}) @@ (byRest :> {rest}) @@ (byNone :> {})
MatchesOf == (byId :> {jane}) @@ (byName :> {}) @@ (byPart :> Members) @@ (byRest :> {rest})
             @@ (byNone :> {})

Waiting == Permutations(Slots)
=============================================================================
