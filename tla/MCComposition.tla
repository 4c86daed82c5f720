----------------------------- MODULE MCComposition -----------------------------
(* Composition for TLC: `file` confirms and uses the read-only `lookup`; `both` uses    *)
(* `file` twice.  In the second catalog `lookup` uses itself and the others each other; in the *)
(* third `lookup` cannot pass `file` all that it needs, and what `both` uses is not there. *)
EXTENDS Composition, TLC

CONSTANTS lookup, file, both

MCParams == (lookup :> {"memberId"}) @@ (file :> {"memberId", "product"})
                @@ (both :> {"memberId", "product"})
MCKeyFrom == (lookup :> {"memberId"}) @@ (file :> {"memberId"})
                @@ (both :> {"memberId", "product"})

Using(id, pass) == [id |-> id, pass |-> pass]
TwoFiles == <<Using(file, {"memberId", "product"}), Using(file, {"memberId", "product"})>>
MCCatalogs ==
    {(lookup :> <<>>) @@ (file :> <<Using(lookup, {"memberId"})>>) @@ (both :> TwoFiles),
     (lookup :> <<Using(lookup, {"memberId"})>>) @@ (file :> <<Using(both, {"memberId", "product"})>>)
                @@ (both :> <<Using(file, {"memberId", "product"})>>),
     (lookup :> <<Using(file, {"memberId", "product"})>>) @@ (file :> <<>>)
                @@ (both :> <<Using("missing", {})>>)}

Member(m) == "memberId" :> m
MCGiven == {Member("123"), Member("123") @@ ("product" :> "text"),
            Member("123") @@ ("product" :> ""), Member("text") @@ ("product" :> "text"),
            Member("123") @@ ("product" :> "text") @@ ("other" :> "text")}

Chosen(l, d, p) == [ledger |-> l, dryRun |-> d, probe |-> p]
MCChoices == {Chosen(TRUE, FALSE, FALSE), Chosen(FALSE, FALSE, TRUE), Chosen(TRUE, TRUE, FALSE)}

\* The second is the threshold itself.
MCHits == {[targeted |-> 20, fallback |-> 0], [targeted |-> 20, fallback |-> 3]}
=============================================================================
