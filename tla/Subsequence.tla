----------------------------- MODULE Subsequence -----------------------------
(***************************************************************************)
(* Array.prototype.filter: the elements of a sequence that a test keeps,   *)
(* in their order.  The test is given by the indices it keeps, and the     *)
(* result by a recursive function, so that its lemmas                      *)
(* (SubsequenceProofs) serve every use.                                    *)
(***************************************************************************)
EXTENDS Integers, Sequences

Picked(s, I) ==
  LET kept[n \in 0..Len(s)] ==
        IF n = 0 THEN <<>>
        ELSE IF n \in I THEN Append(kept[n - 1], s[n]) ELSE kept[n - 1]
  IN kept[Len(s)]
=============================================================================
