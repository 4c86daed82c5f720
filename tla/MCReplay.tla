------------------------------- MODULE MCReplay -------------------------------
(* Instances of Replay for TLC. *)
EXTENDS Replay

CONSTANTS r1, r2, k1, k2

OneKey == [r \in Runs |-> k1]
TwoKeys == [r \in Runs |-> IF r = r1 THEN k1 ELSE k2]
===============================================================================
