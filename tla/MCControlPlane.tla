---------------------------- MODULE MCControlPlane ----------------------------
(***************************************************************************)
(* Small instances of ControlPlane.                                        *)
(***************************************************************************)
EXTENDS ControlPlane, TLC

CONSTANTS s1, s2, p1, p2, teller01, teller02

\* Two runs on one session: the second escalation is refused.
OneSession == p1 :> s1 @@ p2 :> s1

\* A session for each run: the console can show two open slots.
TwoSessions == p1 :> s1 @@ p2 :> s2

TwoTellersAndBlank == {teller01, teller02, Blank}

\* Ids are interchangeable, and so are the tellers (safety runs only).
Sym == Permutations(Ids) \cup Permutations({teller01, teller02})
===============================================================================
