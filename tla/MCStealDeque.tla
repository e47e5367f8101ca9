---------------------------- MODULE MCStealDeque ----------------------------
(* Two thieves compete with the owner, for jobs in few slots, so that each   *)
(* slot is used again and again.                                             *)
EXTENDS StealDeque, TLC

CONSTANTS t1, t2

TwoThieves == {t1, t2}
ThiefSymmetry == Permutations(TwoThieves)
=============================================================================
