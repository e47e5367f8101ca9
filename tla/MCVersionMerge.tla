--------------------------- MODULE MCVersionMerge ---------------------------
(* Two ids, each of which may lie at two places of one cell or in another.  *)
EXTENDS SortedLoops

TwoIds == {[id |-> i, code |-> pos[1], at |-> pos[2]] :
             i \in 1..2, pos \in {<<0, 0>>, <<0, 1>>, <<1, 0>>}}
=============================================================================
