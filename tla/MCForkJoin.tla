----------------------------- MODULE MCForkJoin -----------------------------
(* Pardos nested two and three deep, one of them conservative, and three       *)
(* threads to run them.                                                      *)
EXTENDS ForkJoin

CONSTANTS m, w1, w2

ThreeThreads == {m, w1, w2}

Deep == {<<>>, <<0>>, <<1>>, <<0, 0>>, <<1, 1>>}
RightHalf == {<<1>>}
=============================================================================
