---------------------------- MODULE MCBenchReplay ----------------------------
(* Three ids, at three places, two of them in one finest cell.               *)
EXTENDS BenchReplay

CellOf == [p \in {"a", "b", "c"} |-> IF p = "c" THEN 2 ELSE 1]
BaseData == {[id |-> 1, at |-> "a"], [id |-> 2, at |-> "c"]}
Everywhere == {"a", "b", "c"}
Unset == {}
=============================================================================
