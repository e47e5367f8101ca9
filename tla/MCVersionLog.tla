---------------------------- MODULE MCVersionLog ----------------------------
(* Three ids at two places; branches may differ about the place of one.      *)
EXTENDS PkdLog

FourValues == {[id |-> 1, at |-> "a"], [id |-> 1, at |-> "b"],
               [id |-> 2, at |-> "a"], [id |-> 3, at |-> "b"]}
=============================================================================
