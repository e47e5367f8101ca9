------------------------------ MODULE TaskTree ------------------------------
(***************************************************************************)
(* What nested calls of pardo promise (src/third_party/parlay/scheduler.h, *)
(* fork_join_scheduler::pardo): every task of the tree runs once, after    *)
(* the task that forked it has begun, and a task ends only when both its   *)
(* halves have.  The commits of MvqStore rely on this and on nothing else. *)
(***************************************************************************)
EXTENDS Integers, Sequences

CONSTANT Forking  \* the tasks that fork, as paths: 0 to the left half, 1 to the right

VARIABLES begun, ended  \* the tasks that have begun, and ended

vars == <<begun, ended>>

Halves(n) == {Append(n, 0), Append(n, 1)}
Tasks == {<<>>} \cup UNION {Halves(n) : n \in Forking}
Forker(n) == SubSeq(n, 1, Len(n) - 1)

Init == begun = {} /\ ended = {}

Begin(n) ==
  /\ n \notin begun
  /\ n # <<>> => Forker(n) \in begun \ ended
  /\ begun' = begun \cup {n}
  /\ UNCHANGED ended

End(n) ==
  /\ n \in begun \ ended
  /\ n \in Forking => Halves(n) \subseteq ended
  /\ ended' = ended \cup {n}
  /\ UNCHANGED begun

Next == \E n \in Tasks : Begin(n) \/ End(n)

Spec == Init /\ [][Next]_vars
FairSpec == Spec /\ \A n \in Tasks : WF_vars(Begin(n) \/ End(n))
=============================================================================
