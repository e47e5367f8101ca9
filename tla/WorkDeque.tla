----------------------------- MODULE WorkDeque -----------------------------
(***************************************************************************)
(* What a work-stealing deque promises (the operations of                  *)
(* src/third_party/parlay/internal/work_stealing_deque.h, as               *)
(* src/third_party/parlay/scheduler.h relies on them): the owner pushes    *)
(* and pops at one end, any thread takes at the other, each call takes     *)
(* effect at one instant, and a job is handed out once.  Taking from the   *)
(* top may fail although there are jobs; popping by the owner may not.     *)
(***************************************************************************)
EXTENDS Integers, Sequences

CONSTANTS Owner,      \* the thread the deque belongs to
          Thieves,    \* the threads that call pop_top
          MaxPushes,  \* bound on the number of jobs pushed; jobs are 1..MaxPushes
          None, Busy  \* "no job" and "a call is under way"

VARIABLES queue,   \* the jobs in the deque, oldest first
          last,    \* what the last pop of each thread returned, or Busy
          pushed   \* number of jobs pushed so far

vars == <<queue, last, pushed>>

Threads == {Owner} \cup Thieves

Init ==
  /\ queue = <<>>
  /\ last = [t \in Threads |-> None]
  /\ pushed = 0

PushBottom ==
  /\ pushed < MaxPushes
  /\ pushed' = pushed + 1
  /\ queue' = Append(queue, pushed + 1)
  /\ UNCHANGED last

\* A thread begins to pop.
Call(t) ==
  /\ last[t] # Busy
  /\ last' = [last EXCEPT ![t] = Busy]
  /\ UNCHANGED <<queue, pushed>>

\* The owner gets the youngest job, or None exactly if there is none.
PopBottom ==
  /\ last[Owner] = Busy
  /\ IF queue = <<>>
     THEN last' = [last EXCEPT ![Owner] = None] /\ UNCHANGED queue
     ELSE /\ last' = [last EXCEPT ![Owner] = queue[Len(queue)]]
          /\ queue' = SubSeq(queue, 1, Len(queue) - 1)
  /\ UNCHANGED pushed

\* Another thread gets the oldest job, or fails.
PopTop(t) ==
  /\ last[t] = Busy
  /\ \/ /\ last' = [last EXCEPT ![t] = None]
        /\ UNCHANGED queue
     \/ /\ queue # <<>>
        /\ last' = [last EXCEPT ![t] = Head(queue)]
        /\ queue' = Tail(queue)
  /\ UNCHANGED pushed

Next ==
  \/ PushBottom
  \/ PopBottom
  \/ \E t \in Threads : Call(t)
  \/ \E t \in Thieves : PopTop(t)

Spec == Init /\ [][Next]_vars
=============================================================================
