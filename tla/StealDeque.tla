----------------------------- MODULE StealDeque -----------------------------
(***************************************************************************)
(* The deque of Arora, Blumofe and Plaxton as parlay implements it:        *)
(* src/third_party/parlay/internal/work_stealing_deque.h.  One step is one *)
(* access to a shared variable that another thread may write in between;   *)
(* reads by the owner of what only the owner writes go with the next step. *)
(* The memory orders of the code give sequential consistency on x86.       *)
(***************************************************************************)
EXTENDS Integers, Sequences

CONSTANTS Owner, Thieves,  \* the thread the deque belongs to, the others
          QSize,           \* q_size, the number of slots
          MaxPushes,       \* bound on the number of jobs pushed
          None, Busy

ASSUME DequeAssumption ==
  /\ Owner \notin Thieves
  /\ QSize \in Nat \ {0} /\ MaxPushes \in Nat
  /\ None \notin 1..MaxPushes /\ Busy \notin 1..MaxPushes /\ None # Busy

VARIABLES bot,      \* index of the first free slot
          age,      \* [tag, top]: top is the index of the oldest job
          deq,      \* the slots
          pushed,   \* number of jobs pushed so far
          opc, own, \* what the owner is doing, and local_bot and old_age of its pop
          tpc, loc, \* the same for each thief: old_age, local_bot, job
          last      \* the job the last pop of each thread returned

vars == <<bot, age, deq, pushed, opc, own, tpc, loc, last>>

Jobs == 1..MaxPushes
Slots == 0..QSize-1
Threads == {Owner} \cup Thieves
NoLocals == [age |-> [tag |-> 0, top |-> 0], bot |-> 0, job |-> None]

Init ==
  /\ bot = 0 /\ age = [tag |-> 0, top |-> 0]
  /\ deq = [i \in Slots |-> None]
  /\ pushed = 0
  /\ opc = "idle" /\ own = NoLocals
  /\ tpc = [t \in Thieves |-> "idle"] /\ loc = [t \in Thieves |-> NoLocals]
  /\ last = [t \in Threads |-> None]

-----------------------------------------------------------------------------
(* push_bottom                                                             *)

\* The job goes to the first free slot ...
PushStore ==
  /\ opc = "idle" /\ pushed < MaxPushes
  /\ deq' = [deq EXCEPT ![bot] = pushed + 1]
  /\ opc' = "push"
  /\ UNCHANGED <<bot, age, pushed, own, tpc, loc, last>>

\* ... and becomes visible with bot; a full deque aborts the program.
PushBot ==
  /\ opc = "push"
  /\ IF bot + 1 = QSize
     THEN opc' = "aborted" /\ UNCHANGED <<bot, pushed>>
     ELSE /\ bot' = bot + 1
          /\ pushed' = pushed + 1
          /\ opc' = "idle"
  /\ UNCHANGED <<age, deq, own, tpc, loc, last>>

-----------------------------------------------------------------------------
(* pop_bottom                                                              *)

PopCall ==
  /\ opc = "idle" /\ last[Owner] # Busy
  /\ last' = [last EXCEPT ![Owner] = Busy]
  /\ opc' = "pop"
  /\ UNCHANGED <<bot, age, deq, pushed, own, tpc, loc>>

PopReturns(j) ==
  /\ last' = [last EXCEPT ![Owner] = j]
  /\ opc' = "idle"

\* bot is lowered over the youngest job, if there is one.
PopLowerBot ==
  /\ opc = "pop"
  /\ IF bot = 0
     THEN PopReturns(None) /\ UNCHANGED <<bot, own>>
     ELSE /\ bot' = bot - 1
          /\ own' = [own EXCEPT !.bot = bot - 1]
          /\ opc' = "load"
          /\ UNCHANGED last
  /\ UNCHANGED <<age, deq, pushed, tpc, loc>>

\* If no thief can have got that far the job is the owner's.
PopLoadAge_NotBelow ==
  /\ opc = "load"
  /\ own' = [own EXCEPT !.age = age]
  /\ IF own.bot >= age.top THEN PopReturns(deq[own.bot])
     ELSE opc' = "reset" /\ UNCHANGED last
  /\ UNCHANGED <<bot, age, deq, pushed, tpc, loc>>
PopLoadAge ==
  /\ opc = "load"
  /\ own' = [own EXCEPT !.age = age]
  /\ IF own.bot > age.top THEN PopReturns(deq[own.bot])
     ELSE opc' = "reset" /\ UNCHANGED last
  /\ UNCHANGED <<bot, age, deq, pushed, tpc, loc>>

\* Otherwise the deque is empty, or will be: it starts again at slot 0.
PopResetBot ==
  /\ opc = "reset"
  /\ bot' = 0
  /\ opc' = IF own.bot = own.age.top THEN "cas" ELSE "store"
  /\ UNCHANGED <<age, deq, pushed, own, tpc, loc, last>>

NewAge_SameTag == [tag |-> own.age.tag, top |-> 0]
NewAge == [tag |-> own.age.tag + 1, top |-> 0]

\* The owner and the thieves compete for the only job.
PopCas ==
  /\ opc = "cas"
  /\ IF age = own.age
     THEN age' = NewAge /\ PopReturns(deq[own.bot])
     ELSE opc' = "store" /\ UNCHANGED <<age, last>>
  /\ UNCHANGED <<bot, deq, pushed, own, tpc, loc>>

PopStoreAge ==
  /\ opc = "store"
  /\ age' = NewAge
  /\ PopReturns(None)
  /\ UNCHANGED <<bot, deq, pushed, own, tpc, loc>>

-----------------------------------------------------------------------------
(* pop_top, by thief t                                                     *)

TopLoadAge(t) ==
  /\ tpc[t] = "idle"
  /\ loc' = [loc EXCEPT ![t].age = age]
  /\ last' = [last EXCEPT ![t] = Busy]
  /\ tpc' = [tpc EXCEPT ![t] = "bot"]
  /\ UNCHANGED <<bot, age, deq, pushed, opc, own>>

TopReturns(t, j) ==
  /\ last' = [last EXCEPT ![t] = j]
  /\ tpc' = [tpc EXCEPT ![t] = "idle"]

TopLoadBot(t) ==
  /\ tpc[t] = "bot"
  /\ loc' = [loc EXCEPT ![t].bot = bot]
  /\ IF bot > loc[t].age.top
     THEN tpc' = [tpc EXCEPT ![t] = "job"] /\ UNCHANGED last
     ELSE TopReturns(t, None)
  /\ UNCHANGED <<bot, age, deq, pushed, opc, own>>

TopLoadJob(t) ==
  /\ tpc[t] = "job"
  /\ loc' = [loc EXCEPT ![t].job = deq[loc[t].age.top]]
  /\ tpc' = [tpc EXCEPT ![t] = "cas"]
  /\ UNCHANGED <<bot, age, deq, pushed, opc, own, last>>

TopCas(t) ==
  /\ tpc[t] = "cas"
  /\ IF age = loc[t].age
     THEN age' = [age EXCEPT !.top = @ + 1] /\ TopReturns(t, loc[t].job)
     ELSE TopReturns(t, None) /\ UNCHANGED age
  /\ UNCHANGED <<bot, deq, pushed, opc, own, loc>>

-----------------------------------------------------------------------------
PopBottom == PopCall \/ PopLowerBot \/ PopLoadAge \/ PopResetBot \/ PopCas \/ PopStoreAge
PopTop(t) == TopLoadAge(t) \/ TopLoadBot(t) \/ TopLoadJob(t) \/ TopCas(t)

Next == PushStore \/ PushBot \/ PopBottom \/ \E t \in Thieves : PopTop(t)

Spec == Init /\ [][Next]_vars

-----------------------------------------------------------------------------
(* Properties.                                                             *)

\* The end of the deque: while the owner pops, its job still counts, until it is
\* decided who gets it.
End == IF opc \in {"load", "reset", "cas", "store"} THEN own.bot + 1 ELSE bot
Slice(d, from, to) == [i \in 1..(to - from) |-> d[from + i - 1]]
Queue == Slice(deq, age.top, End)

Abstract == INSTANCE WorkDeque WITH queue <- Queue

\* The deque is linearizable: jobs come out at the owner's end youngest first, at
\* the other oldest first, each once, and the owner gets None only from an empty
\* deque, which is how pardo learns that its right half was stolen.
ImplementsWorkDeque == Abstract!Spec

Pcs == {"idle", "push", "aborted", "pop", "load", "reset", "cas", "store"}
AgeType == [tag : Nat, top : Nat]
LocalsType == [age : AgeType, bot : Slots, job : Jobs \cup {None}]

\* The types of the shared words and of the locals.
TypeOK ==
  /\ bot \in Slots
  /\ age \in AgeType
  /\ deq \in [Slots -> Jobs \cup {None}]
  /\ pushed \in 0..MaxPushes
  /\ opc \in Pcs /\ own \in LocalsType
  /\ tpc \in [Thieves -> {"idle", "bot", "job", "cas"}] /\ loc \in [Thieves -> LocalsType]
  /\ last \in [Threads -> Jobs \cup {None, Busy}]

\* Where the owner is in pop_bottom says how bot and age lie to each other.
OwnerIsOnTheWay ==
  /\ opc \in {"idle", "push", "aborted", "pop"} => age.top <= bot
  /\ opc = "push" => pushed < MaxPushes
  /\ opc = "load" => bot = own.bot /\ age.top <= own.bot + 1
  /\ opc = "reset" => bot = own.bot /\ own.bot <= own.age.top
  /\ opc = "cas" => bot = 0 /\ own.bot = own.age.top
  /\ opc \in {"reset", "cas"} => own.age.top <= age.top /\ age.top <= own.bot + 1
  /\ opc = "store" => bot = 0 /\ age.top = own.bot + 1
  /\ opc \in {"reset", "cas", "store"} => own.age.tag = age.tag

\* The tag tells a thief that the deque was started again: what it read under the
\* present tag lies in the past of the present top.
AgesGrow ==
  \A t \in Thieves : tpc[t] # "idle" =>
    /\ loc[t].age.tag <= age.tag
    /\ loc[t].age.tag = age.tag => loc[t].age.top <= age.top

\* A thief whose compare_exchange would succeed now has read the job that is the
\* oldest now, and that job is still in the deque, although bot and the slots may have
\* changed any number of times since it read them.
ThievesAreRight ==
  \A t \in Thieves : tpc[t] \in {"job", "cas"} =>
    /\ loc[t].age.top < loc[t].bot
    /\ loc[t].age = age =>
         /\ age.top < End
         /\ tpc[t] = "cas" => loc[t].job = deq[age.top]

\* A pop is under way exactly while its thread is inside, and a push that is not
\* visible yet has left its job where bot will uncover it.
CallsAreOpen ==
  /\ last[Owner] = Busy <=> opc \in {"pop", "load", "reset", "cas", "store"}
  /\ \A t \in Thieves : last[t] = Busy <=> tpc[t] # "idle"
  /\ opc = "push" => deq[bot] = pushed + 1

IInv == TypeOK /\ OwnerIsOnTheWay /\ AgesGrow /\ ThievesAreRight /\ CallsAreOpen
=============================================================================
