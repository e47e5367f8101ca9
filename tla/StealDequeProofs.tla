-------------------------- MODULE StealDequeProofs --------------------------
(***************************************************************************)
(* The deque is linearizable for any number of thieves, slots and pushes.  *)
(***************************************************************************)
EXTENDS StealDeque, TLAPS

\* Two ages with the same tag and the same top are one.
LEMMA SameAge ==
  ASSUME NEW a \in AgeType, NEW b \in AgeType, a.tag = b.tag, a.top = b.top
  PROVE  a = b
BY DEF AgeType

\* The initial deque.
LEMMA InitInv == Init => IInv
BY DequeAssumption
   DEF Init, IInv, TypeOK, OwnerIsOnTheWay, AgesGrow, ThievesAreRight, CallsAreOpen, Slots, Jobs, Threads,
       NoLocals, AgeType, LocalsType, Pcs, End

\* No step of the owner or of a thief leads out of the types.
LEMMA StepTypeOK == IInv /\ [Next]_vars => TypeOK'
<1> USE DequeAssumption DEF TypeOK, Slots, Jobs, Threads, AgeType, LocalsType, Pcs
<1> SUFFICES ASSUME IInv, [Next]_vars PROVE TypeOK'
  OBVIOUS
<1>0. TypeOK /\ OwnerIsOnTheWay /\ ThievesAreRight
  BY DEF IInv
<1>1. CASE PushStore
  BY <1>0, <1>1 DEF PushStore
<1>2. CASE PushBot
  BY <1>0, <1>2 DEF PushBot, OwnerIsOnTheWay
<1>3. CASE PopCall
  BY <1>0, <1>3 DEF PopCall
<1>4. CASE PopLowerBot
  <2>1. CASE bot = 0
    BY <1>0, <1>4, <2>1 DEF PopLowerBot, PopReturns
  <2>2. CASE bot # 0
    <3> HIDE DEF Slots, LocalsType
    <3>1. bot - 1 \in Slots
      BY <1>0, <2>2 DEF Slots
    <3>2. own' \in LocalsType
      BY <1>0, <1>4, <2>2, <3>1 DEF PopLowerBot, LocalsType
    <3> QED
      BY <1>0, <1>4, <2>2, <3>1, <3>2 DEF PopLowerBot
  <2> QED
    BY <2>1, <2>2
<1>5. CASE PopLoadAge
  BY <1>0, <1>5 DEF PopLoadAge, PopReturns
<1>6. CASE PopResetBot
  BY <1>0, <1>6 DEF PopResetBot
<1>7. CASE PopCas
  BY <1>0, <1>7 DEF PopCas, PopReturns, NewAge
<1>8. CASE PopStoreAge
  BY <1>0, <1>8 DEF PopStoreAge, PopReturns, NewAge
<1>9. ASSUME NEW t \in Thieves, TopLoadAge(t) PROVE TypeOK'
  BY <1>0, <1>9 DEF TopLoadAge
<1>10. ASSUME NEW t \in Thieves, TopLoadBot(t) PROVE TypeOK'
  BY <1>0, <1>10 DEF TopLoadBot, TopReturns
<1>11. ASSUME NEW t \in Thieves, TopLoadJob(t) PROVE TypeOK'
  <2>1. loc[t].age.top \in Slots
    BY <1>0, <1>11 DEF ThievesAreRight, TopLoadJob
  <2> QED
    BY <1>0, <1>11, <2>1 DEF TopLoadJob
<1>12. ASSUME NEW t \in Thieves, TopCas(t) PROVE TypeOK'
  <2>1. age' \in AgeType
    BY <1>0, <1>12 DEF TopCas
  <2>2. last' \in [Threads -> Jobs \cup {None, Busy}]
    <3>1. loc[t].job \in Jobs \cup {None} /\ t \in Threads
      BY <1>0
    <3> HIDE DEF Jobs, Threads
    <3> QED
      BY <1>0, <1>12, <3>1 DEF TopCas, TopReturns
  <2> QED
    BY <1>0, <1>12, <2>1, <2>2 DEF TopCas, TopReturns
<1>13. CASE UNCHANGED vars
  BY <1>0, <1>13 DEF vars
<1> QED
  BY <1>1, <1>2, <1>3, <1>4, <1>5, <1>6, <1>7, <1>8, <1>9, <1>10, <1>11, <1>12, <1>13
     DEF Next, PopBottom, PopTop

\* The owner's place in pop_bottom keeps telling how bot and age lie.
LEMMA StepOwner == IInv /\ [Next]_vars => OwnerIsOnTheWay'
<1> USE DequeAssumption DEF TypeOK, Slots, AgeType, LocalsType, Pcs, OwnerIsOnTheWay
<1> SUFFICES ASSUME IInv, [Next]_vars PROVE OwnerIsOnTheWay'
  OBVIOUS
<1>0. TypeOK /\ OwnerIsOnTheWay /\ ThievesAreRight
  BY DEF IInv
<1>1. CASE PushStore
  BY <1>0, <1>1 DEF PushStore
<1>2. CASE PushBot
  BY <1>0, <1>2 DEF PushBot
<1>3. CASE PopCall
  BY <1>0, <1>3 DEF PopCall
<1>4. CASE PopLowerBot
  BY <1>0, <1>4 DEF PopLowerBot, PopReturns
<1>5. CASE PopLoadAge
  BY <1>0, <1>5 DEF PopLoadAge, PopReturns
<1>6. CASE PopResetBot
  BY <1>0, <1>6 DEF PopResetBot
<1>7. CASE PopCas
  <2>1. CASE age = own.age
    BY <1>0, <1>7, <2>1 DEF PopCas, PopReturns, NewAge
  <2>2. CASE age # own.age
    <3>1. age.top # own.age.top
      BY <1>0, <1>7, <2>2, SameAge DEF PopCas
    <3> QED
      BY <1>0, <1>7, <2>2, <3>1 DEF PopCas
  <2> QED
    BY <2>1, <2>2
<1>8. CASE PopStoreAge
  BY <1>0, <1>8 DEF PopStoreAge, PopReturns, NewAge
<1>9. ASSUME NEW t \in Thieves, TopLoadAge(t) PROVE OwnerIsOnTheWay'
  BY <1>0, <1>9 DEF TopLoadAge
<1>10. ASSUME NEW t \in Thieves, TopLoadBot(t) PROVE OwnerIsOnTheWay'
  BY <1>0, <1>10 DEF TopLoadBot
<1>11. ASSUME NEW t \in Thieves, TopLoadJob(t) PROVE OwnerIsOnTheWay'
  BY <1>0, <1>11 DEF TopLoadJob
<1>12. ASSUME NEW t \in Thieves, TopCas(t) PROVE OwnerIsOnTheWay'
  <2>1. CASE age = loc[t].age
    <3>1. age.top < End
      BY <1>0, <1>12, <2>1 DEF ThievesAreRight, TopCas
    <3>2. age'.top = age.top + 1 /\ age'.tag = age.tag
      BY <1>0, <1>12, <2>1 DEF TopCas
    <3> QED
      BY <1>0, <1>12, <2>1, <3>1, <3>2 DEF TopCas, End
  <2>2. CASE age # loc[t].age
    BY <1>0, <1>12, <2>2 DEF TopCas
  <2> QED
    BY <2>1, <2>2
<1>13. CASE UNCHANGED vars
  BY <1>0, <1>13 DEF vars
<1> QED
  BY <1>1, <1>2, <1>3, <1>4, <1>5, <1>6, <1>7, <1>8, <1>9, <1>10, <1>11, <1>12, <1>13
     DEF Next, PopBottom, PopTop

\* A step changes age only to a later one: a higher top under the same tag, or a
\* higher tag.
LEMMA AgeGrows ==
  ASSUME IInv, [Next]_vars
  PROVE  \/ age' = age
         \/ age'.tag = age.tag /\ age'.top = age.top + 1
         \/ age'.tag = age.tag + 1
<1> USE DequeAssumption DEF TypeOK, AgeType, LocalsType
<1>0. TypeOK /\ OwnerIsOnTheWay
  BY DEF IInv
<1>1. CASE PopCas
  BY <1>0, <1>1 DEF PopCas, NewAge, OwnerIsOnTheWay
<1>2. CASE PopStoreAge
  BY <1>0, <1>2 DEF PopStoreAge, NewAge, OwnerIsOnTheWay
<1>3. ASSUME NEW t \in Thieves, TopCas(t)
      PROVE  age' = age \/ (age'.tag = age.tag /\ age'.top = age.top + 1)
  <2>1. CASE age = loc[t].age
    BY <1>0, <1>3, <2>1 DEF TopCas
  <2>2. CASE age # loc[t].age
    BY <1>3, <2>2 DEF TopCas
  <2> QED
    BY <2>1, <2>2
<1>4. CASE ~PopCas /\ ~PopStoreAge /\ \A t \in Thieves : ~TopCas(t)
  BY <1>4 DEF Next, PopBottom, PopTop, PushStore, PushBot, PopCall, PopLowerBot, PopLoadAge,
              PopResetBot, TopLoadAge, TopLoadBot, TopLoadJob, vars
<1> QED
  BY <1>1, <1>2, <1>3, <1>4

\* What a thief has read of age stays in the past.
LEMMA StepAgesGrow == IInv /\ [Next]_vars => AgesGrow'
<1> USE DequeAssumption DEF TypeOK, AgeType, LocalsType, AgesGrow
<1> SUFFICES ASSUME IInv, [Next]_vars, NEW t \in Thieves, tpc'[t] # "idle"
             PROVE  (/\ loc[t].age.tag <= age.tag
                     /\ loc[t].age.tag = age.tag => loc[t].age.top <= age.top)'
  OBVIOUS
<1>0. TypeOK /\ AgesGrow /\ TypeOK'
  BY StepTypeOK DEF IInv
<1>1. CASE TopLoadAge(t)
  BY <1>0, <1>1 DEF TopLoadAge
<1>2. CASE ~TopLoadAge(t)
  <2>1. loc'[t].age = loc[t].age /\ tpc[t] # "idle"
    BY <1>0, <1>2 DEF Next, PopBottom, PopTop, PushStore, PushBot, PopCall, PopLowerBot,
       PopLoadAge, PopResetBot, PopCas, PopStoreAge, TopLoadAge, TopLoadBot, TopLoadJob,
       TopCas, TopReturns, vars
  <2> QED
    BY <1>0, <2>1, AgeGrows
<1> QED
  BY <1>1, <1>2

\* A thief about to succeed still holds the oldest job.
LEMMA StepThievesAreRight == IInv /\ [Next]_vars => ThievesAreRight'
<1> USE DequeAssumption DEF TypeOK, Slots, AgeType, LocalsType, Pcs
<1> SUFFICES ASSUME IInv, [Next]_vars, NEW t \in Thieves, tpc'[t] \in {"job", "cas"}
             PROVE  (/\ loc[t].age.top < loc[t].bot
                     /\ loc[t].age = age =>
                          /\ age.top < End
                          /\ tpc[t] = "cas" => loc[t].job = deq[age.top])'
  BY DEF ThievesAreRight
<1>0. TypeOK /\ OwnerIsOnTheWay /\ AgesGrow /\ ThievesAreRight
  BY DEF IInv
<1>1. CASE TopLoadBot(t)
  BY <1>0, <1>1 DEF TopLoadBot, TopReturns, OwnerIsOnTheWay, End
<1>2. CASE TopLoadJob(t)
  BY <1>0, <1>2 DEF TopLoadJob, ThievesAreRight, End
<1>3. CASE ~TopLoadBot(t) /\ ~TopLoadJob(t)
  <2>1. loc'[t] = loc[t] /\ tpc'[t] = tpc[t]
    BY <1>0, <1>3, SMTT(30) DEF Next, PopBottom, PopTop, PushStore, PushBot, PopCall, PopLowerBot,
       PopLoadAge, PopResetBot, PopCas, PopStoreAge, TopLoadAge, TopLoadBot, TopLoadJob,
       TopCas, TopReturns, vars
  <2>2. loc[t].age.top < loc[t].bot
    BY <1>0, <2>1 DEF ThievesAreRight
  <2>3. SUFFICES ASSUME loc[t].age = age'
                 PROVE  age.top < End' /\ age' = age
                        /\ (tpc[t] = "cas" => deq'[age.top] = deq[age.top])
    BY <1>0, <2>1, <2>2 DEF ThievesAreRight
  <2>4. age' = age
    <3>1. age' = loc[t].age
      BY <2>3
    <3>2. tpc[t] # "idle"
      BY <2>1
    <3>3. /\ age'.tag \in Nat /\ age'.top \in Nat /\ age.tag \in Nat /\ age.top \in Nat
          /\ age'.tag <= age.tag /\ (age'.tag = age.tag => age'.top <= age.top)
      BY <1>0, <3>1, <3>2 DEF AgesGrow
    <3> HIDE DEF TypeOK, Slots, AgeType, LocalsType, Pcs
    <3> QED
      BY <3>3, AgeGrows
  <2>5. age.top < End /\ (tpc[t] = "cas" => loc[t].job = deq[age.top])
    BY <1>0, <2>1, <2>3, <2>4 DEF ThievesAreRight
  <2>6. CASE PushStore
    BY <1>0, <2>4, <2>5, <2>6 DEF PushStore, End
  <2>7. CASE ~PushStore
    <3>1. deq' = deq
      BY <2>7 DEF Next, PopBottom, PopTop, PushBot, PopCall, PopLowerBot,
         PopLoadAge, PopResetBot, PopCas, PopStoreAge, TopLoadAge, TopLoadBot, TopLoadJob,
         TopCas, TopReturns, vars
    <3>2. age.top < End'
      <4>1. CASE PushBot
        BY <1>0, <2>5, <4>1 DEF PushBot, End
      <4>2. CASE PopCall
        BY <1>0, <2>5, <4>2 DEF PopCall, End
      <4>3. CASE PopLowerBot
        BY <1>0, <2>5, <4>3 DEF PopLowerBot, PopReturns, End
      <4>4. CASE PopLoadAge
        BY <1>0, <2>5, <4>4 DEF PopLoadAge, PopReturns, End, OwnerIsOnTheWay
      <4>5. CASE PopResetBot
        BY <1>0, <2>5, <4>5 DEF PopResetBot, End
      <4>6. CASE PopCas
        <5>1. age # own.age
          BY <1>0, <2>4, <4>6 DEF PopCas, NewAge
        <5> QED
          BY <1>0, <2>5, <4>6, <5>1 DEF PopCas, End
      <4>7. CASE PopStoreAge
        BY <1>0, <2>4, <4>7 DEF PopStoreAge, NewAge, OwnerIsOnTheWay
      <4>8. CASE UNCHANGED <<bot, opc, own>>
        BY <2>5, <4>8 DEF End
      <4> QED
        BY <2>7, <4>1, <4>2, <4>3, <4>4, <4>5, <4>6, <4>7, <4>8
           DEF Next, PopBottom, PopTop, TopLoadAge, TopLoadBot, TopLoadJob, TopCas, vars
    <3> QED
      BY <2>4, <3>1, <3>2
  <2> QED
    BY <2>4, <2>5, <2>6, <2>7
<1> QED
  BY <1>1, <1>2, <1>3

\* Calls begin and end where last says so.
LEMMA StepCalls == IInv /\ [Next]_vars => CallsAreOpen'
<1> USE DequeAssumption DEF TypeOK, Slots, Jobs, Threads, CallsAreOpen
<1> SUFFICES ASSUME IInv, [Next]_vars PROVE CallsAreOpen'
  OBVIOUS
<1>0. TypeOK /\ OwnerIsOnTheWay /\ CallsAreOpen
  BY DEF IInv
<1>1. CASE PushStore
  BY <1>0, <1>1 DEF PushStore
<1>2. CASE PushBot
  BY <1>0, <1>2 DEF PushBot
<1>3. CASE PopCall
  BY <1>0, <1>3 DEF PopCall
<1>4. CASE PopLowerBot
  BY <1>0, <1>4 DEF PopLowerBot, PopReturns
<1>5. CASE PopLoadAge
  <2>1. deq[own.bot] # Busy
    BY <1>0, <1>5 DEF PopLoadAge, LocalsType
  <2> QED
    BY <1>0, <1>5, <2>1 DEF PopLoadAge, PopReturns
<1>6. CASE PopResetBot
  BY <1>0, <1>6 DEF PopResetBot
<1>7. CASE PopCas
  <2>1. deq[own.bot] # Busy
    BY <1>0, <1>7 DEF PopCas, LocalsType
  <2> QED
    BY <1>0, <1>7, <2>1 DEF PopCas, PopReturns
<1>8. CASE PopStoreAge
  BY <1>0, <1>8 DEF PopStoreAge, PopReturns
<1>9. ASSUME NEW t \in Thieves, TopLoadAge(t) PROVE CallsAreOpen'
  BY <1>0, <1>9 DEF TopLoadAge
<1>10. ASSUME NEW t \in Thieves, TopLoadBot(t) PROVE CallsAreOpen'
  BY <1>0, <1>10 DEF TopLoadBot, TopReturns
<1>11. ASSUME NEW t \in Thieves, TopLoadJob(t) PROVE CallsAreOpen'
  BY <1>0, <1>11 DEF TopLoadJob
<1>12. ASSUME NEW t \in Thieves, TopCas(t) PROVE CallsAreOpen'
  <2>1. loc[t].job # Busy
    BY <1>0, <1>12 DEF LocalsType
  <2> QED
    BY <1>0, <1>12, <2>1 DEF TopCas, TopReturns
<1>13. CASE UNCHANGED vars
  BY <1>0, <1>13 DEF vars
<1> QED
  BY <1>1, <1>2, <1>3, <1>4, <1>5, <1>6, <1>7, <1>8, <1>9, <1>10, <1>11, <1>12, <1>13
     DEF Next, PopBottom, PopTop

\* Steps preserve the inductive invariant.
LEMMA StepInv == IInv /\ [Next]_vars => IInv'
BY StepTypeOK, StepOwner, StepAgesGrow, StepThievesAreRight, StepCalls DEF IInv

\* The inductive invariant of the deque: whatever was read from age, bot and the slots
\* earlier, a compare_exchange that succeeds takes the job that is the oldest then.
THEOREM IInvHolds == Spec => []IInv
BY InitInv, StepInv, PTL DEF Spec

\* The words of the deque keep their types; in particular bot stays within the slots.
THEOREM TypeCorrectness == Spec => []TypeOK
<1>1. IInv => TypeOK
  BY DEF IInv
<1> QED
  BY IInvHolds, <1>1, PTL

-----------------------------------------------------------------------------
(* The refinement: a step of the deque is a step of the queue, or none.    *)

\* Pushing lengthens the slice at its end.
LEMMA SlicePush ==
  ASSUME NEW d, NEW from \in Nat, NEW to \in Nat, from <= to
  PROVE  Slice(d, from, to + 1) = Append(Slice(d, from, to), d[to])
BY DEF Slice

\* An empty slice and no other is the empty sequence.
LEMMA SliceEmpty ==
  ASSUME NEW d, NEW from \in Nat, NEW to \in Nat, from <= to
  PROVE  Slice(d, from, to) = <<>> <=> from = to
BY DEF Slice

\* Its last element, and what is left without it.
LEMMA SliceBottom ==
  ASSUME NEW d, NEW from \in Nat, NEW to \in Nat, from < to
  PROVE  /\ Slice(d, from, to)[Len(Slice(d, from, to))] = d[to - 1]
         /\ Slice(d, from, to - 1) = SubSeq(Slice(d, from, to), 1, Len(Slice(d, from, to)) - 1)
<1>1. Slice(d, from, to)[Len(Slice(d, from, to))] = d[to - 1]
  BY DEF Slice
<1>2. Slice(d, from, to - 1) = SubSeq(Slice(d, from, to), 1, Len(Slice(d, from, to)) - 1)
  BY DEF Slice
<1> QED
  BY <1>1, <1>2

\* Its first element, and what is left without it.
LEMMA SliceTop ==
  ASSUME NEW d, NEW from \in Nat, NEW to \in Nat, from < to
  PROVE  /\ Head(Slice(d, from, to)) = d[from]
         /\ Slice(d, from + 1, to) = Tail(Slice(d, from, to))
<1> DEFINE s == Slice(d, from, to)
<1>1. Head(s) = d[from]
  BY DEF Slice
<1>2. Tail(s) = [i \in 1..(Len(s) - 1) |-> s[i + 1]]
  BY DEF Slice
<1>3. Len(s) = to - from
  BY DEF Slice
<1>4. \A i \in 1..(to - (from + 1)) : s[i + 1] = d[from + 1 + i - 1]
  BY DEF Slice
<1>5. to - (from + 1) = Len(s) - 1
  BY <1>3
<1> HIDE DEF s
<1>6. Slice(d, from + 1, to) = Tail(s)
  BY <1>2, <1>4, <1>5 DEF Slice
<1> QED
  BY <1>1, <1>6 DEF s

\* A slice depends on the slots it covers only.
LEMMA SliceSame ==
  ASSUME NEW d, NEW e, NEW from \in Nat, NEW to \in Nat, \A i \in from..to-1 : d[i] = e[i]
  PROVE  Slice(d, from, to) = Slice(e, from, to)
BY DEF Slice

\* The top never passes the end.
LEMMA TopBelowEnd ==
  ASSUME IInv
  PROVE  age.top \in Nat /\ End \in Nat /\ age.top <= End
BY DEF IInv, TypeOK, AgeType, LocalsType, Slots, Pcs, OwnerIsOnTheWay, End

\* The empty deque is the empty queue.
LEMMA InitRefines == Init => Abstract!Init
<1> SUFFICES ASSUME Init PROVE Abstract!Init
  OBVIOUS
<1>1. age.top = 0 /\ End = 0
  BY DEF Init, End
<1>2. Queue = <<>>
  BY <1>1, SliceEmpty DEF Queue
<1> QED
  BY <1>2 DEF Init, Abstract!Init, Threads, Abstract!Threads

\* A step of one thread is one step of the queue, or none.
LEMMA StepRefines == IInv /\ [Next]_vars => [Abstract!Next]_(Abstract!vars)
<1> USE DequeAssumption
<1> SUFFICES ASSUME IInv, [Next]_vars PROVE [Abstract!Next]_(Abstract!vars)
  OBVIOUS
<1> DEFINE Stutter == UNCHANGED <<Queue, last, pushed>>
<1>s. Stutter => [Abstract!Next]_(Abstract!vars)
  BY DEF Abstract!vars
<1>0. /\ TypeOK /\ OwnerIsOnTheWay /\ ThievesAreRight /\ CallsAreOpen
      /\ age.top \in Nat /\ End \in Nat /\ age.top <= End
  BY TopBelowEnd DEF IInv
<1>q. ASSUME UNCHANGED <<age, deq>>, End' = End PROVE Queue' = Queue
  BY <1>q DEF Queue
<1>1. CASE PushStore
  <2>1. UNCHANGED <<age, bot, opc, own>> \/ End' = End
    BY <1>0, <1>1 DEF PushStore, End
  <2>2. End' = End /\ age' = age
    BY <1>0, <1>1 DEF PushStore, End
  <2>3. \A i \in age.top..End-1 : deq'[i] = deq[i]
    BY <1>0, <1>1 DEF PushStore, End, TypeOK, Slots
  <2>4. Queue' = Queue
    BY <1>0, <2>2, <2>3, SliceSame DEF Queue
  <2> QED
    BY <1>1, <1>s, <2>4 DEF PushStore
<1>2. CASE PushBot
  <2>1. CASE bot + 1 = QSize
    <3>1. End' = End
      BY <1>2, <2>1 DEF PushBot, End
    <3> QED
      BY <1>2, <1>s, <1>q, <2>1, <3>1 DEF PushBot
  <2>2. CASE bot + 1 # QSize
    <3>1. End = bot /\ End' = End + 1 /\ age' = age /\ deq' = deq /\ deq[End] = pushed + 1
      BY <1>0, <1>2, <2>2 DEF PushBot, End, CallsAreOpen
    <3>2. Queue' = Append(Queue, pushed + 1)
      <4>1. Queue' = Slice(deq, age.top, End + 1)
        BY <3>1 DEF Queue
      <4>2. Slice(deq, age.top, End + 1) = Append(Queue, deq[End])
        BY <1>0, SlicePush DEF Queue
      <4>3. deq[End] = pushed + 1
        BY <3>1
      <4> QED
        BY <4>1, <4>2, <4>3
    <3>3. pushed < MaxPushes
      BY <1>0, <1>2 DEF PushBot, OwnerIsOnTheWay
    <3>4. Abstract!PushBottom
      BY <1>2, <2>2, <3>2, <3>3 DEF PushBot, Abstract!PushBottom
    <3> QED
      BY <3>4 DEF Abstract!Next
  <2> QED
    BY <2>1, <2>2
<1>3. CASE PopCall
  <2>1. End' = End
    BY <1>3 DEF PopCall, End
  <2>2. Abstract!Call(Owner)
    BY <1>3, <1>q, <2>1 DEF PopCall, Abstract!Call
  <2> QED
    BY <2>2 DEF Abstract!Next, Abstract!Threads
<1>4. CASE PopLowerBot
  <2>1. CASE bot = 0
    <3>1. End' = End /\ End = 0 /\ age.top = 0
      BY <1>0, <1>4, <2>1 DEF PopLowerBot, PopReturns, End
    <3>2. Queue' = Queue /\ Queue = <<>>
      BY <1>0, <1>4, <1>q, <3>1, SliceEmpty DEF PopLowerBot, Queue
    <3>3. last[Owner] = Busy
      BY <1>0, <1>4 DEF PopLowerBot, CallsAreOpen
    <3>4. Abstract!PopBottom
      BY <1>4, <2>1, <3>2, <3>3 DEF PopLowerBot, PopReturns, Abstract!PopBottom
    <3> QED
      BY <3>4 DEF Abstract!Next
  <2>2. CASE bot # 0
    <3>1. End' = End
      BY <1>0, <1>4, <2>2 DEF PopLowerBot, End, TypeOK, Slots, LocalsType
    <3> QED
      BY <1>4, <1>s, <1>q, <2>2, <3>1 DEF PopLowerBot
  <2> QED
    BY <2>1, <2>2
<1>5. CASE PopLoadAge
  <2>1. CASE own.bot > age.top
    <3>1. End = own.bot + 1 /\ End' = End - 1 /\ age.top < End /\ age' = age /\ deq' = deq
      <4>1. opc = "load" /\ opc' = "idle" /\ UNCHANGED <<bot, age, deq>>
        BY <1>5, <2>1 DEF PopLoadAge, PopReturns
      <4>2. own.bot \in Nat /\ bot = own.bot
        BY <1>0, <4>1 DEF OwnerIsOnTheWay, TypeOK, Slots, LocalsType
      <4>3. End = own.bot + 1 /\ End' = bot'
        BY <4>1 DEF End
      <4> QED
        BY <1>0, <2>1, <4>1, <4>2, <4>3
    <3>2. /\ Queue # <<>> /\ Queue[Len(Queue)] = deq[own.bot]
          /\ Queue' = SubSeq(Queue, 1, Len(Queue) - 1)
      <4>1. deq[own.bot] = deq[End - 1]
        BY <1>0, <3>1 DEF TypeOK, LocalsType, Slots
      <4> QED
        BY <1>0, <3>1, <4>1, SliceEmpty, SliceBottom, SMTT(30) DEF Queue
    <3>3. last[Owner] = Busy
      BY <1>0, <1>5 DEF PopLoadAge, CallsAreOpen
    <3>4. Abstract!PopBottom
      BY <1>5, <2>1, <3>2, <3>3 DEF PopLoadAge, PopReturns, Abstract!PopBottom
    <3> QED
      BY <3>4 DEF Abstract!Next
  <2>2. CASE ~(own.bot > age.top)
    <3>1. End' = End
      BY <1>0, <1>5, <2>2 DEF PopLoadAge, End, TypeOK, LocalsType
    <3> QED
      BY <1>5, <1>s, <1>q, <2>2, <3>1 DEF PopLoadAge
  <2> QED
    BY <2>1, <2>2
<1>6. CASE PopResetBot
  <2>1. End' = End
    BY <1>6 DEF PopResetBot, End
  <2> QED
    BY <1>6, <1>s, <1>q, <2>1 DEF PopResetBot
<1>7. CASE PopCas
  <2>1. CASE age = own.age
    <3>1. /\ End = own.bot + 1 /\ age.top = own.bot /\ age.top < End
          /\ End' = 0 /\ age'.top = 0 /\ deq' = deq
      BY <1>0, <1>7, <2>1 DEF PopCas, PopReturns, End, OwnerIsOnTheWay, TypeOK, Slots,
         LocalsType, NewAge
    <3>2. /\ Queue # <<>> /\ Queue[Len(Queue)] = deq[own.bot]
          /\ Slice(deq, age.top, End - 1) = SubSeq(Queue, 1, Len(Queue) - 1)
      <4>1. deq[own.bot] = deq[End - 1]
        BY <1>0, <3>1 DEF TypeOK, LocalsType, Slots
      <4> QED
        BY <1>0, <3>1, <4>1, SliceEmpty, SliceBottom DEF Queue
    <3>3. Slice(deq, age.top, End - 1) = <<>> /\ Queue' = <<>>
      <4>1. End - 1 = age.top
        BY <1>0, <3>1
      <4> QED
        BY <1>0, <3>1, <4>1, SliceEmpty DEF Queue
    <3>4. last[Owner] = Busy
      BY <1>0, <1>7 DEF PopCas, CallsAreOpen
    <3>5. Abstract!PopBottom
      BY <1>7, <2>1, <3>2, <3>3, <3>4 DEF PopCas, PopReturns, Abstract!PopBottom
    <3> QED
      BY <3>5 DEF Abstract!Next
  <2>2. CASE age # own.age
    <3>1. End' = End
      BY <1>0, <1>7, <2>2 DEF PopCas, End
    <3> QED
      BY <1>7, <1>s, <1>q, <2>2, <3>1 DEF PopCas
  <2> QED
    BY <2>1, <2>2
<1>8. CASE PopStoreAge
  <2>1. age.top = End /\ End' = 0 /\ age'.top = 0 /\ deq' = deq
    BY <1>0, <1>8 DEF PopStoreAge, PopReturns, NewAge, End, OwnerIsOnTheWay
  <2>2. Queue = <<>> /\ Queue' = <<>>
    BY <1>0, <2>1, SliceEmpty DEF Queue
  <2>3. last[Owner] = Busy
    BY <1>0, <1>8 DEF PopStoreAge, CallsAreOpen
  <2>4. Abstract!PopBottom
    BY <1>8, <2>2, <2>3 DEF PopStoreAge, PopReturns, Abstract!PopBottom
  <2> QED
    BY <2>4 DEF Abstract!Next
<1>9. ASSUME NEW t \in Thieves, TopLoadAge(t) PROVE [Abstract!Next]_(Abstract!vars)
  <2>1. End' = End
    BY <1>9 DEF TopLoadAge, End
  <2>2. last[t] # Busy
    BY <1>0, <1>9 DEF TopLoadAge, CallsAreOpen
  <2>3. Abstract!Call(t)
    BY <1>9, <1>q, <2>1, <2>2 DEF TopLoadAge, Abstract!Call
  <2> QED
    BY <2>3 DEF Abstract!Next, Abstract!Threads
<1>10. ASSUME NEW t \in Thieves, TopLoadBot(t) PROVE [Abstract!Next]_(Abstract!vars)
  <2>1. End' = End
    BY <1>10 DEF TopLoadBot, End
  <2>2. last[t] = Busy
    BY <1>0, <1>10 DEF TopLoadBot, CallsAreOpen
  <2>3. CASE bot > loc[t].age.top
    BY <1>10, <1>s, <1>q, <2>1, <2>3 DEF TopLoadBot
  <2>4. CASE ~(bot > loc[t].age.top)
    <3>1. Abstract!PopTop(t)
      BY <1>10, <1>q, <2>1, <2>2, <2>4 DEF TopLoadBot, TopReturns, Abstract!PopTop
    <3> QED
      BY <3>1 DEF Abstract!Next
  <2> QED
    BY <2>3, <2>4
<1>11. ASSUME NEW t \in Thieves, TopLoadJob(t) PROVE [Abstract!Next]_(Abstract!vars)
  <2>1. End' = End
    BY <1>11 DEF TopLoadJob, End
  <2> QED
    BY <1>11, <1>s, <1>q, <2>1 DEF TopLoadJob
<1>12. ASSUME NEW t \in Thieves, TopCas(t) PROVE [Abstract!Next]_(Abstract!vars)
  <2>1. End' = End
    BY <1>12 DEF TopCas, End
  <2>2. last[t] = Busy
    BY <1>0, <1>12 DEF TopCas, CallsAreOpen
  <2>3. CASE age = loc[t].age
    <3>1. age.top < End /\ loc[t].job = deq[age.top]
      BY <1>0, <1>12, <2>3 DEF TopCas, ThievesAreRight
    <3>2. age'.top = age.top + 1 /\ deq' = deq
      BY <1>0, <1>12, <2>3 DEF TopCas, TypeOK, AgeType
    <3>3. Queue # <<>> /\ Head(Queue) = loc[t].job /\ Queue' = Tail(Queue)
      BY <1>0, <2>1, <3>1, <3>2, SliceEmpty, SliceTop DEF Queue
    <3>4. Abstract!PopTop(t)
      BY <1>12, <2>2, <2>3, <3>3 DEF TopCas, TopReturns, Abstract!PopTop
    <3> QED
      BY <3>4 DEF Abstract!Next
  <2>4. CASE age # loc[t].age
    <3>1. age' = age /\ last' = [last EXCEPT ![t] = None] /\ UNCHANGED <<deq, pushed>>
      BY <1>12, <2>4 DEF TopCas, TopReturns
    <3>2. Abstract!PopTop(t)
      BY <1>q, <2>1, <2>2, <3>1 DEF Abstract!PopTop
    <3> QED
      BY <3>2 DEF Abstract!Next
  <2> QED
    BY <2>3, <2>4
<1>13. CASE UNCHANGED vars
  <2>1. End' = End
    BY <1>13 DEF vars, End
  <2> QED
    BY <1>13, <1>s, <1>q, <2>1 DEF vars
<1> QED
  BY <1>1, <1>2, <1>3, <1>4, <1>5, <1>6, <1>7, <1>8, <1>9, <1>10, <1>11, <1>12, <1>13
     DEF Next, PopBottom, PopTop

\* The deque is linearizable: every behaviour of the owner and the thieves, access by
\* access, is a behaviour of the queue whose operations are single steps.
THEOREM DequeIsLinearizable == Spec => ImplementsWorkDeque
<1>1. Init => Abstract!Init
  BY InitRefines
<1>2. IInv /\ [Next]_vars => [Abstract!Next]_(Abstract!vars)
  BY StepRefines
<1>3. Spec => []IInv
  BY IInvHolds
<1> QED
  BY <1>1, <1>2, <1>3, PTL DEF Spec, Abstract!Spec, ImplementsWorkDeque
=============================================================================
