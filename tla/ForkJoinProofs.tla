--------------------------- MODULE ForkJoinProofs ---------------------------
(***************************************************************************)
(* Theorems about ForkJoin, for any threads and any tree of tasks: the     *)
(* deques match the stacks, no job outlives the frame that made it, and    *)
(* the scheduler keeps the promise of TaskTree as far as safety goes.      *)
(***************************************************************************)
EXTENDS ForkJoin, FiniteSetTheorems, SequenceTheorems, TLAPS

-----------------------------------------------------------------------------
(* The inductive invariant.                                                *)

Calling == {"left", "right", "run"}
Waiting == {"getjob", "steal", "again", "spin"}
TaskPcs == {"start", "pop", "return"} \cup Calling \cup Waiting
MainPcs == {"run", "finish", "shutdown", "joined"}
LoopPcs == {"sleepy", "load", "wait", "asleep", "woken", "exit", "getjob", "steal", "again", "run"}
Frames == [task : Tasks \cup {Loop, Main}, pc : TaskPcs \cup MainPcs \cup LoopPcs]

TypeOK ==
  /\ stack \in [Workers -> Seq(Frames)]
  /\ deques \in [Workers -> [top : Nat, jobs : Seq(Tasks)]]
  /\ done \subseteq Tasks /\ finished \in BOOLEAN
  /\ waking \in [Workers -> {"no", "test", "add", "notify"}] /\ stale \subseteq Workers
  /\ begun \subseteq Tasks /\ ended \subseteq Tasks

Height(w) == Len(stack[w])
Tk(w, i) == stack[w][i].task
Pc(w, i) == stack[w][i].pc
Jobs(w) == deques[w].jobs

\* At the bottom is the function of the thread, above it are tasks; all frames but the
\* innermost are calling the next.
BottomFrame(w, f) == IF w = MainThread THEN f.task = Main /\ f.pc \in MainPcs
                                       ELSE f.task = Loop /\ f.pc \in LoopPcs
TaskFrame(f) == /\ f.task \in Tasks /\ f.pc \in TaskPcs
                /\ f.pc \notin {"start", "return"} => f.task \in Forking
StackShapes ==
  \A w \in Workers :
    /\ w = MainThread => Height(w) > 0
    /\ \A i \in 1..Height(w) :
         /\ i = 1 => BottomFrame(w, stack[w][i])
         /\ i > 1 => TaskFrame(stack[w][i])
         /\ i < Height(w) <=> Pc(w, i) \in Calling
Calls ==
  \A w \in Workers : \A i \in 1..Height(w) - 1 :
    /\ Pc(w, i) = "left" => Tk(w, i + 1) = Append(Tk(w, i), 0)
    /\ Pc(w, i) = "right" => Tk(w, i + 1) = Right(Tk(w, i))
    /\ Tk(w, i) = Main => Tk(w, i + 1) = <<>>

\* A task is in one place at most: in one frame, or once in one deque.
FramesDiffer ==
  \A v, w \in Workers : \A i \in 2..Height(v), j \in 2..Height(w) :
    Tk(v, i) = Tk(w, j) => v = w /\ i = j
JobsDiffer ==
  \A v, w \in Workers : \A k \in 1..Len(Jobs(v)), l \in 1..Len(Jobs(w)) :
    Jobs(v)[k] = Jobs(w)[l] => v = w /\ k = l
JobsAreNew ==
  \A w \in Workers : \A k \in 1..Len(Jobs(w)) :
    /\ Jobs(w)[k] \notin begun
    /\ \A v \in Workers : \A i \in 2..Height(v) : Tk(v, i) # Jobs(w)[k]

\* The life of a task.
FramesLive ==
  \A w \in Workers : \A i \in 2..Height(w) :
    /\ Tk(w, i) \notin ended
    /\ Pc(w, i) = "start" <=> Tk(w, i) \notin begun
History == done \subseteq ended /\ ended \subseteq begun
Present(n) == \/ n \in begun
              \/ \E w \in Workers : \E i \in 2..Height(w) : Tk(w, i) = n
              \/ \E w \in Workers : \E k \in 1..Len(Jobs(w)) : Jobs(w)[k] = n
ForkersHaveBegun == \A n \in Forking : \A h \in Halves(n) : Present(h) => n \in begun
HalvesHaveEnded ==
  \A w \in Workers : \A i \in 2..Height(w) :
    Tk(w, i) \in Forking =>
      /\ Pc(w, i) \notin {"start", "left"} => Append(Tk(w, i), 0) \in ended
      /\ Pc(w, i) = "return" => Right(Tk(w, i)) \in ended

\* The job at place k is that of frame i.  Frames above it belong to the same job, and
\* those that have not joined have their jobs behind k.
IsJobOf(w, k, i) == Pc(w, i) \in {"left", "pop"} /\ Jobs(w)[k] = Right(Tk(w, i))
JobsHaveFrames ==
  \A w \in Workers : \A k \in 1..Len(Jobs(w)) : \E i \in 2..Height(w) : IsJobOf(w, k, i)
YoungerFrames ==
  \A w \in Workers : \A k \in 1..Len(Jobs(w)), i \in 2..Height(w), j \in 2..Height(w) :
    IsJobOf(w, k, i) /\ i < j =>
      /\ Pc(w, j) \notin {"run"} \cup Waiting
      /\ Pc(w, j) \in {"left", "pop"} => \E l \in k + 1..Len(Jobs(w)) : IsJobOf(w, l, j)

\* A job that is called was made by a frame that has not returned.
Joining == {"left", "pop", "run"} \cup Waiting
CalledJobs ==
  \A w \in Workers : \A i \in 1..Height(w) - 1 :
    RunsJob(stack[w][i]) =>
      \E v \in Workers : \E j \in 2..Height(v) :
        Right(Tk(v, j)) = Tk(w, i + 1) /\ Pc(v, j) \in Joining

\* The slots of a deque.
SlotsSuffice ==
  \A w \in Workers :
    /\ Bot(w) <= Cardinality(Unjoined(w))
    /\ Height(w) > 0 /\ Pc(w, Height(w)) \in Waiting => Bot(w) = 0

IInv == /\ TypeOK
        /\ StackShapes /\ Calls
        /\ FramesDiffer /\ JobsDiffer /\ JobsAreNew
        /\ FramesLive /\ History /\ ForkersHaveBegun /\ HalvesHaveEnded
        /\ JobsHaveFrames /\ YoungerFrames
        /\ CalledJobs /\ SlotsSuffice

-----------------------------------------------------------------------------
(* Tasks, and frames on top of a stack.                                    *)

\* What is pushed last comes off first.
LEMMA FrontOfAppend ==
  ASSUME NEW S, NEW s \in Seq(S), NEW x \in S
  PROVE  /\ SubSeq(Append(s, x), 1, Len(Append(s, x)) - 1) = s
         /\ Append(s, x) # <<>> /\ Append(s, x) # s
<1> DEFINE t == Append(s, x)
<1>1. /\ t \in Seq(S) /\ Len(t) = Len(s) + 1 /\ Len(s) \in Nat
      /\ \A i \in 1..Len(s) : t[i] = s[i]
  BY AppendProperties
<1> HIDE DEF t
<1>2. \A i \in 1..Len(s) : t[i] \in S
  BY <1>1
<1> DEFINE u == SubSeq(t, 1, Len(s))
<1>3. u \in Seq(S) /\ Len(u) = Len(s) /\ \A i \in 1..Len(s) : u[i] = t[i]
  BY <1>1, <1>2, SubSeqProperties
<1> HIDE DEF u
<1>4. u = s
  BY <1>1, <1>3, SeqEqual
<1>5. Len(t) - 1 = Len(s)
  BY <1>1
<1>6. t # <<>> /\ t # s
  BY <1>1, EmptySeq
<1> QED  BY <1>4, <1>5, <1>6 DEF t, u

\* Tasks are addressed from the root; the scheduler loop and main are none of them.
LEMMA TaskFacts ==
  /\ Tasks \subseteq Seq({0, 1}) /\ Forking \subseteq Tasks
  /\ Loop \notin Tasks /\ Main \notin Tasks /\ Loop # Main
  /\ <<>> \in Tasks
  /\ \A n \in Forking : Append(n, 0) \in Tasks /\ Right(n) \in Tasks
<1> USE SchedulerAssumption DEF SchedulerAssumption
<1>1. \A n \in Forking : Append(n, 0) \in Tasks /\ Right(n) \in Tasks
  BY DEF Tasks, Halves, Right
<1>2. \A n \in Forking : Append(n, 0) \in Seq({0, 1}) /\ Append(n, 1) \in Seq({0, 1})
  OBVIOUS
<1>3. Tasks \subseteq Seq({0, 1})
  BY <1>2, EmptySeq DEF Tasks, Halves
<1>4. Forking \subseteq Tasks
  <2> SUFFICES ASSUME NEW n \in Forking, n # <<>>  PROVE  n \in Tasks
    BY DEF Tasks
  <2>1. PICK f \in Seq({0, 1}), x \in {0, 1} : n = Append(f, x)
    BY SequenceEmptyOrAppend
  <2>2. SubSeq(n, 1, Len(n) - 1) = f
    BY <2>1, FrontOfAppend
  <2>3. f \in Forking
    BY <2>2
  <2> QED  BY <2>1, <2>3 DEF Tasks, Halves
<1>5. Loop \notin Tasks /\ Main \notin Tasks /\ Loop # Main
  BY <1>3
<1> QED  BY <1>1, <1>3, <1>4, <1>5 DEF Tasks

\* A half tells its forker, and which half it is.
LEMMA HalvesDiffer ==
  ASSUME NEW n \in Forking, NEW m \in Forking
  PROVE  /\ Right(n) = Right(m) => n = m
         /\ Append(n, 0) = Append(m, 0) => n = m
         /\ Append(n, 0) # Right(m)
         /\ Right(n) # n /\ Append(n, 0) # n
<1>1. n \in Seq({0, 1}) /\ m \in Seq({0, 1})
  BY SchedulerAssumption DEF SchedulerAssumption
<1>2. \A x, y \in {0, 1} : Append(n, x) = Append(m, y) => n = m /\ x = y
  BY <1>1, AppendInjective
<1>3. \A x \in {0, 1} : Append(n, x) # n
  BY <1>1, FrontOfAppend
<1> QED  BY <1>2, <1>3 DEF Right

\* A half is forked by the task above it.
LEMMA ForkerOfHalf ==
  ASSUME NEW n \in Forking, NEW h \in Halves(n)
  PROVE  h # <<>> /\ Promise!Forker(h) = n
<1>1. n \in Seq({0, 1})
  BY SchedulerAssumption DEF SchedulerAssumption
<1>2. PICK x \in {0, 1} : h = Append(n, x)
  BY DEF Halves
<1> QED  BY <1>1, <1>2, FrontOfAppend DEF Promise!Forker

\* A stack whose youngest frame goes on, frame by frame.
LEMMA JumpSeq ==
  ASSUME NEW s \in Seq(Frames), s # <<>>, NEW p,
         p \in TaskPcs \cup MainPcs \cup LoopPcs
  PROVE  LET t == [s EXCEPT ![Len(s)].pc = p]
         IN  /\ t \in Seq(Frames) /\ Len(t) = Len(s) /\ Len(s) \in Nat \ {0}
             /\ \A i \in 1..Len(s) - 1 : t[i] = s[i]
             /\ t[Len(s)] = Frame(s[Len(s)].task, p)
<1> DEFINE t == [s EXCEPT ![Len(s)].pc = p]
           f == Frame(s[Len(s)].task, p)
<1>1. Len(s) \in Nat \ {0}
  BY EmptySeq
<1>2. s[Len(s)] \in Frames
  BY <1>1
<1>3. [s[Len(s)] EXCEPT !.pc = p] = f /\ f \in Frames
  BY <1>2 DEF Frames, Frame
<1>4. t = [s EXCEPT ![Len(s)] = f]
  BY <1>3
<1> HIDE DEF f, t
<1> QED  BY <1>1, <1>3, <1>4, ExceptSeq DEF f, t

\* A stack with the frame of a call.
LEMMA CallSeq ==
  ASSUME NEW s \in Seq(Frames), s # <<>>, NEW n \in Tasks
  PROVE  LET t == Append(s, Frame(n, "start"))
         IN  /\ t \in Seq(Frames) /\ Len(t) = Len(s) + 1 /\ Len(s) \in Nat \ {0}
             /\ \A i \in 1..Len(s) : t[i] = s[i]
             /\ t[Len(s) + 1] = Frame(n, "start")
<1>1. Frame(n, "start") \in Frames
  BY DEF Frame, Frames, TaskPcs
<1>2. Len(s) \in Nat \ {0}
  BY EmptySeq
<1> QED  BY <1>1, <1>2, AppendProperties

\* A stack whose youngest frame returned and whose next one goes on.
LEMMA ReturnSeq ==
  ASSUME NEW s \in Seq(Frames), Len(s) > 1, NEW p,
         p \in TaskPcs \cup MainPcs \cup LoopPcs
  PROVE  LET t == [Front(s) EXCEPT ![Len(s) - 1].pc = p]
         IN  /\ t \in Seq(Frames) /\ Len(t) = Len(s) - 1 /\ Len(s) \in Nat
             /\ \A i \in 1..Len(s) - 2 : t[i] = s[i]
             /\ t[Len(s) - 1] = Frame(s[Len(s) - 1].task, p)
             /\ Last(Front(s)) = s[Len(s) - 1]
<1> DEFINE u == Front(s)
<1>1. Len(s) \in Nat
  OBVIOUS
<1>2. u \in Seq(Frames) /\ Len(u) = Len(s) - 1 /\ \A i \in 1..Len(s) - 1 : u[i] = s[i]
  BY <1>1 DEF Front
<1> HIDE DEF u
<1>3. u # <<>> /\ u[Len(u)] = s[Len(s) - 1]
  BY <1>1, <1>2, EmptySeq
<1>4. LET t == [u EXCEPT ![Len(u)].pc = p]
      IN  /\ t \in Seq(Frames) /\ Len(t) = Len(u)
          /\ \A i \in 1..Len(u) - 1 : t[i] = u[i]
          /\ t[Len(u)] = Frame(u[Len(u)].task, p)
  BY <1>2, <1>3, JumpSeq
<1> QED  BY <1>1, <1>2, <1>3, <1>4 DEF u, Last

-----------------------------------------------------------------------------
(* What the types give, and what a step does to a stack, frame by frame.   *)

Sizes ==
  \A w \in Workers :
    /\ stack[w] \in Seq(Frames) /\ Height(w) \in Nat
    /\ \A i \in 1..Height(w) : stack[w][i] \in Frames
    /\ Jobs(w) \in Seq(Tasks) /\ Len(Jobs(w)) \in Nat
    /\ \A k \in 1..Len(Jobs(w)) : Jobs(w)[k] \in Tasks
    /\ deques[w].top \in Nat /\ Bot(w) = deques[w].top + Len(Jobs(w)) /\ Bot(w) \in Nat
    /\ Unjoined(w) \subseteq 1..Height(w)
    /\ IsFiniteSet(Unjoined(w)) /\ Cardinality(Unjoined(w)) \in Nat

\* Stacks and deques have lengths.
LEMMA SizesHold == TypeOK => Sizes
<1> SUFFICES ASSUME TypeOK, NEW w \in Workers
             PROVE  /\ stack[w] \in Seq(Frames) /\ Height(w) \in Nat
                    /\ \A i \in 1..Height(w) : stack[w][i] \in Frames
                    /\ Jobs(w) \in Seq(Tasks) /\ Len(Jobs(w)) \in Nat
                    /\ \A k \in 1..Len(Jobs(w)) : Jobs(w)[k] \in Tasks
                    /\ deques[w].top \in Nat /\ Bot(w) = deques[w].top + Len(Jobs(w)) /\ Bot(w) \in Nat
                    /\ Unjoined(w) \subseteq 1..Height(w)
                    /\ IsFiniteSet(Unjoined(w)) /\ Cardinality(Unjoined(w)) \in Nat
  BY DEF Sizes
<1>1. stack[w] \in Seq(Frames) /\ deques[w] \in [top : Nat, jobs : Seq(Tasks)]
  BY DEF TypeOK
<1>2. Height(w) \in Nat /\ \A i \in 1..Height(w) : stack[w][i] \in Frames
  BY <1>1 DEF Height
<1>3. Jobs(w) \in Seq(Tasks) /\ deques[w].top \in Nat
  BY <1>1 DEF Jobs
<1>4. Len(Jobs(w)) \in Nat /\ \A k \in 1..Len(Jobs(w)) : Jobs(w)[k] \in Tasks
  BY <1>3
<1>5. DOMAIN stack[w] = 1..Height(w)
  BY <1>1 DEF Height
<1>6. Unjoined(w) \subseteq 1..Height(w)
  BY <1>5 DEF Unjoined
<1>7. IsFiniteSet(1..Height(w))
  BY <1>2, FS_Interval
<1>8. IsFiniteSet(Unjoined(w))
  BY <1>6, <1>7, FS_Subset
<1>9. Cardinality(Unjoined(w)) \in Nat
  BY <1>8, FS_CardinalityType
<1> QED  BY <1>1, <1>2, <1>3, <1>4, <1>6, <1>8, <1>9 DEF Bot, Jobs

\* The same after a step.
LEMMA SizesHoldNext == TypeOK' => Sizes'
BY SizesHold, PTL

Others(w) == \A v \in Workers : v # w => stack'[v] = stack[v]
Below(w, n) == \A i \in 1..n : stack'[w][i] = stack[w][i]

\* The youngest frame is the one a thread runs.
LEMMA TopOfStack ==
  ASSUME TypeOK, NEW w \in Workers, stack[w] # <<>>
  PROVE  /\ Height(w) \in Nat \ {0} /\ Last(stack[w]) = stack[w][Height(w)]
         /\ Task(w) = Tk(w, Height(w))
<1> QED  BY SizesHold, EmptySeq DEF Sizes, Height, Last, Task, Tk

\* What Jump does to the stacks.
LEMMA JumpEffect ==
  ASSUME TypeOK, NEW w \in Workers, stack[w] # <<>>, NEW p,
         p \in TaskPcs \cup MainPcs \cup LoopPcs, Jump(w, p)
  PROVE  /\ stack' \in [Workers -> Seq(Frames)] /\ Others(w)
         /\ Height(w)' = Height(w) /\ Below(w, Height(w) - 1)
         /\ stack'[w][Height(w)] = Frame(Tk(w, Height(w)), p)
<1>1. stack \in [Workers -> Seq(Frames)] /\ stack[w] \in Seq(Frames)
  BY DEF TypeOK
<1>2. stack' = [stack EXCEPT ![w] = Goto(w, p)]
  BY DEF Jump
<1>3. stack'[w] = Goto(w, p)
  BY <1>1, <1>2
<1>4. /\ Goto(w, p) \in Seq(Frames) /\ Len(Goto(w, p)) = Len(stack[w])
      /\ \A i \in 1..Len(stack[w]) - 1 : Goto(w, p)[i] = stack[w][i]
      /\ Goto(w, p)[Len(stack[w])] = Frame(stack[w][Len(stack[w])].task, p)
  BY <1>1, JumpSeq DEF Goto
<1>5. stack' \in [Workers -> Seq(Frames)] /\ Others(w)
  BY <1>1, <1>2, <1>4 DEF Others
<1> QED  BY <1>3, <1>4, <1>5 DEF Height, Below, Tk

\* What a call does to them.
LEMMA CallEffect ==
  ASSUME TypeOK, NEW w \in Workers, stack[w] # <<>>, NEW p, NEW n \in Tasks,
         p \in TaskPcs \cup MainPcs \cup LoopPcs, CallFrom(w, p, n)
  PROVE  /\ stack' \in [Workers -> Seq(Frames)] /\ Others(w)
         /\ Height(w)' = Height(w) + 1 /\ Below(w, Height(w) - 1)
         /\ stack'[w][Height(w)] = Frame(Tk(w, Height(w)), p)
         /\ stack'[w][Height(w) + 1] = Frame(n, "start")
<1>1. stack \in [Workers -> Seq(Frames)] /\ stack[w] \in Seq(Frames)
  BY DEF TypeOK
<1> DEFINE u == Goto(w, p)
           t == Append(u, Frame(n, "start"))
<1>2. stack' = [stack EXCEPT ![w] = t]
  BY DEF CallFrom
<1>3. /\ u \in Seq(Frames) /\ Len(u) = Len(stack[w]) /\ Len(stack[w]) \in Nat \ {0}
      /\ \A i \in 1..Len(stack[w]) - 1 : u[i] = stack[w][i]
      /\ u[Len(stack[w])] = Frame(stack[w][Len(stack[w])].task, p)
  BY <1>1, JumpSeq DEF Goto
<1> HIDE DEF u
<1>4. u # <<>>
  BY <1>3, EmptySeq
<1>5. /\ t \in Seq(Frames) /\ Len(t) = Len(u) + 1 /\ \A i \in 1..Len(u) : t[i] = u[i]
      /\ t[Len(u) + 1] = Frame(n, "start")
  BY <1>3, <1>4, CallSeq
<1> HIDE DEF t
<1>6. stack'[w] = t
  BY <1>1, <1>2
<1>7. stack' \in [Workers -> Seq(Frames)] /\ Others(w)
  BY <1>1, <1>2, <1>5 DEF Others
<1> QED  BY <1>3, <1>5, <1>6, <1>7 DEF Height, Below, Tk

\* What a return does to them.
LEMMA ReturnEffect ==
  ASSUME TypeOK, NEW w \in Workers, Len(stack[w]) > 1, NEW p,
         p \in TaskPcs \cup MainPcs \cup LoopPcs,
         stack' = [stack EXCEPT ![w] = [Front(@) EXCEPT ![Len(@) - 1].pc = p]]
  PROVE  /\ stack' \in [Workers -> Seq(Frames)] /\ Others(w)
         /\ Height(w)' = Height(w) - 1 /\ Below(w, Height(w) - 2)
         /\ stack'[w][Height(w) - 1] = Frame(Tk(w, Height(w) - 1), p)
         /\ Last(Front(stack[w])) = stack[w][Height(w) - 1]
<1>1. stack \in [Workers -> Seq(Frames)] /\ stack[w] \in Seq(Frames)
  BY DEF TypeOK
<1> DEFINE t == [Front(stack[w]) EXCEPT ![Len(stack[w]) - 1].pc = p]
<1>2. stack' = [stack EXCEPT ![w] = t]
  OBVIOUS
<1>3. /\ t \in Seq(Frames) /\ Len(t) = Len(stack[w]) - 1
      /\ \A i \in 1..Len(stack[w]) - 2 : t[i] = stack[w][i]
      /\ t[Len(stack[w]) - 1] = Frame(stack[w][Len(stack[w]) - 1].task, p)
      /\ Last(Front(stack[w])) = stack[w][Len(stack[w]) - 1]
  BY <1>1, ReturnSeq
<1> HIDE DEF t
<1>4. stack'[w] = t
  BY <1>1, <1>2
<1>5. stack' \in [Workers -> Seq(Frames)] /\ Others(w)
  BY <1>1, <1>2, <1>3 DEF Others
<1> QED  BY <1>3, <1>4, <1>5 DEF Height, Below, Tk

-----------------------------------------------------------------------------
(* Most steps only move innermost frames: a join looks for work, or the    *)
(* bottom of a stack goes on.                                              *)

TopMoves(v) ==
  LET old == stack[v][Height(v)]
      new == stack'[v][Height(v)]
  IN  /\ new.task = old.task
      /\ \/ Height(v) = 1 /\ BottomFrame(v, new) /\ new.pc \notin Calling
         \/ /\ Height(v) > 1 /\ old.pc \in {"pop"} \cup Waiting
            /\ old.pc = "pop" => Jobs(v) = <<>>
            /\ \/ new.pc \in Waiting /\ Bot(v)' = 0
               \/ new.pc = "return" /\ old.pc # "pop" /\ Right(old.task) \in done

OnlyTopsMove ==
  \A v \in Workers :
    /\ Height(v)' = Height(v) /\ Jobs(v)' = Jobs(v) /\ Bot(v)' <= Bot(v)
    /\ \/ stack'[v] = stack[v]
       \/ Height(v) > 0 /\ Below(v, Height(v) - 1) /\ TopMoves(v)

\* When only youngest frames move on, between states that allow it, the invariant stays.
LEMMA MovesKeep ==
  ASSUME IInv, TypeOK', OnlyTopsMove, UNCHANGED <<done, begun, ended>>
  PROVE  IInv'
<1>1. Sizes /\ Sizes' /\ StackShapes
  BY SizesHold, SizesHoldNext DEF IInv
<1>2. \A v \in Workers : Height(v)' = Height(v) /\ Jobs(v)' = Jobs(v) /\ Bot(v)' <= Bot(v)
                       /\ Height(v) \in Nat /\ Len(Jobs(v)) \in Nat
  BY <1>1 DEF OnlyTopsMove, Sizes
<1>3. \A v \in Workers : \A i \in 1..Height(v) :
        stack'[v][i] = stack[v][i] \/ (i = Height(v) /\ TopMoves(v))
  <2> SUFFICES ASSUME NEW v \in Workers, NEW i \in 1..Height(v)
               PROVE  stack'[v][i] = stack[v][i] \/ (i = Height(v) /\ TopMoves(v))
    OBVIOUS
  <2>1. CASE stack'[v] = stack[v]
    BY <2>1
  <2>2. CASE Below(v, Height(v) - 1) /\ TopMoves(v)
    <3>1. CASE i = Height(v)
      BY <2>2, <3>1
    <3>2. CASE i # Height(v)
      BY <1>2, <2>2, <3>2 DEF Below
    <3> QED  BY <3>1, <3>2
  <2> QED  BY <2>1, <2>2 DEF OnlyTopsMove
<1>4. \A v \in Workers : \A i \in 1..Height(v) : stack'[v][i].task = stack[v][i].task
  BY <1>3 DEF TopMoves
<1>5. \A v \in Workers : \A i \in 1..Height(v) :
        stack'[v][i] # stack[v][i] => stack[v][i].pc \notin Calling /\ stack'[v][i].pc \notin Calling
  <2> SUFFICES ASSUME NEW v \in Workers, NEW i \in 1..Height(v), stack'[v][i] # stack[v][i]
               PROVE  stack[v][i].pc \notin Calling /\ stack'[v][i].pc \notin Calling
    BY Zenon
  <2>1. i = Height(v) /\ TopMoves(v)
    BY <1>3
  <2>2. stack[v][i].pc \notin Calling
    BY <2>1, <1>1, <1>2 DEF StackShapes, Pc
  <2>3. stack'[v][i].pc \notin Calling
    BY <2>1 DEF TopMoves, Calling, Waiting
  <2> QED  BY <2>2, <2>3
<1>6. StackShapes'
  <2> SUFFICES ASSUME NEW v \in Workers
               PROVE  /\ v = MainThread => Height(v)' > 0
                      /\ \A i \in 1..Height(v) :
                           /\ i = 1 => BottomFrame(v, stack'[v][i])
                           /\ i > 1 => TaskFrame(stack'[v][i])
                           /\ i < Height(v) <=> stack'[v][i].pc \in Calling
    BY <1>2 DEF StackShapes, Pc
  <2>1. v = MainThread => Height(v)' > 0
    BY <1>1, <1>2 DEF StackShapes
  <2>2. ASSUME NEW i \in 1..Height(v)
        PROVE  /\ i = 1 => BottomFrame(v, stack'[v][i])
               /\ i > 1 => TaskFrame(stack'[v][i])
               /\ i < Height(v) <=> stack'[v][i].pc \in Calling
    <3>1. /\ i = 1 => BottomFrame(v, stack[v][i])
          /\ i > 1 => TaskFrame(stack[v][i])
          /\ i < Height(v) <=> stack[v][i].pc \in Calling
      BY <1>1 DEF StackShapes, Pc
    <3>2. CASE stack'[v][i] = stack[v][i]
      BY <3>1, <3>2
    <3>3. CASE stack'[v][i] # stack[v][i]
      <4>1. i = Height(v) /\ TopMoves(v) /\ stack'[v][i].pc \notin Calling
        BY <1>3, <1>5, <3>3
      <4>2. i = 1 => BottomFrame(v, stack'[v][i])
        BY <4>1 DEF TopMoves
      <4>3. i > 1 => TaskFrame(stack'[v][i])
        BY <4>1, <3>1 DEF TopMoves, TaskFrame, TaskPcs, Waiting
      <4> QED  BY <4>1, <4>2, <4>3
    <3> QED  BY <3>2, <3>3
  <2> QED  BY <2>1, <2>2
<1>7. Calls'
  <2> SUFFICES ASSUME NEW v \in Workers, NEW i \in 1..Height(v) - 1
               PROVE  /\ stack'[v][i].pc = "left" => stack'[v][i + 1].task = Append(stack'[v][i].task, 0)
                      /\ stack'[v][i].pc = "right" => stack'[v][i + 1].task = Right(stack'[v][i].task)
                      /\ stack'[v][i].task = Main => stack'[v][i + 1].task = <<>>
    BY <1>2 DEF Calls, Pc, Tk
  <2>1. i \in 1..Height(v) /\ i + 1 \in 1..Height(v) /\ i # Height(v)
    BY <1>2
  <2>2. stack'[v][i] = stack[v][i] /\ stack'[v][i + 1].task = stack[v][i + 1].task
    BY <2>1, <1>3, <1>4
  <2> QED  BY <2>2 DEF IInv, Calls, Pc, Tk
<1>8. FramesDiffer' /\ JobsDiffer' /\ JobsAreNew'
  <2>1. \A v \in Workers : \A i \in 2..Height(v) : i \in 1..Height(v) /\ Tk(v, i)' = Tk(v, i)
    BY <1>2, <1>4 DEF Tk
  <2>2. FramesDiffer'
    BY <1>2, <2>1 DEF IInv, FramesDiffer
  <2>3. JobsDiffer'
    BY <1>2 DEF IInv, JobsDiffer
  <2>4. JobsAreNew'
    BY <1>2, <2>1 DEF IInv, JobsAreNew
  <2> QED  BY <2>2, <2>3, <2>4
<1>9. FramesLive' /\ History'
  <2>1. History'
    BY DEF IInv, History
  <2>2. ASSUME NEW v \in Workers, NEW i \in 2..Height(v)
        PROVE  /\ stack'[v][i].task \notin ended
               /\ stack'[v][i].pc = "start" <=> stack'[v][i].task \notin begun
    <3>1. i \in 1..Height(v) /\ i # 1
      BY <1>2
    <3>2. stack[v][i].task \notin ended /\ (stack[v][i].pc = "start" <=> stack[v][i].task \notin begun)
      BY DEF IInv, FramesLive, Tk, Pc
    <3>3. stack'[v][i] # stack[v][i] => stack[v][i].pc # "start" /\ stack'[v][i].pc # "start"
      BY <1>3, <3>1 DEF TopMoves, Waiting
    <3>4. stack'[v][i].task = stack[v][i].task
      BY <1>4, <3>1
    <3> QED  BY <3>2, <3>3, <3>4
  <2> QED  BY <1>2, <2>1, <2>2 DEF FramesLive, Tk, Pc
<1>10. ForkersHaveBegun'
  <2>1. \A v \in Workers : \A i \in 2..Height(v) : Tk(v, i)' = Tk(v, i)
    BY <1>2, <1>4 DEF Tk
  <2>2. ASSUME NEW n, Present(n)'  PROVE  Present(n)
    BY <1>2, <2>1, <2>2 DEF Present
  <2> QED  BY <2>2 DEF IInv, ForkersHaveBegun
<1>11. HalvesHaveEnded'
  <2> SUFFICES ASSUME NEW v \in Workers, NEW i \in 2..Height(v), stack'[v][i].task \in Forking
               PROVE  LET f == stack'[v][i] IN
                      /\ f.pc \notin {"start", "left"} => Append(f.task, 0) \in ended
                      /\ f.pc = "return" => Right(f.task) \in ended
    BY <1>2 DEF HalvesHaveEnded, Tk, Pc
  <2>1. i \in 1..Height(v) /\ i # 1
    BY <1>2
  <2>2. LET f == stack[v][i] IN
          /\ f.pc \notin {"start", "left"} => Append(f.task, 0) \in ended
          /\ f.pc = "return" => Right(f.task) \in ended
    BY <1>4, <2>1 DEF IInv, HalvesHaveEnded, Tk, Pc
  <2>3. CASE stack'[v][i] # stack[v][i]
    BY <1>3, <2>1, <2>2, <2>3 DEF TopMoves, Waiting, IInv, History
  <2> QED  BY <2>2, <2>3
<1>12. \A v \in Workers : \A k \in 1..Len(Jobs(v)), i \in 2..Height(v) :
         IsJobOf(v, k, i) <=> IsJobOf(v, k, i)'
  <2> SUFFICES ASSUME NEW v \in Workers, NEW k \in 1..Len(Jobs(v)), NEW i \in 2..Height(v),
                      stack'[v][i] # stack[v][i]
               PROVE  ~IsJobOf(v, k, i) /\ ~IsJobOf(v, k, i)'
    BY <1>2 DEF IsJobOf, Pc, Tk
  <2>1. i \in 1..Height(v) /\ i # 1
    BY <1>2
  <2>2. Jobs(v) # <<>>
    BY <1>2, EmptySeq
  <2> QED  BY <1>3, <2>1, <2>2 DEF TopMoves, Waiting, IsJobOf, Pc
<1>13. JobsHaveFrames'
  BY <1>2, <1>12 DEF IInv, JobsHaveFrames
<1>14. YoungerFrames'
  <2> SUFFICES ASSUME NEW v \in Workers, NEW k \in 1..Len(Jobs(v)), NEW i \in 2..Height(v),
                      NEW j \in 2..Height(v), IsJobOf(v, k, i), i < j
               PROVE  /\ stack'[v][j].pc \notin {"run"} \cup Waiting
                      /\ stack'[v][j].pc \in {"left", "pop"} =>
                           \E l \in k + 1..Len(Jobs(v)) : IsJobOf(v, l, j)'
    BY <1>2, <1>12 DEF YoungerFrames, Pc
  <2>1. /\ stack[v][j].pc \notin {"run"} \cup Waiting
        /\ stack[v][j].pc \in {"left", "pop"} => \E l \in k + 1..Len(Jobs(v)) : IsJobOf(v, l, j)
    BY DEF IInv, YoungerFrames, Pc
  <2>2. Jobs(v) # <<>> /\ j \in 1..Height(v) /\ j # 1 /\ k + 1..Len(Jobs(v)) \subseteq 1..Len(Jobs(v))
    BY <1>2, EmptySeq
  <2>3. stack'[v][j] = stack[v][j]
    BY <1>3, <2>1, <2>2 DEF TopMoves
  <2> QED  BY <2>1, <2>2, <2>3, <1>12
<1>15. CalledJobs'
  <2> SUFFICES ASSUME NEW w \in Workers, NEW i \in 1..Height(w) - 1, RunsJob(stack'[w][i])
               PROVE  \E v \in Workers : \E j \in 2..Height(v) :
                        Right(stack'[v][j].task) = stack'[w][i + 1].task /\ stack'[v][j].pc \in Joining
    BY <1>2 DEF CalledJobs, Tk, Pc
  <2>1. i \in 1..Height(w) /\ i + 1 \in 1..Height(w) /\ i + 1 \in 2..Height(w) /\ i # Height(w)
    BY <1>2
  <2>2. stack'[w][i] = stack[w][i] /\ stack'[w][i + 1].task = stack[w][i + 1].task
    BY <2>1, <1>3, <1>4
  <2>3. PICK v \in Workers : \E j \in 2..Height(v) :
          Right(stack[v][j].task) = stack[w][i + 1].task /\ stack[v][j].pc \in Joining
    BY <2>2 DEF IInv, CalledJobs, Tk, Pc
  <2>4. PICK j \in 2..Height(v) :
          Right(stack[v][j].task) = stack[w][i + 1].task /\ stack[v][j].pc \in Joining
    BY <2>3
  <2>5. j \in 1..Height(v) /\ j # 1
    BY <1>2
  <2>6. stack[w][i + 1].task \notin done
    BY <2>1 DEF IInv, History, FramesLive, Tk
  <2>7. stack'[v][j].pc \in Joining
    BY <2>4, <2>5, <2>6, <1>3 DEF TopMoves, Joining
  <2> QED  BY <2>2, <2>4, <2>5, <2>7, <1>4
<1>16. SlotsSuffice'
  <2> SUFFICES ASSUME NEW v \in Workers
               PROVE  /\ Bot(v)' <= Cardinality(Unjoined(v)')
                      /\ Height(v) > 0 /\ stack'[v][Height(v)].pc \in Waiting => Bot(v)' = 0
    BY <1>2 DEF SlotsSuffice, Pc
  <2>1. Bot(v) <= Cardinality(Unjoined(v)) /\ Bot(v) \in Nat /\ Bot(v)' \in Nat
        /\ Bot(v)' <= Bot(v) /\ (Height(v) > 0 /\ stack[v][Height(v)].pc \in Waiting => Bot(v) = 0)
    BY <1>1, <1>2 DEF IInv, SlotsSuffice, Pc, Sizes
  <2>2. Cardinality(Unjoined(v)') \in Nat
    BY <1>1 DEF Sizes
  <2>3. CASE stack'[v] = stack[v]
    <3>1. Unjoined(v)' = Unjoined(v)
      BY <2>3 DEF Unjoined
    <3>2. Height(v) > 0 /\ stack'[v][Height(v)].pc \in Waiting => Bot(v) = 0
      BY <2>1, <2>3
    <3>3. Bot(v)' <= Cardinality(Unjoined(v)')
      BY <2>1, <2>2, <3>1
    <3>4. Height(v) > 0 /\ stack'[v][Height(v)].pc \in Waiting => Bot(v)' = 0
      BY <2>1, <3>2
    <3> QED  BY <3>3, <3>4
  <2>4. CASE stack'[v] # stack[v]
    <3>1. Height(v) > 0 /\ TopMoves(v)
      BY <2>4 DEF OnlyTopsMove
    <3>2. CASE Height(v) = 1
      <4>1. Unjoined(v) = {}
        <5>1. Unjoined(v) \subseteq {1} /\ BottomFrame(v, stack[v][1])
          BY <1>1, <3>2 DEF Sizes, StackShapes
        <5>2. stack[v][1].pc \notin {"left", "pop"}
          BY <5>1, <1>1, <3>2 DEF BottomFrame, MainPcs, LoopPcs
        <5> QED  BY <5>1, <5>2 DEF Unjoined
      <4> QED  BY <2>1, <2>2, <3>2, <4>1, FS_EmptySet
    <3>3. CASE Height(v) > 1
      <4>1. CASE Bot(v)' = 0
        BY <4>1, <2>2
      <4>2. CASE stack'[v][Height(v)].pc = "return" /\ stack[v][Height(v)].pc \in Waiting
        BY <4>2, <2>1, <2>2, <3>1 DEF Waiting
      <4> QED  BY <3>1, <3>3, <4>1, <4>2 DEF TopMoves
    <3> QED  BY <3>1, <3>2, <3>3, <1>2
  <2> QED  BY <2>3, <2>4
<1> QED  BY <1>6, <1>7, <1>8, <1>9, <1>10, <1>11, <1>13, <1>14, <1>15, <1>16 DEF IInv

-----------------------------------------------------------------------------
(* What pop_bottom does to a deque.                                        *)

\* The null that get_own_job and steal return is no job.
LEMMA NoJobIsNoTask == NoJob \notin Tasks
<1>1. Len(<<-1>>) = 1 /\ <<-1>>[1] = -1
  OBVIOUS
<1>2. <<-1>> \in Seq({0, 1}) => <<-1>>[1] \in {0, 1}
  BY <1>1, ElementOfSeq
<1> QED  BY <1>1, <1>2, TaskFacts DEF NoJob

\* pop_bottom takes the youngest job or finds the deque empty and resets it.
LEMMA PopEffect ==
  ASSUME TypeOK, NEW w \in Workers, PopOwn(w)
  PROVE  /\ deques' \in [Workers -> [top : Nat, jobs : Seq(Tasks)]]
         /\ \A v \in Workers : v # w => deques'[v] = deques[v]
         /\ Jobs(w) = <<>> => GetOwnJob(w) = NoJob /\ Jobs(w)' = <<>> /\ Bot(w)' = 0
         /\ Jobs(w) # <<>> =>
              /\ GetOwnJob(w) # NoJob
              /\ Len(Jobs(w)) \in Nat \ {0} /\ Len(Jobs(w))' = Len(Jobs(w)) - 1
              /\ \A k \in 1..Len(Jobs(w)) - 1 : deques'[w].jobs[k] = Jobs(w)[k]
              /\ Bot(w)' <= Bot(w) - 1
<1> DEFINE d == deques[w]
<1>1. d \in [top : Nat, jobs : Seq(Tasks)] /\ deques \in [Workers -> [top : Nat, jobs : Seq(Tasks)]]
  BY DEF TypeOK
<1>2. deques' = [deques EXCEPT ![w] = PopBottom(d).deque]
  BY DEF PopOwn
<1>3. deques'[w] = PopBottom(d).deque /\ \A v \in Workers : v # w => deques'[v] = deques[v]
  BY <1>1, <1>2
<1>4. CASE d.jobs = <<>>
  <2>1. PopBottom(d) = [job |-> NoJob, deque |-> [top |-> 0, jobs |-> <<>>]]
    BY <1>4 DEF PopBottom
  <2>2. deques'[w] = [top |-> 0, jobs |-> <<>>] /\ GetOwnJob(w) = NoJob
    BY <2>1, <1>3 DEF GetOwnJob
  <2>3. deques'[w] \in [top : Nat, jobs : Seq(Tasks)] /\ Bot(w)' = 0
    BY <2>2, EmptySeq DEF Bot
  <2>4. deques' \in [Workers -> [top : Nat, jobs : Seq(Tasks)]]
    BY <1>1, <1>2, <1>3, <2>3
  <2> QED  BY <1>3, <1>4, <2>2, <2>3, <2>4 DEF Jobs
<1>5. CASE d.jobs # <<>>
  <2> DEFINE js == d.jobs
  <2>1. js \in Seq(Tasks) /\ Len(js) \in Nat \ {0}
    BY <1>1, <1>5, EmptySeq
  <2>2. Last(js) \in Tasks
    BY <2>1 DEF Last
  <2>3. Front(js) \in Seq(Tasks) /\ Len(Front(js)) = Len(js) - 1
        /\ \A k \in 1..Len(js) - 1 : Front(js)[k] = js[k]
    BY <2>1 DEF Front
  <2> DEFINE t == IF Len(js) = 1 THEN 0 ELSE d.top
  <2>4. PopBottom(d) = [job |-> Last(js), deque |-> [top |-> t, jobs |-> Front(js)]]
    BY <1>5 DEF PopBottom
  <2>5. t \in Nat /\ t <= d.top /\ d.top \in Nat
    BY <1>1
  <2> HIDE DEF t, js
  <2>6. deques'[w] = [top |-> t, jobs |-> Front(js)] /\ GetOwnJob(w) = Last(js)
    BY <2>4, <1>3 DEF GetOwnJob
  <2>7. deques'[w] \in [top : Nat, jobs : Seq(Tasks)]
    BY <2>3, <2>5, <2>6
  <2>8. deques' \in [Workers -> [top : Nat, jobs : Seq(Tasks)]]
    BY <1>1, <1>2, <1>3, <2>7
  <2>9. Bot(w) = d.top + Len(js) /\ Bot(w)' = t + (Len(js) - 1)
    BY <2>3, <2>6 DEF Bot, js
  <2>10. Bot(w)' <= Bot(w) - 1
    BY <2>1, <2>5, <2>9
  <2>11. GetOwnJob(w) # NoJob
    BY <2>2, <2>6, NoJobIsNoTask
  <2>12. Jobs(w) = js /\ deques'[w].jobs = Front(js) /\ Jobs(w)' = Front(js)
    BY <2>6 DEF Jobs, js
  <2>13. Jobs(w) # <<>>
    BY <1>5, <2>12 DEF js
  <2> QED  BY <1>3, <2>1, <2>3, <2>8, <2>10, <2>11, <2>12, <2>13
<1> QED  BY <1>4, <1>5

-----------------------------------------------------------------------------
(* The types.                                                              *)

AllPcs == TaskPcs \cup MainPcs \cup LoopPcs

\* The places in the code at which a frame can be.
LEMMA PcsAreKnown ==
  /\ {"start", "left", "right", "pop", "return", "getjob", "steal", "again", "spin", "run"} \subseteq AllPcs
  /\ {"finish", "shutdown", "joined", "sleepy", "load", "wait", "asleep", "woken", "exit"} \subseteq AllPcs
BY DEF AllPcs, TaskPcs, MainPcs, LoopPcs, Calling, Waiting

\* Every step keeps the types.
LEMMA StepTypeOK == IInv /\ [Next]_vars => TypeOK'
<1> SUFFICES ASSUME TypeOK, StackShapes, [Next]_vars  PROVE TypeOK'
  BY DEF IInv
<1> USE PcsAreKnown DEF AllPcs
<1>1. ASSUME NEW w \in Workers, stack[w] # <<>>
      PROVE  /\ Height(w) \in Nat \ {0} /\ Task(w) = Tk(w, Height(w))
             /\ Last(stack[w]) = stack[w][Height(w)]
             /\ Last(stack[w]).pc \in {"start", "pop"} => Task(w) \in Tasks
             /\ Last(stack[w]).pc \in {"pop"} => Task(w) \in Forking
  <2>1. Height(w) \in Nat \ {0} /\ Last(stack[w]) = stack[w][Height(w)] /\ Task(w) = Tk(w, Height(w))
    BY <1>1, TopOfStack
  <2>2. /\ Height(w) = 1 => BottomFrame(w, stack[w][Height(w)])
        /\ Height(w) > 1 => TaskFrame(stack[w][Height(w)])
    BY <2>1 DEF StackShapes
  <2> QED  BY <2>1, <2>2 DEF BottomFrame, TaskFrame, MainPcs, LoopPcs, Tk
<1>2. ASSUME NEW w \in Workers, NEW p, p \in AllPcs, stack[w] # <<>>, Jump(w, p)
      PROVE  stack' \in [Workers -> Seq(Frames)]
  BY <1>2, JumpEffect
<1>3. ASSUME NEW w \in Workers, NEW p, p \in AllPcs, NEW n \in Tasks, stack[w] # <<>>, CallFrom(w, p, n)
      PROVE  stack' \in [Workers -> Seq(Frames)]
  BY <1>3, CallEffect
<1>4. ASSUME NEW w \in Workers, Start(w)  PROVE TypeOK'
  <2>1. /\ stack[w] # <<>> /\ Task(w) \in Tasks
        /\ begun' = begun \cup {Task(w)}
        /\ UNCHANGED <<done, finished, stale, ended>>
    BY <1>1, <1>4 DEF Start, At
  <2>2. CASE Task(w) \in Forking
    <3>1. Append(Task(w), 0) \in Tasks /\ Right(Task(w)) \in Tasks
      BY <2>2, TaskFacts
    <3>2. /\ deques' = [deques EXCEPT ![w].jobs = Append(@, Right(Task(w)))]
          /\ waking' = [waking EXCEPT ![w] = IF Bot(w) = 0 THEN "test" ELSE @]
          /\ CallFrom(w, "left", Append(Task(w), 0))
      BY <1>4, <2>2 DEF Start
    <3>3. stack' \in [Workers -> Seq(Frames)]
      BY <1>3, <2>1, <3>1, <3>2
    <3>4. deques' \in [Workers -> [top : Nat, jobs : Seq(Tasks)]]
      <4> DEFINE d == [deques[w] EXCEPT !.jobs = Append(@, Right(Task(w)))]
      <4>1. deques[w] \in [top : Nat, jobs : Seq(Tasks)]
        BY DEF TypeOK
      <4>2. Append(deques[w].jobs, Right(Task(w))) \in Seq(Tasks)
        BY <3>1, <4>1, AppendProperties
      <4>3. d \in [top : Nat, jobs : Seq(Tasks)]
        BY <4>1, <4>2
      <4>4. deques' = [deques EXCEPT ![w] = d]
        BY <3>2
      <4> HIDE DEF d
      <4> QED  BY <4>3, <4>4 DEF TypeOK
    <3>5. waking' \in [Workers -> {"no", "test", "add", "notify"}]
      BY <3>2 DEF TypeOK
    <3> QED  BY <2>1, <3>3, <3>4, <3>5 DEF TypeOK
  <2>3. CASE Task(w) \notin Forking
    <3>1. Jump(w, "return") /\ UNCHANGED <<deques, waking>>
      BY <1>4, <2>3 DEF Start
    <3>2. stack' \in [Workers -> Seq(Frames)]
      BY <1>2, <2>1, <3>1
    <3> QED  BY <2>1, <3>1, <3>2 DEF TypeOK
  <2> QED  BY <2>2, <2>3
<1>5. ASSUME NEW w \in Workers, JoinLeft(w)  PROVE TypeOK'
  <2>1. /\ stack[w] # <<>> /\ Task(w) \in Forking /\ PopOwn(w)
        /\ UNCHANGED <<done, finished, waking, stale, begun, ended>>
    BY <1>1, <1>5 DEF JoinLeft, At
  <2>2. deques' \in [Workers -> [top : Nat, jobs : Seq(Tasks)]]
    BY <2>1, PopEffect
  <2>3. Right(Task(w)) \in Tasks
    BY <2>1, TaskFacts
  <2>4. \/ CallFrom(w, "right", Right(Task(w))) \/ Jump(w, "spin") \/ Jump(w, "getjob")
    BY <1>5 DEF JoinLeft
  <2>5. stack' \in [Workers -> Seq(Frames)]
    BY <1>2, <1>3, <2>1, <2>3, <2>4
  <2> QED  BY <2>1, <2>2, <2>5 DEF TypeOK
<1>6. ASSUME NEW w \in Workers, Return(w)  PROVE TypeOK'
  <2>1. /\ stack[w] # <<>> /\ Height(w) > 1 /\ Last(stack[w]).pc = "return"
        /\ UNCHANGED <<deques, finished, waking, stale, begun>>
    BY <1>6 DEF Return, At, Height
  <2>2. Task(w) \in Tasks
    BY <1>1, <2>1 DEF StackShapes, TaskFrame, Tk
  <2> DEFINE g == Last(Front(stack[w]))
  <2>3. Returned(g) \in {"pop", "return", "finish", "getjob"}
    BY DEF Returned
  <2>4. stack' = [stack EXCEPT ![w] = [Front(@) EXCEPT ![Len(@) - 1].pc = Returned(g)]]
    BY <1>6 DEF Return
  <2>5. stack' \in [Workers -> Seq(Frames)]
    <3> HIDE DEF g
    <3> DEFINE p == Returned(g)
    <3>1. p \in TaskPcs \cup MainPcs \cup LoopPcs
      BY <2>3
    <3>2. stack' = [stack EXCEPT ![w] = [Front(@) EXCEPT ![Len(@) - 1].pc = p]]
      BY <2>4
    <3> HIDE DEF p
    <3> QED  BY <2>1, <3>1, <3>2, ReturnEffect DEF Height
  <2>6. done' \subseteq Tasks /\ ended' \subseteq Tasks
    BY <1>6, <2>2 DEF Return, TypeOK
  <2> QED  BY <2>1, <2>5, <2>6 DEF TypeOK
<1>7. ASSUME NEW w \in Workers, GetJob(w)  PROVE TypeOK'
  <2>1. stack[w] # <<>> /\ UNCHANGED <<done, finished, waking, stale, begun, ended>>
    BY <1>7 DEF GetJob, At
  <2>2. CASE Break(w)
    <3>1. UNCHANGED deques /\ (Jump(w, "exit") \/ Jump(w, "return"))
      BY <1>7, <2>2 DEF GetJob, NoMoreJobs
    <3>2. stack' \in [Workers -> Seq(Frames)]
      BY <1>2, <2>1, <3>1
    <3> QED  BY <2>1, <3>1, <3>2 DEF TypeOK
  <2>3. CASE ~Break(w)
    <3>1. PopOwn(w)
      BY <1>7, <2>3 DEF GetJob
    <3>2. deques' \in [Workers -> [top : Nat, jobs : Seq(Tasks)]]
      BY <3>1, PopEffect
    <3>3. GetOwnJob(w) # NoJob => GetOwnJob(w) \in Tasks
      <4>1. deques[w].jobs \in Seq(Tasks)
        BY DEF TypeOK
      <4>2. deques[w].jobs # <<>> => Last(deques[w].jobs) \in Tasks
        BY <4>1, EmptySeq DEF Last
      <4> QED  BY <4>2 DEF GetOwnJob, PopBottom
    <3>4. stack' \in [Workers -> Seq(Frames)]
      BY <1>2, <1>3, <1>7, <2>1, <2>3, <3>3 DEF GetJob
    <3> QED  BY <2>1, <3>2, <3>4 DEF TypeOK
  <2> QED  BY <2>2, <2>3
<1>8. ASSUME NEW w \in Workers, TrySteal(w)  PROVE TypeOK'
  <2>1. stack[w] # <<>> /\ UNCHANGED <<done, finished, stale, begun, ended>>
    BY <1>8 DEF TrySteal, At
  <2>2. PICK target \in Workers, empty \in BOOLEAN :
          LET d == deques[target] IN
          /\ \/ /\ d.jobs # <<>>
                /\ deques' = [deques EXCEPT ![target] = PopTop(@)]
                /\ CallFrom(w, "run", Head(d.jobs))
             \/ /\ Jump(w, "again")
                /\ UNCHANGED deques
          /\ waking' = [waking EXCEPT ![w] = IF empty THEN @ ELSE "test"]
    BY <1>8 DEF TrySteal
  <2>3. waking' \in [Workers -> {"no", "test", "add", "notify"}]
    BY <2>2 DEF TypeOK
  <2>4. stack' \in [Workers -> Seq(Frames)] /\ deques' \in [Workers -> [top : Nat, jobs : Seq(Tasks)]]
    <3> DEFINE d == deques[target]
    <3>1. CASE d.jobs # <<>> /\ deques' = [deques EXCEPT ![target] = PopTop(@)]
               /\ CallFrom(w, "run", Head(d.jobs))
      <4>1. d.top \in Nat /\ d.jobs \in Seq(Tasks)
        BY DEF TypeOK
      <4>2. Head(d.jobs) \in Tasks /\ Tail(d.jobs) \in Seq(Tasks)
        BY <3>1, <4>1, HeadTailProperties
      <4>3. PopTop(d) \in [top : Nat, jobs : Seq(Tasks)]
        BY <4>1, <4>2 DEF PopTop
      <4>4. stack' \in [Workers -> Seq(Frames)]
        BY <1>3, <2>1, <3>1, <4>2
      <4> QED  BY <3>1, <4>3, <4>4 DEF TypeOK
    <3>2. CASE Jump(w, "again") /\ UNCHANGED deques
      BY <1>2, <2>1, <3>2 DEF TypeOK
    <3> QED  BY <2>2, <3>1, <3>2
  <2> QED  BY <2>1, <2>3, <2>4 DEF TypeOK
<1>9. ASSUME NEW w \in Workers, NEW p, p \in AllPcs, stack[w] # <<>>, Jump(w, p),
             UNCHANGED <<deques, done, finished, waking, begun, ended>>, stale' \subseteq Workers
      PROVE  TypeOK'
  <2>1. stack' \in [Workers -> Seq(Frames)]
    BY <1>2, <1>9
  <2> QED  BY <1>9, <2>1 DEF TypeOK
<1>10. ASSUME NEW w \in Workers,
              Again(w) \/ Spin(w) \/ FallAsleep(w) \/ LoadCounter(w) \/ AtomicWait(w) \/ WakeUp(w)
       PROVE  TypeOK'
  <2>1. stack[w] # <<>> /\ UNCHANGED <<deques, done, finished, waking, begun, ended>>
    BY <1>10 DEF Again, Spin, FallAsleep, LoadCounter, AtomicWait, WakeUp, At
  <2>2. stale' \subseteq Workers
    BY <1>10 DEF Again, Spin, FallAsleep, LoadCounter, AtomicWait, WakeUp, TypeOK
  <2>3. \/ Jump(w, "exit") \/ Jump(w, "return") \/ Jump(w, "steal") \/ Jump(w, "sleepy")
        \/ Jump(w, "load") \/ Jump(w, "wait") \/ Jump(w, "woken") \/ Jump(w, "asleep") \/ Jump(w, "getjob")
    BY <1>10 DEF Again, NoMoreJobs, Spin, FallAsleep, LoadCounter, AtomicWait, WakeUp
  <2> QED  BY <1>9, <2>1, <2>2, <2>3
<1>11. ASSUME NEW w \in Workers, Exit(w)  PROVE TypeOK'
  <2>1. stack' \in [Workers -> Seq(Frames)]
    BY <1>11, EmptySeq DEF Exit, TypeOK
  <2> QED  BY <1>11, <2>1 DEF Exit, TypeOK
<1>12. ASSUME NEW w \in Workers, TestAwake(w)  PROVE TypeOK'
  BY <1>12 DEF TestAwake, TypeOK
<1>13. ASSUME NEW w \in Workers, AddToCounter(w)  PROVE TypeOK'
  BY <1>13 DEF AddToCounter, TypeOK
<1>14. ASSUME NEW w \in Workers, Notify(w)  PROVE TypeOK'
  <2>1. PICK woken \in SUBSET Asleep :
          stack' = [v \in Workers |->
            IF v \in woken THEN Goto(v, IF v \in stale THEN "woken" ELSE "asleep") ELSE stack[v]]
    BY <1>14 DEF Notify
  <2>2. ASSUME NEW v \in woken  PROVE Goto(v, IF v \in stale THEN "woken" ELSE "asleep") \in Seq(Frames)
    <3>1. v \in Workers /\ stack[v] # <<>> /\ stack[v] \in Seq(Frames)
      BY DEF Asleep, At, TypeOK
    <3> DEFINE p == IF v \in stale THEN "woken" ELSE "asleep"
    <3>2. p \in TaskPcs \cup MainPcs \cup LoopPcs
      OBVIOUS
    <3> HIDE DEF p
    <3>3. Goto(v, p) \in Seq(Frames)
      BY <3>1, <3>2, JumpSeq DEF Goto
    <3> QED  BY <3>3 DEF p
  <2>3. stack' \in [Workers -> Seq(Frames)]
    BY <2>1, <2>2 DEF TypeOK
  <2>4. waking' \in [Workers -> {"no", "test", "add", "notify"}]
    BY <1>14 DEF Notify, TypeOK
  <2> QED  BY <1>14, <2>3, <2>4 DEF Notify, TypeOK
<1>15. CASE SetFinished
  <2>1. stack[MainThread] # <<>> /\ Jump(MainThread, "shutdown") /\ MainThread \in Workers
    BY <1>15, SchedulerAssumption DEF SetFinished, At, SchedulerAssumption
  <2>2. stack' \in [Workers -> Seq(Frames)]
    BY <1>2, <2>1
  <2> QED  BY <1>15, <2>2 DEF SetFinished, TypeOK
<1>16. CASE SpamWake
  <2>1. stack[MainThread] # <<>> /\ MainThread \in Workers
    BY <1>16, SchedulerAssumption DEF SpamWake, At, SchedulerAssumption
  <2>2. stack' \in [Workers -> Seq(Frames)]
    BY <1>2, <1>16, <2>1 DEF SpamWake, TypeOK
  <2>3. waking' \in [Workers -> {"no", "test", "add", "notify"}]
    BY <1>16 DEF SpamWake, TypeOK
  <2> QED  BY <1>16, <2>2, <2>3 DEF SpamWake, TypeOK
<1>17. CASE Joined \/ UNCHANGED vars
  BY <1>17 DEF Joined, vars, TypeOK
<1> QED  BY <1>4, <1>5, <1>6, <1>7, <1>8, <1>10, <1>11, <1>12, <1>13, <1>14, <1>15, <1>16, <1>17
         DEF Next, Steps

-----------------------------------------------------------------------------
(* The steps that only move innermost frames.                              *)

\* What the youngest frame of a thread may be: the thread's first one, or a task that does not wait for a call.
LEMMA TopKinds ==
  ASSUME IInv, NEW w \in Workers, stack[w] # <<>>
  PROVE  LET f == stack[w][Height(w)] IN
         /\ Height(w) \in Nat \ {0} /\ Last(stack[w]) = f /\ Task(w) = f.task
         /\ f.pc \notin Calling
         /\ \/ Height(w) = 1 /\ BottomFrame(w, f)
            \/ Height(w) > 1 /\ TaskFrame(f) /\ f.task \notin {Loop, Main}
         /\ f.pc \in Waiting => Bot(w) = 0 /\ Jobs(w) = <<>>
<1> DEFINE f == stack[w][Height(w)]
<1>1. Height(w) \in Nat \ {0} /\ Last(stack[w]) = f /\ Task(w) = f.task
  BY TopOfStack DEF IInv, Tk
<1>2. /\ Height(w) = 1 => BottomFrame(w, f)
      /\ Height(w) > 1 => TaskFrame(f)
      /\ f.pc \notin Calling
  BY <1>1 DEF IInv, StackShapes, Pc
<1>3. Height(w) > 1 => f.task \notin {Loop, Main}
  BY <1>2, TaskFacts DEF TaskFrame
<1>4. f.pc \in Waiting => Bot(w) = 0
  BY <1>1 DEF IInv, SlotsSuffice, Pc
<1>5. Bot(w) = 0 => Jobs(w) = <<>>
  <2>1. /\ Jobs(w) \in Seq(Tasks) /\ Len(Jobs(w)) \in Nat /\ deques[w].top \in Nat
        /\ Bot(w) = deques[w].top + Len(Jobs(w))
    BY SizesHold DEF Sizes, IInv
  <2>2. Bot(w) = 0 => Len(Jobs(w)) = 0
    BY <2>1
  <2> QED  BY <2>1, <2>2, EmptySeq
<1> QED  BY <1>1, <1>2, <1>3, <1>4, <1>5

\* A frame that starts to wait, waits or has waited enough goes on, and nothing else moves.
LEMMA JumpMovesTop ==
  ASSUME IInv, NEW w \in Workers, stack[w] # <<>>, NEW p,
         p \in TaskPcs \cup MainPcs \cup LoopPcs, Jump(w, p),
         \A v \in Workers : Jobs(v)' = Jobs(v) /\ Bot(v)' <= Bot(v),
         LET pc == Last(stack[w]).pc IN
           \/ Height(w) = 1 /\ BottomFrame(w, Frame(Task(w), p)) /\ p \notin Calling
           \/ /\ Height(w) > 1 /\ pc \in {"pop"} \cup Waiting
              /\ pc = "pop" => Jobs(w) = <<>>
              /\ \/ p \in Waiting /\ Bot(w)' = 0
                 \/ p = "return" /\ pc # "pop" /\ Right(Task(w)) \in done
  PROVE  OnlyTopsMove
<1>1. Others(w) /\ Height(w)' = Height(w) /\ Below(w, Height(w) - 1)
      /\ stack'[w][Height(w)] = Frame(Tk(w, Height(w)), p)
  BY JumpEffect DEF IInv
<1>2. LET f == stack[w][Height(w)] IN
        Height(w) \in Nat \ {0} /\ Last(stack[w]) = f /\ Task(w) = f.task
  BY TopKinds
<1>3. TopMoves(w)
  BY <1>1, <1>2 DEF TopMoves, Frame, Tk
<1>4. \A v \in Workers : v # w => Height(v)' = Height(v) /\ stack'[v] = stack[v]
  BY <1>1 DEF Others, Height
<1> QED  BY <1>1, <1>2, <1>3, <1>4 DEF OnlyTopsMove

\* pardo, when pop_bottom returns nothing because right_job was stolen.
LEMMA JoinWithoutJob ==
  ASSUME IInv, NEW w \in Workers, JoinLeft(w), GetOwnJob(w) = NoJob
  PROVE  OnlyTopsMove
<1>1. stack[w] # <<>> /\ Last(stack[w]).pc = "pop" /\ PopOwn(w)
      /\ Jump(w, IF Task(w) \in Conservative THEN "spin" ELSE "getjob")
  BY DEF JoinLeft, At
<1>2. Jobs(w) = <<>> /\ Jobs(w)' = <<>> /\ Bot(w)' = 0 /\ \A v \in Workers : v # w => deques'[v] = deques[v]
  BY <1>1, PopEffect DEF IInv
<1>3. \A v \in Workers : Jobs(v)' = Jobs(v) /\ Bot(v)' <= Bot(v)
  <2> SUFFICES ASSUME NEW v \in Workers PROVE Jobs(v)' = Jobs(v) /\ Bot(v)' <= Bot(v)
    OBVIOUS
  <2>1. Bot(v) \in Nat
    BY SizesHold DEF IInv, Sizes
  <2> QED  BY <1>2, <2>1 DEF Jobs, Bot
<1>4. Height(w) > 1
  BY <1>1, TopKinds DEF BottomFrame, MainPcs, LoopPcs
<1> DEFINE p == IF Task(w) \in Conservative THEN "spin" ELSE "getjob"
<1>5. p \in Waiting /\ p \in TaskPcs
  BY DEF TaskPcs, Waiting
<1> HIDE DEF p
<1>6. Jump(w, p)
  BY <1>1 DEF p
<1> QED  BY <1>1, <1>2, <1>3, <1>4, <1>5, <1>6, JumpMovesTop

\* get_own_job of a frame that waits finds nothing, and its thread goes on to steal.
LEMMA GetJobMoves ==
  ASSUME IInv, NEW w \in Workers, GetJob(w)
  PROVE  OnlyTopsMove
<1>1. stack[w] # <<>> /\ Last(stack[w]).pc = "getjob"
  BY DEF GetJob, At
<1>2. Bot(w) = 0 /\ Jobs(w) = <<>>
  BY <1>1, TopKinds DEF Waiting
<1>3. \/ Height(w) = 1 /\ Task(w) = Loop /\ w # MainThread
      \/ Height(w) > 1 /\ Task(w) # Loop
  BY <1>1, TopKinds DEF BottomFrame, MainPcs
<1>4. \A p \in LoopPcs : Height(w) = 1 => BottomFrame(w, Frame(Task(w), p))
  BY <1>3 DEF BottomFrame, Frame
<1>5. \A v \in Workers : Bot(v) \in Nat
  BY SizesHold DEF IInv, Sizes
<1>6. CASE Break(w)
  <2>1. Jump(w, NoMoreJobs(w)) /\ UNCHANGED deques
    BY <1>6 DEF GetJob
  <2>2. \A v \in Workers : Jobs(v)' = Jobs(v) /\ Bot(v)' <= Bot(v)
    BY <1>5, <2>1 DEF Jobs, Bot
  <2>3. CASE Task(w) = Loop
    BY <1>1, <1>3, <1>4, <2>1, <2>2, <2>3, JumpMovesTop DEF NoMoreJobs, LoopPcs, Calling
  <2>4. CASE Task(w) # Loop
    <3>1. Height(w) > 1 /\ Right(Task(w)) \in done /\ Jump(w, "return")
      BY <1>3, <1>6, <2>1, <2>4 DEF Break, NoMoreJobs
    <3> QED  BY <1>1, <2>2, <3>1, JumpMovesTop DEF TaskPcs, Waiting
  <2> QED  BY <2>3, <2>4
<1>7. CASE ~Break(w)
  <2>1. PopOwn(w)
    BY <1>7 DEF GetJob
  <2>2. GetOwnJob(w) = NoJob /\ Jobs(w)' = Jobs(w) /\ Bot(w)' = 0 /\ \A v \in Workers : v # w => deques'[v] = deques[v]
    BY <1>2, <2>1, PopEffect DEF IInv
  <2>3. Jump(w, "steal")
    BY <1>7, <2>2 DEF GetJob
  <2>4. \A v \in Workers : Jobs(v)' = Jobs(v) /\ Bot(v)' <= Bot(v)
    BY <1>2, <1>5, <2>2 DEF Jobs, Bot
  <2> QED  BY <1>1, <1>3, <1>4, <2>2, <2>3, <2>4, JumpMovesTop DEF LoopPcs, TaskPcs, Calling, Waiting
<1> QED  BY <1>6, <1>7

\* A thread that found no job tries again, falls asleep, or stops as its wait is over.
LEMMA AgainMoves ==
  ASSUME IInv, NEW w \in Workers, Again(w)
  PROVE  OnlyTopsMove
<1>1. stack[w] # <<>> /\ Last(stack[w]).pc = "again" /\ UNCHANGED deques
  BY DEF Again, At
<1>2. Bot(w) = 0
  BY <1>1, TopKinds DEF Waiting
<1>3. \/ Height(w) = 1 /\ Task(w) = Loop /\ w # MainThread
      \/ Height(w) > 1 /\ Task(w) # Loop
  BY <1>1, TopKinds DEF BottomFrame, MainPcs
<1>4. \A p \in LoopPcs : Height(w) = 1 => BottomFrame(w, Frame(Task(w), p))
  BY <1>3 DEF BottomFrame, Frame
<1>5. \A v \in Workers : Jobs(v)' = Jobs(v) /\ Bot(v)' <= Bot(v)
  <2>1. \A v \in Workers : Bot(v) \in Nat
    BY SizesHold DEF IInv, Sizes
  <2> QED  BY <1>1, <2>1 DEF Jobs, Bot
<1>6. Bot(w)' = 0
  BY <1>1, <1>2 DEF Bot
<1>7. CASE Task(w) = Loop
  <2>1. Jump(w, "exit") \/ Jump(w, "steal") \/ Jump(w, "sleepy")
    BY <1>7 DEF Again, NoMoreJobs
  <2>2. {"exit", "steal", "sleepy"} \subseteq LoopPcs \ Calling
    BY DEF LoopPcs, Calling
  <2> QED  BY <1>1, <1>3, <1>4, <1>5, <1>7, <2>1, <2>2, JumpMovesTop
<1>8. CASE Task(w) # Loop
  <2>1. (Jump(w, "return") /\ Right(Task(w)) \in done) \/ Jump(w, "steal")
    BY <1>8 DEF Again, NoMoreJobs, Break, MayTimeOut
  <2> QED  BY <1>1, <1>3, <1>5, <1>6, <1>8, <2>1, JumpMovesTop DEF TaskPcs, Waiting
<1> QED  BY <1>7, <1>8

\* A victim without jobs.
LEMMA FailedStealMoves ==
  ASSUME IInv, NEW w \in Workers, At(w, "steal"), Jump(w, "again"), UNCHANGED deques
  PROVE  OnlyTopsMove
<1>1. stack[w] # <<>> /\ Last(stack[w]).pc = "steal"
  BY DEF At
<1>2. Bot(w) = 0 /\ Bot(w)' = Bot(w)
  BY <1>1, TopKinds DEF Waiting, Bot
<1>3. \/ Height(w) = 1 /\ Task(w) = Loop /\ w # MainThread
      \/ Height(w) > 1
  BY <1>1, TopKinds DEF BottomFrame, MainPcs
<1>4. \A v \in Workers : Jobs(v)' = Jobs(v) /\ Bot(v)' <= Bot(v)
  <2>1. \A v \in Workers : Bot(v) \in Nat
    BY SizesHold DEF IInv, Sizes
  <2> QED  BY <2>1 DEF Jobs, Bot
<1>5. "again" \in LoopPcs /\ "again" \in Waiting /\ "again" \notin Calling /\ "steal" \in Waiting
  BY DEF LoopPcs, Waiting, Calling
<1>6. Height(w) = 1 => BottomFrame(w, Frame(Task(w), "again"))
  BY <1>3, <1>5 DEF BottomFrame, Frame
<1> QED  BY <1>1, <1>2, <1>3, <1>4, <1>5, <1>6, JumpMovesTop

\* A waiting pardo tests whether right_job has ended.
LEMMA SpinMoves ==
  ASSUME IInv, NEW w \in Workers, Spin(w)
  PROVE  OnlyTopsMove
<1>1. stack[w] # <<>> /\ Last(stack[w]).pc = "spin" /\ UNCHANGED deques /\ Break(w) /\ Jump(w, "return")
  BY DEF Spin, At
<1>2. Height(w) > 1 /\ Task(w) # Loop
  BY <1>1, TopKinds DEF BottomFrame, MainPcs, LoopPcs
<1>3. \A v \in Workers : Jobs(v)' = Jobs(v) /\ Bot(v)' <= Bot(v)
  <2>1. \A v \in Workers : Bot(v) \in Nat
    BY SizesHold DEF IInv, Sizes
  <2> QED  BY <1>1, <2>1 DEF Jobs, Bot
<1>4. Right(Task(w)) \in done
  BY <1>1, <1>2 DEF Break
<1> QED  BY <1>1, <1>2, <1>3, <1>4, JumpMovesTop DEF TaskPcs, Waiting

\* The steps of a worker that sleeps, and of the main thread when all is done.
LEMMA BottomMoves ==
  ASSUME IInv, NEW w \in Workers,
         \/ FallAsleep(w) \/ LoadCounter(w) \/ AtomicWait(w) \/ WakeUp(w)
         \/ w = MainThread /\ SetFinished
         \/ w = MainThread /\ SpamWake /\ stack' # stack
  PROVE  OnlyTopsMove
<1>1. /\ stack[w] # <<>> /\ UNCHANGED deques
      /\ Last(stack[w]).pc \in {"sleepy", "load", "wait", "woken", "finish", "shutdown"}
  BY DEF FallAsleep, LoadCounter, AtomicWait, WakeUp, SetFinished, SpamWake, At
<1>2. Height(w) = 1 /\ BottomFrame(w, Last(stack[w])) /\ Task(w) = Last(stack[w]).task
  BY <1>1, TopKinds DEF TaskFrame, TaskPcs, Calling, Waiting
<1>3. \A v \in Workers : Jobs(v)' = Jobs(v) /\ Bot(v)' <= Bot(v)
  <2>1. \A v \in Workers : Bot(v) \in Nat
    BY SizesHold DEF IInv, Sizes
  <2> QED  BY <1>1, <2>1 DEF Jobs, Bot
<1>4. CASE w = MainThread
  <2>1. Task(w) = Main /\ Last(stack[w]).pc \in {"finish", "shutdown"}
    BY <1>1, <1>2, <1>4 DEF BottomFrame, MainPcs
  <2>2. Jump(w, "shutdown") \/ Jump(w, "joined")
    BY <1>4, <2>1 DEF FallAsleep, LoadCounter, AtomicWait, WakeUp, SetFinished, SpamWake, At
  <2>3. {"shutdown", "joined"} \subseteq MainPcs \ Calling
    BY DEF MainPcs, Calling
  <2>4. \A p \in MainPcs : BottomFrame(w, Frame(Task(w), p))
    BY <1>4, <2>1 DEF BottomFrame, Frame
  <2> QED  BY <1>1, <1>2, <1>3, <2>2, <2>3, <2>4, JumpMovesTop
<1>5. CASE w # MainThread
  <2>1. Task(w) = Loop
    BY <1>2, <1>5 DEF BottomFrame
  <2>2. Jump(w, "load") \/ Jump(w, "wait") \/ Jump(w, "woken") \/ Jump(w, "asleep") \/ Jump(w, "getjob")
    BY <1>5 DEF FallAsleep, LoadCounter, AtomicWait, WakeUp
  <2>3. {"load", "wait", "woken", "asleep", "getjob"} \subseteq LoopPcs \ Calling
    BY DEF LoopPcs, Calling
  <2>4. \A p \in LoopPcs : BottomFrame(w, Frame(Task(w), p))
    BY <1>5, <2>1 DEF BottomFrame, Frame
  <2> QED  BY <1>1, <1>2, <1>3, <2>2, <2>3, <2>4, JumpMovesTop
<1> QED  BY <1>4, <1>5

\* wake_up_a_worker and wake_up_all_workers change nobody who does not sleep.
LEMMA NotifyMoves ==
  ASSUME IInv, NEW w \in Workers, Notify(w)
  PROVE  OnlyTopsMove
<1>1. PICK woken \in SUBSET Asleep :
        stack' = [v \in Workers |->
          IF v \in woken THEN Goto(v, IF v \in stale THEN "woken" ELSE "asleep") ELSE stack[v]]
  BY DEF Notify
<1>2. ASSUME NEW v \in Workers
      PROVE  Jobs(v)' = Jobs(v) /\ Bot(v)' <= Bot(v)
  <2>1. Bot(v) \in Nat
    BY SizesHold DEF IInv, Sizes
  <2>2. UNCHANGED deques
    BY DEF Notify
  <2> QED  BY <2>1, <2>2 DEF Jobs, Bot
<1>3. ASSUME NEW v \in Workers, v \notin woken
      PROVE  Height(v)' = Height(v) /\ stack'[v] = stack[v]
  BY <1>1, <1>3 DEF Height
<1>4. ASSUME NEW v \in Workers, v \in woken
      PROVE  /\ Height(v)' = Height(v) /\ Height(v) > 0
             /\ Below(v, Height(v) - 1) /\ TopMoves(v)
  <2>1. stack[v] # <<>> /\ Last(stack[v]).pc = "asleep" /\ stack[v] \in Seq(Frames)
    BY <1>4 DEF Asleep, At, IInv, TypeOK
  <2>2. Height(v) = 1 /\ BottomFrame(v, stack[v][1]) /\ stack[v][1].pc = "asleep"
    BY <2>1, TopKinds DEF TaskFrame, TaskPcs, Calling, Waiting
  <2> DEFINE p == IF v \in stale THEN "woken" ELSE "asleep"
  <2>3. p \in LoopPcs \ Calling
    BY DEF LoopPcs, Calling
  <2>4. stack'[v] = Goto(v, p)
    BY <1>1, <1>4
  <2> HIDE DEF p
  <2>5. Len(Goto(v, p)) = Len(stack[v]) /\ Goto(v, p)[1] = Frame(stack[v][1].task, p)
    BY <2>1, <2>2, <2>3, JumpSeq DEF Goto, Height
  <2>6. Height(v)' = Height(v) /\ stack'[v][1] = Frame(stack[v][1].task, p)
    BY <2>4, <2>5 DEF Height
  <2>7. v # MainThread /\ stack[v][1].task = Loop
    BY <2>2 DEF BottomFrame, MainPcs
  <2>8. TopMoves(v)
    BY <2>2, <2>3, <2>6, <2>7 DEF TopMoves, Frame, BottomFrame
  <2>9. Below(v, Height(v) - 1)
    BY <2>2 DEF Below
  <2> QED  BY <2>2, <2>6, <2>8, <2>9
<1> QED  BY <1>2, <1>3, <1>4 DEF OnlyTopsMove

-----------------------------------------------------------------------------
(* A task that forks: its right half goes to the end of the deque, its     *)
(* left half on top of the stack.                                          *)

\* pardo pushes right_job and calls left.
LEMMA ForkKeeps ==
  ASSUME IInv, TypeOK', NEW w \in Workers, Start(w), Task(w) \in Forking
  PROVE  IInv'
<1>1. stack[w] # <<>> /\ Last(stack[w]).pc = "start"
  BY DEF Start, At
<1>2. PICK h \in Nat : h = Height(w) /\ h > 1
  BY <1>1, TopKinds DEF BottomFrame, MainPcs, LoopPcs
<1>3. PICK n \in Forking : n = Task(w)
  OBVIOUS
<1>4. stack[w][h].task = n /\ stack[w][h].pc = "start"
  BY <1>1, <1>2, <1>3, TopKinds
<1>5. PICK left \in Tasks, right \in Tasks :
        /\ left = Append(n, 0) /\ right = Right(n)
        /\ left # right /\ left # n /\ right # n
  BY TaskFacts, HalvesDiffer
<1>6. /\ Others(w) /\ Height(w)' = h + 1 /\ Below(w, h - 1)
      /\ stack'[w][h] = Frame(n, "left") /\ stack'[w][h + 1] = Frame(left, "start")
  <2>1. CallFrom(w, "left", left)
    BY <1>3, <1>5 DEF Start
  <2> QED  BY <1>1, <1>2, <1>4, <2>1, CallEffect DEF IInv, TaskPcs, Calling, Tk
<1>7. PICK L \in Nat : L = Len(Jobs(w))
  BY SizesHold DEF IInv, Sizes
<1>8. /\ \A v \in Workers : v # w => deques'[v] = deques[v]
      /\ Len(Jobs(w))' = L + 1 /\ deques'[w].jobs[L + 1] = right
      /\ \A k \in 1..L : deques'[w].jobs[k] = Jobs(w)[k]
      /\ Bot(w)' = Bot(w) + 1
  <2>1. deques' = [deques EXCEPT ![w].jobs = Append(@, right)]
    BY <1>3, <1>5 DEF Start
  <2>2. deques \in [Workers -> [top : Nat, jobs : Seq(Tasks)]] /\ Jobs(w) \in Seq(Tasks)
    BY DEF IInv, TypeOK, Jobs
  <2>3. deques'[w].jobs = Append(Jobs(w), right) /\ deques'[w].top = deques[w].top /\ deques[w].top \in Nat
    BY <2>1, <2>2 DEF Jobs
  <2>4. /\ Len(Append(Jobs(w), right)) = L + 1 /\ Append(Jobs(w), right)[L + 1] = right
        /\ \A k \in 1..L : Append(Jobs(w), right)[k] = Jobs(w)[k]
    BY <1>7, <2>2, AppendProperties
  <2>5. \A v \in Workers : v # w => deques'[v] = deques[v]
    BY <2>1, <2>2
  <2>6. Bot(w)' = Bot(w) + 1
    <3>1. Bot(w) = deques[w].top + L
      BY <1>7 DEF Jobs, Bot
    <3>2. Bot(w)' = deques[w].top + (L + 1)
      BY <2>3, <2>4 DEF Bot
    <3> QED  BY <2>3, <3>1, <3>2
  <2> QED  BY <2>3, <2>4, <2>5, <2>6 DEF Jobs
<1>9. begun' = begun \cup {n} /\ UNCHANGED <<done, ended>>
  BY <1>3 DEF Start
<1>10. Sizes /\ Sizes'
  BY SizesHold, SizesHoldNext DEF IInv
<1>11. n \notin begun /\ ~Present(left) /\ ~Present(right)
  <2>1. n \notin begun
    BY <1>2, <1>4 DEF IInv, FramesLive, Pc, Tk
  <2> QED  BY <1>5, <2>1 DEF IInv, ForkersHaveBegun, Halves, Right
\* Where the frames and jobs after the step come from.
<1>12. \A v \in Workers : /\ Height(v)' \in Nat /\ Height(v) \in Nat
                          /\ Len(Jobs(v))' \in Nat /\ Len(Jobs(v)) \in Nat
                          /\ v # w => /\ stack'[v] = stack[v] /\ Height(v)' = Height(v)
                                      /\ Jobs(v)' = Jobs(v) /\ Bot(v)' = Bot(v)
  BY <1>6, <1>8, <1>10 DEF Sizes, Others, Height, Jobs, Bot
<1>13. ASSUME NEW v \in Workers, NEW i \in 1..Height(v)'
       PROVE  \/ /\ i \in 1..Height(v) /\ stack'[v][i] = stack[v][i]
                 /\ v = w => i < h
              \/ v = w /\ i = h /\ stack'[v][i] = Frame(n, "left")
              \/ v = w /\ i = h + 1 /\ stack'[v][i] = Frame(left, "start")
  <2>1. CASE v # w
    BY <1>12, <2>1
  <2>2. CASE v = w
    BY <1>2, <1>6, <2>2 DEF Below
  <2> QED  BY <2>1, <2>2
<1>14. ASSUME NEW v \in Workers, NEW k \in 1..Len(Jobs(v))'
       PROVE  \/ k \in 1..Len(Jobs(v)) /\ Jobs(v)'[k] = Jobs(v)[k]
              \/ v = w /\ k = L + 1 /\ Jobs(v)'[k] = right
  <2>1. CASE v # w
    BY <1>12, <2>1
  <2>2. CASE v = w
    BY <1>7, <1>8, <2>2 DEF Jobs
  <2> QED  BY <2>1, <2>2
<1>15. StackShapes'
  <2> SUFFICES ASSUME NEW v \in Workers
               PROVE  /\ v = MainThread => Height(v)' > 0
                      /\ \A i \in 1..Height(v)' :
                           /\ i = 1 => BottomFrame(v, stack'[v][i])
                           /\ i > 1 => TaskFrame(stack'[v][i])
                           /\ i < Height(v)' <=> stack'[v][i].pc \in Calling
    BY DEF StackShapes, Pc
  <2>1. v = MainThread => Height(v)' > 0
    BY <1>6, <1>12 DEF IInv, StackShapes
  <2>2. ASSUME NEW i \in 1..Height(v)'
        PROVE  /\ i = 1 => BottomFrame(v, stack'[v][i])
               /\ i > 1 => TaskFrame(stack'[v][i])
               /\ i < Height(v)' <=> stack'[v][i].pc \in Calling
    <3>1. CASE i \in 1..Height(v) /\ stack'[v][i] = stack[v][i] /\ (v = w => i < h)
      BY <1>2, <1>6, <1>12, <3>1 DEF IInv, StackShapes, Pc
    <3>2. CASE v = w /\ i = h /\ stack'[v][i] = Frame(n, "left")
      BY <1>2, <1>6, <3>2, TaskFacts DEF Frame, TaskFrame, TaskPcs, Calling
    <3>3. CASE v = w /\ i = h + 1 /\ stack'[v][i] = Frame(left, "start")
      BY <1>2, <1>6, <3>3 DEF Frame, TaskFrame, TaskPcs, Calling
    <3> QED  BY <1>13, <3>1, <3>2, <3>3
  <2> QED  BY <2>1, <2>2
<1>16. Calls'
  <2> SUFFICES ASSUME NEW v \in Workers, NEW i \in 1..Height(v)' - 1
               PROVE  /\ stack'[v][i].pc = "left" => stack'[v][i + 1].task = Append(stack'[v][i].task, 0)
                      /\ stack'[v][i].pc = "right" => stack'[v][i + 1].task = Right(stack'[v][i].task)
                      /\ stack'[v][i].task = Main => stack'[v][i + 1].task = <<>>
    BY DEF Calls, Pc, Tk
  <2>1. i \in 1..Height(v)' /\ i + 1 \in 1..Height(v)' /\ i # Height(v)'
    BY <1>12
  <2>2. CASE v = w /\ i = h
    <3>1. stack'[w][h].task = n /\ stack'[w][h].pc = "left" /\ stack'[w][h + 1].task = left
      BY <1>6 DEF Frame
    <3>2. n # Main
      BY TaskFacts
    <3> QED  BY <1>5, <2>2, <3>1, <3>2
  <2>3. CASE ~(v = w /\ i = h)
    <3>1. i \in 1..Height(v) - 1 /\ stack'[v][i] = stack[v][i] /\ stack'[v][i + 1].task = stack[v][i + 1].task
      BY <1>2, <1>4, <1>6, <1>12, <1>13, <2>1, <2>3 DEF Frame
    <3> QED  BY <3>1 DEF IInv, Calls, Pc, Tk
  <2> QED  BY <2>2, <2>3
\* Neither half is anywhere before the step.
<1>17. \A v \in Workers : /\ \A i \in 2..Height(v) : stack[v][i].task \notin {left, right}
                          /\ \A k \in 1..Len(Jobs(v)) : Jobs(v)[k] \notin {left, right}
  BY <1>11 DEF Present, Tk
\* The tasks of the frames after the step.
<1>18. ASSUME NEW v \in Workers, NEW i \in 2..Height(v)'
       PROVE  \/ /\ i \in 2..Height(v) /\ stack'[v][i].task = stack[v][i].task
                 /\ v = w => i <= h
              \/ v = w /\ i = h + 1 /\ stack'[v][i].task = left
  <2>1. i \in 1..Height(v)' /\ i >= 2
    BY <1>12
  <2> QED  BY <1>2, <1>4, <1>12, <1>13, <2>1 DEF Frame
<1>19. FramesDiffer'
  <2> SUFFICES ASSUME NEW v \in Workers, NEW x \in Workers,
                      NEW i \in 2..Height(v)', NEW j \in 2..Height(x)',
                      stack'[v][i].task = stack'[x][j].task
               PROVE  v = x /\ i = j
    BY DEF FramesDiffer, Tk
  <2>1. CASE i \in 2..Height(v) /\ stack'[v][i].task = stack[v][i].task
    <3>1. stack[v][i].task # left
      BY <1>17, <2>1
    <3>2. j \in 2..Height(x) /\ stack'[x][j].task = stack[x][j].task
      BY <1>18, <2>1, <3>1
    <3>3. stack[v][i].task = stack[x][j].task
      BY <2>1, <3>2
    <3> QED  BY <2>1, <3>2, <3>3 DEF IInv, FramesDiffer, Tk
  <2>2. CASE v = w /\ i = h + 1 /\ stack'[v][i].task = left
    BY <1>17, <1>18, <2>2
  <2> QED  BY <1>18, <2>1, <2>2
<1>20. JobsDiffer'
  <2> SUFFICES ASSUME NEW v \in Workers, NEW x \in Workers,
                      NEW k \in 1..Len(Jobs(v))', NEW l \in 1..Len(Jobs(x))',
                      Jobs(v)'[k] = Jobs(x)'[l]
               PROVE  v = x /\ k = l
    BY DEF JobsDiffer
  <2>1. CASE k \in 1..Len(Jobs(v)) /\ Jobs(v)'[k] = Jobs(v)[k]
    <3>1. Jobs(v)[k] # right
      BY <1>17, <2>1
    <3>2. l \in 1..Len(Jobs(x)) /\ Jobs(x)'[l] = Jobs(x)[l]
      BY <1>14, <2>1, <3>1
    <3>3. Jobs(v)[k] = Jobs(x)[l]
      BY <2>1, <3>2
    <3> QED  BY <2>1, <3>2, <3>3 DEF IInv, JobsDiffer
  <2>2. CASE v = w /\ k = L + 1 /\ Jobs(v)'[k] = right
    BY <1>14, <1>17, <2>2
  <2> QED  BY <1>14, <2>1, <2>2
<1>21. JobsAreNew'
  <2> SUFFICES ASSUME NEW v \in Workers, NEW k \in 1..Len(Jobs(v))'
               PROVE  /\ Jobs(v)'[k] \notin begun'
                      /\ \A x \in Workers : \A i \in 2..Height(x)' : stack'[x][i].task # Jobs(v)'[k]
    BY DEF JobsAreNew, Tk
  <2>1. CASE k \in 1..Len(Jobs(v)) /\ Jobs(v)'[k] = Jobs(v)[k]
    <3>1. /\ Jobs(v)[k] \notin begun /\ Jobs(v)[k] # left
          /\ \A x \in Workers : \A i \in 2..Height(x) : stack[x][i].task # Jobs(v)[k]
      BY <1>17, <2>1 DEF IInv, JobsAreNew, Tk
    <3>2. Jobs(v)[k] # n
      BY <1>2, <1>4, <3>1
    <3> QED  BY <1>9, <1>18, <2>1, <3>1, <3>2
  <2>2. CASE v = w /\ k = L + 1 /\ Jobs(v)'[k] = right
    <3>1. right \notin begun'
      BY <1>5, <1>9, <1>11 DEF Present
    <3> QED  BY <1>5, <1>17, <1>18, <2>2, <3>1, SMTT(30)
  <2> QED  BY <1>14, <2>1, <2>2
<1>22. History' /\ FramesLive'
  <2>1. History'
    BY <1>9 DEF IInv, History
  <2>2. ASSUME NEW v \in Workers, NEW i \in 2..Height(v)'
        PROVE  /\ stack'[v][i].task \notin ended'
               /\ stack'[v][i].pc = "start" <=> stack'[v][i].task \notin begun'
    <3>1. i \in 1..Height(v)' /\ i # 1
      BY <1>12
    <3>2. CASE i \in 1..Height(v) /\ stack'[v][i] = stack[v][i] /\ (v = w => i < h)
      <4>1. i \in 2..Height(v)
        BY <3>1, <3>2, <1>12
      <4>2. stack[v][i].task # n
        BY <1>2, <1>4, <3>2, <4>1 DEF IInv, FramesDiffer, Tk
      <4> QED  BY <1>9, <3>2, <4>1, <4>2 DEF IInv, FramesLive, Pc, Tk
    <3>3. CASE v = w /\ i = h /\ stack'[v][i] = Frame(n, "left")
      <4>1. n \notin ended
        BY <1>11 DEF IInv, History
      <4> QED  BY <1>9, <3>3, <4>1 DEF Frame
    <3>4. CASE v = w /\ i = h + 1 /\ stack'[v][i] = Frame(left, "start")
      <4>1. left \notin begun /\ left \notin ended
        BY <1>11 DEF IInv, History, Present
      <4> QED  BY <1>5, <1>9, <3>4, <4>1 DEF Frame
    <3> QED  BY <1>13, <3>1, <3>2, <3>3, <3>4
  <2> QED  BY <2>1, <2>2 DEF FramesLive, Pc, Tk
<1>23. ForkersHaveBegun'
  <2> SUFFICES ASSUME NEW m \in Forking, NEW x \in Halves(m), Present(x)'
               PROVE  m \in begun'
    BY DEF ForkersHaveBegun
  <2>1. Present(x) \/ x = left \/ x = right \/ x = n
    <3>1. CASE x \in begun'
      BY <1>9, <3>1 DEF Present
    <3>2. CASE \E v \in Workers : \E i \in 2..Height(v)' : stack'[v][i].task = x
      BY <1>18, <3>2 DEF Present, Tk
    <3>3. CASE \E v \in Workers : \E k \in 1..Len(Jobs(v))' : Jobs(v)'[k] = x
      BY <1>14, <3>3 DEF Present
    <3> QED  BY <3>1, <3>2, <3>3 DEF Present, Tk
  <2>2. Present(n)
    BY <1>2, <1>4 DEF Present, Tk
  <2>3. CASE Present(x)
    BY <1>9, <2>3 DEF IInv, ForkersHaveBegun
  <2>4. CASE x = left \/ x = right
    <3>1. m = n
      BY <1>5, <2>4, HalvesDiffer DEF Halves, Right
    <3> QED  BY <1>9, <3>1
  <2> QED  BY <2>1, <2>2, <2>3, <2>4
<1>24. HalvesHaveEnded'
  <2> SUFFICES ASSUME NEW v \in Workers, NEW i \in 2..Height(v)', stack'[v][i].task \in Forking
               PROVE  LET f == stack'[v][i] IN
                      /\ f.pc \notin {"start", "left"} => Append(f.task, 0) \in ended'
                      /\ f.pc = "return" => Right(f.task) \in ended'
    BY DEF HalvesHaveEnded, Tk, Pc
  <2>1. i \in 1..Height(v)' /\ i # 1
    BY <1>12
  <2>2. CASE i \in 1..Height(v) /\ stack'[v][i] = stack[v][i]
    <3>1. i \in 2..Height(v)
      BY <2>1, <2>2, <1>12
    <3> QED  BY <1>9, <2>2, <3>1 DEF IInv, HalvesHaveEnded, Tk, Pc
  <2>3. CASE stack'[v][i] = Frame(n, "left") \/ stack'[v][i] = Frame(left, "start")
    BY <2>3 DEF Frame
  <2> QED  BY <1>13, <2>1, <2>2, <2>3
\* Which job is that of which frame.
<1>25. ASSUME NEW v \in Workers, NEW k \in 1..Len(Jobs(v)), NEW i \in 2..Height(v), IsJobOf(v, k, i)
       PROVE  i \in 2..Height(v)' /\ k \in 1..Len(Jobs(v))' /\ IsJobOf(v, k, i)' /\ (v = w => i < h)
  <2>1. ~(v = w /\ i = h)
    BY <1>4, <1>25 DEF IsJobOf, Pc
  <2>2. v = w => i < h
    BY <1>2, <1>12, <2>1
  <2>3. stack'[v][i] = stack[v][i] /\ i \in 2..Height(v)'
    BY <1>2, <1>6, <1>12, <2>2 DEF Below
  <2>4. k \in 1..Len(Jobs(v))' /\ Jobs(v)'[k] = Jobs(v)[k]
    <3>1. CASE v = w
      BY <1>7, <1>8, <3>1 DEF Jobs
    <3>2. CASE v # w
      BY <1>12, <3>2
    <3> QED  BY <3>1, <3>2
  <2> QED  BY <1>25, <2>2, <2>3, <2>4 DEF IsJobOf, Pc, Tk
<1>26. /\ h \in 2..Height(w)' /\ L + 1 \in 1..Len(Jobs(w))' /\ IsJobOf(w, L + 1, h)'
  BY <1>2, <1>5, <1>6, <1>8 DEF IsJobOf, Pc, Tk, Frame, Jobs
<1>27. ASSUME NEW v \in Workers, NEW k \in 1..Len(Jobs(v))', NEW i \in 2..Height(v)', IsJobOf(v, k, i)'
       PROVE  \/ k \in 1..Len(Jobs(v)) /\ i \in 2..Height(v) /\ IsJobOf(v, k, i)
              \/ v = w /\ k = L + 1 /\ i = h
  <2>1. i \in 1..Height(v)' /\ i # 1
    BY <1>12
  <2>2. /\ stack'[v][i].pc \in {"left", "pop"}
        /\ Jobs(v)'[k] = Right(stack'[v][i].task)
    BY <1>27 DEF IsJobOf, Pc, Tk
  <2>3. CASE i \in 1..Height(v) /\ stack'[v][i] = stack[v][i] /\ (v = w => i < h)
    <3>1. i \in 2..Height(v)
      BY <2>1, <2>3, <1>12
    <3>2. CASE k \in 1..Len(Jobs(v)) /\ Jobs(v)'[k] = Jobs(v)[k]
      BY <2>2, <2>3, <3>1, <3>2 DEF IsJobOf, Pc, Tk
    <3>3. CASE Jobs(v)'[k] = right /\ v = w
      <4>1. stack[w][i].task \in Forking
        BY <2>2, <2>3, <3>1, <3>3, <1>12 DEF IInv, StackShapes, TaskFrame
      <4>2. stack[w][i].task = n
        BY <1>5, <2>2, <2>3, <3>3, <4>1, HalvesDiffer
      <4>3. i = h
        BY <1>2, <1>4, <3>1, <3>3, <4>2 DEF IInv, FramesDiffer, Tk
      <4> QED  BY <2>3, <3>3, <4>3
    <3> QED  BY <1>14, <3>2, <3>3
  <2>4. CASE v = w /\ i = h /\ stack'[v][i] = Frame(n, "left")
    <3>1. Jobs(v)'[k] = right
      BY <1>5, <2>2, <2>4 DEF Frame
    <3> QED  BY <1>14, <1>17, <2>4, <3>1
  <2>5. CASE v = w /\ i = h + 1 /\ stack'[v][i] = Frame(left, "start")
    BY <2>2, <2>5 DEF Frame
  <2> QED  BY <1>13, <2>1, <2>3, <2>4, <2>5
<1>28. JobsHaveFrames'
  <2> SUFFICES ASSUME NEW v \in Workers, NEW k \in 1..Len(Jobs(v))'
               PROVE  \E i \in 2..Height(v)' : IsJobOf(v, k, i)'
    BY DEF JobsHaveFrames
  <2>1. CASE k \in 1..Len(Jobs(v))
    <3>1. PICK i \in 2..Height(v) : IsJobOf(v, k, i)
      BY <2>1 DEF IInv, JobsHaveFrames
    <3> QED  BY <2>1, <3>1, <1>25
  <2>2. CASE v = w /\ k = L + 1
    BY <1>26, <2>2
  <2> QED  BY <1>14, <2>1, <2>2
<1>29. YoungerFrames'
  <2> SUFFICES ASSUME NEW v \in Workers, NEW k \in 1..Len(Jobs(v))', NEW i \in 2..Height(v)',
                      NEW j \in 2..Height(v)', IsJobOf(v, k, i)', i < j
               PROVE  /\ stack'[v][j].pc \notin {"run"} \cup Waiting
                      /\ stack'[v][j].pc \in {"left", "pop"} =>
                           \E l \in k + 1..Len(Jobs(v))' : IsJobOf(v, l, j)'
    BY DEF YoungerFrames, Pc
  <2>1. j \in 1..Height(v)' /\ j # 1
    BY <1>12
  <2>2. CASE j \in 1..Height(v) /\ stack'[v][j] = stack[v][j] /\ (v = w => j < h)
    <3>1. j \in 2..Height(v) /\ k \in 1..Len(Jobs(v)) /\ i \in 2..Height(v) /\ IsJobOf(v, k, i)
      BY <1>2, <1>12, <1>27, <2>1, <2>2
    <3>2. /\ stack[v][j].pc \notin {"run"} \cup Waiting
          /\ stack[v][j].pc \in {"left", "pop"} => \E l \in k + 1..Len(Jobs(v)) : IsJobOf(v, l, j)
      BY <3>1 DEF IInv, YoungerFrames, Pc
    <3>3. ASSUME NEW l \in k + 1..Len(Jobs(v)), IsJobOf(v, l, j)
          PROVE  l \in k + 1..Len(Jobs(v))' /\ IsJobOf(v, l, j)'
      BY <1>12, <1>25, <3>1, <3>3
    <3> QED  BY <2>2, <3>2, <3>3
  <2>3. CASE v = w /\ j = h /\ stack'[v][j] = Frame(n, "left")
    <3>1. k \in 1..L
      BY <1>7, <1>12, <1>27, <2>3
    <3>2. L + 1 \in k + 1..Len(Jobs(v))'
      BY <1>8, <2>3, <3>1
    <3> QED  BY <1>26, <2>3, <3>2 DEF Frame, Waiting
  <2>4. CASE v = w /\ j = h + 1 /\ stack'[v][j] = Frame(left, "start")
    BY <2>4 DEF Frame, Waiting
  <2> QED  BY <1>13, <2>1, <2>2, <2>3, <2>4
<1>30. CalledJobs'
  <2> SUFFICES ASSUME NEW x \in Workers, NEW i \in 1..Height(x)' - 1, RunsJob(stack'[x][i])
               PROVE  \E v \in Workers : \E j \in 2..Height(v)' :
                        Right(stack'[v][j].task) = stack'[x][i + 1].task /\ stack'[v][j].pc \in Joining
    BY DEF CalledJobs, Tk, Pc
  <2>1. i \in 1..Height(x)' /\ i + 1 \in 1..Height(x)' /\ i + 1 \in 2..Height(x)'
    BY <1>12
  <2>2. stack'[x][i].pc = "run"
    BY DEF RunsJob
  <2>3. i \in 1..Height(x) - 1 /\ stack'[x][i] = stack[x][i] /\ stack'[x][i + 1].task = stack[x][i + 1].task
    BY <1>2, <1>4, <1>6, <1>12, <1>13, <2>1, <2>2, SMTT(30) DEF Frame
  <2>4. PICK v \in Workers : \E j \in 2..Height(v) :
          Right(stack[v][j].task) = stack[x][i + 1].task /\ stack[v][j].pc \in Joining
    BY <2>3 DEF IInv, CalledJobs, Tk, Pc
  <2>5. PICK j \in 2..Height(v) :
          Right(stack[v][j].task) = stack[x][i + 1].task /\ stack[v][j].pc \in Joining
    BY <2>4
  <2>6. ~(v = w /\ j = h)
    BY <1>4, <2>5 DEF Joining, Waiting
  <2>7. j \in 2..Height(v)' /\ stack'[v][j] = stack[v][j]
    BY <1>2, <1>6, <1>12, <2>6, SMTT(30) DEF Below
  <2> QED  BY <2>3, <2>5, <2>7
<1>31. SlotsSuffice'
  <2> SUFFICES ASSUME NEW v \in Workers
               PROVE  /\ Bot(v)' <= Cardinality(Unjoined(v)')
                      /\ Height(v)' > 0 /\ stack'[v][Height(v)'].pc \in Waiting => Bot(v)' = 0
    BY DEF SlotsSuffice, Pc
  <2>1. /\ Bot(v) <= Cardinality(Unjoined(v))
        /\ Height(v) > 0 /\ stack[v][Height(v)].pc \in Waiting => Bot(v) = 0
    BY DEF IInv, SlotsSuffice, Pc
  <2>2. CASE v # w
    <3>1. Unjoined(v)' = Unjoined(v)
      BY <1>12, <2>2 DEF Unjoined
    <3> QED  BY <1>12, <2>1, <2>2, <3>1
  <2>3. CASE v = w
    <3>1. stack'[v][Height(v)'].pc = "start"
      BY <1>6, <2>3 DEF Frame
    <3>2. DOMAIN stack[w] = 1..h /\ DOMAIN stack'[w] = 1..h + 1
      <4>1. stack[w] \in Seq(Frames) /\ stack'[w] \in Seq(Frames)
        BY <1>10 DEF Sizes
      <4> QED  BY <1>2, <1>6, <4>1 DEF Height
    <3>3. Unjoined(w) \cup {h} \subseteq Unjoined(w)'
      <4> SUFFICES ASSUME NEW i \in Unjoined(w) \cup {h}
                   PROVE  /\ i \in 1..h + 1 /\ stack'[w][i].pc \in {"left", "pop"}
                          /\ \A j \in i + 1..h + 1 : stack'[w][j].pc # "run"
        BY <1>6, <3>2 DEF Unjoined, Height
      <4>1. i \in 1..h /\ stack'[w][i].pc \in {"left", "pop"}
        <5>1. CASE i = h
          BY <1>2, <1>6, <5>1 DEF Frame
        <5>2. CASE i # h
          <6>1. i \in 1..h /\ stack[w][i].pc \in {"left", "pop"}
            BY <3>2, <5>2 DEF Unjoined
          <6> QED  BY <1>2, <1>6, <5>2, <6>1 DEF Below
        <5> QED  BY <5>1, <5>2
      <4>2. ASSUME NEW j \in i + 1..h + 1  PROVE stack'[w][j].pc # "run"
        <5>1. CASE j <= h - 1
          <6>1. i \in Unjoined(w) /\ j \in i + 1..Len(stack[w])
            BY <1>2, <4>1, <5>1 DEF Height
          <6> QED  BY <1>6, <4>1, <5>1, <6>1 DEF Unjoined, Below
        <5>2. CASE j = h \/ j = h + 1
          BY <1>6, <5>2 DEF Frame
        <5> QED  BY <1>2, <4>1, <5>1, <5>2
      <4> QED  BY <4>1, <4>2
    <3>4. h \notin Unjoined(w)
      BY <1>4 DEF Unjoined
    <3>5. Cardinality(Unjoined(w) \cup {h}) = Cardinality(Unjoined(w)) + 1
      BY <1>10, <3>4, FS_AddElement DEF Sizes
    <3>6. Cardinality(Unjoined(w) \cup {h}) <= Cardinality(Unjoined(w)')
      BY <1>10, <3>3, FS_Subset DEF Sizes
    <3>7. Bot(w) \in Nat /\ Cardinality(Unjoined(w)) \in Nat /\ Cardinality(Unjoined(w)') \in Nat
      <4>1. Bot(w) \in Nat /\ Cardinality(Unjoined(w)) \in Nat
        BY <1>10 DEF Sizes
      <4>2. Cardinality(Unjoined(w)') \in Nat
        BY <1>10 DEF Sizes
      <4> QED  BY <4>1, <4>2
    <3>8. Bot(w)' <= Cardinality(Unjoined(w)')
      BY <1>8, <2>1, <2>3, <3>5, <3>6, <3>7
    <3>9. ~(stack'[v][Height(v)'].pc \in Waiting)
      BY <3>1 DEF Waiting
    <3> QED  BY <2>3, <3>8, <3>9
  <2> QED  BY <2>2, <2>3
<1> QED  BY <1>15, <1>16, <1>19, <1>20, <1>21, <1>22, <1>23, <1>24, <1>28, <1>29, <1>30, <1>31 DEF IInv

-----------------------------------------------------------------------------
(* A task that does not fork.                                              *)

\* A task that forks nothing ends.
LEMMA LeafKeeps ==
  ASSUME IInv, TypeOK', NEW w \in Workers, Start(w), Task(w) \notin Forking
  PROVE  IInv'
<1>1. stack[w] # <<>> /\ Last(stack[w]).pc = "start"
  BY DEF Start, At
<1>2. PICK h \in Nat : h = Height(w) /\ h > 1
  BY <1>1, TopKinds DEF BottomFrame, MainPcs, LoopPcs
<1>3. PICK n \in Tasks : n = Task(w) /\ n \notin Forking
  BY <1>1, <1>2, TopKinds DEF TaskFrame
<1>4. stack[w][h].task = n /\ stack[w][h].pc = "start"
  BY <1>1, <1>2, <1>3, TopKinds
<1>5. /\ Others(w) /\ Height(w)' = h /\ Below(w, h - 1)
      /\ stack'[w][h] = Frame(n, "return")
  <2>1. Jump(w, "return")
    BY <1>3 DEF Start
  <2> QED  BY <1>1, <1>2, <1>4, <2>1, JumpEffect DEF IInv, TaskPcs, Tk
<1>6. begun' = begun \cup {n} /\ UNCHANGED <<deques, done, ended>>
  BY <1>3 DEF Start
<1>7. Sizes /\ Sizes'
  BY SizesHold, SizesHoldNext DEF IInv
<1>8. \A v \in Workers : /\ Height(v)' = Height(v) /\ Height(v) \in Nat
                         /\ Jobs(v)' = Jobs(v) /\ Bot(v)' = Bot(v) /\ Len(Jobs(v)) \in Nat
                         /\ v # w => stack'[v] = stack[v]
  BY <1>2, <1>5, <1>6, <1>7 DEF Sizes, Others, Height, Jobs, Bot
<1>9. ASSUME NEW v \in Workers, NEW i \in 1..Height(v)
      PROVE  \/ stack'[v][i] = stack[v][i] /\ ~(v = w /\ i = h)
             \/ v = w /\ i = h /\ stack'[v][i] = Frame(n, "return")
  <2>1. CASE v # w
    BY <1>8, <2>1
  <2>2. CASE v = w
    BY <1>2, <1>5, <2>2 DEF Below
  <2> QED  BY <2>1, <2>2
<1>10. \A v \in Workers : \A i \in 1..Height(v) : stack'[v][i].task = stack[v][i].task
  BY <1>4, <1>9 DEF Frame
<1>11. \A v \in Workers : \A i \in 2..Height(v) : i \in 1..Height(v) /\ Tk(v, i)' = Tk(v, i)
  BY <1>8, <1>10 DEF Tk
<1>12. StackShapes'
  <2> SUFFICES ASSUME NEW v \in Workers
               PROVE  /\ v = MainThread => Height(v) > 0
                      /\ \A i \in 1..Height(v) :
                           /\ i = 1 => BottomFrame(v, stack'[v][i])
                           /\ i > 1 => TaskFrame(stack'[v][i])
                           /\ i < Height(v) <=> stack'[v][i].pc \in Calling
    BY <1>8 DEF StackShapes, Pc
  <2>1. v = MainThread => Height(v) > 0
    BY DEF IInv, StackShapes
  <2>2. ASSUME NEW i \in 1..Height(v)
        PROVE  /\ i = 1 => BottomFrame(v, stack'[v][i])
               /\ i > 1 => TaskFrame(stack'[v][i])
               /\ i < Height(v) <=> stack'[v][i].pc \in Calling
    <3>1. CASE stack'[v][i] = stack[v][i]
      BY <3>1 DEF IInv, StackShapes, Pc
    <3>2. CASE v = w /\ i = h /\ stack'[v][i] = Frame(n, "return")
      BY <1>2, <3>2 DEF Frame, TaskFrame, TaskPcs, Calling
    <3> QED  BY <1>9, <3>1, <3>2
  <2> QED  BY <2>1, <2>2
<1>13. Calls'
  <2> SUFFICES ASSUME NEW v \in Workers, NEW i \in 1..Height(v) - 1
               PROVE  /\ stack'[v][i].pc = "left" => stack'[v][i + 1].task = Append(stack'[v][i].task, 0)
                      /\ stack'[v][i].pc = "right" => stack'[v][i + 1].task = Right(stack'[v][i].task)
                      /\ stack'[v][i].task = Main => stack'[v][i + 1].task = <<>>
    BY <1>8 DEF Calls, Pc, Tk
  <2>1. i \in 1..Height(v) /\ i + 1 \in 1..Height(v) /\ i # Height(v)
    BY <1>8
  <2>2. stack'[v][i] = stack[v][i] /\ stack'[v][i + 1].task = stack[v][i + 1].task
    BY <1>2, <1>9, <1>10, <2>1
  <2> QED  BY <2>2 DEF IInv, Calls, Pc, Tk
<1>14. FramesDiffer' /\ JobsDiffer'
  <2>1. FramesDiffer'
    BY <1>8, <1>11 DEF IInv, FramesDiffer
  <2>2. JobsDiffer'
    BY <1>8 DEF IInv, JobsDiffer
  <2> QED  BY <2>1, <2>2
<1>15. JobsAreNew'
  <2> SUFFICES ASSUME NEW v \in Workers, NEW k \in 1..Len(Jobs(v))
               PROVE  /\ Jobs(v)[k] \notin begun'
                      /\ \A x \in Workers : \A i \in 2..Height(x) : Tk(x, i)' # Jobs(v)[k]
    BY <1>8 DEF JobsAreNew
  <2>1. /\ Jobs(v)[k] \notin begun
        /\ \A x \in Workers : \A i \in 2..Height(x) : Tk(x, i) # Jobs(v)[k]
    BY DEF IInv, JobsAreNew
  <2>2. Jobs(v)[k] # n
    BY <1>2, <1>4, <2>1 DEF Tk
  <2> QED  BY <1>6, <1>11, <2>1, <2>2
<1>16. FramesLive' /\ History'
  <2>1. n \notin begun
    BY <1>2, <1>4 DEF IInv, FramesLive, Pc, Tk
  <2>2. ASSUME NEW v \in Workers, NEW i \in 2..Height(v)
        PROVE  /\ stack'[v][i].task \notin ended
               /\ stack'[v][i].pc = "start" <=> stack'[v][i].task \notin begun'
    <3>1. i \in 1..Height(v)
      BY <1>11
    <3>2. CASE stack'[v][i] = stack[v][i] /\ ~(v = w /\ i = h)
      <4>1. stack[v][i].task # n
        BY <1>2, <1>4, <3>2 DEF IInv, FramesDiffer, Tk
      <4> QED  BY <1>6, <3>2, <4>1 DEF IInv, FramesLive, Pc, Tk
    <3>3. CASE stack'[v][i] = Frame(n, "return")
      BY <1>6, <2>1, <3>3 DEF IInv, History, Frame
    <3> QED  BY <1>9, <3>1, <3>2, <3>3
  <2>3. FramesLive'
    BY <1>6, <1>8, <2>2 DEF FramesLive, Pc, Tk
  <2> QED  BY <1>6, <2>3 DEF IInv, History
<1>17. ForkersHaveBegun'
  <2> SUFFICES ASSUME NEW m \in Forking, NEW x \in Halves(m), Present(x)'
               PROVE  m \in begun'
    BY DEF ForkersHaveBegun
  <2>1. Present(n)
    BY <1>2, <1>4 DEF Present, Tk
  <2>2. Present(x) \/ x = n
    BY <1>6, <1>8, <1>11 DEF Present
  <2> QED  BY <1>6, <2>1, <2>2 DEF IInv, ForkersHaveBegun
<1>18. HalvesHaveEnded'
  <2> SUFFICES ASSUME NEW v \in Workers, NEW i \in 2..Height(v), stack'[v][i].task \in Forking
               PROVE  LET f == stack'[v][i] IN
                      /\ f.pc \notin {"start", "left"} => Append(f.task, 0) \in ended
                      /\ f.pc = "return" => Right(f.task) \in ended
    BY <1>6, <1>8 DEF HalvesHaveEnded, Tk, Pc
  <2>1. stack'[v][i] = stack[v][i]
    BY <1>3, <1>9, <1>11 DEF Frame
  <2> QED  BY <2>1 DEF IInv, HalvesHaveEnded, Tk, Pc
<1>19. \A v \in Workers : \A k \in 1..Len(Jobs(v)), i \in 2..Height(v) :
         IsJobOf(v, k, i) <=> IsJobOf(v, k, i)'
  <2> SUFFICES ASSUME NEW v \in Workers, NEW k \in 1..Len(Jobs(v)), NEW i \in 2..Height(v)
               PROVE  IsJobOf(v, k, i) <=> IsJobOf(v, k, i)'
    OBVIOUS
  <2>1. CASE stack'[v][i] = stack[v][i]
    BY <1>8, <2>1 DEF IsJobOf, Pc, Tk
  <2>2. CASE v = w /\ i = h /\ stack'[v][i] = Frame(n, "return")
    BY <1>4, <2>2 DEF IsJobOf, Pc, Frame
  <2> QED  BY <1>9, <1>11, <2>1, <2>2
<1>20. JobsHaveFrames'
  BY <1>8, <1>19 DEF IInv, JobsHaveFrames
<1>21. YoungerFrames'
  <2> SUFFICES ASSUME NEW v \in Workers, NEW k \in 1..Len(Jobs(v)), NEW i \in 2..Height(v),
                      NEW j \in 2..Height(v), IsJobOf(v, k, i), i < j
               PROVE  /\ stack'[v][j].pc \notin {"run"} \cup Waiting
                      /\ stack'[v][j].pc \in {"left", "pop"} =>
                           \E l \in k + 1..Len(Jobs(v)) : IsJobOf(v, l, j)'
    BY <1>8, <1>19 DEF YoungerFrames, Pc
  <2>1. /\ stack[v][j].pc \notin {"run"} \cup Waiting
        /\ stack[v][j].pc \in {"left", "pop"} => \E l \in k + 1..Len(Jobs(v)) : IsJobOf(v, l, j)
    BY DEF IInv, YoungerFrames, Pc
  <2>2. k + 1..Len(Jobs(v)) \subseteq 1..Len(Jobs(v))
    BY <1>8
  <2>3. stack'[v][j] = stack[v][j] \/ stack'[v][j].pc = "return"
    BY <1>9, <1>11 DEF Frame
  <2> QED  BY <1>19, <2>1, <2>2, <2>3 DEF Waiting
<1>22. CalledJobs'
  <2> SUFFICES ASSUME NEW x \in Workers, NEW i \in 1..Height(x) - 1, RunsJob(stack'[x][i])
               PROVE  \E v \in Workers : \E j \in 2..Height(v) :
                        Right(stack'[v][j].task) = stack'[x][i + 1].task /\ stack'[v][j].pc \in Joining
    BY <1>8 DEF CalledJobs, Tk, Pc
  <2>1. i \in 1..Height(x) /\ i + 1 \in 1..Height(x) /\ i # Height(x)
    BY <1>8
  <2>2. stack'[x][i] = stack[x][i] /\ stack'[x][i + 1].task = stack[x][i + 1].task
    BY <1>2, <1>9, <1>10, <2>1
  <2>3. PICK v \in Workers : \E j \in 2..Height(v) :
          Right(stack[v][j].task) = stack[x][i + 1].task /\ stack[v][j].pc \in Joining
    BY <2>2 DEF IInv, CalledJobs, Tk, Pc
  <2>4. PICK j \in 2..Height(v) :
          Right(stack[v][j].task) = stack[x][i + 1].task /\ stack[v][j].pc \in Joining
    BY <2>3
  <2>5. stack'[v][j] = stack[v][j]
    BY <1>4, <1>9, <1>11, <2>4 DEF Joining, Waiting
  <2> QED  BY <2>2, <2>4, <2>5
<1>23. SlotsSuffice'
  <2> SUFFICES ASSUME NEW v \in Workers
               PROVE  /\ Bot(v) <= Cardinality(Unjoined(v)')
                      /\ Height(v) > 0 /\ stack'[v][Height(v)].pc \in Waiting => Bot(v) = 0
    BY <1>8 DEF SlotsSuffice, Pc
  <2>1. /\ Bot(v) <= Cardinality(Unjoined(v))
        /\ Height(v) > 0 /\ stack[v][Height(v)].pc \in Waiting => Bot(v) = 0
    BY DEF IInv, SlotsSuffice, Pc
  <2>2. DOMAIN stack[v] = 1..Height(v) /\ DOMAIN stack'[v] = 1..Height(v)
    <3>1. stack[v] \in Seq(Frames) /\ stack'[v] \in Seq(Frames) /\ Height(v)' = Height(v)
      BY <1>7, <1>8 DEF Sizes
    <3> QED  BY <3>1 DEF Height
  <2>3. \A i \in 1..Height(v) : /\ stack'[v][i].pc \in {"left", "pop"} <=> stack[v][i].pc \in {"left", "pop"}
                                /\ stack'[v][i].pc = "run" <=> stack[v][i].pc = "run"
    BY <1>4, <1>9 DEF Frame
  <2>4. Unjoined(v)' = Unjoined(v)
    <3>1. Len(stack[v]) = Height(v) /\ Len(stack'[v]) = Height(v) /\ Height(v) \in Nat
      BY <1>8 DEF Height
    <3>2. \A i \in 1..Height(v) : i + 1..Height(v) \subseteq 1..Height(v)
      BY <3>1
    <3> QED  BY <2>2, <2>3, <3>1, <3>2 DEF Unjoined
  <2>5. Height(v) > 0 /\ stack'[v][Height(v)].pc \in Waiting => Bot(v) = 0
    <3>1. CASE Height(v) > 0
      <4>1. Height(v) \in 1..Height(v)
        BY <1>8, <3>1
      <4> QED  BY <1>9, <2>1, <4>1 DEF Frame, Waiting
    <3>2. CASE ~(Height(v) > 0)
      BY <3>2
    <3> QED  BY <3>1, <3>2
  <2> QED  BY <2>1, <2>4, <2>5
<1> QED  BY <1>12, <1>13, <1>14, <1>15, <1>16, <1>17, <1>18, <1>20, <1>21, <1>22, <1>23 DEF IInv

-----------------------------------------------------------------------------
(* A join that pops a job: it is its own right half, and is called.        *)

\* pop_bottom in pardo returns right_job, which the thread then runs itself.
LEMMA JoinKeeps ==
  ASSUME IInv, TypeOK', NEW w \in Workers, JoinLeft(w), GetOwnJob(w) # NoJob
  PROVE  IInv'
<1>1. stack[w] # <<>> /\ Last(stack[w]).pc = "pop" /\ PopOwn(w)
  BY DEF JoinLeft, At
<1>2. PICK h \in Nat : h = Height(w) /\ h > 1
  BY <1>1, TopKinds DEF BottomFrame, MainPcs, LoopPcs
<1>3. PICK n \in Forking : n = Task(w)
  BY <1>1, <1>2, TopKinds DEF TaskFrame
<1>4. stack[w][h].task = n /\ stack[w][h].pc = "pop"
  BY <1>1, <1>2, <1>3, TopKinds
<1>5. PICK right \in Tasks : right = Right(n) /\ right # n
  BY TaskFacts, HalvesDiffer
<1>6. /\ Others(w) /\ Height(w)' = h + 1 /\ Below(w, h - 1)
      /\ stack'[w][h] = Frame(n, "right") /\ stack'[w][h + 1] = Frame(right, "start")
  <2>1. CallFrom(w, "right", right)
    BY <1>3, <1>5 DEF JoinLeft
  <2> QED  BY <1>1, <1>2, <1>4, <2>1, CallEffect DEF IInv, TaskPcs, Calling, Tk
<1>7. PICK L \in Nat \ {0} : L = Len(Jobs(w))
  BY <1>1, PopEffect DEF IInv
<1>8. /\ \A v \in Workers : v # w => deques'[v] = deques[v]
      /\ Len(Jobs(w))' = L - 1
      /\ \A k \in 1..L - 1 : deques'[w].jobs[k] = Jobs(w)[k]
      /\ Bot(w)' <= Bot(w) - 1
  BY <1>1, <1>7, PopEffect DEF IInv
<1>9. UNCHANGED <<done, begun, ended>>
  BY DEF JoinLeft
<1>10. Sizes /\ Sizes'
  BY SizesHold, SizesHoldNext DEF IInv
\* The job at the end of the deque is that of the innermost frame.
<1>11. Jobs(w)[L] = right
  <2>1. L \in 1..Len(Jobs(w))
    BY <1>7
  <2>2. PICK i \in 2..Height(w) : IsJobOf(w, L, i)
    BY <2>1 DEF IInv, JobsHaveFrames
  <2>3. h \in 2..Height(w)
    BY <1>2
  <2>4. ~(i < h)
    <3>1. Pc(w, h) \in {"left", "pop"}
      BY <1>4 DEF Pc
    <3>2. L + 1..Len(Jobs(w)) = {}
      BY <1>7
    <3> QED  BY <2>1, <2>2, <2>3, <3>1, <3>2 DEF IInv, YoungerFrames
  <2>5. i = h
    BY <1>2, <2>4
  <2> QED  BY <1>4, <1>5, <2>2, <2>5 DEF IsJobOf, Tk
<1>12. \A v \in Workers : /\ Height(v)' \in Nat /\ Height(v) \in Nat
                          /\ Len(Jobs(v))' \in Nat /\ Len(Jobs(v)) \in Nat
                          /\ v # w => /\ stack'[v] = stack[v] /\ Height(v)' = Height(v)
                                      /\ Jobs(v)' = Jobs(v) /\ Bot(v)' = Bot(v)
  BY <1>6, <1>8, <1>10 DEF Sizes, Others, Height, Jobs, Bot
<1>13. ASSUME NEW v \in Workers, NEW i \in 1..Height(v)'
       PROVE  \/ /\ i \in 1..Height(v) /\ stack'[v][i] = stack[v][i]
                 /\ v = w => i < h
              \/ v = w /\ i = h /\ stack'[v][i] = Frame(n, "right")
              \/ v = w /\ i = h + 1 /\ stack'[v][i] = Frame(right, "start")
  <2>1. CASE v # w
    BY <1>12, <2>1
  <2>2. CASE v = w
    BY <1>2, <1>6, <2>2 DEF Below
  <2> QED  BY <2>1, <2>2
<1>14. ASSUME NEW v \in Workers, NEW k \in 1..Len(Jobs(v))'
       PROVE  k \in 1..Len(Jobs(v)) /\ Jobs(v)'[k] = Jobs(v)[k] /\ (v = w => k < L)
  <2>1. CASE v # w
    BY <1>12, <2>1
  <2>2. CASE v = w
    BY <1>7, <1>8, <2>2 DEF Jobs
  <2> QED  BY <2>1, <2>2
<1>15. StackShapes'
  <2> SUFFICES ASSUME NEW v \in Workers
               PROVE  /\ v = MainThread => Height(v)' > 0
                      /\ \A i \in 1..Height(v)' :
                           /\ i = 1 => BottomFrame(v, stack'[v][i])
                           /\ i > 1 => TaskFrame(stack'[v][i])
                           /\ i < Height(v)' <=> stack'[v][i].pc \in Calling
    BY DEF StackShapes, Pc
  <2>1. v = MainThread => Height(v)' > 0
    BY <1>6, <1>12 DEF IInv, StackShapes
  <2>2. ASSUME NEW i \in 1..Height(v)'
        PROVE  /\ i = 1 => BottomFrame(v, stack'[v][i])
               /\ i > 1 => TaskFrame(stack'[v][i])
               /\ i < Height(v)' <=> stack'[v][i].pc \in Calling
    <3>1. CASE i \in 1..Height(v) /\ stack'[v][i] = stack[v][i] /\ (v = w => i < h)
      BY <1>2, <1>6, <1>12, <3>1 DEF IInv, StackShapes, Pc
    <3>2. CASE v = w /\ i = h /\ stack'[v][i] = Frame(n, "right")
      BY <1>2, <1>6, <3>2, TaskFacts DEF Frame, TaskFrame, TaskPcs, Calling
    <3>3. CASE v = w /\ i = h + 1 /\ stack'[v][i] = Frame(right, "start")
      BY <1>2, <1>6, <3>3 DEF Frame, TaskFrame, TaskPcs, Calling
    <3> QED  BY <1>13, <3>1, <3>2, <3>3
  <2> QED  BY <2>1, <2>2
<1>16. Calls'
  <2> SUFFICES ASSUME NEW v \in Workers, NEW i \in 1..Height(v)' - 1
               PROVE  /\ stack'[v][i].pc = "left" => stack'[v][i + 1].task = Append(stack'[v][i].task, 0)
                      /\ stack'[v][i].pc = "right" => stack'[v][i + 1].task = Right(stack'[v][i].task)
                      /\ stack'[v][i].task = Main => stack'[v][i + 1].task = <<>>
    BY DEF Calls, Pc, Tk
  <2>1. i \in 1..Height(v)' /\ i + 1 \in 1..Height(v)' /\ i # Height(v)'
    BY <1>12
  <2>2. CASE v = w /\ i = h
    <3>1. stack'[w][h].task = n /\ stack'[w][h].pc = "right" /\ stack'[w][h + 1].task = right
      BY <1>6 DEF Frame
    <3>2. n # Main
      BY TaskFacts
    <3> QED  BY <1>5, <2>2, <3>1, <3>2
  <2>3. CASE ~(v = w /\ i = h)
    <3>1. i \in 1..Height(v) - 1 /\ stack'[v][i] = stack[v][i] /\ stack'[v][i + 1].task = stack[v][i + 1].task
      BY <1>2, <1>4, <1>6, <1>12, <1>13, <2>1, <2>3, SMTT(30) DEF Frame
    <3> QED  BY <3>1 DEF IInv, Calls, Pc, Tk
  <2> QED  BY <2>2, <2>3
\* The job was in one place only.
<1>17. /\ \A v \in Workers : \A i \in 2..Height(v) : stack[v][i].task # right
       /\ \A v \in Workers : \A k \in 1..Len(Jobs(v)) : Jobs(v)[k] = right => v = w /\ k = L
       /\ right \notin begun
  <2>1. L \in 1..Len(Jobs(w))
    BY <1>7
  <2>2. /\ right \notin begun
        /\ \A v \in Workers : \A i \in 2..Height(v) : stack[v][i].task # right
    BY <1>11, <2>1 DEF IInv, JobsAreNew, Tk
  <2>3. \A v \in Workers : \A k \in 1..Len(Jobs(v)) : Jobs(v)[k] = right => v = w /\ k = L
    BY <1>11, <2>1 DEF IInv, JobsDiffer
  <2> QED  BY <2>2, <2>3
<1>18. ASSUME NEW v \in Workers, NEW i \in 2..Height(v)'
       PROVE  \/ /\ i \in 2..Height(v) /\ stack'[v][i].task = stack[v][i].task
                 /\ v = w => i <= h
              \/ v = w /\ i = h + 1 /\ stack'[v][i].task = right
  <2>1. i \in 1..Height(v)' /\ i >= 2
    BY <1>12
  <2> QED  BY <1>2, <1>4, <1>12, <1>13, <2>1 DEF Frame
<1>19. FramesDiffer'
  <2> SUFFICES ASSUME NEW v \in Workers, NEW x \in Workers,
                      NEW i \in 2..Height(v)', NEW j \in 2..Height(x)',
                      stack'[v][i].task = stack'[x][j].task
               PROVE  v = x /\ i = j
    BY DEF FramesDiffer, Tk
  <2>1. CASE i \in 2..Height(v) /\ stack'[v][i].task = stack[v][i].task
    <3>1. stack[v][i].task # right
      BY <1>17, <2>1
    <3>2. j \in 2..Height(x) /\ stack'[x][j].task = stack[x][j].task
      BY <1>18, <2>1, <3>1
    <3>3. stack[v][i].task = stack[x][j].task
      BY <2>1, <3>2
    <3> QED  BY <2>1, <3>2, <3>3 DEF IInv, FramesDiffer, Tk
  <2>2. CASE v = w /\ i = h + 1 /\ stack'[v][i].task = right
    BY <1>17, <1>18, <2>2
  <2> QED  BY <1>18, <2>1, <2>2
<1>20. JobsDiffer'
  <2> SUFFICES ASSUME NEW v \in Workers, NEW x \in Workers,
                      NEW k \in 1..Len(Jobs(v))', NEW l \in 1..Len(Jobs(x))',
                      Jobs(v)'[k] = Jobs(x)'[l]
               PROVE  v = x /\ k = l
    BY DEF JobsDiffer
  <2>1. /\ k \in 1..Len(Jobs(v)) /\ Jobs(v)'[k] = Jobs(v)[k]
        /\ l \in 1..Len(Jobs(x)) /\ Jobs(x)'[l] = Jobs(x)[l]
    BY <1>14
  <2>2. Jobs(v)[k] = Jobs(x)[l]
    BY <2>1
  <2> QED  BY <2>1, <2>2 DEF IInv, JobsDiffer
<1>21. JobsAreNew'
  <2> SUFFICES ASSUME NEW v \in Workers, NEW k \in 1..Len(Jobs(v))'
               PROVE  /\ Jobs(v)'[k] \notin begun
                      /\ \A x \in Workers : \A i \in 2..Height(x)' : stack'[x][i].task # Jobs(v)'[k]
    BY <1>9 DEF JobsAreNew, Tk
  <2>1. k \in 1..Len(Jobs(v)) /\ Jobs(v)'[k] = Jobs(v)[k] /\ (v = w => k < L)
    BY <1>14
  <2>2. /\ Jobs(v)[k] \notin begun
        /\ \A x \in Workers : \A i \in 2..Height(x) : stack[x][i].task # Jobs(v)[k]
    BY <2>1 DEF IInv, JobsAreNew, Tk
  <2>3. Jobs(v)[k] # right
    BY <1>7, <1>17, <2>1
  <2> QED  BY <1>18, <2>1, <2>2, <2>3
<1>22. History' /\ FramesLive'
  <2>1. History'
    BY <1>9 DEF IInv, History
  <2>2. ASSUME NEW v \in Workers, NEW i \in 2..Height(v)'
        PROVE  /\ stack'[v][i].task \notin ended
               /\ stack'[v][i].pc = "start" <=> stack'[v][i].task \notin begun
    <3>1. i \in 1..Height(v)' /\ i # 1
      BY <1>12
    <3>2. CASE i \in 1..Height(v) /\ stack'[v][i] = stack[v][i]
      <4>1. i \in 2..Height(v)
        BY <3>1, <3>2, <1>12
      <4> QED  BY <3>2, <4>1 DEF IInv, FramesLive, Pc, Tk
    <3>3. CASE v = w /\ i = h /\ stack'[v][i] = Frame(n, "right")
      <4>1. n \notin ended /\ n \in begun
        BY <1>2, <1>4 DEF IInv, FramesLive, Pc, Tk
      <4> QED  BY <3>3, <4>1 DEF Frame
    <3>4. CASE v = w /\ i = h + 1 /\ stack'[v][i] = Frame(right, "start")
      <4>1. right \notin begun /\ right \notin ended
        BY <1>17 DEF IInv, History
      <4> QED  BY <3>4, <4>1 DEF Frame
    <3> QED  BY <1>13, <3>1, <3>2, <3>3, <3>4
  <2>3. FramesLive'
    BY <1>9, <2>2 DEF FramesLive, Pc, Tk
  <2> QED  BY <2>1, <2>3
<1>23. ForkersHaveBegun'
  <2> SUFFICES ASSUME NEW m \in Forking, NEW x \in Halves(m), Present(x)'
               PROVE  m \in begun'
    BY DEF ForkersHaveBegun
  <2>1. Present(right)
    BY <1>7, <1>11 DEF Present
  <2>2. Present(x)
    <3>1. CASE x \in begun'
      BY <1>9, <3>1 DEF Present
    <3>2. CASE \E v \in Workers : \E i \in 2..Height(v)' : stack'[v][i].task = x
      BY <1>18, <2>1, <3>2 DEF Present, Tk
    <3>3. CASE \E v \in Workers : \E k \in 1..Len(Jobs(v))' : Jobs(v)'[k] = x
      BY <1>14, <3>3 DEF Present
    <3> QED  BY <3>1, <3>2, <3>3 DEF Present, Tk
  <2> QED  BY <1>9, <2>2 DEF IInv, ForkersHaveBegun
<1>24. HalvesHaveEnded'
  <2> SUFFICES ASSUME NEW v \in Workers, NEW i \in 2..Height(v)', stack'[v][i].task \in Forking
               PROVE  LET f == stack'[v][i] IN
                      /\ f.pc \notin {"start", "left"} => Append(f.task, 0) \in ended
                      /\ f.pc = "return" => Right(f.task) \in ended
    BY <1>9 DEF HalvesHaveEnded, Tk, Pc
  <2>1. i \in 1..Height(v)' /\ i # 1
    BY <1>12
  <2>2. CASE i \in 1..Height(v) /\ stack'[v][i] = stack[v][i]
    <3>1. i \in 2..Height(v)
      BY <2>1, <2>2, <1>12
    <3> QED  BY <2>2, <3>1 DEF IInv, HalvesHaveEnded, Tk, Pc
  <2>3. CASE stack'[v][i] = Frame(n, "right")
    <3>1. Append(n, 0) \in ended
      BY <1>2, <1>4 DEF IInv, HalvesHaveEnded, Tk, Pc
    <3> QED  BY <2>3, <3>1 DEF Frame
  <2>4. CASE stack'[v][i] = Frame(right, "start")
    BY <2>4 DEF Frame
  <2> QED  BY <1>13, <2>1, <2>2, <2>3, <2>4
\* Which job is that of which frame.
<1>25. ASSUME NEW v \in Workers, NEW k \in 1..Len(Jobs(v)), NEW i \in 2..Height(v),
              IsJobOf(v, k, i), v = w => k < L
       PROVE  i \in 2..Height(v)' /\ k \in 1..Len(Jobs(v))' /\ IsJobOf(v, k, i)'
  <2>1. ~(v = w /\ i = h)
    BY <1>4, <1>5, <1>7, <1>17, <1>25 DEF IsJobOf, Tk
  <2>2. v = w => i < h
    BY <1>2, <1>12, <2>1
  <2>3. stack'[v][i] = stack[v][i] /\ i \in 2..Height(v)'
    BY <1>2, <1>6, <1>12, <2>2 DEF Below
  <2>4. k \in 1..Len(Jobs(v))' /\ Jobs(v)'[k] = Jobs(v)[k]
    <3>1. CASE v = w
      BY <1>7, <1>8, <1>25, <3>1 DEF Jobs
    <3>2. CASE v # w
      BY <1>12, <3>2
    <3> QED  BY <3>1, <3>2
  <2> QED  BY <1>25, <2>3, <2>4 DEF IsJobOf, Pc, Tk
<1>26. ASSUME NEW v \in Workers, NEW k \in 1..Len(Jobs(v))', NEW i \in 2..Height(v)', IsJobOf(v, k, i)'
       PROVE  /\ k \in 1..Len(Jobs(v)) /\ i \in 2..Height(v) /\ IsJobOf(v, k, i)
              /\ v = w => k < L /\ i < h
  <2>1. i \in 1..Height(v)' /\ i # 1
    BY <1>12
  <2>2. stack'[v][i].pc \in {"left", "pop"} /\ Jobs(v)'[k] = Right(stack'[v][i].task)
    BY <1>26 DEF IsJobOf, Pc, Tk
  <2>3. i \in 1..Height(v) /\ stack'[v][i] = stack[v][i] /\ (v = w => i < h)
    BY <1>13, <2>1, <2>2 DEF Frame
  <2> QED  BY <1>12, <1>14, <2>1, <2>2, <2>3 DEF IsJobOf, Pc, Tk
<1>27. JobsHaveFrames'
  <2> SUFFICES ASSUME NEW v \in Workers, NEW k \in 1..Len(Jobs(v))'
               PROVE  \E i \in 2..Height(v)' : IsJobOf(v, k, i)'
    BY DEF JobsHaveFrames
  <2>1. k \in 1..Len(Jobs(v)) /\ (v = w => k < L)
    BY <1>14
  <2>2. PICK i \in 2..Height(v) : IsJobOf(v, k, i)
    BY <2>1 DEF IInv, JobsHaveFrames
  <2> QED  BY <2>1, <2>2, <1>25
<1>28. YoungerFrames'
  <2> SUFFICES ASSUME NEW v \in Workers, NEW k \in 1..Len(Jobs(v))', NEW i \in 2..Height(v)',
                      NEW j \in 2..Height(v)', IsJobOf(v, k, i)', i < j
               PROVE  /\ stack'[v][j].pc \notin {"run"} \cup Waiting
                      /\ stack'[v][j].pc \in {"left", "pop"} =>
                           \E l \in k + 1..Len(Jobs(v))' : IsJobOf(v, l, j)'
    BY DEF YoungerFrames, Pc
  <2>1. j \in 1..Height(v)' /\ j # 1
    BY <1>12
  <2>2. CASE j \in 1..Height(v) /\ stack'[v][j] = stack[v][j] /\ (v = w => j < h)
    <3>1. j \in 2..Height(v) /\ k \in 1..Len(Jobs(v)) /\ i \in 2..Height(v) /\ IsJobOf(v, k, i)
      BY <1>12, <1>26, <2>1, <2>2
    <3>2. /\ stack[v][j].pc \notin {"run"} \cup Waiting
          /\ stack[v][j].pc \in {"left", "pop"} => \E l \in k + 1..Len(Jobs(v)) : IsJobOf(v, l, j)
      BY <3>1 DEF IInv, YoungerFrames, Pc
    <3>3. ASSUME NEW l \in k + 1..Len(Jobs(v)), IsJobOf(v, l, j)
          PROVE  l \in k + 1..Len(Jobs(v))' /\ IsJobOf(v, l, j)'
      <4>1. l \in 1..Len(Jobs(v))
        BY <1>12, <3>1
      <4>2. v = w => l < L
        <5> SUFFICES ASSUME v = w, l = L PROVE FALSE
          BY <1>7, <4>1
        <5>1. stack[w][j].pc \in {"left", "pop"} /\ right = Right(stack[w][j].task)
          BY <1>11, <3>3 DEF IsJobOf, Pc, Tk
        <5>2. stack[w][j].task \in Forking
          BY <2>1, <2>2, <5>1, <1>12 DEF IInv, StackShapes, TaskFrame
        <5>3. stack[w][j].task = n
          BY <1>5, <5>1, <5>2, HalvesDiffer
        <5>4. j = h
          BY <1>2, <1>4, <3>1, <5>3 DEF IInv, FramesDiffer, Tk
        <5> QED  BY <2>2, <5>4
      <4>3. l \in 1..Len(Jobs(v))' /\ IsJobOf(v, l, j)'
        BY <1>25, <3>1, <3>3, <4>1, <4>2
      <4> QED  BY <1>12, <3>1, <4>3
    <3> QED  BY <2>2, <3>2, <3>3
  <2>3. CASE stack'[v][j] = Frame(n, "right") \/ stack'[v][j] = Frame(right, "start")
    BY <2>3 DEF Frame, Waiting
  <2> QED  BY <1>13, <2>1, <2>2, <2>3
<1>29. CalledJobs'
  <2> SUFFICES ASSUME NEW x \in Workers, NEW i \in 1..Height(x)' - 1, RunsJob(stack'[x][i])
               PROVE  \E v \in Workers : \E j \in 2..Height(v)' :
                        Right(stack'[v][j].task) = stack'[x][i + 1].task /\ stack'[v][j].pc \in Joining
    BY DEF CalledJobs, Tk, Pc
  <2>1. i \in 1..Height(x)' /\ i + 1 \in 1..Height(x)' /\ i + 1 \in 2..Height(x)'
    BY <1>12
  <2>2. stack'[x][i].pc = "run"
    BY DEF RunsJob
  <2>3. i \in 1..Height(x) - 1 /\ stack'[x][i] = stack[x][i] /\ stack'[x][i + 1].task = stack[x][i + 1].task
    BY <1>2, <1>4, <1>6, <1>12, <1>13, <2>1, <2>2, SMTT(30) DEF Frame
  <2>4. PICK v \in Workers : \E j \in 2..Height(v) :
          Right(stack[v][j].task) = stack[x][i + 1].task /\ stack[v][j].pc \in Joining
    BY <2>3 DEF IInv, CalledJobs, Tk, Pc
  <2>5. PICK j \in 2..Height(v) :
          Right(stack[v][j].task) = stack[x][i + 1].task /\ stack[v][j].pc \in Joining
    BY <2>4
  <2>6. ~(v = w /\ j = h)
    <3>1. i + 1 \in 2..Height(x)
      BY <1>12, <2>3, SMTT(30)
    <3> QED  BY <1>4, <1>5, <1>17, <2>5, <3>1
  <2>7. j \in 2..Height(v)' /\ stack'[v][j] = stack[v][j]
    BY <1>2, <1>6, <1>12, <2>6, SMTT(30) DEF Below
  <2> QED  BY <2>3, <2>5, <2>7
<1>30. SlotsSuffice'
  <2> SUFFICES ASSUME NEW v \in Workers
               PROVE  /\ Bot(v)' <= Cardinality(Unjoined(v)')
                      /\ Height(v)' > 0 /\ stack'[v][Height(v)'].pc \in Waiting => Bot(v)' = 0
    BY DEF SlotsSuffice, Pc
  <2>1. /\ Bot(v) <= Cardinality(Unjoined(v))
        /\ Height(v) > 0 /\ stack[v][Height(v)].pc \in Waiting => Bot(v) = 0
    BY DEF IInv, SlotsSuffice, Pc
  <2>2. CASE v # w
    <3>1. Unjoined(v)' = Unjoined(v)
      BY <1>12, <2>2 DEF Unjoined
    <3> QED  BY <1>12, <2>1, <2>2, <3>1
  <2>3. CASE v = w
    <3>1. stack'[v][Height(v)'].pc = "start"
      BY <1>6, <2>3 DEF Frame
    <3>2. DOMAIN stack[w] = 1..h /\ DOMAIN stack'[w] = 1..h + 1
      <4>1. stack[w] \in Seq(Frames) /\ stack'[w] \in Seq(Frames)
        BY <1>10 DEF Sizes
      <4> QED  BY <1>2, <1>6, <4>1 DEF Height
    <3>3. Unjoined(w) \ {h} \subseteq Unjoined(w)'
      <4> SUFFICES ASSUME NEW i \in Unjoined(w) \ {h}
                   PROVE  /\ i \in 1..h + 1 /\ stack'[w][i].pc \in {"left", "pop"}
                          /\ \A j \in i + 1..h + 1 : stack'[w][j].pc # "run"
        BY <1>6, <3>2 DEF Unjoined, Height
      <4>1. i \in 1..h - 1 /\ stack'[w][i].pc \in {"left", "pop"}
        <5>1. i \in 1..h - 1 /\ stack[w][i].pc \in {"left", "pop"}
          BY <1>2, <3>2 DEF Unjoined
        <5> QED  BY <1>6, <5>1 DEF Below
      <4>2. ASSUME NEW j \in i + 1..h + 1  PROVE stack'[w][j].pc # "run"
        <5>1. CASE j <= h - 1
          <6>1. i \in Unjoined(w) /\ j \in i + 1..Len(stack[w])
            BY <1>2, <4>1, <5>1 DEF Height
          <6> QED  BY <1>6, <4>1, <5>1, <6>1 DEF Unjoined, Below
        <5>2. CASE j = h \/ j = h + 1
          BY <1>6, <5>2 DEF Frame
        <5> QED  BY <1>2, <4>1, <5>1, <5>2
      <4> QED  BY <4>1, <4>2
    <3>4. IsFiniteSet(Unjoined(w)) /\ IsFiniteSet(Unjoined(w) \ {h})
      BY <1>10, FS_Subset DEF Sizes
    <3>5. Cardinality(Unjoined(w)) <= Cardinality(Unjoined(w) \ {h}) + 1
      <4>0. Cardinality(Unjoined(w)) \in Nat
        BY <1>10 DEF Sizes
      <4>1. CASE h \in Unjoined(w)
        <5>1. Cardinality(Unjoined(w) \ {h}) = Cardinality(Unjoined(w)) - 1
          BY <3>4, <4>1, FS_RemoveElement
        <5> QED  BY <4>0, <5>1
      <4>2. CASE h \notin Unjoined(w)
        <5>1. Unjoined(w) \ {h} = Unjoined(w)
          BY <4>2
        <5> QED  BY <4>0, <5>1
      <4> QED  BY <4>1, <4>2
    <3>6. Cardinality(Unjoined(w) \ {h}) <= Cardinality(Unjoined(w)')
      BY <1>10, <3>3, FS_Subset DEF Sizes
    <3>7. /\ Bot(w) \in Nat /\ Bot(w)' \in Nat /\ Cardinality(Unjoined(w)) \in Nat
          /\ Cardinality(Unjoined(w)') \in Nat /\ Cardinality(Unjoined(w) \ {h}) \in Nat
      BY <1>10, <3>4, FS_CardinalityType DEF Sizes
    <3>8. Bot(w)' <= Cardinality(Unjoined(w)')
      BY <1>8, <2>1, <2>3, <3>5, <3>6, <3>7
    <3>9. ~(stack'[v][Height(v)'].pc \in Waiting)
      BY <3>1 DEF Waiting
    <3> QED  BY <2>3, <3>8, <3>9
  <2> QED  BY <2>2, <2>3
<1> QED  BY <1>15, <1>16, <1>19, <1>20, <1>21, <1>22, <1>23, <1>24, <1>27, <1>28, <1>29, <1>30 DEF IInv

-----------------------------------------------------------------------------
(* A task that ends: the frame below its own goes on.                      *)

\* A frame returns to the one that called it.
LEMMA ReturnKeeps ==
  ASSUME IInv, TypeOK', NEW w \in Workers, Return(w)
  PROVE  IInv'
<1>1. stack[w] # <<>> /\ Last(stack[w]).pc = "return" /\ Len(stack[w]) > 1
  BY DEF Return, At
<1>2. PICK h \in Nat : h = Height(w) /\ h > 1
  BY <1>1, TopKinds DEF Height
<1>3. PICK n \in Tasks : n = Task(w)
  BY <1>1, <1>2, TopKinds DEF TaskFrame
<1>4. stack[w][h].task = n /\ stack[w][h].pc = "return"
  BY <1>1, <1>2, <1>3, TopKinds
<1>5. PICK g \in Frames, p \in TaskPcs \cup MainPcs \cup LoopPcs :
        /\ g = stack[w][h - 1] /\ p = Returned(g)
        /\ Others(w) /\ Height(w)' = h - 1 /\ Below(w, h - 2)
        /\ stack'[w][h - 1] = Frame(g.task, p)
        /\ Last(Front(stack[w])) = g
  <2> DEFINE q == Returned(Last(Front(stack[w])))
  <2>1. q \in TaskPcs \cup MainPcs \cup LoopPcs
    BY PcsAreKnown DEF Returned, AllPcs
  <2>2. stack' = [stack EXCEPT ![w] = [Front(@) EXCEPT ![Len(@) - 1].pc = q]]
    BY DEF Return
  <2> HIDE DEF q
  <2>3. /\ Others(w) /\ Height(w)' = h - 1 /\ Below(w, h - 2)
        /\ stack'[w][h - 1] = Frame(stack[w][h - 1].task, q)
        /\ Last(Front(stack[w])) = stack[w][h - 1]
    BY <1>1, <1>2, <2>1, <2>2, ReturnEffect DEF IInv, Height, Tk
  <2>4. stack[w][h - 1] \in Frames
    BY <1>2, SizesHold DEF IInv, Sizes
  <2> QED  BY <2>1, <2>3, <2>4 DEF q
<1>6. /\ g.pc \in {"left", "right", "run"}
      /\ g.pc = "left" => p = "pop" /\ n = Append(g.task, 0)
      /\ g.pc = "right" => p = "return" /\ n = Right(g.task)
      /\ g.pc = "run" => p \in {"finish", "getjob"}
      /\ h - 1 = 1 => g.pc = "run" /\ BottomFrame(w, Frame(g.task, p))
      /\ h - 1 > 1 => g.task \in Forking /\ p \in {"pop", "return", "getjob"}
  <2>1. h - 1 \in 1..Height(w) - 1 /\ h - 1 \in 1..Height(w)
    BY <1>2
  <2>2. g.pc \in Calling
    BY <1>2, <1>5, <2>1 DEF IInv, StackShapes, Pc
  <2>3. /\ g.pc = "left" => n = Append(g.task, 0)
        /\ g.pc = "right" => n = Right(g.task)
    <3>1. stack[w][(h - 1) + 1].task = n
      BY <1>2, <1>4
    <3> QED  BY <1>5, <2>1, <3>1 DEF IInv, Calls, Pc, Tk
  <2>4. CASE h - 1 = 1
    <3>1. BottomFrame(w, g)
      BY <1>5, <2>1, <2>4 DEF IInv, StackShapes
    <3>2. g.pc = "run"
      BY <2>2, <3>1 DEF BottomFrame, MainPcs, LoopPcs, Calling
    <3>3. IF w = MainThread THEN p = "finish" /\ g.task = Main ELSE p = "getjob" /\ g.task = Loop
      BY <1>5, <3>1, <3>2, TaskFacts DEF BottomFrame, Returned
    <3> QED  BY <1>2, <2>3, <2>4, <3>2, <3>3 DEF BottomFrame, Frame, MainPcs, LoopPcs
  <2>5. CASE h - 1 > 1
    <3>1. TaskFrame(g)
      BY <1>5, <2>1, <2>5 DEF IInv, StackShapes
    <3>2. g.task \in Forking /\ g.task # Main
      BY <2>2, <3>1, TaskFacts DEF TaskFrame, Calling
    <3> QED  BY <1>5, <2>2, <2>3, <2>5, <3>2 DEF Returned, Calling
  <2> QED  BY <1>2, <2>4, <2>5
<1>7. /\ UNCHANGED <<deques, begun>> /\ ended' = ended \cup {n}
      /\ done \subseteq done' /\ done' \subseteq done \cup {n}
  BY <1>3 DEF Return
<1>8. Sizes /\ Sizes'
  BY SizesHold, SizesHoldNext DEF IInv
<1>9. \A v \in Workers : /\ Height(v)' \in Nat /\ Height(v) \in Nat /\ Height(v)' <= Height(v)
                         /\ Jobs(v)' = Jobs(v) /\ Bot(v)' = Bot(v) /\ Len(Jobs(v)) \in Nat
                         /\ v # w => stack'[v] = stack[v] /\ Height(v)' = Height(v)
  BY <1>2, <1>5, <1>7, <1>8 DEF Sizes, Others, Height, Jobs, Bot
<1>10. ASSUME NEW v \in Workers, NEW i \in 1..Height(v)'
       PROVE  /\ i \in 1..Height(v) /\ ~(v = w /\ i = h)
              /\ \/ stack'[v][i] = stack[v][i] /\ ~(v = w /\ i = h - 1)
                 \/ v = w /\ i = h - 1 /\ stack[v][i] = g /\ stack'[v][i] = Frame(g.task, p)
  <2>1. CASE v # w
    BY <1>9, <2>1
  <2>2. CASE v = w
    BY <1>2, <1>5, <2>2 DEF Below
  <2> QED  BY <2>1, <2>2
<1>11. \A v \in Workers : \A i \in 1..Height(v)' :
         i \in 1..Height(v) /\ stack'[v][i].task = stack[v][i].task
  BY <1>10 DEF Frame
<1>12. \A v \in Workers : \A i \in 2..Height(v)' :
         /\ i \in 1..Height(v)' /\ i \in 2..Height(v)
         /\ Tk(v, i)' = Tk(v, i) /\ Tk(v, i) # n
  <2>1. \A v \in Workers : \A i \in 2..Height(v)' :
          i \in 1..Height(v)' /\ i \in 2..Height(v) /\ Tk(v, i)' = Tk(v, i) /\ ~(v = w /\ i = h)
    BY <1>9, <1>10, <1>11 DEF Tk
  <2>2. h \in 2..Height(w) /\ Tk(w, h) = n
    BY <1>2, <1>4 DEF Tk
  <2>3. \A v \in Workers : \A i \in 2..Height(v) : Tk(v, i) = n => v = w /\ i = h
    BY <2>2 DEF IInv, FramesDiffer
  <2> QED  BY <2>1, <2>3
<1>13. StackShapes'
  <2> SUFFICES ASSUME NEW v \in Workers
               PROVE  /\ v = MainThread => Height(v)' > 0
                      /\ \A i \in 1..Height(v)' :
                           /\ i = 1 => BottomFrame(v, stack'[v][i])
                           /\ i > 1 => TaskFrame(stack'[v][i])
                           /\ i < Height(v)' <=> stack'[v][i].pc \in Calling
    BY DEF StackShapes, Pc
  <2>1. v = MainThread => Height(v)' > 0
    BY <1>2, <1>5, <1>9 DEF IInv, StackShapes
  <2>2. ASSUME NEW i \in 1..Height(v)'
        PROVE  /\ i = 1 => BottomFrame(v, stack'[v][i])
               /\ i > 1 => TaskFrame(stack'[v][i])
               /\ i < Height(v)' <=> stack'[v][i].pc \in Calling
    <3>1. CASE stack'[v][i] = stack[v][i] /\ ~(v = w /\ i = h - 1)
      <4>1. i \in 1..Height(v) /\ (i < Height(v)' <=> i < Height(v))
        BY <1>2, <1>5, <1>9, <3>1
      <4> QED  BY <3>1, <4>1 DEF IInv, StackShapes, Pc
    <3>2. CASE v = w /\ i = h - 1 /\ stack'[v][i] = Frame(g.task, p)
      <4>1. p \notin Calling
        BY <1>6 DEF Calling
      <4>2. h - 1 > 1 => TaskFrame(Frame(g.task, p))
        BY <1>6, TaskFacts DEF TaskFrame, Frame, TaskPcs, Waiting
      <4>3. ~(i < Height(v)')
        BY <1>2, <1>5, <3>2
      <4>4. stack'[v][i].pc = p
        BY <3>2 DEF Frame
      <4> QED  BY <1>6, <3>2, <4>1, <4>2, <4>3, <4>4
    <3> QED  BY <1>10, <3>1, <3>2
  <2> QED  BY <2>1, <2>2
<1>14. Calls'
  <2> SUFFICES ASSUME NEW v \in Workers, NEW i \in 1..Height(v)' - 1
               PROVE  /\ stack'[v][i].pc = "left" => stack'[v][i + 1].task = Append(stack'[v][i].task, 0)
                      /\ stack'[v][i].pc = "right" => stack'[v][i + 1].task = Right(stack'[v][i].task)
                      /\ stack'[v][i].task = Main => stack'[v][i + 1].task = <<>>
    BY DEF Calls, Pc, Tk
  <2>1. i \in 1..Height(v)' /\ i + 1 \in 1..Height(v)' /\ i # Height(v)' /\ i \in 1..Height(v) - 1
    BY <1>9
  <2>2. stack'[v][i] = stack[v][i] /\ stack'[v][i + 1].task = stack[v][i + 1].task
    BY <1>5, <1>10, <1>11, <2>1
  <2> QED  BY <2>1, <2>2 DEF IInv, Calls, Pc, Tk
<1>15. FramesDiffer' /\ JobsDiffer' /\ JobsAreNew'
  <2>1. FramesDiffer'
    BY <1>12 DEF IInv, FramesDiffer
  <2>2. JobsDiffer'
    BY <1>9 DEF IInv, JobsDiffer
  <2>3. JobsAreNew'
    BY <1>7, <1>9, <1>12 DEF IInv, JobsAreNew
  <2> QED  BY <2>1, <2>2, <2>3
<1>16. FramesLive' /\ History'
  <2>1. n \in begun
    BY <1>2, <1>4 DEF IInv, FramesLive, Pc, Tk
  <2>2. History'
    BY <1>7, <2>1 DEF IInv, History
  <2>3. ASSUME NEW v \in Workers, NEW i \in 2..Height(v)'
        PROVE  /\ Tk(v, i)' \notin ended' /\ (stack'[v][i].pc = "start" <=> stack[v][i].pc = "start")
    <3>1. Tk(v, i)' \notin ended'
      BY <1>7, <1>12 DEF IInv, FramesLive
    <3>2. stack'[v][i].pc = "start" <=> stack[v][i].pc = "start"
      BY <1>6, <1>10, <1>12 DEF Frame
    <3> QED  BY <3>1, <3>2
  <2>4. FramesLive'
    BY <1>7, <1>12, <2>3 DEF IInv, FramesLive, Pc
  <2> QED  BY <2>2, <2>4
<1>17. ForkersHaveBegun'
  <2>1. ASSUME NEW x, Present(x)'  PROVE  Present(x)
    BY <1>7, <1>9, <1>12, <2>1 DEF Present
  <2> QED  BY <1>7, <2>1 DEF IInv, ForkersHaveBegun
<1>18. HalvesHaveEnded'
  <2> SUFFICES ASSUME NEW v \in Workers, NEW i \in 2..Height(v)', stack'[v][i].task \in Forking
               PROVE  LET f == stack'[v][i] IN
                      /\ f.pc \notin {"start", "left"} => Append(f.task, 0) \in ended'
                      /\ f.pc = "return" => Right(f.task) \in ended'
    BY DEF HalvesHaveEnded, Tk, Pc
  <2>1. i \in 1..Height(v)' /\ i \in 2..Height(v) /\ stack'[v][i].task = stack[v][i].task
    BY <1>12 DEF Tk
  <2>2. LET f == stack[v][i] IN
          /\ f.pc \notin {"start", "left"} => Append(f.task, 0) \in ended
          /\ f.pc = "return" => Right(f.task) \in ended
    BY <2>1 DEF IInv, HalvesHaveEnded, Tk, Pc
  <2>3. CASE stack'[v][i] = stack[v][i]
    BY <1>7, <2>2, <2>3
  <2>4. CASE v = w /\ i = h - 1 /\ stack[v][i] = g /\ stack'[v][i] = Frame(g.task, p)
    <3>1. stack'[v][i].pc = p
      BY <2>4 DEF Frame
    <3> QED  BY <1>6, <1>7, <2>1, <2>2, <2>4, <3>1
  <2> QED  BY <1>10, <2>1, <2>3, <2>4
\* Which job is that of which frame.
<1>19. ASSUME NEW v \in Workers, NEW k \in 1..Len(Jobs(v)), NEW i \in 2..Height(v)'
       PROVE  IsJobOf(v, k, i) <=> IsJobOf(v, k, i)'
  <2>1. i \in 1..Height(v)' /\ Tk(v, i)' = Tk(v, i)
    BY <1>12
  <2>2. Pc(v, i) \in {"left", "pop"} <=> Pc(v, i)' \in {"left", "pop"}
    BY <1>6, <1>10, <2>1 DEF Frame, Pc
  <2> QED  BY <1>9, <2>1, <2>2 DEF IsJobOf
<1>20. ASSUME NEW v \in Workers, NEW k \in 1..Len(Jobs(v)), NEW i \in 2..Height(v), IsJobOf(v, k, i)
       PROVE  i \in 2..Height(v)'
  <2>1. ~(v = w /\ i = h)
    BY <1>4, <1>20 DEF IsJobOf, Pc
  <2> QED  BY <1>2, <1>5, <1>9, <2>1
<1>21. JobsHaveFrames'
  <2> SUFFICES ASSUME NEW v \in Workers, NEW k \in 1..Len(Jobs(v))
               PROVE  \E i \in 2..Height(v)' : IsJobOf(v, k, i)'
    BY <1>9 DEF JobsHaveFrames
  <2>1. PICK i \in 2..Height(v) : IsJobOf(v, k, i)
    BY DEF IInv, JobsHaveFrames
  <2> QED  BY <1>19, <1>20, <2>1
<1>22. YoungerFrames'
  <2> SUFFICES ASSUME NEW v \in Workers, NEW k \in 1..Len(Jobs(v)), NEW i \in 2..Height(v)',
                      NEW j \in 2..Height(v)', IsJobOf(v, k, i)', i < j
               PROVE  /\ stack'[v][j].pc \notin {"run"} \cup Waiting
                      /\ stack'[v][j].pc \in {"left", "pop"} =>
                           \E l \in k + 1..Len(Jobs(v)) : IsJobOf(v, l, j)'
    BY <1>9 DEF YoungerFrames, Pc
  <2>1. i \in 2..Height(v) /\ j \in 2..Height(v) /\ j \in 1..Height(v)' /\ IsJobOf(v, k, i)
    BY <1>12, <1>19
  <2>2. /\ stack[v][j].pc \notin {"run"} \cup Waiting
        /\ stack[v][j].pc \in {"left", "pop"} => \E l \in k + 1..Len(Jobs(v)) : IsJobOf(v, l, j)
    BY <2>1 DEF IInv, YoungerFrames, Pc
  <2>3. k + 1..Len(Jobs(v)) \subseteq 1..Len(Jobs(v))
    BY <1>9
  <2>4. /\ stack'[v][j].pc \notin {"run"} \cup Waiting
        /\ stack'[v][j].pc \in {"left", "pop"} => stack[v][j].pc \in {"left", "pop"}
    BY <1>6, <1>10, <2>1, <2>2 DEF Frame, Waiting
  <2> QED  BY <1>19, <2>2, <2>3, <2>4
<1>23. CalledJobs'
  <2> SUFFICES ASSUME NEW x \in Workers, NEW i \in 1..Height(x)' - 1, RunsJob(stack'[x][i])
               PROVE  \E v \in Workers : \E j \in 2..Height(v)' :
                        Right(stack'[v][j].task) = stack'[x][i + 1].task /\ stack'[v][j].pc \in Joining
    BY DEF CalledJobs, Tk, Pc
  <2>1. i \in 1..Height(x)' /\ i + 1 \in 1..Height(x)' /\ i # Height(x)' /\ i \in 1..Height(x) - 1
    BY <1>9
  <2>2. stack'[x][i] = stack[x][i] /\ stack'[x][i + 1].task = stack[x][i + 1].task
    BY <1>5, <1>10, <1>11, <2>1
  <2>3. PICK v \in Workers : \E j \in 2..Height(v) :
          Right(stack[v][j].task) = stack[x][i + 1].task /\ stack[v][j].pc \in Joining
    BY <2>1, <2>2 DEF IInv, CalledJobs, Tk, Pc
  <2>4. PICK j \in 2..Height(v) :
          Right(stack[v][j].task) = stack[x][i + 1].task /\ stack[v][j].pc \in Joining
    BY <2>3
  <2>5. ~(v = w /\ j = h)
    BY <1>4, <2>4 DEF Joining, Waiting
  <2>6. j \in 2..Height(v)'
    BY <1>2, <1>5, <1>9, <2>5
  <2>7. stack'[v][j].task = stack[v][j].task /\ j \in 1..Height(v)'
    BY <1>12, <2>6 DEF Tk
  <2>8. stack'[v][j].pc \in Joining
    <3>1. CASE stack'[v][j] = stack[v][j]
      BY <2>4, <3>1
    <3>2. CASE v = w /\ j = h - 1 /\ stack[v][j] = g /\ stack'[v][j] = Frame(g.task, p)
      <4>1. g.pc \in {"left", "run"} /\ h - 1 > 1
        BY <1>6, <2>4, <2>6, <3>2 DEF Joining, Waiting
      <4>2. p \in {"pop", "getjob"}
        BY <1>6, <4>1
      <4> QED  BY <3>2, <4>2 DEF Frame, Joining, Waiting
    <3> QED  BY <1>10, <2>7, <3>1, <3>2
  <2> QED  BY <2>2, <2>4, <2>6, <2>7, <2>8
<1>24. SlotsSuffice'
  <2> SUFFICES ASSUME NEW v \in Workers
               PROVE  /\ Bot(v) <= Cardinality(Unjoined(v)')
                      /\ Height(v)' > 0 /\ stack'[v][Height(v)'].pc \in Waiting => Bot(v) = 0
    BY <1>9 DEF SlotsSuffice, Pc
  <2>1. /\ Bot(v) <= Cardinality(Unjoined(v))
        /\ Height(v) > 0 /\ stack[v][Height(v)].pc \in Waiting => Bot(v) = 0
    BY DEF IInv, SlotsSuffice, Pc
  <2>2. CASE v # w
    <3>1. Unjoined(v)' = Unjoined(v)
      BY <1>9, <2>2 DEF Unjoined
    <3> QED  BY <1>9, <2>1, <2>2, <3>1
  <2>3. CASE v = w
    <3>1. DOMAIN stack[w] = 1..h /\ DOMAIN stack'[w] = 1..h - 1
      <4>1. stack[w] \in Seq(Frames) /\ stack'[w] \in Seq(Frames)
        BY <1>8 DEF Sizes
      <4> QED  BY <1>2, <1>5, <4>1 DEF Height
    <3>2. Unjoined(w) \subseteq Unjoined(w)'
      <4> SUFFICES ASSUME NEW i \in Unjoined(w)
                   PROVE  /\ i \in 1..h - 1 /\ stack'[w][i].pc \in {"left", "pop"}
                          /\ \A j \in i + 1..h - 1 : stack'[w][j].pc # "run"
        BY <1>5, <3>1 DEF Unjoined, Height
      <4>1. /\ i \in 1..h /\ stack[w][i].pc \in {"left", "pop"}
            /\ \A j \in i + 1..h : stack[w][j].pc # "run"
        BY <1>2, <3>1 DEF Unjoined, Height
      <4>2. i \in 1..h - 1
        BY <1>2, <1>4, <4>1
      <4>3. stack'[w][i].pc \in {"left", "pop"}
        BY <1>5, <1>6, <1>10, <4>1, <4>2 DEF Frame
      <4>4. \A j \in i + 1..h - 1 : stack'[w][j].pc # "run"
        BY <1>5, <1>6, <1>10, <4>1, <4>2 DEF Frame
      <4> QED  BY <4>2, <4>3, <4>4
    <3>3. Cardinality(Unjoined(w)) <= Cardinality(Unjoined(w)')
      BY <1>8, <3>2, FS_Subset DEF Sizes
    <3>4. Bot(w) \in Nat /\ Cardinality(Unjoined(w)) \in Nat /\ Cardinality(Unjoined(w)') \in Nat
      BY <1>8 DEF Sizes
    <3>5. stack'[w][h - 1].pc \in Waiting => Unjoined(w) = {}
      <4> SUFFICES ASSUME p \in Waiting, NEW i \in Unjoined(w) PROVE FALSE
        BY <1>5 DEF Frame
      <4>1. g.pc = "run"
        BY <1>6 DEF Waiting
      <4>2. /\ i \in 1..h /\ stack[w][i].pc \in {"left", "pop"}
            /\ \A j \in i + 1..h : stack[w][j].pc # "run"
        BY <1>2, <3>1 DEF Unjoined, Height
      <4>3. i \in {h - 1, h} \/ h - 1 \in i + 1..h
        BY <1>2, <4>2
      <4> QED  BY <1>4, <1>5, <4>1, <4>2, <4>3
    <3>6. stack'[w][h - 1].pc \in Waiting => Bot(w) = 0
      <4>1. Unjoined(w) = {} => Cardinality(Unjoined(w)) = 0
        BY FS_EmptySet
      <4> QED  BY <2>1, <2>3, <3>4, <3>5, <4>1
    <3>7. Bot(w) <= Cardinality(Unjoined(w)')
      BY <2>1, <2>3, <3>3, <3>4
    <3> QED  BY <1>5, <2>3, <3>6, <3>7
  <2> QED  BY <2>2, <2>3
<1> QED  BY <1>13, <1>14, <1>15, <1>16, <1>17, <1>18, <1>21, <1>22, <1>23, <1>24 DEF IInv

-----------------------------------------------------------------------------
(* A steal: the oldest job of another worker is called.                    *)

\* A thief takes the oldest job of a deque and runs it.
LEMMA StealKeeps ==
  ASSUME IInv, TypeOK', NEW w \in Workers, NEW t \in Workers, At(w, "steal"),
         Jobs(t) # <<>>, deques' = [deques EXCEPT ![t] = PopTop(@)],
         CallFrom(w, "run", Head(Jobs(t))), UNCHANGED <<done, begun, ended>>
  PROVE  IInv'
<1>1. stack[w] # <<>> /\ Last(stack[w]).pc = "steal"
  BY DEF At
<1>2. PICK h \in Nat : h = Height(w) /\ h > 0
  BY <1>1, TopKinds
<1>3. PICK f \in Frames : f = stack[w][h] /\ f.pc = "steal"
  BY <1>1, <1>2, TopKinds, SizesHold DEF IInv, Sizes
<1>4. t # w /\ Bot(w) = 0 /\ Len(Jobs(w)) = 0
  <2>1. Bot(w) = 0 /\ Jobs(w) = <<>>
    BY <1>1, TopKinds DEF Waiting
  <2> QED  BY <2>1, EmptySeq
<1>5. PICK L \in Nat \ {0} : L = Len(Jobs(t))
  BY SizesHold, EmptySeq DEF IInv, Sizes
<1>6. PICK job \in Tasks : job = Jobs(t)[1] /\ job = Head(Jobs(t))
  BY <1>5, SizesHold DEF IInv, Sizes
<1>7. /\ Others(w) /\ Height(w)' = h + 1 /\ Below(w, h - 1)
      /\ stack'[w][h] = Frame(f.task, "run") /\ stack'[w][h + 1] = Frame(job, "start")
  BY <1>1, <1>2, <1>3, <1>6, CallEffect DEF IInv, TaskPcs, Calling, Tk
<1>8. /\ \A v \in Workers : v # t => deques'[v] = deques[v]
      /\ Len(Jobs(t))' = L - 1
      /\ \A k \in 1..L - 1 : deques'[t].jobs[k] = Jobs(t)[k + 1]
      /\ Bot(t)' = Bot(t)
  <2>1. deques[t] \in [top : Nat, jobs : Seq(Tasks)] /\ deques \in [Workers -> [top : Nat, jobs : Seq(Tasks)]]
    BY DEF IInv, TypeOK
  <2>2. deques'[t] = [top |-> deques[t].top + 1, jobs |-> Tail(Jobs(t))]
        /\ \A v \in Workers : v # t => deques'[v] = deques[v]
    BY <2>1 DEF PopTop, Jobs
  <2>3. /\ Len(Tail(Jobs(t))) = L - 1
        /\ \A k \in 1..L - 1 : Tail(Jobs(t))[k] = Jobs(t)[k + 1]
    BY <1>5, <2>1, HeadTailProperties DEF Jobs
  <2>4. Bot(t) = deques[t].top + L
    BY <1>5 DEF Bot, Jobs
  <2>5. Bot(t)' = (deques[t].top + 1) + (L - 1)
    BY <2>2, <2>3 DEF Bot
  <2>6. Bot(t)' = Bot(t)
    BY <2>1, <2>4, <2>5
  <2> QED  BY <2>2, <2>3, <2>6 DEF Jobs
<1>9. Sizes /\ Sizes'
  BY SizesHold, SizesHoldNext DEF IInv
<1>10. \/ h = 1 /\ w # MainThread /\ f.task = Loop
       \/ h > 1 /\ f.task \in Forking
  <2>1. h \in 1..Height(w)
    BY <1>2
  <2>2. CASE h = 1
    <3>1. BottomFrame(w, f)
      BY <1>3, <2>1, <2>2 DEF IInv, StackShapes
    <3> QED  BY <1>3, <2>2, <3>1 DEF BottomFrame, MainPcs
  <2>3. CASE h > 1
    <3>1. TaskFrame(f)
      BY <1>3, <2>1, <2>3 DEF IInv, StackShapes
    <3> QED  BY <1>3, <2>3, <3>1 DEF TaskFrame
  <2> QED  BY <1>2, <2>2, <2>3
<1>11. \A v \in Workers : /\ Height(v)' \in Nat /\ Height(v) \in Nat
                          /\ Len(Jobs(v))' \in Nat /\ Len(Jobs(v)) \in Nat /\ Bot(v)' = Bot(v)
                          /\ v # w => stack'[v] = stack[v] /\ Height(v)' = Height(v)
                          /\ v # t => Jobs(v)' = Jobs(v)
  BY <1>7, <1>8, <1>9 DEF Sizes, Others, Height, Jobs, Bot
<1>12. ASSUME NEW v \in Workers, NEW i \in 1..Height(v)'
       PROVE  \/ /\ i \in 1..Height(v) /\ stack'[v][i] = stack[v][i]
                 /\ v = w => i < h
              \/ v = w /\ i = h /\ i \in 1..Height(v) /\ stack'[v][i] = Frame(f.task, "run")
              \/ v = w /\ i = h + 1 /\ stack'[v][i] = Frame(job, "start")
  <2>1. CASE v # w
    BY <1>11, <2>1
  <2>2. CASE v = w
    BY <1>2, <1>7, <2>2 DEF Below
  <2> QED  BY <2>1, <2>2
<1>13. \A v \in Workers : \A k \in 1..Len(Jobs(v))' :
         \/ v # t /\ k \in 1..Len(Jobs(v)) /\ Jobs(v)'[k] = Jobs(v)[k]
         \/ v = t /\ k + 1 \in 2..Len(Jobs(v)) /\ Jobs(v)'[k] = Jobs(v)[k + 1]
  <2> SUFFICES ASSUME NEW v \in Workers, NEW k \in 1..Len(Jobs(v))'
               PROVE  \/ v # t /\ k \in 1..Len(Jobs(v)) /\ Jobs(v)'[k] = Jobs(v)[k]
                      \/ v = t /\ k + 1 \in 2..Len(Jobs(v)) /\ Jobs(v)'[k] = Jobs(v)[k + 1]
    OBVIOUS
  <2>1. CASE v # t
    BY <1>11, <2>1
  <2>2. CASE v = t
    <3>1. k \in 1..L - 1
      BY <1>8, <2>2
    <3> QED  BY <1>5, <1>8, <2>2, <3>1 DEF Jobs
  <2> QED  BY <2>1, <2>2
\* The frames below the one that takes the job.
<1>31. ASSUME NEW v \in Workers, NEW i \in 1..Height(v)' - 1, ~(v = w /\ i = h)
       PROVE  /\ i \in 1..Height(v) - 1 /\ stack'[v][i] = stack[v][i]
              /\ stack'[v][i + 1].task = stack[v][i + 1].task
  <2>1. CASE v # w
    BY <1>11, <2>1
  <2>2. CASE v = w
    <3>1. i \in 1..h - 1
      BY <1>2, <1>7, <1>31, <2>2
    <3>2. stack'[w][i] = stack[w][i]
      BY <1>7, <3>1 DEF Below
    <3>3. CASE i + 1 = h
      BY <1>2, <1>3, <1>7, <2>2, <3>1, <3>2, <3>3 DEF Frame
    <3>4. CASE i + 1 # h
      BY <1>2, <1>7, <2>2, <3>1, <3>2, <3>4 DEF Below
    <3> QED  BY <3>3, <3>4
  <2> QED  BY <2>1, <2>2
<1>14. StackShapes'
  <2> SUFFICES ASSUME NEW v \in Workers
               PROVE  /\ v = MainThread => Height(v)' > 0
                      /\ \A i \in 1..Height(v)' :
                           /\ i = 1 => BottomFrame(v, stack'[v][i])
                           /\ i > 1 => TaskFrame(stack'[v][i])
                           /\ i < Height(v)' <=> stack'[v][i].pc \in Calling
    BY DEF StackShapes, Pc
  <2>1. v = MainThread => Height(v)' > 0
    BY <1>7, <1>11, SMTT(30) DEF IInv, StackShapes
  <2>2. ASSUME NEW i \in 1..Height(v)'
        PROVE  /\ i = 1 => BottomFrame(v, stack'[v][i])
               /\ i > 1 => TaskFrame(stack'[v][i])
               /\ i < Height(v)' <=> stack'[v][i].pc \in Calling
    <3>1. CASE i \in 1..Height(v) /\ stack'[v][i] = stack[v][i] /\ (v = w => i < h)
      BY <1>2, <1>7, <1>11, <3>1, SMTT(30) DEF IInv, StackShapes, Pc
    <3>2. CASE v = w /\ i = h /\ stack'[v][i] = Frame(f.task, "run")
      BY <1>2, <1>7, <1>10, <3>2, TaskFacts DEF Frame, TaskFrame, TaskPcs, Calling, BottomFrame, LoopPcs
    <3>3. CASE v = w /\ i = h + 1 /\ stack'[v][i] = Frame(job, "start")
      BY <1>2, <1>7, <3>3 DEF Frame, TaskFrame, TaskPcs, Calling
    <3> QED  BY <1>12, <3>1, <3>2, <3>3
  <2> QED  BY <2>1, <2>2
<1>15. Calls'
  <2> SUFFICES ASSUME NEW v \in Workers, NEW i \in 1..Height(v)' - 1
               PROVE  /\ stack'[v][i].pc = "left" => stack'[v][i + 1].task = Append(stack'[v][i].task, 0)
                      /\ stack'[v][i].pc = "right" => stack'[v][i + 1].task = Right(stack'[v][i].task)
                      /\ stack'[v][i].task = Main => stack'[v][i + 1].task = <<>>
    BY DEF Calls, Pc, Tk
  <2>1. i \in 1..Height(v)' /\ i + 1 \in 1..Height(v)' /\ i # Height(v)'
    BY <1>11
  <2>2. CASE v = w /\ i = h
    <3>1. stack'[w][h].task = f.task /\ stack'[w][h].pc = "run"
      BY <1>7 DEF Frame
    <3>2. f.task # Main
      BY <1>10, TaskFacts
    <3> QED  BY <2>2, <3>1, <3>2
  <2>3. CASE ~(v = w /\ i = h)
    <3>1. i \in 1..Height(v) - 1 /\ stack'[v][i] = stack[v][i] /\ stack'[v][i + 1].task = stack[v][i + 1].task
      BY <1>31, <2>3
    <3> QED  BY <3>1 DEF IInv, Calls, Pc, Tk
  <2> QED  BY <2>2, <2>3
\* The job was in one place only.
<1>16. /\ \A v \in Workers : \A i \in 2..Height(v) : stack[v][i].task # job
       /\ \A v \in Workers : \A k \in 1..Len(Jobs(v)) : Jobs(v)[k] = job => v = t /\ k = 1
       /\ job \notin begun
  <2>1. 1 \in 1..Len(Jobs(t))
    BY <1>5
  <2>2. job \notin begun /\ \A v \in Workers : \A i \in 2..Height(v) : stack[v][i].task # job
    BY <1>6, <2>1 DEF IInv, JobsAreNew, Tk
  <2>3. \A v \in Workers : \A k \in 1..Len(Jobs(v)) : Jobs(v)[k] = job => v = t /\ k = 1
    BY <1>6, <2>1 DEF IInv, JobsDiffer
  <2> QED  BY <2>2, <2>3
<1>17. ASSUME NEW v \in Workers, NEW i \in 2..Height(v)'
       PROVE  \/ /\ i \in 2..Height(v) /\ stack'[v][i].task = stack[v][i].task
                 /\ v = w => i <= h
              \/ v = w /\ i = h + 1 /\ stack'[v][i].task = job
  <2>1. i \in 1..Height(v)' /\ i >= 2
    BY <1>11
  <2>2. CASE i \in 1..Height(v) /\ stack'[v][i] = stack[v][i] /\ (v = w => i < h)
    BY <1>2, <1>11, <2>1, <2>2
  <2>3. CASE v = w /\ i = h /\ i \in 1..Height(v) /\ stack'[v][i] = Frame(f.task, "run")
    BY <1>2, <1>3, <1>11, <2>1, <2>3 DEF Frame
  <2>4. CASE v = w /\ i = h + 1 /\ stack'[v][i] = Frame(job, "start")
    BY <2>4 DEF Frame
  <2> QED  BY <1>12, <2>1, <2>2, <2>3, <2>4
<1>18. FramesDiffer'
  <2> SUFFICES ASSUME NEW v \in Workers, NEW x \in Workers,
                      NEW i \in 2..Height(v)', NEW j \in 2..Height(x)',
                      stack'[v][i].task = stack'[x][j].task
               PROVE  v = x /\ i = j
    BY DEF FramesDiffer, Tk
  <2>1. CASE i \in 2..Height(v) /\ stack'[v][i].task = stack[v][i].task
    <3>1. stack[v][i].task # job
      BY <1>16, <2>1
    <3>2. j \in 2..Height(x) /\ stack'[x][j].task = stack[x][j].task
      BY <1>17, <2>1, <3>1
    <3>3. stack[v][i].task = stack[x][j].task
      BY <2>1, <3>2
    <3> QED  BY <2>1, <3>2, <3>3 DEF IInv, FramesDiffer, Tk
  <2>2. CASE v = w /\ i = h + 1 /\ stack'[v][i].task = job
    BY <1>16, <1>17, <2>2
  <2> QED  BY <1>17, <2>1, <2>2
<1>20. ASSUME NEW v \in Workers, NEW k \in 1..Len(Jobs(v))'
       PROVE  \E k0 \in 1..Len(Jobs(v)) : /\ Jobs(v)'[k] = Jobs(v)[k0] /\ Jobs(v)[k0] # job
                                         /\ k0 = IF v = t THEN k + 1 ELSE k
  <2>1. CASE v # t
    <3>1. k \in 1..Len(Jobs(v)) /\ Jobs(v)'[k] = Jobs(v)[k]
      BY <1>13, <2>1
    <3> QED  BY <1>16, <2>1, <3>1
  <2>2. CASE v = t
    <3>1. k + 1 \in 1..Len(Jobs(v)) /\ k + 1 # 1 /\ Jobs(v)'[k] = Jobs(v)[k + 1]
      BY <1>11, <1>13, <2>2
    <3> QED  BY <1>16, <2>2, <3>1
  <2> QED  BY <2>1, <2>2
<1>19. JobsDiffer'
  <2> SUFFICES ASSUME NEW v \in Workers, NEW x \in Workers,
                      NEW k \in 1..Len(Jobs(v))', NEW l \in 1..Len(Jobs(x))',
                      Jobs(v)'[k] = Jobs(x)'[l]
               PROVE  v = x /\ k = l
    BY DEF JobsDiffer
  <2>1. PICK k0 \in 1..Len(Jobs(v)) : /\ Jobs(v)'[k] = Jobs(v)[k0]
                                      /\ k0 = IF v = t THEN k + 1 ELSE k
    BY <1>20
  <2>2. PICK l0 \in 1..Len(Jobs(x)) : /\ Jobs(x)'[l] = Jobs(x)[l0]
                                      /\ l0 = IF x = t THEN l + 1 ELSE l
    BY <1>20
  <2>3. Jobs(v)[k0] = Jobs(x)[l0]
    BY <2>1, <2>2
  <2>4. v = x /\ k0 = l0
    BY <2>3 DEF IInv, JobsDiffer
  <2>5. k \in Nat /\ l \in Nat
    BY <1>11
  <2> QED  BY <2>1, <2>2, <2>4, <2>5
<1>21. JobsAreNew'
  <2> SUFFICES ASSUME NEW v \in Workers, NEW k \in 1..Len(Jobs(v))'
               PROVE  /\ Jobs(v)'[k] \notin begun
                      /\ \A x \in Workers : \A i \in 2..Height(x)' : stack'[x][i].task # Jobs(v)'[k]
    BY DEF JobsAreNew, Tk
  <2>1. PICK k0 \in 1..Len(Jobs(v)) : Jobs(v)'[k] = Jobs(v)[k0] /\ Jobs(v)[k0] # job
    BY <1>20
  <2>2. /\ Jobs(v)[k0] \notin begun
        /\ \A x \in Workers : \A i \in 2..Height(x) : stack[x][i].task # Jobs(v)[k0]
    BY DEF IInv, JobsAreNew, Tk
  <2> QED  BY <1>17, <2>1, <2>2
<1>22. History' /\ FramesLive'
  <2>1. History'
    BY DEF IInv, History
  <2>2. ASSUME NEW v \in Workers, NEW i \in 2..Height(v)'
        PROVE  /\ stack'[v][i].task \notin ended
               /\ stack'[v][i].pc = "start" <=> stack'[v][i].task \notin begun
    <3>1. i \in 1..Height(v)' /\ i # 1
      BY <1>11
    <3>2. CASE i \in 1..Height(v) /\ stack'[v][i] = stack[v][i]
      <4>1. i \in 2..Height(v)
        BY <3>1, <3>2, <1>11
      <4> QED  BY <3>2, <4>1 DEF IInv, FramesLive, Pc, Tk
    <3>3. CASE v = w /\ i = h /\ stack'[v][i] = Frame(f.task, "run")
      <4>1. i \in 2..Height(v)
        BY <1>2, <1>11, <3>1, <3>3
      <4>2. f.task \notin ended /\ f.task \in begun
        BY <1>3, <3>3, <4>1 DEF IInv, FramesLive, Pc, Tk
      <4> QED  BY <3>3, <4>2 DEF Frame
    <3>4. CASE v = w /\ i = h + 1 /\ stack'[v][i] = Frame(job, "start")
      <4>1. job \notin begun /\ job \notin ended
        BY <1>16 DEF IInv, History
      <4> QED  BY <3>4, <4>1 DEF Frame
    <3> QED  BY <1>12, <3>1, <3>2, <3>3, <3>4
  <2>3. FramesLive'
    BY <2>2 DEF FramesLive, Pc, Tk
  <2> QED  BY <2>1, <2>3
<1>23. ForkersHaveBegun'
  <2> SUFFICES ASSUME NEW m \in Forking, NEW x \in Halves(m), Present(x)'
               PROVE  m \in begun'
    BY DEF ForkersHaveBegun
  <2>1. Present(job)
    BY <1>5, <1>6 DEF Present
  <2>2. Present(x)
    <3>1. CASE x \in begun'
      BY <3>1 DEF Present
    <3>2. CASE \E v \in Workers : \E i \in 2..Height(v)' : stack'[v][i].task = x
      BY <1>17, <2>1, <3>2 DEF Present, Tk
    <3>3. CASE \E v \in Workers : \E k \in 1..Len(Jobs(v))' : Jobs(v)'[k] = x
      BY <1>20, <3>3 DEF Present
    <3> QED  BY <3>1, <3>2, <3>3 DEF Present, Tk
  <2> QED  BY <2>2 DEF IInv, ForkersHaveBegun
<1>24. HalvesHaveEnded'
  <2> SUFFICES ASSUME NEW v \in Workers, NEW i \in 2..Height(v)', stack'[v][i].task \in Forking
               PROVE  LET g == stack'[v][i] IN
                      /\ g.pc \notin {"start", "left"} => Append(g.task, 0) \in ended
                      /\ g.pc = "return" => Right(g.task) \in ended
    BY DEF HalvesHaveEnded, Tk, Pc
  <2>1. i \in 1..Height(v)' /\ i # 1
    BY <1>11
  <2>2. CASE i \in 1..Height(v) /\ stack'[v][i] = stack[v][i]
    <3>1. i \in 2..Height(v)
      BY <2>1, <2>2, <1>11
    <3> QED  BY <2>2, <3>1 DEF IInv, HalvesHaveEnded, Tk, Pc
  <2>3. CASE v = w /\ i = h /\ stack'[v][i] = Frame(f.task, "run")
    <3>1. i \in 2..Height(v) /\ f.task \in Forking
      BY <1>2, <1>10, <1>11, <2>1, <2>3
    <3>2. Append(f.task, 0) \in ended
      BY <1>3, <2>3, <3>1 DEF IInv, HalvesHaveEnded, Tk, Pc
    <3> QED  BY <2>3, <3>2 DEF Frame
  <2>4. CASE stack'[v][i] = Frame(job, "start")
    BY <2>4 DEF Frame
  <2> QED  BY <1>12, <2>1, <2>2, <2>3, <2>4
\* The stacks of workers that have jobs stay; the jobs of t move by one place.
<1>25. ASSUME NEW v \in Workers, NEW k \in 1..Len(Jobs(v))'
       PROVE  v # w /\ stack'[v] = stack[v] /\ Height(v)' = Height(v)
  BY <1>4, <1>11
<1>26. ASSUME NEW v \in Workers, NEW k \in 1..Len(Jobs(v))', NEW i \in 2..Height(v)
       PROVE  IsJobOf(v, k, i)' <=> IsJobOf(v, IF v = t THEN k + 1 ELSE k, i)
  <2>1. stack'[v] = stack[v]
    BY <1>25
  <2>2. Jobs(v)'[k] = Jobs(v)[IF v = t THEN k + 1 ELSE k]
    BY <1>13
  <2> QED  BY <2>1, <2>2 DEF IsJobOf, Pc, Tk
<1>27. JobsHaveFrames'
  <2> SUFFICES ASSUME NEW v \in Workers, NEW k \in 1..Len(Jobs(v))'
               PROVE  \E i \in 2..Height(v)' : IsJobOf(v, k, i)'
    BY DEF JobsHaveFrames
  <2> DEFINE k0 == IF v = t THEN k + 1 ELSE k
  <2>1. k0 \in 1..Len(Jobs(v))
    BY <1>11, <1>13
  <2> HIDE DEF k0
  <2>2. PICK i \in 2..Height(v) : IsJobOf(v, k0, i)
    BY <2>1 DEF IInv, JobsHaveFrames
  <2> USE DEF k0
  <2> QED  BY <1>25, <1>26, <2>2
<1>28. YoungerFrames'
  <2> SUFFICES ASSUME NEW v \in Workers, NEW k \in 1..Len(Jobs(v))', NEW i \in 2..Height(v)',
                      NEW j \in 2..Height(v)', IsJobOf(v, k, i)', i < j
               PROVE  /\ stack'[v][j].pc \notin {"run"} \cup Waiting
                      /\ stack'[v][j].pc \in {"left", "pop"} =>
                           \E l \in k + 1..Len(Jobs(v))' : IsJobOf(v, l, j)'
    BY DEF YoungerFrames, Pc
  <2>1. i \in 2..Height(v) /\ j \in 2..Height(v) /\ stack'[v] = stack[v]
    BY <1>25
  <2>2. CASE v # t
    <3>1. IsJobOf(v, k, i) /\ k \in 1..Len(Jobs(v)) /\ Jobs(v)' = Jobs(v)
      BY <1>11, <1>26, <2>1, <2>2
    <3>2. /\ stack[v][j].pc \notin {"run"} \cup Waiting
          /\ stack[v][j].pc \in {"left", "pop"} => \E l \in k + 1..Len(Jobs(v)) : IsJobOf(v, l, j)
      BY <2>1, <3>1 DEF IInv, YoungerFrames, Pc
    <3> QED  BY <2>1, <3>1, <3>2 DEF IsJobOf, Pc, Tk
  <2>3. CASE v = t
    <3>1. IsJobOf(t, k + 1, i) /\ k + 1 \in 1..Len(Jobs(t))
      BY <1>11, <1>13, <1>26, <2>1, <2>3
    <3>2. /\ stack[t][j].pc \notin {"run"} \cup Waiting
          /\ stack[t][j].pc \in {"left", "pop"} =>
               \E l \in (k + 1) + 1..Len(Jobs(t)) : IsJobOf(t, l, j)
      BY <2>1, <2>3, <3>1 DEF IInv, YoungerFrames, Pc
    <3>3. ASSUME NEW l \in (k + 1) + 1..Len(Jobs(t)), IsJobOf(t, l, j)
          PROVE  \E m \in k + 1..Len(Jobs(t))' : IsJobOf(t, m, j)'
      <4>1. l - 1 \in 1..Len(Jobs(t))' /\ l - 1 \in k + 1..Len(Jobs(t))' /\ (l - 1) + 1 = l
        BY <1>5, <1>8, <1>11, <2>3
      <4>2. IsJobOf(t, l - 1, j)' <=> IsJobOf(t, l, j)
        BY <1>26, <2>1, <2>3, <4>1
      <4> QED  BY <3>3, <4>1, <4>2
    <3> QED  BY <2>1, <2>3, <3>2, <3>3
  <2> QED  BY <2>2, <2>3
<1>29. CalledJobs'
  <2> SUFFICES ASSUME NEW x \in Workers, NEW i \in 1..Height(x)' - 1, RunsJob(stack'[x][i])
               PROVE  \E v \in Workers : \E j \in 2..Height(v)' :
                        Right(stack'[v][j].task) = stack'[x][i + 1].task /\ stack'[v][j].pc \in Joining
    BY DEF CalledJobs, Tk, Pc
  <2>1. i \in 1..Height(x)' /\ i + 1 \in 1..Height(x)' /\ i # Height(x)'
    BY <1>11
\* The frames that were joining still are.
  <2>2. ASSUME NEW v \in Workers, NEW j \in 2..Height(v), stack[v][j].pc \in Joining
        PROVE  j \in 2..Height(v)' /\ stack'[v][j].task = stack[v][j].task /\ stack'[v][j].pc \in Joining
    <3>1. CASE v # w
      BY <1>11, <2>2, <3>1
    <3>2. CASE v = w
      <4>1. j \in 2..Height(v)' /\ j \in 1..h
        BY <1>2, <1>7, <3>2
      <4>2. CASE j = h
        BY <1>3, <1>7, <3>2, <4>1, <4>2 DEF Frame, Joining
      <4>3. CASE j # h
        BY <1>7, <2>2, <3>2, <4>1, <4>3 DEF Below
      <4> QED  BY <4>2, <4>3
    <3> QED  BY <3>1, <3>2
  <2>3. CASE x = w /\ i = h
    <3>1. stack'[x][i + 1].task = job
      BY <1>7, <2>3 DEF Frame
    <3>2. PICK j \in 2..Height(t) : IsJobOf(t, 1, j)
      BY <1>5 DEF IInv, JobsHaveFrames
    <3>3. Right(stack[t][j].task) = job /\ stack[t][j].pc \in Joining
      BY <1>6, <3>2 DEF IsJobOf, Pc, Tk, Joining
    <3> QED  BY <2>2, <3>1, <3>3
  <2>4. CASE ~(x = w /\ i = h)
    <3>1. i \in 1..Height(x) - 1 /\ stack'[x][i] = stack[x][i] /\ stack'[x][i + 1].task = stack[x][i + 1].task
      BY <1>31, <2>4
    <3>2. PICK v \in Workers : \E j \in 2..Height(v) :
            Right(stack[v][j].task) = stack[x][i + 1].task /\ stack[v][j].pc \in Joining
      BY <3>1 DEF IInv, CalledJobs, Tk, Pc
    <3> QED  BY <2>2, <3>1, <3>2
  <2> QED  BY <2>3, <2>4
<1>30. SlotsSuffice'
  <2> SUFFICES ASSUME NEW v \in Workers
               PROVE  /\ Bot(v) <= Cardinality(Unjoined(v)')
                      /\ Height(v)' > 0 /\ stack'[v][Height(v)'].pc \in Waiting => Bot(v) = 0
    BY <1>11 DEF SlotsSuffice, Pc
  <2>1. /\ Bot(v) <= Cardinality(Unjoined(v))
        /\ Height(v) > 0 /\ stack[v][Height(v)].pc \in Waiting => Bot(v) = 0
    BY DEF IInv, SlotsSuffice, Pc
  <2>2. CASE v # w
    <3>1. Unjoined(v)' = Unjoined(v)
      BY <1>11, <2>2 DEF Unjoined
    <3> QED  BY <1>11, <2>1, <2>2, <3>1
  <2>3. CASE v = w
    <3>1. Cardinality(Unjoined(v)') \in Nat
      BY <1>9 DEF Sizes
    <3> QED  BY <1>4, <2>3, <3>1
  <2> QED  BY <2>2, <2>3
<1> QED  BY <1>14, <1>15, <1>18, <1>19, <1>21, <1>22, <1>23, <1>24, <1>27, <1>28, <1>29, <1>30 DEF IInv

-----------------------------------------------------------------------------
(* A worker that leaves has nothing on its stack and nothing in its deque. *)

\* Below the first call of a thread no job waits.
LEMMA BottomIsEmpty ==
  ASSUME IInv, NEW w \in Workers, Height(w) <= 1
  PROVE  Bot(w) = 0 /\ Len(Jobs(w)) = 0
<1>1. /\ Height(w) \in Nat /\ Bot(w) \in Nat /\ Len(Jobs(w)) \in Nat /\ deques[w].top \in Nat
      /\ Bot(w) = deques[w].top + Len(Jobs(w)) /\ Unjoined(w) \subseteq 1..Height(w)
  BY SizesHold DEF IInv, Sizes
<1>2. Unjoined(w) = {}
  <2> SUFFICES ASSUME NEW i \in Unjoined(w) PROVE FALSE
    OBVIOUS
  <2>1. i \in 1..Height(w) /\ i = 1
    BY <1>1
  <2>2. BottomFrame(w, stack[w][i])
    BY <2>1 DEF IInv, StackShapes
  <2> QED  BY <2>2 DEF Unjoined, BottomFrame, MainPcs, LoopPcs
<1>3. Bot(w) <= 0
  BY <1>2, FS_EmptySet DEF IInv, SlotsSuffice
<1> QED  BY <1>1, <1>3

\* A worker leaves its loop at the end.
LEMMA ExitKeeps ==
  ASSUME IInv, TypeOK', NEW w \in Workers, Exit(w)
  PROVE  IInv'
<1>1. stack[w] # <<>> /\ Last(stack[w]).pc = "exit"
  BY DEF Exit, At
<1>2. Height(w) = 1 /\ w # MainThread
  BY <1>1, TopKinds DEF BottomFrame, MainPcs, TaskFrame, TaskPcs, Calling, Waiting
<1>3. Bot(w) = 0 /\ Len(Jobs(w)) = 0
  BY <1>2, BottomIsEmpty
<1>4. UNCHANGED <<deques, done, begun, ended>>
  BY DEF Exit
<1>5. Height(w)' = 0 /\ \A v \in Workers : v # w => stack'[v] = stack[v] /\ Height(v)' = Height(v)
  <2>1. stack'[w] = <<>> /\ \A v \in Workers : v # w => stack'[v] = stack[v]
    BY DEF Exit, IInv, TypeOK
  <2> QED  BY <2>1, EmptySeq DEF Height
<1>6. Sizes /\ Sizes'
  BY SizesHold, SizesHoldNext DEF IInv
<1>7. \A v \in Workers : Jobs(v)' = Jobs(v) /\ Bot(v)' = Bot(v) /\ Height(v) \in Nat
  BY <1>4, <1>6 DEF Jobs, Bot, Sizes
<1>8. \A v \in Workers : \A i \in 2..Height(v)' : v # w /\ stack'[v] = stack[v] /\ i \in 2..Height(v)
  BY <1>5
<1>9. \A v \in Workers : \A i \in 2..Height(v) :
        /\ i \in 2..Height(v)' /\ Tk(v, i)' = Tk(v, i) /\ Pc(v, i)' = Pc(v, i)
        /\ \A k \in 1..Len(Jobs(v)) : IsJobOf(v, k, i)' <=> IsJobOf(v, k, i)
  <2>1. \A v \in Workers : \A i \in 2..Height(v) : v # w
    BY <1>2
  <2>2. \A v \in Workers : \A i \in 2..Height(v) :
          i \in 2..Height(v)' /\ Tk(v, i)' = Tk(v, i) /\ Pc(v, i)' = Pc(v, i)
    BY <1>5, <2>1 DEF Tk, Pc
  <2> QED  BY <1>7, <2>2 DEF IsJobOf
<1>10. StackShapes' /\ Calls'
  <2>1. \A v \in Workers : \A i \in 1..Height(v)' : v # w /\ stack'[v] = stack[v] /\ Height(v)' = Height(v)
    BY <1>5
  <2>2. StackShapes'
    BY <1>2, <1>5, <2>1 DEF IInv, StackShapes, Pc
  <2>3. Calls'
    <3> SUFFICES ASSUME NEW v \in Workers, NEW i \in 1..Height(v)' - 1
                 PROVE  LET f == stack'[v][i] IN
                        /\ f.pc = "left" => stack'[v][i + 1].task = Append(f.task, 0)
                        /\ f.pc = "right" => stack'[v][i + 1].task = Right(f.task)
                        /\ f.task = Main => stack'[v][i + 1].task = <<>>
      BY DEF Calls, Pc, Tk
    <3>1. v # w /\ stack'[v] = stack[v] /\ i \in 1..Height(v) - 1
      BY <1>5
    <3> QED  BY <3>1 DEF IInv, Calls, Pc, Tk
  <2> QED  BY <2>2, <2>3
<1>11. FramesDiffer' /\ JobsDiffer' /\ JobsAreNew'
  <2>1. FramesDiffer'
    BY <1>8, <1>9 DEF IInv, FramesDiffer
  <2>2. JobsDiffer'
    BY <1>7 DEF IInv, JobsDiffer
  <2>3. JobsAreNew'
    BY <1>4, <1>7, <1>8, <1>9 DEF IInv, JobsAreNew
  <2> QED  BY <2>1, <2>2, <2>3
<1>12. FramesLive' /\ History'
  BY <1>4, <1>8, <1>9 DEF IInv, FramesLive, History
<1>13. ForkersHaveBegun'
  <2>1. ASSUME NEW x, Present(x)'  PROVE Present(x)
    BY <1>4, <1>7, <1>8, <1>9, <2>1 DEF Present
  <2> QED  BY <1>4, <2>1 DEF IInv, ForkersHaveBegun
<1>14. HalvesHaveEnded'
  BY <1>4, <1>8, <1>9 DEF IInv, HalvesHaveEnded
<1>15. JobsHaveFrames'
  BY <1>7, <1>9 DEF IInv, JobsHaveFrames
<1>16. YoungerFrames'
  <2> SUFFICES ASSUME NEW v \in Workers, NEW k \in 1..Len(Jobs(v)), NEW i \in 2..Height(v),
                      NEW j \in 2..Height(v), IsJobOf(v, k, i), i < j
               PROVE  /\ Pc(v, j) \notin {"run"} \cup Waiting
                      /\ Pc(v, j) \in {"left", "pop"} => \E l \in k + 1..Len(Jobs(v)) : IsJobOf(v, l, j)'
    BY <1>7, <1>8, <1>9 DEF YoungerFrames
  <2>0. k \in Nat \ {0} /\ Len(Jobs(v)) \in Nat
    BY <1>6, SMTT(30) DEF Sizes
  <2>1. k + 1..Len(Jobs(v)) \subseteq 1..Len(Jobs(v))
    BY ONLY <2>0
  <2> QED  BY <1>9, <2>1 DEF IInv, YoungerFrames
<1>17. CalledJobs'
  <2> SUFFICES ASSUME NEW x \in Workers, NEW i \in 1..Height(x)' - 1, RunsJob(stack'[x][i])
               PROVE  \E v \in Workers : \E j \in 2..Height(v)' :
                        Right(Tk(v, j)') = stack'[x][i + 1].task /\ Pc(v, j)' \in Joining
    BY DEF CalledJobs, Tk
  <2>1. x # w /\ stack'[x] = stack[x] /\ i \in 1..Height(x) - 1
    BY <1>5
  <2>2. PICK v \in Workers : \E j \in 2..Height(v) :
          Right(Tk(v, j)) = Tk(x, i + 1) /\ Pc(v, j) \in Joining
    BY <2>1 DEF IInv, CalledJobs
  <2> QED  BY <1>9, <2>1, <2>2 DEF Tk
<1>18. SlotsSuffice'
  <2> SUFFICES ASSUME NEW v \in Workers
               PROVE  /\ Bot(v) <= Cardinality(Unjoined(v)')
                      /\ Height(v)' > 0 /\ stack'[v][Height(v)'].pc \in Waiting => Bot(v) = 0
    BY <1>7 DEF SlotsSuffice, Pc
  <2>1. CASE v # w
    <3>1. Unjoined(v)' = Unjoined(v)
      BY <1>5, <2>1 DEF Unjoined
    <3> QED  BY <1>5, <2>1, <3>1 DEF IInv, SlotsSuffice, Pc
  <2>2. CASE v = w
    <3>1. Cardinality(Unjoined(v)') \in Nat
      BY <1>6 DEF Sizes
    <3> QED  BY <1>3, <2>2, <3>1
  <2> QED  BY <2>1, <2>2
<1> QED  BY <1>10, <1>11, <1>12, <1>13, <1>14, <1>15, <1>16, <1>17, <1>18 DEF IInv

-----------------------------------------------------------------------------
(* The initial state, and all steps.                                       *)

\* The main thread begins with the root, all others with their loop.
LEMMA InitInv == Init => IInv
<1> SUFFICES ASSUME Init PROVE IInv
  OBVIOUS
<1>1. ASSUME NEW w \in Workers
      PROVE  /\ stack[w] \in Seq(Frames)
             /\ w = MainThread => /\ Height(w) = 2 /\ stack[w][1] = Frame(Main, "run")
                                  /\ stack[w][2] = Frame(<<>>, "start")
             /\ w # MainThread => Height(w) = 1 /\ stack[w][1] = Frame(Loop, "sleepy")
  <2>1. /\ Frame(Main, "run") \in Frames /\ Frame(<<>>, "start") \in Frames
        /\ Frame(Loop, "sleepy") \in Frames
    BY TaskFacts, PcsAreKnown DEF Frame, Frames, AllPcs
  <2>2. CASE w = MainThread
    <3>1. stack[w] = <<Frame(Main, "run"), Frame(<<>>, "start")>>
      BY <2>2 DEF Init
    <3> QED  BY <2>1, <2>2, <3>1 DEF Height
  <2>3. CASE w # MainThread
    <3>1. stack[w] = <<Frame(Loop, "sleepy")>>
      BY <2>3 DEF Init
    <3> QED  BY <2>1, <2>3, <3>1 DEF Height
  <2> QED  BY <2>2, <2>3
<1>2. \A w \in Workers : deques[w] = [top |-> 0, jobs |-> <<>>] /\ Jobs(w) = <<>> /\ Len(Jobs(w)) = 0
  BY EmptySeq DEF Init, Jobs
<1>3. TypeOK
  <2>1. stack \in [Workers -> Seq(Frames)]
    BY <1>1 DEF Init
  <2>2. deques \in [Workers -> [top : Nat, jobs : Seq(Tasks)]]
    BY EmptySeq DEF Init
  <2> QED  BY <2>1, <2>2 DEF Init, TypeOK
<1>4. Sizes
  BY <1>3, SizesHold
<1>5. \A w \in Workers : \A i \in 2..Height(w) :
        w = MainThread /\ i = 2 /\ Tk(w, i) = <<>> /\ Pc(w, i) = "start"
  BY <1>1 DEF Tk, Pc, Frame
<1>6. StackShapes
  <2> SUFFICES ASSUME NEW w \in Workers, NEW i \in 1..Height(w)
               PROVE  /\ i = 1 => BottomFrame(w, stack[w][i])
                      /\ i > 1 => TaskFrame(stack[w][i])
                      /\ i < Height(w) <=> Pc(w, i) \in Calling
    BY <1>1 DEF StackShapes
  <2>1. CASE w = MainThread
    <3>1. i = 1 \/ i = 2
      BY <1>1, <2>1
    <3> QED  BY <1>1, <2>1, <3>1, TaskFacts
             DEF Frame, BottomFrame, MainPcs, TaskFrame, TaskPcs, Calling, Pc
  <2>2. CASE w # MainThread
    <3>1. i = 1
      BY <1>1, <2>2
    <3> QED  BY <1>1, <2>2, <3>1 DEF Frame, BottomFrame, LoopPcs, Calling, Pc
  <2> QED  BY <2>1, <2>2
<1>7. Calls /\ CalledJobs
  <2> SUFFICES ASSUME NEW w \in Workers, NEW i \in 1..Height(w) - 1
               PROVE  i = 1 /\ stack[w][i] = Frame(Main, "run") /\ Tk(w, i + 1) = <<>>
    BY DEF Calls, CalledJobs, Pc, Tk, Frame, RunsJob
  <2> QED  BY <1>1 DEF Tk, Frame
<1>8. FramesDiffer /\ JobsDiffer /\ JobsAreNew
  BY <1>2, <1>5 DEF FramesDiffer, JobsDiffer, JobsAreNew
<1>9. FramesLive /\ History /\ HalvesHaveEnded
  BY <1>5 DEF FramesLive, History, HalvesHaveEnded, Init
<1>10. ForkersHaveBegun
  <2> SUFFICES ASSUME NEW n \in Forking, NEW h \in Halves(n), Present(h) PROVE FALSE
    BY DEF ForkersHaveBegun
  <2>1. h = <<>>
    BY <1>2, <1>5 DEF Present, Init
  <2> QED  BY <2>1, ForkerOfHalf
<1>11. JobsHaveFrames /\ YoungerFrames
  BY <1>2 DEF JobsHaveFrames, YoungerFrames
<1>12. SlotsSuffice
  <2> SUFFICES ASSUME NEW w \in Workers PROVE Bot(w) = 0
    BY <1>4 DEF SlotsSuffice, Sizes
  <2> QED  BY <1>2, <1>4 DEF Sizes
<1> QED  BY <1>3, <1>6, <1>7, <1>8, <1>9, <1>10, <1>11, <1>12 DEF IInv

\* Every step keeps the invariant.
LEMMA StepInv == IInv /\ [Next]_vars => IInv'
<1> SUFFICES ASSUME IInv, [Next]_vars PROVE IInv'
  OBVIOUS
<1>1. TypeOK'
  BY StepTypeOK
<1>2. ASSUME NEW w \in Workers, Start(w)  PROVE IInv'
  BY <1>1, <1>2, ForkKeeps, LeafKeeps
<1>3. ASSUME NEW w \in Workers, JoinLeft(w)  PROVE IInv'
  <2>1. CASE GetOwnJob(w) # NoJob
    BY <1>1, <1>3, <2>1, JoinKeeps
  <2>2. CASE GetOwnJob(w) = NoJob
    <3>1. UNCHANGED <<done, begun, ended>>
      BY <1>3 DEF JoinLeft
    <3> QED  BY <1>1, <1>3, <2>2, <3>1, JoinWithoutJob, MovesKeep
  <2> QED  BY <2>1, <2>2
<1>4. ASSUME NEW w \in Workers, Return(w)  PROVE IInv'
  BY <1>1, <1>4, ReturnKeeps
<1>5. ASSUME NEW w \in Workers, GetJob(w)  PROVE IInv'
  <2>1. UNCHANGED <<done, begun, ended>>
    BY <1>5 DEF GetJob
  <2> QED  BY <1>1, <1>5, <2>1, GetJobMoves, MovesKeep
<1>6. ASSUME NEW w \in Workers, TrySteal(w)  PROVE IInv'
  <2>1. At(w, "steal") /\ UNCHANGED <<done, begun, ended>>
    BY <1>6 DEF TrySteal
  <2>2. PICK t \in Workers :
          \/ /\ Jobs(t) # <<>> /\ deques' = [deques EXCEPT ![t] = PopTop(@)]
             /\ CallFrom(w, "run", Head(Jobs(t)))
          \/ Jump(w, "again") /\ UNCHANGED deques
    BY <1>6 DEF TrySteal, Jobs
  <2>3. CASE /\ Jobs(t) # <<>> /\ deques' = [deques EXCEPT ![t] = PopTop(@)]
             /\ CallFrom(w, "run", Head(Jobs(t)))
    BY <1>1, <2>1, <2>3, StealKeeps
  <2>4. CASE Jump(w, "again") /\ UNCHANGED deques
    <3>1. OnlyTopsMove
      BY <2>1, <2>4, FailedStealMoves
    <3> QED  BY <1>1, <2>1, <3>1, MovesKeep
  <2> QED  BY <2>2, <2>3, <2>4
<1>7. ASSUME NEW w \in Workers, Again(w) \/ Spin(w)  PROVE IInv'
  <2>1. UNCHANGED <<done, begun, ended>>
    BY <1>7 DEF Again, Spin
  <2> QED  BY <1>1, <1>7, <2>1, AgainMoves, SpinMoves, MovesKeep
<1>8. ASSUME NEW w \in Workers, FallAsleep(w) \/ LoadCounter(w) \/ AtomicWait(w) \/ WakeUp(w)
      PROVE  IInv'
  <2>1. UNCHANGED <<done, begun, ended>>
    BY <1>8 DEF FallAsleep, LoadCounter, AtomicWait, WakeUp
  <2>2. OnlyTopsMove
    BY <1>8, BottomMoves
  <2> QED  BY <1>1, <2>1, <2>2, MovesKeep
<1>9. ASSUME NEW w \in Workers, Exit(w)  PROVE IInv'
  BY <1>1, <1>9, ExitKeeps
<1>10. ASSUME NEW w \in Workers, Notify(w)  PROVE IInv'
  <2>1. UNCHANGED <<done, begun, ended>>
    BY <1>10 DEF Notify
  <2> QED  BY <1>1, <1>10, <2>1, NotifyMoves, MovesKeep
<1>11. ASSUME UNCHANGED <<stack, deques, done, begun, ended>>  PROVE IInv'
  <2>1. OnlyTopsMove
    <3> SUFFICES ASSUME NEW v \in Workers
                 PROVE  /\ Height(v)' = Height(v) /\ Jobs(v)' = Jobs(v) /\ Bot(v)' <= Bot(v)
                        /\ stack'[v] = stack[v]
      BY DEF OnlyTopsMove
    <3>1. Bot(v) \in Nat
      BY SizesHold DEF IInv, Sizes
    <3> QED  BY <1>11, <3>1 DEF Height, Jobs, Bot
  <2> QED  BY <1>1, <1>11, <2>1, MovesKeep
<1>12. ASSUME NEW w \in Workers, TestAwake(w) \/ AddToCounter(w)  PROVE IInv'
  BY <1>11, <1>12 DEF TestAwake, AddToCounter
<1>13. CASE SetFinished
  <2>1. OnlyTopsMove
    BY <1>13, BottomMoves, SchedulerAssumption DEF SchedulerAssumption
  <2> QED  BY <1>1, <1>13, <2>1, MovesKeep DEF SetFinished
<1>14. CASE SpamWake
  <2>1. UNCHANGED <<deques, done, begun, ended>>
    BY <1>14 DEF SpamWake
  <2>2. CASE stack' = stack
    BY <1>11, <2>1, <2>2
  <2>3. CASE stack' # stack
    <3>1. OnlyTopsMove
      BY <1>14, <2>3, BottomMoves, SchedulerAssumption DEF SchedulerAssumption
    <3> QED  BY <1>1, <2>1, <3>1, MovesKeep
  <2> QED  BY <2>2, <2>3
<1>15. CASE Joined \/ UNCHANGED vars
  BY <1>11, <1>15 DEF Joined, vars
<1> QED  BY <1>2, <1>3, <1>4, <1>5, <1>6, <1>7, <1>8, <1>9, <1>10, <1>12, <1>13, <1>14, <1>15
         DEF Next, Steps

\* The stacks and the deques keep matching, whatever is stolen by whom.
THEOREM IInvHolds == Spec => []IInv
BY InitInv, StepInv, PTL DEF Spec

-----------------------------------------------------------------------------
(* What follows from it.                                                   *)

\* Jobs in stacks, deques and flags are tasks of the tree, and every frame is where
\* scheduler.h can be.
THEOREM TypesHold == Spec => []TypeOK
BY IInvHolds, PTL DEF IInv

\* The invariant says what the deques hold.
LEMMA InvDeques == IInv => DequesMatchStacks
<1> SUFFICES ASSUME IInv, NEW w \in Workers
             PROVE  /\ \E place \in [DOMAIN Jobs(w) -> Unjoined(w)] :
                         /\ \A k \in DOMAIN Jobs(w) : Jobs(w)[k] = Right(stack[w][place[k]].task)
                         /\ \A k, l \in DOMAIN Jobs(w) : k < l => place[k] < place[l]
                         /\ \A k \in DOMAIN Jobs(w), i \in Unjoined(w) :
                              i > place[k] => \E l \in DOMAIN Jobs(w) : place[l] = i
                    /\ Bot(w) <= Cardinality(Unjoined(w))
  BY DEF DequesMatchStacks, Jobs
<1>1. /\ DOMAIN stack[w] = 1..Height(w) /\ Height(w) \in Nat
      /\ DOMAIN Jobs(w) = 1..Len(Jobs(w)) /\ Len(Jobs(w)) \in Nat
  BY SizesHold DEF IInv, Sizes, Height
<1>2. /\ \A k \in 1..Len(Jobs(w)) : \E i \in 2..Height(w) : IsJobOf(w, k, i)
      /\ \A k \in 1..Len(Jobs(w)), i \in 2..Height(w), j \in 2..Height(w) :
           IsJobOf(w, k, i) /\ i < j =>
             /\ Pc(w, j) \notin {"run"} \cup Waiting
             /\ Pc(w, j) \in {"left", "pop"} => \E l \in k + 1..Len(Jobs(w)) : IsJobOf(w, l, j)
      /\ \A k, l \in 1..Len(Jobs(w)) : Jobs(w)[k] = Jobs(w)[l] => k = l
      /\ \A i, j \in 2..Height(w) : Tk(w, i) = Tk(w, j) => i = j
  BY DEF IInv, JobsHaveFrames, YoungerFrames, JobsDiffer, FramesDiffer
<1> DEFINE place == [k \in DOMAIN Jobs(w) |-> CHOOSE i \in 2..Height(w) : IsJobOf(w, k, i)]
<1>3. \A k \in 1..Len(Jobs(w)) : place[k] \in 2..Height(w) /\ IsJobOf(w, k, place[k])
  BY <1>1, <1>2
<1>4. DOMAIN place = DOMAIN Jobs(w)
  OBVIOUS
<1> HIDE DEF place
<1>5. ASSUME NEW k \in 1..Len(Jobs(w))  PROVE place[k] \in Unjoined(w)
  <2>1. stack[w][place[k]].pc \in {"left", "pop"}
    BY <1>3 DEF IsJobOf, Pc
  <2>2. ASSUME NEW j \in place[k] + 1..Len(stack[w])  PROVE stack[w][j].pc # "run"
    <3>1. j \in 2..Height(w) /\ place[k] < j
      BY <1>1, <1>3 DEF Height
    <3> QED  BY <1>2, <1>3, <3>1 DEF Pc
  <2>3. place[k] \in DOMAIN stack[w]
    BY <1>1, <1>3
  <2> QED  BY <2>1, <2>2, <2>3 DEF Unjoined
<1>6. place \in [DOMAIN Jobs(w) -> Unjoined(w)]
  <2>1. place = [k \in DOMAIN Jobs(w) |-> place[k]]
    BY DEF place
  <2> QED  BY <1>1, <1>5, <2>1
<1>7. ASSUME NEW k \in 1..Len(Jobs(w))  PROVE Jobs(w)[k] = Right(stack[w][place[k]].task)
  BY <1>3 DEF IsJobOf, Tk
<1>8. ASSUME NEW k \in 1..Len(Jobs(w)), NEW l \in 1..Len(Jobs(w)), k < l
      PROVE  place[k] < place[l]
  <2> SUFFICES ASSUME place[l] <= place[k]  PROVE FALSE
    BY <1>1, <1>3
  <2>1. CASE place[l] = place[k]
    <3>1. Jobs(w)[k] = Jobs(w)[l]
      BY <1>7, <2>1
    <3> QED  BY <1>2, <1>8, <3>1
  <2>2. CASE place[l] < place[k]
    <3>1. Pc(w, place[k]) \in {"left", "pop"}
      BY <1>3 DEF IsJobOf
    <3>2. PICK m \in l + 1..Len(Jobs(w)) : IsJobOf(w, m, place[k])
      BY <1>2, <1>3, <2>2, <3>1
    <3>3. m \in 1..Len(Jobs(w)) /\ m # k
      BY <1>1, <1>8
    <3>4. Jobs(w)[m] = Jobs(w)[k]
      BY <1>3, <3>2 DEF IsJobOf
    <3> QED  BY <1>2, <3>3, <3>4
  <2> QED  BY <1>3, <2>1, <2>2
<1>9. ASSUME NEW k \in 1..Len(Jobs(w)), NEW i \in Unjoined(w), i > place[k]
      PROVE  \E l \in DOMAIN Jobs(w) : place[l] = i
  <2>1. i \in 2..Height(w) /\ Pc(w, i) \in {"left", "pop"}
    BY <1>1, <1>3, <1>9 DEF Unjoined, Pc
  <2>2. PICK l \in k + 1..Len(Jobs(w)) : IsJobOf(w, l, i)
    BY <1>2, <1>3, <1>9, <2>1
  <2>3. l \in 1..Len(Jobs(w))
    BY <1>1
  <2>4. place[l] \in 2..Height(w) /\ IsJobOf(w, l, place[l])
    BY <1>3, <2>3
  <2>5. \A j \in 2..Height(w) : IsJobOf(w, l, j) => Tk(w, j) \in Forking
    <3>1. \A j \in 2..Height(w) : TaskFrame(stack[w][j])
      BY <1>1 DEF IInv, StackShapes
    <3> QED  BY <3>1 DEF TaskFrame, IsJobOf, Pc, Tk
  <2>6. Tk(w, place[l]) = Tk(w, i)
    BY <2>1, <2>2, <2>4, <2>5, HalvesDiffer DEF IsJobOf
  <2>7. place[l] = i
    BY <1>2, <2>1, <2>4, <2>6
  <2> QED  BY <1>1, <2>3, <2>7
<1>10. Bot(w) <= Cardinality(Unjoined(w))
  BY DEF IInv, SlotsSuffice
<1> QED  BY <1>1, <1>6, <1>7, <1>8, <1>9, <1>10

\* The assertion of pardo (scheduler.h): pop_bottom gives back right_job or nothing, and
\* a deque never needs more slots than one job nests calls of pardo, for any threads and
\* any tree of tasks.
THEOREM DequesMatch == Spec => []DequesMatchStacks
BY IInvHolds, InvDeques, PTL

\* The invariant says that jobs outlive those who use them.
LEMMA InvJobs == IInv => NoDanglingJobs
<1> SUFFICES ASSUME IInv, NEW w \in Workers,
                    NEW n \in {stack[w][i + 1].task : i \in {j \in 1..Len(stack[w]) - 1 :
                                                             RunsJob(stack[w][j])}}
                              \cup {deques[w].jobs[i] : i \in DOMAIN deques[w].jobs}
             PROVE  \E v \in Workers : \E i \in 2..Len(stack[v]) :
                      /\ Right(stack[v][i].task) = n
                      /\ stack[v][i].pc \in {"left", "pop", "getjob", "steal", "again", "run",
                                             "spin"}
  BY DEF NoDanglingJobs
<1>1. DOMAIN Jobs(w) = 1..Len(Jobs(w))
  BY SizesHold DEF IInv, Sizes
<1>2. CASE \E i \in 1..Height(w) - 1 : RunsJob(stack[w][i]) /\ n = stack[w][i + 1].task
  <2>1. PICK i \in 1..Height(w) - 1 : RunsJob(stack[w][i]) /\ n = Tk(w, i + 1)
    BY <1>2 DEF Tk
  <2>2. PICK v \in Workers : \E j \in 2..Height(v) : Right(Tk(v, j)) = n /\ Pc(v, j) \in Joining
    BY <2>1 DEF IInv, CalledJobs
  <2>3. PICK j \in 2..Height(v) : Right(Tk(v, j)) = n /\ Pc(v, j) \in Joining
    BY <2>2
  <2> QED  BY <2>3 DEF Height, Tk, Pc, Joining, Waiting
<1>3. CASE \E k \in 1..Len(Jobs(w)) : n = Jobs(w)[k]
  <2>1. PICK k \in 1..Len(Jobs(w)), j \in 2..Height(w) : n = Jobs(w)[k] /\ IsJobOf(w, k, j)
    BY <1>3 DEF IInv, JobsHaveFrames
  <2> QED  BY <2>1 DEF Height, IsJobOf, Tk, Pc
<1> QED  BY <1>1, <1>2, <1>3 DEF Height, Jobs

\* right_job lives on the stack of pardo (scheduler.h): while a job lies in a deque or
\* runs somewhere, the frame that made it is still there.
THEOREM JobsNeverDangle == Spec => []NoDanglingJobs
BY IInvHolds, InvJobs, PTL

-----------------------------------------------------------------------------
(* The promise of TaskTree.                                                *)

\* Whoever calls a task is inside of the pardo that forked it, or waits in it.
LEMMA StartBegins ==
  ASSUME IInv, NEW w \in Workers, Start(w)
  PROVE  Task(w) \in Promise!Tasks /\ Promise!Begin(Task(w))
<1>1. At(w, "start") /\ begun' = begun \cup {Task(w)} /\ ended' = ended
  BY DEF Start
<1>2. PICK h \in Nat \ {0} : h = Height(w) /\ Task(w) = Tk(w, h) /\ Pc(w, h) = "start"
  <2>1. stack[w] # <<>> /\ Last(stack[w]).pc = "start"
    BY <1>1 DEF At
  <2> QED  BY <2>1, TopOfStack DEF IInv, Pc
<1>3. /\ \A i \in 1..h : i = 1 => BottomFrame(w, stack[w][i])
      /\ \A v \in Workers : \A i \in 1..Height(v) : i > 1 => TaskFrame(stack[v][i])
      /\ \A i \in 1..h : i < h => Pc(w, i) \in Calling
  BY <1>2 DEF IInv, StackShapes
<1>4. h \in 2..h /\ h - 1 \in 1..h - 1 /\ (h - 1) + 1 = h
  <2>1. h # 1
    BY <1>2, <1>3 DEF BottomFrame, Pc, MainPcs, LoopPcs
  <2> QED  BY <2>1
<1>5. Task(w) \in Tasks /\ Task(w) \notin begun
  <2>1. Task(w) \notin begun
    BY <1>2, <1>4 DEF IInv, FramesLive
  <2>2. TaskFrame(stack[w][h])
    BY <1>2, <1>3, <1>4
  <2> QED  BY <1>2, <2>1, <2>2 DEF TaskFrame, Tk
<1>6. ASSUME NEW v \in Workers, NEW j \in 2..Height(v), Pc(v, j) \notin {"start", "return"},
             Task(w) \in Halves(Tk(v, j))
      PROVE  Promise!Forker(Task(w)) \in begun \ ended
  <2>1. Height(v) \in Nat
    BY SizesHold DEF IInv, Sizes
  <2>2. TaskFrame(stack[v][j])
    BY <1>3, <2>1
  <2>3. Tk(v, j) \in Forking
    BY <1>6, <2>2 DEF TaskFrame, Pc, Tk
  <2>4. Promise!Forker(Task(w)) = Tk(v, j)
    BY <1>6, <2>3, ForkerOfHalf
  <2>5. Tk(v, j) \in begun /\ Tk(v, j) \notin ended
    BY <1>6 DEF IInv, FramesLive
  <2> QED  BY <2>4, <2>5
<1>7. ASSUME Task(w) # <<>>  PROVE Promise!Forker(Task(w)) \in begun \ ended
  <2>1. Pc(w, h - 1) \in Calling
    BY <1>3, <1>4
  <2>2. /\ Pc(w, h - 1) = "left" => Task(w) = Append(Tk(w, h - 1), 0)
        /\ Pc(w, h - 1) = "right" => Task(w) = Right(Tk(w, h - 1))
        /\ Tk(w, h - 1) = Main => Task(w) = <<>>
    BY <1>2, <1>4 DEF IInv, Calls
  <2>3. CASE Pc(w, h - 1) \in {"left", "right"}
    <3>1. h - 1 # 1
      BY <1>3, <1>4, <2>3 DEF BottomFrame, Pc, MainPcs, LoopPcs
    <3>2. h - 1 \in 2..Height(w)
      BY <1>2, <1>4, <3>1
    <3>3. Task(w) \in Halves(Tk(w, h - 1))
      BY <2>2, <2>3 DEF Halves, Right
    <3> QED  BY <1>6, <2>3, <3>2, <3>3
  <2>4. CASE Pc(w, h - 1) = "run"
    <3>1. RunsJob(stack[w][h - 1])
      BY <1>7, <2>2, <2>4 DEF RunsJob, Pc, Tk
    <3>2. PICK v \in Workers :
            \E j \in 2..Height(v) : Right(Tk(v, j)) = Task(w) /\ Pc(v, j) \in Joining
      BY <1>2, <1>4, <3>1 DEF IInv, CalledJobs
    <3>3. PICK j \in 2..Height(v) : Right(Tk(v, j)) = Task(w) /\ Pc(v, j) \in Joining
      BY <3>2
    <3>4. Task(w) \in Halves(Tk(v, j)) /\ Pc(v, j) \notin {"start", "return"}
      BY <3>3 DEF Halves, Right, Joining, Waiting
    <3> QED  BY <1>6, <3>4
  <2> QED  BY <2>1, <2>3, <2>4 DEF Calling
<1>8. Promise!Tasks = Tasks
  BY DEF Promise!Tasks, Tasks, Promise!Halves, Halves
<1> QED  BY <1>1, <1>5, <1>7, <1>8 DEF Promise!Begin

\* A task that forks returns after the join of its right half, whoever ran that.
LEMMA ReturnEnds ==
  ASSUME IInv, NEW w \in Workers, Return(w)
  PROVE  Task(w) \in Promise!Tasks /\ Promise!End(Task(w))
<1>1. /\ At(w, "return") /\ Len(stack[w]) > 1
      /\ ended' = ended \cup {Task(w)} /\ begun' = begun
  BY DEF Return
<1>2. PICK h \in Nat \ {0} : h = Height(w) /\ Task(w) = Tk(w, h) /\ Pc(w, h) = "return"
  <2>1. stack[w] # <<>> /\ Last(stack[w]).pc = "return"
    BY <1>1 DEF At
  <2> QED  BY <2>1, TopOfStack DEF IInv, Pc
<1>3. h \in 2..h /\ h > 1
  BY <1>1, <1>2 DEF Height
<1>4. TaskFrame(stack[w][h])
  BY <1>2, <1>3 DEF IInv, StackShapes
<1>5. Task(w) \in begun \ ended
  BY <1>2, <1>3 DEF IInv, FramesLive
<1>6. Task(w) \in Forking => Append(Task(w), 0) \in ended /\ Right(Task(w)) \in ended
  BY <1>2, <1>3 DEF IInv, HalvesHaveEnded
<1>7. Promise!Tasks = Tasks
  BY DEF Promise!Tasks, Tasks, Promise!Halves, Halves
<1> QED  BY <1>1, <1>2, <1>4, <1>5, <1>6, <1>7
         DEF Promise!End, Promise!Halves, Right, TaskFrame, Tk

\* Each step begins one task, ends one, or does neither.
LEMMA StepsAreOfTheTree == IInv /\ [Next]_vars => [Promise!Next]_(Promise!vars)
<1> SUFFICES ASSUME IInv, [Next]_vars  PROVE [Promise!Next]_(Promise!vars)
  OBVIOUS
<1>1. ASSUME NEW w \in Workers, Start(w)  PROVE Promise!Next
  BY <1>1, StartBegins DEF Promise!Next
<1>2. ASSUME NEW w \in Workers, Return(w)  PROVE Promise!Next
  BY <1>2, ReturnEnds DEF Promise!Next
<1>3. ASSUME NEW w \in Workers,
             \/ JoinLeft(w) \/ GetJob(w) \/ TrySteal(w) \/ Again(w) \/ Spin(w)
             \/ FallAsleep(w) \/ LoadCounter(w) \/ AtomicWait(w) \/ WakeUp(w) \/ Exit(w)
             \/ TestAwake(w) \/ AddToCounter(w) \/ Notify(w)
      PROVE  UNCHANGED Promise!vars
  BY <1>3 DEF JoinLeft, GetJob, TrySteal, Again, Spin, FallAsleep, LoadCounter, AtomicWait,
              WakeUp, Exit, TestAwake, AddToCounter, Notify, Promise!vars
<1>4. CASE SetFinished \/ SpamWake \/ Joined \/ UNCHANGED vars
  BY <1>4 DEF SetFinished, SpamWake, Joined, vars, Promise!vars
<1> QED  BY <1>1, <1>2, <1>3, <1>4 DEF Next, Steps

\* Whatever is stolen by whom, a task runs at most once, after the task that forked it
\* has begun and before that one ends, and it ends after both its halves: the scheduler
\* keeps what pardo promises, up to liveness, for any threads and any tree of tasks.
THEOREM SafelyImplementsTaskTree == Spec => ImplementsTaskTreeSafely
<1>1. Init => Promise!Init
  BY DEF Init, Promise!Init
<1> QED  BY <1>1, IInvHolds, StepsAreOfTheTree, PTL DEF Spec, ImplementsTaskTreeSafely, Promise!Spec
=============================================================================
