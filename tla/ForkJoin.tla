------------------------------ MODULE ForkJoin ------------------------------
(***************************************************************************)
(* The scheduler that runs the halves of commits and queries:              *)
(* src/third_party/parlay/scheduler.h.  Each worker has a stack of frames  *)
(* and a deque of jobs, which other workers steal from; a worker that      *)
(* finds nothing sleeps on wake_up_counter.  The operations of a deque     *)
(* take effect at once, which StealDeque shows; atomic_wait is represented *)
(* by what it promises: it returns when the counter is not what the caller *)
(* read, and a notification wakes at least one of those that sleep.        *)
(***************************************************************************)
EXTENDS Integers, Sequences, FiniteSets, SequencesExt

CONSTANTS Workers,       \* the threads of the scheduler,
          MainThread,    \* the one that created it among them
          Forking,       \* the tasks that call pardo, as paths
          Conservative,  \* those that pass it conservative = true
          Loop, Main     \* the functions at the bottom of the stacks

ASSUME SchedulerAssumption ==
  /\ MainThread \in Workers /\ IsFiniteSet(Workers)
  /\ Conservative \subseteq Forking
  /\ Forking \subseteq Seq({0, 1})
  /\ \A n \in Forking : n # <<>> => SubSeq(n, 1, Len(n) - 1) \in Forking
  /\ Loop # Main /\ {Loop, Main} \cap Seq({0, 1}) = {}

VARIABLES stack,     \* per worker, its frames [task, pc], the innermost last
          deques,    \* per worker, [top, jobs]: slots stolen from since the last reset, jobs
          done,      \* the jobs that have set their flag
          finished,  \* finished_flag
          waking,    \* where each worker is in wake_up_a_worker or wake_up_all_workers
          stale,     \* the workers that read an old value of wake_up_counter
          begun, ended  \* history: the tasks that have begun, and ended

vars == <<stack, deques, done, finished, waking, stale, begun, ended>>

Halves(n) == {Append(n, 0), Append(n, 1)}
Right(n) == Append(n, 1)
Tasks == {<<>>} \cup UNION {Halves(n) : n \in Forking}
Frame(n, pc) == [task |-> n, pc |-> pc]
NoJob == <<-1>>

Init ==
  /\ stack = [w \in Workers |->
       IF w = MainThread THEN <<Frame(Main, "run"), Frame(<<>>, "start")>>
                ELSE <<Frame(Loop, "sleepy")>>]
  /\ deques = [w \in Workers |-> [top |-> 0, jobs |-> <<>>]]
  /\ done = {} /\ finished = FALSE
  /\ waking = [w \in Workers |-> "no"] /\ stale = {}
  /\ begun = {} /\ ended = {}

\* Worker w is about to execute pc in its innermost frame.
At(w, pc) == stack[w] # <<>> /\ Last(stack[w]).pc = pc /\ waking[w] = "no"
Task(w) == Last(stack[w]).task
Goto(w, pc) == [stack[w] EXCEPT ![Len(stack[w])].pc = pc]
Jump(w, pc) == stack' = [stack EXCEPT ![w] = Goto(w, pc)]
CallFrom(w, pc, n) == stack' = [stack EXCEPT ![w] = Append(Goto(w, pc), Frame(n, "start"))]
Bot(w) == deques[w].top + Len(deques[w].jobs)

\* Between fetch_sub and fetch_add of wait_for_work a worker is not awake.
AwakeWorkers ==
  {w \in Workers : stack[w] = <<>> \/ Last(stack[w]).pc \notin {"load", "wait", "asleep", "woken"}}
FinishedWorkers == {w \in Workers : stack[w] = <<>>}

-----------------------------------------------------------------------------
(* pardo                                                                   *)

\* A task that does not fork runs to its end; one that does spawns its right half,
\* wakes somebody if that is the first job of the deque, and calls its left half.
Start(w) ==
  /\ At(w, "start")
  /\ LET n == Task(w) IN
     /\ begun' = begun \cup {n}
     /\ IF n \in Forking
        THEN /\ deques' = [deques EXCEPT ![w].jobs = Append(@, Right(n))]
             /\ waking' = [waking EXCEPT ![w] = IF Bot(w) = 0 THEN "test" ELSE @]
             /\ CallFrom(w, "left", Append(n, 0))
        ELSE Jump(w, "return") /\ UNCHANGED <<deques, waking>>
  /\ UNCHANGED <<done, finished, stale, ended>>

\* pop_bottom: what it returns, and the deque it leaves.
PopBottom_NoReset(d) ==
  IF d.jobs = <<>> THEN [job |-> NoJob, deque |-> d]
  ELSE [job |-> Last(d.jobs), deque |-> [d EXCEPT !.jobs = Front(@)]]
PopBottom(d) ==
  IF d.jobs = <<>> THEN [job |-> NoJob, deque |-> [top |-> 0, jobs |-> <<>>]]
  ELSE [job |-> Last(d.jobs),
        deque |-> [top |-> IF Len(d.jobs) = 1 THEN 0 ELSE d.top, jobs |-> Front(d.jobs)]]

GetOwnJob(w) == PopBottom(deques[w]).job
PopOwn(w) == deques' = [deques EXCEPT ![w] = PopBottom(@).deque]

\* The left half is back: the right half is executed here, unless it was stolen.
JoinLeft(w) ==
  /\ At(w, "pop")
  /\ PopOwn(w)
  /\ IF GetOwnJob(w) # NoJob THEN CallFrom(w, "right", Right(Task(w)))
     ELSE Jump(w, IF Task(w) \in Conservative THEN "spin" ELSE "getjob")
  /\ UNCHANGED <<done, finished, waking, stale, begun, ended>>

\* A function returns to the frame below; a job sets its flag, which is in the
\* frame that spawned it.
Returned(g) == CASE g.pc = "left"  -> "pop"
                 [] g.pc = "right" -> "return"
                 [] g.task = Main  -> "finish"
                 [] OTHER          -> "getjob"
RunsJob(g) == g.pc = "run" /\ g.task # Main

Return(w) ==
  /\ At(w, "return") /\ Len(stack[w]) > 1
  /\ LET g == Last(Front(stack[w])) IN
     /\ stack' = [stack EXCEPT ![w] = [Front(@) EXCEPT ![Len(@) - 1].pc = Returned(g)]]
     /\ done' = IF RunsJob(g) THEN done \cup {Task(w)} ELSE done
     /\ ended' = ended \cup {Task(w)}
  /\ UNCHANGED <<deques, finished, waking, stale, begun>>

-----------------------------------------------------------------------------
(* Looking for work: get_job, called by the worker loop and by waiting     *)
(* joins (do_work_until)                                                   *)

\* break_early
Break(w) == IF Task(w) = Loop THEN finished ELSE Right(Task(w)) \in done

\* A worker leaves its loop when finished; a join goes on when its right half is done.
NoMoreJobs(w) == IF Task(w) = Loop THEN "exit" ELSE "return"

GetJob(w) ==
  /\ At(w, "getjob")
  /\ IF Break(w) THEN Jump(w, NoMoreJobs(w)) /\ UNCHANGED deques
     ELSE /\ PopOwn(w)
          /\ IF GetOwnJob(w) # NoJob THEN CallFrom(w, "run", GetOwnJob(w)) ELSE Jump(w, "steal")
  /\ UNCHANGED <<done, finished, waking, stale, begun, ended>>

\* pop_top gives the oldest job, or none although there are some if another thread
\* takes it first.  What it reports of the rest was read before that, and may be out
\* of date either way: if it says that there is more, somebody is woken to take it.
PopTop(d) == [top |-> d.top + 1, jobs |-> Tail(d.jobs)]

TrySteal(w) ==
  /\ At(w, "steal")
  /\ \E target \in Workers, empty \in BOOLEAN :
       LET d == deques[target] IN
       /\ \/ /\ d.jobs # <<>>
             /\ deques' = [deques EXCEPT ![target] = PopTop(@)]
             /\ CallFrom(w, "run", Head(d.jobs))
          \/ /\ Jump(w, "again")
             /\ UNCHANGED deques
       /\ waking' = [waking EXCEPT ![w] = IF empty THEN @ ELSE "test"]
  /\ UNCHANGED <<done, finished, stale, begun, ended>>

\* Only the loop of a worker gives up after STEAL_TIMEOUT; it then goes to sleep.
MayTimeOut_AtJoins(w) == TRUE
MayTimeOut(w) == Task(w) = Loop

Again_NoTest(w) ==
  /\ At(w, "again")
  /\ \/ Jump(w, "steal")
     \/ MayTimeOut(w) /\ Jump(w, "sleepy")
  /\ UNCHANGED <<deques, done, finished, waking, stale, begun, ended>>
Again(w) ==
  /\ At(w, "again")
  /\ \/ Break(w) /\ Jump(w, NoMoreJobs(w))
     \/ ~Break(w) /\ Jump(w, "steal")
     \/ ~Break(w) /\ MayTimeOut(w) /\ Jump(w, IF Task(w) = Loop THEN "sleepy" ELSE "return")
  /\ UNCHANGED <<deques, done, finished, waking, stale, begun, ended>>

\* The conservative wait of a join.
Spin(w) ==
  /\ At(w, "spin") /\ Break(w)
  /\ Jump(w, "return")
  /\ UNCHANGED <<deques, done, finished, waking, stale, begun, ended>>

-----------------------------------------------------------------------------
(* wait_for_work                                                           *)

FallAsleep(w) ==
  /\ At(w, "sleepy")
  /\ Jump(w, "load")
  /\ UNCHANGED <<deques, done, finished, waking, stale, begun, ended>>

LoadCounter(w) ==
  /\ At(w, "load")
  /\ Jump(w, "wait")
  /\ stale' = stale \ {w}
  /\ UNCHANGED <<deques, done, finished, waking, begun, ended>>

AtomicWait(w) ==
  /\ At(w, "wait")
  /\ Jump(w, IF w \in stale THEN "woken" ELSE "asleep")
  /\ UNCHANGED <<deques, done, finished, waking, stale, begun, ended>>

WakeUp(w) ==
  /\ At(w, "woken")
  /\ Jump(w, "getjob")
  /\ UNCHANGED <<deques, done, finished, waking, stale, begun, ended>>

\* The thread function of worker w returns.
Exit(w) ==
  /\ At(w, "exit")
  /\ stack' = [stack EXCEPT ![w] = <<>>]
  /\ UNCHANGED <<deques, done, finished, waking, stale, begun, ended>>

-----------------------------------------------------------------------------
(* wake_up_a_worker, and for the main thread in shutdown wake_up_all_workers *)

TestAwake(w) ==
  /\ waking[w] = "test"
  /\ waking' = [waking EXCEPT ![w] = IF AwakeWorkers # Workers THEN "add" ELSE "no"]
  /\ UNCHANGED <<stack, deques, done, finished, stale, begun, ended>>

AddToCounter(w) ==
  /\ waking[w] = "add"
  /\ waking' = [waking EXCEPT ![w] = "notify"]
  /\ stale' = Workers
  /\ UNCHANGED <<stack, deques, done, finished, begun, ended>>

Asleep == {w \in Workers : At(w, "asleep")}

Notify(w) ==
  /\ waking[w] = "notify"
  /\ \E woken \in SUBSET Asleep :
       /\ Asleep # {} => woken # {}
       /\ Task(w) = Main => woken = Asleep
       /\ stack' = [v \in Workers |->
            IF v \in woken THEN Goto(v, IF v \in stale THEN "woken" ELSE "asleep") ELSE stack[v]]
  /\ waking' = [waking EXCEPT ![w] = "no"]
  /\ UNCHANGED <<deques, done, finished, stale, begun, ended>>

-----------------------------------------------------------------------------
(* shutdown, by the main thread when the program ends                      *)

SetFinished ==
  /\ At(MainThread, "finish")
  /\ finished' = TRUE
  /\ Jump(MainThread, "shutdown")
  /\ UNCHANGED <<deques, done, waking, stale, begun, ended>>

\* The workers are woken again and again, until all have left.
SpamWake_Once ==
  /\ At(MainThread, "shutdown")
  /\ Jump(MainThread, "joined")
  /\ waking' = [waking EXCEPT ![MainThread] = "test"]
  /\ UNCHANGED <<deques, done, finished, stale, begun, ended>>
SpamWake ==
  /\ At(MainThread, "shutdown")
  /\ IF FinishedWorkers = Workers \ {MainThread}
     THEN Jump(MainThread, "joined") /\ UNCHANGED waking
     ELSE waking' = [waking EXCEPT ![MainThread] = "test"] /\ UNCHANGED stack
  /\ UNCHANGED <<deques, done, finished, stale, begun, ended>>

\* Nothing is left to do once the threads are joined.
Joined == At(MainThread, "joined") /\ UNCHANGED vars

-----------------------------------------------------------------------------
Steps(w) ==
  \/ Start(w) \/ JoinLeft(w) \/ Return(w)
  \/ GetJob(w) \/ TrySteal(w) \/ Again(w) \/ Spin(w)
  \/ FallAsleep(w) \/ LoadCounter(w) \/ AtomicWait(w) \/ WakeUp(w) \/ Exit(w)
  \/ TestAwake(w) \/ AddToCounter(w) \/ Notify(w)

Next == (\E w \in Workers : Steps(w)) \/ SetFinished \/ SpamWake \/ Joined

Spec == Init /\ [][Next]_vars

\* The operating system runs every thread that can run.
FairSpec ==
  Spec /\ (\A w \in Workers : WF_vars(Steps(w))) /\ WF_vars(SetFinished) /\ WF_vars(SpamWake)

-----------------------------------------------------------------------------
(* Properties.                                                             *)

\* The frames of w whose pardo the innermost job of w is inside of, and has not
\* joined yet.
Unjoined(w) ==
  {i \in DOMAIN stack[w] : /\ stack[w][i].pc \in {"left", "pop"}
                          /\ \A j \in i+1..Len(stack[w]) : stack[w][j].pc # "run"}

\* The deque of a worker holds what it can still take back: the right halves of its
\* innermost job in the order of their frames, up to the one that was stolen last.
\* Hence pop_bottom in pardo returns right_job or nothing (the assertion there), a
\* waiting join finds its own deque empty, and a deque needs as many slots as one job
\* nests pardos, whatever was stolen.
DequesMatchStacks ==
  \A w \in Workers :
    LET jobs == deques[w].jobs IN
    /\ \E place \in [DOMAIN jobs -> Unjoined(w)] :
         /\ \A k \in DOMAIN jobs : jobs[k] = Right(stack[w][place[k]].task)
         /\ \A k, l \in DOMAIN jobs : k < l => place[k] < place[l]
         /\ \A k \in DOMAIN jobs, i \in Unjoined(w) :
              i > place[k] => \E l \in DOMAIN jobs : place[l] = i
    /\ Bot(w) <= Cardinality(Unjoined(w))

\* right_job lives in the frame of pardo that made it: as long as the job lies in a
\* deque or another frame runs it, that frame has not returned, so nobody calls the job
\* or sets its flag after it is gone.
NoDanglingJobs ==
  \A w \in Workers :
    LET called == {stack[w][i + 1].task : i \in {j \in 1..Len(stack[w]) - 1 :
                                                 RunsJob(stack[w][j])}}
        queued == {deques[w].jobs[i] : i \in DOMAIN deques[w].jobs}
    IN  \A n \in called \cup queued :
          \E v \in Workers : \E i \in 2..Len(stack[v]) :
            /\ Right(stack[v][i].task) = n
            /\ stack[v][i].pc \in {"left", "pop", "getjob", "steal", "again", "run", "spin"}

\* Whatever is stolen by whom, each task runs once and ends after both its halves, and
\* every task does end: no join waits for a job that nobody runs.
Promise == INSTANCE TaskTree
ImplementsTaskTreeSafely == Promise!Spec
ImplementsTaskTree == Promise!FairSpec

\* shutdown joins all workers, those included that are about to fall asleep while it
\* sets the flag.
AllWorkersLeave == <>(At(MainThread, "joined") /\ FinishedWorkers = Workers \ {MainThread})
=============================================================================
