----------------------------- MODULE BenchReplay -----------------------------
(***************************************************************************)
(* The replay of a history of changes on every index:                      *)
(* src/benchmarks/benchmark_engine.hpp, which keeps active_nodes, and the  *)
(* runners of the indexes, which turn the points to add and to remove of   *)
(* an event into operations in an order of their own.  A point is          *)
(* [id, at]; CodeOf is the code of its finest cell.  The versions that the *)
(* RlogRunner makes are VersionNodes, with 0.2 for the threshold in the    *)
(* code; PKDLogRunner makes the same calls, and PkdLog says what its       *)
(* compaction loses on top of that.                                        *)
(***************************************************************************)
EXTENDS VersionNodes

CONSTANTS Ids, Places,
          CodeOf,       \* the code of each place
          Base,         \* base_data
          LargestMbr,   \* the places in Config::largest_mbr
          MaxEvents     \* bound on the number of events

Points == [id : Ids, at : Places]

ASSUME ReplayAssumption ==
  /\ CodeOf \in [Places -> Int]
  /\ Base \subseteq Points /\ \A x, y \in Base : x.id = y.id => x = y
  /\ LargestMbr \subseteq Places
  /\ MaxEvents \in Nat

VARIABLES active,   \* active_nodes
          mvq,      \* what MVQRunner's master holds
          mvqRoot,  \* what its tree->root holds
          pacz,     \* the values of PACZRunner's master, which has one per key
          logs,     \* the version nodes of RlogRunner; the last is its tree
          stayed,   \* history: ids whose last operation moved them within their cell
          removed,  \* history: ids that were ever in rems
          events    \* number of events so far

vars == <<active, mvq, mvqRoot, pacz, logs, stayed, removed, events>>

Key(x) == <<CodeOf[x.at], x.id>>
KeysOf(S) == {Key(x) : x \in S}

\* build_base of the runners
Init ==
  /\ active = Base
  /\ mvq = Base /\ mvqRoot = Base
  /\ pacz = Base
  /\ logs = <<[parent |-> 0, depth |-> 0, inserts |-> {}, removes |-> {}, cached |-> TRUE,
               base |-> OccurrencesOf(Base, 1), size |-> Cardinality(Base), log |-> 0]>>
  /\ stayed = {} /\ removed = {} /\ events = 0

-----------------------------------------------------------------------------
(* An event: at most one operation per id, A and M with a place.           *)

Operations == [type : {"A", "M"}, at : Places] \cup {[type |-> "D"], [type |-> "none"]}

\* The data adds what is not there and deletes what is; it may move what is not
\* there any more, which the engine takes for an addition.
Applicable(i, op) == CASE op.type = "A" -> i \notin IdsOf(active)
                       [] op.type = "D" -> i \in IdsOf(active)
                       [] OTHER -> TRUE
Events == {E \in [Ids -> Operations] : \A i \in Ids : Applicable(i, E[i])}

Touched(E) == {i \in Ids : E[i].type # "none"}
Adds(E) == {[id |-> i, at |-> E[i].at] : i \in {j \in Ids : E[j].type \in {"A", "M"}}}
Rems(E) == {x \in active : E[x.id].type \in {"M", "D"}}

-----------------------------------------------------------------------------
(* The runners.                                                            *)

\* Tree::commit: deletion by key, then insertion.
MvqCommit_InsertFirst(adds, rems) == {x \in mvq \cup adds : Key(x) \notin KeysOf(rems)}
MvqCommit(adds, rems) == {x \in mvq : Key(x) \notin KeysOf(rems)} \cup adds

\* map_insert replaces the values of keys that are there; map_delete looks at the keys.
MultiInsert(M, S) == {x \in M : Key(x) \notin KeysOf(S)} \cup S
MultiDelete_ById(M, S) == {x \in M : x.id \notin IdsOf(S)}
MultiDelete(M, S) == {x \in M : Key(x) \notin KeysOf(S)}
PaczCommit(adds, rems) == MultiDelete(MultiInsert(pacz, adds), rems)

\* One node for the insertions and, below it, one for the deletions.
Compacted(N, ins, rem) == {CheckCompact(M) : M \in {Append(N, Node(N, Len(N), ins, rem))}}
LogCommit_AddsOnly(adds, rems) == logs' \in Compacted(logs, adds, {})
LogCommit(adds, rems) == \E N \in Compacted(logs, adds, {}) : logs' \in Compacted(N, {}, rems)

Replay(E) ==
  LET adds == Adds(E)
      rems == Rems(E)
  IN  /\ active' = {x \in active : x.id \notin Touched(E)} \cup adds
      /\ mvq' = MvqCommit(adds, rems)
      /\ pacz' = PaczCommit(adds, rems)
      /\ LogCommit(adds, rems)
      /\ stayed' = (stayed \ Touched(E))
                     \cup {x.id : x \in {y \in adds : Key(y) \in KeysOf(rems)}}
      /\ removed' = removed \cup IdsOf(rems)
      /\ events' = events + 1
      /\ UNCHANGED mvqRoot

Next == events < MaxEvents /\ \E E \in Events : Replay(E)

Spec == Init /\ [][Next]_vars

-----------------------------------------------------------------------------
(* What the runners answer from.                                           *)

LogView == {o[1] : o \in View(logs, Len(logs))}

\* Tree::range_report stops at the root if the box it is given for the whole tree does
\* not meet the query.
MvqRange(q) == IF q \cap LargestMbr = {} THEN {} ELSE {x \in mvq : x.at \in q}

\* Tree::knn_report with a k that does not leave anything out.
MvqKnn == mvqRoot

-----------------------------------------------------------------------------
(* Properties.                                                             *)

\* After every event the MVQ runner's version is active_nodes: a move within a cell,
\* a move of what was deleted and a move that moves nothing included.
MvqHoldsActive == mvq = active

\* The PaC-Z runner inserts before it deletes.  That it shows nothing stale, and loses
\* what was last moved within its finest cell, and only that, is what comes of it.
PaczLosesWhatStayed ==
  /\ pacz \subseteq active
  /\ active \ pacz = {x \in active : x.id \in stayed}

\* The Rlog runner shows nothing stale, each point once, and all points that were
\* never touched since they were added, wherever the log was compacted.
LogsKeepTheUntouched ==
  /\ LogView \subseteq active
  /\ \A o, p \in View(logs, Len(logs)) : o[1] = p[1] => o = p
  /\ {x \in active : x.id \notin removed} \subseteq LogView

\* "replays the events, maintaining active_nodes ... generates queries, and calls the
\* Runner to test them" (src/benchmarks/benchmark_engine.hpp:14): each of the four kinds
\* of answers should come from active_nodes.  At least one should; there are states in
\* which none does.
PaczAnswersActive == pacz = active
LogsAnswerActive == LogView = active
MvqKnnAnswersActive == MvqKnn = active
MvqRangeAnswersActive == \A q \in SUBSET Places : MvqRange(q) = {x \in active : x.at \in q}
SomeAnswerIsAboutActive ==
  PaczAnswersActive \/ LogsAnswerActive \/ MvqKnnAnswersActive \/ MvqRangeAnswersActive
=============================================================================
