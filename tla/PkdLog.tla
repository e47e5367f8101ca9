------------------------------- MODULE PkdLog -------------------------------
(***************************************************************************)
(* src/include/silva/baselines/pkdlog_tree.hpp: the versions of VersionLog *)
(* with a kd-tree for the cached bases, and another check_compact.  It     *)
(* makes room for the points of the old base that are alive and for the    *)
(* pending insertions, and then copies the insertions only: the places of  *)
(* the others are never written.  Every operation is done on both logs, so *)
(* that content says what the versions of both should hold.                *)
(*                                                                         *)
(* The base of a node has the points that were written.  The size of the   *)
(* base counts the unset ones too, whose ids may be anything: at the next  *)
(* compaction any number of them passes for alive.                         *)
(***************************************************************************)
EXTENDS VersionLog

VARIABLE pkdNodes   \* the VersionNodes of PKDLog

pkdVars == <<nodes, content, pkdNodes>>

\* The number of points of a base that nobody wrote.
Unset(N, n) == LET b == BaseNode(N, n) IN N[b].size - Cardinality(N[b].base)

\* check_compact, of the last node of N: its outcomes.
PkdCheckCompact_RemovedStay(N) ==
  LET n == Len(N)
      pending == UNION {OccurrencesOf(N[m].inserts, m) : m \in Path(N, n)}
  IN  IF N[n].log * Den >= Num * N[n].size
      THEN {[N EXCEPT ![n].cached = TRUE, ![n].base = pending,
                      ![n].size = Cardinality(View(N, n)) + k, ![n].log = 0] : k \in 0..Unset(N, n)}
      ELSE {N}
PkdCheckCompact_DropsDeltas(N) ==
  LET n == Len(N)
      live == View(N, n)
      pending == live \ N[BaseNode(N, n)].base
  IN  IF N[n].log * Den >= Num * N[n].size
      THEN {[N EXCEPT ![n].inserts = {}, ![n].removes = {}, ![n].cached = TRUE,
                      ![n].base = pending, ![n].size = Cardinality(live) + k,
                      ![n].log = 0] : k \in 0..Unset(N, n)}
      ELSE {N}
PkdCheckCompact(N) ==
  LET n == Len(N)
      live == View(N, n)
      pending == live \ N[BaseNode(N, n)].base
  IN  IF N[n].log * Den >= Num * N[n].size
      THEN {[N EXCEPT ![n].cached = TRUE, ![n].base = pending,
                      ![n].size = Cardinality(live) + k, ![n].log = 0] : k \in 0..Unset(N, n)}
      ELSE {N}

PkdInit == Init /\ pkdNodes = nodes

PkdMapInsert(v, S) ==
  /\ MapInsert(v, S)
  /\ pkdNodes' \in PkdCheckCompact(Append(pkdNodes, Node(pkdNodes, v, S, {})))

PkdMapDelete(v, S) ==
  /\ MapDelete(v, S)
  /\ pkdNodes' \in PkdCheckCompact(Append(pkdNodes, Node(pkdNodes, v, {}, S)))

PkdNext ==
  \E v \in DOMAIN nodes, S \in SUBSET Values : PkdMapInsert(v, S) \/ PkdMapDelete(v, S)

PkdSpec == PkdInit /\ [][PkdNext]_pkdVars

-----------------------------------------------------------------------------
\* The node after which insertions are still there: the base before the last one.
LastKept(n) == LET b == BaseNode(pkdNodes, n)
               IN  IF b = 1 THEN 0 ELSE BaseNode(pkdNodes, pkdNodes[b].parent)

\* What is certain about a PKDLog: it shows what the inserts and deletes since the
\* base before the last one leave, and nothing of what was there when that base was
\* made, deletions apart: a compaction loses its own base.
PkdLogsKeepTheRecent ==
  \A n \in DOMAIN pkdNodes : View(pkdNodes, n) = {o \in content[n] : o[2] > LastKept(n)}

\* map_spatial_diff, which reads the nodes of PKDLog as it reads those of Rlog.
Pkd == INSTANCE VersionLog WITH nodes <- pkdNodes

\* The diff of two versions of PKDLog is the difference of what they should hold, however
\* many points the compactions of either have lost: the deltas outlive a compaction, and
\* the diff reads nothing else.
PkdDiffsAreExact == Pkd!SpatialDiffsAreExact
=============================================================================
