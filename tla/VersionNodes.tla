---------------------------- MODULE VersionNodes ----------------------------
(***************************************************************************)
(* The version nodes of src/include/silva/baselines/rlog_tree.hpp: a node  *)
(* records what it inserted or removed relative to its parent; when the    *)
(* log since the nearest cached base has grown to p times the size of that *)
(* base, check_compact gives the new node a base of its own.               *)
(*                                                                         *)
(* A value is [id, at].  What a query returns is a set of occurrences      *)
(* <<value, node that inserted it>>, so that repeated values count.        *)
(***************************************************************************)
EXTENDS Integers, Sequences, FiniteSets

CONSTANTS Num, Den   \* p = Num/Den, the compaction threshold

ASSUME ThresholdAssumption == Num \in Nat /\ Den \in Nat \ {0}

IdsOf(S) == {x.id : x \in S}
Without(occ, ids) == {o \in occ : o[1].id \notin ids}
OccurrencesOf(S, n) == {<<x, n>> : x \in S}

-----------------------------------------------------------------------------
(* Reading a version of the node sequence N.                               *)

\* get_query_view's walk: the nodes from n up to the nearest cached base, and
\* the node that has it.
Path(N, n) == LET path[m \in 1..n] == IF N[m].cached THEN {}
                                      ELSE {m} \cup path[N[m].parent]
              IN  path[n]
BaseNode(N, n) == LET base[m \in 1..n] == IF N[m].cached THEN m ELSE base[N[m].parent]
                  IN  base[n]

\* get_query_view, and what range_report makes of it without a box: an id removed
\* anywhere on the path is filtered from the base and from all pending inserts.
View_KeepsRemoved(N, n) ==
  LET removed == UNION {IdsOf(N[m].removes) : m \in Path(N, n)}
  IN  Without(N[BaseNode(N, n)].base, removed)
        \cup UNION {OccurrencesOf(N[m].inserts, m) : m \in Path(N, n)}
View(N, n) ==
  LET removed == UNION {IdsOf(N[m].removes) : m \in Path(N, n)}
      pending == UNION {OccurrencesOf(N[m].inserts, m) : m \in Path(N, n)}
  IN  Without(N[BaseNode(N, n)].base \cup pending, removed)

\* check_compact, of the last node of N.
CheckCompact_KeepsLog(N) ==
  LET n == Len(N)
      live == View(N, n)
  IN  IF N[n].log * Den >= Num * N[n].size
      THEN [N EXCEPT ![n].cached = TRUE, ![n].base = live, ![n].size = Cardinality(live)]
      ELSE N
CheckCompact(N) ==
  LET n == Len(N)
      live == View(N, n)
  IN  IF N[n].log * Den >= Num * N[n].size
      THEN [N EXCEPT ![n].cached = TRUE, ![n].base = live, ![n].size = Cardinality(live),
                     ![n].log = 0]
      ELSE N

\* A new node below node v of N.
Node(N, v, ins, rem) ==
  [parent |-> v, depth |-> N[v].depth + 1, inserts |-> ins, removes |-> rem,
   cached |-> FALSE, base |-> {}, size |-> N[v].size,
   log |-> N[v].log + Cardinality(ins) + Cardinality(rem)]
=============================================================================
