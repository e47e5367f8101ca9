---------------------------- MODULE PacVersions -----------------------------
(***************************************************************************)
(* The PaC-Z index over a history of versions: what each zmap object holds *)
(* (map.h: root) and the nodes they share.                                 *)
(*                                                                         *)
(* A version's object keeps a reference to its root as long as it is held, *)
(* so that the parallel halves of an operation, which own what they change *)
(* or copy it, and two operations on versions that share nodes meet in the *)
(* counts only, and those are atomic: an operation is one step.            *)
(***************************************************************************)
EXTENDS PacMap, Bags

CONSTANTS Initial,     \* the sets of points the first version may be built from
          Batches,     \* the sets of points that are inserted or deleted at once
          Boxes,       \* the boxes asked about
          Centers,     \* the points whose neighbours are asked for
          MaxCommits,  \* bound on the number of commits of a behaviour
          MaxQueries   \* bound on the number of queries of a behaviour

VARIABLES heap,        \* the nodes that are allocated
          versions,    \* the objects held: number -> root
          asked,       \* the roots that queries were given, as often as they were
          commits      \* number of commits so far

vars == <<heap, versions, asked, commits>>

Init ==
  /\ \E P \in Initial : LET m == MapInit(P)
                        IN  heap = m.h /\ versions = [v \in {0} |-> m.p]
  /\ asked = EmptyBag
  /\ commits = 0

\* A new version, the map m.
Store(m) ==
  /\ heap' = m.h
  /\ commits' = commits + 1
  /\ versions' = (commits + 1 :> m.p) @@ versions

Commit(v, ins, del) ==
  /\ commits < MaxCommits
  /\ Store(MapCommit(heap, versions[v], ins, del))
  /\ UNCHANGED asked

\* clear()
Release(v) ==
  /\ heap' = DecrementRecursive(heap, versions[v])
  /\ versions' = [u \in DOMAIN versions \ {v} |-> versions[u]]
  /\ UNCHANGED <<asked, commits>>

\* range_count_filter2, range_report_filter2, knn_filter: the map is passed by
\* value, a reference more, and get_root() takes the root out of the copy: nothing
\* gives the reference back.
Query(v) ==
  /\ versions[v] # Null
  /\ BagCardinality(asked) < MaxQueries
  /\ heap' = Increment(heap, versions[v])
  /\ asked' = asked (+) SetToBag({versions[v]})
  /\ UNCHANGED <<versions, commits>>

Next == \E v \in DOMAIN versions :
          \/ \E ins, del \in Batches : Commit(v, ins, del)
          \/ Release(v)
          \/ Query(v)

Spec == Init /\ [][Next]_vars

-----------------------------------------------------------------------------
(* Properties.                                                             *)

Content == [v \in DOMAIN versions |-> Elements(Entries(heap, versions[v]))]

\* A commit makes exactly the version it was asked for and, although it changes
\* nodes in place wherever a count says that it may, no other version changes: the
\* balanced, compressed, shared trees implement the maps of PersistentMap.
Map == INSTANCE PersistentMap WITH content <- Content
ImplementsMap == Map!Spec

SonsOf(a) == IF heap[a].leaf THEN {} ELSE {<<a, d>> : d \in {0, 1}}
RefersTo(s, a) == heap[s[1]].son[s[2]] = a

\* The reference counts (gc.h, basic_node.h): a node is allocated as long as it is
\* referred to, and its count is the number of nodes and objects that refer to it and
\* of the queries that were given it.  That is, only queries lose references: once
\* a version was asked, its nodes stay allocated for ever.
CountsAreExact ==
  LET sons == UNION {SonsOf(a) : a \in DOMAIN heap}
  IN  \A a \in DOMAIN heap :
        /\ heap[a].refs > 0
        /\ heap[a].refs = Cardinality({s \in sons : RefersTo(s, a)})
                          + Cardinality({v \in DOMAIN versions : versions[v] = a})
                          + CopiesIn(a, asked)

RECURSIVE Subtree(_)
Subtree(t) == IF t = Null THEN {}
              ELSE {t} \cup (IF heap[t].leaf THEN {}
                             ELSE Subtree(heap[t].son[0]) \cup Subtree(heap[t].son[1]))

\* is_balanced and check_structure (weight_balanced_tree.h): every version is in key
\* order and balanced by weight whatever was joined to what, its sizes and augmented
\* values are those of its entries, and entries are in blocks of B to 2B but for
\* versions that small.
TreesStayBalanced ==
  \A v \in DOMAIN versions : \A a \in Subtree(versions[v]) :
    LET n == heap[a]
        s == Entries(heap, a)
    IN  /\ \A i \in 1..Len(s) - 1 : s[i].key < s[i + 1].key
        /\ n.size = Len(s)
        /\ n.aug = Encode(s)
        /\ n.leaf => n.size <= 2 * B
        /\ ~n.leaf => /\ \A d \in {0, 1} : ~Heavy(heap, n.son[d], n.son[1 - d])
                      /\ n.size >= 2 * B \/ n.size < B
        /\ Size(heap, versions[v]) > 2 * B => n.size >= B

\* Queries answer for the version they are given and for all of it: the count and
\* the report, in key order, of a box, the distances of the k nearest, and the
\* differences of two versions, in the whole or in a box, which leave every node
\* and every count as they were.
RangesAreExact(v, box) ==
  LET s == SelectSeq(Entries(heap, versions[v]), LAMBDA e : InBox(e, box))
  IN  /\ RangeReport(heap, versions[v], box) = s
      /\ RangeCount(heap, versions[v], box) = Len(s)
NeighboursAreExact(v, c, k) ==
  LET out == KnnFilter(heap, versions[v], c, k, {})
      all == Content[v]
  IN  /\ Cardinality(out) = Smaller(k, Cardinality(all))
      /\ out \subseteq all
      /\ \A p \in out, q \in all \ out : PointSqrDis(p, c) <= PointSqrDis(q, c)
DiffIs(d, new, old) ==
  /\ d.h = heap
  /\ Elements(d.add) = {e \in new : e.key \notin Keys(old)}
  /\ Elements(d.remove) = {e \in old : e.key \notin Keys(new)}
AnswersAreExact ==
  /\ \A v \in DOMAIN versions :
       /\ \A box \in Boxes : RangesAreExact(v, box)
       /\ \A c \in Centers, k \in {1, 3} : NeighboursAreExact(v, c, k)
  /\ \A u \in DOMAIN versions : \A v \in DOMAIN versions \ {u} :
       /\ DiffIs(MapDiff(heap, versions[u], versions[v]), Content[v], Content[u])
       /\ \A box \in Boxes :
            DiffIs(MapSpatialDiff(heap, versions[u], versions[v], box),
                   {e \in Content[v] : InBox(e, box)}, {e \in Content[u] : InBox(e, box)})
=============================================================================
