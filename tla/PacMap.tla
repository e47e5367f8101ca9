------------------------------- MODULE PacMap -------------------------------
(***************************************************************************)
(* The operations of PaC-Z (src/include/silva/index/pacz.hpp) and the map  *)
(* operations they are made of (map_ops.h, augmented_ops.h).  An entry is  *)
(* a point [key, x, y]; keys, pairs of a code and an id in the code, are   *)
(* compared only, so they are numbers.  Batches are sorted first: here     *)
(* they are sets.                                                          *)
(***************************************************************************)
EXTENDS PacTree

Keys(S) == {e.key : e \in S}
Below(S, k) == {e \in S : e.key < k}
Above(S, k) == {e \in S : e.key > k}
Elements(s) == {s[i] : i \in DOMAIN s}

\* sort_remove_duplicates
Sorted(S) == [i \in 1..Cardinality(S) |-> CHOOSE e \in S : Cardinality(Below(S, e.key)) = i - 1]

\* The end of multiinsert_bc, multidelete_bc, difference_bc and aug_filter_bc2.
Build(h, s) == IF Len(s) < B THEN ToTree(h, s) ELSE MakeCompressed(h, s, Null)

\* Their beginning: the entries of q are copied and q is released.
Emptied(h, q) == DecrementRecursive(NodePtr(h, q).h, q.t)

RECURSIVE FromArray(_, _)
FromArray(h, s) ==
  LET mid == Len(s) \div 2
      k == New(h, Regular(s[mid + 1]))
      l == FromArray(k.h, SubSeq(s, 1, mid))
      r == FromArray(l.h, SubSeq(s, mid + 2, Len(s)))
  IN  IF s = << >> THEN [h |-> h, p |-> Null]
      ELSE IF Len(s) = 1 THEN New(h, Regular(s[1]))
      ELSE IF InRange(Len(s), 2 * B) THEN NewBlock(h, s)
      ELSE NodeJoin(r.h, l.p, r.p, k.p)

RECURSIVE MultiInsertSorted(_, _, _)
InsertAround(x, A) ==
  LET root == RootFor(x.h, x.root, x.e)
      l == MultiInsertSorted(root.h, x.l, Below(A, x.e.key))
      r == MultiInsertSorted(l.h, x.r, Above(A, x.e.key))
      same == {e \in A : e.key = x.e.key}
      combined == IF same = {} THEN r.h
                  ELSE [r.h EXCEPT ![root.p].items = <<CHOOSE e \in same : TRUE>>]
  IN  NodeJoin(combined, l.p, r.p, root.p)
MultiInsertSorted(h, q, A) ==
  LET old == Elements(Entries(h, q.t))
  IN  IF q.t = Null THEN FromArray(h, Sorted(A))
      ELSE IF A = {} THEN NodePtr(h, q)
      ELSE IF Size(h, q.t) + Cardinality(A) <= kBaseCaseSize
           THEN Build(Emptied(h, q), Sorted({e \in old : e.key \notin Keys(A)} \cup A))
      ELSE InsertAround(Expose(h, q), A)

RECURSIVE MultiDeleteSorted(_, _, _)
DeleteAround(x, A) ==
  LET l == MultiDeleteSorted(x.h, x.l, Below(A, x.e.key))
      r == MultiDeleteSorted(l.h, x.r, Above(A, x.e.key))
  IN  Rejoin(r.h, l.p, x, r.p, x.e.key \notin Keys(A))
MultiDeleteSorted(h, q, A) ==
  IF q.t = Null THEN [h |-> h, p |-> Null]
  ELSE IF A = {} THEN NodePtr(h, q)
  ELSE IF Size(h, q.t) <= kBaseCaseSize
       THEN Build(Emptied(h, q), SelectSeq(Entries(h, q.t), LAMBDA e : e.key \notin Keys(A)))
  ELSE DeleteAround(Expose(h, q), A)

\* split(a, k): the entries below and above k, and whether k was there.
RECURSIVE Split(_, _, _)
SplitAround(x, k) ==
  LET below == x.e.key < k
      s == Split(x.h, IF below THEN x.r ELSE x.l, k)
      outer == NodePtr(s.h, IF below THEN x.l ELSE x.r)
      j == Join(outer.h, IF below THEN outer.p ELSE s.r, x.e,
                IF below THEN s.l ELSE outer.p, x.root)
      l == NodePtr(Decrement(x.h, x.root), x.l)
      r == NodePtr(l.h, x.r)
  IN  IF x.e.key = k THEN [h |-> r.h, l |-> l.p, r |-> r.p, mid |-> TRUE]
      ELSE [s EXCEPT !.h = j.h, ![IF below THEN "l" ELSE "r"] = j.p]
Split(h, q, k) == IF q.t = Null THEN [h |-> h, l |-> Null, r |-> Null, mid |-> FALSE]
                  ELSE SplitAround(Expose(h, q), k)

\* difference(b1, b2)
RECURSIVE Difference(_, _, _)
DifferenceAround(x, s) ==
  LET l == Difference(s.h, x.l, s.l)
      r == Difference(l.h, x.r, s.r)
  IN  Rejoin(r.h, l.p, x, r.p, ~s.mid)
DifferenceSplit(x, t2) == DifferenceAround(x, Split(x.h, Own(t2), x.e.key))
Difference(h, q, t2) ==
  LET rest == Keys(Elements(Entries(h, t2)))
  IN  IF q.t = Null THEN [h |-> DecrementRecursive(h, t2), p |-> Null]
      ELSE IF t2 = Null THEN NodePtr(h, q)
      ELSE IF Size(h, q.t) + Size(h, t2) <= kBaseCaseSize
           THEN Build(DecrementRecursive(Emptied(h, q), t2),
                      SelectSeq(Entries(h, q.t), LAMBDA e : e.key \notin rest))
      ELSE DifferenceSplit(Expose(h, q), t2)

\* mbr_exclude_mbr
Excludes(box1, box2) ==
  \E i \in {"x", "y"} : box1.lo[i] > box2.hi[i] \/ box1.hi[i] < box2.lo[i]

\* aug_filter2
RECURSIVE AugFilter(_, _, _)
FilterAround(x, box) ==
  LET l == AugFilter(x.h, x.l, box)
      r == AugFilter(l.h, x.r, box)
  IN  Rejoin(r.h, l.p, x, r.p, InBox(x.e, box))
AugFilter(h, q, box) ==
  IF q.t = Null THEN [h |-> h, p |-> Null]
  ELSE IF Size(h, q.t) <= kBaseCaseSize
       THEN Build(Emptied(h, q), SelectSeq(Entries(h, q.t), LAMBDA e : InBox(e, box)))
  ELSE IF Excludes(box, h[q.t].aug.box) THEN [h |-> Destruct(h, q), p |-> Null]
  ELSE FilterAround(Expose(h, q), box)

-----------------------------------------------------------------------------
(* pacz.hpp.  A map is passed by value: the copy is a reference more.      *)

Finalize(m) ==
  IF Size(m.h, m.p) \in 1..B-1
  THEN LET c == NewBlock(m.h, Entries(m.h, m.p)) IN [c EXCEPT !.h = DecrementRecursive(@, m.p)]
  ELSE m

MapInit(P) == Finalize(MultiInsertSorted(<< >>, Own(Null), P))
MapInsert(h, t, P) == MultiInsertSorted(Increment(h, t), Own(t), P)
MapDelete(h, t, P) == MultiDeleteSorted(Increment(h, t), Own(t), P)

\* map_commit: deletes first; the assignment to new_ver releases what map_delete made.
ThenInsert(d, ins) == [MapInsert(d.h, d.p, ins) EXCEPT !.h = DecrementRecursive(@, d.p)]
MapCommit(h, t, ins, del) == ThenInsert(MapDelete(h, t, del), ins)

\* values(map_difference(a, b)): the result is read and released.
ReadAndReleased(m) == [h |-> DecrementRecursive(m.h, m.p), values |-> Entries(m.h, m.p)]
ValuesOfDifference(h, a, b) ==
  ReadAndReleased(Difference(Increment(Increment(h, a), b), Own(a), b))

\* What is to be added is found first.
DiffOf(add, remove) == [h |-> remove.h, add |-> add.values, remove |-> remove.values]
ThenRemove(add, lhs, rhs) == DiffOf(add, ValuesOfDifference(add.h, lhs, rhs))
MapDiff(h, lhs, rhs) == ThenRemove(ValuesOfDifference(h, rhs, lhs), lhs, rhs)

\* The ranges of both versions are compared and released.
FilterRange(h, t, box) == AugFilter(Increment(h, t), Own(t), box)
DiffOfRanges(l, r) ==
  [MapDiff(r.h, l.p, r.p) EXCEPT !.h = DecrementRecursive(DecrementRecursive(@, l.p), r.p)]
ThenFilter(l, rhs, box) == DiffOfRanges(l, FilterRange(l.h, rhs, box))
MapSpatialDiff(h, lhs, rhs, box) == ThenFilter(FilterRange(h, lhs, box), rhs, box)

-----------------------------------------------------------------------------
(* Queries, which read the nodes of one version.                           *)

RECURSIVE RangeCount(_, _, _)
RangeCount(h, t, box) ==
  IF t = Null THEN 0
  ELSE CASE Relation(h[t].aug.box, box) < 0 -> 0
         [] Relation(h[t].aug.box, box) > 0 -> h[t].aug.n
         [] OTHER ->
              Len(SelectSeq(h[t].items, LAMBDA e : InBox(e, box)))
                + (IF h[t].leaf THEN 0
                   ELSE RangeCount(h, h[t].son[0], box) + RangeCount(h, h[t].son[1], box))

RECURSIVE RangeReport(_, _, _)
RangeReport(h, t, box) ==
  LET inside == SelectSeq(h[t].items, LAMBDA e : InBox(e, box))
  IN  IF t = Null THEN << >>
      ELSE IF Relation(h[t].aug.box, box) < 0 THEN << >>
      ELSE IF h[t].leaf
           THEN IF Relation(h[t].aug.box, box) = 1 THEN h[t].items ELSE inside
      ELSE RangeReport(h, h[t].son[0], box) \o inside \o RangeReport(h, h[t].son[1], box)

\* The priority queue of knn: which of several farthest points it drops decides
\* nothing about the distances.
Top(c, out) == CHOOSE p \in out : \A o \in out : PointSqrDis(o, c) <= PointSqrDis(p, c)
Closer(dis, c, k, out) == Cardinality(out) < k \/ dis < PointSqrDis(Top(c, out), c)
PtCheck_OneMore(p, c, k, out) ==
  IF Cardinality(out) <= k THEN out \cup {p}
  ELSE IF Closer(PointSqrDis(p, c), c, k, out) THEN (out \ {Top(c, out)}) \cup {p}
  ELSE out
PtCheck(p, c, k, out) ==
  IF Cardinality(out) < k THEN out \cup {p}
  ELSE IF Closer(PointSqrDis(p, c), c, k, out) THEN (out \ {Top(c, out)}) \cup {p}
  ELSE out

RECURSIVE KnnFilter(_, _, _, _, _)
KnnFilter(h, t, c, k, out) ==
  LET n == h[t]
      checked[i \in 0..Len(n.items)] ==
        IF i = 0 THEN out ELSE PtCheck(n.items[i], c, k, checked[i - 1])
      here == checked[Len(n.items)]
      dis(d) == BoxSqrDis(c, h[n.son[d]].aug.box)
      \* A missing son is as far as can be.
      first == IF n.son[1] = Null \/ (n.son[0] # Null /\ dis(0) <= dis(1)) THEN 0 ELSE 1
      go(d, found) == IF n.son[d] # Null /\ Closer(dis(d), c, k, found)
                      THEN KnnFilter(h, n.son[d], c, k, found) ELSE found
  IN  IF t = Null THEN out
      ELSE IF n.leaf THEN here
      ELSE go(1 - first, go(first, here))
=============================================================================
