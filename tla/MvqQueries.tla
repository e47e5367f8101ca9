----------------------------- MODULE MvqQueries -----------------------------
(***************************************************************************)
(* The readers of a version (src/include/silva/index/mvq.hpp): range       *)
(* count and report, k nearest neighbours, diff and spatial diff of two    *)
(* versions, spatial join.  All of them walk down from a root and carry    *)
(* along the box of the current region, which compute_cur_box halves, now  *)
(* in x and now in y, and which decides what is pruned.                    *)
(*                                                                         *)
(* A point has coordinates x and y besides its code and id.  Coordinates   *)
(* are integers; a cell of the finest grid is CellWidth wide, so that      *)
(* points may lie inside a cell and just below the border of the next one. *)
(***************************************************************************)
EXTENDS MvqProperties, Geometry, FiniteSets

CONSTANTS CellWidth,  \* side of a finest cell (1.0 in the code)
          Eps,        \* what FT_EPS takes off the border of a left half
          World,      \* cur_mbr of a query: the box [lo, hi] all points lie in
          Boxes,      \* the query boxes
          Centers,    \* the query points of knn
          Counts,     \* how many neighbours knn is asked for
          Distances,  \* the distances of spatial joins
          ScanLength  \* where split_by_bit stops to bisect (16 in the code)

Axis(b) == IF b % 2 = 0 THEN "x" ELSE "y"

\* 1u << ((b + 1) / 2 - 1): what bit b of a code is worth, the side of the halves
\* that a region with b bits to go is split into.
Side[b \in Int] == IF b <= 2 THEN CellWidth ELSE 2 * Side[b - 2]

\* interleave_bits: bit i of the code, counted from the top, is the next bit of
\* the cell number in x, then of the one in y.
InterleaveBits(pt) ==
  [i \in 1..Bits |-> LET b == Bits - i + 1 IN (pt[Axis(b)] \div Side[b]) % 2]

Corner == [x : Int, y : Int]
Box == [lo : Corner, hi : Corner]

\* Coordinates fit the unsigned numbers that codes are made of (the casts of
\* interleave_bits), and none lies less than FT_EPS below the border of a cell.
PointsAssumption ==
  \A pt \in Points :
    /\ pt.id \in Int /\ InBox(pt, World)
    /\ \A i \in {"x", "y"} : /\ pt[i] \in 0..Side[Bits + 2] - 1
                             /\ pt[i] % CellWidth <= CellWidth - Eps
    /\ pt.code = InterleaveBits(pt)

ASSUME QueryAssumption ==
  /\ ScanLength \in Nat
  /\ Bits % 2 = 0 /\ CellWidth \in Nat \ {0} /\ Eps \in 0..CellWidth-1
  /\ World \in Box /\ Boxes \subseteq Box /\ Distances \subseteq Nat /\ Counts \subseteq Nat
  /\ \A c \in Centers : c.x \in Int /\ c.y \in Int
  /\ PointsAssumption
  /\ \A x, y \in Points : x.code = y.code /\ x.id = y.id => x = y

-----------------------------------------------------------------------------
(* Regions.                                                                *)

\* What a walk knows of the region it is in: cur_mbr, the prefixes, b (the
\* splitter is x when b is even).
Regions == [box : Box, prefix : Corner, b : Int]
WholeRegion == [box |-> World, prefix |-> [x |-> 0, y |-> 0], b |-> Bits]

\* compute_cur_box, and the prefixes it hands to the d-half.
Half_SamePrefix(r, d) ==
  LET i == Axis(r.b)
      split == r.prefix[i] + Side[r.b]
  IN  IF d = 0
      THEN [r EXCEPT !.b = @ - 1, !.box.hi[i] = Smaller(split - Eps, @)]
      ELSE [r EXCEPT !.b = @ - 1, !.box.lo[i] = Larger(split, @)]
Half(r, d) ==
  LET i == Axis(r.b)
      split == r.prefix[i] + Side[r.b]
  IN  IF d = 0
      THEN [r EXCEPT !.b = @ - 1, !.box.hi[i] = Smaller(split - Eps, @)]
      ELSE [r EXCEPT !.b = @ - 1, !.box.lo[i] = Larger(split, @), !.prefix[i] = split]

Restricted(B, q) == [pt \in {x \in DOMAIN B : InBox(x, q)} |-> B[pt]]

-----------------------------------------------------------------------------
(* split_by_bit(P, start, end, b), by which every walk splits its batch; indices *)
(* count from 0.                                                           *)

LeftAt(P, i, b) ==
  LET pt == P[i + 1] IN (pt[Axis(b)] \div Side[b]) % 2 = 0

\* The scan of what is left, from start to end.
FirstRight(P, start, end, b) ==
  CHOOSE i \in start..end : /\ i = end \/ ~LeftAt(P, i, b)
                            /\ \A j \in start..i-1 : LeftAt(P, j, b)

SplitByBit_BeforeMid(P, start, end, b) ==
  LET split[v \in Int \X Int] ==
        LET mid == (v[1] + v[2]) \div 2
        IN  IF v[2] - v[1] <= ScanLength THEN FirstRight(P, v[1], v[2], b)
            ELSE IF LeftAt(P, mid, b) THEN split[<<mid + 1, v[2]>>]
            ELSE split[<<v[1], mid - 1>>]
  IN  split[<<start, end>>]
SplitByBit(P, start, end, b) ==
  LET split[v \in (0..end) \X (0..end)] ==
        LET mid == (v[1] + v[2]) \div 2
        IN  IF v[2] - v[1] <= ScanLength THEN FirstRight(P, v[1], v[2], b)
            ELSE IF LeftAt(P, mid, b) THEN split[<<mid + 1, v[2]>>]
            ELSE split[<<v[1], mid>>]
  IN  split[<<start, end>>]

-----------------------------------------------------------------------------
(* Range queries.  A walk is a function of what its calls are given: the   *)
(* node, or the two nodes, and what it knows of the region.                *)

Nodes == DOMAIN heap \cup {Null}

RangeCount(a, q, r) ==
  LET count[v \in (DOMAIN heap) \X Regions] ==
        LET x == v[1]
            half(d) == IF Son(x, d) = Null THEN 0 ELSE count[<<Son(x, d), Half(v[2], d)>>]
        IN  CASE Relation(v[2].box, q) < 0 -> 0
              [] Relation(v[2].box, q) > 0 -> NumPoints(x)
              [] OTHER -> IF heap[x].leaf THEN BagCardinality(Restricted(heap[x].records, q))
                          ELSE half(0) + half(1)
  IN  count[<<a, r>>]

RangeReport(a, q, r) ==
  LET report[v \in Nodes \X Regions] ==
        LET x == v[1]
            half(d) == report[<<Son(x, d), Half(v[2], d)>>]
        IN  IF x = Null \/ Relation(v[2].box, q) < 0 THEN EmptyBag
            ELSE IF heap[x].leaf THEN Restricted(heap[x].records, q)
            ELSE half(0) (+) half(1)
  IN  report[<<a, r>>]

-----------------------------------------------------------------------------
(* knn_report.  nn_res is kept as a set: of points with one id, which may tie, *)
(* the code keeps any.                                                     *)

\* nn_pair_cmp, on points and their distances to the query point c.
Nearer(p, q, c) == \/ PointSqrDis(p, c) < PointSqrDis(q, c)
                   \/ PointSqrDis(p, c) = PointSqrDis(q, c) /\ p.id > q.id

\* The k first of the points S, which nn_res keeps.
Nearest(S, k, c) == {p \in S : Cardinality({q \in S : Nearer(q, p, c)}) < k}

\* A son is entered unless nn_res is full and all its points are too far.
Worthwhile_Strict(box, k, c, res) ==
  \/ Cardinality(res) < k
  \/ \E p \in res : BoxSqrDis(c, box) < PointSqrDis(p, c)
Worthwhile(box, k, c, res) ==
  \/ Cardinality(res) < k
  \/ \E p \in res : BoxSqrDis(c, box) <= PointSqrDis(p, c)

Knn(a, k, c, r, res) ==
  LET knn[v \in Nodes \X Regions \X SUBSET Points] ==
        LET x == v[1]
            half(d) == Half(v[2], d)
            dis(d) == BoxSqrDis(c, half(d).box)
            \* A missing son has the distance FT_INF_MAX.
            first == IF Son(x, 1) = Null \/ (Son(x, 0) # Null /\ dis(0) <= dis(1)) THEN 0 ELSE 1
            enter(d, found) == IF Son(x, d) # Null /\ Worthwhile(half(d).box, k, c, found)
                               THEN knn[<<Son(x, d), half(d), found>>] ELSE found
        IN  IF x = Null THEN v[3]
            ELSE IF heap[x].leaf THEN Nearest(v[3] \cup DOMAIN heap[x].records, k, c)
            ELSE enter(1 - first, enter(first, v[3]))
  IN  knn[<<a, r, res>>]

-----------------------------------------------------------------------------
(* diff, spatial_diff.                                                     *)

Changes(add, remove) == [add |-> add, remove |-> remove]
Reversed(c) == Changes(c.remove, c.add)
Both(c, d) == Changes(c.add (+) d.add, c.remove (+) d.remove)

\* merge_pts: walks two sorted sequences and drops what is in both.
MergePts(P, Q) == Changes(Q (-) P, P (-) Q)

Routes == Seq({0, 1})

\* leaf_inte_diff(P, x, b): the changes from the records P of a leaf to the tree
\* below a; a call for the region at p is given the slice of P that belongs to it.
LeafInteDiff(P, a, q) ==
  LET diff[v \in Nodes \X Routes] ==
        LET x == v[1]
            p == v[2]
            half(d) == diff[<<Son(x, d), Child(p, d)>>]
        IN  IF x = Null THEN Changes(EmptyBag, Part(P, p))
            ELSE IF heap[x].leaf THEN MergePts(Part(P, p), heap[x].records)
            ELSE Both(half(0), half(1))
  IN  diff[<<a, q>>]

Diff_Unreversed(a1, a2, q) ==
  LET diff[v \in Nodes \X Nodes \X Routes] ==
        LET x == v[1]
            y == v[2]
            p == v[3]
            half(d) == diff[<<Son(x, d), Son(y, d), Child(p, d)>>]
        IN  CASE x = y -> Changes(EmptyBag, EmptyBag)
              [] x # y /\ x = Null -> Changes(Contents(y), EmptyBag)
              [] x # y /\ x # Null /\ y = Null -> Changes(EmptyBag, Contents(x))
              [] OTHER -> IF heap[x].leaf /\ heap[y].leaf
                          THEN MergePts(heap[x].records, heap[y].records)
                          ELSE IF heap[x].leaf THEN LeafInteDiff(heap[x].records, y, p)
                          ELSE IF heap[y].leaf THEN LeafInteDiff(heap[y].records, x, p)
                          ELSE Both(half(0), half(1))
  IN  diff[<<a1, a2, q>>]

\* diff(node1, node2, b) of two nodes for the region at q.  Equal pointers mean
\* equal contents: the nodes that versions share are not visited.
Diff(a1, a2, q) ==
  LET diff[v \in Nodes \X Nodes \X Routes] ==
        LET x == v[1]
            y == v[2]
            p == v[3]
            half(d) == diff[<<Son(x, d), Son(y, d), Child(p, d)>>]
        IN  CASE x = y -> Changes(EmptyBag, EmptyBag)
              [] x # y /\ x = Null -> Changes(Contents(y), EmptyBag)
              [] x # y /\ x # Null /\ y = Null -> Changes(EmptyBag, Contents(x))
              [] OTHER -> IF heap[x].leaf /\ heap[y].leaf
                          THEN MergePts(heap[x].records, heap[y].records)
                          ELSE IF heap[x].leaf THEN LeafInteDiff(heap[x].records, y, p)
                          ELSE IF heap[y].leaf THEN Reversed(LeafInteDiff(heap[y].records, x, p))
                          ELSE Both(half(0), half(1))
  IN  diff[<<a1, a2, q>>]

Within(c, box) == Changes(Restricted(c.add, box), Restricted(c.remove, box))

\* The overload of leaf_inte_diff with a query box.
SpatialLeafInteDiff(P, a, q, box, r) ==
  LET diff[v \in Nodes \X Routes \X Regions] ==
        LET x == v[1]
            p == v[2]
            half(d) == diff[<<Son(x, d), Child(p, d), Half(v[3], d)>>]
        IN  IF Relation(v[3].box, box) < 0 THEN Changes(EmptyBag, EmptyBag)
            ELSE IF x = Null THEN Within(Changes(EmptyBag, Part(P, p)), box)
            ELSE IF heap[x].leaf THEN Within(MergePts(Part(P, p), heap[x].records), box)
            ELSE Both(half(0), half(1))
  IN  diff[<<a, q, r>>]

SpatialDiff(a1, a2, q, box, r) ==
  LET diff[v \in Nodes \X Nodes \X Routes \X Regions] ==
        LET x == v[1]
            y == v[2]
            p == v[3]
            half(d) == diff[<<Son(x, d), Son(y, d), Child(p, d), Half(v[4], d)>>]
        IN  IF Relation(v[4].box, box) < 0 \/ x = y THEN Changes(EmptyBag, EmptyBag)
            ELSE IF x = Null THEN Changes(RangeReport(y, box, v[4]), EmptyBag)
            ELSE IF y = Null THEN Changes(EmptyBag, RangeReport(x, box, v[4]))
            ELSE IF heap[x].leaf /\ heap[y].leaf
                 THEN Within(MergePts(heap[x].records, heap[y].records), box)
            ELSE IF heap[x].leaf THEN SpatialLeafInteDiff(heap[x].records, y, p, box, v[4])
            ELSE IF heap[y].leaf
                 THEN Reversed(SpatialLeafInteDiff(heap[y].records, x, p, box, v[4]))
            ELSE Both(half(0), half(1))
  IN  diff[<<a1, a2, q, r>>]

-----------------------------------------------------------------------------
(* spatial_join: the pairs of points at most dis apart, with different ids. *)

ClosePairs(S, T, dis) ==
  {pq \in S \X T : pq[1].id # pq[2].id /\ PointSqrDis(pq[1], pq[2]) <= Square(dis)}

Join(a1, a2, dis, r1, r2) ==
  LET join[v \in Nodes \X Nodes \X Regions \X Regions] ==
        LET x == v[1]
            y == v[2]
            \* the nodes and regions to go on with on each side
            next(a, r) == IF heap[a].leaf THEN {<<a, r>>}
                          ELSE {<<Son(a, d), Half(r, d)>> : d \in {0, 1}}
        IN  IF x = Null \/ y = Null \/ ~WithinDis(v[3].box, v[4].box, dis) THEN {}
            ELSE IF heap[x].leaf /\ heap[y].leaf
            THEN ClosePairs(DOMAIN heap[x].records, DOMAIN heap[y].records, dis)
            ELSE UNION {UNION {join[<<n1[1], n2[1], n1[2], n2[2]>>] : n2 \in next(y, v[4])} :
                          n1 \in next(x, v[3])}
  IN  join[<<a1, a2, r1, r2>>]

-----------------------------------------------------------------------------
(* Properties: every query on every version, while commits run as well as  *)
(* between them, answers as a scan of all points would.                    *)

Published == {versions[v] : v \in DOMAIN versions}

\* Pruning by boxes loses no point and counts none that is outside: borders,
\* points just below a border and empty halves included.
RangeQueriesAreExact ==
  \A a \in Published \ {Null}, q \in Boxes :
    LET found == Restricted(Contents(a), q)
    IN  /\ RangeReport(a, q, WholeRegion) = found
        /\ RangeCount(a, q, WholeRegion) = BagCardinality(found)

\* What get_sorted_points sorts by.
Before(x, y) == \/ \E i \in 1..Bits : /\ x.code[i] < y.code[i]
                                       /\ \A j \in 1..i-1 : x.code[j] = y.code[j]
                \/ x.code = y.code /\ x.id < y.id
InOrder(S) == [i \in 1..Cardinality(S) |->
                 CHOOSE x \in S : Cardinality({y \in S : Before(y, x)}) = i - 1]

\* A bisection by one coordinate of points that are sorted by code, an interleaving
\* of both: in a region the border is where the region's own bit changes, and
\* split_by_bit finds it for any number of points on either side.
SplitsAreExact ==
  \A a \in Published, q \in {p \in Paths : Len(p) < Bits} :
    LET B == DOMAIN Part(Contents(a), q)
    IN  SplitByBit(InOrder(B), 0, Cardinality(B), Bits - Len(q))
          = Cardinality({pt \in B : Under(pt, Child(q, 0))})

\* Every id is there once.
Distinct(B) == \A x \in DOMAIN B : B[x] = 1 /\ \A y \in DOMAIN B : x.id = y.id => x = y

\* knn_report returns the k nearest points, of equally near ones those with the
\* larger ids, in whatever order the halves are visited.
KnnIsExact ==
  \A a \in Published, c \in Centers, k \in Counts :
    Distinct(Contents(a)) =>
      Knn(a, k, c, WholeRegion, {}) = Nearest(DOMAIN Contents(a), k, c)

\* Joins of two versions (or of one with itself) find every close pair; they are
\* compared as sets, equal points and the order of the pairs aside.
JoinsAreExact ==
  \A a1, a2 \in Published, dis \in Distances :
    Join(a1, a2, dis, WholeRegion, WholeRegion)
      = ClosePairs(DOMAIN Contents(a1), DOMAIN Contents(a2), dis)

\* The diff of two versions is the difference of their points, although it skips
\* every node they share and their trees differ in shape.
DiffsAreExact ==
  \A a1, a2 \in Published :
    LET B1 == Contents(a1)
        B2 == Contents(a2)
    IN  Diff(a1, a2, << >>) = Changes(B2 (-) B1, B1 (-) B2)

\* The same of the part in a query box.
SpatialDiffsAreExact ==
  \A a1, a2 \in Published, box \in Boxes :
    LET B1 == Contents(a1)
        B2 == Contents(a2)
    IN  SpatialDiff(a1, a2, << >>, box, WholeRegion)
          = Within(Changes(B2 (-) B1, B1 (-) B2), box)
=============================================================================
