------------------------------ MODULE Geometry ------------------------------
(***************************************************************************)
(* The predicates of src/include/silva/geo/operations.hpp that queries     *)
(* prune by.  A point has coordinates x and y, a box is [lo, hi].          *)
(***************************************************************************)
EXTENDS Integers

Larger(m, n) == IF m >= n THEN m ELSE n
Smaller(m, n) == IF m <= n THEN m ELSE n
Square(n) == n * n

InBox(pt, q) == \A i \in {"x", "y"} : q.lo[i] <= pt[i] /\ pt[i] <= q.hi[i]

\* mbr_mbr_relation: -1 disjoint, 1 small within large, 0 otherwise.
Relation_Strict(small, large) ==
  IF \E i \in {"x", "y"} : Larger(small.lo[i], large.lo[i]) >= Smaller(small.hi[i], large.hi[i])
  THEN -1
  ELSE IF \A i \in {"x", "y"} : large.lo[i] <= small.lo[i] /\ small.hi[i] <= large.hi[i]
  THEN 1 ELSE 0
Relation(small, large) ==
  IF \E i \in {"x", "y"} : Larger(small.lo[i], large.lo[i]) > Smaller(small.hi[i], large.hi[i])
  THEN -1
  ELSE IF \A i \in {"x", "y"} : large.lo[i] <= small.lo[i] /\ small.hi[i] <= large.hi[i]
  THEN 1 ELSE 0

PointSqrDis(p, q) == Square(p.x - q.x) + Square(p.y - q.y)
BoxSqrDis(p, box) ==
  LET gap(i) == Larger(Larger(box.lo[i] - p[i], 0), Larger(p[i] - box.hi[i], 0))
  IN  Square(gap("x")) + Square(gap("y"))
WithinDis_Strict(box1, box2, dis) ==
  \A i \in {"x", "y"} : box1.hi[i] + dis > box2.lo[i] /\ box2.hi[i] + dis > box1.lo[i]
WithinDis(box1, box2, dis) ==
  \A i \in {"x", "y"} : box1.hi[i] + dis >= box2.lo[i] /\ box2.hi[i] + dis >= box1.lo[i]
=============================================================================
