--------------------------- MODULE MvqQueryProofs ---------------------------
(***************************************************************************)
(* Every query of MvqQueries answers as a scan of the version's points     *)
(* would, whatever commits are under way; a purge of one version spares    *)
(* the other one; updates in place do to a tree what they should.  In      *)
(* order: recursion; the sides of regions and the bits of codes; regions   *)
(* and their boxes; one part per query; the theorems about the queries;    *)
(* the purge; updates in place.                                            *)
(***************************************************************************)
EXTENDS MvqQueries, MvqPurge, MvqInPlace, MvqProofs

-----------------------------------------------------------------------------
(* Recursion.                                                              *)

\* Compute[<<x, f>>] is what a function computes for x when f are its values: values in V,
\* and one that depends on those of arguments of lower rank only.
CallsLower(D, V, rank, Compute) ==
  /\ rank \in [D -> Nat] /\ V # {} /\ Compute \in [D \X [D -> V] -> V]
  /\ \A x \in D, g, h \in [D -> V] :
       (\A y \in D : rank[y] < rank[x] => g[y] = h[y]) => Compute[<<x, g>>] = Compute[<<x, h>>]

\* Such a function exists.
LEMMA RecursionEnds ==
  ASSUME NEW D, NEW V, NEW rank, NEW Compute, CallsLower(D, V, rank, Compute)
  PROVE  \E f \in [D -> V] : \A x \in D : f[x] = Compute[<<x, f>>]
<1>0. /\ rank \in [D -> Nat] /\ V # {} /\ Compute \in [D \X [D -> V] -> V]
  BY DEF CallsLower
<1> USE <1>0
<1> DEFINE Ends(n, f) == f \in [D -> V] /\ \A x \in D : rank[x] < n => f[x] = Compute[<<x, f>>]
           Good == {n \in Nat : \E f : Ends(n, f)}
<1>1. 0 \in Good
  <2>1. PICK e : e \in V
    OBVIOUS
  <2>2. [x \in D |-> e] \in [D -> V] /\ \A x \in D : ~(rank[x] < 0)
    BY <2>1
  <2>3. Ends(0, [x \in D |-> e])
    BY <2>2
  <2> QED  BY <2>3
<1>2. ASSUME NEW n \in Nat, n \in Good  PROVE n + 1 \in Good
  <2>1. PICK f : Ends(n, f)
    BY <1>2
  <2> DEFINE g == [x \in D |-> IF rank[x] < n THEN f[x] ELSE Compute[<<x, f>>]]
  <2>2. g \in [D -> V]
    BY <2>1
  <2>3. ASSUME NEW x \in D, rank[x] < n + 1  PROVE g[x] = Compute[<<x, g>>]
    <3>1. \A y \in D : rank[y] < rank[x] => f[y] = g[y]
      BY <2>3
    <3>2. Compute[<<x, f>>] = Compute[<<x, g>>]
      <4> HIDE DEF g
      <4> QED  BY <2>1, <2>2, <3>1 DEF CallsLower
    <3> QED  BY <2>1, <2>3, <3>2
  <2> HIDE DEF g
  <2> QED  BY <2>2, <2>3
<1>3. \A n \in Nat : \E f : Ends(n, f)
  <2>1. Nat \subseteq Good
    <3> HIDE DEF Good
    <3> QED  BY <1>1, <1>2, SetInduction
  <2> QED  BY <2>1
<1>4. ASSUME NEW n \in Nat, NEW f, Ends(n, f), NEW m \in Nat, NEW g, Ends(m, g), n <= m
      PROVE  \A x \in D : rank[x] < n => f[x] = g[x]
  <2> DEFINE Bad == {rank[x] : x \in {y \in D : rank[y] < n /\ f[y] # g[y]}}
  <2> SUFFICES ASSUME Bad # {}  PROVE FALSE
    OBVIOUS
  <2>1. PICK k \in Bad : \A l \in Bad : k <= l
    <3>1. Bad \in SUBSET Nat
      OBVIOUS
    <3> HIDE DEF Bad
    <3> QED  BY <3>1, SmallestElement
  <2>2. PICK x \in D : k = rank[x] /\ rank[x] < n /\ f[x] # g[x]
    BY <2>1
  <2>3. ASSUME NEW y \in D, rank[y] < rank[x]  PROVE f[y] = g[y]
    <3>1. f[y] # g[y] => rank[y] \in Bad
      BY <2>2, <2>3
    <3> HIDE DEF Bad
    <3> QED  BY <2>1, <2>2, <2>3, <3>1
  <2>4. Compute[<<x, f>>] = Compute[<<x, g>>]
    BY <1>4, <2>3 DEF CallsLower
  <2> QED  BY <1>4, <2>2, <2>4
<1> DEFINE F(n) == CHOOSE f : Ends(n, f)
           h == [x \in D |-> F(rank[x] + 1)[x]]
<1>5. \A n \in Nat : Ends(n, F(n))
  BY <1>3
<1> HIDE DEF F
<1>6. \A x \in D : rank[x] + 1 \in Nat /\ Ends(rank[x] + 1, F(rank[x] + 1))
  <2> HIDE DEF Ends
  <2> QED  BY <1>5
<1>7. h \in [D -> V]
  BY <1>6
<1>8. ASSUME NEW x \in D  PROVE h[x] = Compute[<<x, h>>]
  <2> DEFINE f == F(rank[x] + 1)
  <2>1. Ends(rank[x] + 1, f)
    BY <1>6
  <2>2. ASSUME NEW y \in D, rank[y] < rank[x]  PROVE f[y] = h[y]
    <3> DEFINE g == F(rank[y] + 1)
    <3>1. Ends(rank[y] + 1, g) /\ h[y] = g[y]
      BY <1>6
    <3>2. rank[y] + 1 \in Nat /\ rank[x] + 1 \in Nat /\ rank[y] + 1 <= rank[x] + 1 /\ rank[y] < rank[y] + 1
      BY <2>2
    <3> HIDE DEF f, g, Ends, h
    <3>3. g[y] = f[y]
      BY <1>4, <2>1, <3>1, <3>2
    <3> QED  BY <3>1, <3>3
  <2>3. h[x] = f[x]
    OBVIOUS
  <2> HIDE DEF f, h
  <2>4. Compute[<<x, f>>] = Compute[<<x, h>>]
    BY <1>7, <2>1, <2>2 DEF CallsLower
  <2> QED  BY <2>1, <2>3, <2>4
<1> HIDE DEF h
<1> QED  BY <1>7, <1>8

\* Its values are in V when they are whenever those of lower rank are.
LEMMA TypedByRank ==
  ASSUME NEW D, NEW V, NEW rank \in [D -> Nat], NEW f,
         \A x \in D : (\A y \in D : rank[y] < rank[x] => f[y] \in V) => f[x] \in V
  PROVE  \A x \in D : f[x] \in V
<1> DEFINE Bad == {rank[x] : x \in {y \in D : f[y] \notin V}}
<1> SUFFICES ASSUME Bad # {}  PROVE FALSE
  OBVIOUS
<1>1. PICK k \in Bad : \A l \in Bad : k <= l
  <2>1. Bad \in SUBSET Nat
    OBVIOUS
  <2> HIDE DEF Bad
  <2> QED  BY <2>1, SmallestElement
<1>2. PICK x \in D : k = rank[x] /\ f[x] \notin V
  BY <1>1
<1>3. ASSUME NEW y \in D, rank[y] < rank[x]  PROVE f[y] \in V
  <2>1. f[y] \notin V => rank[y] \in Bad
    OBVIOUS
  <2>2. rank[y] \in Nat /\ rank[x] \in Nat
    OBVIOUS
  <2> HIDE DEF Bad
  <2> QED  BY <1>1, <1>2, <1>3, <2>1, <2>2
<1> QED  BY <1>2, <1>3

-----------------------------------------------------------------------------
(* Sides of regions.                                                       *)

\* What is assumed of the constants.
LEMMA QueryFacts ==
  /\ ScanLength \in Nat /\ Bits \in Nat /\ Bits % 2 = 0
  /\ CellWidth \in Nat \ {0} /\ Eps \in 0..CellWidth - 1
  /\ World \in Box /\ Boxes \subseteq Box /\ Distances \subseteq Nat /\ Counts \subseteq Nat
  /\ \A c \in Centers : c.x \in Int /\ c.y \in Int
BY QueryAssumption, ConstantsAssumption

\* Side is defined, by recursion on b.
LEMMA SideIs ==
  \A b \in Int : Side[b] = IF b <= 2 THEN CellWidth ELSE 2 * Side[b - 2]
<1> DEFINE rank == [b \in Int |-> IF b <= 2 THEN 0 ELSE b]
           step(b, f) == IF b <= 2 THEN CellWidth ELSE 2 * f[b - 2]
           Compute == [v \in Int \X [Int -> Nat] |-> step(v[1], v[2])]
<1>1. /\ rank \in [Int -> Nat] /\ Nat # {}
      /\ Compute \in [Int \X [Int -> Nat] -> Nat]
  <2>1. ASSUME NEW b \in Int, NEW f \in [Int -> Nat]  PROVE step(b, f) \in Nat
    <3>1. b - 2 \in Int /\ f[b - 2] \in Nat
      OBVIOUS
    <3> QED  BY <3>1, QueryFacts
  <2>2. \A v \in Int \X [Int -> Nat] : step(v[1], v[2]) \in Nat
    BY <2>1
  <2>3. rank \in [Int -> Nat] /\ Nat # {}
    OBVIOUS
  <2> HIDE DEF step
  <2> QED  BY <2>2, <2>3
<1>2. \A b \in Int, f \in [Int -> Nat] : Compute[<<b, f>>] = step(b, f)
  OBVIOUS
<1>3. CallsLower(Int, Nat, rank, Compute)
  <2>1. ASSUME NEW b \in Int, NEW g \in [Int -> Nat], NEW h \in [Int -> Nat],
               \A y \in Int : rank[y] < rank[b] => g[y] = h[y]
        PROVE  step(b, g) = step(b, h)
    <3>1. CASE b <= 2
      BY <3>1
    <3>2. CASE ~(b <= 2)
      <4>1. b - 2 \in Int /\ rank[b - 2] < rank[b]
        BY <3>2
      <4> HIDE DEF rank
      <4> QED  BY <2>1, <3>2, <4>1
    <3> QED  BY <3>1, <3>2
  <2>2. ASSUME NEW b \in Int, NEW g \in [Int -> Nat], NEW h \in [Int -> Nat],
               \A y \in Int : rank[y] < rank[b] => g[y] = h[y]
        PROVE  Compute[<<b, g>>] = Compute[<<b, h>>]
    <3>1. step(b, g) = step(b, h)
      BY <2>1, <2>2
    <3> HIDE DEF Compute, step, rank
    <3> QED  BY <1>2, <3>1
  <2> HIDE DEF Compute, rank
  <2> QED  BY <1>1, <2>2 DEF CallsLower
<1> HIDE DEF Compute, rank
<1>4. \E f \in [Int -> Nat] : \A b \in Int : f[b] = Compute[<<b, f>>]
  BY <1>3, RecursionEnds
<1>5. PICK f \in [Int -> Nat] : \A b \in Int : f[b] = Compute[<<b, f>>]
  BY <1>4
<1>6. f = [b \in Int |-> IF b <= 2 THEN CellWidth ELSE 2 * f[b - 2]]
  BY <1>2, <1>5
<1>7. Side = [b \in Int |-> IF b <= 2 THEN CellWidth ELSE 2 * Side[b - 2]]
  BY <1>6 DEF Side
<1> QED  BY <1>7

\* A side is a number of cells, and that of two levels up is twice as long.
LEMMA SidesAreCells ==
  \A b \in Int : /\ Side[b] \in Nat \ {0} /\ \E m \in Nat : Side[b] = CellWidth * m
                 /\ b >= 1 => Side[b + 2] = 2 * Side[b]
<1> DEFINE Whole(b) == Side[b] \in Nat \ {0} /\ \E m \in Nat : Side[b] = CellWidth * m
           Good == {n \in Nat : \A b \in Int : b <= n => Whole(b)}
<1>1. ASSUME NEW b \in Int, b <= 2  PROVE Whole(b)
  <2>1. Side[b] = CellWidth /\ CellWidth = CellWidth * 1 /\ 1 \in Nat
    BY <1>1, SideIs, QueryFacts
  <2> QED  BY <2>1, QueryFacts
<1>2. 0 \in Good
  BY <1>1
<1>3. ASSUME NEW n \in Nat, n \in Good  PROVE n + 1 \in Good
  <2> SUFFICES ASSUME NEW b \in Int, b <= n + 1, b > 2  PROVE Whole(b)
    BY <1>1
  <2>1. Side[b] = 2 * Side[b - 2] /\ b - 2 \in Int /\ b - 2 <= n
    BY SideIs
  <2>2. Whole(b - 2)
    BY <1>3, <2>1
  <2>3. PICK m \in Nat : Side[b - 2] = CellWidth * m
    BY <2>2
  <2>4. Side[b] = CellWidth * (2 * m) /\ 2 * m \in Nat /\ Side[b] \in Nat \ {0}
    BY <2>1, <2>2, <2>3, QueryFacts
  <2> QED  BY <2>4
<1>4. \A b \in Int : Whole(b)
  <2>1. Nat \subseteq Good
    <3> HIDE DEF Good
    <3> QED  BY <1>2, <1>3, SetInduction
  <2>2. \A b \in Int : b >= 0 => Whole(b)
    BY <2>1
  <2> HIDE DEF Whole
  <2> QED  BY <1>1, <2>2
<1>5. ASSUME NEW b \in Int, b >= 1  PROVE Side[b + 2] = 2 * Side[b]
  <2>1. b + 2 \in Int /\ ~(b + 2 <= 2) /\ (b + 2) - 2 = b
    BY <1>5
  <2> QED  BY <2>1, SideIs
<1> QED  BY <1>4, <1>5

\* Regions with an even number of bits to go are squares.
LEMMA SquareSides ==
  ASSUME NEW b \in Nat, b % 2 = 0
  PROVE  Side[b + 1] = Side[b + 2]
<1> DEFINE Good == {n \in Nat : \A c \in Nat : c <= n /\ c % 2 = 0 => Side[c + 1] = Side[c + 2]}
<1>1. 0 \in Good
  BY SideIs
<1>2. ASSUME NEW n \in Nat, n \in Good  PROVE n + 1 \in Good
  <2> SUFFICES ASSUME NEW c \in Nat, c <= n + 1, c % 2 = 0  PROVE Side[c + 1] = Side[c + 2]
    OBVIOUS
  <2>1. CASE c = 0
    BY <2>1, SideIs
  <2>2. CASE c # 0
    <3>1. c - 2 \in Nat /\ (c - 2) % 2 = 0 /\ c - 2 <= n
      BY <2>2
    <3>2. Side[(c - 2) + 1] = Side[(c - 2) + 2]
      BY <1>2, <3>1
    <3>3. /\ (c - 2) + 1 >= 1 /\ ((c - 2) + 1) + 2 = c + 1 /\ (c - 2) + 1 \in Int
          /\ (c - 2) + 2 >= 1 /\ ((c - 2) + 2) + 2 = c + 2 /\ (c - 2) + 2 \in Int
      BY <3>1
    <3> QED  BY <3>2, <3>3, SidesAreCells
  <2> QED  BY <2>1, <2>2
<1>3. Nat \subseteq Good
  <2> HIDE DEF Good
  <2> QED  BY <1>1, <1>2, SetInduction
<1> QED  BY <1>3

\* Division, from the multiple that is meant.
LEMMA Quotient ==
  ASSUME NEW n \in Nat, NEW s \in Nat \ {0}, NEW k \in Int, s * k <= n, n < s * (k + 1)
  PROVE  n \div s = k
<1> DEFINE q == n \div s
           r == n % s
<1>1. s \in Int /\ s > 0 /\ q \in Int /\ q = n \div s /\ r \in Int /\ r = n % s /\ r >= 0 /\ r < s
  OBVIOUS
<1> HIDE DEF q, r
<1>2. n = s * q + r
  BY <1>1
<1>2a. s * q <= n /\ n < s * q + s
  BY <1>1, <1>2
<1>3. CASE q < k
  <2>1. s * (q + 1) <= s * k
    BY <1>1, <1>3
  <2> QED  BY <1>1, <1>2a, <2>1
<1>4. CASE q > k
  <2>1. s * (k + 1) <= s * q
    BY <1>1, <1>4
  <2> QED  BY <1>1, <1>2a, <2>1
<1> QED  BY <1>1, <1>3, <1>4

\* Bit b of a coordinate tells in which half of a stretch of two sides it lies.
LEMMA BitTellsHalf ==
  ASSUME NEW s \in Nat \ {0}, NEW k \in Int, NEW n \in Nat, 2 * s * k <= n, n < 2 * s * k + 2 * s
  PROVE  /\ n < 2 * s * k + s => (n \div s) % 2 = 0
         /\ n >= 2 * s * k + s => (n \div s) % 2 = 1
<1>1. 2 * s * k = s * (2 * k) /\ 2 * k \in Int
  OBVIOUS
<1>2. CASE n < 2 * s * k + s
  <2>1. n < s * (2 * k + 1)
    BY <1>1, <1>2
  <2>2. n \div s = 2 * k
    BY <1>1, <2>1, Quotient
  <2> QED  BY <1>1, <1>2, <2>2
<1>3. CASE n >= 2 * s * k + s
  <2>1. s * (2 * k + 1) <= n /\ n < s * ((2 * k + 1) + 1) /\ 2 * k + 1 \in Int
    BY <1>1, <1>3
  <2>2. n \div s = 2 * k + 1
    BY <2>1, Quotient
  <2>3. (2 * k + 1) % 2 = 1
    OBVIOUS
  <2> QED  BY <1>3, <2>2, <2>3
<1> QED  BY <1>2, <1>3

\* Below the border of a cell lies nothing that FT_EPS would cut off.
LEMMA BelowBorder ==
  ASSUME NEW n \in Nat, n % CellWidth <= CellWidth - Eps, NEW m \in Int, n < CellWidth * m
  PROVE  n <= CellWidth * m - Eps
<1> DEFINE q == n \div CellWidth
           r == n % CellWidth
<1>1. n = CellWidth * q + r /\ q \in Int /\ r \in Nat /\ r <= CellWidth - Eps
  BY QueryFacts
<1>2. CellWidth \in Nat \ {0} /\ Eps \in Nat
  BY QueryFacts
<1> HIDE DEF q, r
<1>3. CASE q >= m
  <2>1. CellWidth * q >= CellWidth * m
    BY <1>1, <1>2, <1>3
  <2> QED  BY <1>1, <1>2, <2>1
<1>4. CASE q < m
  <2>1. CellWidth * q + CellWidth <= CellWidth * m
    <3>1. CellWidth * (q + 1) <= CellWidth * m
      BY <1>1, <1>2, <1>4
    <3> QED  BY <1>1, <1>2, <3>1
  <2>2. CellWidth * q \in Int /\ CellWidth * m \in Int
    BY <1>1, <1>2
  <2> QED  BY <1>1, <1>2, <2>1, <2>2
<1> QED  BY <1>1, <1>3, <1>4

-----------------------------------------------------------------------------
(* Regions.                                                                *)

Sides == {"x", "y"}
Extent(i, b) == IF i = Axis(b) THEN Side[b + 2] ELSE Side[b + 1]

\* What a walk knows at path p is right: the points of the region lie in its box, and in
\* a stretch of its own in both directions.
RegionAt(r, p) ==
  /\ r \in Regions /\ r.b = Bits - Len(p)
  /\ \A i \in Sides : \E k \in Nat : r.prefix[i] = Extent(i, r.b) * k
  /\ \A pt \in Points : Under(pt, p) =>
       /\ InBox(pt, r.box)
       /\ \A i \in Sides : r.prefix[i] <= pt[i] /\ pt[i] < r.prefix[i] + Extent(i, r.b)

\* The numbers that geometry is done with.
LEMMA Coordinates ==
  /\ \A pt \in Points : pt.x \in Nat /\ pt.y \in Nat /\ pt.id \in Int
  /\ \A pt \in Points : pt["x"] = pt.x /\ pt["y"] = pt.y
<1>1. \A pt \in Points : pt["x"] \in 0..Side[Bits + 2] - 1 /\ pt["y"] \in 0..Side[Bits + 2] - 1
  BY QueryAssumption DEF PointsAssumption
<1>2. \A pt \in Points : pt["x"] = pt.x /\ pt["y"] = pt.y
  OBVIOUS
<1>3. \A pt \in Points : pt["x"] \in Nat /\ pt["y"] \in Nat
  BY <1>1, QueryFacts, SidesAreCells
<1>4. \A pt \in Points : pt.id \in Int
  BY QueryAssumption DEF PointsAssumption
<1> QED  BY <1>2, <1>3, <1>4

\* What a region is made of.
LEMMA RegionTypes ==
  ASSUME NEW r \in Regions
  PROVE  /\ r.b \in Int /\ r.box \in Box /\ r.prefix \in Corner
         /\ r.box.lo \in Corner /\ r.box.hi \in Corner
         /\ \A i \in Sides : /\ r.prefix[i] \in Int /\ r.box.lo[i] \in Int /\ r.box.hi[i] \in Int
                             /\ Extent(i, r.b) \in Nat \ {0} /\ Side[r.b] \in Nat \ {0}
<1>1. /\ r.b \in Int /\ r.box \in Box /\ r.prefix \in Corner
      /\ r.box.lo \in Corner /\ r.box.hi \in Corner
  BY DEF Regions, Box
<1>2. \A c \in Corner, i \in Sides : c[i] \in Int
  BY DEF Corner, Sides
<1>3. \A i \in Sides : Extent(i, r.b) \in Nat \ {0} /\ Side[r.b] \in Nat \ {0}
  BY <1>1, SidesAreCells DEF Extent
<1> QED  BY <1>1, <1>2, <1>3

\* The two halves, component by component.
LEMMA HalvesOfRegion ==
  ASSUME NEW r \in Regions, NEW d \in {0, 1}
  PROVE  LET i == Axis(r.b)
             h == Half(r, d)
         IN  /\ h \in Regions /\ h.b = r.b - 1 /\ i \in Sides
             /\ \A j \in Sides \ {i} : /\ h.prefix[j] = r.prefix[j]
                                       /\ h.box.lo[j] = r.box.lo[j] /\ h.box.hi[j] = r.box.hi[j]
             /\ d = 0 => /\ h.prefix[i] = r.prefix[i] /\ h.box.lo[i] = r.box.lo[i]
                         /\ h.box.hi[i] = Smaller((r.prefix[i] + Side[r.b]) - Eps, r.box.hi[i])
             /\ d = 1 => /\ h.prefix[i] = r.prefix[i] + Side[r.b] /\ h.box.hi[i] = r.box.hi[i]
                         /\ h.box.lo[i] = Larger(r.prefix[i] + Side[r.b], r.box.lo[i])
<1> DEFINE i == Axis(r.b)
           split == r.prefix[i] + Side[r.b]
<1>1. i \in Sides
  BY DEF Axis, Sides
<1>2. /\ r.b \in Int /\ r.box \in Box /\ r.prefix \in Corner
      /\ r.box.lo \in Corner /\ r.box.hi \in Corner
      /\ split \in Int /\ Eps \in Int /\ r.box.lo[i] \in Int /\ r.box.hi[i] \in Int
  BY <1>1, RegionTypes, QueryFacts
<1> HIDE DEF i
<1>3. \A c \in Corner, n \in Int : /\ [c EXCEPT ![i] = n] \in Corner
                                   /\ [c EXCEPT ![i] = n][i] = n
                                   /\ \A j \in Sides \ {i} : [c EXCEPT ![i] = n][j] = c[j]
  BY <1>1 DEF Corner, Sides
<1>4. CASE d = 0
  <2> DEFINE n == Smaller(split - Eps, r.box.hi[i])
  <2>1. Half(r, d) = [r EXCEPT !.b = r.b - 1, !.box.hi[i] = n]
    BY <1>4 DEF Half, i
  <2>2. n \in Int
    BY <1>2 DEF Smaller
  <2> HIDE DEF n
  <2>3. Half(r, d) = [box |-> [lo |-> r.box.lo, hi |-> [r.box.hi EXCEPT ![i] = n]],
                      prefix |-> r.prefix, b |-> r.b - 1]
    BY <2>1 DEF Regions, Box
  <2>4. [r.box.hi EXCEPT ![i] = n] \in Corner
    BY <1>2, <1>3, <2>2
  <2>5. Half(r, d) \in Regions
    BY <1>2, <2>3, <2>4 DEF Regions, Box
  <2>6. /\ Half(r, d).b = r.b - 1 /\ Half(r, d).prefix = r.prefix /\ Half(r, d).box.lo = r.box.lo
        /\ Half(r, d).box.hi = [r.box.hi EXCEPT ![i] = n]
    BY <2>3
  <2>7. /\ Half(r, d).box.hi[i] = n
        /\ \A j \in Sides \ {i} : Half(r, d).box.hi[j] = r.box.hi[j]
    BY <1>2, <1>3, <2>2, <2>6
  <2>8. \A j \in Sides \ {i} : Half(r, d).box.lo[j] = r.box.lo[j] /\ Half(r, d).prefix[j] = r.prefix[j]
    BY <2>6
  <2>9. Half(r, d).prefix[i] = r.prefix[i] /\ Half(r, d).box.lo[i] = r.box.lo[i]
    BY <2>6
  <2>10. Half(r, d).box.hi[i] = Smaller((r.prefix[i] + Side[r.b]) - Eps, r.box.hi[i])
    BY <2>7 DEF n, split
  <2> HIDE DEF split, n
  <2>11. Half(r, d).b = r.b - 1
    BY <2>6
  <2> QED  BY <1>1, <1>4, <2>5, <2>7, <2>8, <2>9, <2>10, <2>11 DEF i
<1>5. CASE d = 1
  <2> DEFINE n == Larger(split, r.box.lo[i])
  <2>1. Half(r, d) = [r EXCEPT !.b = r.b - 1, !.box.lo[i] = n, !.prefix[i] = split]
    BY <1>5 DEF Half, i
  <2>2. n \in Int
    BY <1>2 DEF Larger
  <2> HIDE DEF n, split
  <2>3. Half(r, d) = [box |-> [lo |-> [r.box.lo EXCEPT ![i] = n], hi |-> r.box.hi],
                      prefix |-> [r.prefix EXCEPT ![i] = split], b |-> r.b - 1]
    BY <2>1 DEF Regions, Box
  <2>4. [r.box.lo EXCEPT ![i] = n] \in Corner /\ [r.prefix EXCEPT ![i] = split] \in Corner
    BY <1>2, <1>3, <2>2
  <2>5. Half(r, d) \in Regions
    BY <1>2, <2>3, <2>4 DEF Regions, Box
  <2>6. /\ Half(r, d).b = r.b - 1 /\ Half(r, d).prefix = [r.prefix EXCEPT ![i] = split]
        /\ Half(r, d).box.lo = [r.box.lo EXCEPT ![i] = n] /\ Half(r, d).box.hi = r.box.hi
    BY <2>3
  <2>7. /\ Half(r, d).box.lo[i] = n /\ Half(r, d).prefix[i] = split
        /\ \A j \in Sides \ {i} : /\ Half(r, d).box.lo[j] = r.box.lo[j]
                                 /\ Half(r, d).prefix[j] = r.prefix[j]
    BY <1>2, <1>3, <2>2, <2>6
  <2> QED  BY <1>1, <1>5, <2>5, <2>6, <2>7 DEF n, i, split
<1> QED  BY <1>4, <1>5

\* The points of a half are those of the region whose next bit is the half's.
LEMMA UnderHalf ==
  ASSUME NEW p \in Paths, Len(p) < Bits, NEW d \in {0, 1}, NEW pt \in Points
  PROVE  LET b == Bits - Len(p)
         IN  Under(pt, Child(p, d)) <=> Under(pt, p) /\ (pt[Axis(b)] \div Side[b]) % 2 = d
<1> DEFINE n == Len(p)
<1>1. p \in Seq({0, 1}) /\ n \in 0..Bits /\ n + 1 \in 1..Bits /\ Bits \in Nat
  BY PathsAreSequences, BitsIsNatural
<1>2. /\ DOMAIN Child(p, d) = 1..n + 1 /\ DOMAIN p = 1..n
      /\ \A i \in 1..n : Child(p, d)[i] = p[i]
      /\ Child(p, d)[n + 1] = d
  BY <1>1 DEF Child
<1>3. pt.code[n + 1] = (pt[Axis(Bits - n)] \div Side[Bits - n]) % 2
  <2>1. pt.code = InterleaveBits(pt)
    BY QueryAssumption DEF PointsAssumption
  <2>2. Bits - (n + 1) + 1 = Bits - n
    BY <1>1
  <2>3. InterleaveBits(pt)[n + 1] = (pt[Axis(Bits - (n + 1) + 1)] \div Side[Bits - (n + 1) + 1]) % 2
    BY <1>1 DEF InterleaveBits
  <2> QED  BY <2>1, <2>2, <2>3
<1>4. \A i : i \in 1..n + 1 <=> i \in 1..n \/ i = n + 1
  BY <1>1
<1> HIDE DEF n
<1>5. Under(pt, Child(p, d)) <=> Under(pt, p) /\ pt.code[n + 1] = d
  BY <1>2, <1>4 DEF Under
<1> QED  BY <1>3, <1>5 DEF n

\* A query starts with the region of all points.
LEMMA WholeIsRegion == RegionAt(WholeRegion, << >>)
<1>1. WholeRegion \in Regions /\ WholeRegion.b = Bits - Len(<< >>) /\ WholeRegion.b = Bits
  BY QueryFacts, RootIsPath DEF WholeRegion, Regions, Corner
<1>2. /\ WholeRegion.box = World
      /\ \A i \in Sides : WholeRegion.prefix[i] = 0 /\ Extent(i, Bits) = Side[Bits + 2]
  BY QueryFacts, SquareSides DEF WholeRegion, Sides, Extent
<1>3. \A i \in Sides : \E k \in Nat : WholeRegion.prefix[i] = Extent(i, WholeRegion.b) * k
  <2>1. \A i \in Sides : WholeRegion.prefix[i] = Extent(i, WholeRegion.b) * 0
    BY <1>1, <1>2, QueryFacts, SidesAreCells
  <2> QED  BY <2>1
<1>4. Side[Bits + 2] \in Nat
  BY QueryFacts, SidesAreCells
<1>5. ASSUME NEW pt \in Points, NEW i \in Sides
      PROVE  0 <= pt[i] /\ pt[i] < 0 + Side[Bits + 2]
  BY <1>4, QueryAssumption DEF PointsAssumption, Sides
<1>6. \A pt \in Points : InBox(pt, World)
  BY QueryAssumption DEF PointsAssumption
<1> QED  BY <1>1, <1>2, <1>3, <1>5, <1>6 DEF RegionAt

\* compute_cur_box leads from a region to its halves: it loses no point.
LEMMA HalfIsRegion ==
  ASSUME NEW p \in Paths, Len(p) < Bits, NEW d \in {0, 1}, NEW r, RegionAt(r, p)
  PROVE  RegionAt(Half(r, d), Child(p, d))
<1> DEFINE i == Axis(r.b)
           s == Side[r.b]
           h == Half(r, d)
<1>1. /\ r \in Regions /\ r.b = Bits - Len(p) /\ r.b \in Nat /\ r.b >= 1
      /\ Child(p, d) \in Paths /\ Len(Child(p, d)) = Len(p) + 1
  BY ChildrenOfPath, PathTypes DEF RegionAt
<1>2. /\ h \in Regions /\ h.b = r.b - 1 /\ i \in Sides
      /\ \A j \in Sides \ {i} : /\ h.prefix[j] = r.prefix[j]
                                /\ h.box.lo[j] = r.box.lo[j] /\ h.box.hi[j] = r.box.hi[j]
      /\ d = 0 => /\ h.prefix[i] = r.prefix[i] /\ h.box.lo[i] = r.box.lo[i]
                  /\ h.box.hi[i] = Smaller((r.prefix[i] + s) - Eps, r.box.hi[i])
      /\ d = 1 => /\ h.prefix[i] = r.prefix[i] + s /\ h.box.hi[i] = r.box.hi[i]
                  /\ h.box.lo[i] = Larger(r.prefix[i] + s, r.box.lo[i])
  BY <1>1, HalvesOfRegion
<1>3. /\ Extent(i, r.b) = 2 * s /\ Extent(i, h.b) = s /\ s \in Nat \ {0}
      /\ \A j \in Sides \ {i} : Extent(j, h.b) = Extent(j, r.b)
  <2>1. (r.b - 1) + 1 = r.b /\ (r.b - 1) + 2 = r.b + 1 /\ r.b + 2 \in Int
    BY <1>1
  <2>2. s \in Nat \ {0} /\ Side[r.b + 2] = 2 * s
    <3>1. r.b \in Int /\ r.b >= 1
      BY <1>1
    <3>2. Side[r.b] \in Nat \ {0}
      BY <3>1, SidesAreCells
    <3>3. Side[r.b + 2] = 2 * Side[r.b]
      BY <3>1, SidesAreCells
    <3> QED  BY <3>2, <3>3
  <2>3. Axis(h.b) # i /\ \A j \in Sides \ {i} : Axis(h.b) = j
    <3>1. r.b % 2 = 0 <=> (r.b - 1) % 2 # 0
      BY <1>1
    <3> QED  BY <1>2, <3>1 DEF Axis, Sides
  <2> QED  BY <1>2, <2>1, <2>2, <2>3 DEF Extent
<1>4. PICK k \in Nat : r.prefix[i] = 2 * s * k
  BY <1>2, <1>3 DEF RegionAt
<1> HIDE DEF h, s, i
<1>5. \A j \in Sides : \E m \in Nat : h.prefix[j] = Extent(j, h.b) * m
  <2>1. ASSUME NEW j \in Sides \ {i}  PROVE \E m \in Nat : h.prefix[j] = Extent(j, h.b) * m
    BY <1>2, <1>3 DEF RegionAt
  <2>2. CASE d = 0
    <3>1. h.prefix[i] = s * (2 * k) /\ 2 * k \in Nat
      BY <1>2, <1>3, <1>4, <2>2
    <3> QED  BY <1>3, <2>1, <3>1
  <2>3. CASE d = 1
    <3>1. h.prefix[i] = s * (2 * k + 1) /\ 2 * k + 1 \in Nat
      BY <1>2, <1>3, <1>4, <2>3
    <3> QED  BY <1>3, <2>1, <3>1
  <2> QED  BY <2>2, <2>3
<1>6. ASSUME NEW pt \in Points, Under(pt, Child(p, d))
      PROVE  /\ InBox(pt, h.box)
             /\ \A j \in Sides : h.prefix[j] <= pt[j] /\ pt[j] < h.prefix[j] + Extent(j, h.b)
  <2>1. Under(pt, p) /\ (pt[i] \div s) % 2 = d
    BY <1>1, <1>6, UnderHalf DEF i, s
  <2>2. /\ InBox(pt, r.box)
        /\ \A j \in Sides : r.prefix[j] <= pt[j] /\ pt[j] < r.prefix[j] + Extent(j, r.b)
    BY <2>1 DEF RegionAt
  <2>3. pt[i] \in Nat /\ pt[i] % CellWidth <= CellWidth - Eps
    <3>1. \A j \in Sides : pt[j] \in Nat
      BY Coordinates DEF Sides
    <3> QED  BY <1>2, <3>1, QueryAssumption DEF PointsAssumption, Sides
  <2>4. 2 * s * k <= pt[i] /\ pt[i] < 2 * s * k + 2 * s
    BY <1>2, <1>3, <1>4, <2>2
  <2>5. /\ d = 0 => pt[i] < r.prefix[i] + s
        /\ d = 1 => pt[i] >= r.prefix[i] + s
    <3>1. /\ pt[i] < 2 * s * k + s => (pt[i] \div s) % 2 = 0
          /\ pt[i] >= 2 * s * k + s => (pt[i] \div s) % 2 = 1
      BY <1>3, <2>3, <2>4, BitTellsHalf
    <3>2. 2 * s * k \in Nat
      BY <1>3
    <3> QED  BY <1>3, <1>4, <2>1, <2>3, <3>1, <3>2
  <2>6. d = 0 => pt[i] <= (r.prefix[i] + s) - Eps
    <3>0. r.b \in Int
      BY <1>1
    <3>1. PICK m \in Nat : s = CellWidth * m
      <4>1. \E m \in Nat : Side[r.b] = CellWidth * m
        BY <3>0, SidesAreCells
      <4> QED  BY <4>1 DEF s
    <3>2. r.prefix[i] + s = CellWidth * (2 * m * k + m) /\ 2 * m * k + m \in Int
      <4>1. 2 * s * k = CellWidth * (2 * m * k)
        BY <3>1, QueryFacts
      <4> QED  BY <1>4, <3>1, <4>1, QueryFacts
    <3>3. PICK e \in Int : r.prefix[i] + s = CellWidth * e
      BY <3>2
    <3>4. ASSUME pt[i] < CellWidth * e  PROVE pt[i] <= CellWidth * e - Eps
      BY <2>3, <3>4, BelowBorder
    <3>5. d = 0 => pt[i] <= CellWidth * e - Eps
      BY <2>5, <3>3, <3>4
    <3>6. (r.prefix[i] + s) - Eps = CellWidth * e - Eps
      BY <3>3
    <3> QED  BY <3>5, <3>6
  <2>7. \A j \in Sides : r.box.lo[j] <= pt[j] /\ pt[j] <= r.box.hi[j]
    BY <2>2 DEF InBox, Sides
  <2>8. \A j \in Sides : h.box.lo[j] <= pt[j] /\ pt[j] <= h.box.hi[j]
    BY <1>2, <2>5, <2>6, <2>7 DEF Smaller, Larger
  <2>9. \A j \in Sides : h.prefix[j] <= pt[j] /\ pt[j] < h.prefix[j] + Extent(j, h.b)
    <3>1. ASSUME NEW j \in Sides \ {i}
          PROVE  h.prefix[j] <= pt[j] /\ pt[j] < h.prefix[j] + Extent(j, h.b)
      BY <1>2, <1>3, <2>2
    <3>2. h.prefix[i] <= pt[i] /\ pt[i] < h.prefix[i] + Extent(i, h.b)
      <4>1. r.prefix[i] \in Nat
        BY <1>3, <1>4
      <4> QED  BY <1>2, <1>3, <2>2, <2>3, <2>5, <4>1
    <3> QED  BY <3>1, <3>2
  <2> QED  BY <2>8, <2>9 DEF InBox, Sides
<1>7. h.b = Bits - Len(Child(p, d))
  BY <1>1, <1>2, PathTypes
<1> QED  BY <1>2, <1>5, <1>6, <1>7 DEF RegionAt, h

-----------------------------------------------------------------------------
(* Walks.                                                                  *)

\* Sons are lower than their fathers: every walk down ends.
Height(a) == IF a = Null THEN 0 ELSE 1 + Rank(a)

\* A walk goes from a node to lower ones, which exist.
LEMMA SonsAreLower ==
  ASSUME IInv
  PROVE  /\ \A a \in Nodes : Height(a) \in Nat
         /\ \A a \in DOMAIN heap : a # Null /\ a \in Nodes
         /\ \A a \in DOMAIN heap, d \in {0, 1} : ~heap[a].leaf =>
              /\ Son(a, d) \in Nodes /\ Height(Son(a, d)) < Height(a)
<1>1. SoundHeap(heap)
  BY HeapIsSound
<1>2. \A a \in DOMAIN heap : a # Null /\ a \in Nodes /\ Rank(a) \in Nat /\ Height(a) = 1 + Rank(a)
  BY <1>1, RanksFall DEF Nodes, Height
<1>3. Height(Null) = 0
  BY DEF Height
<1>4. ASSUME NEW a \in DOMAIN heap, NEW d \in {0, 1}, ~heap[a].leaf
      PROVE  Son(a, d) \in Nodes /\ Height(Son(a, d)) < Height(a)
  <2>1. Son(a, d) \in {heap[a].l_son, heap[a].r_son}
    BY DEF Son
  <2>2. CASE Son(a, d) = Null
    BY <1>2, <1>3, <2>2 DEF Nodes
  <2>3. CASE Son(a, d) # Null
    <3>1. Son(a, d) \in DOMAIN heap /\ Rank(Son(a, d)) < Rank(a)
      BY <1>1, <1>4, <2>1, <2>3, RanksFall
    <3> QED  BY <1>2, <3>1
  <2> QED  BY <2>2, <2>3
<1> QED  BY <1>2, <1>3, <1>4 DEF Nodes

BagsOfPoints == UNION {[S -> Nat \ {0}] : S \in SUBSET Points}

\* They are the bags of points.
LEMMA BagsAreASet == \A B : B \in BagsOfPoints <=> IsBagOfPoints(B)
BY DEF BagsOfPoints, IsBagOfPoints

\* A query keeps the copies of the points in its box.
LEMMA CopiesInBox ==
  ASSUME NEW B, IsBagOfPoints(B), NEW q
  PROVE  /\ IsBagOfPoints(Restricted(B, q))
         /\ \A x : CopiesOf(x, Restricted(B, q)) = IF InBox(x, q) THEN CopiesOf(x, B) ELSE 0
BY DEF CopiesOf, Restricted, IsBagOfPoints

-----------------------------------------------------------------------------
(* range_report.                                                           *)

\* One call of range_report_node.
LEMMA ReportUnfolds ==
  ASSUME IInv, NEW q, NEW a \in Nodes, NEW r \in Regions
  PROVE  /\ RangeReport(a, q, r) =
           IF a = Null \/ Relation(r.box, q) < 0 THEN EmptyBag
           ELSE IF heap[a].leaf THEN Restricted(heap[a].records, q)
           ELSE RangeReport(Son(a, 0), q, Half(r, 0)) (+) RangeReport(Son(a, 1), q, Half(r, 1))
         /\ RangeReport(a, q, r) \in BagsOfPoints
<1> DEFINE D == Nodes \X Regions
           V == BagsOfPoints
           rank == [v \in D |-> Height(v[1])]
           step(v, f) == IF v[1] = Null \/ Relation(v[2].box, q) < 0 THEN EmptyBag
                         ELSE IF heap[v[1]].leaf THEN Restricted(heap[v[1]].records, q)
                         ELSE f[<<Son(v[1], 0), Half(v[2], 0)>>] (+) f[<<Son(v[1], 1), Half(v[2], 1)>>]
           Compute == [vf \in D \X [D -> V] |-> step(vf[1], vf[2])]
           R == CHOOSE f : f = [v \in D |-> step(v, f)]
<1>1. \A x, s : RangeReport(x, q, s) = R[<<x, s>>]
  BY DEF RangeReport
<1>2. ASSUME NEW v \in D, v[1] # Null, ~heap[v[1]].leaf, NEW d \in {0, 1}
      PROVE  LET w == <<Son(v[1], d), Half(v[2], d)>>
             IN  w \in D /\ rank[w] < rank[v]
  <2>1. v[1] \in DOMAIN heap /\ v[2] \in Regions
    BY <1>2 DEF Nodes
  <2>2. Son(v[1], d) \in Nodes /\ Height(Son(v[1], d)) < Height(v[1]) /\ Half(v[2], d) \in Regions
    BY <1>2, <2>1, SonsAreLower, HalvesOfRegion
  <2> QED  BY <2>2
<1>3. ASSUME NEW v \in D, NEW f, \A w \in D : rank[w] < rank[v] => f[w] \in V
      PROVE  step(v, f) \in V
  <2>1. CASE v[1] = Null \/ Relation(v[2].box, q) < 0
    BY <2>1, BagsAreASet, EmptyBagOfPoints
  <2>2. CASE v[1] # Null /\ heap[v[1]].leaf
    <3>1. IsBagOfPoints(heap[v[1]].records)
      BY <2>2, LeafRecordsAreBags DEF Nodes
    <3> QED  BY <2>1, <2>2, <3>1, CopiesInBox, BagsAreASet
  <2>3. CASE v[1] # Null /\ ~heap[v[1]].leaf
    <3>1. \A d \in {0, 1} : f[<<Son(v[1], d), Half(v[2], d)>>] \in V
      BY <1>2, <1>3, <2>3
    <3> QED  BY <2>1, <2>3, <3>1, UnionOfBags, BagsAreASet
  <2> QED  BY <2>1, <2>2, <2>3
<1>4. ASSUME NEW v \in D, NEW g \in [D -> V], NEW h \in [D -> V],
             \A w \in D : rank[w] < rank[v] => g[w] = h[w]
      PROVE  step(v, g) = step(v, h)
  <2>1. CASE v[1] # Null /\ ~heap[v[1]].leaf
    <3>1. \A d \in {0, 1} : LET w == <<Son(v[1], d), Half(v[2], d)>> IN g[w] = h[w]
      BY <1>2, <1>4, <2>1
    <3> QED  BY <3>1
  <2> QED  BY <2>1
<1>5. rank \in [D -> Nat] /\ V # {}
  <2>1. EmptyBag \in V
    BY EmptyBagOfPoints, BagsAreASet
  <2> QED  BY <2>1, SonsAreLower
<1> HIDE DEF D, V, rank, step
<1>6. CallsLower(D, V, rank, Compute)
  <2>1. \A v \in D, f \in [D -> V] : Compute[<<v, f>>] = step(v, f) /\ step(v, f) \in V
    BY <1>3
  <2>2. Compute \in [D \X [D -> V] -> V]
    BY <2>1
  <2>3. ASSUME NEW v \in D, NEW g \in [D -> V], NEW h \in [D -> V],
               \A w \in D : rank[w] < rank[v] => g[w] = h[w]
        PROVE  Compute[<<v, g>>] = Compute[<<v, h>>]
    <3>1. step(v, g) = step(v, h)
      BY <1>4, <2>3
    <3> HIDE DEF Compute
    <3> QED  BY <2>1, <3>1
  <2> HIDE DEF Compute
  <2> QED  BY <1>5, <2>2, <2>3 DEF CallsLower
<1>7. PICK f \in [D -> V] : \A v \in D : f[v] = Compute[<<v, f>>]
  <2> HIDE DEF Compute
  <2> QED  BY <1>6, RecursionEnds
<1>8. f = [v \in D |-> step(v, f)]
  BY <1>7
<1>9. R = [v \in D |-> step(v, R)]
  BY <1>8
<1> HIDE DEF R
<1>10. <<a, r>> \in D
  BY DEF D
<1>11. R[<<a, r>>] = step(<<a, r>>, R)
  BY <1>9, <1>10
<1>12. \A v \in D : R[v] \in V
  BY <1>3, <1>5, <1>9, TypedByRank
<1>13. RangeReport(a, q, r) \in BagsOfPoints
  BY <1>1, <1>10, <1>12 DEF V
<1> QED  BY <1>1, <1>11, <1>13 DEF step

\* Boxes that do not meet share no point, and one within the other all.
LEMMA RelationTells ==
  ASSUME NEW p, NEW r, RegionAt(r, p), NEW q \in Box, NEW pt \in Points, Under(pt, p)
  PROVE  /\ Relation(r.box, q) < 0 => ~InBox(pt, q)
         /\ Relation(r.box, q) > 0 => InBox(pt, q)
         /\ Relation(r.box, q) \in Int
<1>1. InBox(pt, r.box) /\ r.box \in Box
  BY RegionTypes DEF RegionAt
<1>2. \A b \in Box : /\ b.lo["x"] \in Int /\ b.lo["y"] \in Int
                     /\ b.hi["x"] \in Int /\ b.hi["y"] \in Int
  BY DEF Box, Corner
<1>3. pt["x"] \in Int /\ pt["y"] \in Int
  BY Coordinates
<1>4. Relation(r.box, q) < 0 => ~InBox(pt, q)
  BY <1>1, <1>2, <1>3 DEF Relation, InBox, Larger, Smaller
<1>5. Relation(r.box, q) > 0 => InBox(pt, q)
  BY <1>1, <1>2, <1>3 DEF Relation, InBox
<1>6. Relation(r.box, q) \in Int
  BY DEF Relation
<1> QED  BY <1>4, <1>5, <1>6

\* Restriction goes into sums, and leaves nothing or all.
LEMMA RestrictedSum ==
  ASSUME NEW A, NEW B, IsBagOfPoints(A), IsBagOfPoints(B), NEW q
  PROVE  Restricted(A (+) B, q) = Restricted(A, q) (+) Restricted(B, q)
<1>1. IsBagOfPoints(A (+) B) /\ IsBagOfPoints(Restricted(A, q)) /\ IsBagOfPoints(Restricted(B, q))
  BY UnionOfBags, CopiesInBox
<1>2. \A x \in Points : CopiesOf(x, Restricted(A (+) B, q)) = CopiesOf(x, Restricted(A, q) (+) Restricted(B, q))
  BY <1>1, CopiesInSum, CopiesInBox
<1> QED  BY <1>1, <1>2, EqualBags, UnionOfBags, CopiesInBox

\* When the box has none of the points, and when it has all.
LEMMA RestrictedExtremes ==
  ASSUME NEW B, IsBagOfPoints(B), NEW q
  PROVE  /\ (\A x \in DOMAIN B : ~InBox(x, q)) => Restricted(B, q) = EmptyBag
         /\ (\A x \in DOMAIN B : InBox(x, q)) => Restricted(B, q) = B
<1>1. IsBagOfPoints(Restricted(B, q)) /\ IsBagOfPoints(EmptyBag)
  BY CopiesInBox, EmptyBagOfPoints
<1>2. \A x \in Points : /\ CopiesOf(x, Restricted(B, q)) = IF InBox(x, q) THEN CopiesOf(x, B) ELSE 0
                        /\ CopiesOf(x, B) # 0 => x \in DOMAIN B
                        /\ CopiesOf(x, EmptyBag) = 0
  BY CopiesInBox, CopiesAreNumbers, NothingIsEmpty
<1>3. ASSUME \A x \in DOMAIN B : ~InBox(x, q)  PROVE Restricted(B, q) = EmptyBag
  <2>1. \A x \in Points : CopiesOf(x, Restricted(B, q)) = CopiesOf(x, EmptyBag)
    BY <1>2, <1>3
  <2> QED  BY <1>1, <2>1, EqualBags
<1>4. ASSUME \A x \in DOMAIN B : InBox(x, q)  PROVE Restricted(B, q) = B
  <2>1. \A x \in Points : CopiesOf(x, Restricted(B, q)) = CopiesOf(x, B)
    BY <1>2, <1>4
  <2> QED  BY <1>1, <2>1, EqualBags
<1> QED  BY <1>3, <1>4

\* The sons of an inner node, one level down.
LEMMA DownFits ==
  ASSUME IInv, NodesFit, NEW p \in Paths, NEW a, Fits(a, p), a # Null, ~heap[a].leaf
  PROVE  /\ Len(p) < Bits /\ a \in DOMAIN heap
         /\ Contents(a) = Contents(Son(a, 0)) (+) Contents(Son(a, 1))
         /\ \A d \in {0, 1} : /\ Child(p, d) \in Paths /\ Fits(Son(a, d), Child(p, d))
                              /\ Bits - Len(Child(p, d)) = Bits - Len(p) - 1
                              /\ IsBagOfPoints(Contents(Son(a, d)))
<1>1. a \in Settled /\ a \in DOMAIN heap /\ a.at = p
  BY DEF Fits, Settled
<1>2. Len(p) < Bits /\ Contents(a) = Contents(Son(a, 0)) (+) Contents(Son(a, 1))
  BY <1>1, InnerIsHigh, ContentsHere
<1>3. \A d \in {0, 1} : /\ Child(p, d) \in Paths /\ Fits(Son(a, d), Child(p, d))
                        /\ Bits - Len(Child(p, d)) = Bits - Len(p) - 1
  BY <1>1, <1>2, ChildrenOfPath, PathTypes DEF NodesFit, NodeFits
<1> QED  BY <1>1, <1>2, <1>3, BelowFits

\* On nodes that fit, range_report_node finds what a scan would.
LEMMA ReportIsExact ==
  ASSUME IInv, NodesFit, NEW q \in Box
  PROVE  \A p \in Paths : \A a, r : Fits(a, p) /\ RegionAt(r, p) =>
           RangeReport(a, q, r) = Restricted(Contents(a), q)
<1> DEFINE Exact(p) == \A a, r : Fits(a, p) /\ RegionAt(r, p) =>
                         RangeReport(a, q, r) = Restricted(Contents(a), q)
           Bad == {Bits - Len(p) : p \in {s \in Paths : ~Exact(s)}}
<1> SUFFICES ASSUME Bad # {}  PROVE FALSE
  OBVIOUS
<1>1. PICK m \in Bad : \A k \in Bad : m <= k
  <2>1. Bad \in SUBSET Nat
    BY PathsAreSequences, BitsIsNatural
  <2> HIDE DEF Bad
  <2> QED  BY <2>1, SmallestElement
<1>2. PICK p \in Paths : m = Bits - Len(p) /\ ~Exact(p)
  BY <1>1
<1>3. PICK a, r : Fits(a, p) /\ RegionAt(r, p) /\ RangeReport(a, q, r) # Restricted(Contents(a), q)
  BY <1>2
<1>4. /\ a \in Nodes /\ IsBagOfPoints(Contents(a)) /\ r \in Regions
      /\ \A x \in DOMAIN Contents(a) : Under(x, p) /\ x \in Points
  BY <1>3, BelowFits DEF Nodes, RegionAt, IsBagOfPoints
<1>5. a # Null /\ ~(Relation(r.box, q) < 0)
  <2>1. CASE a = Null
    <3>1. Contents(a) = EmptyBag /\ DOMAIN EmptyBag = {}
      BY <2>1, ContentsHere DEF EmptyBag, SetToBag
    <3>2. Restricted(Contents(a), q) = EmptyBag
      BY <1>4, <3>1, RestrictedExtremes
    <3> QED  BY <1>3, <1>4, <2>1, <3>2, ReportUnfolds
  <2>2. CASE Relation(r.box, q) < 0
    <3>1. \A x \in DOMAIN Contents(a) : ~InBox(x, q)
      BY <1>3, <1>4, <2>2, RelationTells
    <3>2. Restricted(Contents(a), q) = EmptyBag
      BY <1>4, <3>1, RestrictedExtremes
    <3> QED  BY <1>3, <1>4, <2>2, <3>2, ReportUnfolds
  <2> QED  BY <2>1, <2>2
<1>6. ~heap[a].leaf
  BY <1>3, <1>4, <1>5, ReportUnfolds, ContentsHere DEF Nodes
<1>7. /\ Contents(a) = Contents(Son(a, 0)) (+) Contents(Son(a, 1))
      /\ \A d \in {0, 1} : /\ Child(p, d) \in Paths /\ Fits(Son(a, d), Child(p, d))
                           /\ RegionAt(Half(r, d), Child(p, d))
                           /\ Bits - Len(Child(p, d)) = m - 1
                           /\ IsBagOfPoints(Contents(Son(a, d)))
  BY <1>2, <1>3, <1>5, <1>6, DownFits, HalfIsRegion
<1>8. ASSUME NEW d \in {0, 1}
      PROVE  RangeReport(Son(a, d), q, Half(r, d)) = Restricted(Contents(Son(a, d)), q)
  <2>1. Exact(Child(p, d))
    <3>1. m \in Nat
      BY <1>2, PathsAreSequences, BitsIsNatural
    <3>2. ~Exact(Child(p, d)) => m - 1 \in Bad
      BY <1>7
    <3> HIDE DEF Bad, Exact
    <3> QED  BY <1>1, <3>1, <3>2
  <2> QED  BY <1>7, <2>1
<1>9. RangeReport(a, q, r) = Restricted(Contents(Son(a, 0)), q) (+) Restricted(Contents(Son(a, 1)), q)
  BY <1>4, <1>5, <1>6, <1>8, ReportUnfolds
<1> QED  BY <1>3, <1>7, <1>9, RestrictedSum

-----------------------------------------------------------------------------
(* range_count.                                                            *)

\* One call of range_count_node, which is made on nodes only.  (num_pts of a node that
\* is being written may be anything, so the values are of no set to name.)
LEMMA CountUnfolds ==
  ASSUME IInv, NEW q, NEW a \in DOMAIN heap, NEW r \in Regions
  PROVE  LET half(d) == IF Son(a, d) = Null THEN 0 ELSE RangeCount(Son(a, d), q, Half(r, d))
         IN  RangeCount(a, q, r) =
               CASE Relation(r.box, q) < 0 -> 0
                 [] Relation(r.box, q) > 0 -> NumPoints(a)
                 [] OTHER -> IF heap[a].leaf THEN BagCardinality(Restricted(heap[a].records, q))
                             ELSE half(0) + half(1)
<1> DEFINE D == (DOMAIN heap) \X Regions
           half(v, f, d) == IF Son(v[1], d) = Null THEN 0 ELSE f[<<Son(v[1], d), Half(v[2], d)>>]
           step(v, f) ==
             CASE Relation(v[2].box, q) < 0 -> 0
               [] Relation(v[2].box, q) > 0 -> NumPoints(v[1])
               [] OTHER -> IF heap[v[1]].leaf
                           THEN BagCardinality(Restricted(heap[v[1]].records, q))
                           ELSE half(v, f, 0) + half(v, f, 1)
           R == CHOOSE f : f = [v \in D |-> step(v, f)]
           Lows(n) == {v \in D : Height(v[1]) <= n}
           Rule(n, f) == f = [v \in Lows(n) |-> step(v, f)]
           Good == {n \in Nat : \E f : Rule(n, f)}
<1>1. \A x, s : RangeCount(x, q, s) = R[<<x, s>>]
  BY DEF RangeCount
<1>2. ASSUME NEW v \in D, ~heap[v[1]].leaf, NEW d \in {0, 1}, Son(v[1], d) # Null
      PROVE  LET w == <<Son(v[1], d), Half(v[2], d)>>
             IN  w \in D /\ Height(w[1]) < Height(v[1]) /\ Height(w[1]) \in Nat /\ Height(v[1]) \in Nat
  <2>1. v[1] \in DOMAIN heap /\ v[2] \in Regions
    BY <1>2
  <2>2. Son(v[1], d) \in Nodes /\ Height(Son(v[1], d)) < Height(v[1]) /\ Half(v[2], d) \in Regions
    BY <1>2, <2>1, SonsAreLower, HalvesOfRegion
  <2>3. Height(Son(v[1], d)) \in Nat /\ Height(v[1]) \in Nat
    BY <2>1, <2>2, SonsAreLower
  <2>4. Son(v[1], d) \in DOMAIN heap
    BY <1>2, <2>2 DEF Nodes
  <2> QED  BY <2>2, <2>3, <2>4
<1>3. \A v \in D : Height(v[1]) \in Nat /\ Height(v[1]) > 0 /\ Height(v[1]) <= Bits + 1
  <2>1. \A x \in DOMAIN heap : Height(x) \in Nat /\ Height(x) > 0 /\ Height(x) <= Bits + 1
    BY HeapIsSound, RanksFall, BitsIsNatural DEF Height
  <2>2. \A v \in D : v[1] \in DOMAIN heap
    OBVIOUS
  <2> HIDE DEF D
  <2> QED  BY <2>1, <2>2
<1>4. 0 \in Good
  <2>1. Lows(0) = {}
    BY <1>3
  <2>2. Rule(0, [v \in {} |-> 0])
    <3> HIDE DEF Lows, step
    <3> QED  BY <2>1
  <2> QED  BY <2>2
<1>5. ASSUME NEW n \in Nat, n \in Good  PROVE n + 1 \in Good
  <2>1. PICK f : Rule(n, f)
    BY <1>5
  <2> DEFINE g == [v \in Lows(n + 1) |-> step(v, f)]
  <2>2. \A v \in Lows(n) : v \in Lows(n + 1) /\ g[v] = f[v]
    <3>1. \A v \in Lows(n) : v \in Lows(n + 1)
      BY <1>3
    <3>2. \A v \in Lows(n) : f[v] = step(v, f)
      <4> HIDE DEF step, Lows
      <4> QED  BY <2>1
    <3> HIDE DEF step, Lows
    <3> QED  BY <3>1, <3>2
  <2>3. ASSUME NEW v \in Lows(n + 1)  PROVE step(v, f) = step(v, g)
    <3>1. v \in D /\ Height(v[1]) <= n + 1
      OBVIOUS
    <3> HIDE DEF g, D
    <3>2. ASSUME ~heap[v[1]].leaf, NEW d \in {0, 1}  PROVE half(v, f, d) = half(v, g, d)
      <4>1. CASE Son(v[1], d) = Null
        BY <4>1
      <4>2. CASE Son(v[1], d) # Null
        <5> DEFINE w == <<Son(v[1], d), Half(v[2], d)>>
        <5>1. w \in D /\ Height(w[1]) < Height(v[1]) /\ Height(w[1]) \in Nat /\ Height(v[1]) \in Nat
          BY <1>2, <3>1, <3>2, <4>2
        <5>2. w \in Lows(n)
          BY <3>1, <5>1
        <5>3. f[w] = g[w]
          <6> HIDE DEF Lows, w
          <6> QED  BY <2>2, <5>2
        <5> QED  BY <5>3
      <4> QED  BY <4>1, <4>2
    <3> HIDE DEF half
    <3> QED  BY <3>2
  <2>4. g = [v \in Lows(n + 1) |-> step(v, g)]
    <3> HIDE DEF step, Lows
    <3> QED  BY <2>3
  <2> HIDE DEF g, Lows, step
  <2> QED  BY <2>4
<1>6. Bits + 1 \in Good
  <2>1. Nat \subseteq Good
    <3> HIDE DEF Good
    <3> QED  BY <1>4, <1>5, SetInduction
  <2> HIDE DEF Good
  <2> QED  BY <2>1, BitsIsNatural
<1>7. Lows(Bits + 1) = D
  BY <1>3
<1> HIDE DEF D, Lows, step
<1>8. R = [v \in D |-> step(v, R)]
  BY <1>6, <1>7
<1> HIDE DEF R
<1>9. R[<<a, r>>] = step(<<a, r>>, R)
  <2>1. <<a, r>> \in D
    BY DEF D
  <2> QED  BY <1>8, <2>1
<1> QED  BY <1>1, <1>9 DEF step

\* On nodes that fit, range_count_node counts what a scan would.
LEMMA CountIsExact ==
  ASSUME IInv, NodesFit, NEW q \in Box
  PROVE  \A p \in Paths : \A a, r : Fits(a, p) /\ RegionAt(r, p) /\ a # Null =>
           RangeCount(a, q, r) = BagCardinality(Restricted(Contents(a), q))
<1> DEFINE Exact(p) == \A a, r : Fits(a, p) /\ RegionAt(r, p) /\ a # Null =>
                         RangeCount(a, q, r) = BagCardinality(Restricted(Contents(a), q))
           Bad == {Bits - Len(p) : p \in {s \in Paths : ~Exact(s)}}
<1> SUFFICES ASSUME Bad # {}  PROVE FALSE
  OBVIOUS
<1>1. PICK m \in Bad : \A k \in Bad : m <= k
  <2>1. Bad \in SUBSET Nat
    BY PathsAreSequences, BitsIsNatural
  <2> HIDE DEF Bad
  <2> QED  BY <2>1, SmallestElement
<1>2. PICK p \in Paths : m = Bits - Len(p) /\ ~Exact(p)
  BY <1>1
<1>3. PICK a, r : /\ Fits(a, p) /\ RegionAt(r, p) /\ a # Null
                  /\ RangeCount(a, q, r) # BagCardinality(Restricted(Contents(a), q))
  BY <1>2
<1>4. /\ a \in DOMAIN heap /\ IsBagOfPoints(Contents(a)) /\ r \in Regions
      /\ \A x \in DOMAIN Contents(a) : Under(x, p) /\ x \in Points
      /\ NumPoints(a) = BagCardinality(Contents(a))
  BY <1>3, BelowFits DEF RegionAt, IsBagOfPoints
<1> DEFINE half(d) == IF Son(a, d) = Null THEN 0 ELSE RangeCount(Son(a, d), q, Half(r, d))
<1>5. RangeCount(a, q, r) =
        CASE Relation(r.box, q) < 0 -> 0
          [] Relation(r.box, q) > 0 -> NumPoints(a)
          [] OTHER -> IF heap[a].leaf THEN BagCardinality(Restricted(heap[a].records, q))
                      ELSE half(0) + half(1)
  BY <1>4, CountUnfolds
<1> HIDE DEF half
<1>6. ~(Relation(r.box, q) < 0)
  <2> SUFFICES ASSUME Relation(r.box, q) < 0  PROVE FALSE
    OBVIOUS
  <2>1. \A x \in DOMAIN Contents(a) : ~InBox(x, q)
    BY <1>3, <1>4, RelationTells
  <2>2. Restricted(Contents(a), q) = EmptyBag
    BY <1>4, <2>1, RestrictedExtremes
  <2>3. RangeCount(a, q, r) = 0
    BY <1>5 DEF Relation
  <2> QED  BY <1>3, <2>2, <2>3, SizeOfNothing
<1>7. ~(Relation(r.box, q) > 0)
  <2> SUFFICES ASSUME Relation(r.box, q) > 0  PROVE FALSE
    OBVIOUS
  <2>1. \A x \in DOMAIN Contents(a) : InBox(x, q)
    BY <1>3, <1>4, RelationTells
  <2>2. Restricted(Contents(a), q) = Contents(a)
    BY <1>4, <2>1, RestrictedExtremes
  <2>3. RangeCount(a, q, r) = NumPoints(a)
    BY <1>5, <1>6 DEF Relation
  <2> QED  BY <1>3, <1>4, <2>2, <2>3
<1>8. RangeCount(a, q, r) = IF heap[a].leaf THEN BagCardinality(Restricted(heap[a].records, q))
                            ELSE half(0) + half(1)
  BY <1>5, <1>6, <1>7
<1>9. ~heap[a].leaf
  BY <1>3, <1>4, <1>8, ContentsHere
<1>10. /\ Contents(a) = Contents(Son(a, 0)) (+) Contents(Son(a, 1))
       /\ \A d \in {0, 1} : /\ Child(p, d) \in Paths /\ Fits(Son(a, d), Child(p, d))
                            /\ RegionAt(Half(r, d), Child(p, d))
                            /\ Bits - Len(Child(p, d)) = m - 1
                            /\ IsBagOfPoints(Contents(Son(a, d)))
  BY <1>2, <1>3, <1>9, DownFits, HalfIsRegion
<1>11. ASSUME NEW d \in {0, 1}
       PROVE  half(d) = BagCardinality(Restricted(Contents(Son(a, d)), q))
  <2>1. Exact(Child(p, d))
    <3>1. m \in Nat
      BY <1>2, PathsAreSequences, BitsIsNatural
    <3>2. ~Exact(Child(p, d)) => m - 1 \in Bad
      BY <1>10
    <3> HIDE DEF Bad, Exact
    <3> QED  BY <1>1, <3>1, <3>2
  <2>2. CASE Son(a, d) = Null
    <3>1. Contents(Son(a, d)) = EmptyBag /\ DOMAIN EmptyBag = {}
      BY <2>2, ContentsHere DEF EmptyBag, SetToBag
    <3>2. Restricted(Contents(Son(a, d)), q) = EmptyBag
      BY <1>10, <3>1, RestrictedExtremes
    <3> QED  BY <2>2, <3>2, SizeOfNothing DEF half
  <2>3. CASE Son(a, d) # Null
    BY <1>10, <2>1, <2>3 DEF half
  <2> QED  BY <2>2, <2>3
<1>12. Restricted(Contents(a), q) = Restricted(Contents(Son(a, 0)), q) (+) Restricted(Contents(Son(a, 1)), q)
  BY <1>10, RestrictedSum
<1>13. BagCardinality(Restricted(Contents(a), q)) =
         BagCardinality(Restricted(Contents(Son(a, 0)), q)) + BagCardinality(Restricted(Contents(Son(a, 1)), q))
  BY <1>10, <1>12, CopiesInBox, SizeOfSum
<1> QED  BY <1>3, <1>8, <1>9, <1>11, <1>13

-----------------------------------------------------------------------------
(* diff.                                                                   *)

BagPairs == [add : BagsOfPoints, remove : BagsOfPoints]

\* What merge_pts and the sums of changes return.
LEMMA ChangesAreBags ==
  /\ \A P, Q \in BagsOfPoints : Changes(P, Q) \in BagPairs /\ MergePts(P, Q) \in BagPairs
  /\ \A c, d \in BagPairs : Both(c, d) \in BagPairs /\ Reversed(c) \in BagPairs
  /\ \A P \in BagsOfPoints : \A q : Part(P, q) \in BagsOfPoints
  /\ EmptyBag \in BagsOfPoints
<1>1. ASSUME NEW P \in BagsOfPoints, NEW Q \in BagsOfPoints
      PROVE  Changes(P, Q) \in BagPairs /\ P (+) Q \in BagsOfPoints /\ P (-) Q \in BagsOfPoints
  <2>1. Changes(P, Q) \in BagPairs
    BY DEF Changes, BagPairs
  <2> QED  BY <2>1, BagsAreASet, UnionOfBags, DifferenceOfBags
<1>2. \A c \in BagPairs : c.add \in BagsOfPoints /\ c.remove \in BagsOfPoints
  BY DEF BagPairs
<1>3. \A P, Q \in BagsOfPoints : MergePts(P, Q) \in BagPairs
  BY <1>1 DEF MergePts
<1>4. \A c, d \in BagPairs : Both(c, d) \in BagPairs /\ Reversed(c) \in BagPairs
  BY <1>1, <1>2 DEF Both, Reversed
<1>5. \A P \in BagsOfPoints : \A q : Part(P, q) \in BagsOfPoints
  BY PartOfBag, BagsAreASet
<1>6. EmptyBag \in BagsOfPoints
  BY EmptyBagOfPoints, BagsAreASet
<1> QED  BY <1>1, <1>3, <1>4, <1>5, <1>6

\* Routes go on to both sides.
LEMMA RoutesGoOn == \A p \in Routes, d \in {0, 1} : Child(p, d) \in Routes
BY DEF Routes, Child

\* One call of leaf_inte_diff.
LEMMA LeafDiffUnfolds ==
  ASSUME IInv, NEW P \in BagsOfPoints, NEW a \in Nodes, NEW q \in Routes
  PROVE  /\ LeafInteDiff(P, a, q) =
              IF a = Null THEN Changes(EmptyBag, Part(P, q))
              ELSE IF heap[a].leaf THEN MergePts(Part(P, q), heap[a].records)
              ELSE Both(LeafInteDiff(P, Son(a, 0), Child(q, 0)), LeafInteDiff(P, Son(a, 1), Child(q, 1)))
         /\ LeafInteDiff(P, a, q) \in BagPairs
<1> DEFINE D == Nodes \X Routes
           V == BagPairs
           rank == [v \in D |-> Height(v[1])]
           step(v, f) == IF v[1] = Null THEN Changes(EmptyBag, Part(P, v[2]))
                         ELSE IF heap[v[1]].leaf THEN MergePts(Part(P, v[2]), heap[v[1]].records)
                         ELSE Both(f[<<Son(v[1], 0), Child(v[2], 0)>>],
                                   f[<<Son(v[1], 1), Child(v[2], 1)>>])
           Compute == [vf \in D \X [D -> V] |-> step(vf[1], vf[2])]
           R == CHOOSE f : f = [v \in D |-> step(v, f)]
<1>1. \A x, s : LeafInteDiff(P, x, s) = R[<<x, s>>]
  BY DEF LeafInteDiff
<1>2. ASSUME NEW v \in D, v[1] # Null, ~heap[v[1]].leaf, NEW d \in {0, 1}
      PROVE  LET w == <<Son(v[1], d), Child(v[2], d)>> IN w \in D /\ rank[w] < rank[v]
  <2>1. v[1] \in DOMAIN heap /\ v[2] \in Routes
    BY <1>2 DEF Nodes
  <2>2. Son(v[1], d) \in Nodes /\ Height(Son(v[1], d)) < Height(v[1]) /\ Child(v[2], d) \in Routes
    BY <1>2, <2>1, SonsAreLower, RoutesGoOn
  <2> QED  BY <2>2
<1>3. ASSUME NEW v \in D, NEW f, \A w \in D : rank[w] < rank[v] => f[w] \in V
      PROVE  step(v, f) \in V
  <2>1. CASE v[1] = Null
    BY <2>1, ChangesAreBags
  <2>2. CASE v[1] # Null /\ heap[v[1]].leaf
    <3>1. heap[v[1]].records \in BagsOfPoints
      BY <2>2, LeafRecordsAreBags, BagsAreASet DEF Nodes
    <3> QED  BY <2>2, <3>1, ChangesAreBags
  <2>3. CASE v[1] # Null /\ ~heap[v[1]].leaf
    <3>1. \A d \in {0, 1} : f[<<Son(v[1], d), Child(v[2], d)>>] \in V
      BY <1>2, <1>3, <2>3
    <3> QED  BY <2>3, <3>1, ChangesAreBags
  <2> QED  BY <2>1, <2>2, <2>3
<1>4. ASSUME NEW v \in D, NEW g, NEW h, \A w \in D : rank[w] < rank[v] => g[w] = h[w]
      PROVE  step(v, g) = step(v, h)
  <2>1. CASE v[1] # Null /\ ~heap[v[1]].leaf
    <3>1. \A d \in {0, 1} : LET w == <<Son(v[1], d), Child(v[2], d)>> IN g[w] = h[w]
      BY <1>2, <1>4, <2>1
    <3> QED  BY <2>1, <3>1
  <2> QED  BY <2>1
<1>5. rank \in [D -> Nat] /\ V # {}
  <2>1. Changes(EmptyBag, EmptyBag) \in BagPairs
    BY ChangesAreBags
  <2> QED  BY <2>1, SonsAreLower
<1> HIDE DEF D, V, rank, step
<1>6. CallsLower(D, V, rank, Compute)
  <2>1. \A v \in D, f \in [D -> V] : Compute[<<v, f>>] = step(v, f) /\ step(v, f) \in V
    BY <1>3
  <2>2. Compute \in [D \X [D -> V] -> V]
    BY <2>1
  <2> HIDE DEF Compute
  <2> QED  BY <1>4, <1>5, <2>1, <2>2 DEF CallsLower
<1>7. PICK f \in [D -> V] : \A v \in D : f[v] = Compute[<<v, f>>]
  <2> HIDE DEF Compute
  <2> QED  BY <1>6, RecursionEnds
<1>8. f = [v \in D |-> step(v, f)]
  BY <1>7
<1>9. R = [v \in D |-> step(v, R)]
  BY <1>8
<1> HIDE DEF R
<1>10. <<a, q>> \in D
  BY DEF D
<1>11. R[<<a, q>>] = step(<<a, q>>, R)
  BY <1>9, <1>10
<1>12. \A v \in D : R[v] \in V
  BY <1>3, <1>5, <1>9, TypedByRank
<1>13. LeafInteDiff(P, a, q) \in V
  BY <1>1, <1>10, <1>12
<1> QED  BY <1>1, <1>11, <1>13 DEF step, V

\* One call of diff.
LEMMA DiffUnfolds ==
  ASSUME IInv, NEW a1 \in Nodes, NEW a2 \in Nodes, NEW q \in Routes
  PROVE  /\ Diff(a1, a2, q) =
              IF a1 = a2 THEN Changes(EmptyBag, EmptyBag)
              ELSE IF a1 = Null THEN Changes(Contents(a2), EmptyBag)
              ELSE IF a2 = Null THEN Changes(EmptyBag, Contents(a1))
              ELSE IF heap[a1].leaf /\ heap[a2].leaf
              THEN MergePts(heap[a1].records, heap[a2].records)
              ELSE IF heap[a1].leaf THEN LeafInteDiff(heap[a1].records, a2, q)
              ELSE IF heap[a2].leaf THEN Reversed(LeafInteDiff(heap[a2].records, a1, q))
              ELSE Both(Diff(Son(a1, 0), Son(a2, 0), Child(q, 0)),
                        Diff(Son(a1, 1), Son(a2, 1), Child(q, 1)))
         /\ Diff(a1, a2, q) \in BagPairs
<1> DEFINE D == Nodes \X Nodes \X Routes
           V == BagPairs
           rank == [v \in D |-> Height(v[1])]
           step(v, f) == CASE v[1] = v[2] -> Changes(EmptyBag, EmptyBag)
                           [] v[1] # v[2] /\ v[1] = Null -> Changes(Contents(v[2]), EmptyBag)
                           [] v[1] # v[2] /\ v[1] # Null /\ v[2] = Null -> Changes(EmptyBag, Contents(v[1]))
                           [] OTHER ->
                                IF heap[v[1]].leaf /\ heap[v[2]].leaf
                                THEN MergePts(heap[v[1]].records, heap[v[2]].records)
                                ELSE IF heap[v[1]].leaf
                                THEN LeafInteDiff(heap[v[1]].records, v[2], v[3])
                                ELSE IF heap[v[2]].leaf
                                THEN Reversed(LeafInteDiff(heap[v[2]].records, v[1], v[3]))
                                ELSE Both(f[<<Son(v[1], 0), Son(v[2], 0), Child(v[3], 0)>>],
                                          f[<<Son(v[1], 1), Son(v[2], 1), Child(v[3], 1)>>])
           Compute == [vf \in D \X [D -> V] |-> step(vf[1], vf[2])]
           R == CHOOSE f : f = [v \in D |-> step(v, f)]
<1>1. \A x, y, s : Diff(x, y, s) = R[<<x, y, s>>]
  BY DEF Diff
<1>2. ASSUME NEW v \in D, v[1] # Null, v[2] # Null, ~heap[v[1]].leaf, ~heap[v[2]].leaf, NEW d \in {0, 1}
      PROVE  LET w == <<Son(v[1], d), Son(v[2], d), Child(v[3], d)>> IN w \in D /\ rank[w] < rank[v]
  <2>1. v[1] \in DOMAIN heap /\ v[2] \in DOMAIN heap /\ v[3] \in Routes
    BY <1>2 DEF Nodes
  <2>2. /\ Son(v[1], d) \in Nodes /\ Height(Son(v[1], d)) < Height(v[1])
        /\ Son(v[2], d) \in Nodes /\ Child(v[3], d) \in Routes
    BY <1>2, <2>1, SonsAreLower, RoutesGoOn
  <2> QED  BY <2>2
<1>3. ASSUME NEW v \in D, NEW f, \A w \in D : rank[w] < rank[v] => f[w] \in V
      PROVE  step(v, f) \in V
  <2> DEFINE x == v[1]
             y == v[2]
  <2>0. /\ x \in Nodes /\ y \in Nodes /\ v[3] \in Routes
        /\ \A z \in Nodes : /\ Contents(z) \in BagsOfPoints
                            /\ z # Null => z \in DOMAIN heap
                            /\ z # Null /\ heap[z].leaf => heap[z].records \in BagsOfPoints
    BY <1>3, ContentsHere, LeafRecordsAreBags, BagsAreASet DEF Nodes
  <2>1. CASE x = y \/ x = Null \/ y = Null
    BY <2>0, <2>1, ChangesAreBags
  <2>2. CASE x # y /\ x # Null /\ y # Null /\ heap[x].leaf /\ heap[y].leaf
    BY <2>0, <2>2, ChangesAreBags
  <2>3. CASE x # y /\ x # Null /\ y # Null /\ heap[x].leaf /\ ~heap[y].leaf
    BY <2>0, <2>3, LeafDiffUnfolds
  <2>4. CASE x # y /\ x # Null /\ y # Null /\ ~heap[x].leaf /\ heap[y].leaf
    <3>1. LeafInteDiff(heap[y].records, x, v[3]) \in BagPairs
      BY <2>0, <2>4, LeafDiffUnfolds
    <3> QED  BY <2>4, <3>1, ChangesAreBags
  <2>5. CASE x # y /\ x # Null /\ y # Null /\ ~heap[x].leaf /\ ~heap[y].leaf
    <3>1. \A d \in {0, 1} : f[<<Son(v[1], d), Son(v[2], d), Child(v[3], d)>>] \in V
      BY <1>2, <1>3, <2>5
    <3> QED  BY <2>5, <3>1, ChangesAreBags
  <2> QED  BY <2>1, <2>2, <2>3, <2>4, <2>5
<1>4. ASSUME NEW v \in D, NEW g, NEW h, \A w \in D : rank[w] < rank[v] => g[w] = h[w]
      PROVE  step(v, g) = step(v, h)
  <2>1. CASE v[1] # v[2] /\ v[1] # Null /\ v[2] # Null /\ ~heap[v[1]].leaf /\ ~heap[v[2]].leaf
    <3>1. \A d \in {0, 1} : LET w == <<Son(v[1], d), Son(v[2], d), Child(v[3], d)>> IN g[w] = h[w]
      BY <1>2, <1>4, <2>1
    <3> QED  BY <2>1, <3>1
  <2> QED  BY <2>1
<1>5. rank \in [D -> Nat] /\ V # {}
  <2>1. Changes(EmptyBag, EmptyBag) \in BagPairs
    BY ChangesAreBags
  <2> QED  BY <2>1, SonsAreLower
<1> HIDE DEF D, V, rank, step
<1>6. CallsLower(D, V, rank, Compute)
  <2>1. \A v \in D, f \in [D -> V] : Compute[<<v, f>>] = step(v, f) /\ step(v, f) \in V
    BY <1>3
  <2>2. Compute \in [D \X [D -> V] -> V]
    BY <2>1
  <2> HIDE DEF Compute
  <2> QED  BY <1>4, <1>5, <2>1, <2>2 DEF CallsLower
<1>7. PICK f \in [D -> V] : \A v \in D : f[v] = Compute[<<v, f>>]
  <2> HIDE DEF Compute
  <2> QED  BY <1>6, RecursionEnds
<1>8. f = [v \in D |-> step(v, f)]
  BY <1>7
<1>9. R = [v \in D |-> step(v, R)]
  BY <1>8
<1> HIDE DEF R
<1>10. <<a1, a2, q>> \in D
  BY DEF D
<1>11. R[<<a1, a2, q>>] = step(<<a1, a2, q>>, R)
  BY <1>9, <1>10
<1>12. \A v \in D : R[v] \in V
  BY <1>3, <1>5, <1>9, TypedByRank
<1>13. Diff(a1, a2, q) \in V
  BY <1>1, <1>10, <1>12
<1> QED  BY <1>1, <1>11, <1>13 DEF step, V

\* What holds of a path when it holds of its children holds of every path.
LEMMA PathInduction ==
  ASSUME NEW G,
         \A p \in Paths : (Len(p) < Bits => \A d \in {0, 1} : Child(p, d) \in G) => p \in G
  PROVE  \A p \in Paths : p \in G
<1> DEFINE Bad == {Bits - Len(p) : p \in {s \in Paths : s \notin G}}
<1> SUFFICES ASSUME Bad # {}  PROVE FALSE
  OBVIOUS
<1>1. PICK m \in Bad : \A k \in Bad : m <= k
  <2>1. Bad \in SUBSET Nat
    BY PathsAreSequences, BitsIsNatural
  <2> HIDE DEF Bad
  <2> QED  BY <2>1, SmallestElement
<1>2. PICK p \in Paths : m = Bits - Len(p) /\ p \notin G
  BY <1>1
<1>3. ASSUME Len(p) < Bits, NEW d \in {0, 1}  PROVE Child(p, d) \in G
  <2>1. Child(p, d) \in Paths /\ Bits - Len(Child(p, d)) = m - 1 /\ m \in Nat
    <3>1. Child(p, d) \in Paths /\ Len(Child(p, d)) = Len(p) + 1
      BY <1>3, ChildrenOfPath
    <3>2. Len(p) \in Nat /\ Bits \in Nat
      BY PathTypes, BitsIsNatural
    <3> QED  BY <1>2, <1>3, <3>1, <3>2
  <2>2. Child(p, d) \notin G => m - 1 \in Bad
    BY <2>1
  <2> HIDE DEF Bad
  <2> QED  BY <1>1, <2>1, <2>2
<1> QED  BY <1>2, <1>3

\* The differences of two halves, which share no point, add up.
LEMMA DifferenceOfHalves ==
  ASSUME NEW p \in Paths, Len(p) < Bits,
         NEW A0 \in BagsOfPoints, NEW A1 \in BagsOfPoints,
         NEW B0 \in BagsOfPoints, NEW B1 \in BagsOfPoints,
         \A x \in DOMAIN A0 \cup DOMAIN B0 : Under(x, Child(p, 0)),
         \A x \in DOMAIN A1 \cup DOMAIN B1 : Under(x, Child(p, 1))
  PROVE  (B0 (-) A0) (+) (B1 (-) A1) = (B0 (+) B1) (-) (A0 (+) A1)
<1>1. /\ IsBagOfPoints(A0) /\ IsBagOfPoints(A1) /\ IsBagOfPoints(B0) /\ IsBagOfPoints(B1)
      /\ IsBagOfPoints(B0 (-) A0) /\ IsBagOfPoints(B1 (-) A1)
      /\ IsBagOfPoints(A0 (+) A1) /\ IsBagOfPoints(B0 (+) B1)
  BY BagsAreASet, UnionOfBags, DifferenceOfBags
<1>2. ASSUME NEW x \in Points
      PROVE  CopiesOf(x, (B0 (-) A0) (+) (B1 (-) A1)) = CopiesOf(x, (B0 (+) B1) (-) (A0 (+) A1))
  <2>1. /\ CopiesOf(x, A0) \in Nat /\ CopiesOf(x, A1) \in Nat
        /\ CopiesOf(x, B0) \in Nat /\ CopiesOf(x, B1) \in Nat
    BY <1>1, CopiesAreNumbers
  <2>2. \/ CopiesOf(x, A0) = 0 /\ CopiesOf(x, B0) = 0
        \/ CopiesOf(x, A1) = 0 /\ CopiesOf(x, B1) = 0
    BY UnderChildren DEF CopiesOf
  <2>3. CopiesOf(x, (B0 (-) A0) (+) (B1 (-) A1)) = CopiesOf(x, B0 (-) A0) + CopiesOf(x, B1 (-) A1)
    BY <1>1, CopiesInSum
  <2>4. /\ CopiesOf(x, B0 (-) A0) = IF CopiesOf(x, B0) > CopiesOf(x, A0)
                                    THEN CopiesOf(x, B0) - CopiesOf(x, A0) ELSE 0
        /\ CopiesOf(x, B1 (-) A1) = IF CopiesOf(x, B1) > CopiesOf(x, A1)
                                    THEN CopiesOf(x, B1) - CopiesOf(x, A1) ELSE 0
    BY <1>1, CopiesInDifference
  <2>5. /\ CopiesOf(x, B0 (+) B1) = CopiesOf(x, B0) + CopiesOf(x, B1)
        /\ CopiesOf(x, A0 (+) A1) = CopiesOf(x, A0) + CopiesOf(x, A1)
    BY <1>1, CopiesInSum
  <2>6. CopiesOf(x, (B0 (+) B1) (-) (A0 (+) A1)) =
          IF CopiesOf(x, B0 (+) B1) > CopiesOf(x, A0 (+) A1)
          THEN CopiesOf(x, B0 (+) B1) - CopiesOf(x, A0 (+) A1) ELSE 0
    BY <1>1, CopiesInDifference
  <2> QED  BY <2>1, <2>2, <2>3, <2>4, <2>5, <2>6
<1> QED  BY <1>1, <1>2, EqualBags, UnionOfBags, DifferenceOfBags

\* So merge_pts may be done half by half.
LEMMA MergedHalves ==
  ASSUME NEW p \in Paths, Len(p) < Bits,
         NEW A0 \in BagsOfPoints, NEW A1 \in BagsOfPoints,
         NEW B0 \in BagsOfPoints, NEW B1 \in BagsOfPoints,
         \A x \in DOMAIN A0 \cup DOMAIN B0 : Under(x, Child(p, 0)),
         \A x \in DOMAIN A1 \cup DOMAIN B1 : Under(x, Child(p, 1))
  PROVE  Both(MergePts(A0, B0), MergePts(A1, B1)) = MergePts(A0 (+) A1, B0 (+) B1)
<1>1. (B0 (-) A0) (+) (B1 (-) A1) = (B0 (+) B1) (-) (A0 (+) A1)
  BY DifferenceOfHalves
<1>2. (A0 (-) B0) (+) (A1 (-) B1) = (A0 (+) A1) (-) (B0 (+) B1)
  BY DifferenceOfHalves
<1> QED  BY <1>1, <1>2 DEF Both, MergePts, Changes

\* The points of a region that a route leads to.
LEMMA PartIsUnder ==
  ASSUME NEW P \in BagsOfPoints, NEW p
  PROVE  Part(P, p) \in BagsOfPoints /\ \A x \in DOMAIN Part(P, p) : Under(x, p)
BY ChangesAreBags DEF Part

\* Merging with nothing, with itself, and the other way round.
LEMMA MergesAtEnds ==
  /\ \A P \in BagsOfPoints : /\ MergePts(P, EmptyBag) = Changes(EmptyBag, P)
                             /\ MergePts(EmptyBag, P) = Changes(P, EmptyBag)
                             /\ MergePts(P, P) = Changes(EmptyBag, EmptyBag)
  /\ \A P, Q \in BagsOfPoints : Reversed(MergePts(P, Q)) = MergePts(Q, P)
<1>1. ASSUME NEW P \in BagsOfPoints  PROVE P (-) P = EmptyBag
  <2>1. IsBagOfPoints(P) /\ IsBagOfPoints(P (-) P)
    BY BagsAreASet, DifferenceOfBags
  <2>2. ASSUME NEW x \in Points  PROVE CopiesOf(x, P (-) P) = 0
    <3>1. CopiesOf(x, P) \in Nat
      BY <2>1, CopiesAreNumbers
    <3> QED  BY <2>1, <3>1, CopiesInDifference
  <2> QED  BY <2>1, <2>2, NothingIsEmpty
<1>2. \A P \in BagsOfPoints : P (-) EmptyBag = P /\ EmptyBag (-) P = EmptyBag
  BY BagsAreASet, SumWithNothing
<1> QED  BY <1>1, <1>2 DEF MergePts, Changes, Reversed

\* leaf_inte_diff of a slice of points and a tree for the same region.
LEMMA LeafDiffIsExact ==
  ASSUME IInv, NodesFit, NEW P \in BagsOfPoints
  PROVE  \A p \in Paths : \A a : Fits(a, p) => LeafInteDiff(P, a, p) = MergePts(Part(P, p), Contents(a))
<1> DEFINE Exact(p) == \A a : Fits(a, p) => LeafInteDiff(P, a, p) = MergePts(Part(P, p), Contents(a))
           G == {p \in Paths : Exact(p)}
<1>1. ASSUME NEW p \in Paths, Len(p) < Bits => \A d \in {0, 1} : Child(p, d) \in G
      PROVE  Exact(p)
  <2> SUFFICES ASSUME NEW a, Fits(a, p)
               PROVE  LeafInteDiff(P, a, p) = MergePts(Part(P, p), Contents(a))
    OBVIOUS
  <2>1. /\ a \in Nodes /\ p \in Routes /\ Part(P, p) \in BagsOfPoints
        /\ Contents(a) \in BagsOfPoints
    BY BelowFits, PathsAreSequences, PartIsUnder, BagsAreASet DEF Nodes, Routes
  <2>2. CASE a = Null
    BY <2>1, <2>2, LeafDiffUnfolds, ContentsHere, MergesAtEnds
  <2>3. CASE a # Null /\ heap[a].leaf
    BY <2>1, <2>3, LeafDiffUnfolds, ContentsHere DEF Nodes
  <2>4. CASE a # Null /\ ~heap[a].leaf
    <3>1. /\ Len(p) < Bits
          /\ Contents(a) = Contents(Son(a, 0)) (+) Contents(Son(a, 1))
          /\ \A d \in {0, 1} : Child(p, d) \in Paths /\ Fits(Son(a, d), Child(p, d))
      BY <2>4, DownFits
    <3>2. \A d \in {0, 1} :
            LeafInteDiff(P, Son(a, d), Child(p, d)) = MergePts(Part(P, Child(p, d)), Contents(Son(a, d)))
      BY <1>1, <3>1
    <3>3. \A d \in {0, 1} :
            /\ Part(P, Child(p, d)) \in BagsOfPoints /\ Contents(Son(a, d)) \in BagsOfPoints
            /\ \A x \in DOMAIN Part(P, Child(p, d)) \cup DOMAIN Contents(Son(a, d)) : Under(x, Child(p, d))
      BY <3>1, BelowFits, PartIsUnder, BagsAreASet
    <3>4. Part(P, p) = Part(P, Child(p, 0)) (+) Part(P, Child(p, 1))
      BY <3>1, PartsOfPart, BagsAreASet
    <3>5. LeafInteDiff(P, a, p) = Both(LeafInteDiff(P, Son(a, 0), Child(p, 0)),
                                       LeafInteDiff(P, Son(a, 1), Child(p, 1)))
      BY <2>1, <2>4, LeafDiffUnfolds
    <3> QED  BY <3>1, <3>2, <3>3, <3>4, <3>5, MergedHalves
  <2> QED  BY <2>2, <2>3, <2>4
<1>2. \A p \in Paths : p \in G
  <2>1. \A p \in Paths : (Len(p) < Bits => \A d \in {0, 1} : Child(p, d) \in G) => p \in G
    <3> HIDE DEF Exact
    <3> QED  BY <1>1
  <2> HIDE DEF G
  <2> QED  BY <2>1, PathInduction
<1> QED  BY <1>2

\* diff of two trees for the same region.
LEMMA DiffIsExact ==
  ASSUME IInv, NodesFit
  PROVE  \A p \in Paths : \A a1, a2 : Fits(a1, p) /\ Fits(a2, p) =>
           Diff(a1, a2, p) = MergePts(Contents(a1), Contents(a2))
<1> DEFINE Exact(p) == \A a1, a2 : Fits(a1, p) /\ Fits(a2, p) =>
                         Diff(a1, a2, p) = MergePts(Contents(a1), Contents(a2))
           G == {p \in Paths : Exact(p)}
<1>1. ASSUME NEW p \in Paths, Len(p) < Bits => \A d \in {0, 1} : Child(p, d) \in G
      PROVE  Exact(p)
  <2> SUFFICES ASSUME NEW a1, NEW a2, Fits(a1, p), Fits(a2, p)
               PROVE  Diff(a1, a2, p) = MergePts(Contents(a1), Contents(a2))
    OBVIOUS
  <2>1. /\ a1 \in Nodes /\ a2 \in Nodes /\ p \in Routes
        /\ Contents(a1) \in BagsOfPoints /\ Contents(a2) \in BagsOfPoints
        /\ \A x \in DOMAIN Contents(a1) \cup DOMAIN Contents(a2) : Under(x, p)
    BY BelowFits, PathsAreSequences, BagsAreASet DEF Nodes, Routes
  <2>2. \A B \in BagsOfPoints : (\A x \in DOMAIN B : Under(x, p)) => Part(B, p) = B
    BY PartIsAll, BagsAreASet
  <2>3. CASE a1 = a2
    BY <2>1, <2>3, DiffUnfolds, MergesAtEnds
  <2>4. CASE a1 # a2 /\ a1 = Null
    BY <2>1, <2>4, DiffUnfolds, MergesAtEnds, ContentsHere
  <2>5. CASE a1 # a2 /\ a1 # Null /\ a2 = Null
    BY <2>1, <2>5, DiffUnfolds, MergesAtEnds, ContentsHere
  <2>6. CASE a1 # a2 /\ a1 # Null /\ a2 # Null /\ heap[a1].leaf /\ heap[a2].leaf
    BY <2>1, <2>6, DiffUnfolds, ContentsHere DEF Nodes
  <2>7. CASE a1 # a2 /\ a1 # Null /\ a2 # Null /\ heap[a1].leaf /\ ~heap[a2].leaf
    <3>1. Diff(a1, a2, p) = LeafInteDiff(heap[a1].records, a2, p) /\ heap[a1].records = Contents(a1)
      BY <2>1, <2>7, DiffUnfolds, ContentsHere DEF Nodes
    <3> QED  BY <2>1, <2>2, <3>1, LeafDiffIsExact
  <2>8. CASE a1 # a2 /\ a1 # Null /\ a2 # Null /\ ~heap[a1].leaf /\ heap[a2].leaf
    <3>1. Diff(a1, a2, p) = Reversed(LeafInteDiff(heap[a2].records, a1, p)) /\ heap[a2].records = Contents(a2)
      BY <2>1, <2>8, DiffUnfolds, ContentsHere DEF Nodes
    <3>2. LeafInteDiff(Contents(a2), a1, p) = MergePts(Contents(a2), Contents(a1))
      BY <2>1, <2>2, LeafDiffIsExact
    <3> QED  BY <2>1, <3>1, <3>2, MergesAtEnds
  <2>9. CASE a1 # a2 /\ a1 # Null /\ a2 # Null /\ ~heap[a1].leaf /\ ~heap[a2].leaf
    <3>1. /\ Len(p) < Bits
          /\ Contents(a1) = Contents(Son(a1, 0)) (+) Contents(Son(a1, 1))
          /\ Contents(a2) = Contents(Son(a2, 0)) (+) Contents(Son(a2, 1))
          /\ \A d \in {0, 1} : /\ Child(p, d) \in Paths /\ Fits(Son(a1, d), Child(p, d))
                               /\ Fits(Son(a2, d), Child(p, d))
      BY <2>9, DownFits
    <3>2. \A d \in {0, 1} :
            Diff(Son(a1, d), Son(a2, d), Child(p, d)) = MergePts(Contents(Son(a1, d)), Contents(Son(a2, d)))
      BY <1>1, <3>1
    <3>3. \A d \in {0, 1} :
            /\ Contents(Son(a1, d)) \in BagsOfPoints /\ Contents(Son(a2, d)) \in BagsOfPoints
            /\ \A x \in DOMAIN Contents(Son(a1, d)) \cup DOMAIN Contents(Son(a2, d)) : Under(x, Child(p, d))
      BY <3>1, BelowFits, BagsAreASet
    <3>4. Diff(a1, a2, p) = Both(Diff(Son(a1, 0), Son(a2, 0), Child(p, 0)),
                                 Diff(Son(a1, 1), Son(a2, 1), Child(p, 1)))
      BY <2>1, <2>9, DiffUnfolds
    <3> QED  BY <3>1, <3>2, <3>3, <3>4, MergedHalves
  <2> QED  BY <2>3, <2>4, <2>5, <2>6, <2>7, <2>8, <2>9
<1>2. \A p \in Paths : p \in G
  <2>1. \A p \in Paths : (Len(p) < Bits => \A d \in {0, 1} : Child(p, d) \in G) => p \in G
    <3> HIDE DEF Exact
    <3> QED  BY <1>1
  <2> HIDE DEF G
  <2> QED  BY <2>1, PathInduction
<1> QED  BY <1>2

-----------------------------------------------------------------------------
(* spatial_diff.                                                           *)

\* What is left of changes in a box.
LEMMA WithinIsBags ==
  /\ \A c \in BagPairs : \A q : Within(c, q) \in BagPairs
  /\ \A c, d \in BagPairs : \A q : Within(Both(c, d), q) = Both(Within(c, q), Within(d, q))
  /\ \A c \in BagPairs : \A q : Reversed(Within(c, q)) = Within(Reversed(c), q)
<1>1. \A c \in BagPairs : c.add \in BagsOfPoints /\ c.remove \in BagsOfPoints
  BY DEF BagPairs
<1>2. \A B \in BagsOfPoints : \A q : Restricted(B, q) \in BagsOfPoints
  BY BagsAreASet, CopiesInBox
<1>3. \A A, B \in BagsOfPoints : \A q : Restricted(A (+) B, q) = Restricted(A, q) (+) Restricted(B, q)
  BY BagsAreASet, RestrictedSum
<1>4. \A c \in BagPairs : \A q : Within(c, q) \in BagPairs
  BY <1>1, <1>2 DEF Within, Changes, BagPairs
<1>5. \A c, d \in BagPairs : \A q : Within(Both(c, d), q) = Both(Within(c, q), Within(d, q))
  BY <1>1, <1>3 DEF Within, Both, Changes
<1>6. \A c \in BagPairs : \A q : Reversed(Within(c, q)) = Within(Reversed(c), q)
  BY DEF Within, Reversed, Changes
<1> QED  BY <1>4, <1>5, <1>6

\* One call of leaf_inte_diff with a query box.
LEMMA SpatialLeafDiffUnfolds ==
  ASSUME IInv, NEW P \in BagsOfPoints, NEW a \in Nodes, NEW q \in Routes, NEW box, NEW r \in Regions
  PROVE  /\ SpatialLeafInteDiff(P, a, q, box, r) =
              IF Relation(r.box, box) < 0 THEN Changes(EmptyBag, EmptyBag)
              ELSE IF a = Null THEN Within(Changes(EmptyBag, Part(P, q)), box)
              ELSE IF heap[a].leaf THEN Within(MergePts(Part(P, q), heap[a].records), box)
              ELSE Both(SpatialLeafInteDiff(P, Son(a, 0), Child(q, 0), box, Half(r, 0)),
                        SpatialLeafInteDiff(P, Son(a, 1), Child(q, 1), box, Half(r, 1)))
         /\ SpatialLeafInteDiff(P, a, q, box, r) \in BagPairs
<1> DEFINE D == Nodes \X Routes \X Regions
           V == BagPairs
           rank == [v \in D |-> Height(v[1])]
           step(v, f) == IF Relation(v[3].box, box) < 0 THEN Changes(EmptyBag, EmptyBag)
                         ELSE IF v[1] = Null THEN Within(Changes(EmptyBag, Part(P, v[2])), box)
                         ELSE IF heap[v[1]].leaf
                         THEN Within(MergePts(Part(P, v[2]), heap[v[1]].records), box)
                         ELSE Both(f[<<Son(v[1], 0), Child(v[2], 0), Half(v[3], 0)>>],
                                   f[<<Son(v[1], 1), Child(v[2], 1), Half(v[3], 1)>>])
           Compute == [vf \in D \X [D -> V] |-> step(vf[1], vf[2])]
           R == CHOOSE f : f = [v \in D |-> step(v, f)]
<1>1. \A x, s, t : SpatialLeafInteDiff(P, x, s, box, t) = R[<<x, s, t>>]
  BY DEF SpatialLeafInteDiff
<1>2. ASSUME NEW v \in D, v[1] # Null, ~heap[v[1]].leaf, NEW d \in {0, 1}
      PROVE  LET w == <<Son(v[1], d), Child(v[2], d), Half(v[3], d)>> IN w \in D /\ rank[w] < rank[v]
  <2>1. v[1] \in DOMAIN heap /\ v[2] \in Routes /\ v[3] \in Regions
    BY <1>2 DEF Nodes
  <2>2. /\ Son(v[1], d) \in Nodes /\ Height(Son(v[1], d)) < Height(v[1])
        /\ Child(v[2], d) \in Routes /\ Half(v[3], d) \in Regions
    BY <1>2, <2>1, SonsAreLower, RoutesGoOn, HalvesOfRegion
  <2> QED  BY <2>2
<1>3. ASSUME NEW v \in D, NEW f, \A w \in D : rank[w] < rank[v] => f[w] \in V
      PROVE  step(v, f) \in V
  <2>1. CASE v[1] = Null
    BY <2>1, ChangesAreBags, WithinIsBags
  <2>2. CASE v[1] # Null /\ heap[v[1]].leaf
    <3>1. heap[v[1]].records \in BagsOfPoints
      BY <2>2, LeafRecordsAreBags, BagsAreASet DEF Nodes
    <3> QED  BY <2>2, <3>1, ChangesAreBags, WithinIsBags
  <2>3. CASE v[1] # Null /\ ~heap[v[1]].leaf
    <3>1. \A d \in {0, 1} : f[<<Son(v[1], d), Child(v[2], d), Half(v[3], d)>>] \in V
      BY <1>2, <1>3, <2>3
    <3> QED  BY <2>3, <3>1, ChangesAreBags
  <2> QED  BY <2>1, <2>2, <2>3
<1>4. ASSUME NEW v \in D, NEW g, NEW h, \A w \in D : rank[w] < rank[v] => g[w] = h[w]
      PROVE  step(v, g) = step(v, h)
  <2>1. CASE v[1] # Null /\ ~heap[v[1]].leaf
    <3>1. \A d \in {0, 1} : LET w == <<Son(v[1], d), Child(v[2], d), Half(v[3], d)>> IN g[w] = h[w]
      BY <1>2, <1>4, <2>1
    <3> QED  BY <2>1, <3>1
  <2> QED  BY <2>1
<1>5. rank \in [D -> Nat] /\ V # {}
  <2>1. Changes(EmptyBag, EmptyBag) \in BagPairs
    BY ChangesAreBags
  <2> QED  BY <2>1, SonsAreLower
<1> HIDE DEF D, V, rank, step
<1>6. CallsLower(D, V, rank, Compute)
  <2>1. \A v \in D, f \in [D -> V] : Compute[<<v, f>>] = step(v, f) /\ step(v, f) \in V
    BY <1>3
  <2>2. Compute \in [D \X [D -> V] -> V]
    BY <2>1
  <2> HIDE DEF Compute
  <2> QED  BY <1>4, <1>5, <2>1, <2>2 DEF CallsLower
<1>7. PICK f \in [D -> V] : \A v \in D : f[v] = Compute[<<v, f>>]
  <2> HIDE DEF Compute
  <2> QED  BY <1>6, RecursionEnds
<1>8. f = [v \in D |-> step(v, f)]
  BY <1>7
<1>9. R = [v \in D |-> step(v, R)]
  BY <1>8
<1> HIDE DEF R
<1>10. <<a, q, r>> \in D
  BY DEF D
<1>11. R[<<a, q, r>>] = step(<<a, q, r>>, R)
  BY <1>9, <1>10
<1>12. \A v \in D : R[v] \in V
  BY <1>3, <1>5, <1>9, TypedByRank
<1>13. SpatialLeafInteDiff(P, a, q, box, r) \in V
  BY <1>1, <1>10, <1>12
<1> QED  BY <1>1, <1>11, <1>13 DEF step, V

\* One call of spatial_diff.
LEMMA SpatialDiffUnfolds ==
  ASSUME IInv, NEW a1 \in Nodes, NEW a2 \in Nodes, NEW q \in Routes, NEW box, NEW r \in Regions
  PROVE  /\ SpatialDiff(a1, a2, q, box, r) =
              IF Relation(r.box, box) < 0 \/ a1 = a2 THEN Changes(EmptyBag, EmptyBag)
              ELSE IF a1 = Null THEN Changes(RangeReport(a2, box, r), EmptyBag)
              ELSE IF a2 = Null THEN Changes(EmptyBag, RangeReport(a1, box, r))
              ELSE IF heap[a1].leaf /\ heap[a2].leaf
              THEN Within(MergePts(heap[a1].records, heap[a2].records), box)
              ELSE IF heap[a1].leaf THEN SpatialLeafInteDiff(heap[a1].records, a2, q, box, r)
              ELSE IF heap[a2].leaf
              THEN Reversed(SpatialLeafInteDiff(heap[a2].records, a1, q, box, r))
              ELSE Both(SpatialDiff(Son(a1, 0), Son(a2, 0), Child(q, 0), box, Half(r, 0)),
                        SpatialDiff(Son(a1, 1), Son(a2, 1), Child(q, 1), box, Half(r, 1)))
         /\ SpatialDiff(a1, a2, q, box, r) \in BagPairs
<1> DEFINE D == Nodes \X Nodes \X Routes \X Regions
           V == BagPairs
           rank == [v \in D |-> Height(v[1])]
           step(v, f) == IF Relation(v[4].box, box) < 0 \/ v[1] = v[2] THEN Changes(EmptyBag, EmptyBag)
                         ELSE IF v[1] = Null THEN Changes(RangeReport(v[2], box, v[4]), EmptyBag)
                         ELSE IF v[2] = Null THEN Changes(EmptyBag, RangeReport(v[1], box, v[4]))
                         ELSE IF heap[v[1]].leaf /\ heap[v[2]].leaf
                         THEN Within(MergePts(heap[v[1]].records, heap[v[2]].records), box)
                         ELSE IF heap[v[1]].leaf
                         THEN SpatialLeafInteDiff(heap[v[1]].records, v[2], v[3], box, v[4])
                         ELSE IF heap[v[2]].leaf
                         THEN Reversed(SpatialLeafInteDiff(heap[v[2]].records, v[1], v[3], box, v[4]))
                         ELSE Both(f[<<Son(v[1], 0), Son(v[2], 0), Child(v[3], 0), Half(v[4], 0)>>],
                                   f[<<Son(v[1], 1), Son(v[2], 1), Child(v[3], 1), Half(v[4], 1)>>])
           Compute == [vf \in D \X [D -> V] |-> step(vf[1], vf[2])]
           R == CHOOSE f : f = [v \in D |-> step(v, f)]
<1>1. \A x, y, s, t : SpatialDiff(x, y, s, box, t) = R[<<x, y, s, t>>]
  BY DEF SpatialDiff
<1>2. ASSUME NEW v \in D, v[1] # Null, v[2] # Null, ~heap[v[1]].leaf, ~heap[v[2]].leaf, NEW d \in {0, 1}
      PROVE  LET w == <<Son(v[1], d), Son(v[2], d), Child(v[3], d), Half(v[4], d)>>
             IN  w \in D /\ rank[w] < rank[v]
  <2>1. v[1] \in DOMAIN heap /\ v[2] \in DOMAIN heap /\ v[3] \in Routes /\ v[4] \in Regions
    BY <1>2 DEF Nodes
  <2>2. /\ Son(v[1], d) \in Nodes /\ Height(Son(v[1], d)) < Height(v[1])
        /\ Son(v[2], d) \in Nodes /\ Child(v[3], d) \in Routes /\ Half(v[4], d) \in Regions
    BY <1>2, <2>1, SonsAreLower, RoutesGoOn, HalvesOfRegion
  <2> QED  BY <2>2
<1>3. ASSUME NEW v \in D, NEW f, \A w \in D : rank[w] < rank[v] => f[w] \in V
      PROVE  step(v, f) \in V
  <2> DEFINE x == v[1]
             y == v[2]
  <2>0. /\ x \in Nodes /\ y \in Nodes /\ v[3] \in Routes /\ v[4] \in Regions
        /\ \A z \in Nodes : /\ RangeReport(z, box, v[4]) \in BagsOfPoints
                            /\ z # Null => z \in DOMAIN heap
                            /\ z # Null /\ heap[z].leaf => heap[z].records \in BagsOfPoints
    BY <1>3, ReportUnfolds, LeafRecordsAreBags, BagsAreASet DEF Nodes
  <2>1. CASE x = y \/ x = Null \/ y = Null
    BY <2>0, <2>1, ChangesAreBags
  <2>2. CASE x # y /\ x # Null /\ y # Null /\ heap[x].leaf /\ heap[y].leaf
    BY <2>0, <2>2, ChangesAreBags, WithinIsBags
  <2>3. CASE x # y /\ x # Null /\ y # Null /\ heap[x].leaf /\ ~heap[y].leaf
    BY <2>0, <2>3, SpatialLeafDiffUnfolds, ChangesAreBags
  <2>4. CASE x # y /\ x # Null /\ y # Null /\ ~heap[x].leaf /\ heap[y].leaf
    <3>1. SpatialLeafInteDiff(heap[y].records, x, v[3], box, v[4]) \in BagPairs
      BY <2>0, <2>4, SpatialLeafDiffUnfolds
    <3> QED  BY <2>4, <3>1, ChangesAreBags
  <2>5. CASE x # y /\ x # Null /\ y # Null /\ ~heap[x].leaf /\ ~heap[y].leaf
    <3>1. \A d \in {0, 1} : f[<<Son(v[1], d), Son(v[2], d), Child(v[3], d), Half(v[4], d)>>] \in V
      BY <1>2, <1>3, <2>5
    <3> QED  BY <2>5, <3>1, ChangesAreBags
  <2> QED  BY <2>1, <2>2, <2>3, <2>4, <2>5
<1>4. ASSUME NEW v \in D, NEW g, NEW h, \A w \in D : rank[w] < rank[v] => g[w] = h[w]
      PROVE  step(v, g) = step(v, h)
  <2>1. CASE v[1] # v[2] /\ v[1] # Null /\ v[2] # Null /\ ~heap[v[1]].leaf /\ ~heap[v[2]].leaf
    <3>1. \A d \in {0, 1} : LET w == <<Son(v[1], d), Son(v[2], d), Child(v[3], d), Half(v[4], d)>> IN g[w] = h[w]
      BY <1>2, <1>4, <2>1
    <3> QED  BY <2>1, <3>1
  <2> QED  BY <2>1
<1>5. rank \in [D -> Nat] /\ V # {}
  <2>1. Changes(EmptyBag, EmptyBag) \in BagPairs
    BY ChangesAreBags
  <2> QED  BY <2>1, SonsAreLower
<1> HIDE DEF D, V, rank, step
<1>6. CallsLower(D, V, rank, Compute)
  <2>1. \A v \in D, f \in [D -> V] : Compute[<<v, f>>] = step(v, f) /\ step(v, f) \in V
    BY <1>3
  <2>2. Compute \in [D \X [D -> V] -> V]
    BY <2>1
  <2> HIDE DEF Compute
  <2> QED  BY <1>4, <1>5, <2>1, <2>2 DEF CallsLower
<1>7. PICK f \in [D -> V] : \A v \in D : f[v] = Compute[<<v, f>>]
  <2> HIDE DEF Compute
  <2> QED  BY <1>6, RecursionEnds
<1>8. f = [v \in D |-> step(v, f)]
  BY <1>7
<1>9. R = [v \in D |-> step(v, R)]
  BY <1>8
<1> HIDE DEF R
<1>10. <<a1, a2, q, r>> \in D
  BY DEF D
<1>11. R[<<a1, a2, q, r>>] = step(<<a1, a2, q, r>>, R)
  BY <1>9, <1>10
<1>12. \A v \in D : R[v] \in V
  BY <1>3, <1>5, <1>9, TypedByRank
<1>13. SpatialDiff(a1, a2, q, box, r) \in V
  BY <1>1, <1>10, <1>12
<1> QED  BY <1>1, <1>11, <1>13 DEF step, V

\* Far from the box there is nothing to find.
LEMMA NothingWithin ==
  ASSUME NEW P \in BagsOfPoints, NEW Q \in BagsOfPoints, NEW box,
         \A x \in DOMAIN P \cup DOMAIN Q : ~InBox(x, box)
  PROVE  Within(MergePts(P, Q), box) = Changes(EmptyBag, EmptyBag)
<1>1. ASSUME NEW A \in BagsOfPoints, NEW B \in BagsOfPoints, \A x \in DOMAIN B : ~InBox(x, box)
      PROVE  Restricted(B (-) A, box) = EmptyBag
  <2>1. IsBagOfPoints(A) /\ IsBagOfPoints(B) /\ IsBagOfPoints(B (-) A)
    BY BagsAreASet, DifferenceOfBags
  <2>2. ASSUME NEW x \in DOMAIN (B (-) A)  PROVE x \in DOMAIN B
    <3>1. CopiesOf(x, B (-) A) # 0 /\ CopiesOf(x, A) \in Nat /\ CopiesOf(x, B) \in Nat
      BY <2>1, <2>2, CopiesAreNumbers
    <3>2. CopiesOf(x, B) # 0
      BY <2>1, <3>1, CopiesInDifference
    <3> QED  BY <2>1, <3>2, CopiesAreNumbers
  <2> QED  BY <1>1, <2>1, <2>2, RestrictedExtremes
<1> QED  BY <1>1 DEF Within, MergePts, Changes

\* leaf_inte_diff with a query box, of a slice of points and a tree for the same region.
LEMMA SpatialLeafDiffIsExact ==
  ASSUME IInv, NodesFit, NEW P \in BagsOfPoints, NEW box \in Box
  PROVE  \A p \in Paths : \A a, r : Fits(a, p) /\ RegionAt(r, p) =>
           SpatialLeafInteDiff(P, a, p, box, r) = Within(MergePts(Part(P, p), Contents(a)), box)
<1> DEFINE Exact(p) == \A a, r : Fits(a, p) /\ RegionAt(r, p) =>
             SpatialLeafInteDiff(P, a, p, box, r) = Within(MergePts(Part(P, p), Contents(a)), box)
           G == {p \in Paths : Exact(p)}
<1>1. ASSUME NEW p \in Paths, Len(p) < Bits => \A d \in {0, 1} : Child(p, d) \in G
      PROVE  Exact(p)
  <2> SUFFICES ASSUME NEW a, NEW r, Fits(a, p), RegionAt(r, p)
               PROVE  SpatialLeafInteDiff(P, a, p, box, r) = Within(MergePts(Part(P, p), Contents(a)), box)
    OBVIOUS
  <2>1. /\ a \in Nodes /\ p \in Routes /\ Part(P, p) \in BagsOfPoints
        /\ Contents(a) \in BagsOfPoints /\ r \in Regions
        /\ \A x \in DOMAIN Part(P, p) \cup DOMAIN Contents(a) : x \in Points /\ Under(x, p)
    BY BelowFits, PathsAreSequences, PartIsUnder, BagsAreASet
       DEF Nodes, Routes, RegionAt, IsBagOfPoints
  <2>2. CASE Relation(r.box, box) < 0
    <3>1. \A x \in DOMAIN Part(P, p) \cup DOMAIN Contents(a) : ~InBox(x, box)
      BY <2>1, <2>2, RelationTells
    <3> QED  BY <2>1, <2>2, <3>1, SpatialLeafDiffUnfolds, NothingWithin
  <2>3. CASE ~(Relation(r.box, box) < 0) /\ a = Null
    BY <2>1, <2>3, SpatialLeafDiffUnfolds, ContentsHere, MergesAtEnds
  <2>4. CASE ~(Relation(r.box, box) < 0) /\ a # Null /\ heap[a].leaf
    BY <2>1, <2>4, SpatialLeafDiffUnfolds, ContentsHere DEF Nodes
  <2>5. CASE ~(Relation(r.box, box) < 0) /\ a # Null /\ ~heap[a].leaf
    <3>1. /\ Len(p) < Bits
          /\ Contents(a) = Contents(Son(a, 0)) (+) Contents(Son(a, 1))
          /\ \A d \in {0, 1} : /\ Child(p, d) \in Paths /\ Fits(Son(a, d), Child(p, d))
                               /\ RegionAt(Half(r, d), Child(p, d))
      BY <2>5, DownFits, HalfIsRegion
    <3>2. \A d \in {0, 1} :
            SpatialLeafInteDiff(P, Son(a, d), Child(p, d), box, Half(r, d))
              = Within(MergePts(Part(P, Child(p, d)), Contents(Son(a, d))), box)
      BY <1>1, <3>1
    <3>3. \A d \in {0, 1} :
            /\ Part(P, Child(p, d)) \in BagsOfPoints /\ Contents(Son(a, d)) \in BagsOfPoints
            /\ MergePts(Part(P, Child(p, d)), Contents(Son(a, d))) \in BagPairs
            /\ \A x \in DOMAIN Part(P, Child(p, d)) \cup DOMAIN Contents(Son(a, d)) : Under(x, Child(p, d))
      BY <3>1, BelowFits, PartIsUnder, BagsAreASet, ChangesAreBags
    <3>4. Part(P, p) = Part(P, Child(p, 0)) (+) Part(P, Child(p, 1))
      BY <3>1, PartsOfPart, BagsAreASet
    <3>5. SpatialLeafInteDiff(P, a, p, box, r) =
            Both(SpatialLeafInteDiff(P, Son(a, 0), Child(p, 0), box, Half(r, 0)),
                 SpatialLeafInteDiff(P, Son(a, 1), Child(p, 1), box, Half(r, 1)))
      BY <2>1, <2>5, SpatialLeafDiffUnfolds
    <3>6. Both(MergePts(Part(P, Child(p, 0)), Contents(Son(a, 0))),
               MergePts(Part(P, Child(p, 1)), Contents(Son(a, 1)))) = MergePts(Part(P, p), Contents(a))
      BY <3>1, <3>3, <3>4, MergedHalves
    <3> QED  BY <3>2, <3>3, <3>5, <3>6, WithinIsBags
  <2> QED  BY <2>2, <2>3, <2>4, <2>5
<1>2. \A p \in Paths : p \in G
  <2>1. \A p \in Paths : (Len(p) < Bits => \A d \in {0, 1} : Child(p, d) \in G) => p \in G
    <3> HIDE DEF Exact
    <3> QED  BY <1>1
  <2> HIDE DEF G
  <2> QED  BY <2>1, PathInduction
<1> QED  BY <1>2

\* spatial_diff of two trees for the same region.
LEMMA SpatialDiffIsExact ==
  ASSUME IInv, NodesFit, NEW box \in Box
  PROVE  \A p \in Paths : \A a1, a2, r : Fits(a1, p) /\ Fits(a2, p) /\ RegionAt(r, p) =>
           SpatialDiff(a1, a2, p, box, r) = Within(MergePts(Contents(a1), Contents(a2)), box)
<1> DEFINE Exact(p) == \A a1, a2, r : Fits(a1, p) /\ Fits(a2, p) /\ RegionAt(r, p) =>
             SpatialDiff(a1, a2, p, box, r) = Within(MergePts(Contents(a1), Contents(a2)), box)
           G == {p \in Paths : Exact(p)}
<1>1. ASSUME NEW p \in Paths, Len(p) < Bits => \A d \in {0, 1} : Child(p, d) \in G
      PROVE  Exact(p)
  <2> SUFFICES ASSUME NEW a1, NEW a2, NEW r, Fits(a1, p), Fits(a2, p), RegionAt(r, p)
               PROVE  SpatialDiff(a1, a2, p, box, r) = Within(MergePts(Contents(a1), Contents(a2)), box)
    OBVIOUS
  <2>1. /\ a1 \in Nodes /\ a2 \in Nodes /\ p \in Routes /\ r \in Regions
        /\ Contents(a1) \in BagsOfPoints /\ Contents(a2) \in BagsOfPoints
        /\ \A x \in DOMAIN Contents(a1) \cup DOMAIN Contents(a2) : x \in Points /\ Under(x, p)
        /\ \A B \in BagsOfPoints : (\A x \in DOMAIN B : Under(x, p)) => Part(B, p) = B
    BY BelowFits, PathsAreSequences, PartIsAll, BagsAreASet
       DEF Nodes, Routes, RegionAt, IsBagOfPoints
  <2>2. \A x \in DOMAIN EmptyBag : ~InBox(x, box)
    BY DEF EmptyBag, SetToBag
  <2>3. CASE Relation(r.box, box) < 0
    <3>1. \A x \in DOMAIN Contents(a1) \cup DOMAIN Contents(a2) : ~InBox(x, box)
      BY <2>1, <2>3, RelationTells
    <3> QED  BY <2>1, <2>3, <3>1, SpatialDiffUnfolds, NothingWithin
  <2>4. Restricted(EmptyBag, box) = EmptyBag
    BY <2>2, RestrictedExtremes, EmptyBagOfPoints
  <2> DEFINE near == ~(Relation(r.box, box) < 0)
  <2>5. CASE near /\ a1 = a2
    <3>1. MergePts(Contents(a1), Contents(a2)) = Changes(EmptyBag, EmptyBag)
      BY <2>1, <2>5, MergesAtEnds
    <3>2. SpatialDiff(a1, a2, p, box, r) = Changes(EmptyBag, EmptyBag)
      BY <2>1, <2>5, SpatialDiffUnfolds
    <3> QED  BY <2>4, <3>1, <3>2 DEF Within, Changes
  <2>6. CASE near /\ a1 # a2 /\ a1 = Null
    <3>1. SpatialDiff(a1, a2, p, box, r) = Changes(Restricted(Contents(a2), box), EmptyBag)
      BY <2>1, <2>6, SpatialDiffUnfolds, ReportIsExact
    <3>2. MergePts(Contents(a1), Contents(a2)) = Changes(Contents(a2), EmptyBag)
      BY <2>1, <2>6, MergesAtEnds, ContentsHere
    <3> QED  BY <2>4, <3>1, <3>2 DEF Within, Changes
  <2>7. CASE near /\ a1 # a2 /\ a1 # Null /\ a2 = Null
    <3>1. SpatialDiff(a1, a2, p, box, r) = Changes(EmptyBag, Restricted(Contents(a1), box))
      BY <2>1, <2>7, SpatialDiffUnfolds, ReportIsExact
    <3>2. MergePts(Contents(a1), Contents(a2)) = Changes(EmptyBag, Contents(a1))
      BY <2>1, <2>7, MergesAtEnds, ContentsHere
    <3> QED  BY <2>4, <3>1, <3>2 DEF Within, Changes
  <2>8. CASE near /\ a1 # a2 /\ a1 # Null /\ a2 # Null /\ heap[a1].leaf /\ heap[a2].leaf
    BY <2>1, <2>8, SpatialDiffUnfolds, ContentsHere DEF Nodes
  <2>9. CASE near /\ a1 # a2 /\ a1 # Null /\ a2 # Null /\ heap[a1].leaf /\ ~heap[a2].leaf
    <3>1. /\ SpatialDiff(a1, a2, p, box, r) = SpatialLeafInteDiff(heap[a1].records, a2, p, box, r)
          /\ heap[a1].records = Contents(a1)
      BY <2>1, <2>9, SpatialDiffUnfolds, ContentsHere DEF Nodes
    <3> QED  BY <2>1, <3>1, SpatialLeafDiffIsExact
  <2>10. CASE near /\ a1 # a2 /\ a1 # Null /\ a2 # Null /\ ~heap[a1].leaf /\ heap[a2].leaf
    <3>1. /\ SpatialDiff(a1, a2, p, box, r) = Reversed(SpatialLeafInteDiff(heap[a2].records, a1, p, box, r))
          /\ heap[a2].records = Contents(a2)
      BY <2>1, <2>10, SpatialDiffUnfolds, ContentsHere DEF Nodes
    <3>2. SpatialLeafInteDiff(Contents(a2), a1, p, box, r) = Within(MergePts(Contents(a2), Contents(a1)), box)
      BY <2>1, SpatialLeafDiffIsExact
    <3>3. MergePts(Contents(a2), Contents(a1)) \in BagPairs
      BY <2>1, ChangesAreBags
    <3> QED  BY <2>1, <3>1, <3>2, <3>3, MergesAtEnds, WithinIsBags
  <2>11. CASE near /\ a1 # a2 /\ a1 # Null /\ a2 # Null /\ ~heap[a1].leaf /\ ~heap[a2].leaf
    <3>1. /\ Len(p) < Bits
          /\ Contents(a1) = Contents(Son(a1, 0)) (+) Contents(Son(a1, 1))
          /\ Contents(a2) = Contents(Son(a2, 0)) (+) Contents(Son(a2, 1))
          /\ \A d \in {0, 1} : /\ Child(p, d) \in Paths /\ Fits(Son(a1, d), Child(p, d))
                               /\ Fits(Son(a2, d), Child(p, d))
                               /\ RegionAt(Half(r, d), Child(p, d))
      BY <2>11, DownFits, HalfIsRegion
    <3>2. \A d \in {0, 1} :
            SpatialDiff(Son(a1, d), Son(a2, d), Child(p, d), box, Half(r, d))
              = Within(MergePts(Contents(Son(a1, d)), Contents(Son(a2, d))), box)
      BY <1>1, <3>1
    <3>3. \A d \in {0, 1} :
            /\ Contents(Son(a1, d)) \in BagsOfPoints /\ Contents(Son(a2, d)) \in BagsOfPoints
            /\ MergePts(Contents(Son(a1, d)), Contents(Son(a2, d))) \in BagPairs
            /\ \A x \in DOMAIN Contents(Son(a1, d)) \cup DOMAIN Contents(Son(a2, d)) : Under(x, Child(p, d))
      BY <3>1, BelowFits, BagsAreASet, ChangesAreBags
    <3>4. SpatialDiff(a1, a2, p, box, r) =
            Both(SpatialDiff(Son(a1, 0), Son(a2, 0), Child(p, 0), box, Half(r, 0)),
                 SpatialDiff(Son(a1, 1), Son(a2, 1), Child(p, 1), box, Half(r, 1)))
      BY <2>1, <2>11, SpatialDiffUnfolds
    <3>5. Both(MergePts(Contents(Son(a1, 0)), Contents(Son(a2, 0))),
               MergePts(Contents(Son(a1, 1)), Contents(Son(a2, 1)))) = MergePts(Contents(a1), Contents(a2))
      BY <3>1, <3>3, MergedHalves
    <3> QED  BY <3>2, <3>3, <3>4, <3>5, WithinIsBags
  <2> QED  BY <2>3, <2>5, <2>6, <2>7, <2>8, <2>9, <2>10, <2>11
<1>2. \A p \in Paths : p \in G
  <2>1. \A p \in Paths : (Len(p) < Bits => \A d \in {0, 1} : Child(p, d) \in G) => p \in G
    <3> HIDE DEF Exact
    <3> QED  BY <1>1
  <2> HIDE DEF G
  <2> QED  BY <2>1, PathInduction
<1> QED  BY <1>2

-----------------------------------------------------------------------------
(* spatial_join.                                                           *)

\* The nodes and regions that a join goes on with on one side.
Onwards(a, r) == IF heap[a].leaf THEN {<<a, r>>}
                 ELSE {<<Son(a, d), Half(r, d)>> : d \in {0, 1}}

\* None is higher than where the join is, and sons are lower.
LEMMA OnwardsIsDown ==
  ASSUME IInv, NEW a \in DOMAIN heap, NEW r \in Regions, NEW n \in Onwards(a, r)
  PROVE  /\ n = <<n[1], n[2]>> /\ n[1] \in Nodes /\ n[2] \in Regions
         /\ Height(n[1]) <= Height(a) /\ Height(n[1]) \in Nat /\ Height(a) \in Nat
         /\ ~heap[a].leaf => Height(n[1]) < Height(a)
<1>0. a \in Nodes /\ \A b \in Nodes : Height(b) \in Nat
  BY SonsAreLower
<1>1. CASE heap[a].leaf
  BY <1>0, <1>1 DEF Onwards
<1>2. CASE ~heap[a].leaf
  <2>1. PICK d \in {0, 1} : n = <<Son(a, d), Half(r, d)>>
    BY <1>2 DEF Onwards
  <2>2. Son(a, d) \in Nodes /\ Height(Son(a, d)) < Height(a) /\ Half(r, d) \in Regions
    BY <1>2, SonsAreLower, HalvesOfRegion
  <2>3. n[1] = Son(a, d) /\ n[2] = Half(r, d)
    BY <2>1
  <2>4. Height(Son(a, d)) \in Nat /\ Height(a) \in Nat
    BY <1>0, <2>2
  <2>5. Height(n[1]) = Height(Son(a, d))
    BY <2>3
  <2> QED  BY <2>1, <2>2, <2>3, <2>4, <2>5
<1> QED  BY <1>1, <1>2

\* One call of spatial_join.
LEMMA JoinUnfolds ==
  ASSUME IInv, NEW dis, NEW a1 \in Nodes, NEW a2 \in Nodes, NEW r1 \in Regions, NEW r2 \in Regions
  PROVE  Join(a1, a2, dis, r1, r2) =
           IF a1 = Null \/ a2 = Null \/ ~WithinDis(r1.box, r2.box, dis) THEN {}
           ELSE IF heap[a1].leaf /\ heap[a2].leaf
           THEN ClosePairs(DOMAIN heap[a1].records, DOMAIN heap[a2].records, dis)
           ELSE UNION {UNION {Join(n1[1], n2[1], dis, n1[2], n2[2]) : n2 \in Onwards(a2, r2)} :
                         n1 \in Onwards(a1, r1)}
<1> DEFINE D == Nodes \X Nodes \X Regions \X Regions
           V == SUBSET (Points \X Points)
           rank == [v \in D |-> Height(v[1]) + Height(v[2])]
           go(v, f) == UNION {UNION {f[<<n1[1], n2[1], n1[2], n2[2]>>] : n2 \in Onwards(v[2], v[4])} :
                                n1 \in Onwards(v[1], v[3])}
           step(v, f) == IF v[1] = Null \/ v[2] = Null \/ ~WithinDis(v[3].box, v[4].box, dis) THEN {}
                         ELSE IF heap[v[1]].leaf /\ heap[v[2]].leaf
                         THEN ClosePairs(DOMAIN heap[v[1]].records, DOMAIN heap[v[2]].records, dis)
                         ELSE go(v, f)
           Compute == [vf \in D \X [D -> V] |-> step(vf[1], vf[2])]
           R == CHOOSE f : f = [v \in D |-> step(v, f)]
<1>1. \A x, y, s, t : Join(x, y, dis, s, t) = R[<<x, y, s, t>>]
  BY DEF Join, Onwards
<1>2. ASSUME NEW v \in D, v[1] # Null, v[2] # Null, ~heap[v[1]].leaf \/ ~heap[v[2]].leaf,
             NEW n1 \in Onwards(v[1], v[3]), NEW n2 \in Onwards(v[2], v[4])
      PROVE  LET w == <<n1[1], n2[1], n1[2], n2[2]>> IN w \in D /\ rank[w] < rank[v]
  <2>1. v[1] \in DOMAIN heap /\ v[2] \in DOMAIN heap /\ v[3] \in Regions /\ v[4] \in Regions
    BY <1>2 DEF Nodes
  <2>2. /\ n1[1] \in Nodes /\ n1[2] \in Regions /\ n2[1] \in Nodes /\ n2[2] \in Regions
        /\ Height(n1[1]) <= Height(v[1]) /\ Height(n1[1]) \in Nat /\ Height(v[1]) \in Nat
        /\ Height(n2[1]) <= Height(v[2]) /\ Height(n2[1]) \in Nat /\ Height(v[2]) \in Nat
        /\ ~heap[v[1]].leaf => Height(n1[1]) < Height(v[1])
        /\ ~heap[v[2]].leaf => Height(n2[1]) < Height(v[2])
    BY <2>1, OnwardsIsDown
  <2>3. Height(n1[1]) + Height(n2[1]) < Height(v[1]) + Height(v[2])
    BY <1>2, <2>2
  <2>4. <<n1[1], n2[1], n1[2], n2[2]>> \in D
    BY <2>2
  <2> QED  BY <2>3, <2>4
<1>3. ASSUME NEW v \in D, NEW f, \A w \in D : rank[w] < rank[v] => f[w] \in V
      PROVE  step(v, f) \in V
  <2>1. CASE v[1] = Null \/ v[2] = Null \/ ~WithinDis(v[3].box, v[4].box, dis)
    BY <2>1
  <2>2. CASE v[1] # Null /\ v[2] # Null /\ heap[v[1]].leaf /\ heap[v[2]].leaf
    <3>1. \A a \in {v[1], v[2]} : DOMAIN heap[a].records \subseteq Points
      BY <2>2, LeafRecordsAreBags DEF Nodes, IsBagOfPoints
    <3>2. ClosePairs(DOMAIN heap[v[1]].records, DOMAIN heap[v[2]].records, dis) \in V
      BY <3>1 DEF ClosePairs
    <3> QED  BY <2>1, <2>2, <3>2
  <2>3. CASE v[1] # Null /\ v[2] # Null /\ (~heap[v[1]].leaf \/ ~heap[v[2]].leaf)
    <3>1. \A n1 \in Onwards(v[1], v[3]), n2 \in Onwards(v[2], v[4]) :
            f[<<n1[1], n2[1], n1[2], n2[2]>>] \in V
      BY <1>2, <1>3, <2>3
    <3>2. go(v, f) \in V
      <4>1. \A e \in go(v, f) : \E n1 \in Onwards(v[1], v[3]), n2 \in Onwards(v[2], v[4]) :
              e \in f[<<n1[1], n2[1], n1[2], n2[2]>>]
        OBVIOUS
      <4> HIDE DEF go
      <4> QED  BY <3>1, <4>1
    <3> HIDE DEF go
    <3> QED  BY <2>1, <2>3, <3>2
  <2> QED  BY <2>1, <2>2, <2>3
<1>4. ASSUME NEW v \in D, NEW g, NEW h, \A w \in D : rank[w] < rank[v] => g[w] = h[w]
      PROVE  step(v, g) = step(v, h)
  <2>1. CASE v[1] # Null /\ v[2] # Null /\ (~heap[v[1]].leaf \/ ~heap[v[2]].leaf)
    <3>1. \A n1 \in Onwards(v[1], v[3]), n2 \in Onwards(v[2], v[4]) :
            g[<<n1[1], n2[1], n1[2], n2[2]>>] = h[<<n1[1], n2[1], n1[2], n2[2]>>]
      BY <1>2, <1>4, <2>1
    <3>2. go(v, g) = go(v, h)
      <4>1. \A e : e \in go(v, g) => e \in go(v, h)
        BY <3>1
      <4>2. \A e : e \in go(v, h) => e \in go(v, g)
        BY <3>1
      <4> HIDE DEF go
      <4> QED  BY <4>1, <4>2
    <3> HIDE DEF go
    <3> QED  BY <2>1, <3>2
  <2>2. CASE ~(v[1] # Null /\ v[2] # Null /\ (~heap[v[1]].leaf \/ ~heap[v[2]].leaf))
    <3> HIDE DEF go
    <3> QED  BY <2>2
  <2> QED  BY <2>1, <2>2
<1>5. rank \in [D -> Nat] /\ V # {}
  <2>1. \A a \in Nodes : Height(a) \in Nat
    BY SonsAreLower
  <2>2. {} \in V
    OBVIOUS
  <2>3. rank \in [D -> Nat]
    BY <2>1
  <2> HIDE DEF rank, D, V
  <2> QED  BY <2>2, <2>3
<1> HIDE DEF D, V, rank, step
<1>6. CallsLower(D, V, rank, Compute)
  <2>1. \A v \in D, f \in [D -> V] : Compute[<<v, f>>] = step(v, f) /\ step(v, f) \in V
    BY <1>3
  <2>2. Compute \in [D \X [D -> V] -> V]
    BY <2>1
  <2> HIDE DEF Compute
  <2> QED  BY <1>4, <1>5, <2>1, <2>2 DEF CallsLower
<1>7. PICK f \in [D -> V] : \A v \in D : f[v] = Compute[<<v, f>>]
  <2> HIDE DEF Compute
  <2> QED  BY <1>6, RecursionEnds
<1>8. f = [v \in D |-> step(v, f)]
  BY <1>7
<1>9. R = [v \in D |-> step(v, R)]
  BY <1>8
<1> HIDE DEF R
<1>10. <<a1, a2, r1, r2>> \in D
  BY DEF D
<1>11. R[<<a1, a2, r1, r2>>] = step(<<a1, a2, r1, r2>>, R)
  BY <1>9, <1>10
<1> DEFINE there == UNION {UNION {Join(n1[1], n2[1], dis, n1[2], n2[2]) : n2 \in Onwards(a2, r2)} :
                          n1 \in Onwards(a1, r1)}
<1>12. go(<<a1, a2, r1, r2>>, R) = there
  <2> DEFINE J(n1, n2) == Join(n1[1], n2[1], dis, n1[2], n2[2])
  <2>0. \A n1, n2 : R[<<n1[1], n2[1], n1[2], n2[2]>>] = J(n1, n2)
    BY <1>1
  <2> HIDE DEF J
  <2>1. \A e : e \in go(<<a1, a2, r1, r2>>, R) => e \in there
    <3>1. \A e \in go(<<a1, a2, r1, r2>>, R) : \E n1 \in Onwards(a1, r1), n2 \in Onwards(a2, r2) :
            e \in R[<<n1[1], n2[1], n1[2], n2[2]>>]
      OBVIOUS
    <3>2. \A e, n1, n2 : n1 \in Onwards(a1, r1) /\ n2 \in Onwards(a2, r2)
             /\ e \in J(n1, n2) => e \in there
      BY DEF J
    <3> HIDE DEF go, there
    <3> QED  BY <2>0, <3>1, <3>2
  <2>2. \A e : e \in there => e \in go(<<a1, a2, r1, r2>>, R)
    <3>1. \A e \in there : \E n1 \in Onwards(a1, r1), n2 \in Onwards(a2, r2) : e \in J(n1, n2)
      BY DEF J
    <3>2. \A e, n1, n2 : n1 \in Onwards(a1, r1) /\ n2 \in Onwards(a2, r2)
             /\ e \in R[<<n1[1], n2[1], n1[2], n2[2]>>] => e \in go(<<a1, a2, r1, r2>>, R)
      OBVIOUS
    <3> HIDE DEF go, there
    <3> QED  BY <2>0, <3>1, <3>2
  <2> HIDE DEF go, there
  <2> QED  BY <2>1, <2>2
<1>13. Join(a1, a2, dis, r1, r2) = step(<<a1, a2, r1, r2>>, R)
  BY <1>1, <1>11
<1> HIDE DEF go
<1> QED  BY <1>12, <1>13 DEF step

\* Boxes that are further than dis apart hold no close pair.
LEMMA FarBoxes ==
  ASSUME NEW dis \in Nat, NEW p1, NEW r1, RegionAt(r1, p1), NEW p2, NEW r2, RegionAt(r2, p2),
         ~WithinDis(r1.box, r2.box, dis),
         NEW pt \in Points, NEW qt \in Points, Under(pt, p1), Under(qt, p2)
  PROVE  ~(PointSqrDis(pt, qt) <= Square(dis))
<1>1. InBox(pt, r1.box) /\ InBox(qt, r2.box) /\ r1.box \in Box /\ r2.box \in Box
  BY RegionTypes DEF RegionAt
<1>2. \A b \in Box, i \in Sides : b.lo[i] \in Int /\ b.hi[i] \in Int
  BY DEF Box, Corner, Sides
<1>3. PICK i \in Sides : ~(r1.box.hi[i] + dis >= r2.box.lo[i] /\ r2.box.hi[i] + dis >= r1.box.lo[i])
  BY DEF WithinDis, Sides
<1>4. /\ r1.box.lo[i] <= pt[i] /\ pt[i] <= r1.box.hi[i]
      /\ r2.box.lo[i] <= qt[i] /\ qt[i] <= r2.box.hi[i]
  BY <1>1 DEF InBox, Sides
<1>5. pt.x \in Nat /\ pt.y \in Nat /\ qt.x \in Nat /\ qt.y \in Nat
  BY Coordinates
<1>6. pt[i] \in Nat /\ qt[i] \in Nat
  BY Coordinates DEF Sides
<1>7. pt[i] + dis < qt[i] \/ qt[i] + dis < pt[i]
  BY <1>1, <1>2, <1>3, <1>4, <1>6
<1>8. \A n \in Int : n > dis \/ -n > dis => n * n > dis * dis
  <2> SUFFICES ASSUME NEW n \in Int, n > dis \/ -n > dis  PROVE n * n > dis * dis
    OBVIOUS
  <2>1. \A m \in Nat : m > dis => m * m > dis * dis
    <3> SUFFICES ASSUME NEW m \in Nat, m > dis  PROVE m * m > dis * dis
      OBVIOUS
    <3>1. m * m >= m * dis /\ m * dis >= dis * dis
      OBVIOUS
    <3>2. m * m >= m * (dis + 1) /\ m * (dis + 1) = m * dis + m
      OBVIOUS
    <3> QED  BY <3>1, <3>2
  <2>2. (-n) * (-n) = n * n
    OBVIOUS
  <2>3. n > 0 \/ -n > 0
    OBVIOUS
  <2> QED  BY <2>1, <2>2, <2>3
<1>9. Square(pt[i] - qt[i]) > Square(dis)
  <2> DEFINE n == pt[i] - qt[i]
  <2>1. n \in Int /\ (n > dis \/ -n > dis)
    BY <1>6, <1>7
  <2> HIDE DEF n
  <2>2. n * n > dis * dis
    BY <1>8, <2>1
  <2> QED  BY <2>2 DEF Square, n
<1>10. /\ Square(pt.x - qt.x) \in Nat /\ Square(pt.y - qt.y) \in Nat /\ Square(dis) \in Nat
  <2>1. \A n \in Int : n * n >= 0 /\ n * n \in Int
    OBVIOUS
  <2> QED  BY <1>5, <2>1 DEF Square
<1>11. Square(pt[i] - qt[i]) <= PointSqrDis(pt, qt)
  <2>1. PointSqrDis(pt, qt) = Square(pt["x"] - qt["x"]) + Square(pt["y"] - qt["y"])
    BY Coordinates DEF PointSqrDis
  <2>2. Square(pt["x"] - qt["x"]) \in Nat /\ Square(pt["y"] - qt["y"]) \in Nat
    BY <1>10, Coordinates
  <2>3. i = "x" \/ i = "y"
    BY DEF Sides
  <2> QED  BY <2>1, <2>2, <2>3
<1>12. PointSqrDis(pt, qt) \in Nat
  BY <1>10 DEF PointSqrDis
<1>13. Square(pt[i] - qt[i]) \in Int
  BY <1>6 DEF Square
<1> QED  BY <1>9, <1>10, <1>11, <1>12, <1>13

\* The points on one side are those the join goes on with.
LEMMA OnwardsIsAll ==
  ASSUME IInv, NodesFit, NEW p \in Paths, NEW a, a # Null, Fits(a, p), NEW r, RegionAt(r, p)
  PROVE  /\ DOMAIN Contents(a) = UNION {DOMAIN Contents(n[1]) : n \in Onwards(a, r)}
         /\ \A n \in Onwards(a, r) : \E s \in Paths : Fits(n[1], s) /\ RegionAt(n[2], s)
<1>1. CASE heap[a].leaf
  BY <1>1 DEF Onwards
<1>2. CASE ~heap[a].leaf
  <2>1. /\ Len(p) < Bits /\ a \in DOMAIN heap
        /\ Contents(a) = Contents(Son(a, 0)) (+) Contents(Son(a, 1))
        /\ \A d \in {0, 1} : /\ Child(p, d) \in Paths /\ Fits(Son(a, d), Child(p, d))
                             /\ RegionAt(Half(r, d), Child(p, d))
                             /\ IsBagOfPoints(Contents(Son(a, d)))
    BY <1>2, DownFits, HalfIsRegion
  <2>2. DOMAIN Contents(a) = DOMAIN Contents(Son(a, 0)) \cup DOMAIN Contents(Son(a, 1))
    BY <2>1 DEF (+)
  <2>3. Onwards(a, r) = {<<Son(a, 0), Half(r, 0)>>, <<Son(a, 1), Half(r, 1)>>}
    BY <1>2 DEF Onwards
  <2>4. \A n \in Onwards(a, r) : \E d \in {0, 1} : n[1] = Son(a, d) /\ n[2] = Half(r, d)
    BY <2>3
  <2>5. \A d \in {0, 1} : \E n \in Onwards(a, r) : n[1] = Son(a, d)
    BY <2>3
  <2>6. \A n \in Onwards(a, r) : \E s \in Paths : Fits(n[1], s) /\ RegionAt(n[2], s)
    BY <2>1, <2>4
  <2>7. UNION {DOMAIN Contents(n[1]) : n \in Onwards(a, r)}
          = DOMAIN Contents(Son(a, 0)) \cup DOMAIN Contents(Son(a, 1))
    <3> DEFINE pts(x) == DOMAIN Contents(x)
    <3> HIDE DEF pts
    <3>1. UNION {pts(n[1]) : n \in Onwards(a, r)} = pts(Son(a, 0)) \cup pts(Son(a, 1))
      BY <2>4, <2>5
    <3> QED  BY <3>1 DEF pts
  <2> QED  BY <2>2, <2>6, <2>7
<1> QED  BY <1>1, <1>2

\* spatial_join of two trees, each for a region of its own.
LEMMA JoinIsExact ==
  ASSUME IInv, NodesFit, NEW dis \in Nat, NEW a1, NEW a2, NEW r1, NEW r2,
         NEW p1 \in Paths, NEW p2 \in Paths,
         Fits(a1, p1), RegionAt(r1, p1), Fits(a2, p2), RegionAt(r2, p2)
  PROVE  Join(a1, a2, dis, r1, r2) = ClosePairs(DOMAIN Contents(a1), DOMAIN Contents(a2), dis)
<1> DEFINE D == Nodes \X Nodes
           rank == [v \in D |-> Height(v[1]) + Height(v[2])]
           Placed(a, r, p) == Fits(a, p) /\ RegionAt(r, p)
           Exact(x, y) == \A s, t, p, q : p \in Paths /\ q \in Paths /\ Placed(x, s, p) /\ Placed(y, t, q) =>
             Join(x, y, dis, s, t) = ClosePairs(DOMAIN Contents(x), DOMAIN Contents(y), dis)
           G == {v \in D : Exact(v[1], v[2])}
           id == [v \in D |-> v]
<1>1. ASSUME NEW v \in D, \A w \in D : rank[w] < rank[v] => w \in G
      PROVE  Exact(v[1], v[2])
  <2> DEFINE x == v[1]
             y == v[2]
             S == DOMAIN Contents(x)
             T == DOMAIN Contents(y)
  <2> SUFFICES ASSUME NEW s, NEW t, NEW p \in Paths, NEW q \in Paths,
                      Fits(x, p), RegionAt(s, p), Fits(y, q), RegionAt(t, q)
               PROVE  Join(x, y, dis, s, t) = ClosePairs(S, T, dis)
    OBVIOUS
  <2>1. /\ x \in Nodes /\ y \in Nodes /\ s \in Regions /\ t \in Regions
        /\ \A pt \in S : pt \in Points /\ Under(pt, p)
        /\ \A pt \in T : pt \in Points /\ Under(pt, q)
    BY BelowFits DEF RegionAt, IsBagOfPoints
  <2>2. CASE x = Null \/ y = Null
    <3>1. S = {} \/ T = {}
      BY <2>2, ContentsHere DEF EmptyBag, SetToBag
    <3> HIDE DEF S, T
    <3>2. ClosePairs(S, T, dis) = {}
      BY <3>1 DEF ClosePairs
    <3>3. Join(x, y, dis, s, t) = {}
      BY <2>1, <2>2, JoinUnfolds
    <3> QED  BY <3>2, <3>3
  <2>3. CASE ~WithinDis(s.box, t.box, dis)
    <3>1. \A m \in S, n \in T : ~(PointSqrDis(m, n) <= Square(dis))
      BY <2>1, <2>3, FarBoxes
    <3>2. ClosePairs(S, T, dis) = {}
      <4> HIDE DEF S, T
      <4> QED  BY <3>1 DEF ClosePairs
    <3>3. Join(x, y, dis, s, t) = {}
      BY <2>1, <2>3, JoinUnfolds
    <3> QED  BY <3>2, <3>3
  <2> DEFINE near == x # Null /\ y # Null /\ WithinDis(s.box, t.box, dis)
  <2>4. CASE near /\ heap[x].leaf /\ heap[y].leaf
    <3>1. Contents(x) = heap[x].records /\ Contents(y) = heap[y].records
      BY <2>1, <2>4, ContentsHere DEF Nodes
    <3>2. Join(x, y, dis, s, t) = ClosePairs(DOMAIN heap[x].records, DOMAIN heap[y].records, dis)
      BY <2>1, <2>4, JoinUnfolds
    <3> QED  BY <3>1, <3>2
  <2>5. CASE near /\ ~(heap[x].leaf /\ heap[y].leaf)
    <3>1. Join(x, y, dis, s, t) = UNION {UNION {Join(m[1], n[1], dis, m[2], n[2]) : n \in Onwards(y, t)} :
                       m \in Onwards(x, s)}
      BY <2>1, <2>5, JoinUnfolds
    <3>2. /\ S = UNION {DOMAIN Contents(m[1]) : m \in Onwards(x, s)}
          /\ \A m \in Onwards(x, s) : \E pp \in Paths : Fits(m[1], pp) /\ RegionAt(m[2], pp)
          /\ T = UNION {DOMAIN Contents(m[1]) : m \in Onwards(y, t)}
          /\ \A m \in Onwards(y, t) : \E pp \in Paths : Fits(m[1], pp) /\ RegionAt(m[2], pp)
      BY <2>5, OnwardsIsAll
    <3>3. ASSUME NEW m \in Onwards(x, s), NEW n \in Onwards(y, t)
          PROVE  Join(m[1], n[1], dis, m[2], n[2])
                   = ClosePairs(DOMAIN Contents(m[1]), DOMAIN Contents(n[1]), dis)
      <4>1. x \in DOMAIN heap /\ y \in DOMAIN heap
        BY <2>1, <2>5 DEF Nodes
      <4>2. /\ m[1] \in Nodes /\ n[1] \in Nodes
            /\ Height(m[1]) <= Height(x) /\ Height(m[1]) \in Nat /\ Height(x) \in Nat
            /\ Height(n[1]) <= Height(y) /\ Height(n[1]) \in Nat /\ Height(y) \in Nat
            /\ ~heap[x].leaf => Height(m[1]) < Height(x)
            /\ ~heap[y].leaf => Height(n[1]) < Height(y)
        BY <2>1, <3>3, <4>1, OnwardsIsDown
      <4>3. <<m[1], n[1]>> \in D /\ Height(m[1]) + Height(n[1]) < Height(x) + Height(y)
        BY <2>5, <4>2
      <4>4. <<m[1], n[1]>> \in G
        <5>1. rank[<<m[1], n[1]>>] = Height(m[1]) + Height(n[1]) /\ rank[v] = Height(x) + Height(y)
          BY <4>3
        <5> HIDE DEF rank, D, G
        <5> QED  BY <1>1, <4>3, <5>1
      <4>5. Exact(m[1], n[1])
        BY <4>4
      <4>6. /\ \E pp \in Paths : Placed(m[1], m[2], pp)
            /\ \E pp \in Paths : Placed(n[1], n[2], pp)
        BY <3>2
      <4> HIDE DEF Placed, G, D, S, T
      <4> QED  BY <4>5, <4>6
    <3>4. ClosePairs(S, T, dis)
            = UNION {UNION {ClosePairs(DOMAIN Contents(m[1]), DOMAIN Contents(n[1]), dis) : n \in Onwards(y, t)} :
                       m \in Onwards(x, s)}
      <4> DEFINE pts(m) == DOMAIN Contents(m[1])
      <4>1. S = UNION {pts(m) : m \in Onwards(x, s)} /\ T = UNION {pts(n) : n \in Onwards(y, t)}
        BY <3>2
      <4> HIDE DEF pts, S, T
      <4>2. ClosePairs(S, T, dis) = UNION {UNION {ClosePairs(pts(m), pts(n), dis) : n \in Onwards(y, t)} :
                       m \in Onwards(x, s)}
        BY <4>1 DEF ClosePairs
      <4> QED  BY <4>2 DEF pts
    <3>5. UNION {UNION {Join(m[1], n[1], dis, m[2], n[2]) : n \in Onwards(y, t)} :
                       m \in Onwards(x, s)}
            = UNION {UNION {ClosePairs(DOMAIN Contents(m[1]), DOMAIN Contents(n[1]), dis) : n \in Onwards(y, t)} :
                       m \in Onwards(x, s)}
      BY <3>3
    <3> QED  BY <3>1, <3>4, <3>5
  <2> QED  BY <2>2, <2>3, <2>4, <2>5
<1>2. rank \in [D -> Nat]
  <2>1. \A a \in Nodes : Height(a) \in Nat
    BY SonsAreLower
  <2> QED  BY <2>1
<1>3. \A v \in D : v \in G
  <2>1. \A v \in D : (\A w \in D : rank[w] < rank[v] => id[w] \in G) => id[v] \in G
    <3> HIDE DEF Exact, rank
    <3> QED  BY <1>1
  <2>2. \A v \in D : id[v] \in G
    <3> HIDE DEF G, D, rank, id
    <3> QED  BY <1>2, <2>1, TypedByRank
  <2> QED  BY <2>2
<1>4. <<a1, a2>> \in G
  <2>1. a1 \in Nodes /\ a2 \in Nodes
    BY BelowFits DEF Nodes
  <2> HIDE DEF G
  <2> QED  BY <1>3, <2>1
<1> QED  BY <1>4

-----------------------------------------------------------------------------
(* knn_report.                                                             *)

\* Distances are numbers, and being nearer is an order.
LEMMA NearerIsOrder ==
  ASSUME NEW c \in Centers
  PROVE  /\ \A p \in Points : PointSqrDis(p, c) \in Nat /\ ~Nearer(p, p, c)
         /\ \A p, q, s \in Points : Nearer(p, q, c) /\ Nearer(q, s, c) => Nearer(p, s, c)
<1>1. c.x \in Int /\ c.y \in Int
  BY QueryFacts
<1>2. \A n \in Int : n * n \in Nat
  <2>1. \A n \in Int : n * n >= 0 /\ n * n \in Int
    OBVIOUS
  <2> QED  BY <2>1
<1>3. \A p \in Points : PointSqrDis(p, c) \in Nat
  BY <1>1, <1>2, Coordinates DEF PointSqrDis, Square
<1>4. \A p \in Points : p.id \in Int
  BY Coordinates
<1> QED  BY <1>3, <1>4 DEF Nearer

\* The points of S that are nearer than p.
NearerIn(S, p, c) == {q \in S : Nearer(q, p, c)}

\* They are finitely many, and fewer in every proper part.
LEMMA NearerAreFew ==
  ASSUME NEW c \in Centers, NEW S \in SUBSET Points, NEW p \in Points
  PROVE  /\ Cardinality(NearerIn(S, p, c)) \in Nat /\ IsFiniteSet(NearerIn(S, p, c))
         /\ \A T \in SUBSET NearerIn(S, p, c) :
              /\ Cardinality(T) \in Nat /\ Cardinality(T) <= Cardinality(NearerIn(S, p, c))
              /\ T # NearerIn(S, p, c) => Cardinality(T) < Cardinality(NearerIn(S, p, c))
<1> DEFINE N == NearerIn(S, p, c)
<1>1. IsFiniteSet(Points) /\ N \in SUBSET Points
  BY ConstantsAssumption DEF NearerIn
<1> HIDE DEF N
<1>2. IsFiniteSet(N)
  BY <1>1, FS_Subset
<1>3. Cardinality(N) \in Nat
  BY <1>2, FS_CardinalityType
<1>4. ASSUME NEW T \in SUBSET N
      PROVE  /\ Cardinality(T) \in Nat /\ Cardinality(T) <= Cardinality(N)
             /\ T # N => Cardinality(T) < Cardinality(N)
  <2>1. IsFiniteSet(T) /\ Cardinality(T) <= Cardinality(N) /\ (Cardinality(N) = Cardinality(T) => N = T)
    BY <1>2, FS_Subset
  <2>2. Cardinality(T) \in Nat
    BY <2>1, FS_CardinalityType
  <2> QED  BY <1>3, <2>1, <2>2
<1> QED  BY <1>2, <1>3, <1>4 DEF N

\* What does not make it into nn_res has k points before it there.
LEMMA EnoughNearer ==
  ASSUME NEW c \in Centers, NEW k \in Nat, NEW S \in SUBSET Points,
         NEW q \in S, q \notin Nearest(S, k, c)
  PROVE  \E m \in S : /\ m = q \/ Nearer(m, q, c)
                      /\ Cardinality(NearerIn(S, m, c)) >= k
                      /\ NearerIn(S, m, c) \subseteq Nearest(S, k, c)
<1> DEFINE far == {m \in S : (m = q \/ Nearer(m, q, c)) /\ Cardinality(NearerIn(S, m, c)) >= k}
           sizes == {Cardinality(NearerIn(S, m, c)) : m \in far}
<1>1. \A m \in S : /\ m \in Points /\ Cardinality(NearerIn(S, m, c)) \in Nat
                   /\ m \in Nearest(S, k, c) <=> Cardinality(NearerIn(S, m, c)) < k
  BY NearerAreFew DEF NearerIn, Nearest
<1>2. q \in far
  BY <1>1
<1>3. PICK n \in sizes : \A i \in sizes : n <= i
  <2>1. sizes \in SUBSET Nat /\ sizes # {}
    BY <1>1, <1>2
  <2> HIDE DEF sizes
  <2> QED  BY <2>1, SmallestElement
<1>4. PICK m \in far : n = Cardinality(NearerIn(S, m, c))
  BY <1>3
<1>5. ASSUME NEW s \in NearerIn(S, m, c)  PROVE s \in Nearest(S, k, c)
  <2>1. s \in S /\ Nearer(s, m, c) /\ s \in Points /\ m \in S /\ m \in Points /\ q \in Points
    BY <1>1, <1>4, <1>5 DEF NearerIn
  <2>2. Nearer(s, q, c)
    BY <1>4, <2>1, NearerIsOrder
  <2>3. NearerIn(S, s, c) \in SUBSET NearerIn(S, m, c) /\ NearerIn(S, s, c) # NearerIn(S, m, c)
    <3>1. \A x \in NearerIn(S, s, c) : x \in S /\ x \in Points /\ Nearer(x, s, c)
      BY <1>1 DEF NearerIn
    <3>2. \A x \in NearerIn(S, s, c) : Nearer(x, m, c)
      BY <2>1, <3>1, NearerIsOrder
    <3>3. s \notin NearerIn(S, s, c)
      BY <2>1, NearerIsOrder DEF NearerIn
    <3> QED  BY <1>5, <3>1, <3>2, <3>3 DEF NearerIn
  <2>4. Cardinality(NearerIn(S, s, c)) < n
    BY <1>4, <2>1, <2>3, NearerAreFew
  <2>5. s \notin far
    <3>1. s \in far => Cardinality(NearerIn(S, s, c)) \in sizes
      OBVIOUS
    <3>2. Cardinality(NearerIn(S, s, c)) \in Nat /\ n \in Nat
      BY <1>1, <1>4, <2>1
    <3> HIDE DEF far, sizes
    <3> QED  BY <1>3, <2>4, <3>1, <3>2
  <2> QED  BY <1>1, <2>1, <2>2, <2>5
<1> QED  BY <1>4, <1>5

\* Points may be looked at one set after another.
LEMMA NearestInTurn ==
  ASSUME NEW c \in Centers, NEW k \in Nat, NEW S \in SUBSET Points, NEW T \in SUBSET Points
  PROVE  Nearest(Nearest(S, k, c) \cup T, k, c) = Nearest(S \cup T, k, c)
<1> DEFINE N == Nearest(S, k, c)
<1>1. N \subseteq S /\ N \cup T \in SUBSET Points /\ S \cup T \in SUBSET Points
  BY DEF Nearest
<1>2. \A U \in SUBSET Points : \A p \in U : p \in Nearest(U, k, c) <=> Cardinality(NearerIn(U, p, c)) < k
  BY DEF Nearest, NearerIn
<1>3. \A U \in SUBSET Points : Nearest(U, k, c) \subseteq U
  BY DEF Nearest
<1> HIDE DEF N
<1>4. ASSUME NEW p \in Nearest(S \cup T, k, c)  PROVE p \in Nearest(N \cup T, k, c)
  <2>1. p \in S \cup T /\ p \in Points /\ Cardinality(NearerIn(S \cup T, p, c)) < k
    BY <1>1, <1>2, <1>3, <1>4
  <2>2. \A U \in SUBSET (S \cup T) : Cardinality(NearerIn(U, p, c)) < k
    <3> SUFFICES ASSUME NEW U \in SUBSET (S \cup T)  PROVE Cardinality(NearerIn(U, p, c)) < k
      OBVIOUS
    <3>1. NearerIn(U, p, c) \in SUBSET NearerIn(S \cup T, p, c)
      BY DEF NearerIn
    <3>2. /\ Cardinality(NearerIn(U, p, c)) \in Nat /\ Cardinality(NearerIn(S \cup T, p, c)) \in Nat
          /\ Cardinality(NearerIn(U, p, c)) <= Cardinality(NearerIn(S \cup T, p, c))
      BY <1>1, <2>1, <3>1, NearerAreFew
    <3> QED  BY <2>1, <3>2
  <2>3. p \in S => p \in N
    BY <1>2, <2>2 DEF N
  <2>4. p \in N \cup T
    BY <2>1, <2>3
  <2>5. N \cup T \in SUBSET (S \cup T)
    BY <1>1
  <2> QED  BY <1>1, <1>2, <2>2, <2>4, <2>5
<1>5. ASSUME NEW p \in Nearest(N \cup T, k, c)  PROVE p \in Nearest(S \cup T, k, c)
  <2>1. p \in N \cup T /\ p \in S \cup T /\ p \in Points /\ Cardinality(NearerIn(N \cup T, p, c)) < k
    BY <1>1, <1>2, <1>3, <1>5
  <2>2. ASSUME NEW q \in S, q \notin N, Nearer(q, p, c)  PROVE FALSE
    <3>1. PICK m \in S : /\ m = q \/ Nearer(m, q, c)
                         /\ Cardinality(NearerIn(S, m, c)) >= k
                         /\ NearerIn(S, m, c) \subseteq N
      BY <2>2, EnoughNearer DEF N
    <3>2. m \in Points /\ q \in Points /\ Nearer(m, p, c)
      BY <2>1, <2>2, <3>1, NearerIsOrder
    <3>3. NearerIn(S, m, c) \in SUBSET NearerIn(N \cup T, p, c)
      <4>1. \A x \in NearerIn(S, m, c) : x \in N /\ x \in Points /\ Nearer(x, m, c)
        BY <3>1 DEF NearerIn
      <4>2. \A x \in NearerIn(S, m, c) : Nearer(x, p, c)
        BY <2>1, <3>2, <4>1, NearerIsOrder
      <4> QED  BY <4>1, <4>2 DEF NearerIn
    <3>4. /\ Cardinality(NearerIn(S, m, c)) \in Nat /\ Cardinality(NearerIn(N \cup T, p, c)) \in Nat
          /\ Cardinality(NearerIn(S, m, c)) <= Cardinality(NearerIn(N \cup T, p, c))
      BY <1>1, <2>1, <3>3, NearerAreFew
    <3> QED  BY <2>1, <3>1, <3>4
  <2>3. NearerIn(S \cup T, p, c) = NearerIn(N \cup T, p, c)
    BY <1>1, <2>2 DEF NearerIn
  <2> QED  BY <1>1, <1>2, <2>1, <2>3
<1> QED  BY <1>4, <1>5 DEF N

\* No point of a box is nearer than the box.
LEMMA BoxIsNearer ==
  ASSUME NEW c \in Centers, NEW box \in Box, NEW pt \in Points, InBox(pt, box)
  PROVE  BoxSqrDis(c, box) <= PointSqrDis(pt, c) /\ BoxSqrDis(c, box) \in Int
<1> DEFINE gap(i) == Larger(Larger(box.lo[i] - c[i], 0), Larger(c[i] - box.hi[i], 0))
<1>1. /\ c["x"] \in Int /\ c["y"] \in Int /\ pt["x"] \in Nat /\ pt["y"] \in Nat
      /\ \A i \in Sides : box.lo[i] \in Int /\ box.hi[i] \in Int
  <2>1. c.x \in Int /\ c.y \in Int
    BY QueryFacts
  <2>2. \A i \in Sides : box.lo[i] \in Int /\ box.hi[i] \in Int
    BY DEF Box, Corner, Sides
  <2> QED  BY <2>1, <2>2, Coordinates
<1>2. \A m, n \in Int : m >= 0 /\ (m <= n \/ m <= -n) => m * m <= n * n /\ m * m \in Int /\ n * n \in Int
  <2> SUFFICES ASSUME NEW m \in Int, NEW n \in Int, m >= 0, m <= n \/ m <= -n  PROVE m * m <= n * n
    OBVIOUS
  <2>1. \A a, b \in Nat : a <= b => a * a <= b * b
    <3> SUFFICES ASSUME NEW a \in Nat, NEW b \in Nat, a <= b  PROVE a * a <= b * b
      OBVIOUS
    <3>1. a * a <= a * b /\ a * b <= b * b
      OBVIOUS
    <3> QED  BY <3>1
  <2>2. (-n) * (-n) = n * n
    OBVIOUS
  <2> QED  BY <2>1, <2>2
<1>3. ASSUME NEW i \in Sides
      PROVE  Square(gap(i)) <= Square(pt[i] - c[i]) /\ Square(gap(i)) \in Int /\ Square(pt[i] - c[i]) \in Int
  <2> DEFINE m == gap(i)
             n == pt[i] - c[i]
  <2>0. c[i] \in Int /\ pt[i] \in Int /\ box.lo[i] \in Int /\ box.hi[i] \in Int
    BY <1>1 DEF Sides
  <2>1. box.lo[i] <= pt[i] /\ pt[i] <= box.hi[i]
    BY DEF InBox, Sides
  <2>2. m \in Int /\ n \in Int /\ m >= 0 /\ (m <= n \/ m <= -n)
    BY <2>0, <2>1 DEF Larger
  <2> HIDE DEF m, n
  <2>3. m * m <= n * n /\ m * m \in Int /\ n * n \in Int
    BY <1>2, <2>2
  <2> QED  BY <2>3 DEF Square, m, n
<1>4. BoxSqrDis(c, box) = Square(gap("x")) + Square(gap("y"))
  BY DEF BoxSqrDis
<1>5. PointSqrDis(pt, c) = Square(pt["x"] - c["x"]) + Square(pt["y"] - c["y"])
  BY DEF PointSqrDis
<1> HIDE DEF gap
<1>6. /\ Square(gap("x")) <= Square(pt["x"] - c["x"]) /\ Square(gap("x")) \in Int
      /\ Square(pt["x"] - c["x"]) \in Int
      /\ Square(gap("y")) <= Square(pt["y"] - c["y"]) /\ Square(gap("y")) \in Int
      /\ Square(pt["y"] - c["y"]) \in Int
  BY <1>3 DEF Sides
<1> QED  BY <1>4, <1>5, <1>6

\* A half that is not entered has nothing to add.
LEMMA NothingNearer ==
  ASSUME NEW c \in Centers, NEW k \in Nat, NEW box \in Box,
         NEW found \in SUBSET Points, Nearest(found, k, c) = found, ~Worthwhile(box, k, c, found),
         NEW T \in SUBSET Points, \A t \in T : InBox(t, box)
  PROVE  Nearest(found \cup T, k, c) = found
<1>1. ~(Cardinality(found) < k) /\ \A p \in found : ~(BoxSqrDis(c, box) <= PointSqrDis(p, c))
  BY DEF Worthwhile
<1>2. IsFiniteSet(found) /\ Cardinality(found) \in Nat
  <2>1. IsFiniteSet(Points)
    BY ConstantsAssumption
  <2>2. IsFiniteSet(found)
    BY <2>1, FS_Subset
  <2> QED  BY <2>2, FS_CardinalityType
<1>3. ASSUME NEW t \in T, NEW p \in found
      PROVE  Nearer(p, t, c) /\ ~Nearer(t, p, c) /\ t # p
  <2>1. BoxSqrDis(c, box) <= PointSqrDis(t, c) /\ BoxSqrDis(c, box) \in Int
    BY BoxIsNearer
  <2>2. PointSqrDis(t, c) \in Nat /\ PointSqrDis(p, c) \in Nat
    BY NearerIsOrder
  <2>3. PointSqrDis(p, c) < PointSqrDis(t, c)
    BY <1>1, <2>1, <2>2
  <2> QED  BY <2>2, <2>3 DEF Nearer
<1>4. ASSUME NEW t \in T  PROVE t \notin Nearest(found \cup T, k, c)
  <2>1. found \in SUBSET NearerIn(found \cup T, t, c)
    BY <1>3 DEF NearerIn
  <2>2. /\ Cardinality(found) <= Cardinality(NearerIn(found \cup T, t, c))
        /\ Cardinality(NearerIn(found \cup T, t, c)) \in Nat
    <3>1. found \cup T \in SUBSET Points
      OBVIOUS
    <3> QED  BY <2>1, <3>1, NearerAreFew
  <2>3. ~(Cardinality(NearerIn(found \cup T, t, c)) < k)
    BY <1>1, <1>2, <2>2
  <2> QED  BY <2>3 DEF Nearest, NearerIn
<1>5. ASSUME NEW p \in found  PROVE p \in Nearest(found \cup T, k, c)
  <2>1. Cardinality(NearerIn(found, p, c)) < k
    BY DEF Nearest, NearerIn
  <2>2. NearerIn(found \cup T, p, c) = NearerIn(found, p, c)
    BY <1>3 DEF NearerIn
  <2> QED  BY <2>1, <2>2 DEF Nearest, NearerIn
<1>6. Nearest(found \cup T, k, c) \subseteq found \cup T
  BY DEF Nearest
<1> QED  BY <1>4, <1>5, <1>6

\* What is found after the d-half of a region has been entered, or not.
Entered(a, d, k, c, r, found) ==
  IF Son(a, d) # Null /\ Worthwhile(Half(r, d).box, k, c, found)
  THEN Knn(Son(a, d), k, c, Half(r, d), found) ELSE found

\* One call of knn_report_node: the nearer half first, then the other.
LEMMA KnnUnfolds ==
  ASSUME IInv, NEW k, NEW c, NEW a \in Nodes, NEW r \in Regions, NEW res \in SUBSET Points
  PROVE  /\ a = Null => Knn(a, k, c, r, res) = res
         /\ a # Null /\ heap[a].leaf =>
              Knn(a, k, c, r, res) = Nearest(res \cup DOMAIN Contents(a), k, c)
         /\ a # Null /\ ~heap[a].leaf => \E d \in {0, 1} :
              Knn(a, k, c, r, res) = Entered(a, 1 - d, k, c, r, Entered(a, d, k, c, r, res))
         /\ Knn(a, k, c, r, res) \in SUBSET Points
<1> DEFINE D == Nodes \X Regions \X SUBSET Points
           V == SUBSET Points
           rank == [v \in D |-> Height(v[1])]
           first(v) == IF \/ Son(v[1], 1) = Null
                          \/ Son(v[1], 0) # Null
                             /\ BoxSqrDis(c, Half(v[2], 0).box) <= BoxSqrDis(c, Half(v[2], 1).box)
                       THEN 0 ELSE 1
           enter(v, f, d, found) ==
             IF Son(v[1], d) # Null /\ Worthwhile(Half(v[2], d).box, k, c, found)
             THEN f[<<Son(v[1], d), Half(v[2], d), found>>] ELSE found
           step(v, f) == IF v[1] = Null THEN v[3]
                         ELSE IF heap[v[1]].leaf THEN Nearest(v[3] \cup DOMAIN heap[v[1]].records, k, c)
                         ELSE enter(v, f, 1 - first(v), enter(v, f, first(v), v[3]))
           Compute == [vf \in D \X [D -> V] |-> step(vf[1], vf[2])]
           R == CHOOSE f : f = [v \in D |-> step(v, f)]
<1>1. \A x, s, found : Knn(x, k, c, s, found) = R[<<x, s, found>>]
  BY DEF Knn
<1>2. ASSUME NEW v \in D, v[1] # Null, ~heap[v[1]].leaf, NEW d \in {0, 1}, NEW found \in SUBSET Points
      PROVE  LET w == <<Son(v[1], d), Half(v[2], d), found>> IN w \in D /\ rank[w] < rank[v]
  <2>1. v[1] \in DOMAIN heap /\ v[2] \in Regions
    BY <1>2 DEF Nodes
  <2>2. Son(v[1], d) \in Nodes /\ Height(Son(v[1], d)) < Height(v[1]) /\ Half(v[2], d) \in Regions
    BY <1>2, <2>1, SonsAreLower, HalvesOfRegion
  <2> QED  BY <2>2
<1>a. \A v : first(v) \in {0, 1} /\ 1 - first(v) \in {0, 1}
  OBVIOUS
<1>b. ASSUME NEW v \in D, v[1] # Null, ~heap[v[1]].leaf, NEW d \in {0, 1}, NEW found \in SUBSET Points,
                 NEW f, \A w \in D : rank[w] < rank[v] => f[w] \in V
          PROVE  enter(v, f, d, found) \in SUBSET Points
  <2>1. f[<<Son(v[1], d), Half(v[2], d), found>>] \in SUBSET Points
    BY <1>2, <1>b
  <2> QED  BY <2>1
<1>3. ASSUME NEW v \in D, NEW f, \A w \in D : rank[w] < rank[v] => f[w] \in V
      PROVE  step(v, f) \in V
  <2>1. CASE v[1] = Null
    BY <2>1
  <2>2. CASE v[1] # Null /\ heap[v[1]].leaf
    <3>1. DOMAIN heap[v[1]].records \subseteq Points
      BY <2>2, LeafRecordsAreBags DEF Nodes, IsBagOfPoints
    <3>2. \A S \in SUBSET Points : Nearest(S, k, c) \in SUBSET Points
      BY DEF Nearest
    <3>3. v[3] \cup DOMAIN heap[v[1]].records \in SUBSET Points
      BY <3>1
    <3> QED  BY <2>2, <3>2, <3>3
  <2>3. CASE v[1] # Null /\ ~heap[v[1]].leaf
    <3>1. v[3] \in SUBSET Points
      OBVIOUS
    <3> HIDE DEF first, enter, D, rank
    <3>2. enter(v, f, first(v), v[3]) \in SUBSET Points
      BY <1>a, <1>b, <1>3, <2>3, <3>1
    <3>3. enter(v, f, 1 - first(v), enter(v, f, first(v), v[3])) \in SUBSET Points
      BY <1>a, <1>b, <1>3, <2>3, <3>2
    <3> QED  BY <2>3, <3>3
  <2> QED  BY <2>1, <2>2, <2>3
<1>4. ASSUME NEW v \in D, NEW g \in [D -> V], NEW h \in [D -> V],
             \A w \in D : rank[w] < rank[v] => g[w] = h[w]
      PROVE  step(v, g) = step(v, h)
  <2>1. CASE v[1] # Null /\ ~heap[v[1]].leaf
    <3>1. \A d \in {0, 1}, found \in SUBSET Points : enter(v, g, d, found) = enter(v, h, d, found)
      <4> SUFFICES ASSUME NEW d \in {0, 1}, NEW found \in SUBSET Points
                   PROVE  enter(v, g, d, found) = enter(v, h, d, found)
        OBVIOUS
      <4>1. g[<<Son(v[1], d), Half(v[2], d), found>>] = h[<<Son(v[1], d), Half(v[2], d), found>>]
        BY <1>2, <1>4, <2>1
      <4> QED  BY <4>1
    <3>2. v[3] \in SUBSET Points
      OBVIOUS
    <3>3. \A w \in D : rank[w] < rank[v] => g[w] \in V
      OBVIOUS
    <3> HIDE DEF first, enter, D, rank
    <3>4. enter(v, g, first(v), v[3]) \in SUBSET Points
      BY <1>a, <1>b, <2>1, <3>2, <3>3
    <3>5. enter(v, g, first(v), v[3]) = enter(v, h, first(v), v[3])
      BY <1>a, <3>1, <3>2
    <3>6. enter(v, g, 1 - first(v), enter(v, g, first(v), v[3]))
            = enter(v, h, 1 - first(v), enter(v, h, first(v), v[3]))
      BY <1>a, <3>1, <3>4, <3>5
    <3> QED  BY <2>1, <3>6
  <2>2. CASE ~(v[1] # Null /\ ~heap[v[1]].leaf)
    BY <2>2
  <2> QED  BY <2>1, <2>2
<1>5. rank \in [D -> Nat] /\ V # {}
  <2>1. \A x \in Nodes : Height(x) \in Nat
    BY SonsAreLower
  <2>2. {} \in V
    OBVIOUS
  <2>3. rank \in [D -> Nat]
    BY <2>1
  <2> HIDE DEF rank, D, V
  <2> QED  BY <2>2, <2>3
<1> HIDE DEF D, V, rank, step, first, enter
<1>6. CallsLower(D, V, rank, Compute)
  <2>1. \A v \in D, f \in [D -> V] : Compute[<<v, f>>] = step(v, f) /\ step(v, f) \in V
    BY <1>3
  <2>2. Compute \in [D \X [D -> V] -> V]
    BY <2>1
  <2> HIDE DEF Compute
  <2> QED  BY <1>4, <1>5, <2>1, <2>2 DEF CallsLower
<1>7. PICK f \in [D -> V] : \A v \in D : f[v] = Compute[<<v, f>>]
  <2> HIDE DEF Compute
  <2> QED  BY <1>6, RecursionEnds
<1>8. f = [v \in D |-> step(v, f)]
  BY <1>7
<1>9. R = [v \in D |-> step(v, R)]
  BY <1>8
<1> HIDE DEF R
<1>10. <<a, r, res>> \in D
  BY DEF D
<1>11. R[<<a, r, res>>] = step(<<a, r, res>>, R)
  BY <1>9, <1>10
<1>12. \A v \in D : R[v] \in V
  BY <1>3, <1>5, <1>9, TypedByRank
<1>13. Knn(a, k, c, r, res) \in V
  BY <1>1, <1>10, <1>12
<1>14. \A d, found : enter(<<a, r, res>>, R, d, found) = Entered(a, d, k, c, r, found)
  BY <1>1 DEF enter, Entered
<1>15. Knn(a, k, c, r, res) = IF a = Null THEN res
         ELSE IF heap[a].leaf THEN Nearest(res \cup DOMAIN heap[a].records, k, c)
         ELSE enter(<<a, r, res>>, R, 1 - first(<<a, r, res>>),
                    enter(<<a, r, res>>, R, first(<<a, r, res>>), res))
  BY <1>1, <1>11 DEF step
<1>16. a # Null /\ heap[a].leaf => Contents(a) = heap[a].records
  BY ContentsHere DEF Nodes
<1> QED  BY <1>a, <1>13, <1>14, <1>15, <1>16 DEF V

\* knn_report_node adds the points below a node to those found before.
LEMMA KnnIsExactBelow ==
  ASSUME IInv, NodesFit, NEW c \in Centers, NEW k \in Nat
  PROVE  \A p \in Paths : \A a, r, res :
           Fits(a, p) /\ RegionAt(r, p) /\ res \in SUBSET Points /\ Nearest(res, k, c) = res =>
             Knn(a, k, c, r, res) = Nearest(res \cup DOMAIN Contents(a), k, c)
<1> DEFINE Exact(p) == \A a, r, res :
             Fits(a, p) /\ RegionAt(r, p) /\ res \in SUBSET Points /\ Nearest(res, k, c) = res =>
               Knn(a, k, c, r, res) = Nearest(res \cup DOMAIN Contents(a), k, c)
           G == {p \in Paths : Exact(p)}
<1>1. \A S \in SUBSET Points : /\ Nearest(S, k, c) \in SUBSET Points
                               /\ Nearest(Nearest(S, k, c), k, c) = Nearest(S, k, c)
  <2> SUFFICES ASSUME NEW S \in SUBSET Points
               PROVE  /\ Nearest(S, k, c) \in SUBSET Points
                      /\ Nearest(Nearest(S, k, c), k, c) = Nearest(S, k, c)
    OBVIOUS
  <2>1. Nearest(Nearest(S, k, c) \cup {}, k, c) = Nearest(S \cup {}, k, c)
    BY NearestInTurn
  <2>2. Nearest(S, k, c) \in SUBSET Points
    BY DEF Nearest
  <2> QED  BY <2>1, <2>2
<1>2. ASSUME NEW p \in Paths, Len(p) < Bits => \A d \in {0, 1} : Child(p, d) \in G
      PROVE  Exact(p)
  <2> SUFFICES ASSUME NEW a, NEW r, NEW res \in SUBSET Points, Fits(a, p), RegionAt(r, p),
                      Nearest(res, k, c) = res
               PROVE  Knn(a, k, c, r, res) = Nearest(res \cup DOMAIN Contents(a), k, c)
    OBVIOUS
  <2>1. a \in Nodes /\ r \in Regions
    BY BelowFits DEF RegionAt, Nodes
  <2>5. /\ a = Null => Knn(a, k, c, r, res) = res
        /\ a # Null /\ heap[a].leaf =>
             Knn(a, k, c, r, res) = Nearest(res \cup DOMAIN Contents(a), k, c)
        /\ a # Null /\ ~heap[a].leaf => \E d \in {0, 1} :
             Knn(a, k, c, r, res) = Entered(a, 1 - d, k, c, r, Entered(a, d, k, c, r, res))
    BY <2>1, KnnUnfolds
  <2>2. CASE a = Null
    <3>1. DOMAIN Contents(a) = {}
      BY <2>2, ContentsHere DEF EmptyBag, SetToBag
    <3>2. res \cup DOMAIN Contents(a) = res
      BY <3>1
    <3> QED  BY <2>2, <2>5, <3>2
  <2>3. CASE a # Null /\ heap[a].leaf
    BY <2>1, <2>3, <2>5, ContentsHere DEF Nodes
  <2>4. CASE a # Null /\ ~heap[a].leaf
    <3> DEFINE pts(d) == DOMAIN Contents(Son(a, d))
    <3>1. /\ Len(p) < Bits
          /\ Contents(a) = Contents(Son(a, 0)) (+) Contents(Son(a, 1))
          /\ \A d \in {0, 1} : /\ Child(p, d) \in Paths /\ Fits(Son(a, d), Child(p, d))
                               /\ RegionAt(Half(r, d), Child(p, d))
      BY <2>4, DownFits, HalfIsRegion
    <3>2. DOMAIN Contents(a) = pts(0) \cup pts(1)
      BY <3>1 DEF (+)
    <3>3. \A d \in {0, 1} : /\ pts(d) \in SUBSET Points
                            /\ \A x \in pts(d) : InBox(x, Half(r, d).box)
                            /\ Half(r, d).box \in Box
      <4> SUFFICES ASSUME NEW d \in {0, 1}
                   PROVE  /\ pts(d) \in SUBSET Points
                          /\ \A x \in pts(d) : InBox(x, Half(r, d).box)
                          /\ Half(r, d).box \in Box
        OBVIOUS
      <4>1. /\ IsBagOfPoints(Contents(Son(a, d)))
            /\ \A x \in pts(d) : Under(x, Child(p, d))
        BY <3>1, BelowFits
      <4>2. pts(d) \in SUBSET Points
        BY <4>1 DEF IsBagOfPoints
      <4> HIDE DEF pts
      <4> QED  BY <3>1, <4>1, <4>2, RegionTypes DEF RegionAt
    <3>4. ASSUME NEW d \in {0, 1}, NEW found \in SUBSET Points, Nearest(found, k, c) = found
          PROVE  Entered(a, d, k, c, r, found) = Nearest(found \cup pts(d), k, c)
      <4>1. CASE Son(a, d) = Null
        <5>1. pts(d) = {}
          BY <4>1, ContentsHere DEF EmptyBag, SetToBag
        <5>2. found \cup pts(d) = found
          BY <5>1
        <5>3. Entered(a, d, k, c, r, found) = found
          BY <4>1 DEF Entered
        <5> HIDE DEF pts
        <5> QED  BY <3>4, <5>2, <5>3
      <4>2. CASE ~Worthwhile(Half(r, d).box, k, c, found)
        <5>1. Entered(a, d, k, c, r, found) = found
          BY <4>2 DEF Entered
        <5> HIDE DEF pts
        <5> QED  BY <3>3, <3>4, <4>2, <5>1, NothingNearer, SMTT(30)
      <4>3. CASE Son(a, d) # Null /\ Worthwhile(Half(r, d).box, k, c, found)
        <5>1. Entered(a, d, k, c, r, found) = Knn(Son(a, d), k, c, Half(r, d), found)
          BY <4>3 DEF Entered
        <5>2. Exact(Child(p, d))
          BY <1>2, <3>1
        <5> QED  BY <3>1, <3>4, <5>1, <5>2
      <4> QED  BY <4>1, <4>2, <4>3
    <3>5. PICK d \in {0, 1} : Knn(a, k, c, r, res) = Entered(a, 1 - d, k, c, r, Entered(a, d, k, c, r, res))
      BY <2>4, <2>5
    <3> HIDE DEF pts
    <3> DEFINE half == Nearest(res \cup pts(d), k, c)
    <3>6. Entered(a, d, k, c, r, res) = half
      BY <3>4
    <3>7. 1 - d \in {0, 1} /\ pts(0) \cup pts(1) = pts(d) \cup pts(1 - d)
      BY <3>5
    <3>8. res \cup pts(d) \in SUBSET Points /\ pts(1 - d) \in SUBSET Points
      BY <3>3, <3>7
    <3>9. half \in SUBSET Points /\ Nearest(half, k, c) = half
      BY <1>1, <3>8
    <3>10. Knn(a, k, c, r, res) = Nearest(half \cup pts(1 - d), k, c)
      <4> HIDE DEF half, pts
      <4>1. \A e \in {0, 1}, found \in SUBSET Points : Nearest(found, k, c) = found =>
              Entered(a, e, k, c, r, found) = Nearest(found \cup pts(e), k, c)
        BY <3>4
      <4> QED  BY <3>5, <3>6, <3>7, <3>9, <4>1
    <3>11. Nearest(half \cup pts(1 - d), k, c) = Nearest((res \cup pts(d)) \cup pts(1 - d), k, c)
      <4> DEFINE S == res \cup pts(d)
                 T == pts(1 - d)
      <4>1. S \in SUBSET Points /\ T \in SUBSET Points
        BY <3>8
      <4> HIDE DEF S, T
      <4>2. Nearest(Nearest(S, k, c) \cup T, k, c) = Nearest(S \cup T, k, c)
        BY <4>1, NearestInTurn, Zenon
      <4> QED  BY <4>2 DEF S, T
    <3>12. (res \cup pts(d)) \cup pts(1 - d) = res \cup DOMAIN Contents(a)
      BY <3>2, <3>7
    <3> QED  BY <3>10, <3>11, <3>12
  <2> QED  BY <2>2, <2>3, <2>4
<1>3. \A p \in Paths : p \in G
  <2>1. \A p \in Paths : (Len(p) < Bits => \A d \in {0, 1} : Child(p, d) \in G) => p \in G
    <3> HIDE DEF Exact
    <3> QED  BY <1>2
  <2> HIDE DEF G
  <2> QED  BY <2>1, PathInduction
<1> QED  BY <1>3

-----------------------------------------------------------------------------
(* split_by_bit.                                                           *)

Splits(P, b, f, v) ==
  LET mid == (v[1] + v[2]) \div 2
  IN  IF v[2] - v[1] <= ScanLength THEN FirstRight(P, v[1], v[2], b)
      ELSE IF LeftAt(P, mid, b) THEN f[<<mid + 1, v[2]>>]
      ELSE f[<<v[1], mid>>]

\* The middle of a range of at least two.
LEMMA Middle ==
  ASSUME NEW i \in Nat, NEW j \in Nat, i < j
  PROVE  LET mid == (i + j) \div 2 IN mid \in Nat /\ i <= mid /\ mid + 1 <= j
OBVIOUS

\* The bisection ends: it is a function of its range.
LEMMA SplitUnfolds ==
  ASSUME NEW P, NEW b, NEW end \in Nat, NEW start \in 0..end
  PROVE  \E f : /\ SplitByBit(P, start, end, b) = f[<<start, end>>]
                /\ \A v \in (0..end) \X (0..end) : f[v] = Splits(P, b, f, v)
<1> DEFINE D == (0..end) \X (0..end)
           V == {FirstRight(P, v[1], v[2], b) : v \in D}
           rank == [v \in D |-> IF v[1] <= v[2] THEN v[2] - v[1] ELSE 0]
           Compute == [w \in D \X [D -> V] |-> Splits(P, b, w[2], w[1])]
<1>1. ASSUME NEW v \in D, ~(v[2] - v[1] <= ScanLength)
      PROVE  LET mid == (v[1] + v[2]) \div 2
             IN  /\ <<mid + 1, v[2]>> \in D /\ rank[<<mid + 1, v[2]>>] < rank[v]
                 /\ <<v[1], mid>> \in D /\ rank[<<v[1], mid>>] < rank[v]
  <2> DEFINE i == v[1]
             j == v[2]
             mid == (i + j) \div 2
  <2>1. i \in 0..end /\ j \in 0..end /\ i \in Nat /\ j \in Nat /\ i < j /\ v = <<i, j>>
    BY <1>1, QueryFacts
  <2>2. mid \in Nat /\ i <= mid /\ mid + 1 <= j
    BY <2>1, Middle
  <2> HIDE DEF i, j, mid
  <2>3. /\ mid + 1 \in 0..end /\ mid \in 0..end
        /\ j - (mid + 1) < j - i /\ mid - i < j - i
    BY <2>1, <2>2
  <2>4. /\ <<mid + 1, j>> \in D /\ rank[<<mid + 1, j>>] = j - (mid + 1)
        /\ <<i, mid>> \in D /\ rank[<<i, mid>>] = mid - i
        /\ rank[<<i, j>>] = j - i
    BY <2>1, <2>2, <2>3
  <2> HIDE DEF D, rank
  <2> QED  BY <2>1, <2>3, <2>4 DEF i, j, mid
<1>2. ASSUME NEW v \in D, NEW f \in [D -> V]  PROVE Splits(P, b, f, v) \in V
  <2>1. CASE v[2] - v[1] <= ScanLength
    <3>1. Splits(P, b, f, v) = FirstRight(P, v[1], v[2], b)
      BY <2>1 DEF Splits
    <3> HIDE DEF D
    <3> QED  BY <3>1
  <2>2. CASE ~(v[2] - v[1] <= ScanLength)
    <3> HIDE DEF D, V, rank
    <3> QED  BY <1>1, <2>2 DEF Splits
  <2> QED  BY <2>1, <2>2
<1>3. V # {} /\ rank \in [D -> Nat] /\ Compute \in [D \X [D -> V] -> V]
  <2>1. <<0, 0>> \in D
    OBVIOUS
  <2>2. V # {}
    <3> HIDE DEF D
    <3> QED  BY <2>1
  <2>3. rank \in [D -> Nat]
    <3>1. ASSUME NEW v \in D  PROVE (IF v[1] <= v[2] THEN v[2] - v[1] ELSE 0) \in Nat
      <4>1. v[1] \in Int /\ v[2] \in Int
        OBVIOUS
      <4> HIDE DEF D
      <4> QED  BY <4>1
    <3> HIDE DEF D
    <3> QED  BY <3>1
  <2>4. \A w \in D \X [D -> V] : Splits(P, b, w[2], w[1]) \in V
    <3> HIDE DEF D, V
    <3> QED  BY <1>2
  <2> HIDE DEF D, V, rank
  <2> QED  BY <2>2, <2>3, <2>4
<1>4. CallsLower(D, V, rank, Compute)
  <2> SUFFICES ASSUME NEW v \in D, NEW g \in [D -> V], NEW h \in [D -> V],
                      \A y \in D : rank[y] < rank[v] => g[y] = h[y]
               PROVE  Splits(P, b, g, v) = Splits(P, b, h, v)
    <3> HIDE DEF D, V, rank
    <3> QED  BY <1>3 DEF CallsLower
  <2> HIDE DEF D, V, rank
  <2>1. CASE v[2] - v[1] <= ScanLength
    BY <2>1 DEF Splits
  <2>2. CASE ~(v[2] - v[1] <= ScanLength)
    BY <1>1, <2>2 DEF Splits
  <2> QED  BY <2>1, <2>2
<1>5. PICK f \in [D -> V] : \A v \in D : f[v] = Splits(P, b, f, v)
  <2>1. \E f \in [D -> V] : \A v \in D : f[v] = Compute[<<v, f>>]
    <3> HIDE DEF D, V, rank, Compute
    <3> QED  BY <1>4, RecursionEnds
  <2> HIDE DEF D, V, rank
  <2> QED  BY <2>1
<1> DEFINE F == CHOOSE g : g = [v \in D |-> Splits(P, b, g, v)]
<1>6. F = [v \in D |-> Splits(P, b, F, v)]
  <2> HIDE DEF D, V, rank
  <2>1. f = [v \in D |-> Splits(P, b, f, v)]
    BY <1>5
  <2> QED  BY <2>1
<1>7. SplitByBit(P, start, end, b) = F[<<start, end>>]
  BY DEF SplitByBit, Splits
<1>8. \A v \in D : F[v] = Splits(P, b, F, v)
  <2> HIDE DEF D, F
  <2> QED  BY <1>6
<1> HIDE DEF F
<1> QED  BY <1>7, <1>8

\* Where the left points come first, split_by_bit returns their number.
LEMMA SplitIsExact ==
  ASSUME NEW P, NEW b, NEW end \in Nat, NEW n \in 0..end,
         \A i \in 0..end-1 : LeftAt(P, i, b) <=> i < n
  PROVE  SplitByBit(P, 0, end, b) = n
<1>1. PICK f : /\ SplitByBit(P, 0, end, b) = f[<<0, end>>]
               /\ \A v \in (0..end) \X (0..end) : f[v] = Splits(P, b, f, v)
  BY SplitUnfolds
<1> DEFINE D == (0..end) \X (0..end)
           rank == [v \in D |-> IF v[1] <= v[2] THEN v[2] - v[1] ELSE 0]
           Exact(v) == v[1] <= n /\ n <= v[2] => f[v] = n
           G == {v \in D : Exact(v)}
           id == [v \in D |-> v]
<1>2. ASSUME NEW i \in 0..end, NEW j \in 0..end, i <= n, n <= j
      PROVE  FirstRight(P, i, j, b) = n
  <2> DEFINE First(m) == /\ m = j \/ ~LeftAt(P, m, b)
                         /\ \A l \in i..m-1 : LeftAt(P, l, b)
  <2>1. n \in i..j /\ First(n)
    <3>1. n = j \/ ~LeftAt(P, n, b)
      BY <1>2
    <3>2. \A l \in i..n-1 : LeftAt(P, l, b)
      BY <1>2
    <3> QED  BY <1>2, <3>1, <3>2
  <2>2. ASSUME NEW m \in i..j, First(m)  PROVE m = n
    <3>1. CASE m < n
      <4>1. m # j /\ m \in 0..end-1 /\ LeftAt(P, m, b)
        BY <1>2, <3>1
      <4> QED  BY <2>2, <4>1
    <3>2. CASE n < m
      <4>1. n \in i..m-1 /\ n \in 0..end-1
        BY <1>2, <3>2
      <4>2. LeftAt(P, n, b)
        BY <2>2, <4>1
      <4> QED  BY <4>1, <4>2
    <3> QED  BY <3>1, <3>2
  <2>3. (CHOOSE m \in i..j : First(m)) = n
    <3> HIDE DEF First
    <3> QED  BY <2>1, <2>2
  <2> QED  BY <2>3 DEF FirstRight
<1>3. ASSUME NEW v \in D, \A w \in D : rank[w] < rank[v] => w \in G
      PROVE  Exact(v)
  <2> DEFINE i == v[1]
             j == v[2]
             mid == (i + j) \div 2
  <2> SUFFICES ASSUME i <= n, n <= j  PROVE f[v] = n
    OBVIOUS
  <2>1. i \in 0..end /\ j \in 0..end /\ v = <<i, j>>
    OBVIOUS
  <2>2. f[v] = Splits(P, b, f, v)
    BY <1>1
  <2>3. CASE j - i <= ScanLength
    <3>1. Splits(P, b, f, v) = FirstRight(P, i, j, b)
      BY <2>3 DEF Splits
    <3> HIDE DEF i, j
    <3> QED  BY <1>2, <2>1, <2>2, <3>1
  <2>4. CASE ~(j - i <= ScanLength)
    <3>1. i < j /\ i \in Nat /\ j \in Nat
      BY <2>1, <2>4, QueryFacts
    <3>2. mid \in Nat /\ i <= mid /\ mid + 1 <= j
      BY <3>1, Middle
    <3>3. f[v] = IF LeftAt(P, mid, b) THEN f[<<mid + 1, j>>] ELSE f[<<i, mid>>]
      BY <2>2, <2>4 DEF Splits
    <3>4. /\ mid + 1 \in 0..end /\ mid \in 0..end /\ mid \in 0..end-1
          /\ j - (mid + 1) < j - i /\ mid - i < j - i
      <4> HIDE DEF i, j, mid
      <4> QED  BY <2>1, <3>1, <3>2
    <3>5. /\ <<mid + 1, j>> \in D /\ rank[<<mid + 1, j>>] < rank[v]
          /\ <<i, mid>> \in D /\ rank[<<i, mid>>] < rank[v]
      <4> HIDE DEF i, j, mid
      <4>1. /\ <<mid + 1, j>> \in D /\ rank[<<mid + 1, j>>] = j - (mid + 1)
            /\ <<i, mid>> \in D /\ rank[<<i, mid>>] = mid - i
            /\ rank[v] = j - i
        BY <2>1, <3>1, <3>2, <3>4
      <4> HIDE DEF D, rank
      <4> QED  BY <3>4, <4>1
    <3>6. Exact(<<mid + 1, j>>) /\ Exact(<<i, mid>>)
      <4> HIDE DEF i, j, mid, rank, D, Exact
      <4> QED  BY <1>3, <3>5
    <3> HIDE DEF i, j, mid, D, rank
    <3>7. LeftAt(P, mid, b) <=> mid < n
      BY <3>4
    <3>8. CASE mid < n
      <4>1. mid + 1 <= n
        BY <3>2, <3>8
      <4> QED  BY <3>3, <3>6, <3>7, <3>8, <4>1
    <3>9. CASE ~(mid < n)
      <4>1. n <= mid
        BY <3>2, <3>9
      <4> QED  BY <3>3, <3>6, <3>7, <3>9, <4>1
    <3> QED  BY <3>8, <3>9
  <2> QED  BY <2>3, <2>4
<1>4. \A v \in D : id[v] \in G
  <2>1. rank \in [D -> Nat]
    <3>1. ASSUME NEW v \in D  PROVE (IF v[1] <= v[2] THEN v[2] - v[1] ELSE 0) \in Nat
      <4>1. v[1] \in Int /\ v[2] \in Int
        OBVIOUS
      <4> HIDE DEF D
      <4> QED  BY <4>1
    <3> HIDE DEF D
    <3> QED  BY <3>1
  <2>2. ASSUME NEW v \in D, \A w \in D : rank[w] < rank[v] => id[w] \in G
        PROVE  id[v] \in G
    <3> HIDE DEF D, rank, Exact
    <3> QED  BY <1>3, <2>2
  <2> HIDE DEF D, rank, G, id
  <2> QED  BY <2>1, <2>2, TypedByRank
<1>5. <<0, end>> \in D /\ 0 <= n /\ n <= end
  OBVIOUS
<1>6. Exact(<<0, end>>)
  <2> HIDE DEF D, rank, Exact
  <2> QED  BY <1>4, <1>5
<1> HIDE DEF D, rank
<1> QED  BY <1>1, <1>5, <1>6

\* get_sorted_points sorts by a strict total order.
LEMMA BeforeIsOrder ==
  /\ \A x \in Points : ~Before(x, x)
  /\ \A x, y \in Points : x = y \/ Before(x, y) \/ Before(y, x)
  /\ \A x, y, z \in Points : Before(x, y) /\ Before(y, z) => Before(x, z)
<1>1. \A x \in Points : x.id \in Int /\ x.code \in [1..Bits -> {0, 1}]
  BY QueryAssumption, ConstantsAssumption DEF PointsAssumption
<1>2. \A x, y \in Points : x.code = y.code /\ x.id = y.id => x = y
  BY QueryAssumption
<1> DEFINE Below(x, y) == \E i \in 1..Bits : /\ x.code[i] < y.code[i]
                                             /\ \A j \in 1..i-1 : x.code[j] = y.code[j]
<1>3. \A x, y : Before(x, y) <=> Below(x, y) \/ (x.code = y.code /\ x.id < y.id)
  BY DEF Before
<1>4. \A i \in 1..Bits : \A j \in 1..i-1 : j \in 1..Bits
  BY QueryFacts
<1>5. ASSUME NEW x \in Points, NEW i \in 1..Bits  PROVE x.code[i] \in Int
  <2>1. x.code \in [1..Bits -> {0, 1}]
    BY <1>1
  <2>2. x.code[i] \in {0, 1}
    BY <2>1
  <2> QED  BY <2>2
<1>6. ASSUME NEW x \in Points  PROVE ~Before(x, x)
  BY <1>1, <1>3, <1>5
<1>7. ASSUME NEW x \in Points, NEW y \in Points, x # y  PROVE Before(x, y) \/ Before(y, x)
  <2>1. CASE x.code = y.code
    BY <1>1, <1>2, <1>3, <1>7, <2>1
  <2>2. CASE x.code # y.code
    <3> DEFINE Bad == {i \in 1..Bits : x.code[i] # y.code[i]}
    <3>1. Bad # {}
      <4>1. x.code \in [1..Bits -> {0, 1}] /\ y.code \in [1..Bits -> {0, 1}]
        BY <1>1
      <4>2. ASSUME \A i \in 1..Bits : x.code[i] = y.code[i]  PROVE x.code = y.code
        <5>1. /\ x.code = [i \in 1..Bits |-> x.code[i]]
              /\ y.code = [i \in 1..Bits |-> y.code[i]]
          BY <4>1
        <5> QED  BY <4>2, <5>1
      <4> QED  BY <2>2, <4>2
    <3>2. Bad \in SUBSET Nat
      OBVIOUS
    <3>3. PICK i \in Bad : \A k \in Bad : i <= k
      <4> HIDE DEF Bad
      <4> QED  BY <3>1, <3>2, SmallestElement
    <3>4. \A j \in 1..i-1 : x.code[j] = y.code[j]
      BY <1>4, <3>3
    <3>5. x.code[i] < y.code[i] \/ y.code[i] < x.code[i]
      BY <1>5, <3>3
    <3>6. Below(x, y) \/ Below(y, x)
      BY <3>3, <3>4, <3>5
    <3> HIDE DEF Below
    <3> QED  BY <1>3, <3>6
  <2> QED  BY <2>1, <2>2
<1>8. ASSUME NEW x \in Points, NEW y \in Points, NEW z \in Points, Before(x, y), Before(y, z)
      PROVE  Before(x, z)
  <2>1. CASE x.code = y.code
    <3>1. CASE y.code = z.code
      BY <1>1, <1>3, <1>5, <1>8, <2>1, <3>1
    <3>2. CASE Below(y, z)
      <4>1. Below(x, z)
        BY <2>1, <3>2
      <4> HIDE DEF Below
      <4> QED  BY <1>3, <4>1
    <3> HIDE DEF Below
    <3> QED  BY <1>3, <1>8, <3>1, <3>2
  <2>2. CASE Below(x, y) /\ y.code = z.code
    <3>1. Below(x, z)
      BY <2>2
    <3> HIDE DEF Below
    <3> QED  BY <1>3, <3>1
  <2>3. CASE Below(x, y) /\ Below(y, z)
    <3>1. PICK i \in 1..Bits : /\ x.code[i] < y.code[i]
                               /\ \A j \in 1..i-1 : x.code[j] = y.code[j]
      BY <2>3
    <3>2. PICK k \in 1..Bits : /\ y.code[k] < z.code[k]
                               /\ \A j \in 1..k-1 : y.code[j] = z.code[j]
      BY <2>3
    <3> DEFINE m == IF i <= k THEN i ELSE k
    <3>3. m \in 1..Bits /\ \A j \in 1..m-1 : j \in 1..i-1 /\ j \in 1..k-1
      OBVIOUS
    <3>4. x.code[m] < z.code[m]
      <4>1. CASE i < k
        <5>1. i \in 1..k-1 /\ m = i
          BY <4>1
        <5>2. y.code[i] = z.code[i]
          BY <3>2, <5>1
        <5> QED  BY <3>1, <5>1, <5>2
      <4>2. CASE i = k
        BY <1>5, <3>1, <3>2, <4>2
      <4>3. CASE k < i
        <5>1. k \in 1..i-1 /\ m = k
          BY <4>3
        <5>2. x.code[k] = y.code[k]
          BY <3>1, <5>1
        <5> QED  BY <3>2, <5>1, <5>2
      <4> QED  BY <4>1, <4>2, <4>3
    <3>5. \A j \in 1..m-1 : x.code[j] = z.code[j]
      <4> HIDE DEF m
      <4> QED  BY <3>1, <3>2, <3>3
    <3> HIDE DEF m
    <3>6. Below(x, z)
      BY <3>3, <3>4, <3>5
    <3> HIDE DEF Below
    <3> QED  BY <1>3, <3>6
  <2> HIDE DEF Below
  <2> QED  BY <1>3, <1>8, <2>1, <2>2, <2>3
<1> QED  BY <1>6, <1>7, <1>8

\* A sorted batch: in place i is the point that has i - 1 before it.
LEMMA SortedPoints ==
  ASSUME NEW S \in SUBSET Points
  PROVE  /\ IsFiniteSet(S)
         /\ \A i \in 1..Cardinality(S) :
              /\ InOrder(S)[i] \in S
              /\ Cardinality({y \in S : Before(y, InOrder(S)[i])}) = i - 1
<1> DEFINE N == Cardinality(S)
           First(x) == {y \in S : Before(y, x)}
           f == [x \in S |-> Cardinality(First(x))]
           T == 0..N - 1
<1>1. IsFiniteSet(S) /\ N \in Nat
  BY ConstantsAssumption, FS_Subset, FS_CardinalityType
<1>2. ASSUME NEW x \in S
      PROVE  /\ First(x) \in SUBSET S /\ IsFiniteSet(First(x)) /\ x \notin First(x)
             /\ Cardinality(First(x)) \in T
  <2>1. First(x) \in SUBSET S /\ IsFiniteSet(First(x)) /\ x \notin First(x)
    BY <1>1, FS_Subset, BeforeIsOrder
  <2>2. Cardinality(First(x)) <= N /\ Cardinality(First(x)) \in Nat /\ Cardinality(First(x)) # N
    <3>1. Cardinality(First(x)) = N => S = First(x)
      <4> HIDE DEF First
      <4> QED  BY <1>1, <2>1, FS_Subset
    <3> HIDE DEF First
    <3> QED  BY <1>1, <2>1, <3>1, FS_Subset, FS_CardinalityType
  <2> HIDE DEF First
  <2> QED  BY <1>1, <2>1, <2>2
<1>3. ASSUME NEW x \in S, NEW y \in S, Before(x, y)
      PROVE  Cardinality(First(x)) < Cardinality(First(y))
  <2>1. First(x) \in SUBSET First(y) /\ x \in First(y) /\ x \notin First(x)
    BY <1>3, BeforeIsOrder
  <2>2. /\ IsFiniteSet(First(x)) /\ Cardinality(First(x)) \in Nat
        /\ IsFiniteSet(First(y)) /\ Cardinality(First(y)) \in Nat
    BY <1>2
  <2> HIDE DEF First
  <2>3. /\ Cardinality(First(x)) <= Cardinality(First(y))
        /\ Cardinality(First(x)) = Cardinality(First(y)) => First(y) = First(x)
    BY <2>1, <2>2, FS_Subset
  <2> QED  BY <2>1, <2>2, <2>3
<1>4. f \in Surjection(S, T)
  <2>1. f \in Injection(S, T)
    <3>1. f \in [S -> T]
      <4> HIDE DEF First, T
      <4> QED  BY <1>2
    <3>2. ASSUME NEW x \in S, NEW y \in S, f[x] = f[y]  PROVE x = y
      <4> HIDE DEF First
      <4>1. Cardinality(First(x)) = Cardinality(First(y))
        BY <3>2
      <4>2. Cardinality(First(x)) \in Int /\ Cardinality(First(y)) \in Int
        BY <1>2
      <4> QED  BY <1>3, <4>1, <4>2, BeforeIsOrder
    <3> HIDE DEF f, T
    <3> QED  BY <3>1, <3>2 DEF Injection, IsInjective
  <2>2. IsFiniteSet(T) /\ Cardinality(T) = N
    <3>1. 0 \in Int /\ N - 1 \in Int
      BY <1>1
    <3>2. IsFiniteSet(0..N - 1) /\ Cardinality(0..N - 1) = IF 0 > N - 1 THEN 0 ELSE (N - 1) - 0 + 1
      <4> HIDE DEF N
      <4> QED  BY <3>1, FS_Interval
    <3> HIDE DEF N
    <3> QED  BY <1>1, <3>2
  <2> HIDE DEF f, T
  <2> QED  BY <2>1, <2>2, FS_Injection
<1>5. ASSUME NEW i \in 1..N
      PROVE  InOrder(S)[i] \in S /\ Cardinality(First(InOrder(S)[i])) = i - 1
  <2>1. i - 1 \in T
    BY <1>1
  <2>2. \E x \in S : f[x] = i - 1
    <3> HIDE DEF f, T
    <3> QED  BY <1>4, <2>1 DEF Surjection
  <2>3. \E x \in S : Cardinality(First(x)) = i - 1
    <3> HIDE DEF First
    <3> QED  BY <2>2
  <2>4. InOrder(S)[i] = CHOOSE x \in S : Cardinality(First(x)) = i - 1
    BY DEF InOrder
  <2> HIDE DEF First
  <2> QED  BY <2>3, <2>4
<1> QED  BY <1>1, <1>5

\* In a region, the sorted points of the left half come first.
LEMMA LeftHalfFirst ==
  ASSUME NEW q \in Paths, Len(q) < Bits, NEW S \in SUBSET Points, \A x \in S : Under(x, q)
  PROVE  LET left == Cardinality({x \in S : Under(x, Child(q, 0))})
         IN  /\ left \in 0..Cardinality(S)
             /\ \A i \in 0..Cardinality(S)-1 : LeftAt(InOrder(S), i, Bits - Len(q)) <=> i < left
<1> DEFINE n == Len(q)
           N == Cardinality(S)
           L == {x \in S : Under(x, Child(q, 0))}
           First(x) == {y \in S : Before(y, x)}
           Bit(x) == (x[Axis(Bits - n)] \div Side[Bits - n]) % 2
<1>1. n \in Nat /\ n < Bits /\ q \in Seq({0, 1}) /\ Bits \in Nat /\ n + 1 \in 1..Bits
  BY PathTypes, QueryFacts
<1>2. IsFiniteSet(S) /\ N \in Nat
  BY SortedPoints, FS_CardinalityType
<1>3. IsFiniteSet(L) /\ Cardinality(L) \in Nat /\ Cardinality(L) <= N
  <2>1. L \in SUBSET S
    OBVIOUS
  <2> HIDE DEF L
  <2> QED  BY <1>2, <2>1, FS_Subset, FS_CardinalityType
<1>4. ASSUME NEW x \in S  PROVE x \in L <=> Bit(x) = 0
  BY UnderHalf
<1>5. ASSUME NEW x \in S  PROVE x.code[n + 1] = Bit(x) /\ x.code \in [1..Bits -> {0, 1}]
  <2>1. x.code = InterleaveBits(x) /\ x.code \in [1..Bits -> {0, 1}]
    BY QueryAssumption, ConstantsAssumption DEF PointsAssumption
  <2>2. Bits - (n + 1) + 1 = Bits - n
    BY <1>1
  <2> QED  BY <1>1, <2>1, <2>2 DEF InterleaveBits
<1>6. ASSUME NEW x \in L, NEW y \in S \ L  PROVE Before(x, y)
  <2>1. x.code[n + 1] = 0 /\ y.code[n + 1] = 1
    <3>1. x \in S /\ y \in S /\ Bit(x) = 0 /\ Bit(y) # 0
      BY <1>4
    <3> HIDE DEF L, Bit
    <3> QED  BY <1>1, <1>5, <3>1
  <2>2. \A j \in 1..(n + 1) - 1 : x.code[j] = y.code[j]
    <3>1. Under(x, q) /\ Under(y, q) /\ DOMAIN q = 1..n /\ (n + 1) - 1 = n
      BY <1>1
    <3> QED  BY <3>1 DEF Under
  <2> HIDE DEF n, L
  <2> QED  BY <1>1, <2>1, <2>2 DEF Before
<1>7. ASSUME NEW i \in 0..N - 1
      PROVE  LeftAt(InOrder(S), i, Bits - n) <=> i < Cardinality(L)
  <2> DEFINE x == InOrder(S)[i + 1]
  <2>1. i + 1 \in 1..N /\ (i + 1) - 1 = i /\ i \in Nat
    BY <1>2
  <2>2. x \in S /\ Cardinality(First(x)) = i
    <3> HIDE DEF N
    <3> QED  BY <2>1, SortedPoints DEF N
  <2>3. LeftAt(InOrder(S), i, Bits - n) <=> Bit(x) = 0
    BY DEF LeftAt
  <2> HIDE DEF x, Bit
  <2>4. IsFiniteSet(First(x))
    BY <1>2, FS_Subset
  <2>5. CASE x \in L
    <3>1. First(x) \in SUBSET L /\ x \notin First(x)
      <4>1. ASSUME NEW y \in S, y \notin L  PROVE ~Before(y, x)
        <5>1. Before(x, y) /\ x \in Points /\ y \in Points
          BY <1>6, <2>2, <2>5, <4>1
        <5> QED  BY <5>1, BeforeIsOrder
      <4>2. ~Before(x, x)
        BY <2>2, BeforeIsOrder
      <4> HIDE DEF L
      <4> QED  BY <4>1, <4>2
    <3> HIDE DEF First, L
    <3>2. Cardinality(First(x)) <= Cardinality(L) /\ (Cardinality(First(x)) = Cardinality(L) => L = First(x))
      BY <1>3, <3>1, FS_Subset
    <3> QED  BY <1>3, <1>4, <2>1, <2>2, <2>3, <2>5, <3>1, <3>2
  <2>6. CASE x \notin L
    <3>1. L \in SUBSET First(x)
      BY <1>6, <2>2, <2>6
    <3> HIDE DEF First, L
    <3>2. Cardinality(L) <= Cardinality(First(x))
      BY <2>4, <3>1, FS_Subset
    <3> QED  BY <1>3, <1>4, <2>1, <2>2, <2>3, <2>6, <3>2
  <2> QED  BY <2>5, <2>6
<1> QED  BY <1>2, <1>3, <1>7

-----------------------------------------------------------------------------
(* The theorems.                                                           *)

\* What holds of every version, in every state.
LEMMA PublishedFit ==
  ASSUME IInv, CInv
  PROVE  NodesFit /\ \A a \in Published : Fits(a, << >>)
BY DEF CInv, VersionsFit, Published

\* A version holds points.
LEMMA PublishedPoints ==
  ASSUME IInv, CInv, NEW a \in Published
  PROVE  Contents(a) \in BagsOfPoints /\ DOMAIN Contents(a) \in SUBSET Points
<1>1. Fits(a, << >>)
  BY PublishedFit
<1>2. IsBagOfPoints(Contents(a))
  BY <1>1, RootIsPath, PublishedFit, BelowFits
<1> QED  BY <1>2, BagsAreASet DEF IsBagOfPoints

\* range_count and range_report of any version, with any box, return what a scan of its
\* points finds, whatever commits are under way: pruning loses no point.
THEOREM RangeQueriesAlwaysExact == Spec => []RangeQueriesAreExact
<1>1. IInv /\ CInv => RangeQueriesAreExact
  <2> SUFFICES ASSUME IInv, CInv, NEW a \in Published \ {Null}, NEW q \in Boxes
               PROVE  /\ RangeReport(a, q, WholeRegion) = Restricted(Contents(a), q)
                      /\ RangeCount(a, q, WholeRegion) = BagCardinality(Restricted(Contents(a), q))
    BY DEF RangeQueriesAreExact
  <2>1. q \in Box /\ << >> \in Paths /\ NodesFit /\ Fits(a, << >>) /\ a # Null
    BY QueryFacts, RootIsPath, PublishedFit
  <2>2. RegionAt(WholeRegion, << >>)
    BY WholeIsRegion
  <2> QED  BY <2>1, <2>2, ReportIsExact, CountIsExact
<1> QED  BY <1>1, CInvHolds, PTL

\* knn_report of any version returns the k nearest points, for any k and any centre.
THEOREM KnnAlwaysExact == Spec => []KnnIsExact
<1>1. IInv /\ CInv => KnnIsExact
  <2> SUFFICES ASSUME IInv, CInv, NEW a \in Published, NEW c \in Centers, NEW k \in Counts
               PROVE  Knn(a, k, c, WholeRegion, {}) = Nearest(DOMAIN Contents(a), k, c)
    BY DEF KnnIsExact
  <2>1. k \in Nat /\ << >> \in Paths /\ NodesFit /\ Fits(a, << >>)
    BY QueryFacts, RootIsPath, PublishedFit
  <2>2. RegionAt(WholeRegion, << >>)
    BY WholeIsRegion
  <2>3. {} \in SUBSET Points /\ Nearest({}, k, c) = {}
    BY DEF Nearest
  <2>4. Knn(a, k, c, WholeRegion, {}) = Nearest({} \cup DOMAIN Contents(a), k, c)
    <3>1. \A p \in Paths : \A x, r, res :
            Fits(x, p) /\ RegionAt(r, p) /\ res \in SUBSET Points /\ Nearest(res, k, c) = res =>
              Knn(x, k, c, r, res) = Nearest(res \cup DOMAIN Contents(x), k, c)
      BY <2>1, KnnIsExactBelow
    <3> QED  BY <2>1, <2>2, <2>3, <3>1
  <2>5. {} \cup DOMAIN Contents(a) = DOMAIN Contents(a)
    OBVIOUS
  <2> QED  BY <2>4, <2>5
<1> QED  BY <1>1, CInvHolds, PTL

\* spatial_join of any two versions finds every close pair and no other.
THEOREM JoinsAlwaysExact == Spec => []JoinsAreExact
<1>1. IInv /\ CInv => JoinsAreExact
  <2> SUFFICES ASSUME IInv, CInv, NEW a1 \in Published, NEW a2 \in Published, NEW dis \in Distances
               PROVE  Join(a1, a2, dis, WholeRegion, WholeRegion)
                        = ClosePairs(DOMAIN Contents(a1), DOMAIN Contents(a2), dis)
    BY DEF JoinsAreExact
  <2>1. dis \in Nat /\ << >> \in Paths /\ NodesFit /\ Fits(a1, << >>) /\ Fits(a2, << >>)
    BY QueryFacts, RootIsPath, PublishedFit
  <2>2. RegionAt(WholeRegion, << >>)
    BY WholeIsRegion
  <2> QED  BY <2>1, <2>2, JoinIsExact
<1> QED  BY <1>1, CInvHolds, PTL

\* diff of any two versions is the difference of their points, although it skips every
\* node that they share.
THEOREM DiffsAlwaysExact == Spec => []DiffsAreExact
<1>1. IInv /\ CInv => DiffsAreExact
  <2> SUFFICES ASSUME IInv, CInv, NEW a1 \in Published, NEW a2 \in Published
               PROVE  Diff(a1, a2, << >>) = Changes(Contents(a2) (-) Contents(a1),
                                                    Contents(a1) (-) Contents(a2))
    BY DEF DiffsAreExact
  <2>1. << >> \in Paths /\ NodesFit /\ Fits(a1, << >>) /\ Fits(a2, << >>)
    BY RootIsPath, PublishedFit
  <2>2. Diff(a1, a2, << >>) = MergePts(Contents(a1), Contents(a2))
    BY <2>1, DiffIsExact
  <2> QED  BY <2>2 DEF MergePts
<1> QED  BY <1>1, CInvHolds, PTL

\* spatial_diff of any two versions is the part of that difference in the query box.
THEOREM SpatialDiffsAlwaysExact == Spec => []SpatialDiffsAreExact
<1>1. IInv /\ CInv => SpatialDiffsAreExact
  <2> SUFFICES ASSUME IInv, CInv, NEW a1 \in Published, NEW a2 \in Published, NEW box \in Boxes
               PROVE  SpatialDiff(a1, a2, << >>, box, WholeRegion)
                        = Within(Changes(Contents(a2) (-) Contents(a1),
                                         Contents(a1) (-) Contents(a2)), box)
    BY DEF SpatialDiffsAreExact
  <2>1. box \in Box /\ << >> \in Paths /\ NodesFit /\ Fits(a1, << >>) /\ Fits(a2, << >>)
    BY QueryFacts, RootIsPath, PublishedFit
  <2>2. RegionAt(WholeRegion, << >>)
    BY WholeIsRegion
  <2>3. SpatialDiff(a1, a2, << >>, box, WholeRegion) = Within(MergePts(Contents(a1), Contents(a2)), box)
    BY <2>1, <2>2, SpatialDiffIsExact
  <2> QED  BY <2>3 DEF MergePts
<1> QED  BY <1>1, CInvHolds, PTL

\* In every region of every version, split_by_bit cuts the sorted points where the right
\* half begins, by whatever mixture of bisection and scan ScanLength makes of it.
THEOREM SplitsAlwaysExact == Spec => []SplitsAreExact
<1>1. IInv /\ CInv => SplitsAreExact
  <2> SUFFICES ASSUME IInv, CInv, NEW a \in Published, NEW q \in Paths, Len(q) < Bits
               PROVE  LET B == DOMAIN Part(Contents(a), q)
                      IN  SplitByBit(InOrder(B), 0, Cardinality(B), Bits - Len(q))
                            = Cardinality({pt \in B : Under(pt, Child(q, 0))})
    BY DEF SplitsAreExact
  <2> DEFINE B == DOMAIN Part(Contents(a), q)
             left == Cardinality({pt \in B : Under(pt, Child(q, 0))})
  <2>1. B \in SUBSET Points /\ \A x \in B : Under(x, q)
    <3>1. Contents(a) \in BagsOfPoints
      BY PublishedPoints
    <3>2. Part(Contents(a), q) \in BagsOfPoints /\ \A x \in B : Under(x, q)
      BY <3>1, PartIsUnder
    <3> QED  BY <3>2, BagsAreASet DEF IsBagOfPoints
  <2> HIDE DEF B
  <2>2. /\ left \in 0..Cardinality(B)
        /\ \A i \in 0..Cardinality(B)-1 : LeftAt(InOrder(B), i, Bits - Len(q)) <=> i < left
    BY <2>1, LeftHalfFirst
  <2>3. Cardinality(B) \in Nat
    BY <2>1, SortedPoints, FS_CardinalityType
  <2> HIDE DEF left
  <2>4. SplitByBit(InOrder(B), 0, Cardinality(B), Bits - Len(q)) = left
    BY <2>2, <2>3, SplitIsExact
  <2> QED  BY <2>4 DEF B, left
<1> QED  BY <1>1, CInvHolds, PTL

-----------------------------------------------------------------------------
(* garbage_collect and gc_nocheck.                                         *)

\* A cell leads to a live node or to none, and what it leads to, if that is an inner
\* node, has two cells more, which lead further down.
LEMMA CellsLead ==
  ASSUME IInv
  PROVE  /\ \A Z : \A c \in Cells : Pointer(Z, c) \in Nodes
         /\ \A Z : \A c \in Cells : Pointer(Z, c) # Null => Pointer(Z, c) = Pointer({}, c)
         /\ \A x \in Inner, d \in {0, 1} :
              /\ x # Null /\ x \in DOMAIN heap /\ <<x, d>> \in Cells
              /\ Pointer({}, <<x, d>>) = Son(x, d)
              /\ \A Z : Pointer(Z, <<x, d>>) = IF <<x, d>> \in Z THEN Null ELSE Son(x, d)
              /\ Height(Son(x, d)) < Height(x)
<1>1. \A x \in Inner : x # Null /\ x \in DOMAIN heap /\ ~heap[x].leaf
  BY SonsAreLower DEF Inner
<1>2. \A x \in Inner, d \in {0, 1} :
              /\ Pointer({}, <<x, d>>) = Son(x, d)
              /\ \A Z : Pointer(Z, <<x, d>>) = IF <<x, d>> \in Z THEN Null ELSE Son(x, d)
  BY <1>1 DEF Pointer
<1>3. \A x \in Inner, d \in {0, 1} : Height(Son(x, d)) < Height(x) /\ Son(x, d) \in Nodes
  BY <1>1, SonsAreLower
<1>4. ASSUME NEW Z, NEW c \in Cells
      PROVE  Pointer(Z, c) \in Nodes /\ (Pointer(Z, c) # Null => Pointer(Z, c) = Pointer({}, c))
  <2>1. CASE c \in {Null} \X DOMAIN versions
    <3>1. c[1] = Null /\ c[2] \in DOMAIN versions /\ versions[c[2]] \in Nodes
      BY <2>1 DEF IInv, NoDanglingReference, Referenced, Nodes
    <3> QED  BY <3>1 DEF Pointer, Nodes
  <2>2. CASE c \in Inner \X {0, 1}
    <3>1. c[1] \in Inner /\ c[2] \in {0, 1} /\ c[1] # Null
      BY <1>1, <2>2
    <3> QED  BY <1>3, <3>1 DEF Pointer, Nodes
  <2> QED  BY <2>1, <2>2 DEF Cells
<1>5. \A x \in Inner, d \in {0, 1} : <<x, d>> \in Cells
  BY DEF Cells
<1> QED  BY <1>1, <1>2, <1>3, <1>4, <1>5

\* A node's sons in T are what its cells lead to.
LeadsDown(Z, T) ==
  \A p \in Paths, d \in {0, 1} : Len(p) < Bits =>
    T[Child(p, d)] = IF T[p] \notin Inner THEN Null ELSE Pointer(Z, <<T[p], d>>)

\* The tree of a version, one level of it.
LEMMA TreeUnfolds ==
  ASSUME IInv, NEW v \in DOMAIN versions, NEW Z
  PROVE  /\ Tree(Z, v) \in [Paths -> Nodes]
         /\ Tree(Z, v)[<< >>] = Pointer(Z, <<Null, v>>)
         /\ LeadsDown(Z, Tree(Z, v))
<1> DEFINE go(a, q) == IF a = Null \/ a \notin Inner THEN Null ELSE Pointer(Z, <<a, q[Len(q)]>>)
           step(q, f) == IF q = << >> THEN Pointer(Z, <<Null, v>>) ELSE go(f[Parent(q)], q)
           rank == [q \in Paths |-> Len(q)]
           Compute == [vf \in Paths \X [Paths -> Nodes] |-> step(vf[1], vf[2])]
           R == Tree(Z, v)
<1>1. R = CHOOSE f : f = [q \in Paths |-> step(q, f)]
  BY DEF Tree
<1>2. ASSUME NEW q \in Paths, q # << >>  PROVE Parent(q) \in Paths /\ rank[Parent(q)] < rank[q]
  <2>1. Parent(q) \in Paths /\ Len(Parent(q)) = Len(q) - 1 /\ Len(q) \in Nat
    BY <1>2, ParentOfPath, PathTypes
  <2> QED  BY <2>1
<1>3. <<Null, v>> \in Cells /\ Pointer(Z, <<Null, v>>) \in Nodes
  <2>1. <<Null, v>> \in Cells
    BY DEF Cells
  <2> QED  BY <2>1, CellsLead
<1>4. ASSUME NEW a \in Nodes, NEW q \in Paths, q # << >>  PROVE go(a, q) \in Nodes
  <2>1. CASE a \in Inner
    <3>1. <<a, q[Len(q)]>> \in Cells
      BY <1>4, <2>1, ParentOfPath, CellsLead
    <3> QED  BY <2>1, <3>1, CellsLead DEF Nodes
  <2>2. CASE a \notin Inner
    BY <2>2 DEF Nodes
  <2> QED  BY <2>1, <2>2
<1> HIDE DEF go
<1>5. ASSUME NEW q \in Paths, NEW f, \A w \in Paths : rank[w] < rank[q] => f[w] \in Nodes
      PROVE  step(q, f) \in Nodes
  BY <1>2, <1>3, <1>4, <1>5
<1>6. ASSUME NEW q \in Paths, NEW g, NEW h, \A w \in Paths : rank[w] < rank[q] => g[w] = h[w]
      PROVE  step(q, g) = step(q, h)
  BY <1>2, <1>6
<1>7. rank \in [Paths -> Nat] /\ Nodes # {}
  BY PathTypes DEF Nodes
<1> HIDE DEF rank, step
<1>8. CallsLower(Paths, Nodes, rank, Compute)
  <2>1. \A q \in Paths, f \in [Paths -> Nodes] : Compute[<<q, f>>] = step(q, f) /\ step(q, f) \in Nodes
    BY <1>5
  <2>2. Compute \in [Paths \X [Paths -> Nodes] -> Nodes]
    BY <2>1
  <2> HIDE DEF Compute
  <2> QED  BY <1>6, <1>7, <2>1, <2>2 DEF CallsLower
<1>9. PICK f \in [Paths -> Nodes] : \A q \in Paths : f[q] = Compute[<<q, f>>]
  <2> HIDE DEF Compute
  <2> QED  BY <1>8, RecursionEnds
<1>10. f = [q \in Paths |-> step(q, f)]
  BY <1>9
<1>11. R = [q \in Paths |-> step(q, R)]
  BY <1>1, <1>10
<1> HIDE DEF R
<1>12. \A q \in Paths : R[q] \in Nodes
  BY <1>5, <1>7, <1>11, TypedByRank
<1>13. R[<< >>] = Pointer(Z, <<Null, v>>)
  BY <1>11, RootIsPath DEF step
<1>14. ASSUME NEW p \in Paths, NEW d \in {0, 1}, Len(p) < Bits
       PROVE  R[Child(p, d)] = IF R[p] \notin Inner THEN Null ELSE Pointer(Z, <<R[p], d>>)
  <2>1. /\ Child(p, d) \in Paths /\ Child(p, d) # << >> /\ Parent(Child(p, d)) = p
        /\ Child(p, d)[Len(Child(p, d))] = d
    BY <1>14, ChildrenOfPath
  <2>2. R[Child(p, d)] = go(R[p], Child(p, d))
    BY <1>11, <2>1 DEF step
  <2> QED  BY <2>1, <2>2, CellsLead DEF go
<1>15. LeadsDown(Z, R)
  BY <1>14 DEF LeadsDown
<1> QED  BY <1>11, <1>12, <1>13, <1>15 DEF R

\* The same, piece by piece.
LEMMA TreeTop ==
  ASSUME IInv, NEW v \in DOMAIN versions, NEW Z
  PROVE  Tree(Z, v)[<< >>] = Pointer(Z, <<Null, v>>)
BY TreeUnfolds

\* A node's sons are what its cells lead to.
LEMMA TreeBelow ==
  ASSUME IInv, NEW v \in DOMAIN versions, NEW Z, NEW p \in Paths, NEW d \in {0, 1}, Len(p) < Bits
  PROVE  Tree(Z, v)[Child(p, d)] = IF Tree(Z, v)[p] \notin Inner THEN Null
                                   ELSE Pointer(Z, <<Tree(Z, v)[p], d>>)
<1> DEFINE T == Tree(Z, v)
<1>1. LeadsDown(Z, T)
  BY TreeUnfolds
<1> HIDE DEF T
<1>2. T[Child(p, d)] = IF T[p] \notin Inner THEN Null ELSE Pointer(Z, <<T[p], d>>)
  BY <1>1 DEF LeadsDown
<1> QED  BY <1>2 DEF T

\* One call of gc_nocheck.
LEMMA GcUnfolds ==
  ASSUME IInv, NEW Z \in SUBSET Cells, NEW c \in Cells
  PROVE  /\ GcNoCheck(Z, c) \in SUBSET Cells
         /\ GcNoCheck(Z, c) =
              {c} \cup IF Pointer(Z, c) \in Inner /\ IsUnique(Z, Pointer(Z, c))
                       THEN GcNoCheck(GcNoCheck(Z, <<Pointer(Z, c), 0>>), <<Pointer(Z, c), 1>>)
                       ELSE Z
<1> DEFINE D == (SUBSET Cells) \X Cells
           V == SUBSET Cells
           X(v) == Pointer(v[1], v[2])
           rank == [v \in D |-> Height(Pointer({}, v[2]))]
           step(v, f) == {v[2]} \cup IF X(v) \in Inner /\ IsUnique(v[1], X(v))
                                     THEN f[<<f[<<v[1], <<X(v), 0>>>>], <<X(v), 1>>>>]
                                     ELSE v[1]
           Compute == [vf \in D \X [D -> V] |-> step(vf[1], vf[2])]
           R == CHOOSE f : f = [v \in D |-> step(v, f)]
<1>1. \A T, e : GcNoCheck(T, e) = R[<<T, e>>]
  BY DEF GcNoCheck
<1>2. ASSUME NEW v \in D, X(v) \in Inner, NEW T \in V, NEW d \in {0, 1}
      PROVE  <<T, <<X(v), d>>>> \in D /\ rank[<<T, <<X(v), d>>>>] < rank[v]
  <2>1. v[2] \in Cells /\ <<X(v), d>> \in Cells /\ X(v) = Pointer({}, v[2])
        /\ Height(Pointer({}, <<X(v), d>>)) < Height(X(v))
    BY <1>2, CellsLead
  <2> HIDE DEF X
  <2> QED  BY <2>1
<1> HIDE DEF X
<1>3. ASSUME NEW v \in D, NEW f, \A w \in D : rank[w] < rank[v] => f[w] \in V
      PROVE  step(v, f) \in V
  <2>1. v[1] \in V /\ v[2] \in Cells
    OBVIOUS
  <2>2. CASE X(v) \in Inner
    <3>1. f[<<v[1], <<X(v), 0>>>>] \in V
      <4> HIDE DEF D, V, rank
      <4> QED  BY <1>2, <1>3, <2>1, <2>2
    <3>2. f[<<f[<<v[1], <<X(v), 0>>>>], <<X(v), 1>>>>] \in V
      <4> HIDE DEF D, V, rank
      <4> QED  BY <1>2, <1>3, <2>2, <3>1
    <3> QED  BY <2>1, <3>2
  <2> QED  BY <2>1, <2>2
<1>4. ASSUME NEW v \in D, NEW g \in [D -> V], NEW h \in [D -> V],
             \A w \in D : rank[w] < rank[v] => g[w] = h[w]
      PROVE  step(v, g) = step(v, h)
  <2>1. v[1] \in V
    OBVIOUS
  <2>2. CASE X(v) \in Inner
    <3> HIDE DEF rank
    <3>1. /\ <<v[1], <<X(v), 0>>>> \in D /\ g[<<v[1], <<X(v), 0>>>>] = h[<<v[1], <<X(v), 0>>>>]
      <4> HIDE DEF D, V
      <4> QED  BY <1>2, <1>4, <2>1, <2>2
    <3>2. g[<<v[1], <<X(v), 0>>>>] \in V
      BY <3>1
    <3>3. g[<<g[<<v[1], <<X(v), 0>>>>], <<X(v), 1>>>>] = h[<<g[<<v[1], <<X(v), 0>>>>], <<X(v), 1>>>>]
      <4> HIDE DEF D, V
      <4> QED  BY <1>2, <1>4, <2>2, <3>2
    <3> QED  BY <3>1, <3>3
  <2> QED  BY <2>2
<1>5. rank \in [D -> Nat] /\ V # {}
  <2>1. \A x \in Nodes : Height(x) \in Nat
    BY SonsAreLower
  <2>2. {} \in V
    OBVIOUS
  <2>3. \A v \in D : Height(Pointer({}, v[2])) \in Nat
    BY <2>1, CellsLead
  <2> QED  BY <2>2, <2>3
<1> HIDE DEF D, V, rank, step
<1>6. CallsLower(D, V, rank, Compute)
  <2>1. \A v \in D, f \in [D -> V] : Compute[<<v, f>>] = step(v, f) /\ step(v, f) \in V
    BY <1>3
  <2>2. Compute \in [D \X [D -> V] -> V]
    BY <2>1
  <2> HIDE DEF Compute
  <2> QED  BY <1>4, <1>5, <2>1, <2>2 DEF CallsLower
<1>7. PICK f \in [D -> V] : \A v \in D : f[v] = Compute[<<v, f>>]
  <2> HIDE DEF Compute
  <2> QED  BY <1>6, RecursionEnds
<1>8. f = [v \in D |-> step(v, f)]
  BY <1>7
<1>9. R = [v \in D |-> step(v, R)]
  <2>1. R = CHOOSE h : h = [v \in D |-> step(v, h)]
    BY DEF step, D, X
  <2> QED  BY <1>8, <2>1
<1> HIDE DEF R
<1>10. <<Z, c>> \in D
  BY DEF D
<1>11. R[<<Z, c>>] = step(<<Z, c>>, R)
  BY <1>9, <1>10
<1>12. \A v \in D : R[v] \in V
  BY <1>3, <1>5, <1>9, TypedByRank
<1>13. GcNoCheck(Z, c) \in V
  BY <1>1, <1>10, <1>12
<1> QED  BY <1>1, <1>11, <1>13 DEF step, X, V

\* Whatever it finds, it clears the cell it is called on.
LEMMA GcClears ==
  ASSUME IInv, NEW Z \in SUBSET Cells, NEW c \in Cells
  PROVE  c \in GcNoCheck(Z, c)
<1>1. \E W : GcNoCheck(Z, c) = {c} \cup W
  BY GcUnfolds
<1> QED  BY <1>1

\* One call of garbage_collect.
LEMMA CollectUnfolds ==
  ASSUME IInv, NEW Z \in SUBSET Cells, NEW base \in Nodes, NEW c \in Cells
  PROVE  LET x == Pointer(Z, c)
             half(T, d) == GarbageCollect(T, Pointer(T, <<base, d>>), <<x, d>>)
         IN  /\ GarbageCollect(Z, base, c) \in SUBSET Cells
             /\ GarbageCollect(Z, base, c) =
                  IF x = Null \/ x = base THEN Z
                  ELSE IF heap[x].leaf THEN Z \cup {c}
                  ELSE IF base \notin Inner THEN GcNoCheck(Z, c)
                  ELSE {c} \cup IF NumPoints(x) > Cutoff THEN half(half(Z, 0), 1) ELSE Z
<1> DEFINE D == (SUBSET Cells) \X Nodes \X Cells
           V == SUBSET Cells
           X(v) == Pointer(v[1], v[3])
           rank == [v \in D |-> Height(Pointer({}, v[3]))]
           call(v, T, d) == <<T, Pointer(T, <<v[2], d>>), <<X(v), d>>>>
           deep(v) == /\ ~NothingToPurge(v[2], X(v)) /\ ~heap[X(v)].leaf
                      /\ ~(v[2] = Null \/ v[2] \notin Inner) /\ NumPoints(X(v)) > Cutoff
           flat(v) == IF NothingToPurge(v[2], X(v)) THEN v[1]
                      ELSE IF heap[X(v)].leaf THEN v[1] \cup {v[3]}
                      ELSE IF v[2] = Null \/ v[2] \notin Inner THEN GcNoCheck(v[1], v[3])
                      ELSE {v[3]} \cup v[1]
           step(v, f) == IF NothingToPurge(v[2], X(v)) THEN v[1]
                         ELSE IF heap[X(v)].leaf THEN v[1] \cup {v[3]}
                         ELSE IF v[2] = Null \/ v[2] \notin Inner THEN GcNoCheck(v[1], v[3])
                         ELSE {v[3]} \cup IF NumPoints(X(v)) > Cutoff
                                          THEN f[call(v, f[call(v, v[1], 0)], 1)] ELSE v[1]
           Compute == [vf \in D \X [D -> V] |-> step(vf[1], vf[2])]
           R == CHOOSE f : f = [v \in D |-> step(v, f)]
<1>1. \A T, b, e : GarbageCollect(T, b, e) = R[<<T, b, e>>]
  BY DEF GarbageCollect, Nodes
<1>a. \A v, f : step(v, f) = IF deep(v) THEN {v[3]} \cup f[call(v, f[call(v, v[1], 0)], 1)] ELSE flat(v)
  OBVIOUS
<1>2. ASSUME NEW v \in D, deep(v), NEW T \in V, NEW d \in {0, 1}
      PROVE  call(v, T, d) \in D /\ rank[call(v, T, d)] < rank[v]
  <2>1. v[1] \in V /\ v[2] \in Inner /\ v[3] \in Cells /\ X(v) \in Nodes
    BY <1>2, CellsLead
  <2>2. X(v) # Null /\ ~heap[X(v)].leaf
    BY <1>2 DEF NothingToPurge
  <2>3. X(v) \in Inner
    BY <2>1, <2>2 DEF Inner, Nodes
  <2>4. /\ <<X(v), d>> \in Cells /\ Height(Pointer({}, <<X(v), d>>)) < Height(X(v))
        /\ Pointer(T, <<v[2], d>>) \in Nodes
    BY <2>1, <2>3, CellsLead
  <2>5. X(v) = Pointer({}, v[3])
    BY <2>1, <2>2, CellsLead
  <2> HIDE DEF X, deep
  <2> QED  BY <2>4, <2>5
<1>b. ASSUME NEW v \in D  PROVE flat(v) \in V /\ v[3] \in Cells /\ v[1] \in V
  <2>1. v[1] \in V /\ v[2] \in Nodes /\ v[3] \in Cells
    OBVIOUS
  <2>2. GcNoCheck(v[1], v[3]) \in V
    BY <2>1, GcUnfolds
  <2> HIDE DEF X
  <2> QED  BY <2>1, <2>2
<1> HIDE DEF flat, deep, call, step
<1>3. ASSUME NEW v \in D, NEW f, \A w \in D : rank[w] < rank[v] => f[w] \in V
      PROVE  step(v, f) \in V
  <2>1. CASE deep(v)
    <3>1. f[call(v, v[1], 0)] \in V
      <4> HIDE DEF D, V, rank
      <4> QED  BY <1>2, <1>3, <1>b, <2>1
    <3>2. f[call(v, f[call(v, v[1], 0)], 1)] \in V
      <4> HIDE DEF D, V, rank
      <4> QED  BY <1>2, <1>3, <2>1, <3>1
    <3>3. {v[3]} \cup f[call(v, f[call(v, v[1], 0)], 1)] \in V
      BY <1>b, <3>2
    <3> QED  BY <1>a, <2>1, <3>3
  <2>2. CASE ~deep(v)
    BY <1>a, <1>b, <2>2
  <2> QED  BY <2>1, <2>2
<1>4. ASSUME NEW v \in D, NEW g \in [D -> V], NEW h \in [D -> V],
             \A w \in D : rank[w] < rank[v] => g[w] = h[w]
      PROVE  step(v, g) = step(v, h)
  <2>1. CASE deep(v)
    <3> HIDE DEF rank
    <3>1. call(v, v[1], 0) \in D /\ g[call(v, v[1], 0)] = h[call(v, v[1], 0)]
      <4> HIDE DEF D, V
      <4> QED  BY <1>2, <1>4, <1>b, <2>1
    <3>2. g[call(v, v[1], 0)] \in V
      BY <3>1
    <3>3. g[call(v, g[call(v, v[1], 0)], 1)] = h[call(v, g[call(v, v[1], 0)], 1)]
      <4> HIDE DEF D, V
      <4> QED  BY <1>2, <1>4, <2>1, <3>2
    <3> QED  BY <1>a, <2>1, <3>1, <3>3
  <2>2. CASE ~deep(v)
    BY <1>a, <2>2
  <2> QED  BY <2>1, <2>2
<1>5. rank \in [D -> Nat] /\ V # {}
  <2>1. \A x \in Nodes : Height(x) \in Nat
    BY SonsAreLower
  <2>2. {} \in V
    OBVIOUS
  <2>3. \A v \in D : Height(Pointer({}, v[3])) \in Nat
    BY <2>1, CellsLead
  <2> QED  BY <2>2, <2>3
<1> HIDE DEF D, V, rank, X
<1>6. CallsLower(D, V, rank, Compute)
  <2>1. \A v \in D, f \in [D -> V] : Compute[<<v, f>>] = step(v, f) /\ step(v, f) \in V
    BY <1>3
  <2>2. Compute \in [D \X [D -> V] -> V]
    BY <2>1
  <2> HIDE DEF Compute
  <2> QED  BY <1>4, <1>5, <2>1, <2>2 DEF CallsLower
<1>7. PICK f \in [D -> V] : \A v \in D : f[v] = Compute[<<v, f>>]
  <2> HIDE DEF Compute
  <2> QED  BY <1>6, RecursionEnds
<1>8. f = [v \in D |-> step(v, f)]
  BY <1>7
<1>9. R = [v \in D |-> step(v, R)]
  <2>1. R = CHOOSE h : h = [v \in D |-> step(v, h)]
    BY DEF step, call, D, X
  <2> QED  BY <1>8, <2>1
<1> HIDE DEF R
<1>10. <<Z, base, c>> \in D
  BY DEF D
<1>11. R[<<Z, base, c>>] = step(<<Z, base, c>>, R)
  BY <1>9, <1>10
<1>12. \A v \in D : R[v] \in V
  BY <1>3, <1>5, <1>9, TypedByRank
<1>13. GarbageCollect(Z, base, c) \in V
  BY <1>1, <1>10, <1>12
<1>14. base = Null => base \notin Inner
  BY CellsLead
<1>15. GarbageCollect(Z, base, c) = step(<<Z, base, c>>, R)
  BY <1>1, <1>11
<1> QED  BY <1>1, <1>13, <1>14, <1>15 DEF step, call, X, V, NothingToPurge

\* Every node of a version is at the place it was made for, or a leaf above that.
LEMMA TreeFits ==
  ASSUME IInv, CInv, NEW v \in DOMAIN versions
  PROVE  \A q \in Paths : Fits(Tree({}, v)[q], q)
<1> DEFINE T == Tree({}, v)
           good == [q \in Paths |-> Fits(T[q], q)]
           rank == [q \in Paths |-> Len(q)]
           V == {TRUE}
<1>1. rank \in [Paths -> Nat]
  BY PathTypes
<1>2. ASSUME NEW q \in Paths, \A w \in Paths : rank[w] < rank[q] => good[w] \in V
      PROVE  good[q] \in V
  <2>1. CASE q = << >>
    <3>1. T[q] = versions[v] \/ T[q] = Null
      BY <2>1, TreeTop DEF Pointer
    <3> QED  BY <2>1, <3>1 DEF CInv, VersionsFit, Fits
  <2>2. CASE q # << >>
    <3> DEFINE p == Parent(q)
               d == q[Len(q)]
    <3>1. /\ p \in Paths /\ Len(p) < Bits /\ d \in {0, 1} /\ q = Child(p, d)
          /\ Len(p) \in Nat /\ Len(q) \in Nat /\ Len(p) < Len(q)
      BY <2>2, ParentOfPath, ChildrenArePaths, PathTypes
    <3> HIDE DEF p, d
    <3>2. Fits(T[p], p)
      BY <1>2, <3>1
    <3>3. T[q] = IF T[p] \notin Inner THEN Null ELSE Pointer({}, <<T[p], d>>)
      BY <3>1, TreeBelow
    <3> HIDE DEF T
    <3>4. CASE T[p] \in Inner
      <4>1. T[p] # Null /\ ~heap[T[p]].leaf /\ T[q] = Son(T[p], d)
        BY <3>1, <3>3, <3>4, CellsLead DEF Inner
      <4>2. Fits(Son(T[p], d), q)
        BY <3>1, <3>2, <4>1, DownFits DEF CInv
      <4> QED  BY <4>1, <4>2
    <3>5. CASE T[p] \notin Inner
      BY <3>3, <3>5 DEF Fits
    <3> QED  BY <3>4, <3>5
  <2> QED  BY <2>1, <2>2
<1>3. \A q \in Paths : good[q] \in V
  <2> HIDE DEF good, rank, V
  <2> QED  BY <1>1, <1>2, TypedByRank
<1> QED  BY <1>3

\* The region a cell is for, the cells of version b, and those that a purge of another
\* version comes upon and that are not among them.
Place(c) == IF c[1] = Null THEN << >> ELSE Child(c[1].at, c[2])
OwnCells(b) == {<<Null, b>>} \cup {c \in Inner \X {0, 1} : c[1] = Tree({}, b)[c[1].at]}
Strange(c, p, b) == /\ c \in Cells \ OwnCells(b)
                    /\ p \in Paths /\ Place(c) = p /\ Fits(Pointer({}, c), p)

\* From a strange cell one comes upon an inner node that is not the one that version
\* b has at that place, and upon strange cells further down.
LEMMA StrangeBelow ==
  ASSUME IInv, CInv, NEW b \in DOMAIN versions, NEW p \in Paths, NEW c, Strange(c, p, b),
         NEW x \in Inner, x = Pointer({}, c), x # Tree({}, b)[p], NEW d \in {0, 1}
  PROVE  Len(p) < Bits /\ Strange(<<x, d>>, Child(p, d), b)
<1>1. x # Null /\ ~heap[x].leaf /\ Fits(x, p)
  BY CellsLead DEF Inner, Strange
<1>2. Len(p) < Bits /\ Child(p, d) \in Paths /\ Fits(Son(x, d), Child(p, d)) /\ x.at = p
  BY <1>1, DownFits DEF CInv, Fits
<1>3. <<x, d>> \in Cells /\ Pointer({}, <<x, d>>) = Son(x, d)
  BY CellsLead
<1>4. <<x, d>>[1] = x /\ <<x, d>>[2] = d /\ <<x, d>> # <<Null, b>>
  BY <1>1
<1>5. <<x, d>> \notin OwnCells(b)
  BY <1>2, <1>4 DEF OwnCells
<1>6. Place(<<x, d>>) = Child(p, d)
  BY <1>1, <1>2 DEF Place
<1> QED  BY <1>2, <1>3, <1>5, <1>6 DEF Strange

\* Below a strange cell where version b has no inner node, gc_nocheck resets no cell of it.
LEMMA GcSpares ==
  ASSUME IInv, CInv, NEW b \in DOMAIN versions
  PROVE  \A p \in Paths : \A c : \A Z \in SUBSET Cells :
           Strange(c, p, b) /\ Z \cap OwnCells(b) = {} /\ Tree({}, b)[p] \notin Inner =>
             GcNoCheck(Z, c) \cap OwnCells(b) = {}
<1> DEFINE Spares(p) == \A c : \A Z \in SUBSET Cells :
             Strange(c, p, b) /\ Z \cap OwnCells(b) = {} /\ Tree({}, b)[p] \notin Inner =>
               GcNoCheck(Z, c) \cap OwnCells(b) = {}
           G == {p \in Paths : Spares(p)}
<1>1. ASSUME NEW p \in Paths, Len(p) < Bits => \A d \in {0, 1} : Child(p, d) \in G
      PROVE  p \in G
  <2> SUFFICES ASSUME NEW c, NEW Z \in SUBSET Cells, Strange(c, p, b), Z \cap OwnCells(b) = {},
                      Tree({}, b)[p] \notin Inner
               PROVE  GcNoCheck(Z, c) \cap OwnCells(b) = {}
    OBVIOUS
  <2> DEFINE x == Pointer(Z, c)
             there(T, d) == GcNoCheck(T, <<x, d>>)
  <2>1. c \in Cells /\ c \notin OwnCells(b)
    BY DEF Strange
  <2>2. GcNoCheck(Z, c) = {c} \cup IF x \in Inner /\ IsUnique(Z, x) THEN there(there(Z, 0), 1) ELSE Z
    BY <2>1, GcUnfolds
  <2>3. ASSUME x \in Inner, NEW T \in SUBSET Cells, T \cap OwnCells(b) = {}, NEW d \in {0, 1}
        PROVE  there(T, d) \in SUBSET Cells /\ there(T, d) \cap OwnCells(b) = {}
    <3>1. x = Pointer({}, c) /\ x # Tree({}, b)[p]
      BY <2>1, <2>3, CellsLead
    <3> HIDE DEF x
    <3>2. Len(p) < Bits /\ Strange(<<x, d>>, Child(p, d), b) /\ <<x, d>> \in Cells
      BY <2>3, <3>1, StrangeBelow, CellsLead
    <3>3. Tree({}, b)[Child(p, d)] \notin Inner
      BY <3>2, TreeBelow, CellsLead
    <3>4. Spares(Child(p, d))
      BY <1>1, <3>2
    <3>5. there(T, d) \in SUBSET Cells
      BY <2>3, <3>2, GcUnfolds
    <3> QED  BY <2>3, <3>2, <3>3, <3>4, <3>5
  <2> HIDE DEF x, there
  <2>4. CASE x \in Inner /\ IsUnique(Z, x)
    <3>1. there(Z, 0) \in SUBSET Cells /\ there(Z, 0) \cap OwnCells(b) = {}
      BY <2>3, <2>4
    <3>2. there(there(Z, 0), 1) \cap OwnCells(b) = {}
      BY <2>3, <2>4, <3>1
    <3> QED  BY <2>1, <2>2, <2>4, <3>2
  <2>5. CASE ~(x \in Inner /\ IsUnique(Z, x))
    BY <2>1, <2>2, <2>5
  <2> QED  BY <2>4, <2>5
<1> HIDE DEF G
<1>2. \A p \in Paths : p \in G
  BY <1>1, PathInduction
<1> QED  BY <1>2 DEF G

\* Nor does garbage_collect, given what version b has at the same place; and it leaves
\* nothing there but that.
LEMMA CollectSpares ==
  ASSUME IInv, CInv, NEW b \in DOMAIN versions
  PROVE  \A p \in Paths : \A c : \A Z \in SUBSET Cells :
           Strange(c, p, b) /\ Z \cap OwnCells(b) = {} =>
             LET base == Tree({}, b)[p]
                 S == GarbageCollect(Z, base, c)
             IN  S \cap OwnCells(b) = {} /\ Pointer(S, c) \in {Null, base}
<1> DEFINE base(p) == Tree({}, b)[p]
           Spares(p) == \A c : \A Z \in SUBSET Cells :
             Strange(c, p, b) /\ Z \cap OwnCells(b) = {} =>
               /\ GarbageCollect(Z, base(p), c) \cap OwnCells(b) = {}
               /\ Pointer(GarbageCollect(Z, base(p), c), c) \in {Null, base(p)}
           G == {p \in Paths : Spares(p)}
<1>0. \A p \in Paths : base(p) \in Nodes
  BY TreeUnfolds
<1> HIDE DEF base
<1>1. ASSUME NEW p \in Paths, Len(p) < Bits => \A d \in {0, 1} : Child(p, d) \in G
      PROVE  p \in G
  <2> SUFFICES ASSUME NEW c, NEW Z \in SUBSET Cells, Strange(c, p, b), Z \cap OwnCells(b) = {}
               PROVE  /\ GarbageCollect(Z, base(p), c) \cap OwnCells(b) = {}
                      /\ Pointer(GarbageCollect(Z, base(p), c), c) \in {Null, base(p)}
    OBVIOUS
  <2> DEFINE x == Pointer(Z, c)
             y == base(p)
             there(T, d) == GarbageCollect(T, Pointer(T, <<y, d>>), <<x, d>>)
             S == GarbageCollect(Z, y, c)
  <2>1. c \in Cells /\ c \notin OwnCells(b) /\ y \in Nodes /\ x \in Nodes
    BY <1>0, CellsLead DEF Strange
  <2>2. S = IF x = Null \/ x = y THEN Z
            ELSE IF heap[x].leaf THEN Z \cup {c}
            ELSE IF y \notin Inner THEN GcNoCheck(Z, c)
            ELSE {c} \cup IF NumPoints(x) > Cutoff THEN there(there(Z, 0), 1) ELSE Z
    <3> HIDE DEF y
    <3> QED  BY <2>1, CollectUnfolds
  <2>a. \A T : c \in T => Pointer(T, c) = Null
    BY DEF Pointer
  <2>3. ASSUME x # Null, x # y, ~heap[x].leaf, y \in Inner,
               NEW T \in SUBSET Cells, T \cap OwnCells(b) = {}, NEW d \in {0, 1}
        PROVE  there(T, d) \in SUBSET Cells /\ there(T, d) \cap OwnCells(b) = {}
    <3>1. x \in Inner /\ x = Pointer({}, c) /\ x # Tree({}, b)[p]
      BY <2>1, <2>3, CellsLead DEF Inner, Nodes, base
    <3> HIDE DEF x
    <3>2. Len(p) < Bits /\ Strange(<<x, d>>, Child(p, d), b) /\ <<x, d>> \in Cells
      BY <3>1, StrangeBelow, CellsLead
    <3>3. Fits(y, p) /\ y # Null /\ ~heap[y].leaf
      BY <2>3, TreeFits, CellsLead DEF base, Inner
    <3>4. y.at = p
      BY <3>3 DEF Fits
    <3>5. <<y, d>> \in OwnCells(b)
      <4>1. <<y, d>> \in Inner \X {0, 1} /\ <<y, d>>[1] = y /\ y = Tree({}, b)[y.at]
        BY <2>3, <3>4 DEF base
      <4> QED  BY <4>1 DEF OwnCells
    <3>6. Pointer(T, <<y, d>>) = Son(y, d) /\ Pointer({}, <<y, d>>) = Son(y, d)
      BY <2>3, <3>5, CellsLead
    <3>7. base(Child(p, d)) = Pointer(T, <<y, d>>)
      BY <2>3, <3>2, <3>6, TreeBelow DEF base
    <3>8. Spares(Child(p, d))
      BY <1>1, <3>2
    <3>9. there(T, d) = GarbageCollect(T, base(Child(p, d)), <<x, d>>)
      BY <3>7
    <3>10. there(T, d) \in SUBSET Cells
      <4>1. Pointer(T, <<y, d>>) \in Nodes
        BY <2>3, CellsLead
      <4> HIDE DEF y
      <4> QED  BY <2>3, <3>2, <4>1, CollectUnfolds
    <3> HIDE DEF there
    <3> QED  BY <2>3, <3>2, <3>8, <3>9, <3>10
  <2> HIDE DEF there
  <2>4. CASE x = Null \/ x = y
    <3>1. S = Z
      BY <2>2, <2>4
    <3> QED  BY <2>4, <3>1 DEF S, x, y
  <2>5. CASE ~(x = Null \/ x = y) /\ heap[x].leaf
    <3>1. S = Z \cup {c}
      BY <2>2, <2>5
    <3>2. Pointer(S, c) = Null /\ S \cap OwnCells(b) = {}
      <4> HIDE DEF S
      <4> QED  BY <2>1, <2>a, <3>1
    <3> QED  BY <3>2
  <2>6. CASE ~(x = Null \/ x = y) /\ ~heap[x].leaf /\ y \notin Inner
    <3>1. S = GcNoCheck(Z, c)
      BY <2>2, <2>6
    <3>2. c \in GcNoCheck(Z, c)
      <4>1. c \in Cells
        BY <2>1
      <4> HIDE DEF x, y, S
      <4> QED  BY <4>1, GcClears
    <3>3. GcNoCheck(Z, c) \cap OwnCells(b) = {}
      BY <2>6, GcSpares DEF base
    <3>4. Pointer(S, c) = Null
      BY <2>a, <3>1, <3>2
    <3> QED  BY <3>1, <3>3, <3>4
  <2>7. CASE ~(x = Null \/ x = y) /\ ~heap[x].leaf /\ y \in Inner
    <3>1. S = {c} \cup IF NumPoints(x) > Cutoff THEN there(there(Z, 0), 1) ELSE Z
      BY <2>2, <2>7
    <3>2. there(Z, 0) \in SUBSET Cells /\ there(Z, 0) \cap OwnCells(b) = {}
      BY <2>3, <2>7
    <3>3. there(there(Z, 0), 1) \cap OwnCells(b) = {}
      BY <2>3, <2>7, <3>2
    <3>4. S \cap OwnCells(b) = {} /\ c \in S
      <4> HIDE DEF S
      <4> QED  BY <2>1, <3>1, <3>3
    <3>5. Pointer(S, c) = Null
      BY <2>a, <3>4
    <3> QED  BY <3>4, <3>5
  <2> QED  BY <2>4, <2>5, <2>6, <2>7
<1> HIDE DEF G
<1>2. \A p \in Paths : p \in G
  BY <1>1, PathInduction
<1> QED  BY <1>2 DEF G, base

\* A tree none of whose cells was reset is as it was.
LEMMA TreeStays ==
  ASSUME IInv, CInv, NEW b \in DOMAIN versions, NEW Z, Z \cap OwnCells(b) = {}
  PROVE  Tree(Z, b) = Tree({}, b)
<1> DEFINE T == Tree({}, b)
           U == Tree(Z, b)
           good == [q \in Paths |-> U[q] = T[q]]
           rank == [q \in Paths |-> Len(q)]
           V == {TRUE}
<1>0. T \in [Paths -> Nodes] /\ U \in [Paths -> Nodes]
  BY TreeUnfolds
<1>1. rank \in [Paths -> Nat]
  BY PathTypes
<1>2. ASSUME NEW q \in Paths, \A w \in Paths : rank[w] < rank[q] => good[w] \in V
      PROVE  good[q] \in V
  <2>1. CASE q = << >>
    <3>1. <<Null, b>> \notin Z
      BY DEF OwnCells
    <3>2. Pointer(Z, <<Null, b>>) = Pointer({}, <<Null, b>>)
      BY <3>1 DEF Pointer
    <3> QED  BY <2>1, <3>2, TreeTop
  <2>2. CASE q # << >>
    <3> DEFINE p == Parent(q)
               d == q[Len(q)]
    <3>1. /\ p \in Paths /\ Len(p) < Bits /\ d \in {0, 1} /\ q = Child(p, d)
          /\ Len(p) \in Nat /\ Len(q) \in Nat /\ Len(p) < Len(q)
      BY <2>2, ParentOfPath, ChildrenArePaths, PathTypes
    <3> HIDE DEF p, d
    <3>2. U[p] = T[p]
      BY <1>2, <3>1
    <3>3. /\ T[q] = IF T[p] \notin Inner THEN Null ELSE Pointer({}, <<T[p], d>>)
          /\ U[q] = IF U[p] \notin Inner THEN Null ELSE Pointer(Z, <<U[p], d>>)
      BY <3>1, TreeBelow
    <3>4. CASE T[p] \in Inner
      <4>1. Fits(T[p], p) /\ T[p] # Null /\ ~heap[T[p]].leaf
        BY <3>1, <3>4, TreeFits, CellsLead DEF Inner
      <4>2. <<T[p], d>> \in Inner \X {0, 1} /\ <<T[p], d>>[1] = T[p] /\ T[p].at = p
        BY <3>1, <3>4, <4>1 DEF Fits
      <4>3. <<T[p], d>> \notin Z
        BY <4>2 DEF OwnCells
      <4>4. Pointer(Z, <<T[p], d>>) = Pointer({}, <<T[p], d>>)
        BY <3>1, <3>4, <4>3, CellsLead
      <4> HIDE DEF T, U
      <4> QED  BY <3>2, <3>3, <4>4
    <3>5. CASE T[p] \notin Inner
      <4> HIDE DEF T, U
      <4> QED  BY <3>2, <3>3, <3>5
    <3> QED  BY <3>4, <3>5
  <2> QED  BY <2>1, <2>2
<1>3. \A q \in Paths : good[q] \in V
  <2> HIDE DEF good, rank, V
  <2> QED  BY <1>1, <1>2, TypedByRank
<1>4. \A q \in Paths : U[q] = T[q]
  BY <1>3
<1> HIDE DEF T, U
<1>5. T = U
  BY <1>0, <1>4
<1> QED  BY <1>5 DEF T, U

\* The root decides: no root, no nodes, and the same root, the same nodes.
LEMMA RootDecides ==
  ASSUME IInv, NEW u \in DOMAIN versions, NEW v \in DOMAIN versions, NEW Z
  PROVE  /\ Tree(Z, v)[<< >>] = Null => Reached(Z, v) = {}
         /\ Tree(Z, v)[<< >>] = Tree(Z, u)[<< >>] => Reached(Z, v) = Reached(Z, u)
<1> DEFINE T == Tree(Z, u)
           U == Tree(Z, v)
           good == [q \in Paths |-> /\ U[<< >>] = Null => U[q] = Null
                                    /\ U[<< >>] = T[<< >>] => U[q] = T[q]]
           rank == [q \in Paths |-> Len(q)]
           V == {TRUE}
<1>1. rank \in [Paths -> Nat]
  BY PathTypes
<1>2. ASSUME NEW q \in Paths, \A w \in Paths : rank[w] < rank[q] => good[w] \in V
      PROVE  good[q] \in V
  <2>1. CASE q = << >>
    BY <2>1
  <2>2. CASE q # << >>
    <3> DEFINE p == Parent(q)
               d == q[Len(q)]
    <3>1. /\ p \in Paths /\ Len(p) < Bits /\ d \in {0, 1} /\ q = Child(p, d)
          /\ Len(p) \in Nat /\ Len(q) \in Nat /\ Len(p) < Len(q)
      BY <2>2, ParentOfPath, ChildrenArePaths, PathTypes
    <3> HIDE DEF p, d
    <3>2. /\ U[<< >>] = Null => U[p] = Null
          /\ U[<< >>] = T[<< >>] => U[p] = T[p]
      BY <1>2, <3>1
    <3>3. /\ T[q] = IF T[p] \notin Inner THEN Null ELSE Pointer(Z, <<T[p], d>>)
          /\ U[q] = IF U[p] \notin Inner THEN Null ELSE Pointer(Z, <<U[p], d>>)
      BY <3>1, TreeBelow
    <3>4. Null \notin Inner
      BY CellsLead
    <3> HIDE DEF T, U
    <3> QED  BY <3>2, <3>3, <3>4
  <2> QED  BY <2>1, <2>2
<1>3. \A q \in Paths : good[q] \in V
  <2> HIDE DEF good, rank, V
  <2> QED  BY <1>1, <1>2, TypedByRank
<1>4. \A q \in Paths : /\ U[<< >>] = Null => U[q] = Null
                       /\ U[<< >>] = T[<< >>] => U[q] = T[q]
  BY <1>3
<1>5. Reached(Z, v) = {U[q] : q \in Paths} \ {Null} /\ Reached(Z, u) = {T[q] : q \in Paths} \ {Null}
  BY DEF Reached
<1> HIDE DEF T, U
<1>6. U[<< >>] = Null => Reached(Z, v) = {}
  BY <1>4, <1>5
<1>7. U[<< >>] = T[<< >>] => Reached(Z, v) = Reached(Z, u)
  BY <1>4, <1>5
<1> QED  BY <1>6, <1>7 DEF T, U

\* A purge leaves the version it is made against as it is, node by node, and of the other
\* one nothing but what the two share; whichever of the two is the older.
THEOREM PurgeAlwaysSpares == Spec => []PurgeSparesTheOther
<1>1. IInv /\ CInv => PurgeSparesTheOther
  <2> SUFFICES ASSUME IInv, CInv, Cardinality(DOMAIN versions) = 2,
                      NEW b \in DOMAIN versions, NEW v \in DOMAIN versions, b # v
               PROVE  LET Z == GarbageCollect({}, versions[b], <<Null, v>>)
                      IN  Tree(Z, b) = Tree({}, b) /\ Alive(Z) = Reached({}, b)
    BY DEF PurgeSparesTheOther
  <2> DEFINE c == <<Null, v>>
             Z == GarbageCollect({}, versions[b], c)
  <2>1. DOMAIN versions = {b, v}
    <3>1. IsFiniteSet(DOMAIN versions)
      <4>1. DOMAIN versions \subseteq 0..commits /\ commits \in Nat
        BY ConstantsAssumption DEF IInv, TypeOK
      <4>2. IsFiniteSet(0..commits)
        BY <4>1, FS_Interval
      <4> QED  BY <4>1, <4>2, FS_Subset
    <3>2. Cardinality({b, v}) = 2
      <4>1. IsFiniteSet({b}) /\ Cardinality({b}) = 1
        BY FS_Singleton
      <4>2. Cardinality({b} \cup {v}) = 1 + 1
        BY <4>1, FS_AddElement
      <4>3. {b} \cup {v} = {b, v}
        OBVIOUS
      <4> QED  BY <4>2, <4>3
    <3> QED  BY <3>1, <3>2, FS_Subset
  <2>2. Strange(c, << >>, b)
    <3>1. c \in Cells /\ Pointer({}, c) = versions[v] /\ Place(c) = << >>
      BY DEF Cells, Pointer, Place
    <3>2. c \notin OwnCells(b)
      BY CellsLead DEF OwnCells
    <3>3. Fits(versions[v], << >>)
      BY DEF CInv, VersionsFit
    <3> QED  BY <3>1, <3>2, <3>3, RootIsPath DEF Strange
  <2>3. Tree({}, b)[<< >>] = versions[b]
    BY TreeTop DEF Pointer
  <2>4. Z \cap OwnCells(b) = {} /\ Pointer(Z, c) \in {Null, versions[b]}
    <3>1. {} \in SUBSET Cells /\ {} \cap OwnCells(b) = {} /\ << >> \in Paths
      BY RootIsPath
    <3> HIDE DEF c
    <3> QED  BY <2>2, <2>3, <3>1, CollectSpares
  <2> HIDE DEF Z
  <2>5. Tree(Z, b) = Tree({}, b)
    BY <2>4, TreeStays
  <2>6. Reached(Z, b) = Reached({}, b)
    BY <2>5 DEF Reached
  <2>7. Alive(Z) = Reached(Z, b) \cup Reached(Z, v)
    BY <2>1 DEF Alive
  <2>8. Tree(Z, v)[<< >>] \in {Null, Tree(Z, b)[<< >>]}
    BY <2>3, <2>4, <2>5, TreeTop
  <2>9. Reached(Z, v) \in {{}, Reached(Z, b)}
    BY <2>8, RootDecides
  <2> QED  BY <2>5, <2>6, <2>7, <2>9 DEF Z
<1> QED  BY <1>1, CInvHolds, PTL

-----------------------------------------------------------------------------
(* Updates in place, on a heap H that no commit need have made.  K are the *)
(* nodes of the tree, pl[a] is the place where node a hangs, s is "built"  *)
(* as long as nothing was deleted.                                         *)

\* Node a of H is in order at the place pl[a]: a leaf holds points of that region, an inner
\* node was made for it, has its sons, all in K, at the two halves, and counts what lies
\* below.  A tree with s = "built" is also as build would make it.
InPlace(H, K, pl, s, a) ==
  /\ pl[a] \in Paths /\ Len(pl[a]) <= Len(a.at)
  /\ H[a].leaf => /\ \A x \in DOMAIN H[a].records : Under(x, pl[a])
                  /\ s = "built" => LeafFits(H[a].records, pl[a])
  /\ ~H[a].leaf =>
       /\ a.at = pl[a] /\ Len(pl[a]) < Bits
       /\ \A d \in {0, 1} : SonIn(H, a, d) # Null =>
            SonIn(H, a, d) \in K /\ pl[SonIn(H, a, d)] = Child(pl[a], d)
       /\ H[a].num_pts = BagCardinality(ContentsIn(H, a))
       /\ s = "built" => H[a].num_pts > LeafSize
Ordered(H, K, pl, s) == SoundHeap(H) /\ K \subseteq DOMAIN H /\ \A a \in K : InPlace(H, K, pl, s, a)

\* x may be what hangs at p.
At(K, pl, p, x) == x = Null \/ (x \in K /\ pl[x] = p)

\* A call for region p on heap H that left u: what it wrote lies in that region, and the
\* tree, of nodes K, is in order and holds B.
Yields(H, u, K, pl, s, p, B) ==
  /\ DOMAIN u.nodes \subseteq K /\ \A a \in K : Leads(p, pl[a])
  /\ Ordered(Store(H, u.nodes), K, pl, s) /\ At(K, pl, p, u.x)
  /\ ContentsIn(Store(H, u.nodes), u.x) = B

\* Nodes that are in order are so in every heap that has them.
LEMMA OrderedElsewhere ==
  ASSUME NEW H, NEW K, NEW pl, NEW s, Ordered(H, K, pl, s),
         NEW G, SoundHeap(G), K \subseteq DOMAIN G, \A a \in K : G[a] = H[a]
  PROVE  Ordered(G, K, pl, s) /\ \A a \in K \cup {Null} : ContentsIn(G, a) = ContentsIn(H, a)
<1>1. SharedPart(H, G, K)
  BY DEF SharedPart, Ordered, InPlace, SonIn
<1>2. \A a \in K \cup {Null} : ContentsIn(G, a) = ContentsIn(H, a)
  BY <1>1, ContentsAgree DEF Ordered
<1>3. ASSUME NEW a \in K  PROVE InPlace(G, K, pl, s, a)
  <2>1. InPlace(H, K, pl, s, a) /\ G[a] = H[a] /\ ContentsIn(G, a) = ContentsIn(H, a)
    BY <1>2 DEF Ordered
  <2>2. \A d : SonIn(G, a, d) = SonIn(H, a, d)
    BY <2>1 DEF SonIn
  <2> QED  BY <2>1, <2>2 DEF InPlace
<1> QED  BY <1>2, <1>3 DEF Ordered

\* Some of them, with all below them, are in order by themselves.
LEMMA OrderedBelow ==
  ASSUME NEW H, NEW K, NEW pl, NEW s, Ordered(H, K, pl, s), NEW p \in Paths
  PROVE  Ordered(H, {a \in K : Leads(p, pl[a])}, pl, s)
<1> DEFINE M == {a \in K : Leads(p, pl[a])}
<1>1. ASSUME NEW a \in M  PROVE InPlace(H, M, pl, s, a)
  <2>1. a \in K /\ Leads(p, pl[a]) /\ InPlace(H, K, pl, s, a)
    BY <1>1 DEF Ordered
  <2>2. ASSUME ~H[a].leaf, NEW d \in {0, 1}  PROVE Leads(p, Child(pl[a], d))
    <3>1. pl[a] \in Paths /\ Len(pl[a]) < Bits
      BY <2>1, <2>2 DEF InPlace
    <3>2. Child(pl[a], d) \in Children(pl[a])
      BY <3>1, ChildrenOfPath
    <3> QED  BY <2>1, <3>1, <3>2, LeadsToChild
  <2>3. ASSUME ~H[a].leaf, NEW d \in {0, 1}, SonIn(H, a, d) # Null
        PROVE  SonIn(H, a, d) \in M /\ pl[SonIn(H, a, d)] = Child(pl[a], d)
    BY <2>1, <2>2, <2>3 DEF InPlace
  <2> HIDE DEF M
  <2> QED  BY <2>1, <2>3 DEF InPlace
<1> QED  BY <1>1 DEF Ordered

\* What lies below a node is of its region.
LEMMA ContentsInPlace ==
  ASSUME NEW H, NEW K, NEW pl, NEW s, Ordered(H, K, pl, s)
  PROVE  /\ \A a \in K \cup {Null} : IsBagOfPoints(ContentsIn(H, a))
         /\ \A a \in K : \A x \in DOMAIN ContentsIn(H, a) : Under(x, pl[a])
<1> DEFINE Holds(p, a) == \A x \in DOMAIN ContentsIn(H, a) : Under(x, p)
           G == {p \in Paths : \A a \in K : pl[a] = p => Holds(p, a)}
<1>1. \A a \in K \cup {Null} : IsBagOfPoints(ContentsIn(H, a))
  BY ContentsAreBags DEF Ordered
<1>2. ASSUME NEW p \in Paths, Len(p) < Bits => \A d \in {0, 1} : Child(p, d) \in G
      PROVE  p \in G
  <2> SUFFICES ASSUME NEW a \in K, pl[a] = p  PROVE Holds(p, a)
    OBVIOUS
  <2>1. a \in DOMAIN H /\ SoundHeap(H) /\ InPlace(H, K, pl, s, a)
    BY DEF Ordered
  <2>2. CASE H[a].leaf
    BY <2>1, <2>2, ContentsBelow DEF InPlace
  <2>3. CASE ~H[a].leaf
    <3>1. Len(p) < Bits
      BY <2>1, <2>3 DEF InPlace
    <3>2. ASSUME NEW d \in {0, 1}, NEW x \in DOMAIN ContentsIn(H, SonIn(H, a, d))
          PROVE  Under(x, p)
      <4>1. SonIn(H, a, d) # Null
        BY <2>1, <3>2, ContentsBelow DEF EmptyBag, SetToBag
      <4>2. SonIn(H, a, d) \in K /\ pl[SonIn(H, a, d)] = Child(p, d)
        BY <2>1, <2>3, <4>1 DEF InPlace
      <4>3. Holds(Child(p, d), SonIn(H, a, d))
        BY <1>2, <3>1, <4>2
      <4>4. x \in Points
        BY <1>1, <3>2, <4>2 DEF IsBagOfPoints
      <4> QED  BY <3>1, <3>2, <4>3, <4>4, UnderChildren
    <3>3. ContentsIn(H, a) = ContentsIn(H, SonIn(H, a, 0)) (+) ContentsIn(H, SonIn(H, a, 1))
      BY <2>1, <2>3, ContentsBelow DEF SonIn
    <3>4. ASSUME NEW x \in DOMAIN ContentsIn(H, a)
          PROVE  \E d \in {0, 1} : x \in DOMAIN ContentsIn(H, SonIn(H, a, d))
      BY <3>3, <3>4 DEF (+)
    <3> QED  BY <3>2, <3>4
  <2> QED  BY <2>2, <2>3
<1>3. \A p \in Paths : p \in G
  <2> HIDE DEF G
  <2> QED  BY <1>2, PathInduction
<1>4. \A a \in K : pl[a] \in Paths
  BY DEF Ordered, InPlace
<1> QED  BY <1>1, <1>3, <1>4

\* An inner node and its sons.
LEMMA SonsInPlace ==
  ASSUME NEW H, NEW K, NEW pl, NEW s, Ordered(H, K, pl, s), NEW a \in K, ~H[a].leaf,
         NEW p, p = pl[a], NEW B, IsBagOfPoints(B), ContentsIn(H, a) = Part(B, p)
  PROVE  /\ a \in DOMAIN H /\ a # Null /\ a.at = p /\ p \in Paths /\ Len(p) < Bits
         /\ \A d \in {0, 1} : /\ At(K, pl, Child(p, d), SonIn(H, a, d))
                              /\ ContentsIn(H, SonIn(H, a, d)) = Part(B, Child(p, d))
         /\ H[a].num_pts = BagCardinality(Part(B, p)) /\ (s = "built" => H[a].num_pts > LeafSize)
<1>1. a \in DOMAIN H /\ SoundHeap(H) /\ InPlace(H, K, pl, s, a)
  BY DEF Ordered
<1>2. /\ a # Null /\ a.at = p /\ p \in Paths /\ Len(p) < Bits
      /\ \A d \in {0, 1} : At(K, pl, Child(p, d), SonIn(H, a, d))
      /\ H[a].num_pts = BagCardinality(Part(B, p)) /\ (s = "built" => H[a].num_pts > LeafSize)
  BY <1>1 DEF InPlace, At, SoundHeap
<1>3. ASSUME NEW d \in {0, 1}
      PROVE  /\ IsBagOfPoints(ContentsIn(H, SonIn(H, a, d)))
             /\ \A x \in DOMAIN ContentsIn(H, SonIn(H, a, d)) : Under(x, Child(p, d))
  <2>1. CASE SonIn(H, a, d) = Null
    BY <1>1, <2>1, ContentsBelow, EmptyBagOfPoints DEF EmptyBag, SetToBag
  <2>2. CASE SonIn(H, a, d) # Null
    <3>1. SonIn(H, a, d) \in K /\ pl[SonIn(H, a, d)] = Child(p, d)
      BY <1>2, <2>2 DEF At
    <3> QED  BY <3>1, ContentsInPlace
  <2> QED  BY <2>1, <2>2
<1>4. ContentsIn(H, a) = ContentsIn(H, SonIn(H, a, 0)) (+) ContentsIn(H, SonIn(H, a, 1))
  BY <1>1, ContentsBelow DEF SonIn
<1>5. /\ Part(Part(B, p), Child(p, 0)) = ContentsIn(H, SonIn(H, a, 0))
      /\ Part(Part(B, p), Child(p, 1)) = ContentsIn(H, SonIn(H, a, 1))
  BY <1>2, <1>3, <1>4, PartsOfSons
<1>6. \A d \in {0, 1} : Part(Part(B, p), Child(p, d)) = Part(B, Child(p, d))
  BY <1>2, PartsOfPart
<1> QED  BY <1>1, <1>2, <1>5, <1>6

\* A call that writes nothing.
LEMMA NothingWritten ==
  ASSUME NEW H, NEW K, NEW pl, NEW s, Ordered(H, K, pl, s),
         NEW p \in Paths, NEW x, At(K, pl, p, x), NEW B, ContentsIn(H, x) = B
  PROVE  Yields(H, Left(x, NoNodes), {a \in K : Leads(p, pl[a])}, pl, s, p, B)
<1> DEFINE M == {a \in K : Leads(p, pl[a])}
           S == Store(H, NoNodes)
<1>1. Left(x, NoNodes).x = x /\ Left(x, NoNodes).nodes = NoNodes /\ DOMAIN NoNodes = {}
  BY DEF Left, NoNodes
<1>2. DOMAIN S = DOMAIN H /\ \A a \in DOMAIN H : S[a] = H[a]
  BY <1>1 DEF Store
<1>3. SoundHeap(S)
  <2> HIDE DEF S
  <2> QED  BY <1>2 DEF Ordered, SoundHeap
<1>4. Ordered(H, M, pl, s) /\ M \subseteq DOMAIN H
  BY OrderedBelow DEF Ordered
<1> HIDE DEF S
<1>5. Ordered(S, M, pl, s) /\ \A a \in M \cup {Null} : ContentsIn(S, a) = ContentsIn(H, a)
  <2> HIDE DEF M
  <2> QED  BY <1>2, <1>3, <1>4, OrderedElsewhere
<1>6. At(M, pl, p, x)
  BY LeadsTrivially DEF At
<1>7. ContentsIn(S, x) = B
  BY <1>5, <1>6 DEF At
<1> QED  BY <1>1, <1>5, <1>6, <1>7 DEF Yields, S

\* A call that writes a leaf.
LEMMA LeafWritten ==
  ASSUME NEW H, NEW K, NEW pl, NEW s, Ordered(H, K, pl, s),
         NEW p \in Paths, NEW x \in K, pl[x] = p, NEW B, IsBagOfPoints(B),
         \A y \in DOMAIN B : Under(y, p), s = "built" => LeafFits(B, p)
  PROVE  Yields(H, Left(x, One(x, Leaf(B))), {x}, pl, s, p, B)
<1> DEFINE N == One(x, Leaf(B))
           u == Left(x, N)
           S == Store(H, N)
<1>1. u.x = x /\ u.nodes = N
  BY DEF Left
<1>2. DOMAIN N = {x} /\ N[x] = Leaf(B)
  BY DEF One
<1>3. x \in DOMAIN H /\ SoundHeap(H) /\ Len(p) <= Len(x.at)
  BY DEF Ordered, InPlace
<1>4. DOMAIN S = DOMAIN H /\ S[x] = Leaf(B) /\ \A a \in DOMAIN H \ {x} : S[a] = H[a]
  BY <1>2, <1>3 DEF Store
<1> HIDE DEF S, N, u
<1>5. S[x].leaf /\ S[x].records = B
  BY <1>4 DEF Leaf
<1>6. SoundHeap(S)
  BY <1>3, <1>4, <1>5 DEF SoundHeap
<1>7. ContentsIn(S, x) = B
  BY <1>3, <1>4, <1>5, <1>6, ContentsBelow
<1>8. InPlace(S, {x}, pl, s, x)
  BY <1>3, <1>5 DEF InPlace
<1>9. Ordered(S, {x}, pl, s)
  BY <1>3, <1>4, <1>6, <1>8 DEF Ordered
<1>10. At({x}, pl, p, x) /\ Leads(p, pl[x])
  BY LeadsTrivially DEF At
<1> QED  BY <1>1, <1>2, <1>7, <1>9, <1>10 DEF Yields, S, N, u

\* Nodes that build makes under number c hang where they were made for.
Addressed(pl, c) == \A q \in Paths : pl[BuildAddress(c, q)] = q

\* A call that builds a tree.
LEMMA TreeWritten ==
  ASSUME NEW H, SoundHeap(H), NEW pl, NEW s, NEW c \in Nat, Addressed(pl, c),
         NEW p \in Paths, NEW B, IsBagOfPoints(B), B # EmptyBag, \A y \in DOMAIN B : Under(y, p)
  PROVE  Yields(H, Left(BuildAddress(c, p), Build(B, p, c)), DOMAIN Build(B, p, c), pl, s, p, B)
<1> DEFINE N == Build(B, p, c)
           r == BuildAddress(c, p)
           u == Left(r, N)
           S == Store(H, N)
           K == DOMAIN N
<1>1. u.x = r /\ u.nodes = N
  BY DEF Left
<1>2. DOMAIN S = DOMAIN H \cup K /\ (\A a \in K : S[a] = N[a]) /\ \A a \in DOMAIN H \ K : S[a] = H[a]
  BY DEF Store
<1>3. /\ K \subseteq Address /\ r \in K /\ p \in BuildPaths(B, p)
      /\ \A a \in K : /\ IsNode(N[a])
                      /\ ~N[a].leaf => \A t \in {N[a].l_son, N[a].r_son} :
                                         t # Null => t \in K /\ Len(t.at) > Len(a.at)
  BY BuildIsSound, BuiltAddresses
<1>4. ASSUME NEW a \in K
      PROVE  \E q \in BuildPaths(B, p) : a = BuildAddress(c, q)
  BY <1>4 DEF Build
<1>5. \A q \in BuildPaths(B, p) : q \in Paths /\ Leads(p, q)
  BY BuildLeads
<1>6. ASSUME NEW q \in BuildPaths(B, p)
      PROVE  pl[BuildAddress(c, q)] = q /\ BuildAddress(c, q).at = q
  BY <1>5 DEF Addressed, BuildAddress
<1>7. SoundHeap(S)
  <2>1. ASSUME NEW a \in K
        PROVE  /\ a # Null /\ Len(a.at) \in 0..Bits
               /\ N[a].leaf => IsBagOfPoints(N[a].records)
    <3>1. a \in Address /\ a.at \in Paths /\ IsNode(N[a])
      BY <1>3, <2>1 DEF Address
    <3> HIDE DEF N
    <3> QED  BY <3>1, PathTypes, ConstantsAssumption DEF IsNode
  <2> HIDE DEF S, N, K, r
  <2> QED  BY <1>2, <1>3, <2>1 DEF SoundHeap
<1>8. \A q \in BuildPaths(B, p) : ContentsIn(S, BuildAddress(c, q)) = Part(B, q)
  <2>1. BuiltIn(S, B, p, c)
    BY <1>2 DEF BuiltIn
  <2> HIDE DEF S
  <2> QED  BY <1>7, <2>1, BuildContents
<1>9. ContentsIn(S, r) = B
  BY <1>3, <1>8, PartIsAll
<1>10. ASSUME NEW a \in K  PROVE Leads(p, pl[a]) /\ InPlace(S, K, pl, s, a)
  <2>1. PICK q \in BuildPaths(B, p) : a = BuildAddress(c, q)
    BY <1>4, <1>10
  <2> DEFINE C == Part(B, q)
             son == [d \in {0, 1} |-> IF Part(B, Child(q, d)) # EmptyBag
                                      THEN BuildAddress(c, Child(q, d)) ELSE Null]
  <2>2. pl[a] = q /\ a.at = q /\ q \in Paths /\ Leads(p, q) /\ S[a] = N[a] /\ Len(q) \in Nat
    BY <1>2, <1>5, <1>6, <1>10, <2>1, PathTypes
  <2>3. /\ FitsLeaf(BagCardinality(C), q) => N[a] = Leaf(C) /\ N[a].leaf /\ LeafFits(C, q)
        /\ ~FitsLeaf(BagCardinality(C), q) =>
             /\ N[a] = Inte(son[0], son[1], BagCardinality(C)) /\ ~N[a].leaf
             /\ BagCardinality(C) > LeafSize
    BY <2>1, BuildNodes
  <2>4. ContentsIn(S, a) = C
    BY <1>8, <2>1
  <2>5. ASSUME ~FitsLeaf(BagCardinality(C), q), NEW d \in {0, 1}, son[d] # Null
        PROVE  son[d] \in K /\ pl[son[d]] = Child(q, d) /\ Len(q) < Bits
    <3>1. Part(B, Child(q, d)) # EmptyBag /\ son[d] = BuildAddress(c, Child(q, d))
      BY <2>5
    <3>2. Child(q, d) \in BuildPaths(B, p) /\ Len(q) < Bits
      BY <2>5, <3>1, BuildSons
    <3>3. BuildAddress(c, Child(q, d)) \in K
      BY <3>2 DEF Build
    <3> QED  BY <1>6, <3>1, <3>2, <3>3
  <2>6. ~FitsLeaf(BagCardinality(C), q) => Len(q) < Bits
    BY <2>2, PathTypes DEF FitsLeaf
  <2> HIDE DEF S, N, K, C, son
  <2>7. CASE FitsLeaf(BagCardinality(C), q)
    <3>1. S[a].leaf /\ S[a].records = C /\ LeafFits(C, q)
      BY <2>2, <2>3, <2>7 DEF Leaf
    <3> QED  BY <2>2, <3>1 DEF InPlace, LeafFits
  <2>8. CASE ~FitsLeaf(BagCardinality(C), q)
    <3>1. /\ ~S[a].leaf /\ S[a].num_pts = BagCardinality(C) /\ BagCardinality(C) > LeafSize
          /\ SonIn(S, a, 0) = son[0] /\ SonIn(S, a, 1) = son[1]
      BY <2>2, <2>3, <2>8 DEF Inte, SonIn
    <3>2. \A d \in {0, 1} : SonIn(S, a, d) # Null =>
            SonIn(S, a, d) \in K /\ pl[SonIn(S, a, d)] = Child(q, d)
      BY <2>5, <2>8, <3>1
    <3> QED  BY <2>2, <2>4, <2>6, <2>8, <3>1, <3>2 DEF InPlace
  <2> QED  BY <2>7, <2>8
<1>11. Ordered(S, K, pl, s)
  BY <1>2, <1>7, <1>10 DEF Ordered
<1>12. At(K, pl, p, r)
  BY <1>3, <1>6 DEF At
<1> QED  BY <1>1, <1>9, <1>10, <1>11, <1>12 DEF Yields

\* The number that get_num_points reads is right.
LEMMA CountInPlace ==
  ASSUME NEW H, NEW K, NEW pl, NEW s, Ordered(H, K, pl, s), NEW a \in K \cup {Null}
  PROVE  CountIn(H, a) = BagCardinality(ContentsIn(H, a))
<1>1. CASE a = Null
  <2>1. ContentsIn(H, a) = EmptyBag
    BY <1>1, ContentsBelow DEF Ordered
  <2> QED  BY <1>1, <2>1, SizeOfNothing DEF CountIn
<1>2. CASE a # Null
  <2>1. a \in DOMAIN H /\ InPlace(H, K, pl, s, a) /\ SoundHeap(H)
    BY <1>2 DEF Ordered
  <2>2. CASE H[a].leaf
    BY <1>2, <2>1, <2>2, ContentsBelow DEF CountIn
  <2>3. CASE ~H[a].leaf
    BY <1>2, <2>1, <2>3 DEF CountIn, InPlace
  <2> QED  BY <2>2, <2>3
<1> QED  BY <1>1, <1>2

\* An inner node whose halves have returned.
LEMMA RecountYields ==
  ASSUME NEW H, SoundHeap(H), NEW x \in DOMAIN H, NEW pl, NEW s,
         NEW p \in Paths, Len(p) < Bits, pl[x] = p, x.at = p,
         NEW L, NEW K0, NEW B0, Yields(H, L, K0, pl, s, Child(p, 0), B0),
         NEW R, NEW K1, NEW B1, Yields(H, R, K1, pl, s, Child(p, 1), B1),
         s = "built" => BagCardinality(B0) + BagCardinality(B1) > LeafSize
  PROVE  Yields(H, Recount(H, x, L, R), K0 \cup K1 \cup {x}, pl, s, p, B0 (+) B1)
<1> DEFINE N == Store(L.nodes, R.nodes)
           G == Store(H, N)
           n == CountIn(G, L.x) + CountIn(G, R.x)
           W == Store(N, One(x, Inte(L.x, R.x, n)))
           S == Store(H, W)
           SL == Store(H, L.nodes)
           SR == Store(H, R.nodes)
           K == K0 \cup K1 \cup {x}
           u == Recount(H, x, L, R)
<1>1. u.x = x /\ u.nodes = W
  BY DEF Recount, Left
<1>2. /\ DOMAIN L.nodes \subseteq K0 /\ Ordered(SL, K0, pl, s) /\ At(K0, pl, Child(p, 0), L.x)
      /\ ContentsIn(SL, L.x) = B0 /\ \A a \in K0 : Leads(Child(p, 0), pl[a])
  BY DEF Yields
<1>3. /\ DOMAIN R.nodes \subseteq K1 /\ Ordered(SR, K1, pl, s) /\ At(K1, pl, Child(p, 1), R.x)
      /\ ContentsIn(SR, R.x) = B1 /\ \A a \in K1 : Leads(Child(p, 1), pl[a])
  BY DEF Yields
<1>4. /\ SoundHeap(SL) /\ K0 \subseteq DOMAIN SL /\ \A a \in K0 : InPlace(SL, K0, pl, s, a)
      /\ SoundHeap(SR) /\ K1 \subseteq DOMAIN SR /\ \A a \in K1 : InPlace(SR, K1, pl, s, a)
  BY <1>2, <1>3 DEF Ordered
<1>5. \A d \in {0, 1} : /\ Child(p, d) \in Paths /\ Len(Child(p, d)) = Len(p) + 1
                        /\ Leads(p, Child(p, d)) /\ Child(p, d)[Len(p) + 1] = d
  <2> SUFFICES ASSUME NEW d \in {0, 1}
               PROVE  /\ Child(p, d) \in Paths /\ Len(Child(p, d)) = Len(p) + 1
                      /\ Leads(p, Child(p, d)) /\ Child(p, d)[Len(p) + 1] = d
    OBVIOUS
  <2>1. /\ Child(p, d) \in Paths /\ Len(Child(p, d)) = Len(p) + 1
        /\ Child(p, d) \in Children(p) /\ Child(p, d)[Len(Child(p, d))] = d
    BY ChildrenOfPath
  <2>2. Leads(p, Child(p, d))
    BY <2>1, LeadsToChild, LeadsTrivially
  <2> QED  BY <2>1, <2>2
<1>6. Len(p) \in Nat
  BY PathTypes
<1>7. /\ \A a \in K0 : pl[a] \in Paths /\ Leads(p, pl[a]) /\ pl[a][Len(p) + 1] = 0 /\ pl[a] # p
      /\ \A a \in K1 : pl[a] \in Paths /\ Leads(p, pl[a]) /\ pl[a][Len(p) + 1] = 1 /\ pl[a] # p
  <2>1. ASSUME NEW q \in Paths, NEW d \in {0, 1}, Leads(Child(p, d), q)
        PROVE  Leads(p, q) /\ q[Len(p) + 1] = d /\ q # p
    <3>1. Leads(p, q)
      BY <1>5, <2>1, LeadsAlong
    <3>2. Len(p) + 1 \in 1..Len(Child(p, d)) /\ Len(q) >= Len(p) + 1 /\ Len(q) \in Nat
      BY <1>5, <1>6, <2>1, PathTypes DEF Leads
    <3>3. q[Len(p) + 1] = Child(p, d)[Len(p) + 1]
      BY <2>1, <3>2 DEF Leads
    <3> QED  BY <1>5, <1>6, <3>1, <3>2, <3>3
  <2>2. \A a \in K0 : pl[a] \in Paths
    BY <1>4 DEF InPlace
  <2>3. \A a \in K1 : pl[a] \in Paths
    BY <1>4 DEF InPlace
  <2> QED  BY <1>2, <1>3, <2>1, <2>2, <2>3
<1>8. x \notin K0 /\ x \notin K1 /\ K0 \cap K1 = {}
  BY <1>7
<1>9. /\ DOMAIN SL = DOMAIN H \cup DOMAIN L.nodes
      /\ \A a \in DOMAIN SL : SL[a] = IF a \in DOMAIN L.nodes THEN L.nodes[a] ELSE H[a]
      /\ DOMAIN SR = DOMAIN H \cup DOMAIN R.nodes
      /\ \A a \in DOMAIN SR : SR[a] = IF a \in DOMAIN R.nodes THEN R.nodes[a] ELSE H[a]
  BY DEF Store
<1>10. /\ DOMAIN G = DOMAIN H \cup DOMAIN L.nodes \cup DOMAIN R.nodes
       /\ \A a \in DOMAIN G : G[a] = IF a \in DOMAIN R.nodes THEN R.nodes[a]
                                     ELSE IF a \in DOMAIN L.nodes THEN L.nodes[a] ELSE H[a]
  BY DEF Store
<1>11. /\ DOMAIN W = DOMAIN L.nodes \cup DOMAIN R.nodes \cup {x}
       /\ DOMAIN S = DOMAIN G
       /\ S[x] = Inte(L.x, R.x, n)
       /\ \A a \in DOMAIN S \ {x} : S[a] = G[a]
  <2>1. DOMAIN One(x, Inte(L.x, R.x, n)) = {x} /\ One(x, Inte(L.x, R.x, n))[x] = Inte(L.x, R.x, n)
    BY DEF One
  <2> HIDE DEF n
  <2>2. DOMAIN W = DOMAIN N \cup {x} /\ W[x] = Inte(L.x, R.x, n) /\ \A a \in DOMAIN W \ {x} : W[a] = N[a]
    BY <2>1 DEF Store
  <2>3. DOMAIN N = DOMAIN L.nodes \cup DOMAIN R.nodes
    BY DEF Store
  <2> HIDE DEF W, N
  <2> QED  BY <2>2, <2>3 DEF Store
<1> HIDE DEF S, W, G, N, SL, SR, n, u
<1>12. /\ K0 \subseteq DOMAIN G /\ \A a \in K0 : G[a] = SL[a] /\ S[a] = SL[a]
       /\ K1 \subseteq DOMAIN G /\ \A a \in K1 : G[a] = SR[a] /\ S[a] = SR[a]
  BY <1>2, <1>3, <1>4, <1>8, <1>9, <1>10, <1>11
<1>13. SoundHeap(G)
  <2> SUFFICES ASSUME NEW a \in DOMAIN G
               PROVE  /\ a # Null /\ Len(a.at) \in 0..Bits
                      /\ G[a].leaf => IsBagOfPoints(G[a].records)
                      /\ ~G[a].leaf => \A t \in {G[a].l_son, G[a].r_son} :
                                         t = Null \/ (t \in DOMAIN G /\ Len(t.at) > Len(a.at))
    BY DEF SoundHeap
  <2>1. \/ a \in DOMAIN SR /\ G[a] = SR[a]
        \/ a \in DOMAIN SL /\ G[a] = SL[a]
    BY <1>9, <1>10
  <2>2. DOMAIN SR \subseteq DOMAIN G /\ DOMAIN SL \subseteq DOMAIN G
    BY <1>9, <1>10
  <2> QED  BY <1>4, <2>1, <2>2 DEF SoundHeap
<1>14. /\ L.x = Null \/ (L.x \in K0 /\ pl[L.x] = Child(p, 0) /\ Len(L.x.at) > Len(p))
       /\ R.x = Null \/ (R.x \in K1 /\ pl[R.x] = Child(p, 1) /\ Len(R.x.at) > Len(p))
  <2>1. ASSUME L.x # Null  PROVE L.x \in K0 /\ pl[L.x] = Child(p, 0) /\ Len(L.x.at) > Len(p)
    <3>1. L.x \in K0 /\ pl[L.x] = Child(p, 0) /\ L.x \in DOMAIN SL
      BY <1>2, <1>4, <2>1 DEF At
    <3>2. Len(pl[L.x]) <= Len(L.x.at) /\ Len(L.x.at) \in 0..Bits
      BY <1>4, <3>1 DEF InPlace, SoundHeap
    <3> QED  BY <1>5, <1>6, <3>1, <3>2, BitsIsNatural
  <2>2. ASSUME R.x # Null  PROVE R.x \in K1 /\ pl[R.x] = Child(p, 1) /\ Len(R.x.at) > Len(p)
    <3>1. R.x \in K1 /\ pl[R.x] = Child(p, 1) /\ R.x \in DOMAIN SR
      BY <1>3, <1>4, <2>2 DEF At
    <3>2. Len(pl[R.x]) <= Len(R.x.at) /\ Len(R.x.at) \in 0..Bits
      BY <1>4, <3>1 DEF InPlace, SoundHeap
    <3> QED  BY <1>5, <1>6, <3>1, <3>2, BitsIsNatural
  <2> QED  BY <2>1, <2>2
<1>15. /\ ~S[x].leaf /\ S[x].num_pts = n /\ S[x].l_son = L.x /\ S[x].r_son = R.x
       /\ SonIn(S, x, 0) = L.x /\ SonIn(S, x, 1) = R.x
  BY <1>11 DEF Inte, SonIn
<1>16. SoundHeap(S)
  <2> SUFFICES ASSUME NEW a \in DOMAIN S
               PROVE  /\ a # Null /\ Len(a.at) \in 0..Bits
                      /\ S[a].leaf => IsBagOfPoints(S[a].records)
                      /\ ~S[a].leaf => \A t \in {S[a].l_son, S[a].r_son} :
                                         t = Null \/ (t \in DOMAIN S /\ Len(t.at) > Len(a.at))
    BY DEF SoundHeap
  <2>1. CASE a # x
    BY <1>11, <1>13, <2>1 DEF SoundHeap
  <2>2. CASE a = x
    <3>1. \A t \in {S[a].l_son, S[a].r_son} : t = Null \/ (t \in DOMAIN S /\ Len(t.at) > Len(a.at))
      BY <1>11, <1>12, <1>14, <1>15, <2>2
    <3>2. a # Null /\ Len(a.at) \in 0..Bits
      BY <1>11, <1>13 DEF SoundHeap
    <3> QED  BY <1>15, <2>2, <3>1, <3>2
  <2> QED  BY <2>1, <2>2
<1>17. /\ Ordered(G, K0, pl, s) /\ ContentsIn(G, L.x) = B0
       /\ Ordered(G, K1, pl, s) /\ ContentsIn(G, R.x) = B1
  <2>1. Ordered(G, K0, pl, s) /\ \A a \in K0 \cup {Null} : ContentsIn(G, a) = ContentsIn(SL, a)
    BY <1>2, <1>12, <1>13, OrderedElsewhere
  <2>2. Ordered(G, K1, pl, s) /\ \A a \in K1 \cup {Null} : ContentsIn(G, a) = ContentsIn(SR, a)
    BY <1>3, <1>12, <1>13, OrderedElsewhere
  <2> QED  BY <1>2, <1>3, <1>14, <2>1, <2>2
<1>18. /\ Ordered(S, K0, pl, s) /\ ContentsIn(S, L.x) = B0
       /\ Ordered(S, K1, pl, s) /\ ContentsIn(S, R.x) = B1
  <2>0. K0 \subseteq DOMAIN S /\ K1 \subseteq DOMAIN S
    BY <1>11, <1>12
  <2>1. Ordered(S, K0, pl, s) /\ \A a \in K0 \cup {Null} : ContentsIn(S, a) = ContentsIn(SL, a)
    BY <1>2, <1>12, <1>16, <2>0, OrderedElsewhere
  <2>2. Ordered(S, K1, pl, s) /\ \A a \in K1 \cup {Null} : ContentsIn(S, a) = ContentsIn(SR, a)
    BY <1>3, <1>12, <1>16, <2>0, OrderedElsewhere
  <2> QED  BY <1>2, <1>3, <1>14, <2>1, <2>2
<1>19. n = BagCardinality(B0) + BagCardinality(B1)
  <2>1. CountIn(G, L.x) = BagCardinality(B0)
    BY <1>14, <1>17, CountInPlace
  <2>2. CountIn(G, R.x) = BagCardinality(B1)
    BY <1>14, <1>17, CountInPlace
  <2> QED  BY <2>1, <2>2 DEF n
<1>20. ContentsIn(S, x) = B0 (+) B1
  BY <1>11, <1>10, <1>15, <1>16, <1>18, ContentsBelow
<1>21. BagCardinality(B0 (+) B1) = BagCardinality(B0) + BagCardinality(B1)
  <2>1. IsBagOfPoints(B0) /\ IsBagOfPoints(B1)
    <3>1. L.x \in DOMAIN S \cup {Null} /\ R.x \in DOMAIN S \cup {Null}
      BY <1>11, <1>12, <1>14
    <3> QED  BY <1>16, <1>18, <3>1, ContentsAreBags
  <2> QED  BY <2>1, SizeOfSum
<1>22. InPlace(S, K, pl, s, x)
  <2>1. \A d \in {0, 1} : SonIn(S, x, d) # Null =>
          SonIn(S, x, d) \in K /\ pl[SonIn(S, x, d)] = Child(p, d)
    BY <1>14, <1>15
  <2> HIDE DEF K
  <2>2. pl[x] \in Paths /\ Len(pl[x]) <= Len(x.at) /\ x.at = pl[x] /\ Len(pl[x]) < Bits
    BY <1>6
  <2> QED  BY <1>15, <1>19, <1>20, <1>21, <2>1, <2>2 DEF InPlace
<1>23. ASSUME NEW a \in K  PROVE InPlace(S, K, pl, s, a)
  <2>1. CASE a = x
    BY <1>22, <2>1
  <2>2. CASE a \in K0
    <3>1. InPlace(S, K0, pl, s, a)
      BY <1>18, <2>2 DEF Ordered
    <3> QED  BY <3>1 DEF InPlace
  <2>3. CASE a \in K1
    <3>1. InPlace(S, K1, pl, s, a)
      BY <1>18, <2>3 DEF Ordered
    <3> QED  BY <3>1 DEF InPlace
  <2> QED  BY <2>1, <2>2, <2>3
<1>24. Ordered(S, K, pl, s)
  <2>1. K \subseteq DOMAIN S
    BY <1>10, <1>11, <1>12
  <2> HIDE DEF K
  <2> QED  BY <1>16, <1>23, <2>1 DEF Ordered
<1>25. DOMAIN W \subseteq K /\ (\A a \in K : Leads(p, pl[a])) /\ At(K, pl, p, x)
  <2>1. Leads(p, pl[x])
    BY LeadsTrivially
  <2> QED  BY <1>2, <1>3, <1>7, <1>11, <2>1 DEF At
<1> HIDE DEF K
<1> QED  BY <1>1, <1>20, <1>24, <1>25 DEF Yields, S, u, K

-----------------------------------------------------------------------------
(* The walk of a batch through the tree.                                   *)

Calls(H) == (DOMAIN H \cup {Null}) \X Seq({0, 1})
\* The call v forks: its part of batch P is not empty and it stands at an inner node.
Forks(H, P, v) == Part(P, v[2]) # EmptyBag /\ v[1] # Null /\ ~H[v[1]].leaf
HalfOf(H, f, v, d) == f[<<SonIn(H, v[1], d), Child(v[2], d)>>]
\* base is what the calls leave that do not fork.
WalkStep(H, P, base, f, v) ==
  IF Forks(H, P, v) THEN Recount(H, v[1], HalfOf(H, f, v, 0), HalfOf(H, f, v, 1)) ELSE base[v]
WalkRule(H, P, base, X, f) == f = [v \in X |-> WalkStep(H, P, base, f, v)]
LowCalls(H, n) == {v \in Calls(H) : v[1] = Null \/ Rank(v[1]) < n}

\* A walk down a sound heap ends.
LEMMA WalkExists ==
  ASSUME NEW H, SoundHeap(H), NEW P, NEW base
  PROVE  \E f : WalkRule(H, P, base, Calls(H), f)
<1> DEFINE Good == {n \in Nat : \E f : WalkRule(H, P, base, LowCalls(H, n), f)}
<1>a. \A v \in Calls(H) : v[1] \in DOMAIN H \cup {Null} /\ v[2] \in Seq({0, 1})
  BY DEF Calls
<1>b. \A v \in Calls(H) : v[1] # Null => v[1] \in DOMAIN H /\ Rank(v[1]) \in Nat /\ Rank(v[1]) < Bits + 1
  BY <1>a, RanksFall
<1>1. 0 \in Good
  <2> DEFINE f == [v \in LowCalls(H, 0) |-> base[v]]
  <2>1. \A v \in LowCalls(H, 0) : v[1] = Null
    BY <1>b DEF LowCalls
  <2>2. \A v \in LowCalls(H, 0) : WalkStep(H, P, base, f, v) = base[v]
    BY <2>1 DEF WalkStep, Forks
  <2>3. f = [v \in LowCalls(H, 0) |-> WalkStep(H, P, base, f, v)]
    BY <2>2
  <2> HIDE DEF f
  <2>4. WalkRule(H, P, base, LowCalls(H, 0), f)
    BY <2>3 DEF WalkRule
  <2> QED  BY <2>4
<1>2. ASSUME NEW n \in Nat, n \in Good  PROVE n + 1 \in Good
  <2>1. PICK f : WalkRule(H, P, base, LowCalls(H, n), f)
    BY <1>2
  <2> DEFINE g == [v \in LowCalls(H, n + 1) |-> WalkStep(H, P, base, f, v)]
  <2>2. \A v \in LowCalls(H, n) : v \in LowCalls(H, n + 1) /\ g[v] = f[v]
    <3>1. \A v \in LowCalls(H, n) : v \in LowCalls(H, n + 1)
      BY <1>b DEF LowCalls
    <3>2. \A v \in LowCalls(H, n) : f[v] = WalkStep(H, P, base, f, v)
      BY <2>1 DEF WalkRule
    <3> QED  BY <3>1, <3>2
  <2>3. ASSUME NEW v \in LowCalls(H, n + 1), Forks(H, P, v), NEW d \in {0, 1}
        PROVE  HalfOf(H, f, v, d) = HalfOf(H, g, v, d)
    <3>1. /\ v[1] \in DOMAIN H /\ ~H[v[1]].leaf /\ Rank(v[1]) < n + 1 /\ v[2] \in Seq({0, 1})
          /\ Rank(v[1]) \in Nat
      BY <1>a, <1>b, <2>3 DEF Forks, LowCalls
    <3>2. SonIn(H, v[1], d) \in {H[v[1]].l_son, H[v[1]].r_son}
      BY DEF SonIn
    <3>3. SonIn(H, v[1], d) # Null =>
            /\ SonIn(H, v[1], d) \in DOMAIN H /\ Rank(SonIn(H, v[1], d)) \in Nat
            /\ Rank(SonIn(H, v[1], d)) < Rank(v[1])
      BY <3>1, <3>2, RanksFall
    <3>4. Child(v[2], d) \in Seq({0, 1})
      BY <3>1 DEF Child
    <3> DEFINE y == SonIn(H, v[1], d)
               w == <<y, Child(v[2], d)>>
    <3>5. (y = Null \/ (y \in DOMAIN H /\ Rank(y) < n)) /\ Child(v[2], d) \in Seq({0, 1})
      BY <3>1, <3>3, <3>4
    <3> HIDE DEF y
    <3>6. w \in LowCalls(H, n)
      BY <3>5 DEF LowCalls, Calls
    <3> HIDE DEF w, g
    <3>7. f[w] = g[w]
      BY <2>2, <3>6
    <3> QED  BY <3>7 DEF HalfOf, w, y
  <2>4. \A v \in LowCalls(H, n + 1) : WalkStep(H, P, base, f, v) = WalkStep(H, P, base, g, v)
    <3> HIDE DEF g
    <3> QED  BY <2>3 DEF WalkStep
  <2>5. g = [v \in LowCalls(H, n + 1) |-> WalkStep(H, P, base, g, v)]
    BY <2>4
  <2> HIDE DEF g
  <2>6. WalkRule(H, P, base, LowCalls(H, n + 1), g)
    BY <2>5 DEF WalkRule
  <2> QED  BY <2>6
<1>3. Bits + 1 \in Good
  <2>1. Nat \subseteq Good
    <3> HIDE DEF Good
    <3> QED  BY <1>1, <1>2, SetInduction
  <2> HIDE DEF Good
  <2> QED  BY <2>1, BitsIsNatural
<1>4. LowCalls(H, Bits + 1) = Calls(H)
  BY <1>b DEF LowCalls
<1> QED  BY <1>3, <1>4

\* What a walk leaves, if the calls that do not fork leave what they should.
LEMMA WalkYields ==
  ASSUME NEW H, NEW K, NEW pl, NEW s, Ordered(H, K, pl, s),
         NEW B, IsBagOfPoints(B), NEW C, IsBagOfPoints(C), NEW P, NEW base,
         NEW f, WalkRule(H, P, base, Calls(H), f),
         \A p \in Paths : \A x :
           At(K, pl, p, x) /\ ContentsIn(H, x) = Part(B, p) /\ ~Forks(H, P, <<x, p>>) =>
             \E M : Yields(H, base[<<x, p>>], M, pl, s, p, Part(C, p)),
         s = "built" => \A p \in Paths : BagCardinality(Part(B, p)) <= BagCardinality(Part(C, p))
  PROVE  \A p \in Paths : \A x :
           At(K, pl, p, x) /\ ContentsIn(H, x) = Part(B, p) =>
             \E M : Yields(H, f[<<x, p>>], M, pl, s, p, Part(C, p))
<1> DEFINE Right(p) == \A x : At(K, pl, p, x) /\ ContentsIn(H, x) = Part(B, p) =>
                         \E M : Yields(H, f[<<x, p>>], M, pl, s, p, Part(C, p))
           G == {p \in Paths : Right(p)}
<1>1. ASSUME NEW p \in Paths, Len(p) < Bits => \A d \in {0, 1} : Child(p, d) \in G
      PROVE  p \in G
  <2> SUFFICES ASSUME NEW x, At(K, pl, p, x), ContentsIn(H, x) = Part(B, p)
               PROVE  \E M : Yields(H, f[<<x, p>>], M, pl, s, p, Part(C, p))
    OBVIOUS
  <2> DEFINE v == <<x, p>>
  <2>1. v \in Calls(H)
    <3>1. x \in DOMAIN H \cup {Null} /\ p \in Seq({0, 1})
      BY PathTypes DEF At, Ordered
    <3> QED  BY <3>1 DEF Calls
  <2>2. f[v] = WalkStep(H, P, base, f, v)
    <3> HIDE DEF v
    <3> QED  BY <2>1 DEF WalkRule
  <2>3. CASE ~Forks(H, P, v)
    <3>1. f[v] = base[v]
      BY <2>2, <2>3 DEF WalkStep
    <3> QED  BY <2>3, <3>1
  <2>4. CASE Forks(H, P, v)
    <3>1. x # Null /\ ~H[x].leaf /\ x \in K /\ pl[x] = p
      BY <2>4 DEF Forks, At
    <3>2. /\ x \in DOMAIN H /\ x.at = p /\ Len(p) < Bits
          /\ \A d \in {0, 1} : /\ At(K, pl, Child(p, d), SonIn(H, x, d))
                               /\ ContentsIn(H, SonIn(H, x, d)) = Part(B, Child(p, d))
          /\ H[x].num_pts = BagCardinality(Part(B, p)) /\ (s = "built" => H[x].num_pts > LeafSize)
      BY <3>1, SonsInPlace
    <3> DEFINE half(d) == f[<<SonIn(H, x, d), Child(p, d)>>]
    <3>3. f[v] = Recount(H, x, half(0), half(1))
      BY <2>2, <2>4 DEF WalkStep, HalfOf
    <3>4. \A d \in {0, 1} : Right(Child(p, d))
      BY <1>1, <3>2
    <3>5. \A d \in {0, 1} : \E M : Yields(H, half(d), M, pl, s, Child(p, d), Part(C, Child(p, d)))
      BY <3>2, <3>4
    <3> HIDE DEF half, v
    <3>6. PICK K0 : Yields(H, half(0), K0, pl, s, Child(p, 0), Part(C, Child(p, 0)))
      BY <3>5
    <3>7. PICK K1 : Yields(H, half(1), K1, pl, s, Child(p, 1), Part(C, Child(p, 1)))
      BY <3>5
    <3>8. Part(C, p) = Part(C, Child(p, 0)) (+) Part(C, Child(p, 1))
      BY <3>2, PartsOfPart
    <3>9. ASSUME s = "built"
          PROVE  BagCardinality(Part(C, Child(p, 0))) + BagCardinality(Part(C, Child(p, 1))) > LeafSize
      <4>1. /\ IsBagOfPoints(Part(C, Child(p, 0))) /\ IsBagOfPoints(Part(C, Child(p, 1)))
            /\ IsBagOfPoints(Part(C, p)) /\ IsBagOfPoints(Part(B, p))
        BY PartOfBag
      <4>2. BagCardinality(Part(C, p)) =
              BagCardinality(Part(C, Child(p, 0))) + BagCardinality(Part(C, Child(p, 1)))
        BY <3>8, <4>1, SizeOfSum
      <4>3. BagCardinality(Part(C, p)) \in Nat /\ BagCardinality(Part(B, p)) \in Nat
        BY <4>1, SizeIsNumber
      <4>4. BagCardinality(Part(B, p)) <= BagCardinality(Part(C, p))
        BY <3>9
      <4> QED  BY <3>2, <3>9, <4>2, <4>3, <4>4, ConstantsAssumption
    <3>10. Yields(H, Recount(H, x, half(0), half(1)), K0 \cup K1 \cup {x}, pl, s, p,
                  Part(C, Child(p, 0)) (+) Part(C, Child(p, 1)))
      <4>1. SoundHeap(H)
        BY DEF Ordered
      <4> QED  BY <3>1, <3>2, <3>6, <3>7, <3>9, <4>1, RecountYields
    <3> QED  BY <3>3, <3>8, <3>10 DEF v
  <2> QED  BY <2>3, <2>4
<1>2. \A p \in Paths : p \in G
  <2> HIDE DEF G
  <2> QED  BY <1>1, PathInduction
<1> QED  BY <1>2

\* What batch_insert_sorted leaves where it does not go further down.
InsertBase(H, P, new) ==
  [v \in Calls(H) |->
     IF Part(P, v[2]) = EmptyBag THEN Left(v[1], NoNodes)
     ELSE IF v[1] = Null THEN Left(BuildAddress(new, v[2]), Build(Part(P, v[2]), v[2], new))
     ELSE IF FitsLeaf(BagCardinality(H[v[1]].records (+) Part(P, v[2])), v[2])
          THEN Left(v[1], One(v[1], Leaf(H[v[1]].records (+) Part(P, v[2]))))
     ELSE Left(BuildAddress(new, v[2]), Build(H[v[1]].records (+) Part(P, v[2]), v[2], new))]

\* ... and batch_delete_sorted.
DeleteBase(H, P) ==
  [v \in Calls(H) |->
     IF Part(P, v[2]) = EmptyBag \/ v[1] = Null THEN Left(v[1], NoNodes)
     ELSE Left(v[1], One(v[1], Leaf(H[v[1]].records (-) Part(P, v[2]))))]

\* batch_insert_sorted is such a walk ...
LEMMA InsertWalks ==
  ASSUME NEW H, SoundHeap(H), NEW P, NEW new, NEW root
  PROVE  \E f : /\ WalkRule(H, P, InsertBase(H, P, new), Calls(H), f)
                /\ BatchInsert(H, root, P, new) = f[<<root, << >>>>]
<1> DEFINE b == InsertBase(H, P, new)
           half(f, v, d) == f[<<SonIn(H, v[1], d), Child(v[2], d)>>]
           built(v, B) == Left(BuildAddress(new, v[2]), Build(B, v[2], new))
           merged(v) == H[v[1]].records (+) Part(P, v[2])
           step(v, f) ==
             IF Part(P, v[2]) = EmptyBag THEN Left(v[1], NoNodes)
             ELSE IF v[1] = Null THEN built(v, Part(P, v[2]))
             ELSE IF ~H[v[1]].leaf THEN Recount(H, v[1], half(f, v, 0), half(f, v, 1))
             ELSE IF FitsLeaf(BagCardinality(merged(v)), v[2])
                  THEN Left(v[1], One(v[1], Leaf(merged(v))))
             ELSE built(v, merged(v))
           R == CHOOSE f : f = [v \in (DOMAIN H \cup {Null}) \X Seq({0, 1}) |-> step(v, f)]
<1>1. BatchInsert(H, root, P, new) = R[<<root, << >>>>]
  BY DEF BatchInsert
<1>2. ASSUME NEW v \in Calls(H), NEW f  PROVE step(v, f) = WalkStep(H, P, b, f, v)
  <2>1. b[v] = IF Part(P, v[2]) = EmptyBag THEN Left(v[1], NoNodes)
               ELSE IF v[1] = Null THEN built(v, Part(P, v[2]))
               ELSE IF FitsLeaf(BagCardinality(merged(v)), v[2])
                    THEN Left(v[1], One(v[1], Leaf(merged(v))))
               ELSE built(v, merged(v))
    BY <1>2 DEF InsertBase
  <2>2. HalfOf(H, f, v, 0) = half(f, v, 0) /\ HalfOf(H, f, v, 1) = half(f, v, 1)
    BY DEF HalfOf
  <2> HIDE DEF b, half, built, merged
  <2> QED  BY <2>1, <2>2 DEF WalkStep, Forks
<1> HIDE DEF step, b
<1>3. \E f : f = [v \in Calls(H) |-> step(v, f)]
  <2>1. PICK f : WalkRule(H, P, b, Calls(H), f)
    BY WalkExists
  <2>2. f = [v \in Calls(H) |-> step(v, f)]
    BY <1>2, <2>1 DEF WalkRule
  <2> QED  BY <2>2
<1>4. R = [v \in Calls(H) |-> step(v, R)]
  BY <1>3 DEF Calls
<1> HIDE DEF R
<1>5. WalkRule(H, P, b, Calls(H), R)
  BY <1>2, <1>4 DEF WalkRule
<1> QED  BY <1>1, <1>5 DEF b

\* ... and so is batch_delete_sorted.
LEMMA DeleteWalks ==
  ASSUME NEW H, SoundHeap(H), NEW P, NEW root
  PROVE  \E f : /\ WalkRule(H, P, DeleteBase(H, P), Calls(H), f)
                /\ BatchDelete(H, root, P) = f[<<root, << >>>>]
<1> DEFINE b == DeleteBase(H, P)
           half(f, v, d) == f[<<SonIn(H, v[1], d), Child(v[2], d)>>]
           step(v, f) ==
             IF Part(P, v[2]) = EmptyBag \/ v[1] = Null THEN Left(v[1], NoNodes)
             ELSE IF ~H[v[1]].leaf THEN Recount(H, v[1], half(f, v, 0), half(f, v, 1))
             ELSE Left(v[1], One(v[1], Leaf(H[v[1]].records (-) Part(P, v[2]))))
           R == CHOOSE f : f = [v \in (DOMAIN H \cup {Null}) \X Seq({0, 1}) |-> step(v, f)]
<1>1. BatchDelete(H, root, P) = R[<<root, << >>>>]
  BY DEF BatchDelete
<1>2. ASSUME NEW v \in Calls(H), NEW f  PROVE step(v, f) = WalkStep(H, P, b, f, v)
  <2>1. b[v] = IF Part(P, v[2]) = EmptyBag \/ v[1] = Null THEN Left(v[1], NoNodes)
               ELSE Left(v[1], One(v[1], Leaf(H[v[1]].records (-) Part(P, v[2]))))
    BY <1>2 DEF DeleteBase
  <2>2. HalfOf(H, f, v, 0) = half(f, v, 0) /\ HalfOf(H, f, v, 1) = half(f, v, 1)
    BY DEF HalfOf
  <2> HIDE DEF b, half
  <2> QED  BY <2>1, <2>2 DEF WalkStep, Forks
<1> HIDE DEF step, b
<1>3. \E f : f = [v \in Calls(H) |-> step(v, f)]
  <2>1. PICK f : WalkRule(H, P, b, Calls(H), f)
    BY WalkExists
  <2>2. f = [v \in Calls(H) |-> step(v, f)]
    BY <1>2, <2>1 DEF WalkRule
  <2> QED  BY <2>2
<1>4. R = [v \in Calls(H) |-> step(v, R)]
  BY <1>3 DEF Calls
<1> HIDE DEF R
<1>5. WalkRule(H, P, b, Calls(H), R)
  BY <1>2, <1>4 DEF WalkRule
<1> QED  BY <1>1, <1>5 DEF b

\* Calls are made for nodes of the tree.
LEMMA CallsAreMade ==
  ASSUME NEW H, NEW K, NEW pl, NEW s, Ordered(H, K, pl, s),
         NEW p \in Paths, NEW x, At(K, pl, p, x)
  PROVE  <<x, p>> \in Calls(H) /\ <<x, p>>[1] = x /\ <<x, p>>[2] = p
<1>1. x \in DOMAIN H \cup {Null} /\ p \in Seq({0, 1})
  BY PathTypes DEF At, Ordered
<1> QED  BY <1>1 DEF Calls

\* What lies under a path is under it.
LEMMA PartsAreUnder ==
  ASSUME NEW B, NEW p
  PROVE  \A y \in DOMAIN Part(B, p) : Under(y, p)
BY DEF Part

\* batch_insert_sorted adds the batch, and keeps a tree as build would make it.
LEMMA InsertYields ==
  ASSUME NEW H, NEW K, NEW pl, NEW s, Ordered(H, K, pl, s),
         NEW root, At(K, pl, << >>, root), NEW P, IsBagOfPoints(P), NEW new \in Nat, Addressed(pl, new)
  PROVE  \E M : Yields(H, BatchInsert(H, root, P, new), M, pl, s, << >>, ContentsIn(H, root) (+) P)
<1> DEFINE B == ContentsIn(H, root)
           C == B (+) P
           b == InsertBase(H, P, new)
<1>1. SoundHeap(H)
  BY DEF Ordered
<1>2. IsBagOfPoints(B)
  BY ContentsInPlace DEF At
<1> HIDE DEF B
<1>3. IsBagOfPoints(C)
  BY <1>2, UnionOfBags
<1>4. \A p : /\ Part(C, p) = Part(B, p) (+) Part(P, p)
             /\ IsBagOfPoints(Part(B, p)) /\ IsBagOfPoints(Part(P, p)) /\ IsBagOfPoints(Part(C, p))
             /\ \A y \in DOMAIN Part(P, p) : Under(y, p)
             /\ \A y \in DOMAIN Part(C, p) : Under(y, p)
  BY <1>2, <1>3, PartOfSum, PartOfBag, PartsAreUnder
<1>5. PICK f : /\ WalkRule(H, P, b, Calls(H), f)
               /\ BatchInsert(H, root, P, new) = f[<<root, << >>>>]
  BY <1>1, InsertWalks
<1> HIDE DEF b, C
<1>6. ASSUME NEW p \in Paths, NEW x, At(K, pl, p, x), ContentsIn(H, x) = Part(B, p), ~Forks(H, P, <<x, p>>)
      PROVE  \E M : Yields(H, b[<<x, p>>], M, pl, s, p, Part(C, p))
  <2> DEFINE merged == H[x].records (+) Part(P, p)
  <2>1. <<x, p>> \in Calls(H) /\ <<x, p>>[1] = x /\ <<x, p>>[2] = p
    BY <1>6, CallsAreMade
  <2>2. b[<<x, p>>] = IF Part(P, p) = EmptyBag THEN Left(x, NoNodes)
                      ELSE IF x = Null THEN Left(BuildAddress(new, p), Build(Part(P, p), p, new))
                      ELSE IF FitsLeaf(BagCardinality(merged), p) THEN Left(x, One(x, Leaf(merged)))
                      ELSE Left(BuildAddress(new, p), Build(merged, p, new))
    BY <2>1 DEF b, InsertBase
  <2>3. CASE Part(P, p) = EmptyBag
    <3>1. Part(C, p) = Part(B, p)
      BY <1>4, <2>3, SumWithNothing
    <3> HIDE DEF merged
    <3>2. b[<<x, p>>] = Left(x, NoNodes)
      BY <2>2, <2>3
    <3>3. Yields(H, Left(x, NoNodes), {a \in K : Leads(p, pl[a])}, pl, s, p, Part(C, p))
      BY <1>6, <3>1, NothingWritten
    <3> QED  BY <3>2, <3>3
  <2>4. CASE Part(P, p) # EmptyBag /\ x = Null
    <3>1. Part(B, p) = EmptyBag
      BY <1>1, <1>6, <2>4, ContentsBelow
    <3>2. Part(C, p) = Part(P, p)
      BY <1>4, <3>1, SumWithNothing
    <3> HIDE DEF merged
    <3>3. b[<<x, p>>] = Left(BuildAddress(new, p), Build(Part(P, p), p, new))
      BY <2>2, <2>4
    <3>4. Yields(H, Left(BuildAddress(new, p), Build(Part(P, p), p, new)),
                 DOMAIN Build(Part(P, p), p, new), pl, s, p, Part(P, p))
      BY <1>1, <1>4, <2>4, TreeWritten
    <3> QED  BY <3>2, <3>3, <3>4
  <2>5. CASE Part(P, p) # EmptyBag /\ x # Null
    <3>1. x \in K /\ pl[x] = p /\ x \in DOMAIN H /\ H[x].leaf
      BY <1>6, <2>1, <2>5 DEF At, Forks, Ordered
    <3>2. merged = Part(C, p)
      BY <1>1, <1>4, <1>6, <3>1, ContentsBelow
    <3>3. Part(C, p) # EmptyBag
      <4>1. PICK y : y \in DOMAIN Part(P, p)
        BY <1>4, <2>5 DEF IsBagOfPoints, EmptyBag, SetToBag
      <4>2. y \in DOMAIN Part(C, p)
        BY <1>4, <4>1 DEF (+)
      <4> QED  BY <4>2 DEF EmptyBag, SetToBag
    <3> HIDE DEF merged
    <3>4. CASE FitsLeaf(BagCardinality(merged), p)
      <4>1. b[<<x, p>>] = Left(x, One(x, Leaf(Part(C, p))))
        BY <2>2, <2>5, <3>2, <3>4
      <4>2. LeafFits(Part(C, p), p)
        BY <1>4, <3>2, <3>3, <3>4 DEF LeafFits
      <4>3. Yields(H, Left(x, One(x, Leaf(Part(C, p)))), {x}, pl, s, p, Part(C, p))
        BY <1>4, <3>1, <4>2, LeafWritten
      <4> QED  BY <4>1, <4>3
    <3>5. CASE ~FitsLeaf(BagCardinality(merged), p)
      <4>1. b[<<x, p>>] = Left(BuildAddress(new, p), Build(Part(C, p), p, new))
        BY <2>2, <2>5, <3>2, <3>5
      <4>2. Yields(H, Left(BuildAddress(new, p), Build(Part(C, p), p, new)),
                   DOMAIN Build(Part(C, p), p, new), pl, s, p, Part(C, p))
        BY <1>1, <1>4, <3>3, TreeWritten
      <4> QED  BY <4>1, <4>2
    <3> QED  BY <3>4, <3>5
  <2> QED  BY <2>3, <2>4, <2>5
<1>7. \A p \in Paths : BagCardinality(Part(B, p)) <= BagCardinality(Part(C, p))
  <2> SUFFICES ASSUME NEW p \in Paths  PROVE BagCardinality(Part(B, p)) <= BagCardinality(Part(C, p))
    OBVIOUS
  <2>1. BagCardinality(Part(C, p)) = BagCardinality(Part(B, p)) + BagCardinality(Part(P, p))
    BY <1>4, SizeOfSum
  <2>2. BagCardinality(Part(B, p)) \in Nat /\ BagCardinality(Part(P, p)) \in Nat
    BY <1>4, SizeIsNumber
  <2> QED  BY <2>1, <2>2
<1>8. Part(B, << >>) = B /\ Part(C, << >>) = C
  BY <1>2, <1>3, PartAtTop
<1>9. \A p \in Paths : \A x : At(K, pl, p, x) /\ ContentsIn(H, x) = Part(B, p) =>
        \E M : Yields(H, f[<<x, p>>], M, pl, s, p, Part(C, p))
  BY <1>2, <1>3, <1>5, <1>6, <1>7, WalkYields
<1>10. \E M : Yields(H, f[<<root, << >>>>], M, pl, s, << >>, C)
  BY <1>8, <1>9, RootIsPath DEF B
<1> QED  BY <1>5, <1>10 DEF B, C

\* batch_delete_sorted takes the batch out, and leaves the tree as it is if that is empty.
LEMMA DeleteYields ==
  ASSUME NEW H, NEW K, NEW pl, NEW s, Ordered(H, K, pl, s),
         NEW root, At(K, pl, << >>, root), NEW P, IsBagOfPoints(P), s = "built" => P = EmptyBag
  PROVE  \E M : Yields(H, BatchDelete(H, root, P), M, pl, s, << >>, ContentsIn(H, root) (-) P)
<1> DEFINE B == ContentsIn(H, root)
           C == B (-) P
           b == DeleteBase(H, P)
<1>1. SoundHeap(H)
  BY DEF Ordered
<1>2. IsBagOfPoints(B)
  BY ContentsInPlace DEF At
<1> HIDE DEF B
<1>3. IsBagOfPoints(C)
  BY <1>2, DifferenceOfBags
<1>4. \A p : /\ Part(C, p) = Part(B, p) (-) Part(P, p)
             /\ IsBagOfPoints(Part(B, p)) /\ IsBagOfPoints(Part(P, p)) /\ IsBagOfPoints(Part(C, p))
             /\ \A y \in DOMAIN Part(C, p) : Under(y, p)
  BY <1>2, <1>3, PartOfDifference, PartOfBag, PartsAreUnder
<1>5. PICK f : /\ WalkRule(H, P, b, Calls(H), f)
               /\ BatchDelete(H, root, P) = f[<<root, << >>>>]
  BY <1>1, DeleteWalks
<1>6. s = "built" => C = B /\ \A p : Part(P, p) = EmptyBag
  <2>1. \A p : Part(EmptyBag, p) = EmptyBag
    BY DEF Part, EmptyBag, SetToBag
  <2> QED  BY <1>2, <2>1, SumWithNothing
<1> HIDE DEF b, C
<1>7. ASSUME NEW p \in Paths, NEW x, At(K, pl, p, x), ContentsIn(H, x) = Part(B, p), ~Forks(H, P, <<x, p>>)
      PROVE  \E M : Yields(H, b[<<x, p>>], M, pl, s, p, Part(C, p))
  <2>1. <<x, p>> \in Calls(H) /\ <<x, p>>[1] = x /\ <<x, p>>[2] = p
    BY <1>7, CallsAreMade
  <2>2. b[<<x, p>>] = IF Part(P, p) = EmptyBag \/ x = Null THEN Left(x, NoNodes)
                      ELSE Left(x, One(x, Leaf(H[x].records (-) Part(P, p))))
    BY <2>1 DEF b, DeleteBase
  <2>3. CASE Part(P, p) = EmptyBag \/ x = Null
    <3>1. Part(C, p) = Part(B, p)
      <4>1. x = Null => Part(B, p) = EmptyBag
        BY <1>1, <1>7, ContentsBelow
      <4> QED  BY <1>4, <2>3, <4>1, SumWithNothing
    <3>2. b[<<x, p>>] = Left(x, NoNodes)
      BY <2>2, <2>3
    <3>3. Yields(H, Left(x, NoNodes), {a \in K : Leads(p, pl[a])}, pl, s, p, Part(C, p))
      BY <1>7, <3>1, NothingWritten
    <3> QED  BY <3>2, <3>3
  <2>4. CASE Part(P, p) # EmptyBag /\ x # Null
    <3>1. x \in K /\ pl[x] = p /\ x \in DOMAIN H /\ H[x].leaf
      BY <1>7, <2>1, <2>4 DEF At, Forks, Ordered
    <3>2. H[x].records (-) Part(P, p) = Part(C, p)
      BY <1>1, <1>4, <1>7, <3>1, ContentsBelow
    <3>3. b[<<x, p>>] = Left(x, One(x, Leaf(Part(C, p))))
      BY <2>2, <2>4, <3>2
    <3>4. Yields(H, Left(x, One(x, Leaf(Part(C, p)))), {x}, pl, s, p, Part(C, p))
      BY <1>4, <1>6, <2>4, <3>1, LeafWritten
    <3> QED  BY <3>3, <3>4
  <2> QED  BY <2>3, <2>4
<1>8. s = "built" => \A p \in Paths : BagCardinality(Part(B, p)) <= BagCardinality(Part(C, p))
  BY <1>4, <1>6, SizeIsNumber
<1>9. Part(B, << >>) = B /\ Part(C, << >>) = C
  BY <1>2, <1>3, PartAtTop
<1>10. \A p \in Paths : \A x : At(K, pl, p, x) /\ ContentsIn(H, x) = Part(B, p) =>
         \E M : Yields(H, f[<<x, p>>], M, pl, s, p, Part(C, p))
  BY <1>2, <1>3, <1>5, <1>7, <1>8, WalkYields
<1>11. \E M : Yields(H, f[<<root, << >>>>], M, pl, s, << >>, C)
  BY <1>9, <1>10, RootIsPath DEF B
<1> QED  BY <1>5, <1>11 DEF B, C

\* Counted, one level of it.
LEMMA CountedBelow ==
  ASSUME NEW H, SoundHeap(H)
  PROVE  /\ Counted(H, Null)
         /\ \A a \in DOMAIN H :
              \/ H[a].leaf
              \/ /\ H[a].num_pts = BagCardinality(PointsIn(H, a))
                 /\ Counted(H, H[a].l_son) /\ Counted(H, H[a].r_son)
              => Counted(H, a)
<1> DEFINE D == DOMAIN H \cup {Null}
           V == BOOLEAN
           rank == [x \in D |-> IF x = Null THEN 0 ELSE 1 + Rank(x)]
           step(x, f) == \/ x = Null
                         \/ H[x].leaf
                         \/ /\ H[x].num_pts = BagCardinality(PointsIn(H, x))
                            /\ f[H[x].l_son] /\ f[H[x].r_son]
           Compute == [vf \in D \X [D -> V] |-> step(vf[1], vf[2])]
           R == CHOOSE f : f = [x \in D |-> step(x, f)]
<1>1. \A x : Counted(H, x) = R[x]
  BY DEF Counted
<1>2. \A x \in DOMAIN H : /\ x # Null /\ Rank(x) \in Nat
                          /\ ~H[x].leaf => \A t \in {H[x].l_son, H[x].r_son} :
                                             t # Null => t \in DOMAIN H /\ Rank(t) \in Nat /\ Rank(t) < Rank(x)
  BY RanksFall
<1>3. ASSUME NEW x \in D, x # Null, ~H[x].leaf, NEW t \in {H[x].l_son, H[x].r_son}
      PROVE  t \in D /\ rank[t] < rank[x]
  <2>1. CASE t = Null
    BY <1>2, <1>3, <2>1
  <2>2. CASE t # Null
    BY <1>2, <1>3, <2>2
  <2> QED  BY <2>1, <2>2
<1>4. ASSUME NEW x \in D, NEW g, NEW h, \A w \in D : rank[w] < rank[x] => g[w] = h[w]
      PROVE  step(x, g) = step(x, h)
  <2>1. CASE x # Null /\ ~H[x].leaf
    <3>1. g[H[x].l_son] = h[H[x].l_son] /\ g[H[x].r_son] = h[H[x].r_son]
      <4> HIDE DEF D, rank
      <4> QED  BY <1>3, <1>4, <2>1
    <3> HIDE DEF D, rank
    <3> QED  BY <3>1
  <2>2. CASE x = Null \/ H[x].leaf
    <3> HIDE DEF D, rank
    <3> QED  BY <2>2
  <2> QED  BY <2>1, <2>2
<1>5. rank \in [D -> Nat] /\ V # {}
  <2>1. \A x \in D : rank[x] \in Nat
    BY <1>2
  <2>2. V # {}
    OBVIOUS
  <2> QED  BY <2>1, <2>2
<1> HIDE DEF D, V, rank, step
<1>6. CallsLower(D, V, rank, Compute)
  <2>0. \A v \in D, f \in [D -> V] : step(v, f) \in V
    BY DEF step, V
  <2>1. \A v \in D, f \in [D -> V] : Compute[<<v, f>>] = step(v, f) /\ step(v, f) \in V
    BY <2>0
  <2>2. Compute \in [D \X [D -> V] -> V]
    BY <2>1
  <2> HIDE DEF Compute
  <2> QED  BY <1>4, <1>5, <2>1, <2>2 DEF CallsLower
<1>7. PICK f \in [D -> V] : \A v \in D : f[v] = Compute[<<v, f>>]
  <2> HIDE DEF Compute
  <2> QED  BY <1>6, RecursionEnds
<1>8. f = [v \in D |-> step(v, f)]
  BY <1>7
<1>9. R = [v \in D |-> step(v, R)]
  BY <1>8
<1> HIDE DEF R
<1>10. \A x \in D : R[x] = step(x, R)
  BY <1>9
<1>11. ASSUME NEW x \in D, step(x, R)  PROVE Counted(H, x)
  BY <1>1, <1>10, <1>11
<1>12. Counted(H, Null)
  <2>1. Null \in D /\ step(Null, R)
    BY DEF D, step
  <2> QED  BY <1>11, <2>1
<1>13. ASSUME NEW a \in DOMAIN H,
              \/ H[a].leaf
              \/ /\ H[a].num_pts = BagCardinality(PointsIn(H, a))
                 /\ Counted(H, H[a].l_son) /\ Counted(H, H[a].r_son)
       PROVE  Counted(H, a)
  <2>1. a \in D
    BY DEF D
  <2>2. CASE H[a].leaf
    <3>1. step(a, R)
      BY <2>2 DEF step
    <3> QED  BY <1>11, <2>1, <3>1
  <2>3. CASE ~H[a].leaf
    <3>1. R[H[a].l_son] /\ R[H[a].r_son]
      BY <1>1, <1>13, <2>3
    <3>2. step(a, R)
      BY <1>13, <2>3, <3>1 DEF step
    <3> QED  BY <1>11, <2>1, <3>2
  <2> QED  BY <2>2, <2>3
<1> QED  BY <1>12, <1>13

\* In a tree that is in order every inner node counts what lies below.
LEMMA InPlaceIsCounted ==
  ASSUME NEW H, NEW K, NEW pl, NEW s, Ordered(H, K, pl, s)
  PROVE  \A a \in K \cup {Null} : Counted(H, a)
<1> DEFINE G == {p \in Paths : \A a \in K : pl[a] = p => Counted(H, a)}
<1>0. SoundHeap(H)
  BY DEF Ordered
<1>1. ASSUME NEW p \in Paths, Len(p) < Bits => \A d \in {0, 1} : Child(p, d) \in G
      PROVE  p \in G
  <2> SUFFICES ASSUME NEW a \in K, pl[a] = p  PROVE Counted(H, a)
    OBVIOUS
  <2>1. a \in DOMAIN H /\ InPlace(H, K, pl, s, a)
    BY DEF Ordered
  <2>2. CASE H[a].leaf
    BY <1>0, <2>1, <2>2, CountedBelow
  <2>3. CASE ~H[a].leaf
    <3>1. Len(p) < Bits /\ H[a].num_pts = BagCardinality(ContentsIn(H, a))
      BY <2>1, <2>3 DEF InPlace
    <3>2. ASSUME NEW d \in {0, 1}  PROVE Counted(H, SonIn(H, a, d))
      <4>1. CASE SonIn(H, a, d) = Null
        BY <1>0, <4>1, CountedBelow
      <4>2. CASE SonIn(H, a, d) # Null
        <5>1. SonIn(H, a, d) \in K /\ pl[SonIn(H, a, d)] = Child(p, d)
          BY <2>1, <2>3, <4>2 DEF InPlace
        <5> QED  BY <1>1, <3>1, <5>1
      <4> QED  BY <4>1, <4>2
    <3>3. Counted(H, H[a].l_son) /\ Counted(H, H[a].r_son)
      <4>1. SonIn(H, a, 0) = H[a].l_son /\ SonIn(H, a, 1) = H[a].r_son
        BY DEF SonIn
      <4> QED  BY <3>2, <4>1
    <3>4. PointsIn(H, a) = ContentsIn(H, a)
      BY DEF PointsIn, ContentsIn
    <3> QED  BY <1>0, <2>1, <3>1, <3>3, <3>4, CountedBelow
  <2> QED  BY <2>2, <2>3
<1>2. \A p \in Paths : p \in G
  <2> HIDE DEF G
  <2> QED  BY <1>1, PathInduction
<1>3. \A a \in K : pl[a] \in Paths
  BY DEF Ordered, InPlace
<1>4. Counted(H, Null)
  BY <1>0, CountedBelow
<1> QED  BY <1>2, <1>3, <1>4

\* A tree that is in order as build would make it is the one that build makes.
LEMMA InPlaceIsAsBuilt ==
  ASSUME NEW H, NEW K, NEW pl, NEW s, s = "built", Ordered(H, K, pl, s), NEW B, IsBagOfPoints(B)
  PROVE  \A q \in BuildPaths(B, << >>) : \A a \in K :
           pl[a] = q /\ ContentsIn(H, a) = Part(B, q)
             => Shape(H, a) = Shape(Build(B, << >>, 0), BuildAddress(0, q))
<1> DEFINE N == Build(B, << >>, 0)
           Alike(q) == \A a \in K : pl[a] = q /\ ContentsIn(H, a) = Part(B, q)
                         => Shape(H, a) = Shape(N, BuildAddress(0, q))
           G == {q \in Paths : q \in BuildPaths(B, << >>) => Alike(q)}
<1>s. SoundHeap(H) /\ SoundHeap(N)
  BY BuildIsSoundHeap DEF Ordered
<1>1. ASSUME NEW q \in Paths, Len(q) < Bits => \A d \in {0, 1} : Child(q, d) \in G
      PROVE  q \in G
  <2> SUFFICES ASSUME q \in BuildPaths(B, << >>), NEW a \in K, pl[a] = q, ContentsIn(H, a) = Part(B, q)
               PROVE  Shape(H, a) = Shape(N, BuildAddress(0, q))
    OBVIOUS
  <2> DEFINE C == Part(B, q)
             b == BuildAddress(0, q)
             son == [d \in {0, 1} |-> IF Part(B, Child(q, d)) # EmptyBag
                                      THEN BuildAddress(0, Child(q, d)) ELSE Null]
  <2>1. /\ b \in DOMAIN N
        /\ FitsLeaf(BagCardinality(C), q) => N[b] = Leaf(C) /\ N[b].leaf
        /\ ~FitsLeaf(BagCardinality(C), q) =>
             N[b] = Inte(son[0], son[1], BagCardinality(C)) /\ ~N[b].leaf
    <3>1. \A x \in DOMAIN B : Under(x, << >>)
      BY DEF Under
    <3> QED  BY <3>1, BuildNodes, RootIsPath
  <2>2. a \in DOMAIN H /\ InPlace(H, K, pl, s, a)
    BY DEF Ordered
  <2> HIDE DEF N, b, son, C
  <2>3. CASE H[a].leaf
    <3>1. H[a].records = C /\ FitsLeaf(BagCardinality(C), q)
      BY <1>s, <2>2, <2>3, ContentsBelow DEF InPlace, LeafFits, C
    <3>2. N[b].leaf /\ N[b].records = C
      BY <2>1, <3>1 DEF Leaf
    <3>3. Shape(H, a) = <<C>> /\ Shape(N, b) = <<C>>
      BY <1>s, <2>1, <2>2, <2>3, <3>1, <3>2, ShapeBelow
    <3> QED  BY <3>3 DEF b
  <2>4. CASE ~H[a].leaf
    <3>1. /\ Len(q) < Bits
          /\ \A d \in {0, 1} : /\ At(K, pl, Child(q, d), SonIn(H, a, d))
                               /\ ContentsIn(H, SonIn(H, a, d)) = Part(B, Child(q, d))
          /\ H[a].num_pts = BagCardinality(C) /\ H[a].num_pts > LeafSize
      <4>1. ContentsIn(H, a) = Part(B, q) /\ q = pl[a]
        OBVIOUS
      <4>2. /\ Len(q) < Bits
            /\ \A d \in {0, 1} : /\ At(K, pl, Child(q, d), SonIn(H, a, d))
                                 /\ ContentsIn(H, SonIn(H, a, d)) = Part(B, Child(q, d))
            /\ H[a].num_pts = BagCardinality(Part(B, q)) /\ (s = "built" => H[a].num_pts > LeafSize)
        BY <2>4, <4>1, SonsInPlace
      <4> QED  BY <4>2 DEF C
    <3>2. ~FitsLeaf(BagCardinality(C), q)
      <4>1. IsBagOfPoints(C)
        BY PartOfBag DEF C
      <4> QED  BY <3>1, <4>1, SizeIsNumber, PathTypes, ConstantsAssumption DEF FitsLeaf
    <3>3. ~N[b].leaf /\ N[b].l_son = son[0] /\ N[b].r_son = son[1] /\ N[b].num_pts = BagCardinality(C)
      BY <2>1, <3>2 DEF Inte
    <3>4. ASSUME NEW d \in {0, 1}  PROVE Shape(H, SonIn(H, a, d)) = Shape(N, son[d])
      <4> DEFINE t == SonIn(H, a, d)
      <4>1. Child(q, d) \in Paths /\ Child(q, d) # << >>
        BY <3>1, ChildrenOfPath
      <4>2. At(K, pl, Child(q, d), t) /\ ContentsIn(H, t) = Part(B, Child(q, d))
        BY <3>1
      <4> HIDE DEF t
      <4>3. CASE t = Null
        <5>1. Part(B, Child(q, d)) = EmptyBag
          BY <1>s, <4>2, <4>3, ContentsBelow
        <5>2. son[d] = Null
          BY <5>1 DEF son
        <5> QED  BY <1>s, <4>3, <5>2, ShapeBelow DEF t
      <4>4. CASE t # Null
        <5>1. t \in K /\ pl[t] = Child(q, d) /\ t \in DOMAIN H /\ InPlace(H, K, pl, s, t)
          BY <4>2, <4>4 DEF At, Ordered
        <5>2. Part(B, Child(q, d)) # EmptyBag
          <6>1. CASE H[t].leaf
            BY <1>s, <4>1, <4>2, <5>1, <6>1, ContentsBelow DEF InPlace, LeafFits
          <6>2. CASE ~H[t].leaf
            <7>1. BagCardinality(Part(B, Child(q, d))) > LeafSize
              BY <4>2, <5>1, <6>2 DEF InPlace
            <7> QED  BY <7>1, SizeOfNothing, ConstantsAssumption
          <6> QED  BY <6>1, <6>2
        <5>3. son[d] = BuildAddress(0, Child(q, d))
          BY <5>2 DEF son
        <5>4. Child(q, d) \in BuildPaths(B, << >>)
          BY <3>2, <5>2, BuildSons, RootIsPath DEF C
        <5>5. Alike(Child(q, d))
          BY <1>1, <3>1, <5>4
        <5>6. Shape(H, t) = Shape(N, BuildAddress(0, Child(q, d)))
          BY <4>2, <5>1, <5>5
        <5> QED  BY <5>3, <5>6 DEF t
      <4> QED  BY <4>3, <4>4
    <3>5. SonIn(H, a, 0) = H[a].l_son /\ SonIn(H, a, 1) = H[a].r_son
      BY DEF SonIn
    <3>6. Shape(H, a) = <<H[a].num_pts, Shape(H, H[a].l_son), Shape(H, H[a].r_son)>>
      BY <1>s, <2>2, <2>4, ShapeBelow
    <3>7. Shape(N, b) = <<N[b].num_pts, Shape(N, N[b].l_son), Shape(N, N[b].r_son)>>
      BY <1>s, <2>1, <3>3, ShapeBelow
    <3>8. Shape(H, a) = Shape(N, b)
      BY <3>1, <3>3, <3>4, <3>5, <3>6, <3>7
    <3> QED  BY <3>8 DEF b
  <2> QED  BY <2>3, <2>4
<1>2. \A q \in Paths : q \in G
  <2> HIDE DEF G
  <2> QED  BY <1>1, PathInduction
<1>3. \A q \in BuildPaths(B, << >>) : q \in Paths
  BY DEF BuildPaths
<1> QED  BY <1>2, <1>3

-----------------------------------------------------------------------------
(* The tree that an update starts from.                                    *)

\* What holds at the root, and with a path also for its children, holds for all paths.
LEMMA DownInduction ==
  ASSUME NEW G, << >> \in G,
         \A p \in Paths, d \in {0, 1} : p \in G /\ Len(p) < Bits => Child(p, d) \in G
  PROVE  \A p \in Paths : p \in G
<1> DEFINE Bad == {Len(p) : p \in {s \in Paths : s \notin G}}
<1> SUFFICES ASSUME Bad # {}  PROVE FALSE
  OBVIOUS
<1>1. PICK m \in Bad : \A k \in Bad : m <= k
  <2>1. Bad \in SUBSET Nat
    BY PathTypes
  <2> HIDE DEF Bad
  <2> QED  BY <2>1, SmallestElement
<1>2. PICK q \in Paths : m = Len(q) /\ q \notin G
  BY <1>1
<1> DEFINE p == Parent(q)
           d == q[Len(q)]
<1>3. /\ p \in Paths /\ Len(p) < Bits /\ d \in {0, 1} /\ q = Child(p, d)
      /\ Len(p) \in Nat /\ Len(q) = Len(p) + 1
  BY <1>2, ParentOfPath, ChildrenArePaths, PathTypes
<1> HIDE DEF p, d
<1>4. p \notin G => Len(p) \in Bad
  BY <1>3
<1> HIDE DEF Bad
<1>5. p \in G
  BY <1>1, <1>2, <1>3, <1>4
<1> QED  BY <1>2, <1>3, <1>5

\* Every node of a version was made for a place at or below the one where it hangs.
LEMMA TreeIsHigh ==
  ASSUME IInv, NEW v \in DOMAIN versions
  PROVE  \A q \in Paths : Tree({}, v)[q] # Null =>
           Tree({}, v)[q] \in DOMAIN heap /\ Len(q) <= Len(Tree({}, v)[q].at)
<1> DEFINE T == Tree({}, v)
           High(q) == T[q] # Null => T[q] \in DOMAIN heap /\ Len(q) <= Len(T[q].at)
           G == {q \in Paths : High(q)}
<1>0. \A a \in DOMAIN heap : Len(a.at) \in Nat
  BY HeapIsSound, BitsIsNatural DEF SoundHeap
<1>1. << >> \in G
  <2>1. T[<< >>] = versions[v]
    BY TreeTop DEF Pointer
  <2>2. T[<< >>] # Null => T[<< >>] \in DOMAIN heap
    BY <2>1 DEF IInv, NoDanglingReference, Referenced
  <2>3. << >> \in Paths /\ Len(<< >>) = 0
    BY RootIsPath
  <2> HIDE DEF T
  <2>4. Len(T[<< >>].at) \in Nat => 0 <= Len(T[<< >>].at)
    OBVIOUS
  <2> QED  BY <1>0, <2>2, <2>3, <2>4
<1>2. ASSUME NEW p \in Paths, NEW d \in {0, 1}, p \in G, Len(p) < Bits  PROVE Child(p, d) \in G
  <2>1. Child(p, d) \in Paths /\ Len(Child(p, d)) = Len(p) + 1 /\ Len(p) \in Nat
    BY <1>2, ChildrenOfPath, PathTypes
  <2>2. T[Child(p, d)] = IF T[p] \notin Inner THEN Null ELSE Pointer({}, <<T[p], d>>)
    BY <1>2, TreeBelow
  <2>3. High(p)
    BY <1>2
  <2> HIDE DEF T
  <2>4. CASE T[p] \in Inner
    <3>1. T[p] # Null /\ T[p] \in DOMAIN heap /\ T[Child(p, d)] = Son(T[p], d)
      BY <2>2, <2>4, CellsLead
    <3>2. Son(T[p], d) # Null => Son(T[p], d) \in DOMAIN heap /\ Len(Son(T[p], d).at) > Len(T[p].at)
      BY <2>4 DEF IInv, NoDanglingReference, Referenced, Depths
    <3> DEFINE a == T[p]
               b == T[Child(p, d)]
    <3>3. Len(p) <= Len(a.at) /\ Len(a.at) \in Nat
      BY <1>0, <2>3, <3>1
    <3>4. b # Null => b \in DOMAIN heap /\ Len(b.at) > Len(a.at) /\ Len(b.at) \in Nat
      BY <1>0, <3>1, <3>2
    <3> HIDE DEF a, b
    <3>5. b # Null => b \in DOMAIN heap /\ Len(p) + 1 <= Len(b.at)
      BY <2>1, <3>3, <3>4
    <3> QED  BY <2>1, <3>5 DEF b
  <2>5. CASE T[p] \notin Inner
    BY <2>1, <2>2, <2>5
  <2> QED  BY <2>4, <2>5
<1>3. \A q \in Paths : q \in G
  <2> HIDE DEF G
  <2> QED  BY <1>1, <1>2, DownInduction
<1> QED  BY <1>3

\* Nothing hangs below what is not an inner node.
LEMMA TreeStops ==
  ASSUME IInv, NEW v \in DOMAIN versions, NEW p \in Paths, Tree({}, v)[p] \notin Inner
  PROVE  \A q \in Paths : Leads(p, q) /\ q # p => Tree({}, v)[q] = Null
<1> DEFINE T == Tree({}, v)
           Stops(q) == Leads(p, q) /\ q # p => T[q] = Null
           G == {q \in Paths : Stops(q)}
<1>0. Null \notin Inner /\ T[p] \notin Inner
  BY CellsLead
<1>1. << >> \in G
  <2>1. Leads(p, << >>) => p = << >>
    BY LeadsBothWays, RootIsPath, PathTypes
  <2> QED  BY <2>1, RootIsPath
<1>2. ASSUME NEW r \in Paths, NEW d \in {0, 1}, r \in G, Len(r) < Bits  PROVE Child(r, d) \in G
  <2>1. Child(r, d) \in Paths /\ Child(r, d) \in Children(r)
    BY <1>2, ChildrenOfPath
  <2>2. T[Child(r, d)] = IF T[r] \notin Inner THEN Null ELSE Pointer({}, <<T[r], d>>)
    BY <1>2, TreeBelow
  <2>3. Leads(p, Child(r, d)) => Child(r, d) = p \/ Leads(p, r)
    BY <2>1, LeadsToChild
  <2>4. Stops(r)
    BY <1>2
  <2> HIDE DEF T
  <2> QED  BY <1>0, <2>1, <2>2, <2>3, <2>4
<1>3. \A q \in Paths : q \in G
  <2> HIDE DEF G
  <2> QED  BY <1>1, <1>2, DownInduction
<1> QED  BY <1>3

\* A node hangs at one place of a version.
LEMMA OnePlace ==
  ASSUME IInv, CInv, NEW v \in DOMAIN versions, NEW p \in Paths, NEW q \in Paths,
         Tree({}, v)[p] = Tree({}, v)[q], Tree({}, v)[p] # Null
  PROVE  p = q
<1> DEFINE T == Tree({}, v)
<1>1. T[p] = T[q] /\ T[p] # Null /\ T[p] \in DOMAIN heap
  BY TreeIsHigh
<1>2. Fits(T[p], p) /\ Fits(T[q], q)
  BY TreeFits
<1>3. \A r \in {p, q} : T[r] \notin Inner => \A t \in Paths : Leads(r, t) /\ t # r => T[t] = Null
  BY TreeStops
<1> HIDE DEF T
<1>4. CASE heap[T[p]].leaf
  <2>1. T[p] \notin Inner /\ T[q] \notin Inner
    BY <1>1, <1>4 DEF Inner
  <2>2. Leads(p, q) => p = q
    BY <1>1, <1>3, <2>1
  <2>3. Leads(q, p) => p = q
    BY <1>1, <1>3, <2>1
  <2>4. CASE p = << >> \/ q = << >>
    BY <2>2, <2>3, <2>4, LeadsTrivially
  <2>5. CASE p # << >> /\ q # << >>
    <3> DEFINE E == heap[T[p]].records
    <3>1. E # EmptyBag /\ (\A x \in DOMAIN E : Under(x, p)) /\ \A x \in DOMAIN E : Under(x, q)
      BY <1>1, <1>2, <1>4, <2>5 DEF Fits, LeafFits
    <3>2. IsBagOfPoints(E)
      BY <1>1, <1>4, LeafRecordsAreBags
    <3> HIDE DEF E
    <3>3. PICK x : x \in DOMAIN E
      BY <3>1, <3>2 DEF IsBagOfPoints, EmptyBag, SetToBag
    <3>4. Under(x, p) /\ Under(x, q)
      BY <3>1, <3>3
    <3>5. /\ \A i \in 1..Len(p) : x.code[i] = p[i]
          /\ \A i \in 1..Len(q) : x.code[i] = q[i]
      <4>1. DOMAIN p = 1..Len(p) /\ DOMAIN q = 1..Len(q)
        BY PathTypes
      <4> QED  BY <3>4, <4>1 DEF Under
    <3>6. Leads(p, q) \/ Leads(q, p)
      <4>1. Len(p) \in Nat /\ Len(q) \in Nat
        BY PathTypes
      <4> QED  BY <3>5, <4>1 DEF Leads
    <3> QED  BY <2>2, <2>3, <3>6
  <2> QED  BY <2>4, <2>5
<1>5. CASE ~heap[T[p]].leaf
  BY <1>1, <1>2, <1>5 DEF Fits
<1> QED  BY <1>4, <1>5

\* The nodes of a version and where they hang; every other address hangs where it was made.
TreeNodes(v) == {Tree({}, v)[q] : q \in Paths} \ {Null}
Places(v) == [a \in Address |->
                IF a \in TreeNodes(v) THEN CHOOSE q \in Paths : Tree({}, v)[q] = a ELSE a.at]

LEMMA TreeInPlace ==
  ASSUME IInv, CInv, NEW v \in DOMAIN versions
  PROVE  /\ Ordered(heap, TreeNodes(v), Places(v), "built")
         /\ At(TreeNodes(v), Places(v), << >>, versions[v])
         /\ Addressed(Places(v), commits + 1)
<1> DEFINE T == Tree({}, v)
           K == TreeNodes(v)
           pl == Places(v)
<1>1. ASSUME NEW q \in Paths, T[q] # Null
      PROVE  T[q] \in K /\ T[q] \in Address /\ T[q] \in DOMAIN heap /\ pl[T[q]] = q
  <2>1. T[q] \in DOMAIN heap
    BY <1>1, TreeIsHigh
  <2>2. T[q] \in Address
    BY <2>1 DEF IInv, TypeOK
  <2>3. T[q] \in K
    BY <1>1 DEF TreeNodes
  <2>4. pl[T[q]] = CHOOSE r \in Paths : T[r] = T[q]
    BY <2>2, <2>3 DEF Places
  <2>5. \A r \in Paths : T[r] = T[q] => r = q
    BY <1>1, OnePlace
  <2> HIDE DEF T, pl
  <2>6. (CHOOSE r \in Paths : T[r] = T[q]) = q
    BY <2>5
  <2> QED  BY <2>1, <2>2, <2>3, <2>4, <2>6
<1>2. ASSUME NEW a \in K  PROVE \E q \in Paths : T[q] = a /\ a # Null
  BY <1>2 DEF TreeNodes
<1>3. K \subseteq DOMAIN heap
  BY <1>1, <1>2
<1>4. ASSUME NEW a \in K  PROVE InPlace(heap, K, pl, "built", a)
  <2>1. PICK q \in Paths : T[q] = a /\ a # Null
    BY <1>2, <1>4
  <2>2. pl[a] = q /\ a \in DOMAIN heap
    BY <1>1, <2>1
  <2>3. Len(q) <= Len(a.at) /\ Fits(a, q)
    BY <2>1, TreeIsHigh, TreeFits
  <2>4. CASE heap[a].leaf
    <3>1. LeafFits(heap[a].records, q)
      BY <2>1, <2>3, <2>4 DEF Fits
    <3> HIDE DEF pl, K
    <3> QED  BY <2>2, <2>3, <2>4, <3>1 DEF InPlace, LeafFits
  <2>5. CASE ~heap[a].leaf
    <3>1. a \in Inner /\ a.at = q /\ Len(q) < Bits
      BY <2>1, <2>2, <2>3, <2>5, DownFits DEF Inner, Fits, CInv
    <3>2. NodeFits(a)
      BY <2>1, <2>3 DEF Fits, CInv, NodesFit
    <3>3. heap[a].num_pts = BagCardinality(ContentsIn(heap, a)) /\ heap[a].num_pts > LeafSize
      BY <2>5, <3>2, ContentsNow DEF NodeFits
    <3>4. ASSUME NEW d \in {0, 1}, SonIn(heap, a, d) # Null
          PROVE  SonIn(heap, a, d) \in K /\ pl[SonIn(heap, a, d)] = Child(q, d)
      <4>0. T[Child(q, d)] = IF T[q] \notin Inner THEN Null ELSE Pointer({}, <<T[q], d>>)
        BY <3>1, TreeBelow
      <4>1. T[Child(q, d)] = Son(a, d)
        <5> HIDE DEF T
        <5> QED  BY <2>1, <3>1, <4>0, CellsLead
      <4>2. SonIn(heap, a, d) = Son(a, d)
        BY DEF SonIn, Son
      <4>3. Child(q, d) \in Paths
        BY <3>1, ChildrenOfPath
      <4> HIDE DEF T, K, pl
      <4> QED  BY <1>1, <3>4, <4>1, <4>2, <4>3
    <3> HIDE DEF pl, K
    <3> QED  BY <2>2, <2>3, <2>5, <3>1, <3>3, <3>4 DEF InPlace
  <2> QED  BY <2>4, <2>5
<1>5. Ordered(heap, K, pl, "built")
  <2>1. SoundHeap(heap)
    BY HeapIsSound
  <2> HIDE DEF K, pl
  <2> QED  BY <1>3, <1>4, <2>1 DEF Ordered
<1>6. At(K, pl, << >>, versions[v])
  <2>1. T[<< >>] = versions[v]
    BY TreeTop DEF Pointer
  <2> HIDE DEF T, K, pl
  <2> QED  BY <1>1, <2>1, RootIsPath DEF At
<1>7. Addressed(pl, commits + 1)
  <2> SUFFICES ASSUME NEW q \in Paths  PROVE pl[BuildAddress(commits + 1, q)] = q
    BY DEF Addressed
  <2> DEFINE a == BuildAddress(commits + 1, q)
  <2>1. a \in Address /\ a.at = q /\ a.owner = commits + 1 /\ commits \in Nat
    BY ConstantsAssumption DEF BuildAddress, Address, IInv, TypeOK
  <2> HIDE DEF a
  <2>2. a \notin DOMAIN heap
    BY <2>1 DEF IInv, JobsDiffer, TypeOK, Address
  <2>3. a \notin TreeNodes(v)
    BY <1>3, <2>2
  <2>4. Places(v)[a] = a.at
    BY <2>1, <2>3 DEF Places
  <2> QED  BY <2>1, <2>4 DEF a
<1> QED  BY <1>5, <1>6, <1>7

\* Whatever batches are deleted and inserted in place, the tree holds what it should and
\* its counts are right; if nothing was deleted it is the tree that build would make.
THEOREM InPlaceUpdatesAlwaysExact == Spec => []InPlaceUpdatesAreExact
<1>1. IInv /\ CInv => InPlaceUpdatesAreExact
  <2> SUFFICES ASSUME IInv, CInv, NEW v \in DOMAIN versions, NEW P \in Batches, NEW Q \in Batches
               PROVE  LET D == BatchDelete(heap, versions[v], P)
                          G == Store(heap, D.nodes)
                          I == BatchInsert(G, D.x, Q, commits + 1)
                          S == Store(G, I.nodes)
                          B == (Contents(versions[v]) (-) P) (+) Q
                      IN  /\ PointsIn(S, I.x) = B /\ Counted(S, I.x)
                          /\ P = EmptyBag /\ I.x # Null =>
                               Shape(S, I.x) = Shape(Build(B, << >>, 0), BuildAddress(0, << >>))
    BY DEF InPlaceUpdatesAreExact
  <2> DEFINE K == TreeNodes(v)
             pl == Places(v)
             s == IF P = EmptyBag THEN "built" ELSE "changed"
             A == Contents(versions[v])
             D == BatchDelete(heap, versions[v], P)
             G == Store(heap, D.nodes)
             I == BatchInsert(G, D.x, Q, commits + 1)
             S == Store(G, I.nodes)
             B == (A (-) P) (+) Q
  <2>1. Ordered(heap, K, pl, "built") /\ At(K, pl, << >>, versions[v]) /\ Addressed(pl, commits + 1)
    BY TreeInPlace
  <2>2. IsBagOfPoints(P) /\ IsBagOfPoints(Q) /\ commits + 1 \in Nat
    BY ConstantsAssumption DEF IInv, TypeOK
  <2>3. ContentsIn(heap, versions[v]) = A
    BY ContentsNow
  <2> HIDE DEF K, pl, A
  <2>4. PICK M : Yields(heap, D, M, pl, s, << >>, A (-) P)
    <3>1. Ordered(heap, K, pl, s)
      BY <2>1 DEF Ordered, InPlace
    <3>2. s = "built" => P = EmptyBag
      OBVIOUS
    <3> HIDE DEF s, D
    <3> QED  BY <2>1, <2>2, <2>3, <3>1, <3>2, DeleteYields DEF D
  <2>5. Ordered(G, M, pl, s) /\ At(M, pl, << >>, D.x) /\ ContentsIn(G, D.x) = A (-) P
    BY <2>4 DEF Yields
  <2> HIDE DEF s, D, G
  <2>6. PICK N : Yields(G, I, N, pl, s, << >>, (A (-) P) (+) Q)
    <3>1. \E N : Yields(G, I, N, pl, s, << >>, ContentsIn(G, D.x) (+) Q)
      BY <2>1, <2>2, <2>5, InsertYields
    <3> QED  BY <2>5, <3>1
  <2>7. Ordered(S, N, pl, s) /\ At(N, pl, << >>, I.x) /\ ContentsIn(S, I.x) = B
    BY <2>6 DEF Yields
  <2> HIDE DEF I, S, B
  <2>8. PointsIn(S, I.x) = B
    BY <2>7 DEF PointsIn, ContentsIn
  <2>9. Counted(S, I.x)
    BY <2>2, <2>7, InPlaceIsCounted DEF At
  <2>10. ASSUME P = EmptyBag, I.x # Null
         PROVE  Shape(S, I.x) = Shape(Build(B, << >>, 0), BuildAddress(0, << >>))
    <3>1. s = "built"
      BY <2>10 DEF s
    <3>2. IsBagOfPoints(B)
      BY <2>2, <2>7, ContentsInPlace DEF At
    <3>3. Part(B, << >>) = B /\ << >> \in BuildPaths(B, << >>)
      BY <3>2, PartAtTop, RootIsPath DEF BuildPaths
    <3>4. I.x \in N /\ pl[I.x] = << >>
      BY <2>7, <2>10 DEF At
    <3>5. \A a \in N : pl[a] = << >> /\ ContentsIn(S, a) = Part(B, << >>)
            => Shape(S, a) = Shape(Build(B, << >>, 0), BuildAddress(0, << >>))
      BY <2>2, <2>7, <3>1, <3>2, <3>3, InPlaceIsAsBuilt
    <3> QED  BY <2>7, <3>3, <3>4, <3>5
  <2> QED  BY <2>8, <2>9, <2>10 DEF s, A, D, G, I, S, B
<1> QED  BY <1>1, CInvHolds, PTL
=============================================================================
