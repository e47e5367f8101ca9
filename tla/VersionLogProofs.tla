-------------------------- MODULE VersionLogProofs --------------------------
(***************************************************************************)
(* Theorems about VersionLog and PkdLog, for any values, any threshold and *)
(* trees of versions of any size: what a version shows, how long a log     *)
(* gets, what the diff of two versions says, and what a compaction of      *)
(* PKDLog keeps.                                                           *)
(***************************************************************************)
EXTENDS PkdLog, VersionNodesProofs, SequenceTheorems

-----------------------------------------------------------------------------
(* The inductive invariant.                                                *)

Occurrences == Values \X Nat
VNodes == [parent : Nat, depth : Nat, inserts : SUBSET Values, removes : SUBSET Values,
           cached : BOOLEAN, base : SUBSET Occurrences, size : Nat, log : Nat]

TypeOK == /\ nodes \in Seq(VNodes) /\ content \in Seq(SUBSET Occurrences)
          /\ Len(nodes) > 0 /\ Len(content) = Len(nodes)

\* The first node is the one of map_init; all others hang below older ones.
IsTree(N) == \A n \in 1..Len(N) : IF n = 1 THEN N[n].cached /\ N[n].parent = 0
                                  ELSE N[n].parent \in 1..n - 1

\* An occurrence of a version was inserted by then.
Dated == \A n \in 1..Len(nodes) : content[n] \subseteq Values \X (1..n)

\* What a walk removes, the version or an ancestor has held: no fresh id is among them.
RemovedWereUsed(N) == \A n \in 1..Len(nodes) : RemovedOn(N, n) \subseteq Used(n)

Changes(N, n) == {m \in Path(N, n) \X Values : m[2] \in N[m[1]].inserts \cup N[m[1]].removes}
Bounded(N, n) == /\ N[n].log = Cardinality(Changes(N, n)) /\ IsFiniteSet(Changes(N, n))
                 /\ N[n].size = Cardinality(N[BaseNode(N, n)].base)
                 /\ N[n].cached \/ N[n].log * Den < Num * N[n].size

IInv == /\ TypeOK /\ IsTree(nodes) /\ Dated
        /\ ViewsAreExact /\ RemovedWereUsed(nodes)
        /\ \A n \in 1..Len(nodes) : Bounded(nodes, n)

-----------------------------------------------------------------------------
(* The ids that were used on the way to a version.                         *)

HeldIds(C, m) == {o[1].id : o \in C[m]}
UsedIn(N, C, v) == LET used[m \in 1..Len(N)] ==
                         HeldIds(C, m) \cup (IF N[m].parent = 0 THEN {} ELSE used[N[m].parent])
                   IN  used[v]
UsedRule(N, C, f) == f = [m \in 1..Len(N) |-> HeldIds(C, m) \cup
                                (IF N[m].parent = 0 THEN {} ELSE f[N[m].parent])]

\* Used, of the nodes and contents that are there.
LEMMA UsedNow == \A v : Used(v) = UsedIn(nodes, content, v)
BY DEF Used, UsedIn, HeldIds

\* What a history has used is what the version holds and what the parent's has used.
LEMMA UsedStep ==
  ASSUME NEW N, NEW C, Len(N) \in Nat, IsTree(N), NEW v \in 1..Len(N)
  PROVE  UsedIn(N, C, v) =
           HeldIds(C, v) \cup (IF N[v].parent = 0 THEN {} ELSE UsedIn(N, C, N[v].parent))
<1> DEFINE O == [m \in 1..Len(N) |-> [cached |-> N[m].parent = 0, parent |-> N[m].parent]]
           g == [m \in 1..Len(N) |-> UNION {HeldIds(C, k) : k \in Path(O, m) \cup {BaseNode(O, m)}}]
<1>1. \A m \in 1..Len(N) : (O[m].cached <=> N[m].parent = 0) /\ O[m].parent = N[m].parent
  OBVIOUS
<1>2. \A m \in 1..Len(N) : N[m].parent = 0 \/ N[m].parent \in 1..m - 1
  BY DEF IsTree
<1> HIDE DEF O
<1>3. \A m \in 1..Len(N) : Rooted(O, m)
  BY <1>1, <1>2 DEF Rooted
<1>4. ASSUME NEW m \in 1..Len(N)
      PROVE  g[m] = HeldIds(C, m) \cup (IF N[m].parent = 0 THEN {} ELSE g[N[m].parent])
  <2>1. m \in Nat \ {0}
    OBVIOUS
  <2>2. /\ Path(O, m) = IF O[m].cached THEN {} ELSE {m} \cup Path(O, O[m].parent)
        /\ BaseNode(O, m) = IF O[m].cached THEN m ELSE BaseNode(O, O[m].parent)
    BY <1>3, <2>1, WalkStep
  <2>3. CASE N[m].parent = 0
    <3>1. Path(O, m) \cup {BaseNode(O, m)} = {m}
      BY <1>1, <2>2, <2>3
    <3> QED  BY <2>3, <3>1
  <2>4. CASE N[m].parent # 0
    <3>1. PICK p \in 1..Len(N) : p = N[m].parent
      BY <1>2, <2>4
    <3>2. Path(O, m) \cup {BaseNode(O, m)} = {m} \cup (Path(O, p) \cup {BaseNode(O, p)})
      BY <1>1, <2>2, <2>4, <3>1
    <3>3. g[m] = HeldIds(C, m) \cup g[p]
      BY <3>2
    <3> QED  BY <2>4, <3>1, <3>3
  <2> QED  BY <2>3, <2>4
<1>5. UsedRule(N, C, g)
  <2>1. g = [m \in 1..Len(N) |-> g[m]]
    OBVIOUS
  <2> HIDE DEF g
  <2> QED  BY <1>4, <2>1 DEF UsedRule
<1> DEFINE u == CHOOSE f : UsedRule(N, C, f)
<1>6. UsedRule(N, C, u)
  <2> HIDE DEF g
  <2> QED  BY <1>5
<1>7. \A k : UsedIn(N, C, k) = u[k]
  BY DEF UsedIn, UsedRule
<1> HIDE DEF u
<1> QED  BY <1>6, <1>7 DEF UsedRule

\* The first versions of M and D are those of N and C.
Longer(N, C, M, D) ==
  /\ Len(N) \in Nat /\ Len(M) \in Nat /\ Len(N) <= Len(M) /\ IsTree(N) /\ IsTree(M)
  /\ \A m \in 1..Len(N) : M[m].parent = N[m].parent /\ D[m] = C[m]

\* A version that is added changes nothing about the others.
LEMMA UsedStays ==
  ASSUME NEW N, NEW C, NEW M, NEW D, Longer(N, C, M, D), NEW v \in 1..Len(N)
  PROVE  UsedIn(M, D, v) = UsedIn(N, C, v)
<1> USE DEF Longer
<1> PICK K \in Nat : K = Len(N)
  OBVIOUS
<1> DEFINE Bad == {m \in 1..K : UsedIn(M, D, m) # UsedIn(N, C, m)}
<1> SUFFICES ASSUME Bad # {}  PROVE FALSE
  OBVIOUS
<1>1. PICK m \in Bad : \A k \in Bad : m <= k
  <2>1. Bad \in SUBSET Nat
    OBVIOUS
  <2> HIDE DEF Bad
  <2> QED  BY <2>1, SmallestElement
<1>2. m \in 1..K /\ UsedIn(M, D, m) # UsedIn(N, C, m)
  OBVIOUS
<1>3. \A k \in 1..m - 1 : UsedIn(M, D, k) = UsedIn(N, C, k)
  BY <1>1
<1>4. N[m].parent = 0 \/ N[m].parent \in 1..m - 1
  BY <1>2 DEF IsTree
<1>5. UsedIn(N, C, m) =
        HeldIds(C, m) \cup (IF N[m].parent = 0 THEN {} ELSE UsedIn(N, C, N[m].parent))
  BY <1>2, UsedStep
<1>6. UsedIn(M, D, m) =
        HeldIds(C, m) \cup (IF N[m].parent = 0 THEN {} ELSE UsedIn(M, D, N[m].parent))
  <2>1. m \in 1..Len(M)
    BY <1>2
  <2>2. UsedIn(M, D, m) =
          HeldIds(D, m) \cup (IF M[m].parent = 0 THEN {} ELSE UsedIn(M, D, M[m].parent))
    BY <2>1, UsedStep
  <2>3. HeldIds(D, m) = HeldIds(C, m) /\ M[m].parent = N[m].parent
    BY <1>2 DEF HeldIds
  <2> QED  BY <2>2, <2>3
<1> QED  BY <1>2, <1>3, <1>4, <1>5, <1>6

-----------------------------------------------------------------------------
(* A node is added.                                                        *)

\* A tree of versions has its root first.
LEMMA TreeIsRooted ==
  ASSUME NEW N, Len(N) \in Nat, IsTree(N), NEW K \in 0..Len(N)
  PROVE  Rooted(N, K)
BY DEF IsTree, Rooted

\* What map_insert and map_delete append.
LEMMA NewNode ==
  ASSUME NEW N \in Seq(VNodes), Len(N) > 0, IsTree(N), NEW v \in 1..Len(N),
         NEW ins \in SUBSET Values, NEW rem \in SUBSET Values
  PROVE  LET M == Append(N, Node(N, v, ins, rem))
         IN  /\ NodeAdded(M, Len(N) + 1, N, v, ins, rem)
             /\ M \in Seq(VNodes) /\ IsTree(M)
<1> DEFINE x == Node(N, v, ins, rem)
           M == Append(N, x)
<1>1. IsFiniteSet(ins) /\ IsFiniteSet(rem)
  BY LogAssumption, FS_Subset DEF LogAssumption
<1>2. Cardinality(ins) \in Nat /\ Cardinality(rem) \in Nat
  BY <1>1, FS_CardinalityType
<1>3. N[v] \in VNodes /\ Len(N) \in Nat
  BY ElementOfSeq
<1>4. N[v].depth \in Nat /\ N[v].size \in Nat /\ N[v].log \in Nat
  BY <1>3 DEF VNodes
<1>5. x \in VNodes
  <2>1. /\ v \in Nat /\ N[v].depth + 1 \in Nat
        /\ N[v].log + Cardinality(ins) + Cardinality(rem) \in Nat
    BY <1>2, <1>3, <1>4
  <2> QED  BY <1>4, <2>1 DEF Node, VNodes
<1>6. x.parent = v
  BY DEF Node
<1> HIDE DEF x
<1>7. /\ M \in Seq(VNodes) /\ Len(M) = Len(N) + 1
      /\ \A m \in 1..Len(N) : M[m] = N[m]
      /\ M[Len(N) + 1] = x
  BY <1>5, AppendProperties
<1> HIDE DEF M
<1>8. IsTree(M)
  <2>1. ASSUME NEW m \in 1..Len(N) + 1
        PROVE  IF m = 1 THEN M[m].cached /\ M[m].parent = 0 ELSE M[m].parent \in 1..m - 1
    <3>1. CASE m = Len(N) + 1
      BY <1>3, <1>6, <1>7, <3>1
    <3>2. CASE m \in 1..Len(N)
      <4>1. M[m] = N[m]
        BY <1>7, <3>2
      <4>2. IF m = 1 THEN N[m].cached /\ N[m].parent = 0 ELSE N[m].parent \in 1..m - 1
        BY <3>2 DEF IsTree
      <4> QED  BY <4>1, <4>2
    <3> QED  BY <1>3, <3>1, <3>2
  <2> QED  BY <1>7, <2>1 DEF IsTree
<1>9. Rooted(N, Len(N))
  BY <1>3, TreeIsRooted
<1>10. DOMAIN M = 1..Len(N) + 1 /\ (Len(N) + 1) - 1 = Len(N)
  BY <1>3, <1>7
<1>11. NodeAdded(M, Len(N) + 1, N, v, ins, rem)
  BY <1>3, <1>7, <1>9, <1>10 DEF x, NodeAdded
<1> QED  BY <1>7, <1>8, <1>11 DEF x, M

\* A set of occurrences that are dated is finite.
LEMMA DatedIsFinite ==
  ASSUME NEW n \in Nat, NEW occ \in SUBSET (Values \X (1..n))
  PROVE  IsFiniteSet(occ) /\ Cardinality(occ) \in Nat /\ occ \in SUBSET Occurrences
<1>1. IsFiniteSet(Values) /\ IsFiniteSet(1..n)
  BY LogAssumption, FS_Interval DEF LogAssumption
<1>2. IsFiniteSet(Values \X (1..n))
  BY <1>1, FS_Product
<1>3. IsFiniteSet(occ) /\ Cardinality(occ) \in Nat
  BY <1>2, FS_Subset, FS_CardinalityType
<1>4. Values \X (1..n) \subseteq Occurrences
  BY DEF Occurrences
<1> QED  BY <1>3, <1>4

\* cumulative_log_size counts the changes on the walk.
LEMMA ChangesOfNode ==
  ASSUME NEW M, NEW n, NEW N, NEW v, NEW ins \in SUBSET Values, NEW rem \in SUBSET Values,
         NodeAdded(M, n, N, v, ins, rem), ins = {} \/ rem = {}, IsFiniteSet(Changes(N, v))
  PROVE  /\ IsFiniteSet(Changes(M, n))
         /\ Cardinality(Changes(M, n)) =
              Cardinality(Changes(N, v)) + Cardinality(ins) + Cardinality(rem)
<1>1. /\ Path(M, n) = {n} \cup Path(N, v) /\ n \notin Path(N, v)
      /\ \A m \in Path(N, v) : m \in 1..n - 1
  <2>1. Path(M, n) = {n} \cup Path(N, v) /\ Path(N, v) \subseteq 1..v
    BY WalkOfNode
  <2>2. n \in Nat /\ v \in 1..n - 1
    BY DEF NodeAdded
  <2> QED  BY <2>1, <2>2
<1>2. M[n].inserts = ins /\ M[n].removes = rem
  BY DEF NodeAdded, Node
<1> DEFINE new == {n} \X (ins \cup rem)
<1>3. Changes(M, n) = Changes(N, v) \cup new
  <2>1. ASSUME NEW m \in Path(M, n) \X Values,
               m[2] \in M[m[1]].inserts \cup M[m[1]].removes
        PROVE  m \in Changes(N, v) \cup new
    <3>1. CASE m[1] = n
      BY <1>2, <2>1, <3>1
    <3>2. CASE m[1] # n
      <4>1. m[1] \in Path(N, v) /\ m[1] \in 1..n - 1
        BY <1>1, <3>2
      <4>2. M[m[1]] = N[m[1]] /\ m \in Path(N, v) \X Values
        BY <4>1 DEF NodeAdded
      <4> QED  BY <2>1, <4>2 DEF Changes
    <3> QED  BY <3>1, <3>2
  <2>2. ASSUME NEW m \in new  PROVE m \in Changes(M, n)
    BY <1>1, <1>2 DEF Changes
  <2>3. ASSUME NEW m \in Changes(N, v)  PROVE m \in Changes(M, n)
    <3>1. m \in Path(N, v) \X Values /\ m[2] \in N[m[1]].inserts \cup N[m[1]].removes
      BY DEF Changes
    <3>2. m[1] \in 1..n - 1 /\ m \in Path(M, n) \X Values
      BY <1>1, <3>1
    <3>3. M[m[1]] = N[m[1]]
      BY <3>2 DEF NodeAdded
    <3> QED  BY <3>1, <3>2, <3>3 DEF Changes
  <2>4. Changes(M, n) \subseteq Changes(N, v) \cup new
    BY <2>1 DEF Changes
  <2> QED  BY <2>2, <2>3, <2>4
<1>4. Changes(N, v) \cap new = {}
  BY <1>1 DEF Changes
<1>5. IsFiniteSet(ins) /\ IsFiniteSet(rem) /\ IsFiniteSet(ins \cup rem)
  BY LogAssumption, FS_Subset DEF LogAssumption
<1>6. Cardinality(ins \cup rem) = Cardinality(ins) + Cardinality(rem)
  <2>1. Cardinality(ins) \in Nat /\ Cardinality(rem) \in Nat /\ Cardinality({}) = 0
    BY <1>5, FS_CardinalityType, FS_EmptySet
  <2>2. CASE ins = {}
    <3>1. ins \cup rem = rem
      BY <2>2
    <3> QED  BY <2>1, <2>2, <3>1
  <2>3. CASE rem = {}
    <3>1. ins \cup rem = ins
      BY <2>3
    <3> QED  BY <2>1, <2>3, <3>1
  <2> QED  BY <2>2, <2>3
<1>7. IsFiniteSet(new) /\ Cardinality(new) = Cardinality(ins \cup rem)
  <2>1. IsFiniteSet({n}) /\ Cardinality({n}) = 1
    BY FS_Singleton
  <2>2. IsFiniteSet(new) /\ Cardinality(new) = 1 * Cardinality(ins \cup rem)
    BY <1>5, <2>1, FS_Product
  <2>3. Cardinality(ins \cup rem) \in Nat
    BY <1>5, FS_CardinalityType
  <2> QED  BY <2>2, <2>3
<1> HIDE DEF new
<1>8. /\ IsFiniteSet(Changes(N, v) \cup new)
      /\ Cardinality(Changes(N, v) \cup new) =
           Cardinality(Changes(N, v)) + Cardinality(new) - Cardinality(Changes(N, v) \cap new)
  BY <1>7, FS_Union
<1>9. Cardinality(Changes(N, v) \cap new) = 0
  BY <1>4, FS_EmptySet
<1>10. /\ Cardinality(Changes(N, v)) \in Nat /\ Cardinality(ins) \in Nat
       /\ Cardinality(rem) \in Nat
  BY <1>5, FS_CardinalityType
<1>11. Cardinality(Changes(M, n)) = Cardinality(Changes(N, v)) + Cardinality(ins \cup rem) - 0
  BY <1>3, <1>7, <1>8, <1>9
<1>12. Cardinality(Changes(M, n)) =
         Cardinality(Changes(N, v)) + Cardinality(ins) + Cardinality(rem)
  BY <1>6, <1>10, <1>11
<1>13. IsFiniteSet(Changes(M, n))
  BY <1>3, <1>8
<1> QED  BY <1>12, <1>13

-----------------------------------------------------------------------------
(* The steps of VersionLog.                                                *)

\* What check_compact makes of the new node, seen from outside.
LEMMA Compacted ==
  ASSUME NEW M \in Seq(VNodes), NEW n, NEW N, NEW v, NEW ins, NEW rem,
         NodeAdded(M, n, N, v, ins, rem), IsTree(M), View(M, n) \in SUBSET (Values \X (1..n))
  PROVE  LET P == CheckCompact(M)
         IN  /\ P \in Seq(VNodes) /\ Len(P) = n /\ IsTree(P)
             /\ \A m \in 1..n - 1 : P[m] = M[m]
             /\ P[n].parent = v /\ P[n].depth = N[v].depth + 1
             /\ P[n].inserts = ins /\ P[n].removes = rem
             /\ View(P, n) = View(M, n) /\ RemovedOn(P, n) \subseteq RemovedOn(M, n)
             /\ \/ P = M /\ M[n].log * Den < Num * M[n].size
                \/ /\ P[n].cached /\ P[n].base = View(M, n) /\ P[n].log = 0
                   /\ P[n].size = Cardinality(View(M, n))
<1> DEFINE live == View(M, n)
           b == BaseOf(N, v, ins, rem, live, Cardinality(live))
<1>1. n \in Nat /\ v \in 1..n - 1 /\ Len(M) = n /\ M[n] = Node(N, v, ins, rem)
  BY DEF NodeAdded
<1>2. PICK P : P = CheckCompact(M)
  OBVIOUS
<1>3. /\ View(P, n) = live /\ RemovedOn(P, n) \subseteq RemovedOn(M, n)
      /\ \/ P = M /\ ~(M[n].log * Den >= Num * M[n].size)
         \/ P = [M EXCEPT ![n] = b]
  BY <1>2, CompactionShowsTheSame
<1>4. M[n] \in VNodes
  BY <1>1, ElementOfSeq
<1>5. Cardinality(live) \in Nat /\ live \in SUBSET Occurrences
  <2>1. live \in SUBSET (Values \X (1..n)) /\ n \in Nat
    BY <1>1
  <2> HIDE DEF live
  <2> QED  BY <2>1, DatedIsFinite
<1> HIDE DEF live
<1>6. CASE P = M /\ ~(M[n].log * Den >= Num * M[n].size)
  <2>1. M[n].log \in Nat /\ M[n].size \in Nat
    BY <1>4 DEF VNodes
  <2>2. M[n].log * Den \in Int /\ Num * M[n].size \in Int
    BY <2>1, ThresholdAssumption DEF ThresholdAssumption
  <2>3. M[n].log * Den < Num * M[n].size
    BY <1>6, <2>2
  <2>4. /\ P[n].parent = v /\ P[n].depth = N[v].depth + 1
        /\ P[n].inserts = ins /\ P[n].removes = rem
    BY <1>1, <1>6 DEF Node
  <2>5. P \in Seq(VNodes) /\ Len(P) = n /\ IsTree(P) /\ \A m \in 1..n - 1 : P[m] = M[m]
    BY <1>1, <1>6
  <2> QED  BY <1>2, <1>3, <1>6, <2>3, <2>4, <2>5 DEF live
<1>7. CASE P = [M EXCEPT ![n] = b]
  <2>1. /\ v \in Nat /\ N[v].depth + 1 \in Nat
        /\ ins \in SUBSET Values /\ rem \in SUBSET Values
    BY <1>1, <1>4, SMTT(30) DEF VNodes, Node
  <2>2. b \in VNodes
    BY <1>5, <2>1 DEF BaseOf, VNodes
  <2>3. /\ b.cached /\ b.base = live /\ b.log = 0 /\ b.size = Cardinality(live)
        /\ b.parent = v /\ b.depth = N[v].depth + 1 /\ b.inserts = ins /\ b.removes = rem
    BY DEF BaseOf
  <2> HIDE DEF b
  <2>4. /\ P \in Seq(VNodes) /\ Len(P) = n
        /\ \A j \in 1..n : P[j] = IF j = n THEN b ELSE M[j]
    BY <1>1, <1>7, <2>2, ExceptSeq
  <2>5. P[n] = b /\ \A m \in 1..n - 1 : P[m] = M[m]
    BY <1>1, <2>4
  <2>6. IsTree(P)
    <3>1. ASSUME NEW m \in 1..n
          PROVE  IF m = 1 THEN P[m].cached /\ P[m].parent = 0 ELSE P[m].parent \in 1..m - 1
      <4>1. CASE m = n
        BY <1>1, <2>3, <2>5, <4>1
      <4>2. CASE m \in 1..n - 1
        <5>1. IF m = 1 THEN M[m].cached /\ M[m].parent = 0 ELSE M[m].parent \in 1..m - 1
          BY <1>1, <4>2 DEF IsTree
        <5> QED  BY <1>1, <2>5, <4>2, <5>1
      <4> QED  BY <1>1, <4>1, <4>2
    <3> QED  BY <2>4, <3>1 DEF IsTree
  <2> QED  BY <1>2, <1>3, <2>3, <2>4, <2>5, <2>6 DEF live
<1> QED  BY <1>3, <1>6, <1>7

\* What map_insert and map_delete have in common: a version below v, with changes
\* that fit what v was.
Adds(v, ins, rem) ==
  /\ v \in 1..Len(nodes) /\ ins \in SUBSET Values /\ rem \in SUBSET Values
  /\ ins = {} \/ rem = {}
  /\ IdsOf(ins) \cap Used(v) = {} /\ IdsOf(rem) \subseteq Used(v)
  /\ nodes' = CheckCompact(Append(nodes, Node(nodes, v, ins, rem)))
  /\ content' = Append(content, Without(content[v], IdsOf(rem))
                                  \cup OccurrencesOf(ins, Len(nodes) + 1))

\* Such a version preserves the invariant, and has its parent's used ids.
LEMMA Grow ==
  ASSUME IInv, NEW v, NEW ins, NEW rem, Adds(v, ins, rem)
  PROVE  /\ IInv'
         /\ \A m \in 1..Len(nodes) : UsedIn(nodes', content', m) = Used(m)
         /\ Used(v) \subseteq UsedIn(nodes', content', Len(nodes) + 1)
<1> USE DEF Adds
<1>1. PICK n, M, C : /\ n = Len(nodes) + 1
                     /\ M = Append(nodes, Node(nodes, v, ins, rem))
                     /\ C = Without(content[v], IdsOf(rem)) \cup OccurrencesOf(ins, n)
  OBVIOUS
<1>2. /\ nodes \in Seq(VNodes) /\ content \in Seq(SUBSET Occurrences)
      /\ n \in Nat /\ Len(nodes) = n - 1 /\ Len(content) = n - 1 /\ Len(nodes) > 0
      /\ IsTree(nodes) /\ v \in 1..n - 1 /\ \A m \in 1..n : m \in 1..n - 1 \/ m = n
  <2>1. /\ nodes \in Seq(VNodes) /\ content \in Seq(SUBSET Occurrences)
        /\ Len(content) = Len(nodes) /\ Len(nodes) > 0 /\ IsTree(nodes)
    BY DEF IInv, TypeOK
  <2>2. Len(nodes) \in Nat
    BY <2>1
  <2> QED  BY <1>1, <2>1, <2>2
<1>3. /\ NodeAdded(M, n, nodes, v, ins, rem) /\ M \in Seq(VNodes) /\ IsTree(M)
      /\ Rooted(nodes, n - 1) /\ \A m \in 1..n - 1 : M[m] = nodes[m]
      /\ M[n] = Node(nodes, v, ins, rem)
  <2>1. NodeAdded(M, n, nodes, v, ins, rem) /\ M \in Seq(VNodes) /\ IsTree(M)
    BY <1>1, <1>2, NewNode
  <2> QED  BY <2>1 DEF NodeAdded
<1>4. View(M, n) = C /\ RemovedOn(M, n) = RemovedOn(nodes, v) \cup IdsOf(rem)
  <2>1. NodeAdded(M, n, nodes, v, ins, rem)
    BY <1>3
  <2>2. /\ RemovedOn(M, n) = RemovedOn(nodes, v) \cup IdsOf(rem)
        /\ View(M, n) = Without(View(nodes, v), IdsOf(rem))
                          \cup Without(OccurrencesOf(ins, n), RemovedOn(nodes, v) \cup IdsOf(rem))
    <3>1. RemovedOn(M, n) = RemovedOn(nodes, v) \cup IdsOf(rem)
      BY <2>1, RemovedOnNode
    <3>2. View(M, n) = Without(View(nodes, v), IdsOf(rem))
                         \cup Without(OccurrencesOf(ins, n), RemovedOn(nodes, v) \cup IdsOf(rem))
      BY <2>1, ViewOfNode
    <3> QED  BY <3>1, <3>2
  <2>3. View(nodes, v) = content[v] /\ RemovedOn(nodes, v) \subseteq Used(v)
    BY <1>2 DEF IInv, ViewsAreExact, RemovedWereUsed
  <2>4. Without(OccurrencesOf(ins, n), RemovedOn(nodes, v) \cup IdsOf(rem)) = OccurrencesOf(ins, n)
    BY <2>3 DEF Without, OccurrencesOf, IdsOf
  <2> QED  BY <1>1, <2>2, <2>3, <2>4
<1>5. C \subseteq Values \X (1..n)
  <2>1. content[v] \subseteq Values \X (1..v)
    BY <1>2 DEF IInv, Dated
  <2> QED  BY <1>1, <1>2, <2>1 DEF Without, OccurrencesOf
<1>6. C \in SUBSET Occurrences
  <2>1. C \in SUBSET (Values \X (1..n)) /\ n \in Nat
    BY <1>2, <1>5
  <2> QED  BY <2>1, DatedIsFinite
<1>7. PICK P : P = nodes'
  OBVIOUS
<1>8. /\ P \in Seq(VNodes) /\ Len(P) = n /\ IsTree(P)
      /\ \A m \in 1..n - 1 : P[m] = nodes[m]
      /\ P[n].parent = v
      /\ View(P, n) = C /\ RemovedOn(P, n) \subseteq RemovedOn(nodes, v) \cup IdsOf(rem)
      /\ \/ P = M /\ M[n].log * Den < Num * M[n].size
         \/ P[n].cached /\ P[n].base = C /\ P[n].log = 0 /\ P[n].size = Cardinality(C)
  <2>1. P = CheckCompact(M)
    BY <1>1, <1>7
  <2>2. View(M, n) \in SUBSET (Values \X (1..n))
    BY <1>4, <1>5
  <2>3. /\ P \in Seq(VNodes) /\ Len(P) = n /\ IsTree(P)
        /\ \A m \in 1..n - 1 : P[m] = M[m]
        /\ P[n].parent = v
        /\ View(P, n) = View(M, n) /\ RemovedOn(P, n) \subseteq RemovedOn(M, n)
        /\ \/ P = M /\ M[n].log * Den < Num * M[n].size
           \/ /\ P[n].cached /\ P[n].base = View(M, n) /\ P[n].log = 0
              /\ P[n].size = Cardinality(View(M, n))
    BY <1>3, <2>1, <2>2, Compacted
  <2> QED  BY <1>3, <1>4, <2>3
<1>9. PICK D : D = content'
  OBVIOUS
<1>10. /\ D \in Seq(SUBSET Occurrences) /\ Len(D) = n
       /\ \A m \in 1..n - 1 : D[m] = content[m]
       /\ D[n] = C
  <2>1. D = Append(content, C)
    BY <1>1, <1>9
  <2> QED  BY <1>2, <1>6, <2>1, AppendProperties
<1>11. n - 1 \in Nat /\ \A m \in 1..n : m \in 1..n - 1 \/ m = n
  BY <1>2
<1>12. \A m \in 1..n - 1 :
         /\ Path(P, m) = Path(nodes, m) /\ BaseNode(P, m) = BaseNode(nodes, m)
         /\ View(P, m) = View(nodes, m) /\ RemovedOn(P, m) = RemovedOn(nodes, m)
  <2>1. \A m \in 1..n - 1 : Path(P, m) = Path(nodes, m) /\ BaseNode(P, m) = BaseNode(nodes, m)
    BY <1>3, <1>8, <1>11, WalksStay, SMTT(30)
  <2>2. \A m \in 1..n - 1 : View(P, m) = View(nodes, m) /\ RemovedOn(P, m) = RemovedOn(nodes, m)
    BY <1>3, <1>8, <1>11, ViewsStay, SMTT(30)
  <2> QED  BY <2>1, <2>2
<1>13. TypeOK'
  BY <1>2, <1>7, <1>8, <1>9, <1>10 DEF TypeOK
<1>14. IsTree(nodes)' /\ Dated'
  <2>1. \A m \in 1..n : D[m] \subseteq Values \X (1..m)
    BY <1>2, <1>5, <1>10, <1>11 DEF IInv, Dated
  <2> QED  BY <1>7, <1>8, <1>9, <2>1 DEF Dated
<1>15. ViewsAreExact'
  <2>1. \A m \in 1..n : View(P, m) = D[m]
    <3>1. \A m \in 1..n - 1 : View(nodes, m) = content[m]
      BY <1>2 DEF IInv, ViewsAreExact
    <3> QED  BY <1>8, <1>10, <1>11, <1>12, <3>1
  <2>2. DOMAIN P = 1..n
    BY <1>8
  <2> QED  BY <1>7, <1>9, <2>1, <2>2 DEF ViewsAreExact
<1>16. /\ RemovedWereUsed(nodes)'
       /\ \A m \in 1..n - 1 : UsedIn(P, D, m) = Used(m)
       /\ Used(v) \subseteq UsedIn(P, D, n)
  <2>1. ASSUME NEW m \in 1..n - 1  PROVE UsedIn(P, D, m) = Used(m)
    <3>1. \A k \in 1..n - 1 : P[k].parent = nodes[k].parent /\ D[k] = content[k]
      BY <1>8, <1>10
    <3>2. UsedIn(P, D, m) = UsedIn(nodes, content, m)
      <4>1. Longer(nodes, content, P, D) /\ m \in 1..Len(nodes)
        BY <1>2, <1>8, <1>11, <3>1 DEF Longer
      <4> QED  BY <4>1, UsedStays
    <3> QED  BY <3>2, UsedNow
  <2>2. Used(v) \subseteq UsedIn(P, D, n)
    <3>1. v # 0 /\ n \in 1..Len(P)
      BY <1>2, <1>8
    <3>2. UsedIn(P, D, n) = HeldIds(D, n) \cup UsedIn(P, D, v)
      BY <1>2, <1>8, <3>1, UsedStep
    <3> QED  BY <1>2, <2>1, <3>2
  <2>3. ASSUME NEW m \in 1..n  PROVE RemovedOn(P, m) \subseteq UsedIn(P, D, m)
    <3>1. CASE m = n
      <4>1. RemovedOn(nodes, v) \subseteq Used(v)
        BY <1>2 DEF IInv, RemovedWereUsed
      <4> QED  BY <1>8, <2>2, <3>1, <4>1
    <3>2. CASE m \in 1..n - 1
      BY <1>2, <1>12, <2>1, <3>2 DEF IInv, RemovedWereUsed
    <3> QED  BY <1>11, <3>1, <3>2
  <2>4. \A m : Used(m)' = UsedIn(P, D, m)
    BY <1>7, <1>9 DEF Used, UsedIn, HeldIds
  <2> QED  BY <1>7, <1>8, <2>1, <2>2, <2>3, <2>4 DEF RemovedWereUsed
<1>17. ASSUME NEW m \in 1..n - 1  PROVE Bounded(P, m)
  <2>1. P[m] = nodes[m] /\ Path(P, m) = Path(nodes, m) /\ BaseNode(P, m) = BaseNode(nodes, m)
    BY <1>8, <1>12
  <2>2. Path(nodes, m) \subseteq 1..m /\ BaseNode(nodes, m) \in 1..m
    BY <1>3, <1>11, WalkBounds
  <2>3. Changes(P, m) = Changes(nodes, m)
    <3>1. \A x \in Path(nodes, m) \X Values : P[x[1]] = nodes[x[1]]
      BY <1>8, <2>2, SMTT(30)
    <3> QED  BY <2>1, <3>1 DEF Changes
  <2>4. P[BaseNode(P, m)] = nodes[BaseNode(nodes, m)]
    BY <1>8, <2>1, <2>2
  <2>5. Bounded(nodes, m)
    BY <1>2 DEF IInv
  <2> QED  BY <2>1, <2>3, <2>4, <2>5 DEF Bounded
<1>18. Bounded(P, n)
  <2>1. CASE P = M /\ M[n].log * Den < Num * M[n].size
    <3>1. /\ nodes[v].log = Cardinality(Changes(nodes, v)) /\ IsFiniteSet(Changes(nodes, v))
          /\ nodes[v].size = Cardinality(nodes[BaseNode(nodes, v)].base)
      BY <1>2 DEF IInv, Bounded
    <3>2. /\ IsFiniteSet(Changes(M, n))
          /\ Cardinality(Changes(M, n)) =
               Cardinality(Changes(nodes, v)) + Cardinality(ins) + Cardinality(rem)
      <4>1. NodeAdded(M, n, nodes, v, ins, rem) /\ IsFiniteSet(Changes(nodes, v))
        BY <1>3, <3>1
      <4> QED  BY <4>1, ChangesOfNode
    <3>3. BaseNode(M, n) = BaseNode(nodes, v) /\ BaseNode(nodes, v) \in 1..v
      BY <1>3, WalkOfNode
    <3>4. /\ M[n].log = nodes[v].log + Cardinality(ins) + Cardinality(rem)
          /\ M[n].size = nodes[v].size
      BY <1>3 DEF Node
    <3>5. M[n].log = Cardinality(Changes(M, n))
      BY <3>1, <3>2, <3>4
    <3>6. M[n].size = Cardinality(M[BaseNode(M, n)].base)
      <4>1. M[BaseNode(nodes, v)] = nodes[BaseNode(nodes, v)]
        BY <1>2, <1>3, <3>3
      <4> QED  BY <3>1, <3>3, <3>4, <4>1
    <3> QED  BY <2>1, <3>2, <3>5, <3>6 DEF Bounded
  <2>2. CASE P[n].cached /\ P[n].base = C /\ P[n].log = 0 /\ P[n].size = Cardinality(C)
    <3>1. Rooted(P, n)
      BY <1>2, <1>8, TreeIsRooted
    <3>2. Path(P, n) = {} /\ BaseNode(P, n) = n
      BY <1>2, <2>2, <3>1, ViewOfBase
    <3>3. Changes(P, n) = {}
      BY <3>2 DEF Changes
    <3> QED  BY <2>2, <3>2, <3>3, FS_EmptySet DEF Bounded
  <2> QED  BY <1>8, <2>1, <2>2
<1>19. (\A m \in 1..Len(nodes) : Bounded(nodes, m))'
  BY <1>7, <1>8, <1>11, <1>17, <1>18
<1>20. IInv'
  BY <1>13, <1>14, <1>15, <1>16, <1>19 DEF IInv
<1>21. n - 1 = Len(nodes)
  BY <1>2
<1> QED  BY <1>1, <1>7, <1>9, <1>16, <1>20, <1>21

\* map_insert adds a node that inserts.
LEMMA InsertAdds ==
  ASSUME IInv, NEW v \in DOMAIN nodes, NEW S \in SUBSET Values, MapInsert(v, S)
  PROVE  Adds(v, S, {})
<1>1. v \in 1..Len(nodes)
  BY DEF IInv, TypeOK
<1>2. IdsOf({}) = {} /\ Without(content[v], {}) = content[v]
  BY <1>1 DEF IdsOf, Without, IInv, TypeOK
<1> QED  BY <1>1, <1>2 DEF MapInsert, Adds

\* map_delete adds a node that removes.
LEMMA DeleteAdds ==
  ASSUME IInv, NEW v \in DOMAIN nodes, NEW S \in SUBSET Values, MapDelete(v, S)
  PROVE  Adds(v, {}, S)
<1>1. v \in 1..Len(nodes) /\ Len(nodes) \in Nat /\ IsTree(nodes)
  BY DEF IInv, TypeOK
<1>2. IdsOf(S) \subseteq HeldIds(content, v)
  BY DEF MapDelete, IdsOf, HeldIds
<1>3. HeldIds(content, v) \subseteq Used(v)
  BY <1>1, UsedStep, UsedNow
<1>4. OccurrencesOf({}, Len(nodes) + 1) = {} /\ IdsOf({}) = {}
  BY DEF OccurrencesOf, IdsOf
<1>5. content' = Append(content, Without(content[v], IdsOf(S))
                                   \cup OccurrencesOf({}, Len(nodes) + 1))
  BY <1>4 DEF MapDelete
<1> QED  BY <1>1, <1>2, <1>3, <1>4, <1>5 DEF MapDelete, Adds

-----------------------------------------------------------------------------
(* VersionLog.                                                             *)

\* map_init makes one version, a base.
LEMMA InitInv == Init => IInv
<1> SUFFICES ASSUME Init  PROVE IInv
  OBVIOUS
<1>1. PICK S \in SUBSET Values :
        /\ nodes = <<[parent |-> 0, depth |-> 0, inserts |-> {}, removes |-> {}, cached |-> TRUE,
                      base |-> OccurrencesOf(S, 1), size |-> Cardinality(S), log |-> 0]>>
        /\ content = <<OccurrencesOf(S, 1)>>
  BY DEF Init
<1>2. PICK occ : occ = OccurrencesOf(S, 1)
  OBVIOUS
<1>3. IsFiniteSet(S) /\ Cardinality(S) \in Nat
  BY LogAssumption, FS_Subset, FS_CardinalityType DEF LogAssumption
<1>4. Cardinality(occ) = Cardinality(S)
  <2>1. occ = S \X {1}
    BY <1>2 DEF OccurrencesOf
  <2>2. IsFiniteSet({1}) /\ Cardinality({1}) = 1
    BY FS_Singleton
  <2>3. Cardinality(occ) = Cardinality(S) * 1
    BY <1>3, <2>1, <2>2, FS_Product
  <2> QED  BY <1>3, <2>3
<1>5. occ \subseteq Values \X (1..1) /\ occ \in SUBSET Occurrences
  BY <1>2 DEF OccurrencesOf, Occurrences
<1>6. PICK N : N = nodes
  OBVIOUS
<1>7. /\ Len(N) = 1 /\ N[1].parent = 0 /\ N[1].cached /\ N[1].base = occ
      /\ N[1].size = Cardinality(S) /\ N[1].log = 0
  BY <1>1, <1>2, <1>6
<1>8. N \in Seq(VNodes)
  BY <1>1, <1>2, <1>3, <1>5, <1>6 DEF VNodes
<1>9. content \in Seq(SUBSET Occurrences) /\ Len(content) = 1 /\ content[1] = occ
  BY <1>1, <1>2, <1>5
<1>10. IsTree(N)
  BY <1>7 DEF IsTree
<1>11. /\ Path(N, 1) = {} /\ BaseNode(N, 1) = 1
       /\ RemovedOn(N, 1) = {} /\ View(N, 1) = occ
  <2>1. Rooted(N, 1)
    BY <1>7 DEF Rooted
  <2> QED  BY <1>7, <2>1, ViewOfBase
<1>12. Bounded(N, 1)
  <2>1. Changes(N, 1) = {}
    BY <1>11 DEF Changes
  <2> QED  BY <1>4, <1>7, <1>11, <2>1, FS_EmptySet DEF Bounded
<1>13. DOMAIN N = 1..1 /\ \A m \in 1..1 : m = 1
  BY <1>7, <1>8
<1>14. TypeOK /\ Dated
  BY <1>5, <1>6, <1>7, <1>8, <1>9, <1>13 DEF TypeOK, Dated
<1>15. ViewsAreExact /\ RemovedWereUsed(N)
  BY <1>6, <1>7, <1>9, <1>11, <1>13 DEF ViewsAreExact, RemovedWereUsed
<1> QED  BY <1>6, <1>7, <1>10, <1>12, <1>13, <1>14, <1>15 DEF IInv

\* Both operations keep the invariant.
LEMMA StepInv == IInv /\ [Next]_vars => IInv'
<1> SUFFICES ASSUME IInv, [Next]_vars  PROVE IInv'
  OBVIOUS
<1>1. ASSUME NEW v \in DOMAIN nodes, NEW S \in SUBSET Values, MapInsert(v, S)
      PROVE  IInv'
  BY <1>1, InsertAdds, Grow
<1>2. ASSUME NEW v \in DOMAIN nodes, NEW S \in SUBSET Values, MapDelete(v, S)
      PROVE  IInv'
  BY <1>2, DeleteAdds, Grow
<1>3. CASE UNCHANGED vars
  <2>1. nodes' = nodes /\ content' = content
    BY <1>3 DEF vars
  <2> QED  BY <2>1 DEF IInv, TypeOK, Dated, ViewsAreExact, RemovedWereUsed, Used
<1> QED  BY <1>1, <1>2, <1>3 DEF Next

\* The inductive invariant: the types and the tree of the nodes, ViewsAreExact, the
\* counters of each node, and that removals on a walk are of ids used before.
THEOREM IInvHolds == Spec => []IInv
<1>1. Init => IInv
  BY InitInv
<1>2. IInv /\ [Next]_vars => IInv'
  BY StepInv
<1> QED  BY <1>1, <1>2, PTL DEF Spec

\* Rlog: get_query_view shows exactly what the inserts and deletes of a version's history
\* leave, wherever check_compact put its bases.
THEOREM RlogViewsAreExact == Spec => []ViewsAreExact
<1>1. IInv => ViewsAreExact
  BY DEF IInv
<1> QED  BY <1>1, IInvHolds, PTL

\* Rlog: cumulative_log_size and current_base_size are what they are named for, and a
\* log that reached p times its base does not outlive the call.
THEOREM RlogLogsAreBounded == Spec => []LogsAreBounded
<1>1. IInv => LogsAreBounded
  <2> SUFFICES ASSUME IInv, NEW n \in DOMAIN nodes
               PROVE  /\ nodes[n].log = Cardinality(Changes(nodes, n))
                      /\ nodes[n].size = Cardinality(nodes[BaseNode(nodes, n)].base)
                      /\ nodes[n].cached \/ nodes[n].log * Den < Num * nodes[n].size
    BY DEF LogsAreBounded, Changes
  <2>1. n \in 1..Len(nodes)
    BY DEF IInv, TypeOK
  <2> QED  BY <2>1 DEF IInv, Bounded
<1> QED  BY <1>1, IInvHolds, PTL

-----------------------------------------------------------------------------
(* The history of a version: what map_spatial_diff relies on.              *)

Held(C, n) == {o[1] : o \in C[n]}

\* A node tells how its version came from the parent's; an id that was ever used is not
\* inserted again.
HistoryAt(N, C, n) ==
  LET p == N[n].parent
  IN  IF n = 1 THEN N[n].depth = 0 /\ N[n].inserts = {} /\ N[n].removes = {}
      ELSE /\ N[n].depth = N[p].depth + 1
           /\ Held(C, n) = {x \in Held(C, p) : x.id \notin IdsOf(N[n].removes)} \cup N[n].inserts
           /\ IdsOf(N[n].inserts) \cap UsedIn(N, C, p) = {}
           /\ N[n].removes \subseteq Held(C, p)
           /\ N[n].inserts = {} \/ N[n].removes = {}
Histories(N, C) == \A n \in 1..Len(N) : HistoryAt(N, C, n) /\ OneValuePerId(Held(C, n))

DInv == IInv /\ Histories(nodes, content)

\* What a node more must be like for that.
AddsFresh(v, ins, rem) ==
  Adds(v, ins, rem) /\ OneValuePerId(ins) /\ rem \subseteq Held(content, v)

\* The values of occurrences of values are these values.
LEMMA ValuesOfOccurrences ==
  ASSUME NEW S, NEW n
  PROVE  {o[1] : o \in OccurrencesOf(S, n)} = S
<1>1. \A x : <<x, n>>[1] = x
  OBVIOUS
<1> QED  BY <1>1 DEF OccurrencesOf

\* The values of a version are those of the parent that stay and the new ones.
LEMMA HeldByNode ==
  ASSUME IInv, NEW v, NEW ins, NEW rem, AddsFresh(v, ins, rem)
  PROVE  LET n == Len(nodes) + 1
         IN  /\ \A m \in 1..Len(nodes) : Held(content', m) = Held(content, m)
             /\ Held(content', n) = {x \in Held(content, v) : x.id \notin IdsOf(rem)} \cup ins
<1> DEFINE n == Len(nodes) + 1
           K == Without(content[v], IdsOf(rem)) \cup OccurrencesOf(ins, n)
<1>1. /\ content \in Seq(SUBSET Occurrences) /\ Len(content) = Len(nodes) /\ Len(nodes) \in Nat
      /\ v \in 1..Len(nodes)
  BY DEF IInv, TypeOK, AddsFresh, Adds
<1>2. /\ \A m \in 1..Len(nodes) : content'[m] = content[m]
      /\ content'[n] = K
  <2>1. content' = Append(content, K)
    BY DEF AddsFresh, Adds
  <2> HIDE DEF K
  <2> QED  BY <1>1, <2>1
<1>3. {o[1] : o \in K} = {x \in Held(content, v) : x.id \notin IdsOf(rem)} \cup ins
  <2>1. {o[1] : o \in Without(content[v], IdsOf(rem))}
          = {x \in Held(content, v) : x.id \notin IdsOf(rem)}
    BY DEF Held, Without
  <2>2. {o[1] : o \in OccurrencesOf(ins, n)} = ins
    BY ValuesOfOccurrences
  <2>3. {o[1] : o \in K} = {o[1] : o \in Without(content[v], IdsOf(rem))}
                             \cup {o[1] : o \in OccurrencesOf(ins, n)}
    OBVIOUS
  <2> QED  BY <2>1, <2>2, <2>3
<1> QED  BY <1>2, <1>3 DEF Held

\* Where the node that is added hangs and what it records, compacted or not.
LEMMA GrownNode ==
  ASSUME IInv, NEW v, NEW ins, NEW rem, Adds(v, ins, rem)
  PROVE  LET n == Len(nodes) + 1
         IN  /\ Len(nodes') = n /\ \A m \in 1..Len(nodes) : nodes'[m] = nodes[m]
             /\ nodes'[n].parent = v /\ nodes'[n].depth = nodes[v].depth + 1
             /\ nodes'[n].inserts = ins /\ nodes'[n].removes = rem
<1> DEFINE n == Len(nodes) + 1
           M == Append(nodes, Node(nodes, v, ins, rem))
<1>0. /\ v \in 1..Len(nodes) /\ Len(nodes) \in Nat
      /\ nodes \in Seq(VNodes) /\ IsTree(nodes) /\ Len(nodes) > 0
      /\ ins \in SUBSET Values /\ rem \in SUBSET Values
  BY DEF IInv, TypeOK, Adds
<1>1. NodeAdded(M, n, nodes, v, ins, rem) /\ M \in Seq(VNodes) /\ IsTree(M)
  BY <1>0, NewNode
<1>2. View(M, n) \in SUBSET (Values \X (1..n))
  <2>1. View(nodes, v) \subseteq Values \X (1..v)
    BY <1>0 DEF IInv, ViewsAreExact, Dated
  <2> HIDE DEF M
  <2>2. View(M, n) = Without(View(nodes, v), IdsOf(rem))
                       \cup Without(OccurrencesOf(ins, n), RemovedOn(nodes, v) \cup IdsOf(rem))
    <3> HIDE DEF n
    <3> QED  BY <1>1, ViewOfNode
  <2>3. 1..v \subseteq 1..n /\ n \in 1..n
    BY <1>0
  <2> HIDE DEF n
  <2> QED  BY <1>0, <2>1, <2>2, <2>3 DEF Without, OccurrencesOf
<1>3. nodes' = CheckCompact(M)
  BY <1>0 DEF Adds
<1>4. \A m \in 1..n - 1 : M[m] = nodes[m]
  BY <1>1 DEF NodeAdded
<1> HIDE DEF M
<1>5. /\ Len(CheckCompact(M)) = n /\ \A m \in 1..n - 1 : CheckCompact(M)[m] = M[m]
      /\ CheckCompact(M)[n].parent = v /\ CheckCompact(M)[n].depth = nodes[v].depth + 1
      /\ CheckCompact(M)[n].inserts = ins /\ CheckCompact(M)[n].removes = rem
  BY <1>1, <1>2, Compacted
<1>6. n - 1 = Len(nodes)
  BY <1>0
<1> QED  BY <1>3, <1>4, <1>5, <1>6

\* An insertion or a deletion adds a version with a history.
LEMMA GrowHistory ==
  ASSUME DInv, NEW v, NEW ins, NEW rem, AddsFresh(v, ins, rem)
  PROVE  DInv'
<1> DEFINE n == Len(nodes) + 1
<1>1. /\ IInv /\ Adds(v, ins, rem) /\ v \in 1..Len(nodes) /\ Len(nodes) \in Nat
      /\ nodes \in Seq(VNodes) /\ IsTree(nodes) /\ Len(nodes) > 0
      /\ ins \in SUBSET Values /\ rem \in SUBSET Values
  BY DEF DInv, IInv, TypeOK, AddsFresh, Adds
<1>2. /\ IInv' /\ \A m \in 1..Len(nodes) : UsedIn(nodes', content', m) = UsedIn(nodes, content, m)
  BY <1>1, Grow, UsedNow
<1>3. /\ Len(nodes') = n /\ \A m \in 1..Len(nodes) : nodes'[m] = nodes[m]
      /\ nodes'[n].parent = v /\ nodes'[n].depth = nodes[v].depth + 1
      /\ nodes'[n].inserts = ins /\ nodes'[n].removes = rem
  BY <1>1, GrownNode
<1>4. /\ \A m \in 1..Len(nodes) : Held(content', m) = Held(content, m)
      /\ Held(content', n) = {x \in Held(content, v) : x.id \notin IdsOf(rem)} \cup ins
  BY <1>1, HeldByNode
<1>5. HeldIds(content, v) \subseteq UsedIn(nodes, content, v)
  BY <1>1, UsedStep
<1>6. /\ IdsOf(ins) \cap UsedIn(nodes, content, v) = {} /\ (ins = {} \/ rem = {})
      /\ OneValuePerId(ins) /\ rem \subseteq Held(content, v)
  BY <1>1, UsedNow DEF AddsFresh, Adds
<1>7. ASSUME NEW m \in 1..Len(nodes)
      PROVE  HistoryAt(nodes', content', m) /\ OneValuePerId(Held(content', m))
  <2>1. HistoryAt(nodes, content, m) /\ OneValuePerId(Held(content, m))
    BY DEF DInv, Histories
  <2>2. m # 1 => nodes[m].parent \in 1..Len(nodes)
    BY <1>1 DEF IsTree
  <2>3. nodes'[m] = nodes[m]
    BY <1>3
  <2>4. CASE m = 1
    BY <1>4, <2>1, <2>3, <2>4 DEF HistoryAt
  <2>5. CASE m # 1
    <3>1. PICK p \in 1..Len(nodes) : p = nodes[m].parent
      BY <2>2, <2>5
    <3>2. /\ nodes'[p] = nodes[p] /\ Held(content', p) = Held(content, p)
          /\ UsedIn(nodes', content', p) = UsedIn(nodes, content, p)
          /\ Held(content', m) = Held(content, m)
      BY <1>2, <1>3, <1>4
    <3> QED  BY <2>1, <2>3, <2>5, <3>1, <3>2 DEF HistoryAt
  <2> QED  BY <2>4, <2>5
<1>8. HistoryAt(nodes', content', n)
  <2>1. n # 1 /\ nodes'[v] = nodes[v] /\ Held(content', v) = Held(content, v)
        /\ UsedIn(nodes', content', v) = UsedIn(nodes, content, v)
    BY <1>1, <1>2, <1>3, <1>4
  <2> HIDE DEF n
  <2> QED  BY <1>3, <1>4, <1>6, <2>1 DEF HistoryAt
<1>9. OneValuePerId(Held(content', n))
  <2>1. OneValuePerId(Held(content, v))
    BY <1>1 DEF DInv, Histories
  <2>2. \A x \in ins, y \in Held(content, v) : x.id # y.id
    <3>1. \A y \in Held(content, v) : y.id \in HeldIds(content, v)
      BY DEF Held, HeldIds
    <3> QED  BY <1>5, <1>6, <3>1 DEF IdsOf
  <2> HIDE DEF n
  <2> QED  BY <1>4, <1>6, <2>1, <2>2 DEF OneValuePerId
<1>10. \A m \in 1..n : m \in 1..Len(nodes) \/ m = n
  BY <1>1
<1> HIDE DEF n
<1> QED  BY <1>2, <1>3, <1>7, <1>8, <1>9, <1>10 DEF DInv, Histories

\* The first version has no history.
LEMMA InitHistory == Init => DInv
<1> SUFFICES ASSUME Init  PROVE DInv
  OBVIOUS
<1>1. PICK S \in SUBSET Values :
        /\ OneValuePerId(S)
        /\ nodes = <<[parent |-> 0, depth |-> 0, inserts |-> {}, removes |-> {}, cached |-> TRUE,
                      base |-> OccurrencesOf(S, 1), size |-> Cardinality(S), log |-> 0]>>
        /\ content = <<OccurrencesOf(S, 1)>>
  BY DEF Init
<1>2. Held(content, 1) = S
  <2>1. content[1] = OccurrencesOf(S, 1)
    BY <1>1
  <2> QED  BY <2>1, ValuesOfOccurrences DEF Held
<1>3. /\ Len(nodes) = 1 /\ nodes[1].depth = 0 /\ nodes[1].inserts = {} /\ nodes[1].removes = {}
  BY <1>1
<1>4. \A n \in 1..Len(nodes) : n = 1
  BY <1>3
<1>5. HistoryAt(nodes, content, 1) /\ OneValuePerId(Held(content, 1))
  BY <1>1, <1>2, <1>3 DEF HistoryAt
<1> QED  BY <1>4, <1>5, InitInv DEF DInv, Histories

\* Both operations give the version they add a history.
LEMMA StepHistory == DInv /\ [Next]_vars => DInv'
<1> SUFFICES ASSUME DInv, [Next]_vars  PROVE DInv'
  OBVIOUS
<1>1. ASSUME NEW v \in DOMAIN nodes, NEW S \in SUBSET Values, MapInsert(v, S)
      PROVE  DInv'
  <2>1. Adds(v, S, {}) /\ OneValuePerId(S)
    BY <1>1, InsertAdds DEF DInv, MapInsert
  <2> QED  BY <2>1, GrowHistory DEF AddsFresh
<1>2. ASSUME NEW v \in DOMAIN nodes, NEW S \in SUBSET Values, MapDelete(v, S)
      PROVE  DInv'
  <2>1. Adds(v, {}, S) /\ S \subseteq Held(content, v)
    BY <1>2, DeleteAdds DEF DInv, MapDelete, Held
  <2>2. OneValuePerId({})
    BY DEF OneValuePerId
  <2> QED  BY <2>1, <2>2, GrowHistory DEF AddsFresh
<1>3. CASE UNCHANGED vars
  <2>1. nodes' = nodes /\ content' = content
    BY <1>3 DEF vars
  <2>2. IInv'
    BY StepInv DEF DInv
  <2> QED  BY <2>1, <2>2 DEF DInv, Histories
<1> QED  BY <1>1, <1>2, <1>3 DEF Next

-----------------------------------------------------------------------------
(* A version and those it comes from.                                      *)

\* A version and its ancestors, as the least set that is closed under parents.
Closed(S) == S \subseteq 1..Len(nodes) /\ \A m \in S : m # 1 => nodes[m].parent \in S
Line(v) == {a \in 1..Len(nodes) : \A S : Closed(S) /\ v \in S => a \in S}

\* The line of a version is that of its parent and the version itself.
LEMMA LineStep ==
  ASSUME IInv, NEW v \in 1..Len(nodes)
  PROVE  /\ v \in Line(v) /\ Line(v) \subseteq 1..v
         /\ v = 1 => Line(v) = {1}
         /\ v # 1 => /\ nodes[v].parent \in 1..v - 1
                     /\ Line(v) = {v} \cup Line(nodes[v].parent)
<1>1. /\ Len(nodes) \in Nat
      /\ \A m \in 1..Len(nodes) : m # 1 => nodes[m].parent \in 1..m - 1
  BY DEF IInv, TypeOK, IsTree
<1>2. v \in Line(v)
  BY DEF Line
<1>3. Line(v) \subseteq 1..v
  <2>1. Closed(1..v) /\ v \in 1..v
    BY <1>1 DEF Closed
  <2> QED  BY <2>1 DEF Line
<1>4. ASSUME v # 1
      PROVE  Line(v) = {v} \cup Line(nodes[v].parent)
  <2>1. PICK p \in 1..Len(nodes) : p = nodes[v].parent
    BY <1>1, <1>4
  <2>2. ASSUME NEW a \in Line(p)  PROVE a \in Line(v)
    BY <1>4, <2>1 DEF Line, Closed
  <2>3. ASSUME NEW a \in Line(v), a # v  PROVE a \in Line(p)
    <3> SUFFICES ASSUME NEW S, Closed(S), p \in S  PROVE a \in S
      BY DEF Line
    <3>1. Closed(S \cup {v})
      BY <2>1 DEF Closed
    <3> QED  BY <2>3, <3>1 DEF Line
  <2> QED  BY <1>2, <2>1, <2>2, <2>3
<1>5. v = 1 => Line(v) = {1}
  BY <1>2, <1>3
<1> QED  BY <1>1, <1>2, <1>3, <1>4, <1>5

\* Lines go on, and only forward.
LEMMA LinesJoin ==
  ASSUME IInv, NEW v \in 1..Len(nodes), NEW k \in Line(v)
  PROVE  /\ k \in 1..Len(nodes) /\ Line(k) \subseteq Line(v)
         /\ v \in Line(k) => k = v
<1>1. k \in 1..Len(nodes)
  BY DEF Line
<1>2. Line(k) \subseteq Line(v)
  BY DEF Line
<1>3. k \in 1..v /\ Line(k) \subseteq 1..k
  BY <1>1, LineStep
<1> QED  BY <1>1, <1>2, <1>3

\* What a node records.
LEMMA NodeTypes ==
  ASSUME IInv, NEW m \in 1..Len(nodes)
  PROVE  nodes[m].depth \in Nat /\ nodes[m].inserts \subseteq Values /\ nodes[m].removes \subseteq Values
<1>1. nodes[m] \in VNodes
  BY DEF IInv, TypeOK
<1> QED  BY <1>1 DEF VNodes

\* All versions come from the first one, and depth counts the steps.
LEMMA LineDepths ==
  ASSUME DInv, NEW v \in 1..Len(nodes)
  PROVE  /\ 1 \in Line(v)
         /\ \A a \in Line(v) : a = v \/ nodes[a].depth < nodes[v].depth
<1> DEFINE Good(k) == 1 \in Line(k) /\ \A a \in Line(k) : a = k \/ nodes[a].depth < nodes[k].depth
           Bad == {k \in 1..Len(nodes) : ~Good(k)}
<1> SUFFICES ASSUME Bad # {}  PROVE FALSE
  OBVIOUS
<1>1. PICK m \in Bad : \A k \in Bad : m <= k
  <2>1. Bad \in SUBSET Nat
    OBVIOUS
  <2> HIDE DEF Bad
  <2> QED  BY <2>1, SmallestElement
<1>2. m \in 1..Len(nodes) /\ ~Good(m) /\ Len(nodes) \in Nat /\ IInv
      /\ \A k \in 1..Len(nodes) : nodes[k].depth \in Nat
  <2>1. nodes \in Seq(VNodes) /\ IInv
    BY DEF DInv, IInv, TypeOK
  <2>2. \A k \in 1..Len(nodes) : nodes[k] \in VNodes
    BY <2>1
  <2>3. m \in 1..Len(nodes) /\ ~Good(m)
    OBVIOUS
  <2>4. \A k \in 1..Len(nodes) : nodes[k].depth \in Nat
    BY <2>2 DEF VNodes
  <2> HIDE DEF Good, Bad
  <2> QED  BY <2>1, <2>3, <2>4
<1>3. CASE m = 1
  BY <1>2, <1>3, LineStep
<1>4. CASE m # 1
  <2>1. PICK p \in 1..m - 1 : p = nodes[m].parent /\ Line(m) = {m} \cup Line(p)
    BY <1>2, <1>4, LineStep
  <2>2. p \in 1..Len(nodes) /\ Good(p)
    <3>1. p \in 1..Len(nodes) /\ p \notin Bad
      BY <1>1, <1>2
    <3> QED  BY <3>1
  <2>3. nodes[m].depth = nodes[p].depth + 1
    BY <1>2, <1>4, <2>1 DEF DInv, Histories, HistoryAt
  <2> HIDE DEF Bad
  <2>4. \A a \in Line(p) : a \in 1..Len(nodes) /\ nodes[a].depth \in Nat
    BY <1>2, <2>2, LinesJoin
  <2> QED  BY <1>2, <2>1, <2>2, <2>3, <2>4
<1> QED  BY <1>3, <1>4

-----------------------------------------------------------------------------
(* The walks of map_spatial_diff.                                          *)

BranchRule(leaf, stop, f) ==
  f = [m \in 0..leaf |-> IF m = 0 \/ m = stop THEN {} ELSE {m} \cup f[nodes[m].parent]]

\* trace_branch visits what the leaf has in its line and the place to stop has not.
LEMMA BranchIs ==
  ASSUME IInv, NEW leaf \in 1..Len(nodes), NEW stop \in Line(leaf)
  PROVE  Branch(leaf, stop) = Line(leaf) \ Line(stop)
<1> DEFINE w == [m \in 0..leaf |-> IF m = 0 THEN {}
                                   ELSE {k \in Line(m) : ~(stop \in Line(m) /\ k \in Line(stop))}]
           f == CHOOSE g : BranchRule(leaf, stop, g)
<1>1. Len(nodes) \in Nat /\ stop \in 1..Len(nodes) /\ stop \in 1..leaf /\ nodes[1].parent = 0
  <2>1. stop \in 1..leaf
    BY LineStep
  <2> QED  BY <2>1 DEF IInv, TypeOK, IsTree
<1>2. ASSUME NEW m \in 0..leaf
      PROVE  w[m] = IF m = 0 \/ m = stop THEN {} ELSE {m} \cup w[nodes[m].parent]
  <2>1. CASE m = 0
    BY <2>1
  <2>2. CASE m = stop
    BY <1>1, <2>2, LineStep
  <2>3. CASE m # 0 /\ m # stop
    <3>1. m \in 1..Len(nodes) /\ m \in 1..leaf
      BY <1>1, <2>3
    <3>2. CASE m = 1
      <4>1. Line(m) = {m} /\ stop \notin Line(m)
        BY <2>3, <3>1, <3>2, LineStep
      <4> QED  BY <1>1, <2>3, <3>2, <4>1
    <3>3. CASE m # 1
      <4>1. PICK p \in 1..m - 1 : p = nodes[m].parent /\ Line(m) = {m} \cup Line(p)
        BY <3>1, <3>3, LineStep
      <4>2. p \in 0..leaf /\ p # 0
        BY <3>1
      <4>3. stop \in Line(m) <=> stop \in Line(p)
        BY <2>3, <4>1
      <4>4. ~(stop \in Line(m) /\ m \in Line(stop))
        BY <2>3, <3>1, LinesJoin
      <4>5. w[m] = {k \in Line(m) : ~(stop \in Line(m) /\ k \in Line(stop))}
        BY <2>3
      <4>6. w[p] = {k \in Line(p) : ~(stop \in Line(p) /\ k \in Line(stop))}
        BY <4>2
      <4>7. w[m] = {m} \cup w[p]
        BY <4>1, <4>3, <4>4, <4>5, <4>6
      <4> HIDE DEF w
      <4> QED  BY <2>3, <4>1, <4>7
    <3> QED  BY <3>2, <3>3
  <2> QED  BY <2>1, <2>2, <2>3
<1>3. BranchRule(leaf, stop, w)
  <2>1. w = [m \in 0..leaf |-> w[m]]
    OBVIOUS
  <2> HIDE DEF w
  <2> QED  BY <1>2, <2>1 DEF BranchRule
<1>4. BranchRule(leaf, stop, f)
  <2> HIDE DEF w
  <2> QED  BY <1>3
<1>5. Branch(leaf, stop) = f[leaf]
  BY DEF Branch, BranchRule
<1>6. w[leaf] = Line(leaf) \ Line(stop)
  BY <1>1
<1> HIDE DEF w, f
<1> DEFINE Bad == {m \in 0..leaf : f[m] # w[m]}
<1>7. Bad = {}
  <2> SUFFICES ASSUME Bad # {}  PROVE FALSE
    OBVIOUS
  <2>1. PICK m \in Bad : \A k \in Bad : m <= k
    <3>1. Bad \in SUBSET Nat
      OBVIOUS
    <3> HIDE DEF Bad
    <3> QED  BY <3>1, SmallestElement
  <2>2. m \in 0..leaf /\ f[m] # w[m]
    OBVIOUS
  <2>3. /\ f[m] = IF m = 0 \/ m = stop THEN {} ELSE {m} \cup f[nodes[m].parent]
        /\ w[m] = IF m = 0 \/ m = stop THEN {} ELSE {m} \cup w[nodes[m].parent]
    BY <1>3, <1>4, <2>2 DEF BranchRule
  <2>4. m # 0 => nodes[m].parent \in 0..leaf /\ nodes[m].parent < m
    <3>1. CASE m = 1
      BY <1>1, <3>1
    <3>2. CASE m # 0 /\ m # 1
      <4>1. m \in 1..Len(nodes)
        BY <1>1, <2>2, <3>2
      <4>2. nodes[m].parent \in 1..m - 1
        BY <3>2, <4>1, LineStep
      <4> QED  BY <2>2, <4>2
    <3> QED  BY <3>1, <3>2
  <2>5. m # 0 => f[nodes[m].parent] = w[nodes[m].parent]
    BY <2>1, <2>2, <2>4
  <2> QED  BY <2>2, <2>3, <2>5
<1>8. leaf \in 0..leaf
  BY <1>1
<1> QED  BY <1>5, <1>6, <1>7, <1>8

LcaRule(v1, v2, f) ==
  f = [p \in (0..v1) \X (0..v2) |->
         LET a == p[1]
             b == p[2]
         IN  IF a = 0 \/ b = 0 \/ a = b THEN a
             ELSE IF nodes[a].depth > nodes[b].depth THEN f[<<nodes[a].parent, b>>]
             ELSE IF nodes[b].depth > nodes[a].depth THEN f[<<a, nodes[b].parent>>]
             ELSE f[<<nodes[a].parent, nodes[b].parent>>]]
LastIn(S) == CHOOSE x \in S : \A y \in S : y <= x
Common(a, b) == IF a = 0 \/ b = 0 THEN a ELSE LastIn(Line(a) \cap Line(b))

\* The last version in two lines, which is one of the two when they are in one line.
LEMMA CommonIs ==
  ASSUME DInv, NEW a \in 1..Len(nodes), NEW b \in 1..Len(nodes)
  PROVE  Common(a, b) \in Line(a) \cap Line(b) /\ Common(a, a) = a
<1> DEFINE A == Line(a) \cap Line(b)
           R == {a - y : y \in A}
<1>1. IInv /\ 1 \in A /\ a # 0 /\ b # 0
  BY LineDepths DEF DInv
<1>2. Line(a) \subseteq 1..a /\ a \in Line(a)
  BY <1>1, LineStep
<1>3. \E x \in A : \A y \in A : y <= x
  <2>1. R \in SUBSET Nat /\ R # {}
    BY <1>1, <1>2
  <2>2. PICK r \in R : \A k \in R : r <= k
    <3> HIDE DEF R
    <3> QED  BY <2>1, SmallestElement
  <2>3. PICK x \in A : r = a - x
    OBVIOUS
  <2>4. \A y \in A : y \in 1..a /\ a - x <= a - y
    BY <1>2, <2>2, <2>3
  <2>5. x \in 1..a
    BY <1>2
  <2>6. \A y \in A : y <= x
    <3> SUFFICES ASSUME NEW y \in A  PROVE y <= x
      OBVIOUS
    <3>1. y \in 1..a /\ a - x <= a - y
      BY <2>4
    <3> QED  BY <2>5, <3>1
  <2> QED  BY <2>6
<1>4. Common(a, b) \in A
  BY <1>1, <1>3 DEF Common, LastIn
<1>5. Common(a, a) = a
  <2>1. \A y \in Line(a) : y <= a
    BY <1>2
  <2>2. ASSUME NEW x \in Line(a), \A y \in Line(a) : y <= x  PROVE x = a
    BY <1>2, <2>2
  <2> QED  BY <1>1, <1>2, <2>1, <2>2 DEF Common, LastIn
<1> QED  BY <1>4, <1>5

\* One step of the climb does not change what the lines have in common.
LEMMA CommonStep ==
  ASSUME DInv, NEW a \in 1..Len(nodes), NEW b \in 1..Len(nodes), a # b
  PROVE  /\ nodes[a].depth > nodes[b].depth =>
              a # 1 /\ Common(a, b) = Common(nodes[a].parent, b)
         /\ nodes[b].depth > nodes[a].depth =>
              b # 1 /\ Common(a, b) = Common(a, nodes[b].parent)
         /\ nodes[a].depth = nodes[b].depth =>
              a # 1 /\ b # 1 /\ Common(a, b) = Common(nodes[a].parent, nodes[b].parent)
<1>1. IInv /\ Len(nodes) \in Nat /\ nodes \in Seq(VNodes)
  BY DEF DInv, IInv, TypeOK
<1>2. /\ nodes[a].depth \in Nat /\ nodes[b].depth \in Nat
  BY <1>1, NodeTypes
<1>3. nodes[1].depth = 0
  <2>1. 1 \in 1..Len(nodes)
    BY <1>1
  <2> QED  BY <2>1 DEF DInv, Histories, HistoryAt
<1>4. \A m \in {a, b} : m # 1 => /\ nodes[m].parent \in 1..m - 1 /\ nodes[m].parent # 0
                                /\ Line(m) = {m} \cup Line(nodes[m].parent)
                                /\ nodes[m].depth = nodes[nodes[m].parent].depth + 1
                                /\ nodes[nodes[m].parent].depth \in Nat
  <2> SUFFICES ASSUME NEW m \in 1..Len(nodes), m # 1
               PROVE  /\ nodes[m].parent \in 1..m - 1 /\ nodes[m].parent # 0
                      /\ Line(m) = {m} \cup Line(nodes[m].parent)
                      /\ nodes[m].depth = nodes[nodes[m].parent].depth + 1
                      /\ nodes[nodes[m].parent].depth \in Nat
    OBVIOUS
  <2>1. nodes[m].parent \in 1..m - 1 /\ Line(m) = {m} \cup Line(nodes[m].parent)
    BY <1>1, LineStep
  <2>2. nodes[m].depth = nodes[nodes[m].parent].depth + 1
    BY DEF DInv, Histories, HistoryAt
  <2>3. nodes[m].parent \in 1..Len(nodes)
    BY <1>1, <2>1
  <2> QED  BY <1>1, <2>1, <2>2, <2>3, NodeTypes
<1>5. /\ nodes[a].depth >= nodes[b].depth => a \notin Line(b)
      /\ nodes[b].depth >= nodes[a].depth => b \notin Line(a)
  BY <1>2, LineDepths
<1>9. a # 0 /\ b # 0
  OBVIOUS
<1>6. ASSUME nodes[a].depth > nodes[b].depth
      PROVE  a # 1 /\ Common(a, b) = Common(nodes[a].parent, b)
  <2>1. a # 1
    BY <1>2, <1>3, <1>6
  <2>2. Line(a) \cap Line(b) = Line(nodes[a].parent) \cap Line(b)
    BY <1>2, <1>4, <1>5, <1>6, <2>1
  <2>3. nodes[a].parent # 0
    BY <1>4, <2>1
  <2> QED  BY <1>9, <2>1, <2>2, <2>3 DEF Common
<1>7. ASSUME nodes[b].depth > nodes[a].depth
      PROVE  b # 1 /\ Common(a, b) = Common(a, nodes[b].parent)
  <2>1. b # 1
    BY <1>2, <1>3, <1>7
  <2>2. Line(a) \cap Line(b) = Line(a) \cap Line(nodes[b].parent)
    BY <1>2, <1>4, <1>5, <1>7, <2>1
  <2>3. nodes[b].parent # 0
    BY <1>4, <2>1
  <2> QED  BY <1>9, <2>1, <2>2, <2>3 DEF Common
<1>8. ASSUME nodes[a].depth = nodes[b].depth
      PROVE  a # 1 /\ b # 1 /\ Common(a, b) = Common(nodes[a].parent, nodes[b].parent)
  <2>1. a # 1 /\ b # 1
    BY <1>2, <1>3, <1>4, <1>8
  <2>2. Line(a) \cap Line(b) = Line(nodes[a].parent) \cap Line(nodes[b].parent)
    BY <1>2, <1>4, <1>5, <1>8, <2>1
  <2>3. nodes[a].parent # 0 /\ nodes[b].parent # 0
    BY <1>4, <2>1
  <2> QED  BY <1>9, <2>1, <2>2, <2>3 DEF Common
<1> QED  BY <1>6, <1>7, <1>8

\* The climb of map_spatial_diff ends at a version that both come from.
LEMMA LcaIs ==
  ASSUME DInv, NEW v1 \in 1..Len(nodes), NEW v2 \in 1..Len(nodes)
  PROVE  Lca(v1, v2) \in Line(v1) \cap Line(v2)
<1> DEFINE w == [p \in (0..v1) \X (0..v2) |-> Common(p[1], p[2])]
           f == CHOOSE g : LcaRule(v1, v2, g)
           Rule(g, a, b) ==
             g[<<a, b>>] = IF a = 0 \/ b = 0 \/ a = b THEN a
                       ELSE IF nodes[a].depth > nodes[b].depth THEN g[<<nodes[a].parent, b>>]
                       ELSE IF nodes[b].depth > nodes[a].depth THEN g[<<a, nodes[b].parent>>]
                       ELSE g[<<nodes[a].parent, nodes[b].parent>>]
<1>1. IInv /\ Len(nodes) \in Nat
  BY DEF DInv, IInv, TypeOK
<1>2. ASSUME NEW a \in 0..v1, NEW b \in 0..v2, ~(a = 0 \/ b = 0 \/ a = b)
      PROVE  /\ a \in 1..Len(nodes) /\ b \in 1..Len(nodes)
             /\ nodes[a].depth \in Nat /\ nodes[b].depth \in Nat
             /\ nodes[a].depth >= nodes[b].depth => nodes[a].parent \in 0..v1 /\ nodes[a].parent < a
             /\ nodes[b].depth >= nodes[a].depth => nodes[b].parent \in 0..v2 /\ nodes[b].parent < b
  <2>1. a \in 1..Len(nodes) /\ b \in 1..Len(nodes)
    BY <1>1, <1>2
  <2>2. nodes[a].depth \in Nat /\ nodes[b].depth \in Nat
    BY <1>1, <2>1, NodeTypes
  <2>3. /\ nodes[a].depth >= nodes[b].depth => a # 1
        /\ nodes[b].depth >= nodes[a].depth => b # 1
    BY <1>2, <2>1, <2>2, CommonStep
  <2>4. a # 1 => nodes[a].parent \in 1..a - 1
    BY <1>1, <2>1, LineStep
  <2>5. b # 1 => nodes[b].parent \in 1..b - 1
    BY <1>1, <2>1, LineStep
  <2> QED  BY <1>2, <2>1, <2>2, <2>3, <2>4, <2>5
<1>3. ASSUME NEW a \in 0..v1, NEW b \in 0..v2
      PROVE  Rule(w, a, b)
  <2>0. \A x \in 0..v1, y \in 0..v2 : w[<<x, y>>] = Common(x, y)
    OBVIOUS
  <2> HIDE DEF w
  <2>1. CASE a = 0 \/ b = 0
    BY <2>0, <2>1 DEF Common
  <2>2. CASE a # 0 /\ a = b
    <3>1. a \in 1..Len(nodes)
      BY <1>1, <2>2
    <3>2. Common(a, b) = a
      BY <2>2, <3>1, CommonIs
    <3> QED  BY <2>0, <2>2, <3>2
  <2>3. CASE ~(a = 0 \/ b = 0 \/ a = b)
    <3>1. /\ a \in 1..Len(nodes) /\ b \in 1..Len(nodes)
          /\ nodes[a].depth \in Nat /\ nodes[b].depth \in Nat
          /\ nodes[a].depth >= nodes[b].depth => nodes[a].parent \in 0..v1
          /\ nodes[b].depth >= nodes[a].depth => nodes[b].parent \in 0..v2
      BY <1>2, <2>3
    <3>2. \A x \in 0..v1, y \in 0..v2 : w[<<x, y>>] = Common(x, y)
      BY <2>0
    <3>3. CASE nodes[a].depth > nodes[b].depth
      <4>1. Common(a, b) = Common(nodes[a].parent, b) /\ nodes[a].parent \in 0..v1
        BY <2>3, <3>1, <3>3, CommonStep
      <4> QED  BY <2>3, <3>2, <3>3, <4>1
    <3>4. CASE nodes[b].depth > nodes[a].depth
      <4>1. Common(a, b) = Common(a, nodes[b].parent) /\ nodes[b].parent \in 0..v2
        BY <2>3, <3>1, <3>4, CommonStep
      <4>2. ~(nodes[a].depth > nodes[b].depth)
        BY <3>1, <3>4
      <4> QED  BY <2>3, <3>2, <3>4, <4>1, <4>2
    <3>5. CASE nodes[a].depth = nodes[b].depth
      <4>1. /\ Common(a, b) = Common(nodes[a].parent, nodes[b].parent)
            /\ nodes[a].parent \in 0..v1 /\ nodes[b].parent \in 0..v2
        BY <2>3, <3>1, <3>5, CommonStep
      <4>2. ~(nodes[a].depth > nodes[b].depth) /\ ~(nodes[b].depth > nodes[a].depth)
        BY <3>1, <3>5
      <4> QED  BY <2>3, <3>2, <4>1, <4>2
    <3> QED  BY <3>1, <3>3, <3>4, <3>5
  <2> QED  BY <2>1, <2>2, <2>3
<1>4. LcaRule(v1, v2, w)
  <2>1. w = [p \in (0..v1) \X (0..v2) |-> w[p]]
    OBVIOUS
  <2> HIDE DEF w
  <2>2. ASSUME NEW p \in (0..v1) \X (0..v2)  PROVE p = <<p[1], p[2]>> /\ Rule(w, p[1], p[2])
    BY <1>3
  <2> QED  BY <2>1, <2>2 DEF LcaRule
<1>5. LcaRule(v1, v2, f)
  <2> HIDE DEF w
  <2> QED  BY <1>4
<1>6. Lca(v1, v2) = f[<<v1, v2>>]
  BY DEF Lca, LcaRule
<1>7. v1 \in 0..v1 /\ v2 \in 0..v2
  BY <1>1
<1>8. w[<<v1, v2>>] = Common(v1, v2)
  BY <1>7
<1> HIDE DEF w, f
<1>9. ASSUME NEW a \in 0..v1, NEW b \in 0..v2  PROVE Rule(f, a, b)
  <2>1. <<a, b>> \in (0..v1) \X (0..v2) /\ <<a, b>>[1] = a /\ <<a, b>>[2] = b
    OBVIOUS
  <2> QED  BY <1>5, <2>1 DEF LcaRule
<1> HIDE DEF Rule
<1> DEFINE Bad == {n \in Nat : \E a \in 0..v1, b \in 0..v2 : n = a + b /\ f[<<a, b>>] # w[<<a, b>>]}
<1>10. Bad = {}
  <2> SUFFICES ASSUME Bad # {}  PROVE FALSE
    OBVIOUS
  <2>1. PICK n \in Bad : \A k \in Bad : n <= k
    <3>1. Bad \in SUBSET Nat
      OBVIOUS
    <3> HIDE DEF Bad
    <3> QED  BY <3>1, SmallestElement
  <2>2. PICK a \in 0..v1, b \in 0..v2 : n = a + b /\ f[<<a, b>>] # w[<<a, b>>]
    BY <2>1
  <2>3. \A c \in 0..v1, d \in 0..v2 : c + d < a + b => f[<<c, d>>] = w[<<c, d>>]
    <3> SUFFICES ASSUME NEW c \in 0..v1, NEW d \in 0..v2, c + d < a + b, f[<<c, d>>] # w[<<c, d>>]
                 PROVE  FALSE
      OBVIOUS
    <3>1. c + d \in Nat /\ c + d \in Bad
      <4>1. c \in Nat /\ d \in Nat /\ c + d \in Nat
        OBVIOUS
      <4> QED  BY <4>1
    <3> HIDE DEF Bad
    <3> QED  BY <2>1, <2>2, <3>1
  <2> HIDE DEF Bad
  <2>4. Rule(f, a, b) /\ Rule(w, a, b)
    BY <1>3, <1>9
  <2>5. CASE a = 0 \/ b = 0 \/ a = b
    BY <2>2, <2>4, <2>5 DEF Rule
  <2>6. CASE ~(a = 0 \/ b = 0 \/ a = b)
    <3>1. /\ nodes[a].depth \in Nat /\ nodes[b].depth \in Nat
          /\ nodes[a].depth >= nodes[b].depth => nodes[a].parent \in 0..v1 /\ nodes[a].parent < a
          /\ nodes[b].depth >= nodes[a].depth => nodes[b].parent \in 0..v2 /\ nodes[b].parent < b
      BY <1>2, <2>6
    <3>2. CASE nodes[a].depth > nodes[b].depth
      <4>1. f[<<nodes[a].parent, b>>] = w[<<nodes[a].parent, b>>]
        BY <2>3, <3>1, <3>2
      <4> QED  BY <2>2, <2>4, <2>6, <3>2, <4>1 DEF Rule
    <3>3. CASE nodes[b].depth > nodes[a].depth
      <4>1. f[<<a, nodes[b].parent>>] = w[<<a, nodes[b].parent>>] /\ ~(nodes[a].depth > nodes[b].depth)
        BY <2>3, <3>1, <3>3
      <4> QED  BY <2>2, <2>4, <2>6, <3>3, <4>1 DEF Rule
    <3>4. CASE nodes[a].depth = nodes[b].depth
      <4>1. /\ f[<<nodes[a].parent, nodes[b].parent>>] = w[<<nodes[a].parent, nodes[b].parent>>]
            /\ ~(nodes[a].depth > nodes[b].depth) /\ ~(nodes[b].depth > nodes[a].depth)
        BY <2>3, <3>1, <3>4
      <4> QED  BY <2>2, <2>4, <2>6, <4>1 DEF Rule
    <3> QED  BY <3>1, <3>2, <3>3, <3>4
  <2> QED  BY <2>5, <2>6
<1>11. f[<<v1, v2>>] = w[<<v1, v2>>]
  <2> SUFFICES ASSUME f[<<v1, v2>>] # w[<<v1, v2>>]  PROVE FALSE
    OBVIOUS
  <2>1. v1 + v2 \in Nat
    BY <1>1
  <2>2. v1 + v2 \in Bad
    BY <1>7, <2>1
  <2> HIDE DEF Bad
  <2> QED  BY <1>10, <2>2
<1> QED  BY <1>6, <1>8, <1>11, CommonIs

-----------------------------------------------------------------------------
(* What a branch may do with an id.                                        *)

Ids(v) == IdsOf(Held(content, v))
Staying(v, rem) == {x \in Held(content, v) : x.id \notin IdsOf(rem)}
Way(a, v) == Line(v) \ Line(a)
TouchingOn(a, v, i) == Touching(Way(a, v), i)

\* What may become of the id i between a and v, of which T are the nodes that touch it.
Untouched(a, v, i, T) ==
  T = {} /\ \A x : x.id = i => (x \in Held(content, v) <=> x \in Held(content, a))
Came(a, v, i, T) ==
  \E m, x : /\ m \in 1..v
            /\ T = {m} /\ x \in nodes[m].inserts /\ x.id = i
            /\ i \notin IdsOf(nodes[m].removes)
            /\ x \in Held(content, v) /\ i \notin Ids(a)
Went(a, v, i, T) ==
  \E m, x : /\ m \in 1..v
            /\ T = {m} /\ x \in nodes[m].removes /\ x.id = i
            /\ i \notin IdsOf(nodes[m].inserts)
            /\ x \in Held(content, a) /\ i \notin Ids(v) /\ i \in Used(v)
CameAndWent(a, v, i, T) ==
  \E m, k, x :
    /\ m \in 1..v /\ k \in 1..v
    /\ T = {m, k} /\ m < k /\ x \in nodes[m].inserts /\ x.id = i
    /\ i \notin IdsOf(nodes[m].removes)
    /\ i \in IdsOf(nodes[k].removes) /\ i \notin IdsOf(nodes[k].inserts)
    /\ i \notin Ids(a) /\ i \notin Ids(v) /\ i \in Used(v)
Lives(a, v, i) ==
  LET T == TouchingOn(a, v, i)
  IN  Untouched(a, v, i, T) \/ Came(a, v, i, T) \/ Went(a, v, i, T) \/ CameAndWent(a, v, i, T)

\* What a version has from its parent p, in terms of the ids used by then.
Heir(v, p) ==
  /\ Held(content, v) = Staying(p, nodes[v].removes) \cup nodes[v].inserts
  /\ nodes[v].removes \subseteq Held(content, p)
  /\ nodes[v].inserts = {} \/ nodes[v].removes = {}
  /\ IdsOf(nodes[v].inserts) \cap Used(p) = {}
  /\ Used(p) \subseteq Used(v) /\ Ids(v) \subseteq Used(v) /\ Ids(p) \subseteq Used(p)

\* What HistoryAt says of a version and its parent, in terms of ids.
LEMMA ParentFacts ==
  ASSUME DInv, NEW v \in 1..Len(nodes), v # 1, NEW p, p = nodes[v].parent
  PROVE  /\ p \in 1..v - 1 /\ p \in 1..Len(nodes)
         /\ Heir(v, p)
<1>1. /\ IInv /\ Len(nodes) \in Nat /\ IsTree(nodes)
  BY DEF DInv, IInv, TypeOK
<1>2. p \in 1..v - 1 /\ p \in 1..Len(nodes)
  BY <1>1 DEF IsTree
<1>3. HistoryAt(nodes, content, v)
  BY DEF DInv, Histories
<1>4. ASSUME NEW m \in 1..Len(nodes)
      PROVE  Ids(m) \subseteq Used(m)
  <2>1. HeldIds(content, m) \subseteq UsedIn(nodes, content, m)
    BY <1>1, UsedStep
  <2>2. Ids(m) = HeldIds(content, m)
    BY DEF Ids, IdsOf, Held, HeldIds
  <2> QED  BY <2>1, <2>2, UsedNow
<1>5. Used(p) \subseteq Used(v)
  <2>1. nodes[v].parent # 0
    BY <1>2
  <2> QED  BY <1>1, <2>1, UsedStep, UsedNow
<1> QED  BY <1>2, <1>3, <1>4, <1>5, UsedNow DEF HistoryAt, Staying, Heir

\* How a branch grows by a version.
LEMMA TouchingMore ==
  ASSUME IInv, NEW v \in 1..Len(nodes), v # 1, NEW p, p = nodes[v].parent, NEW a \in Line(p), NEW i
  PROVE  LET T == TouchingOn(a, p, i)
             U == TouchingOn(a, v, i)
         IN  /\ T \subseteq 1..p
             /\ i \notin IdsOf(nodes[v].inserts) /\ i \notin IdsOf(nodes[v].removes) => U = T
             /\ i \in IdsOf(nodes[v].inserts) \/ i \in IdsOf(nodes[v].removes) => U = T \cup {v}
<1>1. /\ p \in 1..v - 1 /\ p \in 1..Len(nodes) /\ Line(v) = {v} \cup Line(p)
  <2>1. p \in 1..v - 1 /\ Line(v) = {v} \cup Line(p)
    BY LineStep
  <2> QED  BY <2>1 DEF IInv, TypeOK
<1>2. Line(p) \subseteq 1..p
  BY <1>1, LineStep
<1>3. v \notin Line(a)
  <2>1. Line(a) \subseteq Line(p)
    BY <1>1, LinesJoin
  <2> QED  BY <1>1, <1>2, <2>1
<1>4. Line(v) \ Line(a) = {v} \cup (Line(p) \ Line(a))
  BY <1>1, <1>3
<1>5. i \in IdsOf(nodes[v].inserts \cup nodes[v].removes)
        <=> i \in IdsOf(nodes[v].inserts) \/ i \in IdsOf(nodes[v].removes)
  BY DEF IdsOf
<1> QED  BY <1>2, <1>4, <1>5 DEF Touching, TouchingOn, Way

\* On a branch an id is untouched, or it came, went, or came and went, once.
LEMMA EveryIdLives ==
  ASSUME DInv, NEW v \in 1..Len(nodes), NEW a \in Line(v), NEW i
  PROVE  Lives(a, v, i)
<1> DEFINE Bad == {k \in 1..Len(nodes) : \E b \in Line(k) : ~Lives(b, k, i)}
<1> SUFFICES ASSUME Bad # {}  PROVE FALSE
  OBVIOUS
<1>1. PICK m \in Bad : \A k \in Bad : m <= k
  <2>1. Bad \in SUBSET Nat
    OBVIOUS
  <2> HIDE DEF Bad
  <2> QED  BY <2>1, SmallestElement
<1>2. PICK b \in Line(m) : ~Lives(b, m, i)
  BY <1>1
<1>3. m \in 1..Len(nodes) /\ IInv /\ Len(nodes) \in Nat /\ 1 \in 1..Len(nodes)
  BY DEF DInv, IInv, TypeOK
<1>4. b # m
  <2>1. TouchingOn(m, m, i) = {}
    BY DEF TouchingOn, Touching, Way
  <2>2. Lives(m, m, i)
    BY <2>1 DEF Lives, Untouched
  <2> QED  BY <1>2, <2>2
<1>5. m # 1
  BY <1>2, <1>3, <1>4, LineStep
<1>6. PICK p : p = nodes[m].parent
  OBVIOUS
<1>7. p \in 1..m - 1 /\ p \in 1..Len(nodes) /\ b \in Line(p)
  <2>1. p \in 1..m - 1 /\ p \in 1..Len(nodes)
    BY <1>3, <1>5, <1>6, ParentFacts
  <2>2. Line(m) = {m} \cup Line(p)
    BY <1>3, <1>5, <1>6, LineStep
  <2> QED  BY <1>2, <1>4, <2>1, <2>2
<1>8. Lives(b, p, i)
  BY <1>1, <1>3, <1>7
<1> HIDE DEF Bad
<1> DEFINE T == TouchingOn(b, p, i)
           U == TouchingOn(b, m, i)
<1>9. /\ T \subseteq 1..p
      /\ i \notin IdsOf(nodes[m].inserts) /\ i \notin IdsOf(nodes[m].removes) => U = T
      /\ i \in IdsOf(nodes[m].inserts) \/ i \in IdsOf(nodes[m].removes) => U = T \cup {m}
  BY <1>3, <1>5, <1>6, <1>7, TouchingMore
<1>10. /\ Held(content, m) = Staying(p, nodes[m].removes) \cup nodes[m].inserts
       /\ nodes[m].removes \subseteq Held(content, p)
       /\ nodes[m].inserts = {} \/ nodes[m].removes = {}
       /\ IdsOf(nodes[m].inserts) \cap Used(p) = {}
       /\ Used(p) \subseteq Used(m) /\ Ids(m) \subseteq Used(m) /\ Ids(p) \subseteq Used(p)
  <2>1. Heir(m, p)
    BY <1>3, <1>5, <1>6, ParentFacts
  <2> QED  BY <2>1 DEF Heir
<1>11. Untouched(b, p, i, T) \/ Came(b, p, i, T) \/ Went(b, p, i, T) \/ CameAndWent(b, p, i, T)
  BY <1>8 DEF Lives
<1>12. ~(Untouched(b, m, i, U) \/ Came(b, m, i, U) \/ Went(b, m, i, U) \/ CameAndWent(b, m, i, U))
  BY <1>2 DEF Lives
<1>13. \A k \in 1..p : k \in 1..m /\ k < m
  BY <1>3, <1>7
<1>14. m \in 1..m
  BY <1>3
<1> HIDE DEF T, U
<1>15. CASE i \notin IdsOf(nodes[m].inserts) /\ i \notin IdsOf(nodes[m].removes)
  <2>1. U = T
    BY <1>9, <1>15
  <2>2. \A x : x.id = i => (x \in Held(content, m) <=> x \in Held(content, p))
    BY <1>10, <1>15 DEF IdsOf, Staying
  <2>3. i \in Ids(m) <=> i \in Ids(p)
    BY <2>2 DEF Ids, IdsOf
  <2>4. CASE Untouched(b, p, i, T)
    BY <1>12, <2>1, <2>2, <2>4 DEF Untouched
  <2>5. CASE Came(b, p, i, T)
    BY <1>12, <1>13, <2>1, <2>2, <2>5 DEF Came
  <2>6. CASE Went(b, p, i, T)
    BY <1>10, <1>12, <1>13, <2>1, <2>3, <2>6 DEF Went
  <2>7. CASE CameAndWent(b, p, i, T)
    BY <1>10, <1>12, <1>13, <2>1, <2>3, <2>7 DEF CameAndWent
  <2> QED  BY <1>11, <2>4, <2>5, <2>6, <2>7
<1>16. CASE i \in IdsOf(nodes[m].inserts)
  <2>1. U = T \cup {m} /\ i \notin Used(p) /\ i \notin Ids(p) /\ i \notin IdsOf(nodes[m].removes)
    BY <1>9, <1>10, <1>16 DEF IdsOf
  <2>2. PICK x \in nodes[m].inserts : x.id = i
    BY <1>16 DEF IdsOf
  <2>3. Untouched(b, p, i, T)
    <3>1. ~Came(b, p, i, T)
      BY <2>1 DEF Came, Ids, IdsOf
    <3>2. ~Went(b, p, i, T) /\ ~CameAndWent(b, p, i, T)
      BY <2>1 DEF Went, CameAndWent
    <3> QED  BY <1>11, <3>1, <3>2
  <2>4. T = {} /\ i \notin Ids(b)
    BY <2>1, <2>3 DEF Untouched, Ids, IdsOf
  <2>5. Came(b, m, i, U)
    BY <1>10, <1>14, <2>1, <2>2, <2>4 DEF Came
  <2> QED  BY <1>12, <2>5
<1>17. CASE i \in IdsOf(nodes[m].removes)
  <2>1. PICK x \in nodes[m].removes : x.id = i
    BY <1>17 DEF IdsOf
  <2>2. U = T \cup {m} /\ i \notin IdsOf(nodes[m].inserts) /\ x \in Held(content, p)
    BY <1>9, <1>10, <1>17, <2>1 DEF IdsOf
  <2>3. i \in Ids(p) /\ i \in Used(m) /\ i \notin Ids(m)
    <3>1. i \in Ids(p)
      BY <2>1, <2>2 DEF Ids, IdsOf
    <3>2. nodes[m].inserts = {}
      BY <1>10, <2>1
    <3>3. i \notin Ids(m)
      BY <1>10, <1>17, <3>2 DEF Ids, IdsOf, Staying
    <3> QED  BY <1>10, <3>1, <3>3
  <2>4. CASE Untouched(b, p, i, T)
    <3>1. T = {} /\ x \in Held(content, b)
      BY <2>1, <2>2, <2>4 DEF Untouched
    <3>2. Went(b, m, i, U)
      BY <1>14, <2>1, <2>2, <2>3, <3>1 DEF Went
    <3> QED  BY <1>12, <3>2
  <2>5. CASE Came(b, p, i, T)
    <3>1. PICK k, y : /\ k \in 1..p
                      /\ T = {k} /\ y \in nodes[k].inserts /\ y.id = i
                      /\ i \notin IdsOf(nodes[k].removes) /\ i \notin Ids(b)
      BY <2>5 DEF Came
    <3>2. U = {k, m} /\ k \in 1..m /\ k < m
      BY <1>13, <2>2, <3>1
    <3>3. CameAndWent(b, m, i, U)
      BY <1>14, <1>17, <2>2, <2>3, <3>1, <3>2 DEF CameAndWent
    <3> QED  BY <1>12, <3>3
  <2>6. ~Went(b, p, i, T) /\ ~CameAndWent(b, p, i, T)
    BY <2>3 DEF Went, CameAndWent
  <2> QED  BY <1>11, <2>4, <2>5, <2>6
<1> QED  BY <1>15, <1>16, <1>17

-----------------------------------------------------------------------------
(* What map_spatial_diff reads off a branch.                               *)

\* values[i] of a branch that touches the id, and what a branch inserted.
Oldest(T) == nodes[Min(T)]
FirstOf(T, i) == CHOOSE x \in Oldest(T).inserts \cup Oldest(T).removes : x.id = i
InsertedOn(a, v) == UNION {nodes[m].inserts : m \in Way(a, v)}

\* The smallest and the largest of one or two numbers.
LEMMA EndsOfPairs ==
  ASSUME NEW m \in Nat, NEW k \in Nat, m <= k
  PROVE  Min({m, k}) = m /\ Max({m, k}) = k
<1>1. \A x \in {m, k} : x = m \/ x = k
  OBVIOUS
<1>2. Min({m, k}) \in {m, k} /\ \A y \in {m, k} : Min({m, k}) <= y
  <2>1. \E x \in {m, k} : \A y \in {m, k} : x <= y
    OBVIOUS
  <2> QED  BY <2>1 DEF Min
<1>3. Max({m, k}) \in {m, k} /\ \A y \in {m, k} : Max({m, k}) >= y
  <2>1. \E x \in {m, k} : \A y \in {m, k} : x >= y
    OBVIOUS
  <2> QED  BY <2>1 DEF Max
<1> QED  BY <1>1, <1>2, <1>3

\* Two values of a version that have one id are one.
LEMMA OneOf ==
  ASSUME DInv, NEW v \in 1..Len(nodes)
  PROVE  \A x, y \in Held(content, v) : x.id = y.id => x = y
BY DEF DInv, Histories, OneValuePerId

\* state[i] is what became of the id between the two ends of the branch.
LEMMA StateTells ==
  ASSUME DInv, NEW v \in 1..Len(nodes), NEW a \in Line(v), NEW i
  PROVE  State(Way(a, v), i) = (IF i \in Ids(v) THEN 1 ELSE 0) - (IF i \in Ids(a) THEN 1 ELSE 0)
<1> DEFINE T == TouchingOn(a, v, i)
<1>1. State(Way(a, v), i) = IF T = {} THEN 0
                            ELSE IF i \in IdsOf(nodes[Max(T)].inserts) THEN 1
                            ELSE IF \E m \in T : i \in IdsOf(nodes[m].inserts) THEN 0
                            ELSE -1
  BY DEF State, TouchingOn
<1>2. Untouched(a, v, i, T) \/ Came(a, v, i, T) \/ Went(a, v, i, T) \/ CameAndWent(a, v, i, T)
  BY EveryIdLives DEF Lives
<1> HIDE DEF T
<1>3. CASE Untouched(a, v, i, T)
  <2>1. T = {} /\ (i \in Ids(v) <=> i \in Ids(a))
    BY <1>3 DEF Untouched, Ids, IdsOf
  <2> QED  BY <1>1, <2>1
<1>4. CASE Came(a, v, i, T)
  <2>1. PICK m \in 1..v : T = {m} /\ i \in IdsOf(nodes[m].inserts) /\ i \in Ids(v) /\ i \notin Ids(a)
    BY <1>4 DEF Came, Ids, IdsOf
  <2>2. Max(T) = m /\ T # {}
    <3>1. m \in Nat /\ m <= m /\ T = {m, m}
      BY <2>1
    <3> QED  BY <3>1, EndsOfPairs
  <2> QED  BY <1>1, <2>1, <2>2
<1>5. CASE Went(a, v, i, T)
  <2>1. PICK m \in 1..v : T = {m} /\ i \notin IdsOf(nodes[m].inserts) /\ i \notin Ids(v) /\ i \in Ids(a)
    BY <1>5 DEF Went, Ids, IdsOf
  <2>2. Max(T) = m /\ T # {}
    <3>1. m \in Nat /\ m <= m /\ T = {m, m}
      BY <2>1
    <3> QED  BY <3>1, EndsOfPairs
  <2> QED  BY <1>1, <2>1, <2>2
<1>6. CASE CameAndWent(a, v, i, T)
  <2>1. PICK m \in 1..v, k \in 1..v : /\ T = {m, k} /\ m < k /\ i \in IdsOf(nodes[m].inserts)
                                      /\ i \notin IdsOf(nodes[k].inserts)
                                      /\ i \notin Ids(v) /\ i \notin Ids(a)
    BY <1>6 DEF CameAndWent, Ids, IdsOf
  <2>2. Max(T) = k /\ T # {}
    <3>1. m \in Nat /\ k \in Nat /\ m <= k
      BY <2>1
    <3> QED  BY <2>1, <3>1, EndsOfPairs
  <2> QED  BY <1>1, <2>1, <2>2
<1> QED  BY <1>2, <1>3, <1>4, <1>5, <1>6

\* The oldest node that touches an id names the value the branch started or came with.
LEMMA FirstTells ==
  ASSUME DInv, NEW v \in 1..Len(nodes), NEW a \in Line(v), NEW i, TouchingOn(a, v, i) # {}
  PROVE  LET x0 == FirstOf(TouchingOn(a, v, i), i)
         IN  /\ x0 \in Values /\ x0.id = i
             /\ i \in Ids(v) => x0 \in Held(content, v)
             /\ i \in Ids(a) => x0 \in Held(content, a)
             /\ i \notin Ids(a) => x0 \in InsertedOn(a, v)
<1> DEFINE T == TouchingOn(a, v, i)
           x0 == FirstOf(T, i)
<1>1. T # {} /\ T \subseteq Way(a, v) /\ Way(a, v) \subseteq 1..Len(nodes)
  BY DEF TouchingOn, Touching, Way, Line
<1>2. \/ Came(a, v, i, T) \/ Went(a, v, i, T) \/ CameAndWent(a, v, i, T)
  BY <1>1, EveryIdLives DEF Lives, Untouched
<1>3. IInv /\ a \in 1..Len(nodes) /\ Len(nodes) \in Nat
  BY DEF DInv, IInv, TypeOK, Line
<1> HIDE DEF T
<1>4. ASSUME NEW m \in T, Min(T) = m, NEW x \in nodes[m].inserts, x.id = i, i \notin IdsOf(nodes[m].removes)
      PROVE  x0 \in nodes[m].inserts /\ x0.id = i
  <2>1. x0 = CHOOSE y \in nodes[m].inserts \cup nodes[m].removes : y.id = i
    BY <1>4 DEF FirstOf, Oldest
  <2>2. x0 \in nodes[m].inserts \cup nodes[m].removes /\ x0.id = i
    <3> HIDE DEF x0
    <3> QED  BY <1>4, <2>1
  <2> HIDE DEF x0
  <2> QED  BY <1>4, <2>2 DEF IdsOf
<1>5. ASSUME NEW m \in T, Min(T) = m, NEW x \in nodes[m].removes, x.id = i, i \notin IdsOf(nodes[m].inserts)
      PROVE  x0 \in nodes[m].removes /\ x0.id = i
  <2>1. x0 = CHOOSE y \in nodes[m].inserts \cup nodes[m].removes : y.id = i
    BY <1>5 DEF FirstOf, Oldest
  <2>2. x0 \in nodes[m].inserts \cup nodes[m].removes /\ x0.id = i
    <3> HIDE DEF x0
    <3> QED  BY <1>5, <2>1
  <2> HIDE DEF x0
  <2> QED  BY <1>5, <2>2 DEF IdsOf
<1> HIDE DEF x0
<1>6. \A m \in T : nodes[m].inserts \subseteq InsertedOn(a, v)
                   /\ nodes[m].inserts \subseteq Values /\ nodes[m].removes \subseteq Values
  <2>1. \A m \in T : m \in 1..Len(nodes) /\ m \in Way(a, v)
    BY <1>1
  <2> QED  BY <1>3, <2>1, NodeTypes DEF InsertedOn
<1>7. CASE Came(a, v, i, T)
  <2>1. PICK m, x : /\ m \in 1..v
                    /\ T = {m} /\ x \in nodes[m].inserts /\ x.id = i
                    /\ i \notin IdsOf(nodes[m].removes)
                    /\ x \in Held(content, v) /\ i \notin Ids(a)
    BY <1>7 DEF Came
  <2>2. Min(T) = m /\ m \in T
    <3>1. m \in Nat /\ m <= m /\ T = {m, m}
      BY <2>1
    <3> QED  BY <3>1, EndsOfPairs
  <2>3. x0 \in nodes[m].inserts /\ x0.id = i
    BY <1>4, <2>1, <2>2
  <2>4. m # 1 /\ m \in 1..Len(nodes)
    <3>1. m \in 1..Len(nodes)
      BY <1>1, <2>2
    <3>2. HistoryAt(nodes, content, m)
      BY <3>1 DEF DInv, Histories
    <3> QED  BY <2>1, <3>1, <3>2 DEF HistoryAt
  <2>5. x0 = x
    <3>1. nodes[m].inserts \subseteq Held(content, m)
      BY <2>4 DEF DInv, Histories, HistoryAt
    <3> QED  BY <2>1, <2>3, <2>4, <3>1, OneOf
  <2> QED  BY <1>6, <2>1, <2>2, <2>3, <2>5 DEF x0, T
<1>8. CASE Went(a, v, i, T)
  <2>1. PICK m, x : /\ m \in 1..v
                    /\ T = {m} /\ x \in nodes[m].removes /\ x.id = i
                    /\ i \notin IdsOf(nodes[m].inserts)
                    /\ x \in Held(content, a) /\ i \notin Ids(v)
    BY <1>8 DEF Went
  <2>2. Min(T) = m /\ m \in T
    <3>1. m \in Nat /\ m <= m /\ T = {m, m}
      BY <2>1
    <3> QED  BY <3>1, EndsOfPairs
  <2>3. x0 \in nodes[m].removes /\ x0.id = i
    BY <1>5, <2>1, <2>2
  <2>4. m # 1 /\ m \in 1..Len(nodes)
    <3>1. m \in 1..Len(nodes)
      BY <1>1, <2>2
    <3>2. HistoryAt(nodes, content, m)
      BY <3>1 DEF DInv, Histories
    <3> QED  BY <2>1, <3>1, <3>2 DEF HistoryAt
  <2>5. x0 = x
    <3>1. PICK p : p = nodes[m].parent
      OBVIOUS
    <3>2. p \in 1..Len(nodes) /\ nodes[m].removes \subseteq Held(content, p)
      BY <2>4, <3>1, ParentFacts DEF Heir
    <3> QED  BY <2>1, <2>3, <3>2, OneOf
  <2>6. i \in Ids(a)
    BY <2>1 DEF Ids, IdsOf
  <2> QED  BY <1>6, <2>1, <2>2, <2>3, <2>5, <2>6 DEF x0, T
<1>9. CASE CameAndWent(a, v, i, T)
  <2>1. PICK m, k, x :
            /\ m \in 1..v /\ k \in 1..v
            /\ T = {m, k} /\ m < k /\ x \in nodes[m].inserts /\ x.id = i
            /\ i \notin IdsOf(nodes[m].removes) /\ i \notin Ids(a) /\ i \notin Ids(v)
    BY <1>9 DEF CameAndWent
  <2>2. Min(T) = m /\ m \in T
    <3>1. m \in Nat /\ k \in Nat /\ m <= k
      BY <2>1
    <3> QED  BY <2>1, <3>1, EndsOfPairs
  <2>3. x0 \in nodes[m].inserts /\ x0.id = i
    BY <1>4, <2>1, <2>2
  <2> QED  BY <1>6, <2>1, <2>2, <2>3 DEF x0, T
<1> QED  BY <1>2, <1>7, <1>8, <1>9

\* An id that no node of the branch touches has what it had.
LEMMA UntouchedStays ==
  ASSUME DInv, NEW v \in 1..Len(nodes), NEW a \in Line(v), NEW i, TouchingOn(a, v, i) = {}
  PROVE  \A x : x.id = i => (x \in Held(content, v) <=> x \in Held(content, a))
<1>1. Lives(a, v, i)
  BY EveryIdLives
<1> QED  BY <1>1 DEF Lives, Untouched, Came, Went, CameAndWent

\* A value that was there before the branch is the same after it; one that was not was
\* inserted on it.
LEMMA ValuesStay ==
  ASSUME DInv, NEW v \in 1..Len(nodes), NEW a \in Line(v), NEW y \in Held(content, v)
  PROVE  /\ y.id \in Ids(a) => y \in Held(content, a)
         /\ y.id \notin Ids(a) => y \in InsertedOn(a, v)
<1> DEFINE i == y.id
           x0 == FirstOf(TouchingOn(a, v, i), i)
<1>1. CASE TouchingOn(a, v, i) = {}
  BY <1>1, UntouchedStays DEF Ids, IdsOf
<1>2. CASE TouchingOn(a, v, i) # {}
  <2>1. i \in Ids(v)
    BY DEF Ids, IdsOf
  <2>2. /\ x0.id = i /\ x0 \in Held(content, v)
        /\ i \in Ids(a) => x0 \in Held(content, a)
        /\ i \notin Ids(a) => x0 \in InsertedOn(a, v)
    <3> HIDE DEF i
    <3> QED  BY <1>2, <2>1, FirstTells
  <2>3. x0 = y
    <3> HIDE DEF x0
    <3> QED  BY <2>2, OneOf
  <2> QED  BY <2>2, <2>3
<1> QED  BY <1>1, <1>2

\* The two branches of a diff, from the version both come from.
Diffable(v1, v2, a) ==
  /\ v1 \in 1..Len(nodes) /\ v2 \in 1..Len(nodes)
  /\ a \in Line(v1) /\ a \in Line(v2)
Told(v1, v2, a, i) == ValueOf(Way(a, v1), Way(a, v2), i)
Clashing(v1, v2, a, i) ==
  \E y \in InsertedOn(a, v1), z \in InsertedOn(a, v2) : y.id = i /\ z.id = i /\ z # y

\* values[i] is what v2's branch says, or else v1's.
LEMMA ToldBy ==
  ASSUME NEW v1, NEW v2, NEW a, NEW i
  PROVE  Told(v1, v2, a, i) = IF TouchingOn(a, v2, i) # {} THEN FirstOf(TouchingOn(a, v2, i), i)
                              ELSE FirstOf(TouchingOn(a, v1, i), i)
BY DEF Told, ValueOf, TouchingOn, FirstOf, Oldest

\* Of an id that one version has and the other has not, a branch touched it.
LEMMA DifferenceIsTouched ==
  ASSUME DInv, NEW v1, NEW v2, NEW a, Diffable(v1, v2, a), NEW i,
         ~(i \in Ids(v1) <=> i \in Ids(v2))
  PROVE  TouchingOn(a, v1, i) # {} \/ TouchingOn(a, v2, i) # {}
<1>1. TouchingOn(a, v1, i) = {} => (i \in Ids(v1) <=> i \in Ids(a))
  BY UntouchedStays DEF Diffable, Ids, IdsOf
<1>2. TouchingOn(a, v2, i) = {} => (i \in Ids(v2) <=> i \in Ids(a))
  BY UntouchedStays DEF Diffable, Ids, IdsOf
<1> QED  BY <1>1, <1>2

\* What the diff says of an id that came.
LEMMA AddIsTold ==
  ASSUME DInv, NEW v1, NEW v2, NEW a, Diffable(v1, v2, a), NEW i \in Ids(v2), i \notin Ids(v1)
  PROVE  /\ Told(v1, v2, a, i) \in Held(content, v2) /\ Told(v1, v2, a, i).id = i
         /\ Told(v1, v2, a, i) \in Values
<1>1. CASE TouchingOn(a, v2, i) # {}
  BY <1>1, ToldBy, FirstTells DEF Diffable
<1>2. CASE TouchingOn(a, v2, i) = {}
  <2>1. TouchingOn(a, v1, i) # {}
    BY <1>2, DifferenceIsTouched
  <2>2. i \in Ids(a)
    BY <1>2, UntouchedStays DEF Diffable, Ids, IdsOf
  <2>3. /\ Told(v1, v2, a, i) \in Held(content, a) /\ Told(v1, v2, a, i).id = i
        /\ Told(v1, v2, a, i) \in Values
    BY <1>2, <2>1, <2>2, ToldBy, FirstTells DEF Diffable
  <2> QED  BY <1>2, <2>3, UntouchedStays DEF Diffable
<1> QED  BY <1>1, <1>2

\* What it says of an id that went; the other branch may have meant another value.
LEMMA RemoveIsTold ==
  ASSUME DInv, NEW v1, NEW v2, NEW a, Diffable(v1, v2, a), NEW i \in Ids(v1), i \notin Ids(v2)
  PROVE  /\ Told(v1, v2, a, i).id = i /\ Told(v1, v2, a, i) \in Values
         /\ Told(v1, v2, a, i) \in Held(content, v1) \/ Clashing(v1, v2, a, i)
<1> DEFINE x0 == Told(v1, v2, a, i)
<1>0. PICK y \in Held(content, v1) : y.id = i
  BY DEF Ids, IdsOf
<1>1. CASE TouchingOn(a, v2, i) = {}
  <2>1. TouchingOn(a, v1, i) # {}
    BY <1>1, DifferenceIsTouched
  <2> QED  BY <1>1, <2>1, ToldBy, FirstTells DEF Diffable
<1>2. CASE TouchingOn(a, v2, i) # {}
  <2>1. /\ x0.id = i /\ x0 \in Values
        /\ i \in Ids(a) => x0 \in Held(content, a)
        /\ i \notin Ids(a) => x0 \in InsertedOn(a, v2)
    BY <1>2, ToldBy, FirstTells DEF Diffable
  <2> HIDE DEF x0
  <2>2. CASE i \in Ids(a)
    <3>1. y \in Held(content, a) /\ a \in 1..Len(nodes)
      BY <1>0, <2>2, ValuesStay DEF Diffable, Line
    <3>2. x0 = y
      BY <1>0, <2>1, <2>2, <3>1, OneOf
    <3> QED  BY <1>0, <2>1, <3>2 DEF x0
  <2>3. CASE i \notin Ids(a)
    <3>1. y \in InsertedOn(a, v1)
      BY <1>0, <2>3, ValuesStay DEF Diffable
    <3> QED  BY <1>0, <2>1, <2>3, <3>1 DEF x0, Clashing
  <2> QED  BY <2>2, <2>3
<1> QED  BY <1>1, <1>2

\* Of ids that clash nowhere, both versions mean the same value.
LEMMA NoClash ==
  ASSUME DInv, NEW v1, NEW v2, NEW a, Diffable(v1, v2, a),
         NEW x \in Held(content, v1), NEW y \in Held(content, v2), x.id = y.id,
         ~Clashing(v1, v2, a, x.id)
  PROVE  x = y
<1>1. a \in 1..Len(nodes)
  BY DEF Diffable, Line
<1>2. CASE x.id \in Ids(a)
  <2>1. x \in Held(content, a) /\ y \in Held(content, a)
    BY <1>2, ValuesStay DEF Diffable
  <2> QED  BY <1>1, <2>1, OneOf
<1>3. CASE x.id \notin Ids(a)
  <2>1. x \in InsertedOn(a, v1) /\ y \in InsertedOn(a, v2)
    BY <1>3, ValuesStay DEF Diffable
  <2> QED  BY <2>1 DEF Clashing
<1> QED  BY <1>2, <1>3

\* The ids of the diff.
Net(v1, v2, a, i) == State(Way(a, v2), i) - State(Way(a, v1), i)
Touched(v1, v2, a) == {i \in IdsOf(Values) : Touching(Way(a, v1) \cup Way(a, v2), i) # {}}

\* What came has net 1, what went -1.
LEMMA NetTells ==
  ASSUME DInv, NEW v1, NEW v2, NEW a, Diffable(v1, v2, a)
  PROVE  /\ {i \in Touched(v1, v2, a) : Net(v1, v2, a, i) > 0} = Ids(v2) \ Ids(v1)
         /\ {i \in Touched(v1, v2, a) : Net(v1, v2, a, i) < 0} = Ids(v1) \ Ids(v2)
<1> DEFINE net(i) == Net(v1, v2, a, i)
           touched == Touched(v1, v2, a)
           one(v, i) == IF i \in Ids(v) THEN 1 ELSE 0
<1>1. ASSUME NEW i
      PROVE  /\ net(i) > 0 <=> i \in Ids(v2) /\ i \notin Ids(v1)
             /\ net(i) < 0 <=> i \in Ids(v1) /\ i \notin Ids(v2)
  <2>1. State(Way(a, v2), i) = one(v2, i) - one(a, i)
    BY StateTells DEF Diffable
  <2>2. State(Way(a, v1), i) = one(v1, i) - one(a, i)
    BY StateTells DEF Diffable
  <2>3. net(i) = one(v2, i) - one(v1, i)
    BY <2>1, <2>2 DEF Net
  <2> QED  BY <2>3
<1>2. ASSUME NEW i, ~(i \in Ids(v1) <=> i \in Ids(v2))
      PROVE  i \in touched
  <2>1. Touching(Way(a, v1) \cup Way(a, v2), i) # {}
    <3>1. TouchingOn(a, v1, i) # {} \/ TouchingOn(a, v2, i) # {}
      BY <1>2, DifferenceIsTouched
    <3> QED  BY <3>1 DEF TouchingOn, Touching
  <2>2. i \in IdsOf(Values)
    <3>1. CASE i \in Ids(v1)
      <4>1. Told(v1, v2, a, i).id = i /\ Told(v1, v2, a, i) \in Values
        BY <1>2, <3>1, RemoveIsTold
      <4> QED  BY <4>1 DEF IdsOf
    <3>2. CASE i \in Ids(v2)
      <4>1. Told(v1, v2, a, i).id = i /\ Told(v1, v2, a, i) \in Values
        BY <1>2, <3>2, AddIsTold
      <4> QED  BY <4>1 DEF IdsOf
    <3> QED  BY <1>2, <3>1, <3>2
  <2> QED  BY <2>1, <2>2 DEF Touched
<1> HIDE DEF net, touched
<1>3. {i \in touched : net(i) > 0} = Ids(v2) \ Ids(v1)
  BY <1>1, <1>2
<1>4. {i \in touched : net(i) < 0} = Ids(v1) \ Ids(v2)
  BY <1>1, <1>2
<1> QED  BY <1>3, <1>4 DEF net, touched

\* The diff, in terms of what is told.
LEMMA DiffIs ==
  ASSUME DInv, NEW v1 \in 1..Len(nodes), NEW v2 \in 1..Len(nodes), NEW q
  PROVE  LET a == Lca(v1, v2)
             values(ids) == {x \in {Told(v1, v2, a, i) : i \in ids} : x.at \in q}
         IN  /\ Diffable(v1, v2, a)
             /\ MapSpatialDiff(v1, v2, q).add = values(Ids(v2) \ Ids(v1))
             /\ MapSpatialDiff(v1, v2, q).remove = values(Ids(v1) \ Ids(v2))
             /\ Branch(v1, a) = Way(a, v1) /\ Branch(v2, a) = Way(a, v2)
<1>1. PICK a : a = Lca(v1, v2)
  OBVIOUS
<1>2. Diffable(v1, v2, a)
  BY <1>1, LcaIs DEF Diffable
<1>3. Branch(v1, a) = Way(a, v1) /\ Branch(v2, a) = Way(a, v2)
  BY <1>2, BranchIs DEF DInv, Diffable, Way
<1> DEFINE net(i) == Net(v1, v2, a, i)
           touched == Touched(v1, v2, a)
           values(ids) == {x \in {Told(v1, v2, a, i) : i \in ids} : x.at \in q}
<1>4. /\ MapSpatialDiff(v1, v2, q).add = values({i \in touched : net(i) > 0})
      /\ MapSpatialDiff(v1, v2, q).remove = values({i \in touched : net(i) < 0})
  BY <1>1, <1>3 DEF MapSpatialDiff, Told, Net, Touched
<1>5. /\ {i \in touched : net(i) > 0} = Ids(v2) \ Ids(v1)
      /\ {i \in touched : net(i) < 0} = Ids(v1) \ Ids(v2)
  BY <1>2, NetTells
<1> HIDE DEF touched, net
<1> QED  BY <1>1, <1>2, <1>3, <1>4, <1>5

\* Versions with histories have exact diffs.
LEMMA DiffsOfHistories == DInv => SpatialDiffsAreExact
<1> SUFFICES ASSUME DInv, NEW v1 \in DOMAIN nodes, NEW v2 \in DOMAIN nodes
             PROVE
    LET held(v) == {o[1] : o \in content[v]}
        inserted(v) == UNION {nodes[m].inserts : m \in Branch(v, Lca(v1, v2))}
        clashes == {x.id : x \in {y \in inserted(v1) : \E z \in inserted(v2) :
                                                       z.id = y.id /\ z # y}}
        sure(S) == {x \in S : x.id \notin clashes}
    IN  /\ \A q \in SUBSET {x.at : x \in Values} :
             LET diff == MapSpatialDiff(v1, v2, q)
                 within(v) == {x \in held(v) : x.at \in q}
             IN  /\ sure(diff.add) = sure(within(v2) \ within(v1))
                 /\ sure(diff.remove) = sure(within(v1) \ within(v2))
        /\ LET diff == MapSpatialDiff(v1, v2, {x.at : x \in Values})
           IN  /\ IdsOf(diff.add) = IdsOf(held(v2)) \ IdsOf(held(v1))
               /\ IdsOf(diff.remove) = IdsOf(held(v1)) \ IdsOf(held(v2))
  BY DEF SpatialDiffsAreExact
<1>1. v1 \in 1..Len(nodes) /\ v2 \in 1..Len(nodes)
  BY DEF DInv, IInv, TypeOK
<1>2. PICK a : a = Lca(v1, v2)
  OBVIOUS
<1> DEFINE held(v) == {o[1] : o \in content[v]}
           inserted(v) == UNION {nodes[m].inserts : m \in Branch(v, Lca(v1, v2))}
           clashes == {x.id : x \in {y \in inserted(v1) : \E z \in inserted(v2) :
                                                          z.id = y.id /\ z # y}}
           sure(S) == {x \in S : x.id \notin clashes}
           within(v, q) == {x \in held(v) : x.at \in q}
           told(ids, q) == {x \in {Told(v1, v2, a, i) : i \in ids} : x.at \in q}
           came == Ids(v2) \ Ids(v1)
           went == Ids(v1) \ Ids(v2)
<1>3. Diffable(v1, v2, a) /\ Branch(v1, a) = Way(a, v1) /\ Branch(v2, a) = Way(a, v2)
  BY <1>1, <1>2, DiffIs
<1>4. \A q : /\ MapSpatialDiff(v1, v2, q).add = told(came, q)
             /\ MapSpatialDiff(v1, v2, q).remove = told(went, q)
  BY <1>1, <1>2, DiffIs
<1>5. \A i : i \in clashes <=> Clashing(v1, v2, a, i)
  <2>1. inserted(v1) = InsertedOn(a, v1) /\ inserted(v2) = InsertedOn(a, v2)
    BY <1>2, <1>3 DEF InsertedOn
  <2> HIDE DEF inserted
  <2> QED  BY <2>1 DEF Clashing
<1>6. \A v : held(v) = Held(content, v) /\ Ids(v) = IdsOf(held(v))
  BY DEF Held, Ids
<1> HIDE DEF clashes, held
<1>7. \A i \in came : /\ Told(v1, v2, a, i) \in held(v2) /\ Told(v1, v2, a, i).id = i
                      /\ Told(v1, v2, a, i) \in Values
  BY <1>3, <1>6, AddIsTold
<1>8. \A i \in went : /\ Told(v1, v2, a, i).id = i /\ Told(v1, v2, a, i) \in Values
                      /\ Told(v1, v2, a, i) \in held(v1) \/ i \in clashes
  BY <1>3, <1>5, <1>6, RemoveIsTold
<1>9. \A x \in held(v1), y \in held(v2) : x.id = y.id => x = y \/ x.id \in clashes
  BY <1>3, <1>5, <1>6, NoClash
<1>10. \A v \in {v1, v2} : \A x, y \in held(v) : x.id = y.id => x = y
  BY <1>1, <1>6, OneOf
<1>11. \A v : \A x \in held(v) : x.id \in Ids(v)
  BY <1>6 DEF IdsOf
<1>12. \A v : \A i \in Ids(v) : \E x \in held(v) : x.id = i
  BY <1>6 DEF IdsOf
<1>13. ASSUME NEW q
       PROVE  /\ sure(told(came, q)) = sure(within(v2, q) \ within(v1, q))
              /\ sure(told(went, q)) = sure(within(v1, q) \ within(v2, q))
  <2>1. ASSUME NEW x \in sure(told(came, q))
        PROVE  x \in sure(within(v2, q) \ within(v1, q))
    <3>1. PICK i \in came : x = Told(v1, v2, a, i) /\ x.at \in q /\ x.id \notin clashes
      BY <2>1
    <3> QED  BY <1>7, <1>11, <3>1
  <2>2. ASSUME NEW x \in sure(within(v2, q) \ within(v1, q))
        PROVE  x \in sure(told(came, q))
    <3>1. x \in held(v2) /\ x.at \in q /\ x \notin held(v1) /\ x.id \notin clashes
      BY <2>2
    <3>2. x.id \in came
      BY <1>9, <1>11, <1>12, <3>1
    <3>3. x = Told(v1, v2, a, x.id)
      BY <1>7, <1>10, <3>1, <3>2
    <3> HIDE DEF came
    <3> QED  BY <3>1, <3>2, <3>3
  <2>3. ASSUME NEW x \in sure(told(went, q))
        PROVE  x \in sure(within(v1, q) \ within(v2, q))
    <3>1. PICK i \in went : x = Told(v1, v2, a, i) /\ x.at \in q /\ x.id \notin clashes
      BY <2>3
    <3> QED  BY <1>8, <1>11, <3>1
  <2>4. ASSUME NEW x \in sure(within(v1, q) \ within(v2, q))
        PROVE  x \in sure(told(went, q))
    <3>1. x \in held(v1) /\ x.at \in q /\ x \notin held(v2) /\ x.id \notin clashes
      BY <2>4
    <3>2. x.id \in went
      BY <1>9, <1>11, <1>12, <3>1
    <3>3. x = Told(v1, v2, a, x.id)
      BY <1>8, <1>10, <3>1, <3>2
    <3> HIDE DEF went
    <3> QED  BY <3>1, <3>2, <3>3
  <2> HIDE DEF sure, told, within
  <2> QED  BY <2>1, <2>2, <2>3, <2>4
<1> HIDE DEF sure
<1>14. ASSUME NEW ids, \A i \in ids : Told(v1, v2, a, i).id = i /\ Told(v1, v2, a, i) \in Values
       PROVE  IdsOf(told(ids, {x.at : x \in Values})) = ids
  BY <1>14 DEF IdsOf
<1>15. IdsOf(told(came, {x.at : x \in Values})) = came /\ IdsOf(told(went, {x.at : x \in Values})) = went
  <2> HIDE DEF came, went, told
  <2> QED  BY <1>7, <1>8, <1>14
<1>16. IdsOf(told(came, {x.at : x \in Values})) = IdsOf(held(v2)) \ IdsOf(held(v1))
       /\ IdsOf(told(went, {x.at : x \in Values})) = IdsOf(held(v1)) \ IdsOf(held(v2))
  <2> HIDE DEF told
  <2> QED  BY <1>6, <1>15
<1>17. ASSUME NEW q
       PROVE  LET diff == MapSpatialDiff(v1, v2, q)
              IN  /\ sure(diff.add) = sure(within(v2, q) \ within(v1, q))
                  /\ sure(diff.remove) = sure(within(v1, q) \ within(v2, q))
  <2> HIDE DEF told, came, went, within
  <2> QED  BY <1>4, <1>13
<1>18. LET diff == MapSpatialDiff(v1, v2, {x.at : x \in Values})
       IN  /\ IdsOf(diff.add) = IdsOf(held(v2)) \ IdsOf(held(v1))
           /\ IdsOf(diff.remove) = IdsOf(held(v1)) \ IdsOf(held(v2))
  <2> HIDE DEF told, came, went
  <2> QED  BY <1>4, <1>16
<1> QED  BY <1>17, <1>18 DEF held, sure, clashes

\* Rlog: between any two versions the diff is the difference of what they hold, up to the
\* values of ids on which the two branches disagree.
THEOREM SpatialDiffsExact == Spec => []SpatialDiffsAreExact
<1> QED  BY InitHistory, StepHistory, DiffsOfHistories, PTL DEF Spec

-----------------------------------------------------------------------------
(* PkdLog.                                                                 *)

LastKeptOf(N, n) == LET b == BaseNode(N, n)
                    IN  IF b = 1 THEN 0 ELSE BaseNode(N, N[b].parent)

\* LastKept, of the nodes that are there.
LEMMA LastKeptNow == \A n : LastKept(n) = LastKeptOf(pkdNodes, n)
BY DEF LastKept, LastKeptOf

\* A base has no insertions of later nodes.
BasesAreOlder(N) == \A n \in 1..Len(N) : N[n].base \in SUBSET (Values \X (1..n))

Recent(N, C) == \A n \in 1..Len(N) : View(N, n) = {o \in C[n] : o[2] > LastKeptOf(N, n)}

PkdInv == /\ pkdNodes \in Seq(VNodes) /\ Len(pkdNodes) = Len(nodes) /\ IsTree(pkdNodes)
          /\ RemovedWereUsed(pkdNodes) /\ BasesAreOlder(pkdNodes)
          /\ Recent(pkdNodes, content)

\* What a base still knows goes back to a node before it.
LEMMA LastKeptBounds ==
  ASSUME NEW N, Len(N) \in Nat, IsTree(N), NEW n \in 1..Len(N)
  PROVE  LastKeptOf(N, n) \in Nat /\ LastKeptOf(N, n) < BaseNode(N, n)
<1>1. PICK K \in Nat : K = Len(N) /\ Rooted(N, K)
  BY DEF Rooted, IsTree
<1>2. PICK b : b = BaseNode(N, n)
  OBVIOUS
<1>3. b \in 1..K
  BY <1>1, <1>2, WalkBounds
<1>4. CASE b = 1
  BY <1>2, <1>4 DEF LastKeptOf
<1>5. CASE b # 1
  <2>1. PICK p \in 1..b - 1 : p = N[b].parent
    BY <1>1, <1>3, <1>5 DEF IsTree
  <2>2. p \in 1..K /\ p < b
    BY <1>3, <2>1
  <2>3. BaseNode(N, p) \in 1..p
    BY <1>1, <2>2, WalkBounds
  <2>4. LastKeptOf(N, n) = BaseNode(N, p)
    BY <1>2, <1>5, <2>1 DEF LastKeptOf
  <2> QED  BY <1>2, <1>3, <2>1, <2>2, <2>3, <2>4
<1> QED  BY <1>4, <1>5

\* The last node of M, which is N's node v with changes, has a base of pending inserts.
Rebuilt(P, M, n, N, v, ins, rem) ==
  \E k \in 0..Unset(M, n) :
    P = [M EXCEPT ![n] = BaseOf(N, v, ins, rem, View(M, n) \ M[BaseNode(M, n)].base,
                                Cardinality(View(M, n)) + k)]

\* PKDLog's check_compact replaces the node by one with a base, or does nothing.
LEMMA PkdCompaction ==
  ASSUME NEW M, NEW n, NEW N, NEW v, NEW ins, NEW rem, NodeAdded(M, n, N, v, ins, rem),
         NEW P \in PkdCheckCompact(M)
  PROVE  P = M \/ Rebuilt(P, M, n, N, v, ins, rem)
<1> USE DEF NodeAdded
<1>1. CASE ~(M[n].log * Den >= Num * M[n].size)
  BY <1>1 DEF PkdCheckCompact
<1>2. CASE M[n].log * Den >= Num * M[n].size
  <2>1. PICK base : base = View(M, n) \ M[BaseNode(M, n)].base
    OBVIOUS
  <2>2. PICK k \in 0..Unset(M, n) :
          P = [M EXCEPT ![n].cached = TRUE, ![n].base = base,
                        ![n].size = Cardinality(View(M, n)) + k, ![n].log = 0]
    BY <1>2, <2>1, ZenonT(40) DEF PkdCheckCompact
  <2>3. PICK size : size = Cardinality(View(M, n)) + k
    OBVIOUS
  <2>4. [M[n] EXCEPT !.cached = TRUE, !.base = base, !.size = size, !.log = 0]
          = BaseOf(N, v, ins, rem, base, size)
    BY NodeToBase
  <2>5. P = [M EXCEPT ![n] = [M[n] EXCEPT !.cached = TRUE, !.base = base, !.size = size, !.log = 0]]
    BY <2>2, <2>3
  <2>6. P = [M EXCEPT ![n] = BaseOf(N, v, ins, rem, base, size)]
    BY <2>4, <2>5
  <2> QED  BY <2>1, <2>3, <2>6 DEF Rebuilt
<1> QED  BY <1>1, <1>2

\* A node that is added changes none of the older bases.
LEMMA LastKeptStays ==
  ASSUME NEW N, NEW M, NEW K \in Nat, Len(N) = K, IsTree(N), Rooted(N, K),
         \A m \in 1..K : M[m] = N[m], NEW n \in 1..K
  PROVE  LastKeptOf(M, n) = LastKeptOf(N, n)
<1>1. PICK b : b = BaseNode(N, n)
  OBVIOUS
<1>2. BaseNode(M, n) = b /\ b \in 1..K
  BY <1>1, WalkBounds, WalksStay
<1>3. CASE b = 1
  BY <1>1, <1>2, <1>3 DEF LastKeptOf
<1>4. CASE b # 1
  <2>1. PICK p \in 1..K : p = N[b].parent
    BY <1>2, <1>4 DEF IsTree
  <2>2. BaseNode(M, p) = BaseNode(N, p)
    BY WalksStay
  <2>3. M[b].parent = p
    BY <1>2, <2>1
  <2> QED  BY <1>1, <1>2, <1>4, <2>1, <2>2, <2>3 DEF LastKeptOf
<1> QED  BY <1>3, <1>4

\* A node more, compacted by PKDLog or not.
LEMMA PkdGrow ==
  ASSUME IInv, PkdInv, NEW v, NEW ins, NEW rem, Adds(v, ins, rem),
         pkdNodes' \in PkdCheckCompact(Append(pkdNodes, Node(pkdNodes, v, ins, rem)))
  PROVE  PkdInv'
<1> USE DEF Adds
<1>1. PICK n, Q, M, C, P :
        /\ n = Len(nodes) + 1 /\ Q = pkdNodes /\ P = pkdNodes'
        /\ M = Append(Q, Node(Q, v, ins, rem))
        /\ C = Without(content[v], IdsOf(rem)) \cup OccurrencesOf(ins, n)
  OBVIOUS
<1>2. /\ Q \in Seq(VNodes) /\ Len(Q) = n - 1 /\ Len(Q) > 0 /\ IsTree(Q)
      /\ n \in Nat /\ n - 1 \in Nat /\ v \in 1..n - 1 /\ v # 0 /\ n # 1
      /\ \A m \in 1..n : m \in 1..n - 1 \/ m = n
      /\ Len(nodes) = n - 1
  <2>1. /\ nodes \in Seq(VNodes) /\ Len(nodes) > 0 /\ Q \in Seq(VNodes)
        /\ Len(Q) = Len(nodes) /\ IsTree(Q)
    BY <1>1 DEF IInv, TypeOK, PkdInv
  <2>2. Len(nodes) \in Nat
    BY <2>1
  <2> QED  BY <1>1, <2>1, <2>2
<1>3. /\ NodeAdded(M, n, Q, v, ins, rem) /\ M \in Seq(VNodes) /\ IsTree(M) /\ Len(M) = n
      /\ Rooted(Q, n - 1) /\ \A m \in 1..n - 1 : M[m] = Q[m]
      /\ M[n] = Node(Q, v, ins, rem)
  <2>1. NodeAdded(M, n, Q, v, ins, rem) /\ M \in Seq(VNodes) /\ IsTree(M)
    BY <1>1, <1>2, NewNode
  <2> QED  BY <2>1 DEF NodeAdded
<1>4. PICK b : b = BaseNode(Q, v)
  OBVIOUS
<1>5. /\ Rooted(M, n) /\ BaseNode(M, n) = b /\ b \in 1..v
      /\ \A m \in Path(M, n) : m > b
  <2>1. Rooted(M, n) /\ BaseNode(M, n) = b /\ b \in 1..v
    BY <1>3, <1>4, WalkOfNode
  <2>2. n \in 1..n
    BY <1>2
  <2> QED  BY <1>2, <2>1, <2>2, WalkBounds
<1>6. PICK k : k = LastKeptOf(Q, v)
  OBVIOUS
<1>7. k \in Nat /\ k < b /\ LastKeptOf(M, n) = k
  <2>1. k \in Nat /\ k < b
    BY <1>2, <1>4, <1>6, LastKeptBounds
  <2>2. b = 1 \/ (M[b].parent = Q[b].parent /\ Q[b].parent \in 1..n - 1)
    BY <1>2, <1>3, <1>5 DEF IsTree
  <2>3. \A p \in 1..n - 1 : BaseNode(M, p) = BaseNode(Q, p)
    BY <1>2, <1>3, WalksStay
  <2> QED  BY <1>4, <1>5, <1>6, <2>1, <2>2, <2>3 DEF LastKeptOf
<1>8. RemovedOn(M, n) = RemovedOn(Q, v) \cup IdsOf(rem)
  BY <1>3, RemovedOnNode
<1>9. C \in SUBSET (Values \X (1..n))
  <2>1. content[v] \subseteq Values \X (1..v)
    BY DEF IInv, Dated
  <2> QED  BY <1>1, <1>2, <2>1 DEF Without, OccurrencesOf
<1>10. View(M, n) = {o \in C : o[2] > k}
  <2>1. View(M, n) = Without(View(Q, v), IdsOf(rem))
                      \cup Without(OccurrencesOf(ins, n), RemovedOn(Q, v) \cup IdsOf(rem))
    <3>1. NodeAdded(M, n, Q, v, ins, rem)
      BY <1>3
    <3> QED  BY <3>1, ViewOfNode
  <2>2. View(Q, v) = {o \in content[v] : o[2] > k} /\ RemovedOn(Q, v) \subseteq Used(v)
    BY <1>1, <1>2, <1>6 DEF PkdInv, Recent, RemovedWereUsed
  <2>3. Without(OccurrencesOf(ins, n), RemovedOn(Q, v) \cup IdsOf(rem)) = OccurrencesOf(ins, n)
    BY <2>2 DEF Without, OccurrencesOf, IdsOf
  <2>4. n > k
    BY <1>2, <1>5, <1>7
  <2>5. \A o \in OccurrencesOf(ins, n) : o[2] = n
    BY DEF OccurrencesOf
  <2> QED  BY <1>1, <2>1, <2>2, <2>3, <2>4, <2>5 DEF Without
<1>11. M[b].base = Q[b].base /\ Q[b].base \in SUBSET (Values \X (1..b))
  BY <1>1, <1>2, <1>3, <1>5 DEF PkdInv, BasesAreOlder
<1>12. View(M, n) \ M[b].base = {o \in C : o[2] > b}
  <2>1. ASSUME NEW o \in View(M, n), o \notin M[b].base  PROVE o \in C /\ o[2] > b
    <3>1. o \in PendingOn(M, n)
      BY <1>5, <2>1, ViewParts DEF Without
    <3>2. o[2] \in Path(M, n)
      BY <3>1 DEF PendingOn, OccurrencesOf
    <3> QED  BY <1>5, <1>10, <3>2
  <2>2. ASSUME NEW o \in C, o[2] > b  PROVE o \in View(M, n) /\ o \notin M[b].base
    <3>1. o[2] \in Nat
      BY <1>9
    <3> QED  BY <1>5, <1>7, <1>10, <1>11, <2>2, <3>1
  <2> QED  BY <2>1, <2>2
<1>13. /\ P \in Seq(VNodes) /\ Len(P) = n /\ IsTree(P)
       /\ \A m \in 1..n - 1 : P[m] = Q[m]
       /\ P[n].base \in SUBSET (Values \X (1..n))
       /\ RemovedOn(P, n) \subseteq RemovedOn(M, n)
       /\ View(P, n) = {o \in C : o[2] > LastKeptOf(P, n)}
  <2>1. P = M \/ Rebuilt(P, M, n, Q, v, ins, rem)
    <3>1. P \in PkdCheckCompact(M) /\ NodeAdded(M, n, Q, v, ins, rem)
      BY <1>1, <1>3
    <3> QED  BY <3>1, PkdCompaction
  <2>2. CASE P = M
    <3>1. P[n].base = {}
      BY <1>3, <2>2 DEF Node
    <3> QED  BY <1>3, <1>7, <1>10, <2>2, <3>1
  <2>3. CASE P # M
    <3>1. PICK j, x : /\ j \in 0..Unset(M, n) /\ P = [M EXCEPT ![n] = x]
                      /\ x = BaseOf(Q, v, ins, rem, {o \in C : o[2] > b},
                                     Cardinality(View(M, n)) + j)
      BY <1>5, <1>12, <2>1, <2>3 DEF Rebuilt
    <3>2. Cardinality(View(M, n)) + j \in Nat
      <4>1. View(M, n) \in SUBSET (Values \X (1..n)) /\ n \in Nat
        BY <1>2, <1>9, <1>10
      <4>2. Cardinality(View(M, n)) \in Nat
        BY <4>1, DatedIsFinite
      <4>3. M[b] \in VNodes /\ b \in Nat
        BY <1>2, <1>3, <1>5, ElementOfSeq
      <4>4. M[b].size \in Nat /\ Cardinality(M[b].base) \in Nat
        BY <1>11, <4>3, DatedIsFinite DEF VNodes
      <4>5. Unset(M, n) \in Int
        BY <1>5, <4>4 DEF Unset
      <4> QED  BY <3>1, <4>2, <4>5
    <3>3. /\ x.cached /\ x.base = {o \in C : o[2] > b} /\ x.parent = v
      BY <3>1 DEF BaseOf
    <3>4. x \in VNodes
      <4>1. Q[v] \in VNodes
        BY <1>2, ElementOfSeq
      <4>2. Q[v].depth + 1 \in Nat /\ v \in Nat
        BY <1>2, <4>1, SMTT(30) DEF VNodes
      <4>3. {o \in C : o[2] > b} \in SUBSET Occurrences
        BY <1>2, <1>9, DatedIsFinite
      <4> QED  BY <3>1, <3>2, <4>2, <4>3 DEF BaseOf, VNodes
    <3>5. /\ P \in Seq(VNodes) /\ Len(P) = n
          /\ \A i \in 1..n : P[i] = IF i = n THEN x ELSE M[i]
      BY <1>2, <1>3, <3>1, <3>4, ExceptSeq
    <3>6. P[n] = x /\ \A m \in 1..n - 1 : P[m] = Q[m]
      BY <1>2, <1>3, <3>5
    <3>7. IsTree(P)
      <4>1. ASSUME NEW m \in 1..n
            PROVE  IF m = 1 THEN P[m].cached /\ P[m].parent = 0 ELSE P[m].parent \in 1..m - 1
        BY <1>2, <3>3, <3>6 DEF IsTree
      <4> QED  BY <3>5, <4>1 DEF IsTree
    <3>8. Rooted(P, n)
      BY <1>2, <3>5, <3>7 DEF IsTree, Rooted
    <3>9. /\ BaseNode(P, n) = n /\ RemovedOn(P, n) = {}
          /\ View(P, n) = {o \in C : o[2] > b}
      BY <1>2, <3>3, <3>6, <3>8, ViewOfBase
    <3>10. LastKeptOf(P, n) = b
      <4>1. BaseNode(P, v) = b
        BY <1>2, <1>3, <1>4, <3>6, WalksStay
      <4> QED  BY <1>2, <3>3, <3>6, <3>9, <4>1 DEF LastKeptOf
    <3> QED  BY <1>9, <3>3, <3>5, <3>6, <3>7, <3>9, <3>10
  <2> QED  BY <2>2, <2>3
<1>14. PICK D : D = content'
  OBVIOUS
<1>15. D[n] = C /\ \A m \in 1..n - 1 : D[m] = content[m]
  <2>1. content \in Seq(SUBSET Occurrences) /\ Len(content) = n - 1
    BY <1>2 DEF IInv, TypeOK
  <2>2. C \in SUBSET Occurrences
    BY <1>2, <1>9, DatedIsFinite
  <2>3. D = Append(content, C)
    BY <1>1, <1>14
  <2> QED  BY <1>2, <2>1, <2>2, <2>3, AppendProperties
<1>16. /\ Len(nodes') = n
       /\ \A m \in 1..n - 1 : UsedIn(nodes', content', m) = Used(m)
       /\ Used(v) \subseteq UsedIn(nodes', content', n)
  <2>1. Adds(v, ins, rem)
    OBVIOUS
  <2>2. /\ \A m \in 1..Len(nodes) : UsedIn(nodes', content', m) = Used(m)
        /\ Used(v) \subseteq UsedIn(nodes', content', Len(nodes) + 1)
    BY <2>1, Grow
  <2>3. Len(nodes') = n
    <3>1. IInv'
      BY <2>1, Grow
    <3>2. Len(content') = Len(nodes') /\ content' = Append(content, C)
      BY <1>1, <3>1 DEF IInv, TypeOK
    <3>3. content \in Seq(SUBSET Occurrences) /\ Len(content) = n - 1
      BY <1>2 DEF IInv, TypeOK
    <3>4. C \in SUBSET Occurrences
      BY <1>2, <1>9, DatedIsFinite
    <3> QED  BY <1>2, <3>2, <3>3, <3>4, AppendProperties
  <2> QED  BY <1>1, <1>2, <2>2, <2>3
<1>17. \A m \in 1..n - 1 : /\ View(P, m) = View(Q, m) /\ RemovedOn(P, m) = RemovedOn(Q, m)
                          /\ LastKeptOf(P, m) = LastKeptOf(Q, m)
  <2>1. \A m \in 1..n - 1 : View(P, m) = View(Q, m) /\ RemovedOn(P, m) = RemovedOn(Q, m)
    <3>1. n - 1 \in Nat /\ Rooted(Q, n - 1) /\ \A m \in 1..n - 1 : P[m] = Q[m]
      BY <1>2, <1>3, <1>13
    <3> QED  BY <3>1, ViewsStay
  <2>2. \A m \in 1..n - 1 : LastKeptOf(P, m) = LastKeptOf(Q, m)
    BY <1>2, <1>3, <1>13, LastKeptStays
  <2> QED  BY <2>1, <2>2
<1>18. RemovedWereUsed(pkdNodes)'
  <2>1. \A m \in 1..n - 1 : RemovedOn(Q, m) \subseteq Used(m)
    BY <1>1, <1>2 DEF PkdInv, RemovedWereUsed
  <2>2. \A m \in 1..n : RemovedOn(P, m) \subseteq UsedIn(nodes', content', m)
    <3>1. \A m \in 1..n - 1 : RemovedOn(P, m) \subseteq UsedIn(nodes', content', m)
      BY <1>16, <1>17, <2>1
    <3>2. RemovedOn(P, n) \subseteq UsedIn(nodes', content', n)
      <4>1. RemovedOn(P, n) \subseteq RemovedOn(Q, v) \cup IdsOf(rem)
        BY <1>8, <1>13
      <4>2. RemovedOn(Q, v) \subseteq Used(v) /\ IdsOf(rem) \subseteq Used(v)
        BY <1>2, <2>1
      <4> QED  BY <1>16, <4>1, <4>2
    <3> QED  BY <1>2, <3>1, <3>2
  <2>3. \A m : Used(m)' = UsedIn(nodes', content', m)
    BY DEF Used, UsedIn, HeldIds
  <2>4. pkdNodes' = P /\ Len(P) = n
    BY <1>1, <1>13
  <2> QED  BY <1>16, <2>2, <2>3, <2>4 DEF RemovedWereUsed
<1>19. BasesAreOlder(P)
  BY <1>1, <1>2, <1>13 DEF PkdInv, BasesAreOlder
<1>20. Recent(P, D)
  <2>1. \A m \in 1..n - 1 : View(Q, m) = {o \in content[m] : o[2] > LastKeptOf(Q, m)}
    BY <1>1, <1>2 DEF PkdInv, Recent
  <2>2. ASSUME NEW m \in 1..n  PROVE View(P, m) = {o \in D[m] : o[2] > LastKeptOf(P, m)}
    <3>1. CASE m = n
      BY <1>13, <1>15, <3>1
    <3>2. CASE m \in 1..n - 1
      BY <1>15, <1>17, <2>1, <3>2
    <3> QED  BY <1>2, <3>1, <3>2
  <2> QED  BY <1>13, <2>2 DEF Recent
<1> QED  BY <1>1, <1>13, <1>14, <1>16, <1>18, <1>19, <1>20 DEF PkdInv

\* Every step of PkdLog is a step of VersionLog.
LEMMA PkdStepIsAStep == [PkdNext]_pkdVars => [Next]_vars
BY DEF PkdNext, PkdMapInsert, PkdMapDelete, Next, pkdVars, vars

\* The first version of PKDLog is a base.
LEMMA PkdInitInv == PkdInit => PkdInv
<1> SUFFICES ASSUME PkdInit  PROVE PkdInv
  OBVIOUS
<1>1. IInv /\ pkdNodes = nodes
  BY InitInv DEF PkdInit
<1>2. PICK S \in SUBSET Values :
        /\ nodes = <<[parent |-> 0, depth |-> 0, inserts |-> {}, removes |-> {}, cached |-> TRUE,
                      base |-> OccurrencesOf(S, 1), size |-> Cardinality(S), log |-> 0]>>
        /\ content = <<OccurrencesOf(S, 1)>>
  BY DEF PkdInit, Init
<1>3. PICK occ : occ = OccurrencesOf(S, 1)
  OBVIOUS
<1>4. Len(nodes) = 1 /\ nodes[1].base = occ /\ content[1] = occ /\ nodes[1].cached
  BY <1>2, <1>3
<1>5. occ \in SUBSET (Values \X (1..1)) /\ \A o \in occ : o[2] = 1
  BY <1>3 DEF OccurrencesOf
<1>6. BaseNode(nodes, 1) = 1 /\ View(nodes, 1) = occ
  <2>1. Rooted(nodes, 1)
    BY <1>4 DEF Rooted
  <2> QED  BY <1>4, <2>1, ViewOfBase
<1>7. \A m \in 1..Len(nodes) : m = 1
  BY <1>4
<1>8. BasesAreOlder(nodes)
  BY <1>4, <1>5, <1>7 DEF BasesAreOlder
<1>9. Recent(nodes, content)
  <2>1. LastKeptOf(nodes, 1) = 0
    BY <1>6 DEF LastKeptOf
  <2>2. occ = {o \in occ : o[2] > 0}
    BY <1>5
  <2> QED  BY <1>4, <1>6, <1>7, <2>1, <2>2 DEF Recent
<1> QED  BY <1>1, <1>8, <1>9 DEF IInv, TypeOK, PkdInv

\* Both operations of PKDLog keep the invariant.
LEMMA PkdStepInv == IInv /\ PkdInv /\ [PkdNext]_pkdVars => PkdInv'
<1> SUFFICES ASSUME IInv, PkdInv, [PkdNext]_pkdVars  PROVE PkdInv'
  OBVIOUS
<1>1. ASSUME NEW v \in DOMAIN nodes, NEW S \in SUBSET Values, PkdMapInsert(v, S)
      PROVE  PkdInv'
  <2>1. Adds(v, S, {})
    BY <1>1, InsertAdds DEF PkdMapInsert
  <2> QED  BY <1>1, <2>1, PkdGrow DEF PkdMapInsert
<1>2. ASSUME NEW v \in DOMAIN nodes, NEW S \in SUBSET Values, PkdMapDelete(v, S)
      PROVE  PkdInv'
  <2>1. Adds(v, {}, S)
    BY <1>2, DeleteAdds DEF PkdMapDelete
  <2> QED  BY <1>2, <2>1, PkdGrow DEF PkdMapDelete
<1>3. CASE UNCHANGED pkdVars
  <2>1. nodes' = nodes /\ content' = content /\ pkdNodes' = pkdNodes
    BY <1>3 DEF pkdVars
  <2> QED  BY <2>1 DEF PkdInv, RemovedWereUsed, Used
<1> QED  BY <1>1, <1>2, <1>3 DEF PkdNext

\* PKDLog: whatever the unset places of a base are taken for, a version shows exactly what
\* the history leaves of the insertions after the base before the last one.
THEOREM PkdLogKeepsTheRecent == PkdSpec => []PkdLogsKeepTheRecent
<1>1. PkdInit => PkdInv
  BY PkdInitInv
<1>2. IInv /\ PkdInv /\ [PkdNext]_pkdVars => PkdInv'
  BY PkdStepInv
<1>3. PkdInv => PkdLogsKeepTheRecent
  <2> SUFFICES ASSUME PkdInv, NEW n \in DOMAIN pkdNodes
               PROVE  View(pkdNodes, n) = {o \in content[n] : o[2] > LastKept(n)}
    BY DEF PkdLogsKeepTheRecent
  <2>1. n \in 1..Len(pkdNodes)
    BY DEF PkdInv
  <2> QED  BY <2>1, LastKeptNow DEF PkdInv, Recent
<1>4. PkdInit => IInv
  BY InitInv DEF PkdInit
<1>5. IInv /\ [PkdNext]_pkdVars => IInv'
  BY PkdStepIsAStep, StepInv
<1> QED  BY <1>1, <1>2, <1>3, <1>4, <1>5, PTL DEF PkdSpec

-----------------------------------------------------------------------------
(* The diffs of PKDLog: its compactions differ from Rlog's, its deltas do   *)
(* not.                                                                     *)

\* Nodes that record the same changes hang and lie in the same places.
SameChanges(N, P) ==
  /\ Len(P) = Len(N)
  /\ \A n \in 1..Len(N) : /\ P[n].parent = N[n].parent /\ P[n].depth = N[n].depth
                          /\ P[n].inserts = N[n].inserts /\ P[n].removes = N[n].removes

BranchIn(N, leaf, stop, f) ==
  f = [m \in 0..leaf |-> IF m = 0 \/ m = stop THEN {} ELSE {m} \cup f[N[m].parent]]

\* trace_branch visits the same nodes.
LEMMA SameBranch ==
  ASSUME Len(nodes) \in Nat, SameChanges(nodes, pkdNodes), NEW leaf \in 1..Len(nodes), NEW stop
  PROVE  Pkd!Branch(leaf, stop) = Branch(leaf, stop)
<1>1. ASSUME NEW f
      PROVE  BranchIn(nodes, leaf, stop, f) <=> BranchIn(pkdNodes, leaf, stop, f)
  <2>1. \A m \in 0..leaf : m = 0 \/ pkdNodes[m].parent = nodes[m].parent
    BY DEF SameChanges
  <2>2. [m \in 0..leaf |-> IF m = 0 \/ m = stop THEN {} ELSE {m} \cup f[nodes[m].parent]]
        = [m \in 0..leaf |-> IF m = 0 \/ m = stop THEN {} ELSE {m} \cup f[pkdNodes[m].parent]]
    BY <2>1
  <2> QED  BY <2>2 DEF BranchIn
<1>2. (CHOOSE f : BranchIn(nodes, leaf, stop, f)) = (CHOOSE f : BranchIn(pkdNodes, leaf, stop, f))
  BY <1>1, Zenon
<1>3. Branch(leaf, stop) = (CHOOSE f : BranchIn(nodes, leaf, stop, f))[leaf]
  BY DEF Branch, BranchIn
<1>4. Pkd!Branch(leaf, stop) = (CHOOSE f : BranchIn(pkdNodes, leaf, stop, f))[leaf]
  BY DEF Pkd!Branch, BranchIn
<1> QED  BY <1>2, <1>3, <1>4

LcaIn(N, v1, v2, f) ==
  f = [p \in (0..v1) \X (0..v2) |->
         LET a == p[1]
             b == p[2]
         IN  IF a = 0 \/ b = 0 \/ a = b THEN a
             ELSE IF N[a].depth > N[b].depth THEN f[<<N[a].parent, b>>]
             ELSE IF N[b].depth > N[a].depth THEN f[<<a, N[b].parent>>]
             ELSE f[<<N[a].parent, N[b].parent>>]]

\* The two pointers climb to the same place.
LEMMA SameLca ==
  ASSUME Len(nodes) \in Nat, SameChanges(nodes, pkdNodes),
         NEW v1 \in 1..Len(nodes), NEW v2 \in 1..Len(nodes)
  PROVE  Pkd!Lca(v1, v2) = Lca(v1, v2)
<1>1. ASSUME NEW f
      PROVE  LcaIn(nodes, v1, v2, f) <=> LcaIn(pkdNodes, v1, v2, f)
  <2> DEFINE next(N, a, b) == IF a = 0 \/ b = 0 \/ a = b THEN a
                              ELSE IF N[a].depth > N[b].depth THEN f[<<N[a].parent, b>>]
                              ELSE IF N[b].depth > N[a].depth THEN f[<<a, N[b].parent>>]
                              ELSE f[<<N[a].parent, N[b].parent>>]
  <2>1. \A a \in 0..v1, b \in 0..v2 : next(nodes, a, b) = next(pkdNodes, a, b)
    <3> SUFFICES ASSUME NEW a \in 0..v1, NEW b \in 0..v2
                 PROVE  next(nodes, a, b) = next(pkdNodes, a, b)
      OBVIOUS
    <3>1. CASE a = 0 \/ b = 0
      BY <3>1
    <3>2. CASE a # 0 /\ b # 0
      <4>1. a \in 1..Len(nodes) /\ b \in 1..Len(nodes)
        BY <3>2
      <4>2. /\ pkdNodes[a].parent = nodes[a].parent /\ pkdNodes[a].depth = nodes[a].depth
            /\ pkdNodes[b].parent = nodes[b].parent /\ pkdNodes[b].depth = nodes[b].depth
        BY <4>1 DEF SameChanges
      <4> QED  BY <4>2
    <3> QED  BY <3>1, <3>2
  <2>2. \A N : LcaIn(N, v1, v2, f) <=> f = [p \in (0..v1) \X (0..v2) |-> next(N, p[1], p[2])]
    BY DEF LcaIn
  <2> HIDE DEF next
  <2>3. [p \in (0..v1) \X (0..v2) |-> next(nodes, p[1], p[2])]
        = [p \in (0..v1) \X (0..v2) |-> next(pkdNodes, p[1], p[2])]
    BY <2>1
  <2> QED  BY <2>2, <2>3
<1>2. (CHOOSE f : LcaIn(nodes, v1, v2, f)) = (CHOOSE f : LcaIn(pkdNodes, v1, v2, f))
  BY <1>1, Zenon
<1>3. Lca(v1, v2) = (CHOOSE f : LcaIn(nodes, v1, v2, f))[<<v1, v2>>]
  BY DEF Lca, LcaIn
<1>4. Pkd!Lca(v1, v2) = (CHOOSE f : LcaIn(pkdNodes, v1, v2, f))[<<v1, v2>>]
  BY DEF Pkd!Lca, LcaIn
<1> QED  BY <1>2, <1>3, <1>4

\* On the same branches, the same nodes touch an id and the same one did so first.
LEMMA SameTouching ==
  ASSUME SameChanges(nodes, pkdNodes), NEW S \in SUBSET (1..Len(nodes)), NEW i
  PROVE  Pkd!Touching(S, i) = Touching(S, i)
BY DEF SameChanges, Touching, Pkd!Touching, Pkd!IdsOf, IdsOf

\* The first and the last of some versions.
LEMMA EndsOf ==
  ASSUME NEW K \in Nat, NEW T \in SUBSET (1..K), T # {}
  PROVE  Min(T) \in T /\ Max(T) \in T
<1> DEFINE R == {K - y : y \in T}
<1>1. \E x \in T : \A y \in T : x <= y
  <2>1. T \in SUBSET Nat
    OBVIOUS
  <2> QED  BY <2>1, SmallestElement
<1>2. \E x \in T : \A y \in T : x >= y
  <2>1. R \in SUBSET Nat /\ R # {}
    <3>1. \A y \in T : K - y \in Nat
      BY SMT
    <3> QED  BY <3>1
  <2>2. PICK r \in R : \A k \in R : r <= k
    <3> HIDE DEF R
    <3> QED  BY <2>1, SmallestElement
  <2>3. PICK x \in T : r = K - x
    OBVIOUS
  <2>4. ASSUME NEW y \in T  PROVE x >= y
    <3>1. K - x <= K - y /\ x \in Int /\ y \in Int
      BY <2>2, <2>3
    <3> QED  BY <3>1
  <2> QED  BY <2>4
<1> QED  BY <1>1, <1>2 DEF Min, Max

\* state[i] is the same.
LEMMA SameState ==
  ASSUME Len(nodes) \in Nat, SameChanges(nodes, pkdNodes), NEW S \in SUBSET (1..Len(nodes)), NEW i
  PROVE  Pkd!State(S, i) = State(S, i)
<1>1. PICK T : T = Touching(S, i)
  OBVIOUS
<1>2. Pkd!Touching(S, i) = T /\ T \in SUBSET (1..Len(nodes))
  BY <1>1, SameTouching DEF Touching
<1>3. CASE T = {}
  BY <1>1, <1>2, <1>3 DEF State, Pkd!State
<1>4. CASE T # {}
  <2>1. PICK m : m = Max(T)
    OBVIOUS
  <2>2. m \in T /\ Pkd!Max(T) = m
    BY <1>2, <1>4, <2>1, EndsOf DEF Max, Pkd!Max
  <2>3. \A k \in T : pkdNodes[k].inserts = nodes[k].inserts
    BY <1>2 DEF SameChanges
  <2>4. \A R : Pkd!IdsOf(R) = IdsOf(R)
    BY DEF IdsOf, Pkd!IdsOf
  <2> QED  BY <1>1, <1>2, <1>4, <2>1, <2>2, <2>3, <2>4 DEF State, Pkd!State
<1> QED  BY <1>3, <1>4

\* values[i] is the same, of an id that one of the branches touches.
LEMMA SameValueOf ==
  ASSUME Len(nodes) \in Nat, SameChanges(nodes, pkdNodes),
         NEW S1 \in SUBSET (1..Len(nodes)), NEW S2 \in SUBSET (1..Len(nodes)), NEW i,
         Touching(S1 \cup S2, i) # {}
  PROVE  Pkd!ValueOf(S1, S2, i) = ValueOf(S1, S2, i)
<1>1. PICK T : T = IF Touching(S2, i) # {} THEN Touching(S2, i) ELSE Touching(S1, i)
  OBVIOUS
<1>2. T \in SUBSET (1..Len(nodes)) /\ T # {}
  BY <1>1 DEF Touching
<1>3. T = IF Pkd!Touching(S2, i) # {} THEN Pkd!Touching(S2, i) ELSE Pkd!Touching(S1, i)
  BY <1>1, SameTouching
<1>4. PICK m : m = Min(T)
  OBVIOUS
<1>5. m \in T /\ Pkd!Min(T) = m
  BY <1>2, <1>4, EndsOf DEF Min, Pkd!Min
<1>6. pkdNodes[m].inserts = nodes[m].inserts /\ pkdNodes[m].removes = nodes[m].removes
  BY <1>2, <1>5 DEF SameChanges
<1>7. ValueOf(S1, S2, i) = CHOOSE x \in nodes[m].inserts \cup nodes[m].removes : x.id = i
  BY <1>1, <1>4 DEF ValueOf
<1>8. Pkd!ValueOf(S1, S2, i) = CHOOSE x \in pkdNodes[m].inserts \cup pkdNodes[m].removes : x.id = i
  BY <1>3, <1>5 DEF Pkd!ValueOf
<1> QED  BY <1>6, <1>7, <1>8

\* The whole diff is the same.
LEMMA SameDiff ==
  ASSUME DInv, SameChanges(nodes, pkdNodes),
         NEW v1 \in 1..Len(nodes), NEW v2 \in 1..Len(nodes), NEW q
  PROVE  Pkd!MapSpatialDiff(v1, v2, q) = MapSpatialDiff(v1, v2, q)
<1>1. Len(nodes) \in Nat
  BY DEF DInv, IInv, TypeOK
<1>2. PICK a : a = Lca(v1, v2)
  OBVIOUS
<1>3. PICK S1, S2 : S1 = Branch(v1, a) /\ S2 = Branch(v2, a)
  OBVIOUS
<1>4. Pkd!Lca(v1, v2) = a /\ Pkd!Branch(v1, a) = S1 /\ Pkd!Branch(v2, a) = S2
  BY <1>1, <1>2, <1>3, SameLca, SameBranch
<1>5. S1 \in SUBSET (1..Len(nodes)) /\ S2 \in SUBSET (1..Len(nodes))
  BY <1>2, <1>3, DiffIs DEF Way, Line
<1>6. S1 \cup S2 \in SUBSET (1..Len(nodes))
  BY <1>5
<1>7. \A i : /\ Pkd!State(S1, i) = State(S1, i) /\ Pkd!State(S2, i) = State(S2, i)
             /\ Pkd!Touching(S1 \cup S2, i) = Touching(S1 \cup S2, i)
  BY <1>1, <1>5, <1>6, SameState, SameTouching
<1>8. \A i : Touching(S1 \cup S2, i) # {} => Pkd!ValueOf(S1, S2, i) = ValueOf(S1, S2, i)
  BY <1>1, <1>5, SameValueOf
<1> DEFINE net(i) == State(S2, i) - State(S1, i)
           touched == {i \in IdsOf(Values) : Touching(S1 \cup S2, i) # {}}
           values(ids) == {x \in {ValueOf(S1, S2, i) : i \in ids} : x.at \in q}
           pkdNet(i) == Pkd!State(S2, i) - Pkd!State(S1, i)
           pkdTouched == {i \in Pkd!IdsOf(Values) : Pkd!Touching(S1 \cup S2, i) # {}}
           pkdValues(ids) == {x \in {Pkd!ValueOf(S1, S2, i) : i \in ids} : x.at \in q}
<1>9. MapSpatialDiff(v1, v2, q) = [add |-> values({i \in touched : net(i) > 0}),
                                   remove |-> values({i \in touched : net(i) < 0})]
  BY <1>2, <1>3 DEF MapSpatialDiff
<1>10. Pkd!MapSpatialDiff(v1, v2, q) = [add |-> pkdValues({i \in pkdTouched : pkdNet(i) > 0}),
                                        remove |-> pkdValues({i \in pkdTouched : pkdNet(i) < 0})]
  BY <1>4 DEF Pkd!MapSpatialDiff
<1>11. pkdTouched = touched /\ \A i : pkdNet(i) = net(i)
  <2>1. Pkd!IdsOf(Values) = IdsOf(Values)
    BY DEF IdsOf, Pkd!IdsOf
  <2>2. \A i : Pkd!Touching(S1 \cup S2, i) = Touching(S1 \cup S2, i)
    BY <1>7
  <2>3. pkdTouched = touched
    <3>1. ASSUME NEW i \in pkdTouched  PROVE i \in touched
      <4>1. i \in IdsOf(Values) /\ Pkd!Touching(S1 \cup S2, i) # {}
        BY <2>1, <3>1
      <4>2. Touching(S1 \cup S2, i) # {}
        BY <2>2, <4>1
      <4> QED  BY <4>1, <4>2
    <3>2. ASSUME NEW i \in touched  PROVE i \in pkdTouched
      <4>1. i \in Pkd!IdsOf(Values) /\ Touching(S1 \cup S2, i) # {}
        BY <2>1, <3>2
      <4>2. Pkd!Touching(S1 \cup S2, i) # {}
        BY <2>2, <4>1
      <4> QED  BY <4>1, <4>2
    <3> HIDE DEF touched, pkdTouched
    <3> QED  BY <3>1, <3>2
  <2>4. \A i : pkdNet(i) = net(i)
    BY <1>7
  <2> QED  BY <2>3, <2>4
<1>12. \A i \in touched : Pkd!ValueOf(S1, S2, i) = ValueOf(S1, S2, i)
  BY <1>8
<1> HIDE DEF touched, pkdTouched, net, pkdNet
<1>13. \A ids \in SUBSET touched : pkdValues(ids) = values(ids)
  BY <1>12
<1>14. /\ {i \in pkdTouched : pkdNet(i) > 0} = {i \in touched : net(i) > 0}
       /\ {i \in pkdTouched : pkdNet(i) < 0} = {i \in touched : net(i) < 0}
  BY <1>11
<1>15. /\ {i \in touched : net(i) > 0} \in SUBSET touched
       /\ {i \in touched : net(i) < 0} \in SUBSET touched
  OBVIOUS
<1> HIDE DEF values, pkdValues
<1> QED  BY <1>9, <1>10, <1>13, <1>14, <1>15

\* The diffs of PKDLog are those of Rlog, and so they are exact.
LEMMA PkdDiffsOfHistories ==
  DInv /\ PkdInv /\ SameChanges(nodes, pkdNodes) => PkdDiffsAreExact
<1> SUFFICES ASSUME DInv, PkdInv, SameChanges(nodes, pkdNodes),
                    NEW v1 \in DOMAIN pkdNodes, NEW v2 \in DOMAIN pkdNodes
             PROVE
    LET held(v) == {o[1] : o \in content[v]}
        inserted(v) == UNION {pkdNodes[m].inserts : m \in Pkd!Branch(v, Pkd!Lca(v1, v2))}
        clashes == {x.id : x \in {y \in inserted(v1) : \E z \in inserted(v2) :
                                                       z.id = y.id /\ z # y}}
        sure(S) == {x \in S : x.id \notin clashes}
    IN  /\ \A q \in SUBSET {x.at : x \in Values} :
             LET diff == Pkd!MapSpatialDiff(v1, v2, q)
                 within(v) == {x \in held(v) : x.at \in q}
             IN  /\ sure(diff.add) = sure(within(v2) \ within(v1))
                 /\ sure(diff.remove) = sure(within(v1) \ within(v2))
        /\ LET diff == Pkd!MapSpatialDiff(v1, v2, {x.at : x \in Values})
           IN  /\ IdsOf(diff.add) = IdsOf(held(v2)) \ IdsOf(held(v1))
               /\ IdsOf(diff.remove) = IdsOf(held(v1)) \ IdsOf(held(v2))
  BY DEF PkdDiffsAreExact, Pkd!SpatialDiffsAreExact, Pkd!IdsOf, IdsOf
<1>1. /\ v1 \in 1..Len(nodes) /\ v2 \in 1..Len(nodes) /\ DOMAIN nodes = 1..Len(nodes)
      /\ Len(nodes) \in Nat
  BY DEF DInv, IInv, TypeOK, PkdInv
<1>2. PICK a : a = Lca(v1, v2)
  OBVIOUS
<1>3. PICK S1, S2 : S1 = Branch(v1, a) /\ S2 = Branch(v2, a)
  OBVIOUS
<1>4. Pkd!Lca(v1, v2) = a /\ Pkd!Branch(v1, a) = S1 /\ Pkd!Branch(v2, a) = S2
  BY <1>1, <1>2, <1>3, SameLca, SameBranch
<1>5. S1 \in SUBSET (1..Len(nodes)) /\ S2 \in SUBSET (1..Len(nodes))
  BY <1>1, <1>2, <1>3, DiffIs DEF Way, Line
<1>6. \A m \in S1 \cup S2 : pkdNodes[m].inserts = nodes[m].inserts
  BY <1>5 DEF SameChanges
<1> DEFINE inserted(v) == UNION {nodes[m].inserts : m \in Branch(v, Lca(v1, v2))}
           clashes == {x.id : x \in {y \in inserted(v1) : \E z \in inserted(v2) :
                                                          z.id = y.id /\ z # y}}
           pkdInserted(v) == UNION {pkdNodes[m].inserts : m \in Pkd!Branch(v, Pkd!Lca(v1, v2))}
           pkdClashes == {x.id : x \in {y \in pkdInserted(v1) : \E z \in pkdInserted(v2) :
                                                                z.id = y.id /\ z # y}}
           held(v) == {o[1] : o \in content[v]}
           within(v, q) == {x \in held(v) : x.at \in q}
           all == {x.at : x \in Values}
<1>7. /\ \A q \in SUBSET all :
           /\ {x \in MapSpatialDiff(v1, v2, q).add : x.id \notin clashes}
                = {x \in within(v2, q) \ within(v1, q) : x.id \notin clashes}
           /\ {x \in MapSpatialDiff(v1, v2, q).remove : x.id \notin clashes}
                = {x \in within(v1, q) \ within(v2, q) : x.id \notin clashes}
      /\ IdsOf(MapSpatialDiff(v1, v2, all).add) = IdsOf(held(v2)) \ IdsOf(held(v1))
      /\ IdsOf(MapSpatialDiff(v1, v2, all).remove) = IdsOf(held(v1)) \ IdsOf(held(v2))
  BY <1>1, DiffsOfHistories DEF SpatialDiffsAreExact
<1>8. pkdInserted(v1) = inserted(v1) /\ pkdInserted(v2) = inserted(v2)
  BY <1>2, <1>3, <1>4, <1>6
<1> HIDE DEF inserted, pkdInserted
<1>9. pkdClashes = clashes
  BY <1>8
<1>10. \A q : Pkd!MapSpatialDiff(v1, v2, q) = MapSpatialDiff(v1, v2, q)
  BY <1>1, SameDiff
<1> HIDE DEF clashes, pkdClashes, within, held, all
<1>11. /\ \A q \in SUBSET all :
            /\ {x \in Pkd!MapSpatialDiff(v1, v2, q).add : x.id \notin pkdClashes}
                 = {x \in within(v2, q) \ within(v1, q) : x.id \notin pkdClashes}
            /\ {x \in Pkd!MapSpatialDiff(v1, v2, q).remove : x.id \notin pkdClashes}
                 = {x \in within(v1, q) \ within(v2, q) : x.id \notin pkdClashes}
       /\ IdsOf(Pkd!MapSpatialDiff(v1, v2, all).add) = IdsOf(held(v2)) \ IdsOf(held(v1))
       /\ IdsOf(Pkd!MapSpatialDiff(v1, v2, all).remove) = IdsOf(held(v1)) \ IdsOf(held(v2))
  BY <1>7, <1>9, <1>10
<1> QED  BY <1>11 DEF pkdClashes, pkdInserted, within, held, all

\* Where the node that PKDLog adds hangs and what it records, compacted or not.
LEMMA PkdGrownNode ==
  ASSUME IInv, PkdInv, NEW v, NEW ins, NEW rem, Adds(v, ins, rem),
         pkdNodes' \in PkdCheckCompact(Append(pkdNodes, Node(pkdNodes, v, ins, rem)))
  PROVE  LET n == Len(nodes) + 1
         IN  /\ Len(pkdNodes') = n /\ \A m \in 1..Len(nodes) : pkdNodes'[m] = pkdNodes[m]
             /\ pkdNodes'[n].parent = v /\ pkdNodes'[n].depth = pkdNodes[v].depth + 1
             /\ pkdNodes'[n].inserts = ins /\ pkdNodes'[n].removes = rem
<1>1. PICK n, Q, M, P : /\ n = Len(nodes) + 1 /\ Q = pkdNodes /\ P = pkdNodes'
                        /\ M = Append(Q, Node(Q, v, ins, rem))
  OBVIOUS
<1>2. /\ Q \in Seq(VNodes) /\ Len(Q) = n - 1 /\ Len(Q) > 0 /\ IsTree(Q) /\ n \in Nat
      /\ n - 1 = Len(nodes) /\ v \in 1..Len(Q) /\ n = Len(Q) + 1
      /\ ins \in SUBSET Values /\ rem \in SUBSET Values
  <2>1. Len(Q) = Len(nodes) /\ Len(nodes) \in Nat
    BY <1>1 DEF IInv, TypeOK, PkdInv
  <2> QED  BY <1>1, <2>1 DEF IInv, TypeOK, PkdInv, Adds
<1>3. NodeAdded(M, n, Q, v, ins, rem) /\ M \in Seq(VNodes)
  BY <1>1, <1>2, NewNode
<1>4. /\ Len(M) = n /\ M[n] = Node(Q, v, ins, rem) /\ \A m \in 1..n - 1 : M[m] = Q[m]
  BY <1>3 DEF NodeAdded
<1>5. P = M \/ Rebuilt(P, M, n, Q, v, ins, rem)
  BY <1>1, <1>3, PkdCompaction
<1>6. Len(P) = n /\ \A m \in 1..n - 1 : P[m] = M[m]
  BY <1>2, <1>3, <1>4, <1>5 DEF Rebuilt
<1>7. /\ P[n].parent = v /\ P[n].depth = Q[v].depth + 1
      /\ P[n].inserts = ins /\ P[n].removes = rem
  <2>1. CASE P = M
    BY <1>4, <2>1 DEF Node
  <2>2. CASE Rebuilt(P, M, n, Q, v, ins, rem)
    <3>1. PICK base, size : P[n] = BaseOf(Q, v, ins, rem, base, size)
      BY <1>2, <1>3, <1>4, <2>2 DEF Rebuilt
    <3> QED  BY <3>1 DEF BaseOf
  <2> QED  BY <1>5, <2>1, <2>2
<1> QED  BY <1>1, <1>2, <1>4, <1>6, <1>7

\* Both operations record on PKDLog's nodes what they record on Rlog's.
LEMMA SameNode ==
  ASSUME IInv, PkdInv, SameChanges(nodes, pkdNodes), NEW v, NEW ins, NEW rem, Adds(v, ins, rem),
         pkdNodes' \in PkdCheckCompact(Append(pkdNodes, Node(pkdNodes, v, ins, rem)))
  PROVE  SameChanges(nodes', pkdNodes')
<1>1. PICK n : n = Len(nodes) + 1
  OBVIOUS
<1>2. v \in 1..Len(nodes) /\ Len(nodes) \in Nat
  BY DEF Adds, IInv, TypeOK
<1>3. /\ Len(nodes') = n /\ \A m \in 1..Len(nodes) : nodes'[m] = nodes[m]
      /\ nodes'[n].parent = v /\ nodes'[n].depth = nodes[v].depth + 1
      /\ nodes'[n].inserts = ins /\ nodes'[n].removes = rem
  BY <1>1, GrownNode
<1>4. /\ Len(pkdNodes') = n /\ \A m \in 1..Len(nodes) : pkdNodes'[m] = pkdNodes[m]
      /\ pkdNodes'[n].parent = v /\ pkdNodes'[n].depth = pkdNodes[v].depth + 1
      /\ pkdNodes'[n].inserts = ins /\ pkdNodes'[n].removes = rem
  BY <1>1, PkdGrownNode
<1>5. \A m \in 1..n : m = n \/ m \in 1..Len(nodes)
  BY <1>1, <1>2
<1>6. pkdNodes[v].depth = nodes[v].depth
  BY <1>2 DEF SameChanges
<1>7. ASSUME NEW m \in 1..n
      PROVE  /\ pkdNodes'[m].parent = nodes'[m].parent /\ pkdNodes'[m].depth = nodes'[m].depth
             /\ pkdNodes'[m].inserts = nodes'[m].inserts /\ pkdNodes'[m].removes = nodes'[m].removes
  <2>1. CASE m = n
    BY <1>3, <1>4, <1>6, <2>1
  <2>2. CASE m \in 1..Len(nodes)
    BY <1>3, <1>4, <2>2 DEF SameChanges
  <2> QED  BY <1>5, <2>1, <2>2
<1> QED  BY <1>3, <1>4, <1>7 DEF SameChanges

LEMMA SameStep ==
  IInv /\ PkdInv /\ SameChanges(nodes, pkdNodes) /\ [PkdNext]_pkdVars
    => SameChanges(nodes, pkdNodes)'
<1> SUFFICES ASSUME IInv, PkdInv, SameChanges(nodes, pkdNodes), [PkdNext]_pkdVars
             PROVE  SameChanges(nodes, pkdNodes)'
  OBVIOUS
<1>1. ASSUME NEW v \in DOMAIN nodes, NEW S \in SUBSET Values, PkdMapInsert(v, S)
      PROVE  SameChanges(nodes', pkdNodes')
  <2>1. Adds(v, S, {})
    BY <1>1, InsertAdds DEF PkdMapInsert
  <2> QED  BY <1>1, <2>1, SameNode DEF PkdMapInsert
<1>2. ASSUME NEW v \in DOMAIN nodes, NEW S \in SUBSET Values, PkdMapDelete(v, S)
      PROVE  SameChanges(nodes', pkdNodes')
  <2>1. Adds(v, {}, S)
    BY <1>2, DeleteAdds DEF PkdMapDelete
  <2> QED  BY <1>2, <2>1, SameNode DEF PkdMapDelete
<1>3. CASE UNCHANGED pkdVars
  BY <1>3 DEF pkdVars
<1>4. SameChanges(nodes', pkdNodes')
  BY <1>1, <1>2, <1>3 DEF PkdNext
<1> QED  BY <1>4 DEF SameChanges

\* PKDLog: between any two versions the diff is the difference of what they should hold,
\* up to the values of ids on which the two branches disagree, although compactions have
\* lost points of both.
THEOREM PkdDiffsExact == PkdSpec => []PkdDiffsAreExact
<1>1. PkdInit => DInv /\ PkdInv /\ SameChanges(nodes, pkdNodes)
  BY InitHistory, PkdInitInv DEF PkdInit, SameChanges
<1>2. DInv /\ PkdInv /\ SameChanges(nodes, pkdNodes) /\ [PkdNext]_pkdVars
        => DInv' /\ PkdInv' /\ SameChanges(nodes, pkdNodes)'
  <2>1. DInv => IInv
    BY DEF DInv
  <2> QED  BY <2>1, PkdStepIsAStep, StepHistory, PkdStepInv, SameStep
<1> QED  BY <1>1, <1>2, PkdDiffsOfHistories, PTL DEF PkdSpec
=============================================================================
