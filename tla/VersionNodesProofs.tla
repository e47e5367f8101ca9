------------------------- MODULE VersionNodesProofs -------------------------
(***************************************************************************)
(* What get_query_view reads of a tree of version nodes, for trees of any  *)
(* size: how the view of a new node follows from that of its parent, and   *)
(* that check_compact leaves it as it is.                                  *)
(***************************************************************************)
EXTENDS VersionNodes, FiniteSetTheorems, TLAPS

-----------------------------------------------------------------------------
(* Induction on the natural numbers, for a set instead of a predicate: a   *)
(* proof by induction applies SetInduction to {n \in Nat : P(n)}, one by   *)
(* infinite descent applies SmallestElement to the counterexamples.        *)

\* Every set of natural numbers that has an element has a smallest one.
LEMMA SmallestElement ==
  ASSUME NEW A \in SUBSET Nat, A # {}
  PROVE  \E m \in A : \A k \in A : m <= k
<1> DEFINE Below(m) == 0..m
           Initial == {Below(m) : m \in A}
           R == StrictSubsetOrdering(Nat)
<1>1. IsWellFoundedOn(R, FiniteSubsetsOf(Nat))
  BY FS_StrictSubsetOrderingWellFounded
<1>2. Initial \subseteq FiniteSubsetsOf(Nat)
  <2> SUFFICES ASSUME NEW m \in A PROVE Below(m) \in FiniteSubsetsOf(Nat)
    OBVIOUS
  <2>1. IsFiniteSet(Below(m))
    BY FS_Interval
  <2>2. Below(m) \in SUBSET Nat
    OBVIOUS
  <2> QED  BY <2>1, <2>2 DEF FiniteSubsetsOf
<1>3. Initial # {}
  OBVIOUS
<1>4. PICK X \in Initial : \A Y \in Initial : <<Y, X>> \notin R
  <2> HIDE DEF R, Initial
  <2> QED  BY <1>1, <1>2, <1>3, WFMin
<1>5. PICK m \in A : X = Below(m)
  OBVIOUS
<1>6. ASSUME NEW k \in A, k < m  PROVE  FALSE
  <2>1. Below(k) \subseteq Below(m) /\ Below(k) # Below(m)
    <3>1. m \in Below(m) /\ m \notin Below(k)
      BY <1>6
    <3> QED  BY <3>1, <1>6
  <2>2. <<Below(k), Below(m)>> \in R
    BY <2>1 DEF StrictSubsetOrdering
  <2> QED  BY <2>2, <1>4, <1>5
<1> QED  BY <1>6

\* A set that has 0 and with every number the next one has them all.
LEMMA SetInduction ==
  ASSUME NEW S, 0 \in S, \A n \in Nat : n \in S => n + 1 \in S
  PROVE  Nat \subseteq S
<1> SUFFICES ASSUME Nat \ S # {} PROVE FALSE
  OBVIOUS
<1>1. PICK m \in Nat \ S : \A k \in Nat \ S : m <= k
  BY SmallestElement
<1>2. m - 1 \in Nat \ S
  BY <1>1
<1> QED  BY <1>1, <1>2

-----------------------------------------------------------------------------
(* Nodes that have their parents before them.                              *)

\* Up to node K, every node has a base or an older parent.
Rooted(N, K) == \A m \in 1..K : N[m].cached \/ N[m].parent \in 1..m - 1

-----------------------------------------------------------------------------
(* The walk of get_query_view ends, and goes node by node.                 *)

PathRule(N, K, f) == f = [m \in 1..K |-> IF N[m].cached THEN {} ELSE {m} \cup f[N[m].parent]]
BaseRule(N, K, f) == f = [m \in 1..K |-> IF N[m].cached THEN m ELSE f[N[m].parent]]

\* The walks from the first K nodes are defined.
LEMMA WalksExist ==
  ASSUME NEW N, NEW K \in Nat, Rooted(N, K)
  PROVE  (\E f : PathRule(N, K, f)) /\ (\E f : BaseRule(N, K, f))
<1> DEFINE S == {k \in Nat : k <= K => (\E f : PathRule(N, k, f)) /\ (\E f : BaseRule(N, k, f))}
<1>1. 0 \in S
  <2>1. 1..0 = {}
    OBVIOUS
  <2>2. PathRule(N, 0, [m \in 1..0 |-> {}]) /\ BaseRule(N, 0, [m \in 1..0 |-> m])
    BY <2>1 DEF PathRule, BaseRule
  <2> QED  BY <2>2
<1>2. ASSUME NEW k \in Nat, k \in S  PROVE k + 1 \in S
  <2> SUFFICES ASSUME k + 1 <= K
               PROVE  (\E f : PathRule(N, k + 1, f)) /\ (\E f : BaseRule(N, k + 1, f))
    OBVIOUS
  <2>1. k <= K
    OBVIOUS
  <2>2. ASSUME NEW m \in 1..k + 1, ~N[m].cached  PROVE N[m].parent \in 1..k /\ N[m].parent < m
    BY <2>2, <2>1 DEF Rooted
  <2>3. \E f : PathRule(N, k + 1, f)
    <3>1. PICK f : PathRule(N, k, f)
      BY <1>2, <2>1
    <3>2. f = [m \in 1..k |-> IF N[m].cached THEN {} ELSE {m} \cup f[N[m].parent]]
      BY <3>1 DEF PathRule
    <3> DEFINE g == [m \in 1..k + 1 |-> IF m = k + 1
                       THEN IF N[m].cached THEN {} ELSE {m} \cup f[N[m].parent]
                       ELSE f[m]]
    <3>3. \A m \in 1..k : g[m] = f[m]
      OBVIOUS
    <3>4. ASSUME NEW m \in 1..k + 1
          PROVE  g[m] = IF N[m].cached THEN {} ELSE {m} \cup g[N[m].parent]
      <4>1. g[m] = IF N[m].cached THEN {} ELSE {m} \cup f[N[m].parent]
        <5>1. CASE m = k + 1
          BY <5>1
        <5>2. CASE m \in 1..k
          <6>1. f[m] = IF N[m].cached THEN {} ELSE {m} \cup f[N[m].parent]
            BY <3>2, <5>2
          <6> QED  BY <6>1, <5>2
        <5> QED  BY <5>1, <5>2
      <4> HIDE DEF g
      <4> QED  BY <4>1, <2>2, <3>3
    <3>5. PathRule(N, k + 1, g)
      BY <3>4 DEF PathRule
    <3> QED  BY <3>5
  <2>4. \E f : BaseRule(N, k + 1, f)
    <3>1. PICK f : BaseRule(N, k, f)
      BY <1>2, <2>1
    <3>2. f = [m \in 1..k |-> IF N[m].cached THEN m ELSE f[N[m].parent]]
      BY <3>1 DEF BaseRule
    <3> DEFINE g == [m \in 1..k + 1 |-> IF m = k + 1
                       THEN IF N[m].cached THEN m ELSE f[N[m].parent]
                       ELSE f[m]]
    <3>3. \A m \in 1..k : g[m] = f[m]
      OBVIOUS
    <3>4. ASSUME NEW m \in 1..k + 1
          PROVE  g[m] = IF N[m].cached THEN m ELSE g[N[m].parent]
      <4>1. g[m] = IF N[m].cached THEN m ELSE f[N[m].parent]
        BY <3>2
      <4> HIDE DEF g
      <4> QED  BY <4>1, <2>2, <3>3
    <3>5. BaseRule(N, k + 1, g)
      BY <3>4 DEF BaseRule
    <3> QED  BY <3>5
  <2> QED  BY <2>3, <2>4
<1>3. Nat \subseteq S
  <2> HIDE DEF S
  <2> QED  BY <1>1, <1>2, SetInduction
<1> QED  BY <1>3

\* A walk is the same from wherever it is looked at.
LEMMA WalksAgree ==
  ASSUME NEW N, NEW a \in Nat, NEW b \in Nat, a <= b, Rooted(N, b)
  PROVE  /\ \A f, g : PathRule(N, a, f) /\ PathRule(N, b, g) => \A m \in 1..a : f[m] = g[m]
         /\ \A f, g : BaseRule(N, a, f) /\ BaseRule(N, b, g) => \A m \in 1..a : f[m] = g[m]
<1>1. ASSUME NEW m \in 1..a, ~N[m].cached  PROVE N[m].parent \in 1..a /\ N[m].parent < m
  BY <1>1 DEF Rooted
<1>2. ASSUME NEW f, NEW g, PathRule(N, a, f), PathRule(N, b, g)
      PROVE  \A m \in 1..a : f[m] = g[m]
  <2> DEFINE Bad == {m \in 1..a : f[m] # g[m]}
  <2> SUFFICES ASSUME Bad # {}  PROVE FALSE
    OBVIOUS
  <2>1. Bad \in SUBSET Nat
    OBVIOUS
  <2>2. PICK m \in Bad : \A k \in Bad : m <= k
    <3> HIDE DEF Bad
    <3> QED  BY <2>1, SmallestElement
  <2>3. m \in 1..a /\ m \in 1..b
    OBVIOUS
  <2>4. f[m] = (IF N[m].cached THEN {} ELSE {m} \cup f[N[m].parent])
    BY <1>2, <2>3 DEF PathRule
  <2>5. g[m] = (IF N[m].cached THEN {} ELSE {m} \cup g[N[m].parent])
    BY <1>2, <2>3 DEF PathRule
  <2>6. CASE N[m].cached
    BY <2>4, <2>5, <2>6
  <2>7. CASE ~N[m].cached
    <3>1. N[m].parent \in 1..a /\ N[m].parent < m
      BY <1>1, <2>3, <2>7
    <3>2. f[N[m].parent] = g[N[m].parent]
      BY <2>2, <3>1
    <3> QED  BY <2>4, <2>5, <3>2
  <2> QED  BY <2>6, <2>7
<1>3. ASSUME NEW f, NEW g, BaseRule(N, a, f), BaseRule(N, b, g)
      PROVE  \A m \in 1..a : f[m] = g[m]
  <2> DEFINE Bad == {m \in 1..a : f[m] # g[m]}
  <2> SUFFICES ASSUME Bad # {}  PROVE FALSE
    OBVIOUS
  <2>1. Bad \in SUBSET Nat
    OBVIOUS
  <2>2. PICK m \in Bad : \A k \in Bad : m <= k
    <3> HIDE DEF Bad
    <3> QED  BY <2>1, SmallestElement
  <2>3. m \in 1..a /\ m \in 1..b
    OBVIOUS
  <2>4. f[m] = (IF N[m].cached THEN m ELSE f[N[m].parent])
    BY <1>3, <2>3 DEF BaseRule
  <2>5. g[m] = (IF N[m].cached THEN m ELSE g[N[m].parent])
    BY <1>3, <2>3 DEF BaseRule
  <2>6. CASE N[m].cached
    BY <2>4, <2>5, <2>6
  <2>7. CASE ~N[m].cached
    <3>1. N[m].parent \in 1..a /\ N[m].parent < m
      BY <1>1, <2>3, <2>7
    <3>2. f[N[m].parent] = g[N[m].parent]
      BY <2>2, <3>1
    <3> QED  BY <2>4, <2>5, <3>2
  <2> QED  BY <2>6, <2>7
<1> QED  BY <1>2, <1>3

\* One step of the walk.
LEMMA WalkStep ==
  ASSUME NEW N, NEW n \in Nat \ {0}, Rooted(N, n)
  PROVE  /\ Path(N, n) = IF N[n].cached THEN {} ELSE {n} \cup Path(N, N[n].parent)
         /\ BaseNode(N, n) = IF N[n].cached THEN n ELSE BaseNode(N, N[n].parent)
<1> DEFINE p(k) == CHOOSE f : PathRule(N, k, f)
           b(k) == CHOOSE f : BaseRule(N, k, f)
<1>1. ASSUME NEW k \in 1..n
      PROVE  /\ PathRule(N, k, p(k)) /\ BaseRule(N, k, b(k))
             /\ Path(N, k) = p(k)[k] /\ BaseNode(N, k) = b(k)[k]
  <2>1. Rooted(N, k)
    BY DEF Rooted
  <2>2. (\E f : PathRule(N, k, f)) /\ (\E f : BaseRule(N, k, f))
    BY <2>1, WalksExist
  <2>3. Path(N, k) = p(k)[k] /\ BaseNode(N, k) = b(k)[k]
    BY DEF Path, BaseNode, PathRule, BaseRule
  <2> QED  BY <2>2, <2>3
<1> HIDE DEF p, b
<1>2. n \in 1..n
  OBVIOUS
<1>3. p(n)[n] = IF N[n].cached THEN {} ELSE {n} \cup p(n)[N[n].parent]
  BY <1>1, <1>2 DEF PathRule
<1>4. b(n)[n] = IF N[n].cached THEN n ELSE b(n)[N[n].parent]
  BY <1>1, <1>2 DEF BaseRule
<1>5. CASE N[n].cached
  BY <1>1, <1>2, <1>3, <1>4, <1>5
<1>6. CASE ~N[n].cached
  <2>1. PICK k \in 1..n - 1 : k = N[n].parent
    BY <1>2, <1>6 DEF Rooted
  <2>2. p(k)[k] = p(n)[k] /\ b(k)[k] = b(n)[k]
    <3>1. k \in Nat /\ k <= n /\ k \in 1..k /\ k \in 1..n
      OBVIOUS
    <3> QED  BY <1>1, <1>2, <3>1, WalksAgree
  <2> QED  BY <1>1, <1>2, <1>3, <1>4, <1>6, <2>1, <2>2
<1> QED  BY <1>5, <1>6

\* Where the walk goes: it ends at a node with a base, after younger ones without.
LEMMA WalkBounds ==
  ASSUME NEW N, NEW K \in Nat, Rooted(N, K), NEW n \in 1..K
  PROVE  /\ Path(N, n) \subseteq 1..n
         /\ BaseNode(N, n) \in 1..n /\ N[BaseNode(N, n)].cached
         /\ \A m \in Path(N, n) : m > BaseNode(N, n) /\ ~N[m].cached
<1> DEFINE Good(m) == /\ Path(N, m) \subseteq 1..m
                      /\ BaseNode(N, m) \in 1..m /\ N[BaseNode(N, m)].cached
                      /\ \A k \in Path(N, m) : k > BaseNode(N, m) /\ ~N[k].cached
           Bad == {m \in 1..K : ~Good(m)}
<1> SUFFICES ASSUME Bad # {}  PROVE FALSE
  OBVIOUS
<1>1. PICK m \in Bad : \A k \in Bad : m <= k
  <2>1. Bad \in SUBSET Nat
    OBVIOUS
  <2> HIDE DEF Bad
  <2> QED  BY <2>1, SmallestElement
<1>2. m \in 1..K /\ ~Good(m)
  OBVIOUS
<1>3. \A k \in 1..m - 1 : Good(k)
  <2> HIDE DEF Good
  <2> QED  BY <1>1
<1>4. /\ Path(N, m) = IF N[m].cached THEN {} ELSE {m} \cup Path(N, N[m].parent)
      /\ BaseNode(N, m) = IF N[m].cached THEN m ELSE BaseNode(N, N[m].parent)
  <2>1. m \in Nat \ {0} /\ Rooted(N, m)
    BY <1>2 DEF Rooted
  <2> QED  BY <2>1, WalkStep
<1>5. CASE N[m].cached
  BY <1>2, <1>4, <1>5
<1>6. CASE ~N[m].cached
  <2>1. PICK k \in 1..m - 1 : k = N[m].parent
    BY <1>2, <1>6 DEF Rooted
  <2>2. Good(k)
    BY <1>3
  <2>3. Path(N, m) = {m} \cup Path(N, k) /\ BaseNode(N, m) = BaseNode(N, k)
    BY <1>4, <1>6, <2>1
  <2>4. 1..k \subseteq 1..m
    OBVIOUS
  <2>5. Path(N, m) \subseteq 1..m /\ BaseNode(N, m) \in 1..m /\ N[BaseNode(N, m)].cached
    BY <1>2, <2>2, <2>3, <2>4
  <2>6. ASSUME NEW j \in Path(N, m)  PROVE j > BaseNode(N, m) /\ ~N[j].cached
    BY <1>6, <2>2, <2>3, <2>6
  <2> QED  BY <1>2, <2>5, <2>6
<1> QED  BY <1>5, <1>6

\* A node that is added changes no walk.
LEMMA WalksStay ==
  ASSUME NEW N, NEW M, NEW K \in Nat, Rooted(N, K), \A m \in 1..K : M[m] = N[m], NEW n \in 1..K
  PROVE  Path(M, n) = Path(N, n) /\ BaseNode(M, n) = BaseNode(N, n)
<1> DEFINE Good(m) == Path(M, m) = Path(N, m) /\ BaseNode(M, m) = BaseNode(N, m)
           Bad == {m \in 1..K : ~Good(m)}
<1> SUFFICES ASSUME Bad # {}  PROVE FALSE
  OBVIOUS
<1>1. PICK m \in Bad : \A k \in Bad : m <= k
  <2>1. Bad \in SUBSET Nat
    OBVIOUS
  <2> HIDE DEF Bad
  <2> QED  BY <2>1, SmallestElement
<1>2. m \in 1..K /\ ~Good(m)
  OBVIOUS
<1>3. \A k \in 1..m - 1 : Good(k)
  <2> HIDE DEF Good
  <2> QED  BY <1>1
<1>4. m \in Nat \ {0} /\ Rooted(N, m) /\ Rooted(M, m)
  BY <1>2 DEF Rooted
<1>5. /\ Path(N, m) = IF N[m].cached THEN {} ELSE {m} \cup Path(N, N[m].parent)
      /\ BaseNode(N, m) = IF N[m].cached THEN m ELSE BaseNode(N, N[m].parent)
  BY <1>4, WalkStep
<1>6. /\ Path(M, m) = IF N[m].cached THEN {} ELSE {m} \cup Path(M, N[m].parent)
      /\ BaseNode(M, m) = IF N[m].cached THEN m ELSE BaseNode(M, N[m].parent)
  <2>1. /\ Path(M, m) = IF M[m].cached THEN {} ELSE {m} \cup Path(M, M[m].parent)
        /\ BaseNode(M, m) = IF M[m].cached THEN m ELSE BaseNode(M, M[m].parent)
    BY <1>4, WalkStep
  <2> QED  BY <1>2, <2>1
<1>7. CASE N[m].cached
  BY <1>2, <1>5, <1>6, <1>7
<1>8. CASE ~N[m].cached
  <2>1. N[m].parent \in 1..m - 1
    BY <1>2, <1>8 DEF Rooted
  <2> QED  BY <1>2, <1>3, <1>5, <1>6, <2>1
<1> QED  BY <1>7, <1>8

-----------------------------------------------------------------------------
(* Views.                                                                  *)

\* out_removed_ids, and the pending inserts before they are filtered.
RemovedOn(N, n) == UNION {IdsOf(N[m].removes) : m \in Path(N, n)}
PendingOn(N, n) == UNION {OccurrencesOf(N[m].inserts, m) : m \in Path(N, n)}

\* A view is the base and what is pending, less what was removed on the way.
LEMMA ViewParts ==
  ASSUME NEW N, NEW n
  PROVE  View(N, n) = Without(N[BaseNode(N, n)].base \cup PendingOn(N, n), RemovedOn(N, n))
BY DEF View, RemovedOn, PendingOn

\* What a version shows does not change.
LEMMA ViewsStay ==
  ASSUME NEW N, NEW M, NEW K \in Nat, Rooted(N, K), \A m \in 1..K : M[m] = N[m], NEW n \in 1..K
  PROVE  /\ View(M, n) = View(N, n)
         /\ RemovedOn(M, n) = RemovedOn(N, n) /\ PendingOn(M, n) = PendingOn(N, n)
<1>1. Path(M, n) = Path(N, n) /\ BaseNode(M, n) = BaseNode(N, n)
  BY WalksStay
<1>2. Path(N, n) \subseteq 1..K /\ BaseNode(N, n) \in 1..K
  BY WalkBounds
<1>3. RemovedOn(M, n) = RemovedOn(N, n) /\ PendingOn(M, n) = PendingOn(N, n)
  BY <1>1, <1>2 DEF RemovedOn, PendingOn
<1> QED  BY <1>1, <1>2, <1>3, ViewParts

\* M is N with a node below v that records changes.
NodeAdded(M, n, N, v, ins, rem) ==
  /\ n \in Nat /\ v \in 1..n - 1 /\ Len(M) = n /\ DOMAIN M = 1..n
  /\ Rooted(N, n - 1) /\ \A m \in 1..n - 1 : M[m] = N[m]
  /\ M[n] = Node(N, v, ins, rem)

\* The walk from such a node is one step and the walk from its parent.
LEMMA WalkOfNode ==
  ASSUME NEW M, NEW n, NEW N, NEW v, NEW ins, NEW rem, NodeAdded(M, n, N, v, ins, rem)
  PROVE  /\ Rooted(M, n) /\ Path(N, v) \subseteq 1..v /\ BaseNode(N, v) \in 1..v
         /\ Path(M, n) = {n} \cup Path(N, v) /\ BaseNode(M, n) = BaseNode(N, v)
<1> USE DEF NodeAdded
<1>1. ~M[n].cached /\ M[n].parent = v
  BY DEF Node
<1>2. Rooted(M, n)
  BY <1>1 DEF Rooted
<1>3. Path(M, v) = Path(N, v) /\ BaseNode(M, v) = BaseNode(N, v)
  BY WalksStay
<1>4. Path(N, v) \subseteq 1..v /\ BaseNode(N, v) \in 1..v
  BY WalkBounds
<1> QED  BY <1>1, <1>2, <1>3, <1>4, WalkStep

\* The removals on the walk from such a node.
LEMMA RemovedOnNode ==
  ASSUME NEW M, NEW n, NEW N, NEW v, NEW ins, NEW rem, NodeAdded(M, n, N, v, ins, rem)
  PROVE  RemovedOn(M, n) = RemovedOn(N, v) \cup IdsOf(rem)
<1> USE DEF NodeAdded
<1>1. M[n].removes = rem
  BY DEF Node
<1>2. Path(M, n) = {n} \cup Path(N, v) /\ Path(N, v) \subseteq 1..n - 1
  BY WalkOfNode
<1> QED  BY <1>1, <1>2 DEF RemovedOn

\* get_query_view filters what the node removes from what its parent shows, and from
\* what it inserts those ids that are removed anywhere on the walk.
LEMMA ViewOfNode ==
  ASSUME NEW M, NEW n, NEW N, NEW v, NEW ins, NEW rem, NodeAdded(M, n, N, v, ins, rem)
  PROVE  View(M, n) = Without(View(N, v), IdsOf(rem))
                        \cup Without(OccurrencesOf(ins, n), RemovedOn(N, v) \cup IdsOf(rem))
<1> USE DEF NodeAdded
<1>1. M[n].inserts = ins
  BY DEF Node
<1>2. /\ Path(M, n) = {n} \cup Path(N, v) /\ BaseNode(M, n) = BaseNode(N, v)
      /\ Path(N, v) \subseteq 1..n - 1 /\ BaseNode(N, v) \in 1..n - 1
  BY WalkOfNode
<1>3. RemovedOn(M, n) = RemovedOn(N, v) \cup IdsOf(rem)
  BY RemovedOnNode
<1>4. PendingOn(M, n) = PendingOn(N, v) \cup OccurrencesOf(ins, n)
  BY <1>1, <1>2 DEF PendingOn
<1>5. M[BaseNode(M, n)].base = N[BaseNode(N, v)].base
  BY <1>2
<1>6. View(M, n) = Without(N[BaseNode(N, v)].base \cup (PendingOn(N, v) \cup OccurrencesOf(ins, n)),
                           RemovedOn(N, v) \cup IdsOf(rem))
  BY <1>3, <1>4, <1>5, ViewParts
<1>7. View(N, v) = Without(N[BaseNode(N, v)].base \cup PendingOn(N, v), RemovedOn(N, v))
  BY ViewParts
<1> QED  BY <1>6, <1>7 DEF Without

\* A base that holds just what the node shows.
LEMMA ViewOfBase ==
  ASSUME NEW N, NEW n \in Nat \ {0}, Rooted(N, n), N[n].cached
  PROVE  /\ Path(N, n) = {} /\ BaseNode(N, n) = n
         /\ RemovedOn(N, n) = {} /\ PendingOn(N, n) = {} /\ View(N, n) = N[n].base
<1>1. Path(N, n) = {} /\ BaseNode(N, n) = n
  BY WalkStep
<1>2. RemovedOn(N, n) = {} /\ PendingOn(N, n) = {}
  BY <1>1 DEF RemovedOn, PendingOn
<1> QED  BY <1>1, <1>2, ViewParts DEF Without

\* A node with a base of its own.
BaseOf(N, v, ins, rem, base, size) ==
  [parent |-> v, depth |-> N[v].depth + 1, inserts |-> ins, removes |-> rem,
   cached |-> TRUE, base |-> base, size |-> size, log |-> 0]

\* A node that check_compact turns into a base.
LEMMA NodeToBase ==
  ASSUME NEW N, NEW v, NEW ins, NEW rem, NEW base, NEW size
  PROVE  [Node(N, v, ins, rem) EXCEPT !.cached = TRUE, !.base = base, !.size = size, !.log = 0]
           = BaseOf(N, v, ins, rem, base, size)
<1>1. PICK r : r = Node(N, v, ins, rem)
  OBVIOUS
<1>2. PICK q : q = BaseOf(N, v, ins, rem, base, size)
  OBVIOUS
<1>3. r \in [parent : {v}, depth : {q.depth}, inserts : {ins}, removes : {rem},
            cached : {FALSE}, base : {{}}, size : {r.size}, log : {r.log}]
  BY <1>1, <1>2 DEF Node, BaseOf
<1>4. PICK u : u = [r EXCEPT !.cached = TRUE, !.base = base, !.size = size, !.log = 0]
  OBVIOUS
<1>5. u \in [parent : {v}, depth : {q.depth}, inserts : {ins}, removes : {rem},
            cached : {TRUE}, base : {base}, size : {size}, log : {0}]
  BY <1>3, <1>4
<1>6. u = [parent |-> v, depth |-> q.depth, inserts |-> ins, removes |-> rem,
           cached |-> TRUE, base |-> base, size |-> size, log |-> 0]
  BY <1>5
<1>7. q = [parent |-> v, depth |-> q.depth, inserts |-> ins, removes |-> rem,
           cached |-> TRUE, base |-> base, size |-> size, log |-> 0]
  BY <1>2 DEF BaseOf
<1> QED  BY <1>1, <1>2, <1>4, <1>6, <1>7

\* check_compact changes the new node only, and not what it shows.
LEMMA CompactionShowsTheSame ==
  ASSUME NEW M, NEW n, NEW N, NEW v, NEW ins, NEW rem, NodeAdded(M, n, N, v, ins, rem)
  PROVE  LET P == CheckCompact(M)
             live == View(M, n)
         IN  /\ View(P, n) = live /\ Rooted(P, n)
             /\ RemovedOn(P, n) \subseteq RemovedOn(M, n)
             /\ \/ P = M /\ ~(M[n].log * Den >= Num * M[n].size)
                \/ P = [M EXCEPT ![n] = BaseOf(N, v, ins, rem, live, Cardinality(live))]
<1> USE DEF NodeAdded
<1> PICK P, live : P = CheckCompact(M) /\ live = View(M, n)
  OBVIOUS
<1>0. Rooted(M, n)
  BY WalkOfNode
<1> DEFINE b == BaseOf(N, v, ins, rem, live, Cardinality(live))
<1>1. CASE ~(M[n].log * Den >= Num * M[n].size)
  <2>1. P = M
    BY <1>1 DEF CheckCompact
  <2> QED  BY <1>0, <1>1, <2>1
<1>2. CASE M[n].log * Den >= Num * M[n].size
  <2>1. P = [M EXCEPT ![n].cached = TRUE, ![n].base = live, ![n].size = Cardinality(live),
                      ![n].log = 0]
    BY <1>2 DEF CheckCompact
  <2>2. [M[n] EXCEPT !.cached = TRUE, !.base = live, !.size = Cardinality(live), !.log = 0] = b
    <3>1. b = BaseOf(N, v, ins, rem, live, Cardinality(live))
      OBVIOUS
    <3> HIDE DEF b
    <3> QED  BY <3>1, NodeToBase
  <2>3. DOMAIN M = 1..n
    OBVIOUS
  <2>4. P = [M EXCEPT ![n] = [M[n] EXCEPT !.cached = TRUE, !.base = live,
                                          !.size = Cardinality(live), !.log = 0]]
    BY <2>1, <2>3
  <2>5. P = [M EXCEPT ![n] = b]
    BY <2>2, <2>4
  <2>6. P[n] = b /\ \A m \in 1..n - 1 : P[m] = M[m]
    BY <2>3, <2>5
  <2>7. P[n].cached /\ P[n].base = live
    BY <2>6 DEF BaseOf
  <2>8. Rooted(P, n)
    BY <1>0, <2>6, <2>7 DEF Rooted
  <2>9. View(P, n) = live /\ RemovedOn(P, n) = {}
    BY <2>7, <2>8, ViewOfBase
  <2> QED  BY <2>5, <2>8, <2>9
<1> QED  BY <1>1, <1>2
=============================================================================
