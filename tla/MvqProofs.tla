----------------------------- MODULE MvqProofs -----------------------------
(***************************************************************************)
(* The commits of MvqStore, for every number of writers, every set of      *)
(* points, every code length and every leaf size.                          *)
(*                                                                         *)
(* Part one: IInv is an inductive invariant; Separation and the            *)
(* immutability of shared nodes follow from it.                            *)
(*                                                                         *)
(* Part two, from "Induction" on: what the versions hold, by the invariant *)
(* CInv of MvqContents, and from it the refinement of VersionedIndex, the  *)
(* shape of the versions and the leaves that a deletion merges.  In order: *)
(* bags and their sizes; what lies below a node of a heap; paths; what a   *)
(* step leaves alone (Moves); the trees that build makes; one lemma per    *)
(* action of MvqStore (...Keeps); the theorems.                            *)
(***************************************************************************)
EXTENDS MvqContents, FiniteSetTheorems, WellFoundedInduction, TLAPS

-----------------------------------------------------------------------------
(* Paths.                                                                   *)

\* From ConstantsAssumption.
LEMMA BitsIsNatural == Bits \in Nat
BY ConstantsAssumption

\* Paths are the sequences of at most Bits binary digits.
LEMMA PathsAreSequences ==
  ASSUME NEW p \in Paths
  PROVE  p \in Seq({0, 1}) /\ Len(p) \in 0..Bits
BY BitsIsNatural DEF Paths

\* Bit sequences up to the depth of the code are regions.
LEMMA SequencesArePaths ==
  ASSUME NEW p \in Seq({0, 1}), Len(p) <= Bits
  PROVE  p \in Paths
<1>1. Len(p) \in 0..Bits /\ p \in [1..Len(p) -> {0, 1}]
  BY BitsIsNatural
<1> QED
  BY <1>1 DEF Paths

\* The whole space is a region.
LEMMA RootIsPath == << >> \in Paths /\ Len(<< >>) = 0
<1>1. << >> \in Seq({0, 1}) /\ Len(<< >>) <= Bits /\ Len(<< >>) = 0
  BY BitsIsNatural
<1> QED
  BY <1>1, SequencesArePaths

\* A child is a longer path, told apart from every other by parent and digit.
LEMMA ChildrenOfPath ==
  ASSUME NEW p \in Paths, Len(p) < Bits, NEW d \in {0, 1}
  PROVE  /\ Child(p, d) \in Paths /\ Child(p, d) \in Children(p)
         /\ Len(Child(p, d)) = Len(p) + 1
         /\ Child(p, d) # p /\ Child(p, d) # << >>
         /\ Parent(Child(p, d)) = p
         /\ Child(p, d)[Len(Child(p, d))] = d
<1>1. p \in Seq({0, 1}) /\ Len(p) \in 0..Bits
  BY PathsAreSequences
<1>2. Append(p, d) \in Seq({0, 1}) /\ Len(Append(p, d)) = Len(p) + 1
  BY <1>1
<1>3. Append(p, d) \in Paths
  <2>1. Len(Append(p, d)) <= Bits
    BY <1>1, <1>2, BitsIsNatural
  <2> QED
    BY <1>2, <2>1, SequencesArePaths
<1>4. SubSeq(Append(p, d), 1, Len(p)) = p /\ Append(p, d)[Len(p) + 1] = d
  BY <1>1
<1>5. Append(p, d) # p /\ Append(p, d) # << >>
  BY <1>1, <1>2
<1>6. Len(Append(p, d)) - 1 = Len(p)
  BY <1>1, <1>2, BitsIsNatural
<1> QED
  BY <1>2, <1>3, <1>4, <1>5, <1>6 DEF Child, Children, Parent

\* What the two halves of a region are.
LEMMA ChildrenArePaths ==
  ASSUME NEW p \in Paths, NEW q \in Children(p)
  PROVE  /\ Len(p) < Bits /\ q \in Paths /\ Len(q) = Len(p) + 1
         /\ q # p /\ q # << >> /\ Parent(q) = p /\ q[Len(q)] \in {0, 1}
         /\ q = Child(p, q[Len(q)])
<1>1. Len(p) < Bits /\ \E d \in {0, 1} : q = Child(p, d)
  BY DEF Children
<1>2. PICK d \in {0, 1} : q = Child(p, d)
  BY <1>1
<1> QED
  BY <1>1, <1>2, ChildrenOfPath

\* What the region is of which one is a half.
LEMMA ParentOfPath ==
  ASSUME NEW p \in Paths, p # << >>
  PROVE  /\ Parent(p) \in Paths /\ Len(Parent(p)) = Len(p) - 1
         /\ p[Len(p)] \in {0, 1} /\ p = Child(Parent(p), p[Len(p)])
         /\ Parent(p) # p /\ p \in Children(Parent(p))
<1>1. p \in Seq({0, 1}) /\ Len(p) \in 1..Bits
  BY PathsAreSequences, BitsIsNatural
<1> DEFINE q == SubSeq(p, 1, Len(p) - 1)
<1>2. q \in Seq({0, 1}) /\ Len(q) = Len(p) - 1
  BY <1>1, SMTT(30)
<1>3. q \in Paths
  <2>1. Len(q) <= Bits
    BY <1>1, <1>2, BitsIsNatural
  <2> HIDE DEF q
  <2> QED
    BY <1>2, <2>1, SequencesArePaths
<1>4. p[Len(p)] \in {0, 1} /\ p = Append(q, p[Len(p)])
  BY <1>1
<1>5. Len(q) < Bits /\ q # p
  BY <1>1, <1>2, BitsIsNatural
<1>6. p \in Children(q)
  BY <1>4, <1>5 DEF Children, Child
<1>7. Parent(p) = q
  BY DEF Parent
<1> HIDE DEF q
<1> QED
  BY <1>2, <1>3, <1>4, <1>5, <1>6, <1>7 DEF Child

-----------------------------------------------------------------------------
(* Bags and builds.                                                         *)

\* No points are a bag of points.
LEMMA EmptyBagOfPoints == IsBagOfPoints(EmptyBag)
BY DEF IsBagOfPoints, EmptyBag, SetToBag

\* Records joined are records.
LEMMA UnionOfBags ==
  ASSUME NEW A, NEW B, IsBagOfPoints(A), IsBagOfPoints(B)
  PROVE  IsBagOfPoints(A (+) B)
BY DEF IsBagOfPoints, (+)

\* Records with some taken out are records.
LEMMA DifferenceOfBags ==
  ASSUME NEW A, NEW B, IsBagOfPoints(A), IsBagOfPoints(B)
  PROVE  IsBagOfPoints(A (-) B)
BY DEF IsBagOfPoints, (-)

\* The records in a region are records.
LEMMA PartOfBag ==
  ASSUME NEW B, IsBagOfPoints(B), NEW q
  PROVE  IsBagOfPoints(Part(B, q))
BY DEF IsBagOfPoints, Part

\* The batches of commits are records.
LEMMA BatchesAreBags ==
  ASSUME NEW B \in Batches \cup Initial \cup {EmptyBag}
  PROVE  IsBagOfPoints(B)
BY ConstantsAssumption, EmptyBagOfPoints

\* What the leaf constructor makes.
LEMMA LeavesAreNodes ==
  ASSUME NEW B, IsBagOfPoints(B)
  PROVE  IsNode(Leaf(B)) /\ Leaf(B).leaf
BY DEF IsNode, Leaf

\* What the constructor of interior nodes makes.
LEMMA IntesAreNodes ==
  ASSUME NEW L \in AddressOrNull, NEW R \in AddressOrNull, NEW n
  PROVE  /\ IsNode(Inte(L, R, n)) /\ ~Inte(L, R, n).leaf
         /\ Inte(L, R, n).l_son = L /\ Inte(L, R, n).r_son = R
BY DEF IsNode, Inte

\* What x.reset() makes of an inner node.
LEMMA DroppedSon ==
  ASSUME NEW L, NEW R, NEW n
  PROVE  /\ [Inte(L, R, n) EXCEPT !.l_son = Null] = Inte(Null, R, n)
         /\ [Inte(L, R, n) EXCEPT !.r_son = Null] = Inte(L, Null, n)
<1> DEFINE Node(f, A, B) == [leaf |-> f, l_son |-> A, r_son |-> B, num_pts |-> n]
<1>1. ASSUME NEW f, NEW h, h = Node(f, L, R)
      PROVE  /\ [h EXCEPT !.l_son = Null] = Node(f, Null, R)
             /\ [h EXCEPT !.r_son = Null] = Node(f, L, Null)
  BY <1>1
<1>2. PICK f : f = FALSE
  OBVIOUS
<1>3. \A A, B : Inte(A, B, n) = Node(f, A, B)
  BY <1>2, Zenon DEF Inte
<1>4. Inte(L, R, n) = Node(f, L, R)
  BY <1>3
<1> HIDE DEF Node
<1> QED
  BY <1>1, <1>3, <1>4

\* What build allocates: typed nodes at and below p, owned by commit c, whose
\* sons it allocated too.
LEMMA BuildIsSound ==
  ASSUME NEW B, IsBagOfPoints(B), NEW p \in Paths, NEW c \in Nat
  PROVE  /\ DOMAIN Build(B, p, c) \subseteq Address
         /\ BuildAddress(c, p) \in DOMAIN Build(B, p, c)
         /\ \A a \in DOMAIN Build(B, p, c) :
              /\ a.owner = c /\ a.made = "build"
              /\ IsNode(Build(B, p, c)[a])
              /\ ~Build(B, p, c)[a].leaf =>
                   /\ Len(a.at) < Bits
                   /\ \A s \in {Build(B, p, c)[a].l_son, Build(B, p, c)[a].r_son} :
                        s # Null => s \in DOMAIN Build(B, p, c) /\ Len(s.at) > Len(a.at)
<1> DEFINE Q == BuildPaths(B, p)
           N == Build(B, p, c)
<1>1. Q \subseteq Paths /\ p \in Q
  BY DEF BuildPaths
<1>2. DOMAIN N = {BuildAddress(c, q) : q \in Q}
  BY DEF Build
<1>3. \A q \in Q : /\ BuildAddress(c, q) \in Address
                   /\ BuildAddress(c, q).owner = c
                   /\ BuildAddress(c, q).made = "build"
                   /\ BuildAddress(c, q).at = q
                   /\ BuildAddress(c, q) \in DOMAIN N
                   /\ N[BuildAddress(c, q)] = BuildNode(B, c, Q, q)
  BY <1>1, <1>2 DEF Build, BuildAddress, Address
<1>4. ASSUME NEW q \in Q
      PROVE  /\ IsNode(BuildNode(B, c, Q, q))
             /\ ~BuildNode(B, c, Q, q).leaf =>
                   /\ Len(q) < Bits
                   /\ \A s \in {BuildNode(B, c, Q, q).l_son, BuildNode(B, c, Q, q).r_son} :
                        s # Null => s \in DOMAIN N /\ Len(s.at) > Len(q)
  <2> DEFINE n == BagCardinality(Part(B, q))
             SonAt(d) == IF Child(q, d) \in Q THEN BuildAddress(c, Child(q, d)) ELSE Null
  <2>1. CASE FitsLeaf(n, q)
    <3>1. BuildNode(B, c, Q, q) = Leaf(Part(B, q))
      BY <2>1 DEF BuildNode
    <3> QED
      BY <3>1, PartOfBag, LeavesAreNodes
  <2>2. CASE ~FitsLeaf(n, q)
    <3>1. BuildNode(B, c, Q, q) = Inte(SonAt(0), SonAt(1), n)
      BY <2>2 DEF BuildNode
    <3>2. Len(q) < Bits
      BY <2>2, <1>1, PathsAreSequences, BitsIsNatural DEF FitsLeaf
    <3>3. ASSUME NEW d \in {0, 1}
          PROVE  /\ SonAt(d) \in AddressOrNull
                 /\ SonAt(d) # Null => SonAt(d) \in DOMAIN N /\ Len(SonAt(d).at) > Len(q)
      <4>1. Len(Child(q, d)) = Len(q) + 1
        BY <1>1, <3>2, ChildrenOfPath
      <4>2. Len(Child(q, d)) > Len(q)
        BY <4>1, <1>1, PathsAreSequences
      <4> QED
        BY <1>3, <4>2 DEF AddressOrNull
    <3> HIDE DEF SonAt, n
    <3> QED
      BY <3>1, <3>2, <3>3, IntesAreNodes
  <2> QED
    BY <2>1, <2>2
<1> HIDE DEF Q, N
<1>5. ASSUME NEW a \in DOMAIN N
      PROVE  /\ a.owner = c /\ a.made = "build"
             /\ IsNode(N[a])
             /\ ~N[a].leaf =>
                   /\ Len(a.at) < Bits
                   /\ \A s \in {N[a].l_son, N[a].r_son} :
                        s # Null => s \in DOMAIN N /\ Len(s.at) > Len(a.at)
  <2>1. PICK q \in Q : a = BuildAddress(c, q)
    BY <1>2
  <2> QED
    BY <2>1, <1>3, <1>4
<1> QED
  BY <1>1, <1>2, <1>3, <1>5 DEF N

-----------------------------------------------------------------------------
(* What the references of a commit may lead to.                             *)

\* Writer w may keep a reference to a: no other commit writes it.
MayHold(w, a) ==
  a = Null \/ (a \in DOMAIN heap /\ \A u \in Writers \ {w} : a \notin Private(u))

\* A frame that is not running holds no reference; the others refer to live nodes.
LEMMA SlotsMayBeHeld ==
  ASSUME IInv, NEW w \in Writers, NEW p \in Paths
  PROVE  MayHold(w, slot[w][p])
<1>1. slot[w][p] \in DOMAIN heap \cup {Null}
  <2>1. job[w].phase \in Working => slot[w][p] \in Referenced
    BY DEF Referenced, Owners
  <2>2. job[w].phase = "idle" => slot[w][p] = Null
    BY DEF IInv, TypeOK, NoFrames
  <2>3. job[w].phase = "gc" /\ pc[w][p] = "join" => slot[w][p] \in DOMAIN heap
    BY DEF IInv, FramesWork, Inner
  <2>4. job[w].phase = "gc" /\ pc[w][p] # "join" => slot[w][p] = Null
    BY DEF IInv, GcFramesNest
  <2>5. job[w].phase \in Working \cup {"idle", "gc"}
    BY DEF IInv, TypeOK, Working
  <2> QED
    BY <2>1, <2>2, <2>3, <2>4, <2>5 DEF IInv, NoDanglingReference
<1>2. ASSUME NEW u \in Writers \ {w} PROVE slot[w][p] \notin Private(u)
  BY DEF IInv, Separation, Apart
<1> QED
  BY <1>1, <1>2 DEF MayHold

\* A commit may refer to the roots it works on and to those of versions.
LEMMA RootsMayBeHeld ==
  ASSUME IInv, NEW w \in Writers
  PROVE  /\ MayHold(w, job[w].tmp_ver) /\ MayHold(w, job[w].new_ver)
         /\ \A v \in DOMAIN versions : MayHold(w, versions[v])
<1>1. /\ {job[w].tmp_ver, job[w].new_ver} \subseteq DOMAIN heap \cup {Null}
      /\ \A v \in DOMAIN versions : versions[v] \in DOMAIN heap \cup {Null}
  BY DEF IInv, NoDanglingReference, Referenced
<1>2. ASSUME NEW u \in Writers \ {w}
      PROVE  /\ job[w].tmp_ver \notin Private(u) /\ job[w].new_ver \notin Private(u)
             /\ \A v \in DOMAIN versions : versions[v] \notin Private(u)
  BY DEF IInv, Separation, Apart
<1> QED
  BY <1>1, <1>2 DEF MayHold

\* Who may refer to a node may refer to its sons.
LEMMA SonsMayBeHeld ==
  ASSUME IInv, NEW w \in Writers, NEW a \in Inner, MayHold(w, a), NEW d \in {0, 1}
  PROVE  MayHold(w, Son(a, d))
<1>1. Son(a, d) \in DOMAIN heap \cup {Null}
  BY DEF IInv, NoDanglingReference, Referenced
<1>2. a # Null
  BY ConstantsAssumption DEF IInv, TypeOK, Inner
<1>3. ASSUME NEW u \in Writers \ {w} PROVE Son(a, d) \notin Private(u)
  BY <1>2 DEF MayHold, IInv, Separation, Apart
<1> QED
  BY <1>1, <1>3 DEF MayHold

\* What a frame of a deletion or an insertion copies lies in its region.
LEMMA ArgumentMayBeHeld ==
  ASSUME IInv, NEW w \in Writers, NEW p \in Paths, job[w].phase \in Working
  PROVE  /\ MayHold(w, Argument(w, p))
         /\ Argument(w, p) # Null => Argument(w, p) \in Address
                                      /\ Len(Argument(w, p).at) >= Len(p)
<1>1. CASE p # << >>
  BY <1>1, SlotsMayBeHeld DEF Argument, IInv, Depths, TypeOK, MayHold
<1>2. CASE p = << >>
  <2>1. job[w].base \in DOMAIN versions
    BY DEF IInv, JobsDiffer, Working
  <2>2. MayHold(w, Argument(w, p))
    BY <1>2, <2>1, RootsMayBeHeld DEF Argument
  <2>3. Argument(w, p) # Null => Argument(w, p) \in Address
    BY <2>2 DEF MayHold, IInv, TypeOK
  <2>4. \A a \in Address : Len(a.at) >= 0
    BY PathsAreSequences, BitsIsNatural DEF Address
  <2> QED
    BY <1>2, <2>2, <2>3, <2>4, RootIsPath
<1> QED
  BY <1>1, <1>2

-----------------------------------------------------------------------------
(* The steps of deletions and insertions.                                   *)

\* Allocating or overwriting the nodes of N and touching no other.
Grows(N) ==
  /\ DOMAIN heap' = DOMAIN heap \cup DOMAIN N
  /\ \A a \in DOMAIN heap' : heap'[a] = IF a \in DOMAIN N THEN N[a] ELSE heap[a]

\* N holds nodes of w's commit, which refer to each other and to what w may hold.
OwnNodes(w, N) ==
  /\ DOMAIN N \subseteq Address
  /\ \A a \in DOMAIN N :
       /\ a.owner = job[w].id /\ IsNode(N[a])
       /\ ~N[a].leaf =>
            /\ Len(a.at) < Bits
            /\ \A s \in {N[a].l_son, N[a].r_son} :
                 /\ MayHold(w, s) \/ s \in DOMAIN N
                 /\ s # Null => Len(s.at) > Len(a.at)

\* The variables of w's frames after the step.
OwnFrames(w, N, PC, S) ==
  /\ PC \in [Paths -> {"idle", "call", "join", "done"}]
  /\ S \in [Paths -> AddressOrNull]
  /\ \A q \in Paths :
       /\ MayHold(w, S[q]) \/ S[q] \in DOMAIN N
       /\ S[q] # Null => Len(S[q].at) >= Len(q)
       /\ PC[q] = "idle" => S[q] = Null
       /\ PC[q] = "join" =>
            /\ S[q].owner = job[w].id /\ S[q].at = q
            /\ S[q].made \in {"delete_copy", "insert_copy"}
            /\ \/ S[q] \in DOMAIN N /\ ~N[S[q]].leaf
               \/ S[q] \in Inner \ DOMAIN N

\* A step of a deletion or of an insertion that stays within these bounds
\* preserves the invariant.
LEMMA WorkStep ==
  ASSUME IInv, NEW w \in Writers, job[w].phase \in Working,
         NEW N, OwnNodes(w, N), Grows(N),
         NEW PC, NEW S, OwnFrames(w, N, PC, S),
         pc' = [pc EXCEPT ![w] = PC], slot' = [slot EXCEPT ![w] = S],
         UNCHANGED <<versions, job, commits>>
  PROVE  IInv'
<1>t. TypeOK
  BY DEF IInv
<1>n. Null \notin DOMAIN heap /\ Null \notin DOMAIN N
  BY <1>t, ConstantsAssumption DEF TypeOK, OwnNodes
<1>w. /\ pc'[w] = PC /\ slot'[w] = S
      /\ \A u \in Writers \ {w} : pc'[u] = pc[u] /\ slot'[u] = slot[u]
      /\ job[w].phase # "idle" /\ job[w].phase # "gc"
  BY <1>t DEF TypeOK, Working
<1>j. \A u \in Writers \ {w} : job[u].phase # "idle" => job[u].id # job[w].id
  BY <1>w DEF IInv, JobsDiffer
<1>p. /\ \A u \in Writers \ {w} : Private(u)' = Private(u)
      /\ Private(w) = {a \in DOMAIN heap : a.owner = job[w].id}
      /\ Private(w)' = {a \in DOMAIN heap' : a.owner = job[w].id}
  <2>1. ASSUME NEW u \in Writers \ {w} PROVE Private(u)' = Private(u)
    <3>1. CASE job[u].phase = "idle"
      BY <3>1 DEF Private
    <3>2. CASE job[u].phase # "idle"
      <4>1. {a \in DOMAIN heap' : a.owner = job[u].id} = {a \in DOMAIN heap : a.owner = job[u].id}
        BY <1>j, <3>2 DEF Grows, OwnNodes
      <4> QED
        BY <3>2, <4>1, <1>w DEF Private
    <3> QED
      BY <3>1, <3>2
  <2> QED
    BY <2>1, <1>w DEF Private
<1>i. ASSUME NEW b \in Inner'
      PROVE  \/ /\ b \in DOMAIN N /\ ~N[b].leaf
                /\ Son(b, 0)' = N[b].l_son /\ Son(b, 1)' = N[b].r_son
             \/ /\ b \in Inner /\ b \notin DOMAIN N
                /\ Son(b, 0)' = Son(b, 0) /\ Son(b, 1)' = Son(b, 1)
  BY DEF Inner, Son, Grows
<1>1. TypeOK'
  <2>1. DOMAIN heap' \subseteq Address /\ \A a \in DOMAIN heap' : IsNode(heap'[a])
    BY <1>t DEF TypeOK, Grows, OwnNodes
  <2>2. /\ pc' \in [Writers -> [Paths -> {"idle", "call", "join", "done"}]]
        /\ slot' \in [Writers -> [Paths -> AddressOrNull]]
    BY <1>t DEF TypeOK, OwnFrames
  <2>3. ASSUME NEW u \in Writers
        PROVE  /\ job'[u].phase = "idle" => job'[u] = Idle /\ pc'[u] = NoFrames
               /\ \A p \in Paths : pc'[u][p] = "idle" => slot'[u][p] = Null
    BY <1>t, <1>w DEF TypeOK, OwnFrames
  <2> QED
    BY <1>t, <2>1, <2>2, <2>3 DEF TypeOK
<1>l. \A q \in Paths : S[q] \in DOMAIN heap' \cup {Null}
  BY DEF OwnFrames, MayHold, Grows
<1>2. NoDanglingReference'
  <2>1. ASSUME NEW b \in Inner', NEW d \in {0, 1}
        PROVE  Son(b, d)' \in DOMAIN heap' \cup {Null}
    <3>1. CASE b \in DOMAIN N /\ ~N[b].leaf
      BY <1>i, <3>1 DEF OwnNodes, MayHold, Grows
    <3>2. CASE b \in Inner /\ b \notin DOMAIN N
      <4>1. Son(b, d)' = Son(b, d) /\ Son(b, d) \in Referenced
        BY <1>i, <3>2 DEF Referenced
      <4> QED
        BY <4>1 DEF IInv, NoDanglingReference, Grows
    <3> QED
      BY <1>i, <3>1, <3>2
  <2>2. ASSUME NEW u \in Owners', NEW q \in Paths
        PROVE  slot'[u][q] \in DOMAIN heap' \cup {Null}
    <3>1. CASE u = w
      BY <3>1, <1>w, <1>l
    <3>2. CASE u # w
      <4>1. u \in Writers /\ slot'[u][q] = slot[u][q]
        BY <3>2, <1>w DEF Owners
      <4> QED
        BY <4>1, SlotsMayBeHeld DEF MayHold, Grows
    <3> QED
      BY <3>1, <3>2
  <2>3. /\ \A v \in DOMAIN versions' : versions'[v] \in DOMAIN heap' \cup {Null}
        /\ \A u \in Writers : {job'[u].tmp_ver, job'[u].new_ver} \subseteq DOMAIN heap' \cup {Null}
    BY RootsMayBeHeld DEF MayHold, Grows
  <2> QED
    BY <2>1, <2>2, <2>3 DEF NoDanglingReference, Referenced
<1>3. JobsDiffer'
  <2>1. job[w].id <= commits
    BY <1>t DEF TypeOK
  <2> QED
    BY <2>1 DEF IInv, JobsDiffer, Grows, OwnNodes
<1>4. FramesWork'
  <2> SUFFICES ASSUME NEW u \in Writers, NEW p \in Paths, pc'[u][p] = "join"
               PROVE  /\ slot'[u][p] \in Inner'
                      /\ job[u].phase \in Working => slot'[u][p].owner = job[u].id
    BY DEF FramesWork
  <2>1. CASE u = w
    BY <2>1, <1>w DEF OwnFrames, Inner, Grows
  <2>2. CASE u # w
    <3>1. slot'[u][p] = slot[u][p] /\ pc[u][p] = "join"
      BY <2>2, <1>w
    <3>2. /\ slot[u][p] \in Inner
          /\ job[u].phase \in Working => slot[u][p].owner = job[u].id
      BY <3>1 DEF IInv, FramesWork
    <3>3. slot[u][p] \in Private(u)
      <4>1. job[u].phase # "idle"
        BY <1>t, <3>1 DEF TypeOK, NoFrames
      <4>2. job[u].phase \in Working \cup {"gc"}
        BY <1>t, <4>1 DEF TypeOK, Working
      <4> QED
        BY <3>1, <3>2, <4>1, <4>2 DEF Private, Inner
    <3>4. slot[u][p] \notin DOMAIN N
      <4>1. slot[u][p] \notin Private(w)
        BY <2>2, <3>3 DEF IInv, Separation, Apart
      <4> QED
        BY <4>1, <1>p, <3>2 DEF OwnNodes, Inner
    <3> QED
      BY <3>1, <3>2, <3>4 DEF Inner, Grows
  <2> QED
    BY <2>1, <2>2
<1>5. GcFramesNest'
  <2>1. ASSUME NEW u \in Writers \ {w}, job[u].phase = "gc", NEW p \in Paths, pc[u][p] # "idle"
        PROVE  GcArgument(u, p)' = GcArgument(u, p)
    <3>1. CASE p = << >>
      BY <3>1 DEF GcArgument
    <3>2. CASE p # << >>
      <4>1. Parent(p) \in Paths /\ pc[u][Parent(p)] = "join"
        BY <2>1, <3>2, ParentOfPath DEF IInv, GcFramesNest
      <4>2. slot[u][Parent(p)] \in Inner /\ slot[u][Parent(p)] \in Private(u)
        BY <2>1, <4>1 DEF IInv, FramesWork, Private
      <4>3. slot[u][Parent(p)] \notin DOMAIN N
        <5>1. slot[u][Parent(p)] \notin Private(w)
          BY <4>1, <4>2 DEF IInv, Separation, Apart
        <5> QED
          BY <5>1, <1>p, <4>2 DEF OwnNodes, Inner
      <4> QED
        BY <3>2, <4>2, <4>3, <1>w DEF GcArgument, Son, Grows, Inner
    <3> QED
      BY <3>1, <3>2
  <2> QED
    BY <2>1, <1>w DEF IInv, GcFramesNest
<1>6. Depths'
  <2>1. ASSUME NEW a \in Inner'
        PROVE  /\ Len(a.at) < Bits
               /\ \A d \in {0, 1} : Son(a, d)' # Null => Len(Son(a, d)'.at) > Len(a.at)
    BY <1>i DEF OwnNodes, IInv, Depths
  <2>2. ASSUME NEW u \in Writers, NEW p \in Paths
        PROVE  slot'[u][p] # Null => Len(slot'[u][p].at) >= Len(p)
    BY <1>w DEF OwnFrames, IInv, Depths
  <2> QED
    BY <2>1, <2>2 DEF Depths
<1>7. CopiesInPlace'
  BY <1>w DEF OwnFrames, IInv, CopiesInPlace
<1>8. Separation'
  <2>1. ASSUME NEW u \in Writers, NEW a \in Private(u)'
        PROVE  /\ \A v \in DOMAIN versions : versions[v] # a
               /\ \A b \in Inner' : a \in {Son(b, 0)', Son(b, 1)'} => b \in Private(u)'
               /\ \A x \in Writers \ {u} :
                    a \notin {job[x].tmp_ver, job[x].new_ver} \cup {slot'[x][p] : p \in Paths}
    <3>1. CASE u = w
      <4>1. a \in DOMAIN heap' /\ a.owner = job[w].id /\ a # Null
        BY <1>n, <1>p, <3>1 DEF Grows
      <4>2. a \in DOMAIN heap => a \in Private(w)
        BY <4>1, <1>p
      <4>3. \A v \in DOMAIN versions : versions[v] # a
        BY <4>1, <4>2, RootsMayBeHeld DEF MayHold, IInv, Separation, Apart
      <4>4. ASSUME NEW b \in Inner', a \in {Son(b, 0)', Son(b, 1)'}
            PROVE  b \in Private(w)'
        <5>1. CASE b \in DOMAIN N
          BY <5>1, <1>p DEF OwnNodes, Inner
        <5>2. CASE b \in Inner /\ b \notin DOMAIN N /\ a \in {Son(b, 0), Son(b, 1)}
          <6>1. a \in DOMAIN heap
            BY <4>1, <5>2 DEF IInv, NoDanglingReference, Referenced
          <6>2. b \in Private(w)
            BY <4>2, <5>2, <6>1 DEF IInv, Separation, Apart
          <6> QED
            BY <6>2, <1>p DEF Grows
        <5> QED
          BY <4>4, <5>1, <5>2, <1>i
      <4>5. ASSUME NEW x \in Writers \ {w}
            PROVE  a \notin {job[x].tmp_ver, job[x].new_ver} \cup {slot[x][p] : p \in Paths}
        <5>1. \A p \in Paths : slot[x][p] \in DOMAIN heap \cup {Null}
          BY SlotsMayBeHeld DEF MayHold
        <5>2. {job[x].tmp_ver, job[x].new_ver} \subseteq DOMAIN heap \cup {Null}
          BY RootsMayBeHeld DEF MayHold
        <5> QED
          BY <4>1, <4>2, <5>1, <5>2 DEF IInv, Separation, Apart
      <4> QED
        BY <3>1, <4>3, <4>4, <4>5, <1>w
    <3>2. CASE u # w
      <4>1. a \in Private(u)
        BY <3>2, <1>p
      <4>2. a # Null /\ a \notin DOMAIN N
        <5>1. a \in DOMAIN heap
          BY <4>1 DEF Private, IInv, FramesWork, Inner
        <5>2. a \notin Private(w)
          <6>1. CASE a.owner = job[u].id /\ job[u].phase # "idle"
            BY <6>1, <1>j, <1>p, <3>2
          <6>2. CASE \E q \in Paths : slot[u][q] = a
            BY <6>2, <3>2 DEF IInv, Separation, Apart
          <6> QED
            BY <4>1, <6>1, <6>2 DEF Private
        <5> QED
          BY <5>1, <5>2, <1>n, <1>p DEF OwnNodes
      <4>3. \A v \in DOMAIN versions : versions[v] # a
        BY <4>1 DEF IInv, Separation, Apart
      <4>4. ASSUME NEW b \in Inner', a \in {Son(b, 0)', Son(b, 1)'}
            PROVE  b \in Private(u)'
        <5>1. CASE b \in DOMAIN N /\ ~N[b].leaf /\ a \in {N[b].l_son, N[b].r_son}
          BY <5>1, <3>2, <4>1, <4>2 DEF OwnNodes, MayHold
        <5>2. CASE b \in Inner /\ a \in {Son(b, 0), Son(b, 1)}
          BY <5>2, <4>1, <3>2, <1>p DEF IInv, Separation, Apart
        <5> QED
          BY <4>4, <5>1, <5>2, <1>i
      <4>5. ASSUME NEW x \in Writers \ {u}
            PROVE  a \notin {job[x].tmp_ver, job[x].new_ver} \cup {slot'[x][p] : p \in Paths}
        <5>1. a \notin {job[x].tmp_ver, job[x].new_ver}
          BY <4>1 DEF IInv, Separation, Apart
        <5>2. CASE x = w
          BY <5>1, <5>2, <4>1, <4>2, <3>2, <1>w DEF OwnFrames, MayHold
        <5>3. CASE x # w
          BY <5>3, <4>1, <1>w DEF IInv, Separation, Apart
        <5> QED
          BY <5>2, <5>3
      <4> QED
        BY <4>3, <4>4, <4>5
    <3> QED
      BY <3>1, <3>2
  <2> QED
    BY <2>1 DEF Separation, Apart
<1> QED
  BY <1>1, <1>2, <1>3, <1>4, <1>5, <1>6, <1>7, <1>8 DEF IInv

\* A frame that allocated N and returns y.
LEMMA ReturnStep ==
  ASSUME IInv, NEW w \in Writers, job[w].phase \in Working, NEW p \in Paths,
         NEW N, OwnNodes(w, N), Grows(N),
         \A a \in DOMAIN N : a.at = p \/ a.made \notin {"delete_copy", "insert_copy"},
         NEW y, MayHold(w, y) \/ y \in DOMAIN N, y # Null => Len(y.at) >= Len(p),
         Return(w, p, y), UNCHANGED <<versions, job, commits>>
  PROVE  IInv'
<1> DEFINE PC == [q \in Paths |->
                    IF q = p THEN "done" ELSE IF q \in Children(p) THEN "idle" ELSE pc[w][q]]
           S == [q \in Paths |->
                    IF q = p THEN y ELSE IF q \in Children(p) THEN Null ELSE slot[w][q]]
<1>t. TypeOK
  BY DEF IInv
<1>1. pc' = [pc EXCEPT ![w] = PC] /\ slot' = [slot EXCEPT ![w] = S]
  BY <1>t DEF Return, TypeOK
<1>2. y \in AddressOrNull
  BY <1>t DEF MayHold, TypeOK, AddressOrNull, OwnNodes
<1>3. PC \in [Paths -> {"idle", "call", "join", "done"}] /\ S \in [Paths -> AddressOrNull]
  BY <1>t, <1>2 DEF TypeOK, AddressOrNull
<1>4. ASSUME NEW q \in Paths
      PROVE  /\ MayHold(w, S[q]) \/ S[q] \in DOMAIN N
             /\ S[q] # Null => Len(S[q].at) >= Len(q)
             /\ PC[q] = "idle" => S[q] = Null
             /\ PC[q] = "join" =>
                  /\ S[q].owner = job[w].id /\ S[q].at = q
                  /\ S[q].made \in {"delete_copy", "insert_copy"}
                  /\ \/ S[q] \in DOMAIN N /\ ~N[S[q]].leaf
                     \/ S[q] \in Inner \ DOMAIN N
  <2>1. CASE q = p
    <3>1. PC[q] = "done" /\ S[q] = y
      BY <2>1
    <3> QED
      BY <2>1, <3>1
  <2>2. CASE q # p /\ q \in Children(p)
    <3>1. PC[q] = "idle" /\ S[q] = Null
      BY <2>2
    <3> QED
      BY <3>1 DEF MayHold
  <2>3. CASE q # p /\ q \notin Children(p)
    <3>1. PC[q] = pc[w][q] /\ S[q] = slot[w][q]
      BY <2>3
    <3>2. /\ slot[w][q] # Null => Len(slot[w][q].at) >= Len(q)
          /\ pc[w][q] = "idle" => slot[w][q] = Null
      BY <1>t DEF IInv, Depths, TypeOK
    <3>3. pc[w][q] = "join" =>
            /\ slot[w][q].owner = job[w].id /\ slot[w][q].at = q
            /\ slot[w][q].made \in {"delete_copy", "insert_copy"}
            /\ slot[w][q] \in Inner
      BY DEF IInv, FramesWork, CopiesInPlace
    <3> HIDE DEF PC, S
    <3> QED
      BY <2>3, <3>1, <3>2, <3>3, SlotsMayBeHeld
  <2> QED
    BY <2>1, <2>2, <2>3
<1> HIDE DEF PC, S
<1>5. OwnFrames(w, N, PC, S)
  BY <1>3, <1>4 DEF OwnFrames
<1> QED
  BY <1>1, <1>5, WorkStep

\* A frame that allocated nothing.
LEMMA NothingGrows ==
  ASSUME UNCHANGED heap, NEW w
  PROVE  /\ Grows([a \in {} |-> a]) /\ OwnNodes(w, [a \in {} |-> a])
         /\ DOMAIN [a \in {} |-> a] = {}
BY DEF Grows, OwnNodes

\* A frame that allocated, or overwrote, one node.
LEMMA OneGrows ==
  ASSUME NEW a, NEW node, heap' = Store(heap, One(a, node))
  PROVE  Grows(One(a, node)) /\ DOMAIN One(a, node) = {a} /\ One(a, node)[a] = node
BY DEF Grows, One, Store

\* The address of what a frame allocates.
LEMMA FreshIsOwn ==
  ASSUME TypeOK, NEW w \in Writers, NEW p \in Paths,
         NEW made \in {"build", "delete_copy", "merge", "insert_copy"}
  PROVE  /\ Fresh(w, made, p) \in Address /\ Fresh(w, made, p).owner = job[w].id
         /\ Fresh(w, made, p).at = p /\ Fresh(w, made, p).made = made
BY DEF Fresh, Address, TypeOK

\* A frame that returns a new leaf.
LEMMA LeafStep ==
  ASSUME IInv, NEW w \in Writers, job[w].phase \in Working, NEW p \in Paths,
         NEW made \in {"delete_copy", "merge", "insert_copy"}, NEW B, IsBagOfPoints(B),
         heap' = Store(heap, One(Fresh(w, made, p), Leaf(B))),
         Return(w, p, Fresh(w, made, p)), UNCHANGED <<versions, job, commits>>
  PROVE  IInv'
<1> DEFINE y == Fresh(w, made, p)
           N == One(y, Leaf(B))
<1>1. y \in Address /\ y.owner = job[w].id /\ y.at = p
  BY FreshIsOwn DEF IInv
<1>2. Grows(N) /\ DOMAIN N = {y} /\ N[y] = Leaf(B)
  BY OneGrows
<1>3. OwnNodes(w, N)
  <2> HIDE DEF y, N
  <2> QED
    BY <1>1, <1>2, LeavesAreNodes DEF OwnNodes
<1>4. Len(y.at) >= Len(p)
  BY <1>1, PathsAreSequences, BitsIsNatural
<1> HIDE DEF N
<1> QED
  BY <1>1, <1>2, <1>3, <1>4, ReturnStep

\* A frame that ends as the inner node it works on, with the results of its halves.
LEMMA InteStep ==
  ASSUME IInv, NEW w \in Writers, job[w].phase \in Working, NEW p \in Paths,
         pc[w][p] = "join", NEW n,
         heap' = Store(heap, One(slot[w][p],
                             Inte(slot[w][Child(p, 0)], slot[w][Child(p, 1)], n))),
         Return(w, p, slot[w][p]), UNCHANGED <<versions, job, commits>>
  PROVE  IInv'
<1> DEFINE x == slot[w][p]
           L == slot[w][Child(p, 0)]
           R == slot[w][Child(p, 1)]
           N == One(x, Inte(L, R, n))
<1>1. x \in Inner /\ x \in Address /\ x.owner = job[w].id /\ x.at = p /\ Len(p) < Bits
  BY DEF IInv, FramesWork, CopiesInPlace, Depths, TypeOK, Inner
<1>2. Grows(N) /\ DOMAIN N = {x} /\ N[x] = Inte(L, R, n)
  BY OneGrows
<1>3. ASSUME NEW s \in {L, R}
      PROVE  s \in AddressOrNull /\ MayHold(w, s) /\ (s # Null => Len(s.at) > Len(p))
  <2>1. PICK d \in {0, 1} : s = slot[w][Child(p, d)]
    OBVIOUS
  <2>2. Child(p, d) \in Paths /\ Len(Child(p, d)) = Len(p) + 1
    BY <1>1, ChildrenOfPath
  <2>3. s \in AddressOrNull
    BY <2>1, <2>2 DEF IInv, TypeOK
  <2>4. s # Null => Len(s.at) \in Nat /\ Len(s.at) >= Len(p) + 1
    BY <2>1, <2>2, <2>3, PathsAreSequences, BitsIsNatural
       DEF IInv, Depths, AddressOrNull, Address
  <2> QED
    BY <2>1, <2>2, <2>3, <2>4, SlotsMayBeHeld, PathsAreSequences, BitsIsNatural
<1>4. L \in AddressOrNull /\ R \in AddressOrNull
  BY <1>3
<1>5. MayHold(w, x) /\ Len(x.at) >= Len(p)
  BY <1>1, SlotsMayBeHeld, PathsAreSequences, BitsIsNatural
<1>6. OwnNodes(w, N)
  <2> HIDE DEF x, L, R, N
  <2> QED
    BY <1>1, <1>2, <1>3, <1>4, IntesAreNodes DEF OwnNodes
<1> HIDE DEF N
<1> QED
  BY <1>1, <1>2, <1>5, <1>6, ReturnStep

\* A frame that copies the inner node x and forks.
LEMMA ForkStep ==
  ASSUME IInv, NEW w \in Writers, job[w].phase \in Working, NEW p \in Paths,
         NEW made \in {"delete_copy", "insert_copy"}, NEW x \in Inner, NEW P,
         MayHold(w, x), Len(x.at) >= Len(p),
         heap' = Store(heap, One(Fresh(w, made, p), heap[x])),
         Fork(w, p, x, Fresh(w, made, p), P), UNCHANGED <<versions, job, commits>>
  PROVE  IInv'
<1> DEFINE y == Fresh(w, made, p)
           N == One(y, heap[x])
           PC == [q \in Paths |->
                    IF q = p THEN "join"
                    ELSE IF q \in Children(p)
                         THEN IF Part(P, q) = EmptyBag THEN "done" ELSE "call"
                         ELSE pc[w][q]]
           S == ForkSlots(w, p, x, y)
<1>t. TypeOK
  BY DEF IInv
<1>1. y \in Address /\ y.owner = job[w].id /\ y.at = p /\ y.made = made
  BY <1>t, FreshIsOwn
<1>2. Grows(N) /\ DOMAIN N = {y} /\ N[y] = heap[x]
  BY OneGrows
<1>3. pc' = [pc EXCEPT ![w] = PC] /\ slot' = [slot EXCEPT ![w] = S]
  BY <1>t DEF Fork, TypeOK
<1>4. /\ x \in Address /\ IsNode(heap[x]) /\ ~heap[x].leaf
      /\ Son(x, 0) = heap[x].l_son /\ Son(x, 1) = heap[x].r_son
  BY <1>t DEF TypeOK, Inner, Son
<1>5. Len(p) \in Nat /\ Len(x.at) \in Nat /\ Len(p) < Bits /\ Len(x.at) < Bits
  BY <1>4, PathsAreSequences, BitsIsNatural DEF IInv, Depths, Address
<1>6. ASSUME NEW d \in {0, 1}
      PROVE  /\ MayHold(w, Son(x, d)) /\ Son(x, d) \in AddressOrNull
             /\ Son(x, d) # Null => Len(Son(x, d).at) \in Nat /\ Len(Son(x, d).at) > Len(p)
  <2>1. MayHold(w, Son(x, d))
    BY SonsMayBeHeld
  <2>2. Son(x, d) \in AddressOrNull
    BY <1>t, <2>1 DEF MayHold, TypeOK, AddressOrNull
  <2>3. Son(x, d) # Null => Len(Son(x, d).at) > Len(x.at)
    BY DEF IInv, Depths
  <2>4. Son(x, d) # Null => Len(Son(x, d).at) \in Nat
    BY <2>2, PathsAreSequences, BitsIsNatural DEF AddressOrNull, Address
  <2> QED
    BY <1>5, <2>1, <2>2, <2>3, <2>4
<1>7. OwnNodes(w, N)
  <2> HIDE DEF y, N
  <2> QED
    BY <1>1, <1>2, <1>4, <1>5, <1>6 DEF OwnNodes
<1>8. ASSUME NEW q \in Paths
      PROVE  /\ PC[q] \in {"idle", "call", "join", "done"} /\ S[q] \in AddressOrNull
             /\ MayHold(w, S[q]) \/ S[q] \in DOMAIN N
             /\ S[q] # Null => Len(S[q].at) >= Len(q)
             /\ PC[q] = "idle" => S[q] = Null
             /\ PC[q] = "join" =>
                  /\ S[q].owner = job[w].id /\ S[q].at = q
                  /\ S[q].made \in {"delete_copy", "insert_copy"}
                  /\ \/ S[q] \in DOMAIN N /\ ~N[S[q]].leaf
                     \/ S[q] \in Inner \ DOMAIN N
  <2>1. CASE q = p
    <3>1. PC[q] = "join" /\ S[q] = y
      BY <2>1 DEF ForkSlots
    <3> HIDE DEF PC, S, y, N
    <3> QED
      BY <1>1, <1>2, <1>4, <1>5, <2>1, <3>1 DEF AddressOrNull
  <2>2. CASE q # p /\ q \in Children(p)
    <3>1. PC[q] \in {"call", "done"} /\ S[q] = Son(x, q[Len(q)])
      BY <2>2 DEF ForkSlots
    <3>2. Len(q) = Len(p) + 1 /\ q[Len(q)] \in {0, 1}
      BY <2>2, ChildrenArePaths
    <3> HIDE DEF PC, S, y, N
    <3> QED
      BY <1>5, <1>6, <3>1, <3>2
  <2>3. CASE q # p /\ q \notin Children(p)
    <3>1. PC[q] = pc[w][q] /\ S[q] = slot[w][q]
      BY <2>3 DEF ForkSlots
    <3>2. /\ pc[w][q] \in {"idle", "call", "join", "done"} /\ slot[w][q] \in AddressOrNull
          /\ slot[w][q] # Null => Len(slot[w][q].at) >= Len(q)
          /\ pc[w][q] = "idle" => slot[w][q] = Null
      BY <1>t DEF IInv, Depths, TypeOK
    <3>3. pc[w][q] = "join" =>
            /\ slot[w][q].owner = job[w].id /\ slot[w][q].at = q
            /\ slot[w][q].made \in {"delete_copy", "insert_copy"}
            /\ slot[w][q] \in Inner
      BY DEF IInv, FramesWork, CopiesInPlace
    <3> HIDE DEF PC, S, y, N
    <3> QED
      BY <1>1, <1>2, <2>3, <3>1, <3>2, <3>3, SlotsMayBeHeld
  <2> QED
    BY <2>1, <2>2, <2>3
<1>9. DOMAIN PC = Paths /\ DOMAIN S = Paths /\ S = [q \in Paths |-> S[q]]
  BY DEF ForkSlots
<1>10. OwnFrames(w, N, PC, S)
  <2>1. PC \in [Paths -> {"idle", "call", "join", "done"}]
    BY <1>8
  <2>2. S \in [Paths -> AddressOrNull]
    BY <1>8, <1>9
  <2> HIDE DEF PC, S, N
  <2> QED
    BY <1>8, <2>1, <2>2 DEF OwnFrames
<1> HIDE DEF PC, S, N
<1> QED
  BY <1>2, <1>3, <1>7, <1>10, WorkStep

\* A frame that leaves the heap alone and returns y.
LEMMA QuietReturnStep ==
  ASSUME IInv, NEW w \in Writers, job[w].phase \in Working, NEW p \in Paths,
         NEW y, MayHold(w, y), y # Null => Len(y.at) >= Len(p),
         Return(w, p, y), UNCHANGED <<heap, versions, job, commits>>
  PROVE  IInv'
BY NothingGrows, ReturnStep

\* A frame that returns what build allocates at its path.
LEMMA BuildStep ==
  ASSUME IInv, NEW w \in Writers, job[w].phase \in Working, NEW p \in Paths,
         NEW B, IsBagOfPoints(B),
         heap' = Store(heap, Build(B, p, job[w].id)),
         Return(w, p, BuildAddress(job[w].id, p)), UNCHANGED <<versions, job, commits>>
  PROVE  IInv'
<1> DEFINE N == Build(B, p, job[w].id)
           y == BuildAddress(job[w].id, p)
<1>1. job[w].id \in Nat
  BY DEF IInv, TypeOK
<1>2. OwnNodes(w, N) /\ \A a \in DOMAIN N : a.made = "build"
  <2>1. /\ DOMAIN N \subseteq Address
        /\ \A a \in DOMAIN N :
             /\ a.owner = job[w].id /\ a.made = "build" /\ IsNode(N[a])
             /\ ~N[a].leaf =>
                  /\ Len(a.at) < Bits
                  /\ \A s \in {N[a].l_son, N[a].r_son} :
                       s # Null => s \in DOMAIN N /\ Len(s.at) > Len(a.at)
    BY <1>1, BuildIsSound
  <2> HIDE DEF N
  <2> QED
    BY <2>1 DEF OwnNodes, MayHold
<1>3. Grows(N)
  BY DEF Grows, Store
<1>4. y \in DOMAIN N
  BY <1>1, BuildIsSound
<1>5. Len(y.at) >= Len(p)
  BY PathsAreSequences, BitsIsNatural DEF BuildAddress
<1> HIDE DEF N, y
<1> QED
  BY <1>2, <1>3, <1>4, <1>5, ReturnStep DEF N, y

\* A region's part of the batches of a commit.
LEMMA JobBatchesAreBags ==
  ASSUME IInv, NEW w \in Writers, NEW p
  PROVE  IsBagOfPoints(Part(job[w].ins, p)) /\ IsBagOfPoints(Part(job[w].del, p))
BY BatchesAreBags, PartOfBag DEF IInv, TypeOK

\* The records of a leaf.
LEMMA LeafRecordsAreBags ==
  ASSUME IInv, NEW a \in DOMAIN heap, heap[a].leaf
  PROVE  IsBagOfPoints(heap[a].records)
BY DEF IInv, TypeOK, IsNode

\* batch_delete enters a node.
LEMMA DeleteCallStep ==
  ASSUME IInv, NEW w \in Writers, NEW p \in Paths, DeleteCall(w, p)
  PROVE  IInv'
<1> DEFINE x == Argument(w, p)
           P == Part(job[w].del, p)
           y == Fresh(w, "delete_copy", p)
<1>1. job[w].phase \in Working /\ UNCHANGED <<versions, job, commits>>
  BY DEF DeleteCall, FrameAt, Working
<1>2. MayHold(w, x) /\ (x # Null => Len(x.at) >= Len(p))
  BY <1>1, ArgumentMayBeHeld
<1>3. CASE Return(w, p, Null) /\ UNCHANGED heap
  BY <1>1, <1>3, QuietReturnStep DEF MayHold
<1>4. CASE /\ x # Null /\ heap[x].leaf
           /\ heap' = Store(heap, One(y, Leaf(heap[x].records (-) P)))
           /\ Return(w, p, y)
  <2>1. IsBagOfPoints(heap[x].records (-) P)
    BY <1>2, <1>4, LeafRecordsAreBags, JobBatchesAreBags, DifferenceOfBags DEF MayHold
  <2> QED
    BY <1>1, <1>4, <2>1, LeafStep
<1>5. CASE /\ x # Null /\ ~heap[x].leaf
           /\ heap' = Store(heap, One(y, heap[x])) /\ Fork(w, p, x, y, P)
  <2>1. x \in Inner
    BY <1>2, <1>5 DEF MayHold, Inner
  <2> QED
    BY <1>1, <1>2, <1>5, <2>1, ForkStep
<1> QED
  BY <1>3, <1>4, <1>5 DEF DeleteCall

\* What is read of a node, freed or not, are records.
LEMMA RecordsReadAreBags ==
  ASSUME IInv, NEW a \in DOMAIN heap, NEW B \in RecordsRead(a)
  PROVE  IsBagOfPoints(B)
BY LeafRecordsAreBags, BatchesAreBags DEF RecordsRead

\* batch_delete has both sons back.
LEMMA DeleteJoinStep ==
  ASSUME IInv, NEW w \in Writers, NEW p \in Paths, DeleteJoin(w, p)
  PROVE  IInv'
<1> DEFINE L == slot[w][Child(p, 0)]
           R == slot[w][Child(p, 1)]
           n == NumPoints(L) + NumPoints(R)
           y == Fresh(w, "merge", p)
<1>1. /\ job[w].phase \in Working /\ pc[w][p] = "join"
      /\ UNCHANGED <<versions, job, commits>>
  BY DEF DeleteJoin, FrameAt, Working
<1>2. Len(p) < Bits
  BY <1>1 DEF IInv, FramesWork, CopiesInPlace, Depths
<1>3. ASSUME NEW s \in {L, R}
      PROVE  MayHold(w, s) /\ (s # Null => Len(s.at) >= Len(p))
  <2>1. PICK d \in {0, 1} : s = slot[w][Child(p, d)]
    OBVIOUS
  <2>2. Child(p, d) \in Paths /\ Len(Child(p, d)) = Len(p) + 1
    BY <1>2, ChildrenOfPath
  <2>3. s # Null => s \in Address /\ Len(s.at) \in Nat /\ Len(s.at) >= Len(p) + 1
    BY <2>1, <2>2, PathsAreSequences, BitsIsNatural
       DEF IInv, Depths, TypeOK, AddressOrNull, Address
  <2> QED
    BY <2>1, <2>2, <2>3, SlotsMayBeHeld, PathsAreSequences, BitsIsNatural
<1>4. CASE /\ heap' = Store(heap, One(slot[w][p], Inte(L, R, n)))
           /\ Return(w, p, slot[w][p])
  BY <1>1, <1>4, InteStep
<1>5. CASE UNCHANGED heap /\ (Return(w, p, L) \/ Return(w, p, R))
  <2> HIDE DEF L, R
  <2> QED
    BY <1>1, <1>3, <1>5, QuietReturnStep
<1>6. CASE /\ L # Null /\ R # Null
           /\ \E A \in RecordsRead(L), B \in RecordsRead(R) :
                heap' = Store(heap, One(y, Leaf(A (+) B)))
           /\ Return(w, p, y)
  <2>1. PICK A \in RecordsRead(L), B \in RecordsRead(R) :
               heap' = Store(heap, One(y, Leaf(A (+) B)))
    BY <1>6
  <2>2. L \in DOMAIN heap /\ R \in DOMAIN heap
    BY <1>3, <1>6 DEF MayHold
  <2>3. IsBagOfPoints(A (+) B)
    BY <2>2, RecordsReadAreBags, UnionOfBags
  <2> QED
    BY <1>1, <1>6, <2>1, <2>3, LeafStep
<1> QED
  BY <1>4, <1>5, <1>6 DEF DeleteJoin

\* batch_insert enters a node.
LEMMA InsertCallStep ==
  ASSUME IInv, NEW w \in Writers, NEW p \in Paths, InsertCall(w, p)
  PROVE  IInv'
<1> DEFINE x == Argument(w, p)
           P == Part(job[w].ins, p)
           y == Fresh(w, "insert_copy", p)
           c == job[w].id
           merged == heap[x].records (+) P
<1>1. job[w].phase \in Working /\ UNCHANGED <<versions, job, commits>>
  BY DEF InsertCall, FrameAt, Working
<1>2. MayHold(w, x) /\ (x # Null => Len(x.at) >= Len(p))
  BY <1>1, ArgumentMayBeHeld
<1>3. IsBagOfPoints(P) /\ (x # Null /\ heap[x].leaf => IsBagOfPoints(merged))
  BY <1>2, LeafRecordsAreBags, JobBatchesAreBags, UnionOfBags DEF MayHold
<1>4. CASE heap' = Store(heap, Build(P, p, c)) /\ Return(w, p, BuildAddress(c, p))
  BY <1>1, <1>3, <1>4, BuildStep
<1>5. CASE /\ x # Null /\ heap[x].leaf
           /\ heap' = Store(heap, One(y, Leaf(merged))) /\ Return(w, p, y)
  BY <1>1, <1>3, <1>5, LeafStep
<1>6. CASE /\ x # Null /\ heap[x].leaf
           /\ heap' = Store(heap, Build(merged, p, c)) /\ Return(w, p, BuildAddress(c, p))
  BY <1>1, <1>3, <1>6, BuildStep
<1>7. CASE /\ x # Null /\ ~heap[x].leaf
           /\ heap' = Store(heap, One(y, heap[x])) /\ Fork(w, p, x, y, P)
  <2>1. x \in Inner
    BY <1>2, <1>7 DEF MayHold, Inner
  <2> QED
    BY <1>1, <1>2, <1>7, <2>1, ForkStep
<1> QED
  BY <1>4, <1>5, <1>6, <1>7 DEF InsertCall

\* batch_insert has both sons back.
LEMMA InsertJoinStep ==
  ASSUME IInv, NEW w \in Writers, NEW p \in Paths, InsertJoin(w, p)
  PROVE  IInv'
BY InteStep DEF InsertJoin, FrameAt, Working

-----------------------------------------------------------------------------
(* The steps between the phases of a commit, and those of the client.       *)

\* The call at the root is due, and no frame holds a reference.
LEMMA FramesStart ==
  ASSUME TypeOK, NEW w \in Writers, StartFrames(w)
  PROVE  /\ pc' \in [Writers -> [Paths -> {"idle", "call", "join", "done"}]]
         /\ slot' \in [Writers -> [Paths -> AddressOrNull]]
         /\ \A u \in Writers \ {w} : pc'[u] = pc[u] /\ slot'[u] = slot[u]
         /\ \A p \in Paths : /\ slot'[w][p] = Null
                             /\ pc'[w][p] = IF p = << >> THEN "call" ELSE "idle"
BY RootIsPath DEF StartFrames, TypeOK, NoFrames, NoSlots, AddressOrNull

\* Between two phases a writer's frames hold nothing, it may write what it
\* allocated or nothing at all, and what it and the client keep may be kept.
LEMMA PhaseStep ==
  ASSUME IInv, NEW w \in Writers, UNCHANGED heap, TypeOK', JobsDiffer',
         \A u \in Writers \ {w} : job'[u] = job[u] /\ pc'[u] = pc[u] /\ slot'[u] = slot[u],
         \A p \in Paths : /\ slot'[w][p] = Null /\ pc'[w][p] \notin {"join", "done"}
                          /\ p # << >> => pc'[w][p] = "idle",
         MayHold(w, job'[w].tmp_ver), MayHold(w, job'[w].new_ver),
         \A v \in DOMAIN versions' : MayHold(w, versions'[v]),
         \/ job'[w].phase = "idle" \/ {a \in DOMAIN heap : a.owner = job'[w].id} = {}
         \/ /\ job[w].phase \in Working /\ job'[w].id = job[w].id /\ versions' = versions
  PROVE  IInv'
<1>t. TypeOK
  BY DEF IInv
<1>1. ASSUME NEW u \in Writers \ {w} PROVE Private(u)' = Private(u)
  <2>1. job'[u] = job[u] /\ pc'[u] = pc[u] /\ slot'[u] = slot[u]
    OBVIOUS
  <2> QED
    BY <2>1 DEF Private
<1>2. \/ Private(w)' = {}
      \/ /\ job[w].phase \in Working /\ versions' = versions
         /\ Private(w)' = Private(w)
  <2>1. {slot'[w][p] : p \in {q \in Paths : job'[w].phase = "gc" /\ pc'[w][q] = "join"}} = {}
    OBVIOUS
  <2>2. job'[w].phase = "idle" \/ Private(w)' = {a \in DOMAIN heap : a.owner = job'[w].id}
    BY <2>1 DEF Private
  <2>3. job[w].phase \in Working => Private(w) = {a \in DOMAIN heap : a.owner = job[w].id}
    BY DEF Private, Working
  <2> QED
    BY <2>2, <2>3 DEF Private
<1>3. NoDanglingReference'
  <2>1. ASSUME NEW b \in Inner', NEW d \in {0, 1}
        PROVE  Son(b, d)' \in DOMAIN heap' \cup {Null}
    <3>1. b \in Inner /\ Son(b, d)' = Son(b, d)
      BY DEF Inner, Son
    <3> QED
      BY <3>1 DEF IInv, NoDanglingReference, Referenced
  <2>2. ASSUME NEW u \in Owners', NEW q \in Paths
        PROVE  slot'[u][q] \in DOMAIN heap' \cup {Null}
    <3>1. u \in Writers
      BY DEF Owners
    <3>2. CASE u # w
      BY <3>1, <3>2, SlotsMayBeHeld DEF MayHold
    <3> QED
      BY <3>2
  <2>3. \A v \in DOMAIN versions' : versions'[v] \in DOMAIN heap' \cup {Null}
    BY DEF MayHold
  <2>4. ASSUME NEW u \in Writers
        PROVE  {job'[u].tmp_ver, job'[u].new_ver} \subseteq DOMAIN heap' \cup {Null}
    BY RootsMayBeHeld DEF MayHold
  <2> QED
    BY <2>1, <2>2, <2>3, <2>4 DEF NoDanglingReference, Referenced
<1>4. FramesWork'
  BY DEF IInv, FramesWork, Inner
<1>5. GcFramesNest'
  <2>1. \A u \in Writers \ {w} : \A p \in Paths : GcArgument(u, p)' = GcArgument(u, p)
    BY DEF GcArgument, Son
  <2> QED
    BY <2>1 DEF IInv, GcFramesNest
<1>6. Depths'
  BY DEF IInv, Depths, Inner, Son
<1>7. CopiesInPlace'
  BY DEF IInv, CopiesInPlace
<1>8. Separation'
  <2>1. ASSUME NEW u \in Writers, NEW a \in Private(u)'
        PROVE  /\ \A x \in DOMAIN versions' : versions'[x] # a
               /\ \A b \in Inner' : a \in {Son(b, 0)', Son(b, 1)'} => b \in Private(u)'
               /\ \A x \in Writers \ {u} :
                    a \notin {job'[x].tmp_ver, job'[x].new_ver} \cup {slot'[x][p] : p \in Paths}
    <3>1. a \in Private(u) /\ Private(u)' = Private(u)
      BY <1>1, <1>2
    <3>2. a # Null
      BY <1>t, <3>1, ConstantsAssumption DEF Private, IInv, TypeOK, FramesWork, Inner
    <3>3. \A x \in DOMAIN versions' : versions'[x] # a
      BY <1>2, <3>1, <3>2 DEF IInv, Separation, Apart, MayHold
    <3>4. \A b \in Inner' : a \in {Son(b, 0)', Son(b, 1)'} => b \in Private(u)'
      BY <3>1 DEF IInv, Separation, Apart, Inner, Son
    <3>5. ASSUME NEW x \in Writers \ {u}
          PROVE  a \notin {job'[x].tmp_ver, job'[x].new_ver} \cup {slot'[x][p] : p \in Paths}
      <4>1. CASE x = w
        BY <4>1, <3>1, <3>2 DEF MayHold
      <4>2. CASE x # w
        BY <4>2, <3>1 DEF IInv, Separation, Apart
      <4> QED
        BY <4>1, <4>2
    <3> QED
      BY <3>3, <3>4, <3>5
  <2> QED
    BY <2>1 DEF Separation, Apart
<1> QED
  BY <1>3, <1>4, <1>5, <1>6, <1>7, <1>8 DEF IInv

\* The type of a commit's local variables.
Jobs(n) == [phase : {"idle", "delete", "insert", "gc"}, id : 0..n, base : 0..n,
            ins : Batches \cup {EmptyBag}, del : Batches \cup {EmptyBag},
            tmp_ver : AddressOrNull, new_ver : AddressOrNull]

\* commit is called on a version.
LEMMA BeginStep ==
  ASSUME IInv, NEW w \in Writers, NEW v \in DOMAIN versions,
         NEW ins \in Batches, NEW del \in Batches, Begin(w, v, ins, del)
  PROVE  IInv'
<1>t. TypeOK /\ commits \in Nat /\ job \in [Writers -> Jobs(commits)]
  BY DEF IInv, TypeOK, Jobs
<1>1. /\ StartFrames(w) /\ UNCHANGED <<heap, versions>> /\ commits' = commits + 1
      /\ job[w].phase = "idle" /\ commits < MaxCommits
      /\ \A u \in Writers \ {w} : job'[u] = job[u]
      /\ job' = [job EXCEPT ![w] = job'[w]]
      /\ job'[w] = [phase |-> "delete", id |-> commits + 1, base |-> v, ins |-> ins,
                    del |-> del, tmp_ver |-> Null, new_ver |-> Null]
  BY <1>t DEF Begin, TypeOK, Idle
<1>2. /\ pc' \in [Writers -> [Paths -> {"idle", "call", "join", "done"}]]
      /\ slot' \in [Writers -> [Paths -> AddressOrNull]]
      /\ \A u \in Writers \ {w} : pc'[u] = pc[u] /\ slot'[u] = slot[u]
      /\ \A p \in Paths : /\ slot'[w][p] = Null
                          /\ pc'[w][p] = IF p = << >> THEN "call" ELSE "idle"
  BY <1>t, <1>1, FramesStart
<1>3. TypeOK'
  <2>1. commits' \in 0..MaxCommits /\ v \in 0..commits' /\ DOMAIN versions' \subseteq 0..commits'
    BY <1>t, <1>1, ConstantsAssumption DEF TypeOK
  <2>2. job'[w] \in Jobs(commits')
    BY <1>t, <1>1, <2>1 DEF Jobs, AddressOrNull
  <2>3. ASSUME NEW u \in Writers \ {w} PROVE job'[u] \in Jobs(commits')
    <3>1. 0..commits \subseteq 0..commits'
      BY <1>t, <1>1
    <3>2. Jobs(commits) \subseteq Jobs(commits')
      BY <3>1 DEF Jobs
    <3> QED
      BY <1>t, <1>1, <3>2
  <2>4. job' \in [Writers -> Jobs(commits')]
    BY <1>t, <1>1, <2>2, <2>3
  <2>5. ASSUME NEW u \in Writers
        PROVE  /\ job'[u].phase = "idle" => job'[u] = Idle /\ pc'[u] = NoFrames
               /\ \A p \in Paths : pc'[u][p] = "idle" => slot'[u][p] = Null
    <3>1. CASE u = w
      BY <1>1, <1>2, <3>1
    <3>2. CASE u # w
      BY <1>t, <1>1, <1>2, <3>2 DEF TypeOK
    <3> QED
      BY <3>1, <3>2
  <2> QED
    BY <1>t, <1>1, <1>2, <2>1, <2>4, <2>5 DEF TypeOK, Jobs
<1>4. {a \in DOMAIN heap : a.owner = job'[w].id} = {}
  BY <1>t, <1>1 DEF IInv, TypeOK, Address, JobsDiffer
<1>5. JobsDiffer'
  <2>1. \A u \in Writers : job[u].id \in 0..commits
    BY <1>t DEF Jobs
  <2>2. \A a \in DOMAIN heap : a.owner \in Nat
    BY <1>t DEF TypeOK, Address
  <2> QED
    BY <1>t, <1>1, <2>1, <2>2 DEF IInv, JobsDiffer
<1>6. /\ MayHold(w, job'[w].tmp_ver) /\ MayHold(w, job'[w].new_ver)
      /\ \A u \in DOMAIN versions' : MayHold(w, versions'[u])
  BY <1>1, RootsMayBeHeld DEF MayHold
<1> QED
  BY <1>1, <1>2, <1>3, <1>4, <1>5, <1>6, PhaseStep

\* A commit goes on to its next phase with the root the last one returned.
LEMMA NextPhaseStep ==
  ASSUME IInv, NEW w \in Writers, job[w].phase \in Working,
         NEW phase \in {"insert", "gc"}, NEW tmp \in AddressOrNull, NEW new \in AddressOrNull,
         MayHold(w, tmp), MayHold(w, new),
         job' = [job EXCEPT ![w] = [job[w] EXCEPT !.phase = phase, !.tmp_ver = tmp,
                                                   !.new_ver = new]],
         StartFrames(w), UNCHANGED <<heap, versions, commits>>
  PROVE  IInv'
<1>t. TypeOK /\ job \in [Writers -> Jobs(commits)]
  BY DEF IInv, TypeOK, Jobs
<1>1. /\ \A u \in Writers \ {w} : job'[u] = job[u]
      /\ job'[w].phase = phase /\ job'[w].tmp_ver = tmp /\ job'[w].new_ver = new
      /\ job'[w].id = job[w].id /\ job'[w].base = job[w].base
      /\ job' \in [Writers -> Jobs(commits)]
  BY <1>t DEF Jobs
<1>2. /\ pc' \in [Writers -> [Paths -> {"idle", "call", "join", "done"}]]
      /\ slot' \in [Writers -> [Paths -> AddressOrNull]]
      /\ \A u \in Writers \ {w} : pc'[u] = pc[u] /\ slot'[u] = slot[u]
      /\ \A p \in Paths : /\ slot'[w][p] = Null
                          /\ pc'[w][p] = IF p = << >> THEN "call" ELSE "idle"
  BY <1>t, FramesStart
<1>3. TypeOK'
  <2>1. ASSUME NEW u \in Writers
        PROVE  /\ job'[u].phase = "idle" => job'[u] = Idle /\ pc'[u] = NoFrames
               /\ \A p \in Paths : pc'[u][p] = "idle" => slot'[u][p] = Null
    BY <1>t, <1>1, <1>2 DEF TypeOK
  <2> QED
    BY <1>t, <1>1, <1>2, <2>1 DEF TypeOK, Jobs
<1>4. JobsDiffer'
  BY <1>1 DEF IInv, JobsDiffer, Working
<1>5. \A u \in DOMAIN versions' : MayHold(w, versions'[u])
  BY RootsMayBeHeld
<1> QED
  BY <1>1, <1>2, <1>3, <1>4, <1>5, PhaseStep

\* commit goes from the deletions to the insertions.
LEMMA StartInsertStep ==
  ASSUME IInv, NEW w \in Writers, StartInsert(w)
  PROVE  IInv'
<1>1. job \in [Writers -> Jobs(commits)] /\ slot[w][<< >>] \in AddressOrNull
  BY RootIsPath DEF IInv, TypeOK, Jobs
<1>2. job' = [job EXCEPT ![w] = [job[w] EXCEPT !.phase = "insert",
                                   !.tmp_ver = slot[w][<< >>], !.new_ver = job[w].new_ver]]
  BY <1>1 DEF StartInsert, Jobs
<1>3. MayHold(w, slot[w][<< >>]) /\ MayHold(w, job[w].new_ver)
  BY RootIsPath, SlotsMayBeHeld, RootsMayBeHeld
<1>4. job[w].new_ver \in AddressOrNull /\ job[w].phase \in Working
  BY <1>1 DEF Jobs, StartInsert, FrameAt, Working
<1> QED
  BY <1>1, <1>2, <1>3, <1>4, NextPhaseStep DEF StartInsert

\* commit goes on to gc_nocheck.
LEMMA StartGcStep ==
  ASSUME IInv, NEW w \in Writers, StartGc(w)
  PROVE  IInv'
<1>1. job \in [Writers -> Jobs(commits)] /\ slot[w][<< >>] \in AddressOrNull
  BY RootIsPath DEF IInv, TypeOK, Jobs
<1>2. job' = [job EXCEPT ![w] = [job[w] EXCEPT !.phase = "gc",
                                   !.tmp_ver = job[w].tmp_ver, !.new_ver = slot[w][<< >>]]]
  BY <1>1 DEF StartGc, Jobs
<1>3. MayHold(w, slot[w][<< >>]) /\ MayHold(w, job[w].tmp_ver)
  BY RootIsPath, SlotsMayBeHeld, RootsMayBeHeld
<1>4. job[w].tmp_ver \in AddressOrNull /\ job[w].phase \in Working
  BY <1>1 DEF Jobs, StartGc, FrameAt, Working
<1> QED
  BY <1>1, <1>2, <1>3, <1>4, NextPhaseStep DEF StartGc

\* commit returns and the version is there.
LEMMA FinishStep ==
  ASSUME IInv, NEW w \in Writers, Finish(w)
  PROVE  IInv'
<1>t. TypeOK /\ job \in [Writers -> Jobs(commits)]
  BY DEF IInv, TypeOK, Jobs
<1>1. /\ UNCHANGED <<heap, commits>> /\ job[w].phase = "gc"
      /\ \A u \in Writers \ {w} : job'[u] = job[u] /\ pc'[u] = pc[u] /\ slot'[u] = slot[u]
      /\ job'[w] = Idle /\ pc'[w] = NoFrames /\ slot'[w] = NoSlots
      /\ job' \in [Writers -> Jobs(commits)]
      /\ pc' \in [Writers -> [Paths -> {"idle", "call", "join", "done"}]]
      /\ slot' \in [Writers -> [Paths -> AddressOrNull]]
  <2>1. Idle \in Jobs(commits)
    BY <1>t DEF Idle, Jobs, AddressOrNull, TypeOK
  <2>2. /\ NoFrames \in [Paths -> {"idle", "call", "join", "done"}]
        /\ NoSlots \in [Paths -> AddressOrNull]
    BY DEF NoFrames, NoSlots, AddressOrNull
  <2> QED
    BY <1>t, <2>1, <2>2 DEF Finish, FrameAt, TypeOK
<1>2. /\ DOMAIN versions' = DOMAIN versions \cup {job[w].id}
      /\ \A v \in DOMAIN versions' : versions'[v] \in {job[w].new_ver} \cup
                                       {versions[u] : u \in DOMAIN versions}
  BY DEF Finish
<1>3. TypeOK'
  <2>1. /\ DOMAIN versions' \subseteq 0..commits
        /\ \A v \in DOMAIN versions' : versions'[v] \in AddressOrNull
    BY <1>t, <1>2 DEF TypeOK, Jobs
  <2>2. ASSUME NEW u \in Writers
        PROVE  /\ job'[u].phase = "idle" => job'[u] = Idle /\ pc'[u] = NoFrames
               /\ \A p \in Paths : pc'[u][p] = "idle" => slot'[u][p] = Null
    <3>1. CASE u = w
      BY <1>1, <3>1 DEF NoSlots
    <3>2. CASE u # w
      BY <1>t, <1>1, <3>2 DEF TypeOK
    <3> QED
      BY <3>1, <3>2
  <2> QED
    BY <1>t, <1>1, <2>1, <2>2 DEF TypeOK, Jobs
<1>4. job'[w].phase = "idle" /\ job'[w].tmp_ver = Null /\ job'[w].new_ver = Null
      /\ job'[w].id = 0
  BY <1>1 DEF Idle
<1>5. JobsDiffer'
  BY <1>1, <1>2, <1>4, ZenonT(40) DEF IInv, JobsDiffer
<1>6. MayHold(w, Null) /\ \A v \in DOMAIN versions' : MayHold(w, versions'[v])
  BY <1>2, RootsMayBeHeld DEF MayHold
<1>7. \A p \in Paths : slot'[w][p] = Null /\ pc'[w][p] = "idle"
  BY <1>1 DEF NoFrames, NoSlots
<1> QED
  BY <1>1, <1>3, <1>4, <1>5, <1>6, <1>7, PhaseStep

\* The client resets a root it holds.
LEMMA ReleaseStep ==
  ASSUME IInv, NEW v \in DOMAIN versions, Release(v)
  PROVE  IInv'
<1>1. /\ UNCHANGED <<heap, job, pc, slot, commits>>
      /\ DOMAIN versions' \subseteq DOMAIN versions
      /\ \A u \in DOMAIN versions' : versions'[u] = versions[u]
      /\ \A w \in Writers : job[w].phase # "idle" /\ job[w].base \in DOMAIN versions
                            => job[w].base \in DOMAIN versions'
  BY DEF Release
<1>2. TypeOK'
  BY <1>1 DEF IInv, TypeOK
<1>3. NoDanglingReference'
  <2>1. Referenced' \subseteq Referenced
    BY <1>1 DEF Referenced, Inner, Son, Owners
  <2> QED
    BY <1>1, <2>1 DEF IInv, NoDanglingReference
<1>4. JobsDiffer'
  BY <1>1 DEF IInv, JobsDiffer
<1>5. FramesWork' /\ CopiesInPlace'
  BY <1>1 DEF IInv, FramesWork, CopiesInPlace, Inner
<1>6. GcFramesNest'
  <2>1. \A w \in Writers, p \in Paths : GcArgument(w, p)' = GcArgument(w, p)
    BY <1>1 DEF GcArgument, Son
  <2> QED
    BY <1>1, <2>1 DEF IInv, GcFramesNest
<1>7. Depths'
  BY <1>1 DEF IInv, Depths, Inner, Son
<1>8. Separation'
  <2>1. \A w \in Writers : Private(w)' = Private(w)
    BY <1>1 DEF Private
  <2>2. Inner' = Inner /\ \A b, d : Son(b, d)' = Son(b, d)
    BY <1>1 DEF Inner, Son
  <2> QED
    BY <1>1, <2>1, <2>2 DEF IInv, Separation, Apart
<1> QED
  BY <1>2, <1>3, <1>4, <1>5, <1>6, <1>7, <1>8 DEF IInv

\* The node a waiting frame works on is referenced, so it is no garbage, and
\* what gc_nocheck's x refers to is what it was.
LEMMA ReclaimStep ==
  ASSUME IInv, Reclaim
  PROVE  IInv'
<1>t. TypeOK
  BY DEF IInv
<1>1. /\ DOMAIN heap' = DOMAIN heap \ Garbage
      /\ \A a \in DOMAIN heap' : heap'[a] = heap[a]
      /\ UNCHANGED <<versions, job, pc, slot, commits>>
  BY DEF Reclaim
<1>2. /\ Inner' = Inner \ Garbage
      /\ \A b \in Inner' : Son(b, 0)' = Son(b, 0) /\ Son(b, 1)' = Son(b, 1)
  BY <1>1 DEF Inner, Son
<1>3. \A a \in Referenced : a # Null => a \in DOMAIN heap'
  BY <1>1 DEF IInv, NoDanglingReference, Garbage
<1>4. Referenced' \subseteq Referenced
  BY <1>1, <1>2 DEF Referenced, Owners
<1>5. ASSUME NEW w \in Writers, NEW p \in Paths, pc[w][p] = "join"
      PROVE  slot[w][p] \in Inner /\ slot[w][p] \in Inner'
  <2>1. slot[w][p] \in Inner
    BY <1>5 DEF IInv, FramesWork
  <2>2. slot[w][p] # Null
    BY <1>t, <2>1, ConstantsAssumption DEF TypeOK, Inner
  <2>3. CASE job[w].phase \in Working
    <3>1. slot[w][p] \in Referenced
      BY <2>3 DEF Referenced, Owners
    <3> QED
      BY <2>1, <2>2, <3>1, <1>2 DEF Garbage
  <2>4. CASE job[w].phase = "gc"
    <3>1. slot[w][p] = GcArgument(w, p)
      BY <1>5, <2>4 DEF IInv, GcFramesNest
    <3>2. GcArgument(w, p) \in Referenced
      <4>1. CASE p = << >>
        BY <4>1 DEF GcArgument, Referenced
      <4>2. CASE p # << >>
        <5>1. Parent(p) \in Paths /\ p[Len(p)] \in {0, 1}
          BY <4>2, ParentOfPath
        <5>2. slot[w][Parent(p)] \in Inner
          BY <1>5, <2>4, <4>2, <5>1 DEF IInv, GcFramesNest, FramesWork
        <5> QED
          BY <4>2, <5>1, <5>2 DEF GcArgument, Referenced
      <4> QED
        BY <4>1, <4>2
    <3> QED
      BY <2>1, <2>2, <3>1, <3>2, <1>2 DEF Garbage
  <2> QED
    BY <1>t, <1>5, <2>1, <2>3, <2>4 DEF TypeOK, Working, NoFrames
<1>6. ASSUME NEW w \in Writers, NEW p \in Paths, job[w].phase = "gc", pc[w][p] # "idle"
      PROVE  GcArgument(w, p)' = GcArgument(w, p)
  <2>1. CASE p = << >>
    BY <1>1, <2>1 DEF GcArgument
  <2>2. CASE p # << >>
    <3>1. Parent(p) \in Paths /\ pc[w][Parent(p)] = "join" /\ p[Len(p)] \in {0, 1}
      BY <1>6, <2>2, ParentOfPath DEF IInv, GcFramesNest
    <3>2. slot[w][Parent(p)] \in Inner'
      BY <1>5, <3>1
    <3> QED
      BY <1>1, <1>2, <2>2, <3>1, <3>2 DEF GcArgument
  <2> QED
    BY <2>1, <2>2
<1>7. ASSUME NEW w \in Writers
      PROVE  Private(w)' \subseteq Private(w) /\ Private(w) \cap DOMAIN heap' \subseteq Private(w)'
  BY <1>1 DEF Private
<1>8. TypeOK'
  BY <1>t, <1>1 DEF TypeOK
<1>9. NoDanglingReference'
  BY <1>3, <1>4 DEF NoDanglingReference
<1>10. JobsDiffer'
  BY <1>1 DEF IInv, JobsDiffer
<1>11. FramesWork'
  BY <1>1, <1>5 DEF IInv, FramesWork
<1>12. GcFramesNest'
  BY <1>1, <1>6 DEF IInv, GcFramesNest
<1>13. Depths' /\ CopiesInPlace'
  BY <1>1, <1>2 DEF IInv, Depths, CopiesInPlace
<1>14. Separation'
  <2>1. ASSUME NEW u \in Writers, NEW a \in Private(u)', NEW b \in Inner',
               a \in {Son(b, 0)', Son(b, 1)'}
        PROVE  b \in Private(u)'
    <3>1. b \in Private(u)
      BY <2>1, <1>2, <1>7 DEF IInv, Separation, Apart
    <3> QED
      BY <3>1, <1>7 DEF Inner
  <2> QED
    BY <2>1, <1>1, <1>7 DEF IInv, Separation, Apart
<1> QED
  BY <1>8, <1>9, <1>10, <1>11, <1>12, <1>13, <1>14 DEF IInv

-----------------------------------------------------------------------------
(* The steps of gc_nocheck.                                                 *)

\* A frame under another works on a son of an inner node its commit may write.
LEMMA GcParent ==
  ASSUME IInv, NEW w \in Writers, job[w].phase = "gc",
         NEW p \in Paths, pc[w][p] # "idle", p # << >>
  PROVE  /\ Parent(p) \in Paths /\ pc[w][Parent(p)] = "join" /\ p[Len(p)] \in {0, 1}
         /\ slot[w][Parent(p)] \in Inner /\ slot[w][Parent(p)] \in Private(w)
         /\ GcArgument(w, p) = Son(slot[w][Parent(p)], p[Len(p)])
BY ParentOfPath DEF IInv, GcFramesNest, FramesWork, Private, GcArgument

\* x.reset() at the end of a frame: a private node, or tmp_ver, loses a son.
LEMMA GcResetStep ==
  ASSUME IInv, NEW w \in Writers, job[w].phase = "gc", NEW p \in Paths,
         pc[w][p] \in {"call", "join"},
         \A q \in Children(p) : pc[w][q] \in {"idle", "done"},
         pc[w][p] = "join" => Son(slot[w][p], 0) = Null /\ Son(slot[w][p], 1) = Null,
         Reset(w, p), Return(w, p, Null), UNCHANGED <<versions, commits>>
  PROVE  IInv'
<1> DEFINE a == slot[w][Parent(p)]
           d == p[Len(p)]
<1>t. TypeOK /\ job \in [Writers -> Jobs(commits)]
  BY DEF IInv, TypeOK, Jobs
<1>g. p # << >> => /\ Parent(p) \in Paths /\ pc[w][Parent(p)] = "join" /\ d \in {0, 1}
                   /\ a \in Inner /\ a \in Private(w)
  BY GcParent
<1>f. /\ \A u \in Writers \ {w} : pc'[u] = pc[u] /\ slot'[u] = slot[u]
      /\ \A q \in Paths :
           /\ pc'[w][q] = IF q = p THEN "done" ELSE IF q \in Children(p) THEN "idle" ELSE pc[w][q]
           /\ slot'[w][q] = IF q = p \/ q \in Children(p) THEN Null ELSE slot[w][q]
      /\ pc' \in [Writers -> [Paths -> {"idle", "call", "join", "done"}]]
      /\ slot' \in [Writers -> [Paths -> AddressOrNull]]
  <2>1. /\ [q \in Paths |-> IF q = p THEN "done" ELSE IF q \in Children(p) THEN "idle"
                            ELSE pc[w][q]] \in [Paths -> {"idle", "call", "join", "done"}]
        /\ [q \in Paths |-> IF q = p THEN Null ELSE IF q \in Children(p) THEN Null
                            ELSE slot[w][q]] \in [Paths -> AddressOrNull]
    BY <1>t DEF TypeOK, AddressOrNull
  <2> QED
    BY <1>t, <2>1 DEF Return, TypeOK
<1>h. /\ DOMAIN heap' = DOMAIN heap /\ Inner' = Inner
      /\ \A b \in DOMAIN heap : IsNode(heap'[b])
      /\ \A b \in DOMAIN heap : heap'[b] = heap[b] \/ b \in Private(w)
      /\ \A b \in Inner, e \in {0, 1} :
           Son(b, e)' = IF p # << >> /\ b = a /\ e = d THEN Null ELSE Son(b, e)
  <2>1. CASE p = << >>
    <3>1. UNCHANGED heap
      BY <2>1 DEF Reset
    <3> QED
      BY <1>t, <2>1, <3>1 DEF TypeOK, Inner, Son
  <2>2. CASE p # << >>
    <3> DEFINE node == ResetSon(a, d)
    <3>1. a \in DOMAIN heap /\ ~heap[a].leaf /\ IsNode(heap[a])
      BY <1>t, <1>g, <2>2 DEF TypeOK, Inner
    <3>2. /\ IsNode(node) /\ ~node.leaf
          /\ node.l_son = IF d = 0 THEN Null ELSE heap[a].l_son
          /\ node.r_son = IF d = 1 THEN Null ELSE heap[a].r_son
      <4>1. /\ heap[a] = Inte(heap[a].l_son, heap[a].r_son, heap[a].num_pts)
            /\ heap[a].l_son \in AddressOrNull /\ heap[a].r_son \in AddressOrNull
        BY <3>1 DEF IsNode
      <4>2. node = IF d = 0 THEN Inte(Null, heap[a].r_son, heap[a].num_pts)
                   ELSE Inte(heap[a].l_son, Null, heap[a].num_pts)
        <5>1. PICK L, R, n : /\ heap[a] = Inte(L, R, n)
                             /\ L = heap[a].l_son /\ R = heap[a].r_son /\ n = heap[a].num_pts
          BY <4>1
        <5>2. /\ [heap[a] EXCEPT !.l_son = Null] = Inte(Null, R, n)
              /\ [heap[a] EXCEPT !.r_son = Null] = Inte(L, Null, n)
          BY <5>1, DroppedSon
        <5> QED
          BY <5>1, <5>2 DEF ResetSon
      <4>3. Null \in AddressOrNull /\ d \in {0, 1}
        BY <1>g, <2>2 DEF AddressOrNull
      <4> HIDE DEF node
      <4> QED
        BY <4>1, <4>2, <4>3, IntesAreNodes
    <3>3. heap' = Store(heap, One(a, node))
      BY <2>2 DEF Reset
    <3> HIDE DEF node
    <3>4. /\ DOMAIN heap' = DOMAIN heap
          /\ \A b \in DOMAIN heap : heap'[b] = IF b = a THEN node ELSE heap[b]
      BY <3>1, <3>3 DEF Store, One
    <3>5. Inner' = Inner
      BY <3>1, <3>2, <3>4 DEF Inner
    <3>6. ASSUME NEW b \in Inner, NEW e \in {0, 1}
          PROVE  Son(b, e)' = IF b = a /\ e = d THEN Null ELSE Son(b, e)
      BY <1>g, <2>2, <3>2, <3>4 DEF Son, Inner
    <3> QED
      BY <1>t, <1>g, <2>2, <3>2, <3>4, <3>5, <3>6 DEF TypeOK
  <2> QED
    BY <2>1, <2>2
<1>j. /\ \A u \in Writers \ {w} : job'[u] = job[u]
      /\ job' \in [Writers -> Jobs(commits)]
      /\ job'[w].phase = "gc" /\ job'[w].id = job[w].id /\ job'[w].base = job[w].base
      /\ job'[w].new_ver = job[w].new_ver
      /\ job'[w].tmp_ver = IF p = << >> THEN Null ELSE job[w].tmp_ver
  BY <1>t DEF Reset, Jobs, AddressOrNull
<1> HIDE DEF a, d
<1>p. ASSUME NEW q \in Paths, q # p, pc'[w][q] # "idle"
      PROVE  /\ pc'[w][q] = pc[w][q] /\ slot'[w][q] = slot[w][q] /\ pc[w][q] # "idle"
             /\ q # << >> => pc'[w][Parent(q)] = "join" /\ slot'[w][Parent(q)] = slot[w][Parent(q)]
  <2>1. q \notin Children(p) /\ pc'[w][q] = pc[w][q] /\ slot'[w][q] = slot[w][q]
    BY <1>f, <1>p
  <2>2. CASE q # << >>
    <3>1. Parent(q) \in Paths /\ pc[w][Parent(q)] = "join" /\ q \in Children(Parent(q))
      BY <1>p, <2>1, <2>2, GcParent, ParentOfPath
    <3>2. Parent(q) # p /\ Parent(q) \notin Children(p)
      BY <2>1, <3>1
    <3> QED
      BY <1>f, <1>p, <2>1, <3>1, <3>2
  <2> QED
    BY <1>p, <2>1, <2>2
<1>1. TypeOK'
  <2>1. ASSUME NEW u \in Writers
        PROVE  /\ job'[u].phase = "idle" => job'[u] = Idle /\ pc'[u] = NoFrames
               /\ \A q \in Paths : pc'[u][q] = "idle" => slot'[u][q] = Null
    <3>1. CASE u = w
      BY <1>t, <1>f, <1>j, <3>1 DEF TypeOK
    <3>2. CASE u # w
      BY <1>t, <1>f, <1>j, <3>2 DEF TypeOK
    <3> QED
      BY <3>1, <3>2
  <2> QED
    BY <1>t, <1>f, <1>h, <1>j, <2>1 DEF TypeOK, Jobs
<1>2. NoDanglingReference'
  <2>1. ASSUME NEW b \in Inner', NEW e \in {0, 1}
        PROVE  Son(b, e)' \in DOMAIN heap' \cup {Null}
    BY <1>h DEF IInv, NoDanglingReference, Referenced
  <2>2. ASSUME NEW u \in Owners', NEW q \in Paths
        PROVE  slot'[u][q] \in DOMAIN heap' \cup {Null}
    <3>1. u \in Writers
      BY DEF Owners
    <3> QED
      BY <1>f, <1>h, <3>1, SlotsMayBeHeld DEF MayHold
  <2>3. /\ \A v \in DOMAIN versions' : versions'[v] \in DOMAIN heap' \cup {Null}
        /\ \A u \in Writers : {job'[u].tmp_ver, job'[u].new_ver} \subseteq DOMAIN heap' \cup {Null}
    BY <1>h, <1>j, RootsMayBeHeld DEF MayHold
  <2> QED
    BY <2>1, <2>2, <2>3 DEF NoDanglingReference, Referenced
<1>3. JobsDiffer'
  <2>1. \A u \in Writers : job'[u].id = job[u].id /\ job'[u].base = job[u].base
                           /\ (job'[u].phase # "idle" => job[u].phase # "idle")
    BY <1>j
  <2> QED
    BY <1>h, <2>1 DEF IInv, JobsDiffer
<1>4. FramesWork' /\ CopiesInPlace'
  <2>1. ASSUME NEW u \in Writers, NEW q \in Paths, pc'[u][q] = "join"
        PROVE  pc[u][q] = "join" /\ slot'[u][q] = slot[u][q] /\ job'[u].phase = job[u].phase
               /\ job'[u].id = job[u].id
    <3>1. CASE u = w
      BY <1>f, <1>j, <2>1, <3>1
    <3>2. CASE u # w
      BY <1>f, <1>j, <2>1, <3>2
    <3> QED
      BY <3>1, <3>2
  <2> QED
    BY <1>h, <2>1 DEF IInv, FramesWork, CopiesInPlace
<1>5. ASSUME NEW q \in Paths, pc'[w][q] # "idle"
      PROVE  GcArgument(w, q)' = IF q = p THEN Null ELSE GcArgument(w, q)
  <2>1. CASE q = << >>
    BY <1>j, <2>1 DEF GcArgument
  <2>2. CASE q # << >> /\ q = p
    <3>1. Parent(p) # p /\ Parent(p) \notin Children(p)
      BY <1>g, <2>2, ParentOfPath
    <3>2. slot'[w][Parent(p)] = a
      BY <1>f, <1>g, <2>2, <3>1 DEF a
    <3> QED
      BY <1>g, <1>h, <2>2, <3>2 DEF GcArgument, d
  <2>3. CASE q # << >> /\ q # p
    <3> DEFINE e == q[Len(q)]
    <3>1. slot'[w][Parent(q)] = slot[w][Parent(q)] /\ pc[w][q] # "idle"
      BY <1>5, <1>p, <2>3
    <3>2. PICK b \in Inner :
            /\ b = slot[w][Parent(q)] /\ e \in {0, 1}
            /\ pc[w][Parent(q)] = "join" /\ Parent(q) \in Paths
            /\ GcArgument(w, q) = Son(b, e)
      BY <2>3, <3>1, GcParent
    <3>3. ~(p # << >> /\ b = a /\ e = d)
      <4> SUFFICES ASSUME p # << >>, b = a, e = d PROVE FALSE
        OBVIOUS
      <4>1. Parent(q) = Parent(p)
        <5>1. slot[w][Parent(q)] = slot[w][Parent(p)]
          BY <3>2 DEF a
        <5>2. \A r, s \in Paths : /\ pc[w][r] = "join" /\ pc[w][s] = "join"
                                  /\ slot[w][r] = slot[w][s]
                                  => r = s
          BY DEF IInv, GcFramesNest
        <5> QED
          BY <1>g, <3>2, <5>1, <5>2
      <4>2. q = Child(Parent(q), e) /\ p = Child(Parent(p), d)
        BY <2>3, ParentOfPath DEF d
      <4> QED
        BY <2>3, <4>1, <4>2
    <3>4. GcArgument(w, q)' = Son(b, e)'
      BY <2>3, <3>1, <3>2 DEF GcArgument, Son
    <3> HIDE DEF e
    <3> QED
      BY <1>h, <2>3, <3>2, <3>3, <3>4
  <2> QED
    BY <2>1, <2>2, <2>3
<1>6. ASSUME NEW u \in Writers \ {w}, job[u].phase = "gc", NEW q \in Paths, pc[u][q] # "idle"
      PROVE  GcArgument(u, q)' = GcArgument(u, q)
  <2>1. CASE q = << >>
    BY <1>j, <2>1 DEF GcArgument
  <2>2. CASE q # << >>
    <3> DEFINE e == q[Len(q)]
    <3>1. PICK b \in Inner :
            /\ b = slot[u][Parent(q)] /\ e \in {0, 1} /\ Parent(q) \in Paths
            /\ GcArgument(u, q) = Son(b, e)
      BY <1>6, <2>2, GcParent
    <3>2. ~(p # << >> /\ b = a)
      BY <1>g, <3>1 DEF IInv, Separation, Apart
    <3>3. GcArgument(u, q)' = Son(b, e)'
      BY <1>f, <2>2, <3>1 DEF GcArgument, Son
    <3> HIDE DEF e
    <3> QED
      BY <1>h, <3>1, <3>2, <3>3
  <2> QED
    BY <2>1, <2>2
<1>7. GcFramesNest'
  <2> SUFFICES ASSUME NEW u \in Writers, job'[u].phase = "gc"
               PROVE  /\ \A q \in Paths :
                           /\ pc'[u][q] # "idle" /\ q # << >> => pc'[u][Parent(q)] = "join"
                           /\ pc'[u][q] = "join" => slot'[u][q] = GcArgument(u, q)'
                           /\ pc'[u][q] # "join" => slot'[u][q] = Null
                           /\ pc'[u][q] = "done" => GcArgument(u, q)' = Null
                      /\ \A q, r \in Paths : /\ pc'[u][q] = "join" /\ pc'[u][r] = "join"
                                             /\ slot'[u][q] = slot'[u][r]
                                             => q = r
    BY DEF GcFramesNest
  <2>1. CASE u = w
    <3>1. ASSUME NEW q \in Paths
          PROVE  /\ pc'[w][q] # "idle" /\ q # << >> => pc'[w][Parent(q)] = "join"
                 /\ pc'[w][q] = "join" => slot'[w][q] = GcArgument(w, q)'
                 /\ pc'[w][q] # "join" => slot'[w][q] = Null
                 /\ pc'[w][q] = "done" => GcArgument(w, q)' = Null
      <4>1. CASE q = p
        <5>1. pc'[w][p] = "done" /\ slot'[w][p] = Null
          BY <1>f
        <5>2. p # << >> => pc'[w][Parent(p)] = "join"
          <6> SUFFICES ASSUME p # << >> PROVE pc'[w][Parent(p)] = "join"
            OBVIOUS
          <6>1. Parent(p) # p /\ Parent(p) \notin Children(p)
            BY <1>g, ParentOfPath
          <6> QED
            BY <1>f, <1>g, <6>1
        <5> QED
          BY <1>5, <4>1, <5>1, <5>2
      <4>2. CASE q # p
        BY <1>5, <1>f, <1>p, <4>2 DEF IInv, GcFramesNest
      <4> QED
        BY <4>1, <4>2
    <3>2. ASSUME NEW q \in Paths, NEW r \in Paths, pc'[w][q] = "join", pc'[w][r] = "join",
                 slot'[w][q] = slot'[w][r]
          PROVE  q = r
      BY <1>f, <3>2 DEF IInv, GcFramesNest
    <3> QED
      BY <2>1, <3>1, <3>2
  <2>2. CASE u # w
    BY <1>6, <1>f, <1>j, <2>2 DEF IInv, GcFramesNest
  <2> QED
    BY <2>1, <2>2
<1>8. Depths'
  <2>1. ASSUME NEW b \in Inner'
        PROVE  /\ Len(b.at) < Bits
               /\ \A e \in {0, 1} : Son(b, e)' # Null => Len(Son(b, e)'.at) > Len(b.at)
    BY <1>h DEF IInv, Depths
  <2>2. ASSUME NEW u \in Writers, NEW q \in Paths
        PROVE  slot'[u][q] # Null => Len(slot'[u][q].at) >= Len(q)
    BY <1>f DEF IInv, Depths
  <2> QED
    BY <2>1, <2>2 DEF Depths
<1>9. Separation'
  <2>1. ASSUME NEW u \in Writers \ {w} PROVE Private(u)' = Private(u)
    <3>1. job'[u] = job[u] /\ pc'[u] = pc[u] /\ slot'[u] = slot[u] /\ DOMAIN heap' = DOMAIN heap
      BY <1>f, <1>h, <1>j
    <3> QED
      BY <3>1 DEF Private
  <2>2. /\ Private(w) = {b \in DOMAIN heap : b.owner = job[w].id}
                          \cup {slot[w][q] : q \in {r \in Paths : pc[w][r] = "join"}}
        /\ Private(w)' = {b \in DOMAIN heap : b.owner = job[w].id}
                          \cup {slot'[w][q] : q \in {r \in Paths : pc'[w][r] = "join"}}
    BY <1>h, <1>j DEF Private
  <2>3. Private(w)' \subseteq Private(w)
    BY <1>f, <2>2
  <2>4. ASSUME NEW b \in Private(w), b \notin Private(w)'
        PROVE  Son(b, 0) = Null /\ Son(b, 1) = Null
    <3>1. PICK q \in Paths : pc[w][q] = "join" /\ b = slot[w][q]
      BY <2>2, <2>4
    <3>2. pc'[w][q] # "join" \/ slot'[w][q] # slot[w][q]
      BY <2>2, <2>4, <3>1
    <3>3. q = p
      BY <1>f, <3>1, <3>2
    <3> QED
      BY <3>1, <3>3
  <2>5. ASSUME NEW u \in Writers, NEW c \in Private(u)'
        PROVE  /\ \A v \in DOMAIN versions' : versions'[v] # c
               /\ \A b \in Inner' : c \in {Son(b, 0)', Son(b, 1)'} => b \in Private(u)'
               /\ \A x \in Writers \ {u} :
                    c \notin {job'[x].tmp_ver, job'[x].new_ver} \cup {slot'[x][q] : q \in Paths}
    <3>1. c \in Private(u)
      BY <2>1, <2>3
    <3>2. c # Null
      BY <1>t, <3>1, ConstantsAssumption DEF Private, IInv, TypeOK, FramesWork, Inner
    <3>3. ASSUME NEW b \in Inner', c \in {Son(b, 0)', Son(b, 1)'}
          PROVE  b \in Private(u)'
      <4>1. b \in Inner /\ c \in {Son(b, 0), Son(b, 1)}
        BY <1>h, <3>2, <3>3
      <4>2. b \in Private(u)
        BY <3>1, <4>1 DEF IInv, Separation, Apart
      <4> QED
        BY <2>1, <2>4, <3>2, <4>1, <4>2
    <3>4. ASSUME NEW x \in Writers \ {u}
          PROVE  c \notin {job'[x].tmp_ver, job'[x].new_ver} \cup {slot'[x][q] : q \in Paths}
      <4>1. /\ {job'[x].tmp_ver, job'[x].new_ver} \subseteq {job[x].tmp_ver, job[x].new_ver, Null}
            /\ \A q \in Paths : slot'[x][q] \in {slot[x][q], Null}
        BY <1>f, <1>j
      <4> QED
        BY <3>1, <3>2, <4>1 DEF IInv, Separation, Apart
    <3>5. \A v \in DOMAIN versions' : versions'[v] # c
      BY <3>1 DEF IInv, Separation, Apart
    <3> QED
      BY <3>3, <3>4, <3>5
  <2> QED
    BY <2>5 DEF Separation, Apart
<1> QED
  BY <1>1, <1>2, <1>3, <1>4, <1>7, <1>8, <1>9 DEF IInv

\* gc_nocheck descends into x: nothing but the pointer it came by refers to x.
LEMMA GcDescendStep ==
  ASSUME IInv, NEW w \in Writers, NEW p \in Paths, GcCall(w, p),
         GcDescends(GcArgument(w, p))
  PROVE  IInv'
<1> DEFINE x == GcArgument(w, p)
<1>t. TypeOK
  BY DEF IInv
<1>1. /\ job[w].phase = "gc" /\ pc[w][p] = "call" /\ x # Null /\ ~heap[x].leaf /\ UseCountIsOne(x)
      /\ UNCHANGED <<heap, job, versions, commits>>
      /\ pc' = [pc EXCEPT ![w] = [q \in Paths |->
                  IF q = p THEN "join" ELSE IF q \in Children(p) THEN "call" ELSE pc[w][q]]]
      /\ slot' = [slot EXCEPT ![w][p] = x]
  BY <1>t DEF GcCall, GcDescends, FrameAt, TypeOK
<1>2. p # << >> => /\ Parent(p) \in Paths /\ pc[w][Parent(p)] = "join" /\ p[Len(p)] \in {0, 1}
                   /\ slot[w][Parent(p)] \in Inner /\ slot[w][Parent(p)] \in Private(w)
                   /\ x = Son(slot[w][Parent(p)], p[Len(p)])
  BY <1>1, GcParent
<1>3. x \in Inner
  <2>1. x \in Referenced
    BY <1>2 DEF GcArgument, Referenced
  <2> QED
    BY <1>1, <2>1 DEF IInv, NoDanglingReference, Inner
\* The one reference to x is the one the frame came by.
<1>4. PICK r : References(x) = {r}
  BY <1>1 DEF UseCountIsOne
<1>5. r = IF p = << >> THEN <<"tmp_ver", w>>
          ELSE <<"son", slot[w][Parent(p)], p[Len(p)]>>
  <2>1. CASE p = << >>
    <3>1. job[w].tmp_ver = x
      BY <2>1 DEF GcArgument
    <3>2. <<"tmp_ver", w>> \in References(x)
      BY <3>1 DEF References
    <3> QED
      BY <1>4, <2>1, <3>2
  <2>2. CASE p # << >>
    <3>1. <<"son", slot[w][Parent(p)], p[Len(p)]>> \in References(x)
      BY <1>2, <2>2 DEF References
    <3> QED
      BY <1>4, <2>2, <3>1
  <2> QED
    BY <2>1, <2>2
<1> HIDE DEF x
<1>6. \A v \in DOMAIN versions : versions[v] # x
  <2>1. \A v \in DOMAIN versions : versions[v] = x => <<"version", v>> \in References(x)
    BY DEF References
  <2> QED
    BY <1>4, <1>5, <2>1
<1>7. ASSUME NEW b \in Inner, NEW d \in {0, 1}, Son(b, d) = x
      PROVE  p # << >> /\ b = slot[w][Parent(p)] /\ d = p[Len(p)]
  <2>1. <<"son", b, d>> \in References(x)
    BY <1>7 DEF References
  <2> QED
    BY <1>4, <1>5, <2>1
<1>8. ASSUME NEW u \in Writers \ {w} PROVE x # job[u].tmp_ver /\ x # job[u].new_ver
  <2>1. /\ x = job[u].tmp_ver => <<"tmp_ver", u>> \in References(x)
        /\ x = job[u].new_ver => <<"new_ver", u>> \in References(x)
    BY DEF References
  <2> QED
    BY <1>4, <1>5, <2>1
<1>9. ASSUME NEW u \in Writers, NEW q \in Paths, slot[u][q] = x
      PROVE  FALSE
  <2>1. job[u].phase \notin Working
    <3>1. job[u].phase \in Working => <<"slot", u, q>> \in References(x)
      BY <1>9 DEF References, Owners
    <3> QED
      BY <1>4, <1>5, <3>1
  <2>2. job[u].phase = "gc" /\ pc[u][q] = "join"
    <3>1. job[u].phase # "idle"
      BY <1>t, <1>1, <1>9 DEF TypeOK, NoFrames, x
    <3> QED
      BY <1>t, <1>1, <1>9, <2>1, <3>1 DEF TypeOK, Working, IInv, GcFramesNest, x
  <2>3. x = GcArgument(u, q)
    BY <1>9, <2>2 DEF IInv, GcFramesNest
  <2>4. CASE q = << >>
    <3>1. x = job[u].tmp_ver
      BY <2>3, <2>4 DEF GcArgument
    <3>2. <<"tmp_ver", u>> \in References(x)
      BY <3>1 DEF References
    <3>3. u = w /\ p = << >>
      BY <1>4, <1>5, <3>2
    <3> QED
      BY <1>1, <2>2, <2>4, <3>3
  <2>5. CASE q # << >>
    <3>1. /\ Parent(q) \in Paths /\ pc[u][Parent(q)] = "join" /\ q[Len(q)] \in {0, 1}
          /\ slot[u][Parent(q)] \in Inner
          /\ GcArgument(u, q) = Son(slot[u][Parent(q)], q[Len(q)])
      BY <2>2, <2>5, GcParent
    <3>2. p # << >> /\ slot[u][Parent(q)] = slot[w][Parent(p)] /\ q[Len(q)] = p[Len(p)]
      BY <1>7, <2>3, <3>1
    <3>3. u = w
      BY <1>2, <3>1, <3>2 DEF IInv, Separation, Apart
    <3>4. Parent(q) = Parent(p)
      BY <1>1, <1>2, <3>1, <3>2, <3>3 DEF IInv, GcFramesNest
    <3>5. q = p
      <4>1. q = Child(Parent(q), q[Len(q)]) /\ p = Child(Parent(p), p[Len(p)])
        BY <2>5, <3>2, ParentOfPath
      <4> QED
        BY <3>2, <3>4, <4>1
    <3> QED
      BY <1>1, <2>2, <3>3, <3>5
  <2> QED
    BY <2>4, <2>5
\* The frame's own region contains the node's.
<1>10. Len(x.at) >= Len(p) /\ x \in Address
  <2>1. x \in Address
    BY <1>t, <1>3 DEF TypeOK, Inner
  <2>2. CASE p = << >>
    <3>1. Len(x.at) \in Nat
      BY <2>1, PathsAreSequences, BitsIsNatural DEF Address
    <3> QED
      BY <2>1, <2>2, <3>1, RootIsPath
  <2>3. CASE p # << >>
    <3> DEFINE a == slot[w][Parent(p)]
    <3>1. a \in Address /\ Len(a.at) >= Len(Parent(p)) /\ Len(x.at) > Len(a.at)
      <4>1. a \in Inner /\ Son(a, p[Len(p)]) = x /\ p[Len(p)] \in {0, 1} /\ Parent(p) \in Paths
        BY <1>2, <2>3
      <4>2. a \in Address /\ a # Null
        BY <1>t, <4>1, ConstantsAssumption DEF TypeOK, Inner
      <4>3. Len(x.at) > Len(a.at)
        BY <1>1, <4>1 DEF IInv, Depths, x
      <4>4. Len(a.at) >= Len(Parent(p))
        BY <4>1, <4>2 DEF IInv, Depths
      <4> QED
        BY <4>2, <4>3, <4>4
    <3>2. Len(Parent(p)) = Len(p) - 1 /\ Len(p) \in Nat
      BY <2>3, ParentOfPath, PathsAreSequences, BitsIsNatural
    <3>3. Len(a.at) \in Nat /\ Len(x.at) \in Nat
      BY <2>1, <3>1, PathsAreSequences, BitsIsNatural DEF Address
    <3> HIDE DEF a
    <3> QED
      BY <2>1, <3>1, <3>2, <3>3
  <2> QED
    BY <2>2, <2>3
<1>f. /\ \A u \in Writers \ {w} : pc'[u] = pc[u] /\ slot'[u] = slot[u]
      /\ \A q \in Paths :
           /\ pc'[w][q] = IF q = p THEN "join" ELSE IF q \in Children(p) THEN "call" ELSE pc[w][q]
           /\ slot'[w][q] = IF q = p THEN x ELSE slot[w][q]
      /\ pc' \in [Writers -> [Paths -> {"idle", "call", "join", "done"}]]
      /\ slot' \in [Writers -> [Paths -> AddressOrNull]]
  <2>1. [q \in Paths |-> IF q = p THEN "join" ELSE IF q \in Children(p) THEN "call"
                         ELSE pc[w][q]] \in [Paths -> {"idle", "call", "join", "done"}]
    BY <1>t DEF TypeOK
  <2>2. pc' \in [Writers -> [Paths -> {"idle", "call", "join", "done"}]]
    BY <1>t, <1>1, <2>1 DEF TypeOK
  <2>3. slot' \in [Writers -> [Paths -> AddressOrNull]]
    BY <1>t, <1>1, <1>10 DEF TypeOK, AddressOrNull
  <2> QED
    BY <1>t, <1>1, <2>2, <2>3 DEF TypeOK
<1>c. ASSUME NEW q \in Children(p)
      PROVE  q \in Paths /\ q # << >> /\ Parent(q) = p /\ q # p /\ pc[w][q] = "idle"
  <2>1. q \in Paths /\ q # << >> /\ Parent(q) = p /\ q # p
    BY ChildrenArePaths
  <2> QED
    BY <1>1, <2>1 DEF IInv, GcFramesNest
<1>i. /\ Inner' = Inner /\ \A b, d : Son(b, d)' = Son(b, d)
      /\ \A u \in Writers \ {w} : Private(u)' = Private(u)
      /\ Private(w)' = Private(w) \cup {x}
  <2>1. ASSUME NEW u \in Writers \ {w} PROVE Private(u)' = Private(u)
    <3>1. job'[u] = job[u] /\ pc'[u] = pc[u] /\ slot'[u] = slot[u] /\ heap' = heap
      BY <1>1, <1>f
    <3> QED
      BY <3>1 DEF Private
  <2>2. {slot'[w][q] : q \in {s \in Paths : pc'[w][s] = "join"}}
          = {slot[w][q] : q \in {s \in Paths : pc[w][s] = "join"}} \cup {x}
    <3>1. \A q \in Paths : pc'[w][q] = "join" <=> q = p \/ pc[w][q] = "join"
      BY <1>f, <1>c
    <3>2. \A q \in Paths : slot'[w][q] = IF q = p THEN x ELSE slot[w][q]
      BY <1>f
    <3>3. pc[w][p] # "join"
      BY <1>1
    <3> QED
      BY <3>1, <3>2, <3>3
  <2>3. /\ Private(w) = {b \in DOMAIN heap : b.owner = job[w].id}
                          \cup {slot[w][q] : q \in {s \in Paths : pc[w][s] = "join"}}
        /\ Private(w)' = {b \in DOMAIN heap : b.owner = job[w].id}
                          \cup {slot'[w][q] : q \in {s \in Paths : pc'[w][s] = "join"}}
    BY <1>1 DEF Private
  <2> QED
    BY <1>1, <2>1, <2>2, <2>3 DEF Inner, Son
<1>a. \A u \in Writers, q \in Paths :
        (u # w => GcArgument(u, q)' = GcArgument(u, q))
        /\ (q \notin Children(p) /\ pc[w][q] # "idle" => GcArgument(w, q)' = GcArgument(w, q))
  <2>1. ASSUME NEW u \in Writers \ {w}, NEW q \in Paths
        PROVE  GcArgument(u, q)' = GcArgument(u, q)
    BY <1>1, <1>f, <1>i DEF GcArgument, Son
  <2>2. ASSUME NEW q \in Paths, q \notin Children(p), pc[w][q] # "idle"
        PROVE  GcArgument(w, q)' = GcArgument(w, q)
    <3>1. CASE q = << >>
      BY <1>1, <3>1 DEF GcArgument
    <3>2. CASE q # << >>
      <4>1. Parent(q) \in Paths /\ Parent(q) # p
        BY <2>2, <3>2, ParentOfPath
      <4> QED
        BY <1>1, <1>f, <3>2, <4>1 DEF GcArgument, Son
    <3> QED
      BY <3>1, <3>2
  <2> QED
    BY <2>1, <2>2
<1>11. TypeOK'
  <2>1. ASSUME NEW u \in Writers
        PROVE  /\ job'[u].phase = "idle" => job'[u] = Idle /\ pc'[u] = NoFrames
               /\ \A q \in Paths : pc'[u][q] = "idle" => slot'[u][q] = Null
    <3>1. CASE u = w
      BY <1>t, <1>1, <1>f, <3>1 DEF TypeOK
    <3>2. CASE u # w
      BY <1>t, <1>1, <1>f, <3>2 DEF TypeOK
    <3> QED
      BY <3>1, <3>2
  <2> QED
    BY <1>t, <1>1, <1>f, <2>1 DEF TypeOK
<1>12. NoDanglingReference'
  <2>1. Owners' = Owners /\ w \notin Owners
    BY <1>1 DEF Owners, Working
  <2>2. Referenced' \subseteq Referenced
    BY <1>1, <1>f, <1>i, <2>1 DEF Referenced
  <2> QED
    BY <1>1, <2>2 DEF IInv, NoDanglingReference
<1>13. JobsDiffer'
  BY <1>1 DEF IInv, JobsDiffer
<1>14. FramesWork' /\ CopiesInPlace'
  <2>1. ASSUME NEW u \in Writers, NEW q \in Paths, pc'[u][q] = "join"
        PROVE  (u = w /\ q = p /\ slot'[u][q] = x) \/ (pc[u][q] = "join" /\ slot'[u][q] = slot[u][q])
    <3>1. CASE u = w
      BY <1>f, <2>1, <3>1
    <3>2. CASE u # w
      BY <1>f, <2>1, <3>2
    <3> QED
      BY <3>1, <3>2
  <2>2. job[w].phase \notin Working
    BY <1>1 DEF Working
  <2> QED
    BY <1>1, <1>3, <1>i, <2>1, <2>2 DEF IInv, FramesWork, CopiesInPlace
<1>15. GcFramesNest'
  <2>1. ASSUME NEW q \in Paths
        PROVE  /\ pc'[w][q] # "idle" /\ q # << >> => pc'[w][Parent(q)] = "join"
               /\ pc'[w][q] = "join" => slot'[w][q] = GcArgument(w, q)'
               /\ pc'[w][q] # "join" => slot'[w][q] = Null
               /\ pc'[w][q] = "done" => GcArgument(w, q)' = Null
    <3>1. CASE q = p
      <4>1. pc'[w][p] = "join" /\ slot'[w][p] = x /\ p \notin Children(p)
        BY <1>f, <1>c
      <4>2. GcArgument(w, p)' = x
        BY <1>1, <1>a, <4>1 DEF x
      <4>3. p # << >> => pc'[w][Parent(p)] = "join"
        <5>1. p # << >> => Parent(p) # p /\ Parent(p) \in Paths
          BY ParentOfPath
        <5> QED
          BY <1>2, <1>f, <1>c, <5>1
      <4> QED
        BY <3>1, <4>1, <4>2, <4>3
    <3>2. CASE q \in Children(p)
      <4>1. Parent(q) = p /\ pc[w][q] = "idle" /\ pc'[w][q] = "call" /\ slot'[w][q] = slot[w][q]
            /\ pc'[w][p] = "join"
        BY <1>f, <1>c, <3>2
      <4> QED
        BY <1>t, <4>1 DEF TypeOK
    <3>3. CASE q # p /\ q \notin Children(p)
      <4>1. pc'[w][q] = pc[w][q] /\ slot'[w][q] = slot[w][q]
        BY <1>f, <3>3
      <4>2. pc[w][q] # "idle" /\ q # << >> => pc'[w][Parent(q)] = "join"
        <5> SUFFICES ASSUME pc[w][q] # "idle", q # << >> PROVE pc'[w][Parent(q)] = "join"
          OBVIOUS
        <5>1. Parent(q) \in Paths /\ pc[w][Parent(q)] = "join"
          BY <1>1, GcParent
        <5> QED
          BY <1>f, <1>c, <5>1
      <4> QED
        BY <1>1, <1>a, <3>3, <4>1, <4>2 DEF IInv, GcFramesNest
    <3> QED
      BY <3>1, <3>2, <3>3
  <2>2. ASSUME NEW q \in Paths, NEW s \in Paths, pc'[w][q] = "join", pc'[w][s] = "join",
               slot'[w][q] = slot'[w][s]
        PROVE  q = s
    BY <1>1, <1>9, <1>f, <2>2 DEF IInv, GcFramesNest
  <2>3. ASSUME NEW u \in Writers \ {w}, job'[u].phase = "gc"
        PROVE  /\ \A q \in Paths :
                    /\ pc'[u][q] # "idle" /\ q # << >> => pc'[u][Parent(q)] = "join"
                    /\ pc'[u][q] = "join" => slot'[u][q] = GcArgument(u, q)'
                    /\ pc'[u][q] # "join" => slot'[u][q] = Null
                    /\ pc'[u][q] = "done" => GcArgument(u, q)' = Null
               /\ \A q, s \in Paths : /\ pc'[u][q] = "join" /\ pc'[u][s] = "join"
                                      /\ slot'[u][q] = slot'[u][s]
                                      => q = s
    BY <1>1, <1>a, <1>f, <2>3 DEF IInv, GcFramesNest
  <2> QED
    BY <2>1, <2>2, <2>3 DEF GcFramesNest
<1>16. Depths'
  <2>1. ASSUME NEW u \in Writers, NEW q \in Paths
        PROVE  slot'[u][q] # Null => Len(slot'[u][q].at) >= Len(q)
    BY <1>10, <1>f DEF IInv, Depths
  <2> QED
    BY <1>i, <2>1 DEF IInv, Depths
<1>17. Separation'
  <2>1. ASSUME NEW u \in Writers, NEW a \in Private(u)'
        PROVE  /\ \A v \in DOMAIN versions' : versions'[v] # a
               /\ \A b \in Inner' : a \in {Son(b, 0)', Son(b, 1)'} => b \in Private(u)'
               /\ \A y \in Writers \ {u} :
                    a \notin {job'[y].tmp_ver, job'[y].new_ver} \cup {slot'[y][q] : q \in Paths}
    <3>1. CASE u = w /\ a = x
      <4>1. \A b \in Inner' : a \in {Son(b, 0)', Son(b, 1)'} => b \in Private(u)'
        BY <1>2, <1>7, <1>i, <3>1
      <4>2. ASSUME NEW y \in Writers \ {u}
            PROVE  a \notin {job'[y].tmp_ver, job'[y].new_ver} \cup {slot'[y][q] : q \in Paths}
        BY <1>1, <1>8, <1>9, <1>f, <3>1
      <4> QED
        BY <1>1, <1>6, <3>1, <4>1, <4>2
    <3>2. CASE a \in Private(u)
      <4>1. ASSUME NEW y \in Writers \ {u}, NEW q \in Paths
            PROVE  slot'[y][q] # a
        <5>1. slot'[y][q] = slot[y][q] \/ (y = w /\ slot'[y][q] = x)
          BY <1>f
        <5>2. slot[y][q] # a
          BY <3>2 DEF IInv, Separation, Apart
        <5>3. y = w => x # a
          <6> SUFFICES ASSUME y = w, x = a PROVE FALSE
            OBVIOUS
          <6>1. CASE p = << >>
            <7>1. job[w].tmp_ver = a
              BY <6>1 DEF x, GcArgument
            <7> QED
              BY <3>2, <7>1 DEF IInv, Separation, Apart
          <6>2. CASE p # << >>
            <7>1. slot[w][Parent(p)] \in Private(u)
              BY <1>2, <3>2, <6>2 DEF IInv, Separation, Apart
            <7> QED
              BY <1>2, <6>2, <7>1 DEF IInv, Separation, Apart
          <6> QED
            BY <6>1, <6>2
        <5> QED
          BY <5>1, <5>2, <5>3
      <4>2. \A b \in Inner' : a \in {Son(b, 0)', Son(b, 1)'} => b \in Private(u)'
        BY <1>i, <3>2 DEF IInv, Separation, Apart
      <4>3. /\ \A v \in DOMAIN versions' : versions'[v] # a
            /\ \A y \in Writers \ {u} : a \notin {job'[y].tmp_ver, job'[y].new_ver}
        BY <1>1, <3>2 DEF IInv, Separation, Apart
      <4> QED
        BY <4>1, <4>2, <4>3
    <3> QED
      BY <1>i, <3>1, <3>2
  <2> QED
    BY <2>1 DEF Separation, Apart
<1> QED
  BY <1>11, <1>12, <1>13, <1>14, <1>15, <1>16, <1>17 DEF IInv

\* gc_nocheck enters a node.
LEMMA GcCallStep ==
  ASSUME IInv, NEW w \in Writers, NEW p \in Paths, GcCall(w, p)
  PROVE  IInv'
<1>1. CASE GcDescends(GcArgument(w, p))
  BY <1>1, GcDescendStep
<1>2. CASE ~GcDescends(GcArgument(w, p))
  <2>1. /\ job[w].phase = "gc" /\ pc[w][p] = "call"
        /\ Reset(w, p) /\ Return(w, p, Null) /\ UNCHANGED <<versions, commits>>
    BY <1>2 DEF GcCall, FrameAt
  <2>2. \A q \in Children(p) : pc[w][q] = "idle"
    BY <2>1, ChildrenArePaths DEF IInv, GcFramesNest
  <2> QED
    BY <2>1, <2>2, GcResetStep
<1> QED
  BY <1>1, <1>2

\* gc_nocheck has freed what is below a node.
LEMMA GcJoinStep ==
  ASSUME IInv, NEW w \in Writers, NEW p \in Paths, GcJoin(w, p)
  PROVE  IInv'
<1>1. /\ job[w].phase = "gc" /\ pc[w][p] = "join" /\ SonsDone(w, p)
      /\ Reset(w, p) /\ Return(w, p, Null) /\ UNCHANGED <<versions, commits>>
  BY DEF GcJoin, FrameAt
<1>2. Len(p) < Bits
  <2>1. slot[w][p] \in Inner /\ slot[w][p] \in Address /\ slot[w][p] # Null
    BY <1>1, ConstantsAssumption DEF IInv, FramesWork, TypeOK, Inner
  <2>2. Len(slot[w][p].at) < Bits /\ Len(slot[w][p].at) >= Len(p)
    BY <2>1 DEF IInv, Depths
  <2> QED
    BY <2>1, <2>2, PathsAreSequences, BitsIsNatural DEF Address
<1>3. ASSUME NEW d \in {0, 1} PROVE Son(slot[w][p], d) = Null
  <2> DEFINE q == Child(p, d)
  <2>1. q \in Paths /\ q \in Children(p) /\ q # << >> /\ Parent(q) = p /\ q[Len(q)] = d
    BY <1>2, ChildrenOfPath
  <2> HIDE DEF q
  <2>2. pc[w][q] = "done"
    BY <1>1, <2>1 DEF SonsDone
  <2>3. GcArgument(w, q) = Null
    BY <1>1, <2>1, <2>2 DEF IInv, GcFramesNest
  <2> QED
    BY <2>1, <2>3 DEF GcArgument
<1>4. \A q \in Children(p) : pc[w][q] = "done"
  BY <1>1 DEF SonsDone
<1> QED
  BY <1>1, <1>3, <1>4, GcResetStep

-----------------------------------------------------------------------------
(* The theorems.                                                            *)

\* Tree::build has made the first version.
LEMMA InitEstablishesIInv ==
  ASSUME Init
  PROVE  IInv
<1>1. PICK B \in Initial :
        IF B = EmptyBag
        THEN heap = [a \in {} |-> a] /\ versions = [v \in {0} |-> Null]
        ELSE heap = Build(B, << >>, 0) /\ versions = [v \in {0} |-> BuildAddress(0, << >>)]
  BY DEF Init
<1>2. /\ job = [w \in Writers |-> Idle] /\ pc = [w \in Writers |-> NoFrames]
      /\ slot = [w \in Writers |-> NoSlots] /\ commits = 0
  BY DEF Init
<1>3. IsBagOfPoints(B)
  BY BatchesAreBags
<1>4. /\ DOMAIN heap \subseteq Address
      /\ DOMAIN versions = {0} /\ versions[0] \in DOMAIN heap \cup {Null}
      /\ \A a \in DOMAIN heap :
           /\ a.owner = 0 /\ IsNode(heap[a])
           /\ ~heap[a].leaf =>
                /\ Len(a.at) < Bits
                /\ \A s \in {heap[a].l_son, heap[a].r_son} :
                     s # Null => s \in DOMAIN heap /\ Len(s.at) > Len(a.at)
  <2>1. CASE B = EmptyBag
    BY <1>1, <2>1
  <2>2. CASE B # EmptyBag
    BY <1>1, <1>3, <2>2, BuildIsSound, RootIsPath
  <2> QED
    BY <2>1, <2>2
<1>5. \A w \in Writers : /\ job[w] = Idle /\ job[w].phase = "idle" /\ job[w].tmp_ver = Null
                         /\ job[w].new_ver = Null
                         /\ \A p \in Paths : pc[w][p] = "idle" /\ slot[w][p] = Null
  BY <1>2 DEF Idle, NoFrames, NoSlots
<1>6. TypeOK
  <2>1. Idle \in Jobs(0)
    BY DEF Jobs, Idle, AddressOrNull
  <2>2. job \in [Writers -> Jobs(0)]
    BY <1>2, <2>1
  <2>3. /\ pc \in [Writers -> [Paths -> {"idle", "call", "join", "done"}]]
        /\ slot \in [Writers -> [Paths -> AddressOrNull]]
    BY <1>2 DEF NoFrames, NoSlots, AddressOrNull
  <2>4. 0 \in 0..MaxCommits
    BY ConstantsAssumption
  <2>5. \A v \in DOMAIN versions : v \in 0..0 /\ versions[v] \in AddressOrNull
    BY <1>4 DEF AddressOrNull
  <2>6. \A w \in Writers : job[w] = Idle /\ pc[w] = NoFrames
    BY <1>2
  <2> QED
    BY <1>2, <1>4, <1>5, <2>2, <2>3, <2>4, <2>5, <2>6 DEF TypeOK, Jobs
<1>7. NoDanglingReference
  <2>1. Owners = {}
    BY <1>5 DEF Owners, Working
  <2>2. ASSUME NEW b \in Inner, NEW d \in {0, 1} PROVE Son(b, d) \in DOMAIN heap \cup {Null}
    BY <1>4 DEF Inner, Son
  <2> QED
    BY <1>4, <1>5, <2>1, <2>2 DEF NoDanglingReference, Referenced
<1>8. JobsDiffer
  BY <1>2, <1>4, <1>5 DEF JobsDiffer
<1>9. FramesWork /\ GcFramesNest /\ CopiesInPlace
  BY <1>5 DEF FramesWork, GcFramesNest, CopiesInPlace, Working
<1>10. Depths
  BY <1>4, <1>5 DEF Depths, Inner, Son
<1>11. Separation
  BY <1>5 DEF Separation, Apart, Private
<1> QED
  BY <1>6, <1>7, <1>8, <1>9, <1>10, <1>11 DEF IInv

\* What changes no variable keeps it.
LEMMA StutteringPreservesIInv ==
  ASSUME IInv, UNCHANGED vars
  PROVE  IInv'
<1>1. UNCHANGED <<heap, versions, job, pc, slot, commits>>
  BY DEF vars
<1> QED
  BY <1>1 DEF IInv, TypeOK, NoDanglingReference, JobsDiffer, FramesWork, GcFramesNest, Depths,
     CopiesInPlace, Separation, Apart, Private, Referenced, Inner, Owners, Son, GcArgument

\* Every step of every commit keeps the invariant.
LEMMA NextPreservesIInv ==
  ASSUME IInv, [Next]_vars
  PROVE  IInv'
<1>1. CASE Reclaim
  BY <1>1, ReclaimStep
<1>2. CASE Client
  BY <1>2, BeginStep, ReleaseStep DEF Client
<1>3. ASSUME NEW w \in Writers, Step(w) PROVE IInv'
  <2>1. CASE \E p \in Paths : Frame(w, p)
    BY <2>1, DeleteCallStep, DeleteJoinStep, InsertCallStep, InsertJoinStep,
       GcCallStep, GcJoinStep DEF Frame
  <2>2. CASE StartInsert(w) \/ StartGc(w) \/ Finish(w)
    BY <2>2, StartInsertStep, StartGcStep, FinishStep
  <2> QED
    BY <1>3, <2>1, <2>2 DEF Step
<1>4. CASE UNCHANGED vars
  BY <1>4, StutteringPreservesIInv
<1> QED
  BY <1>1, <1>2, <1>3, <1>4 DEF Next

\* Whatever the interleaving of commits, of their halves and of destructors,
\* the heap and the frames of multi_version_batch_delete_sorted_node,
\* multi_version_batch_insert_sorted_node and gc_nocheck satisfy IInv.
THEOREM IInvHolds == Spec => []IInv
<1>1. Init => IInv
  BY InitEstablishesIInv
<1>2. IInv /\ [Next]_vars => IInv'
  BY NextPreservesIInv
<1> QED
  BY <1>1, <1>2, PTL DEF Spec

\* The variables of commit keep their types; in particular no shared_ptr and no
\* leaf is ever built from what is not one.
THEOREM TypeCorrectness == Spec => []TypeOK
<1>1. IInv => TypeOK
  BY DEF IInv
<1> QED
  BY <1>1, IInvHolds, PTL

\* No version, node or variable of another commit leads to a node that a
\* running commit writes in place (the copies of node_copy, the sons that
\* gc_nocheck resets), so commits need no lock.
THEOREM CommitsAreSeparate == Spec => []Separation
<1>1. IInv => Separation
  BY DEF IInv
<1> QED
  BY <1>1, IInvHolds, PTL

\* A step leaves alone every node it may not write.
OnlyPrivateNodesChange ==
  \A a \in DOMAIN heap \cap DOMAIN heap' : heap'[a] = heap[a] \/ \E w \in Writers : a \in Private(w)

\* Who stores nodes of its own only changes nobody else's.
LEMMA OwnStore ==
  ASSUME NEW w \in Writers, job[w].phase # "idle", NEW N,
         \A a \in DOMAIN N : a.owner = job[w].id \/ a \in Private(w), heap' = Store(heap, N)
  PROVE  OnlyPrivateNodesChange
BY DEF OnlyPrivateNodesChange, Store, Private

\* The same of a single node.
LEMMA OwnNode ==
  ASSUME NEW w \in Writers, job[w].phase # "idle", NEW a, NEW node,
         a.owner = job[w].id \/ a \in Private(w), heap' = Store(heap, One(a, node))
  PROVE  OnlyPrivateNodesChange
BY OwnStore DEF One

\* No step of a commit changes a node that others may read.
LEMMA StepsChangePrivateNodesOnly ==
  ASSUME IInv, [Next]_vars
  PROVE  OnlyPrivateNodesChange
<1>1. CASE UNCHANGED heap
  BY <1>1 DEF OnlyPrivateNodesChange
<1>2. CASE Reclaim
  BY <1>2 DEF Reclaim, OnlyPrivateNodesChange
<1>3. ASSUME NEW w \in Writers, NEW p \in Paths, Frame(w, p)
      PROVE  OnlyPrivateNodesChange
  <2>t. TypeOK /\ job[w].id \in Nat
    BY DEF IInv, TypeOK
  <2>1. CASE DeleteCall(w, p)
    <3>1. job[w].phase # "idle" /\ Fresh(w, "delete_copy", p).owner = job[w].id
      BY <2>1 DEF DeleteCall, FrameAt, Fresh
    <3> QED
      BY <1>1, <2>1, <3>1, OwnNode DEF DeleteCall
  <2>2. CASE DeleteJoin(w, p)
    <3>1. /\ job[w].phase # "idle" /\ Fresh(w, "merge", p).owner = job[w].id
          /\ slot[w][p].owner = job[w].id
      BY <2>2 DEF DeleteJoin, FrameAt, Fresh, IInv, FramesWork, Working
    <3> QED
      BY <1>1, <2>2, <3>1, OwnNode DEF DeleteJoin
  <2>3. CASE InsertCall(w, p)
    <3> DEFINE x == Argument(w, p)
               P == Part(job[w].ins, p)
               merged == heap[x].records (+) P
               y == Fresh(w, "insert_copy", p)
    <3>1. job[w].phase # "idle" /\ y.owner = job[w].id /\ job[w].phase \in Working
      BY <2>3 DEF InsertCall, FrameAt, Fresh, Working
    <3>2. \A B : IsBagOfPoints(B) => \A a \in DOMAIN Build(B, p, job[w].id) : a.owner = job[w].id
      BY <2>t, BuildIsSound
    <3>3. MayHold(w, x)
      BY <3>1, ArgumentMayBeHeld
    <3>4. IsBagOfPoints(P) /\ (x # Null /\ heap[x].leaf => IsBagOfPoints(merged))
      BY <3>3, LeafRecordsAreBags, JobBatchesAreBags, UnionOfBags DEF MayHold
    <3>5. \/ heap' = Store(heap, Build(P, p, job[w].id))
          \/ x # Null /\ heap[x].leaf /\ heap' = Store(heap, Build(merged, p, job[w].id))
          \/ heap' = Store(heap, One(y, Leaf(merged)))
          \/ heap' = Store(heap, One(y, heap[x]))
      BY <2>3 DEF InsertCall
    <3> HIDE DEF x, P, merged, y
    <3> QED
      BY <3>1, <3>2, <3>4, <3>5, OwnNode, OwnStore
  <2>4. CASE InsertJoin(w, p)
    <3>1. job[w].phase # "idle" /\ slot[w][p].owner = job[w].id
      BY <2>4 DEF InsertJoin, FrameAt, IInv, FramesWork, Working
    <3> QED
      BY <2>4, <3>1, OwnNode DEF InsertJoin
  <2>5. ASSUME job[w].phase = "gc", pc[w][p] # "idle", Reset(w, p)
        PROVE  OnlyPrivateNodesChange
    <3>1. CASE p = << >>
      BY <1>1, <2>5, <3>1 DEF Reset
    <3>2. CASE p # << >>
      <4>1. slot[w][Parent(p)] \in Private(w)
        BY <2>5, <3>2, GcParent
      <4> QED
        BY <2>5, <3>2, <4>1, OwnNode DEF Reset
    <3> QED
      BY <3>1, <3>2
  <2>6. CASE GcCall(w, p)
    BY <1>1, <2>5, <2>6 DEF GcCall, FrameAt
  <2>7. CASE GcJoin(w, p)
    BY <2>5, <2>7 DEF GcJoin, FrameAt
  <2> QED
    BY <1>3, <2>1, <2>2, <2>3, <2>4, <2>6, <2>7 DEF Frame
<1>4. ASSUME NEW w \in Writers, StartInsert(w) \/ StartGc(w) \/ Finish(w)
      PROVE  UNCHANGED heap
  BY <1>4 DEF StartInsert, StartGc, Finish
<1>5. CASE Client
  BY <1>1, <1>5 DEF Client, Begin, Release
<1>6. CASE UNCHANGED vars
  BY <1>1, <1>6 DEF vars
<1> QED
  BY <1>1, <1>2, <1>3, <1>4, <1>5, <1>6 DEF Next, Step

\* A node that something outside the running commit refers to is never written
\* (node_copy comes first, gc_nocheck tests use_count).
THEOREM SharedNodesStay == Spec => SharedNodesAreImmutable
<1> DEFINE LoneNodesChange ==
      \A a \in DOMAIN heap \cap DOMAIN heap' :
        heap'[a] = heap[a] \/ \E w \in Writers : a \in Private(w) /\ Apart(w, a)
<1>1. IInv /\ [Next]_vars => [LoneNodesChange]_vars
  <2> SUFFICES ASSUME IInv, [Next]_vars
               PROVE  LoneNodesChange
    OBVIOUS
  <2>1. OnlyPrivateNodesChange
    BY StepsChangePrivateNodesOnly
  <2>2. Separation
    BY DEF IInv
  <2> QED
    BY <2>1, <2>2 DEF OnlyPrivateNodesChange, Separation
<1> QED
  BY <1>1, IInvHolds, PTL DEF Spec, SharedNodesAreImmutable

-----------------------------------------------------------------------------
(* Induction.                                                              *)

\* Every set of natural numbers that has an element has a smallest one.
LEMMA SmallestElement ==
  ASSUME NEW A \in SUBSET Nat, A # {}
  PROVE  \E m \in A : \A k \in A : m <= k
<1> DEFINE R == OpToRel(<, Nat)
<1>1. IsWellFoundedOn(R, Nat)
  BY NatLessThanWellFounded
<1>2. PICK m \in A : \A k \in A : <<k, m>> \notin R
  <2> HIDE DEF R
  <2> QED  BY <1>1, WFMin
<1>3. ASSUME NEW k \in A  PROVE m <= k
  <2>1. k \in Nat /\ m \in Nat
    OBVIOUS
  <2>2. ~(k < m)
    BY <1>2, <2>1 DEF OpToRel
  <2> QED  BY <2>1, <2>2
<1> QED  BY <1>3

-----------------------------------------------------------------------------
(* Bags of points, by the number of copies of each.                        *)

CopiesOf(x, B) == IF x \in DOMAIN B THEN B[x] ELSE 0

\* The number of copies of a record, and which records have any.
LEMMA CopiesAreNumbers ==
  ASSUME NEW B, IsBagOfPoints(B), NEW x
  PROVE  CopiesOf(x, B) \in Nat /\ (x \in DOMAIN B <=> CopiesOf(x, B) # 0)
         /\ (CopiesOf(x, B) # 0 => x \in Points)
BY DEF IsBagOfPoints, CopiesOf

\* Bags with as many copies of every point are equal.
LEMMA EqualBags ==
  ASSUME NEW A, NEW B, IsBagOfPoints(A), IsBagOfPoints(B),
         \A x \in Points : CopiesOf(x, A) = CopiesOf(x, B)
  PROVE  A = B
<1>1. /\ A \in [DOMAIN A -> Nat \ {0}] /\ B \in [DOMAIN B -> Nat \ {0}]
      /\ DOMAIN A \subseteq Points /\ DOMAIN B \subseteq Points
  BY DEF IsBagOfPoints
<1>2. \A x : x \in DOMAIN A <=> x \in DOMAIN B
  BY <1>1, CopiesAreNumbers
<1>3. DOMAIN A = DOMAIN B
  BY <1>2
<1>4. \A x \in DOMAIN A : A[x] = B[x]
  BY <1>1, <1>3 DEF CopiesOf
<1> QED  BY <1>1, <1>3, <1>4

\* Union adds up the copies.
LEMMA CopiesInSum ==
  ASSUME NEW A, NEW B, IsBagOfPoints(A), IsBagOfPoints(B), NEW x
  PROVE  CopiesOf(x, A (+) B) = CopiesOf(x, A) + CopiesOf(x, B)
BY DEF CopiesOf, (+), IsBagOfPoints

\* Difference takes copies away as long as there are some.
LEMMA CopiesInDifference ==
  ASSUME NEW A, NEW B, IsBagOfPoints(A), IsBagOfPoints(B), NEW x
  PROVE  CopiesOf(x, A (-) B) = IF CopiesOf(x, A) > CopiesOf(x, B)
                                THEN CopiesOf(x, A) - CopiesOf(x, B) ELSE 0
BY DEF CopiesOf, (-), IsBagOfPoints

\* split_by_bit keeps the copies of the points of a region.
LEMMA CopiesInPart ==
  ASSUME NEW B, NEW q, NEW x
  PROVE  CopiesOf(x, Part(B, q)) = IF Under(x, q) THEN CopiesOf(x, B) ELSE 0
BY DEF CopiesOf, Part

\* The empty bag is the one without copies.
LEMMA NothingIsEmpty ==
  ASSUME NEW B, IsBagOfPoints(B)
  PROVE  /\ B = EmptyBag <=> \A x \in Points : CopiesOf(x, B) = 0
         /\ \A x : CopiesOf(x, EmptyBag) = 0
<1>1. \A x : CopiesOf(x, EmptyBag) = 0
  BY DEF CopiesOf, EmptyBag, SetToBag
<1> QED  BY <1>1, EqualBags, EmptyBagOfPoints

\* Inserting or deleting nothing changes nothing.
LEMMA SumWithNothing ==
  ASSUME NEW B, IsBagOfPoints(B)
  PROVE  /\ B (+) EmptyBag = B /\ EmptyBag (+) B = B
         /\ B (-) EmptyBag = B /\ EmptyBag (-) B = EmptyBag
<1>1. IsBagOfPoints(EmptyBag) /\ \A x : CopiesOf(x, EmptyBag) = 0
  BY EmptyBagOfPoints, NothingIsEmpty
<1>2. \A x : CopiesOf(x, B) \in Nat
  BY CopiesAreNumbers
<1>3. B (+) EmptyBag = B
  <2>1. \A x \in Points : CopiesOf(x, B (+) EmptyBag) = CopiesOf(x, B)
    BY <1>1, <1>2, CopiesInSum
  <2> QED  BY <1>1, <2>1, EqualBags, UnionOfBags
<1>4. EmptyBag (+) B = B
  <2>1. \A x \in Points : CopiesOf(x, EmptyBag (+) B) = CopiesOf(x, B)
    BY <1>1, <1>2, CopiesInSum
  <2> QED  BY <1>1, <2>1, EqualBags, UnionOfBags
<1>5. B (-) EmptyBag = B
  <2>1. \A x \in Points : CopiesOf(x, B (-) EmptyBag) = CopiesOf(x, B)
    BY <1>1, <1>2, CopiesInDifference
  <2> QED  BY <1>1, <2>1, EqualBags, DifferenceOfBags
<1>6. EmptyBag (-) B = EmptyBag
  <2>1. \A x \in Points : CopiesOf(x, EmptyBag (-) B) = CopiesOf(x, EmptyBag)
    BY <1>1, <1>2, CopiesInDifference
  <2> QED  BY <1>1, <2>1, EqualBags, DifferenceOfBags
<1> QED  BY <1>3, <1>4, <1>5, <1>6

\* Splitting a union is the union of the parts ...
LEMMA PartOfSum ==
  ASSUME NEW A, NEW B, IsBagOfPoints(A), IsBagOfPoints(B), NEW q
  PROVE  Part(A (+) B, q) = Part(A, q) (+) Part(B, q)
<1>1. IsBagOfPoints(A (+) B) /\ IsBagOfPoints(Part(A, q)) /\ IsBagOfPoints(Part(B, q))
  BY UnionOfBags, PartOfBag
<1>2. \A x \in Points : CopiesOf(x, Part(A (+) B, q)) = CopiesOf(x, Part(A, q) (+) Part(B, q))
  BY <1>1, CopiesInSum, CopiesInPart
<1> QED  BY <1>1, <1>2, EqualBags, UnionOfBags, PartOfBag

\* ... and splitting a difference the difference of the parts.
LEMMA PartOfDifference ==
  ASSUME NEW A, NEW B, IsBagOfPoints(A), IsBagOfPoints(B), NEW q
  PROVE  Part(A (-) B, q) = Part(A, q) (-) Part(B, q)
<1>1. IsBagOfPoints(A (-) B) /\ IsBagOfPoints(Part(A, q)) /\ IsBagOfPoints(Part(B, q))
  BY DifferenceOfBags, PartOfBag
<1>2. \A x \in Points : CopiesOf(x, Part(A (-) B, q)) = CopiesOf(x, Part(A, q) (-) Part(B, q))
  BY <1>1, CopiesInDifference, CopiesInPart
<1> QED  BY <1>1, <1>2, EqualBags, DifferenceOfBags, PartOfBag

\* All points of a region are in its part.
LEMMA PartIsAll ==
  ASSUME NEW B, IsBagOfPoints(B), NEW q, \A x \in DOMAIN B : Under(x, q)
  PROVE  Part(B, q) = B
<1>1. \A x \in Points : CopiesOf(x, Part(B, q)) = CopiesOf(x, B)
  BY CopiesInPart, CopiesAreNumbers
<1> QED  BY <1>1, EqualBags, PartOfBag

\* The part at the root is everything.
LEMMA PartAtTop ==
  ASSUME NEW B, IsBagOfPoints(B)
  PROVE  Part(B, << >>) = B
<1>1. \A x : Under(x, << >>)
  BY DEF Under
<1> QED  BY <1>1, PartIsAll

\* The regions of the two children make up that of their parent.
LEMMA UnderChildren ==
  ASSUME NEW p \in Paths, Len(p) < Bits, NEW x \in Points
  PROVE  /\ Under(x, p) <=> Under(x, Child(p, 0)) \/ Under(x, Child(p, 1))
         /\ ~(Under(x, Child(p, 0)) /\ Under(x, Child(p, 1)))
<1> DEFINE n == Len(p)
<1>1. p \in Seq({0, 1}) /\ n \in 0..Bits /\ n + 1 \in 1..Bits /\ Bits \in Nat
  BY PathsAreSequences, BitsIsNatural
<1>2. x.code[n + 1] \in {0, 1}
  BY <1>1, ConstantsAssumption
<1>3. ASSUME NEW d \in {0, 1}
      PROVE  Under(x, Child(p, d)) <=> Under(x, p) /\ x.code[n + 1] = d
  <2>1. /\ DOMAIN Child(p, d) = 1..n + 1 /\ DOMAIN p = 1..n
        /\ \A i \in 1..n : Child(p, d)[i] = p[i]
        /\ Child(p, d)[n + 1] = d
    BY <1>1 DEF Child
  <2>2. \A i : i \in 1..n + 1 <=> i \in 1..n \/ i = n + 1
    BY <1>1
  <2> HIDE DEF n
  <2> QED  BY <2>1, <2>2 DEF Under
<1> QED  BY <1>2, <1>3

\* The two halves of a region share out its points.
LEMMA PartsOfPart ==
  ASSUME NEW B, IsBagOfPoints(B), NEW p \in Paths, Len(p) < Bits
  PROVE  /\ Part(B, p) = Part(B, Child(p, 0)) (+) Part(B, Child(p, 1))
         /\ \A d \in {0, 1} : Part(Part(B, p), Child(p, d)) = Part(B, Child(p, d))
<1>1. \A q : IsBagOfPoints(Part(B, q)) /\ IsBagOfPoints(Part(Part(B, p), q))
  BY PartOfBag
<1>2. \A x \in Points : CopiesOf(x, B) \in Nat
  BY CopiesAreNumbers
<1>3. Part(B, p) = Part(B, Child(p, 0)) (+) Part(B, Child(p, 1))
  <2>1. ASSUME NEW x \in Points
        PROVE  CopiesOf(x, Part(B, p)) = CopiesOf(x, Part(B, Child(p, 0)) (+) Part(B, Child(p, 1)))
    <3>1. CopiesOf(x, Part(B, Child(p, 0)) (+) Part(B, Child(p, 1))) =
            CopiesOf(x, Part(B, Child(p, 0))) + CopiesOf(x, Part(B, Child(p, 1)))
      BY <1>1, CopiesInSum
    <3> QED  BY <1>2, <3>1, CopiesInPart, UnderChildren
  <2> QED  BY <1>1, <2>1, EqualBags, UnionOfBags
<1>4. ASSUME NEW d \in {0, 1}  PROVE Part(Part(B, p), Child(p, d)) = Part(B, Child(p, d))
  <2>1. \A x \in Points : CopiesOf(x, Part(Part(B, p), Child(p, d))) = CopiesOf(x, Part(B, Child(p, d)))
    BY CopiesInPart, UnderChildren
  <2> QED  BY <1>1, <2>1, EqualBags
<1> QED  BY <1>3, <1>4

\* What lies in one half has nothing in the other.
LEMMA PartsOfSons ==
  ASSUME NEW A, NEW B, IsBagOfPoints(A), IsBagOfPoints(B), NEW p \in Paths, Len(p) < Bits,
         \A x \in DOMAIN A : Under(x, Child(p, 0)), \A x \in DOMAIN B : Under(x, Child(p, 1))
  PROVE  Part(A (+) B, Child(p, 0)) = A /\ Part(A (+) B, Child(p, 1)) = B
<1>1. /\ IsBagOfPoints(A (+) B)
      /\ \A x \in Points : /\ CopiesOf(x, A) \in Nat /\ CopiesOf(x, B) \in Nat
                           /\ CopiesOf(x, A (+) B) = CopiesOf(x, A) + CopiesOf(x, B)
                           /\ CopiesOf(x, A) # 0 => Under(x, Child(p, 0))
                           /\ CopiesOf(x, B) # 0 => Under(x, Child(p, 1))
  BY UnionOfBags, CopiesAreNumbers, CopiesInSum
<1>2. \A x \in Points : /\ CopiesOf(x, Part(A (+) B, Child(p, 0))) = CopiesOf(x, A)
                        /\ CopiesOf(x, Part(A (+) B, Child(p, 1))) = CopiesOf(x, B)
  BY <1>1, CopiesInPart, UnderChildren
<1> QED  BY <1>1, <1>2, EqualBags, PartOfBag

-----------------------------------------------------------------------------
(* The size of a bag.                                                      *)

\* A set that has 0 and with every number the next one has them all.
LEMMA SetInduction ==
  ASSUME NEW S, 0 \in S, \A n \in Nat : n \in S => n + 1 \in S
  PROVE  Nat \subseteq S
<1> SUFFICES ASSUME Nat \ S # {} PROVE FALSE
  OBVIOUS
<1>1. PICK m \in Nat \ S : \A k \in Nat \ S : m <= k
  BY SmallestElement
<1>2. m - 1 \in Nat \ S
  BY <1>1
<1> QED  BY <1>1, <1>2

OneOf(S) == CHOOSE e \in S : TRUE
SumRule(f, X, g) == g = [S \in X |-> IF S = {} THEN 0 ELSE f[OneOf(S)] + g[S \ {OneOf(S)}]]
SmallSets(D, n) == {S \in SUBSET D : Cardinality(S) <= n}

\* A finite set without one of its elements.
LEMMA OneLess ==
  ASSUME NEW S, IsFiniteSet(S), NEW x \in S
  PROVE  IsFiniteSet(S \ {x}) /\ Cardinality(S \ {x}) = Cardinality(S) - 1
         /\ Cardinality(S) \in Nat \ {0}
BY FS_RemoveElement, FS_CardinalityType, FS_EmptySet

\* The sum of BagCardinality is defined for finite bags.
LEMMA SumExists ==
  ASSUME NEW f, NEW D, IsFiniteSet(D)
  PROVE  \E g : SumRule(f, SUBSET D, g)
<1> DEFINE Good == {n \in Nat : \E g : SumRule(f, SmallSets(D, n), g)}
<1>0. \A S \in SUBSET D : IsFiniteSet(S) /\ Cardinality(S) \in Nat
  BY FS_Subset, FS_CardinalityType
<1>1. 0 \in Good
  <2> DEFINE g == [S \in SmallSets(D, 0) |-> 0]
  <2>1. \A S \in SmallSets(D, 0) : S = {}
    BY <1>0, FS_EmptySet DEF SmallSets
  <2>2. SumRule(f, SmallSets(D, 0), g)
    BY <2>1 DEF SumRule
  <2> QED  BY <2>2
<1>2. ASSUME NEW n \in Nat, n \in Good  PROVE n + 1 \in Good
  <2>1. PICK g : SumRule(f, SmallSets(D, n), g)
    BY <1>2
  <2> DEFINE h == [S \in SmallSets(D, n + 1) |->
                     IF S = {} THEN 0 ELSE f[OneOf(S)] + g[S \ {OneOf(S)}]]
  <2>2. ASSUME NEW S \in SmallSets(D, n + 1), S # {}
        PROVE  S \ {OneOf(S)} \in SmallSets(D, n)
    <3>1. S \in SUBSET D /\ IsFiniteSet(S) /\ OneOf(S) \in S /\ Cardinality(S) <= n + 1
      BY <1>0, <2>2 DEF SmallSets, OneOf
    <3>2. Cardinality(S \ {OneOf(S)}) = Cardinality(S) - 1 /\ Cardinality(S) \in Nat
      BY <3>1, OneLess
    <3> QED  BY <3>1, <3>2 DEF SmallSets
  <2>3. \A S \in SmallSets(D, n) : S \in SmallSets(D, n + 1) /\ h[S] = g[S]
    <3>1. \A S \in SmallSets(D, n) : S \in SmallSets(D, n + 1)
      BY <1>0 DEF SmallSets
    <3>2. \A S \in SmallSets(D, n) :
            g[S] = IF S = {} THEN 0 ELSE f[OneOf(S)] + g[S \ {OneOf(S)}]
      BY <2>1 DEF SumRule
    <3> QED  BY <3>1, <3>2
  <2>4. SumRule(f, SmallSets(D, n + 1), h)
    <3>1. \A S \in SmallSets(D, n + 1) :
            S # {} => g[S \ {OneOf(S)}] = h[S \ {OneOf(S)}]
      BY <2>2, <2>3
    <3>2. h = [S \in SmallSets(D, n + 1) |->
                 IF S = {} THEN 0 ELSE f[OneOf(S)] + h[S \ {OneOf(S)}]]
      BY <3>1
    <3> HIDE DEF h
    <3> QED  BY <3>2 DEF SumRule
  <2> HIDE DEF h
  <2> QED  BY <2>4
<1>3. Cardinality(D) \in Good
  <2>1. Nat \subseteq Good
    <3> HIDE DEF Good
    <3> QED  BY <1>1, <1>2, SetInduction
  <2> QED  BY <2>1, FS_CardinalityType
<1>4. SmallSets(D, Cardinality(D)) = SUBSET D
  BY FS_Subset DEF SmallSets
<1> QED  BY <1>3, <1>4

\* BagCardinality is the last value of such a function.
LEMMA SumOfBag ==
  ASSUME NEW B, IsFiniteSet(DOMAIN B)
  PROVE  \E g : SumRule(B, SUBSET DOMAIN B, g) /\ BagCardinality(B) = g[DOMAIN B]
<1> DEFINE g == CHOOSE g : SumRule(B, SUBSET DOMAIN B, g)
<1>1. BagCardinality(B) = g[DOMAIN B]
  BY DEF BagCardinality, SumRule, OneOf
<1>2. SumRule(B, SUBSET DOMAIN B, g)
  <2>1. \E h : SumRule(B, SUBSET DOMAIN B, h)
    BY SumExists
  <2> QED  BY <2>1
<1> QED  BY <1>1, <1>2

\* It depends on the summands only, not on the order.
SameSummands(f, h, D) == \A x \in D : f[x] = h[x] /\ f[x] \in Nat
\* Sums over the same summands are the same.
LEMMA SumsAgree ==
  ASSUME NEW f, NEW h, NEW E, NEW D \in SUBSET E, NEW F, NEW H, IsFiniteSet(D),
         SumRule(f, SUBSET D, F), SumRule(h, SUBSET E, H),
         SameSummands(f, h, D)
  PROVE  \A S \in SUBSET D : F[S] = H[S] /\ F[S] \in Nat
<1> DEFINE Good(S) == F[S] = H[S] /\ F[S] \in Nat
           Bad == {Cardinality(S) : S \in {T \in SUBSET D : ~Good(T)}}
<1>1. \A S \in SUBSET D : IsFiniteSet(S) /\ Cardinality(S) \in Nat
  BY FS_Subset, FS_CardinalityType
<1> SUFFICES ASSUME Bad # {}  PROVE FALSE
  OBVIOUS
<1>2. PICK m \in Bad : \A k \in Bad : m <= k
  <2>1. Bad \in SUBSET Nat
    BY <1>1
  <2> HIDE DEF Bad
  <2> QED  BY <2>1, SmallestElement
<1>3. PICK S \in SUBSET D : m = Cardinality(S) /\ ~Good(S)
  BY <1>2
<1>4. /\ F[S] = IF S = {} THEN 0 ELSE f[OneOf(S)] + F[S \ {OneOf(S)}]
      /\ H[S] = IF S = {} THEN 0 ELSE h[OneOf(S)] + H[S \ {OneOf(S)}]
  <2>1. S \in SUBSET D /\ S \in SUBSET E
    OBVIOUS
  <2> QED  BY <2>1 DEF SumRule
<1>5. S # {}
  BY <1>3, <1>4
<1> DEFINE T == S \ {OneOf(S)}
<1>6. OneOf(S) \in S
  BY <1>5 DEF OneOf
<1>7. T \in SUBSET D /\ Cardinality(T) = Cardinality(S) - 1 /\ Cardinality(S) \in Nat
  BY <1>1, <1>6, OneLess
<1>8. Good(T)
  <2> SUFFICES ASSUME ~Good(T)  PROVE FALSE
    OBVIOUS
  <2>1. Cardinality(T) \in Bad
    BY <1>7
  <2> HIDE DEF Bad, T, Good
  <2> QED  BY <1>2, <1>3, <1>7, <2>1
<1>9. f[OneOf(S)] = h[OneOf(S)] /\ f[OneOf(S)] \in Nat
  BY <1>6 DEF SameSummands
<1> QED  BY <1>3, <1>4, <1>5, <1>8, <1>9

\* Any element may be the last one that is added.
LEMMA SumWithout ==
  ASSUME NEW f, NEW D, NEW F, IsFiniteSet(D), SumRule(f, SUBSET D, F), \A x \in D : f[x] \in Nat
  PROVE  \A S \in SUBSET D : \A x \in S : F[S] = f[x] + F[S \ {x}]
<1> DEFINE Good(S) == \A x \in S : F[S] = f[x] + F[S \ {x}]
           Bad == {Cardinality(S) : S \in {T \in SUBSET D : ~Good(T)}}
<1>1. \A S \in SUBSET D : IsFiniteSet(S) /\ Cardinality(S) \in Nat
  BY FS_Subset, FS_CardinalityType
<1>0. \A S \in SUBSET D : F[S] \in Nat
  <2>1. D \in SUBSET D /\ SameSummands(f, f, D)
    BY DEF SameSummands
  <2> QED  BY <2>1, SumsAgree
<1> SUFFICES ASSUME Bad # {}  PROVE FALSE
  OBVIOUS
<1>2. PICK m \in Bad : \A k \in Bad : m <= k
  <2>1. Bad \in SUBSET Nat
    BY <1>1
  <2> HIDE DEF Bad
  <2> QED  BY <2>1, SmallestElement
<1>3. PICK S \in SUBSET D : m = Cardinality(S) /\ ~Good(S)
  BY <1>2
<1>4. PICK x \in S : F[S] # f[x] + F[S \ {x}]
  BY <1>3
<1> DEFINE e == OneOf(S)
<1>5. e \in S
  BY DEF OneOf
<1>6. F[S] = f[e] + F[S \ {e}]
  BY DEF SumRule
<1>7. x # e
  BY <1>4, <1>6
<1> HIDE DEF e
<1>8. \A y \in S : Good(S \ {y})
  <2> SUFFICES ASSUME NEW y \in S, ~Good(S \ {y})  PROVE FALSE
    OBVIOUS
  <2>1. /\ S \ {y} \in SUBSET D /\ Cardinality(S \ {y}) = Cardinality(S) - 1
        /\ Cardinality(S) \in Nat
    BY <1>1, OneLess
  <2>2. Cardinality(S \ {y}) \in Bad
    BY <2>1
  <2> HIDE DEF Bad, Good
  <2> QED  BY <1>2, <1>3, <2>1, <2>2
<1>9. /\ F[S \ {e}] = f[x] + F[(S \ {e}) \ {x}]
      /\ F[S \ {x}] = f[e] + F[(S \ {x}) \ {e}]
  BY <1>5, <1>7, <1>8
<1>10. (S \ {e}) \ {x} = (S \ {x}) \ {e}
  OBVIOUS
<1>11. f[x] \in Nat /\ f[e] \in Nat /\ F[(S \ {x}) \ {e}] \in Nat
  BY <1>0, <1>5
<1>12. F[S \ {e}] = f[x] + F[(S \ {x}) \ {e}]
  BY <1>9, <1>10
<1>13. F[S \ {x}] \in Nat /\ F[S \ {e}] \in Nat
  BY <1>0
<1> DEFINE q == F[(S \ {x}) \ {e}]
           r == F[S \ {x}]
           t == F[S \ {e}]
<1>14. F[S] = f[e] + t /\ t = f[x] + q /\ r = f[e] + q /\ q \in Nat
  BY <1>6, <1>9, <1>11, <1>12
<1>15. F[S] # f[x] + r
  BY <1>4
<1> HIDE DEF q, r, t
<1> QED  BY <1>11, <1>14, <1>15

Less(B, x) == [y \in DOMAIN B \ {x} |-> B[y]]

\* There are finitely many points, so a bag has a size.
LEMMA FinitelyMany ==
  ASSUME NEW B, IsBagOfPoints(B)
  PROVE  IsFiniteSet(DOMAIN B) /\ \A x \in DOMAIN B : B[x] \in Nat
BY ConstantsAssumption, FS_Subset DEF IsBagOfPoints

\* The size of a bag, with and without the copies of one record.
LEMMA SizeWithout ==
  ASSUME NEW B, IsBagOfPoints(B), NEW x
  PROVE  /\ IsBagOfPoints(Less(B, x)) /\ DOMAIN Less(B, x) = DOMAIN B \ {x}
         /\ \A y : CopiesOf(y, Less(B, x)) = IF y = x THEN 0 ELSE CopiesOf(y, B)
         /\ BagCardinality(B) \in Nat
         /\ BagCardinality(B) = CopiesOf(x, B) + BagCardinality(Less(B, x))
<1> DEFINE C == Less(B, x)
<1>1. /\ IsBagOfPoints(C) /\ DOMAIN C = DOMAIN B \ {x}
      /\ \A y \in DOMAIN C : C[y] = B[y]
  BY DEF IsBagOfPoints, Less
<1>2. \A y : CopiesOf(y, C) = IF y = x THEN 0 ELSE CopiesOf(y, B)
  BY <1>1 DEF CopiesOf
<1>3. /\ IsFiniteSet(DOMAIN B) /\ \A y \in DOMAIN B : B[y] \in Nat
      /\ IsFiniteSet(DOMAIN C) /\ \A y \in DOMAIN C : C[y] \in Nat
  BY <1>1, FinitelyMany
<1>4. PICK g : SumRule(B, SUBSET DOMAIN B, g) /\ BagCardinality(B) = g[DOMAIN B]
  BY <1>3, SumOfBag
<1>5. PICK h : SumRule(C, SUBSET DOMAIN C, h) /\ BagCardinality(C) = h[DOMAIN C]
  BY <1>3, SumOfBag
<1> HIDE DEF C
<1>6. BagCardinality(B) \in Nat
  <2>1. DOMAIN B \in SUBSET DOMAIN B /\ SameSummands(B, B, DOMAIN B)
    BY <1>3 DEF SameSummands
  <2>2. \A S \in SUBSET DOMAIN B : g[S] = g[S] /\ g[S] \in Nat
    BY <1>3, <1>4, <2>1, SumsAgree
  <2> QED  BY <1>4, <2>2
<1>7. h[DOMAIN C] = g[DOMAIN C]
  <2>1. DOMAIN C \in SUBSET DOMAIN B /\ SameSummands(C, B, DOMAIN C)
    BY <1>1, <1>3 DEF SameSummands
  <2>2. \A S \in SUBSET DOMAIN C : h[S] = g[S] /\ h[S] \in Nat
    BY <1>3, <1>4, <1>5, <2>1, SumsAgree
  <2> QED  BY <2>2
<1>8. CASE x \in DOMAIN B
  <2>1. g[DOMAIN B] = B[x] + g[DOMAIN B \ {x}]
    BY <1>3, <1>4, <1>8, SumWithout
  <2> QED  BY <1>1, <1>2, <1>4, <1>5, <1>6, <1>7, <1>8, <2>1 DEF CopiesOf, C
<1>9. CASE x \notin DOMAIN B
  <2>1. \A y \in Points : CopiesOf(y, C) = CopiesOf(y, B)
    BY <1>2, <1>9 DEF CopiesOf
  <2>2. C = B
    BY <1>1, <2>1, EqualBags
  <2>3. CopiesOf(x, B) = 0
    BY <1>9 DEF CopiesOf
  <2> QED  BY <1>1, <1>2, <1>6, <2>2, <2>3 DEF C
<1> QED  BY <1>8, <1>9

\* The empty bag has no points.
LEMMA SizeOfNothing == BagCardinality(EmptyBag) = 0
<1>1. IsBagOfPoints(EmptyBag) /\ DOMAIN EmptyBag = {}
  BY EmptyBagOfPoints DEF EmptyBag, SetToBag
<1>2. PICK g : SumRule(EmptyBag, SUBSET DOMAIN EmptyBag, g) /\ BagCardinality(EmptyBag) = g[DOMAIN EmptyBag]
  BY <1>1, FinitelyMany, SumOfBag
<1> QED  BY <1>1, <1>2 DEF SumRule

\* Sizes of bags of points are numbers.
LEMMA SizeIsNumber ==
  ASSUME NEW B, IsBagOfPoints(B)
  PROVE  BagCardinality(B) \in Nat
BY SizeWithout

\* num_pts of a union is the sum of the two.
LEMMA SizeOfSum ==
  ASSUME NEW A, NEW B, IsBagOfPoints(A), IsBagOfPoints(B)
  PROVE  BagCardinality(A (+) B) = BagCardinality(A) + BagCardinality(B)
<1> DEFINE Good(C, D) == BagCardinality(C (+) D) = BagCardinality(C) + BagCardinality(D)
           Size(C, D) == Cardinality(DOMAIN C \cup DOMAIN D)
           Bad == {n \in Nat : \E C, D : /\ IsBagOfPoints(C) /\ IsBagOfPoints(D)
                                         /\ n = Size(C, D) /\ ~Good(C, D)}
<1>1. ASSUME NEW C, NEW D, IsBagOfPoints(C), IsBagOfPoints(D)
      PROVE  IsFiniteSet(DOMAIN C \cup DOMAIN D) /\ Size(C, D) \in Nat
  BY <1>1, FinitelyMany, FS_Union, FS_CardinalityType
<1> SUFFICES ASSUME Bad # {}  PROVE FALSE
  <2> HIDE DEF Size, Good
  <2> QED  BY <1>1 DEF Good
<1>2. PICK m \in Bad : \A k \in Bad : m <= k
  <2>1. Bad \in SUBSET Nat
    OBVIOUS
  <2> HIDE DEF Bad
  <2> QED  BY <2>1, SmallestElement
<1>3. PICK C, D : /\ IsBagOfPoints(C) /\ IsBagOfPoints(D) /\ m = Size(C, D) /\ ~Good(C, D)
  BY <1>2
<1>4. IsBagOfPoints(C (+) D)
  BY <1>3, UnionOfBags
<1>5. CASE DOMAIN C \cup DOMAIN D = {}
  <2>1. C = EmptyBag /\ D = EmptyBag
    BY <1>3, <1>5, CopiesAreNumbers, NothingIsEmpty
  <2>2. C (+) D = EmptyBag
    BY <2>1, SumWithNothing, EmptyBagOfPoints
  <2> QED  BY <1>3, <2>1, <2>2, SizeOfNothing
<1>6. CASE DOMAIN C \cup DOMAIN D # {}
  <2>1. PICK x : x \in DOMAIN C \cup DOMAIN D
    BY <1>6
  <2> DEFINE C1 == Less(C, x)
             D1 == Less(D, x)
  <2>2. /\ IsBagOfPoints(C1) /\ DOMAIN C1 = DOMAIN C \ {x}
        /\ \A y : CopiesOf(y, C1) = IF y = x THEN 0 ELSE CopiesOf(y, C)
        /\ BagCardinality(C) = CopiesOf(x, C) + BagCardinality(C1)
    BY <1>3, SizeWithout
  <2>3. /\ IsBagOfPoints(D1) /\ DOMAIN D1 = DOMAIN D \ {x}
        /\ \A y : CopiesOf(y, D1) = IF y = x THEN 0 ELSE CopiesOf(y, D)
        /\ BagCardinality(D) = CopiesOf(x, D) + BagCardinality(D1)
    BY <1>3, SizeWithout
  <2>4. /\ IsBagOfPoints(Less(C (+) D, x))
        /\ \A y : CopiesOf(y, Less(C (+) D, x)) = IF y = x THEN 0 ELSE CopiesOf(y, C (+) D)
        /\ BagCardinality(C (+) D) = CopiesOf(x, C (+) D) + BagCardinality(Less(C (+) D, x))
    BY <1>4, SizeWithout
  <2>5. \A y : CopiesOf(y, C (+) D) = CopiesOf(y, C) + CopiesOf(y, D)
    BY <1>3, CopiesInSum
  <2> HIDE DEF C1, D1
  <2>6. Less(C (+) D, x) = C1 (+) D1
    <3>1. IsBagOfPoints(C1 (+) D1) /\ \A y : CopiesOf(y, C1 (+) D1) = CopiesOf(y, C1) + CopiesOf(y, D1)
      BY <2>2, <2>3, UnionOfBags, CopiesInSum
    <3>2. \A y \in Points : CopiesOf(y, Less(C (+) D, x)) = CopiesOf(y, C1 (+) D1)
      BY <2>2, <2>3, <2>4, <2>5, <3>1
    <3> QED  BY <2>4, <3>1, <3>2, EqualBags
  <2>7. Good(C1, D1)
    <3>1. DOMAIN C1 \cup DOMAIN D1 = (DOMAIN C \cup DOMAIN D) \ {x}
      BY <2>2, <2>3
    <3>2. Size(C1, D1) = m - 1 /\ m \in Nat
      BY <1>1, <1>3, <2>1, <3>1, OneLess
    <3>3. Size(C1, D1) \in Nat
      BY <1>1, <2>2, <2>3
    <3>4. ~Good(C1, D1) => Size(C1, D1) \in Bad
      BY <2>2, <2>3, <3>3
    <3> HIDE DEF Bad, Good, Size
    <3> QED  BY <1>2, <3>2, <3>3, <3>4
  <2>8. /\ CopiesOf(x, C) \in Nat /\ CopiesOf(x, D) \in Nat
        /\ BagCardinality(C1) \in Nat /\ BagCardinality(D1) \in Nat
    BY <1>3, <2>2, <2>3, CopiesAreNumbers, SizeIsNumber
  <2> QED  BY <1>3, <2>2, <2>3, <2>4, <2>5, <2>6, <2>7, <2>8
<1> QED  BY <1>5, <1>6

\* A deletion adds no point.
LEMMA SizeOfDifference ==
  ASSUME NEW A, NEW B, IsBagOfPoints(A), IsBagOfPoints(B)
  PROVE  BagCardinality(A (-) B) <= BagCardinality(A)
<1> DEFINE D == A (-) B
           C == A (-) D
<1>1. IsBagOfPoints(D) /\ IsBagOfPoints(C)
  BY DifferenceOfBags
<1>2. D (+) C = A
  <2>1. \A x \in Points :
          /\ CopiesOf(x, A) \in Nat /\ CopiesOf(x, B) \in Nat
          /\ CopiesOf(x, D) = IF CopiesOf(x, A) > CopiesOf(x, B)
                              THEN CopiesOf(x, A) - CopiesOf(x, B) ELSE 0
          /\ CopiesOf(x, C) = IF CopiesOf(x, A) > CopiesOf(x, D)
                              THEN CopiesOf(x, A) - CopiesOf(x, D) ELSE 0
          /\ CopiesOf(x, D (+) C) = CopiesOf(x, D) + CopiesOf(x, C)
    BY <1>1, CopiesAreNumbers, CopiesInDifference, CopiesInSum
  <2> HIDE DEF C, D
  <2>2. \A x \in Points : CopiesOf(x, D (+) C) = CopiesOf(x, A)
    BY <2>1
  <2> QED  BY <1>1, <2>2, EqualBags, UnionOfBags
<1> HIDE DEF C
<1>3. BagCardinality(D) \in Nat /\ BagCardinality(C) \in Nat
  BY <1>1, SizeIsNumber
<1> QED  BY <1>1, <1>2, <1>3, SizeOfSum

-----------------------------------------------------------------------------
(* What lies below a node.                                                 *)

\* The heaps of MvqStore: sons exist and lie deeper.
SoundHeap(H) ==
  \A a \in DOMAIN H :
    /\ a # Null /\ Len(a.at) \in 0..Bits
    /\ H[a].leaf => IsBagOfPoints(H[a].records)
    /\ ~H[a].leaf => \A s \in {H[a].l_son, H[a].r_son} :
                       s = Null \/ (s \in DOMAIN H /\ Len(s.at) > Len(a.at))

ContentsIn(H, a) ==
  LET bag[x \in DOMAIN H \cup {Null}] ==
        IF x = Null THEN EmptyBag
        ELSE IF H[x].leaf THEN H[x].records
        ELSE bag[H[x].l_son] (+) bag[H[x].r_son]
  IN  bag[a]
BelowRule(H, X, f) == f = [x \in X \cup {Null} |->
                             IF x = Null THEN EmptyBag
                             ELSE IF H[x].leaf THEN H[x].records
                             ELSE f[H[x].l_son] (+) f[H[x].r_son]]
Rank(a) == Bits - Len(a.at)
Low(H, n) == {a \in DOMAIN H : Rank(a) < n}

\* Sons lie nearer to the finest grid, so every walk down a sound heap ends.
LEMMA RanksFall ==
  ASSUME NEW H, SoundHeap(H), NEW a \in DOMAIN H
  PROVE  /\ a # Null /\ Rank(a) \in Nat /\ Rank(a) < Bits + 1
         /\ ~H[a].leaf => \A s \in {H[a].l_son, H[a].r_son} :
                            s # Null => s \in DOMAIN H /\ Rank(s) \in Nat /\ Rank(s) < Rank(a)
BY BitsIsNatural DEF SoundHeap, Rank

\* What collect_records returns is defined for all nodes of a sound heap.
LEMMA BelowExists ==
  ASSUME NEW H, SoundHeap(H)
  PROVE  \E f : BelowRule(H, DOMAIN H, f)
<1> DEFINE Good == {n \in Nat : \E f : BelowRule(H, Low(H, n), f)}
<1>1. 0 \in Good
  <2> DEFINE f == [x \in {Null} |-> EmptyBag]
  <2>1. Low(H, 0) = {}
    BY RanksFall DEF Low
  <2>2. BelowRule(H, {}, f)
    BY DEF BelowRule
  <2> QED  BY <2>1, <2>2
<1>2. ASSUME NEW n \in Nat, n \in Good  PROVE n + 1 \in Good
  <2>1. PICK f : BelowRule(H, Low(H, n), f)
    BY <1>2
  <2> DEFINE g == [x \in Low(H, n + 1) \cup {Null} |->
                     IF x = Null THEN EmptyBag
                     ELSE IF H[x].leaf THEN H[x].records
                     ELSE f[H[x].l_son] (+) f[H[x].r_son]]
  <2>2. \A x \in Low(H, n) \cup {Null} : x \in Low(H, n + 1) \cup {Null} /\ g[x] = f[x]
    <3>1. \A x \in Low(H, n) : x \in Low(H, n + 1)
      BY RanksFall DEF Low
    <3>2. \A x \in Low(H, n) \cup {Null} :
            f[x] = IF x = Null THEN EmptyBag
                   ELSE IF H[x].leaf THEN H[x].records
                   ELSE f[H[x].l_son] (+) f[H[x].r_son]
      BY <2>1 DEF BelowRule
    <3> QED  BY <3>1, <3>2
  <2>3. ASSUME NEW x \in Low(H, n + 1), ~H[x].leaf
        PROVE  {H[x].l_son, H[x].r_son} \subseteq Low(H, n) \cup {Null}
    <3>1. x \in DOMAIN H /\ Rank(x) < n + 1
      BY DEF Low
    <3> QED  BY <2>3, <3>1, RanksFall DEF Low
  <2>4. BelowRule(H, Low(H, n + 1), g)
    <3>1. \A x \in Low(H, n + 1) :
            ~H[x].leaf => g[H[x].l_son] = f[H[x].l_son] /\ g[H[x].r_son] = f[H[x].r_son]
      BY <2>2, <2>3
    <3>2. g = [x \in Low(H, n + 1) \cup {Null} |->
                 IF x = Null THEN EmptyBag
                 ELSE IF H[x].leaf THEN H[x].records
                 ELSE g[H[x].l_son] (+) g[H[x].r_son]]
      BY <3>1
    <3> HIDE DEF g
    <3> QED  BY <3>2 DEF BelowRule
  <2> HIDE DEF g
  <2> QED  BY <2>4
<1>3. Bits + 1 \in Good
  <2>1. Nat \subseteq Good
    <3> HIDE DEF Good
    <3> QED  BY <1>1, <1>2, SetInduction
  <2> QED  BY <2>1, BitsIsNatural
<1>4. Low(H, Bits + 1) = DOMAIN H
  BY RanksFall DEF Low
<1> QED  BY <1>3, <1>4

\* The recursion of Contents, one level of it.
LEMMA ContentsBelow ==
  ASSUME NEW H, SoundHeap(H)
  PROVE  /\ ContentsIn(H, Null) = EmptyBag
         /\ \A a \in DOMAIN H :
              /\ H[a].leaf => ContentsIn(H, a) = H[a].records
              /\ ~H[a].leaf => ContentsIn(H, a) = ContentsIn(H, H[a].l_son) (+) ContentsIn(H, H[a].r_son)
<1> DEFINE f == CHOOSE f : BelowRule(H, DOMAIN H, f)
<1>1. BelowRule(H, DOMAIN H, f)
  BY BelowExists
<1>2. \A a : ContentsIn(H, a) = f[a]
  BY DEF ContentsIn, BelowRule
<1> HIDE DEF f
<1>3. \A a \in DOMAIN H \cup {Null} :
        f[a] = IF a = Null THEN EmptyBag
               ELSE IF H[a].leaf THEN H[a].records
               ELSE f[H[a].l_son] (+) f[H[a].r_son]
  BY <1>1 DEF BelowRule
<1> QED  BY <1>2, <1>3, RanksFall

\* What lies below a node is a bag of points.
LEMMA ContentsAreBags ==
  ASSUME NEW H, SoundHeap(H)
  PROVE  \A a \in DOMAIN H \cup {Null} : IsBagOfPoints(ContentsIn(H, a))
<1> DEFINE Bad == {Rank(a) : a \in {x \in DOMAIN H : ~IsBagOfPoints(ContentsIn(H, x))}}
<1>1. IsBagOfPoints(ContentsIn(H, Null))
  BY ContentsBelow, EmptyBagOfPoints
<1> SUFFICES ASSUME Bad # {}  PROVE FALSE
  BY <1>1
<1>2. PICK m \in Bad : \A k \in Bad : m <= k
  <2>1. Bad \in SUBSET Nat
    BY RanksFall
  <2> HIDE DEF Bad
  <2> QED  BY <2>1, SmallestElement
<1>3. PICK a \in DOMAIN H : m = Rank(a) /\ ~IsBagOfPoints(ContentsIn(H, a))
  BY <1>2
<1>4. ~H[a].leaf /\ ContentsIn(H, a) = ContentsIn(H, H[a].l_son) (+) ContentsIn(H, H[a].r_son)
  BY <1>3, ContentsBelow DEF SoundHeap
<1>5. ASSUME NEW s \in {H[a].l_son, H[a].r_son}  PROVE IsBagOfPoints(ContentsIn(H, s))
  <2>1. CASE s = Null
    BY <1>1, <2>1
  <2>2. CASE s # Null
    <3>1. s \in DOMAIN H /\ Rank(s) \in Nat /\ Rank(a) \in Nat /\ Rank(s) < Rank(a)
      BY <1>4, <2>2, RanksFall
    <3>2. ~IsBagOfPoints(ContentsIn(H, s)) => Rank(s) \in Bad
      BY <3>1
    <3> HIDE DEF Bad
    <3> QED  BY <1>2, <1>3, <3>1, <3>2
  <2> QED  BY <2>1, <2>2
<1> QED  BY <1>3, <1>4, <1>5, UnionOfBags

\* A part of a heap that is closed under sons, and is in another heap too, holds the same.
SharedPart(H, G, K) ==
  /\ K \subseteq DOMAIN H /\ K \subseteq DOMAIN G
  /\ \A a \in K : /\ G[a] = H[a]
                  /\ ~H[a].leaf => {H[a].l_son, H[a].r_son} \subseteq K \cup {Null}

\* Two heaps that share a part, with all that it leads to, agree on what lies below it.
LEMMA ContentsAgree ==
  ASSUME NEW H, SoundHeap(H), NEW G, SoundHeap(G), NEW K, SharedPart(H, G, K)
  PROVE  \A a \in K \cup {Null} : ContentsIn(G, a) = ContentsIn(H, a)
<1> DEFINE Bad == {Rank(a) : a \in {x \in K : ContentsIn(G, x) # ContentsIn(H, x)}}
<1>1. ContentsIn(G, Null) = ContentsIn(H, Null)
  BY ContentsBelow
<1> SUFFICES ASSUME Bad # {}  PROVE FALSE
  BY <1>1
<1>2. PICK m \in Bad : \A k \in Bad : m <= k
  <2>1. Bad \in SUBSET Nat
    BY RanksFall DEF SharedPart
  <2> HIDE DEF Bad
  <2> QED  BY <2>1, SmallestElement
<1>3. PICK a \in K : m = Rank(a) /\ ContentsIn(G, a) # ContentsIn(H, a)
  BY <1>2
<1>4. a \in DOMAIN H /\ a \in DOMAIN G /\ G[a] = H[a]
  BY DEF SharedPart
<1>5. /\ ~H[a].leaf
      /\ ContentsIn(H, a) = ContentsIn(H, H[a].l_son) (+) ContentsIn(H, H[a].r_son)
      /\ ContentsIn(G, a) = ContentsIn(G, H[a].l_son) (+) ContentsIn(G, H[a].r_son)
  BY <1>3, <1>4, ContentsBelow
<1>6. ASSUME NEW s \in {H[a].l_son, H[a].r_son}  PROVE ContentsIn(G, s) = ContentsIn(H, s)
  <2>1. CASE s = Null
    BY <1>1, <2>1
  <2>2. CASE s # Null
    <3>1. s \in K /\ Rank(s) \in Nat /\ Rank(a) \in Nat /\ Rank(s) < Rank(a)
      BY <1>4, <1>5, <2>2, RanksFall DEF SharedPart
    <3>2. ContentsIn(G, s) # ContentsIn(H, s) => Rank(s) \in Bad
      BY <3>1
    <3> HIDE DEF Bad
    <3> QED  BY <1>2, <1>3, <3>1, <3>2
  <2> QED  BY <2>1, <2>2
<1> QED  BY <1>3, <1>5, <1>6

-----------------------------------------------------------------------------
(* Below a node that fits.                                                 *)

\* The heap of MvqStore is one in which every walk down ends ...
LEMMA HeapIsSound ==
  ASSUME IInv
  PROVE  SoundHeap(heap)
<1> SUFFICES ASSUME NEW a \in DOMAIN heap
             PROVE  /\ a # Null /\ Len(a.at) \in 0..Bits
                    /\ heap[a].leaf => IsBagOfPoints(heap[a].records)
                    /\ ~heap[a].leaf => \A s \in {heap[a].l_son, heap[a].r_son} :
                                          s = Null \/ (s \in DOMAIN heap /\ Len(s.at) > Len(a.at))
  BY DEF SoundHeap
<1>1. a \in Address /\ a # Null /\ a.at \in Paths
  BY ConstantsAssumption DEF IInv, TypeOK, Address
<1>2. heap[a].leaf => IsBagOfPoints(heap[a].records)
  BY LeafRecordsAreBags
<1>3. ASSUME ~heap[a].leaf, NEW s \in {heap[a].l_son, heap[a].r_son}
      PROVE  s = Null \/ (s \in DOMAIN heap /\ Len(s.at) > Len(a.at))
  <2>1. a \in Inner /\ \E d \in {0, 1} : s = Son(a, d)
    BY <1>3 DEF Inner, Son
  <2> QED  BY <2>1 DEF IInv, NoDanglingReference, Referenced, Depths
<1> QED  BY <1>1, <1>2, <1>3, PathsAreSequences

\* ... and is so after a step.
LEMMA HeapStaysSound ==
  ASSUME IInv'
  PROVE  SoundHeap(heap')
<1> SUFFICES ASSUME NEW a \in DOMAIN heap'
             PROVE  /\ a # Null /\ Len(a.at) \in 0..Bits
                    /\ heap'[a].leaf => IsBagOfPoints(heap'[a].records)
                    /\ ~heap'[a].leaf => \A s \in {heap'[a].l_son, heap'[a].r_son} :
                                           s = Null \/ (s \in DOMAIN heap' /\ Len(s.at) > Len(a.at))
  BY DEF SoundHeap
<1>1. a \in Address /\ a # Null /\ a.at \in Paths
  BY ConstantsAssumption DEF IInv, TypeOK, Address
<1>2. heap'[a].leaf => IsBagOfPoints(heap'[a].records)
  BY DEF IInv, TypeOK, IsNode
<1>3. ASSUME ~heap'[a].leaf, NEW s \in {heap'[a].l_son, heap'[a].r_son}
      PROVE  s = Null \/ (s \in DOMAIN heap' /\ Len(s.at) > Len(a.at))
  <2>1. a \in Inner' /\ \E d \in {0, 1} : s = Son(a, d)'
    BY <1>3 DEF Inner, Son
  <2> QED  BY <2>1 DEF IInv, NoDanglingReference, Referenced, Depths
<1> QED  BY <1>1, <1>2, <1>3, PathsAreSequences

\* Contents, now and after a step, in terms of a heap that is a parameter.
LEMMA ContentsNow ==
  /\ \A a : Contents(a) = ContentsIn(heap, a)
  /\ \A a : Contents(a)' = ContentsIn(heap', a)
BY DEF Contents, ContentsIn

\* Contents on the heap, one level of it.
LEMMA ContentsHere ==
  ASSUME IInv
  PROVE  /\ Contents(Null) = EmptyBag
         /\ \A a \in DOMAIN heap :
              /\ heap[a].leaf => Contents(a) = heap[a].records
              /\ ~heap[a].leaf => Contents(a) = Contents(Son(a, 0)) (+) Contents(Son(a, 1))
         /\ \A a \in DOMAIN heap \cup {Null} : IsBagOfPoints(Contents(a))
<1>1. SoundHeap(heap)
  BY HeapIsSound
<1>2. \A a : Son(a, 0) = heap[a].l_son /\ Son(a, 1) = heap[a].r_son
  BY DEF Son
<1> QED  BY <1>1, <1>2, ContentsNow, ContentsBelow, ContentsAreBags

\* Inner nodes are above the finest grid.
LEMMA InnerIsHigh ==
  ASSUME IInv, NEW a \in DOMAIN heap, ~heap[a].leaf
  PROVE  Len(a.at) < Bits /\ a \in Inner /\ a.at \in Paths
BY DEF IInv, Depths, Inner, TypeOK, Address

\* What lies below a node that fits at p belongs to region p, and is as much as the node says.
LEMMA BelowFits ==
  ASSUME IInv, NodesFit, NEW p \in Paths, NEW a, Fits(a, p)
  PROVE  /\ a \in DOMAIN heap \cup {Null} /\ IsBagOfPoints(Contents(a))
         /\ \A x \in DOMAIN Contents(a) : Under(x, p)
         /\ NumPoints(a) = BagCardinality(Contents(a)) /\ NumPoints(a) \in Nat
<1> DEFINE Below(b, q) == \A x \in DOMAIN Contents(b) : Under(x, q)
           Bad == {Bits - Len(q) : q \in {r \in Paths : \E b : Fits(b, r) /\ ~Below(b, r)}}
<1>1. ASSUME NEW q \in Paths, NEW b, Fits(b, q)
      PROVE  /\ b \in DOMAIN heap \cup {Null} /\ IsBagOfPoints(Contents(b))
             /\ b # Null => b \in Settled
  BY <1>1, ContentsHere DEF Fits, Settled
<1>2. Bad = {}
  <2> SUFFICES ASSUME Bad # {}  PROVE FALSE
    OBVIOUS
  <2>1. PICK m \in Bad : \A k \in Bad : m <= k
    <3>1. Bad \in SUBSET Nat
      BY PathsAreSequences, BitsIsNatural
    <3> HIDE DEF Bad
    <3> QED  BY <3>1, SmallestElement
  <2>2. PICK q \in Paths : m = Bits - Len(q) /\ \E b : Fits(b, q) /\ ~Below(b, q)
    BY <2>1
  <2>3. PICK b : Fits(b, q) /\ ~Below(b, q)
    BY <2>2
  <2>4. PICK x \in DOMAIN Contents(b) : ~Under(x, q)
    BY <2>3
  <2>5. b # Null
    BY <2>4, ContentsHere DEF EmptyBag, SetToBag
  <2>6. b \in DOMAIN heap /\ b \in Settled
    BY <1>1, <2>3, <2>5
  <2>7. ~heap[b].leaf
    BY <2>3, <2>4, <2>5, <2>6, ContentsHere DEF Fits, LeafFits
  <2>8. b.at = q /\ Len(q) < Bits /\ \A d \in {0, 1} : Fits(Son(b, d), Child(q, d))
    BY <2>3, <2>5, <2>6, <2>7, InnerIsHigh DEF Fits, NodesFit, NodeFits
  <2>9. PICK d \in {0, 1} : x \in DOMAIN Contents(Son(b, d))
    <3>1. Contents(b) = Contents(Son(b, 0)) (+) Contents(Son(b, 1))
      BY <2>6, <2>7, ContentsHere
    <3> QED  BY <2>4, <3>1 DEF (+)
  <2>10. Child(q, d) \in Paths /\ Len(Child(q, d)) = Len(q) + 1
    BY <2>8, ChildrenOfPath
  <2>11. Below(Son(b, d), Child(q, d))
    <3>1. Len(q) \in Nat /\ Bits \in Nat
      BY PathsAreSequences, BitsIsNatural
    <3>2. ~Below(Son(b, d), Child(q, d)) => Bits - Len(Child(q, d)) \in Bad
      BY <2>8, <2>10
    <3> HIDE DEF Bad, Below
    <3> QED  BY <2>1, <2>2, <2>10, <3>1, <3>2
  <2>12. x \in Points
    BY <1>1, <2>3, <2>4 DEF IsBagOfPoints
  <2> QED  BY <2>4, <2>8, <2>9, <2>11, <2>12, UnderChildren
<1>3. \A x \in DOMAIN Contents(a) : Under(x, p)
  <2> SUFFICES ASSUME ~Below(a, p)  PROVE FALSE
    OBVIOUS
  <2>1. Bits - Len(p) \in Bad
    OBVIOUS
  <2> QED  BY <1>2, <2>1
<1>4. NumPoints(a) = BagCardinality(Contents(a))
  <2>1. CASE a = Null
    BY <2>1, ContentsHere, SizeOfNothing DEF NumPoints
  <2>2. CASE a # Null
    BY <1>1, <2>2, ContentsHere DEF NumPoints, NodesFit, NodeFits
  <2> QED  BY <2>1, <2>2
<1> QED  BY <1>1, <1>3, <1>4, SizeIsNumber

\* An inner node at its place, and its sons.
LEMMA SonsFit ==
  ASSUME IInv, NodesFit, NEW p \in Paths, NEW x \in DOMAIN heap, ~heap[x].leaf, Fits(x, p),
         NEW B, IsBagOfPoints(B), Contents(x) = Part(B, p)
  PROVE  /\ Len(p) < Bits /\ x.at = p /\ x \in Inner /\ x \in Settled
         /\ \A d \in {0, 1} : /\ Fits(Son(x, d), Child(p, d))
                              /\ Contents(Son(x, d)) = Part(B, Child(p, d))
         /\ heap[x].num_pts = BagCardinality(Part(B, p)) /\ heap[x].num_pts > LeafSize
<1>1. x # Null
  BY HeapIsSound DEF SoundHeap
<1>2. x \in Settled /\ x.at = p /\ Len(p) < Bits /\ x \in Inner
  BY <1>1, InnerIsHigh DEF Fits
<1>3. /\ \A d \in {0, 1} : Fits(Son(x, d), Child(p, d)) /\ Child(p, d) \in Paths
      /\ heap[x].num_pts = BagCardinality(Contents(x)) /\ heap[x].num_pts > LeafSize
  BY <1>2, ChildrenOfPath DEF NodesFit, NodeFits
<1>4. \A d \in {0, 1} : /\ IsBagOfPoints(Contents(Son(x, d)))
                        /\ \A y \in DOMAIN Contents(Son(x, d)) : Under(y, Child(p, d))
  BY <1>3, BelowFits
<1>5. Contents(x) = Contents(Son(x, 0)) (+) Contents(Son(x, 1))
  BY ContentsHere
<1>6. /\ Part(Contents(x), Child(p, 0)) = Contents(Son(x, 0))
      /\ Part(Contents(x), Child(p, 1)) = Contents(Son(x, 1))
  BY <1>2, <1>4, <1>5, PartsOfSons
<1>7. \A d \in {0, 1} : Part(Contents(x), Child(p, d)) = Part(B, Child(p, d))
  BY <1>2, PartsOfPart
<1> QED  BY <1>2, <1>3, <1>6, <1>7

\* Two halves that fit.
LEMMA HalvesFit ==
  ASSUME IInv, NodesFit, NEW p \in Paths, Len(p) < Bits, NEW L, NEW R,
         Fits(L, Child(p, 0)), Fits(R, Child(p, 1)), NEW B, IsBagOfPoints(B),
         Contents(L) = Part(B, Child(p, 0)), Contents(R) = Part(B, Child(p, 1))
  PROVE  /\ Contents(L) (+) Contents(R) = Part(B, p)
         /\ NumPoints(L) + NumPoints(R) = BagCardinality(Part(B, p))
         /\ NumPoints(L) \in Nat /\ NumPoints(R) \in Nat
<1>1. Child(p, 0) \in Paths /\ Child(p, 1) \in Paths
  BY ChildrenOfPath
<1>2. /\ IsBagOfPoints(Contents(L)) /\ NumPoints(L) = BagCardinality(Contents(L)) /\ NumPoints(L) \in Nat
      /\ IsBagOfPoints(Contents(R)) /\ NumPoints(R) = BagCardinality(Contents(R)) /\ NumPoints(R) \in Nat
  BY <1>1, BelowFits
<1>3. Contents(L) (+) Contents(R) = Part(B, p)
  BY PartsOfPart
<1> QED  BY <1>2, <1>3, SizeOfSum

-----------------------------------------------------------------------------
(* Paths that lead to paths.                                               *)

\* Paths are short sequences of sides.
LEMMA PathTypes ==
  ASSUME NEW p \in Paths
  PROVE  /\ p \in Seq({0, 1}) /\ Len(p) \in Nat /\ Len(p) <= Bits /\ Bits \in Nat
         /\ \A i \in 1..Len(p) : p[i] \in {0, 1}
BY PathsAreSequences, BitsIsNatural

\* Paths are equal when their steps are.
LEMMA EqualPaths ==
  ASSUME NEW p \in Paths, NEW q \in Paths, Len(p) = Len(q), \A i \in 1..Len(p) : p[i] = q[i]
  PROVE  p = q
BY PathTypes

\* A path leads to itself, the root to every path.
LEMMA LeadsTrivially ==
  ASSUME NEW p \in Paths
  PROVE  Leads(p, p) /\ Leads(<< >>, p)
BY PathTypes, RootIsPath DEF Leads

\* Leading is transitive ...
LEMMA LeadsAlong ==
  ASSUME NEW r \in Paths, NEW q \in Paths, NEW p \in Paths, Leads(r, q), Leads(q, p)
  PROVE  Leads(r, p)
<1>1. Len(r) \in Nat /\ Len(q) \in Nat /\ Len(p) \in Nat
  BY PathTypes
<1> QED  BY <1>1 DEF Leads

\* ... and antisymmetric.
LEMMA LeadsBothWays ==
  ASSUME NEW q \in Paths, NEW p \in Paths, Leads(q, p), Len(p) <= Len(q)
  PROVE  q = p
<1>1. Len(q) \in Nat /\ Len(p) \in Nat
  BY PathTypes
<1> QED  BY <1>1, EqualPaths DEF Leads

\* Two paths that lead to the same one lead one to the other.
LEMMA LeadsTogether ==
  ASSUME NEW r \in Paths, NEW q \in Paths, NEW p \in Paths, Leads(r, p), Leads(q, p)
  PROVE  Leads(r, q) \/ Leads(q, r)
<1>1. Len(r) \in Nat /\ Len(q) \in Nat /\ Len(p) \in Nat
  BY PathTypes
<1> QED  BY <1>1 DEF Leads

\* To a child lead the child itself and what leads to its parent.
LEMMA LeadsToChild ==
  ASSUME NEW p \in Paths, NEW c \in Children(p), NEW q \in Paths
  PROVE  Leads(q, c) <=> q = c \/ Leads(q, p)
<1>1. /\ Len(p) < Bits /\ c \in Paths /\ Len(c) = Len(p) + 1 /\ Len(p) \in Nat /\ Len(q) \in Nat
      /\ c = Child(p, c[Len(c)]) /\ p \in Seq({0, 1})
  BY ChildrenArePaths, PathTypes
<1>2. \A i \in 1..Len(p) : c[i] = p[i]
  <2>1. PICK d : c = Append(p, d)
    BY <1>1 DEF Child
  <2> QED  BY <1>1, <2>1
<1>3. Leads(p, c)
  BY <1>1, <1>2 DEF Leads
<1>4. ASSUME Leads(q, c), q # c  PROVE Leads(q, p)
  <2>1. Len(q) < Len(c)
    BY <1>1, <1>4, LeadsBothWays DEF Leads
  <2> QED  BY <1>1, <1>2, <1>4, <2>1 DEF Leads
<1> QED  BY <1>1, <1>3, <1>4, LeadsAlong, LeadsTrivially

\* A path that leads further leads through a child.
LEMMA LeadsThrough ==
  ASSUME NEW q \in Paths, NEW p \in Paths, Leads(q, p), q # p
  PROVE  \E c \in Children(q) : Leads(c, p)
<1>1. Len(q) \in Nat /\ Len(p) \in Nat /\ Len(q) <= Len(p) /\ Len(p) <= Bits /\ Bits \in Nat
  BY PathTypes DEF Leads
<1>2. Len(q) < Len(p)
  BY <1>1, LeadsBothWays
<1> DEFINE d == p[Len(q) + 1]
           c == Child(q, d)
<1>3. d \in {0, 1} /\ Len(q) < Bits
  BY <1>1, <1>2, PathTypes
<1>4. c \in Children(q) /\ Len(c) = Len(q) + 1 /\ c[Len(c)] = d
  BY <1>3, ChildrenOfPath
<1>5. \A i \in 1..Len(q) : c[i] = q[i]
  BY PathTypes DEF Child
<1>6. \A i \in 1..Len(q) + 1 : c[i] = p[i]
  <2>1. \A i \in 1..Len(q) : c[i] = p[i]
    BY <1>5 DEF Leads
  <2> HIDE DEF c
  <2> QED  BY <1>1, <1>4, <2>1
<1> HIDE DEF c, d
<1>7. Leads(c, p)
  BY <1>1, <1>2, <1>4, <1>6 DEF Leads
<1> QED  BY <1>4, <1>7

-----------------------------------------------------------------------------
(* What every step leaves alone.                                           *)

\* Held references go to settled nodes or to copies, never to nodes that are being taken
\* apart.
LEMMA WhatIsHeld ==
  ASSUME IInv, \A w \in Writers : CopiesAlone(w) /\ DyingAlone(w)
  PROVE  /\ Held \subseteq DOMAIN heap \cup {Null} /\ Roots \subseteq Settled \cup {Null}
         /\ Held \subseteq Settled \cup Copies \cup {Null} /\ Settled \subseteq Held
         /\ \A a \in Dying : a \notin Held
         /\ Copies \subseteq Inner /\ Dying \subseteq Inner
         /\ Null \notin DOMAIN heap /\ Settled \subseteq DOMAIN heap
<1>1. Held \subseteq DOMAIN heap \cup {Null} /\ Roots \subseteq Held
  BY DEF IInv, NoDanglingReference, Referenced, Held, Roots
<1>2. \A a \in Dying : a \notin Held
  BY DEF Dying, DyingAlone
<1>3. Copies \subseteq Inner /\ Dying \subseteq Inner
  BY DEF IInv, FramesWork, Copies, Dying, Forked, Opened
<1>4. \A a \in Copies : a \notin Roots
  BY DEF Copies, CopiesAlone, HeldAlone
<1>5. Null \notin DOMAIN heap
  BY HeapIsSound DEF SoundHeap
<1> QED  BY <1>1, <1>2, <1>3, <1>4, <1>5 DEF Settled

\* The slot of a waiting frame is a copy or a dying node ...
LEMMA SlotsOfFrames ==
  ASSUME NEW u \in Writers, NEW p \in Paths
  PROVE  /\ Forked(u, p) => slot[u][p] \in Copies
         /\ Opened(u, p) => slot[u][p] \in Dying
<1>1. <<u, p>> \in Writers \X Paths /\ <<u, p>>[1] = u /\ <<u, p>>[2] = p
  OBVIOUS
<1>2. Forked(u, p) => slot[u][p] \in Copies
  BY <1>1 DEF Copies
<1>3. Opened(u, p) => slot[u][p] \in Dying
  BY <1>1 DEF Dying
<1> QED  BY <1>2, <1>3

\* ... also after a step.
LEMMA SlotsOfFramesThen ==
  ASSUME NEW u \in Writers, NEW p \in Paths
  PROVE  /\ Forked(u, p)' => slot'[u][p] \in Copies'
         /\ Opened(u, p)' => slot'[u][p] \in Dying'
<1>1. <<u, p>> \in Writers \X Paths /\ <<u, p>>[1] = u /\ <<u, p>>[2] = p
  OBVIOUS
<1>2. Forked(u, p)' => slot'[u][p] \in Copies'
  BY <1>1 DEF Copies
<1>3. Opened(u, p)' => slot'[u][p] \in Dying'
  BY <1>1 DEF Dying
<1> QED  BY <1>2, <1>3

\* A step that allocates the nodes of N, changes only copies and nodes that are being
\* taken apart, and leads references to settled or new nodes only.
Moves(N) ==
  /\ N \cap DOMAIN heap = {}
  /\ \A a \in DOMAIN heap' :
       a \in N \/ (a \in DOMAIN heap /\ (heap'[a] = heap[a] \/ a \in Copies \cup Dying))
  /\ Copies' \subseteq Copies \cup N /\ Dying' \subseteq Dying \cup (Inner \ Held)
  /\ Roots' \subseteq Settled \cup N \cup {Null}
  /\ \A u \in Owners', q \in Paths :
       \/ slot'[u][q] \in Settled \cup N \cup {Null}
       \/ u \in Owners /\ slot'[u][q] = slot[u][q]

\* After a move the held nodes are those held before and the ones that it made, and the
\* settled ones are as they were.
LEMMA HeldThen ==
  ASSUME IInv, IInv', CInv, NEW N, Moves(N)
  PROVE  /\ Held' \subseteq DOMAIN heap' \cup {Null} /\ Null \notin DOMAIN heap'
         /\ Held' \subseteq Held \cup N \cup {Null}
         /\ \A a \in Held' : a \in Settled \cup N \cup Copies \cup {Null}
         /\ Settled' \subseteq Settled \cup N \cup (Copies \ Copies')
         /\ \A a \in Dying' : a \notin Held'
         /\ \A a \in Settled : a \in Held' => a \in Settled' /\ heap'[a] = heap[a]
<1>1. /\ Held \subseteq DOMAIN heap \cup {Null} /\ Roots \subseteq Settled \cup {Null}
      /\ Held \subseteq Settled \cup Copies \cup {Null} /\ Settled \subseteq Held
      /\ \A a \in Dying : a \notin Held
      /\ Null \notin DOMAIN heap /\ Settled \subseteq DOMAIN heap
  BY WhatIsHeld DEF CInv, WriterFits
<1>2. Held' \subseteq DOMAIN heap' \cup {Null}
  BY DEF IInv, NoDanglingReference, Referenced, Held, Roots
<1>3. Null \notin DOMAIN heap'
  BY HeapStaysSound DEF SoundHeap
<1>4. ASSUME NEW a \in Held'  PROVE a \in Settled \cup N \cup {Null} \/ a \in Held
  <2>1. a \in Roots' \/ \E u \in Owners', q \in Paths : a = slot'[u][q]
    BY DEF Held
  <2> QED  BY <2>1 DEF Moves, Held
<1>5. ASSUME NEW a \in Settled'  PROVE a \in Settled \cup N \cup (Copies \ Copies')
  <2>1. a \in Held' /\ a \in DOMAIN heap' /\ a \notin Copies'
    BY DEF Settled
  <2> QED  BY <1>1, <1>3, <1>4, <2>1
<1>6. ASSUME NEW a \in Settled, a \in Held'  PROVE a \in Settled' /\ heap'[a] = heap[a]
  <2>1. a \in DOMAIN heap /\ a \notin Copies /\ a \notin Dying /\ a # Null /\ a \notin N
    BY <1>1 DEF Settled, Moves
  <2>2. a \in DOMAIN heap'
    BY <1>2, <1>6, <2>1
  <2>3. heap'[a] = heap[a] /\ a \notin Copies'
    BY <2>1, <2>2 DEF Moves
  <2> QED  BY <1>6, <2>2, <2>3 DEF Settled
<1>7. ASSUME NEW a \in Dying'  PROVE a \notin Held'
  <2>1. a \in DOMAIN heap /\ a \notin Held
    BY <1>1, WhatIsHeld DEF Moves, Inner, CInv, WriterFits
  <2> QED  BY <1>1, <1>4, <2>1 DEF Moves
<1> QED  BY <1>1, <1>2, <1>3, <1>4, <1>5, <1>6, <1>7

\* A settled inner node and its sons after the step.
LEMMA SonsThen ==
  ASSUME IInv, IInv', CInv, NEW N, Moves(N), NEW a \in Settled, a \in Settled', ~heap[a].leaf,
         NEW d \in {0, 1}
  PROVE  /\ Son(a, d)' = Son(a, d) /\ a \in Inner' \ Dying'
         /\ Son(a, d) \in Settled \cup {Null} /\ Son(a, d) \in Held'
         /\ Fits(Son(a, d), Child(a.at, d))
<1>1. a \in DOMAIN heap' /\ heap'[a] = heap[a] /\ a \in Held'
  BY HeldThen DEF Settled
<1>2. Fits(Son(a, d), Child(a.at, d))
  BY DEF CInv, NodesFit, NodeFits
<1>3. a \in Inner'
  BY <1>1 DEF Inner
<1>4. a \notin Dying'
  BY <1>1, HeldThen
<1>5. Son(a, d)' = Son(a, d)
  BY <1>1 DEF Son
<1>6. Son(a, d)' \in Held'
  BY <1>3, <1>4 DEF Held, Roots
<1> QED  BY <1>2, <1>3, <1>4, <1>5, <1>6 DEF Fits

\* What is settled, before and after, holds what it held.
LEMMA ContentsThen ==
  ASSUME IInv, IInv', CInv, NEW N, Moves(N)
  PROVE  \A a \in (Settled \cap Settled') \cup {Null} : Contents(a)' = Contents(a)
<1> DEFINE K == Settled \cap Settled'
<1>1. SoundHeap(heap) /\ SoundHeap(heap')
  BY HeapIsSound, HeapStaysSound
<1>2. ASSUME NEW a \in K
      PROVE  /\ a \in DOMAIN heap /\ a \in DOMAIN heap' /\ heap'[a] = heap[a]
             /\ ~heap[a].leaf => {heap[a].l_son, heap[a].r_son} \subseteq K \cup {Null}
  <2>1. a \in DOMAIN heap /\ a \in DOMAIN heap' /\ heap'[a] = heap[a]
    BY HeldThen DEF Settled
  <2>2. ASSUME ~heap[a].leaf, NEW d \in {0, 1}  PROVE Son(a, d) \in K \cup {Null}
    BY <2>2, SonsThen, HeldThen
  <2> QED  BY <2>1, <2>2 DEF Son
<1>3. SharedPart(heap, heap', K)
  BY <1>2 DEF SharedPart
<1> HIDE DEF K
<1>4. \A a \in K \cup {Null} : ContentsIn(heap', a) = ContentsIn(heap, a)
  BY <1>1, <1>3, ContentsAgree
<1> QED  BY <1>4, ContentsNow DEF K

\* A node in order that is still held is in order after a move, with the same points below
\* it.
LEMMA FitsThen ==
  ASSUME IInv, IInv', CInv, NEW N, Moves(N), NEW a, NEW p, Fits(a, p), a \in Held' \cup {Null}
  PROVE  Fits(a, p)' /\ Contents(a)' = Contents(a)
<1>1. CASE a = Null
  BY <1>1, ContentsThen DEF Fits
<1>2. CASE a # Null
  <2>1. a \in Settled /\ a \in Settled' /\ heap'[a] = heap[a]
    BY <1>2, HeldThen DEF Fits
  <2> QED  BY <2>1, ContentsThen DEF Fits
<1> QED  BY <1>1, <1>2

\* A node that stays settled stays in order.
LEMMA NodesThen ==
  ASSUME IInv, IInv', CInv, NEW N, Moves(N), NEW a \in Settled, a \in Settled'
  PROVE  NodeFits(a)'
<1>1. heap'[a] = heap[a] /\ Contents(a)' = Contents(a) /\ NodeFits(a)
  BY HeldThen, ContentsThen DEF CInv, NodesFit, Settled
<1>2. ASSUME ~heap[a].leaf, NEW d \in {0, 1}  PROVE Fits(Son(a, d), Child(a.at, d))'
  <2>1. /\ Fits(Son(a, d), Child(a.at, d)) /\ Son(a, d) \in Held' \cup {Null}
        /\ Son(a, d)' = Son(a, d)
    BY <1>2, SonsThen
  <2>2. ASSUME NEW s, NEW q, Fits(s, q), s \in Held' \cup {Null}, s = Son(a, d)'
        PROVE  Fits(Son(a, d), q)'
    BY <2>2, FitsThen DEF Fits
  <2> QED  BY <2>1, <2>2
<1> QED  BY <1>1, <1>2 DEF NodeFits

\* Versions that stay are still in order.
LEMMA VersionsThen ==
  ASSUME IInv, IInv', CInv, NEW N, Moves(N),
         \A v \in DOMAIN versions' : v \in DOMAIN versions /\ versions'[v] = versions[v]
  PROVE  VersionsFit'
<1> SUFFICES ASSUME NEW v \in DOMAIN versions'  PROVE Fits(versions[v], << >>)'
  BY DEF VersionsFit
<1>1. Fits(versions[v], << >>) /\ versions[v] \in Held'
  BY DEF CInv, VersionsFit, Held, Roots
<1>2. ASSUME NEW s, Fits(s, << >>), s \in Held', s = versions'[v]  PROVE Fits(versions[v], << >>)'
  BY <1>2, FitsThen DEF Fits
<1> QED  BY <1>1, <1>2

\* The commit of u is the same, and its base is still held.
SameCommit(u) ==
  /\ job[u].base \in DOMAIN versions /\ job[u].base \in DOMAIN versions'
  /\ versions'[job[u].base] = versions[job[u].base]
  /\ job'[u].base = job[u].base /\ job'[u].ins = job[u].ins /\ job'[u].del = job[u].del

\* A move does not change what the commits of others are on the way to.
LEMMA GoalsThen ==
  ASSUME IInv, IInv', CInv, NEW N, Moves(N), NEW u \in Writers, SameCommit(u)
  PROVE  Base(u)' = Base(u) /\ Kept(u)' = Kept(u) /\ Result(u)' = Result(u)
<1> DEFINE a == versions[job[u].base]
<1>1. Fits(a, << >>) /\ a \in Held'
  BY DEF CInv, VersionsFit, SameCommit, Held, Roots
<1>2. Contents(a)' = Contents(a)
  <2>1. a' = a
    BY DEF SameCommit
  <2>2. ASSUME NEW s, Fits(s, << >>), s \in Held'  PROVE Contents(s)' = Contents(s)
    BY <2>2, FitsThen
  <2>3. ASSUME NEW s, s = a  PROVE Contents(a)' = Contents(s)'
    BY <2>1, <2>3 DEF Contents
  <2> QED  BY <1>1, <2>2, <2>3
<1>3. Base(u)' = Base(u)
  BY <1>2 DEF Base
<1>4. Kept(u)' = Kept(u)
  BY <1>3 DEF Kept, SameCommit
<1> QED  BY <1>3, <1>4 DEF Result, SameCommit

\* A frame that is where it was, with what it had.
LEMMA FrameThen ==
  ASSUME IInv, IInv', CInv, NEW N, Moves(N), NEW u \in Writers, NEW p \in Paths,
         job'[u].phase = job[u].phase, pc'[u][p] = pc[u][p], slot'[u][p] = slot[u][p],
         job[u].phase \in Working => SameCommit(u)
  PROVE  FrameFits(u, p)'
<1> SUFFICES ASSUME job[u].phase \in Working  PROVE FrameFits(u, p)'
  BY DEF FrameFits
<1>1. /\ Input(u)' = Input(u) /\ Output(u)' = Output(u) /\ job'[u].ins = job[u].ins
  BY GoalsThen DEF Input, Output, SameCommit
<1>2. u \in Owners /\ u \in Owners' /\ FrameFits(u, p)
  BY DEF Owners, CInv, WriterFits
<1>3. slot[u][p] \in Held'
  BY <1>2 DEF Held
<1>4. ASSUME Fits(slot[u][p], p)
      PROVE  Fits(slot[u][p], p)' /\ Contents(slot[u][p])' = Contents(slot[u][p])
  <2>1. ASSUME NEW s, Fits(s, p), s \in Held', s = slot[u][p]
        PROVE  Fits(slot[u][p], p)' /\ Contents(slot[u][p])' = Contents(s)
    <3>1. Fits(s, p)' /\ Contents(s)' = Contents(s)
      BY <2>1, FitsThen
    <3> QED  BY <2>1, <3>1 DEF Fits, Contents
  <2> QED  BY <1>3, <1>4, <2>1
<1>5. CallFits(u, p) => CallFits(u, p)'
  BY <1>1, <1>4 DEF CallFits
<1>6. ReturnFits(u, p) => ReturnFits(u, p)'
  BY <1>1, <1>4 DEF ReturnFits
<1> QED  BY <1>1, <1>2, <1>5, <1>6 DEF FrameFits

\* Nobody else comes to hold the copy of a frame.
LEMMA HeldAloneThen ==
  ASSUME IInv, IInv', CInv, NEW N, Moves(N), NEW u \in Writers, NEW p \in Paths,
         Forked(u, p), slot'[u][p] = slot[u][p]
  PROVE  HeldAlone(u, p)'
<1> DEFINE a == slot[u][p]
<1>1. a \in Copies /\ a \in DOMAIN heap /\ a # Null /\ a \notin Settled /\ a \notin N
  BY WhatIsHeld, SlotsOfFrames DEF Inner, Settled, Moves, CInv, WriterFits
<1>2. HeldAlone(u, p)
  BY DEF CInv, WriterFits, CopiesAlone
<1>3. \A x \in Owners', q \in Paths : slot'[x][q] = a => x \in Owners /\ slot[x][q] = a
  BY <1>1 DEF Moves
<1> QED  BY <1>1, <1>2, <1>3 DEF HeldAlone, Moves

\* tmp_ver and new_ver keep the points that the phase before has put below them.
LEMMA RootsThen ==
  ASSUME IInv, IInv', CInv, NEW N, Moves(N), NEW u \in Writers,
         job'[u].phase = job[u].phase, job'[u].new_ver = job[u].new_ver,
         job[u].phase = "insert" => job'[u].tmp_ver = job[u].tmp_ver,
         job[u].phase # "idle" => SameCommit(u)
  PROVE  RootsFit(u)'
<1>1. CASE job[u].phase = "insert"
  <2>1. ASSUME NEW s, s = job[u].tmp_ver, Fits(s, << >>), s \in Held'
        PROVE  Fits(job[u].tmp_ver, << >>)' /\ Contents(job[u].tmp_ver)' = Contents(s)
    <3>1. Fits(s, << >>)' /\ Contents(s)' = Contents(s)
      BY <2>1, FitsThen
    <3> QED  BY <1>1, <2>1, <3>1 DEF Fits, Contents
  <2>2. job[u].tmp_ver \in Held'
    BY <1>1 DEF Held, Roots
  <2>3. Fits(job[u].tmp_ver, << >>) /\ Contents(job[u].tmp_ver) = Kept(u)
    BY <1>1 DEF CInv, WriterFits, RootsFit
  <2>4. Kept(u)' = Kept(u)
    BY <1>1, GoalsThen
  <2> QED  BY <1>1, <2>1, <2>2, <2>3, <2>4 DEF RootsFit
<1>2. CASE job[u].phase = "gc"
  <2>1. ASSUME NEW s, s = job[u].new_ver, Fits(s, << >>), s \in Held'
        PROVE  Fits(job[u].new_ver, << >>)' /\ Contents(job[u].new_ver)' = Contents(s)
    <3>1. Fits(s, << >>)' /\ Contents(s)' = Contents(s)
      BY <2>1, FitsThen
    <3> QED  BY <2>1, <3>1 DEF Fits, Contents
  <2>2. job[u].new_ver \in Held'
    BY DEF Held, Roots
  <2>3. Fits(job[u].new_ver, << >>) /\ Contents(job[u].new_ver) = Result(u)
    BY <1>2 DEF CInv, WriterFits, RootsFit
  <2>4. Result(u)' = Result(u)
    BY <1>2, GoalsThen
  <2> QED  BY <1>2, <2>1, <2>2, <2>3, <2>4 DEF RootsFit
<1> QED  BY <1>1, <1>2 DEF RootsFit

\* A writer that does not take part in the step.
LEMMA OthersThen ==
  ASSUME IInv, IInv', CInv, NEW N, Moves(N), NEW u \in Writers,
         job'[u] = job[u], pc'[u] = pc[u], slot'[u] = slot[u],
         job[u].phase # "idle" => SameCommit(u),
         job[u].phase \in Working => \A a \in N : a.owner # job[u].id,
         job[u].phase # "idle" => job[u].id \notin DOMAIN versions' \ DOMAIN versions
  PROVE  WriterFits(u)'
<1>1. RootsFit(u)' /\ \A p \in Paths : FrameFits(u, p)'
  BY RootsThen, FrameThen DEF Working
<1>2. FramesNest(u)' /\ BothCalled(u)'
  BY DEF FramesNest, BothCalled, Forked, CInv, WriterFits
<1>3. Allocated(u)'
  BY DEF Allocated, Moves, CInv, WriterFits
<1>4. CopiesAlone(u)'
  BY HeldAloneThen DEF CopiesAlone, Forked
<1>5. DyingAlone(u)'
  BY HeldThen, SlotsOfFramesThen DEF DyingAlone
<1>6. Unpublished(u)'
  BY DEF Unpublished, CInv, WriterFits
<1> QED  BY <1>1, <1>2, <1>3, <1>4, <1>5, <1>6 DEF WriterFits

-----------------------------------------------------------------------------
(* What build makes.                                                       *)

\* The first steps of a child are those of its parent.
LEMMA PrefixOfChild ==
  ASSUME NEW q \in Paths, Len(q) < Bits, NEW d \in {0, 1}, NEW n \in 0..Len(q)
  PROVE  SubSeq(Child(q, d), 1, n) = SubSeq(q, 1, n) /\ SubSeq(q, 1, Len(q)) = q
<1>1. q \in Seq({0, 1}) /\ Len(q) \in Nat
  BY PathTypes
<1>2. SubSeq(q, 1, Len(q)) = q
  BY <1>1
<1>3. SubSeq(Append(q, d), 1, n) = SubSeq(q, 1, n)
  BY <1>1, SMTT(30)
<1> QED  BY <1>2, <1>3 DEF Child

\* A region of the build that is split has a node for each half with points.
LEMMA BuildSons ==
  ASSUME NEW B, NEW p \in Paths, NEW q \in BuildPaths(B, p),
         ~FitsLeaf(BagCardinality(Part(B, q)), q), NEW d \in {0, 1}
  PROVE  /\ Len(q) < Bits /\ q \in Paths /\ Len(q) >= Len(p) /\ Child(q, d) \in Paths
         /\ Child(q, d) \in BuildPaths(B, p) <=> Part(B, Child(q, d)) # EmptyBag
<1>1. /\ q \in Paths /\ Len(q) \in Nat /\ Len(q) <= Bits /\ Bits \in Nat
      /\ Len(p) \in Nat /\ Len(q) # Bits
  BY PathTypes DEF BuildPaths, FitsLeaf
<1>2. Len(q) >= Len(p) /\ SubSeq(q, 1, Len(p)) = p
  <2>1. CASE q = p
    BY <1>1, <2>1, PrefixOfChild
  <2>2. CASE q # p
    BY <1>1, <2>2 DEF BuildPaths
  <2> QED  BY <2>1, <2>2
<1>3. /\ Child(q, d) \in Paths /\ Len(Child(q, d)) = Len(q) + 1 /\ Parent(Child(q, d)) = q
  BY <1>1, ChildrenOfPath
<1>4. SubSeq(Child(q, d), 1, Len(p)) = p /\ Child(q, d) # p
  BY <1>1, <1>2, <1>3, PrefixOfChild
<1> QED  BY <1>1, <1>2, <1>3, <1>4 DEF BuildPaths

\* What build makes at a path: a leaf if the points fit into one, else a node with a son for
\* every half that has points.
LEMMA BuildNodes ==
  ASSUME NEW B, IsBagOfPoints(B), NEW p \in Paths, NEW c \in Nat,
         \A x \in DOMAIN B : Under(x, p), p # << >> => B # EmptyBag,
         NEW q \in BuildPaths(B, p)
  PROVE  LET N == Build(B, p, c)
             a == BuildAddress(c, q)
             C == Part(B, q)
             son == [d \in {0, 1} |-> IF Part(B, Child(q, d)) # EmptyBag
                                      THEN BuildAddress(c, Child(q, d)) ELSE Null]
         IN  /\ a \in DOMAIN N /\ a.at = q
             /\ FitsLeaf(BagCardinality(C), q) => N[a] = Leaf(C) /\ N[a].leaf /\ LeafFits(C, q)
             /\ ~FitsLeaf(BagCardinality(C), q) =>
                  /\ N[a] = Inte(son[0], son[1], BagCardinality(C)) /\ ~N[a].leaf
                  /\ BagCardinality(C) > LeafSize
<1> DEFINE N == Build(B, p, c)
           a == BuildAddress(c, q)
           C == Part(B, q)
           son == [d \in {0, 1} |-> IF Part(B, Child(q, d)) # EmptyBag
                                    THEN BuildAddress(c, Child(q, d)) ELSE Null]
<1>1. a \in DOMAIN N /\ a.at = q /\ N[a] = BuildNode(B, c, BuildPaths(B, p), q)
  BY DEF Build, BuildAddress
<1>2. q \in Paths
  BY DEF BuildPaths
<1>3. ASSUME FitsLeaf(BagCardinality(C), q)
      PROVE  N[a] = Leaf(C) /\ N[a].leaf /\ LeafFits(C, q)
  <2>1. N[a] = Leaf(C)
    BY <1>1, <1>3 DEF BuildNode
  <2>2. q # << >> => C # EmptyBag
    <3>1. CASE q = p
      BY <3>1, PartIsAll
    <3>2. CASE q # p
      BY <3>2 DEF BuildPaths
    <3> QED  BY <3>1, <3>2
  <2>3. \A x \in DOMAIN C : Under(x, q)
    BY DEF Part
  <2> HIDE DEF N, a, C
  <2> QED  BY <1>3, <2>1, <2>2, <2>3 DEF LeafFits, Leaf
<1>4. ASSUME ~FitsLeaf(BagCardinality(C), q)
      PROVE  N[a] = Inte(son[0], son[1], BagCardinality(C)) /\ ~N[a].leaf
             /\ BagCardinality(C) > LeafSize
  <2>1. \A d \in {0, 1} : Child(q, d) \in BuildPaths(B, p) <=> Part(B, Child(q, d)) # EmptyBag
    BY <1>4, BuildSons
  <2>2. N[a] = Inte(son[0], son[1], BagCardinality(C))
    BY <1>1, <1>4, <2>1 DEF BuildNode
  <2>3. BagCardinality(C) > LeafSize
    <3>1. BagCardinality(C) \in Nat /\ LeafSize \in Nat
      BY PartOfBag, SizeIsNumber, ConstantsAssumption
    <3> HIDE DEF C
    <3> QED  BY <1>4, <3>1 DEF FitsLeaf
  <2> HIDE DEF N, a, C, son
  <2> QED  BY <2>2, <2>3 DEF Inte
<1> QED  BY <1>1, <1>3, <1>4

\* A heap that the nodes of the build are part of.
BuiltIn(H, B, p, c) ==
  \A a \in DOMAIN Build(B, p, c) : a \in DOMAIN H /\ H[a] = Build(B, p, c)[a]

\* Below a node that build made at a path are the points of that region.
LEMMA BuildContents ==
  ASSUME NEW B, IsBagOfPoints(B), NEW p \in Paths, NEW c \in Nat,
         \A x \in DOMAIN B : Under(x, p), p # << >> => B # EmptyBag,
         NEW H, SoundHeap(H), BuiltIn(H, B, p, c)
  PROVE  \A q \in BuildPaths(B, p) : ContentsIn(H, BuildAddress(c, q)) = Part(B, q)
<1> DEFINE Good(q) == ContentsIn(H, BuildAddress(c, q)) = Part(B, q)
           Bad == {Bits - Len(q) : q \in {r \in BuildPaths(B, p) : ~Good(r)}}
<1> SUFFICES ASSUME Bad # {}  PROVE FALSE
  OBVIOUS
<1>0. \A q \in BuildPaths(B, p) : q \in Paths /\ Len(q) \in Nat /\ Bits - Len(q) \in Nat
  BY PathTypes DEF BuildPaths
<1>1. PICK m \in Bad : \A k \in Bad : m <= k
  <2>1. Bad \in SUBSET Nat
    BY <1>0
  <2> HIDE DEF Bad
  <2> QED  BY <2>1, SmallestElement
<1>2. PICK q \in BuildPaths(B, p) : m = Bits - Len(q) /\ ~Good(q)
  BY <1>1
<1> DEFINE a == BuildAddress(c, q)
           C == Part(B, q)
<1>3. a \in DOMAIN H /\ H[a] = Build(B, p, c)[a]
  BY BuildNodes DEF BuiltIn
<1>4. ~FitsLeaf(BagCardinality(C), q)
  <2> SUFFICES ASSUME FitsLeaf(BagCardinality(C), q)  PROVE FALSE
    OBVIOUS
  <2>1. H[a] = Leaf(C) /\ H[a].leaf
    BY <1>3, BuildNodes
  <2>2. ContentsIn(H, a) = C
    BY <1>3, <2>1, ContentsBelow DEF Leaf
  <2> QED  BY <1>2, <2>2
<1> DEFINE son == [d \in {0, 1} |-> IF Part(B, Child(q, d)) # EmptyBag
                                    THEN BuildAddress(c, Child(q, d)) ELSE Null]
<1>5. H[a] = Inte(son[0], son[1], BagCardinality(C)) /\ ~H[a].leaf
  BY <1>3, <1>4, BuildNodes
<1>6. ContentsIn(H, a) = ContentsIn(H, son[0]) (+) ContentsIn(H, son[1])
  <2>1. H[a].l_son = son[0] /\ H[a].r_son = son[1]
    <3> HIDE DEF son
    <3> QED  BY <1>5 DEF Inte
  <2> HIDE DEF a
  <2> QED  BY <1>3, <1>5, <2>1, ContentsBelow
<1>7. ASSUME NEW d \in {0, 1}  PROVE ContentsIn(H, son[d]) = Part(B, Child(q, d))
  <2>1. CASE Part(B, Child(q, d)) = EmptyBag
    BY <2>1, ContentsBelow
  <2>2. CASE Part(B, Child(q, d)) # EmptyBag
    <3>1. son[d] = BuildAddress(c, Child(q, d)) /\ Child(q, d) \in BuildPaths(B, p)
      BY <1>4, <2>2, BuildSons
    <3>2. Len(Child(q, d)) = Len(q) + 1
      BY <1>4, BuildSons, ChildrenOfPath
    <3>3. ~Good(Child(q, d)) => Bits - Len(Child(q, d)) \in Bad
      BY <3>1
    <3>4. Len(q) \in Nat /\ Bits \in Nat
      BY <1>0, BitsIsNatural
    <3>5. Good(Child(q, d))
      <4> HIDE DEF Good, Bad
      <4> QED  BY <1>1, <1>2, <3>2, <3>3, <3>4
    <3> QED  BY <3>1, <3>5
  <2> QED  BY <2>1, <2>2
<1>8. C = Part(B, Child(q, 0)) (+) Part(B, Child(q, 1))
  BY <1>4, BuildSons, PartsOfPart
<1> QED  BY <1>2, <1>6, <1>7, <1>8

\* The root of what build makes is among its nodes.
LEMMA BuiltAddresses ==
  ASSUME NEW B, NEW p, NEW c
  PROVE  /\ p \in Paths => BuildAddress(c, p) \in DOMAIN Build(B, p, c)
         /\ p \in Paths => p \in BuildPaths(B, p)
BY DEF Build, BuildPaths

\* The nodes of a build are in order.
Built(H, B, p, c) ==
  /\ IsBagOfPoints(B) /\ p \in Paths /\ c \in Nat
  /\ \A x \in DOMAIN B : Under(x, p)
  /\ p # << >> => B # EmptyBag
  /\ BuiltIn(H, B, p, c)

\* In a heap that has the nodes that build made, they are in order ...
LEMMA BuiltFits ==
  ASSUME IInv, NEW B, NEW p, NEW c, Built(heap, B, p, c),
         \A a \in DOMAIN Build(B, p, c) : a \notin Copies \cup Dying,
         NEW q \in BuildPaths(B, p), BuildAddress(c, q) \in Held
  PROVE  /\ Fits(BuildAddress(c, q), q) /\ Contents(BuildAddress(c, q)) = Part(B, q)
         /\ NodeFits(BuildAddress(c, q))
<1> DEFINE a(r) == BuildAddress(c, r)
           C == Part(B, q)
<1> USE DEF Built
<1>1. ASSUME NEW r \in BuildPaths(B, p), a(r) \in Held
      PROVE  Fits(a(r), r) /\ Contents(a(r)) = Part(B, r)
  <2>1. /\ a(r) \in DOMAIN heap /\ heap[a(r)] = Build(B, p, c)[a(r)] /\ a(r) \notin Copies
        /\ a(r).at = r
    BY BuildNodes DEF BuiltIn
  <2>2. heap[a(r)].leaf => LeafFits(heap[a(r)].records, r)
    <3>1. CASE FitsLeaf(BagCardinality(Part(B, r)), r)
      <4>1. heap[a(r)] = Leaf(Part(B, r)) /\ LeafFits(Part(B, r), r)
        BY <2>1, <3>1, BuildNodes
      <4> QED  BY <4>1 DEF Leaf
    <3>2. CASE ~FitsLeaf(BagCardinality(Part(B, r)), r)
      BY <2>1, <3>2, BuildNodes
    <3> QED  BY <3>1, <3>2
  <2>3. Contents(a(r)) = Part(B, r)
    BY BuildContents, HeapIsSound, ContentsNow
  <2> QED  BY <1>1, <2>1, <2>2, <2>3 DEF Fits, Settled
<1>2. ASSUME ~heap[a(q)].leaf, NEW d \in {0, 1}
      PROVE  /\ Fits(Son(a(q), d), Child(a(q).at, d))
             /\ heap[a(q)].num_pts = BagCardinality(C) /\ heap[a(q)].num_pts > LeafSize
  <2> DEFINE son == [e \in {0, 1} |-> IF Part(B, Child(q, e)) # EmptyBag
                                      THEN BuildAddress(c, Child(q, e)) ELSE Null]
  <2>1. /\ a(q) \in DOMAIN heap /\ a(q).at = q /\ a(q) \in Inner \ Dying
        /\ ~FitsLeaf(BagCardinality(C), q) /\ BagCardinality(C) > LeafSize
        /\ heap[a(q)] = Inte(son[0], son[1], BagCardinality(C))
    BY <1>2, BuildNodes DEF BuiltIn, Inner
  <2>2. Son(a(q), d) = son[d] /\ heap[a(q)].num_pts = BagCardinality(C)
    <3> HIDE DEF son, C
    <3> QED  BY <2>1 DEF Inte, Son
  <2>3. Fits(son[d], Child(q, d))
    <3>1. CASE Part(B, Child(q, d)) = EmptyBag
      BY <3>1 DEF Fits
    <3>2. CASE Part(B, Child(q, d)) # EmptyBag
      <4>1. son[d] = a(Child(q, d)) /\ Child(q, d) \in BuildPaths(B, p)
        BY <2>1, <3>2, BuildSons
      <4>2. son[d] \in Held
        <5> HIDE DEF son
        <5> QED  BY <2>1, <2>2 DEF Held, Roots
      <4> QED  BY <1>1, <4>1, <4>2
    <3> QED  BY <3>1, <3>2
  <2> QED  BY <2>1, <2>2, <2>3
<1>3. NodeFits(a(q))
  <2>1. Contents(a(q)) = C
    BY <1>1
  <2> HIDE DEF C, a
  <2> QED  BY <1>2, <2>1 DEF NodeFits
<1> QED  BY <1>1, <1>3

\* ... and so they are after the step that adds them.
LEMMA BuiltFitsThen ==
  ASSUME IInv', NEW B, NEW p, NEW c, Built(heap', B, p, c),
         \A a \in DOMAIN Build(B, p, c) : a \notin Copies' \cup Dying',
         NEW q \in BuildPaths(B, p), BuildAddress(c, q) \in Held'
  PROVE  /\ Fits(BuildAddress(c, q), q)' /\ Contents(BuildAddress(c, q))' = Part(B, q)
         /\ NodeFits(BuildAddress(c, q))'
<1> DEFINE a(r) == BuildAddress(c, r)
           C == Part(B, q)
<1> USE DEF Built
<1>1. ASSUME NEW r \in BuildPaths(B, p), a(r) \in Held'
      PROVE  Fits(a(r), r)' /\ Contents(a(r))' = Part(B, r)
  <2>1. /\ a(r) \in DOMAIN heap' /\ heap'[a(r)] = Build(B, p, c)[a(r)] /\ a(r) \notin Copies'
        /\ a(r).at = r
    BY BuildNodes DEF BuiltIn
  <2>2. heap'[a(r)].leaf => LeafFits(heap'[a(r)].records, r)
    <3>1. CASE FitsLeaf(BagCardinality(Part(B, r)), r)
      <4>1. heap'[a(r)] = Leaf(Part(B, r)) /\ LeafFits(Part(B, r), r)
        BY <2>1, <3>1, BuildNodes
      <4> QED  BY <4>1 DEF Leaf
    <3>2. CASE ~FitsLeaf(BagCardinality(Part(B, r)), r)
      BY <2>1, <3>2, BuildNodes
    <3> QED  BY <3>1, <3>2
  <2>3. Contents(a(r))' = Part(B, r)
    BY BuildContents, HeapStaysSound, ContentsNow
  <2> QED  BY <1>1, <2>1, <2>2, <2>3 DEF Fits, Settled
<1>2. ASSUME ~heap'[a(q)].leaf, NEW d \in {0, 1}
      PROVE  /\ Fits(Son(a(q), d), Child(a(q).at, d))'
             /\ heap'[a(q)].num_pts = BagCardinality(C) /\ heap'[a(q)].num_pts > LeafSize
  <2> DEFINE son == [e \in {0, 1} |-> IF Part(B, Child(q, e)) # EmptyBag
                                      THEN BuildAddress(c, Child(q, e)) ELSE Null]
  <2>1. /\ a(q) \in DOMAIN heap' /\ a(q).at = q /\ a(q) \in Inner' \ Dying'
        /\ ~FitsLeaf(BagCardinality(C), q) /\ BagCardinality(C) > LeafSize
        /\ heap'[a(q)] = Inte(son[0], son[1], BagCardinality(C))
    BY <1>2, BuildNodes DEF BuiltIn, Inner
  <2>2. Son(a(q), d)' = son[d] /\ heap'[a(q)].num_pts = BagCardinality(C)
    <3> HIDE DEF son, C
    <3> QED  BY <2>1 DEF Inte, Son
  <2>3. ASSUME NEW s, s = son[d]  PROVE Fits(s, Child(q, d))'
    <3>1. CASE Part(B, Child(q, d)) = EmptyBag
      BY <2>3, <3>1 DEF Fits
    <3>2. CASE Part(B, Child(q, d)) # EmptyBag
      <4>1. s = a(Child(q, d)) /\ Child(q, d) \in BuildPaths(B, p)
        BY <2>1, <2>3, <3>2, BuildSons
      <4>2. s \in Held'
        <5> HIDE DEF son
        <5> QED  BY <2>1, <2>2, <2>3 DEF Held, Roots
      <4> QED  BY <1>1, <4>1, <4>2
    <3> QED  BY <3>1, <3>2
  <2>4. Fits(Son(a(q), d), Child(a(q).at, d))'
    <3>1. PICK s : s = son[d]
      OBVIOUS
    <3> HIDE DEF son, C
    <3> QED  BY <2>1, <2>2, <2>3, <3>1 DEF Fits
  <2> QED  BY <2>1, <2>2, <2>4
<1>3. NodeFits(a(q))'
  <2>1. Contents(a(q))' = C
    BY <1>1
  <2> HIDE DEF C
  <2> QED  BY <1>2, <2>1 DEF NodeFits
<1> QED  BY <1>1, <1>3

-----------------------------------------------------------------------------
(* The frames of a commit.                                                 *)

\* What a commit works on and towards are bags of points.
LEMMA GoalsAreBags ==
  ASSUME IInv, NEW w \in Writers, job[w].phase # "idle"
  PROVE  /\ IsBagOfPoints(Base(w)) /\ IsBagOfPoints(Kept(w)) /\ IsBagOfPoints(Result(w))
         /\ IsBagOfPoints(Input(w)) /\ IsBagOfPoints(Output(w))
         /\ IsBagOfPoints(job[w].ins) /\ IsBagOfPoints(job[w].del)
         /\ job[w].base \in DOMAIN versions
<1>1. job[w].base \in DOMAIN versions
  BY DEF IInv, JobsDiffer
<1>2. versions[job[w].base] \in DOMAIN heap \cup {Null}
  BY <1>1, RootsMayBeHeld DEF MayHold
<1>3. IsBagOfPoints(Base(w))
  BY <1>2, ContentsHere DEF Base
<1>4. IsBagOfPoints(job[w].ins) /\ IsBagOfPoints(job[w].del)
  BY BatchesAreBags DEF IInv, TypeOK
<1>5. IsBagOfPoints(Kept(w))
  BY <1>3, <1>4, DifferenceOfBags DEF Kept
<1>6. IsBagOfPoints(Result(w))
  BY <1>4, <1>5, UnionOfBags DEF Result
<1> QED  BY <1>1, <1>3, <1>4, <1>5, <1>6 DEF Input, Output

\* What a call is given, at the root and below.
LEMMA ArgumentFits ==
  ASSUME IInv, CInv, NEW w \in Writers, NEW p \in Paths, job[w].phase \in Working,
         pc[w][p] = "call"
  PROVE  /\ Fits(Argument(w, p), p) /\ Contents(Argument(w, p)) = Part(Input(w), p)
         /\ Argument(w, p) \in Settled \cup {Null}
<1>1. CASE p # << >>
  BY <1>1 DEF CInv, WriterFits, FrameFits, CallFits, Argument, Fits
<1>2. CASE p = << >>
  <2>1. Fits(Argument(w, p), p) /\ Contents(Argument(w, p)) = Input(w)
    BY <1>2, GoalsAreBags DEF CInv, VersionsFit, WriterFits, RootsFit, Argument, Input, Base, Working
  <2>2. Part(Input(w), p) = Input(w)
    BY <1>2, GoalsAreBags, PartAtTop DEF Working
  <2> QED  BY <2>1, <2>2 DEF Fits
<1> QED  BY <1>1, <1>2

\* A frame that allocates finds its addresses unused.
LEMMA NotAllocated ==
  ASSUME IInv, CInv, NEW w \in Writers, NEW p \in Paths, job[w].phase \in Working,
         NEW a, a.owner = job[w].id, a.at \in Paths, Leads(p, a.at),
         a.made \in MadeIn(job[w].phase),
         pc[w][p] = "call" \/ (pc[w][p] = "join" /\ a.made = "merge" /\ a.at = p)
  PROVE  a \notin DOMAIN heap
<1> SUFFICES ASSUME a \in DOMAIN heap  PROVE FALSE
  OBVIOUS
<1>1. FramesNest(w) /\ Allocated(w)
  BY DEF CInv, WriterFits
<1>2. ~(job[w].phase = "insert" /\ a.made \in MadeIn("delete"))
  BY DEF MadeIn
<1>3. ASSUME NEW q \in Paths, Leads(q, a.at), pc[w][q] = "done"  PROVE FALSE
  <2>1. CASE Leads(q, p)
    BY <1>1, <1>3, <2>1 DEF FramesNest
  <2>2. CASE Leads(p, q)
    BY <1>1, <1>3, <2>1, <2>2, LeadsTrivially DEF FramesNest
  <2> QED  BY <1>3, <2>1, <2>2, LeadsTogether
<1>4. ASSUME a.made \notin {"merge", "build"}, pc[w][a.at] = "join"  PROVE FALSE
  BY <1>1, <1>4 DEF FramesNest
<1> QED  BY <1>1, <1>2, <1>3, <1>4 DEF Allocated

NoneBelow(w, p) ==
  \/ pc[w][p] = "call"
  \/ pc[w][p] = "join" /\ \A c \in Children(p) : pc[w][c] = "done"

\* The variables after a frame returned.
LEMMA AfterReturn ==
  ASSUME IInv, NEW w \in Writers, NEW p \in Paths, NEW y, Return(w, p, y),
         \A u \in Writers : job'[u].phase = job[u].phase
  PROVE  /\ \A u \in Writers \ {w} : pc'[u] = pc[u] /\ slot'[u] = slot[u]
         /\ pc'[w][p] = "done" /\ slot'[w][p] = y
         /\ \A c \in Children(p) : pc'[w][c] = "idle" /\ slot'[w][c] = Null
         /\ \A q \in Paths \ (Children(p) \cup {p}) : pc'[w][q] = pc[w][q] /\ slot'[w][q] = slot[w][q]
         /\ Copies' \subseteq Copies /\ Dying' \subseteq Dying
         /\ \A u \in Writers, q \in Paths :
              pc'[u][q] = "join" => pc[u][q] = "join" /\ slot'[u][q] = slot[u][q]
<1>t. pc \in [Writers -> [Paths -> {"idle", "call", "join", "done"}]]
      /\ slot \in [Writers -> [Paths -> AddressOrNull]]
  BY DEF IInv, TypeOK
<1>1. \A u \in Writers \ {w} : pc'[u] = pc[u] /\ slot'[u] = slot[u]
  BY <1>t DEF Return
<1>2. \A q \in Paths : /\ pc'[w][q] = IF q = p THEN "done" ELSE IF q \in Children(p) THEN "idle" ELSE pc[w][q]
                       /\ slot'[w][q] = IF q = p THEN y ELSE IF q \in Children(p) THEN Null ELSE slot[w][q]
  BY <1>t DEF Return
<1>3. \A c \in Children(p) : c \in Paths /\ c # p
  BY ChildrenArePaths
<1>4. ASSUME NEW u \in Writers, NEW q \in Paths, pc'[u][q] = "join"
      PROVE  pc[u][q] = "join" /\ slot'[u][q] = slot[u][q]
  BY <1>1, <1>2, <1>4
<1>5. ASSUME NEW r \in Writers \X Paths
      PROVE  /\ Forked(r[1], r[2])' => Forked(r[1], r[2]) /\ slot'[r[1]][r[2]] = slot[r[1]][r[2]]
             /\ Opened(r[1], r[2])' => Opened(r[1], r[2]) /\ slot'[r[1]][r[2]] = slot[r[1]][r[2]]
  BY <1>4 DEF Forked, Opened
<1>6. Copies' \subseteq Copies
  BY <1>5 DEF Copies
<1>7. Dying' \subseteq Dying
  BY <1>5 DEF Dying
<1> QED  BY <1>1, <1>2, <1>3, <1>4, <1>6, <1>7

\* A return leaves the frames above waiting.
LEMMA ReturnNests ==
  ASSUME IInv, NEW w \in Writers, FramesNest(w), BothCalled(w), NEW p \in Paths, NoneBelow(w, p),
         NEW y, Return(w, p, y), \A u \in Writers : job'[u].phase = job[u].phase
  PROVE  FramesNest(w)' /\ BothCalled(w)'
<1>1. /\ pc'[w][p] = "done"
      /\ \A c \in Children(p) : pc'[w][c] = "idle"
      /\ \A q \in Paths \ (Children(p) \cup {p}) : pc'[w][q] = pc[w][q]
  BY AfterReturn
<1>2. \A c \in Children(p) : c \in Paths /\ c # p /\ Leads(p, c) /\ Parent(c) = p
  BY ChildrenArePaths, LeadsToChild, LeadsTrivially
<1>3. pc[w][p] \in {"call", "join"} /\ \A c \in Children(p) : pc[w][c] # "join"
  BY <1>2 DEF NoneBelow, FramesNest
<1>4. ASSUME NEW r \in Paths, NEW q \in Paths, pc'[w][r] # "idle", Leads(q, r), q # r
      PROVE  pc'[w][q] = "join"
  <2>1. r \notin Children(p) /\ pc[w][r] # "idle"
    BY <1>1, <1>3, <1>4
  <2>2. pc[w][q] = "join"
    BY <1>4, <2>1 DEF FramesNest
  <2>3. q \notin Children(p)
    BY <1>3, <2>2
  <2>4. q # p
    <3> SUFFICES ASSUME q = p  PROVE FALSE
      OBVIOUS
    <3>1. PICK c \in Children(p) : Leads(c, r)
      BY <1>4, LeadsThrough
    <3>2. c # r
      BY <2>1
    <3>3. pc[w][c] = "join"
      BY <1>2, <2>1, <3>1, <3>2 DEF FramesNest
    <3> QED  BY <1>3, <3>3
  <2> QED  BY <1>1, <2>2, <2>3, <2>4
<1>5. ASSUME NEW r \in Paths, Forked(w, r)', NEW c \in Children(r)
      PROVE  pc'[w][c] # "idle"
  <2>1. r # p /\ r \notin Children(p) /\ Forked(w, r)
    BY <1>1, <1>5 DEF Forked
  <2>2. pc[w][c] # "idle" /\ c \in Paths /\ Parent(c) = r
    BY <2>1, ChildrenArePaths DEF BothCalled
  <2>3. c \notin Children(p)
    BY <1>2, <2>1, <2>2
  <2> QED  BY <1>1, <2>2, <2>3
<1> QED  BY <1>4, <1>5 DEF FramesNest, BothCalled

\* A step of a deletion or insertion that writes the nodes of M, of which those of N are new.
WorkMoves(w, M, N) ==
  /\ Grows(M) /\ N \subseteq DOMAIN M /\ DOMAIN M \subseteq N \cup Copies
  /\ N \cap DOMAIN heap = {}
  /\ \A b \in DOMAIN M : ~M[b].leaf => {M[b].l_son, M[b].r_son} \subseteq Settled \cup N \cup {Null}
  /\ \A u \in Writers \ {w} : pc'[u] = pc[u] /\ slot'[u] = slot[u]
  /\ \A q \in Paths : slot'[w][q] \in Settled \cup N \cup {Null} \/ slot'[w][q] = slot[w][q]
  /\ Copies' \subseteq Copies \cup N

\* A step of the two phases that copy nodes is a move.
LEMMA WorkIsMove ==
  ASSUME IInv, CInv, NEW w \in Writers, job[w].phase \in Working,
         NEW M, NEW N, WorkMoves(w, M, N), UNCHANGED <<versions, job, commits>>
  PROVE  Moves(N) /\ Dying' = Dying /\ Owners' = Owners
<1>1. Dying' = Dying
  <2>1. \A r \in Writers \X Paths :
          /\ Opened(r[1], r[2])' <=> Opened(r[1], r[2])
          /\ Opened(r[1], r[2]) => slot'[r[1]][r[2]] = slot[r[1]][r[2]]
    BY DEF WorkMoves, Opened, Working
  <2> QED  BY <2>1 DEF Dying
<1>2. Owners' = Owners
  BY DEF Owners
<1>3. Roots' \subseteq Settled \cup N \cup {Null}
  <2>0. Roots \subseteq Settled \cup {Null}
    BY WhatIsHeld DEF CInv, WriterFits
  <2>1. ASSUME NEW b \in Inner' \ Dying', NEW d \in {0, 1}
        PROVE  Son(b, d)' \in Settled \cup N \cup {Null}
    <3>1. CASE b \in DOMAIN M
      BY <3>1 DEF WorkMoves, Grows, Inner, Son
    <3>2. CASE b \notin DOMAIN M
      <4>1. b \in Inner \ Dying /\ Son(b, d)' = Son(b, d)
        BY <1>1, <3>2 DEF WorkMoves, Grows, Inner, Son
      <4>2. Son(b, d) \in Roots
        BY <4>1 DEF Roots
      <4> QED  BY <2>0, <4>1, <4>2
    <3> QED  BY <3>1, <3>2
  <2>2. /\ \A v \in DOMAIN versions' : versions'[v] \in Roots
        /\ \A u \in Writers : job'[u].phase # "gc" => job'[u].tmp_ver \in Roots
        /\ \A u \in Writers : job'[u].new_ver \in Roots
    BY DEF Roots
  <2> QED  BY <2>0, <2>1, <2>2 DEF Roots
<1>4. \A u \in Owners', q \in Paths :
        \/ slot'[u][q] \in Settled \cup N \cup {Null}
        \/ u \in Owners /\ slot'[u][q] = slot[u][q]
  BY <1>2 DEF WorkMoves, Owners
<1>5. \A a \in DOMAIN heap' :
        a \in N \/ (a \in DOMAIN heap /\ (heap'[a] = heap[a] \/ a \in Copies \cup Dying))
  BY WhatIsHeld DEF WorkMoves, Grows, Inner, CInv, WriterFits
<1> QED  BY <1>1, <1>2, <1>3, <1>4, <1>5 DEF WorkMoves, Moves

\* Without a change of jobs and versions commits have the same goals.
LEMMA SameCommitThen ==
  ASSUME IInv, NEW u \in Writers, job[u].phase # "idle", UNCHANGED <<versions, job>>
  PROVE  SameCommit(u)
BY GoalsAreBags DEF SameCommit

\* The new nodes of a frame's step belong to its region.
OwnAddresses(w, p, N) ==
  \A a \in N : /\ a.owner = job[w].id /\ a.made \in MadeIn(job[w].phase)
               /\ a.at \in Paths /\ Leads(p, a.at)

\* A frame of a deletion or insertion returns.
LEMMA WorkReturns ==
  ASSUME IInv, IInv', CInv, NEW w \in Writers, job[w].phase \in Working, NEW p \in Paths,
         NoneBelow(w, p), NEW y, Return(w, p, y), UNCHANGED <<versions, job, commits>>,
         NEW N, Moves(N), OwnAddresses(w, p, N),
         ReturnFits(w, p)', \A a \in Settled' \ Settled : NodeFits(a)'
  PROVE  CInv'
<1>1. /\ \A u \in Writers \ {w} : pc'[u] = pc[u] /\ slot'[u] = slot[u]
      /\ pc'[w][p] = "done" /\ slot'[w][p] = y
      /\ \A c \in Children(p) : pc'[w][c] = "idle" /\ slot'[w][c] = Null
      /\ \A q \in Paths \ (Children(p) \cup {p}) : pc'[w][q] = pc[w][q] /\ slot'[w][q] = slot[w][q]
      /\ \A u \in Writers, q \in Paths :
           pc'[u][q] = "join" => pc[u][q] = "join" /\ slot'[u][q] = slot[u][q]
  BY AfterReturn
<1>2. \A u \in Writers : job[u].phase # "idle" => SameCommit(u)
  BY SameCommitThen
<1>3. NodesFit'
  BY NodesThen DEF NodesFit
<1>4. VersionsFit'
  BY VersionsThen
<1>5. ASSUME NEW u \in Writers \ {w}  PROVE WriterFits(u)'
  <2>1. job[u].phase \in Working => \A a \in N : a.owner # job[u].id
    BY DEF OwnAddresses, IInv, JobsDiffer, Working
  <2> QED  BY <1>1, <1>2, <2>1, OthersThen
<1>6. WriterFits(w)'
  <2>1. RootsFit(w)'
    BY <1>2, RootsThen
  <2>2. ASSUME NEW q \in Paths  PROVE FrameFits(w, q)'
    <3>1. CASE q = p
      BY <1>1, <3>1 DEF FrameFits
    <3>2. CASE q \in Children(p)
      BY <1>1, <3>2 DEF FrameFits
    <3>3. CASE q \notin Children(p) \cup {p}
      BY <1>1, <1>2, <3>3, FrameThen DEF Working
    <3> QED  BY <3>1, <3>2, <3>3
  <2>3. FramesNest(w)' /\ BothCalled(w)'
    BY ReturnNests DEF CInv, WriterFits
  <2>4. Allocated(w)'
    <3> SUFFICES ASSUME NEW a \in DOMAIN heap', a.owner = job[w].id
                 PROVE  \/ job[w].phase = "insert" /\ a.made \in MadeIn("delete")
                        \/ /\ a.made \in MadeIn(job[w].phase)
                           /\ \E q \in Paths : Leads(q, a.at) /\ pc'[w][q] = "done"
                        \/ /\ a.made \in MadeIn(job[w].phase) \ {"merge", "build"}
                           /\ pc'[w][a.at] = "join"
      BY DEF Allocated
    <3>1. CASE a \in N
      BY <1>1, <3>1 DEF OwnAddresses
    <3>2. CASE a \notin N
      <4>1. a \in DOMAIN heap /\ a.at \in Paths
        BY <3>2 DEF Moves, IInv, TypeOK, Address
      <4>2. ASSUME NEW q \in Paths, Leads(q, a.at), pc[w][q] = "done"
            PROVE  \E r \in Paths : Leads(r, a.at) /\ pc'[w][r] = "done"
        <5>1. CASE q \in Children(p)
          <6>1. Leads(p, q)
            BY <5>1, LeadsToChild, LeadsTrivially
          <6> QED  BY <1>1, <4>1, <4>2, <6>1, LeadsAlong
        <5>2. CASE q \notin Children(p)
          BY <1>1, <4>2, <5>2
        <5> QED  BY <5>1, <5>2
      <4>3. ASSUME pc[w][a.at] = "join"
            PROVE  \/ pc'[w][a.at] = "join"
                   \/ \E r \in Paths : Leads(r, a.at) /\ pc'[w][r] = "done"
        <5>1. CASE a.at = p
          BY <1>1, <5>1, LeadsTrivially
        <5>2. CASE a.at \in Children(p)
          <6>1. Leads(p, a.at)
            BY <5>2, LeadsToChild, LeadsTrivially
          <6> QED  BY <1>1, <6>1
        <5>3. CASE a.at \notin Children(p) \cup {p}
          BY <1>1, <4>1, <4>3, <5>3
        <5> QED  BY <5>1, <5>2, <5>3
      <4> QED  BY <4>1, <4>2, <4>3 DEF Allocated, CInv, WriterFits
    <3> QED  BY <3>1, <3>2
  <2>5. CopiesAlone(w)'
    BY <1>1, HeldAloneThen DEF CopiesAlone, Forked
  <2>6. DyingAlone(w)'
    BY HeldThen, SlotsOfFramesThen DEF DyingAlone
  <2>7. Unpublished(w)'
    BY DEF Unpublished, CInv, WriterFits
  <2> QED  BY <2>1, <2>2, <2>3, <2>4, <2>5, <2>6, <2>7 DEF WriterFits
<1> QED  BY <1>3, <1>4, <1>5, <1>6 DEF CInv

\* The frames after par_do.
LEMMA AfterFork ==
  ASSUME IInv, NEW w \in Writers, NEW p \in Paths, NEW x, NEW y, NEW P, Fork(w, p, x, y, P)
  PROVE  /\ \A u \in Writers \ {w} : pc'[u] = pc[u] /\ slot'[u] = slot[u]
         /\ pc'[w][p] = "join" /\ slot'[w][p] = y
         /\ \A c \in Children(p) :
              /\ pc'[w][c] = IF Part(P, c) = EmptyBag THEN "done" ELSE "call"
              /\ slot'[w][c] = Son(x, c[Len(c)])
         /\ \A q \in Paths \ (Children(p) \cup {p}) : pc'[w][q] = pc[w][q] /\ slot'[w][q] = slot[w][q]
<1>t. pc \in [Writers -> [Paths -> {"idle", "call", "join", "done"}]]
      /\ slot \in [Writers -> [Paths -> AddressOrNull]]
  BY DEF IInv, TypeOK
<1>1. \A u \in Writers \ {w} : pc'[u] = pc[u] /\ slot'[u] = slot[u]
  BY <1>t DEF Fork
<1>2. \A q \in Paths :
        /\ pc'[w][q] = IF q = p THEN "join"
                       ELSE IF q \in Children(p)
                            THEN IF Part(P, q) = EmptyBag THEN "done" ELSE "call"
                            ELSE pc[w][q]
        /\ slot'[w][q] = IF q = p THEN y
                         ELSE IF q \in Children(p) THEN Son(x, q[Len(q)]) ELSE slot[w][q]
  BY <1>t DEF Fork, ForkSlots
<1>3. \A c \in Children(p) : c \in Paths /\ c # p
  BY ChildrenArePaths
<1> QED  BY <1>1, <1>2, <1>3

\* A frame of a deletion or insertion copies the inner node x and forks.
LEMMA WorkForks ==
  ASSUME IInv, IInv', CInv, NEW w \in Writers, job[w].phase \in Working, NEW p \in Paths,
         pc[w][p] = "call", NEW x \in Inner, x \in Settled, NEW P, NEW made,
         made \in MadeIn(job[w].phase) \ {"merge", "build"},
         heap' = Store(heap, One(Fresh(w, made, p), heap[x])),
         Fork(w, p, x, Fresh(w, made, p), P), UNCHANGED <<versions, job, commits>>,
         \A N : Moves(N) => \A c \in Children(p) \cup {p} : FrameFits(w, c)'
  PROVE  CInv'
<1> DEFINE y == Fresh(w, made, p)
           M == One(y, heap[x])
           N == {y}
<1>1. /\ \A u \in Writers \ {w} : pc'[u] = pc[u] /\ slot'[u] = slot[u]
      /\ pc'[w][p] = "join" /\ slot'[w][p] = y
      /\ \A c \in Children(p) :
           /\ pc'[w][c] = IF Part(P, c) = EmptyBag THEN "done" ELSE "call"
           /\ slot'[w][c] = Son(x, c[Len(c)])
      /\ \A q \in Paths \ (Children(p) \cup {p}) : pc'[w][q] = pc[w][q] /\ slot'[w][q] = slot[w][q]
  BY AfterFork
<1>2. y.owner = job[w].id /\ y.at = p /\ y.made = made /\ Leads(p, p)
  BY FreshIsOwn, LeadsTrivially DEF IInv, MadeIn
<1>3. y \notin DOMAIN heap
  BY <1>2, NotAllocated
<1>4. Grows(M) /\ DOMAIN M = {y} /\ M[y] = heap[x]
  BY OneGrows
<1>5. \A c \in Children(p) : c \in Paths /\ c # p /\ c[Len(c)] \in {0, 1} /\ Leads(p, c)
  BY ChildrenArePaths, LeadsToChild, LeadsTrivially
<1>6. \A c \in Children(p) : pc[w][c] = "idle"
  BY <1>5 DEF CInv, WriterFits, FramesNest
<1>7. \A d \in {0, 1} : Son(x, d) \in Settled \cup {Null}
  BY DEF CInv, NodesFit, NodeFits, Fits, Inner
<1> HIDE DEF y, M
<1>8. ASSUME NEW u \in Writers, NEW q \in Paths, pc[u][q] = "join"
      PROVE  pc'[u][q] = "join" /\ slot'[u][q] = slot[u][q]
  BY <1>1, <1>6, <1>8
<1>9. ASSUME NEW u \in Writers, NEW q \in Paths, pc'[u][q] = "join"
      PROVE  (u = w /\ q = p) \/ (pc[u][q] = "join" /\ slot'[u][q] = slot[u][q])
  BY <1>1, <1>9
<1>10. Copies' \subseteq Copies \cup N /\ Copies \subseteq Copies' /\ y \in Copies'
  <2>1. Copies' \subseteq Copies \cup N
    <3>1. \A r \in Writers \X Paths : Forked(r[1], r[2])' =>
            slot'[r[1]][r[2]] = y \/ (Forked(r[1], r[2]) /\ slot'[r[1]][r[2]] = slot[r[1]][r[2]])
      BY <1>1, <1>9 DEF Forked
    <3> QED  BY <3>1 DEF Copies
  <2>2. Copies \subseteq Copies'
    <3>1. \A r \in Writers \X Paths : Forked(r[1], r[2]) =>
            Forked(r[1], r[2])' /\ slot'[r[1]][r[2]] = slot[r[1]][r[2]]
      BY <1>8 DEF Forked
    <3> QED  BY <3>1 DEF Copies
  <2>3. Forked(w, p)'
    BY <1>1 DEF Forked
  <2> QED  BY <1>1, <2>1, <2>2, <2>3, SlotsOfFramesThen
<1>11. WorkMoves(w, M, N)
  <2>1. {M[y].l_son, M[y].r_son} \subseteq Settled \cup {Null}
    BY <1>4, <1>7 DEF Son
  <2>2. \A q \in Paths : slot'[w][q] \in Settled \cup N \cup {Null} \/ slot'[w][q] = slot[w][q]
    BY <1>1, <1>5, <1>7
  <2> QED  BY <1>1, <1>3, <1>4, <1>10, <2>1, <2>2 DEF WorkMoves
<1>12. Moves(N) /\ Dying' = Dying /\ Owners' = Owners
  BY <1>11, WorkIsMove
<1>13. Settled' \subseteq Settled
  <2>1. Settled' \subseteq Settled \cup N \cup (Copies \ Copies')
    BY <1>12, HeldThen
  <2> QED  BY <1>10, <2>1 DEF Settled
<1>14. NodesFit' /\ VersionsFit'
  BY <1>12, <1>13, NodesThen, VersionsThen DEF NodesFit
<1>15. \A u \in Writers : job[u].phase # "idle" => SameCommit(u)
  BY SameCommitThen
<1>16. ASSUME NEW u \in Writers \ {w}  PROVE WriterFits(u)'
  <2>1. job[u].phase \in Working => \A a \in N : a.owner # job[u].id
    BY <1>2 DEF IInv, JobsDiffer, Working
  <2> QED  BY <1>1, <1>12, <1>15, <2>1, OthersThen
<1>17. WriterFits(w)'
  <2>1. RootsFit(w)'
    BY <1>12, <1>15, RootsThen
  <2>2. ASSUME NEW q \in Paths  PROVE FrameFits(w, q)'
    <3>1. CASE q \in Children(p) \cup {p}
      BY <1>12, <3>1
    <3>2. CASE q \notin Children(p) \cup {p}
      BY <1>1, <1>12, <1>15, <3>2, FrameThen DEF Working
    <3> QED  BY <3>1, <3>2
  <2>3. FramesNest(w)'
    <3> SUFFICES ASSUME NEW r \in Paths, NEW q \in Paths, pc'[w][r] # "idle", Leads(q, r), q # r
                 PROVE  pc'[w][q] = "join"
      BY DEF FramesNest
    <3>1. CASE r \in Children(p)
      <4>1. q = p \/ Leads(q, p)
        BY <3>1, LeadsToChild
      <4>2. q = p \/ pc[w][q] = "join"
        BY <4>1 DEF CInv, WriterFits, FramesNest
      <4> QED  BY <1>1, <1>8, <4>2
    <3>2. CASE r \notin Children(p)
      <4>1. pc[w][r] # "idle"
        BY <1>1, <3>2
      <4> QED  BY <1>8, <4>1 DEF CInv, WriterFits, FramesNest
    <3> QED  BY <3>1, <3>2
  <2>4. BothCalled(w)'
    <3> SUFFICES ASSUME NEW r \in Paths, Forked(w, r)', NEW c \in Children(r)
                 PROVE  pc'[w][c] # "idle"
      BY DEF BothCalled
    <3>1. CASE r = p
      BY <1>1, <3>1
    <3>2. CASE r # p
      <4>1. Forked(w, r)
        BY <1>9, <3>2 DEF Forked
      <4>2. pc[w][c] # "idle" /\ c \in Paths
        BY <4>1, ChildrenArePaths DEF CInv, WriterFits, BothCalled
      <4> QED  BY <1>1, <1>6, <4>2
    <3> QED  BY <3>1, <3>2
  <2>5. Allocated(w)'
    <3> SUFFICES ASSUME NEW a \in DOMAIN heap', a.owner = job[w].id
                 PROVE  \/ job[w].phase = "insert" /\ a.made \in MadeIn("delete")
                        \/ /\ a.made \in MadeIn(job[w].phase)
                           /\ \E q \in Paths : Leads(q, a.at) /\ pc'[w][q] = "done"
                        \/ /\ a.made \in MadeIn(job[w].phase) \ {"merge", "build"}
                           /\ pc'[w][a.at] = "join"
      BY DEF Allocated
    <3>1. CASE a = y
      BY <1>1, <1>2, <3>1
    <3>2. CASE a # y
      <4>1. a \in DOMAIN heap /\ a.at \in Paths
        BY <1>12, <3>2 DEF Moves, IInv, TypeOK, Address
      <4>2. \A q \in Paths : pc[w][q] = "done" => pc'[w][q] = "done"
        BY <1>1, <1>6
      <4> QED  BY <1>8, <4>1, <4>2 DEF Allocated, CInv, WriterFits
    <3> QED  BY <3>1, <3>2
  <2>6. CopiesAlone(w)'
    <3> SUFFICES ASSUME NEW q \in Paths, Forked(w, q)'  PROVE HeldAlone(w, q)'
      BY DEF CopiesAlone
    <3>1. CASE q # p
      BY <1>9, <1>12, <3>1, HeldAloneThen DEF Forked
    <3>2. CASE q = p
      <4>1. y # Null /\ y \notin Settled
        BY <1>3, FreshIsOwn, ConstantsAssumption DEF Settled, y, IInv, MadeIn
      <4>2. y \notin Roots'
        <5>1. ASSUME NEW b \in Inner' \ Dying', NEW d \in {0, 1}  PROVE Son(b, d)' # y
          <6>1. CASE b = y
            <7>1. Son(b, d)' = Son(x, d)
              BY <1>4, <6>1 DEF Grows, Son
            <7> QED  BY <1>7, <4>1, <7>1
          <6>2. CASE b # y
            <7>1. b \in Inner \ Dying /\ Son(b, d)' = Son(b, d)
              BY <1>4, <1>12, <6>2 DEF Grows, Inner, Son
            <7>2. Son(b, d) \in Held
              BY <7>1 DEF Held, Roots
            <7> QED  BY <1>3, <4>1, <7>1, <7>2, WhatIsHeld DEF CInv, WriterFits
          <6> QED  BY <6>1, <6>2
        <5>2. /\ \A v \in DOMAIN versions' : versions'[v] \in Held
              /\ \A u \in Writers : job'[u].phase # "gc" => job'[u].tmp_ver \in Held
              /\ \A u \in Writers : job'[u].new_ver \in Held
          BY DEF Held, Roots
        <5>3. y \notin Held
          BY <1>3, <4>1, WhatIsHeld DEF CInv, WriterFits
        <5> QED  BY <5>1, <5>2, <5>3 DEF Roots
      <4>3. ASSUME NEW u \in Owners', NEW r \in Paths, slot'[u][r] = y
            PROVE  u = w /\ r = p
        <5>1. \A v \in Owners, q1 \in Paths : slot[v][q1] # y
          BY <1>3, <4>1, WhatIsHeld DEF CInv, WriterFits, Held
        <5>2. u \in Owners /\ u \in Writers
          BY <1>12 DEF Owners
        <5>3. u = w
          BY <1>1, <4>3, <5>1, <5>2
        <5>4. r \notin Children(p)
          BY <1>1, <1>5, <1>7, <4>1, <4>3, <5>3
        <5> QED  BY <1>1, <4>3, <5>1, <5>2, <5>3, <5>4
      <4> QED  BY <1>1, <3>2, <4>2, <4>3 DEF HeldAlone
    <3> QED  BY <3>1, <3>2
  <2>7. DyingAlone(w)'
    BY <1>12, HeldThen, SlotsOfFramesThen DEF DyingAlone
  <2>8. Unpublished(w)'
    BY DEF Unpublished, CInv, WriterFits
  <2> QED  BY <2>1, <2>2, <2>3, <2>4, <2>5, <2>6, <2>7, <2>8 DEF WriterFits
<1> QED  BY <1>14, <1>16, <1>17 DEF CInv

-----------------------------------------------------------------------------
(* How a frame returns.                                                    *)

\* Contents after a step, one level of it.
LEMMA ContentsHereThen ==
  ASSUME IInv'
  PROVE  /\ Contents(Null)' = EmptyBag
         /\ \A a \in DOMAIN heap' :
              /\ heap'[a].leaf => Contents(a)' = heap'[a].records
              /\ ~heap'[a].leaf => \A L, R : L = heap'[a].l_son /\ R = heap'[a].r_son
                                             => Contents(a)' = Contents(L)' (+) Contents(R)'
<1>1. SoundHeap(heap')
  BY HeapStaysSound
<1>2. /\ ContentsIn(heap', Null) = EmptyBag
      /\ \A a \in DOMAIN heap' :
           /\ heap'[a].leaf => ContentsIn(heap', a) = heap'[a].records
           /\ ~heap'[a].leaf => ContentsIn(heap', a) =
                                  ContentsIn(heap', heap'[a].l_son) (+) ContentsIn(heap', heap'[a].r_son)
  BY <1>1, ContentsBelow
<1> QED  BY <1>2, ContentsNow

\* A frame of a deletion or insertion that writes M, allocates N of it and returns y.
Returns(w, p, y, M, N) ==
  /\ job[w].phase \in Working /\ NoneBelow(w, p) /\ Return(w, p, y)
  /\ UNCHANGED <<versions, job, commits>>
  /\ Grows(M) /\ N \subseteq DOMAIN M /\ DOMAIN M \subseteq N \cup Copies
  /\ N \cap DOMAIN heap = {}
  /\ \A b \in DOMAIN M : ~M[b].leaf => {M[b].l_son, M[b].r_son} \subseteq Settled \cup N \cup {Null}
  /\ y \in Settled \cup N \cup {Null, slot[w][p]}

\* A return is a move.
LEMMA ReturnIsMove ==
  ASSUME IInv, CInv, NEW w \in Writers, NEW p \in Paths, NEW y, NEW M, NEW N, Returns(w, p, y, M, N)
  PROVE  Moves(N) /\ Dying' = Dying /\ Owners' = Owners /\ Copies' \subseteq Copies
<1>1. /\ \A u \in Writers \ {w} : pc'[u] = pc[u] /\ slot'[u] = slot[u]
      /\ slot'[w][p] = y
      /\ \A c \in Children(p) : slot'[w][c] = Null
      /\ \A q \in Paths \ (Children(p) \cup {p}) : slot'[w][q] = slot[w][q]
      /\ Copies' \subseteq Copies
  BY AfterReturn DEF Returns
<1>2. \A q \in Paths : slot'[w][q] \in Settled \cup N \cup {Null} \/ slot'[w][q] = slot[w][q]
  BY <1>1 DEF Returns
<1>3. WorkMoves(w, M, N)
  BY <1>1, <1>2 DEF Returns, WorkMoves
<1> QED  BY <1>1, <1>3, WorkIsMove DEF Returns

\* The node of the frame itself is the only one that settles without being new.
LEMMA ReturnSettles ==
  ASSUME IInv, IInv', CInv, NEW w \in Writers, NEW p \in Paths, NEW y, NEW M, NEW N,
         Returns(w, p, y, M, N), NEW a \in Settled', a \notin Settled \cup N
  PROVE  a = y /\ a = slot[w][p] /\ pc[w][p] = "join"
<1>1. Moves(N)
  BY ReturnIsMove
<1>2. a \in Copies \ Copies' /\ a \in Held' /\ a # Null
  BY <1>1, HeldThen, HeapStaysSound DEF Settled, SoundHeap
<1>3. PICK r \in Writers \X Paths : Forked(r[1], r[2]) /\ a = slot[r[1]][r[2]]
  BY <1>2 DEF Copies
<1> DEFINE u == r[1]
           q == r[2]
<1>4. u \in Writers /\ q \in Paths /\ Forked(u, q) /\ a = slot[u][q]
  BY <1>3
<1> HIDE DEF u, q
<1>5. u = w /\ q = p
  <2> SUFFICES ASSUME ~(u = w /\ q = p)  PROVE FALSE
    OBVIOUS
  <2>1. \A c \in Children(p) : c \in Paths /\ pc[w][c] # "join"
    <3>1. \A c \in Children(p) : c \in Paths /\ Leads(p, c) /\ p # c
      BY ChildrenArePaths, LeadsToChild, LeadsTrivially
    <3> QED  BY <3>1 DEF Returns, NoneBelow, CInv, WriterFits, FramesNest
  <2>2. pc'[u][q] = pc[u][q] /\ slot'[u][q] = slot[u][q]
    BY <1>4, <2>1, AfterReturn DEF Returns, Forked
  <2>3. Forked(u, q)' /\ slot'[u][q] = a
    BY <1>4, <2>2 DEF Forked, Returns
  <2> QED  BY <1>2, <1>4, <2>3, SlotsOfFramesThen
<1>6. HeldAlone(w, p)
  BY <1>4, <1>5 DEF CInv, WriterFits, CopiesAlone
<1>7. a \notin Roots'
  BY <1>1, <1>2 DEF Moves
<1>8. PICK v \in Owners', s \in Paths : slot'[v][s] = a
  BY <1>2, <1>7 DEF Held
<1>9. v \in Owners /\ slot[v][s] = a
  BY <1>1, <1>2, <1>8 DEF Moves
<1>10. v = w /\ s = p
  BY <1>4, <1>5, <1>6, <1>9 DEF HeldAlone
<1>11. slot'[w][p] = y
  BY AfterReturn DEF Returns
<1> QED  BY <1>4, <1>5, <1>8, <1>10, <1>11 DEF Forked

\* What a frame returns is held by its slot.
LEMMA ReturnedIsHeld ==
  ASSUME IInv, NEW w \in Writers, NEW p \in Paths, NEW y, NEW M, NEW N, Returns(w, p, y, M, N)
  PROVE  slot'[w][p] = y /\ y \in Held' /\ pc'[w][p] = "done" /\ w \in Owners'
<1>1. slot'[w][p] = y /\ pc'[w][p] = "done"
  BY AfterReturn DEF Returns
<1>2. w \in Owners'
  BY DEF Owners, Returns
<1> QED  BY <1>1, <1>2 DEF Held

\* A return of a node in order, with the points that the frame was to deliver, keeps the
\* invariant.
LEMMA ReturnKeeps ==
  ASSUME IInv, IInv', CInv, NEW w \in Writers, NEW p \in Paths, NEW y, NEW M, NEW N,
         Returns(w, p, y, M, N), OwnAddresses(w, p, N),
         Fits(y, p)', Contents(y)' = Part(Output(w), p),
         \A a \in Settled' \ Settled : NodeFits(a)'
  PROVE  CInv'
<1>1. Moves(N)
  BY ReturnIsMove
<1>2. slot'[w][p] = y
  BY ReturnedIsHeld
<1>3. Output(w)' = Output(w)
  BY <1>1, SameCommitThen, GoalsThen DEF Returns, Working, Output
<1>4. ReturnFits(w, p)'
  BY <1>2, <1>3 DEF ReturnFits, Fits, Contents
<1> QED  BY <1>1, <1>4, WorkReturns DEF Returns

\* Nothing is allocated, nothing is written.
LEMMA QuietReturn ==
  ASSUME IInv, IInv', CInv, NEW w \in Writers, NEW p \in Paths, NEW y,
         job[w].phase \in Working, NoneBelow(w, p), Return(w, p, y),
         UNCHANGED <<heap, versions, job, commits>>,
         Fits(y, p), Contents(y) = Part(Output(w), p)
  PROVE  CInv'
<1> DEFINE M == [a \in {} |-> a]
           N == {}
<1>1. y \in Settled \cup {Null}
  BY DEF Fits
<1>2. Returns(w, p, y, M, N)
  BY <1>1 DEF Returns, Grows
<1> HIDE DEF M
<1>3. Moves(N)
  BY <1>2, ReturnIsMove
<1>4. Fits(y, p)' /\ Contents(y)' = Contents(y)
  BY <1>2, <1>3, ReturnedIsHeld, FitsThen
<1>5. \A a \in Settled' : a \in Settled
  <2> SUFFICES ASSUME NEW a \in Settled', a \notin Settled  PROVE FALSE
    OBVIOUS
  <2>1. a = y
    BY <1>2, ReturnSettles
  <2>2. a # Null
    BY HeapStaysSound DEF SoundHeap, Settled
  <2> QED  BY <1>1, <2>1, <2>2
<1>6. OwnAddresses(w, p, N)
  BY DEF OwnAddresses
<1> QED  BY <1>2, <1>4, <1>5, <1>6, ReturnKeeps

\* A new leaf.
LEMMA LeafReturn ==
  ASSUME IInv, IInv', CInv, NEW w \in Writers, NEW p \in Paths, NEW made, NEW B,
         NEW y, y = Fresh(w, made, p),
         job[w].phase \in Working, NoneBelow(w, p), Return(w, p, y),
         UNCHANGED <<versions, job, commits>>,
         heap' = Store(heap, One(y, Leaf(B))),
         made \in MadeIn(job[w].phase), pc[w][p] = "call" \/ made = "merge",
         LeafFits(B, p), B = Part(Output(w), p)
  PROVE  CInv'
<1> DEFINE M == One(y, Leaf(B))
           N == {y}
<1>1. y.owner = job[w].id /\ y.at = p /\ y.made = made /\ Leads(p, p)
  BY FreshIsOwn, LeadsTrivially DEF IInv, MadeIn
<1>2. y \notin DOMAIN heap
  BY <1>1, NotAllocated DEF NoneBelow
<1>3. Grows(M) /\ DOMAIN M = {y} /\ M[y] = Leaf(B)
  BY OneGrows
<1> HIDE DEF M
<1>4. y \in DOMAIN heap' /\ heap'[y] = Leaf(B) /\ heap'[y].leaf /\ heap'[y].records = B
  <2>1. y \in DOMAIN heap' /\ heap'[y] = Leaf(B)
    BY <1>3 DEF Grows
  <2>2. Leaf(B).leaf /\ Leaf(B).records = B
    BY DEF Leaf
  <2> QED  BY <2>1, <2>2
<1>5. Returns(w, p, y, M, N)
  BY <1>2, <1>3 DEF Returns, Leaf
<1>6. Copies' \subseteq DOMAIN heap
  BY <1>5, ReturnIsMove, WhatIsHeld DEF Inner, CInv, WriterFits
<1>7. y \in Settled'
  BY <1>2, <1>4, <1>5, <1>6, ReturnedIsHeld DEF Settled
<1>8. Fits(y, p)'
  BY <1>4, <1>7 DEF Fits
<1>9. Contents(y)' = B
  BY <1>4, ContentsHereThen
<1>10. \A a \in Settled' \ Settled : a = y
  BY <1>5, ReturnSettles
<1>11. NodeFits(y)'
  BY <1>4 DEF NodeFits
<1>12. OwnAddresses(w, p, N)
  BY <1>1 DEF OwnAddresses
<1> QED  BY <1>5, <1>8, <1>9, <1>10, <1>11, <1>12, ReturnKeeps

\* build makes nodes at and below its path only.
LEMMA BuildLeads ==
  ASSUME NEW B, NEW p \in Paths, NEW q \in BuildPaths(B, p)
  PROVE  q \in Paths /\ Leads(p, q)
<1>1. q \in Paths /\ Len(q) \in Nat /\ Len(p) \in Nat
  BY PathTypes DEF BuildPaths
<1>2. CASE q = p
  BY <1>1, <1>2, LeadsTrivially
<1>3. CASE q # p
  <2>1. Len(q) > Len(p) /\ SubSeq(q, 1, Len(p)) = p
    BY <1>3 DEF BuildPaths
  <2>2. \A i \in 1..Len(p) : SubSeq(q, 1, Len(p))[i] = q[i]
    BY <1>1, <2>1, PathTypes
  <2> QED  BY <1>1, <2>1, <2>2 DEF Leads
<1> QED  BY <1>2, <1>3

\* The tree that build makes of what the call is to return.
LEMMA BuildReturn ==
  ASSUME IInv, IInv', CInv, NEW w \in Writers, NEW p \in Paths, NEW B, NEW c, c = job[w].id,
         job[w].phase = "insert", pc[w][p] = "call", Return(w, p, BuildAddress(c, p)),
         UNCHANGED <<versions, job, commits>>, heap' = Store(heap, Build(B, p, c)),
         IsBagOfPoints(B), \A x \in DOMAIN B : Under(x, p), p # << >> => B # EmptyBag,
         B = Part(Output(w), p)
  PROVE  CInv'
<1> DEFINE y == BuildAddress(c, p)
           M == Build(B, p, c)
           N == DOMAIN M
<1>1. c \in Nat /\ job[w].phase \in Working
  BY DEF IInv, TypeOK, Working
<1>2. /\ N = {BuildAddress(c, q) : q \in BuildPaths(B, p)} /\ y \in N
      /\ p \in BuildPaths(B, p)
  <2>1. DOMAIN Build(B, p, c) = {BuildAddress(c, q) : q \in BuildPaths(B, p)}
    BY DEF Build
  <2>2. BuildAddress(c, p) \in DOMAIN Build(B, p, c) /\ p \in BuildPaths(B, p)
    BY BuiltAddresses
  <2> QED  BY <2>1, <2>2
<1>3. OwnAddresses(w, p, N)
  <2>1. ASSUME NEW q \in BuildPaths(B, p), NEW a, a = BuildAddress(c, q)
        PROVE  /\ a.owner = job[w].id /\ a.made \in MadeIn(job[w].phase)
               /\ a.at \in Paths /\ Leads(p, a.at)
    BY <2>1, BuildLeads DEF BuildAddress, MadeIn
  <2> QED  BY <1>2, <2>1 DEF OwnAddresses
<1>4. N \cap DOMAIN heap = {}
  <2>1. ASSUME NEW a \in N  PROVE a \notin DOMAIN heap
    <3>1. /\ a.owner = job[w].id /\ a.made \in MadeIn(job[w].phase)
          /\ a.at \in Paths /\ Leads(p, a.at)
      BY <1>3 DEF OwnAddresses
    <3> HIDE DEF N
    <3> QED  BY <1>1, <3>1, NotAllocated
  <2> QED  BY <2>1
<1>5. Grows(M)
  BY DEF Grows, Store
<1>6. \A b \in N : ~M[b].leaf => {M[b].l_son, M[b].r_son} \subseteq N \cup {Null}
  BY <1>1, BuildIsSound
<1> HIDE DEF M, y
<1>7. Returns(w, p, y, M, N)
  BY <1>1, <1>2, <1>4, <1>5, <1>6 DEF Returns, y, NoneBelow
<1>8. Built(heap', B, p, c)
  BY <1>1, <1>5 DEF Built, BuiltIn, Grows, M
<1>9. \A a \in N : a \notin Copies' \cup Dying'
  <2>1. Copies' \cup Dying' \subseteq DOMAIN heap
    BY <1>7, ReturnIsMove, WhatIsHeld DEF Inner, CInv, WriterFits
  <2> QED  BY <1>4, <2>1
<1>10. ASSUME NEW q \in BuildPaths(B, p), NEW a, a = BuildAddress(c, q), a \in Held'
       PROVE  Fits(a, q)' /\ Contents(a)' = Part(B, q) /\ NodeFits(a)'
  BY <1>8, <1>9, <1>10, BuiltFitsThen DEF M
<1>11. ASSUME NEW a \in Settled' \ Settled  PROVE NodeFits(a)'
  <2>1. a \in N
    BY <1>2, <1>7, ReturnSettles
  <2>2. a \in Held'
    BY DEF Settled
  <2> QED  BY <1>2, <1>10, <2>1, <2>2
<1>12. ASSUME NEW a, a = y  PROVE Fits(a, p)' /\ Contents(a)' = B
  <2>1. a \in Held'
    BY <1>7, <1>12, ReturnedIsHeld
  <2>2. Part(B, p) = B
    BY PartIsAll
  <2> QED  BY <1>2, <1>10, <1>12, <2>1, <2>2 DEF y
<1>13. ASSUME NEW a, a = y, Returns(w, p, a, M, N)  PROVE CInv'
  BY <1>3, <1>11, <1>12, <1>13, ReturnKeeps
<1> QED  BY <1>7, <1>13

\* The copy of the frame, with the results of its halves.
LEMMA InteReturn ==
  ASSUME IInv, IInv', CInv, NEW w \in Writers, NEW p \in Paths, NEW x, NEW L, NEW R, NEW n,
         x = slot[w][p], L = slot[w][Child(p, 0)], R = slot[w][Child(p, 1)],
         job[w].phase \in Working, pc[w][p] = "join", SonsDone(w, p), Return(w, p, x),
         UNCHANGED <<versions, job, commits>>, heap' = Store(heap, One(x, Inte(L, R, n))),
         n = BagCardinality(Part(Output(w), p)), n > LeafSize
  PROVE  CInv'
<1> DEFINE M == One(x, Inte(L, R, n))
           N == {}
<1>1. Forked(w, p) /\ x \in Copies /\ NoneBelow(w, p)
  BY SlotsOfFrames DEF Forked, NoneBelow, SonsDone
<1>2. x \in Inner /\ x.at = p /\ Len(p) < Bits /\ x \in Address
  BY DEF IInv, FramesWork, CopiesInPlace, Depths, Inner, TypeOK
<1>3. \A d \in {0, 1} : Child(p, d) \in Paths /\ Child(p, d) \in Children(p)
  BY <1>2, ChildrenOfPath
<1>4. /\ Fits(L, Child(p, 0)) /\ Contents(L) = Part(Output(w), Child(p, 0))
      /\ Fits(R, Child(p, 1)) /\ Contents(R) = Part(Output(w), Child(p, 1))
  BY <1>3 DEF SonsDone, CInv, WriterFits, FrameFits, ReturnFits
<1>5. L \in Settled \cup {Null} /\ R \in Settled \cup {Null}
  BY <1>4 DEF Fits
<1>6. Grows(M) /\ DOMAIN M = {x} /\ M[x] = Inte(L, R, n)
  BY OneGrows
<1>7. /\ Inte(L, R, n).l_son = L /\ Inte(L, R, n).r_son = R /\ Inte(L, R, n).num_pts = n
      /\ ~Inte(L, R, n).leaf
  BY DEF Inte
<1> HIDE DEF M
<1>8. Returns(w, p, x, M, N)
  BY <1>1, <1>5, <1>6, <1>7 DEF Returns
<1>9. Moves(N) /\ Dying' = Dying
  BY <1>8, ReturnIsMove
<1>10. x \in DOMAIN heap' /\ heap'[x] = Inte(L, R, n) /\ x \in Held' /\ pc'[w][p] = "done"
  BY <1>6, <1>8, ReturnedIsHeld DEF Grows
<1>11. x \notin Copies'
  <2> SUFFICES ASSUME NEW u \in Writers, NEW q \in Paths, Forked(u, q)', slot'[u][q] = x
               PROVE  FALSE
    BY DEF Copies
  <2>1. pc[u][q] = "join" /\ slot[u][q] = x /\ job[u].phase \in Working
    BY AfterReturn DEF Forked
  <2>2. HeldAlone(w, p)
    BY <1>1 DEF CInv, WriterFits, CopiesAlone
  <2>3. u = w /\ q = p
    BY <2>1, <2>2 DEF HeldAlone, Owners
  <2> QED  BY <1>10, <2>3 DEF Forked
<1>12. x \in Settled'
  BY <1>10, <1>11 DEF Settled
<1>13. x \in Inner' \ Dying'
  BY <1>7, <1>9, <1>10, HeldThen DEF Inner
<1>14. Son(x, 0)' = L /\ Son(x, 1)' = R
  BY <1>7, <1>10 DEF Son
<1>15. L \in Held' /\ R \in Held'
  BY <1>13, <1>14 DEF Held, Roots
<1>16. /\ Fits(L, Child(p, 0))' /\ Contents(L)' = Contents(L)
       /\ Fits(R, Child(p, 1))' /\ Contents(R)' = Contents(R)
  BY <1>4, <1>9, <1>15, FitsThen
<1>17. Contents(x)' = Part(Output(w), p)
  <2>1. Contents(x)' = Contents(L)' (+) Contents(R)'
    BY <1>7, <1>10, ContentsHereThen
  <2>2. Part(Output(w), p) = Part(Output(w), Child(p, 0)) (+) Part(Output(w), Child(p, 1))
    BY <1>2, GoalsAreBags, PartsOfPart DEF Working
  <2> QED  BY <1>4, <1>16, <2>1, <2>2
<1>18. NodeFits(x)'
  <2>1. \A d \in {0, 1} : Fits(Son(x, d), Child(x.at, d))'
    <3>1. Fits(Son(x, 0), Child(x.at, 0))'
      BY <1>2, <1>14, <1>16 DEF Fits
    <3>2. Fits(Son(x, 1), Child(x.at, 1))'
      BY <1>2, <1>14, <1>16 DEF Fits
    <3> QED  BY <3>1, <3>2
  <2> QED  BY <1>7, <1>10, <1>17, <2>1 DEF NodeFits
<1>19. Fits(x, p)'
  BY <1>2, <1>7, <1>10, <1>12 DEF Fits
<1>20. \A a \in Settled' \ Settled : NodeFits(a)'
  BY <1>8, <1>18, ReturnSettles
<1>21. OwnAddresses(w, p, N)
  BY DEF OwnAddresses
<1> QED  BY <1>8, <1>17, <1>19, <1>20, <1>21, ReturnKeeps

-----------------------------------------------------------------------------
(* Deletions.                                                              *)

\* Fewer points fit into a leaf as well.
LEMMA FitsAsLeaf ==
  ASSUME NEW n \in Nat, NEW m \in Nat, NEW p, FitsLeaf(m, p), n <= m
  PROVE  FitsLeaf(n, p)
BY ConstantsAssumption DEF FitsLeaf

\* What a deletion leaves of a leaf is a leaf in order, or nothing.
LEMMA LeafLess ==
  ASSUME NEW A, NEW B, IsBagOfPoints(A), IsBagOfPoints(B), NEW p, LeafFits(A, p),
         A (-) B # EmptyBag
  PROVE  LeafFits(A (-) B, p)
<1>1. /\ BagCardinality(A (-) B) \in Nat /\ BagCardinality(A) \in Nat
      /\ BagCardinality(A (-) B) <= BagCardinality(A)
  BY DifferenceOfBags, SizeIsNumber, SizeOfDifference
<1>2. FitsLeaf(BagCardinality(A (-) B), p)
  BY <1>1, FitsAsLeaf DEF LeafFits
<1>3. \A x \in DOMAIN (A (-) B) : x \in DOMAIN A
  BY DEF (-)
<1> QED  BY <1>2, <1>3 DEF LeafFits

\* What multi_version_batch_delete_sorted_node is to deliver at every path.
LEMMA DeletionGoal ==
  ASSUME IInv, NEW w \in Writers, job[w].phase = "delete"
  PROVE  /\ job[w].phase \in Working /\ Input(w) = Base(w) /\ Output(w) = Kept(w)
         /\ \A q : Part(Output(w), q) = Part(Input(w), q) (-) Part(job[w].del, q)
<1>1. Input(w) = Base(w) /\ Output(w) = Kept(w) /\ job[w].phase \in Working
  BY DEF Input, Output, Working
<1> QED  BY <1>1, GoalsAreBags, PartOfDifference DEF Kept

\* The halves of the region of an inner node: what a fork hands to them.
LEMMA HalvesOfInput ==
  ASSUME IInv, CInv, NEW w \in Writers, NEW p \in Paths, job[w].phase \in Working,
         pc[w][p] = "call", NEW x, x = Argument(w, p), x # Null, ~heap[x].leaf
  PROVE  /\ x \in Inner /\ x \in Settled
         /\ \A c \in Children(p) : /\ Fits(Son(x, c[Len(c)]), c)
                                   /\ Contents(Son(x, c[Len(c)])) = Part(Input(w), c)
         /\ BagCardinality(Part(Input(w), p)) > LeafSize
         /\ \A B : IsBagOfPoints(B) =>
              \A c \in Children(p) : Part(Part(B, p), c) = Part(B, c)
<1>1. Fits(x, p) /\ Contents(x) = Part(Input(w), p) /\ x \in Settled
  BY ArgumentFits
<1>2. x \in DOMAIN heap /\ NodesFit /\ IsBagOfPoints(Input(w))
  BY <1>1, GoalsAreBags DEF Settled, CInv, Working
<1>3. /\ Len(p) < Bits /\ x \in Inner
      /\ \A d \in {0, 1} : /\ Fits(Son(x, d), Child(p, d))
                           /\ Contents(Son(x, d)) = Part(Input(w), Child(p, d))
      /\ BagCardinality(Part(Input(w), p)) > LeafSize
  BY <1>1, <1>2, SonsFit
<1>4. \A c \in Children(p) : c[Len(c)] \in {0, 1} /\ c = Child(p, c[Len(c)])
  BY ChildrenArePaths
<1>5. \A B : IsBagOfPoints(B) => \A d \in {0, 1} : Part(Part(B, p), Child(p, d)) = Part(B, Child(p, d))
  BY <1>3, PartsOfPart
<1> QED  BY <1>1, <1>3, <1>4, <1>5

\* What the frames of a fork have, before their roots are followed into the new state.
LEMMA ForkFits ==
  ASSUME IInv, IInv', CInv, NEW w \in Writers, NEW p \in Paths, job[w].phase \in Working,
         pc[w][p] = "call", NEW x, x = Argument(w, p), x # Null, ~heap[x].leaf,
         NEW y, NEW P, Fork(w, p, x, y, P), UNCHANGED <<versions, job, commits>>,
         \A c \in Children(p) : Part(P, c) = EmptyBag => Part(Output(w), c) = Part(Input(w), c),
         job[w].phase = "insert" => \A c \in Children(p) : Part(job[w].ins, c) = Part(P, c),
         NEW N, Moves(N), NEW c \in Children(p) \cup {p}
  PROVE  FrameFits(w, c)'
<1>1. /\ pc'[w][p] = "join"
      /\ \A b \in Children(p) :
           /\ pc'[w][b] = IF Part(P, b) = EmptyBag THEN "done" ELSE "call"
           /\ slot'[w][b] = Son(x, b[Len(b)])
  BY AfterFork
<1>2. Input(w)' = Input(w) /\ Output(w)' = Output(w)
  BY SameCommitThen, GoalsThen DEF Working, Input, Output
<1>3. CASE c = p
  BY <1>1, <1>2, <1>3, HalvesOfInput DEF FrameFits
<1>4. CASE c \in Children(p)
  <2>1. /\ Fits(Son(x, c[Len(c)]), c)
        /\ Contents(Son(x, c[Len(c)])) = Part(Input(w), c)
    BY <1>4, HalvesOfInput
  <2>2. ASSUME NEW s, s = Son(x, c[Len(c)])
        PROVE  Fits(s, c)' /\ Contents(s)' = Part(Input(w), c) /\ slot'[w][c] = s
    <3>1. slot'[w][c] = s
      BY <1>1, <1>4, <2>2
    <3>2. c \in Paths /\ w \in Owners'
      BY <1>4, ChildrenArePaths DEF Owners
    <3>3. s \in Held'
      BY <3>1, <3>2 DEF Held
    <3> QED  BY <2>1, <2>2, <3>1, <3>3, FitsThen
  <2>3. CallFits(w, c)'
    BY <1>2, <2>2 DEF CallFits, Fits, Contents
  <2>4. Part(P, c) = EmptyBag => ReturnFits(w, c)'
    BY <1>2, <1>4, <2>2 DEF ReturnFits, Fits, Contents
  <2> QED  BY <1>1, <1>4, <2>3, <2>4 DEF FrameFits
<1> QED  BY <1>3, <1>4

\* A call of multi_version_batch_delete_sorted_node keeps the invariant.
LEMMA DeleteCallKeeps ==
  ASSUME IInv, IInv', CInv, NEW w \in Writers, NEW p \in Paths, DeleteCall(w, p)
  PROVE  CInv'
<1> DEFINE x == Argument(w, p)
           P == Part(job[w].del, p)
           y == Fresh(w, "delete_copy", p)
<1>1. /\ job[w].phase = "delete" /\ pc[w][p] = "call" /\ NoneBelow(w, p)
      /\ UNCHANGED <<versions, job, commits>>
  BY DEF DeleteCall, FrameAt, NoneBelow
<1>2. /\ job[w].phase \in Working
      /\ \A q : Part(Output(w), q) = Part(Input(w), q) (-) Part(job[w].del, q)
  BY <1>1, DeletionGoal
<1>3. /\ Fits(x, p) /\ Contents(x) = Part(Input(w), p) /\ x \in Settled \cup {Null}
      /\ IsBagOfPoints(P) /\ IsBagOfPoints(Part(Input(w), p))
  BY <1>1, <1>2, ArgumentFits, GoalsAreBags, PartOfBag
<1>4. x # Null /\ heap[x].leaf => x \in DOMAIN heap /\ heap[x].records = Part(Input(w), p)
  BY <1>3, ContentsHere DEF Settled
<1>5. CASE x = Null /\ Return(w, p, Null) /\ UNCHANGED heap
  <2>1. Part(Input(w), p) = EmptyBag /\ Contents(Null) = EmptyBag
    BY <1>3, <1>5, ContentsHere
  <2>2. Part(Output(w), p) = EmptyBag
    BY <1>2, <1>3, <2>1, SumWithNothing
  <2>3. Fits(Null, p)
    BY DEF Fits
  <2> QED  BY <1>1, <1>2, <1>5, <2>1, <2>2, <2>3, QuietReturn
<1>6. CASE /\ x # Null /\ heap[x].leaf /\ heap[x].records (-) P = EmptyBag
           /\ Return(w, p, Null) /\ UNCHANGED heap
  <2>1. Part(Output(w), p) = EmptyBag /\ Contents(Null) = EmptyBag
    BY <1>2, <1>4, <1>6, ContentsHere
  <2>2. Fits(Null, p)
    BY DEF Fits
  <2> QED  BY <1>1, <1>2, <1>6, <2>1, <2>2, QuietReturn
<1>7. CASE /\ x # Null /\ heap[x].leaf /\ heap[x].records (-) P # EmptyBag
           /\ heap' = Store(heap, One(y, Leaf(heap[x].records (-) P)))
           /\ Return(w, p, y)
  <2>1. heap[x].records (-) P = Part(Output(w), p)
    BY <1>2, <1>4, <1>7
  <2>2. LeafFits(heap[x].records (-) P, p)
    BY <1>3, <1>4, <1>7, LeafLess DEF Fits
  <2>3. "delete_copy" \in MadeIn(job[w].phase)
    BY <1>1 DEF MadeIn
  <2> QED  BY <1>1, <1>2, <1>7, <2>1, <2>2, <2>3, LeafReturn
<1>8. CASE /\ x # Null /\ ~heap[x].leaf
           /\ heap' = Store(heap, One(y, heap[x])) /\ Fork(w, p, x, y, P)
  <2>1. x \in Inner /\ x \in Settled
    BY <1>1, <1>2, <1>8, HalvesOfInput
  <2>2. \A c \in Children(p) : Part(P, c) = EmptyBag => Part(Output(w), c) = Part(Input(w), c)
    <3>1. \A c \in Children(p) : Part(P, c) = Part(job[w].del, c)
      BY <1>1, <1>2, <1>8, HalvesOfInput, GoalsAreBags
    <3>2. \A c : IsBagOfPoints(Part(Input(w), c))
      BY <1>1, GoalsAreBags, PartOfBag
    <3> QED  BY <1>2, <3>1, <3>2, SumWithNothing
  <2>3. "delete_copy" \in MadeIn(job[w].phase) \ {"merge", "build"}
    BY <1>1 DEF MadeIn
  <2>4. \A N : Moves(N) => \A c \in Children(p) \cup {p} : FrameFits(w, c)'
    BY <1>1, <1>2, <1>8, <2>2, ForkFits
  <2> QED  BY <1>1, <1>2, <1>8, <2>1, <2>3, <2>4, WorkForks
<1> QED  BY <1>5, <1>6, <1>7, <1>8 DEF DeleteCall

\* What the halves of a frame have come to.
LEMMA HalvesReturned ==
  ASSUME IInv, CInv, NEW w \in Writers, NEW p \in Paths, job[w].phase \in Working,
         pc[w][p] = "join", SonsDone(w, p), NEW L, NEW R,
         L = slot[w][Child(p, 0)], R = slot[w][Child(p, 1)]
  PROVE  /\ Len(p) < Bits /\ Child(p, 0) \in Paths /\ Child(p, 1) \in Paths
         /\ Fits(L, Child(p, 0)) /\ Contents(L) = Part(Output(w), Child(p, 0))
         /\ Fits(R, Child(p, 1)) /\ Contents(R) = Part(Output(w), Child(p, 1))
         /\ Contents(L) (+) Contents(R) = Part(Output(w), p)
         /\ NumPoints(L) + NumPoints(R) = BagCardinality(Part(Output(w), p))
         /\ NumPoints(L) \in Nat /\ NumPoints(R) \in Nat
<1>1. Len(p) < Bits
  BY DEF IInv, FramesWork, CopiesInPlace, Depths
<1>2. \A d \in {0, 1} : Child(p, d) \in Paths /\ Child(p, d) \in Children(p)
  BY <1>1, ChildrenOfPath
<1>3. /\ Fits(L, Child(p, 0)) /\ Contents(L) = Part(Output(w), Child(p, 0))
      /\ Fits(R, Child(p, 1)) /\ Contents(R) = Part(Output(w), Child(p, 1))
  BY <1>2 DEF SonsDone, CInv, WriterFits, FrameFits, ReturnFits
<1>4. NodesFit /\ IsBagOfPoints(Output(w))
  BY GoalsAreBags DEF CInv, Working
<1> QED  BY <1>1, <1>2, <1>3, <1>4, HalvesFit

\* An inner node holds more points than a leaf may.
LEMMA FewPointsAreInLeaves ==
  ASSUME IInv, CInv, NEW p \in Paths, NEW a, Fits(a, p), a # Null, NumPoints(a) <= LeafSize
  PROVE  /\ a \in DOMAIN heap /\ heap[a].leaf /\ LeafFits(heap[a].records, p)
         /\ Contents(a) = heap[a].records
<1>1. a \in Settled /\ a \in DOMAIN heap
  BY DEF Fits, Settled
<1>2. heap[a].leaf
  <2> SUFFICES ASSUME ~heap[a].leaf  PROVE FALSE
    OBVIOUS
  <2>1. NumPoints(a) = heap[a].num_pts /\ heap[a].num_pts > LeafSize
    BY <1>1 DEF NumPoints, CInv, NodesFit, NodeFits
  <2>2. NumPoints(a) \in Nat /\ LeafSize \in Nat
    BY BelowFits, ConstantsAssumption DEF CInv
  <2> QED  BY <2>1, <2>2
<1> QED  BY <1>1, <1>2, ContentsHere DEF Fits

\* A leaf of a half that has all the points of the whole.
LEMMA LeafOfAll ==
  ASSUME NEW p \in Paths, Len(p) < Bits, NEW d \in {0, 1}, NEW B, IsBagOfPoints(B),
         LeafFits(B, Child(p, d)), BagCardinality(B) <= LeafSize
  PROVE  LeafFits(B, p)
<1>1. \A x \in DOMAIN B : Under(x, p)
  BY UnderChildren DEF LeafFits, IsBagOfPoints
<1>2. B # EmptyBag
  BY ChildrenOfPath DEF LeafFits
<1> QED  BY <1>1, <1>2 DEF LeafFits, FitsLeaf

\* The points of two sons that are few enough make a leaf in order.
LEMMA SumOfLeaves ==
  ASSUME NEW p \in Paths, Len(p) < Bits, NEW A, NEW B, IsBagOfPoints(A), IsBagOfPoints(B),
         LeafFits(A, Child(p, 0)), LeafFits(B, Child(p, 1)), BagCardinality(A (+) B) <= LeafSize
  PROVE  LeafFits(A (+) B, p)
<1>1. \A x \in DOMAIN (A (+) B) : x \in DOMAIN A \/ x \in DOMAIN B
  BY DEF (+)
<1>2. \A x \in DOMAIN (A (+) B) : Under(x, p)
  BY <1>1, UnderChildren DEF LeafFits, IsBagOfPoints
<1>3. A (+) B # EmptyBag
  <2>1. A # EmptyBag
    BY ChildrenOfPath DEF LeafFits
  <2>2. PICK x \in Points : CopiesOf(x, A) # 0
    BY <2>1, NothingIsEmpty
  <2>3. CopiesOf(x, A (+) B) # 0
    BY <2>2, CopiesInSum, CopiesAreNumbers
  <2> QED  BY <2>3, NothingIsEmpty, UnionOfBags
<1> QED  BY <1>2, <1>3 DEF LeafFits, FitsLeaf

\* The sons that a deletion merges are leaves: the unchecked casts of merge_nodes are right.
LEMMA MergedSons ==
  ASSUME IInv, CInv, NEW w \in Writers, NEW p \in Paths, NEW L, NEW R,
         L = slot[w][Child(p, 0)], R = slot[w][Child(p, 1)],
         FrameAt(w, p, "delete", "join"), SonsDone(w, p), ~Keeps(L, R, NumPoints(L) + NumPoints(R))
  PROVE  /\ L # Null => heap[L].leaf /\ L \in DOMAIN heap
                        /\ LeafFits(heap[L].records, Child(p, 0)) /\ Contents(L) = heap[L].records
         /\ R # Null => heap[R].leaf /\ R \in DOMAIN heap
                        /\ LeafFits(heap[R].records, Child(p, 1)) /\ Contents(R) = heap[R].records
         /\ L # Null \/ R # Null => BagCardinality(Part(Output(w), p)) <= LeafSize
<1>1. job[w].phase \in Working /\ pc[w][p] = "join"
  BY DEF FrameAt, Working
<1>2. /\ Child(p, 0) \in Paths /\ Child(p, 1) \in Paths
      /\ Fits(L, Child(p, 0)) /\ Fits(R, Child(p, 1))
      /\ NumPoints(L) + NumPoints(R) = BagCardinality(Part(Output(w), p))
      /\ NumPoints(L) \in Nat /\ NumPoints(R) \in Nat
  BY <1>1, HalvesReturned
<1>3. L # Null \/ R # Null => NumPoints(L) + NumPoints(R) <= LeafSize
  BY <1>2, ConstantsAssumption DEF Keeps
<1>4. L # Null \/ R # Null => NumPoints(L) <= LeafSize /\ NumPoints(R) <= LeafSize
  BY <1>2, <1>3, ConstantsAssumption
<1> QED  BY <1>2, <1>3, <1>4, FewPointsAreInLeaves

\* The end of multi_version_batch_delete_sorted_node keeps the invariant.
LEMMA DeleteJoinKeeps ==
  ASSUME IInv, IInv', CInv, NEW w \in Writers, NEW p \in Paths, DeleteJoin(w, p)
  PROVE  CInv'
<1> DEFINE x == slot[w][p]
           L == slot[w][Child(p, 0)]
           R == slot[w][Child(p, 1)]
           n == NumPoints(L) + NumPoints(R)
           y == Fresh(w, "merge", p)
<1>1. /\ job[w].phase = "delete" /\ pc[w][p] = "join" /\ NoneBelow(w, p) /\ SonsDone(w, p)
      /\ UNCHANGED <<versions, job, commits>> /\ job[w].phase \in Working
      /\ FrameAt(w, p, "delete", "join")
  BY DEF DeleteJoin, FrameAt, NoneBelow, SonsDone, Working
<1>2. /\ Len(p) < Bits
      /\ Fits(L, Child(p, 0)) /\ Fits(R, Child(p, 1))
      /\ Contents(L) (+) Contents(R) = Part(Output(w), p)
      /\ n = BagCardinality(Part(Output(w), p))
  BY <1>1, HalvesReturned
<1>3. IsBagOfPoints(Contents(L)) /\ IsBagOfPoints(Contents(R)) /\ Contents(Null) = EmptyBag
  BY <1>2, ContentsHere DEF Fits, Settled
<1>4. ~Keeps(L, R, n) =>
        /\ L # Null => heap[L].leaf /\ L \in DOMAIN heap
                       /\ LeafFits(heap[L].records, Child(p, 0)) /\ Contents(L) = heap[L].records
        /\ R # Null => heap[R].leaf /\ R \in DOMAIN heap
                       /\ LeafFits(heap[R].records, Child(p, 1)) /\ Contents(R) = heap[R].records
        /\ L # Null \/ R # Null => BagCardinality(Part(Output(w), p)) <= LeafSize
  BY <1>1, MergedSons
<1>5. CASE Keeps(L, R, n) /\ heap' = Store(heap, One(x, Inte(L, R, n))) /\ Return(w, p, x)
  BY <1>1, <1>2, <1>5, InteReturn DEF Keeps
<1>6. CASE ~Keeps(L, R, n) /\ L = Null /\ Return(w, p, R) /\ UNCHANGED heap
  <2>1. Contents(R) = Part(Output(w), p)
    BY <1>2, <1>3, <1>6, SumWithNothing
  <2>2. Fits(R, p)
    <3>1. ASSUME R # Null  PROVE LeafFits(heap[R].records, p) /\ heap[R].leaf /\ R \in Settled
      BY <1>2, <1>3, <1>4, <1>6, <2>1, <3>1, LeafOfAll DEF Fits
    <3> QED  BY <3>1 DEF Fits
  <2> QED  BY <1>1, <1>6, <2>1, <2>2, QuietReturn
<1>7. CASE ~Keeps(L, R, n) /\ L # Null /\ R = Null /\ Return(w, p, L) /\ UNCHANGED heap
  <2>1. Contents(L) = Part(Output(w), p)
    BY <1>2, <1>3, <1>7, SumWithNothing
  <2>2. Fits(L, p)
    <3>1. LeafFits(heap[L].records, p) /\ heap[L].leaf /\ L \in Settled
      BY <1>2, <1>3, <1>4, <1>7, <2>1, LeafOfAll DEF Fits
    <3> QED  BY <3>1 DEF Fits
  <2> QED  BY <1>1, <1>7, <2>1, <2>2, QuietReturn
<1>8. CASE /\ ~Keeps(L, R, n) /\ L # Null /\ R # Null
           /\ \E A \in RecordsRead(L), B \in RecordsRead(R) :
                heap' = Store(heap, One(y, Leaf(A (+) B)))
           /\ Return(w, p, y)
  <2>1. RecordsRead(L) = {Contents(L)} /\ RecordsRead(R) = {Contents(R)}
    BY <1>4, <1>8 DEF RecordsRead
  <2>2. heap' = Store(heap, One(y, Leaf(Contents(L) (+) Contents(R))))
    BY <1>8, <2>1
  <2>3. LeafFits(Contents(L) (+) Contents(R), p)
    BY <1>2, <1>3, <1>4, <1>8, SumOfLeaves
  <2>4. "merge" \in MadeIn(job[w].phase)
    BY <1>1 DEF MadeIn
  <2> QED  BY <1>1, <1>2, <1>8, <2>2, <2>3, <2>4, LeafReturn
<1> QED  BY <1>5, <1>6, <1>7, <1>8 DEF DeleteJoin

-----------------------------------------------------------------------------
(* Insertions.                                                             *)

\* What multi_version_batch_insert_sorted_node is to deliver at every path.
LEMMA InsertionGoal ==
  ASSUME IInv, NEW w \in Writers, job[w].phase = "insert"
  PROVE  /\ job[w].phase \in Working /\ Input(w) = Kept(w) /\ Output(w) = Result(w)
         /\ \A q : Part(Output(w), q) = Part(Input(w), q) (+) Part(job[w].ins, q)
<1>1. Input(w) = Kept(w) /\ Output(w) = Result(w) /\ job[w].phase \in Working
  BY DEF Input, Output, Working
<1> QED  BY <1>1, GoalsAreBags, PartOfSum DEF Result

\* Two bags of points of a region make one of points of the region.
LEMMA SumsOfPoints ==
  ASSUME NEW A, NEW B, IsBagOfPoints(A), IsBagOfPoints(B), NEW p,
         \A x \in DOMAIN A \cup DOMAIN B : Under(x, p)
  PROVE  /\ \A x \in DOMAIN (A (+) B) : Under(x, p)
         /\ A # EmptyBag \/ B # EmptyBag => A (+) B # EmptyBag
<1>1. \A x \in DOMAIN (A (+) B) : Under(x, p)
  BY DEF (+)
<1>2. ASSUME A # EmptyBag \/ B # EmptyBag  PROVE A (+) B # EmptyBag
  <2>1. PICK x \in Points : CopiesOf(x, A) # 0 \/ CopiesOf(x, B) # 0
    BY <1>2, NothingIsEmpty
  <2>2. CopiesOf(x, A (+) B) # 0
    BY <2>1, CopiesInSum, CopiesAreNumbers
  <2> QED  BY <2>2, NothingIsEmpty, UnionOfBags
<1> QED  BY <1>1, <1>2

\* A call of multi_version_batch_insert_sorted_node keeps the invariant.
LEMMA InsertCallKeeps ==
  ASSUME IInv, IInv', CInv, NEW w \in Writers, NEW p \in Paths, InsertCall(w, p)
  PROVE  CInv'
<1> DEFINE x == Argument(w, p)
           P == Part(job[w].ins, p)
           y == Fresh(w, "insert_copy", p)
           c == job[w].id
           merged == heap[x].records (+) P
           fits == FitsLeaf(BagCardinality(merged), p)
<1>1. /\ job[w].phase = "insert" /\ pc[w][p] = "call" /\ NoneBelow(w, p)
      /\ UNCHANGED <<versions, job, commits>>
  BY DEF InsertCall, FrameAt, NoneBelow
<1>2. /\ job[w].phase \in Working
      /\ \A q : Part(Output(w), q) = Part(Input(w), q) (+) Part(job[w].ins, q)
  BY <1>1, InsertionGoal
<1>3. /\ Fits(x, p) /\ Contents(x) = Part(Input(w), p) /\ x \in Settled \cup {Null}
      /\ IsBagOfPoints(P) /\ IsBagOfPoints(Part(Input(w), p)) /\ IsBagOfPoints(Part(Output(w), p))
  BY <1>1, <1>2, ArgumentFits, GoalsAreBags, PartOfBag
<1>4. x # Null /\ heap[x].leaf => x \in DOMAIN heap /\ heap[x].records = Part(Input(w), p)
  BY <1>3, ContentsHere DEF Settled
<1>5. p # << >> => P # EmptyBag
  BY <1>1, <1>2 DEF CInv, WriterFits, FrameFits
<1>6. /\ \A z \in DOMAIN Part(Output(w), p) : Under(z, p)
      /\ p # << >> => Part(Output(w), p) # EmptyBag
  <2>1. \A z \in DOMAIN Part(Input(w), p) \cup DOMAIN P : Under(z, p)
    BY DEF Part
  <2> QED  BY <1>2, <1>3, <1>5, <2>1, SumsOfPoints
<1>7. CASE /\ x = Null /\ heap' = Store(heap, Build(P, p, c))
           /\ Return(w, p, BuildAddress(c, p))
  <2>1. Part(Input(w), p) = EmptyBag
    BY <1>3, <1>7, ContentsHere
  <2>2. P = Part(Output(w), p)
    BY <1>2, <1>3, <2>1, SumWithNothing
  <2> HIDE DEF P
  <2> QED  BY <1>1, <1>3, <1>6, <1>7, <2>2, BuildReturn
<1>8. CASE /\ x # Null /\ heap[x].leaf /\ fits
           /\ heap' = Store(heap, One(y, Leaf(merged))) /\ Return(w, p, y)
  <2>1. merged = Part(Output(w), p)
    BY <1>2, <1>4, <1>8
  <2>2. LeafFits(merged, p)
    <3> HIDE DEF merged
    <3> QED  BY <1>6, <1>8, <2>1 DEF LeafFits
  <2>3. "insert_copy" \in MadeIn(job[w].phase)
    BY <1>1 DEF MadeIn
  <2> QED  BY <1>1, <1>2, <1>8, <2>1, <2>2, <2>3, LeafReturn
<1>9. CASE /\ x # Null /\ heap[x].leaf /\ ~fits
           /\ heap' = Store(heap, Build(merged, p, c))
           /\ Return(w, p, BuildAddress(c, p))
  <2>1. merged = Part(Output(w), p)
    BY <1>2, <1>4, <1>9
  <2> HIDE DEF merged
  <2> QED  BY <1>1, <1>3, <1>6, <1>9, <2>1, BuildReturn
<1>10. CASE /\ x # Null /\ ~heap[x].leaf
            /\ heap' = Store(heap, One(y, heap[x])) /\ Fork(w, p, x, y, P)
  <2>1. x \in Inner /\ x \in Settled
    BY <1>1, <1>2, <1>10, HalvesOfInput
  <2>2. \A q \in Children(p) : Part(P, q) = Part(job[w].ins, q)
    BY <1>1, <1>2, <1>10, HalvesOfInput, GoalsAreBags
  <2>3. \A q \in Children(p) : Part(P, q) = EmptyBag => Part(Output(w), q) = Part(Input(w), q)
    <3>1. \A q : IsBagOfPoints(Part(Input(w), q))
      BY <1>1, GoalsAreBags, PartOfBag
    <3> QED  BY <1>2, <2>2, <3>1, SumWithNothing
  <2>4. "insert_copy" \in MadeIn(job[w].phase) \ {"merge", "build"}
    BY <1>1 DEF MadeIn
  <2>5. \A N : Moves(N) => \A q \in Children(p) \cup {p} : FrameFits(w, q)'
    BY <1>1, <1>2, <1>10, <2>2, <2>3, ForkFits
  <2> QED  BY <1>1, <1>2, <1>10, <2>1, <2>4, <2>5, WorkForks
<1> QED  BY <1>7, <1>8, <1>9, <1>10 DEF InsertCall

\* The end of multi_version_batch_insert_sorted_node keeps the invariant.
LEMMA InsertJoinKeeps ==
  ASSUME IInv, IInv', CInv, NEW w \in Writers, NEW p \in Paths, InsertJoin(w, p)
  PROVE  CInv'
<1> DEFINE x == slot[w][p]
           L == slot[w][Child(p, 0)]
           R == slot[w][Child(p, 1)]
           n == NumPoints(L) + NumPoints(R)
<1>1. /\ job[w].phase = "insert" /\ pc[w][p] = "join" /\ NoneBelow(w, p) /\ SonsDone(w, p)
      /\ UNCHANGED <<versions, job, commits>> /\ job[w].phase \in Working
      /\ heap' = Store(heap, One(x, Inte(L, R, n))) /\ Return(w, p, x)
  BY DEF InsertJoin, FrameAt, NoneBelow, SonsDone, Working
<1>2. n = BagCardinality(Part(Output(w), p))
  BY <1>1, HalvesReturned
<1>3. n > LeafSize
  <2>1. IsBagOfPoints(Part(Input(w), p)) /\ IsBagOfPoints(Part(job[w].ins, p))
    BY <1>1, GoalsAreBags, PartOfBag
  <2>2. n = BagCardinality(Part(Input(w), p)) + BagCardinality(Part(job[w].ins, p))
    BY <1>1, <1>2, <2>1, InsertionGoal, SizeOfSum
  <2>3. BagCardinality(Part(Input(w), p)) > LeafSize
    BY <1>1 DEF CInv, WriterFits, FrameFits
  <2>4. BagCardinality(Part(Input(w), p)) \in Nat /\ BagCardinality(Part(job[w].ins, p)) \in Nat
        /\ LeafSize \in Nat
    BY <2>1, SizeIsNumber, ConstantsAssumption
  <2> HIDE DEF n
  <2> QED  BY <2>2, <2>3, <2>4
<1> QED  BY <1>1, <1>2, <1>3, InteReturn

-----------------------------------------------------------------------------
(* Between two phases no frame of the commit holds anything.               *)

\* The variables of w before and after; those of the others stay.
Between(w) ==
  /\ UNCHANGED heap
  /\ \A u \in Writers \ {w} : job'[u] = job[u] /\ pc'[u] = pc[u] /\ slot'[u] = slot[u]
  /\ \A p \in Paths : /\ pc[w][p] # "join" /\ slot'[w][p] = Null
                      /\ pc'[w][p] \notin {"join", "done"}
                      /\ p # << >> => pc'[w][p] = "idle"
  /\ \A v \in DOMAIN versions' : versions'[v] \in Settled \cup {Null}
  /\ job'[w].new_ver \in Settled \cup {Null}
  /\ job'[w].phase # "gc" => job'[w].tmp_ver \in Settled \cup {Null}

\* A step between two phases moves nothing.
LEMMA BetweenMoves ==
  ASSUME IInv, CInv, NEW w \in Writers, Between(w)
  PROVE  Moves({}) /\ Copies' = Copies
<1>1. \A r \in Writers \X Paths :
        /\ Forked(r[1], r[2])' <=> Forked(r[1], r[2])
        /\ Opened(r[1], r[2])' <=> Opened(r[1], r[2])
        /\ Forked(r[1], r[2]) \/ Opened(r[1], r[2]) => slot'[r[1]][r[2]] = slot[r[1]][r[2]]
  BY DEF Between, Forked, Opened
<1>2. Copies' = Copies /\ Dying' = Dying
  BY <1>1 DEF Copies, Dying
<1>3. Roots \subseteq Settled \cup {Null}
  BY WhatIsHeld DEF CInv, WriterFits
<1>4. Inner' = Inner /\ \A b, d : Son(b, d)' = Son(b, d)
  BY DEF Between, Inner, Son
<1>5. Roots' \subseteq Settled \cup {Null}
  <2>1. \A b \in Inner' \ Dying', d \in {0, 1} : Son(b, d)' \in Roots
    BY <1>2, <1>4 DEF Roots
  <2>2. \A u \in Writers \ {w} : /\ job'[u].new_ver \in Roots
                                 /\ job'[u].phase # "gc" => job'[u].tmp_ver \in Roots
    BY DEF Between, Roots
  <2> QED  BY <1>3, <2>1, <2>2 DEF Roots, Between
<1>6. ASSUME NEW u \in Owners', NEW q \in Paths
      PROVE  slot'[u][q] = Null \/ (u \in Owners /\ slot'[u][q] = slot[u][q])
  BY DEF Owners, Between
<1> QED  BY <1>2, <1>5, <1>6 DEF Moves, Between

\* What a step between two phases has to show for the invariant: its own roots, its own
\* nodes, its own version.
LEMMA BetweenKeeps ==
  ASSUME IInv, IInv', CInv, NEW w \in Writers, Between(w), Moves({}), Copies' = Copies,
         \A u \in Writers \ {w} : job[u].phase # "idle" =>
           SameCommit(u) /\ job[u].id \notin DOMAIN versions' \ DOMAIN versions,
         VersionsFit', RootsFit(w)', Allocated(w)', Unpublished(w)'
  PROVE  CInv'
<1>1. Settled' \subseteq Settled
  BY HeldThen
<1>2. NodesFit'
  BY <1>1, NodesThen DEF NodesFit
<1>3. ASSUME NEW u \in Writers \ {w}  PROVE WriterFits(u)'
  BY OthersThen DEF Between
<1>4. \A p \in Paths : FrameFits(w, p)'
  BY DEF Between, FrameFits
<1>5. FramesNest(w)'
  <2>1. \A q \in Paths : Leads(q, << >>) => q = << >>
    BY RootIsPath, LeadsBothWays, PathTypes
  <2> QED  BY <2>1 DEF FramesNest, Between
<1>6. BothCalled(w)' /\ CopiesAlone(w)' /\ DyingAlone(w)'
  BY DEF Between, BothCalled, CopiesAlone, DyingAlone, Forked, Opened
<1> QED  BY <1>2, <1>3, <1>4, <1>5, <1>6 DEF CInv, WriterFits

\* The root has returned: so has all below.
LEMMA AllReturned ==
  ASSUME IInv, CInv, NEW w \in Writers, pc[w][<< >>] = "done"
  PROVE  \A p \in Paths : pc[w][p] # "join"
<1>1. FramesNest(w)
  BY DEF CInv, WriterFits
<1>2. \A p \in Paths : Leads(<< >>, p)
  BY LeadsTrivially
<1> QED  BY <1>1, <1>2, RootIsPath DEF FramesNest

\* When the frame at the root has returned, the tree of the phase is complete.
LEMMA RootReturned ==
  ASSUME IInv, CInv, NEW w \in Writers, job[w].phase \in Working, pc[w][<< >>] = "done"
  PROVE  /\ Fits(slot[w][<< >>], << >>) /\ Contents(slot[w][<< >>]) = Output(w)
         /\ slot[w][<< >>] \in Settled \cup {Null}
<1>1. ReturnFits(w, << >>)
  BY RootIsPath DEF CInv, WriterFits, FrameFits
<1>2. Part(Output(w), << >>) = Output(w)
  BY GoalsAreBags, PartAtTop DEF Working
<1> QED  BY <1>1, <1>2 DEF ReturnFits, Fits

\* The versions are settled nodes.
LEMMA VersionsAreSettled ==
  ASSUME CInv, NEW v \in DOMAIN versions
  PROVE  versions[v] \in Settled \cup {Null}
BY DEF CInv, VersionsFit, Fits

\* The frames at the start of a phase.
LEMMA FramesStartAgain ==
  ASSUME IInv, NEW w \in Writers, StartFrames(w)
  PROVE  /\ \A u \in Writers \ {w} : pc'[u] = pc[u] /\ slot'[u] = slot[u]
         /\ \A p \in Paths : /\ slot'[w][p] = Null
                             /\ pc'[w][p] = IF p = << >> THEN "call" ELSE "idle"
BY FramesStart DEF IInv

\* commit keeps the invariant between deletion and insertion.
LEMMA StartInsertKeeps ==
  ASSUME IInv, IInv', CInv, NEW w \in Writers, StartInsert(w)
  PROVE  CInv'
<1> DEFINE a == slot[w][<< >>]
<1>t. job \in [Writers -> Jobs(commits)]
  BY DEF IInv, TypeOK, Jobs
<1>1. /\ job[w].phase = "delete" /\ pc[w][<< >>] = "done" /\ job[w].phase \in Working
      /\ StartFrames(w) /\ UNCHANGED <<heap, versions, commits>>
      /\ \A u \in Writers \ {w} : job'[u] = job[u]
      /\ job'[w].phase = "insert" /\ job'[w].tmp_ver = a /\ job'[w].new_ver = job[w].new_ver
      /\ job'[w].id = job[w].id /\ job'[w].base = job[w].base
      /\ job'[w].ins = job[w].ins /\ job'[w].del = job[w].del
  BY <1>t DEF StartInsert, FrameAt, Jobs, Working
<1>2. Fits(a, << >>) /\ Contents(a) = Output(w) /\ a \in Settled \cup {Null}
  BY <1>1, RootReturned
<1>3. job[w].new_ver \in Settled \cup {Null}
  BY WhatIsHeld DEF Roots, CInv, WriterFits
<1>4. Between(w)
  BY <1>1, <1>2, <1>3, AllReturned, FramesStartAgain, VersionsAreSettled DEF Between
<1>5. Moves({}) /\ Copies' = Copies
  BY <1>4, BetweenMoves
<1>6. \A u \in Writers : job[u].phase # "idle" => SameCommit(u)
  BY <1>1, GoalsAreBags DEF SameCommit
<1>7. RootsFit(w)'
  <2>1. ASSUME NEW s, s = a
        PROVE  Fits(job[w].tmp_ver, << >>)' /\ Contents(job[w].tmp_ver)' = Contents(s)
    <3>1. s \in Held'
      BY <1>1, <2>1 DEF Held, Roots
    <3>2. Fits(s, << >>)' /\ Contents(s)' = Contents(s)
      BY <1>2, <1>5, <2>1, <3>1, FitsThen
    <3> QED  BY <1>1, <2>1, <3>2 DEF Fits, Contents
  <2>2. Kept(w)' = Output(w)
    BY <1>1, <1>5, <1>6, GoalsThen DEF Output
  <2> QED  BY <1>1, <1>2, <2>1, <2>2 DEF RootsFit
<1>8. Allocated(w)'
  <2>1. Allocated(w)
    BY DEF CInv, WriterFits
  <2> QED  BY <1>1, <2>1 DEF Allocated, MadeIn
<1>9. Unpublished(w)'
  BY <1>1 DEF CInv, WriterFits, Unpublished
<1>10. VersionsFit'
  BY <1>1, <1>5, VersionsThen
<1> QED  BY <1>1, <1>4, <1>5, <1>6, <1>7, <1>8, <1>9, <1>10, BetweenKeeps

\* commit keeps the invariant between insertion and gc_nocheck.
LEMMA StartGcKeeps ==
  ASSUME IInv, IInv', CInv, NEW w \in Writers, StartGc(w)
  PROVE  CInv'
<1> DEFINE a == slot[w][<< >>]
<1>t. job \in [Writers -> Jobs(commits)]
  BY DEF IInv, TypeOK, Jobs
<1>1. /\ job[w].phase = "insert" /\ pc[w][<< >>] = "done" /\ job[w].phase \in Working
      /\ StartFrames(w) /\ UNCHANGED <<heap, versions, commits>>
      /\ \A u \in Writers \ {w} : job'[u] = job[u]
      /\ job'[w].phase = "gc" /\ job'[w].new_ver = a
      /\ job'[w].id = job[w].id /\ job'[w].base = job[w].base
      /\ job'[w].ins = job[w].ins /\ job'[w].del = job[w].del
  BY <1>t DEF StartGc, FrameAt, Jobs, Working
<1>2. Fits(a, << >>) /\ Contents(a) = Output(w) /\ a \in Settled \cup {Null}
  BY <1>1, RootReturned
<1>4. Between(w)
  BY <1>1, <1>2, AllReturned, FramesStartAgain, VersionsAreSettled DEF Between
<1>5. Moves({}) /\ Copies' = Copies
  BY <1>4, BetweenMoves
<1>6. \A u \in Writers : job[u].phase # "idle" => SameCommit(u)
  BY <1>1, GoalsAreBags DEF SameCommit
<1>7. RootsFit(w)'
  <2>1. ASSUME NEW s, s = a
        PROVE  Fits(job[w].new_ver, << >>)' /\ Contents(job[w].new_ver)' = Contents(s)
    <3>1. s \in Held'
      BY <1>1, <2>1 DEF Held, Roots
    <3>2. Fits(s, << >>)' /\ Contents(s)' = Contents(s)
      BY <1>2, <1>5, <2>1, <3>1, FitsThen
    <3> QED  BY <1>1, <2>1, <3>2 DEF Fits, Contents
  <2>2. Result(w)' = Output(w)
    BY <1>1, <1>5, <1>6, GoalsThen DEF Output
  <2> QED  BY <1>1, <1>2, <2>1, <2>2 DEF RootsFit
<1>8. Allocated(w)'
  BY <1>1 DEF Allocated, Working
<1>9. Unpublished(w)'
  BY <1>1 DEF CInv, WriterFits, Unpublished
<1>10. VersionsFit'
  BY <1>1, <1>5, VersionsThen
<1> QED  BY <1>1, <1>4, <1>5, <1>6, <1>7, <1>8, <1>9, <1>10, BetweenKeeps

\* The start of commit keeps the invariant.
LEMMA BeginKeeps ==
  ASSUME IInv, IInv', CInv, NEW w \in Writers, NEW v \in DOMAIN versions,
         NEW ins \in Batches, NEW del \in Batches, Begin(w, v, ins, del)
  PROVE  CInv'
<1>t. job \in [Writers -> Jobs(commits)] /\ TypeOK /\ commits \in Nat
  BY DEF IInv, TypeOK, Jobs
<1>1. /\ job[w].phase = "idle" /\ StartFrames(w) /\ UNCHANGED <<heap, versions>>
      /\ \A u \in Writers \ {w} : job'[u] = job[u]
      /\ job'[w].phase = "delete" /\ job'[w].id = commits + 1
      /\ job'[w].tmp_ver = Null /\ job'[w].new_ver = Null
  BY <1>t DEF Begin, Idle, Jobs
<1>2. pc[w] = NoFrames
  BY <1>t, <1>1 DEF TypeOK
<1>3. Between(w)
  BY <1>1, <1>2, FramesStartAgain, VersionsAreSettled DEF Between, NoFrames
<1>4. Moves({}) /\ Copies' = Copies
  BY <1>3, BetweenMoves
<1>5. \A u \in Writers \ {w} : job[u].phase # "idle" => SameCommit(u)
  BY <1>1, GoalsAreBags DEF SameCommit
<1>6. RootsFit(w)'
  BY <1>1 DEF RootsFit
<1>7. Allocated(w)'
  <2>1. \A a \in DOMAIN heap : a.owner \in Nat /\ a.owner <= commits
    BY <1>t DEF IInv, JobsDiffer, TypeOK, Address
  <2>2. \A a \in DOMAIN heap : a.owner # commits + 1
    BY <1>t, <2>1
  <2> QED  BY <1>1, <2>2 DEF Allocated
<1>8. Unpublished(w)'
  BY <1>t, <1>1 DEF Unpublished, TypeOK
<1>9. VersionsFit'
  BY <1>1, <1>4, VersionsThen
<1> QED  BY <1>1, <1>3, <1>4, <1>5, <1>6, <1>7, <1>8, <1>9, BetweenKeeps

\* What commit returns is settled, and what it is meant to be.
LEMMA Returned ==
  ASSUME IInv, CInv, NEW w \in Writers, job[w].phase = "gc"
  PROVE  /\ Fits(job[w].new_ver, << >>) /\ Contents(job[w].new_ver) = Result(w)
         /\ job[w].new_ver \in Settled \cup {Null} /\ job[w].new_ver \in Held
  BY DEF CInv, WriterFits, RootsFit, Fits, Held, Roots

\* The versions once w has returned.
LEMMA Publishes ==
  ASSUME IInv, CInv, NEW w \in Writers, Finish(w)
  PROVE  /\ job[w].phase = "gc" /\ job[w].id \notin DOMAIN versions
         /\ DOMAIN versions' = DOMAIN versions \cup {job[w].id}
         /\ versions'[job[w].id] = job[w].new_ver
         /\ \A v \in DOMAIN versions : versions'[v] = versions[v]
  BY DEF Finish, FrameAt, CInv, WriterFits, Unpublished

\* The end of commit, where new_ver becomes a version, keeps the invariant.
LEMMA FinishKeeps ==
  ASSUME IInv, IInv', CInv, NEW w \in Writers, Finish(w)
  PROVE  CInv'
<1>t. job \in [Writers -> Jobs(commits)] /\ TypeOK
  BY DEF IInv, TypeOK, Jobs
<1>1. /\ UNCHANGED heap /\ pc[w][<< >>] = "done"
      /\ \A u \in Writers \ {w} : job'[u] = job[u] /\ pc'[u] = pc[u] /\ slot'[u] = slot[u]
      /\ job'[w] = Idle /\ pc'[w] = NoFrames /\ slot'[w] = NoSlots
  BY <1>t DEF Finish, FrameAt, TypeOK
<1>2. job'[w].phase = "idle" /\ job'[w].tmp_ver = Null /\ job'[w].new_ver = Null
  BY <1>1 DEF Idle
<1>3. \A v \in DOMAIN versions' : versions'[v] \in Settled \cup {Null}
  BY Publishes, Returned, VersionsAreSettled
<1>4. Between(w)
  BY <1>1, <1>2, <1>3, AllReturned DEF Between, NoFrames, NoSlots
<1>5. Moves({}) /\ Copies' = Copies
  BY <1>4, BetweenMoves
<1>6. ASSUME NEW u \in Writers \ {w}, job[u].phase # "idle"
      PROVE  SameCommit(u) /\ job[u].id \notin DOMAIN versions' \ DOMAIN versions
  <2>1. job[u].base \in DOMAIN versions
    BY <1>6 DEF IInv, JobsDiffer
  <2>2. job[w].id # job[u].id
    BY Publishes DEF IInv, JobsDiffer
  <2>3. job[u].base # job[w].id
    BY <2>1, Publishes
  <2> QED  BY <1>1, <2>1, <2>2, <2>3, Publishes DEF SameCommit
<1>7. VersionsFit'
  <2> SUFFICES ASSUME NEW v \in DOMAIN versions'  PROVE Fits(versions[v], << >>)'
    BY DEF VersionsFit
  <2>1. ASSUME NEW s, s = versions'[v]  PROVE Fits(versions[v], << >>)'
    <3>1. s \in Held'
      BY <2>1 DEF Held, Roots
    <3>2. Fits(s, << >>)
      BY <2>1, Publishes, Returned DEF CInv, VersionsFit
    <3>3. Fits(s, << >>)'
      BY <1>5, <3>1, <3>2, FitsThen
    <3> QED  BY <2>1, <3>3 DEF Fits
  <2> QED  BY <2>1
<1>8. RootsFit(w)' /\ Allocated(w)' /\ Unpublished(w)'
  BY <1>2 DEF RootsFit, Allocated, Unpublished, Working
<1> QED  BY <1>4, <1>5, <1>6, <1>7, <1>8, BetweenKeeps

-----------------------------------------------------------------------------
(* gc_nocheck.                                                             *)

\* A step of gc_nocheck(tmp_ver), in the commit of w.
GcMoves(w) ==
  /\ job[w].phase = "gc" /\ job'[w].phase = "gc"
  /\ job'[w].id = job[w].id /\ job'[w].base = job[w].base /\ job'[w].ins = job[w].ins
  /\ job'[w].del = job[w].del /\ job'[w].new_ver = job[w].new_ver
  /\ UNCHANGED <<versions, commits>>
  /\ \A u \in Writers \ {w} : job'[u] = job[u] /\ pc'[u] = pc[u] /\ slot'[u] = slot[u]

\* A step of gc_nocheck leaves copies and the slots of others alone.
LEMMA GcCopies ==
  ASSUME NEW w \in Writers, GcMoves(w)
  PROVE  /\ Copies' = Copies /\ Owners' = Owners
         /\ \A u \in Owners', q \in Paths : u \in Owners /\ slot'[u][q] = slot[u][q]
<1>1. \A r \in Writers \X Paths :
        /\ Forked(r[1], r[2])' <=> Forked(r[1], r[2])
        /\ Forked(r[1], r[2]) => slot'[r[1]][r[2]] = slot[r[1]][r[2]]
  BY DEF GcMoves, Forked, Working
<1>2. Copies' = Copies
  BY <1>1 DEF Copies
<1>3. Owners' = Owners
  BY DEF GcMoves, Owners
<1>4. \A u \in Owners : u \in Writers \ {w}
  BY DEF GcMoves, Owners, Working
<1> QED  BY <1>2, <1>3, <1>4 DEF GcMoves

\* What a step of gc_nocheck has to show for the invariant.
LEMMA GcKeeps ==
  ASSUME IInv, IInv', CInv, NEW w \in Writers, GcMoves(w), Moves({}), FramesNest(w)'
  PROVE  CInv'
<1>1. Settled' \subseteq Settled
  BY HeldThen, GcCopies
<1>2. NodesFit' /\ VersionsFit'
  BY <1>1, NodesThen, VersionsThen DEF NodesFit, GcMoves
<1>3. \A u \in Writers : job[u].phase # "idle" => SameCommit(u)
  BY GoalsAreBags DEF SameCommit, GcMoves
<1>4. ASSUME NEW u \in Writers \ {w}  PROVE WriterFits(u)'
  BY <1>3, OthersThen DEF GcMoves
<1>5. RootsFit(w)'
  BY <1>3, RootsThen DEF GcMoves
<1>6. \A p \in Paths : FrameFits(w, p)' /\ ~Forked(w, p)'
  BY DEF GcMoves, FrameFits, Forked, Working
<1>7. BothCalled(w)' /\ CopiesAlone(w)' /\ Allocated(w)'
  BY <1>6 DEF BothCalled, CopiesAlone, Allocated, GcMoves, Working
<1>8. DyingAlone(w)'
  BY HeldThen, SlotsOfFramesThen DEF DyingAlone
<1>9. Unpublished(w)'
  BY DEF Unpublished, GcMoves, CInv, WriterFits
<1> QED  BY <1>2, <1>4, <1>5, <1>6, <1>7, <1>8, <1>9 DEF CInv, WriterFits

\* A frame that gc_nocheck runs is below the frames that wait for it.
LEMMA NoneCalledBelow ==
  ASSUME IInv, CInv, NEW w \in Writers, NEW p \in Paths, pc[w][p] = "call"
  PROVE  \A c \in Children(p) : pc[w][c] = "idle"
<1>1. \A c \in Children(p) : c \in Paths /\ c # p /\ Leads(p, c)
  BY ChildrenArePaths, LeadsToChild, LeadsTrivially
<1> QED  BY <1>1 DEF CInv, WriterFits, FramesNest

\* The only reference to x is the one the frame came by: nothing holds x.
LEMMA LoneReference ==
  ASSUME IInv, NEW w \in Writers, job[w].phase = "gc", NEW p \in Paths, pc[w][p] = "call",
         NEW x, x = GcArgument(w, p), UseCountIsOne(x)
  PROVE  x \notin Held
<1>1. p # << >> => /\ Parent(p) \in Paths /\ pc[w][Parent(p)] = "join" /\ p[Len(p)] \in {0, 1}
                   /\ slot[w][Parent(p)] \in Inner
                   /\ x = Son(slot[w][Parent(p)], p[Len(p)])
  BY GcParent
<1>2. PICK r : References(x) = {r}
  BY DEF UseCountIsOne
<1>3. r = IF p = << >> THEN <<"tmp_ver", w>>
          ELSE <<"son", slot[w][Parent(p)], p[Len(p)]>>
  <2>1. CASE p = << >>
    <3>1. job[w].tmp_ver = x
      BY <2>1 DEF GcArgument
    <3>2. <<"tmp_ver", w>> \in References(x)
      BY <3>1 DEF References
    <3> QED  BY <1>2, <2>1, <3>2
  <2>2. CASE p # << >>
    <3>1. <<"son", slot[w][Parent(p)], p[Len(p)]>> \in References(x)
      BY <1>1, <2>2 DEF References
    <3> QED  BY <1>2, <2>2, <3>1
  <2> QED  BY <2>1, <2>2
<1>4. \A v \in DOMAIN versions : versions[v] # x
  <2>1. \A v \in DOMAIN versions : versions[v] = x => <<"version", v>> \in References(x)
    BY DEF References
  <2> QED  BY <1>2, <1>3, <2>1
<1>5. ASSUME NEW b \in Inner \ Dying, NEW d \in {0, 1}  PROVE Son(b, d) # x
  <2> SUFFICES ASSUME Son(b, d) = x  PROVE FALSE
    OBVIOUS
  <2>1. <<"son", b, d>> \in References(x)
    BY DEF References
  <2>2. p # << >> /\ b = slot[w][Parent(p)]
    BY <1>2, <1>3, <2>1
  <2>3. Opened(w, Parent(p))
    BY <1>1, <2>2 DEF Opened
  <2> QED  BY <1>1, <2>2, <2>3, SlotsOfFrames
<1>6. ASSUME NEW u \in Writers
      PROVE  job[u].new_ver # x /\ (job[u].phase # "gc" => job[u].tmp_ver # x)
  <2>1. /\ job[u].tmp_ver = x => <<"tmp_ver", u>> \in References(x)
        /\ job[u].new_ver = x => <<"new_ver", u>> \in References(x)
    BY DEF References
  <2> QED  BY <1>2, <1>3, <2>1
<1>7. ASSUME NEW u \in Owners, NEW q \in Paths  PROVE slot[u][q] # x
  <2>1. slot[u][q] = x => <<"slot", u, q>> \in References(x)
    BY DEF References
  <2> QED  BY <1>2, <1>3, <2>1
<1>8. x \notin Roots
  BY <1>4, <1>5, <1>6 DEF Roots
<1> QED  BY <1>7, <1>8 DEF Held

\* gc_nocheck keeps the invariant where it goes into a son that nobody else refers to.
LEMMA GcDescendKeeps ==
  ASSUME IInv, IInv', CInv, NEW w \in Writers, NEW p \in Paths, GcCall(w, p),
         GcDescends(GcArgument(w, p))
  PROVE  CInv'
<1> DEFINE x == GcArgument(w, p)
<1>t. /\ pc \in [Writers -> [Paths -> {"idle", "call", "join", "done"}]]
      /\ slot \in [Writers -> [Paths -> AddressOrNull]]
  BY DEF IInv, TypeOK
<1>1. /\ job[w].phase = "gc" /\ pc[w][p] = "call" /\ x # Null /\ ~heap[x].leaf /\ UseCountIsOne(x)
      /\ UNCHANGED <<heap, job, versions, commits>>
      /\ pc' = [pc EXCEPT ![w] = [q \in Paths |->
                  IF q = p THEN "join" ELSE IF q \in Children(p) THEN "call" ELSE pc[w][q]]]
      /\ slot' = [slot EXCEPT ![w][p] = x]
  BY <1>t DEF GcCall, GcDescends, FrameAt
<1>2. x \notin Held
  BY <1>1, LoneReference
<1>3. x \in Inner
  <2>1. p # << >> => /\ p[Len(p)] \in {0, 1} /\ slot[w][Parent(p)] \in Inner
                     /\ x = Son(slot[w][Parent(p)], p[Len(p)])
    BY <1>1, GcParent
  <2>2. x \in Referenced
    BY <2>1 DEF GcArgument, Referenced
  <2> QED  BY <1>1, <2>2 DEF IInv, NoDanglingReference, Inner
<1> HIDE DEF x
<1>4. /\ \A u \in Writers \ {w} : pc'[u] = pc[u] /\ slot'[u] = slot[u]
      /\ \A q \in Paths :
           /\ pc'[w][q] = IF q = p THEN "join" ELSE IF q \in Children(p) THEN "call" ELSE pc[w][q]
           /\ slot'[w][q] = IF q = p THEN x ELSE slot[w][q]
  BY <1>t, <1>1
<1>5. \A c \in Children(p) : pc[w][c] = "idle"
  BY <1>1, NoneCalledBelow
<1>6. GcMoves(w)
  BY <1>1, <1>4 DEF GcMoves
<1>7. Dying' \subseteq Dying \cup {x} /\ Dying \subseteq Dying'
  <2>1. \A r \in Writers \X Paths :
          /\ Opened(r[1], r[2])' => \/ slot'[r[1]][r[2]] = x
                                    \/ Opened(r[1], r[2]) /\ slot'[r[1]][r[2]] = slot[r[1]][r[2]]
          /\ Opened(r[1], r[2]) => Opened(r[1], r[2])' /\ slot'[r[1]][r[2]] = slot[r[1]][r[2]]
    <3> SUFFICES ASSUME NEW u \in Writers, NEW q \in Paths
                 PROVE  /\ Opened(u, q)' => \/ slot'[u][q] = x
                                            \/ Opened(u, q) /\ slot'[u][q] = slot[u][q]
                        /\ Opened(u, q) => Opened(u, q)' /\ slot'[u][q] = slot[u][q]
      OBVIOUS
    <3>1. CASE u = w
      BY <1>1, <1>4, <1>5, <3>1 DEF Opened
    <3>2. CASE u # w
      BY <1>1, <1>4, <3>2 DEF Opened
    <3> QED  BY <3>1, <3>2
  <2> QED  BY <2>1 DEF Dying
<1>8. Roots' \subseteq Roots
  BY <1>1, <1>7 DEF Roots, Inner, Son
<1>9. Moves({})
  <2>1. Roots' \subseteq Settled \cup {Null}
    BY <1>8, WhatIsHeld DEF CInv, WriterFits
  <2> QED  BY <1>1, <1>2, <1>3, <1>6, <1>7, <2>1, GcCopies DEF Moves
<1>10. FramesNest(w)'
  <2> SUFFICES ASSUME NEW r \in Paths, NEW q \in Paths, pc'[w][r] # "idle", Leads(q, r), q # r
               PROVE  pc'[w][q] = "join"
    BY DEF FramesNest
  <2>1. \A q1 \in Paths : pc[w][q1] = "join" => pc'[w][q1] = "join"
    BY <1>4, <1>5
  <2>2. CASE r \in Children(p)
    <3>1. q = p \/ Leads(q, p)
      BY <2>2, LeadsToChild
    <3>2. q = p \/ pc[w][q] = "join"
      BY <1>1, <3>1 DEF CInv, WriterFits, FramesNest
    <3> QED  BY <1>4, <2>1, <3>2
  <2>3. CASE r \notin Children(p)
    <3>1. pc[w][r] # "idle"
      BY <1>1, <1>4, <2>3
    <3> QED  BY <2>1, <3>1 DEF CInv, WriterFits, FramesNest
  <2> QED  BY <2>2, <2>3
<1> QED  BY <1>6, <1>9, <1>10, GcKeeps

\* x.reset() in a node that is being taken apart, or of tmp_ver.
LEMMA ResetNode ==
  ASSUME IInv, NEW w \in Writers, job[w].phase = "gc", NEW p \in Paths, pc[w][p] # "idle",
         Reset(w, p)
  PROVE  LET a == slot[w][Parent(p)]
         IN  /\ DOMAIN heap' = DOMAIN heap /\ Inner' = Inner
             /\ \A b \in DOMAIN heap : p = << >> \/ b # a => heap'[b] = heap[b]
             /\ \A b \in Inner, d \in {0, 1} : Son(b, d)' = Son(b, d) \/ Son(b, d)' = Null
             /\ p # << >> => /\ Parent(p) \in Paths /\ pc[w][Parent(p)] = "join"
                             /\ Parent(p) # p /\ Parent(p) \notin Children(p)
<1> DEFINE a == slot[w][Parent(p)]
           d == p[Len(p)]
<1>1. CASE p = << >>
  BY <1>1 DEF Reset, Inner, Son
<1>2. CASE p # << >>
  <2>1. Parent(p) \in Paths /\ pc[w][Parent(p)] = "join" /\ d \in {0, 1} /\ a \in Inner
    BY <1>2, GcParent
  <2>2. Parent(p) # p /\ Parent(p) \notin Children(p)
    <3>1. Len(Parent(p)) = Len(p) - 1 /\ Len(p) \in Nat
      BY <1>2, ParentOfPath, PathTypes
    <3>2. \A c \in Children(p) : Len(c) = Len(p) + 1
      BY ChildrenArePaths
    <3> QED  BY <3>1, <3>2
  <2>3. heap' = Store(heap, One(a, ResetSon(a, d)))
    BY <1>2 DEF Reset
  <2> HIDE DEF a, d
  <2>4. a \in DOMAIN heap /\ ~heap[a].leaf /\ IsNode(heap[a])
    BY <2>1 DEF Inner, IInv, TypeOK
  <2>5. PICK L, R, n : /\ heap[a] = Inte(L, R, n)
                       /\ L = heap[a].l_son /\ R = heap[a].r_son /\ n = heap[a].num_pts
    BY <2>4 DEF IsNode
  <2> DEFINE node == ResetSon(a, d)
  <2>6. /\ ~node.leaf /\ node.l_son \in {L, Null} /\ node.r_son \in {R, Null}
    <3>1. /\ [heap[a] EXCEPT !.l_son = Null] = Inte(Null, R, n)
          /\ [heap[a] EXCEPT !.r_son = Null] = Inte(L, Null, n)
      BY <2>5, DroppedSon
    <3>2. node \in {Inte(Null, R, n), Inte(L, Null, n)}
      BY <3>1 DEF ResetSon
    <3>3. \A A, B : ~Inte(A, B, n).leaf /\ Inte(A, B, n).l_son = A /\ Inte(A, B, n).r_son = B
      BY DEF Inte
    <3> HIDE DEF node
    <3> QED  BY <3>2, <3>3
  <2> HIDE DEF node
  <2>7. DOMAIN heap' = DOMAIN heap /\ \A b \in DOMAIN heap : heap'[b] = IF b = a THEN node ELSE heap[b]
    BY <2>3, <2>4 DEF Store, One, node
  <2>8. Inner' = Inner
    BY <2>4, <2>6, <2>7 DEF Inner
  <2>9. \A b \in Inner, e \in {0, 1} : Son(b, e)' = Son(b, e) \/ Son(b, e)' = Null
    BY <2>5, <2>6, <2>7 DEF Inner, Son
  <2>10. \A b \in DOMAIN heap : p = << >> \/ b # a => heap'[b] = heap[b]
    BY <1>2, <2>7
  <2> QED  BY <2>1, <2>2, <2>7, <2>8, <2>9, <2>10 DEF a
<1> QED  BY <1>1, <1>2

\* gc_nocheck keeps the invariant where it resets a son.
LEMMA GcResetKeeps ==
  ASSUME IInv, IInv', CInv, NEW w \in Writers, NEW p \in Paths, job[w].phase = "gc",
         NoneBelow(w, p), Reset(w, p), Return(w, p, Null), UNCHANGED <<versions, commits>>,
         pc[w][p] = "join" => Son(slot[w][p], 0) = Null /\ Son(slot[w][p], 1) = Null
  PROVE  CInv'
<1> DEFINE a == slot[w][Parent(p)]
<1>t. job \in [Writers -> Jobs(commits)]
  BY DEF IInv, TypeOK, Jobs
<1>1. /\ \A u \in Writers \ {w} : job'[u] = job[u]
      /\ job'[w].phase = "gc" /\ job'[w].id = job[w].id /\ job'[w].base = job[w].base
      /\ job'[w].ins = job[w].ins /\ job'[w].del = job[w].del
      /\ job'[w].new_ver = job[w].new_ver
      /\ p # << >> => job'[w] = job[w]
  BY <1>t DEF Reset, Jobs
<1>2. \A u \in Writers : job'[u].phase = job[u].phase
  BY <1>1
<1>3. /\ \A u \in Writers \ {w} : pc'[u] = pc[u] /\ slot'[u] = slot[u]
      /\ \A q \in Paths \ (Children(p) \cup {p}) : pc'[w][q] = pc[w][q] /\ slot'[w][q] = slot[w][q]
      /\ Dying' \subseteq Dying
  BY <1>2, AfterReturn
<1>4. GcMoves(w)
  BY <1>1, <1>3 DEF GcMoves
<1>5. FramesNest(w)'
  BY <1>2, ReturnNests DEF CInv, WriterFits
<1>6. /\ DOMAIN heap' = DOMAIN heap /\ Inner' = Inner
      /\ \A b \in DOMAIN heap : p = << >> \/ b # a => heap'[b] = heap[b]
      /\ \A b \in Inner, d \in {0, 1} : Son(b, d)' = Son(b, d) \/ Son(b, d)' = Null
      /\ p # << >> => /\ Parent(p) \in Paths /\ pc[w][Parent(p)] = "join"
                      /\ Parent(p) # p /\ Parent(p) \notin Children(p)
  BY ResetNode DEF NoneBelow
<1>7. p # << >> => a \in Dying /\ a \in Dying'
  <2> SUFFICES ASSUME p # << >>  PROVE a \in Dying /\ a \in Dying'
    OBVIOUS
  <2>1. Opened(w, Parent(p)) /\ Opened(w, Parent(p))' /\ slot'[w][Parent(p)] = a
    BY <1>1, <1>3, <1>6 DEF Opened
  <2> QED  BY <1>6, <2>1, SlotsOfFrames, SlotsOfFramesThen
<1>8. \A b \in DOMAIN heap : heap'[b] = heap[b] \/ b \in Dying
  BY <1>6, <1>7
<1>9. ASSUME NEW b \in Dying, b \notin Dying'  PROVE pc[w][p] = "join" /\ b = slot[w][p]
  <2>1. PICK r \in Writers \X Paths : Opened(r[1], r[2]) /\ b = slot[r[1]][r[2]]
    BY <1>9 DEF Dying
  <2> DEFINE u == r[1]
             q == r[2]
  <2>2. u \in Writers /\ q \in Paths /\ Opened(u, q) /\ b = slot[u][q]
    BY <2>1
  <2> HIDE DEF u, q
  <2>3. u = w /\ q = p
    <3> SUFFICES ASSUME ~(u = w /\ q = p)  PROVE FALSE
      OBVIOUS
    <3>1. \A c \in Children(p) : pc[w][c] # "join"
      BY NoneCalledBelow DEF NoneBelow
    <3>2. pc'[u][q] = pc[u][q] /\ slot'[u][q] = slot[u][q]
      BY <1>3, <2>2, <3>1 DEF Opened
    <3>3. Opened(u, q)'
      BY <1>2, <2>2, <3>2 DEF Opened
    <3> QED  BY <1>9, <2>2, <3>2, <3>3, SlotsOfFramesThen
  <2> QED  BY <2>2, <2>3 DEF Opened
<1>10. Roots' \subseteq Roots \cup {Null}
  <2>1. ASSUME NEW b \in Inner' \ Dying', NEW d \in {0, 1}
        PROVE  Son(b, d)' \in Roots \cup {Null}
    <3>1. CASE b \in Dying
      <4>1. Son(b, d) = Null
        BY <1>9, <2>1, <3>1
      <4> QED  BY <1>6, <2>1, <4>1
    <3>2. CASE b \notin Dying
      <4>1. Son(b, d) \in Roots
        BY <1>6, <3>2 DEF Roots
      <4> QED  BY <1>6, <2>1, <4>1
    <3> QED  BY <3>1, <3>2
  <2>2. \A v \in DOMAIN versions' : versions'[v] \in Roots
    BY DEF Roots
  <2>3. \A u \in Writers : /\ job'[u].phase # "gc" => job'[u].tmp_ver \in Roots
                           /\ job'[u].new_ver \in Roots
    BY <1>1 DEF Roots
  <2> QED  BY <2>1, <2>2, <2>3 DEF Roots
<1>11. Moves({})
  <2>1. Roots' \subseteq Settled \cup {Null}
    BY <1>10, WhatIsHeld DEF CInv, WriterFits
  <2> QED  BY <1>3, <1>4, <1>6, <1>8, <2>1, GcCopies DEF Moves
<1> QED  BY <1>4, <1>5, <1>11, GcKeeps

\* A call of gc_nocheck keeps the invariant.
LEMMA GcCallKeeps ==
  ASSUME IInv, IInv', CInv, NEW w \in Writers, NEW p \in Paths, GcCall(w, p)
  PROVE  CInv'
<1>1. CASE GcDescends(GcArgument(w, p))
  BY <1>1, GcDescendKeeps
<1>2. CASE ~GcDescends(GcArgument(w, p))
  BY <1>2, GcResetKeeps DEF GcCall, FrameAt, NoneBelow
<1> QED  BY <1>1, <1>2

\* The end of gc_nocheck keeps the invariant.
LEMMA GcJoinKeeps ==
  ASSUME IInv, IInv', CInv, NEW w \in Writers, NEW p \in Paths, GcJoin(w, p)
  PROVE  CInv'
<1>1. /\ job[w].phase = "gc" /\ pc[w][p] = "join" /\ SonsDone(w, p)
      /\ Reset(w, p) /\ Return(w, p, Null) /\ UNCHANGED <<versions, commits>>
  BY DEF GcJoin, FrameAt
<1>2. Len(p) < Bits
  <2>1. slot[w][p] \in Inner /\ slot[w][p] \in Address /\ slot[w][p] # Null
    BY <1>1, ConstantsAssumption DEF IInv, FramesWork, TypeOK, Inner
  <2>2. Len(slot[w][p].at) < Bits /\ Len(slot[w][p].at) >= Len(p)
    BY <2>1 DEF IInv, Depths
  <2> QED  BY <2>1, <2>2, PathsAreSequences, BitsIsNatural DEF Address
<1>3. ASSUME NEW d \in {0, 1} PROVE Son(slot[w][p], d) = Null
  <2> DEFINE q == Child(p, d)
  <2>1. q \in Paths /\ q \in Children(p) /\ q # << >> /\ Parent(q) = p /\ q[Len(q)] = d
    BY <1>2, ChildrenOfPath
  <2> HIDE DEF q
  <2>2. pc[w][q] = "done"
    BY <1>1, <2>1 DEF SonsDone
  <2>3. GcArgument(w, q) = Null
    BY <1>1, <2>1, <2>2 DEF IInv, GcFramesNest
  <2> QED  BY <1>1, <2>1, <2>3 DEF GcArgument
<1> QED  BY <1>1, <1>3, GcResetKeeps DEF NoneBelow, SonsDone

-----------------------------------------------------------------------------
(* Steps that take nothing but garbage and versions away.                  *)

\* The invariant bears the loss of versions and of nodes that nothing holds.
LEMMA LessIsKept ==
  ASSUME IInv, IInv', CInv, UNCHANGED <<job, pc, slot>>,
         DOMAIN heap' \subseteq DOMAIN heap, \A a \in DOMAIN heap' : heap'[a] = heap[a],
         \A v \in DOMAIN versions' : v \in DOMAIN versions /\ versions'[v] = versions[v]
  PROVE  CInv'
<1>1. Copies' = Copies /\ Dying' = Dying /\ Owners' = Owners
  BY DEF Copies, Dying, Forked, Opened, Owners
<1>2. Roots' \subseteq Roots
  <2>1. \A b \in Inner' \ Dying', d \in {0, 1} : b \in Inner \ Dying /\ Son(b, d)' = Son(b, d)
    BY <1>1 DEF Inner, Son
  <2> QED  BY <2>1 DEF Roots
<1>3. Moves({})
  <2>1. Roots' \subseteq Settled \cup {Null}
    BY <1>2, WhatIsHeld DEF CInv, WriterFits
  <2> QED  BY <1>1, <2>1 DEF Moves, Owners
<1>4. Settled' \subseteq Settled
  BY <1>1, <1>3, HeldThen
<1>5. NodesFit' /\ VersionsFit'
  BY <1>3, <1>4, NodesThen, VersionsThen DEF NodesFit
<1>6. ASSUME NEW u \in Writers, job[u].phase # "idle"  PROVE SameCommit(u)
  <2>1. job[u].base \in DOMAIN versions'
    BY <1>6 DEF IInv, JobsDiffer
  <2> QED  BY <2>1 DEF SameCommit
<1>7. ASSUME NEW u \in Writers  PROVE WriterFits(u)'
  BY <1>3, <1>6, OthersThen
<1> QED  BY <1>5, <1>7 DEF CInv

\* A reset of a version keeps the invariant.
LEMMA ReleaseKeeps ==
  ASSUME IInv, IInv', CInv, NEW v \in DOMAIN versions, Release(v)
  PROVE  CInv'
BY LessIsKept DEF Release

\* Destructors keep the invariant.
LEMMA ReclaimKeeps ==
  ASSUME IInv, IInv', CInv, Reclaim
  PROVE  CInv'
BY LessIsKept DEF Reclaim

\* Stuttering keeps the invariant.
LEMMA StutteringKeeps ==
  ASSUME IInv, IInv', CInv, UNCHANGED vars
  PROVE  CInv'
BY LessIsKept DEF vars

-----------------------------------------------------------------------------
(* The invariant.                                                          *)

\* The tree that build makes first satisfies the invariant.
LEMMA InitEstablishesCInv ==
  ASSUME Init, IInv
  PROVE  CInv
<1>1. PICK B \in Initial :
        IF B = EmptyBag
        THEN heap = [a \in {} |-> a] /\ versions = [v \in {0} |-> Null]
        ELSE heap = Build(B, << >>, 0) /\ versions = [v \in {0} |-> BuildAddress(0, << >>)]
  BY DEF Init
<1>2. \A w \in Writers : /\ job[w].phase = "idle"
                         /\ \A p \in Paths : pc[w][p] = "idle"
  BY DEF Init, Idle, NoFrames
<1>3. Copies = {} /\ Dying = {}
  BY <1>2 DEF Copies, Dying, Forked, Opened, Working
<1>4. \A w \in Writers : WriterFits(w)
  BY <1>2 DEF WriterFits, RootsFit, FrameFits, FramesNest, BothCalled, Allocated, CopiesAlone,
              DyingAlone, Unpublished, Forked, Opened, Working
<1>5. CASE B = EmptyBag
  <2>1. DOMAIN heap = {} /\ \A v \in DOMAIN versions : versions[v] = Null
    BY <1>1, <1>5
  <2> QED  BY <1>4, <2>1 DEF CInv, NodesFit, VersionsFit, Settled, Fits
<1>6. CASE B # EmptyBag
  <2>1. heap = Build(B, << >>, 0) /\ DOMAIN versions = {0} /\ versions[0] = BuildAddress(0, << >>)
    BY <1>1, <1>6
  <2>2. IsBagOfPoints(B) /\ << >> \in Paths /\ \A x \in DOMAIN B : Under(x, << >>)
    BY BatchesAreBags, RootIsPath DEF Under
  <2>3. Built(heap, B, << >>, 0)
    BY <2>1, <2>2 DEF Built, BuiltIn
  <2>4. \A q \in BuildPaths(B, << >>) : BuildAddress(0, q) \in Held =>
          Fits(BuildAddress(0, q), q) /\ NodeFits(BuildAddress(0, q))
    BY <1>3, <2>3, BuiltFits
  <2>5. \A a \in DOMAIN heap : \E q \in BuildPaths(B, << >>) : a = BuildAddress(0, q)
    BY <2>1 DEF Build
  <2>6. NodesFit
    BY <2>4, <2>5 DEF NodesFit, Settled
  <2>7. VersionsFit
    <3>1. versions[0] \in Held /\ << >> \in BuildPaths(B, << >>)
      BY <2>1, <2>2, BuiltAddresses DEF Held, Roots
    <3> QED  BY <2>1, <2>4, <3>1 DEF VersionsFit
  <2> QED  BY <1>4, <2>6, <2>7 DEF CInv
<1> QED  BY <1>5, <1>6

\* Every step keeps the invariant.
LEMMA NextPreservesCInv ==
  ASSUME IInv, IInv', CInv, [Next]_vars
  PROVE  CInv'
<1>1. CASE Reclaim
  BY <1>1, ReclaimKeeps
<1>2. CASE Client
  BY <1>2, BeginKeeps, ReleaseKeeps DEF Client
<1>3. ASSUME NEW w \in Writers, Step(w) PROVE CInv'
  <2>1. CASE \E p \in Paths : Frame(w, p)
    BY <2>1, DeleteCallKeeps, DeleteJoinKeeps, InsertCallKeeps, InsertJoinKeeps,
       GcCallKeeps, GcJoinKeeps DEF Frame
  <2>2. CASE StartInsert(w) \/ StartGc(w) \/ Finish(w)
    BY <2>2, StartInsertKeeps, StartGcKeeps, FinishKeeps
  <2> QED  BY <1>3, <2>1, <2>2 DEF Step
<1>4. CASE UNCHANGED vars
  BY <1>4, StutteringKeeps
<1> QED  BY <1>1, <1>2, <1>3, <1>4 DEF Next

\* Whatever the interleaving of commits, of their halves and of destructors, what is
\* settled is in order, and every frame of multi_version_batch_delete_sorted_node and
\* multi_version_batch_insert_sorted_node is on the way to its part of the result.
THEOREM CInvHolds == Spec => [](IInv /\ CInv)
<1>1. Init => IInv /\ CInv
  BY InitEstablishesIInv, InitEstablishesCInv
<1>2. IInv /\ CInv /\ [Next]_vars => IInv' /\ CInv'
  BY NextPreservesIInv, NextPreservesCInv
<1> QED  BY <1>1, <1>2, PTL DEF Spec

\* The two sons that multi_version_batch_delete_sorted_node casts to LeafNode, when it
\* merges what is left below a node, are leaves.
THEOREM MergedSonsAlwaysLeaves == Spec => []MergedSonsAreLeaves
<1>1. IInv /\ CInv => MergedSonsAreLeaves
  BY MergedSons DEF MergedSonsAreLeaves
<1> QED  BY <1>1, CInvHolds, PTL

-----------------------------------------------------------------------------
(* The refinement of VersionedIndex.                                       *)

\* No step changes what a version holds: it writes private nodes only, and none of them
\* lies below a version.
LEMMA VersionsKeepTheirPoints ==
  ASSUME IInv, IInv', [Next]_vars
  PROVE  \A v \in DOMAIN versions \cap DOMAIN versions' :
           versions'[v] = versions[v] => Contents(versions[v])' = Contents(versions[v])
<1> DEFINE K == {a \in DOMAIN heap \cap DOMAIN heap' : \A w \in Writers : a \notin Private(w)}
<1>1. SoundHeap(heap) /\ SoundHeap(heap')
  BY HeapIsSound, HeapStaysSound
<1>2. \A a \in K : heap'[a] = heap[a]
  BY StepsChangePrivateNodesOnly DEF OnlyPrivateNodesChange
<1>3. ASSUME NEW a \in K, ~heap[a].leaf, NEW d \in {0, 1}  PROVE Son(a, d) \in K \cup {Null}
  <2>1. a \in Inner /\ a \in Inner' /\ Son(a, d)' = Son(a, d)
    BY <1>2, <1>3 DEF Inner, Son
  <2>2. Son(a, d) \in DOMAIN heap \cup {Null} /\ Son(a, d)' \in DOMAIN heap' \cup {Null}
    BY <2>1 DEF IInv, NoDanglingReference, Referenced
  <2>3. \A w \in Writers : Son(a, d) \notin Private(w)
    BY <2>1 DEF IInv, Separation, Apart
  <2> QED  BY <2>1, <2>2, <2>3
<1>4. SharedPart(heap, heap', K)
  BY <1>2, <1>3 DEF SharedPart, Son
<1>5. ASSUME NEW v \in DOMAIN versions, v \in DOMAIN versions', versions'[v] = versions[v]
      PROVE  versions[v] \in K \cup {Null}
  BY <1>5 DEF IInv, NoDanglingReference, Referenced, Separation, Apart
<1> HIDE DEF K
<1>6. \A a \in K \cup {Null} : ContentsIn(heap', a) = ContentsIn(heap, a)
  BY <1>1, <1>4, ContentsAgree
<1>7. ASSUME NEW v \in DOMAIN versions, v \in DOMAIN versions', versions'[v] = versions[v]
      PROVE  Contents(versions[v])' = Contents(versions[v])
  <2>1. ASSUME NEW s, s = versions[v]  PROVE Contents(versions[v])' = ContentsIn(heap', s)
    BY <1>7, <2>1 DEF Contents, ContentsIn
  <2> QED  BY <1>5, <1>6, <1>7, <2>1, ContentsNow
<1> QED  BY <1>7

\* What the promise calls content and req.
PointsOfVersions == [v \in DOMAIN versions |-> Contents(versions[v])]
RequestOf(w) == IF job[w].phase = "idle" THEN Null
                ELSE [id |-> job[w].id, base |-> job[w].base,
                      ins |-> job[w].ins, del |-> job[w].del]
Requests == [w \in Writers |-> RequestOf(w)]

\* A request is no null pointer.
LEMMA RequestsAreReal ==
  ASSUME IInv, NEW w \in Writers, job[w].phase # "idle"
  PROVE  RequestOf(w) # Null
<1>1. /\ job[w].id \in Nat /\ job[w].base \in Nat
      /\ job[w].ins \in Batches \cup {EmptyBag} /\ job[w].del \in Batches \cup {EmptyBag}
  BY DEF IInv, TypeOK
<1> QED  BY <1>1, ConstantsAssumption DEF RequestOf

\* The first tree is the first state of the index.
LEMMA StartsAsPromised ==
  ASSUME Init, IInv
  PROVE  Index!Init
<1>1. PICK B \in Initial :
        IF B = EmptyBag
        THEN heap = [a \in {} |-> a] /\ versions = [v \in {0} |-> Null]
        ELSE heap = Build(B, << >>, 0) /\ versions = [v \in {0} |-> BuildAddress(0, << >>)]
  BY DEF Init
<1>2. commits = 0 /\ \A w \in Writers : job[w].phase = "idle"
  BY DEF Init, Idle
<1>3. Requests = [w \in Writers |-> Null]
  BY <1>2 DEF Requests, RequestOf
<1>4. DOMAIN versions = {0} /\ Contents(versions[0]) = B
  <2>1. CASE B = EmptyBag
    <3>1. DOMAIN versions = {0} /\ versions[0] = Null
      BY <1>1, <2>1
    <3> QED  BY <2>1, <3>1, ContentsHere
  <2>2. CASE B # EmptyBag
    <3>1. heap = Build(B, << >>, 0) /\ DOMAIN versions = {0} /\ versions[0] = BuildAddress(0, << >>)
      BY <1>1, <2>2
    <3>2. IsBagOfPoints(B) /\ << >> \in Paths /\ \A x \in DOMAIN B : Under(x, << >>)
      BY BatchesAreBags, RootIsPath DEF Under
    <3>3. Built(heap, B, << >>, 0)
      BY <3>1, <3>2 DEF Built, BuiltIn
    <3>4. Copies = {} /\ Dying = {}
      BY DEF Init, Copies, Dying, Forked, Opened, NoFrames
    <3>5. versions[0] \in Held /\ << >> \in BuildPaths(B, << >>)
      BY <3>1, <3>2, BuiltAddresses DEF Held, Roots
    <3>6. Contents(versions[0]) = Part(B, << >>)
      BY <3>1, <3>3, <3>4, <3>5, BuiltFits
    <3> QED  BY <3>1, <3>2, <3>6, PartAtTop
  <2> QED  BY <2>1, <2>2
<1>5. PointsOfVersions = [v \in {0} |-> B]
  BY <1>4 DEF PointsOfVersions
<1> QED  BY <1>2, <1>3, <1>5 DEF Index!Init, Requests, RequestOf, PointsOfVersions

\* The commits under way, and what each was called with, are the same.
SameRequests ==
  \A u \in Writers : /\ job'[u].phase = "idle" <=> job[u].phase = "idle"
                     /\ job'[u].id = job[u].id /\ job'[u].base = job[u].base
                     /\ job'[u].ins = job[u].ins /\ job'[u].del = job[u].del

\* A step that leaves versions and requests alone is a stutter of the index.
LEMMA UnseenStep ==
  ASSUME IInv, IInv', [Next]_vars, UNCHANGED <<versions, commits>>, SameRequests
  PROVE  UNCHANGED Index!vars
<1>1. Requests' = Requests
  BY DEF SameRequests, Requests, RequestOf
<1>2. PointsOfVersions' = PointsOfVersions
  <2>1. \A v \in DOMAIN versions : Contents(versions[v])' = Contents(versions[v])
    BY VersionsKeepTheirPoints
  <2> QED  BY <2>1 DEF PointsOfVersions
<1> QED  BY <1>1, <1>2 DEF Index!vars, Requests, RequestOf, PointsOfVersions

\* The index sees nothing of the frames of a commit.
LEMMA FramesAreUnseen ==
  ASSUME IInv, NEW w \in Writers,
         (\E p \in Paths : Frame(w, p)) \/ StartInsert(w) \/ StartGc(w)
  PROVE  UNCHANGED <<versions, commits>> /\ SameRequests
<1>t. job \in [Writers -> Jobs(commits)]
  BY DEF IInv, TypeOK, Jobs
<1>1. ASSUME NEW p \in Paths, DeleteCall(w, p) \/ DeleteJoin(w, p) \/ InsertCall(w, p) \/ InsertJoin(w, p)
      PROVE  UNCHANGED <<versions, commits>> /\ SameRequests
  BY <1>1 DEF DeleteCall, DeleteJoin, InsertCall, InsertJoin, SameRequests
<1>2. ASSUME NEW p \in Paths, GcCall(w, p) \/ GcJoin(w, p)
      PROVE  UNCHANGED <<versions, commits>> /\ SameRequests
  <2>1. UNCHANGED job \/ job' = [job EXCEPT ![w].tmp_ver = Null]
    BY <1>2 DEF GcCall, GcJoin, Reset
  <2>2. SameRequests
    BY <1>t, <2>1 DEF SameRequests, Jobs
  <2> QED  BY <1>2, <2>2 DEF GcCall, GcJoin
<1>3. CASE StartInsert(w) \/ StartGc(w)
  <2>1. job[w].phase # "idle"
    BY <1>3 DEF StartInsert, StartGc, FrameAt
  <2>2. /\ \A u \in Writers \ {w} : job'[u] = job[u]
        /\ job'[w].phase # "idle" /\ job'[w].id = job[w].id /\ job'[w].base = job[w].base
        /\ job'[w].ins = job[w].ins /\ job'[w].del = job[w].del
    BY <1>t, <1>3 DEF StartInsert, StartGc, Jobs
  <2>3. SameRequests
    BY <2>1, <2>2 DEF SameRequests
  <2> QED  BY <1>3, <2>3 DEF StartInsert, StartGc
<1> QED  BY <1>1, <1>2, <1>3 DEF Frame

\* The start of commit is a request to the index.
LEMMA BeginsAsPromised ==
  ASSUME IInv, IInv', [Next]_vars, NEW w \in Writers, NEW v \in DOMAIN versions,
         NEW ins \in Batches, NEW del \in Batches, Begin(w, v, ins, del)
  PROVE  Index!Next
<1>t. job \in [Writers -> Jobs(commits)]
  BY DEF IInv, TypeOK, Jobs
<1>1. /\ job[w].phase = "idle" /\ commits < MaxCommits /\ commits' = commits + 1
      /\ UNCHANGED versions
      /\ \A u \in Writers \ {w} : job'[u] = job[u]
      /\ job'[w].phase = "delete" /\ job'[w].id = commits + 1 /\ job'[w].base = v
      /\ job'[w].ins = ins /\ job'[w].del = del
  BY <1>t DEF Begin, Idle, Jobs
<1>2. PointsOfVersions' = PointsOfVersions
  <2>1. \A x \in DOMAIN versions : Contents(versions[x])' = Contents(versions[x])
    BY <1>1, VersionsKeepTheirPoints
  <2> QED  BY <1>1, <2>1 DEF PointsOfVersions
<1>3. Requests' = [Requests EXCEPT ![w] = [id |-> commits + 1, base |-> v, ins |-> ins, del |-> del]]
  BY <1>1 DEF Requests, RequestOf
<1>4. Requests[w] = Null /\ v \in DOMAIN PointsOfVersions
  BY <1>1 DEF Requests, RequestOf, PointsOfVersions
<1>5. Index!Begin(w, v, ins, del)
  BY <1>1, <1>2, <1>3, <1>4 DEF Index!Begin, Requests, RequestOf, PointsOfVersions
<1> QED  BY <1>4, <1>5 DEF Index!Next, PointsOfVersions

\* The operators on bags are the same in both modules.
LEMMA SameSum == \A A, B : Index!(+)(A, B) = A (+) B
BY DEF Index!(+), (+)
\* The difference of bags in the instance of VersionedIndex is the same one.
LEMMA SameDifference == \A A, B : Index!(-)(A, B) = A (-) B
BY DEF Index!(-), (-)

\* The end of commit adds the version that was asked for.
LEMMA EndsAsPromised ==
  ASSUME IInv, IInv', CInv, [Next]_vars, NEW w \in Writers, Finish(w), NEW c, c = job[w].id
  PROVE  Index!Next
<1>t. job \in [Writers -> Jobs(commits)]
  BY DEF IInv, TypeOK, Jobs
<1>1. /\ job[w].phase = "gc" /\ UNCHANGED <<heap, commits>>
      /\ \A u \in Writers \ {w} : job'[u] = job[u]
      /\ job'[w].phase = "idle"
  BY <1>t DEF Finish, FrameAt, Idle
<1>2. /\ c \notin DOMAIN versions /\ DOMAIN versions' = DOMAIN versions \cup {c}
      /\ versions'[c] = job[w].new_ver
      /\ \A v \in DOMAIN versions : versions'[v] = versions[v]
  BY Publishes
<1>3. Requests' = [Requests EXCEPT ![w] = Null]
  BY <1>1 DEF Requests, RequestOf
<1>4. Requests[w] = [id |-> c, base |-> job[w].base, ins |-> job[w].ins, del |-> job[w].del]
      /\ Requests[w] # Null
  BY <1>1, RequestsAreReal DEF Requests, RequestOf
<1>5. job[w].base \in DOMAIN versions
  BY <1>1 DEF IInv, JobsDiffer
<1>6. Contents(versions[c])' = (PointsOfVersions[job[w].base] (-) job[w].del) (+) job[w].ins
  <2>1. ASSUME NEW s, s = job[w].new_ver  PROVE Contents(versions[c])' = Contents(s)
    BY <1>1, <1>2, <2>1 DEF Contents
  <2>2. Contents(job[w].new_ver) = Result(w)
    BY <1>1, Returned
  <2> QED  BY <1>5, <2>1, <2>2 DEF Result, Kept, Base, PointsOfVersions
<1>7. \A v \in DOMAIN versions : Contents(versions[v])' = PointsOfVersions[v]
  BY <1>2, VersionsKeepTheirPoints DEF PointsOfVersions
<1>8. PointsOfVersions' = [v \in DOMAIN PointsOfVersions \cup {c} |->
                             IF v = c
                             THEN (PointsOfVersions[job[w].base] (-) job[w].del) (+) job[w].ins
                             ELSE PointsOfVersions[v]]
  BY <1>2, <1>6, <1>7 DEF PointsOfVersions
<1>9. Index!Derived(Requests[w]) = (PointsOfVersions[job[w].base] (-) job[w].del) (+) job[w].ins
  BY <1>4, SameSum, SameDifference DEF Index!Derived, PointsOfVersions
<1>10. Requests[w].id = c
  BY <1>4
<1>11. PointsOfVersions' = [v \in DOMAIN PointsOfVersions \cup {Requests[w].id} |->
                              IF v = Requests[w].id THEN Index!Derived(Requests[w])
                              ELSE PointsOfVersions[v]]
  BY <1>8, <1>9, <1>10
<1>12. Requests[w] # Null /\ Requests' = [Requests EXCEPT ![w] = Null] /\ commits' = commits
  BY <1>1, <1>3, <1>4
<1>13. Index!End(w)
  BY <1>11, <1>12 DEF Index!End, Requests, RequestOf, PointsOfVersions
<1> QED  BY <1>13 DEF Index!Next

\* A reset of a version is a release of the index.
LEMMA ReleasesAsPromised ==
  ASSUME IInv, IInv', [Next]_vars, NEW v \in DOMAIN versions, Release(v)
  PROVE  Index!Next
<1>1. /\ UNCHANGED <<job, commits>> /\ DOMAIN versions' = DOMAIN versions \ {v}
      /\ \A u \in DOMAIN versions' : versions'[u] = versions[u]
      /\ \A w \in Writers : job[w].phase # "idle" => job[w].base # v
  BY DEF Release
<1>2. \A u \in DOMAIN versions' : Contents(versions[u])' = Contents(versions[u])
  BY <1>1, VersionsKeepTheirPoints
<1>3. PointsOfVersions' = [u \in DOMAIN PointsOfVersions \ {v} |-> PointsOfVersions[u]]
  BY <1>1, <1>2 DEF PointsOfVersions
<1>4. Requests' = Requests
  BY <1>1 DEF Requests, RequestOf
<1>5. \A w \in Writers : Requests[w] # Null => Requests[w].base # v
  BY <1>1 DEF Requests, RequestOf
<1>6. v \in DOMAIN PointsOfVersions
  BY DEF PointsOfVersions
<1>7. Index!Release(v)
  BY <1>1, <1>3, <1>4, <1>5, <1>6 DEF Index!Release, Requests, RequestOf, PointsOfVersions
<1> QED  BY <1>6, <1>7 DEF Index!Next, PointsOfVersions

\* Every step is one of the index or a stutter.
LEMMA StepsAreOfTheIndex ==
  ASSUME IInv, IInv', CInv, [Next]_vars
  PROVE  [Index!Next]_(Index!vars)
<1>1. ASSUME UNCHANGED <<versions, commits>>, UNCHANGED job  PROVE UNCHANGED Index!vars
  <2>1. SameRequests
    BY <1>1 DEF SameRequests
  <2> QED  BY <1>1, <2>1, UnseenStep
<1>2. CASE Reclaim \/ UNCHANGED vars
  BY <1>1, <1>2 DEF Reclaim, vars
<1>3. CASE Client
  BY <1>3, BeginsAsPromised, ReleasesAsPromised DEF Client
<1>4. ASSUME NEW w \in Writers, Step(w)  PROVE [Index!Next]_(Index!vars)
  <2>1. CASE Finish(w)
    BY <2>1, EndsAsPromised
  <2>2. CASE (\E p \in Paths : Frame(w, p)) \/ StartInsert(w) \/ StartGc(w)
    <3>1. UNCHANGED <<versions, commits>> /\ SameRequests
      BY <2>2, FramesAreUnseen
    <3> QED  BY <3>1, UnseenStep
  <2> QED  BY <1>4, <2>1, <2>2 DEF Step
<1> QED  BY <1>2, <1>3, <1>4 DEF Next

\* commit, with its frames, its copies and its garbage, does what VersionedIndex promises:
\* a new version holds the base less the deletions plus the insertions, and no step changes
\* what any other version holds.
THEOREM CommitsImplementTheIndex == Spec => ImplementsIndexSafely
<1>1. Init => Index!Init
  BY InitEstablishesIInv, StartsAsPromised
<1>2. IInv /\ CInv /\ IInv' /\ [Next]_vars => [Index!Next]_(Index!vars)
  BY StepsAreOfTheIndex
<1> QED  BY <1>1, <1>2, CInvHolds, PTL DEF Spec, ImplementsIndexSafely

-----------------------------------------------------------------------------
(* The shape of a tree.                                                    *)

ShapeRule(H, X, f) == f = [x \in X \cup {Null} |->
                             IF x = Null THEN << >>
                             ELSE IF H[x].leaf THEN <<H[x].records>>
                             ELSE <<H[x].num_pts, f[H[x].l_son], f[H[x].r_son]>>]

\* The shape of a tree is defined for all nodes of a sound heap.
LEMMA ShapeExists ==
  ASSUME NEW H, SoundHeap(H)
  PROVE  \E f : ShapeRule(H, DOMAIN H, f)
<1> DEFINE Good == {n \in Nat : \E f : ShapeRule(H, Low(H, n), f)}
<1>1. 0 \in Good
  <2> DEFINE f == [x \in {Null} |-> << >>]
  <2>1. Low(H, 0) = {}
    BY RanksFall DEF Low
  <2>2. ShapeRule(H, {}, f)
    BY DEF ShapeRule
  <2> QED  BY <2>1, <2>2
<1>2. ASSUME NEW n \in Nat, n \in Good  PROVE n + 1 \in Good
  <2>1. PICK f : ShapeRule(H, Low(H, n), f)
    BY <1>2
  <2> DEFINE g == [x \in Low(H, n + 1) \cup {Null} |->
                     IF x = Null THEN << >>
                     ELSE IF H[x].leaf THEN <<H[x].records>>
                     ELSE <<H[x].num_pts, f[H[x].l_son], f[H[x].r_son]>>]
  <2>2. \A x \in Low(H, n) \cup {Null} : x \in Low(H, n + 1) \cup {Null} /\ g[x] = f[x]
    <3>1. \A x \in Low(H, n) : x \in Low(H, n + 1)
      BY RanksFall DEF Low
    <3>2. \A x \in Low(H, n) \cup {Null} :
            f[x] = IF x = Null THEN << >>
                   ELSE IF H[x].leaf THEN <<H[x].records>>
                   ELSE <<H[x].num_pts, f[H[x].l_son], f[H[x].r_son]>>
      BY <2>1 DEF ShapeRule
    <3> QED  BY <3>1, <3>2
  <2>3. ASSUME NEW x \in Low(H, n + 1), ~H[x].leaf
        PROVE  {H[x].l_son, H[x].r_son} \subseteq Low(H, n) \cup {Null}
    <3>1. x \in DOMAIN H /\ Rank(x) < n + 1
      BY DEF Low
    <3> QED  BY <2>3, <3>1, RanksFall DEF Low
  <2>4. ShapeRule(H, Low(H, n + 1), g)
    <3>1. \A x \in Low(H, n + 1) :
            ~H[x].leaf => g[H[x].l_son] = f[H[x].l_son] /\ g[H[x].r_son] = f[H[x].r_son]
      BY <2>2, <2>3
    <3>2. g = [x \in Low(H, n + 1) \cup {Null} |->
                 IF x = Null THEN << >>
                 ELSE IF H[x].leaf THEN <<H[x].records>>
                 ELSE <<H[x].num_pts, g[H[x].l_son], g[H[x].r_son]>>]
      BY <3>1
    <3> HIDE DEF g
    <3> QED  BY <3>2 DEF ShapeRule
  <2> HIDE DEF g
  <2> QED  BY <2>4
<1>3. Bits + 1 \in Good
  <2>1. Nat \subseteq Good
    <3> HIDE DEF Good
    <3> QED  BY <1>1, <1>2, SetInduction
  <2> QED  BY <2>1, BitsIsNatural
<1>4. Low(H, Bits + 1) = DOMAIN H
  BY RanksFall DEF Low
<1> QED  BY <1>3, <1>4

\* The recursion of Shape, one level of it.
LEMMA ShapeBelow ==
  ASSUME NEW H, SoundHeap(H)
  PROVE  /\ Shape(H, Null) = << >>
         /\ \A a \in DOMAIN H :
              /\ H[a].leaf => Shape(H, a) = <<H[a].records>>
              /\ ~H[a].leaf => Shape(H, a) = <<H[a].num_pts, Shape(H, H[a].l_son), Shape(H, H[a].r_son)>>
<1> DEFINE f == CHOOSE f : ShapeRule(H, DOMAIN H, f)
<1>1. ShapeRule(H, DOMAIN H, f)
  BY ShapeExists
<1>2. \A a : Shape(H, a) = f[a]
  BY DEF Shape, ShapeRule
<1> HIDE DEF f
<1>3. \A a \in DOMAIN H \cup {Null} :
        f[a] = IF a = Null THEN << >>
               ELSE IF H[a].leaf THEN <<H[a].records>>
               ELSE <<H[a].num_pts, f[H[a].l_son], f[H[a].r_son]>>
  BY <1>1 DEF ShapeRule
<1> QED  BY <1>2, <1>3, RanksFall

\* What build makes is a sound heap by itself.
LEMMA BuildIsSoundHeap ==
  ASSUME NEW B, IsBagOfPoints(B)
  PROVE  SoundHeap(Build(B, << >>, 0))
<1> DEFINE N == Build(B, << >>, 0)
<1>1. /\ DOMAIN N \subseteq Address
      /\ \A a \in DOMAIN N :
           /\ IsNode(N[a])
           /\ ~N[a].leaf => \A s \in {N[a].l_son, N[a].r_son} :
                              s # Null => s \in DOMAIN N /\ Len(s.at) > Len(a.at)
  BY BuildIsSound, RootIsPath
<1>2. \A a \in DOMAIN N : a # Null /\ Len(a.at) \in 0..Bits
  BY <1>1, PathTypes, ConstantsAssumption DEF Address
<1> HIDE DEF N
<1>3. \A a \in DOMAIN N : N[a].leaf => IsBagOfPoints(N[a].records)
  BY <1>1 DEF IsNode
<1> QED  BY <1>1, <1>2, <1>3 DEF SoundHeap, N

\* What fits below the root of a tree holds something.
LEMMA SonsHoldSomething ==
  ASSUME IInv, NodesFit, NEW p \in Paths, p # << >>, NEW a, Fits(a, p), a # Null
  PROVE  Contents(a) # EmptyBag
<1>1. a \in Settled /\ a \in DOMAIN heap
  BY DEF Fits, Settled
<1>2. CASE heap[a].leaf
  BY <1>1, <1>2, ContentsHere DEF Fits, LeafFits
<1>3. CASE ~heap[a].leaf
  <2>1. BagCardinality(Contents(a)) > LeafSize
    BY <1>1, <1>3 DEF NodesFit, NodeFits
  <2> QED  BY <2>1, SizeOfNothing, ConstantsAssumption
<1> QED  BY <1>2, <1>3

\* A tree that fits is the one that build makes of the same points.
LEMMA TreesAreAsBuilt ==
  ASSUME IInv, NodesFit, NEW B, IsBagOfPoints(B)
  PROVE  \A q \in BuildPaths(B, << >>) : \A a :
           a # Null /\ Fits(a, q) /\ Contents(a) = Part(B, q)
             => Shape(heap, a) = Shape(Build(B, << >>, 0), BuildAddress(0, q))
<1> DEFINE N == Build(B, << >>, 0)
           Same(q, a) == a # Null /\ Fits(a, q) /\ Contents(a) = Part(B, q)
           Alike(q, a) == Shape(heap, a) = Shape(N, BuildAddress(0, q))
           Bad == {Bits - Len(q) : q \in {r \in BuildPaths(B, << >>) : \E a : Same(r, a) /\ ~Alike(r, a)}}
<1> SUFFICES ASSUME Bad # {}  PROVE FALSE
  OBVIOUS
<1>0. \A q \in BuildPaths(B, << >>) : q \in Paths /\ Len(q) \in Nat /\ Bits - Len(q) \in Nat
  BY PathTypes DEF BuildPaths
<1>1. PICK m \in Bad : \A k \in Bad : m <= k
  <2>1. Bad \in SUBSET Nat
    BY <1>0
  <2> HIDE DEF Bad
  <2> QED  BY <2>1, SmallestElement
<1>2. PICK q \in BuildPaths(B, << >>) : m = Bits - Len(q) /\ \E a : Same(q, a) /\ ~Alike(q, a)
  BY <1>1
<1>3. PICK a : Same(q, a) /\ ~Alike(q, a)
  BY <1>2
<1>s. SoundHeap(heap) /\ SoundHeap(N)
  BY HeapIsSound, BuildIsSoundHeap
<1>4. q \in Paths /\ a \in DOMAIN heap /\ a # Null /\ Fits(a, q) /\ Contents(a) = Part(B, q)
  BY <1>0, <1>3 DEF Fits, Settled
<1> DEFINE C == Part(B, q)
           b == BuildAddress(0, q)
           son == [d \in {0, 1} |-> IF Part(B, Child(q, d)) # EmptyBag
                                    THEN BuildAddress(0, Child(q, d)) ELSE Null]
<1>5. /\ b \in DOMAIN N
      /\ FitsLeaf(BagCardinality(C), q) => N[b] = Leaf(C) /\ N[b].leaf
      /\ ~FitsLeaf(BagCardinality(C), q) =>
           N[b] = Inte(son[0], son[1], BagCardinality(C)) /\ ~N[b].leaf
  <2>1. \A x \in DOMAIN B : Under(x, << >>)
    BY DEF Under
  <2> QED  BY <2>1, BuildNodes, RootIsPath
<1> HIDE DEF N, b, son, C
<1>6. CASE heap[a].leaf
  <2>1. heap[a].records = C /\ FitsLeaf(BagCardinality(C), q)
    BY <1>4, <1>6, ContentsHere DEF Fits, LeafFits, C
  <2>2. N[b].leaf /\ N[b].records = C
    BY <1>5, <2>1 DEF Leaf
  <2>3. Shape(heap, a) = <<C>> /\ Shape(N, b) = <<C>>
    BY <1>s, <1>4, <1>5, <1>6, <2>1, <2>2, ShapeBelow
  <2> QED  BY <1>3, <2>3 DEF b
<1>7. CASE ~heap[a].leaf
  <2>1. /\ Len(q) < Bits
        /\ \A d \in {0, 1} : /\ Fits(Son(a, d), Child(q, d))
                             /\ Contents(Son(a, d)) = Part(B, Child(q, d))
        /\ heap[a].num_pts = BagCardinality(C) /\ heap[a].num_pts > LeafSize
    BY <1>4, <1>7, SonsFit DEF C
  <2>2. ~FitsLeaf(BagCardinality(C), q)
    <3>1. IsBagOfPoints(C)
      BY PartOfBag DEF C
    <3> QED  BY <1>4, <2>1, <3>1, SizeIsNumber, PathTypes, ConstantsAssumption DEF FitsLeaf
  <2>3. ~N[b].leaf /\ N[b].l_son = son[0] /\ N[b].r_son = son[1] /\ N[b].num_pts = BagCardinality(C)
    BY <1>5, <2>2 DEF Inte
  <2>4. ASSUME NEW d \in {0, 1}  PROVE Shape(heap, Son(a, d)) = Shape(N, son[d])
    <3>1. /\ Child(q, d) \in Paths /\ Child(q, d) # << >> /\ Len(Child(q, d)) = Len(q) + 1
      BY <1>4, <2>1, ChildrenOfPath
    <3>2. CASE Son(a, d) = Null
      <4>1. Part(B, Child(q, d)) = EmptyBag
        BY <2>1, <3>2, ContentsHere
      <4>2. son[d] = Null
        BY <4>1 DEF son
      <4> QED  BY <1>s, <3>2, <4>2, ShapeBelow
    <3>3. CASE Son(a, d) # Null
      <4>1. Part(B, Child(q, d)) # EmptyBag
        BY <2>1, <3>1, <3>3, SonsHoldSomething
      <4>2. son[d] = BuildAddress(0, Child(q, d))
        BY <4>1 DEF son
      <4>3. Child(q, d) \in BuildPaths(B, << >>)
        BY <2>2, <4>1, BuildSons, RootIsPath DEF C
      <4>4. Same(Child(q, d), Son(a, d))
        BY <2>1, <3>3
      <4>5. ~Alike(Child(q, d), Son(a, d)) => Bits - Len(Child(q, d)) \in Bad
        BY <4>3, <4>4
      <4>6. Alike(Child(q, d), Son(a, d))
        <5> HIDE DEF Bad, Alike
        <5> QED  BY <1>0, <1>1, <1>2, <3>1, <4>3, <4>5, BitsIsNatural
      <4> QED  BY <4>2, <4>6
    <3> QED  BY <3>2, <3>3
  <2>5. Son(a, 0) = heap[a].l_son /\ Son(a, 1) = heap[a].r_son
    BY DEF Son
  <2>6. Shape(heap, a) = <<heap[a].num_pts, Shape(heap, heap[a].l_son), Shape(heap, heap[a].r_son)>>
    BY <1>s, <1>4, <1>7, ShapeBelow
  <2>7. Shape(N, b) = <<N[b].num_pts, Shape(N, N[b].l_son), Shape(N, N[b].r_son)>>
    BY <1>s, <1>5, <2>3, ShapeBelow
  <2>8. Shape(heap, a) = Shape(N, b)
    BY <2>1, <2>3, <2>4, <2>5, <2>6, <2>7
  <2> QED  BY <1>3, <2>8 DEF b
<1> QED  BY <1>6, <1>7

\* However it came about, a held version is the very tree that build makes of its points:
\* splits, merges and copies of all commits leave no trace.
THEOREM VersionsAlwaysAsBuilt == Spec => []VersionsAreAsBuilt
<1>1. IInv /\ CInv => VersionsAreAsBuilt
  <2> SUFFICES ASSUME IInv, CInv, NEW v \in DOMAIN versions, versions[v] # Null
               PROVE  Shape(heap, versions[v]) =
                        Shape(Build(Contents(versions[v]), << >>, 0), BuildAddress(0, << >>))
    BY DEF VersionsAreAsBuilt
  <2>1. Fits(versions[v], << >>) /\ versions[v] \in DOMAIN heap
    BY DEF CInv, VersionsFit, Fits, Settled
  <2>2. IsBagOfPoints(Contents(versions[v]))
    BY <2>1, ContentsHere
  <2>3. Part(Contents(versions[v]), << >>) = Contents(versions[v])
    BY <2>2, PartAtTop
  <2>4. << >> \in BuildPaths(Contents(versions[v]), << >>)
    BY RootIsPath DEF BuildPaths
  <2> QED  BY <2>1, <2>2, <2>3, <2>4, TreesAreAsBuilt DEF CInv
<1> QED  BY <1>1, CInvHolds, PTL

=============================================================================
