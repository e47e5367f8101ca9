--------------------------- MODULE MvqProperties ---------------------------
(***************************************************************************)
(* What commit must guarantee, stated on the heap of MvqStore.             *)
(***************************************************************************)
EXTENDS MvqStore

AddressOrNull == Address \cup {Null}
IsNode(n) ==
  \/ n.leaf /\ n = Leaf(n.records) /\ IsBagOfPoints(n.records)
  \/ /\ ~n.leaf /\ n = Inte(n.l_son, n.r_son, n.num_pts)
     /\ {n.l_son, n.r_son} \subseteq AddressOrNull

\* The types of the variables; every live node is a leaf or an inner node; the
\* variables of a frame that is not running hold no reference.
TypeOK ==
  /\ DOMAIN heap \subseteq Address
  /\ \A a \in DOMAIN heap : IsNode(heap[a])
  /\ DOMAIN versions \subseteq 0..commits
  /\ \A v \in DOMAIN versions : versions[v] \in AddressOrNull
  /\ job \in [Writers -> [phase : {"idle", "delete", "insert", "gc"},
                          id : 0..commits, base : 0..commits,
                          ins : Batches \cup {EmptyBag}, del : Batches \cup {EmptyBag},
                          tmp_ver : AddressOrNull, new_ver : AddressOrNull]]
  /\ pc \in [Writers -> [Paths -> {"idle", "call", "join", "done"}]]
  /\ slot \in [Writers -> [Paths -> AddressOrNull]]
  /\ commits \in 0..MaxCommits
  /\ \A w \in Writers :
       /\ job[w].phase = "idle" => job[w] = Idle /\ pc[w] = NoFrames
       /\ \A p \in Paths : pc[w][p] = "idle" => slot[w][p] = Null

-----------------------------------------------------------------------------
(* Refinement: what a version holds.                                       *)

\* The points below address a (collect_records).
Contents(a) ==
  LET bag[x \in DOMAIN heap \cup {Null}] ==
        IF x = Null THEN EmptyBag
        ELSE IF heap[x].leaf THEN heap[x].records
        ELSE bag[heap[x].l_son] (+) bag[heap[x].r_son]
  IN  bag[a]

Index == INSTANCE VersionedIndex WITH
           None <- Null,
           content <- [v \in DOMAIN versions |-> Contents(versions[v])],
           req <- [w \in Writers |->
                     IF job[w].phase = "idle" THEN Null
                     ELSE [id |-> job[w].id, base |-> job[w].base,
                           ins |-> job[w].ins, del |-> job[w].del]]

\* Under every interleaving of frames and of commits, a commit yields exactly
\* the base less the deleted points plus the inserted ones, every other
\* version keeps its points, and (under FairSpec) every commit returns.
ImplementsIndex == Index!Spec

\* The safety part of the same claim.
ImplementsIndexSafely == Index!Init /\ [][Index!Next]_(Index!vars)

-----------------------------------------------------------------------------
(* The nodes a running commit may write in place: those it allocated, and   *)
(* those that gc_nocheck found to be referenced from its tmp_ver only.      *)

Private(w) ==
  IF job[w].phase = "idle" THEN {}
  ELSE {a \in DOMAIN heap : a.owner = job[w].id}
         \cup {slot[w][p] : p \in {q \in Paths : job[w].phase = "gc"
                                                  /\ pc[w][q] = "join"}}

\* No held version, no node outside, and no variable of another commit refers
\* to node a, which writer w may write.
Apart(w, a) ==
  /\ \A v \in DOMAIN versions : versions[v] # a
  /\ \A b \in Inner : a \in {Son(b, 0), Son(b, 1)} => b \in Private(w)
  /\ \A u \in Writers \ {w} :
       a \notin {job[u].tmp_ver, job[u].new_ver} \cup {slot[u][p] : p \in Paths}

\* Nothing outside a running commit leads into the nodes it writes, neither a
\* version nor another commit: commits need no lock.
Separation == \A w \in Writers : \A a \in Private(w) : Apart(w, a)

\* A node that versions or other commits share is never written: when a step
\* changes a node, nothing outside the commit that owns it refers to it.
SharedNodesAreImmutable ==
  [][\A a \in DOMAIN heap \cap DOMAIN heap' :
       heap'[a] = heap[a] \/ \E w \in Writers : a \in Private(w) /\ Apart(w, a)]_vars

-----------------------------------------------------------------------------
(* Shape.                                                                   *)

\* The tree below address a of heap H, without the addresses.
Shape(H, a) ==
  LET tree[x \in DOMAIN H \cup {Null}] ==
        IF x = Null THEN << >>
        ELSE IF H[x].leaf THEN <<H[x].records>>
        ELSE <<H[x].num_pts, tree[H[x].l_son], tree[H[x].r_son]>>
  IN  tree[a]

\* History does not show: however it came about, a held version is the very
\* tree that build makes of its points.  So num_pts counts what lies below,
\* regions are respected, no node is superfluous, and two versions with the
\* same points have the same shape, which the diffs take for granted.
VersionsAreAsBuilt ==
  \A v \in DOMAIN versions :
    LET B == Contents(versions[v])
    IN  \/ versions[v] = Null
        \/ Shape(heap, versions[v]) = Shape(Build(B, << >>, 0), BuildAddress(0, << >>))

\* multi_version_batch_delete_sorted_node casts both sons to LeafNode when
\* they hold at most leaf_size points together; they are leaves then.
MergedSonsAreLeaves ==
  \A w \in Writers, p \in Paths :
    LET L == slot[w][Child(p, 0)]
        R == slot[w][Child(p, 1)]
    IN  (/\ FrameAt(w, p, "delete", "join") /\ SonsDone(w, p)
         /\ L # Null /\ R # Null /\ ~Keeps(L, R, NumPoints(L) + NumPoints(R)))
        => heap[L].leaf /\ heap[R].leaf

-----------------------------------------------------------------------------
(* The inductive invariant from which Separation is proved.                 *)

\* Every reference leads to a live node.
NoDanglingReference == Referenced \subseteq DOMAIN heap \cup {Null}

\* Commits under way have different numbers, none higher than commits, and
\* only the nodes they allocated carry theirs; their bases are held.
JobsDiffer ==
  /\ \A a \in DOMAIN heap : a.owner <= commits
  /\ \A w \in Writers : job[w].phase # "idle" =>
       /\ job[w].id # 0 /\ job[w].base \in DOMAIN versions
       /\ \A u \in Writers \ {w} : job[u].id # job[w].id

\* A frame between its fork and its join works on a live inner node; while
\* nodes are being copied, on one its own commit allocated.
FramesWork ==
  \A w \in Writers, p \in Paths : pc[w][p] = "join" =>
    /\ slot[w][p] \in Inner
    /\ job[w].phase \in Working => slot[w][p].owner = job[w].id

\* gc_nocheck runs from tmp_ver downwards: the frame above a frame is waiting
\* for it, cur_inte is the node x refers to, a different one in every frame, and
\* x is null once the frame returned.
GcFramesNest ==
  \A w \in Writers : job[w].phase = "gc" =>
    /\ \A p \in Paths :
         /\ pc[w][p] # "idle" /\ p # << >> => pc[w][Parent(p)] = "join"
         /\ pc[w][p] = "join" => slot[w][p] = GcArgument(w, p)
         /\ pc[w][p] # "join" => slot[w][p] = Null
         /\ pc[w][p] = "done" => GcArgument(w, p) = Null
    /\ \A p, q \in Paths : /\ pc[w][p] = "join" /\ pc[w][q] = "join"
                           /\ slot[w][p] = slot[w][q]
                           => p = q

\* Sons lie deeper than their fathers, no deeper than Bits; what a frame
\* works on was made for its region or for a part of it.
Depths ==
  /\ \A a \in Inner : /\ Len(a.at) < Bits
                      /\ \A d \in {0, 1} : Son(a, d) # Null
                                            => Len(Son(a, d).at) > Len(a.at)
  /\ \A w \in Writers, p \in Paths :
       slot[w][p] # Null => Len(slot[w][p].at) >= Len(p)

\* A frame that forked made its copy for its own region.
CopiesInPlace ==
  \A w \in Writers, p \in Paths :
    job[w].phase \in Working /\ pc[w][p] = "join"
      => slot[w][p].at = p /\ slot[w][p].made \in {"delete_copy", "insert_copy"}

IInv == /\ TypeOK /\ NoDanglingReference /\ JobsDiffer /\ FramesWork
        /\ GcFramesNest /\ Depths /\ CopiesInPlace /\ Separation
=============================================================================
