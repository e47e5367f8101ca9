------------------------------ MODULE MvqStore ------------------------------
(***************************************************************************)
(* The multi-version Z-order quadtree of src/include/silva/index/mvq.hpp:  *)
(* a heap of reference-counted nodes shared by every version, and commit   *)
(* as the fork-join computation it is.  A commit copies the nodes on the   *)
(* paths its batches touch (node_copy), first for the deletions, then for  *)
(* the insertions, and finally dismantles the intermediate version         *)
(* (gc_nocheck).  Each recursive call is a frame named by its path from    *)
(* the root; the two halves of par_do_if and the commits of different      *)
(* callers interleave freely.                                              *)
(*                                                                         *)
(* A point is [code, id]: its Morton code (most significant bit first) and *)
(* its identifier, the pair every comparison of mvq.hpp orders points by.  *)
(* A sorted sequence of points is the bag of its elements.                 *)
(***************************************************************************)
EXTENDS Integers, Sequences, FiniteSets, Bags

CONSTANTS Writers,     \* the callers of commit
          Points,      \* the points that may ever be stored
          Bits,        \* length of a Morton code (64 in the code)
          LeafSize,    \* leaf_size: most records a leaf holds above depth Bits
          MaxCommits,  \* bound on the number of commits of a behaviour
          Initial,     \* the bags the first version may be built from
          Batches,     \* the bags of points a caller may insert or delete
          Null         \* the empty shared_ptr

\* A path from the root names a region; <<0, 1>> is the 1-half of the 0-half.
Paths == UNION {[1..n -> {0, 1}] : n \in 0..Bits}

Child(p, d) == Append(p, d)
Children(p) == IF Len(p) < Bits THEN {Child(p, 0), Child(p, 1)} ELSE {}
Parent(p) == SubSeq(p, 1, Len(p) - 1)

\* The address of a node: the commit that allocated it, the statement that
\* did, and the path of the call.  Addresses are not reused.
Address == [owner : Nat,
            made : {"build", "delete_copy", "merge", "insert_copy"},
            at : Paths]
IsBagOfPoints(B) == B \in [DOMAIN B -> Nat \ {0}] /\ DOMAIN B \subseteq Points

Leaf(R) == [leaf |-> TRUE, records |-> R]
Inte(L, R, n) == [leaf |-> FALSE, l_son |-> L, r_son |-> R, num_pts |-> n]

ASSUME ConstantsAssumption ==
  /\ Bits \in Nat /\ LeafSize \in Nat \ {0} /\ MaxCommits \in Nat
  /\ IsFiniteSet(Points) /\ \A pt \in Points : pt.code \in [1..Bits -> {0, 1}]
  /\ \A B \in Initial \cup Batches : IsBagOfPoints(B)
  /\ Null \notin Address
  /\ Null \notin [id : Nat, base : Nat, ins : Batches \cup {EmptyBag},
                  del : Batches \cup {EmptyBag}]

VARIABLES heap,      \* the live nodes: address -> Leaf or Inte
          versions,  \* the roots the client holds: version id -> address
          job,       \* the local variables of each writer's running commit
          pc,        \* where each frame of a running commit is
          slot,      \* the shared_ptr variable x that each frame works on
          commits    \* number of commits begun so far

vars == <<heap, versions, job, pc, slot, commits>>

-----------------------------------------------------------------------------
(* Bags of points, and reading and writing the heap.                       *)

Under(pt, q) == \A i \in DOMAIN q : pt.code[i] = q[i]

\* split_by_bit: of a sorted batch, the part that belongs to region q.
Part(B, q) == [pt \in {x \in DOMAIN B : Under(x, q)} |-> B[pt]]

Son(a, d) == IF d = 0 THEN heap[a].l_son ELSE heap[a].r_son

\* get_num_points; 0 for an empty pointer.
NumPoints(a) == IF a = Null THEN 0
                ELSE IF heap[a].leaf THEN BagCardinality(heap[a].records)
                ELSE heap[a].num_pts

\* H with the nodes of N allocated or overwritten.
Store(H, N) == [a \in DOMAIN H \cup DOMAIN N |->
                  IF a \in DOMAIN N THEN N[a] ELSE H[a]]
One(a, node) == [x \in {a} |-> node]

\* A leaf at path p may hold n records.
FitsLeaf(n, p) == Len(p) = Bits \/ n <= LeafSize

\* build(P, b): the nodes of a tree for bag B at path p, allocated by commit c.
\* A node exists at q when q = p or its parent was split and B has points there.
BuildAddress(c, q) == [owner |-> c, made |-> "build", at |-> q]
BuildPaths(B, p) ==
  {q \in Paths : \/ q = p
                 \/ /\ Len(q) > Len(p) /\ SubSeq(q, 1, Len(p)) = p
                    /\ Part(B, q) # EmptyBag
                    /\ ~FitsLeaf(BagCardinality(Part(B, Parent(q))), Parent(q))}
BuildNode(B, c, Q, q) ==
  LET n == BagCardinality(Part(B, q))
      SonAt(d) == IF Child(q, d) \in Q THEN BuildAddress(c, Child(q, d)) ELSE Null
  IN  IF FitsLeaf(n, q) THEN Leaf(Part(B, q)) ELSE Inte(SonAt(0), SonAt(1), n)
Build(B, p, c) ==
  LET Q == BuildPaths(B, p)
      addresses == {BuildAddress(c, q) : q \in Q}
  IN  [a \in addresses |-> BuildNode(B, c, Q, a.at)]

-----------------------------------------------------------------------------
(* Reference counts.                                                       *)

Working == {"delete", "insert"}   \* phases in which frames own shared_ptrs

Inner == {a \in DOMAIN heap : ~heap[a].leaf}
Owners == {w \in Writers : job[w].phase \in Working}

\* The shared_ptrs that point to node a: sons of nodes, roots the client
\* holds, and local variables of running commits.  x.use_count() is their number.
References(a) ==
  UNION {{r \in {"son"} \X Inner \X {0, 1} : Son(r[2], r[3]) = a},
         {r \in {"version"} \X DOMAIN versions : versions[r[2]] = a},
         {r \in {"tmp_ver"} \X Writers : job[r[2]].tmp_ver = a},
         {r \in {"new_ver"} \X Writers : job[r[2]].new_ver = a},
         {r \in {"slot"} \X Owners \X Paths : slot[r[2]][r[3]] = a}}
UseCountIsOne(a) == \E r \in References(a) : References(a) = {r}

Referenced == {Son(b, d) : b \in Inner, d \in {0, 1}}
                \cup {versions[v] : v \in DOMAIN versions}
                \cup {job[w].tmp_ver : w \in Writers}
                \cup {job[w].new_ver : w \in Writers}
                \cup {slot[w][p] : w \in Owners, p \in Paths}
Garbage == DOMAIN heap \ Referenced

\* The last shared_ptr to a node is gone: its destructor runs, and drops its
\* own references to its sons.  It runs inside the statement that dropped the
\* last reference, so no other step is taken while there is garbage.
Reclaim ==
  /\ Garbage # {}
  /\ heap' = [a \in DOMAIN heap \ Garbage |-> heap[a]]
  /\ UNCHANGED <<versions, job, pc, slot, commits>>

-----------------------------------------------------------------------------
(* Frames.  pc[w][p] is "call" when the call at path p is due, "join" when  *)
(* its two halves are running, "done" when it returned (or was not made,    *)
(* because its half of the batch is empty), and "idle" otherwise.           *)

Idle == [phase |-> "idle", id |-> 0, base |-> 0, ins |-> EmptyBag,
         del |-> EmptyBag, tmp_ver |-> Null, new_ver |-> Null]
NoFrames == [p \in Paths |-> "idle"]
NoSlots == [p \in Paths |-> Null]

FrameAt(w, p, phase, where) == job[w].phase = phase /\ pc[w][p] = where
SonsDone(w, p) == \A q \in Children(p) : pc[w][q] = "done"
Fresh(w, made, p) == [owner |-> job[w].id, made |-> made, at |-> p]

\* The call at p ends with x = y; the variables of its two halves die.
Return_Leak(w, p, y) ==
  /\ pc' = [pc EXCEPT ![w] = [q \in Paths |->
              IF q = p THEN "done" ELSE IF q \in Children(p) THEN "idle" ELSE @[q]]]
  /\ slot' = [slot EXCEPT ![w][p] = y]
Return(w, p, y) ==
  /\ pc' = [pc EXCEPT ![w] = [q \in Paths |->
              IF q = p THEN "done" ELSE IF q \in Children(p) THEN "idle" ELSE @[q]]]
  /\ slot' = [slot EXCEPT ![w] = [q \in Paths |->
                IF q = p THEN y ELSE IF q \in Children(p) THEN Null ELSE @[q]]]

ForkSlots_InPlace(w, p, x, y) ==
  [q \in Paths |-> IF q = p THEN x
                   ELSE IF q \in Children(p) THEN Son(x, q[Len(q)]) ELSE slot[w][q]]
ForkSlots(w, p, x, y) ==
  [q \in Paths |-> IF q = p THEN y
                   ELSE IF q \in Children(p) THEN Son(x, q[Len(q)]) ELSE slot[w][q]]

\* The call at p works on the copy y of inner node x: new_l_son and new_r_son
\* start as the sons of x, and a call is made for each half of P with points.
Fork(w, p, x, y, P) ==
  /\ pc' = [pc EXCEPT ![w] = [q \in Paths |->
              IF q = p THEN "join"
              ELSE IF q \in Children(p)
                   THEN IF Part(P, q) = EmptyBag THEN "done" ELSE "call"
                   ELSE @[q]]]
  /\ slot' = [slot EXCEPT ![w] = ForkSlots(w, p, x, y)]

-----------------------------------------------------------------------------
(* commit                                                                  *)

\* The root the call at path p copies: node_copy(old_root) at the top,
\* node_copy(cur_inte->l_son) or node_copy(cur_inte->r_son) below.
Argument(w, p) == IF p # << >> THEN slot[w][p]
                  ELSE IF job[w].phase = "delete" THEN versions[job[w].base]
                  ELSE job[w].tmp_ver

StartFrames(w) == /\ pc' = [pc EXCEPT ![w] = [NoFrames EXCEPT ![<< >>] = "call"]]
                  /\ slot' = [slot EXCEPT ![w] = NoSlots]

\* A caller calls commit(old_version, P_insert, P_delete).
Begin(w, v, ins, del) ==
  /\ job[w].phase = "idle" /\ commits < MaxCommits
  /\ commits' = commits + 1
  /\ job' = [job EXCEPT ![w] = [Idle EXCEPT !.phase = "delete", !.id = commits + 1,
                                  !.base = v, !.ins = ins, !.del = del]]
  /\ StartFrames(w)
  /\ UNCHANGED <<heap, versions>>

\* node_copy, then multi_version_batch_delete_sorted_node up to its fork.
DeleteCall(w, p) ==
  LET x == Argument(w, p)
      P == Part(job[w].del, p)
      y == Fresh(w, "delete_copy", p)
  IN  /\ FrameAt(w, p, "delete", "call")
      /\ \/ x = Null /\ Return(w, p, Null) /\ UNCHANGED heap
         \/ /\ x # Null /\ heap[x].leaf /\ heap[x].records (-) P = EmptyBag
            /\ Return(w, p, Null) /\ UNCHANGED heap
         \/ /\ x # Null /\ heap[x].leaf /\ heap[x].records (-) P # EmptyBag
            /\ heap' = Store(heap, One(y, Leaf(heap[x].records (-) P)))
            /\ Return(w, p, y)
         \/ /\ x # Null /\ ~heap[x].leaf
            /\ heap' = Store(heap, One(y, heap[x]))
            /\ Fork(w, p, x, y, P)
      /\ UNCHANGED <<versions, job, commits>>

\* A node with sons L and R that hold n points together stays an inner node.
Keeps_OffByOne(L, R, n) == ~(L = Null /\ R = Null) /\ n >= LeafSize
Keeps_NoPromotion(L, R, n) ==
  ~(L = Null /\ R = Null) /\ (n > LeafSize \/ L = Null \/ R = Null)
Keeps(L, R, n) == ~(L = Null /\ R = Null) /\ n > LeafSize

\* What static_cast<LeafNode*>(a)->records reads: the records of a leaf, and
\* anything from a node that is no leaf.
RecordsRead(a) == IF heap[a].leaf THEN {heap[a].records} ELSE Batches

\* The rest of multi_version_batch_delete_sorted_node, once both halves have
\* returned: a node left with too few points is dropped, or replaced by its only
\* son, or by a leaf with the records of both.  (The last three statements of the
\* code then still read and write the node that was replaced; it is freed memory
\* that no other node occupies yet.)
DeleteJoin(w, p) ==
  LET x == slot[w][p]
      L == slot[w][Child(p, 0)]
      R == slot[w][Child(p, 1)]
      n == NumPoints(L) + NumPoints(R)
      y == Fresh(w, "merge", p)
  IN  /\ FrameAt(w, p, "delete", "join") /\ SonsDone(w, p)
      /\ \/ /\ Keeps(L, R, n)
            /\ heap' = Store(heap, One(x, Inte(L, R, n)))
            /\ Return(w, p, x)
         \/ ~Keeps(L, R, n) /\ L = Null /\ Return(w, p, R) /\ UNCHANGED heap
         \/ ~Keeps(L, R, n) /\ L # Null /\ R = Null /\ Return(w, p, L) /\ UNCHANGED heap
         \/ /\ ~Keeps(L, R, n) /\ L # Null /\ R # Null
            /\ \E A \in RecordsRead(L), B \in RecordsRead(R) :
                 heap' = Store(heap, One(y, Leaf(A (+) B)))
            /\ Return(w, p, y)
      /\ UNCHANGED <<versions, job, commits>>

\* tmp_ver = multi_version_batch_delete_sorted(...); on to the insertions.
StartInsert(w) ==
  /\ FrameAt(w, << >>, "delete", "done")
  /\ job' = [job EXCEPT ![w].phase = "insert", ![w].tmp_ver = slot[w][<< >>]]
  /\ StartFrames(w)
  /\ UNCHANGED <<heap, versions, commits>>

\* node_copy, then multi_version_batch_insert_sorted_node up to its fork.
InsertCall(w, p) ==
  LET x == Argument(w, p)
      P == Part(job[w].ins, p)
      y == Fresh(w, "insert_copy", p)
      c == job[w].id
      merged == heap[x].records (+) P
      fits == FitsLeaf(BagCardinality(merged), p)
  IN  /\ FrameAt(w, p, "insert", "call")
      /\ \/ /\ x = Null
            /\ heap' = Store(heap, Build(P, p, c))
            /\ Return(w, p, BuildAddress(c, p))
         \/ /\ x # Null /\ heap[x].leaf /\ fits
            /\ heap' = Store(heap, One(y, Leaf(merged)))
            /\ Return(w, p, y)
         \/ /\ x # Null /\ heap[x].leaf /\ ~fits
            /\ heap' = Store(heap, Build(merged, p, c))
            /\ Return(w, p, BuildAddress(c, p))
         \/ /\ x # Null /\ ~heap[x].leaf
            /\ heap' = Store(heap, One(y, heap[x]))
            /\ Fork(w, p, x, y, P)
      /\ UNCHANGED <<versions, job, commits>>

\* delete_merge_nodes once both halves of the insertion have returned.
InsertJoin(w, p) ==
  LET x == slot[w][p]
      L == slot[w][Child(p, 0)]
      R == slot[w][Child(p, 1)]
  IN  /\ FrameAt(w, p, "insert", "join") /\ SonsDone(w, p)
      /\ heap' = Store(heap, One(x, Inte(L, R, NumPoints(L) + NumPoints(R))))
      /\ Return(w, p, x)
      /\ UNCHANGED <<versions, job, commits>>

\* new_ver = multi_version_batch_insert_sorted(...); on to gc_nocheck(tmp_ver).
StartGc(w) ==
  /\ FrameAt(w, << >>, "insert", "done")
  /\ job' = [job EXCEPT ![w].phase = "gc", ![w].new_ver = slot[w][<< >>]]
  /\ StartFrames(w)
  /\ UNCHANGED <<heap, versions, commits>>

-----------------------------------------------------------------------------
(* gc_nocheck(x).  Here slot[w][p] is the raw pointer cur_inte of the frame *)
(* at p, which x, a son of its parent frame's node, keeps alive.            *)

GcArgument(w, p) == IF p = << >> THEN job[w].tmp_ver
                    ELSE Son(slot[w][Parent(p)], p[Len(p)])
GcDescends_Shared(x) == x # Null /\ ~heap[x].leaf
GcDescends(x) == x # Null /\ ~heap[x].leaf /\ UseCountIsOne(x)

\* x.reset()
ResetSon(a, d) == IF d = 0 THEN [heap[a] EXCEPT !.l_son = Null]
                  ELSE [heap[a] EXCEPT !.r_son = Null]
Reset(w, p) ==
  IF p = << >>
  THEN job' = [job EXCEPT ![w].tmp_ver = Null] /\ UNCHANGED heap
  ELSE LET a == slot[w][Parent(p)]
       IN  heap' = Store(heap, One(a, ResetSon(a, p[Len(p)]))) /\ UNCHANGED job

GcCall(w, p) ==
  LET x == GcArgument(w, p)
  IN  /\ FrameAt(w, p, "gc", "call")
      /\ IF GcDescends(x)
         THEN /\ pc' = [pc EXCEPT ![w] = [q \in Paths |->
                          IF q = p THEN "join"
                          ELSE IF q \in Children(p) THEN "call" ELSE @[q]]]
              /\ slot' = [slot EXCEPT ![w][p] = x]
              /\ UNCHANGED <<heap, job>>
         ELSE Reset(w, p) /\ Return(w, p, Null)
      /\ UNCHANGED <<versions, commits>>

GcJoin(w, p) ==
  /\ FrameAt(w, p, "gc", "join") /\ SonsDone(w, p)
  /\ Reset(w, p) /\ Return(w, p, Null)
  /\ UNCHANGED <<versions, commits>>

\* commit returns new_ver, which the caller keeps.
Finish(w) ==
  /\ FrameAt(w, << >>, "gc", "done")
  /\ versions' = [v \in DOMAIN versions \cup {job[w].id} |->
                    IF v = job[w].id THEN job[w].new_ver ELSE versions[v]]
  /\ job' = [job EXCEPT ![w] = Idle]
  /\ pc' = [pc EXCEPT ![w] = NoFrames]
  /\ slot' = [slot EXCEPT ![w] = NoSlots]
  /\ UNCHANGED <<heap, commits>>

\* The client resets a root it holds.  A root passed to commit by reference
\* is kept until commit returns.
Release(v) ==
  /\ \A w \in Writers : job[w].phase # "idle" => job[w].base # v
  /\ versions' = [u \in DOMAIN versions \ {v} |-> versions[u]]
  /\ UNCHANGED <<heap, job, pc, slot, commits>>

-----------------------------------------------------------------------------
\* Tree::build of the first version, by "commit" 0; no root for no points.
Init ==
  /\ \E B \in Initial :
       IF B = EmptyBag
       THEN heap = [a \in {} |-> a] /\ versions = [v \in {0} |-> Null]
       ELSE heap = Build(B, << >>, 0) /\ versions = [v \in {0} |-> BuildAddress(0, << >>)]
  /\ job = [w \in Writers |-> Idle]
  /\ pc = [w \in Writers |-> NoFrames]
  /\ slot = [w \in Writers |-> NoSlots]
  /\ commits = 0

Frame(w, p) == \/ DeleteCall(w, p) \/ DeleteJoin(w, p)
               \/ InsertCall(w, p) \/ InsertJoin(w, p)
               \/ GcCall(w, p) \/ GcJoin(w, p)
Step(w) == /\ Garbage = {}
           /\ \/ \E p \in Paths : Frame(w, p)
              \/ StartInsert(w) \/ StartGc(w) \/ Finish(w)
Client == /\ Garbage = {}
          /\ \/ \E w \in Writers, v \in DOMAIN versions, ins, del \in Batches :
                  Begin(w, v, ins, del)
             \/ \E v \in DOMAIN versions : Release(v)

Next == Reclaim \/ Client \/ \E w \in Writers : Step(w)

Spec == Init /\ [][Next]_vars

\* The scheduler runs every forked task that can run, and destructors run.
FairSpec == Spec /\ WF_vars(Reclaim) /\ \A w \in Writers : WF_vars(Step(w))
=============================================================================
