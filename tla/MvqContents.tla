---------------------------- MODULE MvqContents ----------------------------
(***************************************************************************)
(* Where the points of a version are while commits run, on the heap of     *)
(* MvqStore: the inductive invariant behind the refinement of              *)
(* VersionedIndex.  A node is settled when it is held and is not the copy  *)
(* of a frame that still waits for its halves.  Below a settled node all   *)
(* nodes are settled, and they are in order; a frame works towards a       *)
(* certain part of a certain bag.                                          *)
(***************************************************************************)
EXTENDS MvqProperties

\* Path q leads to p.
Leads(q, p) == Len(q) <= Len(p) /\ \A i \in 1..Len(q) : q[i] = p[i]

Forked(w, p) == job[w].phase \in Working /\ pc[w][p] = "join"
Opened(w, p) == job[w].phase = "gc" /\ pc[w][p] = "join"

\* The nodes that are about to be overwritten: the copies of frames that wait, and the
\* nodes that gc_nocheck takes apart.
Copies == {slot[r[1]][r[2]] : r \in {s \in Writers \X Paths : Forked(s[1], s[2])}}
Dying == {slot[r[1]][r[2]] : r \in {s \in Writers \X Paths : Opened(s[1], s[2])}}

\* What the references lead to that gc_nocheck does not go along.
Roots == {Son(b, d) : b \in Inner \ Dying, d \in {0, 1}}
           \cup {versions[v] : v \in DOMAIN versions}
           \cup {job[u].tmp_ver : u \in {x \in Writers : job[x].phase # "gc"}}
           \cup {job[u].new_ver : u \in Writers}
Held == Roots \cup {slot[u][q] : u \in Owners, q \in Paths}
Settled == (DOMAIN heap \cap Held) \ Copies

-----------------------------------------------------------------------------
(* Nodes in order.                                                         *)

\* The records of a leaf at path p: not too many, not none, and of the region.
LeafFits(B, p) == /\ FitsLeaf(BagCardinality(B), p)
                  /\ p # << >> => B # EmptyBag
                  /\ \A pt \in DOMAIN B : Under(pt, p)
\* A leaf may hang higher than where it was made, an inner node may not.
Fits(a, p) == a # Null => /\ a \in Settled
                          /\ heap[a].leaf => LeafFits(heap[a].records, p)
                          /\ ~heap[a].leaf => a.at = p

NodeFits(a) ==
  ~heap[a].leaf =>
    /\ \A d \in {0, 1} : Fits(Son(a, d), Child(a.at, d))
    /\ heap[a].num_pts = BagCardinality(Contents(a)) /\ heap[a].num_pts > LeafSize
NodesFit == \A a \in Settled : NodeFits(a)
VersionsFit == \A v \in DOMAIN versions : Fits(versions[v], << >>)

-----------------------------------------------------------------------------
(* What the commit of writer w is on the way to.                           *)

Base(w) == Contents(versions[job[w].base])
Kept(w) == Base(w) (-) job[w].del
Result(w) == Kept(w) (+) job[w].ins
Input(w) == IF job[w].phase = "delete" THEN Base(w) ELSE Kept(w)
Output(w) == IF job[w].phase = "delete" THEN Kept(w) ELSE Result(w)

RootsFit(w) ==
  /\ job[w].phase = "insert" =>
       Fits(job[w].tmp_ver, << >>) /\ Contents(job[w].tmp_ver) = Kept(w)
  /\ job[w].phase = "gc" =>
       Fits(job[w].new_ver, << >>) /\ Contents(job[w].new_ver) = Result(w)

\* A call is given the part of the input that belongs to its region and returns that of
\* the output; a node that was split holds too many points for a leaf.
CallFits(w, p) == Fits(slot[w][p], p) /\ Contents(slot[w][p]) = Part(Input(w), p)
ReturnFits(w, p) == Fits(slot[w][p], p) /\ Contents(slot[w][p]) = Part(Output(w), p)
FrameFits(w, p) ==
  job[w].phase \in Working =>
    /\ pc[w][p] = "call" /\ p # << >> => CallFits(w, p)
    /\ pc[w][p] = "call" /\ p # << >> /\ job[w].phase = "insert" =>
         Part(job[w].ins, p) # EmptyBag
    /\ pc[w][p] = "done" => ReturnFits(w, p)
    /\ pc[w][p] = "join" /\ job[w].phase = "insert" =>
         BagCardinality(Part(Input(w), p)) > LeafSize

-----------------------------------------------------------------------------
(* Why the frames of a commit, and those of others, leave all that alone.  *)

\* The frames above a frame wait for it.
FramesNest(w) ==
  \A p, q \in Paths : pc[w][p] # "idle" /\ Leads(q, p) /\ q # p => pc[w][q] = "join"
BothCalled(w) ==
  \A p \in Paths : Forked(w, p) => \A q \in Children(p) : pc[w][q] # "idle"

\* The nodes that a commit has allocated belong to frames that have returned, or are
\* the copies of frames that wait.
MadeIn(phase) == IF phase = "delete" THEN {"delete_copy", "merge"} ELSE {"insert_copy", "build"}
Allocated(w) ==
  \A a \in DOMAIN heap : job[w].phase \in Working /\ a.owner = job[w].id =>
    \/ job[w].phase = "insert" /\ a.made \in MadeIn("delete")
    \/ /\ a.made \in MadeIn(job[w].phase)
       /\ \E q \in Paths : Leads(q, a.at) /\ pc[w][q] = "done"
    \/ /\ a.made \in MadeIn(job[w].phase) \ {"merge", "build"}
       /\ pc[w][a.at] = "join"

\* Nothing but its frame refers to a copy, and nothing but the place where gc_nocheck
\* found it to a node that is taken apart.
HeldAlone(w, p) ==
  /\ slot[w][p] \notin Roots
  /\ \A u \in Owners, q \in Paths : slot[u][q] = slot[w][p] => u = w /\ q = p
CopiesAlone(w) == \A p \in Paths : Forked(w, p) => HeldAlone(w, p)
DyingAlone(w) == \A p \in Paths : Opened(w, p) => slot[w][p] \notin Held

\* The version that a running commit is to add is not there yet.
Unpublished(w) == job[w].phase # "idle" => job[w].id \notin DOMAIN versions

WriterFits(w) ==
  /\ RootsFit(w) /\ \A p \in Paths : FrameFits(w, p)
  /\ FramesNest(w) /\ BothCalled(w) /\ Allocated(w)
  /\ CopiesAlone(w) /\ DyingAlone(w) /\ Unpublished(w)

\* The inductive invariant: at every step of every commit, settled nodes and versions are
\* as the code means to build them, and each running commit's frames, copies and dying
\* nodes are where they are expected.
CInv == NodesFit /\ VersionsFit /\ \A w \in Writers : WriterFits(w)
=============================================================================
