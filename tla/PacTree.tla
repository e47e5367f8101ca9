------------------------------ MODULE PacTree -------------------------------
(***************************************************************************)
(* The balanced map that the PaC-Z index keeps its versions in             *)
(* (src/third_party/cpam): a weight-balanced tree whose lower parts are    *)
(* compressed into blocks of B to 2B entries, shared by versions, with     *)
(* reference counts.  A node with one reference is updated in place, so    *)
(* every operation is an operator from one heap to the next.               *)
(*                                                                         *)
(* An operator that makes or hands on a node returns [h, p], the heap and  *)
(* the node.  It owns one reference to each node it is given, but for a    *)
(* ptr (GC::ptr), which may say that the reference is somebody else's:     *)
(* extra.  son[0] is lc, son[1] is rc; d is the side an operation is on.   *)
(***************************************************************************)
EXTENDS Sequences, FiniteSets, TLC, Geometry

CONSTANTS B,    \* entries of a block: B to 2B
          Null  \* no node

ASSUME BlockAssumption == B \in Nat \ {0}

kBaseCaseSize == 8 * B + 2
upper_threshold == (100 * B + 28) \div 29   \* ceil(B * (1 + 1 / wb_ratio))

IsLeaf(h, t) == t # Null /\ h[t].leaf
Size(h, t) == IF t = Null THEN 0 ELSE h[t].size

\* is_left_heavy(t1, t2), with wb_alpha = 0.29; is_single_rotation, could_single_rotate.
Weight(h, t) == Size(h, t) + 1
Heavy(h, t1, t2) == 29 * Weight(h, t1) > 71 * Weight(h, t2)
SingleRotation_Always(h, t, d) == TRUE
SingleRotation(h, t, d) == 71 * Weight(h, h[t].son[d]) <= 42 * Weight(h, t)
CouldSingleRotate(h, t1, t2) ==
  \A t \in {t1, t2} : 71 * Weight(h, t) <= 42 * (Size(h, t1) + Size(h, t2) + 2)

-----------------------------------------------------------------------------
(* Nodes.  aug holds the box of the entries below a node and their number. *)

FromEntry(e) == [box |-> [lo |-> [x |-> e.x, y |-> e.y], hi |-> [x |-> e.x, y |-> e.y]], n |-> 1]
Combine(a, b) ==
  [box |-> [lo |-> [i \in {"x", "y"} |-> Smaller(a.box.lo[i], b.box.lo[i])],
            hi |-> [i \in {"x", "y"} |-> Larger(a.box.hi[i], b.box.hi[i])]],
   n |-> a.n + b.n]
Encode(s) == LET av[i \in DOMAIN s] == IF i = 1 THEN FromEntry(s[1])
                                       ELSE Combine(av[i - 1], FromEntry(s[i]))
             IN  av[Len(s)]

Sons(l, r) == (0 :> l) @@ (1 :> r)
Block(s) == [leaf |-> TRUE, items |-> s, refs |-> 1, size |-> Len(s), aug |-> Encode(s)]
Regular(e) == [leaf |-> FALSE, items |-> <<e>>, son |-> Sons(Null, Null),
               refs |-> 1, size |-> 1, aug |-> FromEntry(e)]

New(h, node) ==
  LET a == CHOOSE n \in 1..Cardinality(DOMAIN h) + 1 : n \notin DOMAIN h
  IN  [h |-> (a :> node) @@ h, p |-> a]
NewBlock(h, s) == New(h, Block(s))

Update(h, t) ==
  LET l == h[t].son[0]
      r == h[t].son[1]
      e == FromEntry(h[t].items[1])
      withLeft == IF l = Null THEN e ELSE Combine(h[l].aug, e)
  IN  [h EXCEPT ![t].size = Size(h, l) + Size(h, r) + 1,
                ![t].aug = IF r = Null THEN withLeft ELSE Combine(withLeft, h[r].aug)]
Link(h, t, l, r) == [h |-> Update([h EXCEPT ![t].son = Sons(l, r)], t), p |-> t]

\* iterate_seq: the entries in order.
RECURSIVE Entries(_, _)
Entries(h, t) ==
  IF t = Null THEN << >>
  ELSE IF h[t].leaf THEN h[t].items
  ELSE Entries(h, h[t].son[0]) \o h[t].items \o Entries(h, h[t].son[1])

-----------------------------------------------------------------------------
(* Reference counts.                                                       *)

Increment(h, t) == IF t = Null THEN h ELSE [h EXCEPT ![t].refs = @ + 1]

Decrement(h, t) ==
  IF t = Null THEN h
  ELSE IF h[t].refs = 1 THEN [a \in DOMAIN h \ {t} |-> h[a]]
  ELSE [h EXCEPT ![t].refs = @ - 1]

RECURSIVE DecrementRecursive(_, _)
DecrementRecursive(h, t) ==
  IF t # Null /\ ~IsLeaf(h, t) /\ h[t].refs = 1
  THEN DecrementRecursive(DecrementRecursive(Decrement(h, t), h[t].son[0]), h[t].son[1])
  ELSE Decrement(h, t)

CopyIfNeeded_InPlace(h, t) == [h |-> h, p |-> t]
CopyIfNeeded(h, t) ==
  IF h[t].refs = 1 THEN [h |-> h, p |-> t]
  ELSE LET o == New(Increment(Increment(h, h[t].son[0]), h[t].son[1]),
                    [h[t] EXCEPT !.refs = 1])
       IN  [o EXCEPT !.h = DecrementRecursive(@, t)]

Ptr(t, extra) == [t |-> t, extra |-> extra]
Own(t) == Ptr(t, FALSE)
NodePtr(h, q) == [h |-> IF q.extra THEN Increment(h, q.t) ELSE h, p |-> q.t]
Destruct(h, q) == IF q.extra THEN h ELSE DecrementRecursive(h, q.t)

-----------------------------------------------------------------------------
(* Blocks.                                                                 *)

\* Which of the entries s becomes the root when they are made into two or four blocks
\* or into a tree, and 0 if they are one block.  The halves of a tree are as large but
\* for one entry, so that regular_node_join always finds them balanced.
Root(s, kind) ==
  CASE kind = "block" -> 0
    [] kind = "half" -> IF Len(s) = 2 * B THEN 0 ELSE (Len(s) + 1) \div 2
    [] kind = "four" -> (Len(s) + 1) \div 2
    [] kind = "subtree" /\ Len(s) = B /\ B > 1 -> 0
    [] OTHER -> Len(s) \div 2 + 1
KindOfSons(kind) == CASE kind \in {"two", "half"} -> "block"
                      [] kind = "four" -> "half"
                      [] OTHER -> "subtree"

\* Nodes for s; e, if there is one, is used for the root.
RECURSIVE MakeNodes(_, _, _, _)
MakeNodes(h, s, e, kind) ==
  LET m == Root(s, kind)
      k == IF e = Null THEN New(h, Regular(s[m]))
           ELSE [h |-> [h EXCEPT ![e].items = <<s[m]>>], p |-> e]
      l == MakeNodes(k.h, SubSeq(s, 1, m - 1), Null, KindOfSons(kind))
      r == MakeNodes(l.h, SubSeq(s, m + 1, Len(s)), Null, KindOfSons(kind))
  IN  IF s = << >> THEN [h |-> h, p |-> Null]
      ELSE IF m = 0 THEN NewBlock(h, s)
      ELSE Link(r.h, k.p, l.p, r.p)

\* make_compressed(stack, tot), two_compressed_nodes, four_compressed_nodes; to_tree
MakeCompressed(h, s, e) ==
  IF Len(s) <= 2 * B THEN NewBlock(Decrement(h, e), s)
  ELSE MakeNodes(h, s, e, IF Len(s) <= 4 * B + 1 THEN "two" ELSE "four")
ToTree(h, s) == MakeNodes(h, s, Null, "tree")

\* make_compressed(l, r, e): what does not fit into stack[7 * B] is lost.
Compress_KeepsParts(h, l, r, e) ==
  LET s == Entries(h, l) \o (IF e = Null THEN << >> ELSE h[e].items) \o Entries(h, r)
  IN  MakeCompressed(h, SubSeq(s, 1, Smaller(Len(s), 7 * B)), e)
Compress(h, l, r, e) ==
  LET s == Entries(h, l) \o (IF e = Null THEN << >> ELSE h[e].items) \o Entries(h, r)
      c == MakeCompressed(h, SubSeq(s, 1, Smaller(Len(s), 7 * B)), e)
  IN  [c EXCEPT !.h = DecrementRecursive(DecrementRecursive(@, l), r)]

-----------------------------------------------------------------------------
(* Joins (balance_utils.h).  k is the node for the entry in between.       *)

InRange(n, m) == B <= n /\ n <= m

BalancedJoin(h, l, r, k) ==
  IF (Size(h, l) < B \/ Size(h, r) < B) /\ Size(h, l) + Size(h, r) + 1 >= B
  THEN Compress(h, l, r, k) ELSE Link(h, k, l, r)

\* rotate_left (d = 1), rotate_right (d = 0)
Rotate(h, t, d) ==
  LET root == h[t].son[d]
      low == Update([h EXCEPT ![t].son[d] = h[root].son[1 - d], ![root].son[1 - d] = t], t)
  IN  [h |-> Update(low, root), p |-> root]
DoubleRotate(h, t, d) ==
  LET s == h[t].son[d]
      c == CopyIfNeeded(h, h[s].son[1 - d])
      low == Update([c.h EXCEPT ![s].son[1 - d] = c.h[c.p].son[d]], s)
  IN  Rotate([low EXCEPT ![c.p].son[d] = s, ![t].son[d] = c.p], t, d)

Rebalance(h, t, d) ==
  LET s == h[t].son[d]
  IN  IF ~Heavy(h, s, h[t].son[1 - d]) THEN [h |-> Update(h, t), p |-> t]
      ELSE IF SingleRotation(h, s, 1 - d) THEN Rotate(h, t, d)
      ELSE IF IsLeaf(h, h[s].son[1 - d]) THEN Compress(Update(h, t), t, Null, Null)
      ELSE DoubleRotate(h, t, d)

\* right_join(t1, t2, k) (d = 1), left_join(t2, t1, k) (d = 0): down the spine of t1.
RECURSIVE SideJoin(_, _, _, _, _)
SideJoin(h, d, t1, t2, k) ==
  LET l == IF d = 1 THEN t1 ELSE t2
      r == IF d = 1 THEN t2 ELSE t1
      t == CopyIfNeeded(h, t1)
      j == SideJoin(t.h, d, t.h[t.p].son[d], t2, k)
  IN  IF IsLeaf(h, t1) \/ (Heavy(h, t1, t2) /\ InRange(Size(h, t1) + Size(h, t2) + 1, 2 * B))
      THEN Compress(h, l, r, k)
      ELSE IF ~Heavy(h, t1, t2) THEN BalancedJoin(h, l, r, k)
      ELSE Rebalance([j.h EXCEPT ![t.p].son[d] = j.p], t.p, d)

\* Of two leaves one of which is heavy, a block is made only if it could be split again
\* into balanced ones.
NodeJoin(h, t1, t2, k) ==
  LET d == IF Heavy(h, t1, t2) THEN 1 ELSE 0
      tall == IF d = 1 THEN t1 ELSE t2
      low == IF d = 1 THEN t2 ELSE t1
      balanced == ~Heavy(h, t1, t2) /\ ~Heavy(h, t2, t1)
      leaves == {t \in {t1, t2} : IsLeaf(h, t)}
  IN  IF \/ leaves = {} /\ InRange(Size(h, t1) + Size(h, t2) + 1, upper_threshold)
         \/ /\ ~balanced /\ tall \in leaves
            /\ leaves = {t1, t2} => CouldSingleRotate(h, t1, t2)
      THEN Compress(h, t1, t2, k)
      ELSE IF balanced \/ tall \in leaves THEN BalancedJoin(h, t1, t2, k)
      ELSE SideJoin(h, d, tall, low, k)

-----------------------------------------------------------------------------
(* Taking trees apart (sequence_ops.h).                                    *)

\* expose: the sons, the entry, and the node for it if it may be used again.
ExposeTree(h, q, t) ==
  [h |-> Destruct(h, q), l |-> Own(h[t].son[0]), e |-> h[t].items[1],
   r |-> Own(h[t].son[1]), root |-> t]
Expose(h, q) ==
  LET n == h[q.t]
      copy == q.extra \/ n.refs > 1
      tree == ToTree(h, n.items)
  IN  IF n.leaf THEN ExposeTree(tree.h, q, tree.p)
      ELSE [h |-> IF copy THEN Destruct(h, q) ELSE h, l |-> Ptr(n.son[0], copy),
            e |-> n.items[1], r |-> Ptr(n.son[1], copy), root |-> IF copy THEN Null ELSE q.t]

\* root, or a new node for the entry: join(l, e, r, root), single(e).
RootFor(h, root, e) == IF root = Null THEN New(h, Regular(e)) ELSE [h |-> h, p |-> root]
Join(h, l, e, r, root) == LET k == RootFor(h, root, e) IN NodeJoin(k.h, l, r, k.p)

\* join2_i
RECURSIVE Join2(_, _, _)
Join2Left(x, q2) ==
  LET l == NodePtr(x.h, x.l)
      r == Join2(l.h, x.r, q2)
  IN  Join(r.h, l.p, x.e, r.p, x.root)
Join2Right(q1, x) ==
  LET l == Join2(x.h, q1, x.l)
      r == NodePtr(l.h, x.r)
  IN  Join(r.h, l.p, x.e, r.p, x.root)
Join2(h, q1, q2) ==
  LET first == Size(h, q1.t) > Size(h, q2.t)
      big == IF first THEN q1 ELSE q2
  IN  IF q1.t = Null THEN NodePtr(h, q2)
      ELSE IF q2.t = Null THEN NodePtr(h, q1)
      ELSE IF IsLeaf(h, big.t) \/ InRange(Size(h, q1.t) + Size(h, q2.t), 2 * B)
           THEN Compress(NodePtr(NodePtr(h, q1).h, q2).h, q1.t, q2.t, Null)
      ELSE IF first THEN Join2Left(Expose(h, q1), q2)
      ELSE Join2Right(q1, Expose(h, q2))

\* The halves and, if it is kept, the entry in between.
Rejoin(h, l, x, r, kept) ==
  IF kept THEN Join(h, l, x.e, r, x.root)
  ELSE Join2(Decrement(h, x.root), Own(l), Own(r))
=============================================================================
