------------------------------ MODULE MvqPurge ------------------------------
(***************************************************************************)
(* garbage_collect of src/include/silva/index/mvq.hpp, which takes one     *)
(* version apart against another one, and gc_nocheck on its behalf.  It    *)
(* runs alone.  A cell is a shared_ptr of the tree, as the code passes it  *)
(* by reference: <<Null, v>> is the root of version v that the client      *)
(* holds, <<a, d>> the d-son of node a.  All that a purge does is to reset *)
(* cells, so its state is the set Z of those that are reset.               *)
(***************************************************************************)
EXTENDS MvqProperties

CONSTANT Cutoff   \* granularity_cutoff

ASSUME CutoffAssumption == Cutoff \in Nat

Cells == ({Null} \X DOMAIN versions) \cup (Inner \X {0, 1})

Pointer(Z, c) == IF c \in Z THEN Null
                 ELSE IF c[1] = Null THEN versions[c[2]] ELSE Son(c[1], c[2])

\* The tree of version v: the node at every path.
Tree(Z, v) ==
  LET node[q \in Paths] ==
        IF q = << >> THEN Pointer(Z, <<Null, v>>)
        ELSE LET a == node[Parent(q)]
             IN  IF a = Null \/ a \notin Inner THEN Null ELSE Pointer(Z, <<a, q[Len(q)]>>)
  IN  node

\* The nodes that are left: the others went with their last reference.
Reached(Z, v) == {Tree(Z, v)[q] : q \in Paths} \ {Null}
Alive(Z) == UNION {Reached(Z, v) : v \in DOMAIN versions}

\* x.use_count() == 1
IsUnique(Z, a) ==
  Cardinality({c \in Cells : c[1] \in Alive(Z) \cup {Null} /\ Pointer(Z, c) = a}) = 1

\* gc_nocheck(x)
GcNoCheck(Z0, c0) ==
  LET gc[v \in (SUBSET Cells) \X Cells] ==
        LET Z == v[1]
            c == v[2]
            x == Pointer(Z, c)
        IN  {c} \cup IF x \in Inner /\ IsUnique(Z, x)
                     THEN gc[<<gc[<<Z, <<x, 0>>>>], <<x, 1>>>>]
                     ELSE Z
  IN  gc[<<Z0, c0>>]

\* Where garbage_collect has nothing to do; in particular the nodes that base shares.
NothingToPurge_Shared(base, x) == x = Null
NothingToPurge(base, x) == x = Null \/ x = base

\* garbage_collect(base, x): what x has and base has not at the same place goes.
GarbageCollect(Z0, base0, c0) ==
  LET gc[v \in (SUBSET Cells) \X (DOMAIN heap \cup {Null}) \X Cells] ==
        LET Z == v[1]
            base == v[2]
            c == v[3]
            x == Pointer(Z, c)
            half(T, d) == gc[<<T, Pointer(T, <<base, d>>), <<x, d>>>>]
        IN  IF NothingToPurge(base, x) THEN Z
            ELSE IF heap[x].leaf THEN Z \cup {c}
            ELSE IF base = Null \/ base \notin Inner THEN GcNoCheck(Z, c)
            ELSE {c} \cup IF NumPoints(x) > Cutoff THEN half(half(Z, 0), 1) ELSE Z
  IN  gc[<<Z0, base0, c0>>]

-----------------------------------------------------------------------------
\* Of two versions either may be taken apart against the other, the older against the
\* newer and the newer against the older: the other one keeps every node at its place,
\* although it shares nodes, and no reference to the nodes that were not shared is left.
PurgeSparesTheOther ==
  (\A w \in Writers : job[w].phase = "idle") /\ Cardinality(DOMAIN versions) = 2 =>
    \A b, v \in DOMAIN versions : b # v =>
      LET Z == GarbageCollect({}, versions[b], <<Null, v>>)
      IN  Tree(Z, b) = Tree({}, b) /\ Alive(Z) = Reached({}, b)
=============================================================================
