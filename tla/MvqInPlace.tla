----------------------------- MODULE MvqInPlace -----------------------------
(***************************************************************************)
(* The batch updates of src/include/silva/index/mvq.hpp that write nodes   *)
(* in place, those of a tree that has one version only.  They run alone.   *)
(* A call is made for a shared_ptr x that the code passes by reference; it *)
(* is modelled by what it leaves: the node x refers to then, and the nodes *)
(* it wrote or allocated.  The two halves of par_do_if are given the heap  *)
(* H as it was, since neither reads a node that the other one writes.      *)
(***************************************************************************)
EXTENDS MvqProperties

Left(x, N) == [x |-> x, nodes |-> N]
NoNodes == [a \in {} |-> a]

SonIn(H, a, d) == IF d = 0 THEN H[a].l_son ELSE H[a].r_son

\* get_num_points
CountIn(H, a) == IF a = Null THEN 0
                 ELSE IF H[a].leaf THEN BagCardinality(H[a].records) ELSE H[a].num_pts

\* delete_merge_nodes(L, R, a), once the halves have left L and R.
Recount_KeepsNumber(H, a, L, R) ==
  Left(a, Store(Store(L.nodes, R.nodes), One(a, Inte(L.x, R.x, H[a].num_pts))))
Recount(H, a, L, R) ==
  LET N == Store(L.nodes, R.nodes)
      G == Store(H, N)
  IN  Left(a, Store(N, One(a, Inte(L.x, R.x, CountIn(G, L.x) + CountIn(G, R.x)))))

\* batch_insert_sorted(P) at root x; a call for the region at p is given the slice of P
\* that belongs to it.  New nodes belong to "commit" new.
BatchInsert(H, root, P, new) ==
  LET insert[v \in (DOMAIN H \cup {Null}) \X Seq({0, 1})] ==
        LET x == v[1]
            p == v[2]
            merged == H[x].records (+) Part(P, p)
            half(d) == insert[<<SonIn(H, x, d), Child(p, d)>>]
            built(B) == Left(BuildAddress(new, p), Build(B, p, new))
        IN  IF Part(P, p) = EmptyBag THEN Left(x, NoNodes)
            ELSE IF x = Null THEN built(Part(P, p))
            ELSE IF ~H[x].leaf THEN Recount(H, x, half(0), half(1))
            ELSE IF FitsLeaf(BagCardinality(merged), p) THEN Left(x, One(x, Leaf(merged)))
            ELSE built(merged)
  IN  insert[<<root, << >>>>]

\* batch_delete_sorted(P): leaves stay, even without records.
BatchDelete(H, root, P) ==
  LET delete[v \in (DOMAIN H \cup {Null}) \X Seq({0, 1})] ==
        LET x == v[1]
            p == v[2]
            half(d) == delete[<<SonIn(H, x, d), Child(p, d)>>]
        IN  IF Part(P, p) = EmptyBag \/ x = Null THEN Left(x, NoNodes)
            ELSE IF ~H[x].leaf THEN Recount(H, x, half(0), half(1))
            ELSE Left(x, One(x, Leaf(H[x].records (-) Part(P, p))))
  IN  delete[<<root, << >>>>]

-----------------------------------------------------------------------------
\* The points below node a of heap H, and whether every inner node there counts them.
PointsIn(H, a) ==
  LET bag[x \in DOMAIN H \cup {Null}] ==
        IF x = Null THEN EmptyBag
        ELSE IF H[x].leaf THEN H[x].records
        ELSE bag[H[x].l_son] (+) bag[H[x].r_son]
  IN  bag[a]
Counted(H, a) ==
  LET right[x \in DOMAIN H \cup {Null}] ==
        \/ x = Null
        \/ H[x].leaf
        \/ /\ H[x].num_pts = BagCardinality(PointsIn(H, x))
           /\ right[H[x].l_son] /\ right[H[x].r_son]
  IN  right[a]

\* Updates in place, a batch to delete and then one to insert: the tree holds what it
\* should and every inner node counts it; a tree that was only inserted into is the one
\* build would make, which the queries and commits after it rely on.
InPlaceUpdatesAreExact ==
  \A v \in DOMAIN versions :
    (\A w \in Writers : job[w].phase = "idle") /\ DOMAIN versions = {v} =>
      \A P, Q \in Batches :
        LET D == BatchDelete(heap, versions[v], P)
            G == Store(heap, D.nodes)
            I == BatchInsert(G, D.x, Q, commits + 1)
            S == Store(G, I.nodes)
            B == (Contents(versions[v]) (-) P) (+) Q
        IN  /\ PointsIn(S, I.x) = B /\ Counted(S, I.x)
            /\ P = EmptyBag /\ I.x # Null =>
                 Shape(S, I.x) = Shape(Build(B, << >>, 0), BuildAddress(0, << >>))
=============================================================================
