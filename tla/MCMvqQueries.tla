---------------------------- MODULE MCMvqQueries ----------------------------
(* A grid of four by four cells, two units wide.                           *)
EXTENDS MvqQueries

BagsOf(S) == {SetToBag(T) : T \in S}
At(i, px, py) == [id |-> i, x |-> px, y |-> py,
                  code |-> InterleaveBits([x |-> px, y |-> py])]
BoxesOver(xs) ==
  {[lo |-> [x |-> b[1], y |-> b[2]], hi |-> [x |-> b[3], y |-> b[4]]] :
     b \in {c \in xs \X xs \X xs \X xs : c[1] <= c[3] /\ c[2] <= c[4]}}

\* Corners, both sides of the middle and of other borders, a shared cell, a tie.
Grid == {At(1, 0, 0), At(2, 3, 4), At(3, 4, 3), At(4, 3, 3), At(5, 2, 2),
         At(6, 7, 0), At(7, 5, 4), At(8, 1, 7), At(9, 3, 0)}
SubsetsOfGrid == BagsOf(SUBSET Grid)
GridWorld == [lo |-> [x |-> 0, y |-> 0], hi |-> [x |-> 7, y |-> 7]]
GridBoxes == BoxesOver({0, 2, 3, 4, 7})
GridCenters == {[x |-> c[1], y |-> c[2]] : c \in {<<0, 0>>, <<3, 3>>, <<4, 4>>, <<7, 1>>, <<9, 3>>}}

\* Four points, two of them in one finest cell, and histories of versions that share
\* nodes: an absent point, a repeated one, the crowded cell, one half, everything.
FewPoints == {At(1, 0, 0), At(2, 1, 3), At(3, 4, 3), At(4, 1, 1)}
FewInitial == BagsOf({{}, FewPoints})
FewBoxes == BoxesOver({3, 4}) \cup {b \in BoxesOver({0, 3}) : b.lo = [x |-> 0, y |-> 0]}
History == BagsOf({{}, {At(1, 0, 0)}, {At(1, 0, 0), At(4, 1, 1)},
                   {At(2, 1, 3), At(3, 4, 3)}, FewPoints})
=============================================================================
