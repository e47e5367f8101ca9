----------------------------- MODULE MCMvqStore -----------------------------
(* Small instances of MvqStore for TLC. *)
EXTENDS MvqInPlace, MvqPurge, MvqContents

\* Three points in two halves, two of them in the same quarter.
ThreePoints == {[code |-> <<0, 0>>, id |-> 1], [code |-> <<0, 1>>, id |-> 2],
                [code |-> <<1, 0>>, id |-> 3]}
BagsOf(S) == {SetToBag(T) : T \in S}
AllThree == BagsOf({ThreePoints})
\* Nothing, one point, and one point of each half.
FewBatches == BagsOf({{}, {[code |-> <<0, 0>>, id |-> 1]},
                      {[code |-> <<0, 0>>, id |-> 1], [code |-> <<1, 0>>, id |-> 3]}})

\* Four points, two of them in one cell of the finest grid.
FourPoints == ThreePoints \cup {[code |-> <<0, 0>>, id |-> 4]}
BagsOfFour == BagsOf(SUBSET FourPoints)
=============================================================================
