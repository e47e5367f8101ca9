--------------------------- MODULE MCPacVersions ----------------------------
(* Points in key order on a strip of cells, blocks of two to four entries.  *)
EXTENDS PacVersions

At(k) == [key |-> k, x |-> k % 5, y |-> k \div 5]
Moved(e) == [e EXCEPT !.x = @ + 1]
Run(a, b) == {At(k) : k \in a..b}
Odd(S) == {e \in S : e.key % 2 = 1}

All == Run(1, 22)
FewInitial == {{}, Run(1, 1), All}
FewBatches == {{}, Odd(All), Run(8, 21), Run(15, 20), {Moved(At(22))}}
FewBoxes == {[lo |-> [x |-> 1, y |-> 1], hi |-> [x |-> 3, y |-> 4]],
             [lo |-> [x |-> 7, y |-> 0], hi |-> [x |-> 9, y |-> 9]]}
FewCenters == {[x |-> 2, y |-> 3], [x |-> 9, y |-> 0]}
=============================================================================
