----------------------------- MODULE SortedLoops -----------------------------
(***************************************************************************)
(* The loops over two sorted sequences of                                  *)
(* src/include/silva/geo/operations.hpp that merges, diffs and deletions   *)
(* are made of.  All of them advance through both sequences, decide by a   *)
(* comparison which one to advance, and take what is left of the other in  *)
(* the end; they differ in the order and in what they keep.  What they     *)
(* keep is given as a set: no point comes twice, and each keeps the points *)
(* in the order in which it meets them.                                    *)
(***************************************************************************)
EXTENDS VersionMerge, FiniteSets

\* A sequence is finite, ids and codes are numbers.
ASSUME LoopsAssumption ==
  IsFiniteSet(Points) /\ \A x \in Points : x.id \in Int /\ x.code \in Int

\* pt_cmp, by code and id, and the comparisons by id: 0 the same, 1 the first one
\* comes first, 2 the second one does.
Compare(order, x, y) ==
  CASE order = "key" /\ x.code < y.code -> 1
    [] order = "key" /\ x.code > y.code -> 2
    [] OTHER -> IF x.id = y.id THEN 0 ELSE IF x.id < y.id THEN 1 ELSE 2

\* parlay::sort, of points that the order tells apart.
Sorted(order, S) ==
  [i \in 1..Cardinality(S) |->
     CHOOSE x \in S : Cardinality({y \in S : Compare(order, y, x) = 1}) = i - 1]

\* What a loop sees, i and j being where it is: the points of a alone, those of b alone,
\* and the pairs.  What is left of a or of b in the end is taken by the two loops after it.
Walk_NoRest(order, a, b) ==
  LET walk[v \in (1..Len(a) + 1) \X (1..Len(b) + 1)] ==
        LET i == v[1]
            j == v[2]
        IN  IF i > Len(a) \/ j > Len(b)
            THEN [a |-> {a[k] : k \in i..Len(a)}, b |-> {}, pairs |-> {}]
            ELSE CASE Compare(order, a[i], b[j]) = 0 ->
                        [walk[<<i + 1, j + 1>>] EXCEPT !.pairs = @ \cup {<<a[i], b[j]>>}]
                   [] Compare(order, a[i], b[j]) = 1 ->
                        [walk[<<i + 1, j>>] EXCEPT !.a = @ \cup {a[i]}]
                   [] OTHER -> [walk[<<i, j + 1>>] EXCEPT !.b = @ \cup {b[j]}]
  IN  walk[<<1, 1>>]
Walk(order, a, b) ==
  LET walk[v \in (1..Len(a) + 1) \X (1..Len(b) + 1)] ==
        LET i == v[1]
            j == v[2]
        IN  IF i > Len(a) \/ j > Len(b)
            THEN [a |-> {a[k] : k \in i..Len(a)}, b |-> {b[k] : k \in j..Len(b)}, pairs |-> {}]
            ELSE CASE Compare(order, a[i], b[j]) = 0 ->
                        [walk[<<i + 1, j + 1>>] EXCEPT !.pairs = @ \cup {<<a[i], b[j]>>}]
                   [] Compare(order, a[i], b[j]) = 1 ->
                        [walk[<<i + 1, j>>] EXCEPT !.a = @ \cup {a[i]}]
                   [] OTHER -> [walk[<<i, j + 1>>] EXCEPT !.b = @ \cup {b[j]}]
  IN  walk[<<1, 1>>]

-----------------------------------------------------------------------------
\* merge_pts: what to add to a and to remove from it to get b.
MergePts(a, b) ==
  LET w == Walk("key", a, b) IN [add |-> w.b, remove |-> w.a]

\* get_delete_p: a without the points of b.
GetDeleteP(a, b) == Walk("key", a, b).a

\* filter_diff_results: of an id in both lists the added point is kept.
FilterDiff(add, remove) ==
  LET w == Walk("id", Sorted("id", add), Sorted("id", remove))
  IN  [insert |-> w.a, delete |-> w.b, update |-> {p[1] : p \in w.pairs}]

\* merge_by_id_with_conflict
MergeById(S, T) ==
  LET w == Walk("id", Sorted("id", S), Sorted("id", T))
      differ == {p \in w.pairs : p[1] # p[2]}
  IN  [no_conflict |-> w.a \cup w.b \cup {p[1] : p \in w.pairs \ differ},
       conflict |-> {p[1] : p \in differ} \cup {p[2] : p \in differ}]

\* diff_by_id: a point that lies elsewhere is removed and added.
DiffById(S, T) ==
  LET w == Walk("id", Sorted("id", S), Sorted("id", T))
      moved == {p \in w.pairs : p[1] # p[2]}
  IN  [add |-> w.b \cup {p[2] : p \in moved}, remove |-> w.a \cup {p[1] : p \in moved}]

-----------------------------------------------------------------------------
\* On every pair of versions that a merge meets, and on the lists of changes that it
\* makes of them, the loops compute the sets that Merge is written with, whichever
\* sequence ends first and wherever ids, codes and positions agree or differ.
LoopsComputeTheSets ==
  merged # NoMerge =>
    \A S, T \in {Base, Left, Right} :
      LET d == Diff(S, T)
          a == Sorted("key", S)
          b == Sorted("key", T)
      IN  /\ MergePts(a, b) = d
          /\ GetDeleteP(a, b) = Minus(S, T)
          /\ FilterDiff(d.add, d.remove) = FilterDiffResults(d)
          /\ MergeById(S, T) = [no_conflict |-> NotConflicting(S, T),
                                conflict |-> Conflicting(S, T)]
          /\ DiffById(S, T) = [add |-> T \ S, remove |-> S \ T]
=============================================================================
