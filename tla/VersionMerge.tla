---------------------------- MODULE VersionMerge ----------------------------
(***************************************************************************)
(* Three-way merge of versions: Tree::merge of                             *)
(* src/include/silva/index/mvq.hpp and map_merge of pacz.hpp, which run    *)
(* the same steps: diff each side against the base, split each diff into   *)
(* insertions, deletions and updates by point id, set the conflicting ones *)
(* aside, and commit the rest on the base.                                 *)
(*                                                                         *)
(* A point is [id, code, at]: its identifier, the Morton code of its cell, *)
(* and where it lies in the cell.  A version is the set of its points; the *)
(* index (VersionedIndex) derives one from another by commit.              *)
(***************************************************************************)
EXTENDS Integers, Sequences

CONSTANTS Points,       \* the points that may ever be stored
          MaxVersions   \* bound on the number of versions of a behaviour

Key(x) == <<x.code, x.id>>

\* The key of a point, which the indexes order by, follows from its id and cell.
ASSUME PointsAssumption ==
  /\ \A x \in Points : x = [id |-> x.id, code |-> x.code, at |-> x.at]
  /\ MaxVersions \in Nat

VARIABLES versions,  \* the versions made so far, in order
          merged     \* the last merge: its arguments and what it returned

vars == <<versions, merged>>

NoMerge == [base |-> 0]

-----------------------------------------------------------------------------
(* The steps of merge.                                                     *)

\* merge_pts / map_difference: the points of S whose key is not in T.
Minus(S, T) == {x \in S : \A y \in T : Key(y) # Key(x)}

\* two_version_diff(u, v), map_diff(u, v)
Diff(u, v) == [add |-> Minus(v, u), remove |-> Minus(u, v)]

WithIdOf(S, T) == {x \in S : \E y \in T : y.id = x.id}

\* filter_diff_results: an id both removed and added is an update, for which
\* only the new point is kept.
FilterDiffResults(d) ==
  [insert |-> d.add \ WithIdOf(d.add, d.remove),
   delete |-> d.remove \ WithIdOf(d.remove, d.add),
   update |-> WithIdOf(d.add, d.remove)]

\* merge_by_id_with_conflict: both points of an id that the two lists disagree
\* on are in conflict, every other point is not.
Conflicting_SameCell(A, B) ==
  {x \in A \cup B : \E y \in A \cup B : y.id = x.id /\ y.code # x.code}
Conflicting(A, B) == {x \in A \cup B : \E y \in A \cup B : y.id = x.id /\ y # x}
NotConflicting(A, B) == (A \cup B) \ Conflicting(A, B)

\* commit / map_commit: delete by key, then insert.
Committed(v, ins, del) == Minus(v, del) \cup ins

\* What merge makes of the two sides' changes c and d.
NoConflictDelete_OneSide(c, d) == NotConflicting(c.delete, d.update)
NoConflictDelete(c, d) == NotConflicting(c.delete, d.update)
                            \cup NotConflicting(d.delete, c.update)

Merge_NoFilter(b, u, v) ==
  LET c == FilterDiffResults(Diff(b, u))
      d == FilterDiffResults(Diff(b, v))
  IN  [new_ver |-> Committed(b, c.insert \cup d.insert, NoConflictDelete(c, d)),
       conflict_insert |-> Conflicting(c.insert, d.insert),
       conflict_update |-> Conflicting(c.update, d.update),
       conflict_delete |-> Conflicting(c.delete, d.update) \cup Conflicting(d.delete, c.update)]
Merge(b, u, v) ==
  LET c == FilterDiffResults(Diff(b, u))
      d == FilterDiffResults(Diff(b, v))
  IN  [new_ver |-> Committed(b, NotConflicting(c.insert, d.insert), NoConflictDelete(c, d)),
       conflict_insert |-> Conflicting(c.insert, d.insert),
       conflict_update |-> Conflicting(c.update, d.update),
       conflict_delete |-> Conflicting(c.delete, d.update) \cup Conflicting(d.delete, c.update)]

-----------------------------------------------------------------------------
\* No two points of a version carry the same id: what the callers of commit see
\* to (benchmark_engine.hpp keeps one point per id, the tests bias new ids).
OnePointPerId(S) == \A x, y \in S : x.id = y.id => x = y

Init == \E S \in SUBSET Points : /\ OnePointPerId(S)
                                 /\ versions = <<S>>
                                 /\ merged = NoMerge

\* A caller turns version v into one that holds the points S.
DoCommit(v, S) ==
  /\ Len(versions) < MaxVersions
  /\ OnePointPerId(S)
  /\ versions' = Append(versions, Committed(versions[v], S \ versions[v], versions[v] \ S))
  /\ UNCHANGED merged

\* A caller merges versions u and v over b, whatever their history.
DoMerge(b, u, v) ==
  LET m == Merge(versions[b], versions[u], versions[v])
  IN  /\ Len(versions) < MaxVersions
      /\ versions' = Append(versions, m.new_ver)
      /\ merged' = [base |-> b, left |-> u, right |-> v, result |-> m]

Next == \/ \E v \in DOMAIN versions, S \in SUBSET Points : DoCommit(v, S)
        \/ \E b, u, v \in DOMAIN versions : DoMerge(b, u, v)

Spec == Init /\ [][Next]_vars

-----------------------------------------------------------------------------
(* Properties.                                                             *)

\* Merging never leaves two points with one id: an id that both sides inserted,
\* at different places, is held back.
VersionsKeepIdsApart ==
  /\ versions \in Seq(SUBSET Points)
  /\ \A v \in DOMAIN versions : OnePointPerId(versions[v])

Ids == {x.id : x \in Points}
Having(S, i) == {x \in S : x.id = i}
Base == versions[merged.base]
Left == versions[merged.left]
Right == versions[merged.right]

\* A side touched an id if the diffs can see it: moves within a cell they cannot.
Touched(side, i) == {Key(x) : x \in Having(side, i)} # {Key(x) : x \in Having(Base, i)}
Clash(i) == /\ Touched(Left, i) /\ Touched(Right, i)
            /\ Having(Left, i) # Having(Right, i)

\* The conflict sets name exactly the ids that both sides changed, and changed
\* differently: nothing is overlooked, nothing is reported in vain, and no id
\* is reported as two kinds of conflict.
ConflictsAreTheClashes ==
  merged # NoMerge =>
    LET r == merged.result
        reported(S) == {x.id : x \in S}
    IN  /\ reported(r.conflict_insert \cup r.conflict_update \cup r.conflict_delete)
             = {i \in Ids : Clash(i)}
        /\ reported(r.conflict_insert) \cap reported(r.conflict_update) = {}
        /\ reported(r.conflict_delete)
             \cap reported(r.conflict_insert \cup r.conflict_update) = {}

\* The merged version has what both sides would agree to: ids in conflict stay
\* as in the base, what one side inserted is there, what one side deleted and the
\* other left alone is gone, what nobody touched is unchanged.
MergeKeepsInsertsAndDeletes ==
  merged # NoMerge =>
    \A i \in Ids :
      LET b == Having(Base, i)
          m == Having(merged.result.new_ver, i)
          sides == {Having(s, i) : s \in {t \in {Left, Right} : Touched(t, i)}}
      IN  /\ sides = {} \/ Clash(i) => m = b
          /\ b = {} /\ ~Clash(i) /\ sides # {} => m \in sides
          /\ sides = {{}} => m = {}

\* It does not matter which side is called node1 and which node2.
MergeIsSymmetric ==
  merged # NoMerge => Merge(Base, Right, Left) = merged.result

\* "works like git merge" (mvq.hpp:243): when two versions are merged over the
\* first one, from which they derive, an update made on one side only, or made
\* alike on both, is part of the merged version.
UpdatesAreMerged ==
  merged # NoMerge /\ merged.base = 1 =>
    \A i \in Ids : \A side \in {Left, Right} :
      (Touched(side, i) /\ Having(Base, i) # {} /\ Having(side, i) # {} /\ ~Clash(i))
        => Having(merged.result.new_ver, i) = Having(side, i)
=============================================================================
