------------------------- MODULE VersionMergeProofs -------------------------
(***************************************************************************)
(* What holds of merges of any versions of any points, and of the sorted   *)
(* loops that they are made of.                                            *)
(***************************************************************************)
EXTENDS SortedLoops, FiniteSetTheorems, WellFoundedInduction, TLAPS

\* A commit that turns one version into S holds nothing outside S: what it
\* keeps of the old version was not asked to be deleted.
LEMMA CommittedIsWithin ==
  ASSUME NEW V, NEW S
  PROVE  Committed(V, S \ V, V \ S) \subseteq S
BY Zenon DEF Committed, Minus

\* The points filter_diff_results classifies as insertions carry ids that the
\* base does not have, when the changed version has one point per id.
LEMMA InsertsAreNew ==
  ASSUME NEW b, NEW u, OnePointPerId(u),
         NEW x \in FilterDiffResults(Diff(b, u)).insert, NEW y \in b
  PROVE  x.id # y.id
<1> DEFINE d == Diff(b, u)
<1> SUFFICES ASSUME x.id = y.id PROVE FALSE
  OBVIOUS
<1>1. x \in Minus(u, b) /\ x \notin WithIdOf(d.add, d.remove)
  BY DEF FilterDiffResults, Diff
<1>2. x \in u /\ Key(x) # Key(y)
  BY <1>1 DEF Minus, Key
<1>3. y \notin Minus(b, u)
  BY <1>1 DEF WithIdOf, Diff
<1>4. PICK z \in u : Key(z) = Key(y)
  BY <1>3 DEF Minus
<1>5. z = x
  BY <1>2, <1>4 DEF OnePointPerId, Key
<1> QED
  BY <1>2, <1>4, <1>5

\* Two points that merge_by_id_with_conflict lets through agree if their ids do.
LEMMA NotConflictingKeepsIdsApart ==
  ASSUME NEW A, NEW B
  PROVE  OnePointPerId(NotConflicting(A, B))
BY Zenon DEF OnePointPerId, NotConflicting, Conflicting

\* The version merge commits has one point per id.
LEMMA MergeKeepsIdsApart ==
  ASSUME NEW b, NEW u, NEW v,
         OnePointPerId(b), OnePointPerId(u), OnePointPerId(v)
  PROVE  OnePointPerId(Merge(b, u, v).new_ver)
<1> DEFINE c == FilterDiffResults(Diff(b, u))
           d == FilterDiffResults(Diff(b, v))
           ins == NotConflicting(c.insert, d.insert)
           del == NoConflictDelete(c, d)
<1>1. Merge(b, u, v).new_ver = Minus(b, del) \cup ins
  BY DEF Merge, Committed
<1>2. ins \subseteq c.insert \cup d.insert /\ Minus(b, del) \subseteq b
  BY DEF NotConflicting, Minus
<1>3. \A x \in c.insert \cup d.insert, y \in b : x.id # y.id
  BY InsertsAreNew
<1>4. OnePointPerId(ins)
  BY NotConflictingKeepsIdsApart
<1>5. ASSUME NEW x \in Minus(b, del) \cup ins, NEW y \in Minus(b, del) \cup ins,
             x.id = y.id
      PROVE  x = y
  <2>1. CASE x \in ins /\ y \in ins
    BY <1>4, <1>5, <2>1 DEF OnePointPerId
  <2>2. CASE x \in b /\ y \in b
    BY <1>5, <2>2 DEF OnePointPerId
  <2>3. CASE x \in ins /\ y \in b
    BY <1>2, <1>3, <1>5, <2>3
  <2>4. CASE x \in b /\ y \in ins
    BY <1>2, <1>3, <1>5, <2>4
  <2> QED
    BY <1>2, <1>5, <2>1, <2>2, <2>3, <2>4
<1> QED
  BY <1>1, <1>5 DEF OnePointPerId

\* Commits and merges of legal versions are legal, for every set of points and
\* every history: merge never has to be told which ids are taken.
THEOREM IdsStayApart == Spec => []VersionsKeepIdsApart
<1>1. Init => VersionsKeepIdsApart
  BY DEF Init, VersionsKeepIdsApart
<1>2. VersionsKeepIdsApart /\ [Next]_vars => VersionsKeepIdsApart'
  <2> SUFFICES ASSUME VersionsKeepIdsApart, [Next]_vars PROVE VersionsKeepIdsApart'
    OBVIOUS
  <2>1. ASSUME NEW W \in SUBSET Points, OnePointPerId(W), versions' = Append(versions, W)
        PROVE  VersionsKeepIdsApart'
    <3>1. versions' \in Seq(SUBSET Points)
      BY <2>1 DEF VersionsKeepIdsApart
    <3>2. \A i \in DOMAIN versions' : versions'[i] = W \/ (i \in DOMAIN versions
                                                   /\ versions'[i] = versions[i])
      BY <2>1 DEF VersionsKeepIdsApart
    <3> QED
      BY <2>1, <3>1, <3>2 DEF VersionsKeepIdsApart
  <2>2. ASSUME NEW v \in DOMAIN versions, NEW S \in SUBSET Points, DoCommit(v, S)
        PROVE  VersionsKeepIdsApart'
    <3> DEFINE W == Committed(versions[v], S \ versions[v], versions[v] \ S)
    <3>1. W \subseteq S /\ OnePointPerId(S) /\ versions' = Append(versions, W)
      BY <2>2, CommittedIsWithin DEF DoCommit
    <3>2. W \in SUBSET Points /\ OnePointPerId(W)
      BY <3>1 DEF OnePointPerId
    <3> QED
      BY <2>1, <3>1, <3>2
  <2>3. ASSUME NEW b \in DOMAIN versions, NEW u \in DOMAIN versions,
               NEW v \in DOMAIN versions, DoMerge(b, u, v)
        PROVE  VersionsKeepIdsApart'
    <3> DEFINE W == Merge(versions[b], versions[u], versions[v]).new_ver
    <3>1. versions' = Append(versions, W)
      BY <2>3 DEF DoMerge
    <3>2. OnePointPerId(W)
      BY MergeKeepsIdsApart DEF VersionsKeepIdsApart
    <3>3. versions[b] \subseteq Points /\ versions[u] \subseteq Points
            /\ versions[v] \subseteq Points
      BY DEF VersionsKeepIdsApart
    <3>4. W \subseteq versions[b] \cup versions[u] \cup versions[v]
      BY DEF Merge, Committed, NotConflicting, FilterDiffResults, Diff, Minus
    <3> QED
      BY <2>1, <3>1, <3>2, <3>3, <3>4
  <2>4. CASE UNCHANGED vars
    BY <2>4 DEF vars, VersionsKeepIdsApart
  <2> QED
    BY <2>2, <2>3, <2>4 DEF Next
<1> QED
  BY <1>1, <1>2, PTL DEF Spec
-----------------------------------------------------------------------------
(* What the three lists of filter_diff_results hold, for versions with one *)
(* point per id: what was inserted, deleted, updated since the base.       *)

Lists(b, u) == FilterDiffResults(Diff(b, u))

\* Two points with one id have one key if they lie in one cell.
LEMMA KeysOfAnId ==
  ASSUME NEW x, NEW y
  PROVE  Key(x) = Key(y) <=> x.code = y.code /\ x.id = y.id
BY DEF Key

\* The insertions filter_diff_results finds are the points whose id the base lacks.
LEMMA InsertList ==
  ASSUME NEW b, NEW u, OnePointPerId(b), OnePointPerId(u), NEW x
  PROVE  x \in Lists(b, u).insert <=> x \in u /\ \A y \in b : y.id # x.id
<1>1. ASSUME x \in Lists(b, u).insert PROVE x \in u /\ \A y \in b : y.id # x.id
  BY <1>1, InsertsAreNew DEF Lists, FilterDiffResults, Diff, Minus
<1>2. ASSUME x \in u, \A y \in b : y.id # x.id PROVE x \in Lists(b, u).insert
  BY <1>2, KeysOfAnId DEF Lists, FilterDiffResults, Diff, Minus, WithIdOf
<1> QED
  BY <1>1, <1>2

\* The deletions are the points of the base whose id is gone.
LEMMA DeleteList ==
  ASSUME NEW b, NEW u, OnePointPerId(b), OnePointPerId(u), NEW x
  PROVE  x \in Lists(b, u).delete <=> x \in b /\ \A y \in u : y.id # x.id
<1> DEFINE add == Minus(u, b)
           remove == Minus(b, u)
<1>1. x \in Lists(b, u).delete <=> x \in remove /\ \A y \in add : y.id # x.id
  BY DEF Lists, FilterDiffResults, Diff, WithIdOf
<1>2. ASSUME x \in remove, NEW y \in u, y.id = x.id PROVE y \in add
  BY <1>2, KeysOfAnId DEF Minus, OnePointPerId
<1>3. ASSUME x \in b, \A y \in u : y.id # x.id PROVE x \in remove
  BY <1>3, KeysOfAnId DEF Minus
<1>4. remove \subseteq b /\ add \subseteq u
  BY DEF Minus
<1> QED
  BY <1>1, <1>2, <1>3, <1>4

\* The updates are the points whose id the base has with another key.
LEMMA UpdateList ==
  ASSUME NEW b, NEW u, OnePointPerId(b), OnePointPerId(u), NEW x
  PROVE  x \in Lists(b, u).update
           <=> x \in u /\ \E y \in b : y.id = x.id /\ Key(y) # Key(x)
<1> DEFINE add == Minus(u, b)
           remove == Minus(b, u)
<1>1. x \in Lists(b, u).update <=> x \in add /\ \E y \in remove : y.id = x.id
  BY DEF Lists, FilterDiffResults, Diff, WithIdOf
<1>2. ASSUME x \in add, NEW y \in remove, y.id = x.id PROVE x \in u /\ y \in b /\ Key(y) # Key(x)
  BY <1>2 DEF Minus
<1>3. ASSUME x \in u, NEW y \in b, y.id = x.id, Key(y) # Key(x) PROVE x \in add /\ y \in remove
  BY <1>3, KeysOfAnId DEF Minus, OnePointPerId
<1> QED
  BY <1>1, <1>2, <1>3

-----------------------------------------------------------------------------
(* The last merge is a merge of three versions that are still there.       *)

MergedIsAMerge ==
  merged # NoMerge => /\ {merged.base, merged.left, merged.right} \subseteq DOMAIN versions
                      /\ merged.result = Merge(Base, Left, Right)

MInv == VersionsKeepIdsApart /\ MergedIsAMerge

\* The last merge's arguments stay in place: versions are only ever appended.
LEMMA MInvHolds == Spec => []MInv
<1>1. Init => MergedIsAMerge
  BY DEF Init, MergedIsAMerge
<1>2. VersionsKeepIdsApart /\ MergedIsAMerge /\ [Next]_vars => MergedIsAMerge'
  <2> SUFFICES ASSUME VersionsKeepIdsApart, MergedIsAMerge, [Next]_vars, merged' # NoMerge
               PROVE  /\ {merged'.base, merged'.left, merged'.right} \subseteq DOMAIN versions'
                      /\ merged'.result = Merge(versions'[merged'.base], versions'[merged'.left],
                                                versions'[merged'.right])
    BY DEF MergedIsAMerge, Base, Left, Right
  <2>1. ASSUME NEW W, versions' = Append(versions, W)
        PROVE  /\ DOMAIN versions \subseteq DOMAIN versions'
               /\ \A i \in DOMAIN versions : versions'[i] = versions[i]
    BY <2>1 DEF VersionsKeepIdsApart
  <2>2. ASSUME NEW v \in DOMAIN versions, NEW S \in SUBSET Points, DoCommit(v, S)
        PROVE  /\ {merged'.base, merged'.left, merged'.right} \subseteq DOMAIN versions'
               /\ merged'.result = Merge(versions'[merged'.base], versions'[merged'.left],
                                         versions'[merged'.right])
    <3>1. merged' = merged /\ merged # NoMerge
      BY <2>2 DEF DoCommit
    <3>2. /\ DOMAIN versions \subseteq DOMAIN versions'
          /\ \A i \in DOMAIN versions : versions'[i] = versions[i]
      BY <2>1, <2>2 DEF DoCommit
    <3> QED
      BY <3>1, <3>2 DEF MergedIsAMerge, Base, Left, Right
  <2>3. ASSUME NEW b \in DOMAIN versions, NEW u \in DOMAIN versions,
               NEW v \in DOMAIN versions, DoMerge(b, u, v)
        PROVE  /\ {merged'.base, merged'.left, merged'.right} \subseteq DOMAIN versions'
               /\ merged'.result = Merge(versions'[merged'.base], versions'[merged'.left],
                                         versions'[merged'.right])
    <3>1. merged' = [base |-> b, left |-> u, right |-> v,
                     result |-> Merge(versions[b], versions[u], versions[v])]
      BY <2>3 DEF DoMerge
    <3>2. /\ DOMAIN versions \subseteq DOMAIN versions'
          /\ \A i \in DOMAIN versions : versions'[i] = versions[i]
      BY <2>1, <2>3 DEF DoMerge
    <3> QED
      BY <3>1, <3>2
  <2>4. CASE UNCHANGED vars
    BY <2>4 DEF vars, MergedIsAMerge, Base, Left, Right
  <2> QED
    BY <2>2, <2>3, <2>4 DEF Next
<1> QED
  BY <1>1, <1>2, IdsStayApart, PTL DEF Spec, MInv

\* Any three versions that were merged have one point per id.
LEMMA MergedVersions ==
  ASSUME MInv, merged # NoMerge
  PROVE  /\ OnePointPerId(Base) /\ OnePointPerId(Left) /\ OnePointPerId(Right)
         /\ Base \subseteq Points /\ Left \subseteq Points /\ Right \subseteq Points
         /\ merged.result = Merge(Base, Left, Right)
BY DEF MInv, MergedIsAMerge, VersionsKeepIdsApart, Base, Left, Right

-----------------------------------------------------------------------------
\* merge_by_id_with_conflict treats its two lists alike.
LEMMA ConflictingIsSymmetric ==
  ASSUME NEW A, NEW B
  PROVE  Conflicting(A, B) = Conflicting(B, A) /\ NotConflicting(A, B) = NotConflicting(B, A)
<1>1. A \cup B = B \cup A
  OBVIOUS
<1> QED
  BY <1>1 DEF Conflicting, NotConflicting

\* merge, exchanging node1 and node2, returns the same.
LEMMA MergeCommutes ==
  ASSUME NEW b, NEW u, NEW v
  PROVE  Merge(b, u, v) = Merge(b, v, u)
<1> DEFINE c == FilterDiffResults(Diff(b, u))
           d == FilterDiffResults(Diff(b, v))
<1>1. /\ NotConflicting(c.insert, d.insert) = NotConflicting(d.insert, c.insert)
      /\ Conflicting(c.insert, d.insert) = Conflicting(d.insert, c.insert)
      /\ Conflicting(c.update, d.update) = Conflicting(d.update, c.update)
  BY ConflictingIsSymmetric
<1>2. NoConflictDelete(c, d) = NoConflictDelete(d, c)
  BY DEF NoConflictDelete
<1>3. Conflicting(c.delete, d.update) \cup Conflicting(d.delete, c.update)
        = Conflicting(d.delete, c.update) \cup Conflicting(c.delete, d.update)
  OBVIOUS
<1> HIDE DEF c, d
<1> QED
  BY <1>1, <1>2, <1>3 DEF Merge, c, d

\* Which version is node1 and which is node2 makes no difference to merge, whatever
\* the versions are.
THEOREM MergeSymmetry == Spec => []MergeIsSymmetric
<1>1. MInv => MergeIsSymmetric
  BY MergedVersions, MergeCommutes DEF MergeIsSymmetric
<1> QED
  BY <1>1, MInvHolds, PTL

-----------------------------------------------------------------------------
(* What each side did with an id, in terms the conflicts can be read from. *)

Has(S, i) == \E x \in S : x.id = i
Moved(b, u, i) == \E x \in u, z \in b : x.id = i /\ z.id = i /\ Key(z) # Key(x)
Differ(u, v, i) == \E x \in u, y \in v : x.id = i /\ y.id = i /\ x # y

\* Moved and Differ speak of points that are there.
LEMMA MovedAndDiffer ==
  ASSUME NEW b, NEW u, NEW v, NEW i
  PROVE  /\ Moved(b, u, i) => Has(b, i) /\ Has(u, i)
         /\ Differ(u, v, i) => Has(u, i) /\ Has(v, i)
BY DEF Moved, Differ, Has

\* A side's change of an id is an insertion, a deletion or a move to another cell.
LEMMA TouchedIds ==
  ASSUME NEW S, NEW i, OnePointPerId(S), OnePointPerId(Base)
  PROVE  Touched(S, i) <=> (Has(S, i) /\ ~Has(Base, i)) \/ (~Has(S, i) /\ Has(Base, i))
                             \/ Moved(Base, S, i)
<1> DEFINE K(T) == {Key(x) : x \in Having(T, i)}
<1>1. \A T : K(T) = {} <=> ~Has(T, i)
  BY DEF Having, Has
<1>2. ASSUME NEW x \in S, NEW z \in Base, x.id = i, z.id = i
      PROVE  K(S) = {Key(x)} /\ K(Base) = {Key(z)}
  BY <1>2 DEF Having, OnePointPerId
<1>3. CASE Has(S, i) /\ Has(Base, i)
  <2>1. PICK x \in S, z \in Base : x.id = i /\ z.id = i
    BY <1>3 DEF Has
  <2>2. Moved(Base, S, i) <=> Key(z) # Key(x)
    BY <2>1 DEF Moved, OnePointPerId
  <2>3. K(S) # K(Base) <=> Key(z) # Key(x)
    BY <1>2, <2>1
  <2> QED
    BY <1>3, <2>2, <2>3 DEF Touched
<1>4. CASE ~(Has(S, i) /\ Has(Base, i))
  BY <1>1, <1>4, MovedAndDiffer DEF Touched
<1> QED
  BY <1>3, <1>4

\* Two versions differ in an id if one lacks it or they have different points for it.
LEMMA HavingDiffer ==
  ASSUME NEW u, NEW v, NEW i, OnePointPerId(u), OnePointPerId(v)
  PROVE  /\ Having(u, i) = {} <=> ~Has(u, i)
         /\ Having(u, i) # Having(v, i)
              <=> (Has(u, i) /\ ~Has(v, i)) \/ (~Has(u, i) /\ Has(v, i)) \/ Differ(u, v, i)
<1>1. \A T : Having(T, i) = {} <=> ~Has(T, i)
  BY DEF Having, Has
<1>2. CASE Has(u, i) /\ Has(v, i)
  <2>1. PICK x \in u, y \in v : x.id = i /\ y.id = i
    BY <1>2 DEF Has
  <2>2. Having(u, i) = {x} /\ Having(v, i) = {y}
    BY <2>1 DEF Having, OnePointPerId
  <2>3. Differ(u, v, i) <=> x # y
    BY <2>1 DEF Differ, OnePointPerId
  <2> QED
    BY <1>1, <1>2, <2>2, <2>3
<1>3. CASE ~(Has(u, i) /\ Has(v, i))
  BY <1>1, <1>3, MovedAndDiffer
<1> QED
  BY <1>1, <1>2, <1>3

\* An id is in conflict between two lists if they have different points for it.
LEMMA ConflictingIds ==
  ASSUME NEW A, NEW B, OnePointPerId(A), OnePointPerId(B), NEW i
  PROVE  Has(Conflicting(A, B), i) <=> Differ(A, B, i)
BY DEF Has, Conflicting, Differ, OnePointPerId

\* The lists are parts of the versions they were made of.
LEMMA ListsAreSets ==
  ASSUME NEW b, NEW u, OnePointPerId(b), OnePointPerId(u)
  PROVE  /\ Lists(b, u).insert \subseteq u /\ OnePointPerId(Lists(b, u).insert)
         /\ Lists(b, u).delete \subseteq b /\ OnePointPerId(Lists(b, u).delete)
         /\ Lists(b, u).update \subseteq u /\ OnePointPerId(Lists(b, u).update)
<1>1. /\ Lists(b, u).insert \subseteq u
      /\ Lists(b, u).delete \subseteq b
      /\ Lists(b, u).update \subseteq u
  BY InsertList, DeleteList, UpdateList
<1> QED
  BY <1>1 DEF OnePointPerId

\* Which ids merge reports, by kind, in terms of what each side did with them.
LEMMA ConflictIds ==
  ASSUME NEW b, NEW u, NEW v, NEW i,
         OnePointPerId(b), OnePointPerId(u), OnePointPerId(v)
  PROVE  LET r == Merge(b, u, v)
         IN  /\ Has(r.conflict_insert, i) <=> ~Has(b, i) /\ Differ(u, v, i)
             /\ Has(r.conflict_update, i)
                  <=> Moved(b, u, i) /\ Moved(b, v, i) /\ Differ(u, v, i)
             /\ Has(r.conflict_delete, i)
                  <=> Has(b, i) /\ \/ ~Has(u, i) /\ Moved(b, v, i)
                                   \/ ~Has(v, i) /\ Moved(b, u, i)
<1> DEFINE c == Lists(b, u)
           d == Lists(b, v)
<1>1. /\ Merge(b, u, v).conflict_insert = Conflicting(c.insert, d.insert)
      /\ Merge(b, u, v).conflict_update = Conflicting(c.update, d.update)
      /\ Merge(b, u, v).conflict_delete
           = Conflicting(c.delete, d.update) \cup Conflicting(d.delete, c.update)
  BY DEF Merge, Lists
<1>2. Has(Conflicting(c.insert, d.insert), i) <=> Differ(c.insert, d.insert, i)
  BY ListsAreSets, ConflictingIds
<1>3. Has(Conflicting(c.update, d.update), i) <=> Differ(c.update, d.update, i)
  BY ListsAreSets, ConflictingIds
<1>4. /\ Has(Conflicting(c.delete, d.update), i) <=> Differ(c.delete, d.update, i)
      /\ Has(Conflicting(d.delete, c.update), i) <=> Differ(d.delete, c.update, i)
  BY ListsAreSets, ConflictingIds
<1>5. Differ(c.insert, d.insert, i) <=> ~Has(b, i) /\ Differ(u, v, i)
  <2>1. \A x : /\ x \in c.insert <=> x \in u /\ ~Has(b, x.id)
               /\ x \in d.insert <=> x \in v /\ ~Has(b, x.id)
    BY InsertList DEF Has
  <2> HIDE DEF c, d
  <2> QED
    BY <2>1 DEF Differ
<1>6. Differ(c.update, d.update, i) <=> Moved(b, u, i) /\ Moved(b, v, i) /\ Differ(u, v, i)
  <2>1. \A x : /\ x \in c.update <=> x \in u /\ \E y \in b : y.id = x.id /\ Key(y) # Key(x)
               /\ x \in d.update <=> x \in v /\ \E y \in b : y.id = x.id /\ Key(y) # Key(x)
    BY UpdateList
  <2> HIDE DEF c, d
  <2> QED
    BY <2>1 DEF Differ, Moved, OnePointPerId
<1>7. ASSUME NEW s, NEW t, OnePointPerId(s), OnePointPerId(t)
      PROVE  Differ(Lists(b, s).delete, Lists(b, t).update, i)
               <=> Has(b, i) /\ ~Has(s, i) /\ Moved(b, t, i)
  <2>1. \A x : /\ x \in Lists(b, s).delete <=> x \in b /\ ~Has(s, x.id)
               /\ x \in Lists(b, t).update
                    <=> x \in t /\ \E y \in b : y.id = x.id /\ Key(y) # Key(x)
    BY <1>7, DeleteList, UpdateList DEF Has
  <2> QED
    BY <2>1 DEF Differ, Moved, Has, OnePointPerId
<1>8. Has(Merge(b, u, v).conflict_delete, i)
        <=> Differ(c.delete, d.update, i) \/ Differ(d.delete, c.update, i)
  BY <1>1, <1>4 DEF Has
<1> HIDE DEF c, d
<1> QED
  BY <1>1, <1>2, <1>3, <1>5, <1>6, <1>7, <1>8 DEF c, d

\* Merge reports every id that both sides changed and changed differently, no other
\* one, and each as one kind of conflict, whatever the versions are.
THEOREM ConflictsAreExact == Spec => []ConflictsAreTheClashes
<1>1. ASSUME MInv PROVE ConflictsAreTheClashes
  <2> SUFFICES ASSUME merged # NoMerge PROVE ConflictsAreTheClashes
    BY DEF ConflictsAreTheClashes
  <2> DEFINE r == Merge(Base, Left, Right)
             all == r.conflict_insert \cup r.conflict_update \cup r.conflict_delete
             reported(S) == {x.id : x \in S}
  <2>1. /\ OnePointPerId(Base) /\ OnePointPerId(Left) /\ OnePointPerId(Right)
        /\ Base \subseteq Points /\ Left \subseteq Points /\ Right \subseteq Points
        /\ merged.result = r
    BY <1>1, MergedVersions
  <2>2. \A i : /\ Has(r.conflict_insert, i) <=> ~Has(Base, i) /\ Differ(Left, Right, i)
               /\ Has(r.conflict_update, i)
                    <=> Moved(Base, Left, i) /\ Moved(Base, Right, i) /\ Differ(Left, Right, i)
               /\ Has(r.conflict_delete, i)
                    <=> Has(Base, i) /\ \/ ~Has(Left, i) /\ Moved(Base, Right, i)
                                        \/ ~Has(Right, i) /\ Moved(Base, Left, i)
    BY <2>1, ConflictIds
  <2>3. \A i : /\ Moved(Base, Left, i) => Has(Base, i) /\ Has(Left, i)
               /\ Moved(Base, Right, i) => Has(Base, i) /\ Has(Right, i)
               /\ Differ(Left, Right, i) => Has(Left, i) /\ Has(Right, i)
    BY MovedAndDiffer
  <2>4. \A i : Clash(i) <=>
                 /\ \/ ~(Has(Left, i) <=> Has(Base, i))
                    \/ Moved(Base, Left, i)
                 /\ \/ ~(Has(Right, i) <=> Has(Base, i))
                    \/ Moved(Base, Right, i)
                 /\ \/ ~(Has(Left, i) <=> Has(Right, i))
                    \/ Differ(Left, Right, i)
    BY <2>1, TouchedIds, HavingDiffer DEF Clash
  <2>5. \A i : Has(all, i) <=> \/ Has(r.conflict_insert, i) \/ Has(r.conflict_update, i)
                              \/ Has(r.conflict_delete, i)
    BY DEF Has
  <2> HIDE DEF r
  <2>6. \A i : Has(all, i) <=> Clash(i)
    BY <2>2, <2>3, <2>4, <2>5
  <2>7. \A S, i : i \in reported(S) <=> Has(S, i)
    BY DEF Has
  <2>8. \A i : Clash(i) => i \in Ids
    <3>1. \A i : Has(Left, i) \/ Has(Base, i) => i \in Ids
      BY <2>1 DEF Has, Ids
    <3> QED
      BY <2>3, <2>4, <3>1
  <2>9. reported(all) = {i \in Ids : Clash(i)}
    BY <2>6, <2>7, <2>8
  <2>10. reported(r.conflict_insert) \cap reported(r.conflict_update) = {}
    BY <2>2, <2>3, <2>7
  <2>11. reported(r.conflict_delete)
           \cap reported(r.conflict_insert \cup r.conflict_update) = {}
    <3>1. \A i : Has(r.conflict_insert \cup r.conflict_update, i)
                   <=> Has(r.conflict_insert, i) \/ Has(r.conflict_update, i)
      BY DEF Has
    <3> QED
      BY <2>2, <2>3, <2>7, <3>1
  <2> QED
    BY <2>1, <2>9, <2>10, <2>11 DEF ConflictsAreTheClashes
<1> QED
  BY <1>1, MInvHolds, PTL

-----------------------------------------------------------------------------
(* What the merged version holds of an id.                                 *)

\* The points of the base that merge deletes: one side deleted them and the other
\* side did not move them.
Gone(b, u, v, i) == \/ ~Has(u, i) /\ ~Moved(b, v, i)
                    \/ ~Has(v, i) /\ ~Moved(b, u, i)

\* What one side deleted is committed as a deletion unless the other side moved it.
LEMMA DeletedByOne ==
  ASSUME NEW b, NEW u, NEW v, OnePointPerId(b), OnePointPerId(u), OnePointPerId(v), NEW z \in b
  PROVE  (\E y \in NotConflicting(Lists(b, u).delete, Lists(b, v).update) : Key(y) = Key(z))
           <=> ~Has(u, z.id) /\ ~Moved(b, v, z.id)
<1> DEFINE D == Lists(b, u).delete
           U == Lists(b, v).update
<1>1. \A x : /\ x \in D <=> x \in b /\ ~Has(u, x.id)
             /\ x \in U <=> x \in v /\ \E y \in b : y.id = x.id /\ Key(y) # Key(x)
  BY DeleteList, UpdateList DEF Has
<1> HIDE DEF D, U
<1>2. ASSUME NEW y \in NotConflicting(D, U), Key(y) = Key(z)
      PROVE  ~Has(u, z.id) /\ ~Moved(b, v, z.id)
  <2>1. y.id = z.id /\ y \in D \cup U /\ \A x \in D \cup U : x.id = y.id => x = y
    BY <1>2, KeysOfAnId DEF NotConflicting, Conflicting
  <2>2. y \notin U
    BY <1>1, <1>2, <2>1 DEF OnePointPerId
  <2>3. y = z /\ ~Has(u, z.id)
    BY <1>1, <2>1, <2>2 DEF OnePointPerId
  <2>4. ASSUME NEW x \in v, NEW w \in b, x.id = z.id, w.id = z.id, Key(w) # Key(x) PROVE FALSE
    BY <1>1, <2>1, <2>2, <2>4
  <2> QED
    BY <2>3, <2>4 DEF Moved
<1>3. ASSUME ~Has(u, z.id), ~Moved(b, v, z.id) PROVE z \in NotConflicting(D, U)
  <2>1. z \in D
    BY <1>1, <1>3
  <2>2. \A x \in D \cup U : x.id = z.id => x = z
    BY <1>1, <1>3 DEF Moved, OnePointPerId
  <2> QED
    BY <2>1, <2>2 DEF NotConflicting, Conflicting
<1> QED
  BY <1>2, <1>3 DEF D, U

\* The points the version that merge commits has for an id.
LEMMA MergedHaving ==
  ASSUME NEW b, NEW u, NEW v, NEW i,
         OnePointPerId(b), OnePointPerId(u), OnePointPerId(v)
  PROVE  Having(Merge(b, u, v).new_ver, i)
           = IF Has(b, i) THEN IF Gone(b, u, v, i) THEN {} ELSE Having(b, i)
             ELSE IF Differ(u, v, i) THEN {} ELSE Having(u, i) \cup Having(v, i)
<1> DEFINE c == Lists(b, u)
           d == Lists(b, v)
           ins == NotConflicting(c.insert, d.insert)
           del == NoConflictDelete(c, d)
<1>1. Merge(b, u, v).new_ver = Minus(b, del) \cup ins
  BY DEF Merge, Committed, Lists
<1>2. \A z : z \in Minus(b, del) <=> z \in b /\ ~Gone(b, u, v, z.id)
  BY DeletedByOne DEF Minus, NoConflictDelete, Gone
<1>3. \A x : /\ x \in c.insert <=> x \in u /\ ~Has(b, x.id)
             /\ x \in d.insert <=> x \in v /\ ~Has(b, x.id)
  BY InsertList DEF Has
<1> HIDE DEF c, d
<1>4. \A x : x \in ins <=> /\ x \in u \cup v /\ ~Has(b, x.id)
                           /\ \A y \in u \cup v : y.id = x.id => y = x
  BY <1>3 DEF NotConflicting, Conflicting
<1>5. \A x : x \in ins <=> x \in u \cup v /\ ~Has(b, x.id) /\ ~Differ(u, v, x.id)
  BY <1>4 DEF Differ, OnePointPerId
<1> HIDE DEF ins, del
<1> QED
  BY <1>1, <1>2, <1>5 DEF Having, Has

\* The merged version has the insertions and deletions of both sides and keeps what is in
\* conflict as it was, whatever the versions are.
THEOREM MergeIsFaithful == Spec => []MergeKeepsInsertsAndDeletes
<1>1. ASSUME MInv PROVE MergeKeepsInsertsAndDeletes
  <2> SUFFICES ASSUME merged # NoMerge, NEW i \in Ids
               PROVE  LET B == Having(Base, i)
                          m == Having(merged.result.new_ver, i)
                          sides == {Having(s, i) : s \in {t \in {Left, Right} : Touched(t, i)}}
                      IN  /\ sides = {} \/ Clash(i) => m = B
                          /\ B = {} /\ ~Clash(i) /\ sides # {} => m \in sides
                          /\ sides = {{}} => m = {}
    BY DEF MergeKeepsInsertsAndDeletes
  <2> DEFINE B == Having(Base, i)
             L == Having(Left, i)
             R == Having(Right, i)
             m == Having(merged.result.new_ver, i)
             sides == {Having(s, i) : s \in {t \in {Left, Right} : Touched(t, i)}}
  <2>1. /\ OnePointPerId(Base) /\ OnePointPerId(Left) /\ OnePointPerId(Right)
        /\ merged.result = Merge(Base, Left, Right)
    BY <1>1, MergedVersions
  <2>2. m = IF Has(Base, i) THEN IF Gone(Base, Left, Right, i) THEN {} ELSE B
            ELSE IF Differ(Left, Right, i) THEN {} ELSE L \cup R
    BY <2>1, MergedHaving, SMTT(30)
  <2>3. /\ B = {} <=> ~Has(Base, i)
        /\ L = {} <=> ~Has(Left, i)
        /\ R = {} <=> ~Has(Right, i)
        /\ L # R <=> \/ ~(Has(Left, i) <=> Has(Right, i))
                     \/ Differ(Left, Right, i)
    BY <2>1, HavingDiffer
  <2>4. /\ Moved(Base, Left, i) => Has(Base, i) /\ Has(Left, i)
        /\ Moved(Base, Right, i) => Has(Base, i) /\ Has(Right, i)
        /\ Differ(Left, Right, i) => Has(Left, i) /\ Has(Right, i)
    BY MovedAndDiffer
  <2>5. /\ Touched(Left, i) <=> \/ ~(Has(Left, i) <=> Has(Base, i))
                                \/ Moved(Base, Left, i)
        /\ Touched(Right, i) <=> \/ ~(Has(Right, i) <=> Has(Base, i))
                                 \/ Moved(Base, Right, i)
    BY <2>1, TouchedIds
  <2>6. /\ Touched(Left, i) => L \in sides
        /\ Touched(Right, i) => R \in sides
        /\ \A s \in sides : (s = L /\ Touched(Left, i)) \/ (s = R /\ Touched(Right, i))
    OBVIOUS
  <2>7. Clash(i) <=> Touched(Left, i) /\ Touched(Right, i) /\ L # R
    BY DEF Clash
  <2> HIDE DEF B, L, R, m, sides
  <2>8. sides = {} \/ Clash(i) => m = B
    BY <2>2, <2>3, <2>4, <2>5, <2>6, <2>7 DEF Gone
  <2>9. B = {} /\ ~Clash(i) /\ sides # {} => m \in sides
    BY <2>2, <2>3, <2>4, <2>5, <2>6, <2>7
  <2>10. sides = {{}} => m = {}
    BY <2>2, <2>3, <2>4, <2>5, <2>6 DEF Gone
  <2> QED
    BY <2>8, <2>9, <2>10 DEF B, m, sides
<1> QED
  BY <1>1, MInvHolds, PTL

-----------------------------------------------------------------------------
(* The sorted loops.                                                       *)

Orders == {"key", "id"}
Alone(order, S, T) == {x \in S : \A y \in T : Compare(order, x, y) # 0}
Met(order, S, T) == {p \in S \X T : Compare(order, p[1], p[2]) = 0}

\* The comparisons of the loops are total orders, and equal what has one key, or one id.
LEMMA CompareIsOrder ==
  ASSUME NEW order \in Orders
  PROVE  /\ \A x, y \in Points :
              /\ Compare(order, x, y) \in {0, 1, 2}
              /\ Compare(order, x, y) = 1 <=> Compare(order, y, x) = 2
              /\ Compare(order, x, y) = 0 <=> Compare(order, y, x) = 0
              /\ Compare(order, x, y) = 0 <=> IF order = "key" THEN Key(x) = Key(y) ELSE x.id = y.id
         /\ \A x, y, z \in Points :
              /\ Compare(order, x, y) = 1 /\ Compare(order, y, z) \in {0, 1} => Compare(order, x, z) = 1
              /\ Compare(order, x, y) = 0 /\ Compare(order, y, z) = 1 => Compare(order, x, z) = 1
<1>1. \A x \in Points : x.id \in Int /\ x.code \in Int
  BY LoopsAssumption
<1>2. CASE order = "key"
  <2>1. \A x, y \in Points : Compare(order, x, y) =
          IF x.code < y.code THEN 1 ELSE IF x.code > y.code THEN 2
          ELSE IF x.id = y.id THEN 0 ELSE IF x.id < y.id THEN 1 ELSE 2
    <3> SUFFICES ASSUME NEW x \in Points, NEW y \in Points
                 PROVE  Compare(order, x, y) =
                          IF x.code < y.code THEN 1 ELSE IF x.code > y.code THEN 2
                          ELSE IF x.id = y.id THEN 0 ELSE IF x.id < y.id THEN 1 ELSE 2
      OBVIOUS
    <3>1. x.code < y.code \/ x.code = y.code \/ x.code > y.code
      BY <1>1
    <3>2. x.code < y.code => Compare(order, x, y) = 1
      BY <1>1, <1>2 DEF Compare
    <3> QED  BY <1>1, <1>2, <3>1, <3>2 DEF Compare
  <2>2. \A x, y : Key(x) = Key(y) <=> x.code = y.code /\ x.id = y.id
    BY KeysOfAnId
  <2> QED  BY <1>1, <1>2, <2>1, <2>2
<1>3. CASE order = "id"
  <2>1. \A x, y : Compare(order, x, y) = IF x.id = y.id THEN 0 ELSE IF x.id < y.id THEN 1 ELSE 2
    BY <1>3 DEF Compare
  <2> QED  BY <1>1, <1>3, <2>1
<1> QED  BY <1>2, <1>3 DEF Orders

\* x is the first of AA, and A what follows.
Leads(order, x, A, AA) ==
  /\ x \in Points /\ A \in SUBSET Points /\ AA = {x} \cup A
  /\ \A p \in A : Compare(order, x, p) = 1

\* One round of a loop, at x before A and y before B.
LEMMA HeadsMeet ==
  ASSUME NEW order \in Orders,
         NEW x, NEW A, NEW AA, Leads(order, x, A, AA),
         NEW y, NEW B, NEW BB, Leads(order, y, B, BB)
  PROVE  /\ Compare(order, x, y) \in {0, 1, 2}
         /\ Compare(order, x, y) = 0 =>
              /\ Alone(order, AA, BB) = Alone(order, A, B)
              /\ Alone(order, BB, AA) = Alone(order, B, A)
              /\ Met(order, AA, BB) = Met(order, A, B) \cup {<<x, y>>}
         /\ Compare(order, x, y) = 1 =>
              /\ Alone(order, AA, BB) = Alone(order, A, BB) \cup {x}
              /\ Alone(order, BB, AA) = Alone(order, BB, A)
              /\ Met(order, AA, BB) = Met(order, A, BB)
         /\ Compare(order, x, y) = 2 =>
              /\ Alone(order, AA, BB) = Alone(order, AA, B)
              /\ Alone(order, BB, AA) = Alone(order, B, AA) \cup {y}
              /\ Met(order, AA, BB) = Met(order, AA, B)
<1> DEFINE c == Compare(order, x, y)
           Apart(p, q) == Compare(order, p, q) # 0 /\ Compare(order, q, p) # 0
<1> USE DEF Leads
<1>1. c \in {0, 1, 2}
  BY CompareIsOrder
<1>2. ASSUME NEW p \in Points, NEW q \in Points, Compare(order, p, q) = 1  PROVE Apart(p, q)
  BY <1>2, CompareIsOrder
<1>3. ASSUME c = 0
      PROVE  /\ Alone(order, AA, BB) = Alone(order, A, B)
             /\ Alone(order, BB, AA) = Alone(order, B, A)
             /\ Met(order, AA, BB) = Met(order, A, B) \cup {<<x, y>>}
  <2>1. \A p \in A : Apart(p, y)
    <3> SUFFICES ASSUME NEW p \in A  PROVE Apart(p, y)
      OBVIOUS
    <3>1. Compare(order, y, x) = 0 /\ Compare(order, x, p) = 1
      BY <1>3, CompareIsOrder
    <3>2. Compare(order, y, p) = 1
      BY <3>1, CompareIsOrder
    <3> QED  BY <1>2, <3>2
  <2>2. \A q \in B : Apart(x, q)
    <3> SUFFICES ASSUME NEW q \in B  PROVE Apart(x, q)
      OBVIOUS
    <3>1. Compare(order, x, q) = 1
      BY <1>3, CompareIsOrder
    <3> QED  BY <1>2, <3>1
  <2>3. Compare(order, x, y) = 0 /\ Compare(order, y, x) = 0
    BY <1>3, CompareIsOrder
  <2>4. Alone(order, AA, BB) = Alone(order, A, B)
    BY <2>1, <2>2, <2>3 DEF Alone
  <2>5. Alone(order, BB, AA) = Alone(order, B, A)
    BY <2>1, <2>2, <2>3 DEF Alone
  <2>6. Met(order, AA, BB) = Met(order, A, B) \cup {<<x, y>>}
    BY <2>1, <2>2, <2>3 DEF Met
  <2> QED  BY <2>4, <2>5, <2>6, Zenon
<1>4. ASSUME c = 1
      PROVE  /\ Alone(order, AA, BB) = Alone(order, A, BB) \cup {x}
             /\ Alone(order, BB, AA) = Alone(order, BB, A)
             /\ Met(order, AA, BB) = Met(order, A, BB)
  <2>1. \A q \in BB : Apart(x, q)
    <3> SUFFICES ASSUME NEW q \in BB  PROVE Apart(x, q)
      OBVIOUS
    <3>1. Compare(order, x, q) = 1
      BY <1>4, CompareIsOrder
    <3> QED  BY <1>2, <3>1
  <2>2. Alone(order, AA, BB) = Alone(order, A, BB) \cup {x}
    BY <2>1 DEF Alone
  <2>3. Alone(order, BB, AA) = Alone(order, BB, A)
    BY <2>1 DEF Alone
  <2>4. Met(order, AA, BB) = Met(order, A, BB)
    BY <2>1 DEF Met
  <2> QED  BY <2>2, <2>3, <2>4, Zenon
<1>5. ASSUME c = 2
      PROVE  /\ Alone(order, AA, BB) = Alone(order, AA, B)
             /\ Alone(order, BB, AA) = Alone(order, B, AA) \cup {y}
             /\ Met(order, AA, BB) = Met(order, AA, B)
  <2>1. \A p \in AA : Apart(p, y)
    <3> SUFFICES ASSUME NEW p \in AA  PROVE Apart(p, y)
      OBVIOUS
    <3>1. Compare(order, y, x) = 1 /\ (p = x \/ Compare(order, x, p) = 1)
      BY <1>5, CompareIsOrder
    <3>2. Compare(order, y, p) = 1
      BY <3>1, CompareIsOrder
    <3> QED  BY <1>2, <3>2
  <2>2. Alone(order, AA, BB) = Alone(order, AA, B)
    BY <2>1 DEF Alone
  <2>3. Alone(order, BB, AA) = Alone(order, B, AA) \cup {y}
    BY <2>1 DEF Alone
  <2>4. Met(order, AA, BB) = Met(order, AA, B)
    BY <2>1 DEF Met
  <2> QED  BY <2>2, <2>3, <2>4, Zenon
<1> QED  BY <1>1, <1>3, <1>4, <1>5, Zenon

\* Sequences as the loops need them, and what is left of one from position i on.
Increasing(order, a) ==
  a \in Seq(Points) /\ \A k, l \in 1..Len(a) : k < l => Compare(order, a[k], a[l]) = 1
From(a, i) == {a[k] : k \in i..Len(a)}

\* Every set of natural numbers that has an element has a smallest one.
LEMMA SmallestElement ==
  ASSUME NEW A \in SUBSET Nat, A # {}
  PROVE  \E m \in A : \A k \in A : m <= k
<1> DEFINE R == OpToRel(<, Nat)
<1>1. IsWellFoundedOn(R, Nat)
  BY NatLessThanWellFounded
<1>2. PICK m \in A : \A k \in A : <<k, m>> \notin R
  <2> HIDE DEF R
  <2> QED  BY <1>1, WFMin
<1>3. ASSUME NEW k \in A  PROVE m <= k
  <2>1. k \in Nat /\ m \in Nat
    OBVIOUS
  <2>2. ~(k < m)
    BY <1>2, <2>1 DEF OpToRel
  <2> QED  BY <2>1, <2>2
<1> QED  BY <1>3

\* What is left at a position is its point and what is left at the next.
LEMMA FromNext ==
  ASSUME NEW order, NEW a, Increasing(order, a), NEW i \in 1..Len(a)
  PROVE  Leads(order, a[i], From(a, i + 1), From(a, i))
<1>1. a \in Seq(Points) /\ Len(a) \in Nat
  BY DEF Increasing
<1>2. \A k : k \in i..Len(a) <=> k = i \/ k \in i + 1..Len(a)
  BY <1>1
<1>3. \A k \in i + 1..Len(a) : k \in 1..Len(a) /\ i < k
  BY <1>1
<1>4. From(a, i) = {a[i]} \cup From(a, i + 1)
  BY <1>2 DEF From
<1>5. \A k \in 1..Len(a) : a[k] \in Points
  BY <1>1
<1> QED  BY <1>3, <1>4, <1>5 DEF From, Increasing, Leads

\* What a loop has found, and what a round adds to it.
Found(A, B, P) == [a |-> A, b |-> B, pairs |-> P]
MoreOfA(f, Q) == [f EXCEPT !.a = @ \cup Q]
MoreOfB(f, Q) == [f EXCEPT !.b = @ \cup Q]
MorePairs(f, Q) == [f EXCEPT !.pairs = @ \cup Q]

\* A round that adds to the first set.
LEMMA FoundMoreOfA ==
  ASSUME NEW A, NEW B, NEW P, NEW Q
  PROVE  MoreOfA(Found(A, B, P), Q) = Found(A \cup Q, B, P)
BY DEF MoreOfA, Found

\* A round that adds to the second set.
LEMMA FoundMoreOfB ==
  ASSUME NEW A, NEW B, NEW P, NEW Q
  PROVE  MoreOfB(Found(A, B, P), Q) = Found(A, B \cup Q, P)
BY DEF MoreOfB, Found

\* A round that adds a pair.
LEMMA FoundMorePairs ==
  ASSUME NEW A, NEW B, NEW P, NEW Q
  PROVE  MorePairs(Found(A, B, P), Q) = Found(A, B, P \cup Q)
BY DEF MorePairs, Found

\* The loop over two sorted sequences finds the points that only one of them has, and the
\* pairs, whichever ends first.
LEMMA WalkIs ==
  ASSUME NEW order \in Orders, NEW a, NEW b, Increasing(order, a), Increasing(order, b)
  PROVE  LET A == From(a, 1)
             B == From(b, 1)
         IN  Walk(order, a, b) = Found(Alone(order, A, B), Alone(order, B, A), Met(order, A, B))
<1> DEFINE D == (1..Len(a) + 1) \X (1..Len(b) + 1)
           answer(i, j) == Found(Alone(order, From(a, i), From(b, j)),
                                 Alone(order, From(b, j), From(a, i)),
                                 Met(order, From(a, i), From(b, j)))
           step(f, i, j) ==
             IF i > Len(a) \/ j > Len(b)
             THEN Found({a[k] : k \in i..Len(a)}, {b[k] : k \in j..Len(b)}, {})
             ELSE CASE Compare(order, a[i], b[j]) = 0 ->
                         MorePairs(f[<<i + 1, j + 1>>], {<<a[i], b[j]>>})
                    [] Compare(order, a[i], b[j]) = 1 ->
                         MoreOfA(f[<<i + 1, j>>], {a[i]})
                    [] OTHER -> MoreOfB(f[<<i, j + 1>>], {b[j]})
           F == [v \in D |-> answer(v[1], v[2])]
           W == CHOOSE f : f = [v \in D |-> step(f, v[1], v[2])]
           rank == [v \in D |-> (Len(a) + 1 - v[1]) + (Len(b) + 1 - v[2])]
<1>1. Len(a) \in Nat /\ Len(b) \in Nat
  BY DEF Increasing
<1>2. ASSUME NEW i \in 1..Len(a) + 1, NEW j \in 1..Len(b) + 1, i <= Len(a), j <= Len(b)
      PROVE  /\ <<i + 1, j + 1>> \in D /\ <<i + 1, j>> \in D /\ <<i, j + 1>> \in D /\ <<i, j>> \in D
             /\ rank[<<i + 1, j + 1>>] < rank[<<i, j>>]
             /\ rank[<<i + 1, j>>] < rank[<<i, j>>] /\ rank[<<i, j + 1>>] < rank[<<i, j>>]
  <2>1. i + 1 \in 1..Len(a) + 1 /\ j + 1 \in 1..Len(b) + 1
    BY <1>1, <1>2
  <2>2. /\ <<i + 1, j + 1>> \in D /\ <<i + 1, j>> \in D
        /\ <<i, j + 1>> \in D /\ <<i, j>> \in D
    BY <2>1
  <2>3. /\ rank[<<i, j>>] = (Len(a) + 1 - i) + (Len(b) + 1 - j)
        /\ rank[<<i + 1, j + 1>>] = (Len(a) + 1 - (i + 1)) + (Len(b) + 1 - (j + 1))
        /\ rank[<<i + 1, j>>] = (Len(a) + 1 - (i + 1)) + (Len(b) + 1 - j)
        /\ rank[<<i, j + 1>>] = (Len(a) + 1 - i) + (Len(b) + 1 - (j + 1))
    <3> HIDE DEF D
    <3> QED  BY <2>2
  <2> HIDE DEF D, rank
  <2> QED  BY <1>1, <2>2, <2>3, SMTT(30)
<1>3. ASSUME NEW i \in 1..Len(a) + 1, NEW j \in 1..Len(b) + 1
      PROVE  step(F, i, j) = answer(i, j)
  <2> DEFINE A == From(a, i)
             B == From(b, j)
  <2>1. CASE i > Len(a) \/ j > Len(b)
    <3>1. A = {} \/ B = {}
      BY <1>1, <2>1 DEF From
    <3>2. Alone(order, A, B) = A /\ Alone(order, B, A) = B /\ Met(order, A, B) = {}
      <4> HIDE DEF A, B
      <4> QED  BY <3>1 DEF Alone, Met
    <3> QED  BY <2>1, <3>2 DEF From
  <2>2. CASE i <= Len(a) /\ j <= Len(b)
    <3> DEFINE AA == From(a, i + 1)
               BB == From(b, j + 1)
               x == a[i]
               y == b[j]
    <3>1. i \in 1..Len(a) /\ j \in 1..Len(b) /\ ~(i > Len(a)) /\ ~(j > Len(b))
      BY <1>1, <2>2
    <3>2. Leads(order, x, AA, A)
      BY <3>1, FromNext
    <3>3. Leads(order, y, BB, B)
      BY <3>1, FromNext
    <3>4. /\ F[<<i + 1, j + 1>>] = answer(i + 1, j + 1)
          /\ F[<<i + 1, j>>] = answer(i + 1, j) /\ F[<<i, j + 1>>] = answer(i, j + 1)
      <4> HIDE DEF answer, D
      <4> QED  BY <1>2, <2>2
    <3> HIDE DEF A, B, AA, BB, x, y, F
    <3>5. /\ Compare(order, x, y) \in {0, 1, 2}
          /\ Compare(order, x, y) = 0 =>
               /\ Alone(order, A, B) = Alone(order, AA, BB)
               /\ Alone(order, B, A) = Alone(order, BB, AA)
               /\ Met(order, A, B) = Met(order, AA, BB) \cup {<<x, y>>}
          /\ Compare(order, x, y) = 1 =>
               /\ Alone(order, A, B) = Alone(order, AA, B) \cup {x}
               /\ Alone(order, B, A) = Alone(order, B, AA)
               /\ Met(order, A, B) = Met(order, AA, B)
          /\ Compare(order, x, y) = 2 =>
               /\ Alone(order, A, B) = Alone(order, A, BB)
               /\ Alone(order, B, A) = Alone(order, BB, A) \cup {y}
               /\ Met(order, A, B) = Met(order, A, BB)
      BY <3>2, <3>3, HeadsMeet
    <3>6. answer(i, j) = Found(Alone(order, A, B), Alone(order, B, A), Met(order, A, B))
      BY DEF A, B
    <3>7. CASE Compare(order, x, y) = 0
      <4>1. step(F, i, j) = MorePairs(answer(i + 1, j + 1), {<<x, y>>})
        BY <3>1, <3>4, <3>7 DEF x, y
      <4>2. answer(i + 1, j + 1) = Found(Alone(order, AA, BB), Alone(order, BB, AA), Met(order, AA, BB))
        BY DEF AA, BB
      <4>3. MorePairs(Found(Alone(order, AA, BB), Alone(order, BB, AA), Met(order, AA, BB)), {<<x, y>>}) =
              Found(Alone(order, AA, BB), Alone(order, BB, AA), Met(order, AA, BB) \cup {<<x, y>>})
        BY FoundMorePairs
      <4> HIDE DEF step, answer
      <4> QED  BY <3>5, <3>6, <3>7, <4>1, <4>2, <4>3, Zenon
    <3>8. CASE Compare(order, x, y) = 1
      <4>1. step(F, i, j) = MoreOfA(answer(i + 1, j), {x})
        BY <3>1, <3>4, <3>8 DEF x, y
      <4>2. answer(i + 1, j) = Found(Alone(order, AA, B), Alone(order, B, AA), Met(order, AA, B))
        BY DEF AA, B
      <4>3. MoreOfA(Found(Alone(order, AA, B), Alone(order, B, AA), Met(order, AA, B)), {x}) =
              Found(Alone(order, AA, B) \cup {x}, Alone(order, B, AA), Met(order, AA, B))
        BY FoundMoreOfA
      <4> HIDE DEF step, answer
      <4> QED  BY <3>5, <3>6, <3>8, <4>1, <4>2, <4>3, Zenon
    <3>9. CASE Compare(order, x, y) = 2
      <4>1. step(F, i, j) = MoreOfB(answer(i, j + 1), {y})
        BY <3>1, <3>4, <3>9 DEF x, y
      <4>2. answer(i, j + 1) = Found(Alone(order, A, BB), Alone(order, BB, A), Met(order, A, BB))
        BY DEF A, BB
      <4>3. MoreOfB(Found(Alone(order, A, BB), Alone(order, BB, A), Met(order, A, BB)), {y}) =
              Found(Alone(order, A, BB), Alone(order, BB, A) \cup {y}, Met(order, A, BB))
        BY FoundMoreOfB
      <4> HIDE DEF step, answer
      <4> QED  BY <3>5, <3>6, <3>9, <4>1, <4>2, <4>3, Zenon
    <3> QED  BY <3>5, <3>7, <3>8, <3>9
  <2> QED  BY <1>1, <2>1, <2>2
<1>4. W = [v \in D |-> step(W, v[1], v[2])]
  <2>1. F = [v \in D |-> step(F, v[1], v[2])]
    <3>1. \A v \in D : step(F, v[1], v[2]) = answer(v[1], v[2])
      <4> HIDE DEF step, answer, F
      <4> QED  BY <1>3
    <3> HIDE DEF step, answer, D
    <3> QED  BY <3>1
  <2> HIDE DEF step, F, D
  <2> QED  BY <2>1
<1>5. Walk(order, a, b) = W[<<1, 1>>]
  BY DEF Walk, Found, MoreOfA, MoreOfB, MorePairs
<1> HIDE DEF W
<1>6. ASSUME NEW v \in D, \A w \in D : rank[w] < rank[v] => W[w] = F[w]
      PROVE  W[v] = F[v]
  <2> DEFINE i == v[1]
             j == v[2]
  <2>1. i \in 1..Len(a) + 1 /\ j \in 1..Len(b) + 1 /\ v = <<i, j>>
    OBVIOUS
  <2>2. W[v] = step(W, i, j)
    <3> HIDE DEF step, D
    <3> QED  BY <1>4
  <2>3. F[v] = answer(i, j)
    <3> HIDE DEF answer, D
    <3> QED  OBVIOUS
  <2> HIDE DEF i, j
  <2>4. step(W, i, j) = step(F, i, j)
    <3>1. CASE i > Len(a) \/ j > Len(b)
      BY <3>1
    <3>2. CASE i <= Len(a) /\ j <= Len(b)
      <4>1. /\ W[<<i + 1, j + 1>>] = F[<<i + 1, j + 1>>]
            /\ W[<<i + 1, j>>] = F[<<i + 1, j>>] /\ W[<<i, j + 1>>] = F[<<i, j + 1>>]
        <5> HIDE DEF D, rank, F
        <5> QED  BY <1>2, <1>6, <2>1, <3>2
      <4> HIDE DEF F
      <4> QED  BY <4>1
    <3> QED  BY <1>1, <2>1, <3>1, <3>2
  <2> HIDE DEF step, answer, F
  <2> QED  BY <1>3, <2>1, <2>2, <2>3, <2>4
<1>7. \A v \in D : W[v] = F[v]
  <2>1. \A v \in D : rank[v] \in Nat
    BY <1>1
  <2> HIDE DEF rank, F, D
  <2> DEFINE Bad == {rank[v] : v \in {w \in D : W[w] # F[w]}}
  <2> SUFFICES ASSUME Bad # {}  PROVE FALSE
    OBVIOUS
  <2>2. PICK m \in Bad : \A k \in Bad : m <= k
    <3>1. Bad \in SUBSET Nat
      BY <2>1
    <3> HIDE DEF Bad
    <3> QED  BY <3>1, SmallestElement
  <2>3. PICK v \in D : m = rank[v] /\ W[v] # F[v]
    BY <2>2
  <2>4. ASSUME NEW w \in D, rank[w] < rank[v]  PROVE W[w] = F[w]
    <3>1. W[w] # F[w] => rank[w] \in Bad
      OBVIOUS
    <3>2. rank[w] \in Nat /\ rank[v] \in Nat
      BY <2>1
    <3> HIDE DEF Bad
    <3> QED  BY <2>2, <2>3, <2>4, <3>1, <3>2
  <2> QED  BY <1>6, <2>3, <2>4
<1>8. <<1, 1>> \in D /\ F[<<1, 1>>] = answer(1, 1)
  <2>1. <<1, 1>> \in D
    BY <1>1
  <2> HIDE DEF D, answer
  <2> QED  BY <2>1
<1> HIDE DEF D, F
<1> QED  BY <1>5, <1>7, <1>8

\* Sorting puts every point in the place that the number of points before it says.
LEMMA SortedIs ==
  ASSUME NEW order \in Orders, NEW S \in SUBSET Points,
         \A x, y \in S : Compare(order, x, y) = 0 => x = y
  PROVE  Increasing(order, Sorted(order, S)) /\ From(Sorted(order, S), 1) = S
<1> DEFINE N == Cardinality(S)
           First(x) == {y \in S : Compare(order, y, x) = 1}
           f == [x \in S |-> Cardinality(First(x))]
           T == 0..N - 1
           P == Sorted(order, S)
<1>1. IsFiniteSet(S) /\ N \in Nat
  BY LoopsAssumption, FS_Subset, FS_CardinalityType
<1>2. ASSUME NEW x \in S
      PROVE  /\ First(x) \in SUBSET S /\ IsFiniteSet(First(x)) /\ x \notin First(x)
             /\ Cardinality(First(x)) \in T
  <2>1. First(x) \in SUBSET S /\ IsFiniteSet(First(x)) /\ x \notin First(x)
    BY <1>1, FS_Subset, CompareIsOrder
  <2>2. Cardinality(First(x)) <= N /\ Cardinality(First(x)) \in Nat /\ Cardinality(First(x)) # N
    <3>1. Cardinality(First(x)) = N => S = First(x)
      <4> HIDE DEF First
      <4> QED  BY <1>1, <2>1, FS_Subset
    <3> HIDE DEF First
    <3> QED  BY <1>1, <2>1, <3>1, FS_Subset, FS_CardinalityType
  <2> HIDE DEF First
  <2> QED  BY <1>1, <2>1, <2>2
<1>3. ASSUME NEW x \in S, NEW y \in S, Compare(order, x, y) = 1
      PROVE  Cardinality(First(x)) < Cardinality(First(y))
  <2>1. First(x) \in SUBSET First(y) /\ x \in First(y) /\ x \notin First(x)
    BY <1>3, CompareIsOrder
  <2>2. /\ IsFiniteSet(First(x)) /\ Cardinality(First(x)) \in Nat
        /\ IsFiniteSet(First(y)) /\ Cardinality(First(y)) \in Nat
    <3>1. IsFiniteSet(First(x)) /\ IsFiniteSet(First(y))
      BY <1>2
    <3> HIDE DEF First
    <3> QED  BY <3>1, FS_CardinalityType
  <2> HIDE DEF First
  <2>3. /\ Cardinality(First(x)) <= Cardinality(First(y))
        /\ Cardinality(First(x)) = Cardinality(First(y)) => First(y) = First(x)
    BY <2>1, <2>2, FS_Subset
  <2> QED  BY <2>1, <2>2, <2>3
<1>4. ASSUME NEW x \in S, NEW y \in S, Cardinality(First(x)) = Cardinality(First(y))
      PROVE  x = y
  <2>1. Compare(order, x, y) \in {0, 1, 2} /\ (Compare(order, x, y) = 2 => Compare(order, y, x) = 1)
    BY CompareIsOrder
  <2>2. Cardinality(First(x)) \in Int /\ Cardinality(First(y)) \in Int
    <3>1. Cardinality(First(x)) \in T /\ Cardinality(First(y)) \in T
      <4> HIDE DEF T, First
      <4> QED  BY <1>2
    <3> HIDE DEF First
    <3> QED  BY <1>1, <3>1
  <2> HIDE DEF First
  <2> QED  BY <1>3, <1>4, <2>1, <2>2
<1>5. f \in Surjection(S, T)
  <2>1. f \in Injection(S, T)
    <3>1. f \in [S -> T]
      <4> HIDE DEF First, T
      <4> QED  BY <1>2
    <3>2. ASSUME NEW x \in S, NEW y \in S, f[x] = f[y]  PROVE x = y
      <4> HIDE DEF First
      <4> QED  BY <1>4, <3>2
    <3> HIDE DEF f, T
    <3> QED  BY <3>1, <3>2 DEF Injection, IsInjective
  <2>2. IsFiniteSet(T) /\ Cardinality(T) = N
    <3>1. 0 \in Int /\ N - 1 \in Int
      BY <1>1
    <3>2. IsFiniteSet(0..N - 1) /\ Cardinality(0..N - 1) = IF 0 > N - 1 THEN 0 ELSE (N - 1) - 0 + 1
      <4> HIDE DEF N
      <4> QED  BY <3>1, FS_Interval
    <3> HIDE DEF N
    <3> QED  BY <1>1, <3>2
  <2> HIDE DEF f, T
  <2> QED  BY <1>1, <2>1, <2>2, FS_Injection
<1>6. ASSUME NEW i \in 1..N
      PROVE  P[i] \in S /\ Cardinality(First(P[i])) = i - 1
  <2>1. i - 1 \in T
    BY <1>1
  <2>2. \E x \in S : f[x] = i - 1
    <3> HIDE DEF f, T
    <3> QED  BY <1>5, <2>1 DEF Surjection
  <2>3. \E x \in S : Cardinality(First(x)) = i - 1
    <3> HIDE DEF First
    <3> QED  BY <2>2
  <2>4. P[i] = CHOOSE x \in S : Cardinality(First(x)) = i - 1
    BY DEF Sorted
  <2> HIDE DEF First, P
  <2> QED  BY <2>3, <2>4
<1>7. DOMAIN P = 1..N /\ P = [i \in 1..N |-> P[i]]
  <2> DEFINE e(i) == CHOOSE x \in S : Cardinality(First(x)) = i - 1
  <2>1. P = [i \in 1..N |-> e(i)]
    BY DEF Sorted
  <2> HIDE DEF P, e
  <2> QED  BY <2>1
<1> HIDE DEF P, First, T
<1>8. P \in Seq(Points) /\ Len(P) = N
  <2> HIDE DEF N
  <2>1. P \in [1..N -> Points]
    BY <1>6, <1>7
  <2> QED  BY <1>1, <2>1
<1>9. ASSUME NEW k \in 1..N, NEW l \in 1..N, k < l
      PROVE  Compare(order, P[k], P[l]) = 1
  <2>1. P[k] \in S /\ P[l] \in S
    BY <1>6
  <2>2. Cardinality(First(P[k])) = k - 1 /\ Cardinality(First(P[l])) = l - 1
    BY <1>6
  <2>3. /\ Compare(order, P[k], P[l]) \in {0, 1, 2}
        /\ Compare(order, P[k], P[l]) = 0 => P[k] = P[l]
        /\ Compare(order, P[k], P[l]) = 2 => Compare(order, P[l], P[k]) = 1
    BY <2>1, CompareIsOrder
  <2>4. Compare(order, P[l], P[k]) = 1 => l - 1 < k - 1
    BY <1>3, <2>1, <2>2
  <2>5. k \in Int /\ l \in Int
    OBVIOUS
  <2>6. P[k] = P[l] => k - 1 = l - 1
    BY <2>2
  <2> QED  BY <1>9, <2>3, <2>4, <2>5, <2>6
<1>10. S = From(P, 1)
  <2>1. ASSUME NEW x \in S  PROVE x \in From(P, 1)
    <3> DEFINE i == Cardinality(First(x)) + 1
    <3>1. Cardinality(First(x)) \in 0..N - 1
      BY <1>2 DEF T
    <3>2. i \in 1..N /\ i - 1 = Cardinality(First(x))
      BY <1>1, <3>1
    <3>3. P[i] = x
      BY <1>4, <1>6, <3>2
    <3> HIDE DEF i
    <3> QED  BY <1>8, <3>2, <3>3 DEF From
  <2>2. ASSUME NEW x \in From(P, 1)  PROVE x \in S
    BY <1>6, <1>8 DEF From
  <2> QED  BY <2>1, <2>2
<1>11. Increasing(order, P)
  BY <1>8, <1>9 DEF Increasing
<1> QED  BY <1>10, <1>11 DEF P

\* The orders tell apart the points of a set with one point per id.
LEMMA SortedLoop ==
  ASSUME NEW order \in Orders, NEW S \in SUBSET Points, NEW T \in SUBSET Points,
         OnePointPerId(S), OnePointPerId(T)
  PROVE  Walk(order, Sorted(order, S), Sorted(order, T)) =
           Found(Alone(order, S, T), Alone(order, T, S), Met(order, S, T))
<1>1. ASSUME NEW x \in Points, NEW y \in Points, Compare(order, x, y) = 0
      PROVE  x.id = y.id
  BY <1>1, CompareIsOrder, KeysOfAnId DEF Orders
<1>2. \A x, y \in S : Compare(order, x, y) = 0 => x = y
  BY <1>1 DEF OnePointPerId
<1>3. \A x, y \in T : Compare(order, x, y) = 0 => x = y
  BY <1>1 DEF OnePointPerId
<1>4. Increasing(order, Sorted(order, S)) /\ From(Sorted(order, S), 1) = S
  BY <1>2, SortedIs
<1>5. Increasing(order, Sorted(order, T)) /\ From(Sorted(order, T), 1) = T
  BY <1>3, SortedIs
<1> QED  BY <1>4, <1>5, WalkIs

\* What the loops find: of two lists by key, and of two lists by id.
LEMMA WhatLoopsFind ==
  ASSUME NEW S \in SUBSET Points, NEW T \in SUBSET Points
  PROVE  /\ Alone("key", S, T) = Minus(S, T)
         /\ Alone("id", S, T) = S \ WithIdOf(S, T)
         /\ Met("id", S, T) = {p \in S \X T : p[1].id = p[2].id}
<1>1. \A x, y \in Points : Compare("key", x, y) = 0 <=> Key(x) = Key(y)
  BY CompareIsOrder DEF Orders
<1>2. \A x, y \in Points : Compare("id", x, y) = 0 <=> x.id = y.id
  BY CompareIsOrder DEF Orders
<1>3. Alone("key", S, T) = Minus(S, T)
  BY <1>1 DEF Alone, Minus
<1>4. Alone("id", S, T) = S \ WithIdOf(S, T)
  BY <1>2 DEF Alone, WithIdOf
<1>5. Met("id", S, T) = {p \in S \X T : p[1].id = p[2].id}
  BY <1>2 DEF Met
<1> QED  BY <1>3, <1>4, <1>5

\* On the lists of two versions, the loop that merges or diffs them by id.
LEMMA ById ==
  ASSUME NEW S \in SUBSET Points, NEW T \in SUBSET Points, OnePointPerId(S), OnePointPerId(T)
  PROVE  LET w == Walk("id", Sorted("id", S), Sorted("id", T))
         IN  /\ w.a = S \ WithIdOf(S, T)
             /\ w.b = T \ WithIdOf(T, S)
             /\ w.pairs = {p \in S \X T : p[1].id = p[2].id}
<1>1. Walk("id", Sorted("id", S), Sorted("id", T)) =
        Found(S \ WithIdOf(S, T), T \ WithIdOf(T, S), {p \in S \X T : p[1].id = p[2].id})
  <2>1. Walk("id", Sorted("id", S), Sorted("id", T)) =
          Found(Alone("id", S, T), Alone("id", T, S), Met("id", S, T))
    BY SortedLoop DEF Orders
  <2> QED  BY <2>1, WhatLoopsFind
<1> QED  BY <1>1 DEF Found

\* filter_diff_results sorts its lists by id and splits them in one pass.
LEMMA FilterDiffIs ==
  ASSUME NEW A \in SUBSET Points, NEW R \in SUBSET Points, OnePointPerId(A), OnePointPerId(R)
  PROVE  FilterDiff(A, R) = FilterDiffResults([add |-> A, remove |-> R])
<1> DEFINE w == Walk("id", Sorted("id", A), Sorted("id", R))
           P == {p \in A \X R : p[1].id = p[2].id}
<1>1. w.a = A \ WithIdOf(A, R) /\ w.b = R \ WithIdOf(R, A) /\ w.pairs = P
  BY ById
<1>2. {p[1] : p \in P} = WithIdOf(A, R)
  <2>1. ASSUME NEW x \in WithIdOf(A, R)  PROVE x \in {p[1] : p \in P}
    <3>1. PICK y \in R : y.id = x.id
      BY DEF WithIdOf
    <3>2. <<x, y>> \in P /\ x = <<x, y>>[1]
      BY <3>1 DEF WithIdOf
    <3> QED  BY <3>2
  <2>2. ASSUME NEW p \in P  PROVE p[1] \in WithIdOf(A, R)
    BY DEF WithIdOf
  <2> QED  BY <2>1, <2>2
<1>3. FilterDiff(A, R) = [insert |-> w.a, delete |-> w.b, update |-> {p[1] : p \in w.pairs}]
  BY DEF FilterDiff
<1> HIDE DEF w, P
<1> QED  BY <1>1, <1>2, <1>3 DEF FilterDiffResults

\* merge_by_id_with_conflict sets aside the pairs that differ, and nothing else.
LEMMA MergeByIdIs ==
  ASSUME NEW S \in SUBSET Points, NEW T \in SUBSET Points, OnePointPerId(S), OnePointPerId(T)
  PROVE  MergeById(S, T) = [no_conflict |-> NotConflicting(S, T), conflict |-> Conflicting(S, T)]
<1> DEFINE w == Walk("id", Sorted("id", S), Sorted("id", T))
           P == {p \in S \X T : p[1].id = p[2].id}
           D == {p \in P : p[1] # p[2]}
           C == {p[1] : p \in D} \cup {p[2] : p \in D}
           N == w.a \cup w.b \cup {p[1] : p \in P \ D}
<1>1. w.a = S \ WithIdOf(S, T) /\ w.b = T \ WithIdOf(T, S) /\ w.pairs = P
  BY ById
<1>2. MergeById(S, T) = [no_conflict |-> N, conflict |-> C]
  <2>1. MergeById(S, T) =
          LET differ == {p \in w.pairs : p[1] # p[2]}
          IN  [no_conflict |-> w.a \cup w.b \cup {p[1] : p \in w.pairs \ differ},
               conflict |-> {p[1] : p \in differ} \cup {p[2] : p \in differ}]
    BY DEF MergeById
  <2> HIDE DEF w
  <2> QED  BY <1>1, <2>1
<1>3. \A p : p \in D <=> \E x \in S, y \in T : p = <<x, y>> /\ x.id = y.id /\ x # y
  OBVIOUS
<1>4. C = Conflicting(S, T)
  <2>1. ASSUME NEW x \in C  PROVE x \in Conflicting(S, T)
    <3>1. PICK p \in D : x = p[1] \/ x = p[2]
      OBVIOUS
    <3>2. PICK y \in S, z \in T : p = <<y, z>> /\ y.id = z.id /\ y # z
      BY <1>3
    <3> QED  BY <3>1, <3>2 DEF Conflicting
  <2>2. ASSUME NEW x \in Conflicting(S, T)  PROVE x \in C
    <3>1. x \in S \cup T /\ \E y \in S \cup T : y.id = x.id /\ y # x
      BY DEF Conflicting
    <3>2. PICK y \in S \cup T : y.id = x.id /\ y # x
      BY <3>1
    <3>3. <<x, y>> \in D \/ <<y, x>> \in D
      BY <3>1, <3>2 DEF OnePointPerId
    <3> QED  BY <3>3
  <2> QED  BY <2>1, <2>2
<1>5. {p[1] : p \in P \ D} = S \cap T
  <2>1. ASSUME NEW x \in S \cap T  PROVE x \in {p[1] : p \in P \ D}
    <3>1. <<x, x>> \in P \ D /\ x = <<x, x>>[1]
      OBVIOUS
    <3> QED  BY <3>1
  <2>2. ASSUME NEW p \in P \ D  PROVE p[1] \in S \cap T
    OBVIOUS
  <2> QED  BY <2>1, <2>2
<1>6. N = NotConflicting(S, T)
  <2>1. N = (S \ WithIdOf(S, T)) \cup (T \ WithIdOf(T, S)) \cup (S \cap T)
    BY <1>1, <1>5
  <2> HIDE DEF N
  <2>2. ASSUME NEW x \in S \cup T
        PROVE  x \in N <=> \A y \in S \cup T : y.id = x.id => y = x
    BY <2>1 DEF WithIdOf, OnePointPerId
  <2>3. N \subseteq S \cup T
    BY <2>1
  <2> QED  BY <2>2, <2>3 DEF NotConflicting, Conflicting
<1> HIDE DEF C, N
<1> QED  BY <1>2, <1>4, <1>6

\* diff_by_id removes what is not in the second list and adds what is not in the first.
LEMMA DiffByIdIs ==
  ASSUME NEW S \in SUBSET Points, NEW T \in SUBSET Points, OnePointPerId(S), OnePointPerId(T)
  PROVE  DiffById(S, T) = [add |-> T \ S, remove |-> S \ T]
<1> DEFINE w == Walk("id", Sorted("id", S), Sorted("id", T))
           P == {p \in S \X T : p[1].id = p[2].id}
           D == {p \in P : p[1] # p[2]}
           A == w.b \cup {p[2] : p \in D}
           R == w.a \cup {p[1] : p \in D}
<1>1. w.a = S \ WithIdOf(S, T) /\ w.b = T \ WithIdOf(T, S) /\ w.pairs = P
  BY ById
<1>2. DiffById(S, T) = [add |-> A, remove |-> R]
  <2>1. DiffById(S, T) =
          LET moved == {p \in w.pairs : p[1] # p[2]}
          IN  [add |-> w.b \cup {p[2] : p \in moved}, remove |-> w.a \cup {p[1] : p \in moved}]
    BY DEF DiffById
  <2> HIDE DEF w
  <2> QED  BY <1>1, <2>1
<1>3. A = T \ S
  <2>1. ASSUME NEW y \in T \ S  PROVE y \in A
    <3>1. CASE \E x \in S : x.id = y.id
      <4>1. PICK x \in S : x.id = y.id
        BY <3>1
      <4>2. <<x, y>> \in D /\ y = <<x, y>>[2]
        BY <4>1
      <4> QED  BY <4>2
    <3>2. CASE ~ \E x \in S : x.id = y.id
      BY <1>1, <3>2 DEF WithIdOf
    <3> QED  BY <3>1, <3>2
  <2>2. ASSUME NEW y \in w.b  PROVE y \in T \ S
    BY <1>1, <2>2 DEF WithIdOf
  <2>3. ASSUME NEW p \in D  PROVE p[2] \in T \ S
    BY DEF OnePointPerId
  <2> HIDE DEF w, D
  <2> QED  BY <2>1, <2>2, <2>3
<1>4. R = S \ T
  <2>1. ASSUME NEW x \in S \ T  PROVE x \in R
    <3>1. CASE \E y \in T : x.id = y.id
      <4>1. PICK y \in T : x.id = y.id
        BY <3>1
      <4>2. <<x, y>> \in D /\ x = <<x, y>>[1]
        BY <4>1
      <4> QED  BY <4>2
    <3>2. CASE ~ \E y \in T : x.id = y.id
      BY <1>1, <3>2 DEF WithIdOf
    <3> QED  BY <3>1, <3>2
  <2>2. ASSUME NEW x \in w.a  PROVE x \in S \ T
    BY <1>1, <2>2 DEF WithIdOf
  <2>3. ASSUME NEW p \in D  PROVE p[1] \in S \ T
    BY DEF OnePointPerId
  <2> HIDE DEF w, D
  <2> QED  BY <2>1, <2>2, <2>3
<1> HIDE DEF A, R
<1> QED  BY <1>2, <1>3, <1>4

\* Whatever two versions a merge meets, the loops over their sorted points, and over the
\* sorted lists of changes, compute the sets that Merge is written with: the loops of
\* operations.hpp lose no point and keep none they should not, whichever ends first.
THEOREM LoopsAreExact == Spec => []LoopsComputeTheSets
<1>1. ASSUME MInv  PROVE LoopsComputeTheSets
  <2> SUFFICES ASSUME merged # NoMerge, NEW S \in {Base, Left, Right}, NEW T \in {Base, Left, Right}
               PROVE  LET d == Diff(S, T)
                          a == Sorted("key", S)
                          b == Sorted("key", T)
                      IN  /\ MergePts(a, b) = d
                          /\ GetDeleteP(a, b) = Minus(S, T)
                          /\ FilterDiff(d.add, d.remove) = FilterDiffResults(d)
                          /\ MergeById(S, T) = [no_conflict |-> NotConflicting(S, T),
                                                conflict |-> Conflicting(S, T)]
                          /\ DiffById(S, T) = [add |-> T \ S, remove |-> S \ T]
    BY DEF LoopsComputeTheSets
  <2> DEFINE d == Diff(S, T)
             w == Walk("key", Sorted("key", S), Sorted("key", T))
  <2>1. /\ S \in SUBSET Points /\ OnePointPerId(S)
        /\ T \in SUBSET Points /\ OnePointPerId(T)
    BY <1>1, MergedVersions
  <2>2. w = Found(Minus(S, T), Minus(T, S), Met("key", S, T))
    <3>1. w = Found(Alone("key", S, T), Alone("key", T, S), Met("key", S, T))
      BY <2>1, SortedLoop DEF Orders
    <3> QED  BY <2>1, <3>1, WhatLoopsFind
  <2>3. w.a = Minus(S, T) /\ w.b = Minus(T, S)
    <3> HIDE DEF w
    <3> QED  BY <2>2 DEF Found
  <2>4. MergePts(Sorted("key", S), Sorted("key", T)) = d
    <3>1. MergePts(Sorted("key", S), Sorted("key", T)) = [add |-> w.b, remove |-> w.a]
      BY DEF MergePts
    <3> HIDE DEF w
    <3> QED  BY <2>3, <3>1 DEF Diff
  <2>5. GetDeleteP(Sorted("key", S), Sorted("key", T)) = Minus(S, T)
    BY <2>3 DEF GetDeleteP
  <2>6. FilterDiff(d.add, d.remove) = FilterDiffResults(d)
    <3>1. d = [add |-> d.add, remove |-> d.remove] /\ d.add = Minus(T, S) /\ d.remove = Minus(S, T)
      BY DEF Diff
    <3>2. /\ d.add \in SUBSET Points /\ OnePointPerId(d.add)
          /\ d.remove \in SUBSET Points /\ OnePointPerId(d.remove)
      <4> HIDE DEF d
      <4> QED  BY <2>1, <3>1 DEF Minus, OnePointPerId
    <3> HIDE DEF d
    <3>3. FilterDiff(d.add, d.remove) = FilterDiffResults([add |-> d.add, remove |-> d.remove])
      BY <3>2, FilterDiffIs
    <3> QED  BY <3>1, <3>3
  <2>7. MergeById(S, T) = [no_conflict |-> NotConflicting(S, T), conflict |-> Conflicting(S, T)]
    BY <2>1, MergeByIdIs
  <2>8. DiffById(S, T) = [add |-> T \ S, remove |-> S \ T]
    BY <2>1, DiffByIdIs
  <2> QED  BY <2>4, <2>5, <2>6, <2>7, <2>8
<1> QED  BY <1>1, MInvHolds, PTL
=============================================================================
