-------------------------- MODULE BenchReplayProofs --------------------------
(***************************************************************************)
(* What holds of the replay of any number of events on any ids and places. *)
(***************************************************************************)
EXTENDS BenchReplay, VersionNodesProofs, SequenceTheorems

\* active_nodes has one point per id: unordered_map's keys.
ActiveIsAMap == active \subseteq Points /\ \A x, y \in active : x.id = y.id => x = y

RInv == ActiveIsAMap /\ MvqHoldsActive /\ PaczLosesWhatStayed

\* What an event adds has one point per id, and touched ids only.
LEMMA AddsAreTouched ==
  ASSUME NEW E \in Events
  PROVE  /\ Adds(E) \subseteq Points /\ IdsOf(Adds(E)) \subseteq Touched(E)
         /\ \A x, y \in Adds(E) : x.id = y.id => x = y
<1>1. \A x \in Adds(E) : \E i \in Ids : /\ x = [id |-> i, at |-> E[i].at]
                                        /\ E[i].type \in {"A", "M"}
  BY DEF Adds
<1>2. ASSUME NEW i \in Ids, E[i].type \in {"A", "M"} PROVE E[i].at \in Places
  BY <1>2 DEF Events, Operations
<1> QED
  BY <1>1, <1>2 DEF Points, IdsOf, Touched

\* What an event removes is what there is of the ids it touches: nothing is added that
\* is there already.
LEMMA RemsAreTouched ==
  ASSUME NEW E \in Events, ActiveIsAMap
  PROVE  Rems(E) = {x \in active : x.id \in Touched(E)}
<1>1. ASSUME NEW x \in active PROVE E[x.id].type \in {"M", "D"} <=> x.id \in Touched(E)
  <2>1. x.id \in Ids /\ x.id \in IdsOf(active)
    BY <1>1 DEF ActiveIsAMap, Points, IdsOf
  <2>2. E[x.id].type \in {"A", "M", "D", "none"}
    BY <2>1 DEF Events, Operations
  <2>3. E[x.id].type # "A"
    BY <2>1 DEF Events, Applicable
  <2> QED
    BY <2>1, <2>2, <2>3 DEF Touched
<1> QED
  BY <1>1 DEF Rems

\* Of the points that are there, deletion by key takes just those of the touched ids.
LEMMA KeysTellIds ==
  ASSUME NEW E \in Events, ActiveIsAMap, NEW x \in active
  PROVE  Key(x) \in KeysOf(Rems(E)) <=> x.id \in Touched(E)
<1>1. Rems(E) = {y \in active : y.id \in Touched(E)}
  BY RemsAreTouched
<1> QED
  BY <1>1 DEF Key, KeysOf

\* Init and each event keep the invariant.
LEMMA RInvHolds == Spec => []RInv
<1>1. Init => RInv
  BY ReplayAssumption DEF Init, RInv, ActiveIsAMap, MvqHoldsActive, PaczLosesWhatStayed
<1>2. RInv /\ [Next]_vars => RInv'
  <2> SUFFICES ASSUME RInv, [Next]_vars PROVE RInv'
    OBVIOUS
  <2>1. CASE UNCHANGED vars
    BY <2>1 DEF vars, RInv, ActiveIsAMap, MvqHoldsActive, PaczLosesWhatStayed
  <2>2. ASSUME NEW E \in Events, Replay(E) PROVE RInv'
    <3> DEFINE adds == Adds(E)
               rems == Rems(E)
               untouched == {x \in active : x.id \notin Touched(E)}
    <3>1. /\ active' = untouched \cup adds
          /\ mvq' = {x \in mvq : Key(x) \notin KeysOf(rems)} \cup adds
          /\ pacz' = {x \in {y \in pacz : Key(y) \notin KeysOf(adds)} \cup adds :
                        Key(x) \notin KeysOf(rems)}
          /\ stayed' = (stayed \ Touched(E))
                         \cup {x.id : x \in {y \in adds : Key(y) \in KeysOf(rems)}}
      BY <2>2 DEF Replay, MvqCommit, PaczCommit, MultiInsert, MultiDelete
    <3>2. /\ ActiveIsAMap /\ mvq = active /\ pacz \subseteq active
          /\ \A x \in active : x \in pacz <=> x.id \notin stayed
      BY DEF RInv, MvqHoldsActive, PaczLosesWhatStayed
    <3>3. /\ adds \subseteq Points /\ \A x \in adds : x.id \in Touched(E)
          /\ \A x, y \in adds : x.id = y.id => x = y
      BY AddsAreTouched DEF IdsOf
    <3>4. \A x \in active : Key(x) \in KeysOf(rems) <=> x.id \in Touched(E)
      BY <3>2, KeysTellIds
    <3>5. \A x \in untouched : Key(x) \notin KeysOf(adds)
      BY <3>3 DEF Key, KeysOf
    <3> HIDE DEF adds, rems
    <3>6. ActiveIsAMap'
      BY <3>1, <3>2, <3>3 DEF ActiveIsAMap
    <3>7. mvq' = active'
      BY <3>1, <3>2, <3>4
    <3>8. \A x \in active : x \in pacz' <=> (x \in adds /\ x \in pacz')
                                       \/ (x \in untouched /\ x \in pacz)
      BY <3>1, <3>2, <3>4, <3>5
    <3>9. pacz' \subseteq active'
      BY <3>1, <3>2, <3>4
    <3>10. ASSUME NEW x \in active' PROVE x \notin pacz' <=> x.id \in stayed'
      <4>1. CASE x \in adds
        <5>1. x \in pacz' <=> Key(x) \notin KeysOf(rems)
          BY <3>1, <4>1
        <5>2. x.id \in stayed' <=> Key(x) \in KeysOf(rems)
          BY <3>1, <3>3, <4>1
        <5> QED
          BY <5>1, <5>2
      <4>2. CASE x \in untouched /\ x \notin adds
        <5>1. x \in pacz' <=> x \in pacz
          BY <3>8, <4>2
        <5>2. x.id \in stayed' <=> x.id \in stayed
          BY <3>1, <3>3, <4>2
        <5> QED
          BY <3>2, <4>2, <5>1, <5>2
      <4> QED
        BY <3>1, <3>10, <4>1, <4>2
    <3> QED
      BY <3>6, <3>7, <3>9, <3>10 DEF RInv, MvqHoldsActive, PaczLosesWhatStayed
  <2> QED
    BY <2>1, <2>2 DEF Next
<1> QED
  BY <1>1, <1>2, PTL DEF Spec

\* Deleting before inserting, the MVQ runner holds active_nodes after any events.
THEOREM MvqFollows == Spec => []MvqHoldsActive
BY RInvHolds, PTL DEF RInv

\* Inserting before deleting, the PaC-Z runner loses just the points that were last moved
\* within their finest cell, after any events.
THEOREM PaczLoses == Spec => []PaczLosesWhatStayed
BY RInvHolds, PTL DEF RInv

-----------------------------------------------------------------------------
(* The log of the Rlog runner.                                             *)

LogSeq(N) == (\E S : N \in Seq(S)) /\ Len(N) > 0 /\ Rooted(N, Len(N))

\* What the last node of a log shows, and the ids that its walk filters.
Shows(N) == View(N, Len(N))
Drops(N) == RemovedOn(N, Len(N))

\* One call of map_insert or map_delete: the new node is compacted or not.
LEMMA NodeOfTheLog ==
  ASSUME NEW N, LogSeq(N), NEW ins, NEW rem, NEW P \in Compacted(N, ins, rem)
  PROVE  /\ LogSeq(P) /\ Drops(P) \subseteq Drops(N) \cup IdsOf(rem)
         /\ Shows(P) = Without(Shows(N), IdsOf(rem))
                         \cup Without(OccurrencesOf(ins, Len(N) + 1), Drops(N) \cup IdsOf(rem))
<1>1. PICK S : N \in Seq(S)
  BY DEF LogSeq
<1>2. PICK n, x, M : n = Len(N) + 1 /\ x = Node(N, n - 1, ins, rem) /\ M = Append(N, x)
  OBVIOUS
<1>3. Len(N) = n - 1 /\ n \in Nat /\ n - 1 \in 1..n - 1 /\ Rooted(N, n - 1)
  BY <1>1, <1>2 DEF LogSeq
<1>4. N \in Seq(S \cup {x}) /\ x \in S \cup {x}
  BY <1>1
<1>5. /\ M \in Seq(S \cup {x}) /\ Len(M) = n /\ M[n] = x
      /\ \A m \in 1..n - 1 : M[m] = N[m]
  BY <1>2, <1>3, <1>4, AppendProperties
<1>6. NodeAdded(M, n, N, n - 1, ins, rem)
  <2>1. DOMAIN M = 1..n
    BY <1>5
  <2> QED  BY <1>2, <1>3, <1>5, <2>1 DEF NodeAdded
<1>7. P = CheckCompact(M)
  BY <1>2, <1>3 DEF Compacted
<1>8. PICK b : b = BaseOf(N, n - 1, ins, rem, View(M, n), Cardinality(View(M, n)))
  OBVIOUS
<1>9. /\ View(P, n) = View(M, n) /\ Rooted(P, n) /\ RemovedOn(P, n) \subseteq RemovedOn(M, n)
      /\ P = M \/ P = [M EXCEPT ![n] = b]
  BY <1>6, <1>7, <1>8, CompactionShowsTheSame
<1>10. (\E T : P \in Seq(T)) /\ Len(P) = n
  <2>1. CASE P = M
    BY <1>5, <2>1
  <2>2. CASE P = [M EXCEPT ![n] = b]
    <3>1. M \in Seq((S \cup {x}) \cup {b}) /\ b \in (S \cup {x}) \cup {b} /\ n \in 1..Len(M)
      BY <1>3, <1>5
    <3>2. P \in Seq((S \cup {x}) \cup {b}) /\ Len(P) = n
      BY <1>5, <2>2, <3>1, ExceptSeq
    <3> QED  BY <3>2
  <2> QED  BY <1>9, <2>1, <2>2
<1>11. LogSeq(P)
  BY <1>3, <1>9, <1>10 DEF LogSeq
<1>12. RemovedOn(M, n) = RemovedOn(N, n - 1) \cup IdsOf(rem)
  BY <1>6, RemovedOnNode
<1>13. View(M, n) = Without(View(N, n - 1), IdsOf(rem))
                      \cup Without(OccurrencesOf(ins, n), RemovedOn(N, n - 1) \cup IdsOf(rem))
  BY <1>6, ViewOfNode
<1>14. /\ Shows(P) = View(M, n) /\ Shows(N) = View(N, n - 1) /\ Drops(N) = RemovedOn(N, n - 1)
       /\ Drops(P) = RemovedOn(P, n)
  BY <1>3, <1>9, <1>10 DEF Shows, Drops
<1> QED  BY <1>2, <1>9, <1>11, <1>12, <1>13, <1>14

LInv == /\ LogSeq(logs) /\ Drops(logs) \subseteq removed
        /\ LogsKeepTheUntouched

\* The runner starts with a log of one version and nothing removed.
LEMMA LInvInit == Init => LInv
<1> SUFFICES ASSUME Init  PROVE LInv
  OBVIOUS
<1>1. PICK r, occ : /\ r = [parent |-> 0, depth |-> 0, inserts |-> {}, removes |-> {}, cached |-> TRUE,
                            base |-> occ, size |-> Cardinality(Base), log |-> 0]
                    /\ occ = OccurrencesOf(Base, 1)
  OBVIOUS
<1>2. logs = <<r>> /\ active = Base /\ removed = {}
  BY <1>1 DEF Init
<1>3. logs \in Seq({r}) /\ Len(logs) = 1 /\ logs[1] = r /\ r.cached /\ r.base = occ
  BY <1>1, <1>2
<1>4. Rooted(logs, 1)
  BY <1>3 DEF Rooted
<1>5. View(logs, 1) = occ /\ RemovedOn(logs, 1) = {}
  BY <1>3, <1>4, ViewOfBase
<1>6. LogSeq(logs) /\ Drops(logs) \subseteq removed
  BY <1>3, <1>4, <1>5 DEF LogSeq, Drops
<1>7. \A o \in occ : o = <<o[1], 1>> /\ o[1] \in Base
  BY <1>1 DEF OccurrencesOf
<1>8. \A x \in Base : <<x, 1>> \in occ
  BY <1>1 DEF OccurrencesOf
<1>9. LogView = Base
  BY <1>3, <1>5, <1>7, <1>8 DEF LogView
<1>10. \A o, p \in occ : o[1] = p[1] => o = p
  BY <1>7
<1> QED  BY <1>2, <1>3, <1>5, <1>6, <1>9, <1>10 DEF LInv, LogsKeepTheUntouched

\* An event, on the log: what is added is seen unless its id is filtered, and then what
\* is removed goes with everything that has its id.
LEMMA LInvStep ==
  ASSUME LInv, ActiveIsAMap, NEW E \in Events, Replay(E)
  PROVE  LInv'
<1>1. PICK adds, rems : adds = Adds(E) /\ rems = Rems(E)
  OBVIOUS
<1>2. /\ active' = {x \in active : x.id \notin Touched(E)} \cup adds
      /\ removed' = removed \cup IdsOf(rems)
      /\ LogCommit(adds, rems)
  BY <1>1 DEF Replay
<1>3. PICK N : N \in Compacted(logs, adds, {}) /\ logs' \in Compacted(N, {}, rems)
  BY <1>2 DEF LogCommit
<1>4. PICK L, P, k : L = logs /\ P = logs' /\ k = Len(logs) + 1
  OBVIOUS
<1>5. LogSeq(L) /\ Drops(L) \subseteq removed /\ LogsKeepTheUntouched
  BY <1>4 DEF LInv
<1>6. /\ LogSeq(N) /\ Drops(N) \subseteq Drops(L)
      /\ Shows(N) = Shows(L) \cup Without(OccurrencesOf(adds, k), Drops(L))
  <2>1. N \in Compacted(L, adds, {})
    BY <1>3, <1>4
  <2>2. /\ LogSeq(N) /\ Drops(N) \subseteq Drops(L) \cup IdsOf({})
        /\ Shows(N) = Without(Shows(L), IdsOf({}))
                        \cup Without(OccurrencesOf(adds, Len(L) + 1), Drops(L) \cup IdsOf({}))
    BY <1>5, <2>1, NodeOfTheLog
  <2>3. IdsOf({}) = {} /\ Without(Shows(L), {}) = Shows(L)
    BY DEF IdsOf, Without
  <2> QED  BY <1>4, <2>2, <2>3
<1>7. /\ LogSeq(P) /\ Drops(P) \subseteq Drops(N) \cup IdsOf(rems)
      /\ Shows(P) = Without(Shows(N), IdsOf(rems))
  <2>1. P \in Compacted(N, {}, rems)
    BY <1>3, <1>4
  <2>2. /\ LogSeq(P) /\ Drops(P) \subseteq Drops(N) \cup IdsOf(rems)
        /\ Shows(P) = Without(Shows(N), IdsOf(rems))
                        \cup Without(OccurrencesOf({}, Len(N) + 1), Drops(N) \cup IdsOf(rems))
    BY <1>6, <2>1, NodeOfTheLog
  <2>3. OccurrencesOf({}, Len(N) + 1) = {}
    BY DEF OccurrencesOf
  <2>4. \A ids : Without({}, ids) = {}
    BY DEF Without
  <2> QED  BY <2>2, <2>3, <2>4
<1>8. /\ \A o \in Shows(L) : o[1] \in active
      /\ \A o, p \in Shows(L) : o[1] = p[1] => o = p
      /\ \A x \in active : x.id \notin removed => \E o \in Shows(L) : o[1] = x
  BY <1>4, <1>5 DEF LogsKeepTheUntouched, LogView, Shows
<1>9. \A x \in active : x.id \in IdsOf(rems) <=> x.id \in Touched(E)
  <2>1. rems = {x \in active : x.id \in Touched(E)}
    BY <1>1, RemsAreTouched
  <2> QED  BY <2>1 DEF IdsOf
<1>10. \A x \in adds : x.id \in Touched(E)
  BY <1>1, AddsAreTouched DEF IdsOf
<1>11. \A o : o \in Shows(P) <=>
         /\ o[1].id \notin IdsOf(rems)
         /\ \/ o \in Shows(L)
            \/ \E x \in adds : o = <<x, k>> /\ x.id \notin Drops(L)
  BY <1>6, <1>7 DEF Without, OccurrencesOf
<1>12. \A o \in Shows(P) : o[1] \in active'
  BY <1>2, <1>8, <1>9, <1>11
<1>13. \A o, p \in Shows(P) : o[1] = p[1] => o = p
  BY <1>8, <1>9, <1>10, <1>11
<1>14. ASSUME NEW x \in active', x.id \notin removed'  PROVE \E o \in Shows(P) : o[1] = x
  <2>1. x.id \notin removed /\ x.id \notin IdsOf(rems) /\ x.id \notin Drops(L)
    BY <1>2, <1>5, <1>14
  <2>2. CASE x \in adds
    <3>1. <<x, k>>[1] = x
      OBVIOUS
    <3> QED  BY <1>11, <2>1, <2>2, <3>1
  <2>3. CASE x \in active
    BY <1>8, <1>11, <2>1, <2>3
  <2> QED  BY <1>2, <2>2, <2>3
<1>15. LogsKeepTheUntouched'
  <2>1. LogView' = {o[1] : o \in Shows(P)}
    BY <1>4 DEF LogView, Shows
  <2>2. View(logs, Len(logs))' = Shows(P)
    BY <1>4 DEF Shows
  <2>3. LogView' \subseteq active'
    BY <1>12, <2>1
  <2>4. {x \in active' : x.id \notin removed'} \subseteq LogView'
    BY <1>14, <2>1
  <2> QED  BY <1>13, <2>2, <2>3, <2>4 DEF LogsKeepTheUntouched
<1>16. Drops(P) \subseteq removed'
  BY <1>2, <1>5, <1>6, <1>7
<1> QED  BY <1>4, <1>7, <1>15, <1>16 DEF LInv

\* After any events the Rlog runner shows nothing stale, each point once, and every point
\* whose id was never removed, whatever the threshold and wherever the log was compacted.
THEOREM RlogKeepsTheUntouched == Spec => []LogsKeepTheUntouched
<1>1. Init => LInv
  BY LInvInit
<1>2. LInv /\ RInv /\ [Next]_vars => LInv'
  <2> SUFFICES ASSUME LInv, RInv, [Next]_vars  PROVE LInv'
    OBVIOUS
  <2>1. CASE UNCHANGED vars
    <3>1. logs' = logs /\ active' = active /\ removed' = removed
      BY <2>1 DEF vars
    <3> QED  BY <3>1 DEF LInv, LogsKeepTheUntouched, LogView
  <2>2. CASE Next
    <3>1. PICK E \in Events : Replay(E)
      BY <2>2 DEF Next
    <3> QED  BY <3>1, LInvStep DEF RInv
  <2> QED  BY <2>1, <2>2
<1>3. LInv => LogsKeepTheUntouched
  BY DEF LInv
<1> QED  BY <1>1, <1>2, <1>3, RInvHolds, PTL DEF Spec
=============================================================================
