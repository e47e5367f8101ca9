--------------------------- MODULE PersistentMap ----------------------------
(***************************************************************************)
(* What the PaC-Z index promises its clients                               *)
(* (src/include/silva/index/pacz.hpp): a version is a map from keys to     *)
(* points; a commit makes a new version of a held one, first without the   *)
(* keys deleted, then with the points inserted in the place of those with  *)
(* the same key; no other version changes; a version may be let go of.     *)
(***************************************************************************)
EXTENDS Naturals

CONSTANTS Initial,     \* the sets of points the first version may be built from
          Batches,     \* the sets of points that are inserted or deleted at once
          MaxCommits   \* bound on the number of commits of a behaviour

VARIABLES content,     \* the versions held: number -> set of points, one for a key
          commits      \* number of commits so far

vars == <<content, commits>>

Init ==
  /\ \E P \in Initial : content = [v \in {0} |-> P]
  /\ commits = 0

Without(S, T) == {e \in S : \A f \in T : f.key # e.key}

Commit(v, ins, del) ==
  /\ commits < MaxCommits
  /\ commits' = commits + 1
  /\ content' = [u \in DOMAIN content \cup {commits'} |->
                   IF u = commits' THEN Without(Without(content[v], del), ins) \cup ins
                   ELSE content[u]]

Release(v) ==
  /\ content' = [u \in DOMAIN content \ {v} |-> content[u]]
  /\ UNCHANGED commits

Next == \E v \in DOMAIN content :
          \/ \E ins, del \in Batches : Commit(v, ins, del)
          \/ Release(v)

Spec == Init /\ [][Next]_vars
=============================================================================
