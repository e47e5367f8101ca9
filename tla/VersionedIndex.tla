--------------------------- MODULE VersionedIndex ---------------------------
(***************************************************************************)
(* What the multi-version index promises its clients (mvq::Tree::commit,   *)
(* src/include/silva/index/mvq.hpp): every version handed out is a bag of  *)
(* points; a commit derives a new version from a base version, without     *)
(* disturbing any version that already exists; a client may let go of a    *)
(* version it no longer needs.                                             *)
(***************************************************************************)
EXTENDS Integers, Bags

CONSTANTS Writers,     \* the callers of commit
          Initial,     \* the bags the first version may be built from
          Batches,     \* the bags a caller may insert or delete at once
          MaxCommits,  \* bound on the number of commits of a behaviour
          None         \* "this writer has no commit under way"

VARIABLES content,     \* the versions held by the client: id -> bag of points
          req,         \* the commit each writer has under way, or None
          commits      \* number of commits begun so far, the source of ids

vars == <<content, req, commits>>

Request == [id : Nat, base : Nat, ins : Batches, del : Batches]

Init ==
  /\ \E B \in Initial : content = [v \in {0} |-> B]
  /\ req = [w \in Writers |-> None]
  /\ commits = 0

\* commit(old_version, P_insert, P_delete) is called.
Begin(w, v, ins, del) ==
  /\ req[w] = None
  /\ commits < MaxCommits
  /\ v \in DOMAIN content
  /\ commits' = commits + 1
  /\ req' = [req EXCEPT ![w] = [id |-> commits + 1, base |-> v,
                                ins |-> ins, del |-> del]]
  /\ UNCHANGED content

\* What the new version holds: the base, less the deleted points, plus the
\* inserted ones, in that order.
Derived(r) == (content[r.base] (-) r.del) (+) r.ins

\* The call returns and the client keeps the version it returned.
End(w) ==
  /\ req[w] # None
  /\ content' = [v \in DOMAIN content \cup {req[w].id} |->
                   IF v = req[w].id THEN Derived(req[w]) ELSE content[v]]
  /\ req' = [req EXCEPT ![w] = None]
  /\ UNCHANGED commits

\* The client lets go of a version no running commit was given as its base.
Release(v) ==
  /\ v \in DOMAIN content
  /\ \A w \in Writers : req[w] # None => req[w].base # v
  /\ content' = [u \in DOMAIN content \ {v} |-> content[u]]
  /\ UNCHANGED <<req, commits>>

Next ==
  \/ \E w \in Writers, v \in DOMAIN content, ins, del \in Batches :
       Begin(w, v, ins, del)
  \/ \E w \in Writers : End(w)
  \/ \E v \in DOMAIN content : Release(v)

Spec == Init /\ [][Next]_vars /\ \A w \in Writers : WF_vars(End(w))
=============================================================================
