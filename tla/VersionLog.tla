----------------------------- MODULE VersionLog -----------------------------
(***************************************************************************)
(* Versions as logs of changes: src/include/silva/baselines/rlog_tree.hpp. *)
(* pkdlog_tree.hpp differs in compaction, which PkdLog adds, and in the    *)
(* tree that indexes a base, which is left out of both.                    *)
(* A version is a node of VersionNodes.  Queries read the nearest base and *)
(* the deltas on the way to it; map_spatial_diff reads the deltas on the   *)
(* ways to the lowest common ancestor.                                     *)
(***************************************************************************)
EXTENDS VersionNodes, FiniteSetsExt

CONSTANTS Values,     \* the values that may ever be stored
          MaxNodes    \* bound on the number of versions

ASSUME LogAssumption ==
  /\ \A x \in Values : x = [id |-> x.id, at |-> x.at]
  /\ IsFiniteSet(Values) /\ MaxNodes \in Nat

VARIABLES nodes,    \* the VersionNodes in the order of their creation
          content   \* auxiliary: what each version should hold

vars == <<nodes, content>>

OneValuePerId(S) == \A x, y \in S : x.id = y.id => x = y

-----------------------------------------------------------------------------
(* Operations.                                                             *)

\* map_init
Init ==
  \E S \in SUBSET Values :
    /\ OneValuePerId(S)
    /\ nodes = <<[parent |-> 0, depth |-> 0, inserts |-> {}, removes |-> {}, cached |-> TRUE,
                  base |-> OccurrencesOf(S, 1), size |-> Cardinality(S), log |-> 0]>>
    /\ content = <<OccurrencesOf(S, 1)>>

\* The ids a version or one of its ancestors has ever held.
Used(v) == LET used[m \in 1..Len(nodes)] ==
                 {o[1].id : o \in content[m]}
                   \cup (IF nodes[m].parent = 0 THEN {} ELSE used[nodes[m].parent])
           IN  used[v]

\* map_insert.  Callers insert ids that are new to the version (the tests add a
\* bias to them), but two branches may use one id for two values.  BenchReplay shows
\* what comes of it when an id comes back on the same branch.
MapInsert(v, S) ==
  /\ Len(nodes) < MaxNodes
  /\ OneValuePerId(S) /\ IdsOf(S) \cap Used(v) = {}
  /\ nodes' = CheckCompact(Append(nodes, Node(nodes, v, S, {})))
  /\ content' = Append(content, content[v] \cup OccurrencesOf(S, Len(nodes) + 1))

\* map_delete.  Callers delete what the version holds.
MapDelete(v, S) ==
  /\ Len(nodes) < MaxNodes
  /\ S \subseteq {o[1] : o \in content[v]}
  /\ nodes' = CheckCompact(Append(nodes, Node(nodes, v, {}, S)))
  /\ content' = Append(content, Without(content[v], IdsOf(S)))

Next == \E v \in DOMAIN nodes, S \in SUBSET Values : MapInsert(v, S) \/ MapDelete(v, S)

Spec == Init /\ [][Next]_vars

-----------------------------------------------------------------------------
(* map_spatial_diff(v1, v2, q).                                            *)

\* The deeper pointer climbs first, then both climb until they meet.
Lca(v1, v2) ==
  LET lca[p \in (0..v1) \X (0..v2)] ==
        LET a == p[1]
            b == p[2]
        IN  IF a = 0 \/ b = 0 \/ a = b THEN a
            ELSE IF nodes[a].depth > nodes[b].depth THEN lca[<<nodes[a].parent, b>>]
            ELSE IF nodes[b].depth > nodes[a].depth THEN lca[<<a, nodes[b].parent>>]
            ELSE lca[<<nodes[a].parent, nodes[b].parent>>]
  IN  lca[<<v1, v2>>]

\* The nodes trace_branch visits; later nodes first.
Branch(leaf, stop) ==
  LET branch[m \in 0..leaf] == IF m = 0 \/ m = stop THEN {}
                               ELSE {m} \cup branch[nodes[m].parent]
  IN  branch[leaf]
Touching(branch, i) == {m \in branch : i \in IdsOf(nodes[m].inserts \cup nodes[m].removes)}

\* state[i] after trace_branch: 1 inserted, -1 removed, 0 both or neither.
State_LastOnly(branch, i) ==
  LET touching == Touching(branch, i)
  IN  IF touching = {} THEN 0
      ELSE IF i \in IdsOf(nodes[Max(touching)].inserts) THEN 1 ELSE -1
State(branch, i) ==
  LET touching == Touching(branch, i)
  IN  IF touching = {} THEN 0
      ELSE IF i \in IdsOf(nodes[Max(touching)].inserts) THEN 1
      ELSE IF \E m \in touching : i \in IdsOf(nodes[m].inserts) THEN 0
      ELSE -1

\* values[i]: what the oldest node that touches i says, in v2's branch if it does.
ValueOf(branch1, branch2, i) ==
  LET touching == IF Touching(branch2, i) # {} THEN Touching(branch2, i)
                  ELSE Touching(branch1, i)
      oldest == nodes[Min(touching)]
  IN  CHOOSE x \in oldest.inserts \cup oldest.removes : x.id = i

MapSpatialDiff(v1, v2, q) ==
  LET lca == Lca(v1, v2)
      branch1 == Branch(v1, lca)
      branch2 == Branch(v2, lca)
      net(i) == State(branch2, i) - State(branch1, i)
      touched == {i \in IdsOf(Values) : Touching(branch1 \cup branch2, i) # {}}
      values(ids) == {x \in {ValueOf(branch1, branch2, i) : i \in ids} : x.at \in q}
  IN  [add |-> values({i \in touched : net(i) > 0}),
       remove |-> values({i \in touched : net(i) < 0})]

-----------------------------------------------------------------------------
(* Properties.                                                             *)

\* Whatever was compacted on the way, a version shows exactly what the inserts and
\* deletes of its history leave, each value once.
ViewsAreExact == \A n \in DOMAIN nodes : View(nodes, n) = content[n]

\* The counters agree with the log: cumulative_log_size is the number of changes
\* since the cached base, current_base_size the size of that base, and a log that
\* reached p times the base does not outlive the call.
LogsAreBounded ==
  \A n \in DOMAIN nodes :
    LET changes == {m \in Path(nodes, n) \X Values :
                      m[2] \in nodes[m[1]].inserts \cup nodes[m[1]].removes}
    IN  /\ nodes[n].log = Cardinality(changes)
        /\ nodes[n].size = Cardinality(nodes[BaseNode(nodes, n)].base)
        /\ nodes[n].cached \/ nodes[n].log * Den < Num * nodes[n].size

\* Between any two versions, related or not, the spatial diff is the difference of
\* what they hold in the region, although it reads neither base.  Ids that the two
\* branches inserted with different values are told apart by nothing: of them the diff
\* knows whether they came or went, but may say it of the other branch's value.
SpatialDiffsAreExact ==
  \A v1, v2 \in DOMAIN nodes :
    LET held(v) == {o[1] : o \in content[v]}
        inserted(v) == UNION {nodes[m].inserts : m \in Branch(v, Lca(v1, v2))}
        clashes == {x.id : x \in {y \in inserted(v1) : \E z \in inserted(v2) :
                                                       z.id = y.id /\ z # y}}
        sure(S) == {x \in S : x.id \notin clashes}
    IN  /\ \A q \in SUBSET {x.at : x \in Values} :
             LET diff == MapSpatialDiff(v1, v2, q)
                 within(v) == {x \in held(v) : x.at \in q}
             IN  /\ sure(diff.add) = sure(within(v2) \ within(v1))
                 /\ sure(diff.remove) = sure(within(v1) \ within(v2))
        /\ LET diff == MapSpatialDiff(v1, v2, {x.at : x \in Values})
           IN  /\ IdsOf(diff.add) = IdsOf(held(v2)) \ IdsOf(held(v1))
               /\ IdsOf(diff.remove) = IdsOf(held(v1)) \ IdsOf(held(v2))
=============================================================================
