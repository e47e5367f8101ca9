# SILVA in TLA+

SILVA keeps many versions of a spatial index in main memory: a commit derives a
new version from an old one, versions share what they have in common, and any
version can be queried, compared with another, or merged. This directory holds
TLA+ models of its core and of the scheduler it runs on, the TLC runs that check
them, and machine-checked proofs about them. Paths below are relative to the
repository's `src/`.

## 1. The system

| Component | Where | State it keeps | Operations | Correct when | Status |
|---|---|---|---|---|---|
| MVQ tree, versions | `include/silva/index/mvq.hpp` | nodes owned by `shared_ptr`s, roots held by the client | `build`, `commit` (delete, insert, `gc_nocheck`), release of a root | a commit yields base − deleted + inserted; no other version changes; equal points, equal shape; commits return | modelled |
| MVQ tree, queries | same, and `geo/operations.hpp` | none (walk a version) | range count, range report, knn, diff, spatial diff, spatial join | answers equal those of a scan | modelled |
| MVQ tree, in-place updates and purge | same | one tree; two versions | `batch_insert_sorted`, `batch_delete_sorted`, `garbage_collect` | the tree holds and counts what it should; purging one version spares the other | modelled but for the three-argument purge |
| PaC-Z tree | `index/pacz.hpp` on `third_party/cpam` | a persistent map from (code, id) to point: a weight-balanced tree of blocks with reference counts | `map_init`, `map_commit`, `map_diff`, `map_spatial_diff`, range, knn | versions are maps, trees balanced, counts exact, answers equal to a scan's | modelled |
| Merge | `mvq.hpp:1231`, `pacz.hpp:229` | none | three-way merge | conflicts are exactly the ids both sides changed differently; the rest is merged | modelled |
| Sorted loops | `geo/operations.hpp` | none | `merge_pts`, `get_delete_p`, `filter_diff_results`, `merge_by_id_with_conflict`, `diff_by_id`, `split_by_bit` | they compute the sets they stand for | modelled |
| Log baselines | `baselines/rlog_tree.hpp`, `pkdlog_tree.hpp` | a tree of version nodes with deltas, some with a cached base | `map_init`, `map_insert`, `map_delete` (each with `check_compact`), queries, `map_spatial_diff` | compaction never shows (in Rlog); the log is bounded; diffs are exact | modelled but for knn |
| Benchmark engine, runners | `benchmarks/` | `active_nodes`, one index per runner | replay of add, move and delete events, queries | every runner answers from `active_nodes` | modelled |
| Fork-join runtime | `third_party/parlay/scheduler.h`, `internal/work_stealing_deque.h` | per thread a stack and a deque of jobs; `finished_flag`, `wake_up_counter` | `pardo`, `get_job`, `push_bottom`, `pop_bottom`, `pop_top`, sleeping, waking, shutdown | each half runs once, joins return, no job outlives its frame, all threads leave | modelled |
| Points, codes, boxes | `geo/` | none | Morton codes, box relations, distances | | in part, below the queries |
| Loading, configuration, `main` | `core/`, `geo/io.hpp`, `src/main.cpp` | globals set once | | | not modelled |
| `BRTree`; tests, scripts, third party | `pacz.hpp`; `tests/`, `third_party/`, `baselines/`, `archive/` | | | | not modelled |

How they interact. The clients (tests, runners) hold roots and pass them by
reference to `commit`, `merge` and the queries. `merge` calls the diff twice, sorts
the changes by id and calls `commit`. A commit of the MVQ tree calls, in turn, the
deletion, the insertion and `gc_nocheck`, each a recursion that forks at every inner
node through `par_do_if`, which is `pardo` of the fork-join runtime; the frames share
the nodes below the base with every other version. A commit of PaC-Z is a
`multi_delete` and a `multi_insert` on the CPAM map, which reuses in place every node
that nobody else refers to. `time_loop` and the engine call commits one after another,
so that the parallelism of the shipped programs is inside a commit; the functions
themselves take no lock and have no shared variable besides the nodes, and `MvqStore`
lets several callers commit at once.

What is hard. (a) The frames of a commit, and of several commits, interleave on
shared nodes, with in-place writes guarded only by who allocated a node or by a
`use_count` read a moment ago. (b) Trees keep the shape that `build` would give
them only if the thresholds of three recursive functions agree over any history,
and an unchecked cast relies on that. (c) Pruning is right only if boxes, prefixes
and Morton codes agree at every border. (d) Diffs skip shared nodes and compare
trees of different shape. (e) Merge distributes ids over six lists. (f) Logs are
compacted at some versions and not at their relatives. (g) CPAM passes references
that are owned or borrowed, and every early return has to settle them. (h) The
scheduler's deque is lock-free and its jobs are local variables of other threads'
frames; threads fall asleep while others wake them. PROJECT.json lists these
hazards line by line under "hazards".

## 2. Modules

| Module | Models | Lines of code it stands for |
|---|---|---|
| `VersionedIndex` | what any multi-version index promises: `content` (version id → bag), commits under way, `Begin`, `End`, `Release` | abstract |
| `MvqStore` | the heap of nodes, fork-join commit, reference counting | `mvq.hpp` 37–112, 290–450, 452–466, 569–596, 1002–1021, 1355–1487 |
| `MvqProperties` | type invariant, refinement mapping, shape, separation, the inductive invariant | |
| `MvqContents` | the inductive invariant of what the versions hold | |
| `MvqProofs` | theorems about `MvqStore` (TLAPS) | |
| `MvqInPlace` | updates in place of a single version, on the store of `MvqStore` | `mvq.hpp` 398–406, 527–567, 619–645 |
| `MvqPurge` | purge of one version against another, on the same store | `mvq.hpp` 49–76, 452–489 |
| `MvqQueries` | queries, diffs, join over the heap of `MvqStore`; `split_by_bit` | `mvq.hpp` 804–996, 1024–1332; `operations.hpp` 39–68, 292–311, 370–440 |
| `MvqQueryProofs` | theorems about `MvqQueries`, `MvqPurge` and `MvqInPlace` (TLAPS) | |
| `Geometry` | points, boxes, distances | `operations.hpp` 71–153 |
| `VersionMerge` | three-way merge over sets of points | `mvq.hpp` 1219–1251, `pacz.hpp` 218–254, `operations.hpp` 6–37, 652–694 |
| `SortedLoops` | the loops over sorted sequences, element by element | the same lines of `operations.hpp` |
| `VersionMergeProofs` | theorems about `VersionMerge` and `SortedLoops` (TLAPS) | |
| `VersionNodes` | version nodes and their deltas, the view of a version, compaction | `rlog_tree.hpp` 57–192 |
| `VersionNodesProofs` | lemmas about a node more in the sequence (TLAPS) | |
| `VersionLog` | histories of insertions and deletions on `VersionNodes`, diff over the common ancestor | `rlog_tree.hpp` 104–192, 240–293 |
| `PkdLog` | the same histories on PKDLog, with its own compaction | `pkdlog_tree.hpp` 67–194 |
| `VersionLogProofs` | theorems about `VersionLog` and `PkdLog` (TLAPS) | |
| `BenchReplay` | the engine and the runners, over `VersionNodes` | `benchmark_engine.hpp` 21–81, `benchmarks/runners/` |
| `BenchReplayProofs` | theorems about `BenchReplay` (TLAPS) | |
| `PersistentMap` | what PaC-Z promises: versions are maps | abstract |
| `PacTree` | nodes, blocks, reference counts, joins | `third_party/cpam`: `balance_utils.h`, `basic_node_helpers.h`, `gc.h`, `sequence_ops.h`, parts of the node classes |
| `PacMap` | the operations of `pacz.hpp` and the map operations they are made of | `pacz.hpp` 47–226; `map_ops.h`, `augmented_ops.h` |
| `PacVersions` | versions of a PaC-Z index, commits, releases, queries | `pacz.hpp` 218–226, `map.h` 113–122, `augmented_map.h` 53–74 |
| `TaskTree` | what nested `pardo`s promise | abstract |
| `ForkJoin` | the scheduler | `scheduler.h` 74–326, `work_stealing_job.h` |
| `ForkJoinProofs` | theorems about `ForkJoin` (TLAPS) | |
| `WorkDeque` | what a work-stealing deque promises | abstract |
| `StealDeque` | the deque, word by word | `work_stealing_deque.h` |
| `StealDequeProofs` | theorems about `StealDeque` (TLAPS) | |
| `MC…` | small constants for TLC | |

### MvqStore

`heap` maps addresses to nodes: a leaf with its bag of records, or an inner node
with two sons and `num_pts`. An address names the commit, the statement and the
path that allocated it, so that two allocations never coincide; addresses are not
reused. `versions` are the `shared_ptr`s of the client. `job[w]` holds the locals of
the commit that caller w runs: phase, base, batches, `tmp_ver`, `new_ver`. A recursive
call is a *frame*, named by the path of the region it works on (the code's `b` is
`Bits` minus its length); `pc[w][p]` says where the frame is, `slot[w][p]` is its
variable x.

| Action | Code |
|---|---|
| `Begin` | a caller enters `commit` |
| `DeleteCall` | `node_copy`, then the deletion down to its fork (leaf cases return at once) |
| `DeleteJoin` | the rest of the deletion when both halves are back: keep, drop, promote or merge |
| `StartInsert` | `tmp_ver = …`, call of the insertion |
| `InsertCall`, `InsertJoin` | `node_copy` and the insertion; `delete_merge_nodes` |
| `StartGc`, `GcCall`, `GcJoin` | `new_ver = …`, then `gc_nocheck(tmp_ver)`: test, descent, `x.reset()` |
| `Finish` | `commit` returns and the client stores the root |
| `Release` | the client resets a root; not one that a running commit was given by reference |
| `Reclaim` | destructors of nodes whose last reference is gone; nothing else happens until they are done |

What is abstracted. A sorted batch is the bag of its points and `split_by_bit` the part
of it in a half (the sortedness is `get_sorted_points`'s; the search is in `MvqQueries`).
`par_do_if` forks in the model whatever the batch size: a sequential run is one of the
interleavings. A step reads and writes one frame's nodes only; `use_count() == 1` and the
branch on it are one step, since no other thread can obtain a reference to a node that
has just one owner. The statements of lines 1475–1477 use a node that may have been freed
two lines before; in this build (jemalloc, node sizes of different classes) nothing lives
there yet and nothing is seen of it, and the model leaves them without effect in that case.
`static_cast<LeafNode*>` of an inner node would read arbitrary records (`RecordsRead`).
Counters of memory use are left out.

### MvqInPlace and MvqPurge

`garbage_collect`, `batch_insert_sorted` and `batch_delete_sorted` write nodes in place and
run while no commit does, so each is an operator on a store, and TLC applies them to every store
that the commits of `MvqStore` make (`PurgeSparesTheOther`, `InPlaceUpdatesAreExact`) instead of
making them actions: a store they have changed is not committed to in the repository.

A batch update is called for a node and a region and leaves what its `shared_ptr&` refers to
then and the nodes it wrote or allocated (`Left`). A purge writes no node but resets
`shared_ptr`s; these are *cells*, a root or a son of a node, and its state is the set of those it has reset.
Nodes are gone when no root leads to them.

The two-argument `garbage_collect(base, x)` promises what `PurgeSparesTheOther` says when the
client holds these two versions only: above the cutoff it resets sons of x's nodes without
asking who else refers to them, so that a third version that shares them would be damaged.
The three-argument one is declared `(base, new_ver, x)` (mvq.hpp:492) and calls itself with
`(base->son, x->son, new_ver->son)`, exchanging the version to dismantle with one to keep;
it is left out. Nothing in the repository calls either.

### MvqQueries and Geometry

The recursive readers as recursive functions over `heap`, with the region's box, prefixes and
splitter carried along as in the code: a walk is a function of what its calls are given, so that
its domain is the nodes with the regions (`Regions`, `Routes`). Coordinates are integers; a
finest cell is `CellWidth` wide and `Eps` stands for `FT_EPS`, so that points inside a cell, on a
border and just below one are told apart. A priority queue of k pairs is the set of its k best
points: which of two equal points the code keeps is not told, so that `KnnIsExact` speaks of versions
in which every id occurs once. Joins are compared as sets of pairs. Output buffers are bags, without
their capacities. `split_by_bit` scans up to `ScanLength` points (16 in the code) and bisects
longer ranges. Queries may run at any moment: the properties are about every state, those in the
middle of a commit included.

`QueryAssumption` says what queries take for granted: points lie in the box of the world, coordinates
fit the unsigned numbers that codes are made of, no point lies less than epsilon below the border of
a cell, and code and id together tell points apart.

### VersionMerge and SortedLoops

A version is a set of points [id, code, at]; two points with equal id and code have
one key, wherever they lie in the cell: the indexes and diffs compare keys,
`Point::operator==` compares places, and merge uses both. `DoCommit` is a commit
that leaves one point per id, which is how the engine and the tests call it; `DoMerge` takes
any three versions, related or not. `SortedLoops` has the loops themselves: `Walk` is the
advance through two sorted sequences and the copy of what is left, which all five share. It is a
recursive function of the two positions, and gives what a loop keeps as sets: the loops push points in
the order in which they meet them, and no point is in a sequence twice.

### VersionNodes, VersionLog, PkdLog

A version node has a parent, a depth, inserted and removed values, maybe a cached base,
and the two counters `check_compact` compares (p = Num/Den). `View` is `get_query_view`
together with the filter that each query applies; `MapSpatialDiff` is the walk from both
versions to their lowest common ancestor. Values inserted have ids that are new on the
path (the tests add a bias for that), although two branches may use one id for two values;
values deleted are present; an auxiliary variable `content` records what each version should hold. Occurrences carry the node
that inserted them, so that a value reported twice would be noticed.

`PkdLog` runs every operation on a second sequence of nodes, `pkdNodes`. `PKDLog::check_compact`
copies the pending insertions into the new base and leaves the places of the surviving base
points uninitialized (pkdlog_tree.hpp:143–151). A node's `base` has the points that were
written; how many of the others pass the filter of the next compaction depends on ids nobody
wrote, so that the size of the next base is a choice. What a kd-tree built over arbitrary
coordinates answers is left open: `PkdLogsKeepTheRecent` speaks of the points that were written. The
function `map_spatial_diff` is the same in both headers; `Pkd`, an instance of `VersionLog` over
`pkdNodes`, is PKDLog's.

### BenchReplay

`active` is `active_nodes`; an event gives each id at most one operation; `Adds` and `Rems` are what it passes to the runners. `mvq` and `pacz`
are the points the runners' `master` holds, `mvqRoot` those of the version `tree->root`,
`logs` the version nodes of `RlogRunner`, which are those of `VersionNodes`, here with ids
inserted again after their removal. `PKDLogRunner` makes the same two calls and loses what
`PkdLog` says besides. `stayed` and `removed` are history variables. The
code's compaction threshold 0.2 would compact at nearly every event of so small a history,
so that the instance takes 3 and logs of different length occur.

### PacTree, PacMap, PacVersions

A node has a count of references, its size, its augmented value (box and number) and either
a block of entries or one entry and two sons. A sequential model is enough: the root of every
version is held by its client, so an operation copies whatever is shared, either because a
count above 1 says so or because a `ptr` on the way down carries the mark `extra`; the halves
that run in parallel own disjoint trees and meet only in the atomic counts of nodes they
borrow. (A version that is cleared while it is read is excluded by a comment at
`third_party/cpam/map.h:114`.) `GC::ptr` is the record [t, extra]; what expose returns is
the record x = [h, l, e, r, root] that an operator `…Around(x, …)` continues with. Parallel
halves are done left, then right; as each changes its own nodes, counts and contents do not
depend on the order, only the names of new nodes. `stack[7 * B]` in `make_compressed` is
cut off where the array ends, so that an overflow would lose points. Batches have unique
keys (the code sorts and drops duplicates) and k is at least 1. The queries take a map by
value and its root out of the copy, which nobody releases: `asked` counts these references.

### StealDeque and ForkJoin

One step of `StealDeque` is one access to `bot`, `age` or a slot that another thread may
write meanwhile; the owner's reads of what only it writes go with the next step. The memory
orders give sequential consistency on x86. `tag` is unbounded; in the code it has 32 bits,
and a thief would have to sleep through 2^32 resets. `WorkDeque` is a queue whose pushes and
pops are single steps.

In `ForkJoin` these operations take effect at once. A stack is a sequence of frames
[task, pc]; a job is the path of a right half and its flag is in `done`. A thief learns from
`pop_top` whether the deque may hold more and wakes somebody if so; since the value was read
earlier, the model takes either (`empty`). Waiting on `wake_up_counter` is what `std::atomic`
promises: to return when the value is not the one read, and to wake at least one waiter, or
all. `STEAL_TIMEOUT` may expire at any failed attempt. Assertions are off in this build
(`-DNDEBUG`); `DequesMatchStacks` implies the one in `pardo`. `parfor` is nested `pardo`s.

## 3. Runs

| Run (cfg) | Checks | Instance | Distinct states |
|---|---|---|---|
| `mvq_two_writers` (MvqTwoWriters) | TypeOK, Separation, IInv, CInv, SharedNodesAreImmutable, ImplementsIndex | two callers, two commits, 3 points, depth 2, leaf size 1, 3 batches, fair | 79 520 |
| `mvq_one_commit` (MvqOneCommit) | VersionsAreAsBuilt, ImplementsIndexSafely, PurgeSparesTheOther, InPlaceUpdatesAreExact | one commit from every subset of 4 points with all 16 × 16 batches, leaf size 2; on each store, purges with cutoff 2 and all 16 × 16 updates in place | 40 504 |
| `mvq_history` (MvqHistory) | MergedSonsAreLeaves, DiffsAreExact, SpatialDiffsAreExact, JoinsAreExact | two commits in a row or from one base, 5 batches that crowd, empty and refill a finest cell; all pairs of versions, 13 boxes, joins at distances 2 and 3, Eps 1 of a cell of 2 | 198 664 |
| `mvq_queries` (MvqQueries) | SplitsAreExact, RangeQueriesAreExact, KnnIsExact | the tree of every subset of a nine-point grid, 225 boxes, 5 centres, k up to 3, leaf size 2, Eps 1 of a cell of 2 | 1 581 |
| `merge_three_way` (MergeThreeWay) | VersionsKeepIdsApart, ConflictsAreTheClashes, MergeKeepsInsertsAndDeletes, MergeIsSymmetric, LoopsComputeTheSets | 2 ids, each at 3 places (two in one cell), merges of any three of the versions made | 217 120 |
| `merge_updates` (MergeUpdates) | UpdatesAreMerged: **violated** | same | |
| `log_versions` (LogVersions) | ViewsAreExact, LogsAreBounded, SpatialDiffsAreExact, PkdLogsKeepTheRecent, PkdDiffsAreExact | 3 ids, one of them at either of 2 places, all trees of 4 versions, p = 1 (the default of the code) | 18 837 |
| `bench_replay` (BenchReplay) | MvqHoldsActive, PaczLosesWhatStayed, LogsKeepTheUntouched | 3 ids, 3 places (two in one cell), 3 events, threshold 3 | 1 214 520 |
| `bench_answers` (BenchAnswers) | SomeAnswerIsAboutActive: **violated** | same, `largest_mbr` unset | |
| `steal_deque` (StealDeque) | IInv, ImplementsWorkDeque | two thieves (symmetric), 4 slots, 4 pushes | 861 861 |
| `fork_join` (ForkJoin) | DequesMatchStacks, NoDanglingJobs, ImplementsTaskTree, AllWorkersLeave | 3 threads, 5 `pardo`s nested two and three deep, one conservative; deadlock checked | 208 346 |
| `pacz_tree` (PacVersions) | CountsAreExact, TreesStayBalanced, AnswersAreExact, ImplementsMap | B = 2, up to 22 points, 5 batches, 2 commits, 1 unreleased query, 2 boxes, 2 centres, k of 1 and 3 | 27 344 |

Why the bounds are enough to be interesting. Two commits are what interference
takes, and with 3 points in depth 2 they share an inner node, a leaf and a leaf's
sibling. Depth 2 with four points, two of them in one finest cell, reaches each
branch of deletion and insertion: a leaf emptied, an only son kept, promoted, two
leaves merged, a leaf split, a leaf over-full at depth 0, an inner node kept. The
nine-point grid has points on both sides of the middle, a shared cell, corners, and
two points equally far from a centre. Two ids at three places give all ways in which
two sides can treat an id, moves within a cell included, and a second id for
interplay. Four versions give a chain with a compaction in the middle,
siblings on both sides of a compacted node, branches of different depth, siblings that
insert one id at two places, and a compaction of a base with unset points. Three
events are an addition, a move and a deletion of one id, or a deletion and two
additions, while others are compacted. Four pushes into four slots let a thief that
has read `age`, `bot` and a slot sleep while the deque is emptied, reset and refilled by
others. Three threads let a thief be stolen from while it waits for what was stolen
from it. Twenty-two points in blocks of two to four are trees three blocks deep, above the
`kBaseCaseSize` of 18 below which CPAM works on arrays, so that the recursions run and
rotations, double rotations, splits of blocks and copies occur; not reached with so few
are compressions in the middle of a join of two balanced trees and those of `node_join` for
two leaves that could not be rotated. `B` is 40 in the code; the thresholds are
computed from it as the code does.

Every property is known to fail when a plausible mistake is made in one definition; the
mistakes are kept beside the definitions (`ForkSlots_InPlace`, `Keeps_OffByOne`, …) and
listed in PROJECT.json.

All runs but `fork_join` set `CHECK_DEADLOCK FALSE`: when the bounded number of commits,
versions, events or pushes is used up and the client has released what it wants, the
system rests. The scheduler may not rest before all its threads have left, and that is
checked.

### What the runs show

*Persistence.* `ImplementsIndexSafely` says that `MvqStore` implements `VersionedIndex`
under the mapping "the points below a root": all frames together are one atomic
`End`, and nothing else changes what any version holds. `SharedNodesAreImmutable`
and `Separation` say why: a commit writes only nodes it allocated, or found
referenced by nothing but its own `tmp_ver`. `ImplementsIndex` adds that each commit does end.

*Shape.* `VersionsAreAsBuilt`: history does not show in a version's shape. From it
follow the counts (`num_pts`), the regions, and the unchecked casts (`MergedSonsAreLeaves`).
Updates in place keep contents and counts exact too, but deletions among them leave empty
leaves: only a tree that was inserted into is the one `build` makes.

*Queries.* All answers equal a scan's. Joins and diffs are of every pair of
versions that two commits leave, of different shapes and sharing nodes. With Eps = 1 the boxes of neighbouring halves
leave a gap between integer coordinates, so a query box that ends at a border is decided by
the smaller epsilon side; points nearer than epsilon to a border from below are outside the
box of their own region and are not in the instance (see hazards).

*Merge.* What merge reports as conflicts is exactly right, symmetric, and ids are never
duplicated. But an update that is not in conflict is lost: `merge` computes
`no_conflict_update` (mvq.hpp:1240, pacz.hpp:239) and never commits it. The header says
"merge, works like git merge, return a conflict set" (mvq.hpp:243), and the run
`merge_updates` shows the disagreement: version 1 has a point, version 2 moves it,
merging 2 and 1 over 1 gives the old place and three empty conflict sets. The
comment at mvq.hpp:1230, "current return conflict only", may mean that this is known.

*Logs.* In Rlog compaction is invisible, and bounded: after every call the uncompacted changes
number less than p times the nearest base. Spatial diffs are exact for all ids but those that the
two branches inserted with different values; of these the ids are right and the places may be the
other branch's (rlog_tree.hpp:263 keeps one value per id). In PKDLog a compaction loses what
survives of its base: a version shows the insertions since the base before its own, less what was
deleted, and unset points (`PkdLogsKeepTheRecent`). That is listed as a finding. Its spatial diffs are
as exact as those of Rlog (`PkdDiffsAreExact`): they are made from what each node inserted and removed, which
a compaction leaves alone, and from no base.

*Benchmark.* The MVQ runner's `master` follows `active_nodes` exactly. The others do not, and
what they show instead is stated and checked: the PaC-Z runner inserts before it deletes and
loses just the points last moved within their finest cell (`PaczLosesWhatStayed`); the Rlog
runner shows nothing stale but loses moved and re-added points until a compaction
(`LogsKeepTheUntouched`). `bench_answers` shows a history after which no kind of answer comes from
`active_nodes`: PaC-Z's order, the logs' filter by id, MVQ's `knn_query`, which asks
`tree->root` instead of `master`, and MVQ's `range_query` when `largest_mbr` was never set, as in
`verify_bench.cpp`.

*PaC-Z.* Whatever versions share, a commit makes the map asked for and changes no other
(`ImplementsMap`); every version stays balanced by weight, in order, in blocks of the right
size with the right augmented values; diffs leave every count as it was. Counts are exact only
when each query ever made counts as a reference (`CountsAreExact`): `range_count_filter2`,
`range_report_filter2` and `knn_filter` leak one reference per call, so that a version that was
asked once is never freed. That is listed as a finding.

*Fork-join.* The deque is linearizable (`ImplementsWorkDeque`): a `compare_exchange` that succeeds
takes the oldest job at that moment, whatever has happened since the reads. `pardo` keeps
`TaskTree`'s promise under any interleaving of stealing, waiting and sleeping, no pointer to a
`right_job` outlives its frame (`NoDanglingJobs`), `pop_bottom` in `pardo` returns `right_job` or nothing
and a waiting join's own deque is empty (`DequesMatchStacks`), and shutdown reaches also the worker
that tested `finished_flag` and was about to sleep (`AllWorkersLeave`).

### Fairness

`FairSpec` of `ForkJoin` assumes that the operating system runs every thread that can run: weak
fairness of each worker's steps, with no assumption that a steal ever succeeds. From it
TLC finds that every task ends (`ImplementsTaskTree` includes `TaskTree`'s own fairness): a half
that nobody steals is run by its parent at the join.

That is what `FairSpec` of `MvqStore` assumes: a caller whose commit can go on eventually does,
and destructors run. No frame waits for anything but its own halves. Destructors run inside
the statement that drops the last reference. No fairness is assumed of clients: nobody need
begin a commit or release a version.

## 4. Proofs

All theorems hold for every value of the constants that satisfies the `ASSUME` of the module.

`MvqProofs`, part one (any callers, depth, leaf size, batches, number of commits):

- `IInvHolds`: `Spec => []IInv`
- `TypeCorrectness`: `Spec => []TypeOK`
- `CommitsAreSeparate`: `Spec => []Separation`
- `SharedNodesStay`: `Spec => SharedNodesAreImmutable`

The argument. `Separation` is not inductive. That a frame's copy is referenced by
nobody else follows from the copy being new (`JobsDiffer`: no node carries the number of
a commit before that commit has begun; `CopiesInPlace`, `Depths`: of the nodes one
commit allocates, each address is allocated once) and from the writers storing only their own
nodes and those below their base. For `gc_nocheck`, the nodes it dismantles were allocated by the
same or an earlier commit; what makes them private is the chain of single references from
`tmp_ver` (`GcFramesNest`: every waiting frame hangs on the one above, in different nodes),
and a node with one reference cannot be reached from a version, since that
would take a second one. `NoDanglingReference` and `FramesWork` say that all nodes
spoken of exist. `IInv` is the conjunction; it is checked by TLC in `mvq_two_writers` and
proved inductive action by action: one lemma per action, one step per conjunct. An
action property follows from `IInv` and the case analysis of `Next`.

`MvqProofs`, part two (the same constants; `Points` is finite):

- `CommitsImplementTheIndex`: `Spec => ImplementsIndexSafely`
- `VersionsAlwaysAsBuilt`: `Spec => []VersionsAreAsBuilt`
- `MergedSonsAlwaysLeaves`: `Spec => []MergedSonsAreLeaves`
- `CInvHolds`: `Spec => [](IInv /\ CInv)`

The argument. `IInv` says who may write which node, `CInv` (module `MvqContents`) what lies below it. A
node is *settled* when something refers to it and it is neither the copy of a frame that waits for its
halves nor a node that `gc_nocheck` is taking apart. Whatever is below a settled node is settled and in
order (`NodesFit`): an inner node hangs at its own path, has more than `leaf_size` points and counts
them in `num_pts`; a leaf hangs at its path or, after a promotion, higher, holds points of that region
and is not empty. A frame that has been called holds its region's part of the commit's input, one that has
returned that of the output (`FrameFits`), where the deletion works from the base to base − del and the
insertion from there to base − del + ins. `FramesNest`, `BothCalled`, `Allocated`, `CopiesAlone` and
`DyingAlone` are what keeps these facts from being disturbed by other frames.

That other steps disturb nothing is said once. `Moves(N)` is what all steps have in common: they add the
nodes N, change only copies and dying nodes, and refer to what was settled, to N, or as before. After a
move each settled node that is still held has the same points below it and is in order (`FitsThen`,
`NodesThen`). Each action then shows that it is a move and that its own frame's node is right; the
bag algebra this takes (parts, unions, differences and their sizes) is proved from the definitions of
`Bags`. Walks down the heap, which `Contents` and `Shape` are, exist and agree on what two heaps share by
induction over the height of a node (`SmallestElement`).

When the frame at the root returns it holds the whole output. So `Finish` is `End` of
`VersionedIndex`, every other step of a commit a stutter, and with `Fits` at the root a version is, node by
node from the leaves up, what `build` makes of its points. A merge finds leaves because an inner node
has more points than the leaf that is to replace it could hold.

`MvqQueryProofs`, on `MvqProofs` (also any grid, epsilon, boxes, centres, numbers of neighbours, distances
and scan length that satisfy `QueryAssumption`; any granularity cutoff):

- `RangeQueriesAlwaysExact`: `Spec => []RangeQueriesAreExact`
- `KnnAlwaysExact`: `Spec => []KnnIsExact`
- `JoinsAlwaysExact`: `Spec => []JoinsAreExact`
- `DiffsAlwaysExact`: `Spec => []DiffsAreExact`
- `SpatialDiffsAlwaysExact`: `Spec => []SpatialDiffsAreExact`
- `SplitsAlwaysExact`: `Spec => []SplitsAreExact`
- `PurgeAlwaysSpares`: `Spec => []PurgeSparesTheOther`
- `InPlaceUpdatesAlwaysExact`: `Spec => []InPlaceUpdatesAreExact`

The argument. A query reads a version, of which `CInv` says what lies below each node, in every state; so
each theorem follows from `IInv /\ CInv` alone. First, the walks exist: a definition by recursion on a
rank has a value (`RecursionEnds`, for values in a set and any rank in the natural numbers), and the
rank of a node is its height, which falls from father to son (`SonsAreLower`). That gives each query its
equation (`ReportUnfolds`, `DiffUnfolds`, `KnnUnfolds`, …).

Second, the region a walk carries is right (`RegionAt`): the points whose codes begin with the path lie in
the box and in one stretch of the prefix's grid in x and in y. The world is such a region
(`WholeIsRegion`) and `compute_cur_box` leads from one to its halves (`HalfIsRegion`). This is where codes
and coordinates meet: bit b of a code is the parity of a coordinate in units of `Side[b]`, which tells
the half of a stretch two sides long (`BitTellsHalf`), and what is below a border is at least epsilon
below it (`BelowBorder`). The proof needs the assumption on points just below a border there and
nowhere else.

Third, one induction per query, over the length of the path (`PathInduction`) or the heights of two nodes. What
is pruned holds nothing (`RelationTells`, `FarBoxes`, `NothingNearer`); what is shared differs in
nothing (`MergesAtEnds`); the rest is the sum of the halves (`DifferenceOfHalves`, `RestrictedSum`). A
diff of an inner node with a leaf goes on with the leaf's records, cut at every level (`LeafDiffIsExact`).
In `knn_report` the second half is entered with what the first has found, so that the induction is
over any such set: keeping the k nearest of the k nearest of some points and of others is
keeping the k nearest of both (`NearestInTurn`). For `split_by_bit`, codes and ids are a
strict total order (`BeforeIsOrder`), the number of points before a point is its place
(`SortedPoints`, because an injection between finite sets of equal size is onto), and in a
region the left half's points come first (`LeftHalfFirst`).

The purge walks a version v against b, which must keep its cells (`OwnCells`). The cell where v's
walk is either leads to the node b has at that place, where it stops, or is not b's (`Strange`):
a node fits one place of a version only (`TreeFits`), an inner one by its path and a leaf by its points, of
which it has one at least; and below a strange cell there is b's node of the same place or another
strange cell (`StrangeBelow`). `gc_nocheck` goes on only where the count is one, so never from a strange
cell into a node that b reaches as well (`GcSpares`). So no cell of b's is reset (`CollectSpares`), b's tree is
what it was (`TreeStays`), and since the root of v is reset, or was b's, nothing else is alive.

The updates in place make stores that no commit makes: a deletion leaves empty leaves, and inner nodes with
few points. So their proof has an invariant of its own, on any heap (`Ordered`): each node of the tree hangs
at one place, leaves hold points of their region, and inner nodes hang where they were made for and count
what lies below. A tree marked "built" also has no leaf too full or empty and no inner node that could be a
leaf, which is what makes it the tree of `build` (`InPlaceIsAsBuilt`). A version is such a tree: no node
hangs at two places of it (`OnePlace`), since two leaves with a point in common would lie on one path
and below a leaf there is nothing. Both updates are one walk (`WalkYields`, by `PathInduction`) and differ in what
the calls leave that do not fork (`InsertYields`, `DeleteYields`). The two halves write nodes below different
places, so either leaves the other's tree alone, and the counts that `delete_merge_nodes` adds up are right
(`RecountYields`). A deletion followed by an insertion composes the two on the heap between them.

`StealDequeProofs` (any number of thieves, slots and pushes):

- `IInvHolds`, `TypeCorrectness`: `Spec => []IInv`, `Spec => []TypeOK`
- `DequeIsLinearizable`: `Spec => ImplementsWorkDeque`

The argument. The jobs in the deque are the slots from `top` up to `End`. `IInv` says, of a thief
between its reads, that if `age` is what it has read, the deque is not empty and the job the thief
read is the one at `top` (`ThievesAreRight`): the tag grows with every reset and `top` with every steal
(`AgesGrow`), so an equal pair means that nothing has been taken. What the owner may find at each
point of `pop_bottom` is `OwnerIsOnTheWay`. Then a successful `compare_exchange` takes the head of
the queue, and each other step is a stutter, a push or the owner's pop: the refinement is proved
step by step from `IInv`.

`VersionMergeProofs` (any points, any number of versions and history):

- `IdsStayApart`: `Spec => []VersionsKeepIdsApart`
- `MergeSymmetry`: `Spec => []MergeIsSymmetric`
- `ConflictsAreExact`: `Spec => []ConflictsAreTheClashes`
- `MergeIsFaithful`: `Spec => []MergeKeepsInsertsAndDeletes`
- `LoopsAreExact`: `Spec => []LoopsComputeTheSets` (finitely many points, whose ids and codes are integers)

The argument. A committed version lies within base and insertions; what survives
`filter_diff_results` as an insertion has an id the base does not have; what is not in conflict
has one point per id: that makes the first theorem. With one point per id, membership in each of
the three lists of `filter_diff_results` says just what a side did with an id (`InsertList`,
`DeleteList`, `UpdateList`, in terms of `Has`, `Moved` and `Differ`), and so do the conflict sets
(`ConflictIds`) and what the merged version has (`MergedHaving`); the theorems compare these with
the definition of a clash, case by case of what the two sides did. The invariant `MInv` adds that the
versions last merged are still there.

For the loops, each comparison is a total order (`CompareIsOrder`), which tells the points of a version,
and of a list of changes, apart. Sorting puts a point where the number of points before it says
(`SortedIs`: that number is an injection, hence a bijection, onto 0..n - 1). One round takes the first of one or of both remainders, and
what it takes has no partner in the other (`HeadsMeet`); so what the walk finds from two positions on is
what is alone in either remainder and the pairs of both (`WalkIs`, by the smallest remainders for which it
might not be). The five loops then keep the sets of `VersionMerge`.

`BenchReplayProofs` (any ids, places and events, any threshold):

- `MvqFollows`: `Spec => []MvqHoldsActive`
- `PaczLoses`: `Spec => []PaczLosesWhatStayed`
- `RlogKeepsTheUntouched`: `Spec => []LogsKeepTheUntouched`

The inductive invariant `RInv` joins the first two with `ActiveIsAMap`: an id has one place. Hence a
deletion by key takes what the event touches and nothing else (`KeysTellIds`). The log needs one
fact more (`LInv`): the ids its filter drops are among those ever removed. What a node more shows,
compacted or not, is the parent's view less the removed ids plus what was inserted and is not
filtered (`NodeOfTheLog`, from `VersionNodesProofs`).

`VersionLogProofs`, on `VersionNodesProofs` (any values, any threshold, trees of
any number of versions):

- `RlogViewsAreExact`: `Spec => []ViewsAreExact`
- `RlogLogsAreBounded`: `Spec => []LogsAreBounded`
- `SpatialDiffsExact`: `Spec => []SpatialDiffsAreExact`
- `PkdDiffsExact`: `PkdSpec => []PkdDiffsAreExact`
- `PkdLogKeepsTheRecent`: `PkdSpec => []PkdLogsKeepTheRecent`

The argument. `Path`, `BaseNode` and `Used` walk a chain of parents. That these recursive functions
exist, and do not change when the sequence of nodes grows, is proved by induction over the number of
a node: `SmallestElement` finds the first node at which the claim fails, and the node's parent, which is
older, refutes it. A view is then told by that of the parent (`ViewOfNode`), and `CheckCompact`
leaves it as it is (`CompactionShowsTheSame`). What a walk filters are ids that the version's history has
used (`RemovedWereUsed`), which is why a fresh id is never lost; occurrences are not younger than their
version (`Dated`). `IInv` joins these with `ViewsAreExact` and the two counters. In PKDLog a version shows
what its history holds of the nodes after `LastKept`, and the invariant `PkdInv` says so of the bases too.

`map_spatial_diff` reads no base, only what the nodes between two versions say. `DInv` adds to `IInv` that
they tell it rightly (`Histories`): depth counts the steps to the root, a version holds what the
parent held less the node's deletions plus its insertions, and inserted ids are new to the history. `Line(v)`
is `v` with its ancestors, the least set closed under parents. Both pointers of the climb stay at or
below the youngest common element of the lines they started on (`CommonStep`, by depth and by the
number of a node), so `Lca` is in both lines (`LcaIs`) and each branch is the difference of two lines (`BranchIs`).
On a branch an id is untouched, or came, or went, or came and went, once each
(`EveryIdLives`); so `state[i]` is what became of it (`StateTells`) and the oldest node that touches
it names the value it started or came with (`FirstTells`). A value held by the common ancestor is
therefore the same on both branches (`ValuesStay`), and only ids inserted on both can clash.

Both logs record the same changes at every node (`SameChanges`), whatever compactions made of the bases
of PKDLog and of its counters. `Lca`, the branches and `state` read parents, depths, insertions and deletions only, so
they are the same in both (`SameLca`, `SameBranch`, `SameState`); PKDLog's diff is then Rlog's (`SameDiff`).

`ForkJoinProofs` (any threads, any tree of tasks, any of them conservative):

- `DequesMatch`: `Spec => []DequesMatchStacks`
- `JobsNeverDangle`: `Spec => []NoDanglingJobs`
- `SafelyImplementsTaskTree`: `Spec => ImplementsTaskTreeSafely`

The argument. A task is in one place at most, in one frame or once in one deque (`FramesDiffer`,
`JobsDiffer`, `JobsAreNew`), because a thief and an owner take a job out of the deque before they
call it, and a right half is put there only when its parent begins (`ForkersHaveBegun`: neither half is
anywhere before that). Each job in a deque is that of a frame of the same thread which has not joined,
and frames above it have theirs behind it (`JobsHaveFrames`, `YoungerFrames`): so `pop_bottom` in a
`pardo` finds its own `right_job` or an empty deque, and whoever waits has an empty one
(`SlotsSuffice`). A job that somebody runs was made by a frame that is still between its fork and
its return (`CalledJobs`). `HalvesHaveEnded` is what a `pardo` knows at its return; with `FramesLive`
and `History` it makes each step one of `TaskTree` or a stutter.

What stays with TLC. Liveness and what includes it (`ImplementsIndex`,
`ImplementsTaskTree`, `AllWorkersLeave`): fairness is out of the prover's reach.
The properties of `PacVersions`: its algorithms are RECURSIVE operators, for which the prover has no
arithmetic, so that they are kept out of every module with a theorem; the proof would need an
invariant that says how reference counts relate to versions through joins and splits of blocks, which TLC
checks on trees three blocks deep.

## 5. Not modelled

- `garbage_collect` with three arguments (see `MvqInPlace`); tree statistics and hashes, which only
  report; `BRTree`, an unused single-version copy of the MVQ tree.
- knn of the log baselines and the external R-tree and kd-tree that index a base.
- `plain_map_spatial_diff` of PaC-Z (two range reports and `merge_pts`), `pacz_u.hpp` (the same code over
  another map), and what of CPAM, PAM and parlay none of this calls.
- Capacities: range queries of the engine write to a buffer of n + 100 000 points without a test
  (benchmark_engine.hpp:122), `diff_type` likewise.
- Several operations on one id in one event: `adds` and `rems` would hold several points of the id, and
  sorting them (benchmark_engine.hpp:69) drops their order. `BenchReplay` has one operation per id and event.
- What the freed node of mvq.hpp:1475 might show under another allocator; the hint that `push_bottom`
  returns when thieves have emptied the deque meanwhile, which costs a wake-up at most.
- Floating-point rounding beyond an epsilon; the Hilbert curve; codes of negative coordinates.
- File input, command line, timing, memory counters; tests and scripts; vendored baselines.

## 6. Plan

Done: (1) `VersionedIndex`, `MvqStore`, `MvqProperties`, `MvqProofs`; (2) `VersionMerge` and its proofs;
(3) `VersionLog`, `PkdLog`; (4) `MvqQueries`; (5) `BenchReplay` and its proofs; (6) `MvqInPlace`; (7) `PersistentMap`,
`PacTree`, `PacMap`, `PacVersions`; (8) `SortedLoops`; (9) `TaskTree`, `ForkJoin`, `WorkDeque`, `StealDeque` and its proofs;
(10) the proofs of `ForkJoin`; (11) those of `VersionLog`, `PkdLog` and of the log in `BenchReplay`;
(12) `MvqContents` and its proofs: the refinement of `VersionedIndex` and the shape;
(13) the proof of the diff of `VersionLog`; (14) `MvqQueries` as recursive functions and its proofs;
(15) the same for the walk of `SortedLoops`; (16) `MvqPurge`, apart from `MvqInPlace`, and the proofs of both.

Next, in this order:

17. Larger PaC-Z trees with B = 1, where the joins reach the branches that 22 points leave out; knn over
    a view of the log.
