# Durable7: TLA+ models, model checking and proofs

Durable7 is a library of persistent (and a few mutable) data structures, written
nine times: in C, C++, C#, Haskell, Kotlin, OCaml, Python, Rust and TypeScript.
Each port has three workspaces: *FingerTree* (sequences, heaps, sorted and
windowed structures, ancestor arenas), *Hamt* (hash tries and what is built on
them, integer tries, Merkle search trees, graphs) and *Ordered* (insertion-ordered
collections). The behaviour all ports share is fixed in
`docs/reference/semantic-contracts.md`.

This directory holds TLA+ models of the library's structures, the TLC
configurations that check them on small instances, and proofs checked by TLAPS.
Every definition is translated from one port: the C port, where ownership and
failure paths are explicit, except for the concurrent trie, whose lock-free form
exists only in C# and Kotlin and is modelled from C#, and the middle cell of the
C# finger tree. `PROJECT.json` maps each definition to the lines it stands for and
lists components, runs, hazards and theorems.

## 1. Inventory

### 1.1 Components that are modelled

| Component (C sources unless noted) | State | Operations | What is hard | Correct when |
|---|---|---|---|---|
| DABA Lite, `daba_lite.c` | six cursors into a chain of blocks, occupied slots, two running aggregates, a count, an owner | create, destroy, move, insert, evict, clear, aggregate | a constant amount of repair per call must finish a reversal in time for a monoid that does not commute; a fixed scratch pool; blocks linked and retired at crossings; allocation fails inside a call | a query is the ordered product of the window; a failed call changes nothing |
| Concurrent hash trie, C# `ConcurrentHashTrie.cs` | root, main node of each indirection node, status of each descriptor, revision | all updates, lookups, `Clear`, `Snapshot`, views | any number of threads by compare-and-swap; helpers act on stale reads; snapshots move the root under updates; tombs | linearizable, views frozen, lock-free |
| Finger tree core, `fingertree.c` | digits, nodes, suspended middles with cached sizes, bounds and measures | push, pop, concat, split, read, search; reversible deques; gap cursors | caches that must agree with what forcing yields; orientation flags pushed down lazily | every call is that of the plain sequence and touches no other version |
| Shared middles, `fingertree.c` and C# `MiddleTree.cs` | one slot, reference counts, a measure cache | force, read the measure, release | threads race to compute, publish and free; memory runs out; a borrowed measure outlives its reference | one result, exact counts |
| Ropes and texts, sorted collections, priority queues, interval trees (`fingertree.c`) | trees of chunks or entries with measures | edits, splits, concatenation, searches by measure, lines and columns, cursors | chunk packing, order among equals, ordinals that must not repeat, pruning by a measure | calls are those of the sequence, bag or set of intervals |
| Canonical sorted set, `canonical_sorted_set.c` | a zip tree by keyed rank | set algebra, bulk loads, cursors, comparisons by digest | shape must not depend on history; policies that disagree; fixed stacks | one shape per content |
| Range update sequence, `range_update_sequence.c` | AVL tree with pending tags | edits, range updates, range measures, cursors | tags do not commute | reads see what applying every tag in turn gives |
| Heaps, `brodal_okasaki_heap.c`, `persistent_monotone_action_heap.c` | skew binomial forests, waiting actions | insert, meld, delete-min, action on all | ranks alone separate two lists; an action must cover exactly its trees | the bag that a heap promises |
| Priority search queue, `priority_search_queue.c` | AVL tree with winners | edits, pruned queries, cursor | winners and stacks stay right through rotations | queries find what a scan finds |
| Ancestor arenas, `incremental_ancestor.c`, and on them `ancestral_slice_queue.c`, `bilateral_ancestral_deque.c` | append-only nodes with jump links in blocks, shared by handles | append, level ancestor; window moves, slices | a directory that grows although the block then fails; cached boundaries; many versions on one arena | answers of walking parent by parent; nodes are never rewritten |
| Connection forest, `persistent_ancestral_connection_forest.c` | parent cells, history tokens | union, connected, first connected | token ownership over branching histories | the first version in which two vertices are connected |
| CHAMP hash map, `hamt.c` | trie of bitmap, leaf and collision nodes; edit sessions with iterators | edits, bulk loads, relations, differences; transient sessions, clones, publication | collisions and collapsing branches; an address reused under an iterator; publication from a shared session | one shape per content; versions immutable |
| Structures on hash maps, `persistent_hash_multimap.c`, `persistent_relation.c`, `persistent_directed_graph.c`, `persistent_hash_bag.c`, `persistent_indexed_map.c`, `persistent_bi_map.c`, `persistent_map_patch.c` | two or more maps kept in step, counts, policies | every call that derives a version | the second map fails after the first was built; mixed policies; counters at their limit | both maps agree after every call |
| Integer maps, `patricia.c` | binary radix trie of signed keys | edits, algebra, ranks, cursors | negative keys, sharing of subtrees in algebra | one shape per content; algebra of maps |
| Merkle search tree, `merkle_search_tree.c` | trees by digest level, cursors, proofs, a block store in memory, packs | edits, diff, three-way merge, prove, verify, put, get, save, load, import, sync rounds | stores that others write to; puts that drop the lock; crashes between puts; damaged proofs and packs | canonical; only truth is accepted; every call on the store at one moment; sync converges |
| Ordered collections, `ordered_set.c`, `ordered_map.c`, `ordered_multimap.c`, `ordered_cursor.c` | items with stamps, an index by class | edits at places, ranges, sorting, algebra, cursors | stamps run out and are dealt again | order, index and cursor agree |

The composites call the hash map; the slice queue and the bilateral deque call the
arena; ropes, sorted collections and interval trees are built on the finger tree;
Merkle trees reach other processes through a block store. Threads meet in four
places only, all modelled by interleaving: the concurrent trie, the suspended middle in
C and in C#, the block store in memory, and a store shared by savers, importers
and receivers. Everything else is a persistent value: a call is one step, and what can go
wrong between its parts is that an allocation fails.

### 1.2 Components that are not modelled

| Component | Why |
|---|---|
| Kotlin concurrent hash trie | the C# protocol on JVM atomics; the C# source is the one modelled |
| `persistent_delta_map.c`, `persistent_run_delta_vector.c`, `contextual_rank_sequence.c`, `persistent_interval_map.c` | sequential, and built from parts that are modelled |
| `rrb_vector.c`, `persistent_chunked_bit_set.c` | radix and bit arithmetic over large arrays, no concurrency and no state between calls |
| the other ports | the same structures in other languages; one port of each is modelled |

Within modelled components these are left out: SHA-256, byte layouts and codecs (a
block stands for its own digest); raw storage, alignment and value constructors;
debug statistics and test hooks; the reference counts of individual nodes where no
thread shares them, so that nodes are values; and allocation failure where a call builds a
single candidate that is simply dropped.

## 2. Modules

| Module | Role |
|---|---|
| `SlidingWindow`, `DabaLite`, `DabaLiteProofs` | the promise of a sliding window, the C implementation, theorems |
| `ConcurrentHashTrie`, `MCConcurrentHashTrie`, `CtrieProofs` | the trie, one action per shared access; a linearizability monitor, the safety properties and workloads; theorems |
| `PersistentSequence` | what a persistent sequence promises; implemented by the next five |
| `FingerTree`, `ReversibleDeque`, `GapCursor` | measured trees with suspended middles, deques with orientation flags, cursors on both |
| `AncestralSliceQueue`, `BilateralAncestralDeque` over `IncrementalAncestor` | windows and two-sided intervals on the append-only arena, with theorems on who owns it and what its queues and deques hold |
| `ConnectionForest` | union by size with history tokens |
| `Rope`, `MeasuredRope` | ropes of chunks with a cursor; measures, texts, lines and columns |
| `SortedCollections`, `IntervalTree` | sorted multisets, sets and maps, priority queues; interval trees |
| `CanonicalSet`, `RangeUpdate`, `PrioritySearchQueue` | zip trees, AVL trees with tags, AVL trees with winners |
| `HeapPromise`, `BrodalHeap`, `ActionHeap` | what a mergeable heap promises, and the two heaps |
| `PersistentMap`, `Hamt`, `HamtTransient` | what a persistent map promises, the CHAMP trie, its edit sessions |
| `VersionHandles`, `HashCollections`, `MapPatch` | the calling convention of the composites, the six composites, patches |
| `MerkleTree`, `MerkleSearchTree`, `MerkleProofs` | canonical trees; handles, cursors, diff and merge; proofs that travel |
| `BlockStore`, `MemoryBlockStore`, `MerkleSync` | what a store promises, the locked array in memory, saving, loading, packs and rounds |
| `StampedOrder`, `OrderedSet`, `OrderedMap` | stamps and relabelling; histories of sets, maps and multimaps with their cursors |
| `Patricia` | integer maps |
| `LazyMiddle` | threads on one suspended middle, in C and in C# |
| `SharingProofs`, `SessionProofs` | theorems about `LazyMiddle` and `MemoryBlockStore`; about `HamtTransient` |
| `MCFingerTree`, `MCMaps`, `MCSharing` | instances for TLC |

An operator whose comment names a mistake (a lock looked past, a tag composed the
wrong way) and that nothing in a specification uses is a faulty variant of the definition
that follows it; there is one for each property, and it shows that the property would
notice.

### 2.1 DABA Lite

A cursor `(block, index)` becomes the absolute position of its slot in the stream
of slots the chain has offered since the rep was created; advancing and
retreating are `+1` and `-1`, and the chain is the interval `base .. limit-1`
(`base` is the start of `rep->first`). `ft_daba_lite_clear` replaces the chain by a
fresh block, which continues the stream, so a position names one arrival for
ever. The occupied bits and the items are one function, `items`, from
occupied positions to values.

A monoid value is the interval of arrivals it is the product of. `Combine` of
adjacent intervals, in stream order, is their union; of anything else it is
`Torn`. This is the free case: if the answer to a query is the interval
`f .. e-1`, then it is the ordered product of the window in every monoid, because
the code uses nothing but associativity and the identity.

| Action | Code |
|---|---|
| `Create`, `Destroy`, `Move` | `ft_daba_lite_create`, `_destroy`, `_move` |
| `Detached` | any call on a handle without a rep (`daba->rep == NULL`), and a create that finds no memory |
| `Insert`, `InsertFails` | `ft_daba_lite_insert`; the second stops at `SIZE_MAX`, without memory for the successor block, or when the plan fails and element and block are taken back |
| `Evict`, `EvictFails` | `ft_daba_lite_try_evict` and `ft_daba_lite_evict` |
| `Clear`, `ClearFails` | `ft_daba_lite_clear` |
| `Aggregate` | `ft_daba_lite_aggregate` |
| `FixupOK`, `ApplyFixup` | `ft_daba_compute_fixup` (plan) and `ft_daba_apply_fixup` (three branches: `FixupReset`, `FixupAdvance`, `FixupShrink`, the last two possibly after a flip) |

Calls on one object are not concurrent in the code, so a call is one step. Moving
onto a handle that still owns a rep leaks it by contract and is not modelled.
`size` and `empty` read `count`; `ft_daba_lite_validate` reads everything, and its
conditions are the invariants `TypeOK` (occupied slots), `Regions` and `ChainExtent`.

Properties:

* `TypeOK`: exactly the slots of the window are occupied;
* `Regions`: cursor order and the region lengths of `ft_daba_lite_validate`;
* `Contents`: what every slot and both running aggregates are the product of,
  which `ft_daba_lite_validate` does not check;
* `ChainExtent`: the chain covers the window and the slot the next element takes,
  with 1 to `2 * BlockCapacity - 1` slots to spare;
* `PlansSucceed`: no repair runs off the chain, reads a vacant slot or exhausts
  the pool;
* `AggregateCorrect`: a query returns the product of exactly the window;
* `ImplementsWindow`: refinement of `SlidingWindow` with `lo <- f`, `hi <- e`; in
  particular a call that fails leaves the window as it was.

### 2.2 Concurrent hash trie

Every access to shared memory is `Volatile` or `Interlocked`, so accesses of all
threads are totally ordered. A thread's `pc` names the access it performs next;
the action performs it together with the local computation that follows. The one
exception is the read of `Status` that follows the compare-and-swap deciding it:
a decided status never changes (`DecisionsStable`, proved in 4.5), so the read belongs
to the same step. Allocation is local: an object appears in shared state when a
compare-and-swap publishes it, and an identity `<<thread, n, slot>>` stands for its
reference. A generation is named by the root created with it. A hash is a
sequence of chunks, and the bitmap with the compact array of a C-node is a
function from chunks to branches.

| Actions | Code |
|---|---|
| `Invoke`, `Publish` | entry of a public method; the end of `CreateRange` |
| `ReadRootMeetsSnapshot`, `ReadRootBegins`, `ReadRootCompletes` | `ReadRoot`, at the top of an operation's loop and inside `Complete(Descriptor)` |
| `RootCompleteMain`, `RootCompleteStatus`, `RootCompleteRoot` | the three accesses of `Complete(RootDescriptor)` |
| `GcasInstalls`, `GcasLoses`, `CompleteStatus` | `Gcas` and `Complete(Descriptor)` |
| `ReadMainMeetsDescriptor`, `ReadMainSettles` | the helping loop of `ReadMain` |
| `WalkMeetsTomb`, `WalkDescends`, `WalkMeetsOldChild`, `WalkRenewsChild` | the walk, the same code in `Mutate` and `CleanTombs` |
| `MutateCollision`, `MutateVacant`, `MutateSingleton`, `MutateSplits`, `Bump`, `CleanTombsReturns` | the rest of `Mutate` and `CleanTombs` |
| `LookupReturns`, `LookupDescends` | `TryGetValue` of the trie and of a view |
| `ClearFindsEmpty`, `ClearReplaces` | `Clear` |
| `SnapshotReadsMain`, `SnapshotInstalls`, `SnapshotLoses` | `Snapshot` |
| `EnumerateLeaf`, `EnumerateCNode`, `ScanBranch`, `ScanFinishes`, `ClassifyMain` | `Enumerate` and `Classify`, whose recursion is the queue and the stack in `walk` |

A workload gives every thread the calls it makes; the loader's calls are
`CreateRange`. The `_comparer` is equality of keys with the given hashes, the
update factory of `AddOrUpdate` adds a number to the current value. Test hooks, the stored
representative of equal keys, and `Count`, `Keys`, `Values`, `ToPersistentHashMap`
(a snapshot and an enumeration) are not modelled separately.

**The monitor.** No fixed step of the code is the linearization point of an
update. A helper may read the root, be delayed over a whole snapshot, and then
commit a descriptor on a node of the old generation; the update then takes
effect before the snapshot although it is decided after the snapshot returned.
(Nobody can have seen either outcome in between, since whoever looks decides.)
`MCConcurrentHashTrie` therefore carries `cands`, the set of all configurations (map
content, results of calls that took effect, content of each thread's view) that
some linearization of the calls so far explains: calls in progress may take
effect at any time, a return discards the configurations that disagree with
its result. The trie is linearizable as long as `cands` is not empty. Results
include the snapshot views' later lookups and enumerations.

Properties:

* `Linearizable`: the results of all calls, lookups in views included, have a
  linearization;
* `QuiescentContent` (part of `QuiescentExact`): when all calls have returned, what the live trie holds is
  the outcome of such a linearization (an update that reported success is there);
* `TypeOK`: the shared fields hold objects of their types, and what they reach was published;
* `WellFormed`: every entry lies on its hash's path, collision nodes hold two or
  more entries of one hash, tombs hold an entry and never sit in the root, no
  C-node is left with a lone singleton below the root, and no indirection node
  stands in two places;
* `QuiescentNoTombs` (part of `QuiescentExact`): every tomb has been folded into its parent once all calls
  have returned, races of cleaners with writers and snapshots included;
* `RevisionExact` (part of `QuiescentExact`): `_revision` counts the calls that changed the content, once each;
* `FrozenViews`: what a view has been able to see never changes;
* `DecisionsStable` (action property): a decided descriptor keeps its status, and
  leaves its node only once decided, for the main node the outcome selects;
* `EnumerationCanonical` (part of `Linearizable`): a view is enumerated in CHAMP order, singletons hidden
  behind frozen tombs included, as the remark on `SnapshotView` says;
* `CallsReturn` (liveness): every call of a thread that keeps running returns.

### 2.3 Handles and versions

The persistent structures share one convention, which each module models the same
way. A variable maps each handle of the caller to the version it holds, or to
`Unset`. A call derives a version from the ones it is given and leaves it in an empty
handle or in place of its source. The Hamt and Ordered calls take their source as
result; most `ft_*` calls do not, and there "in place" stands for a call into
a fresh variable followed by dispose and move, which leaves the same handles. A
refused or failed call leaves all handles as they were.

Where a promise module exists (`PersistentSequence`, `HeapPromise`, `BlockStore`,
`SlidingWindow`) the implementation is shown to make its steps under a mapping that reads
the abstract content off the structure: the leaves of a finger tree, the path
between two nodes of an arena, the bag of a forest, the array of
the store. For sequences, heaps and sets such a step says that one handle is written, with
something that a call of some kind makes of the versions there were, and that no
other version changes. It does not say which call. That each call makes of its *own*
arguments what it promises is an invariant of the same run: in every reachable state the
result of each call, for each argument, is compared with the abstract one (`CallsExact` of `FingerTree`,
`ReversibleDeque`, `CanonicalSet`, `PrioritySearchQueue`, `BrodalHeap` and `ActionHeap`, `RopeCallsExact`,
`WindowsExact`, `IntervalsValid`, `RelationsExact` and others). `PersistentMap` is of this second kind altogether:
it gives each call of a map as an operator on contents, and `Hamt!RefinesMap` compares every
call on every reachable trie with it, key by key and value by value.

Reading operations change nothing and are checked as operators: an invariant compares
each of them with a definition by enumeration in every reachable state (for example
`Search!QueriesExact`: the pruned query against a scan).

A composite that fails to build its second structure has published nothing: `FailAfter` is
that call, and it changes nothing by its definition. It is there because a
history may contain it; whether the first structure is freed down to the last node is
not decided by these models.

The map in a connection forest is shared by clones: a clone copies nothing, a call that writes
a cell makes a new root node and retains the token of each cell again, and the
tokens of a node are given up with the last forest that has it. One node is enough since
the few vertices of the instances are all in the root.

Sequential recursion over trees is written with `RECURSIVE` operators or folds in the
modules that only TLC uses. `DabaLite`, `LazyMiddle`, `MemoryBlockStore`,
`BlockStore`, `SlidingWindow`, `HamtTransient`, `IncrementalAncestor` and
`ConcurrentHashTrie` have none.

### 2.4 Shared middles and the block store

`LazyMiddle` has a thread per tree that shares one suspended middle. A step is one
atomic access of `force_middle`, `rep_get_measure` and the releases: load of the slot,
computation (which may run out of memory), second load after a failure,
publication by compare-and-exchange, the same for the measure, and the two releases.
`refs` are the counts of the representations; an identity may be used again once its
count is zero. The second half is `LazyMiddle.Force` of C#, where the runtime collects
garbage and one cell holds the operation and then its result.

`MemoryBlockStore` takes what a thread does between acquiring and releasing the lock as one
step. A put that finds the array full sets `need`, allocates outside the lock
(`Allocate`, which may fail the call), and looks again: the block may have come, the
array may have grown, or been cleared. `arrays` counts allocated arrays, so that one
that is lost or freed twice shows. A digest is a number because the array is
sorted by digests.

In `MerkleSync` a load keeps the blocks it has read and takes the children to visit from
them. `FinishLoad` assembles a tree from these blocks, checks each node against what
was assembled below it, compares the result with the root asked for and audits it, as the
code does; `LoadedTreesValid` then compares what was handed out with the canonical tree,
and `RefusalJustified` names the reasons that a load, a pack's own checks and the writing of its blocks
may give. The saving of a tree root first is followed in `MCSharing`, where a
saver crashes halfway and a receiver has to come to the right tree all the same.

## 3. Runs

A run's behaviours are histories of one *subject*, chosen in the first state among
those its configuration lists; the subjects are independent, so one run
asks one question of several structures. A structure with two subjects appears once
with several handles over small contents (versions must not disturb each other) and once
with one handle over larger contents (shapes must get deep).

| Run | Subjects and bounds | Shows |
|---|---|---|
| `daba_lite` | blocks of 3 slots, windows of up to 9, a stream of 24 slots, two handles | everything in 2.1, no deadlock |
| `ctrie` | fifteen workloads of two and three threads, five keys on three levels | everything in 2.2 but progress, no deadlock |
| `ctrie_progress` | five workloads in which one of two threads may stop for ever | `CallsReturn` |
| `hash_maps` | tries of 3 to 5 keys with collisions and equal keys; sessions with two handles, one iterator and three addresses; the six composites over three items with equal pairs; patches over two keys | `TriesExact`, `CollectionsExact`, `ReferencesBalanced`, `IteratorReadsLiveNodes`, `VersionsImmutable`, `TriesRefineMaps` |
| `ancestors` | arenas of 5 and 8 nodes with 4-bit words and a directory of one block, queues and deques of up to 5, forests of 3 and 4 vertices | `AncestorsAnswer`, `AncestorsOwned`, `AncestorsKeepPromise` |
| `sequences` | trees and deques of up to 6 leaves, cursors over 3 | `SequencesExact`, `SequencesKeepPromise` |
| `ropes` | chunks of 2 to 4, ropes of up to 8, sorted collections of 3, queues with ordinals up to 4, intervals over 4 ends | `RopesExact`, `RopesKeepPromise` |
| `trees` | zip trees under three policies and one with two long spines of nine items, range updates on 4, Brodal heaps of 6, action heaps of 4, search queues of 6; melds of twelve entries and runs of eight insertions with actions between them, drained to the end | `TreesExact`, `HeapsExact`, `TreesKeepPromise` |
| `merkle` | trees of 6 keys on three levels, cursors over 4, merges of 2 keys in three versions, proofs with one or two damages, packs of a tree of two blocks among bad blocks | `MerkleExact`, `RefusalsJustified` |
| `ordered` | sets of 4 classes, maps of 3, multimaps of 3 pairs with stamps -2..2, integer maps of 3-bit keys | `OrderedExact` |
| `sharing` | three threads on a middle, two callers on a store of three digests and an initial capacity of 1, one saver and one receiver with two faults | `CountsExact`, `BorrowedAlive`, `ForcesOnce`, `AnswersConverge`, `ArraysOwned`, `StoreKeepsPromise`, `SharingEnds` |
| `patch_outputs` | one patch, one map | a violation, see below |

**Why the bounds are enough.** Each is the smallest at which the case it is there for
happens. A digit overflows into the middle at five leaves and the middle itself is
split at six. A directory of one block is replaced at the second node and the third block
starts at the fifth. Stamps from -2 to 2 with a gap of 2 run out at the third
insertion. Blocks of 3 let every region of DABA Lite cross a boundary at every offset, and
9 elements go through the flip, both halves of a reversal and the reset. An
initial capacity of 1 (the code's is 8) makes puts grow the array at one, two and
three blocks. For the trie, three levels of chunks and five keys give a split at
each level, one below a common prefix, a full collision and a sibling in the root; two or three
calls per thread create a situation, disturb it and observe it, and three threads are
needed only for the late helper. 4-bit words and 3-bit keys keep the sign bit and
the overflow of the code's 64.
`Orderly`, `RopesSmall` and `TreesSmall` are state constraints on the sum of the sizes of
all versions in a state; `Orderly` also keeps leaves sorted, which still shows a
leaf that moved and leaves the shapes free.

**Deadlock** is checked for DABA Lite and the trie. The other runs switch the check
off because their histories end: arenas fill up, threads finish, bounds are reached.

**Fairness.** `ctrie_progress` assumes weak fairness of each running thread's steps:
a thread that keeps being scheduled performs its next instruction, and no instruction
blocks, since the code takes no lock. Nothing is assumed of the threads in
`Stalled`. Workloads are finite, so a thread retries only finitely often; for
unboundedly many competing calls the trie is lock-free, not wait-free. `sharing` assumes
weak fairness of each thread's steps: the middle is published without locks, the
store's lock is held for a bounded time by every holder and handed to those who
wait, and a process that synchronises goes on unless it crashes, which is an action of
its own. Nothing is assumed of callers: they need not call, crash or return.

**The finding.** `patch_outputs` states what `src/C/Hamt/docs/api-specification.md:29` says of
the patch, that outputs are written only after success. `d7_hamt_map_patch_apply`
destroys its result when the patch does not apply; if the result is the source, which
line 159 of the same document allows, the caller's map is gone.

## 4. Proofs

Seven modules hold theorems. What they state, they state for every value of the constants
that satisfies the named assumptions.

### 4.1 DABA Lite

`DabaLiteProofs` covers every block capacity, every maximal count, every pool of at
least seven values and every set of handles (`DabaAssumption`, whose bound of seven is
the code's `_Static_assert`).

| Theorem | Statement |
|---|---|
| `DabaInvariant` | `Spec => []DabaInv` |
| `DabaTypeCorrect`, `DabaRegions`, `DabaContents`, `DabaChainExtent` | each part of it |
| `DabaPlansSucceed` | `Spec => []PlansSucceed` |
| `DabaAnswersCorrectly` | `Spec => []AggregateCorrect` |
| `DabaImplementsWindow` | `Spec => ImplementsWindow` |

The inductive invariant is
`DabaInv == TypeOK /\ Regions /\ Contents /\ ChainExtent /\ AggregateCorrect`. `AggregateCorrect`
alone says nothing about the step after the next eviction, and what
`ft_daba_lite_validate` checks (`Regions`, `ChainExtent`) says nothing about values.
`Contents` is the missing part: it says where the product in each slot ends
(`SlotEnd`). A call hands the repair step a window that is the old one with one slot more
at the end or one less in front (`RepairReady`, lemmas `InsertReady` and `EvictReady`);
the length equations of `Regions`, off by one, tell which branch can run; each branch
restores the equations and the contents for the new window (`ResetRepairs`,
`AdvanceRepairs`, `ShrinkRepairs`, together `FixupRepairs`). `ShrinkRepairs` is the
heart: the two slots it writes are exactly the ones whose product has to be extended,
which uses `CombineAdjacent`. The refinement then maps every action to an action of
`SlidingWindow` (`StepRefines`).

### 4.2 The shared middle

`SharingProofs` covers every finite set of threads and every set of
representations. `LazyAssumption` says that threads are finitely many and that the
markers `Nothing` and `Failed` are no representations.

| Theorem | Statement |
|---|---|
| `LazyInvariance` | `Spec => []LazyInv` |
| `ReferencesCounted` | `Spec => []CountsExact` |
| `MeasuresOutlive` | `Spec => []BorrowedAlive` |
| `OneForceWins` | `Spec => ForcesOnce` |
| `EveryForceConverges` | `ManagedSpec => []AnswersConverge` |
| `CellWrittenOnce` | `ManagedSpec => [][PublishedOnce]_managedVars` |

None of the three C properties is inductive. That a count is exact after a release needs
to know what the releasing thread holds, so `LazyInv` adds `HoldsOf`: the place a
thread has reached tells whether it holds a candidate, a counted reference (always to the
published result) or a borrowed measure. That a borrowed measure is alive
follows from there being a tree left, that of the borrower, so that the slot
still owns its reference. `AnswersAgree` is needed for the answers of threads that outlive the
slot. The counting itself is one lemma, `HoldersChange`: a step of one thread moves the
number of holders by what that thread gave up and took.

For C#, `ManagedInv` adds to `AnswersConverge` that the cell is no longer pending
once somebody returned: without it the next exchange could replace what was returned.

### 4.3 The block store in memory

For every finite set of threads, every set of digests and bytes, and every positive
initial capacity (`StoreAssumption`).

| Theorem | Statement |
|---|---|
| `StoreInvariance` | `StoreSpec => []StoreInv` |
| `NoArrayLost` | `StoreSpec => []ArraysOwned` |
| `CallsAtOneMoment` | `StoreSpec => StoreKeepsPromise` |
| `StoreRefinesPromise` | `StoreSpec => Promise!Spec` |

`ArraysOwned` compares neighbours, which is all the code's own checks do; the search
needs the order of any two blocks, so `StoreInv` states `Rising` for all pairs. From it
`LowerBoundSplits` and `FoundExact` derive that the binary search finds the block of a digest
if there is one (the least place that is not below the digest exists by
`NatLessThanWellFounded`), `InsertedIsArray` and `RemovedIsArray` that an edit keeps the order and
changes the content by its block. `StoreInv` also says that a call never holds an array
while it asks for another, without which `Allocate` would lose one.
`GrowthSuffices` shows that one doubling is enough for the block that did not
fit. For the refinement, `ArrayShowsContent` gives the abstract content, its digests and
its number; each step then performs one request on it, fails one for want of memory, or leaves
it alone (`StepRefines`). The moment of a put that looked twice is its last look.

### 4.4 Edit sessions

`SessionProofs` covers every finite set of map variables, session states and handles,
every set of iterators and addresses, and any keys and values (`SessionAssumption`; the
markers for a null root, an unset variable and a handle without session are no
addresses).

| Theorem | Statement |
|---|---|
| `SessionsInvariance` | `SessionsSpec => []SessionInv` |
| `RootsCounted` | `SessionsSpec => []ReferencesBalanced` |
| `IteratorsSafe` | `SessionsSpec => []IteratorReadsLiveNodes` |
| `LiveRootsFixed` | `SessionsSpec => [][LiveFixed]_sessionVars` |
| `VersionsStay` | `SessionsSpec => VersionsImmutable` |

The balance alone is nearly inductive: a session state is used again when its last handle
is gone, and counts stay exact only if it has no root then (`VacantRootless`). What an
iterator may rely on is not in the balance at all. `Borrows` states it: the session it
borrows is owned by some handle and has not gone back in version, and while the version
is the one the iterator noted, the root and its content are those of that moment too. The
contract that an iterator ends before its session (`IteratorsGone`) enters where the last
handle goes. The step that matters is `LiveFixed`: no step changes a root that is alive before
and after it. A commit builds at a free address before it releases the old root
(`CommitMoves`), and a release erases only with the last reference (`ReleaseMoves`).
Immutable versions and stable iterators both follow, because maps and unchanged sessions
own their roots on both sides of the step. Content is opaque to these proofs: they hold
for any edit that goes through `Commit`.

### 4.5 The concurrent trie

`CtrieProofs` covers every set of threads, keys and values, hashes of any number of
chunks, every workload and every initial content (`CtrieAssumption`).

| Theorem | Statement |
|---|---|
| `TrieInvariance` | `Spec => []TrieInv` |
| `DecisionsFinal` | `Spec => DecisionsStable` |
| `ShapeInvariance` | `MonitorSpec => []TrieShape` |
| `TrieTypes` | `MonitorSpec => []TypeOK` |
| `TrieWellFormed` | `MonitorSpec => []WellFormed` |
| `ViewsFrozen` | `MonitorSpec => []FrozenViews` |

**Descriptors.** That a decided status stays is in the compare-and-swap as long as no new descriptor takes
the identity of an old one; that a descriptor leaves its node only for the outcome
it was given is not, because the thread that takes it out looked at the status some
steps ago. `TrieInv` has three parts. `IdsSpent`: the identities of published
nodes and descriptors are below the counter of the thread that made them, so what a thread
publishes next is new (`ReservedFresh`). `DescriptorsInstalled`: a descriptor in a node
has a status and stands between two main nodes, never another descriptor; therefore
a Gcas never replaces a descriptor, and settling one never uncovers a second.
`ThreadsOK`: what each register of a thread may hold at each of its places; in particular a
thread about to settle holds a descriptor that is decided, which stays true while
others step because of the very property being proved (`OthersKept`). Only five of the
thirty-four steps write nodes or statuses, and each has its own lemma; the other steps
need that the nodes a thread hands to Gcas are main nodes (`GcasKeeps`, `ContractPlain`,
`MergeSingletonsFresh`, `MergeCollisionFresh`). A step reads a node only if it was
published (`AtMain`). Nothing else is ever met in the program, where a reference is to an object;
in the model the run `ctrie` shows it, since a thread that met another identity would
stop, and a stopped thread is a deadlock.

**Shape.** Neither `WellFormed` nor `FrozenViews` is anywhere near inductive: a thread that
lost its race still publishes what it prepared many steps ago, a helper
commits what another thread prepared, and what hangs below a node may be replaced while a
view is being taken. `TrieShape` therefore states what every register of every thread
is worth, relative to a history `W` that maps each indirection node ever published to the
generation that created it and the chunks that lead to it. `W` is quantified (`\E W`)
and only grows (`Extends`), since neither entry changes while the node exists.

* `Fits(W, p, m)` says that main node `m` may be held at path `p`: its entries lie on `p`,
  its branches lead to nodes whose history agrees, its counts are those of `WellFormed`.
  Every main node does, `before` and `after` of each descriptor included
  (`NodesHold`).
* A generation is *active* once its root has been current and *retired* once it
  is so no more. `Gens` says that a node of an active generation has below it only nodes of
  that generation and of retired ones: this is why a writer that renews what it walks
  through never writes into what a view reaches.
* `RegistersFit` says it of the threads: a parent had a branch to the thread's node when it
  was read (`ParentFits`); a node that is renewed is of an older generation
  (`RenewingFits`); what a Gcas is about to publish fits the place where it would land,
  together with some history of the nodes it brings along (`OfferFits`); what a
  snapshot is about to install is the root that was current and a copy of its main node
  (`SnapshotFits`).
* `DescriptorsUnique` tells descriptors apart by identity, so that a late swap is
  compared with the right one; `AllFrozen` is the invariant behind `FrozenViews`: a node of a
  retired generation denotes what a view saw there, and no thread is about to commit
  a descriptor on it (`KeptAt`).

The two hard steps are those where the code's argument is subtle. When a root descriptor
is decided (`RootCompleteStatusCore`), one generation retires and another becomes active, so
that every node, descriptor and register is judged by new sets. A late writer may still
put a descriptor on a node that a view has reached; it is never committed, because
who has read the current root proposes `Aborted` for another generation's descriptor
(`ReadRootCompletesCore`, `CompleteStatusCore`). When a Gcas publishes
(`GcasInstallsCore`), the nodes it brings extend the history, and every other
thread's registers stay good under the longer one (`OthersFit`, `SameGrows`). The lemmas on
`Contract`, `MergeSingletons` and the collision nodes show that each update hands
Gcas nodes that fit, for hashes of any length (`ContractFits`, `MergeSingletonsFits`,
`MergeCollisionFits`). What is reachable from a root is a recursive function; that the
recursion has a solution, and that all it reaches has its history's path, is shown
by taking the least depth at which it fails (`LevelsExist`, `ReachedWithin`).
TLC checked `CoreInv` in every state of the run `ctrie` before it was proved.

### 4.6 The arena and its owners

The theorems on the ancestor arena stand in the modules they are about, for any handles,
addresses, directory and word size (`ArenaAssumption`); `QueueAssumption` and `DequeAssumption` add that an
array may have any length and that what an empty handle shows is not a sequence.

| Theorem | Statement |
|---|---|
| `ArenasOwned` | `ArenaSpec => []ArenaOwned` |
| `NodesStay` | `ArenaSpec => [][NodesFrozen]_arenaVars` |
| `AncestorsFound` | `ArenaSpec => []AncestorsExact` |
| `QueuesOwnArenas` | `QueueSpec => []ArenaOwned` |
| `DequesOwnArenas` | `DequeSpec => []ArenaOwned` |
| `QueuesAnswer` | `QueueSpec => []WindowsExact` |
| `QueuesIndependent` | `QueueSpec => [][QueueKeepsPromise]_arenaVars` |
| `DequesValid` | `DequeSpec => []IntervalsValid` |
| `DequesAnswer` | `DequeSpec => []SlicesExact` |
| `DequesIndependent` | `DequeSpec => [][DequeKeepsPromise]_arenaVars` |
| `QueriesBounded` | `DequeSpec => []QueryCeilings` |

`ArenaInv` says that the counts are the numbers of owners (`Counted`) and that an arena is at
those addresses only that have owners, with its bottom node at least (`Kept`). One
lemma carries the counts: a handle that gives up one arena and takes another
changes the count of both by one, also when they are the same arena (`Assigned`).
`SuccessorOwned` applies it to every call that leaves a derived queue or deque in an
empty handle or in place of its source, `HalvesOwned` to a split, whose source may be either
half. An arena built from an array comes out of a recursive function; `LinksExist` shows
that the recursion has a solution and `ChainSized` what it comes to, by induction over
its length. That part of `AncestorsOwned` is what the three theorems on owners state.

`NodesStay` needs the addresses. `SquareRootExact` shows that the bits the root is tried with
leave `r` with `r * r <= n < (r + 1) * (r + 1)`, for any even word size, so that the
blocks of 1, 3, 5, ... slots tile the node numbers (`SlotPlace`): the slot a new node is
written to is in no other node's place, and the room made for it moves none (`PutStores`,
`ReserveKeeps`). `NodesInv` says that every arena is laid out this way (`Stored`) and that each
node is as it was made (`NodeMade`): from a parent before it, with the jump that `JumpOver`
gives. `AncestorsFound` rests on it. `JumpsSound` shows that every jump, coalesced or
not, lands on the ancestor as many levels up as its distance says, and `HopsFind`
that a query which takes one only when it does not overshoot finds what the
parents lead to. Both recursions, of the walk and of the parents, are shown to have
solutions (`Recursion`), and both facts take a least counterexample among the node numbers.

What the queues hold rests on both. `ContentInv` says that the tail of every window is a node
of its arena that lies as deep as the anchor and the count say (`Window`). The
node of an index is the one that deep on the path of the tail (`Spot`), which `HopsFind`
reaches by jumps, and the window shows the values of its spots (`VisitUnfolds`). Every call that cuts
leaves a `Part` of its source, whose spots are among the source's, hence shows a `SubSeq` of what
the source showed (`CallsCutParts`, `PartOfWindow`). An append is the one call that writes: nodes of the
arena stay as they were (`NodesStay`'s lemmas), so every other window shows what it did
(`WindowStays`), and the new window shows one value more (`WindowGrows`), also when the
source was emptied at an anchor in the middle of a path. A queue built from an array
shows the array (`FromArrayShows`). Each call is then a step of `PersistentSequence` under the
mapping `ContentOf`, call by call in `QueueNextLawful`.

The deques keep two paths and cache both ends of each. Their `ContentInv` says that an interval
is the `Arm` of as many nodes as it counts, from its tail upwards: its anchor and its base are the
nodes that `Climbing` finds there (`Span`), which is the library's audit (`SpanValid`).
The node of an index is that many levels above the left tail, or what is left of the count above
the right one (`Place`). A call that cuts, whichever end points it reuses, leaves a deque
whose places are among the source's (`Cut`; `PartOfLeft`, `PartOfRight`, `EndsRemoved`,
`SliceCuts`); reversing exchanges the arms and so the order of the places
(`ReversedShows`); a push adds a leaf below one tail and leaves every place but the new one as
it was (`ArmGrows`, `EndsGrow`), for this deque and the others on the arena (`DequeStays`). What a slice
costs depends on which of its ends are cached (`PartsCost`); `CostsBounded` adds up the
two parts and the two halves of a split.

### 4.7 What is only model-checked

* All liveness (`CallsReturn`, `SharingEnds`): fairness and `ENABLED` are out of the
  prover's reach.
* What definitions by recursion over data compute (the proofs above do recursion over
  numbers only, by a least counterexample): the shapes and contents of tries, finger trees, zip trees, AVL trees, heaps and Merkle trees, that is
  every property of `hash_maps` about tries and of `sequences`, `ropes`, `trees`, `merkle` and
  `ordered`. Their modules use `RECURSIVE` operators or folds.
* What the concurrent trie holds. `Linearizable` and `QuiescentExact` rest on a monitor
  that is a set of configurations closed under a recursive step, and on sums over
  the threads' calls.
* The composites, and that a query's hops are logarithmic in the depth
  (`HopsLogarithmic`).

## 5. What is next

1. The trie: `RevisionExact` and `QuiescentNoTombs`, from `TrieShape` and what a removal
   still owes its parent.
2. Models of the delta map and the run-delta vector over the abstract map and sequence.
