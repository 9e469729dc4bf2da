---------------------------- MODULE MCFingerTree ----------------------------
(***************************************************************************)
(* The sequences, trees, heaps and ancestor structures of the finger tree  *)
(* library on small instances.  A behaviour is a history of one subject,   *)
(* chosen at the start among those the run asks for; the variables hold    *)
(* the state of that subject.  Two subjects of one module are two sets of  *)
(* bounds: several handles over small contents, or one over larger ones.   *)
(***************************************************************************)
EXTENDS Integers, Sequences, FiniteSets, FiniteSetsExt, TLC

CONSTANTS Subjects,               \* the subjects of a run
          h1, h2, h3, c1, c2,     \* handles and cursors
          a1, a2, v1, v2, v3, v4, \* arenas, values and tokens
          Unset

VARIABLES subject, first, second, third, fourth
vars == <<subject, first, second, third, fourth>>

-----------------------------------------------------------------------------
\* Ancestor structures: handles, arenas and their reference counts.

Arena == INSTANCE IncrementalAncestor
         WITH Handles <- {h1, h2}, Arenas <- {a1, a2}, Values <- {v1}, MaxNodes <- 5,
              FirstDirectory <- 1, WordBits <- 4, hold <- first, arena <- second, refs <- third
ArenaDeep == INSTANCE IncrementalAncestor
         WITH Handles <- {h1}, Arenas <- {a1}, Values <- {v1}, MaxNodes <- 8,
              FirstDirectory <- 1, WordBits <- 4, hold <- first, arena <- second, refs <- third
SliceQueue == INSTANCE AncestralSliceQueue
         WITH Handles <- {h1, h2}, Arenas <- {a1}, Values <- {v1, v2}, MaxNodes <- 5, MaxCount <- 3, MaxSource <- 2,
              FirstDirectory <- 1, WordBits <- 4, hold <- first, arena <- second, refs <- third
Bilateral == INSTANCE BilateralAncestralDeque
         WITH Handles <- {h1, h2}, Arenas <- {a1}, Values <- {v1, v2}, MaxNodes <- 4, MaxCount <- 3, MaxSource <- 2,
              FirstDirectory <- 1, WordBits <- 4, hold <- first, arena <- second, refs <- third
BilateralDeep == INSTANCE BilateralAncestralDeque
         WITH Handles <- {h1}, Arenas <- {a1}, Values <- {v1, v2}, MaxNodes <- 6, MaxCount <- 5, MaxSource <- 2,
              FirstDirectory <- 1, WordBits <- 4, hold <- first, arena <- second, refs <- third
Forest == INSTANCE ConnectionForest
         WITH Handles <- {h1, h2}, Witnesses <- {c1}, Tokens <- {v1, v2, v3, v4}, VertexCount <- 3, MaxDepth <- 3,
              hold <- first, witness <- second, token <- third, joined <- fourth
ForestDeep == INSTANCE ConnectionForest
         WITH Handles <- {h1}, Witnesses <- {}, Tokens <- {v1, v2, v3, v4}, VertexCount <- 4, MaxDepth <- 3,
              hold <- first, witness <- second, token <- third, joined <- fourth

ASSUME ArenaWords == Arena!ArenaAssumption /\ ArenaDeep!ArenaAssumption
                     /\ SliceQueue!QueueAssumption /\ Bilateral!DequeAssumption /\ BilateralDeep!DequeAssumption

AncestorsInit ==
    \/ subject = "arena" /\ Arena!ArenaInit /\ fourth = Unset
    \/ subject = "deep arena" /\ ArenaDeep!ArenaInit /\ fourth = Unset
    \/ subject = "slice queue" /\ SliceQueue!ArenaInit /\ fourth = Unset
    \/ subject = "bilateral deque" /\ Bilateral!ArenaInit /\ fourth = Unset
    \/ subject = "deep bilateral deque" /\ BilateralDeep!ArenaInit /\ fourth = Unset
    \/ subject = "forest" /\ Forest!Init
    \/ subject = "deep forest" /\ ForestDeep!Init
AncestorsNext ==
    \/ subject = "arena" /\ Arena!ArenaNext /\ UNCHANGED fourth
    \/ subject = "deep arena" /\ ArenaDeep!ArenaNext /\ UNCHANGED fourth
    \/ subject = "slice queue" /\ SliceQueue!QueueNext /\ UNCHANGED fourth
    \/ subject = "bilateral deque" /\ Bilateral!DequeNext /\ UNCHANGED fourth
    \/ subject = "deep bilateral deque" /\ BilateralDeep!DequeNext /\ UNCHANGED fourth
    \/ subject = "forest" /\ Forest!Next
    \/ subject = "deep forest" /\ ForestDeep!Next
AncestorSymmetry == Permutations({h1, h2}) \cup Permutations({v1, v2, v3, v4})

\* What the jump pointers, the windows of the slice queue, the four cases of the
\* bilateral deque and the union forest answer is what walking parent by parent
\* gives, in the number of queries and hops that the design documents state.
AncestorsAnswer ==
    /\ subject = "arena" => Arena!AncestorsExact
    /\ subject = "deep arena" => ArenaDeep!AncestorsExact /\ ArenaDeep!HopsLogarithmic
    /\ subject = "slice queue" => SliceQueue!WindowsExact
    /\ subject = "bilateral deque" => Bilateral!IntervalsValid
    /\ subject = "deep bilateral deque" =>
          BilateralDeep!IntervalsValid /\ BilateralDeep!SlicesExact /\ BilateralDeep!QueryCeilings
    /\ subject = "forest" => Forest!ForestsValid /\ Forest!FirstConnectedExact
    /\ subject = "deep forest" => ForestDeep!ForestsValid /\ ForestDeep!FirstConnectedExact

\* An arena or a version token lives exactly as long as something refers to it,
\* whichever call fails halfway.
AncestorsOwned ==
    /\ subject = "arena" => Arena!ArenaOwned
    /\ subject = "slice queue" => SliceQueue!ArenaOwned
    /\ subject = "bilateral deque" => Bilateral!ArenaOwned
    /\ subject = "forest" => Forest!TokensOwned

\* A published node is never written again, and the sequences on one arena behave
\* as separate persistent sequences though it grows under all of them.
AncestorsKeepPromise ==
    [][/\ subject = "arena" => Arena!NodesFrozen
       /\ subject = "slice queue" => SliceQueue!QueueKeepsPromise
       /\ subject = "bilateral deque" => Bilateral!DequeKeepsPromise]_vars

-----------------------------------------------------------------------------
\* Sequences and the cursors on them.

Tree == INSTANCE FingerTree WITH Values <- {1, 2}, Handles <- {h1, h2}, MaxSize <- 6, hold <- first
Deque == INSTANCE ReversibleDeque WITH Values <- {1, 2}, Handles <- {h1, h2}, MaxSize <- 6, hold <- first
Cursor == INSTANCE GapCursor
          WITH Values <- {v1, v2}, Trees <- {h1}, Cursors <- {c1, c2}, MaxSize <- 3, MaxInsert <- 2,
               tree <- first, cur <- second

SequencesInit ==
    \/ subject = "tree" /\ Tree!Init /\ second = Unset /\ third = Unset /\ fourth = Unset
    \/ subject = "deque" /\ Deque!Init /\ second = Unset /\ third = Unset /\ fourth = Unset
    \/ subject \in {"cursor", "reversible cursor"} /\ Cursor!Init /\ third = Unset /\ fourth = Unset
SequencesNext ==
    \/ subject = "tree" /\ Tree!Next /\ UNCHANGED <<second, third, fourth>>
    \/ subject = "deque" /\ Deque!Next /\ UNCHANGED <<second, third, fourth>>
    \/ subject = "cursor" /\ Cursor!Next /\ UNCHANGED <<third, fourth>>
    \/ subject = "reversible cursor" /\ Cursor!ReversibleNext /\ UNCHANGED <<third, fourth>>
SequenceSymmetry == Permutations({h1, h2}) \cup Permutations({c1, c2}) \cup Permutations({v1, v2})

\* The leaves are few and kept sorted, one way or, where a deque turns around,
\* the other, so that one that moved shows, and the shapes are what is explored.
Rises(q) == \A i \in 1..(Len(q) - 1) : q[i] <= q[i + 1]
Falls(q) == \A i \in 1..(Len(q) - 1) : q[i] >= q[i + 1]
Sum(f(_), s) == MapThenSumSet(LAMBDA x : IF s[x] = Unset THEN 0 ELSE f(s[x]), DOMAIN s)
\* Several handles over small contents or one over larger ones.
Together(f(_), several, one) ==
    Sum(f, first) <= IF Cardinality({h \in DOMAIN first : first[h] # Unset}) > 1 THEN several ELSE one
Leaves(t) == t.leaves
Orderly ==
    subject \in {"tree", "deque"} =>
       /\ Together(Leaves, 5, 6)
       /\ \A h \in {g \in DOMAIN first : first[g] # Unset} :
             \A q \in {IF subject = "tree" THEN Tree!Visit(first[h]) ELSE Deque!Visit(first[h])} :
                Rises(q) \/ (subject = "deque" /\ Falls(q))

\* The digits, nodes and cached sizes of a tree and the orientation bits of a
\* reversible deque fit together, every read and split answers as on the sequence
\* of leaves, and the two sides of a cursor are what is before and after it.
SequencesExact ==
    /\ subject = "tree" /\ Orderly => Tree!TreesValid /\ Tree!CallsExact /\ Tree!BoundsExact
    /\ subject = "deque" /\ Orderly => Deque!DequesValid /\ Deque!CallsExact
    /\ subject \in {"cursor", "reversible cursor"} => Cursor!CursorsValid

\* Every call returns the sequence it promises or moves the gap and edits beside
\* it as promised, and changes nothing that another handle or cursor holds.
SequencesKeepPromise ==
    [][/\ subject = "tree" => Tree!TreeKeepsPromise
       /\ subject = "deque" => Deque!DequeKeepsPromise
       /\ subject \in {"cursor", "reversible cursor"} => Cursor!CursorKeepsPromise]_vars

-----------------------------------------------------------------------------
\* Ropes, sorted collections, priority queues and interval trees.

Rope2 == INSTANCE Rope
         WITH Values <- {v1, v2}, Ropes <- {h1, h2, h3}, Cursors <- {c1}, MaxChunk <- 2, MaxSize <- 4, MaxArray <- 3,
              rope <- first, cur <- second
RopeLong == INSTANCE Rope
         WITH Values <- {v1, v2}, Ropes <- {h1}, Cursors <- {}, MaxChunk <- 4, MaxSize <- 8, MaxArray <- 5,
              rope <- first, cur <- second
Measured == INSTANCE MeasuredRope
         WITH Values <- {v1, v3}, Marks <- {v3}, Ropes <- {h1, h2, h3}, Cursors <- {c1}, MaxChunk <- 2, MaxSize <- 4,
              MaxArray <- 3, rope <- first, cur <- second
MeasuredLong == INSTANCE MeasuredRope
         WITH Values <- {v1, v3, v4}, Marks <- {v3, v4}, Ropes <- {h1}, Cursors <- {}, MaxChunk <- 3, MaxSize <- 6,
              MaxArray <- 4, rope <- first, cur <- second
Sorting == INSTANCE SortedCollections
         WITH Keys <- {1, 2}, Tags <- {v1, v2}, Handles <- {h1, h2}, Cursors <- {c1}, MaxSize <- 3,
              Priorities <- {1, 2}, Values <- {v1, v2}, MaxOrdinal <- 4,
              kind <- first, coll <- second, cur <- third, queue <- fourth
Intervals == INSTANCE IntervalTree
         WITH Ends <- {1, 2}, Trees <- {h1, h2}, Cursors <- {c1}, MaxSize <- 3, tree <- first, cur <- second
IntervalsDeep == INSTANCE IntervalTree
         WITH Ends <- {1, 2, 3, 4}, Trees <- {h1}, Cursors <- {}, MaxSize <- 4, tree <- first, cur <- second

RopesInit ==
    \/ subject = "rope" /\ Rope2!Init /\ third = Unset /\ fourth = Unset
    \/ subject = "long rope" /\ RopeLong!Init /\ third = Unset /\ fourth = Unset
    \/ subject = "measured rope" /\ Measured!Init /\ third = Unset /\ fourth = Unset
    \/ subject = "long measured rope" /\ MeasuredLong!Init /\ third = Unset /\ fourth = Unset
    \/ subject = "sorted collection" /\ Sorting!Init /\ fourth = Unset
    \/ subject = "priority queue" /\ Sorting!QueuesInit /\ first = Unset /\ second = Unset /\ third = Unset
    \/ subject = "interval tree" /\ Intervals!Init /\ third = Unset /\ fourth = Unset
    \/ subject = "deep interval tree" /\ IntervalsDeep!Init /\ third = Unset /\ fourth = Unset
RopesNext ==
    \/ subject = "rope" /\ Rope2!Next /\ UNCHANGED <<third, fourth>>
    \/ subject = "long rope" /\ RopeLong!Next /\ UNCHANGED <<third, fourth>>
    \/ subject = "measured rope" /\ Measured!Next /\ UNCHANGED <<third, fourth>>
    \/ subject = "long measured rope" /\ MeasuredLong!Next /\ UNCHANGED <<third, fourth>>
    \/ subject = "sorted collection" /\ Sorting!Next /\ UNCHANGED fourth
    \/ subject = "priority queue" /\ Sorting!QueueNext /\ UNCHANGED <<first, second, third>>
    \/ subject = "interval tree" /\ Intervals!Next /\ UNCHANGED <<third, fourth>>
    \/ subject = "deep interval tree" /\ IntervalsDeep!Next /\ UNCHANGED <<third, fourth>>
RopeSymmetry == Permutations({h1, h2, h3}) \cup Permutations({v1, v2}) \cup Permutations({v3, v4})

\* All the ropes, collections or trees of a state and its cursors together are small.
RopesSmall ==
    /\ subject = "rope" => Sum(Rope2!Size, first) + Sum(LAMBDA c : Rope2!Size(c.rope), second) <= 5
    /\ subject = "measured rope" => Sum(Measured!Size, first) + Sum(LAMBDA c : Measured!Size(c.rope), second) <= 5
    /\ subject = "sorted collection" => Sum(Len, second) + Sum(LAMBDA c : Len(c.seq), third) <= 6
    /\ subject = "interval tree" => Sum(Len, first) + Sum(LAMBDA c : Len(c.tree), second) <= 5

\* No chunk is empty or overfull, the cached measure of every chunk is that of
\* its values, and whatever a rope finds, splits off or turns into lines and
\* columns is what the plain sequence of its values gives.  Equal keys keep their
\* order of arrival through every edit, a cursor stays beside the items it stood
\* between, the ordinals of a queue stay fresh, and the pruned search of an
\* interval tree finds what looking at every interval finds.
RopesExact ==
    /\ subject = "rope" => Rope2!RopesPacked
    /\ subject = "long rope" => RopeLong!RopeCallsExact
    /\ subject = "measured rope" => Measured!ChunksMeasured
    /\ subject = "long measured rope" => MeasuredLong!MeasuresExact /\ MeasuredLong!LinesExact
    /\ subject = "sorted collection" => Sorting!VersionsSorted /\ Sorting!CursorStaysBeside
    /\ subject = "priority queue" => Sorting!OrdinalsFresh
    /\ subject = "deep interval tree" => IntervalsDeep!QueriesExact /\ IntervalsDeep!WalkVisitsAll

\* Every call edits its own rope, collection, queue or tree as it promises, and
\* leaves all others alone; entries of one priority are served in turn.
RopesKeepPromise ==
    [][/\ subject = "rope" => Rope2!RopeKeepsPromise
       /\ subject = "measured rope" => Measured!MeasuredRopeKeepsPromise
       /\ subject = "sorted collection" => Sorting!BagKeepsPromise
       /\ subject = "priority queue" => Sorting!ServedInTurn
       /\ subject = "interval tree" => Intervals!OneAtATime]_vars

-----------------------------------------------------------------------------
\* Zip trees, range updates, heaps and priority search queues.

Rank(g, s, c) == [geometric |-> g, secondary |-> s, content |-> c]

\* Three policies of one item type: "fine" tells all items apart and gives two of
\* them one rank, "coarse" takes 2 and 3 for equal, and "torn" does so too but
\* gives them different ranks.
KeyOf == [fine |-> <<1, 2, 3, 4, 5>>, coarse |-> <<1, 2, 2, 3, 4>>, torn |-> <<1, 2, 2, 3, 4>>]
Ranks == [fine |-> <<Rank(0, 1, 1), Rank(1, 1, 2), Rank(0, 2, 3), Rank(1, 1, 4), Rank(0, 1, 5)>>,
          coarse |-> <<Rank(2, 1, 1), Rank(0, 1, 3), Rank(0, 1, 3), Rank(1, 2, 5), Rank(1, 1, 2)>>,
          torn |-> <<Rank(0, 1, 1), Rank(0, 3, 2), Rank(1, 1, 4), Rank(0, 2, 4), Rank(1, 1, 6)>>]

\* One policy under which the items beside 5 hang in two long inner spines.
ZipRanks == [zip |-> [x \in 1..9 |-> Rank(<<8, 6, 4, 2, 9, 1, 3, 5, 7>>[x], 1, x)] @@ <<>>]

Tags == {[b \in {0, 1} |-> b] @@ <<>>, [b \in {0, 1} |-> 1 - b] @@ <<>>, [b \in {0, 1} |-> 1] @@ <<>>}

Zip == INSTANCE CanonicalSet
       WITH Items <- 1..5, Policies <- {"fine", "coarse", "torn"}, Handles <- {h1, h2}, Cursors <- {}, MaxInput <- 3,
            coll <- first, cur <- second
ZipCursor == INSTANCE CanonicalSet
       WITH Items <- 1..5, Policies <- {"fine", "coarse", "torn"}, Handles <- {h1}, Cursors <- {c1}, MaxInput <- 2,
            coll <- first, cur <- second
ZipSpines == INSTANCE CanonicalSet
       WITH Items <- 1..9, Policies <- {"zip"}, KeyOf <- [zip |-> <<1, 2, 3, 4, 5, 6, 7, 8, 9>>], Ranks <- ZipRanks,
            Handles <- {h1}, Cursors <- {}, MaxInput <- 1, coll <- first, cur <- second
Updates == INSTANCE RangeUpdate
       WITH Bits <- {0, 1}, Handles <- {h1, h2}, Cursors <- {c1}, MaxSize <- 3, MaxArray <- 2,
            seq <- first, cur <- second
UpdatesDeep == INSTANCE RangeUpdate
       WITH Bits <- {0, 1}, Handles <- {h1}, Cursors <- {}, MaxSize <- 4, MaxArray <- 3,
            seq <- first, cur <- second
Brodal == INSTANCE BrodalHeap
       WITH Values <- {0, 1, 2}, Handles <- {h1, h2}, MaxSize <- 8, MaxArray <- 2, heap <- first
Action == INSTANCE ActionHeap
       WITH Elements <- {v1}, Priorities <- {0, 2, 3}, Bounds <- {0, 2}, Handles <- {h1, h2}, MaxSize <- 3,
            MaxArray <- 1, heap <- first
ActionDeep == INSTANCE ActionHeap
       WITH Elements <- {v1}, Priorities <- {0, 2}, Bounds <- {2}, Handles <- {h1}, MaxSize <- 4,
            MaxArray <- 1, heap <- first
Search == INSTANCE PrioritySearchQueue
       WITH Keys <- {1, 2, 3}, Priorities <- {1, 2}, Values <- {v1}, Handles <- {h1, h2}, Cursors <- {c1},
            MaxArray <- 1, queue <- first, cur <- second
SearchDeep == INSTANCE PrioritySearchQueue
       WITH Keys <- 1..6, Priorities <- {1, 2}, Values <- {v1}, Handles <- {h1}, Cursors <- {},
            MaxArray <- 2, queue <- first, cur <- second

TreesInit ==
    /\ third = Unset /\ fourth = Unset
    /\ \/ subject = "zip tree" /\ Zip!Init
       \/ subject = "zip tree cursor" /\ ZipCursor!Init
       \/ subject = "zip tree spines" /\ ZipSpines!Init
       \/ subject = "range updates" /\ Updates!Init
       \/ subject = "deep range updates" /\ UpdatesDeep!Init
       \/ subject = "brodal heap" /\ Brodal!Init /\ second = Unset
       \/ subject = "action heap" /\ Action!Init /\ second = Unset
       \/ subject = "deep action heap" /\ ActionDeep!Init /\ second = Unset
       \/ subject = "search queue" /\ Search!Init
       \/ subject = "deep search queue" /\ SearchDeep!Init
TreesNext ==
    /\ UNCHANGED <<third, fourth>>
    /\ \/ subject = "zip tree" /\ Zip!Next
       \/ subject = "zip tree cursor" /\ ZipCursor!Next
       \/ subject = "zip tree spines" /\ ZipSpines!Next
       \/ subject = "range updates" /\ Updates!Next
       \/ subject = "deep range updates" /\ UpdatesDeep!Next
       \/ subject = "brodal heap" /\ Brodal!Next /\ UNCHANGED second
       \/ subject = "action heap" /\ Action!Next /\ UNCHANGED second
       \/ subject = "deep action heap" /\ ActionDeep!Next /\ UNCHANGED second
       \/ subject = "search queue" /\ Search!Next
       \/ subject = "deep search queue" /\ SearchDeep!Next
TreeSymmetry == Permutations({h1, h2}) \cup Permutations({c1, c2})

Count(x) == x.count
TreesSmall ==
    /\ subject = "range updates" => Sum(Count, first) + Sum(LAMBDA c : c.tree.count, second) <= 3
    /\ subject = "brodal heap" => Together(Count, 4, 6)
    /\ subject = "action heap" => Together(Count, 2, 3)
    /\ subject = "search queue" => Sum(Count, first) + Sum(LAMBDA c : c.queue.count, second) <= 3

\* The shape of a canonical set depends on its items alone, its calls, set relations
\* and arrays are exact, a cursor stays beside its items and the fixed stack of the
\* unzip is never too small.  Reading an element or measuring a range looks through
\* the pending tags to what applying each of them in turn would have given.
TreesExact ==
    /\ subject = "zip tree" => Zip!HistoryFree /\ Zip!CallsExact /\ Zip!ArrayExact /\ Zip!RelationsExact
    /\ subject = "zip tree cursor" => ZipCursor!CursorStaysBeside
    /\ subject = "zip tree spines" => ZipSpines!StacksSuffice
    /\ subject = "deep range updates" => UpdatesDeep!VersionsValid /\ UpdatesDeep!ReadsExact

\* The heaps keep their order and their ranks, a nonempty one is never refused, and
\* each call makes of the entries what it promises, with actions waiting at every
\* depth of trees of up to rank two.  The search queue stays balanced with exact
\* winners, its edits are about their own key, its pruned queries find what a scan
\* finds, and a cursor stays beside its entries.
HeapsExact ==
    /\ subject = "brodal heap" /\ TreesSmall => Brodal!HeapsValid /\ Brodal!NeverRefused /\ Brodal!CallsExact
    /\ subject = "deep action heap" => ActionDeep!HeapsValid /\ ActionDeep!NeverRefused
                                     /\ ActionDeep!CallsExact /\ ActionDeep!LongRunsExact({0, 2, 4})
    /\ subject = "search queue" => Search!CursorStaysBeside
    /\ subject = "deep search queue" => SearchDeep!QueuesValid /\ SearchDeep!CallsExact /\ SearchDeep!QueriesExact

\* Every call writes one set, sequence, heap or queue, with what a call may make of
\* the versions there were, and no other; that it is what its own arguments ask
\* for is in TreesExact and HeapsExact.
TreesKeepPromise ==
    [][/\ subject = "zip tree" => Zip!SetKeepsPromise
       /\ subject = "range updates" => Updates!UpdatesKeepPromise
       /\ subject = "brodal heap" => Brodal!HeapKeepsPromise
       /\ subject = "action heap" => Action!HeapKeepsPromise
       /\ subject = "search queue" => Search!QueueKeepsPromise]_vars

-----------------------------------------------------------------------------

\* A run has one of the four kinds of subject.
AncestorsSpec == subject \in Subjects /\ AncestorsInit /\ [][UNCHANGED subject /\ AncestorsNext]_vars
SequencesSpec == subject \in Subjects /\ SequencesInit /\ [][UNCHANGED subject /\ SequencesNext]_vars
RopesSpec == subject \in Subjects /\ RopesInit /\ [][UNCHANGED subject /\ RopesNext]_vars
TreesSpec == subject \in Subjects /\ TreesInit /\ [][UNCHANGED subject /\ TreesNext]_vars
=============================================================================
