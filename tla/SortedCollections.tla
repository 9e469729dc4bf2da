------------------------- MODULE SortedCollections -------------------------
(***************************************************************************)
(* The sorted multiset, set and map of fingertree.c and their rank         *)
(* cursors.  A version is the sequence its tree holds, in key order; items *)
(* the comparer takes for equal are told apart by their tag.  Positions    *)
(* come from tree_bound, which finds the first item a monotone predicate   *)
(* holds of.  A call leaves its result in an empty handle or cursor, or in *)
(* place of its source.                                                    *)
(***************************************************************************)
EXTENDS Naturals, SequencesExt

CONSTANTS Keys,     \* numbers, the comparer's order
          Tags, Handles, Cursors, Unset,
          MaxSize   \* items of the largest collection
VARIABLES kind, coll, cur

vars == <<kind, coll, cur>>

Held == {h \in Handles : coll[h] # Unset}
Open == {c \in Cursors : cur[c] # Unset}
Item(k, t) == [key |-> k, tag |-> t]

PutAt(q, i, e) == SubSeq(q, 1, i) \o <<e>> \o SubSeq(q, i + 1, Len(q))
DropAt(q, i) == RemoveAt(q, i + 1)

Lower(q, k) == Len(SelectSeq(q, LAMBDA e : e.key < k))
Upper(q, k) == Len(SelectSeq(q, LAMBDA e : e.key <= k))

\* A map finds its one item of a key from the item tree_bound hit.
MapUpper(q, k) ==
    LET l == Lower(q, k) IN IF l < Len(q) /\ q[l + 1].key = k THEN l + 1 ELSE l

HoldsKey(q, k) == Lower(q, k) # Upper(q, k)
CountOf(q, k) == Upper(q, k) - Lower(q, k)

\* The new item goes in front of the ones equal to it.
MultisetAddInFront(q, e) == PutAt(q, Lower(q, e.key), e)

MultisetAdd(q, e) == PutAt(q, Upper(q, e.key), e)
RemoveOne(q, k) == IF HoldsKey(q, k) THEN DropAt(q, Lower(q, k)) ELSE q
SetAdd(q, e) == IF HoldsKey(q, e.key) THEN q ELSE PutAt(q, Lower(q, e.key), e)

MapSet(q, e) ==
    LET l == Lower(q, e.key)
        without == IF l # MapUpper(q, e.key) THEN DropAt(q, l) ELSE q
    IN  PutAt(without, l, e)
MapTryInsert(q, e) == IF Lower(q, e.key) # MapUpper(q, e.key) THEN q ELSE PutAt(q, Lower(q, e.key), e)
MapRemove(q, k) == IF Lower(q, k) = MapUpper(q, k) THEN q ELSE DropAt(q, Lower(q, k))
MapTryGet(q, k) == IF Lower(q, k) = MapUpper(q, k) THEN Unset ELSE q[Lower(q, k) + 1].tag

-----------------------------------------------------------------------------
\* Calls on collections.

\* These calls write a fresh collection.  With h = s the step stands for such a call
\* and the dispose and move by which its caller puts the result in place.
Result(s, h, q) ==
    /\ s \in Held /\ (h = s \/ h \notin Held) /\ Len(q) <= MaxSize
    /\ coll' = [coll EXCEPT ![h] = q] /\ UNCHANGED <<kind, cur>>

CollectionInit(h) == h \notin Held /\ coll' = [coll EXCEPT ![h] = <<>>] /\ UNCHANGED <<kind, cur>>
CollectionCopy(s, h) == s \in Held /\ Result(s, h, coll[s])
MapMove(s, h) ==
    /\ kind = "map" /\ s \in Held /\ h # s /\ coll' = [coll EXCEPT ![h] = coll[s], ![s] = Unset]
    /\ UNCHANGED <<kind, cur>>
CollectionDispose(h) == h \in Held /\ coll' = [coll EXCEPT ![h] = Unset] /\ UNCHANGED <<kind, cur>>

Add(s, h, e) == kind = "multiset" /\ s \in Held /\ Result(s, h, MultisetAdd(coll[s], e))
RemoveItem(s, h, k) == kind # "map" /\ s \in Held /\ Result(s, h, RemoveOne(coll[s], k))
AddToSet(s, h, e) == kind = "set" /\ s \in Held /\ Result(s, h, SetAdd(coll[s], e))
SetEntry(s, h, e) == kind = "map" /\ s \in Held /\ Result(s, h, MapSet(coll[s], e))
TryInsertEntry(s, h, e) == kind = "map" /\ s \in Held /\ Result(s, h, MapTryInsert(coll[s], e))
\* An entry that is there is an error, and its caller gets no map.
InsertEntry(s, h, e) ==
    /\ kind = "map" /\ s \in Held /\ Lower(coll[s], e.key) = MapUpper(coll[s], e.key)
    /\ Result(s, h, MapTryInsert(coll[s], e))
RemoveEntry(s, h, k) == kind = "map" /\ s \in Held /\ Result(s, h, MapRemove(coll[s], k))

-----------------------------------------------------------------------------
\* Calls on cursors.

Stage(q, p) == [seq |-> q, position |-> p]
Valid(c) == c.position <= Len(c.seq)
Peek(q, p) == IF p >= Len(q) THEN Unset ELSE q[p + 1]
PeekPrevious(c) == IF c.position = 0 THEN Unset ELSE Peek(c.seq, c.position - 1)
PeekNext(c) == Peek(c.seq, c.position)

AddMoves(c, e) == Stage(MultisetAdd(c.seq, e), Upper(c.seq, e.key) + 1)
SetAddMoves(c, e) == Stage(SetAdd(c.seq, e), Lower(c.seq, e.key) + 1)
MapInsertMoves(c, e) ==
    LET l == Lower(c.seq, e.key)
    IN  Stage(MapTryInsert(c.seq, e), IF l = MapUpper(c.seq, e.key) THEN l + 1 ELSE l)
MapSetMoves(c, e) ==
    LET l == Lower(c.seq, e.key)
    IN  Stage(MapSet(c.seq, e), IF l = MapUpper(c.seq, e.key) THEN l + 1 ELSE l)
SetNextValue(c, t) == Stage(MapSet(c.seq, Item(PeekNext(c).key, t)), c.position)

\* A map takes out the key it reads at the rank, the others the rank itself.
DeleteAt(c, rank, p) ==
    Stage(IF kind = "map" THEN MapRemove(c.seq, c.seq[rank + 1].key) ELSE DropAt(c.seq, rank), p)

Publish(s, d, c) ==
    /\ s \in Open /\ (d = s \/ d \notin Open) /\ Len(c.seq) <= MaxSize
    /\ cur' = [cur EXCEPT ![d] = c] /\ UNCHANGED <<kind, coll>>

GetCursor(h, c, p) ==
    /\ h \in Held /\ c \notin Open /\ p <= Len(coll[h])
    /\ cur' = [cur EXCEPT ![c] = Stage(coll[h], p)] /\ UNCHANGED <<kind, coll>>
GetCursorLowerBound(h, c, k) == h \in Held /\ GetCursor(h, c, Lower(coll[h], k))
GetCursorUpperBound(h, c, k) == h \in Held /\ GetCursor(h, c, Upper(coll[h], k))

CursorCopy(s, d) == s # d /\ d \notin Open /\ Publish(s, d, cur[s])
CursorMove(s, d) ==
    s \in Open /\ s # d /\ cur' = [cur EXCEPT ![d] = cur[s], ![s] = Unset] /\ UNCHANGED <<kind, coll>>
CursorDispose(c) == c \in Open /\ cur' = [cur EXCEPT ![c] = Unset] /\ UNCHANGED <<kind, coll>>
SeekRank(s, d, p) == s \in Open /\ p <= Len(cur[s].seq) /\ Publish(s, d, Stage(cur[s].seq, p))
MovePrevious(s, d) == s \in Open /\ cur[s].position > 0 /\ SeekRank(s, d, cur[s].position - 1)
MoveNext(s, d) == s \in Open /\ cur[s].position < Len(cur[s].seq) /\ SeekRank(s, d, cur[s].position + 1)
CursorAdd(s, d, e) == kind = "multiset" /\ s \in Open /\ Publish(s, d, AddMoves(cur[s], e))
CursorSetAdd(s, d, e) == kind = "set" /\ s \in Open /\ Publish(s, d, SetAddMoves(cur[s], e))
CursorTryInsert(s, d, e) == kind = "map" /\ s \in Open /\ Publish(s, d, MapInsertMoves(cur[s], e))
CursorInsert(s, d, e) ==
    kind = "map" /\ s \in Open /\ MapTryGet(cur[s].seq, e.key) = Unset /\ CursorTryInsert(s, d, e)
CursorSet(s, d, e) == kind = "map" /\ s \in Open /\ Publish(s, d, MapSetMoves(cur[s], e))
CursorSetNextValue(s, d, t) ==
    kind = "map" /\ s \in Open /\ cur[s].position < Len(cur[s].seq) /\ Publish(s, d, SetNextValue(cur[s], t))
DeletePrevious(s, d) ==
    /\ s \in Open /\ cur[s].position > 0
    /\ LET p == cur[s].position - 1 IN Publish(s, d, DeleteAt(cur[s], p, p))
DeleteNext(s, d) ==
    /\ s \in Open /\ cur[s].position < Len(cur[s].seq)
    /\ LET p == cur[s].position IN Publish(s, d, DeleteAt(cur[s], p, p))
Snapshot(c, h) ==
    c \in Open /\ h \notin Held /\ coll' = [coll EXCEPT ![h] = cur[c].seq] /\ UNCHANGED <<kind, cur>>

-----------------------------------------------------------------------------
Items == [key : Keys, tag : Tags]

Init ==
    /\ kind \in {"multiset", "set", "map"}
    /\ coll = [h \in Handles |-> Unset] /\ cur = [c \in Cursors |-> Unset]

Next ==
    \/ \E h \in Handles : CollectionInit(h) \/ CollectionDispose(h)
    \/ \E s, h \in Handles :
          \/ CollectionCopy(s, h) \/ MapMove(s, h)
          \/ \E k \in Keys : RemoveItem(s, h, k) \/ RemoveEntry(s, h, k)
          \/ \E e \in Items : \/ Add(s, h, e) \/ AddToSet(s, h, e) \/ SetEntry(s, h, e)
                              \/ TryInsertEntry(s, h, e) \/ InsertEntry(s, h, e)
    \/ \E h \in Handles, c \in Cursors :
          \/ Snapshot(c, h) \/ \E p \in 0..MaxSize : GetCursor(h, c, p)
          \/ \E k \in Keys : GetCursorLowerBound(h, c, k) \/ GetCursorUpperBound(h, c, k)
    \/ \E s, d \in Cursors :
          \/ CursorCopy(s, d) \/ CursorMove(s, d) \/ MovePrevious(s, d) \/ MoveNext(s, d)
          \/ DeletePrevious(s, d) \/ DeleteNext(s, d)
          \/ \E p \in 0..MaxSize : SeekRank(s, d, p)
          \/ \E e \in Items : \/ CursorAdd(s, d, e) \/ CursorSetAdd(s, d, e) \/ CursorTryInsert(s, d, e)
                              \/ CursorInsert(s, d, e) \/ CursorSet(s, d, e)
          \/ \E t \in Tags : CursorSetNextValue(s, d, t)
    \/ \E c \in Cursors : CursorDispose(c)

Spec == Init /\ [][Next]_vars

-----------------------------------------------------------------------------
Versions == {coll[h] : h \in Held} \cup {cur[c].seq : c \in Open}
TagsOf(q, k) == [i \in 1..CountOf(q, k) |-> q[Lower(q, k) + i].tag] @@ <<>>

\* A version is in key order, sets and maps hold one item of a key, and what a
\* map finds by the item it hit is what two searches would find.
VersionsSorted ==
    \A q \in Versions :
       /\ \A i, j \in DOMAIN q : i < j => IF kind = "multiset" THEN q[i].key <= q[j].key ELSE q[i].key < q[j].key
       /\ kind # "multiset" => \A k \in Keys : MapUpper(q, k) = Upper(q, k)

\* An edit through a cursor leaves the gap beside the item it was about: after
\* an added or replaced one, in front of an entry that was there already, and
\* where the removed one was.
CursorStaysBeside ==
    \A c \in {cur[d] : d \in Open} :
       /\ Valid(c)
       /\ \A e \in Items :
             /\ kind = "multiset" => PeekPrevious(AddMoves(c, e)) = e
             /\ kind = "set" => PeekPrevious(SetAddMoves(c, e)).key = e.key
             /\ kind = "map" =>
                   IF MapTryGet(c.seq, e.key) = Unset
                   THEN PeekPrevious(MapInsertMoves(c, e)) = e /\ PeekPrevious(MapSetMoves(c, e)) = e
                   ELSE PeekNext(MapInsertMoves(c, e)).key = e.key /\ PeekNext(MapSetMoves(c, e)) = e
       /\ \A p \in 0..(Len(c.seq) - 1) : DeleteAt(c, p, p).seq = DropAt(c.seq, p)
       /\ kind = "map" /\ PeekNext(c) # Unset =>
             \A t \in Tags : PeekNext(SetNextValue(c, t)) = Item(PeekNext(c).key, t)

Holders == Handles \cup Cursors
\* The items each holder keeps for each key, oldest first.
Contents ==
    [h \in Holders |->
        LET q == IF h \in Handles THEN coll[h] ELSE IF cur[h] = Unset THEN Unset ELSE cur[h].seq
        IN  IF q = Unset THEN Unset ELSE [k \in Keys |-> TagsOf(q, k)] @@ <<>>] @@ <<>>

\* What one call makes of the items q of a key: a multiset keeps them all and
\* gives up the oldest, a set keeps the first, a map the last unless it was only
\* asked to insert.  A cursor takes items out by rank.
Added(q) ==
    CASE kind = "multiset" -> {Append(q, t) : t \in Tags}
      [] kind = "set" -> IF q = <<>> THEN {<<t>> : t \in Tags} ELSE {q}
      [] kind = "map" -> {<<t>> : t \in Tags}
Taken(q, byRank) == {RemoveAt(q, i) : i \in {j \in DOMAIN q : byRank \/ j = 1}}
Derived(m, byRank) ==
    {m} \cup UNION {{[m EXCEPT ![k] = q] : q \in Added(m[k]) \cup Taken(m[k], byRank)} : k \in Keys}

\* Every call adds to, takes from or replaces the items of one key as the
\* collection promises, and changes no other collection or cursor.
BagKeepsPromise ==
    /\ UNCHANGED kind
    /\ \E now \in {Contents}, new \in {Contents'} :
          \/ \E h \in Holders :
                /\ \A g \in Holders \ {h} : new[g] = now[g]
                /\ \/ new[h] \in {Unset, [k \in Keys |-> <<>>]}
                   \/ \E s \in Holders : now[s] # Unset /\ new[h] \in Derived(now[s], h \in Cursors)
          \/ \E s, h \in Holders :        \* a move
                /\ s # h /\ \A g \in Holders \ {s, h} : new[g] = now[g]
                /\ new[h] = now[s] /\ new[s] = Unset

-----------------------------------------------------------------------------
(***************************************************************************)
(* The stable priority queue of fingertree.c: a tree of entries in the     *)
(* order of priority and ordinal.  Ordinals are handed out by a counter    *)
(* that travels with the version, so two versions that grew from one give  *)
(* the same ordinals to different entries.                                 *)
(***************************************************************************)
CONSTANTS Priorities,  \* numbers, lower goes first
          Values,
          MaxOrdinal   \* the counter's last value (UINT64_MAX)
VARIABLE queue

Queued == {h \in Handles : queue[h] # Unset}

Entry(v, p, o) == [value |-> v, priority |-> p, ordinal |-> o]

ComparesBefore(a, b) == a.priority < b.priority \/ (a.priority = b.priority /\ a.ordinal < b.ordinal)
UpperBound(entries, e) == Len(SelectSeq(entries, LAMBDA x : ~ComparesBefore(e, x)))

QueueResult(s, h, q) == s \in Queued /\ (h = s \/ h \notin Queued) /\ queue' = [queue EXCEPT ![h] = q]

QueueInit(h) == h \notin Queued /\ queue' = [queue EXCEPT ![h] = [entries |-> <<>>, next |-> 0]]
QueueCopy(s, h) == s \in Queued /\ QueueResult(s, h, queue[s])
QueueMove(s, h) == s \in Queued /\ h # s /\ queue' = [queue EXCEPT ![h] = queue[s], ![s] = Unset]
QueueDispose(h) == h \in Queued /\ queue' = [queue EXCEPT ![h] = Unset]

Push(s, h, v, p) ==
    /\ s \in Queued /\ queue[s].next < MaxOrdinal /\ Len(queue[s].entries) < MaxSize
    /\ LET q == queue[s]
           e == Entry(v, p, q.next)
       IN  QueueResult(s, h, [entries |-> InsertAt(q.entries, UpperBound(q.entries, e) + 1, e), next |-> q.next + 1])

\* Nothing to pop is a copy.
TryPop(s, h) ==
    /\ s \in Queued
    /\ QueueResult(s, h, IF queue[s].entries = <<>> THEN queue[s] ELSE [queue[s] EXCEPT !.entries = Tail(@)])

QueuesInit == queue = [h \in Handles |-> Unset]

QueueNext ==
    \/ \E h \in Handles : QueueInit(h) \/ QueueDispose(h)
    \/ \E s, h \in Handles :
          \/ QueueCopy(s, h) \/ QueueMove(s, h) \/ TryPop(s, h)
          \/ \E v \in Values, p \in Priorities : Push(s, h, v, p)

QueueSpec == QueuesInit /\ [][QueueNext]_queue

-----------------------------------------------------------------------------
\* In every version the entries are in order with distinct ordinals that the
\* counter has passed, so the next one goes in behind its equals.
OrdinalsFresh ==
    \A h \in Queued : LET q == queue[h] IN
       /\ \A i, j \in DOMAIN q.entries : i < j => ComparesBefore(q.entries[i], q.entries[j])
       /\ \A i \in DOMAIN q.entries : q.entries[i].ordinal < q.next

ValuesOf(q, p) ==
    LET mine == SelectSeq(q.entries, LAMBDA e : e.priority = p) IN [i \in DOMAIN mine |-> mine[i].value] @@ <<>>
Lines(q) == [p \in Priorities |-> ValuesOf(q, p)] @@ <<>>

\* Each priority is a waiting line: a push joins the end of its line, a pop takes
\* the first of the most urgent line that is not empty, and no step changes
\* another version.
ServedInTurn ==
    \E now \in {[h \in Handles |-> IF queue[h] = Unset THEN Unset ELSE Lines(queue[h])] @@ <<>>},
       new \in {[h \in Handles |-> IF queue'[h] = Unset THEN Unset ELSE Lines(queue'[h])] @@ <<>>} :
       \/ \E h \in Handles :
             /\ \A g \in Handles \ {h} : new[g] = now[g]
             /\ \/ new[h] = Unset \/ (now[h] = Unset /\ \A p \in Priorities : new[h][p] = <<>>)
                \/ \E s \in Handles : now[s] # Unset /\
                      \/ new[h] = now[s]
                      \/ \E p \in Priorities, v \in Values : new[h] = [now[s] EXCEPT ![p] = Append(@, v)]
                      \/ \E p \in Priorities :
                            /\ now[s][p] # <<>> /\ \A o \in Priorities : o < p => now[s][o] = <<>>
                            /\ new[h] = [now[s] EXCEPT ![p] = Tail(@)]
       \/ \E s, h \in Handles : s # h /\ new = [now EXCEPT ![h] = now[s], ![s] = Unset]
=============================================================================
