----------------------------- MODULE OrderedMap -----------------------------
(***************************************************************************)
(* Histories of one ordered map and of the cursor over it (ordered_map.c    *)
(* and the map cursors of ordered_cursor.c).                                *)
(***************************************************************************)
EXTENDS StampedOrder

CONSTANTS Values
VARIABLES map, gap   \* the map, and where a cursor stands in it; NoCursor when it is none
vars == <<map, gap>>
NoCursor == -1

Cursor(m, position) == [map |-> m, position |-> position]
CursorAtKey(m, k) == Cursor(m, IF IndexOf(m.keys, k) = -1 THEN MapSize(m) ELSE IndexOf(m.keys, k))
PeekPrevious(c) == IF c.position = 0 THEN <<>> ELSE EntryAt(c.map, c.position - 1)
PeekNext(c) == IF c.position = MapSize(c.map) THEN <<>> ELSE EntryAt(c.map, c.position)
Seek(c, position) == IF position > MapSize(c.map) THEN c ELSE Cursor(c.map, position)
MovePrevious(c) == IF c.position = 0 THEN c ELSE Seek(c, c.position - 1)
MoveNext(c) == Seek(c, c.position + 1)
Published(c, m, position) == IF m = Unset THEN c ELSE Cursor(m, position)

CursorInsert(c, k, v) == Published(c, MapInsert(c.map, c.position, k, v), c.position + 1)

\* The cursor goes to a key that is there already.
TryInsert(c, k, v) ==
    IF IndexOf(c.map.keys, k) # -1 THEN Cursor(c.map, IndexOf(c.map.keys, k)) ELSE CursorInsert(c, k, v)
SetNextValue(c, v) ==
    IF PeekNext(c) = <<>> THEN c ELSE Published(c, MapSet(c.map, PeekNext(c)[1], v), c.position)
DeletePrevious(c) == IF c.position = 0 THEN c ELSE Published(c, MapRemoveAt(c.map, c.position - 1), c.position - 1)
DeleteNext(c) == IF c.position = MapSize(c.map) THEN c ELSE Published(c, MapRemoveAt(c.map, c.position), c.position)

Become(m) == m # Unset /\ gap = NoCursor /\ map' = m /\ UNCHANGED gap
Now == Cursor(map, gap)
Edit(c) == map' = c.map /\ gap' = c.position
Indices == 0..(Cardinality({ClassOf[x] : x \in Items}) - 1)

Insert(k, v) ==
    \/ Become(MapTryAdd(map, k, v)) \/ Become(MapAdd(map, k, v)) \/ Become(MapAddFirst(map, k, v))
    \/ Become(MapSet(map, k, v)) \/ \E i \in Indices : Become(MapInsert(map, i, k, v))
Move(k) ==
    Become(MapMoveToFirst(map, k)) \/ Become(MapMoveToLast(map, k)) \/ \E i \in Indices : Become(MapMoveTo(map, i, k))
Delete(k) == Become(MapRemove(map, k)) \/ \E i \in Indices : Become(MapRemoveAt(map, i))
Rearrange == Become(MapReverse(map)) \/ Become(MapSort(map)) \/ Become(MapClear(map))
TakeRange ==
    \E i \in Indices :
       Become(MapTake(map, i)) \/ Become(MapDrop(map, i)) \/ \E n \in Indices : Become(MapGetRange(map, i, n))
OpenCursor == gap = NoCursor /\ \/ \E i \in 0..MapSize(map) : Edit(Cursor(map, i))
                                \/ \E k \in Items : Edit(CursorAtKey(map, k))
EditCursor ==
    /\ gap # NoCursor
    /\ \/ Edit(MovePrevious(Now)) \/ Edit(MoveNext(Now)) \/ Edit(DeletePrevious(Now)) \/ Edit(DeleteNext(Now))
       \/ \E k \in Items, v \in Values : Edit(TryInsert(Now, k, v)) \/ Edit(CursorInsert(Now, k, v))
       \/ \E v \in Values : Edit(SetNextValue(Now, v))
       \/ \E i \in Indices : Edit(Seek(Now, i))
Snapshot == gap # NoCursor /\ gap' = NoCursor /\ UNCHANGED map

Init == map = EmptyMap /\ gap = NoCursor
Next ==
    \/ \E k \in Items : Move(k) \/ Delete(k) \/ \E v \in Values : Insert(k, v)
    \/ Rearrange \/ TakeRange \/ OpenCursor \/ EditCursor \/ Snapshot
Spec == Init /\ [][Next]_vars

-----------------------------------------------------------------------------
\* The keys in order and the keys with values are the same keys, though each
\* edit changes first the one and then the other.
KeysAndValuesAgree == ValidMap(map) /\ gap \in -1..MapSize(map)

Place(q, k) == SelectInSeq(q, LAMBDA e : ClassOf[e[1]] = ClassOf[k])
Gives(m, q) == m # Unset /\ MapVisit(m) = q
\* What every operation does to the sequence of entries: a key keeps its place
\* and its first representative when its value changes, and takes its value
\* along when it moves.
MapOperationsExact ==
    LET q == MapVisit(map) IN
    /\ \A k \in Items :
          /\ MapTryGet(map, k) = IF Place(q, k) = 0 THEN <<>> ELSE q[Place(q, k)]
          /\ Gives(MapRemove(map, k), SelectSeq(q, LAMBDA e : ClassOf[e[1]] # ClassOf[k]))
          /\ \A v \in Values, i \in 0..Len(q) :
                IF Place(q, k) = 0
                THEN Gives(MapInsert(map, i, k, v), InsertAt(q, i + 1, <<k, v>>)) /\ Gives(MapSet(map, k, v), Append(q, <<k, v>>))
                ELSE /\ MapInsert(map, i, k, v) = Unset /\ MapTryAdd(map, k, v) = map
                     /\ Gives(MapSet(map, k, v), [q EXCEPT ![Place(q, k)][2] = IF SameValue(@, v) THEN @ ELSE v])
          /\ Place(q, k) > 0 => \A i \in 0..(Len(q) - 1) :
                LET p == Place(q, k) IN Gives(MapMoveTo(map, i, k), InsertAt(RemoveAt(q, p), i + 1, q[p]))
    /\ \A i \in 0..Len(q) : \A n \in 0..(Len(q) - i) : Gives(MapGetRange(map, i, n), SubSeq(q, i + 1, i + n))
    /\ Gives(MapReverse(map), Reverse(q))
    /\ \A r \in {MapVisit(MapSort(map))} :
          ToSet(r) = ToSet(q) /\ Len(r) = Len(q) /\ \A i \in 2..Len(r) : r[i - 1][2] <= r[i][2]

Before(c) == SubSeq(MapVisit(c.map), 1, c.position)
After(c) == SubSeq(MapVisit(c.map), c.position + 1, MapSize(c.map))
\* An edit at a cursor touches one entry beside it; asked for a key that is
\* there, the cursor stands before that key.
MapCursorBeside ==
    gap # NoCursor =>
       /\ \A k \in Items, v \in Values :
             \A c \in {TryInsert(Now, k, v)} :
                 IF HasKey(map, k) THEN c.map = map /\ PeekNext(c) # <<>> /\ ClassOf[PeekNext(c)[1]] = ClassOf[k] /\ CursorInsert(Now, k, v) = Now
                 ELSE Before(c) = Append(Before(Now), <<k, v>>) /\ After(c) = After(Now) /\ PeekPrevious(c) = <<k, v>>
       /\ gap > 0 => \A c \in {DeletePrevious(Now)} : Before(c) = Front(Before(Now)) /\ After(c) = After(Now)
       /\ gap < MapSize(map) =>
             /\ Before(DeleteNext(Now)) = Before(Now) /\ After(DeleteNext(Now)) = Tail(After(Now))
             /\ \A v \in Values : \A c \in {SetNextValue(Now, v)} :
                   Before(c) = Before(Now) /\ Tail(After(c)) = Tail(After(Now)) /\ SameValue(PeekNext(c)[2], v)

-----------------------------------------------------------------------------
(***************************************************************************)
(* Histories of one ordered multimap and of the cursor over its pairs       *)
(* (ordered_multimap.c and the multimap cursors of ordered_cursor.c): an    *)
(* ordered map from keys to ordered sets of values, and the number of       *)
(* pairs.  A cursor counts pairs, and finds a pair by walking.              *)
(***************************************************************************)

CONSTANTS Keys, Members,   \* items that are keys and items that are values
          MaxPairs         \* the largest int64_t

EmptyMultimap == [groups |-> EmptyMap, pairs |-> 0]
GroupOf(m, k) == IF HasKey(m.groups, k) THEN m.groups.values[ClassOf[k]] ELSE EmptySet
HasPair(m, k, v) == HasKey(m.groups, k) /\ SetContains(GroupOf(m, k), v)
PublishPairs(groups, pairs) == IF groups = Unset THEN Unset ELSE [groups |-> groups, pairs |-> pairs]
VisitPairs(m) ==
    FoldLeft(LAMBDA q, e : q \o [i \in 1..SizeOf(e[2]) |-> <<e[1], ItemsOf(e[2])[i]>>], <<>>, MapVisit(m.groups))

WithMore(m, k, values) ==
    IF values = Unset THEN Unset
    ELSE IF HasKey(m.groups, k) /\ values = GroupOf(m, k) THEN m
    ELSE IF m.pairs = MaxPairs THEN Unset
    ELSE PublishPairs(IF HasKey(m.groups, k) THEN MapSet(m.groups, k, values) ELSE MapAdd(m.groups, k, values), m.pairs + 1)
MultimapAdd(m, k, v) == WithMore(m, k, SetAdd(GroupOf(m, k), v))

\* A key goes with its last value.
WithLess(m, k, values) ==
    PublishPairs(IF values.order = <<>> THEN MapRemove(m.groups, k) ELSE MapSet(m.groups, k, values), m.pairs - 1)
MultimapRemove(m, k, v) == IF ~HasPair(m, k, v) THEN m ELSE WithLess(m, k, SetRemove(GroupOf(m, k), v))

RemoveKey(m, k) ==
    IF ~HasKey(m.groups, k) THEN m ELSE PublishPairs(MapRemove(m.groups, k), m.pairs - SizeOf(GroupOf(m, k)))
MultimapClear(m) == IF m.pairs = 0 THEN m ELSE PublishPairs(MapClear(m.groups), 0)

-----------------------------------------------------------------------------
PairAt(m, rank) == IF rank < 0 \/ rank >= m.pairs THEN <<>> ELSE VisitPairs(m)[rank + 1]
FirstPair(m, test(_)) == LET at == SelectInSeq(VisitPairs(m), test) IN Cursor(m, IF at = 0 THEN m.pairs ELSE at - 1)
CursorAtPair(m, k, v) == FirstPair(m, LAMBDA e : ClassOf[e[1]] = ClassOf[k] /\ ClassOf[e[2]] = ClassOf[v])
CursorAtGroup(m, k) == FirstPair(m, LAMBDA e : ClassOf[e[1]] = ClassOf[k])
PairSeek(c, position) == IF position < 0 \/ position > c.map.pairs THEN c ELSE Cursor(c.map, position)

\* The gap after the last pair of a key, the end when it has none.
GroupEnd(m, k) ==
    LET at == SelectLastInSeq(VisitPairs(m), LAMBDA e : ClassOf[e[1]] = ClassOf[k]) IN IF at = 0 THEN m.pairs ELSE at
TryAddPair(c, k, v) ==
    LET With(m) == IF HasPair(c.map, k, v) \/ m = Unset THEN c ELSE Cursor(m, GroupEnd(m, k))
    IN  With(MultimapAdd(c.map, k, v))
\* The pair at a rank is removed by its key and value.
DeletePair(c, rank, position) ==
    IF PairAt(c.map, rank) = <<>> THEN c
    ELSE Cursor(MultimapRemove(c.map, PairAt(c.map, rank)[1], PairAt(c.map, rank)[2]), position)
DeletePreviousPair(c) == IF c.position = 0 THEN c ELSE DeletePair(c, c.position - 1, c.position - 1)
DeleteNextPair(c) == IF c.position = c.map.pairs THEN c ELSE DeletePair(c, c.position, c.position)

-----------------------------------------------------------------------------
AddOne(k, v) == Become(MultimapAdd(map, k, v))
DeleteOne(k, v) == Become(MultimapRemove(map, k, v))
DeleteKey(k) == Become(RemoveKey(map, k))
Clear == Become(MultimapClear(map))
OpenPairCursor ==
    /\ gap = NoCursor
    /\ \/ \E i \in 0..map.pairs : Edit(Cursor(map, i))
       \/ \E k \in Keys : Edit(CursorAtGroup(map, k)) \/ \E v \in Members : Edit(CursorAtPair(map, k, v))
EditPairCursor ==
    /\ gap # NoCursor
    /\ \/ Edit(PairSeek(Now, gap - 1)) \/ Edit(PairSeek(Now, gap + 1)) \/ Edit(DeletePreviousPair(Now)) \/ Edit(DeleteNextPair(Now))
       \/ \E k \in Keys, v \in Members : Edit(TryAddPair(Now, k, v))

MultimapInit == map = EmptyMultimap /\ gap = NoCursor
MultimapNext ==
    \/ \E k \in Keys : DeleteKey(k) \/ \E v \in Members : AddOne(k, v) \/ DeleteOne(k, v)
    \/ Clear \/ OpenPairCursor \/ EditPairCursor \/ Snapshot
MultimapSpec == MultimapInit /\ [][MultimapNext]_vars

-----------------------------------------------------------------------------
\* The number of pairs is that of the groups together, which are never empty,
\* and the orders of keys and of each group are indexed.
PairsCounted ==
    /\ ValidMap(map.groups) /\ gap \in -1..map.pairs /\ map.pairs <= MaxPairs
    /\ map.pairs = Len(VisitPairs(map))
    /\ \A c \in DOMAIN map.groups.values : ValidSet(map.groups.values[c]) /\ map.groups.values[c].order # <<>>

EqualPairs(e, f) == ClassOf[e[1]] = ClassOf[f[1]] /\ ClassOf[e[2]] = ClassOf[f[2]]
\* Pairs stay grouped by key in the order of their first additions: a new value
\* joins the end of its key's group, and no removal disturbs the rest.
PairsExact ==
    LET q == VisitPairs(map) IN
    \A k \in Keys, v \in Members :
       LET pair  == <<k, v>>
           last  == SelectLastInSeq(q, LAMBDA e : ClassOf[e[1]] = ClassOf[k])
           there == \E i \in DOMAIN q : EqualPairs(q[i], pair)
       IN  /\ \A added \in {MultimapAdd(map, k, v)} :
                 IF added = Unset THEN ~there /\ Len(q) = MaxPairs
                 ELSE VisitPairs(added) = IF there THEN q ELSE IF last = 0 THEN Append(q, pair)
                                          ELSE InsertAt(q, last + 1, <<q[last][1], v>>)
           /\ VisitPairs(MultimapRemove(map, k, v)) = SelectSeq(q, LAMBDA e : ~EqualPairs(e, pair))
           /\ VisitPairs(RemoveKey(map, k)) = SelectSeq(q, LAMBDA e : ClassOf[e[1]] # ClassOf[k])

\* A cursor that added a pair stands just after it, and one that deleted a pair
\* stands where the pair was.
PairCursorBeside ==
    gap # NoCursor =>
       /\ \A k \in Keys, v \in Members :
             \A c \in {TryAddPair(Now, k, v)} : c # Now => EqualPairs(PairAt(c.map, c.position - 1), <<k, v>>)
       /\ gap > 0 => \A c \in {DeletePreviousPair(Now)} :
             VisitPairs(c.map) = RemoveAt(VisitPairs(map), gap) /\ c.position = gap - 1
       /\ gap < map.pairs => \A c \in {DeleteNextPair(Now)} :
             VisitPairs(c.map) = RemoveAt(VisitPairs(map), gap + 1) /\ c.position = gap
=============================================================================
