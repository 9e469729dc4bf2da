---------------------------- MODULE StampedOrder ----------------------------
(***************************************************************************)
(* The values of ordered_set.c: a sequence of items, each with a stamp that *)
(* grows along it, and an index from an item's equality class to its stamp. *)
(* A place between two items takes a stamp between theirs; when there is    *)
(* none, the whole sequence is given new stamps around zero.                *)
(***************************************************************************)
EXTENDS Integers, SequencesExt, FiniteSetsExt, TLC

CONSTANTS Items,
          ClassOf,             \* the equality class of an item
          Rank,                \* what a comparison passed to sort goes by
          MaxStamp,            \* the largest int64_t
          StampGap,            \* 2^20 in the code
          Unset                \* the result of an operation that is refused

StampAssumption == MaxStamp > 0 /\ StampGap > 0 /\ StampGap <= MaxStamp
MinStamp == -MaxStamp - 1

EmptySet == [order |-> <<>>, stamps |-> <<>>]
SizeOf(s) == Len(s.order)
ItemsOf(s) == [i \in DOMAIN s.order |-> s.order[i].item] @@ <<>>
SetContains(s, x) == ClassOf[x] \in DOMAIN s.stamps
TryGetValue(s, x) == IF SetContains(s, x) THEN s.stamps[ClassOf[x]].item ELSE x
SetIndex(stamps, x, n) == [c \in {ClassOf[x]} |-> [item |-> x, stamp |-> n]] @@ stamps

\* The position of a stamp by bisection, -1 when nothing has it.
LocateStamp(order, stamp) ==
    LET search[low \in 0..Len(order), high \in 0..Len(order)] ==
            IF low >= high THEN low
            ELSE LET middle == low + (high - low) \div 2
                 IN  IF order[middle + 1].stamp < stamp THEN search[middle + 1, high] ELSE search[low, middle]
        at == search[0, Len(order)]
    IN  IF at < Len(order) /\ order[at + 1].stamp = stamp THEN at ELSE -1
IndexOf(s, x) == IF SetContains(s, x) THEN LocateStamp(s.order, s.stamps[ClassOf[x]].stamp) ELSE -1

Below(n) == IF n >= MinStamp + StampGap THEN {n - StampGap} ELSE IF n > MinStamp THEN {n - 1} ELSE {}
Above(n) == IF n <= MaxStamp - StampGap THEN {n + StampGap} ELSE IF n < MaxStamp THEN {n + 1} ELSE {}

\* The stamp of a new item at an index, or none.
ChooseStamp(order, index) ==
    IF order = <<>> THEN {0}
    ELSE IF index = 0 THEN Below(Head(order).stamp)
    ELSE IF index = Len(order) THEN Above(Last(order).stamp)
    ELSE LET distance == order[index + 1].stamp - order[index].stamp
         IN  IF distance <= 1 THEN {} ELSE {order[index].stamp + distance \div 2}

\* Stamps from zero up.
RebuildUpwards(items) ==
    IF Len(items) > (MaxStamp \div StampGap) + 1 THEN Unset
    ELSE FoldLeft(LAMBDA s, x : [order  |-> Append(s.order, [stamp |-> StampGap * SizeOf(s), item |-> x]),
                                 stamps |-> SetIndex(s.stamps, x, StampGap * SizeOf(s))], EmptySet, items)

RebuildCells(items) ==
    LET left  == Len(items) \div 2
        right == IF items = <<>> THEN 0 ELSE Len(items) - 1 - left
        limit == MaxStamp \div StampGap
        append(s, x) == LET n == StampGap * (SizeOf(s) - left)
                        IN  [order |-> Append(s.order, [stamp |-> n, item |-> x]), stamps |-> SetIndex(s.stamps, x, n)]
    IN  IF left > limit \/ right > limit THEN Unset ELSE FoldLeft(append, EmptySet, items)

InsertCell(s, index, x) ==
    IF ChooseStamp(s.order, index) = {} THEN RebuildCells(InsertAt(ItemsOf(s), index + 1, x))
    ELSE LET n == CHOOSE n \in ChooseStamp(s.order, index) : TRUE
         IN  [order |-> InsertAt(s.order, index + 1, [stamp |-> n, item |-> x]), stamps |-> SetIndex(s.stamps, x, n)]

SetInsert(s, index, x) ==
    IF index > SizeOf(s) THEN Unset ELSE IF SetContains(s, x) THEN s ELSE InsertCell(s, index, x)
SetAdd(s, x) == SetInsert(s, SizeOf(s), x)
SetAddFirst(s, x) == SetInsert(s, 0, x)
FromItems(q) == FoldLeft(LAMBDA s, x : IF s = Unset THEN s ELSE SetAdd(s, x), EmptySet, q)

\* The index is that of the item's final place, once it was taken out.
MoveFrom(s, old, index) ==
    IF old = index THEN s
    ELSE InsertCell([s EXCEPT !.order = RemoveAt(@, old + 1)], index, s.order[old + 1].item)
MoveTo(s, index, x) ==
    IF index >= SizeOf(s) \/ ~SetContains(s, x) THEN Unset ELSE MoveFrom(s, IndexOf(s, x), index)
MoveToFirst(s, x) == MoveTo(s, 0, x)
MoveToLast(s, x) == IF s.order = <<>> THEN Unset ELSE MoveTo(s, SizeOf(s) - 1, x)

Without(stamps, gone) == [c \in DOMAIN stamps \ gone |-> stamps[c]] @@ <<>>
SetRemoveAt(s, index) ==
    IF index >= SizeOf(s) THEN Unset
    ELSE [order |-> RemoveAt(s.order, index + 1), stamps |-> Without(s.stamps, {ClassOf[s.order[index + 1].item]})]
SetRemove(s, x) ==
    IF ~SetContains(s, x) THEN s
    ELSE [order |-> RemoveAt(s.order, IndexOf(s, x) + 1), stamps |-> Without(s.stamps, {ClassOf[x]})]

\* The index of a range is built from it, or from the whole by taking the rest
\* out, whichever is less work.
ClassesOf(order) == {ClassOf[order[i].item] : i \in DOMAIN order}
BuildMap(order) == [c \in ClassesOf(order) |-> LET i == CHOOSE i \in DOMAIN order : ClassOf[order[i].item] = c IN order[i]] @@ <<>>

GetRange(s, index, count) ==
    LET part == SubSeq(s.order, index + 1, index + count)
        rest == SubSeq(s.order, 1, index) \o SubSeq(s.order, index + count + 1, SizeOf(s))
    IN  IF index + count > SizeOf(s) THEN Unset ELSE IF count = SizeOf(s) THEN s ELSE IF count = 0 THEN EmptySet
        ELSE [order |-> part, stamps |-> IF count <= SizeOf(s) - count THEN BuildMap(part) ELSE Without(s.stamps, ClassesOf(rest))]
Take(s, count) == GetRange(s, 0, count)
Drop(s, count) == IF count > SizeOf(s) THEN Unset ELSE GetRange(s, count, SizeOf(s) - count)

SetReverse(s) == IF SizeOf(s) <= 1 THEN s ELSE RebuildCells(Reverse(ItemsOf(s)))

RECURSIVE MergeSortCells(_, _)
MergeSortCells(q, rank) ==
    LET middle == Len(q) \div 2
        merged[a \in Seq(Items), b \in Seq(Items)] ==
            IF a = <<>> THEN b ELSE IF b = <<>> THEN a
            ELSE IF rank[Head(a)] <= rank[Head(b)] THEN <<Head(a)>> \o merged[Tail(a), b] ELSE <<Head(b)>> \o merged[a, Tail(b)]
    IN  IF Len(q) < 2 THEN q
        ELSE merged[MergeSortCells(SubSeq(q, 1, middle), rank), MergeSortCells(SubSeq(q, middle + 1, Len(q)), rank)]
\* A set that is in this order already keeps its stamps.
Reordered(s, items) == IF items = ItemsOf(s) THEN s ELSE RebuildCells(items)
SortBy(s, rank) == Reordered(s, MergeSortCells(ItemsOf(s), rank))

Kinds == {"union", "intersect", "except", "symmetric"}

\* What is left of each operand; a receiver that keeps all it has is the result.
ApplyAlgebra(s, t, kind) ==
    LET outside == SelectSeq(ItemsOf(s), LAMBDA x : ~SetContains(t, x))
        inside  == SelectSeq(ItemsOf(s), LAMBDA x : SetContains(t, x))
        added   == SelectSeq(ItemsOf(t), LAMBDA x : ~SetContains(s, x))
    IN  Reordered(s, CASE kind = "union" -> ItemsOf(s) \o added
                       [] kind = "intersect" -> inside
                       [] kind = "except" -> outside
                       [] kind = "symmetric" -> outside \o added)

AllIn(q, s) == \A i \in DOMAIN q : SetContains(s, q[i])
Relations == {"subset", "properSubset", "superset", "properSuperset", "overlaps", "equals"}
ApplyRelation(s, t, kind) ==
    CASE kind = "subset" -> AllIn(ItemsOf(s), t)
      [] kind = "properSubset" -> AllIn(ItemsOf(s), t) /\ SizeOf(s) < SizeOf(t)
      [] kind = "equals" -> AllIn(ItemsOf(s), t) /\ SizeOf(s) = SizeOf(t)
      [] kind = "superset" -> AllIn(ItemsOf(t), s)
      [] kind = "properSuperset" -> AllIn(ItemsOf(t), s) /\ SizeOf(s) > SizeOf(t)
      [] kind = "overlaps" -> \E i \in DOMAIN s.order : SetContains(t, s.order[i].item)

\* Stamps grow along the order and the index tells each item's own.
ValidSet(s) ==
    /\ \A i \in 2..SizeOf(s) : s.order[i - 1].stamp < s.order[i].stamp
    /\ DOMAIN s.stamps = ClassesOf(s.order) /\ Cardinality(DOMAIN s.stamps) = SizeOf(s)
    /\ \A i \in DOMAIN s.order : s.stamps[ClassOf[s.order[i].item]] = s.order[i]

-----------------------------------------------------------------------------
(***************************************************************************)
(* The values of ordered_map.c: an ordered set of keys and a hash map from  *)
(* the keys' classes to values.  Each operation edits one, then the other,  *)
(* and publishes both or neither.                                           *)
(***************************************************************************)

CONSTANTS SameValue(_, _)   \* the equality of values

EmptyMap == [keys |-> EmptySet, values |-> <<>>]
MapSize(m) == SizeOf(m.keys)
HasKey(m, k) == ClassOf[k] \in DOMAIN m.values
EntryAt(m, index) == LET k == m.keys.order[index + 1].item IN <<k, m.values[ClassOf[k]]>>
MapTryGet(m, k) == IF HasKey(m, k) THEN <<TryGetValue(m.keys, k), m.values[ClassOf[k]]>> ELSE <<>>
Adopt(keys, values) == IF keys = Unset THEN Unset ELSE [keys |-> keys, values |-> values]
Put(values, k, v) == [c \in {ClassOf[k]} |-> v] @@ values

InsertCore(m, index, k, v) ==
    IF index > MapSize(m) THEN Unset
    ELSE IF HasKey(m, k) THEN m ELSE Adopt(SetInsert(m.keys, index, k), Put(m.values, k, v))
MapTryAdd(m, k, v) == InsertCore(m, MapSize(m), k, v)
MapInsert(m, index, k, v) == IF HasKey(m, k) THEN Unset ELSE InsertCore(m, index, k, v)
MapAdd(m, k, v) == MapInsert(m, MapSize(m), k, v)
MapAddFirst(m, k, v) == MapInsert(m, 0, k, v)

\* A value equal to the one there is changes nothing.
MapSet(m, k, v) ==
    IF ~HasKey(m, k) THEN InsertCore(m, MapSize(m), k, v)
    ELSE IF SameValue(m.values[ClassOf[k]], v) THEN m ELSE Adopt(m.keys, Put(m.values, k, v))

MapReorder(m, keys) == Adopt(keys, m.values)
MapMoveTo(m, index, k) == MapReorder(m, MoveTo(m.keys, index, k))
MapMoveToFirst(m, k) == MapReorder(m, MoveToFirst(m.keys, k))
MapMoveToLast(m, k) == MapReorder(m, MoveToLast(m.keys, k))
MapRemove(m, k) == IF ~HasKey(m, k) THEN m ELSE Adopt(SetRemove(m.keys, k), Without(m.values, {ClassOf[k]}))

MapRemoveAt(m, index) ==
    IF index >= MapSize(m) THEN Unset
    ELSE Adopt(SetRemoveAt(m.keys, index), Without(m.values, {ClassOf[m.keys.order[index + 1].item]}))
MapClear(m) == Adopt(EmptySet, <<>>)

ValuesForKeys(m, keys) == [c \in ClassesOf(keys.order) |-> m.values[c]] @@ <<>>
MapGetRange(m, index, count) ==
    LET Of(keys) == IF keys = Unset THEN Unset ELSE Adopt(keys, ValuesForKeys(m, keys))
    IN  Of(GetRange(m.keys, index, count))
MapTake(m, count) == MapGetRange(m, 0, count)
MapDrop(m, count) == IF count > MapSize(m) THEN Unset ELSE MapGetRange(m, count, MapSize(m) - count)
MapReverse(m) == MapReorder(m, SetReverse(m.keys))
\* A comparison sees the value of each key too.
CompareKeys(m) == [x \in Items |-> IF HasKey(m, x) THEN m.values[ClassOf[x]] ELSE 0]
MapSort(m) == MapReorder(m, SortBy(m.keys, CompareKeys(m)))

MapVisit(m) == [i \in 1..MapSize(m) |-> EntryAt(m, i - 1)] @@ <<>>
ValidMap(m) == ValidSet(m.keys) /\ DOMAIN m.values = ClassesOf(m.keys.order)
=============================================================================
