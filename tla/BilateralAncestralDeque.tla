---------------------- MODULE BilateralAncestralDeque ----------------------
(***************************************************************************)
(* The bilateral ancestral deque (bilateral_ancestral_deque.c): two        *)
(* intervals (anchor, tail] on paths of one ancestor arena.  The left one  *)
(* is read from its tail upwards, the right one downwards to its tail.     *)
(* Operators that look for a node also say how many level-ancestor queries *)
(* they spend on it.                                                       *)
(***************************************************************************)
EXTENDS IncrementalAncestor

CONSTANTS MaxSource,   \* values of the longest array a deque is built from
          MaxCount     \* where the count of a deque overflows (SIZE_MAX)

A(d) == arena[d.arena]

EmptyAt(n) == [anchor |-> n, base |-> n, tail |-> n, count |-> 0]

Interval(anchor, base, tail, count) ==
    [anchor |-> anchor, base |-> base, tail |-> tail, count |-> count]

EmptyDeque(a) == [arena |-> a, left |-> EmptyAt(Bottom), right |-> EmptyAt(Bottom), count |-> 0]

Count(d) == d.left.count + d.right.count

\* A node, and what finding it costs.
Known(n) == [node |-> n, queries |-> 0]
Asked(d, n, depth) == [node |-> AncestorAtDepth(A(d), n, depth).node, queries |-> 1]

AddToTail(iv, leaf) ==
    Interval(iv.anchor, IF iv.count = 0 THEN leaf ELSE iv.base, leaf, iv.count + 1)

EndAt(iv, up) ==
    IF iv.count = 1 THEN EmptyAt(up) ELSE Interval(iv.anchor, iv.base, up, iv.count - 1)
RemoveTail(d, iv) == EndAt(iv, Parent(A(d), iv.tail))

NextBase(d, iv) ==
    IF iv.count = 2 THEN Known(iv.tail)
    ELSE Asked(d, iv.tail, Depth(A(d), iv.tail) - iv.count + 2)

RemoveBase(d, iv) ==
    IF iv.count = 1 THEN EmptyAt(iv.tail)
    ELSE Interval(iv.base, NextBase(d, iv).node, iv.tail, iv.count - 1)

Whole(iv, start, count) == start = 0 /\ count = iv.count

\* An interval between two nodes, when they were asked for one after the other.
Between(anchor, base, tail, count) ==
    [interval |-> Interval(anchor, base.node, tail.node, count), queries |-> base.queries + tail.queries]
FoundAgain(found) == [found EXCEPT !.queries = 0]
NoPart == [interval |-> EmptyAt(Bottom), queries |-> 0]
WholePart(iv) == [interval |-> iv, queries |-> 0]

\* Part of an interval that is read from its tail upwards.
LeftFromBase(d, iv, count, tail, base) ==
    Between(IF base.node = iv.base THEN iv.anchor ELSE Parent(A(d), base.node), base, tail, count)
LeftFromTail(d, iv, start, count, tail) ==
    LeftFromBase(d, iv, count, tail,
        IF count = 1 THEN FoundAgain(tail)
        ELSE IF start + count = iv.count THEN Known(iv.base)
        ELSE Asked(d, iv.tail, Depth(A(d), iv.tail) - start - count + 1))
SliceLeft(d, iv, start, count) ==
    IF count = 0 THEN NoPart
    ELSE IF Whole(iv, start, count) THEN WholePart(iv)
    ELSE LeftFromTail(d, iv, start, count,
            IF start = 0 THEN Known(iv.tail) ELSE Asked(d, iv.tail, Depth(A(d), iv.tail) - start))

\* The anchor of a slice that is taken for the whole interval's.
SliceRightKeepsAnchor(d, iv, start, count) ==
    IF count = 0 THEN NoPart
    ELSE IF Whole(iv, start, count) THEN WholePart(iv)
    ELSE Between(iv.anchor, Asked(d, iv.tail, Depth(A(d), iv.anchor) + start + 1),
                 Asked(d, iv.tail, Depth(A(d), iv.anchor) + start + count), count)

\* Part of an interval that is read downwards to its tail.
RightFromBase(d, iv, start, count, base) ==
    Between(IF start = 0 THEN iv.anchor ELSE Parent(A(d), base.node), base,
            IF count = 1 THEN FoundAgain(base)
            ELSE IF start + count = iv.count THEN Known(iv.tail)
            ELSE Asked(d, iv.tail, Depth(A(d), iv.anchor) + start + count),
            count)
SliceRight(d, iv, start, count) ==
    IF count = 0 THEN NoPart
    ELSE IF Whole(iv, start, count) THEN WholePart(iv)
    ELSE RightFromBase(d, iv, start, count,
            IF start = 0 THEN Known(iv.base) ELSE Asked(d, iv.tail, Depth(A(d), iv.anchor) + start + 1))

FirstNode(d) == IF d.left.count # 0 THEN d.left.tail ELSE d.right.base
LastNode(d) == IF d.right.count # 0 THEN d.right.tail ELSE d.left.base

NodeAt(d, i) ==
    IF i < d.left.count
    THEN IF i = 0 THEN Known(d.left.tail)
         ELSE IF i = d.left.count - 1 THEN Known(d.left.base)
         ELSE Asked(d, d.left.tail, Depth(A(d), d.left.tail) - i)
    ELSE LET r == i - d.left.count
         IN  IF r = 0 THEN Known(d.right.base)
             ELSE IF r = d.right.count - 1 THEN Known(d.right.tail)
             ELSE Asked(d, d.right.tail, Depth(A(d), d.right.anchor) + r + 1)

First(d) == ValueOf(A(d), FirstNode(d))
Final(d) == ValueOf(A(d), LastNode(d))
At(d, i) == ValueOf(A(d), NodeAt(d, i).node)

\* The nodes of an interval from its tail upwards.
Upwards(a, iv) ==
    LET node[i \in 1..iv.count] == IF i = 1 THEN iv.tail ELSE Parent(a, node[i - 1])
    IN  <<>> \o [i \in 1..iv.count |-> ValueOf(a, node[i])]

VisitOn(a, d) == Upwards(a, d.left) \o Reverse(Upwards(a, d.right))
Visit(d) == VisitOn(A(d), d)

With(d, left, right) ==
    [d EXCEPT !.left = left, !.right = right, !.count = left.count + right.count]

WithoutFirst(d) ==
    IF d.count = 1 THEN EmptyDeque(d.arena)
    ELSE IF d.left.count # 0 THEN With(d, RemoveTail(d, d.left), d.right)
    ELSE With(d, d.left, RemoveBase(d, d.right))

WithoutLast(d) ==
    IF d.count = 1 THEN EmptyDeque(d.arena)
    ELSE IF d.right.count # 0 THEN With(d, d.left, RemoveTail(d, d.right))
    ELSE With(d, RemoveBase(d, d.left), d.right)

LeastOf(x, y) == IF x < y THEN x ELSE y
Beyond(x, y) == IF x > y THEN x - y ELSE 0

SlicePartLeft(d, i, n, k) == SliceLeft(d, d.left, LeastOf(i, k), LeastOf(i + n, k) - LeastOf(i, k))
SlicePartRight(d, i, n, k) == SliceRight(d, d.right, Beyond(i, k), Beyond(i + n, k) - Beyond(i, k))

Slice(d, i, n) ==
    IF i = 0 /\ n = d.count THEN d
    ELSE IF n = 0 THEN EmptyDeque(d.arena)
    ELSE With(d, SlicePartLeft(d, i, n, d.left.count).interval, SlicePartRight(d, i, n, d.left.count).interval)

SliceQueries(d, i, n) ==
    IF n \in {0, d.count} THEN 0
    ELSE SlicePartLeft(d, i, n, d.left.count).queries + SlicePartRight(d, i, n, d.left.count).queries

Take(d, n) == IF n = d.count THEN d ELSE Slice(d, 0, n)
Drop(d, n) == IF n = 0 THEN d ELSE Slice(d, n, d.count - n)
Reversed(d) == IF d.count <= 1 THEN d ELSE With(d, d.right, d.left)
Cleared(d) == IF d.count = 0 THEN d ELSE EmptyDeque(d.arena)

ValidInterval(d, iv) ==
    IF iv.count = 0 THEN iv.anchor = iv.base /\ iv.base = iv.tail
    ELSE \A top \in {Depth(A(d), iv.anchor)} :
            /\ top + iv.count = Depth(A(d), iv.tail)
            /\ Parent(A(d), iv.base) = iv.anchor
            /\ AncestorAtDepth(A(d), iv.tail, top).node = iv.anchor
            /\ AncestorAtDepth(A(d), iv.tail, top + 1).node = iv.base

-----------------------------------------------------------------------------
\* The successor has a reference of its own; an aliased source gives up one.
Publish(s, h, d) ==
    /\ hold' = [hold EXCEPT ![h] = d]
    /\ refs' = [refs EXCEPT ![d.arena] = (@ + 1) - (IF h = s THEN 1 ELSE 0)]

Derive(s, h, d) == MayTarget(s, h) /\ Publish(s, h, d) /\ UNCHANGED arena

InitMyers(h, a) == NewOwner(h, a, EmptyDeque(a))
InitOn(s, h) == s \in Held /\ h \notin Held /\ Derive(s, h, EmptyDeque(hold[s].arena))

\* Both arms grow below their own tail.
Push(s, h, v, arm) ==
    /\ MayTarget(s, h) /\ hold[s].count < MaxCount
    /\ LET d == hold[s] IN
       \E out \in AddLeaf(A(d), d[arm].tail, v) :
          /\ arena' = [arena EXCEPT ![d.arena] = out.arena]
          /\ IF out.leaf = Unset THEN UNCHANGED <<hold, refs>>
             ELSE Publish(s, h, [d EXCEPT ![arm] = AddToTail(@, out.leaf), !.count = @ + 1])

PushFront(s, h, v) == Push(s, h, v, "left")
PushBack(s, h, v) == Push(s, h, v, "right")

\* Every value goes to the tail of the right interval; the first is its base.
GrownRight(grown, n) == Interval(Bottom, grown[1].leaf, grown[n].leaf, n)
FromArray(h, a, values) ==
    /\ h \notin Held /\ arena[a] = NoArena /\ Len(values) < MaxNodes
    /\ \E grown \in {Chain(values)} :
          /\ hold' = [hold EXCEPT ![h] = With(EmptyDeque(a), EmptyAt(Bottom), GrownRight(grown, Len(values)))]
          /\ arena' = [arena EXCEPT ![a] = grown[Len(values)].arena]
          /\ refs' = [refs EXCEPT ![a] = 1]

RemoveFirstTo(s, h) == s \in Held /\ hold[s].count > 0 /\ Derive(s, h, WithoutFirst(hold[s]))
RemoveLastTo(s, h) == s \in Held /\ hold[s].count > 0 /\ Derive(s, h, WithoutLast(hold[s]))

TryPopFront(s, h) ==
    s \in Held /\ Derive(s, h, IF hold[s].count = 0 THEN hold[s] ELSE WithoutFirst(hold[s]))
TryPopBack(s, h) ==
    s \in Held /\ Derive(s, h, IF hold[s].count = 0 THEN hold[s] ELSE WithoutLast(hold[s]))

SliceTo(s, h, i, n) == s \in Held /\ i + n <= hold[s].count /\ Derive(s, h, Slice(hold[s], i, n))
TakeTo(s, h, n) == s \in Held /\ n <= hold[s].count /\ Derive(s, h, Take(hold[s], n))
DropTo(s, h, n) == s \in Held /\ n <= hold[s].count /\ Derive(s, h, Drop(hold[s], n))
ReverseTo(s, h) == s \in Held /\ Derive(s, h, Reversed(hold[s]))
ClearTo(s, h) == s \in Held /\ Derive(s, h, Cleared(hold[s]))

\* Both halves are computed before either is published.
SplitAt(s, l, r, i) ==
    /\ s \in Held /\ l # r /\ {l, r} \cap Held \subseteq {s} /\ i <= hold[s].count
    /\ hold' = [hold EXCEPT ![l] = Take(hold[s], i), ![r] = Drop(hold[s], i)]
    /\ refs' = [refs EXCEPT ![hold[s].arena] = (@ + 2) - (IF s \in {l, r} THEN 1 ELSE 0)]
    /\ UNCHANGED arena

DequeNext ==
    \/ \E h \in Handles, a \in Arenas :
          \/ InitMyers(h, a)
          \/ \E n \in 1..MaxSource : \E values \in [1..n -> Values] : FromArray(h, a, values)
    \/ \E s, h \in Handles :
          \/ InitOn(s, h) \/ Copy(s, h) \/ Move(s, h) \/ ReverseTo(s, h) \/ ClearTo(s, h)
          \/ RemoveFirstTo(s, h) \/ RemoveLastTo(s, h) \/ TryPopFront(s, h) \/ TryPopBack(s, h)
          \/ \E v \in Values : PushFront(s, h, v) \/ PushBack(s, h, v)
          \/ \E n \in 0..MaxCount : TakeTo(s, h, n) \/ DropTo(s, h, n)
          \/ \E i, n \in 0..MaxCount : SliceTo(s, h, i, n)
    \/ \E h \in Handles : Dispose(h)
    \/ \E s, l, r \in Handles, i \in 0..MaxCount : SplitAt(s, l, r, i)

DequeSpec == ArenaInit /\ [][DequeNext]_arenaVars

-----------------------------------------------------------------------------
\* Both intervals of every deque stay what the library's own audit asks for:
\* the anchor and the cached base lie on the tail's path and the count is the
\* distance, after every mixture of pushes, removals, slices and reversals.
IntervalsValid ==
    \A h \in Held :
       LET d == hold[h]
       IN  d.count = Count(d) /\ ValidInterval(d, d.left) /\ ValidInterval(d, d.right)

\* Every slice of a deque, every index and both ends read what the traversal
\* reads, though slices reuse cached end points instead of asking for them.
SlicesExact ==
    \A h \in Held : \A d \in {hold[h]} : \A all \in {Visit(d)} :
       /\ \A i \in 0..(d.count - 1) : At(d, i) = all[i + 1]
       /\ d.count > 0 => First(d) = all[1] /\ Final(d) = all[d.count]
       /\ \A i \in 0..d.count : \A n \in 0..(d.count - i) : \A part \in {Slice(d, i, n)} :
             /\ Visit(part) = SubSeq(all, i + 1, i + n)
             /\ ValidInterval(d, part.left) /\ ValidInterval(d, part.right)

\* A slice, and the two halves of a split together, spend at most two
\* level-ancestor queries, as bilateral_ancestral_deque.h:14 states.
QueryCeilings ==
    \A h \in Held :
       LET d == hold[h] IN
       \A i \in 0..d.count :
          /\ \A n \in 0..(d.count - i) : SliceQueries(d, i, n) <= 2
          /\ SliceQueries(d, 0, i) + SliceQueries(d, i, d.count - i) <= 2

ContentOf(hs, as) ==
    [h \in Handles |-> IF hs[h].arena = Unset THEN Unset ELSE VisitOn(as[hs[h].arena], hs[h])]
Promised == INSTANCE PersistentSequence WITH Cursors <- {}, MaxInsert <- 0, content <- ContentOf(hold, arena)

\* Every call leaves in its result the sequence it promises and leaves every
\* other handle's sequence alone, though they share one arena that grows.
DequeKeepsPromise ==
    \E hs \in {hold'}, as \in {arena'} : Promised!Step(ContentOf(hold, arena), ContentOf(hs, as))

-----------------------------------------------------------------------------
(* The arenas of bilateral deques.                                         *)

\* Every handle has an arena field, and the arenas are owned.
DequeInv == ArenaInv /\ \A h \in Handles : "arena" \in DOMAIN hold[h]

\* A derived deque is on the arena of its source.
LEMMA DerivedOwned ==
    ASSUME ArenaAssumption, DequeInv, NEW s \in Held, NEW h \in Handles, NEW q,
           "arena" \in DOMAIN q, q.arena = hold[s].arena, Derive(s, h, q)
    PROVE  DequeInv'
<1> DEFINE a == q.arena
<1>1. MayTarget(s, h) /\ hold' = [hold EXCEPT ![h] = q]
      /\ refs' = [refs EXCEPT ![a] = (@ + 1) - (IF h = s THEN 1 ELSE 0)] /\ arena' = arena
  BY DEF Derive, Publish
<1>2. a \in Arenas /\ Sized(arena[a]) /\ ArenaInv
  BY OwnedSized DEF DequeInv
<1>3. \E C : Sized(C) /\ arena' = [arena EXCEPT ![q.arena] = C]
  BY <1>1, <1>2 DEF ArenaInv, Kept
<1>4. ArenaInv'
  <2>1. refs' = [refs EXCEPT ![q.arena] = (@ + 1) - (IF h = s THEN 1 ELSE 0)]
    BY <1>1
  <2> QED
    BY <1>1, <1>2, <1>3, <2>1, SuccessorOwned
<1>5. \A k \in Handles : hold'[k] = IF k = h THEN q ELSE hold[k]
  BY <1>1 DEF DequeInv, ArenaInv, Counted
<1> QED
  BY <1>4, <1>5 DEF DequeInv

OnArenaOf(q, d) == "arena" \in DOMAIN q /\ q.arena = d.arena

LEMMA WithOnArena ==
    ASSUME NEW d, "arena" \in DOMAIN d, NEW left, NEW right PROVE OnArenaOf(With(d, left, right), d)
BY DEF OnArenaOf, With

LEMMA EmptyOnArena == ASSUME NEW d PROVE OnArenaOf(EmptyDeque(d.arena), d)
BY DEF OnArenaOf, EmptyDeque

LEMMA DequesDerived ==
    ASSUME NEW d, "arena" \in DOMAIN d
    PROVE  /\ OnArenaOf(WithoutFirst(d), d) /\ OnArenaOf(WithoutLast(d), d)
           /\ OnArenaOf(Reversed(d), d) /\ OnArenaOf(Cleared(d), d)
           /\ \A i, n : OnArenaOf(Slice(d, i, n), d)
           /\ \A n : OnArenaOf(Take(d, n), d) /\ OnArenaOf(Drop(d, n), d)
<1>1. OnArenaOf(d, d)
  BY DEF OnArenaOf
<1>2. OnArenaOf(WithoutFirst(d), d) /\ OnArenaOf(WithoutLast(d), d)
  BY WithOnArena, EmptyOnArena DEF WithoutFirst, WithoutLast
<1>3. OnArenaOf(Reversed(d), d) /\ OnArenaOf(Cleared(d), d)
  BY <1>1, WithOnArena, EmptyOnArena DEF Reversed, Cleared
<1>4. ASSUME NEW i, NEW n PROVE OnArenaOf(Slice(d, i, n), d)
  BY <1>1, WithOnArena, EmptyOnArena DEF Slice
<1>5. ASSUME NEW n PROVE OnArenaOf(Take(d, n), d) /\ OnArenaOf(Drop(d, n), d)
  BY <1>1, <1>4 DEF Take, Drop
<1> QED
  BY <1>2, <1>3, <1>4, <1>5

LEMMA FromArrayOwned ==
    ASSUME ArenaAssumption, DequeInv, NEW h \in Handles, NEW a \in Arenas, NEW n \in Nat,
           NEW values \in [1..n -> Values], FromArray(h, a, values)
    PROVE  DequeInv'
<1> DEFINE grown == Chain(values)[Len(values)]
           d == EmptyDeque(a)
           q == With(d, EmptyAt(Bottom), GrownRight(Chain(values), Len(values)))
<1>1. values \in Seq(Values) /\ Len(values) \in Nat
  OBVIOUS
<1>2. /\ h \notin Held /\ arena[a] = NoArena /\ Len(values) < MaxNodes
      /\ hold' = [hold EXCEPT ![h] = q] /\ arena' = [arena EXCEPT ![a] = grown.arena]
      /\ refs' = [refs EXCEPT ![a] = 1]
  BY DEF FromArray
<1>3. Sized(grown.arena)
  BY <1>1, <1>2, ChainSized
<1>4. q.arena = a /\ "arena" \in DOMAIN q
  <2>1. "arena" \in DOMAIN d /\ d.arena = a
    BY DEF EmptyDeque
  <2> QED
    BY <2>1, WithOnArena DEF OnArenaOf
<1> HIDE DEF grown, q
<1>5. ArenaInv'
  BY <1>2, <1>3, <1>4, OwnerFound DEF DequeInv
<1>6. \A k \in Handles : hold'[k] = IF k = h THEN q ELSE hold[k]
  BY <1>2 DEF DequeInv, ArenaInv, Counted
<1> QED
  BY <1>4, <1>5, <1>6 DEF DequeInv

LEMMA PushOwned ==
    ASSUME ArenaAssumption, DequeInv, NEW s \in Handles, NEW h \in Handles, NEW v, NEW arm, arm # "arena", Push(s, h, v, arm)
    PROVE  DequeInv'
<1> DEFINE q == hold[s]
           a == q.arena
<1>1. MayTarget(s, h) /\ s \in Held
  BY DEF Push, MayTarget
<1>2. PICK out \in AddLeaf(arena[a], q[arm].tail, v) :
          /\ arena' = [arena EXCEPT ![a] = out.arena]
          /\ IF out.leaf = Unset THEN UNCHANGED <<hold, refs>>
             ELSE Publish(s, h, [q EXCEPT ![arm] = AddToTail(@, out.leaf), !.count = @ + 1])
  BY DEF Push, A
<1>3. a \in Arenas /\ refs[a] \in Nat \ {0} /\ Sized(arena[a]) /\ ArenaInv /\ "arena" \in DOMAIN q
  BY <1>1, OwnedSized DEF DequeInv, Held
<1>4. Sized(out.arena)
  BY <1>3, AddLeafSized
<1>5. CASE out.leaf = Unset
  <2>1. UNCHANGED <<hold, refs>>
    BY <1>2, <1>5
  <2>2. Counted(hold, refs)'
    BY <1>3, <2>1, CountedNext DEF ArenaInv
  <2>3. Kept(arena, refs)'
    BY <1>2, <1>3, <1>4, <2>1 DEF ArenaInv, Kept
  <2> QED
    BY <2>1, <2>2, <2>3 DEF DequeInv, ArenaInv
<1>6. CASE out.leaf # Unset
  <2> DEFINE w == [q EXCEPT ![arm] = AddToTail(@, out.leaf), !.count = @ + 1]
  <2>1. w.arena = a /\ "arena" \in DOMAIN w
    BY <1>3
  <2>2. /\ hold' = [hold EXCEPT ![h] = w]
        /\ refs' = [refs EXCEPT ![w.arena] = (@ + 1) - (IF h = s THEN 1 ELSE 0)]
    BY <1>2, <1>6 DEF Publish
  <2> HIDE DEF w
  <2>3. arena' = [arena EXCEPT ![w.arena] = out.arena]
    BY <1>2, <2>1
  <2>4. ArenaInv'
    BY <1>1, <1>3, <1>4, <2>1, <2>2, <2>3, SuccessorOwned
  <2>5. \A k \in Handles : hold'[k] = IF k = h THEN w ELSE hold[k]
    BY <1>3, <2>2 DEF ArenaInv, Counted
  <2> QED
    BY <2>1, <2>4, <2>5 DEF DequeInv
<1> QED
  BY <1>5, <1>6

LEMMA SplitAtOwned ==
    ASSUME ArenaAssumption, DequeInv, NEW s \in Handles, NEW l \in Handles, NEW r \in Handles, NEW i,
           SplitAt(s, l, r, i)
    PROVE  DequeInv'
<1> DEFINE q == hold[s]
           x == Take(q, i)
           y == Drop(q, i)
<1>1. /\ s \in Held /\ l # r /\ {l, r} \cap Held \subseteq {s} /\ arena' = arena
      /\ hold' = [hold EXCEPT ![l] = x, ![r] = y]
      /\ refs' = [refs EXCEPT ![q.arena] = (@ + 2) - (IF s \in {l, r} THEN 1 ELSE 0)]
  BY DEF SplitAt
<1>2. /\ x.arena = q.arena /\ "arena" \in DOMAIN x
      /\ y.arena = q.arena /\ "arena" \in DOMAIN y
  BY DequesDerived DEF DequeInv, OnArenaOf
<1> HIDE DEF x, y
<1>3. ArenaInv'
  BY <1>1, <1>2, HalvesOwned DEF DequeInv
<1>4. \A k \in Handles : hold'[k] \in {x, y, hold[k]}
  BY <1>1 DEF DequeInv, ArenaInv, Counted
<1> QED
  BY <1>2, <1>3, <1>4 DEF DequeInv

\* Every call leaves each arena with as many references as deques on it.
LEMMA DequeNextOwned == ASSUME ArenaAssumption, DequeInv, [DequeNext]_arenaVars PROVE DequeInv'
<1> USE DEF Held
<1>1. ASSUME NEW h \in Handles, NEW a \in Arenas, InitMyers(h, a) PROVE DequeInv'
  <2>1. ArenaInv'
    BY <1>1, OwnerFound, NewArenaSized DEF InitMyers, NewOwner, EmptyDeque, DequeInv
  <2> QED
    BY <1>1, <2>1 DEF InitMyers, NewOwner, EmptyDeque, DequeInv, ArenaInv, Counted
<1>2. ASSUME NEW s \in Handles, NEW h \in Handles, InitOn(s, h) PROVE DequeInv'
  BY <1>2, DerivedOwned DEF InitOn, EmptyDeque
<1>3. ASSUME NEW s \in Handles, NEW h \in Handles, Copy(s, h) PROVE DequeInv'
  BY <1>3, CopyOwned DEF Copy, DequeInv, ArenaInv, Counted
<1>4. ASSUME NEW s \in Handles, NEW h \in Handles, Move(s, h) PROVE DequeInv'
  BY <1>4, MoveOwned DEF Move, DequeInv, ArenaInv, Counted, Nothing
<1>5. ASSUME NEW h \in Handles, Dispose(h) PROVE DequeInv'
  BY <1>5, DisposeOwned DEF Dispose, DequeInv, ArenaInv, Counted, Nothing
<1>6. ASSUME NEW s \in Held, NEW h \in Handles, NEW q, Derive(s, h, q),
             \/ q \in {hold[s], WithoutFirst(hold[s]), WithoutLast(hold[s]), Reversed(hold[s]), Cleared(hold[s])}
             \/ \E i, n : q = Slice(hold[s], i, n)
             \/ \E n : q = Take(hold[s], n) \/ q = Drop(hold[s], n)
      PROVE DequeInv'
  <2>1. "arena" \in DOMAIN q /\ q.arena = hold[s].arena
    BY <1>6, DequesDerived DEF DequeInv, OnArenaOf
  <2> QED
    BY <1>6, <2>1, DerivedOwned
<1>7. ASSUME NEW s \in Handles, NEW h \in Handles,
             \/ RemoveFirstTo(s, h) \/ RemoveLastTo(s, h) \/ TryPopFront(s, h) \/ TryPopBack(s, h)
             \/ ReverseTo(s, h) \/ ClearTo(s, h)
             \/ \E n \in 0..MaxCount : TakeTo(s, h, n) \/ DropTo(s, h, n)
             \/ \E i, n \in 0..MaxCount : SliceTo(s, h, i, n)
      PROVE  DequeInv'
  <2>1. \E q : /\ s \in Held /\ Derive(s, h, q)
               /\ \/ q \in {hold[s], WithoutFirst(hold[s]), WithoutLast(hold[s]), Reversed(hold[s]), Cleared(hold[s])}
                  \/ \E i, n : q = Slice(hold[s], i, n)
                  \/ \E n : q = Take(hold[s], n) \/ q = Drop(hold[s], n)
    BY <1>7 DEF RemoveFirstTo, RemoveLastTo, TryPopFront, TryPopBack, TakeTo, DropTo, SliceTo,
           ReverseTo, ClearTo
  <2> QED
    BY <1>6, <2>1
<1>8. CASE UNCHANGED arenaVars
  BY <1>8 DEF arenaVars, DequeInv, ArenaInv, Counted, Kept, Owners
<1>9. ASSUME NEW h \in Handles, NEW a \in Arenas, NEW n \in 1..MaxSource, NEW values \in [1..n -> Values],
             FromArray(h, a, values)
      PROVE  DequeInv'
  <2>1. n \in Nat
    OBVIOUS
  <2> QED
    BY <1>9, <2>1, FromArrayOwned
<1>10. ASSUME NEW s \in Handles, NEW h \in Handles, NEW v, PushFront(s, h, v) \/ PushBack(s, h, v)
       PROVE  DequeInv'
  BY <1>10, PushOwned DEF PushFront, PushBack
<1> QED
  BY <1>1, <1>2, <1>3, <1>4, <1>5, <1>7, <1>8, <1>9, <1>10, SplitAtOwned DEF DequeNext

\* ArenaOwned with any deques, on any branches of their arenas: an arena is
\* released with its last deque and not before, whatever calls went through,
\* failed or overwrote their source.
THEOREM DequesOwnArenas == ASSUME ArenaAssumption PROVE DequeSpec => []ArenaOwned
<1>1. ArenaInit => DequeInv
  BY ArenaInitOwned DEF ArenaInit, DequeInv, Nothing
<1>2. DequeInv /\ [DequeNext]_arenaVars => DequeInv'
  BY DequeNextOwned
<1>3. DequeInv => ArenaOwned
  BY ArenaInvOwned DEF DequeInv
<1> QED
  BY <1>1, <1>2, <1>3, PTL DEF DequeSpec

-----------------------------------------------------------------------------
(* What bilateral deques hold.                                             *)

\* What an empty handle shows is no sequence.
DequeAssumption == ArenaAssumption /\ MaxSource \in Nat /\ Unset \notin Seq(Values)

Solid(B) == Made(B) /\ B.count \in Nat \ {0}

\* The node k levels above node t.
Up(B, t, k) == ByParents(B, t, Depth(B, t) - k)

\* Walking up is what queries do, step by step and in any two stretches.
LEMMA Climbing ==
    ASSUME NEW B, Solid(B), NEW t \in Nodes(B), NEW k \in 0..(Depth(B, t) + 1)
    PROVE  /\ Up(B, t, k) \in Nodes(B) /\ Depth(B, Up(B, t, k)) = Depth(B, t) - k /\ Up(B, t, 0) = t
           /\ k <= Depth(B, t) => Parent(B, Up(B, t, k)) = Up(B, t, k + 1)
           /\ AncestorAtDepth(B, t, Depth(B, t) - k).node = Up(B, t, k)
           /\ \A j \in 0..(Depth(B, t) + 1 - k) : Up(B, Up(B, t, k), j) = Up(B, t, k + j)
<1> DEFINE d == Depth(B, t) - k
<1>0. Depth(B, t) \in Int /\ Depth(B, t) >= -1 /\ Made(B) /\ B.count \in Nat \ {0}
  BY NodeRanges DEF Solid
<1>1. d \in -1..Depth(B, t)
  BY <1>0
<1>2. Depth(B, t) - 0 = Depth(B, t) /\ d - 1 = Depth(B, t) - (k + 1) /\ (k <= Depth(B, t) => d >= 0)
  BY <1>0
<1>3. ByParents(B, t, Depth(B, t)) = t
  BY <1>0, OnPath
<1>4. ASSUME NEW j \in 0..(Depth(B, t) + 1 - k) PROVE Up(B, Up(B, t, k), j) = Up(B, t, k + j)
  <2> DEFINE e == Depth(B, t) - (k + j)
  <2>1. e \in -1..d /\ d - j = e
    BY <1>0
  <2> HIDE DEF d, e
  <2>2. ByParents(B, ByParents(B, t, d), e) = ByParents(B, t, e) /\ Depth(B, ByParents(B, t, d)) = d
    BY <1>0, <1>1, <2>1, PathsClimb, PathsCompose
  <2> QED
    BY <2>1, <2>2 DEF Up, d, e
<1> HIDE DEF d
<1>5. /\ ByParents(B, t, d) \in Nodes(B) /\ Depth(B, ByParents(B, t, d)) = d
      /\ d >= 0 => Parent(B, ByParents(B, t, d)) = ByParents(B, t, d - 1)
      /\ AncestorAtDepth(B, t, d).node = ByParents(B, t, d)
  BY <1>0, <1>1, PathsClimb, HopsFind
<1> QED
  BY <1>2, <1>3, <1>4, <1>5 DEF Up, d

\* The interval of the k nodes from t upwards.
Arm(B, t, k) == Interval(Up(B, t, k), IF k = 0 THEN t ELSE Up(B, t, k - 1), t, k)

\* An interval of nodes of B: its anchor and its base are where its tail and its count say.
Span(B, iv) ==
    iv.tail \in Nodes(B) /\ iv.count \in 0..(Depth(B, iv.tail) + 1) /\ iv = Arm(B, iv.tail, iv.count)

\* An arm of B is an interval of B.
LEMMA ArmSpans ==
    ASSUME NEW B, NEW t \in Nodes(B), NEW k \in 0..(Depth(B, t) + 1)
    PROVE  Span(B, Arm(B, t, k)) /\ Arm(B, t, k).tail = t /\ Arm(B, t, k).count = k
BY DEF Span, Arm, Interval

\* An interval, field by field.
LEMMA SpanFields ==
    ASSUME NEW B, Solid(B), NEW iv, Span(B, iv)
    PROVE  /\ iv.tail \in Nodes(B) /\ iv.count \in Nat /\ iv.count <= Depth(B, iv.tail) + 1 /\ Depth(B, iv.tail) \in Int
           /\ iv.anchor = Up(B, iv.tail, iv.count)
           /\ iv.base = (IF iv.count = 0 THEN iv.tail ELSE Up(B, iv.tail, iv.count - 1))
<1>1. Depth(B, iv.tail) \in Int
  BY NodeRanges DEF Span, Solid
<1> QED
  BY <1>1 DEF Span, Arm, Interval

\* An empty interval is the arm of no nodes, at any node.
LEMMA NoArm ==
    ASSUME NEW B, Solid(B)
    PROVE  /\ \A t \in Nodes(B) : EmptyAt(t) = Arm(B, t, 0) /\ Span(B, EmptyAt(t)) /\ EmptyAt(t).count = 0
           /\ Bottom \in Nodes(B)
<1>1. ASSUME NEW t \in Nodes(B) PROVE EmptyAt(t) = Arm(B, t, 0) /\ Span(B, EmptyAt(t)) /\ EmptyAt(t).count = 0
  <2>1. Depth(B, t) \in Int /\ Depth(B, t) >= -1
    BY NodeRanges DEF Solid
  <2>2. 0 \in 0..(Depth(B, t) + 1)
    BY <2>1
  <2>3. Up(B, t, 0) = t
    BY <2>2, Climbing
  <2>4. EmptyAt(t) = Arm(B, t, 0)
    BY <2>3 DEF EmptyAt, Arm, Interval
  <2> QED
    BY <2>2, <2>4, ArmSpans
<1>2. Bottom \in Nodes(B)
  BY DEF Solid, Nodes, Bottom
<1> QED
  BY <1>1, <1>2

\* The nodes of a part, named from the tail of the whole.
LEMMA ArmWithin ==
    ASSUME NEW B, Solid(B), NEW t \in Nodes(B), NEW s \in Nat, NEW n \in Nat \ {0}, s + n <= Depth(B, t) + 1
    PROVE  /\ Arm(B, Up(B, t, s), n) = Interval(Up(B, t, s + n), Up(B, t, s + n - 1), Up(B, t, s), n)
           /\ Span(B, Arm(B, Up(B, t, s), n))
<1> DEFINE m == Up(B, t, s)
<1>0. Depth(B, t) \in Int
  BY NodeRanges DEF Solid
<1>1. s \in 0..(Depth(B, t) + 1) /\ n \in 0..(Depth(B, t) + 1 - s) /\ n - 1 \in 0..(Depth(B, t) + 1 - s) /\ s + (n - 1) = s + n - 1
  BY <1>0
<1>2. /\ m \in Nodes(B) /\ Depth(B, m) = Depth(B, t) - s
      /\ \A j \in 0..(Depth(B, t) + 1 - s) : Up(B, m, j) = Up(B, t, s + j)
  BY <1>1, Climbing
<1> HIDE DEF m
<1>3. Up(B, m, n) = Up(B, t, s + n) /\ Up(B, m, n - 1) = Up(B, t, s + n - 1)
  BY <1>1, <1>2
<1>4. n \in 0..(Depth(B, m) + 1)
  BY <1>0, <1>2
<1>5. Span(B, Arm(B, m, n))
  BY <1>2, <1>4, ArmSpans
<1> QED
  BY <1>3, <1>5 DEF Arm, m

\* Part of the left interval, cached end points and all.
LEMMA PartOfLeft ==
    ASSUME NEW d, NEW B, B = A(d), Solid(B), NEW iv, Span(B, iv), NEW s \in Nat, NEW n \in Nat, s + n <= iv.count
    PROVE  SliceLeft(d, iv, s, n).interval = IF n = 0 THEN EmptyAt(Bottom) ELSE Arm(B, Up(B, iv.tail, s), n)
<1> DEFINE t == iv.tail
           tail == IF s = 0 THEN Known(t) ELSE Asked(d, t, Depth(A(d), t) - s)
           base == IF n = 1 THEN FoundAgain(tail)
                   ELSE IF s + n = iv.count THEN Known(iv.base)
                   ELSE Asked(d, t, Depth(A(d), t) - s - n + 1)
           anchor == IF base.node = iv.base THEN iv.anchor ELSE Parent(A(d), base.node)
<1>0. /\ t \in Nodes(B) /\ iv.count \in Nat /\ iv.count <= Depth(B, t) + 1 /\ Depth(B, t) \in Int
      /\ iv.anchor = Up(B, t, iv.count)
      /\ iv.base = (IF iv.count = 0 THEN t ELSE Up(B, t, iv.count - 1))
      /\ iv = Arm(B, t, iv.count)
  BY SpanFields DEF Span
<1>1. CASE n = 0
  BY <1>1 DEF SliceLeft, NoPart
<1>2. CASE n # 0 /\ Whole(iv, s, n)
  <2>1. s = 0 /\ n = iv.count /\ 0 \in 0..(Depth(B, t) + 1)
    BY <1>0, <1>2 DEF Whole
  <2>2. Up(B, t, s) = t
    BY <1>0, <2>1, Climbing
  <2> QED
    BY <1>0, <1>2, <2>1, <2>2 DEF SliceLeft, WholePart
<1>3. CASE n # 0 /\ ~Whole(iv, s, n)
  <2>1. SliceLeft(d, iv, s, n).interval = Interval(anchor, base.node, tail.node, n)
    BY <1>3 DEF SliceLeft, LeftFromTail, LeftFromBase, Between
  <2>2. /\ s \in 0..(Depth(B, t) + 1) /\ 0 \in 0..(Depth(B, t) + 1) /\ s + n - 1 \in 0..(Depth(B, t) + 1)
        /\ s + n - 1 <= Depth(B, t) /\ (s + n - 1) + 1 = s + n /\ (n = 1 => s + n - 1 = s)
        /\ Depth(B, t) - s - n + 1 = Depth(B, t) - (s + n - 1) /\ iv.count # 0
        /\ (s + n = iv.count => iv.count - 1 = s + n - 1)
        /\ iv.count - 1 \in 0..(Depth(B, t) + 1) /\ iv.count - 1 <= Depth(B, t) /\ (iv.count - 1) + 1 = iv.count
    BY <1>0, <1>3
  <2>3. tail.node = Up(B, t, s)
    <3>1. Up(B, t, 0) = t /\ AncestorAtDepth(B, t, Depth(B, t) - s).node = Up(B, t, s)
      BY <1>0, <2>2, Climbing
    <3> QED
      BY <3>1 DEF Known, Asked
  <2>4. base.node = Up(B, t, s + n - 1)
    <3>1. CASE n = 1
      <4>1. FoundAgain(tail).node = tail.node
        BY DEF FoundAgain, Known, Asked
      <4> QED
        BY <2>2, <2>3, <3>1, <4>1
    <3>2. CASE n # 1 /\ s + n = iv.count
      BY <1>0, <2>2, <3>2 DEF Known
    <3>3. CASE n # 1 /\ s + n # iv.count
      <4> DEFINE k == s + n - 1
      <4>1. k \in 0..(Depth(B, t) + 1) /\ Depth(B, t) - s - n + 1 = Depth(B, t) - k
        BY <2>2
      <4> HIDE DEF k
      <4>2. AncestorAtDepth(B, t, Depth(B, t) - k).node = Up(B, t, k)
        BY <1>0, <4>1, Climbing
      <4>3. AncestorAtDepth(B, t, Depth(B, t) - s - n + 1).node = Up(B, t, k)
        BY <4>1, <4>2
      <4> QED
        BY <3>3, <4>3 DEF Asked, k
    <3> QED
      BY <3>1, <3>2, <3>3
  <2>5. Parent(B, Up(B, t, s + n - 1)) = Up(B, t, s + n) /\ Parent(B, Up(B, t, iv.count - 1)) = Up(B, t, iv.count)
    <3>1. ASSUME NEW k \in 0..(Depth(B, t) + 1), k <= Depth(B, t) PROVE Parent(B, Up(B, t, k)) = Up(B, t, k + 1)
      BY <1>0, <3>1, Climbing
    <3> QED
      BY <2>2, <3>1
  <2>6. anchor = Up(B, t, s + n)
    BY <1>0, <2>2, <2>4, <2>5
  <2> HIDE DEF tail, base, anchor
  <2>7. Arm(B, Up(B, t, s), n) = Interval(Up(B, t, s + n), Up(B, t, s + n - 1), Up(B, t, s), n)
    <3>1. n \in Nat \ {0} /\ s + n <= Depth(B, t) + 1
      BY <1>0, <1>3
    <3> QED
      BY <1>0, <3>1, ArmWithin
  <2> QED
    BY <1>3, <2>1, <2>3, <2>4, <2>6, <2>7
<1> QED
  BY <1>1, <1>2, <1>3

\* Part of the right interval, counted from its base.
LEMMA PartOfRight ==
    ASSUME NEW d, NEW B, B = A(d), Solid(B), NEW iv, Span(B, iv), NEW s \in Nat, NEW n \in Nat, s + n <= iv.count
    PROVE  SliceRight(d, iv, s, n).interval =
              IF n = 0 THEN EmptyAt(Bottom) ELSE Arm(B, Up(B, iv.tail, iv.count - s - n), n)
<1> DEFINE t == iv.tail
           c == iv.count
           r == c - s - n
           base == IF s = 0 THEN Known(iv.base) ELSE Asked(d, t, Depth(A(d), iv.anchor) + s + 1)
           tail == IF n = 1 THEN FoundAgain(base)
                   ELSE IF s + n = c THEN Known(t)
                   ELSE Asked(d, t, Depth(A(d), iv.anchor) + s + n)
           anchor == IF s = 0 THEN iv.anchor ELSE Parent(A(d), base.node)
<1>0. /\ t \in Nodes(B) /\ c \in Nat /\ c <= Depth(B, t) + 1 /\ Depth(B, t) \in Int
      /\ iv.anchor = Up(B, t, c) /\ iv.base = (IF c = 0 THEN t ELSE Up(B, t, c - 1))
      /\ iv = Arm(B, t, c)
  BY SpanFields DEF Span
<1>1. CASE n = 0
  BY <1>1 DEF SliceRight, NoPart
<1>2. CASE n # 0 /\ Whole(iv, s, n)
  <2>1. s = 0 /\ n = c /\ r = 0 /\ 0 \in 0..(Depth(B, t) + 1)
    BY <1>0, <1>2 DEF Whole
  <2>2. Up(B, t, 0) = t
    BY <1>0, <2>1, Climbing
  <2> QED
    BY <1>0, <1>2, <2>1, <2>2 DEF SliceRight, WholePart
<1>3. CASE n # 0 /\ ~Whole(iv, s, n)
  <2>1. SliceRight(d, iv, s, n).interval = Interval(anchor, base.node, tail.node, n)
    BY <1>3 DEF SliceRight, RightFromBase, Between
  <2>2. /\ r \in Nat /\ r + n = c - s /\ r + n - 1 = c - s - 1 /\ n \in Nat \ {0} /\ r + n <= Depth(B, t) + 1 /\ c # 0
        /\ r \in 0..(Depth(B, t) + 1) /\ c \in 0..(Depth(B, t) + 1) /\ r + n - 1 \in 0..(Depth(B, t) + 1)
        /\ r + n - 1 <= Depth(B, t) /\ (r + n - 1) + 1 = r + n /\ 0 \in 0..(Depth(B, t) + 1)
        /\ (n = 1 => r + n - 1 = r) /\ (s + n = c => r = 0) /\ (s = 0 => r + n = c /\ r + n - 1 = c - 1)
        /\ Depth(B, t) - c + s + 1 = Depth(B, t) - (r + n - 1) /\ Depth(B, t) - c + s + n = Depth(B, t) - r
    BY <1>0, <1>3
  <2>3. \A k \in 0..(Depth(B, t) + 1) : /\ AncestorAtDepth(B, t, Depth(B, t) - k).node = Up(B, t, k)
                                        /\ Depth(B, Up(B, t, k)) = Depth(B, t) - k
                                        /\ k <= Depth(B, t) => Parent(B, Up(B, t, k)) = Up(B, t, k + 1)
    BY <1>0, Climbing
  <2>4. Up(B, t, 0) = t
    BY <1>0, <2>2, Climbing
  <2> HIDE DEF c, r
  <2>5. Depth(B, iv.anchor) = Depth(B, t) - c
    BY <1>0, <2>2, <2>3
  <2>6. base.node = Up(B, t, r + n - 1)
    <3>1. CASE s = 0
      BY <1>0, <2>2, <3>1 DEF Known
    <3>2. CASE s # 0
      <4>1. base.node = AncestorAtDepth(B, t, Depth(B, t) - c + s + 1).node
        BY <2>5, <3>2 DEF Asked
      <4> QED
        BY <2>2, <2>3, <4>1
    <3> QED
      BY <3>1, <3>2
  <2>7. tail.node = Up(B, t, r)
    <3>1. CASE n = 1
      <4>1. FoundAgain(base).node = base.node
        BY DEF FoundAgain, Known, Asked
      <4> QED
        BY <2>2, <2>6, <3>1, <4>1
    <3>2. CASE n # 1 /\ s + n = c
      BY <2>2, <2>4, <3>2 DEF Known
    <3>3. CASE n # 1 /\ s + n # c
      <4>1. tail.node = AncestorAtDepth(B, t, Depth(B, t) - c + s + n).node
        BY <2>5, <3>3 DEF Asked
      <4> QED
        BY <2>2, <2>3, <4>1
    <3> QED
      BY <3>1, <3>2, <3>3
  <2>8. anchor = Up(B, t, r + n)
    <3>1. CASE s = 0
      BY <1>0, <2>2, <3>1
    <3>2. CASE s # 0
      <4>1. anchor = Parent(B, Up(B, t, r + n - 1))
        BY <2>6, <3>2
      <4> QED
        BY <2>2, <2>3, <4>1
    <3> QED
      BY <3>1, <3>2
  <2> HIDE DEF tail, base, anchor, t
  <2>9. Arm(B, Up(B, t, r), n) = Interval(Up(B, t, r + n), Up(B, t, r + n - 1), Up(B, t, r), n)
    BY <1>0, <2>2, ArmWithin
  <2> QED
    BY <1>3, <2>1, <2>6, <2>7, <2>8, <2>9 DEF r, c, t
<1> QED
  BY <1>1, <1>2, <1>3

\* An interval that loses its tail or its base.
LEMMA EndsRemoved ==
    ASSUME NEW d, NEW B, B = A(d), Solid(B), NEW iv, Span(B, iv), iv.count > 0
    PROVE  /\ RemoveTail(d, iv) = Arm(B, Up(B, iv.tail, 1), iv.count - 1)
           /\ RemoveBase(d, iv) = Arm(B, iv.tail, iv.count - 1)
<1> DEFINE t == iv.tail
           c == iv.count
<1>0. /\ t \in Nodes(B) /\ c \in Nat /\ c <= Depth(B, t) + 1 /\ Depth(B, t) \in Int
      /\ iv.anchor = Up(B, t, c) /\ iv.base = Up(B, t, c - 1)
  BY SpanFields
<1>1. /\ 0 \in 0..(Depth(B, t) + 1) /\ 1 \in 0..(Depth(B, t) + 1) /\ 0 <= Depth(B, t) /\ 0 + 1 = 1
      /\ 1 + (c - 1) = c /\ 1 + (c - 1) - 1 = c - 1 /\ 0 + (c - 1) = c - 1 /\ 0 + (c - 1) - 1 = c - 2
  BY <1>0
<1>2. Up(B, t, 0) = t /\ Parent(B, t) = Up(B, t, 1) /\ Up(B, t, 1) \in Nodes(B)
  <2>1. Up(B, t, 0) = t /\ Parent(B, Up(B, t, 0)) = Up(B, t, 0 + 1)
    BY <1>0, <1>1, Climbing
  <2>2. Up(B, t, 1) \in Nodes(B)
    BY <1>0, <1>1, Climbing
  <2> QED
    BY <1>1, <2>1, <2>2
<1>3. RemoveTail(d, iv) = Arm(B, Up(B, t, 1), c - 1)
  <2>1. CASE c = 1
    <3>1. EmptyAt(Up(B, t, 1)) = Arm(B, Up(B, t, 1), 0) /\ c - 1 = 0
      BY <1>2, <2>1, NoArm
    <3> QED
      BY <1>2, <2>1, <3>1 DEF RemoveTail, EndAt
  <2>2. CASE c # 1
    <3> DEFINE n == c - 1
    <3>1. n \in Nat \ {0} /\ 1 + n <= Depth(B, t) + 1 /\ 1 \in Nat
      BY <1>0, <2>2
    <3>2. Arm(B, Up(B, t, 1), n) = Interval(Up(B, t, 1 + n), Up(B, t, 1 + n - 1), Up(B, t, 1), n)
      <4> HIDE DEF n
      <4> QED
        BY <1>0, <3>1, ArmWithin
    <3> QED
      BY <1>0, <1>1, <1>2, <2>2, <3>2 DEF RemoveTail, EndAt
  <2> QED
    BY <2>1, <2>2
<1>4. RemoveBase(d, iv) = Arm(B, t, c - 1)
  <2>1. CASE c = 1
    <3>1. EmptyAt(t) = Arm(B, t, 0) /\ c - 1 = 0
      BY <1>0, <2>1, NoArm
    <3> QED
      BY <2>1, <3>1 DEF RemoveBase
  <2>2. CASE c # 1
    <3>1. NextBase(d, iv).node = Up(B, t, c - 2)
      <4>1. CASE c = 2
        BY <1>2, <4>1 DEF NextBase, Known
      <4>2. CASE c # 2
        <5> DEFINE k == c - 2
        <5>1. k \in 0..(Depth(B, t) + 1) /\ Depth(B, t) - c + 2 = Depth(B, t) - k
          BY <1>0, <2>2
        <5> HIDE DEF k
        <5>2. AncestorAtDepth(B, t, Depth(B, t) - k).node = Up(B, t, k)
          BY <1>0, <5>1, Climbing
        <5>3. AncestorAtDepth(B, t, Depth(B, t) - c + 2).node = Up(B, t, k)
          BY <5>1, <5>2
        <5> QED
          BY <4>2, <5>3 DEF NextBase, Asked, k
      <4> QED
        BY <4>1, <4>2
    <3>2. (c - 1) - 1 = c - 2 /\ c - 1 # 0
      BY <1>0, <2>2
    <3> QED
      BY <1>0, <2>2, <3>1, <3>2 DEF RemoveBase, Arm
  <2> QED
    BY <2>1, <2>2
<1> QED
  BY <1>3, <1>4

Joined(a, left, right) == [arena |-> a, left |-> left, right |-> right, count |-> left.count + right.count]

\* A deque on arena B: two intervals of it, and how many nodes they have together.
Two(B, d) == d = Joined(d.arena, d.left, d.right) /\ Span(B, d.left) /\ Span(B, d.right)

\* The node of an index.
Place(B, d, i) == IF i < d.left.count THEN Up(B, d.left.tail, i) ELSE Up(B, d.right.tail, d.count - 1 - i)

\* The counts of a deque and of its intervals.
LEMMA TwoCounts ==
    ASSUME NEW B, Solid(B), NEW d, Two(B, d)
    PROVE  d.left.count \in Nat /\ d.right.count \in Nat /\ d.count = d.left.count + d.right.count
<1>1. d.left.count \in Nat /\ d.right.count \in Nat
  BY SpanFields DEF Two
<1>2. d.count = d.left.count + d.right.count
  BY DEF Two, Joined
<1> QED
  BY <1>1, <1>2

\* A deque with other intervals (with_intervals).
LEMMA WithJoins ==
    ASSUME NEW d, d = Joined(d.arena, d.left, d.right)
    PROVE  \A l, r : With(d, l, r) = Joined(d.arena, l, r)
<1>1. PICK a, x, y, c : d = [arena |-> a, left |-> x, right |-> y, count |-> c]
  BY DEF Joined
<1>2. d.arena = a
  BY <1>1
<1>3. ASSUME NEW l, NEW r, NEW n
      PROVE  [d EXCEPT !.left = l, !.right = r, !.count = n] = [arena |-> a, left |-> l, right |-> r, count |-> n]
  <2> DEFINE p == [arena |-> a, left |-> l, right |-> y, count |-> c]
             q == [arena |-> a, left |-> l, right |-> r, count |-> c]
  <2>1. [d EXCEPT !.left = l] = p
    BY <1>1
  <2>2. [p EXCEPT !.right = r] = q
    OBVIOUS
  <2>3. [q EXCEPT !.count = n] = [arena |-> a, left |-> l, right |-> r, count |-> n]
    OBVIOUS
  <2> QED
    BY ONLY <2>1, <2>2, <2>3
<1>4. ASSUME NEW l, NEW r PROVE With(d, l, r) = Joined(d.arena, l, r)
  <2> DEFINE n == l.count + r.count
  <2>1. With(d, l, r) = [d EXCEPT !.left = l, !.right = r, !.count = n]
    BY DEF With
  <2>2. Joined(d.arena, l, r) = [arena |-> a, left |-> l, right |-> r, count |-> n]
    BY <1>2 DEF Joined
  <2> HIDE DEF n
  <2> QED
    BY <1>3, <2>1, <2>2
<1> QED
  BY <1>4

\* Two intervals make a deque.
LEMMA JoinedTwo ==
    ASSUME NEW B, NEW a, NEW l, NEW r, Span(B, l), Span(B, r)
    PROVE  LET d == Joined(a, l, r) IN
           Two(B, d) /\ d.arena = a /\ d.left = l /\ d.right = r /\ d.count = l.count + r.count
BY DEF Two, Joined

\* Traversing an interval gives the values from its tail upwards.
LEMMA UpwardsUnfolds ==
    ASSUME NEW B, Solid(B), NEW iv, Span(B, iv)
    PROVE  Upwards(B, iv) = [i \in 1..iv.count |-> ValueOf(B, Up(B, iv.tail, i - 1))]
<1> DEFINE n == iv.count
           t == iv.tail
           Path(path) == path = [i \in 1..n |-> IF i = 1 THEN t ELSE Parent(B, path[i - 1])]
           path == CHOOSE p : Path(p)
           spots == [i \in 1..n |-> Up(B, t, i - 1)]
<1>0. n \in Nat /\ t \in Nodes(B) /\ n <= Depth(B, t) + 1 /\ Depth(B, t) \in Int
  BY SpanFields
<1>1. ASSUME NEW i \in 1..n PROVE spots[i] = IF i = 1 THEN t ELSE Parent(B, spots[i - 1])
  <2>1. CASE i = 1
    <3>1. 1 - 1 = 0 /\ 0 \in 0..(Depth(B, t) + 1)
      BY <1>0
    <3>2. Up(B, t, 0) = t
      BY <1>0, <3>1, Climbing
    <3> QED
      BY <2>1, <3>1, <3>2
  <2>2. CASE i # 1
    <3> DEFINE k == (i - 1) - 1
    <3>1. i - 1 \in 1..n /\ k \in 0..(Depth(B, t) + 1) /\ k <= Depth(B, t) /\ k + 1 = i - 1
      BY <1>0, <2>2
    <3> HIDE DEF k
    <3>2. Parent(B, Up(B, t, k)) = Up(B, t, k + 1)
      BY <1>0, <3>1, Climbing
    <3> QED
      BY <2>2, <3>1, <3>2 DEF k
  <2> QED
    BY <2>1, <2>2
<1>2. Path(spots)
  <2> DEFINE sol == [i \in 1..n |-> IF i = 1 THEN t ELSE Parent(B, spots[i - 1])]
  <2>1. spots = sol
    <3>1. \A i \in 1..n : spots[i] = sol[i]
      BY <1>1
    <3>2. spots = [i \in 1..n |-> spots[i]] /\ sol = [i \in 1..n |-> sol[i]]
      OBVIOUS
    <3> HIDE DEF spots, sol
    <3> QED
      BY <3>1, <3>2
  <2> QED
    BY <2>1
<1>3. Path(path)
  <2> HIDE DEF spots
  <2> QED
    BY <1>2
<1>4. Upwards(B, iv) = <<>> \o [i \in 1..n |-> ValueOf(B, path[i])]
  BY DEF Upwards
<1> HIDE DEF path, spots
<1>5. \A i \in 1..n : path[i] = IF i = 1 THEN t ELSE Parent(B, path[i - 1])
  BY <1>3
<1> DEFINE Good(k) == k < n => path[k + 1] = spots[k + 1]
           T == {k \in Nat : Good(k)}
<1>6. Nat \subseteq T
  <2>1. Good(0)
    BY <1>0, <1>1, <1>5
  <2>2. ASSUME NEW k \in Nat, Good(k) PROVE Good(k + 1)
    <3>1. CASE k + 1 < n
      <4>1. (k + 1) + 1 \in 1..n /\ (k + 1) + 1 # 1 /\ ((k + 1) + 1) - 1 = k + 1 /\ k < n
        BY <1>0, <3>1
      <4> QED
        BY <1>1, <1>5, <2>2, <4>1
    <3> QED
      BY <3>1
  <2>3. 0 \in T /\ \A k \in Nat : k \in T => k + 1 \in T
    BY <2>1, <2>2
  <2> HIDE DEF T
  <2> QED
    BY <2>3, AllNumbers
<1>7. ASSUME NEW i \in 1..n PROVE path[i] = spots[i]
  <2>1. i - 1 \in Nat /\ i - 1 < n /\ (i - 1) + 1 = i
    BY <1>0
  <2>2. Good(i - 1)
    BY <1>6, <2>1
  <2> QED
    BY <2>1, <2>2
<1>8. \A i \in 1..n : ValueOf(B, path[i]) = ValueOf(B, Up(B, t, i - 1))
  BY <1>7 DEF spots
<1> DEFINE f == [i \in 1..n |-> ValueOf(B, path[i])]
           g == [i \in 1..n |-> ValueOf(B, Up(B, t, i - 1))]
<1>9. f = g
  BY <1>8
<1>10. <<>> \o g = g
  <2> DEFINE S == {g[i] : i \in 1..n}
  <2>1. g \in [1..n -> S]
    OBVIOUS
  <2> HIDE DEF g, S
  <2>2. g \in Seq(S)
    BY <1>0, <2>1, SeqDef
  <2> QED
    BY <2>2, ConcatEmptySeq
<1> QED
  BY <1>4, <1>9, <1>10

\* A sequence followed by another backwards.
LEMMA BackToBack ==
    ASSUME NEW S, NEW f \in Seq(S), NEW g \in Seq(S)
    PROVE  LET m == Len(f) + Len(g) IN
           f \o Reverse(g) = [i \in 1..m |-> IF i <= Len(f) THEN f[i] ELSE g[m - i + 1]]
<1> DEFINE m == Len(f) + Len(g)
           b == Reverse(g)
           w == [i \in 1..m |-> IF i <= Len(f) THEN f[i] ELSE g[m - i + 1]]
<1>0. Len(f) \in Nat /\ Len(g) \in Nat /\ m \in Nat
  BY LenProperties
<1>1. b = [j \in 1..Len(g) |-> g[(Len(g) - j) + 1]]
  BY DEF Reverse
<1>2. b \in Seq(S) /\ Len(b) = Len(g)
  <2>1. \A j \in 1..Len(g) : (Len(g) - j) + 1 \in 1..Len(g)
    BY <1>0
  <2>2. b \in [1..Len(g) -> S]
    BY <1>1, <2>1, ElementOfSeq
  <2> HIDE DEF b
  <2> QED
    BY <1>0, <2>2, SeqDef
<1> HIDE DEF b
<1>3. /\ f \o b \in Seq(S) /\ Len(f \o b) = m
      /\ \A i \in 1..m : (f \o b)[i] = IF i <= Len(f) THEN f[i] ELSE b[i - Len(f)]
  <2>1. /\ f \o b \in Seq(S) /\ Len(f \o b) = Len(f) + Len(b)
        /\ \A i \in 1..(Len(f) + Len(b)) : (f \o b)[i] = IF i <= Len(f) THEN f[i] ELSE b[i - Len(f)]
    BY <1>2, ConcatProperties
  <2> QED
    BY <1>2, <2>1
<1>4. ASSUME NEW i \in 1..m PROVE (f \o b)[i] = w[i]
  <2>1. CASE i <= Len(f)
    BY <1>3, <2>1
  <2>2. CASE ~(i <= Len(f))
    <3>1. i - Len(f) \in 1..Len(g) /\ (Len(g) - (i - Len(f))) + 1 = m - i + 1
      BY <1>0, <2>2
    <3> QED
      BY <1>1, <1>3, <2>2, <3>1
  <2> QED
    BY <2>1, <2>2
<1>5. w \in Seq(S) /\ Len(w) = m
  <2>1. ASSUME NEW i \in 1..m PROVE w[i] \in S
    <3>1. (f \o b)[i] \in S
      BY <1>3, ElementOfSeq
    <3> QED
      BY <1>4, <3>1
  <2>2. w \in [1..m -> S]
    BY <2>1
  <2> HIDE DEF w, m
  <2> QED
    BY <1>0, <2>2, SeqDef
<1> HIDE DEF w, m
<1>6. f \o b = w
  BY <1>3, <1>4, <1>5, SeqEqual
<1> QED
  BY <1>6 DEF w, m, b

\* Traversing a deque shows the values of its places.
LEMMA VisitUnfolds ==
    ASSUME NEW B, Solid(B), NEW d, Two(B, d)
    PROVE  /\ VisitOn(B, d) = [i \in 1..d.count |-> ValueOf(B, Place(B, d, i - 1))]
           /\ Len(VisitOn(B, d)) = d.count /\ d.count \in Nat
<1> DEFINE f == Upwards(B, d.left)
           g == Upwards(B, d.right)
           l == d.left.count
           r == d.right.count
           S == {f[i] : i \in 1..l} \cup {g[i] : i \in 1..r}
<1>0. l \in Nat /\ r \in Nat /\ d.count = l + r
  BY TwoCounts
<1>1. /\ f = [i \in 1..l |-> ValueOf(B, Up(B, d.left.tail, i - 1))]
      /\ g = [i \in 1..r |-> ValueOf(B, Up(B, d.right.tail, i - 1))]
  <2>1. Span(B, d.left) /\ Span(B, d.right)
    BY DEF Two
  <2>2. \A iv : Span(B, iv) => Upwards(B, iv) = [i \in 1..iv.count |-> ValueOf(B, Up(B, iv.tail, i - 1))]
    BY UpwardsUnfolds
  <2>3. f = [i \in 1..l |-> ValueOf(B, Up(B, d.left.tail, i - 1))]
    BY <2>1, <2>2, Zenon
  <2>4. g = [i \in 1..r |-> ValueOf(B, Up(B, d.right.tail, i - 1))]
    BY <2>1, <2>2, Zenon
  <2> QED
    BY <2>3, <2>4
<1> HIDE DEF f, g
<1>2. f \in Seq(S) /\ g \in Seq(S) /\ Len(f) = l /\ Len(g) = r
  <2>1. f \in [1..l -> S] /\ g \in [1..r -> S]
    BY <1>1
  <2> HIDE DEF S, l, r
  <2> QED
    BY <1>0, <2>1, SeqDef
<1> HIDE DEF S
<1> DEFINE m == l + r
           w == [i \in 1..m |-> IF i <= l THEN f[i] ELSE g[m - i + 1]]
<1>3. VisitOn(B, d) = w
  <2>1. f \o Reverse(g) = w
    <3>1. f \o Reverse(g) = [i \in 1..(Len(f) + Len(g)) |-> IF i <= Len(f) THEN f[i] ELSE g[(Len(f) + Len(g)) - i + 1]]
      <4>1. f \in Seq(S) /\ g \in Seq(S)
        BY <1>2
      <4> QED
        BY <4>1, BackToBack
    <3>2. Len(f) = l /\ Len(g) = r
      BY <1>2
    <3> HIDE DEF l, r
    <3> QED
      BY <3>1, <3>2
  <2> QED
    BY <2>1 DEF VisitOn, f, g
<1>4. ASSUME NEW i \in 1..m PROVE w[i] = ValueOf(B, Place(B, d, i - 1))
  <2>1. CASE i <= l
    <3>1. i \in 1..l /\ i - 1 < l
      BY <1>0, <2>1
    <3> QED
      BY <1>1, <2>1, <3>1 DEF Place
  <2>2. CASE ~(i <= l)
    <3>1. ~(i - 1 < l) /\ m - i + 1 \in 1..r /\ (m - i + 1) - 1 = d.count - 1 - (i - 1)
      BY <1>0, <2>2
    <3>2. Place(B, d, i - 1) = Up(B, d.right.tail, d.count - 1 - (i - 1))
      BY <3>1 DEF Place
    <3> QED
      BY <1>1, <2>2, <3>1, <3>2
  <2> QED
    BY <2>1, <2>2
<1>5. w = [i \in 1..m |-> ValueOf(B, Place(B, d, i - 1))]
  BY <1>4
<1>6. m = d.count /\ m \in Nat
  BY <1>0
<1>7. Len(w) = m
  <2> HIDE DEF m
  <2> QED
    BY <1>6
<1> QED
  BY <1>3, <1>5, <1>6, <1>7

\* A part of an interval is an interval, and its nodes are those of the whole.
LEMMA PartShows ==
    ASSUME NEW B, Solid(B), NEW t \in Nodes(B), NEW s \in Nat, NEW n \in Nat, s + n <= Depth(B, t) + 1, NEW p,
           p = Arm(B, Up(B, t, s), n) \/ (n = 0 /\ p = EmptyAt(Bottom))
    PROVE  /\ Span(B, p) /\ p.count = n
           /\ \A k \in 0..(n - 1) : Up(B, p.tail, k) = Up(B, t, s + k)
<1>0. Depth(B, t) \in Int
  BY NodeRanges DEF Solid
<1>1. CASE n = 0 /\ p = EmptyAt(Bottom)
  BY <1>1, NoArm
<1>2. CASE p = Arm(B, Up(B, t, s), n)
  <2> DEFINE m == Up(B, t, s)
  <2>1. s \in 0..(Depth(B, t) + 1)
    BY <1>0
  <2>2. /\ m \in Nodes(B) /\ Depth(B, m) = Depth(B, t) - s
        /\ \A j \in 0..(Depth(B, t) + 1 - s) : Up(B, m, j) = Up(B, t, s + j)
    BY <2>1, Climbing
  <2> HIDE DEF m
  <2>3. n \in 0..(Depth(B, m) + 1) /\ \A k \in 0..(n - 1) : k \in 0..(Depth(B, t) + 1 - s)
    BY <1>0, <2>2
  <2>4. Span(B, Arm(B, m, n)) /\ Arm(B, m, n).tail = m /\ Arm(B, m, n).count = n
    BY <2>2, <2>3, ArmSpans
  <2> QED
    BY <1>2, <2>2, <2>3, <2>4 DEF m
<1> QED
  BY <1>1, <1>2

\* The part of d from index i with n values.
Cut(B, d, i, n, e) ==
    /\ e.arena = d.arena /\ Two(B, e) /\ e.count = n
    /\ \A k \in 0..(n - 1) : Place(B, e, k) = Place(B, d, i + k)

\* A subsequence, value by value.
LEMMA PartOfSeq ==
    ASSUME NEW S, NEW all \in Seq(S), NEW i \in 0..Len(all), NEW n \in 0..(Len(all) - i)
    PROVE  /\ SubSeq(all, i + 1, i + n) \in Seq(S)
           /\ SubSeq(all, i + 1, i + n) = [j \in 1..n |-> all[i + j]]
<1> DEFINE t == SubSeq(all, i + 1, i + n)
           sub == [j \in 1..n |-> all[i + j]]
           a == i + 1
           b == i + n
<1>0. Len(all) \in Nat /\ n \in Nat
  BY LenProperties
<1>1. a \in Int /\ b \in Int /\ \A j \in a..b : all[j] \in S
  <2>1. \A j \in a..b : j \in 1..Len(all)
    BY <1>0
  <2> QED
    BY <2>1, ElementOfSeq
<1>2. b - a + 1 = n /\ (a <= b <=> n # 0) /\ \A j \in 1..n : a + j - 1 = i + j
  BY <1>0
<1> HIDE DEF a, b
<1>3. /\ SubSeq(all, a, b) \in Seq(S)
      /\ Len(SubSeq(all, a, b)) = IF a <= b THEN b - a + 1 ELSE 0
      /\ \A j \in 1..(b - a + 1) : SubSeq(all, a, b)[j] = all[a + j - 1]
  BY <1>1, SubSeqProperties
<1>4. t \in Seq(S) /\ Len(t) = n /\ \A j \in 1..n : t[j] = all[i + j]
  BY <1>0, <1>2, <1>3 DEF a, b
<1>5. sub \in Seq(S) /\ Len(sub) = n
  <2>1. \A j \in 1..n : i + j \in 1..Len(all)
    BY <1>0
  <2>2. sub \in [1..n -> S]
    BY <2>1, ElementOfSeq
  <2> HIDE DEF sub
  <2> QED
    BY <1>0, <2>2, SeqDef
<1>6. \A j \in 1..n : sub[j] = all[i + j]
  OBVIOUS
<1> HIDE DEF t, sub
<1>7. t = sub
  BY <1>4, <1>5, <1>6, SeqEqual
<1> QED
  BY <1>4, <1>7 DEF t, sub

\* A part of a deque shows that part of the values.
LEMMA CutShows ==
    ASSUME NEW B, Solid(B), NEW d, Two(B, d), NEW S, VisitOn(B, d) \in Seq(S),
           NEW i \in 0..d.count, NEW n \in 0..(d.count - i), NEW e, Cut(B, d, i, n, e)
    PROVE  /\ VisitOn(B, e) = SubSeq(VisitOn(B, d), i + 1, i + n)
           /\ VisitOn(B, e) \in Seq(S)
<1> DEFINE all == VisitOn(B, d)
<1>1. all = [j \in 1..d.count |-> ValueOf(B, Place(B, d, j - 1))] /\ Len(all) = d.count /\ d.count \in Nat
  BY VisitUnfolds
<1>2. VisitOn(B, e) = [j \in 1..n |-> ValueOf(B, Place(B, e, j - 1))]
  BY VisitUnfolds DEF Cut
<1> HIDE DEF all
<1>3. ASSUME NEW j \in 1..n PROVE ValueOf(B, Place(B, e, j - 1)) = all[i + j]
  <2>1. i + j \in 1..d.count /\ (i + j) - 1 = i + (j - 1) /\ j - 1 \in 0..(n - 1)
    BY <1>1
  <2>2. Place(B, e, j - 1) = Place(B, d, i + (j - 1))
    BY <2>1 DEF Cut
  <2> QED
    BY <1>1, <2>1, <2>2
<1>4. VisitOn(B, e) = [j \in 1..n |-> all[i + j]]
  BY <1>2, <1>3
<1>5. /\ SubSeq(all, i + 1, i + n) \in Seq(S)
      /\ SubSeq(all, i + 1, i + n) = [j \in 1..n |-> all[i + j]]
  BY <1>1, PartOfSeq DEF all
<1> QED
  BY <1>4, <1>5 DEF all

\* Parts of both intervals that meet are a part of the deque.
LEMMA CutOfParts ==
    ASSUME NEW B, Solid(B), NEW d, Two(B, d), NEW i \in 0..d.count, NEW n \in 0..(d.count - i),
           NEW x, Span(B, x), NEW y, Span(B, y), x.count + y.count = n,
           x.count > 0 => i + x.count <= d.left.count, y.count > 0 => i + x.count >= d.left.count,
           \A k \in 0..(x.count - 1) : Up(B, x.tail, k) = Up(B, d.left.tail, i + k),
           \A k \in 0..(y.count - 1) : Up(B, y.tail, k) = Up(B, d.right.tail, (d.count - i - n) + k)
    PROVE  Cut(B, d, i, n, Joined(d.arena, x, y))
<1> DEFINE e == Joined(d.arena, x, y)
<1>0. d.left.count \in Nat /\ d.right.count \in Nat /\ d.count = d.left.count + d.right.count
  BY TwoCounts
<1>1. x.count \in Nat /\ y.count \in Nat
  BY SpanFields
<1>2. Two(B, e) /\ e.arena = d.arena /\ e.left = x /\ e.right = y /\ e.count = n
  BY JoinedTwo
<1> HIDE DEF e
<1>3. ASSUME NEW k \in 0..(n - 1) PROVE Place(B, e, k) = Place(B, d, i + k)
  <2>1. CASE k < x.count
    <3>1. k \in 0..(x.count - 1) /\ i + k < d.left.count
      BY <1>0, <1>1, <2>1
    <3> QED
      BY <1>2, <2>1, <3>1 DEF Place
  <2>2. CASE ~(k < x.count)
    <3> DEFINE j == n - 1 - k
    <3>1. j \in 0..(y.count - 1) /\ ~(i + k < d.left.count) /\ (d.count - i - n) + j = d.count - 1 - (i + k)
      BY <1>0, <1>1, <2>2
    <3>2. Place(B, e, k) = Up(B, y.tail, j) /\ Place(B, d, i + k) = Up(B, d.right.tail, d.count - 1 - (i + k))
      BY <1>2, <2>2, <3>1 DEF Place
    <3> HIDE DEF j
    <3> QED
      BY <3>1, <3>2
  <2> QED
    BY <2>1, <2>2
<1> QED
  BY <1>2, <1>3 DEF Cut, e

\* An empty deque is an empty part of any on its arena.
LEMMA EmptyCut ==
    ASSUME NEW B, Solid(B), NEW d, Two(B, d), NEW i \in 0..d.count
    PROVE  Cut(B, d, i, 0, EmptyDeque(d.arena))
<1> DEFINE x == EmptyAt(Bottom)
<1>1. Span(B, x) /\ x.count = 0
  BY NoArm
<1>2. EmptyDeque(d.arena) = Joined(d.arena, x, x)
  BY DEF EmptyDeque, Joined, EmptyAt
<1> HIDE DEF x
<1>3. 0 \in 0..(d.count - i) /\ d.count \in Nat
  BY TwoCounts
<1> QED
  BY <1>1, <1>2, <1>3, CutOfParts

\* A deque is a part of itself.
LEMMA WholeCut ==
    ASSUME NEW B, Solid(B), NEW d, Two(B, d) PROVE Cut(B, d, 0, d.count, d) /\ d.count \in Nat
<1>1. d.count \in Nat
  BY TwoCounts
<1>2. \A k \in 0..(d.count - 1) : 0 + k = k
  OBVIOUS
<1> QED
  BY <1>1, <1>2 DEF Cut

\* What calls that slice a deque leave is the slice.
LEMMA SliceCuts ==
    ASSUME NEW d, NEW B, B = A(d), Solid(B), Two(B, d), NEW i \in 0..d.count, NEW n \in 0..(d.count - i)
    PROVE  Cut(B, d, i, n, Slice(d, i, n))
<1> DEFINE l == d.left.count
           r == d.right.count
           u == LeastOf(i, l)
           v == LeastOf(i + n, l) - u
           f == Beyond(i, l)
           g == Beyond(i + n, l) - f
           x == SliceLeft(d, d.left, u, v).interval
           y == SliceRight(d, d.right, f, g).interval
<1>0. l \in Nat /\ r \in Nat /\ d.count = l + r /\ d.count \in Nat
  BY TwoCounts
<1>1. CASE i = 0 /\ n = d.count
  BY <1>1, WholeCut DEF Slice
<1>2. CASE ~(i = 0 /\ n = d.count) /\ n = 0
  BY <1>2, EmptyCut DEF Slice
<1>3. CASE ~(i = 0 /\ n = d.count) /\ n # 0
  <2>1. Slice(d, i, n) = Joined(d.arena, x, y)
    <3>1. With(d, x, y) = Joined(d.arena, x, y)
      BY WithJoins DEF Two
    <3> QED
      BY <1>3, <3>1 DEF Slice, SlicePartLeft, SlicePartRight
  <2>2. /\ u \in Nat /\ v \in Nat /\ u + v <= l /\ f \in Nat /\ g \in Nat /\ f + g <= r /\ v + g = n
        /\ (v > 0 => u = i /\ i + v <= l) /\ (g > 0 => i + v >= l /\ r - f - g = d.count - i - n)
    <3>1. CASE i + n <= l
      <4>1. LeastOf(i, l) = i /\ LeastOf(i + n, l) = i + n /\ Beyond(i, l) = 0 /\ Beyond(i + n, l) = 0
        BY <1>0, <3>1 DEF LeastOf, Beyond
      <4> QED
        BY <1>0, <1>3, <3>1, <4>1
    <3>2. CASE i >= l
      BY <1>0, <1>3, <3>2 DEF LeastOf, Beyond
    <3>3. CASE i < l /\ i + n > l
      BY <1>0, <1>3, <3>3 DEF LeastOf, Beyond
    <3> QED
      BY <1>0, <3>1, <3>2, <3>3
  <2> HIDE DEF u, v, f, g
  <2>3. /\ d.left.tail \in Nodes(B) /\ l <= Depth(B, d.left.tail) + 1 /\ Depth(B, d.left.tail) \in Int
        /\ d.right.tail \in Nodes(B) /\ r <= Depth(B, d.right.tail) + 1 /\ Depth(B, d.right.tail) \in Int
    BY SpanFields DEF Two
  <2>4. /\ Span(B, x) /\ x.count = v
        /\ \A k \in 0..(v - 1) : Up(B, x.tail, k) = Up(B, d.left.tail, u + k)
    <3>1. x = IF v = 0 THEN EmptyAt(Bottom) ELSE Arm(B, Up(B, d.left.tail, u), v)
      BY <2>2, PartOfLeft DEF Two
    <3>2. u + v <= Depth(B, d.left.tail) + 1
      BY <1>0, <2>2, <2>3
    <3> HIDE DEF x
    <3> QED
      BY <2>2, <2>3, <3>1, <3>2, PartShows
  <2>5. /\ Span(B, y) /\ y.count = g
        /\ \A k \in 0..(g - 1) : Up(B, y.tail, k) = Up(B, d.right.tail, (r - f - g) + k)
    <3>1. y = IF g = 0 THEN EmptyAt(Bottom) ELSE Arm(B, Up(B, d.right.tail, r - f - g), g)
      BY <2>2, PartOfRight DEF Two
    <3> DEFINE s == r - f - g
    <3>2. s \in Nat /\ s + g <= Depth(B, d.right.tail) + 1
      BY <1>0, <2>2, <2>3
    <3> HIDE DEF y, s
    <3>3. y = Arm(B, Up(B, d.right.tail, s), g) \/ (g = 0 /\ y = EmptyAt(Bottom))
      BY <3>1 DEF s
    <3>4. /\ Span(B, y) /\ y.count = g
          /\ \A k \in 0..(g - 1) : Up(B, y.tail, k) = Up(B, d.right.tail, s + k)
      BY <2>2, <2>3, <3>2, <3>3, PartShows
    <3> QED
      BY <3>4 DEF s
  <2> HIDE DEF x, y
  <2>6. \A k \in 0..(x.count - 1) : Up(B, x.tail, k) = Up(B, d.left.tail, i + k)
    BY <2>2, <2>4
  <2>7. \A k \in 0..(y.count - 1) : Up(B, y.tail, k) = Up(B, d.right.tail, (d.count - i - n) + k)
    BY <2>2, <2>5
  <2>8. Cut(B, d, i, n, Joined(d.arena, x, y))
    <3>1. /\ x.count + y.count = n /\ (x.count > 0 => i + x.count <= d.left.count)
          /\ (y.count > 0 => i + x.count >= d.left.count)
      BY <2>2, <2>4, <2>5
    <3> QED
      BY <2>4, <2>5, <2>6, <2>7, <3>1, CutOfParts
  <2> QED
    BY <2>1, <2>8
<1> QED
  BY <1>1, <1>2, <1>3

\* What calls that take an end of a deque leave is the rest.
LEMMA EndsCut ==
    ASSUME NEW d, NEW B, B = A(d), Solid(B), Two(B, d), d.count > 0
    PROVE  Cut(B, d, 1, d.count - 1, WithoutFirst(d)) /\ Cut(B, d, 0, d.count - 1, WithoutLast(d))
<1> DEFINE l == d.left.count
           r == d.right.count
           n == d.count - 1
<1>0. /\ l \in Nat /\ r \in Nat /\ d.count = l + r /\ d.count \in Nat /\ n \in Nat
      /\ 1 \in 0..d.count /\ n \in 0..(d.count - 1) /\ 0 \in 0..d.count /\ n \in 0..(d.count - 0)
      /\ d.count - 1 - n = 0 /\ d.count - 0 - n = 1
  BY TwoCounts
<1>9. l \in Nat /\ r \in Nat /\ d.count = l + r
  BY <1>0
<1>1. /\ Span(B, d.left) /\ d.left.tail \in Nodes(B) /\ l <= Depth(B, d.left.tail) + 1 /\ Depth(B, d.left.tail) \in Int
      /\ Span(B, d.right) /\ d.right.tail \in Nodes(B) /\ r <= Depth(B, d.right.tail) + 1 /\ Depth(B, d.right.tail) \in Int
  BY SpanFields DEF Two
<1> DEFINE Rest(p, iv, j) == /\ Span(B, p) /\ p.count = iv.count - 1
                             /\ \A k \in 0..(p.count - 1) : Up(B, p.tail, k) = Up(B, iv.tail, j + k)
<1>2. ASSUME NEW iv, Span(B, iv), iv.count > 0
      PROVE  Rest(RemoveTail(d, iv), iv, 1) /\ Rest(RemoveBase(d, iv), iv, 0)
  <2> DEFINE t == iv.tail
             m == iv.count - 1
  <2>1. t \in Nodes(B) /\ iv.count \in Nat /\ iv.count <= Depth(B, t) + 1 /\ Depth(B, t) \in Int
    BY <1>2, SpanFields
  <2>2. m \in Nat /\ 1 + m <= Depth(B, t) + 1 /\ 0 + m <= Depth(B, t) + 1 /\ 0 \in 0..(Depth(B, t) + 1)
    BY <1>2, <2>1
  <2>3. RemoveTail(d, iv) = Arm(B, Up(B, t, 1), m) /\ RemoveBase(d, iv) = Arm(B, t, m)
    BY <1>2, EndsRemoved
  <2>4. Up(B, t, 0) = t
    BY <2>1, <2>2, Climbing
  <2> HIDE DEF m, t
  <2>5. ASSUME NEW j \in {0, 1}, NEW p, p = Arm(B, Up(B, t, j), m)
        PROVE  Span(B, p) /\ p.count = m /\ \A k \in 0..(m - 1) : Up(B, p.tail, k) = Up(B, t, j + k)
    BY <2>1, <2>2, <2>5, PartShows
  <2> QED
    BY <2>3, <2>4, <2>5 DEF m, t
<1> HIDE DEF Rest
<1>3. Cut(B, d, 1, n, WithoutFirst(d))
  <2>1. CASE d.count = 1
    BY <1>0, <2>1, EmptyCut DEF WithoutFirst
  <2>2. CASE d.count # 1 /\ l # 0
    <3> DEFINE x == RemoveTail(d, d.left)
               y == d.right
    <3>1. Rest(x, d.left, 1)
      <4>1. d.left.count > 0
        BY <1>0, <2>2
      <4>2. Span(B, d.left)
        BY <1>1
      <4> QED
        BY <1>2, <4>1, <4>2
    <3>2. Span(B, x) /\ x.count = l - 1
      BY <3>1 DEF Rest
    <3>3. \A k \in 0..(x.count - 1) : Up(B, x.tail, k) = Up(B, d.left.tail, 1 + k)
      BY <3>1 DEF Rest
    <3>4. WithoutFirst(d) = Joined(d.arena, x, y)
      BY <2>2, WithJoins DEF WithoutFirst, Two
    <3> HIDE DEF x
    <3>5. x.count + y.count = n /\ 1 + x.count <= l /\ 1 + x.count >= l
      BY <1>9, <2>2, <3>2
    <3>6. \A k \in 0..(y.count - 1) : Up(B, y.tail, k) = Up(B, d.right.tail, (d.count - 1 - n) + k)
      BY <1>0
    <3> HIDE DEF n, y
    <3>7. Span(B, y)
      BY <1>1 DEF y
    <3> QED
      BY <1>0, <3>2, <3>3, <3>4, <3>5, <3>6, <3>7, CutOfParts
  <2>3. CASE d.count # 1 /\ l = 0
    <3> DEFINE x == d.left
               y == RemoveBase(d, d.right)
    <3>1. Rest(y, d.right, 0)
      <4>1. d.right.count > 0
        BY <1>0, <2>3
      <4>2. Span(B, d.right)
        BY <1>1
      <4> QED
        BY <1>2, <4>1, <4>2
    <3>2. Span(B, y) /\ y.count = r - 1
      BY <3>1 DEF Rest
    <3>3. \A k \in 0..(y.count - 1) : Up(B, y.tail, k) = Up(B, d.right.tail, 0 + k)
      BY <3>1 DEF Rest
    <3>4. WithoutFirst(d) = Joined(d.arena, x, y)
      BY <2>3, WithJoins DEF WithoutFirst, Two
    <3> HIDE DEF y
    <3>5. x.count + y.count = n /\ ~(x.count > 0) /\ 1 + x.count >= l
      BY <1>0, <2>3, <3>2
    <3>6. \A k \in 0..(y.count - 1) : Up(B, y.tail, k) = Up(B, d.right.tail, (d.count - 1 - n) + k)
      BY <1>0, <3>3
    <3>7. \A k \in 0..(x.count - 1) : Up(B, x.tail, k) = Up(B, d.left.tail, 1 + k)
      BY <2>3
    <3> HIDE DEF n, x
    <3>8. Span(B, x)
      BY <1>1 DEF x
    <3> QED
      BY <1>0, <3>2, <3>4, <3>5, <3>6, <3>7, <3>8, CutOfParts
  <2> QED
    BY <2>1, <2>2, <2>3
<1>4. Cut(B, d, 0, n, WithoutLast(d))
  <2>1. CASE d.count = 1
    BY <1>0, <2>1, EmptyCut DEF WithoutLast
  <2>2. CASE d.count # 1 /\ r # 0
    <3> DEFINE x == d.left
               y == RemoveTail(d, d.right)
    <3>1. Rest(y, d.right, 1)
      <4>1. d.right.count > 0
        BY <1>0, <2>2
      <4>2. Span(B, d.right)
        BY <1>1
      <4> QED
        BY <1>2, <4>1, <4>2
    <3>2. Span(B, y) /\ y.count = r - 1
      BY <3>1 DEF Rest
    <3>3. \A k \in 0..(y.count - 1) : Up(B, y.tail, k) = Up(B, d.right.tail, 1 + k)
      BY <3>1 DEF Rest
    <3>4. WithoutLast(d) = Joined(d.arena, x, y)
      BY <2>2, WithJoins DEF WithoutLast, Two
    <3> HIDE DEF y
    <3>5. x.count + y.count = n /\ 0 + x.count <= l /\ 0 + x.count >= l
      BY <1>9, <2>2, <3>2
    <3>6. \A k \in 0..(y.count - 1) : Up(B, y.tail, k) = Up(B, d.right.tail, (d.count - 0 - n) + k)
      BY <1>0, <3>3
    <3>7. \A k \in 0..(x.count - 1) : Up(B, x.tail, k) = Up(B, d.left.tail, 0 + k)
      OBVIOUS
    <3> HIDE DEF n, x
    <3>8. Span(B, x)
      BY <1>1 DEF x
    <3> QED
      BY <1>0, <3>2, <3>4, <3>5, <3>6, <3>7, <3>8, CutOfParts
  <2>3. CASE d.count # 1 /\ r = 0
    <3> DEFINE x == RemoveBase(d, d.left)
               y == d.right
    <3>1. Rest(x, d.left, 0)
      <4>1. d.left.count > 0
        BY <1>0, <2>3
      <4>2. Span(B, d.left)
        BY <1>1
      <4> QED
        BY <1>2, <4>1, <4>2
    <3>2. Span(B, x) /\ x.count = l - 1
      BY <3>1 DEF Rest
    <3>3. \A k \in 0..(x.count - 1) : Up(B, x.tail, k) = Up(B, d.left.tail, 0 + k)
      BY <3>1 DEF Rest
    <3>4. WithoutLast(d) = Joined(d.arena, x, y)
      BY <2>3, WithJoins DEF WithoutLast, Two
    <3> HIDE DEF x
    <3>5. x.count + y.count = n /\ 0 + x.count <= l /\ ~(y.count > 0)
      BY <1>0, <2>3, <3>2
    <3>6. \A k \in 0..(y.count - 1) : Up(B, y.tail, k) = Up(B, d.right.tail, (d.count - 0 - n) + k)
      BY <2>3
    <3> HIDE DEF n, y
    <3>7. Span(B, y)
      BY <1>1 DEF y
    <3> QED
      BY <1>0, <3>2, <3>3, <3>4, <3>5, <3>6, <3>7, CutOfParts
  <2> QED
    BY <2>1, <2>2, <2>3
<1> QED
  BY <1>3, <1>4

\* A reversed deque (the intervals change sides) shows the values backwards.
LEMMA ReversedShows ==
    ASSUME NEW B, Solid(B), NEW d, Two(B, d), NEW S, VisitOn(B, d) \in Seq(S)
    PROVE  LET e == Reversed(d) IN
           Two(B, e) /\ e.arena = d.arena /\ VisitOn(B, e) = Reverse(VisitOn(B, d)) /\ VisitOn(B, e) \in Seq(S)
<1> DEFINE e == Reversed(d)
           l == d.left.count
           r == d.right.count
           all == VisitOn(B, d)
<1>0. l \in Nat /\ r \in Nat /\ d.count = l + r /\ d.count \in Nat
  BY TwoCounts
<1>1. /\ Two(B, e) /\ e.arena = d.arena /\ e.count = d.count
      /\ \A k \in 0..(d.count - 1) : Place(B, e, k) = Place(B, d, d.count - 1 - k)
  <2>1. CASE d.count <= 1
    <3>1. \A k \in 0..(d.count - 1) : d.count - 1 - k = k
      BY <1>0, <2>1
    <3> QED
      BY <2>1, <3>1 DEF Reversed
  <2>2. CASE ~(d.count <= 1)
    <3>1. e = Joined(d.arena, d.right, d.left)
      BY <2>2, WithJoins DEF Reversed, Two
    <3> HIDE DEF e
    <3>2. Two(B, e) /\ e.arena = d.arena /\ e.left = d.right /\ e.right = d.left /\ e.count = r + l
      BY <3>1, JoinedTwo DEF Two
    <3>3. ASSUME NEW k \in 0..(d.count - 1) PROVE Place(B, e, k) = Place(B, d, d.count - 1 - k)
      <4>1. CASE k < r
        <5>1. ~(d.count - 1 - k < l) /\ d.count - 1 - (d.count - 1 - k) = k
          BY <1>0, <4>1
        <5> QED
          BY <3>2, <4>1, <5>1 DEF Place
      <4>2. CASE ~(k < r)
        <5>1. d.count - 1 - k < l /\ e.count - 1 - k = d.count - 1 - k
          BY <1>0, <3>2, <4>2
        <5> QED
          BY <3>2, <4>2, <5>1 DEF Place
      <4> QED
        BY <4>1, <4>2
    <3> QED
      BY <1>0, <3>2, <3>3
  <2> QED
    BY <2>1, <2>2
<1> HIDE DEF e
<1>2. all = [i \in 1..d.count |-> ValueOf(B, Place(B, d, i - 1))] /\ Len(all) = d.count
  BY VisitUnfolds
<1>3. VisitOn(B, e) = [i \in 1..d.count |-> ValueOf(B, Place(B, e, i - 1))]
  BY <1>1, VisitUnfolds
<1> HIDE DEF all
<1>4. ASSUME NEW i \in 1..d.count
      PROVE  ValueOf(B, Place(B, e, i - 1)) = all[(d.count - i) + 1] /\ (d.count - i) + 1 \in 1..d.count
  <2>1. i - 1 \in 0..(d.count - 1) /\ (d.count - i) + 1 \in 1..d.count /\ ((d.count - i) + 1) - 1 = d.count - 1 - (i - 1)
    BY <1>0
  <2>2. Place(B, e, i - 1) = Place(B, d, d.count - 1 - (i - 1))
    BY <1>1, <2>1
  <2> QED
    BY <1>2, <2>1, <2>2
<1>5. VisitOn(B, e) = [i \in 1..d.count |-> all[(d.count - i) + 1]]
  BY <1>3, <1>4
<1>6. Reverse(all) = [i \in 1..d.count |-> all[(d.count - i) + 1]]
  <2>1. Len(all) = d.count
    BY <1>2
  <2>2. Reverse(all) = [i \in 1..Len(all) |-> all[(Len(all) - i) + 1]]
    BY DEF Reverse
  <2> QED
    BY <2>1, <2>2
<1>7. VisitOn(B, e) \in Seq(S)
  <2>1. \A i \in 1..d.count : all[i] \in S
    BY <1>2, ElementOfSeq DEF all
  <2>2. VisitOn(B, e) \in [1..d.count -> S]
    BY <1>4, <1>5, <2>1
  <2> QED
    BY <1>0, <2>2, SeqDef
<1> QED
  BY <1>1, <1>5, <1>6, <1>7 DEF e, all

\* Adding to an arena leaves the nodes above any of its nodes as they were.
LEMMA UpStays ==
    ASSUME NEW B, Solid(B), NEW C, Solid(C), Adds(B, C), NEW t \in Nodes(B)
    PROVE  /\ t \in Nodes(C) /\ Depth(C, t) = Depth(B, t) /\ ValueOf(C, t) = ValueOf(B, t)
           /\ \A k \in 0..(Depth(B, t) + 1) : Up(C, t, k) = Up(B, t, k)
<1>1. /\ t \in Nodes(C) /\ Depth(C, t) = Depth(B, t) /\ ValueOf(C, t) = ValueOf(B, t)
      /\ \A d \in -1..Depth(B, t) : ByParents(C, t, d) = ByParents(B, t, d)
  <2>1. /\ Made(B) /\ B.count \in Nat \ {0} /\ Made(C) /\ C.count \in Nat /\ C.count >= B.count /\ SameSlots(B, C)
    BY DEF Solid, Adds
  <2> QED
    BY <2>1, PathsKept
<1>2. Depth(B, t) \in Int /\ Depth(B, t) >= -1
  BY NodeRanges DEF Solid
<1>3. ASSUME NEW k \in 0..(Depth(B, t) + 1) PROVE Up(C, t, k) = Up(B, t, k)
  <2>1. Depth(B, t) - k \in -1..Depth(B, t)
    BY <1>2
  <2> QED
    BY <1>1, <2>1 DEF Up
<1> QED
  BY <1>1, <1>3

\* Adding to an arena leaves its deques and what they show as they were.
LEMMA DequeStays ==
    ASSUME NEW B, Solid(B), NEW C, Solid(C), Adds(B, C), NEW d, Two(B, d)
    PROVE  Two(C, d) /\ VisitOn(C, d) = VisitOn(B, d)
<1>0. d.left.count \in Nat /\ d.right.count \in Nat /\ d.count = d.left.count + d.right.count
  BY TwoCounts
<1>1. ASSUME NEW iv, Span(B, iv)
      PROVE  /\ Span(C, iv)
             /\ \A k \in 0..(iv.count - 1) : Up(C, iv.tail, k) = Up(B, iv.tail, k) /\ Up(B, iv.tail, k) \in Nodes(B)
  <2>1. /\ iv.tail \in Nodes(B) /\ iv.count \in Nat /\ iv.count <= Depth(B, iv.tail) + 1 /\ Depth(B, iv.tail) \in Int
        /\ iv = Arm(B, iv.tail, iv.count)
    BY <1>1, SpanFields DEF Span
  <2>2. /\ iv.count \in 0..(Depth(B, iv.tail) + 1) /\ (iv.count # 0 => iv.count - 1 \in 0..(Depth(B, iv.tail) + 1))
        /\ \A k \in 0..(iv.count - 1) : k \in 0..(Depth(B, iv.tail) + 1)
    BY <2>1
  <2>3. /\ iv.tail \in Nodes(C) /\ Depth(C, iv.tail) = Depth(B, iv.tail)
        /\ \A k \in 0..(Depth(B, iv.tail) + 1) : Up(C, iv.tail, k) = Up(B, iv.tail, k)
    BY <2>1, UpStays
  <2>4. Arm(C, iv.tail, iv.count) = Arm(B, iv.tail, iv.count)
    BY <2>2, <2>3 DEF Arm
  <2>5. \A k \in 0..(iv.count - 1) : Up(B, iv.tail, k) \in Nodes(B)
    BY <2>1, <2>2, Climbing
  <2> QED
    BY <2>1, <2>2, <2>3, <2>4, <2>5 DEF Span
<1>2. Two(C, d)
  BY <1>1 DEF Two
<1>3. ASSUME NEW i \in 1..d.count PROVE ValueOf(C, Place(C, d, i - 1)) = ValueOf(B, Place(B, d, i - 1))
  <2>1. Place(C, d, i - 1) = Place(B, d, i - 1) /\ Place(B, d, i - 1) \in Nodes(B)
    <3>1. CASE i - 1 < d.left.count
      <4>1. i - 1 \in 0..(d.left.count - 1)
        BY <1>0, <3>1
      <4> QED
        BY <1>1, <3>1, <4>1 DEF Place, Two
    <3>2. CASE ~(i - 1 < d.left.count)
      <4>1. d.count - 1 - (i - 1) \in 0..(d.right.count - 1)
        BY <1>0, <3>2
      <4> QED
        BY <1>1, <3>2, <4>1 DEF Place, Two
    <3> QED
      BY <3>1, <3>2
  <2> QED
    BY <2>1, UpStays
<1>4. /\ VisitOn(C, d) = [i \in 1..d.count |-> ValueOf(C, Place(C, d, i - 1))]
      /\ VisitOn(B, d) = [i \in 1..d.count |-> ValueOf(B, Place(B, d, i - 1))]
  BY <1>2, VisitUnfolds
<1> QED
  BY <1>2, <1>3, <1>4

\* An interval and a leaf below its tail.
LEMMA ArmGrows ==
    ASSUME NEW C, Solid(C), NEW iv, Span(C, iv), NEW leaf \in Nodes(C), leaf # Bottom, Parent(C, leaf) = iv.tail
    PROVE  LET p == AddToTail(iv, leaf) IN
           /\ Span(C, p) /\ p.count = iv.count + 1 /\ p.tail = leaf /\ Up(C, leaf, 0) = leaf
           /\ \A k \in 0..iv.count : Up(C, leaf, k + 1) = Up(C, iv.tail, k)
<1> DEFINE t == iv.tail
           c == iv.count
<1>0. /\ t \in Nodes(C) /\ c \in Nat /\ c <= Depth(C, t) + 1 /\ Depth(C, t) \in Int
      /\ iv.anchor = Up(C, t, c) /\ iv.base = (IF c = 0 THEN t ELSE Up(C, t, c - 1))
  BY SpanFields
<1>1. Depth(C, leaf) = Depth(C, t) + 1 /\ Depth(C, leaf) \in Nat
  <2>1. Depth(C, Parent(C, leaf)) = Depth(C, leaf) - 1 /\ Depth(C, leaf) \in Nat
    BY ParentOf DEF Solid
  <2> QED
    BY <2>1
<1>2. ASSUME NEW k \in 0..c PROVE Up(C, leaf, k + 1) = Up(C, t, k)
  <2> DEFINE d == Depth(C, t) - k
  <2>1. d \in -1..(Depth(C, leaf) - 1) /\ Depth(C, leaf) - (k + 1) = d
    BY <1>0, <1>1
  <2>2. ByParents(C, leaf, d) = ByParents(C, t, d)
    <3> HIDE DEF d
    <3> QED
      BY <2>1, OnPath DEF Solid
  <2> QED
    BY <2>1, <2>2 DEF Up
<1>3. 0 \in 0..(Depth(C, leaf) + 1) /\ c + 1 \in 0..(Depth(C, leaf) + 1) /\ c \in 0..c /\ c + 1 # 0 /\ (c + 1) - 1 = c
  BY <1>0, <1>1
<1>4. Up(C, leaf, 0) = leaf
  BY <1>3, Climbing
<1>5. Up(C, leaf, c) = IF c = 0 THEN leaf ELSE iv.base
  <2>1. CASE c = 0
    BY <1>4, <2>1
  <2>2. CASE c # 0
    <3>1. c - 1 \in 0..c /\ (c - 1) + 1 = c
      BY <1>0, <2>2
    <3>2. Up(C, leaf, (c - 1) + 1) = Up(C, t, c - 1)
      BY <1>2, <3>1
    <3> QED
      BY <1>0, <2>2, <3>1, <3>2
  <2> QED
    BY <2>1, <2>2
<1>6. AddToTail(iv, leaf) = Arm(C, leaf, c + 1)
  <2>1. Up(C, leaf, c + 1) = iv.anchor
    BY <1>0, <1>2, <1>3
  <2> QED
    BY <1>3, <1>5, <2>1 DEF AddToTail, Arm
<1> HIDE DEF c, t
<1>7. Span(C, Arm(C, leaf, c + 1)) /\ Arm(C, leaf, c + 1).tail = leaf /\ Arm(C, leaf, c + 1).count = c + 1
  BY <1>3, ArmSpans
<1> QED
  BY <1>2, <1>4, <1>6, <1>7 DEF c, t

\* A value added below the tail of an interval (either arm of a deque).
LEMMA LeafGrows ==
    ASSUME ArenaAssumption, NEW B, Stored(B), Made(B), NEW d, Two(B, d), NEW v, NEW iv \in {d.left, d.right},
           NEW out \in AddLeaf(B, iv.tail, v), out.leaf # Unset
    PROVE  LET C == out.arena
               p == AddToTail(iv, out.leaf)
           IN  /\ Solid(C) /\ Two(C, d) /\ VisitOn(C, d) = VisitOn(B, d)
               /\ Span(C, p) /\ p.count = iv.count + 1 /\ Up(C, p.tail, 0) = out.leaf /\ ValueOf(C, out.leaf) = v
               /\ \A k \in 0..iv.count : Up(C, p.tail, k + 1) = Up(C, iv.tail, k)
<1> DEFINE C == out.arena
<1>1. Span(B, iv) /\ iv.tail \in Nodes(B) /\ B.count \in Nat \ {0}
  BY DEF Two, Span, Stored
<1>2. /\ Stored(C) /\ Made(C) /\ SameSlots(B, C) /\ out.leaf = B.count /\ C.count = B.count + 1
      /\ Parent(C, out.leaf) = iv.tail /\ ValueOf(C, out.leaf) = v
  BY <1>1, AddLeafMakes
<1>3. Solid(B) /\ Solid(C) /\ Adds(B, C) /\ out.leaf \in Nodes(C) /\ out.leaf # Bottom
  BY <1>1, <1>2 DEF Solid, Adds, Nodes, Bottom
<1> HIDE DEF C
<1>4. Two(C, d) /\ VisitOn(C, d) = VisitOn(B, d)
  BY <1>3, DequeStays
<1>5. Span(C, iv)
  BY <1>4 DEF Two
<1>6. LET p == AddToTail(iv, out.leaf) IN
      /\ Span(C, p) /\ p.count = iv.count + 1 /\ p.tail = out.leaf /\ Up(C, out.leaf, 0) = out.leaf
      /\ \A k \in 0..iv.count : Up(C, out.leaf, k + 1) = Up(C, iv.tail, k)
  BY <1>2, <1>3, <1>5, ArmGrows
<1> QED
  BY <1>2, <1>3, <1>4, <1>6 DEF C

\* A value put before a sequence, value by value.
LEMMA InFront ==
    ASSUME NEW S, NEW all \in Seq(S), NEW v \in S
    PROVE  /\ <<v>> \o all = [i \in 1..(Len(all) + 1) |-> IF i = 1 THEN v ELSE all[i - 1]]
           /\ <<v>> \o all \in Seq(S)
<1> DEFINE n == Len(all)
           w == [i \in 1..(n + 1) |-> IF i = 1 THEN v ELSE all[i - 1]]
           z == <<v>> \o all
<1>0. n \in Nat
  BY LenProperties
<1>1. <<v>> \in Seq(S) /\ Len(<<v>>) = 1 /\ <<v>>[1] = v
  OBVIOUS
<1>2. z \in Seq(S) /\ Len(z) = 1 + n /\ \A i \in 1..(1 + n) : z[i] = IF i <= 1 THEN <<v>>[i] ELSE all[i - 1]
  BY <1>1, ConcatProperties
<1> HIDE DEF z
<1>3. \A i \in 1..(n + 1) : z[i] = w[i]
  BY <1>0, <1>1, <1>2
<1>4. w \in Seq(S) /\ Len(w) = n + 1
  <2>1. \A i \in 1..(n + 1) : i # 1 => i - 1 \in 1..n
    BY <1>0
  <2>2. w \in [1..(n + 1) -> S]
    BY <2>1, ElementOfSeq
  <2>3. n + 1 \in Nat
    BY <1>0
  <2> HIDE DEF w, n
  <2> QED
    BY <2>2, <2>3, SeqDef
<1>5. z = w
  <2> HIDE DEF w
  <2>1. Len(z) = Len(w) /\ \A i \in 1..Len(z) : z[i] = w[i]
    BY <1>0, <1>2, <1>3, <1>4
  <2> QED
    BY <1>2, <1>4, <2>1, SeqEqual
<1> QED
  BY <1>2, <1>5 DEF z

\* A value put after a sequence, value by value.
LEMMA AtBack ==
    ASSUME NEW S, NEW all \in Seq(S), NEW v \in S
    PROVE  /\ Append(all, v) = [i \in 1..(Len(all) + 1) |-> IF i = Len(all) + 1 THEN v ELSE all[i]]
           /\ Append(all, v) \in Seq(S)
<1> DEFINE n == Len(all)
           y == [i \in 1..(n + 1) |-> IF i = n + 1 THEN v ELSE all[i]]
           x == Append(all, v)
<1>0. n \in Nat
  BY LenProperties
<1>1. x \in Seq(S) /\ x = y
  <2>1. x \in Seq(S) /\ Len(x) = n + 1 /\ (\A i \in 1..n : x[i] = all[i]) /\ x[n + 1] = v
    BY AppendProperties
  <2>2. y \in Seq(S) /\ Len(y) = n + 1
    <3>1. \A i \in 1..(n + 1) : i # n + 1 => i \in 1..n
      BY <1>0
    <3>2. y \in [1..(n + 1) -> S]
      BY <3>1, ElementOfSeq
    <3>3. n + 1 \in Nat
      BY <1>0
    <3> HIDE DEF y, n
    <3> QED
      BY <3>2, <3>3, SeqDef
  <2> HIDE DEF x
  <2>3. \A i \in 1..(n + 1) : x[i] = y[i]
    <3>1. \A i \in 1..(n + 1) : i # n + 1 => i \in 1..n
      BY <1>0
    <3> QED
      BY <2>1, <3>1
  <2> HIDE DEF y
  <2> QED
    BY <2>1, <2>2, <2>3, SeqEqual
<1> QED
  BY <1>1 DEF x, y

\* The new value is the first of the deque, or its last.
LEMMA EndsGrow ==
    ASSUME NEW C, Solid(C), NEW d, Two(C, d), NEW S, VisitOn(C, d) \in Seq(S), NEW v \in S, NEW leaf, ValueOf(C, leaf) = v,
           NEW iv, NEW p, Span(C, p), p.count = iv.count + 1, Up(C, p.tail, 0) = leaf,
           \A k \in 0..iv.count : Up(C, p.tail, k + 1) = Up(C, iv.tail, k)
    PROVE  /\ iv = d.left => LET w == Joined(d.arena, p, d.right) IN
                             Two(C, w) /\ VisitOn(C, w) = <<v>> \o VisitOn(C, d)
           /\ iv = d.right => LET w == Joined(d.arena, d.left, p) IN
                              Two(C, w) /\ VisitOn(C, w) = Append(VisitOn(C, d), v)
<1> DEFINE all == VisitOn(C, d)
           l == d.left.count
           r == d.right.count
           n == d.count
<1>0. l \in Nat /\ r \in Nat /\ n = l + r
  BY TwoCounts
<1>1. all = [i \in 1..n |-> ValueOf(C, Place(C, d, i - 1))] /\ Len(all) = n
  BY VisitUnfolds
<1>2. Span(C, d.left) /\ Span(C, d.right)
  BY DEF Two
<1> HIDE DEF all
<1>3. ASSUME iv = d.left
      PROVE  LET w == Joined(d.arena, p, d.right) IN Two(C, w) /\ VisitOn(C, w) = <<v>> \o all
  <2> DEFINE w == Joined(d.arena, p, d.right)
  <2>0. w = Joined(d.arena, p, d.right)
    OBVIOUS
  <2> HIDE DEF w
  <2>1. Two(C, w) /\ w.left = p /\ w.right = d.right /\ w.count = p.count + r
    BY <1>2, <2>0, JoinedTwo
  <2>2. p.count = l + 1 /\ w.count = n + 1
    BY <1>0, <1>3, <2>1
  <2>3. VisitOn(C, w) = [i \in 1..(n + 1) |-> ValueOf(C, Place(C, w, i - 1))]
    BY <2>1, <2>2, VisitUnfolds
  <2>4. ASSUME NEW i \in 1..(n + 1) PROVE ValueOf(C, Place(C, w, i - 1)) = IF i = 1 THEN v ELSE all[i - 1]
    <3>1. CASE i = 1
      <4>1. i - 1 = 0 /\ 0 < p.count
        BY <1>0, <2>2, <3>1
      <4> QED
        BY <2>1, <3>1, <4>1 DEF Place
    <3>2. CASE i # 1 /\ i - 1 < l + 1
      <4> DEFINE k == (i - 1) - 1
      <4>1. k \in 0..l /\ k + 1 = i - 1 /\ k < l /\ i - 1 \in 1..n
        BY <1>0, <3>2
      <4>2. Place(C, w, i - 1) = Up(C, p.tail, k + 1) /\ Place(C, d, k) = Up(C, d.left.tail, k)
        BY <2>1, <2>2, <3>2, <4>1 DEF Place
      <4> HIDE DEF k
      <4>3. Place(C, w, i - 1) = Place(C, d, k)
        BY <1>3, <4>1, <4>2
      <4> QED
        BY <1>1, <3>2, <4>1, <4>3 DEF k
    <3>3. CASE i # 1 /\ ~(i - 1 < l + 1)
      <4>1. ~((i - 1) - 1 < l) /\ w.count - 1 - (i - 1) = n - 1 - ((i - 1) - 1) /\ i - 1 \in 1..n
        BY <1>0, <2>2, <3>3
      <4>2. Place(C, w, i - 1) = Place(C, d, (i - 1) - 1)
        BY <2>1, <2>2, <3>3, <4>1 DEF Place
      <4> QED
        BY <1>1, <3>3, <4>1, <4>2
    <3> QED
      BY <3>1, <3>2, <3>3
  <2>5. <<v>> \o all = [i \in 1..(n + 1) |-> IF i = 1 THEN v ELSE all[i - 1]]
    <3>1. all \in Seq(S)
      BY DEF all
    <3>2. Len(all) = n
      BY <1>1
    <3> HIDE DEF n
    <3> QED
      BY <3>1, <3>2, InFront
  <2> QED
    BY <2>1, <2>3, <2>4, <2>5 DEF w
<1>4. ASSUME iv = d.right
      PROVE  LET w == Joined(d.arena, d.left, p) IN Two(C, w) /\ VisitOn(C, w) = Append(all, v)
  <2> DEFINE w == Joined(d.arena, d.left, p)
  <2>0. w = Joined(d.arena, d.left, p)
    OBVIOUS
  <2> HIDE DEF w
  <2>1. Two(C, w) /\ w.left = d.left /\ w.right = p /\ w.count = l + p.count
    BY <1>2, <2>0, JoinedTwo
  <2>2. p.count = r + 1 /\ w.count = n + 1
    <3>1. p.count = r + 1
      BY <1>4
    <3>2. w.count = l + (r + 1)
      BY <2>1, <3>1
    <3> HIDE DEF l, r, n
    <3> QED
      BY <1>0, <3>1, <3>2
  <2>3. VisitOn(C, w) = [i \in 1..(n + 1) |-> ValueOf(C, Place(C, w, i - 1))]
    BY <2>1, <2>2, VisitUnfolds
  <2>4. ASSUME NEW i \in 1..(n + 1) PROVE ValueOf(C, Place(C, w, i - 1)) = IF i = n + 1 THEN v ELSE all[i]
    <3>1. CASE i = n + 1
      <4>1. ~(i - 1 < l) /\ w.count - 1 - (i - 1) = 0
        BY <1>0, <2>2, <3>1
      <4> QED
        BY <2>1, <3>1, <4>1 DEF Place
    <3>2. CASE i # n + 1 /\ i - 1 < l
      <4>1. i \in 1..n
        BY <1>0, <3>2
      <4> QED
        BY <1>1, <2>1, <3>2, <4>1 DEF Place
    <3>3. CASE i # n + 1 /\ ~(i - 1 < l)
      <4> DEFINE k == n - 1 - (i - 1)
      <4>1. k \in 0..r /\ w.count - 1 - (i - 1) = k + 1 /\ i \in 1..n
        BY <1>0, <2>2, <3>3
      <4>2. Place(C, w, i - 1) = Up(C, p.tail, k + 1) /\ Place(C, d, i - 1) = Up(C, d.right.tail, k)
        BY <2>1, <3>3, <4>1 DEF Place
      <4> HIDE DEF k
      <4>3. Place(C, w, i - 1) = Place(C, d, i - 1)
        BY <1>4, <4>1, <4>2
      <4> QED
        BY <1>1, <3>3, <4>1, <4>3
    <3> QED
      BY <3>1, <3>2, <3>3
  <2>5. Append(all, v) = [i \in 1..(n + 1) |-> IF i = n + 1 THEN v ELSE all[i]]
    <3>1. all \in Seq(S)
      BY DEF all
    <3>2. Len(all) = n
      BY <1>1
    <3>3. Append(all, v) = [i \in 1..(Len(all) + 1) |-> IF i = Len(all) + 1 THEN v ELSE all[i]]
      BY <3>1, AtBack
    <3> HIDE DEF n
    <3> QED
      BY <3>2, <3>3
  <2> QED
    BY <2>1, <2>3, <2>4, <2>5 DEF w
<1> QED
  BY <1>3, <1>4 DEF all

\* An empty deque shows nothing.
LEMMA EmptyShows ==
    ASSUME NEW B, Solid(B), NEW a
    PROVE  /\ EmptyDeque(a) = Joined(a, EmptyAt(Bottom), EmptyAt(Bottom)) /\ EmptyDeque(a).arena = a
           /\ Two(B, EmptyDeque(a)) /\ VisitOn(B, EmptyDeque(a)) = <<>>
<1> DEFINE x == EmptyAt(Bottom)
           q == EmptyDeque(a)
<1>1. Span(B, x) /\ x.count = 0
  BY NoArm
<1>2. q = Joined(a, x, x)
  BY DEF EmptyDeque, Joined, EmptyAt
<1> HIDE DEF x, q
<1>3. Two(B, q) /\ q.arena = a /\ q.count = 0
  BY <1>1, <1>2, JoinedTwo
<1>4. VisitOn(B, q) = [i \in 1..0 |-> ValueOf(B, Place(B, q, i - 1))]
  BY <1>3, VisitUnfolds
<1> QED
  BY <1>2, <1>3, <1>4 DEF x, q

\* A deque built from an array shows the array.
LEMMA DequeOfArray ==
    ASSUME ArenaAssumption, NEW n \in Nat \ {0}, n < MaxNodes, NEW S, NEW values \in [1..n -> S], NEW a
    PROVE  LET C == Chain(values)[n].arena
               w == With(EmptyDeque(a), EmptyAt(Bottom), GrownRight(Chain(values), n))
           IN  Stored(C) /\ Made(C) /\ Two(C, w) /\ w.arena = a /\ VisitOn(C, w) = values
<1> DEFINE C == Chain(values)[n].arena
           x == EmptyAt(Bottom)
           y == GrownRight(Chain(values), n)
           w == With(EmptyDeque(a), EmptyAt(Bottom), GrownRight(Chain(values), n))
<1>0. w = With(EmptyDeque(a), x, y)
  OBVIOUS
<1>1. Len(values) = n /\ n \in 0..Len(values) /\ 1 \in 0..Len(values) /\ values = [i \in 1..n |-> values[i]]
  OBVIOUS
<1>2. /\ Stored(C) /\ Made(C) /\ Line(C, n) /\ Chain(values)[n].leaf = n
      /\ \A j \in 1..n : ValueOf(C, j) = values[j]
  BY <1>1, ChainMade
<1>3. y = Interval(0, 1, n, n)
  <2>1. Chain(values)[1].leaf = 1
    BY <1>1, ChainMade
  <2> QED
    BY <1>2, <2>1 DEF GrownRight, Bottom
<1> HIDE DEF C, y, w
<1>4. Solid(C)
  BY <1>2 DEF Solid, Stored
<1>5. n \in Nodes(C) /\ Depth(C, n) = n - 1 /\ \A k \in 0..n : Up(C, n, k) = n - k
  <2>1. \A d \in -1..(n - 1) : n \in Nodes(C) /\ Depth(C, n) = n - 1 /\ ByParents(C, n, d) = d + 1
    BY <1>2, LinePath
  <2>2. -1 \in -1..(n - 1) /\ \A k \in 0..n : (n - 1) - k \in -1..(n - 1) /\ ((n - 1) - k) + 1 = n - k
    OBVIOUS
  <2> QED
    BY <2>1, <2>2 DEF Up
<1>6. Span(C, y) /\ y.tail = n /\ y.count = n
  <2>1. n \in 0..(Depth(C, n) + 1) /\ n \in 0..n /\ n - 1 \in 0..n /\ n - n = 0 /\ n - (n - 1) = 1
    BY <1>5
  <2>2. y = Arm(C, n, n)
    BY <1>3, <1>5, <2>1 DEF Arm
  <2> QED
    BY <1>5, <2>1, <2>2, ArmSpans
<1>7. w = Joined(a, x, y) /\ Span(C, x) /\ x.count = 0
  <2>1. EmptyDeque(a) = Joined(a, x, x) /\ EmptyDeque(a).arena = a /\ Two(C, EmptyDeque(a))
    BY <1>4, EmptyShows
  <2>2. Span(C, x) /\ x.count = 0
    BY <1>4, NoArm
  <2>3. With(EmptyDeque(a), x, y) = Joined(a, x, y)
    BY <2>1, WithJoins DEF Two
  <2> QED
    BY <1>0, <2>2, <2>3
<1> HIDE DEF x
<1>8. Two(C, w) /\ w.arena = a /\ w.left = x /\ w.right = y /\ w.count = n
  <2>1. 0 + n = n
    OBVIOUS
  <2> QED
    BY <1>6, <1>7, <2>1, JoinedTwo
<1>9. ASSUME NEW i \in 1..n PROVE ValueOf(C, Place(C, w, i - 1)) = values[i]
  <2>1. ~(i - 1 < 0) /\ n - 1 - (i - 1) \in 0..n /\ n - (n - 1 - (i - 1)) = i
    OBVIOUS
  <2>2. Place(C, w, i - 1) = Up(C, n, n - 1 - (i - 1))
    BY <1>6, <1>7, <1>8, <2>1 DEF Place
  <2>3. Place(C, w, i - 1) = i
    BY <1>5, <2>1, <2>2
  <2> QED
    BY <1>2, <2>3
<1>10. VisitOn(C, w) = values
  BY <1>1, <1>4, <1>8, <1>9, VisitUnfolds
<1> QED
  BY <1>2, <1>8, <1>10 DEF C, w, x, y

-----------------------------------------------------------------------------
(* What calls leave in the handles.                                        *)

\* What a handle holds is nothing or a deque on an arena that shows values.
Sound(as, x) ==
    x.arena # Unset => Two(as[x.arena], x) /\ VisitOn(as[x.arena], x) \in Seq(Values)

ContentInv == DequeInv /\ NodesInv /\ \A h \in Handles : Sound(arena, hold[h])

\* What is known of every deque that a handle holds.
LEMMA HeldDeque ==
    ASSUME DequeAssumption, ContentInv, NEW h \in Held
    PROVE  LET B == A(hold[h]) IN
           /\ h \in Handles /\ hold[h].arena \in Arenas /\ hold[h].arena # Unset /\ B # NoArena
           /\ Stored(B) /\ Made(B) /\ Solid(B) /\ Two(B, hold[h])
           /\ Visit(hold[h]) \in Seq(Values) /\ Visit(hold[h]) = ContentOf(hold, arena)[h]
           /\ Len(Visit(hold[h])) = hold[h].count /\ hold[h].count \in Nat
<1> DEFINE q == hold[h]
           B == arena[q.arena]
<1>1. q.arena \in Arenas /\ Sized(B) /\ h \in Handles /\ q.arena # Unset
  BY OwnedSized DEF ContentInv, DequeInv, DequeAssumption, Held
<1>2. B # NoArena
  BY <1>1 DEF Sized, NoArena
<1>3. Stored(B) /\ Made(B)
  BY <1>1, <1>2 DEF ContentInv, NodesInv
<1>4. Solid(B)
  BY <1>3 DEF Solid, Stored
<1>5. Two(B, q) /\ VisitOn(B, q) \in Seq(Values)
  BY <1>1 DEF ContentInv, Sound
<1>6. ContentOf(hold, arena)[h] = VisitOn(B, q)
  BY <1>1 DEF ContentOf
<1>7. Len(VisitOn(B, q)) = q.count /\ q.count \in Nat
  BY <1>4, <1>5, VisitUnfolds
<1> QED
  BY <1>1, <1>2, <1>3, <1>4, <1>5, <1>6, <1>7 DEF A, Visit

\* What holds after every call, but for the one handle or the two that it writes.
Settled == ArenaInv' /\ \A a \in Arenas : ArenaKept(arena, arena', a)

\* A handle that holds what one held before shows what that one showed.
LEMMA OthersStay ==
    ASSUME DequeAssumption, ContentInv, Settled, NEW g \in Handles, NEW f \in Handles, hold'[g] = hold[f]
    PROVE  Sound(arena', hold'[g]) /\ ContentOf(hold', arena')[g] = ContentOf(hold, arena)[f]
<1> DEFINE q == hold[f]
           a == q.arena
<1>1. CASE a = Unset
  BY <1>1 DEF Sound, ContentOf
<1>2. CASE a # Unset
  <2>1. f \in Held
    BY <1>2 DEF Held
  <2>2. /\ a \in Arenas /\ arena[a] # NoArena /\ Solid(arena[a]) /\ Two(arena[a], q)
        /\ VisitOn(arena[a], q) \in Seq(Values) /\ VisitOn(arena[a], q) = ContentOf(hold, arena)[f]
    BY <2>1, HeldDeque DEF A, Visit
  <2>3. arena'[a] # NoArena
    <3>1. Counted(hold', refs') /\ Kept(arena', refs')
      BY DEF Settled, ArenaInv
    <3>2. refs'[a] \in Nat \ {0}
      BY <1>2, <3>1, HeldCounted DEF DequeAssumption
    <3>3. Sized(arena'[a])
      BY <2>2, <3>1, <3>2 DEF Kept
    <3> QED
      BY <3>3 DEF Sized, NoArena
  <2>4. Two(arena'[a], q) /\ VisitOn(arena'[a], q) = VisitOn(arena[a], q)
    <3>1. CASE arena'[a] = arena[a]
      BY <2>2, <3>1
    <3>2. CASE arena'[a] # arena[a]
      <4>1. Stored(arena'[a]) /\ Made(arena'[a]) /\ Adds(arena[a], arena'[a])
        BY <2>2, <2>3, <3>2 DEF Settled, ArenaKept
      <4>2. Solid(arena'[a])
        BY <4>1 DEF Solid, Stored
      <4> QED
        BY <2>2, <4>1, <4>2, DequeStays
    <3> QED
      BY <3>1, <3>2
  <2>5. ContentOf(hold', arena')[g] = VisitOn(arena'[a], q)
    BY <1>2 DEF ContentOf
  <2> QED
    BY <1>2, <2>2, <2>4, <2>5 DEF Sound
<1> QED
  BY <1>1, <1>2

\* A handle that a call writes.
LEMMA WrittenShows ==
    ASSUME NEW g \in Handles, NEW w, hold'[g] = w, w.arena # Unset,
           Two(arena'[w.arena], w), VisitOn(arena'[w.arena], w) \in Seq(Values)
    PROVE  /\ Sound(arena', hold'[g])
           /\ ContentOf(hold', arena')[g] = VisitOn(arena'[w.arena], w)
BY DEF Sound, ContentOf

Lawful == (\A g \in Handles : Sound(arena', hold'[g])) /\ DequeKeepsPromise

\* What a call has to show.
LEMMA LawfulByStep ==
    ASSUME \A g \in Handles : Sound(arena', hold'[g]),
           Promised!Step(ContentOf(hold, arena), ContentOf(hold', arena'))
    PROVE  Lawful
BY DEF Lawful, DequeKeepsPromise

\* Calls that leave one result.
LEMMA ResultLawful ==
    ASSUME DequeAssumption, ContentInv, Settled, NEW h \in Handles,
           \A g \in Handles \ {h} : hold'[g] = hold[g],
           Sound(arena', hold'[h]),
           LET now == ContentOf(hold, arena)
               new == ContentOf(hold', arena')
           IN  \/ new[h] = Unset
               \/ now[h] = Unset /\ \E n \in 0..MaxSource : new[h] \in [1..n -> Values]
               \/ \E s \in Handles : now[s] # Unset /\ new[h] \in Promised!Derived(now[s])
    PROVE  Lawful
<1> DEFINE now == ContentOf(hold, arena)
           new == ContentOf(hold', arena')
<1>1. \A g \in Handles \ {h} : Sound(arena', hold'[g]) /\ new[g] = now[g]
  BY OthersStay
<1> HIDE DEF now, new
<1>2. Promised!Step(now, new)
  BY <1>1 DEF Promised!Step, now, new
<1> QED
  BY <1>1, <1>2, LawfulByStep DEF now, new

\* A sequence is derived from itself.
LEMMA WholeDerived == ASSUME NEW all \in Seq(Values) PROVE all \in Promised!Derived(all)
<1>1. 0 \in 0..Len(all) /\ Len(all) \in 0..Len(all) /\ 0 + 1 = 1
  OBVIOUS
<1>2. SubSeq(all, 0 + 1, Len(all)) \in Promised!Derived(all)
  BY <1>1 DEF Promised!Derived
<1>3. SubSeq(all, 1, Len(all)) = all
  BY SubSeqFull
<1> QED
  BY <1>1, <1>2, <1>3

\* A result on the arena of its source, with an arena that the call may have added to.
LEMMA DerivedLawful ==
    ASSUME DequeAssumption, ContentInv, Settled, NEW s \in Held, NEW h \in Handles, NEW w, w.arena = hold[s].arena,
           hold' = [hold EXCEPT ![h] = w], NEW C, arena'[hold[s].arena] = C, Two(C, w),
           VisitOn(C, w) \in Seq(Values), VisitOn(C, w) \in Promised!Derived(Visit(hold[s]))
    PROVE  Lawful
<1> DEFINE q == hold[s]
           all == Visit(q)
<1>1. /\ s \in Handles /\ q.arena # Unset /\ all \in Seq(Values) /\ all = ContentOf(hold, arena)[s]
  BY HeldDeque
<1>2. \A g \in Handles : hold'[g] = IF g = h THEN w ELSE hold[g]
  BY DEF ContentInv, DequeInv, ArenaInv, Counted
<1>3. Sound(arena', hold'[h]) /\ ContentOf(hold', arena')[h] = VisitOn(C, w)
  <2>1. hold'[h] = w /\ w.arena # Unset /\ arena'[w.arena] = C
    BY <1>1, <1>2
  <2> QED
    BY <2>1, WrittenShows
<1> HIDE DEF all
<1>4. all # Unset
  BY <1>1 DEF DequeAssumption
<1> QED
  BY <1>1, <1>2, <1>3, <1>4, ResultLawful DEF all

\* A part of a sequence is derived from it.
LEMMA CutDerived ==
    ASSUME NEW S, NEW all, all \in Seq(S), NEW i \in 0..Len(all), NEW n \in 0..(Len(all) - i)
    PROVE  SubSeq(all, i + 1, i + n) \in Promised!Derived(all)
<1> DEFINE j == i + n
<1>1. j \in 0..Len(all)
  BY LenProperties
<1> HIDE DEF j
<1>2. SubSeq(all, i + 1, j) \in Promised!Derived(all)
  BY <1>1 DEF Promised!Derived
<1> QED
  BY <1>2 DEF j

\* A call whose result is a part of its source.
LEMMA CutLawful ==
    ASSUME DequeAssumption, ContentInv, Settled, NEW s \in Held, NEW h \in Handles, NEW w, Derive(s, h, w),
           NEW i \in 0..hold[s].count, NEW n \in 0..(hold[s].count - i), Cut(A(hold[s]), hold[s], i, n, w)
    PROVE  Lawful
<1> DEFINE q == hold[s]
           B == A(q)
           all == VisitOn(B, q)
<1>1. Solid(B) /\ Two(B, q) /\ all \in Seq(Values) /\ Len(all) = q.count
  BY HeldDeque DEF Visit
<1>2. w.arena = q.arena /\ Two(B, w)
  BY DEF Cut
<1>3. hold' = [hold EXCEPT ![h] = w] /\ arena'[q.arena] = B
  BY DEF Derive, Publish, A
<1>4. VisitOn(B, w) = SubSeq(all, i + 1, i + n) /\ VisitOn(B, w) \in Seq(Values)
  <2>1. Cut(B, q, i, n, w) /\ i \in 0..q.count /\ n \in 0..(q.count - i)
    OBVIOUS
  <2> HIDE DEF B, q
  <2> QED
    BY <1>1, <2>1, CutShows
<1> HIDE DEF B, all
<1>5. SubSeq(all, i + 1, i + n) \in Promised!Derived(all)
  <2>1. i \in 0..Len(all) /\ n \in 0..(Len(all) - i)
    BY <1>1
  <2> QED
    BY <1>1, <2>1, CutDerived
<1>6. VisitOn(B, w) \in Promised!Derived(Visit(q))
  BY <1>4, <1>5 DEF all, Visit, B
<1> HIDE DEF q
<1> QED
  BY <1>2, <1>3, <1>4, <1>6, DerivedLawful DEF q

\* The calls that cut a deque.
LEMMA CallsCut ==
    ASSUME NEW d, NEW B, B = A(d), Solid(B), Two(B, d)
    PROVE  /\ d.count \in Nat
           /\ \A n \in 0..d.count : Cut(B, d, 0, n, Take(d, n)) /\ Cut(B, d, n, d.count - n, Drop(d, n))
           /\ Cut(B, d, 0, 0, Cleared(d))
<1>1. Cut(B, d, 0, d.count, d) /\ d.count \in Nat
  BY WholeCut
<1>2. ASSUME NEW n \in 0..d.count PROVE Cut(B, d, 0, n, Take(d, n))
  <2>1. 0 \in 0..d.count /\ n \in 0..(d.count - 0)
    BY <1>1
  <2>2. Cut(B, d, 0, n, Slice(d, 0, n))
    BY <2>1, SliceCuts
  <2> QED
    BY <1>1, <2>2 DEF Take
<1>3. ASSUME NEW n \in 0..d.count PROVE Cut(B, d, n, d.count - n, Drop(d, n))
  <2> DEFINE m == d.count - n
  <2>1. m \in 0..(d.count - n) /\ (n = 0 => m = d.count)
    BY <1>1
  <2> HIDE DEF m
  <2>2. Cut(B, d, n, m, Slice(d, n, m))
    BY <2>1, SliceCuts
  <2>3. Drop(d, n) = IF n = 0 THEN d ELSE Slice(d, n, m)
    BY DEF Drop, m
  <2>4. Cut(B, d, n, m, Drop(d, n))
    BY <1>1, <2>1, <2>2, <2>3
  <2> QED
    BY <2>4 DEF m
<1>4. Cut(B, d, 0, 0, Cleared(d))
  <2>1. 0 \in 0..d.count
    BY <1>1
  <2>2. Cut(B, d, 0, 0, EmptyDeque(d.arena))
    BY <2>1, EmptyCut
  <2> QED
    BY <1>1, <2>2 DEF Cleared
<1> QED
  BY <1>1, <1>2, <1>3, <1>4

\* A call that cuts a deque, or leaves it as it is.
LEMMA CutsLawful ==
    ASSUME DequeAssumption, ContentInv, Settled, NEW s \in Held, NEW h \in Handles, NEW w, Derive(s, h, w),
           \/ w \in {hold[s], Cleared(hold[s]), EmptyDeque(hold[s].arena)}
           \/ hold[s].count > 0 /\ w \in {WithoutFirst(hold[s]), WithoutLast(hold[s])}
           \/ \E i \in 0..hold[s].count : \E n \in 0..(hold[s].count - i) : w = Slice(hold[s], i, n)
           \/ \E n \in 0..hold[s].count : w \in {Take(hold[s], n), Drop(hold[s], n)}
    PROVE  Lawful
<1> DEFINE q == hold[s]
           B == A(q)
<1>1. Solid(B) /\ Two(B, q) /\ q.count \in Nat
  BY HeldDeque
<1>2. \E i \in 0..q.count : \E n \in 0..(q.count - i) : Cut(B, q, i, n, w)
  <2> HIDE DEF q
  <2>1. B = A(q) /\ 0 \in 0..q.count /\ 0 \in 0..(q.count - 0) /\ q.count \in 0..(q.count - 0)
    BY <1>1
  <2> HIDE DEF B
  <2>2. CASE w = q
    BY <1>1, <2>1, <2>2, WholeCut
  <2>3. CASE w = Cleared(q)
    BY <1>1, <2>1, <2>3, CallsCut
  <2>4. CASE w = EmptyDeque(q.arena)
    BY <1>1, <2>1, <2>4, EmptyCut
  <2>5. CASE q.count > 0 /\ w \in {WithoutFirst(q), WithoutLast(q)}
    <3>1. q.count - 1 \in 0..(q.count - 0) /\ 1 \in 0..q.count /\ q.count - 1 \in 0..(q.count - 1)
      BY <1>1, <2>5
    <3>2. Cut(B, q, 1, q.count - 1, WithoutFirst(q)) /\ Cut(B, q, 0, q.count - 1, WithoutLast(q))
      BY <1>1, <2>1, <2>5, EndsCut
    <3> QED
      BY <2>1, <2>5, <3>1, <3>2
  <2>6. CASE \E i \in 0..q.count : \E n \in 0..(q.count - i) : w = Slice(q, i, n)
    BY <1>1, <2>1, <2>6, SliceCuts
  <2>7. CASE \E n \in 0..q.count : w \in {Take(q, n), Drop(q, n)}
    <3>1. PICK n \in 0..q.count : w \in {Take(q, n), Drop(q, n)}
      BY <2>7
    <3>2. n \in 0..(q.count - 0) /\ q.count - n \in 0..(q.count - n)
      BY <1>1
    <3>3. Cut(B, q, 0, n, Take(q, n)) /\ Cut(B, q, n, q.count - n, Drop(q, n))
      BY <1>1, <2>1, CallsCut
    <3> QED
      BY <2>1, <3>1, <3>2, <3>3
  <2> QED
    BY <2>2, <2>3, <2>4, <2>5, <2>6, <2>7 DEF q
<1> QED
  BY <1>2, CutLawful

\* ReverseTo leaves the values backwards.
LEMMA ReverseLawful ==
    ASSUME DequeAssumption, ContentInv, Settled, NEW s \in Handles, NEW h \in Handles, ReverseTo(s, h)
    PROVE  Lawful
<1> DEFINE q == hold[s]
           B == A(q)
           w == Reversed(q)
<1>1. s \in Held /\ hold' = [hold EXCEPT ![h] = w] /\ arena'[q.arena] = B
  BY DEF ReverseTo, Derive, Publish, A
<1>2. Solid(B) /\ Two(B, q) /\ VisitOn(B, q) \in Seq(Values)
  BY <1>1, HeldDeque DEF Visit
<1>3. Two(B, w) /\ w.arena = q.arena /\ VisitOn(B, w) = Reverse(VisitOn(B, q)) /\ VisitOn(B, w) \in Seq(Values)
  <2> HIDE DEF B, q
  <2> QED
    BY <1>2, ReversedShows
<1>4. VisitOn(B, w) \in Promised!Derived(Visit(q))
  <2> HIDE DEF w
  <2> QED
    BY <1>3 DEF Promised!Derived, Promised!Reverse, Reverse, Visit
<1> HIDE DEF B, w
<1> QED
  BY <1>1, <1>3, <1>4, DerivedLawful

\* FromArray leaves a deque that shows the array, on an arena of its own.
LEMMA FromArrayShows ==
    ASSUME DequeAssumption, ContentInv, NEW h \in Handles, NEW a \in Arenas, NEW n \in Nat \ {0},
           NEW values \in [1..n -> Values], FromArray(h, a, values)
    PROVE  \E C, w : /\ h \notin Held /\ arena[a] = NoArena /\ Stored(C) /\ Made(C)
                     /\ Two(C, w) /\ w.arena = a /\ VisitOn(C, w) = values
                     /\ hold' = [hold EXCEPT ![h] = w] /\ arena' = [arena EXCEPT ![a] = C]
<1> DEFINE w == With(EmptyDeque(a), EmptyAt(Bottom), GrownRight(Chain(values), n))
           C == Chain(values)[n].arena
<1>1. Len(values) = n
  OBVIOUS
<1>2. /\ h \notin Held /\ arena[a] = NoArena /\ n < MaxNodes
      /\ hold' = [hold EXCEPT ![h] = w] /\ arena' = [arena EXCEPT ![a] = C]
  BY <1>1 DEF FromArray
<1> HIDE DEF w, C
<1>4. Stored(C) /\ Made(C) /\ Two(C, w) /\ w.arena = a /\ VisitOn(C, w) = values
  <2>1. n < MaxNodes /\ ArenaAssumption
    BY <1>2 DEF DequeAssumption
  <2>2. LET D == Chain(values)[n].arena
            e == With(EmptyDeque(a), EmptyAt(Bottom), GrownRight(Chain(values), n))
        IN  Stored(D) /\ Made(D) /\ Two(D, e) /\ e.arena = a /\ VisitOn(D, e) = values
    BY <2>1, DequeOfArray
  <2> QED
    BY <2>2 DEF C, w
<1> QED
  BY <1>2, <1>4

\* A deque whose arm ends at a new leaf.
Longer(d, arm, leaf) == [d EXCEPT ![arm] = AddToTail(@, leaf), !.count = @ + 1]

\* The arms and the count of a deque with a new leaf.
LEMMA LongerJoins ==
    ASSUME NEW B, Solid(B), NEW d, Two(B, d), NEW leaf
    PROVE  /\ Longer(d, "left", leaf) = Joined(d.arena, AddToTail(d.left, leaf), d.right)
           /\ Longer(d, "right", leaf) = Joined(d.arena, d.left, AddToTail(d.right, leaf))
<1> DEFINE p == AddToTail(d.left, leaf)
           q == AddToTail(d.right, leaf)
           n == d.count + 1
<1>1. p.count = d.left.count + 1 /\ q.count = d.right.count + 1
  BY DEF AddToTail, Interval
<1>2. p.count + d.right.count = n /\ d.left.count + q.count = n
  <2>1. d.left.count \in Nat /\ d.right.count \in Nat /\ d.count = d.left.count + d.right.count
    BY TwoCounts
  <2> HIDE DEF p, q
  <2> QED
    BY <1>1, <2>1
<1>3. PICK a, x, y, c : d = [arena |-> a, left |-> x, right |-> y, count |-> c]
  BY DEF Two, Joined
<1>4. d.arena = a /\ d.left = x /\ d.right = y /\ d.count = c
  BY <1>3
<1>5. Longer(d, "left", leaf) = [arena |-> a, left |-> p, right |-> y, count |-> n]
  <2>1. Longer(d, "left", leaf) = [d EXCEPT !.left = p, !.count = n]
    BY DEF Longer
  <2> HIDE DEF p, n
  <2> QED
    BY <1>3, <2>1
<1>6. Longer(d, "right", leaf) = [arena |-> a, left |-> x, right |-> q, count |-> n]
  <2>1. Longer(d, "right", leaf) = [d EXCEPT !.right = q, !.count = n]
    BY DEF Longer
  <2> HIDE DEF q, n
  <2> QED
    BY <1>3, <2>1
<1>7. Joined(d.arena, p, d.right) = [arena |-> a, left |-> p, right |-> y, count |-> n]
  <2> HIDE DEF p, n
  <2> QED
    BY <1>2, <1>4 DEF Joined
<1>8. Joined(d.arena, d.left, q) = [arena |-> a, left |-> x, right |-> q, count |-> n]
  <2> HIDE DEF q, n
  <2> QED
    BY <1>2, <1>4 DEF Joined
<1> QED
  BY <1>5, <1>6, <1>7, <1>8

\* What Push leaves in the arena and in the handles, with memory and without.
LEMMA PushArena ==
    ASSUME NEW s \in Handles, NEW h \in Handles, NEW v, NEW arm, Push(s, h, v, arm)
    PROVE  /\ s \in Held
           /\ \E out \in AddLeaf(arena[hold[s].arena], hold[s][arm].tail, v) :
                 /\ arena' = [arena EXCEPT ![hold[s].arena] = out.arena]
                 /\ out.leaf = Unset => hold' = hold
                 /\ out.leaf # Unset => hold' = [hold EXCEPT ![h] = Longer(hold[s], arm, out.leaf)]
BY DEF Push, MayTarget, Publish, A, Longer

\* No call writes to a node that is there.
LEMMA DequeNextKept ==
    ASSUME DequeAssumption, ContentInv, [DequeNext]_arenaVars
    PROVE  \A b \in Arenas : ArenaKept(arena, arena', b)
<1>0. ArenaAssumption /\ ArenaInv /\ NodesInv
  BY DEF DequeAssumption, ContentInv, DequeInv
<1>1. ASSUME NEW h \in Handles, NEW a \in Arenas, InitMyers(h, a)
      PROVE  \A b \in Arenas : ArenaKept(arena, arena', b)
  BY <1>0, <1>1, NewOwnerKept DEF InitMyers
<1>2. ASSUME NEW h \in Handles, Dispose(h) PROVE \A b \in Arenas : ArenaKept(arena, arena', b)
  BY <1>0, <1>2, DisposeKept
<1>3. ASSUME NEW s \in Handles, NEW h \in Handles, NEW v \in Values, NEW arm \in {"left", "right"}, Push(s, h, v, arm)
      PROVE  \A b \in Arenas : ArenaKept(arena, arena', b)
  <2>1. PICK out \in AddLeaf(arena[hold[s].arena], hold[s][arm].tail, v) :
           arena' = [arena EXCEPT ![hold[s].arena] = out.arena]
    BY <1>3, PushArena
  <2>2. s \in Held /\ Two(arena[hold[s].arena], hold[s])
    BY <1>3, PushArena, HeldDeque DEF A
  <2>3. hold[s][arm].tail \in Nodes(arena[hold[s].arena])
    BY <2>2 DEF Two, Span
  <2> QED
    BY <1>0, <2>1, <2>2, <2>3, LeafKept
<1>4. ASSUME NEW h \in Handles, NEW a \in Arenas, NEW n \in 1..MaxSource, NEW values \in [1..n -> Values],
             FromArray(h, a, values)
      PROVE  \A b \in Arenas : ArenaKept(arena, arena', b)
  <2>1. n \in Nat \ {0}
    OBVIOUS
  <2>2. PICK C : arena[a] = NoArena /\ Stored(C) /\ Made(C) /\ arena' = [arena EXCEPT ![a] = C]
    BY <1>4, <2>1, FromArrayShows
  <2> QED
    BY <1>0, <2>2, OneArenaKept
<1>5. CASE arena' = arena
  BY <1>5 DEF ArenaKept
<1>6. ASSUME NEW s \in Handles, NEW h \in Handles, NEW v \in Values, PushFront(s, h, v) \/ PushBack(s, h, v)
      PROVE  \A b \in Arenas : ArenaKept(arena, arena', b)
  BY <1>3, <1>6 DEF PushFront, PushBack
<1> QED
  BY <1>1, <1>2, <1>4, <1>5, <1>6
  DEF DequeNext, InitOn, Copy, Move, ReverseTo, ClearTo, RemoveFirstTo, RemoveLastTo, TryPopFront, TryPopBack,
      TakeTo, DropTo, SliceTo, Derive, SplitAt, arenaVars

\* A value goes in at an end of a deque, or the arena has no memory for it.
LEMMA PushLawful ==
    ASSUME DequeAssumption, ContentInv, Settled, NEW s \in Handles, NEW h \in Handles, NEW v \in Values,
           NEW arm \in {"left", "right"}, Push(s, h, v, arm)
    PROVE  Lawful
<1> DEFINE q == hold[s]
           B == arena[q.arena]
           iv == q[arm]
           all == VisitOn(B, q)
<1>1. PICK out \in AddLeaf(B, iv.tail, v) :
         /\ arena' = [arena EXCEPT ![q.arena] = out.arena]
         /\ out.leaf = Unset => hold' = hold
         /\ out.leaf # Unset => hold' = [hold EXCEPT ![h] = Longer(q, arm, out.leaf)]
  BY PushArena
<1>2. /\ s \in Held /\ q.arena # Unset /\ q.arena \in Arenas /\ Stored(B) /\ Made(B) /\ Solid(B) /\ Two(B, q)
      /\ all \in Seq(Values) /\ all = ContentOf(hold, arena)[s] /\ all = Visit(q)
  BY PushArena, HeldDeque DEF A, Visit
<1>3. all # Unset
  BY <1>2 DEF DequeAssumption
<1>4. (arm = "left" => iv = q.left) /\ (arm = "right" => iv = q.right)
  OBVIOUS
<1> HIDE DEF q, B, all, iv
<1>5. CASE out.leaf = Unset
  <2>1. Sound(arena', hold'[s]) /\ ContentOf(hold', arena')[s] = all /\ \A g \in Handles : hold'[g] = hold[g]
    BY <1>1, <1>2, <1>5, OthersStay
  <2>2. all \in Promised!Derived(all)
    BY <1>2, WholeDerived
  <2> QED
    BY <1>2, <1>3, <2>1, <2>2, ResultLawful
<1>6. CASE out.leaf # Unset
  <2> DEFINE C == out.arena
             p == AddToTail(iv, out.leaf)
             w == Longer(q, arm, out.leaf)
  <2>1. /\ Solid(C) /\ Two(C, q) /\ VisitOn(C, q) = all
        /\ Span(C, p) /\ p.count = iv.count + 1 /\ Up(C, p.tail, 0) = out.leaf /\ ValueOf(C, out.leaf) = v
        /\ \A k \in 0..iv.count : Up(C, p.tail, k + 1) = Up(C, iv.tail, k)
    <3>1. ArenaAssumption /\ iv \in {q.left, q.right}
      BY <1>4 DEF DequeAssumption
    <3>2. Stored(B) /\ Made(B) /\ Two(B, q)
      BY <1>2
    <3>3. LET D == out.arena
              e == AddToTail(iv, out.leaf)
          IN  /\ Solid(D) /\ Two(D, q) /\ VisitOn(D, q) = VisitOn(B, q)
              /\ Span(D, e) /\ e.count = iv.count + 1 /\ Up(D, e.tail, 0) = out.leaf /\ ValueOf(D, out.leaf) = v
              /\ \A k \in 0..iv.count : Up(D, e.tail, k + 1) = Up(D, iv.tail, k)
      BY <1>6, <3>1, <3>2, LeafGrows
    <3> QED
      BY <3>3 DEF all
  <2>2. w = IF arm = "left" THEN Joined(q.arena, p, q.right) ELSE Joined(q.arena, q.left, p)
    BY <1>2, <1>4, LongerJoins
  <2>3. hold' = [hold EXCEPT ![h] = w]
    BY <1>1, <1>6
  <2> HIDE DEF C, p, w
  <2>4. /\ iv = q.left => LET x == Joined(q.arena, p, q.right) IN
                          Two(C, x) /\ VisitOn(C, x) = <<v>> \o all
        /\ iv = q.right => LET x == Joined(q.arena, q.left, p) IN
                           Two(C, x) /\ VisitOn(C, x) = Append(all, v)
    BY <1>2, <2>1, EndsGrow
  <2>5. Two(C, w) /\ VisitOn(C, w) \in {<<v>> \o all, Append(all, v)} /\ w.arena = q.arena
    BY <1>4, <2>2, <2>4 DEF Joined
  <2>6. VisitOn(C, w) \in Seq(Values)
    <3>1. <<v>> \o all \in Seq(Values)
      BY <1>2, InFront
    <3>2. Append(all, v) \in Seq(Values)
      BY <1>2, AppendProperties
    <3> QED
      BY <2>5, <3>1, <3>2
  <2>7. VisitOn(C, w) \in Promised!Derived(Visit(q))
    BY <1>2, <2>5 DEF Promised!Derived
  <2>8. arena'[q.arena] = C
    BY <1>1, <1>2 DEF ContentInv, DequeInv, ArenaInv, Kept, C
  <2> QED
    BY <1>2, <2>3, <2>5, <2>6, <2>7, <2>8, DerivedLawful DEF q
<1> QED
  BY <1>5, <1>6

\* A call that leaves a deque on an arena that no handle had.
LEMMA FreshLawful ==
    ASSUME DequeAssumption, ContentInv, Settled, NEW h \in Handles, h \notin Held, NEW w, w.arena # Unset,
           hold' = [hold EXCEPT ![h] = w], Two(arena'[w.arena], w), NEW n \in 0..MaxSource,
           VisitOn(arena'[w.arena], w) \in [1..n -> Values]
    PROVE  Lawful
<1>1. \A g \in Handles : hold'[g] = IF g = h THEN w ELSE hold[g]
  BY DEF ContentInv, DequeInv, ArenaInv, Counted
<1>2. VisitOn(arena'[w.arena], w) \in Seq(Values)
  <2>1. n \in Nat
    OBVIOUS
  <2> QED
    BY <2>1, SeqDef
<1>3. Sound(arena', hold'[h]) /\ ContentOf(hold', arena')[h] = VisitOn(arena'[w.arena], w)
  BY <1>1, <1>2, WrittenShows
<1>4. ContentOf(hold, arena)[h] = Unset
  BY DEF ContentOf, Held
<1> QED
  BY <1>1, <1>3, <1>4, ResultLawful

\* InitMyers leaves an empty deque.
LEMMA InitMyersLawful ==
    ASSUME DequeAssumption, ContentInv, Settled, NEW h \in Handles, NEW a \in Arenas, InitMyers(h, a)
    PROVE  Lawful
<1> DEFINE w == EmptyDeque(a)
<1>1. h \notin Held /\ hold' = [hold EXCEPT ![h] = w] /\ arena'[a] = NewArena
  BY DEF InitMyers, NewOwner, ContentInv, DequeInv, ArenaInv, Kept
<1>2. Solid(NewArena)
  BY NewArenaMade DEF DequeAssumption, Solid, Stored
<1>3. Two(NewArena, w) /\ VisitOn(NewArena, w) = <<>> /\ w.arena = a
  BY <1>2, EmptyShows
<1>4. a # Unset
  BY DEF DequeAssumption, ArenaAssumption
<1> HIDE DEF w
<1>5. <<>> \in [1..0 -> Values] /\ 0 \in 0..MaxSource
  BY DEF DequeAssumption
<1> QED
  BY <1>1, <1>3, <1>4, <1>5, FreshLawful

\* SplitAt leaves two halves that make up the whole.
LEMMA SplitAtLawful ==
    ASSUME DequeAssumption, ContentInv, Settled, NEW s \in Handles, NEW l \in Handles, NEW r \in Handles,
           NEW i \in 0..MaxCount, SplitAt(s, l, r, i)
    PROVE  Lawful
<1> DEFINE q == hold[s]
           B == arena[q.arena]
           all == VisitOn(B, q)
           x == Take(q, i)
           y == Drop(q, i)
           now == ContentOf(hold, arena)
           new == ContentOf(hold', arena')
<1>1. /\ s \in Held /\ l # r /\ i <= q.count /\ arena' = arena
      /\ hold' = [hold EXCEPT ![l] = x, ![r] = y]
  BY DEF SplitAt
<1>2. /\ q.arena # Unset /\ q.arena \in Arenas /\ Solid(B) /\ Two(B, q) /\ B = A(q)
      /\ all \in Seq(Values) /\ all = now[s] /\ Len(all) = q.count /\ q.count \in Nat
  BY <1>1, HeldDeque DEF A, Visit
<1>3. i \in 0..q.count /\ q.count - i \in 0..(q.count - i) /\ 0 \in 0..q.count /\ i \in 0..(q.count - 0)
  BY <1>1, <1>2
<1>4. Cut(B, q, 0, i, x) /\ Cut(B, q, i, q.count - i, y)
  <2> HIDE DEF q, B
  <2> QED
    BY <1>2, <1>3, CallsCut
<1>5. /\ Two(B, x) /\ x.arena = q.arena /\ VisitOn(B, x) = SubSeq(all, 0 + 1, 0 + i) /\ VisitOn(B, x) \in Seq(Values)
      /\ Two(B, y) /\ y.arena = q.arena /\ VisitOn(B, y) = SubSeq(all, i + 1, i + (q.count - i)) /\ VisitOn(B, y) \in Seq(Values)
  <2>1. Two(B, x) /\ x.arena = q.arena /\ Two(B, y) /\ y.arena = q.arena
    BY <1>4 DEF Cut
  <2>2. ASSUME NEW j \in 0..q.count, NEW n \in 0..(q.count - j), NEW e, Cut(B, q, j, n, e)
        PROVE  VisitOn(B, e) = SubSeq(all, j + 1, j + n) /\ VisitOn(B, e) \in Seq(Values)
    <3> HIDE DEF q, B
    <3> QED
      BY <1>2, <2>2, CutShows
  <2> HIDE DEF x, y, q, B, all
  <2> QED
    BY <1>3, <1>4, <2>1, <2>2
<1> HIDE DEF all, x, y
<1>7. VisitOn(B, x) = SubSeq(all, 1, i) /\ VisitOn(B, y) = SubSeq(all, i + 1, Len(all))
  <2>1. 0 + 1 = 1 /\ 0 + i = i /\ i + (q.count - i) = Len(all)
    BY <1>2, <1>3
  <2> QED
    BY <1>5, <2>1
<1>8. SubSeq(all, 1, i) \in Seq(Values) /\ SubSeq(all, i + 1, Len(all)) \in Seq(Values)
  BY <1>5, <1>7
<1>9. SubSeq(all, 1, i) \o SubSeq(all, i + 1, Len(all)) = all
  <2>1. 1 \in 1..(Len(all) + 1) /\ i \in (1 - 1)..Len(all) /\ Len(all) \in i..Len(all)
    BY <1>2, <1>3
  <2>2. SubSeq(all, 1, i) \o SubSeq(all, i + 1, Len(all)) = SubSeq(all, 1, Len(all))
    BY <1>2, <2>1, ConcatAdjacentSubSeq
  <2> QED
    BY <1>2, <2>2, SubSeqFull
<1>10. \A g \in Handles : hold'[g] = IF g = r THEN y ELSE IF g = l THEN x ELSE hold[g]
  BY <1>1 DEF ContentInv, DequeInv, ArenaInv, Counted
<1> HIDE DEF q, B, now, new
<1>11. Sound(arena', hold'[l]) /\ new[l] = SubSeq(all, 1, i)
  <2>1. hold'[l] = x /\ x.arena # Unset /\ arena'[x.arena] = B
    BY <1>1, <1>2, <1>5, <1>10 DEF B
  <2> QED
    BY <1>5, <1>7, <2>1, WrittenShows DEF new
<1>12. Sound(arena', hold'[r]) /\ new[r] = SubSeq(all, i + 1, Len(all))
  <2>1. hold'[r] = y /\ y.arena # Unset /\ arena'[y.arena] = B
    BY <1>1, <1>2, <1>5, <1>10 DEF B
  <2> QED
    BY <1>5, <1>7, <2>1, WrittenShows DEF new
<1>13. \A g \in Handles \ {l, r} : Sound(arena', hold'[g]) /\ new[g] = now[g]
  BY <1>10, OthersStay DEF now, new
<1>14. now[s] # Unset /\ new[l] # Unset /\ new[r] # Unset /\ new[l] \o new[r] = now[s]
  BY <1>2, <1>8, <1>9, <1>11, <1>12 DEF DequeAssumption
<1>15. Promised!Step(now, new)
  BY <1>1, <1>13, <1>14 DEF Promised!Step
<1> QED
  BY <1>11, <1>12, <1>13, <1>15, LawfulByStep DEF now, new

\* Move leaves the source without a deque and the target with its values.
LEMMA MoveLawful ==
    ASSUME DequeAssumption, ContentInv, Settled, NEW s \in Handles, NEW h \in Handles, Move(s, h)
    PROVE  Lawful
<1> DEFINE now == ContentOf(hold, arena)
           new == ContentOf(hold', arena')
<1>1. s # h /\ hold' = [hold EXCEPT ![h] = hold[s], ![s] = Nothing]
  BY DEF Move
<1>2. \A g \in Handles : hold'[g] = IF g = s THEN Nothing ELSE IF g = h THEN hold[s] ELSE hold[g]
  BY <1>1 DEF ContentInv, DequeInv, ArenaInv, Counted
<1>3. Sound(arena', hold'[s]) /\ new[s] = Unset
  BY <1>2 DEF Nothing, Sound, ContentOf
<1>4. Sound(arena', hold'[h]) /\ new[h] = now[s]
  <2>1. hold'[h] = hold[s]
    BY <1>1, <1>2
  <2> QED
    BY <2>1, OthersStay
<1>5. \A g \in Handles \ {s, h} : Sound(arena', hold'[g]) /\ new[g] = now[g]
  BY <1>2, OthersStay
<1> HIDE DEF now, new
<1>6. Promised!Step(now, new)
  BY <1>1, <1>3, <1>4, <1>5 DEF Promised!Step
<1> QED
  BY <1>3, <1>4, <1>5, <1>6, LawfulByStep DEF now, new

\* Copy leaves the values of its source.
LEMMA CopyLawful ==
    ASSUME DequeAssumption, ContentInv, Settled, NEW s \in Handles, NEW h \in Handles, Copy(s, h)
    PROVE  Lawful
<1> DEFINE all == ContentOf(hold, arena)[s]
<1>1. s \in Held /\ h \notin Held /\ \A g \in Handles : hold'[g] = IF g = h THEN hold[s] ELSE hold[g]
  BY DEF Copy, ContentInv, DequeInv, ArenaInv, Counted
<1>2. Sound(arena', hold'[h]) /\ ContentOf(hold', arena')[h] = all
  BY <1>1, OthersStay
<1>3. all \in Seq(Values)
  BY <1>1, HeldDeque
<1> HIDE DEF all
<1>4. all # Unset /\ all \in Promised!Derived(all)
  BY <1>3, WholeDerived DEF DequeAssumption
<1> QED
  BY <1>1, <1>2, <1>4, ResultLawful DEF all

\* Every call keeps the deques sound and leaves the sequence it promises.
LEMMA DequeNextLawful ==
    ASSUME DequeAssumption, ContentInv, Settled, DequeNext PROVE Lawful
<1> USE DEF Held
<1>1. ASSUME NEW h \in Handles, NEW a \in Arenas, InitMyers(h, a) PROVE Lawful
  BY <1>1, InitMyersLawful
<1>2. ASSUME NEW h \in Handles, NEW a \in Arenas, NEW n \in 1..MaxSource, NEW values \in [1..n -> Values],
             FromArray(h, a, values)
      PROVE  Lawful
  <2>1. n \in Nat \ {0} /\ n \in 0..MaxSource
    OBVIOUS
  <2>2. PICK C, w : /\ h \notin Held /\ Two(C, w) /\ w.arena = a /\ VisitOn(C, w) = values
                    /\ hold' = [hold EXCEPT ![h] = w] /\ arena' = [arena EXCEPT ![a] = C]
    BY <1>2, <2>1, FromArrayShows
  <2>3. a # Unset
    BY DEF DequeAssumption, ArenaAssumption
  <2>4. arena'[w.arena] = C
    BY <2>2, <2>3 DEF ContentInv, DequeInv, ArenaInv, Kept
  <2> QED
    BY <2>1, <2>2, <2>3, <2>4, FreshLawful
<1>3. ASSUME NEW h \in Handles, Dispose(h) PROVE Lawful
  <2>1. \A g \in Handles : hold'[g] = IF g = h THEN Nothing ELSE hold[g]
    BY <1>3 DEF Dispose, ContentInv, DequeInv, ArenaInv, Counted
  <2>2. Sound(arena', hold'[h]) /\ ContentOf(hold', arena')[h] = Unset
    BY <2>1 DEF Nothing, Sound, ContentOf
  <2> QED
    BY <2>1, <2>2, ResultLawful
<1>4. ASSUME NEW s \in Handles, NEW h \in Handles, NEW v \in Values, PushFront(s, h, v) \/ PushBack(s, h, v)
      PROVE  Lawful
  BY <1>4, PushLawful DEF PushFront, PushBack
<1>5. ASSUME NEW s \in Handles, NEW h \in Handles,
             \/ RemoveFirstTo(s, h) \/ RemoveLastTo(s, h) \/ TryPopFront(s, h) \/ TryPopBack(s, h)
             \/ InitOn(s, h) \/ ClearTo(s, h)
             \/ \E n \in 0..MaxCount : TakeTo(s, h, n) \/ DropTo(s, h, n)
             \/ \E i, n \in 0..MaxCount : SliceTo(s, h, i, n)
      PROVE  Lawful
  <2>1. s \in Held
    BY <1>5 DEF RemoveFirstTo, RemoveLastTo, TryPopFront, TryPopBack, InitOn, ClearTo, TakeTo, DropTo, SliceTo
  <2> DEFINE q == hold[s]
  <2>2. q.count \in Nat
    BY <2>1, HeldDeque
  <2>3. CASE RemoveFirstTo(s, h) \/ RemoveLastTo(s, h)
    BY <2>1, <2>3, CutsLawful DEF RemoveFirstTo, RemoveLastTo
  <2>4. CASE TryPopFront(s, h) \/ TryPopBack(s, h)
    <3>1. \E w \in {q, WithoutFirst(q), WithoutLast(q)} : Derive(s, h, w) /\ (q.count = 0 => w = q)
      BY <2>4 DEF TryPopFront, TryPopBack
    <3>2. q.count # 0 => q.count > 0
      BY <2>2
    <3> QED
      BY <2>1, <3>1, <3>2, CutsLawful
  <2>5. CASE InitOn(s, h) \/ ClearTo(s, h)
    BY <2>1, <2>5, CutsLawful DEF InitOn, ClearTo
  <2>6. ASSUME NEW n \in 0..MaxCount, TakeTo(s, h, n) \/ DropTo(s, h, n) PROVE Lawful
    <3>1. n \in 0..q.count
      BY <2>2, <2>6 DEF TakeTo, DropTo
    <3>2. Derive(s, h, Take(q, n)) \/ Derive(s, h, Drop(q, n))
      BY <2>6 DEF TakeTo, DropTo
    <3> QED
      BY <2>1, <3>1, <3>2, CutsLawful
  <2>7. ASSUME NEW i \in 0..MaxCount, NEW n \in 0..MaxCount, SliceTo(s, h, i, n) PROVE Lawful
    <3>1. i \in 0..q.count /\ n \in 0..(q.count - i)
      BY <2>2, <2>7 DEF SliceTo
    <3>2. Derive(s, h, Slice(q, i, n))
      BY <2>7 DEF SliceTo
    <3> QED
      BY <2>1, <3>1, <3>2, CutsLawful
  <2> QED
    BY <1>5, <2>3, <2>4, <2>5, <2>6, <2>7
<1> QED
  BY <1>1, <1>2, <1>3, <1>4, <1>5, MoveLawful, CopyLawful, ReverseLawful, SplitAtLawful DEF DequeNext

\* Every step keeps ContentInv and the promise.
LEMMA ContentNext ==
    ASSUME DequeAssumption, ContentInv, [DequeNext]_arenaVars
    PROVE  ContentInv' /\ [DequeKeepsPromise]_arenaVars
<1>1. DequeInv' /\ Settled
  BY DequeNextOwned, DequeNextKept DEF DequeAssumption, ContentInv, Settled, DequeInv
<1>2. NodesInv'
  BY <1>1, KeptNodes DEF Settled, ContentInv
<1>3. CASE DequeNext
  <2>1. Lawful
    BY <1>1, <1>3, DequeNextLawful
  <2> QED
    BY <1>1, <1>2, <2>1 DEF Lawful, ContentInv
<1>4. CASE UNCHANGED arenaVars
  <2>1. \A g \in Handles : Sound(arena', hold'[g])
    BY <1>4 DEF ContentInv, arenaVars
  <2> QED
    BY <1>1, <1>2, <1>4, <2>1 DEF ContentInv
<1> QED
  BY <1>3, <1>4

\* ContentInv is an invariant.
LEMMA ContentStays == ASSUME DequeAssumption PROVE DequeSpec => []ContentInv
<1>1. ArenaInit => ContentInv
  BY ArenaInitOwned, ArenaInitKept DEF DequeAssumption, ArenaInit, DequeInv, ContentInv, Sound, Nothing
<1>2. ContentInv /\ [DequeNext]_arenaVars => ContentInv'
  BY ContentNext
<1> QED
  BY <1>1, <1>2, PTL DEF DequeSpec

\* The audit of an interval agrees with where its tail and its count say its ends are.
LEMMA SpanValid ==
    ASSUME NEW d, NEW B, B = A(d), Solid(B), NEW iv, Span(B, iv)
    PROVE  ValidInterval(d, iv)
<1> DEFINE t == iv.tail
           c == iv.count
<1>0. /\ t \in Nodes(B) /\ c \in Nat /\ c <= Depth(B, t) + 1 /\ Depth(B, t) \in Int
      /\ iv.anchor = Up(B, t, c) /\ iv.base = (IF c = 0 THEN t ELSE Up(B, t, c - 1))
  BY SpanFields
<1>1. CASE c = 0
  <2>1. 0 \in 0..(Depth(B, t) + 1)
    BY <1>0, <1>1
  <2>2. Up(B, t, 0) = t
    BY <1>0, <2>1, Climbing
  <2> QED
    BY <1>0, <1>1, <2>2 DEF ValidInterval
<1>2. CASE c # 0
  <2> DEFINE k == c - 1
  <2>1. /\ c \in 0..(Depth(B, t) + 1) /\ k \in 0..(Depth(B, t) + 1) /\ k <= Depth(B, t) /\ k + 1 = c
        /\ Depth(B, t) - c + c = Depth(B, t) /\ Depth(B, t) - c + 1 = Depth(B, t) - k
    BY <1>0, <1>2
  <2> HIDE DEF k
  <2>2. Depth(B, Up(B, t, c)) = Depth(B, t) - c /\ AncestorAtDepth(B, t, Depth(B, t) - c).node = Up(B, t, c)
    BY <1>0, <2>1, Climbing
  <2>3. Parent(B, Up(B, t, k)) = Up(B, t, k + 1) /\ AncestorAtDepth(B, t, Depth(B, t) - k).node = Up(B, t, k)
    BY <1>0, <2>1, Climbing
  <2>4. iv.base = Up(B, t, k)
    BY <1>0, <1>2 DEF k
  <2> DEFINE top == Depth(B, iv.anchor)
  <2>5. top + c = Depth(B, t) /\ top + 1 = Depth(B, t) - k /\ top = Depth(B, t) - c
    BY <1>0, <2>1, <2>2
  <2> HIDE DEF top
  <2>6. /\ Parent(B, iv.base) = iv.anchor
        /\ AncestorAtDepth(B, t, top).node = iv.anchor /\ AncestorAtDepth(B, t, top + 1).node = iv.base
    BY <1>0, <2>1, <2>2, <2>3, <2>4, <2>5
  <2> QED
    BY <1>2, <2>5, <2>6 DEF ValidInterval, top
<1> QED
  BY <1>1, <1>2

\* The node that an index finds, cached end points and all, and the nodes at the ends.
LEMMA NodesFound ==
    ASSUME NEW d, NEW B, B = A(d), Solid(B), Two(B, d)
    PROVE  /\ \A i \in 0..(d.count - 1) : NodeAt(d, i).node = Place(B, d, i)
           /\ d.count > 0 => FirstNode(d) = Place(B, d, 0) /\ LastNode(d) = Place(B, d, d.count - 1)
<1> DEFINE l == d.left.count
           r == d.right.count
           x == d.left.tail
           y == d.right.tail
<1>0. l \in Nat /\ r \in Nat /\ d.count = l + r
  BY TwoCounts
<1>1. /\ x \in Nodes(B) /\ l <= Depth(B, x) + 1 /\ Depth(B, x) \in Int
      /\ d.left.base = (IF l = 0 THEN x ELSE Up(B, x, l - 1))
  BY SpanFields DEF Two
<1>2. /\ y \in Nodes(B) /\ r <= Depth(B, y) + 1 /\ Depth(B, y) \in Int
      /\ d.right.anchor = Up(B, y, r) /\ d.right.base = (IF r = 0 THEN y ELSE Up(B, y, r - 1))
  BY SpanFields DEF Two
<1>3. l # 0 => Up(B, x, 0) = x
  <2>1. l # 0 => 0 \in 0..(Depth(B, x) + 1)
    BY <1>0, <1>1
  <2> QED
    BY <1>1, <2>1, Climbing
<1>4. r # 0 => Up(B, y, 0) = y
  <2>1. r # 0 => 0 \in 0..(Depth(B, y) + 1)
    BY <1>0, <1>2
  <2> QED
    BY <1>2, <2>1, Climbing
<1>5. ASSUME NEW i \in 0..(d.count - 1), i < l PROVE NodeAt(d, i).node = Place(B, d, i)
  <2>1. l # 0 /\ i \in 0..(Depth(B, x) + 1)
    BY <1>0, <1>1, <1>5
  <2>2. AncestorAtDepth(B, x, Depth(B, x) - i).node = Up(B, x, i)
    BY <1>1, <2>1, Climbing
  <2> QED
    BY <1>1, <1>3, <1>5, <2>1, <2>2 DEF NodeAt, Known, Asked, Place
<1>6. ASSUME NEW i \in 0..(d.count - 1), ~(i < l) PROVE NodeAt(d, i).node = Place(B, d, i)
  <2> DEFINE j == i - l
             k == d.count - 1 - i
  <2>1. /\ j \in 0..(r - 1) /\ k \in 0..(Depth(B, y) + 1) /\ r \in 0..(Depth(B, y) + 1) /\ r # 0 /\ k = r - 1 - j
        /\ Depth(B, y) - r + j + 1 = Depth(B, y) - k
        /\ (j = 0 => k = r - 1) /\ (j = r - 1 => k = 0)
    BY <1>0, <1>2, <1>6
  <2>2. Place(B, d, i) = Up(B, y, k)
    BY <1>6 DEF Place
  <2>3. NodeAt(d, i) = IF j = 0 THEN Known(d.right.base)
                       ELSE IF j = r - 1 THEN Known(y)
                       ELSE Asked(d, y, Depth(B, d.right.anchor) + j + 1)
    BY <1>6 DEF NodeAt
  <2> HIDE DEF j, k
  <2>4. Depth(B, d.right.anchor) + j + 1 = Depth(B, y) - k
    <3>1. Depth(B, Up(B, y, r)) = Depth(B, y) - r
      BY <1>2, <2>1, Climbing
    <3> QED
      BY <1>2, <2>1, <3>1
  <2>5. AncestorAtDepth(B, y, Depth(B, y) - k).node = Up(B, y, k)
    BY <1>2, <2>1, Climbing
  <2>6. CASE j = 0
    BY <1>2, <2>1, <2>2, <2>3, <2>6 DEF Known
  <2>7. CASE j # 0 /\ j = r - 1
    BY <1>4, <2>1, <2>2, <2>3, <2>7 DEF Known
  <2>8. CASE j # 0 /\ j # r - 1
    BY <2>2, <2>3, <2>4, <2>5, <2>8 DEF Asked
  <2> QED
    BY <2>6, <2>7, <2>8
<1>7. ASSUME d.count > 0
      PROVE  FirstNode(d) = Place(B, d, 0) /\ LastNode(d) = Place(B, d, d.count - 1)
  <2>1. FirstNode(d) = Place(B, d, 0)
    <3>1. CASE l # 0
      BY <1>0, <1>3, <3>1 DEF FirstNode, Place
    <3>2. CASE l = 0
      <4>1. r # 0 /\ ~(0 < l) /\ d.count - 1 - 0 = r - 1
        BY <1>0, <1>7, <3>2
      <4> QED
        BY <1>2, <3>2, <4>1 DEF FirstNode, Place
    <3> QED
      BY <3>1, <3>2
  <2>2. LastNode(d) = Place(B, d, d.count - 1)
    <3>1. CASE r # 0
      <4>1. ~(d.count - 1 < l) /\ d.count - 1 - (d.count - 1) = 0
        BY <1>0, <3>1
      <4> QED
        BY <1>4, <3>1, <4>1 DEF LastNode, Place
    <3>2. CASE r = 0
      <4>1. l # 0 /\ d.count - 1 < l /\ d.count - 1 = l - 1
        BY <1>0, <1>7, <3>2
      <4> QED
        BY <1>1, <3>2, <4>1 DEF LastNode, Place
    <3> QED
      BY <3>1, <3>2
  <2> QED
    BY <2>1, <2>2
<1> QED
  BY <1>5, <1>6, <1>7

\* What indexing, the ends and slices of a held deque read.
LEMMA DequeExact ==
    ASSUME DequeAssumption, ContentInv, NEW h \in Held, NEW d, d = hold[h], NEW all, all = Visit(d)
    PROVE  /\ \A i \in 0..(d.count - 1) : At(d, i) = all[i + 1]
           /\ d.count > 0 => First(d) = all[1] /\ Final(d) = all[d.count]
           /\ \A i \in 0..d.count : \A n \in 0..(d.count - i) : \A part \in {Slice(d, i, n)} :
                 /\ Visit(part) = SubSeq(all, i + 1, i + n)
                 /\ ValidInterval(d, part.left) /\ ValidInterval(d, part.right)
<1> DEFINE B == A(d)
<1>1. Solid(B) /\ Two(B, d) /\ all = VisitOn(B, d) /\ all \in Seq(Values) /\ d.count \in Nat
  BY HeldDeque DEF Visit
<1>2. all = [i \in 1..d.count |-> ValueOf(B, Place(B, d, i - 1))]
  BY <1>1, VisitUnfolds
<1>3. B = A(d)
  OBVIOUS
<1> HIDE DEF B
<1>4. /\ \A i \in 0..(d.count - 1) : NodeAt(d, i).node = Place(B, d, i)
      /\ d.count > 0 => FirstNode(d) = Place(B, d, 0) /\ LastNode(d) = Place(B, d, d.count - 1)
  BY <1>1, <1>3, NodesFound
<1>5. ASSUME NEW i \in 0..(d.count - 1) PROVE ValueOf(B, Place(B, d, i)) = all[i + 1]
  <2>1. i + 1 \in 1..d.count /\ (i + 1) - 1 = i
    BY <1>1
  <2> QED
    BY <1>2, <2>1
<1>6. ASSUME NEW i \in 0..(d.count - 1) PROVE At(d, i) = all[i + 1]
  BY <1>3, <1>4, <1>5 DEF At
<1>7. ASSUME d.count > 0 PROVE First(d) = all[1] /\ Final(d) = all[d.count]
  <2>1. 0 \in 0..(d.count - 1) /\ 0 + 1 = 1 /\ d.count - 1 \in 0..(d.count - 1) /\ (d.count - 1) + 1 = d.count
    BY <1>1, <1>7
  <2>2. ValueOf(B, Place(B, d, 0)) = all[1] /\ ValueOf(B, Place(B, d, d.count - 1)) = all[d.count]
    BY <1>5, <2>1
  <2> QED
    BY <1>3, <1>4, <1>7, <2>2 DEF First, Final
<1>8. ASSUME NEW i \in 0..d.count, NEW n \in 0..(d.count - i)
      PROVE  LET part == Slice(d, i, n) IN
             /\ Visit(part) = SubSeq(all, i + 1, i + n)
             /\ ValidInterval(d, part.left) /\ ValidInterval(d, part.right)
  <2> DEFINE part == Slice(d, i, n)
  <2>1. Cut(B, d, i, n, part)
    BY <1>1, <1>3, SliceCuts
  <2> HIDE DEF part
  <2>2. VisitOn(B, part) = SubSeq(all, i + 1, i + n)
    BY <1>1, <2>1, CutShows
  <2>3. A(part) = B
    BY <1>3, <2>1 DEF Cut, A
  <2>4. ValidInterval(d, part.left) /\ ValidInterval(d, part.right)
    BY <1>1, <1>3, <2>1, SpanValid DEF Cut, Two
  <2> QED
    BY <2>2, <2>3, <2>4 DEF Visit, part
<1> QED
  BY <1>6, <1>7, <1>8

\* What n values from s of an interval of c cost in queries.
Cost(c, s, n) == IF n = 0 THEN 0 ELSE (IF s = 0 THEN 0 ELSE 1) + (IF n = 1 \/ s + n = c THEN 0 ELSE 1)

\* Slicing an interval costs a query for each end that is not cached.
LEMMA PartsCost ==
    ASSUME NEW d, NEW iv, iv.count \in Nat, NEW s \in Nat, NEW n \in Nat
    PROVE  SliceLeft(d, iv, s, n).queries = Cost(iv.count, s, n) /\ SliceRight(d, iv, s, n).queries = Cost(iv.count, s, n)
<1>1. CASE n = 0
  BY <1>1 DEF SliceLeft, SliceRight, NoPart, Cost
<1>2. CASE n # 0 /\ Whole(iv, s, n)
  BY <1>2 DEF SliceLeft, SliceRight, WholePart, Whole, Cost
<1>3. CASE n # 0 /\ ~Whole(iv, s, n)
  <2> DEFINE tail == IF s = 0 THEN Known(iv.tail) ELSE Asked(d, iv.tail, Depth(A(d), iv.tail) - s)
             up == IF n = 1 THEN FoundAgain(tail)
                   ELSE IF s + n = iv.count THEN Known(iv.base)
                   ELSE Asked(d, iv.tail, Depth(A(d), iv.tail) - s - n + 1)
             base == IF s = 0 THEN Known(iv.base) ELSE Asked(d, iv.tail, Depth(A(d), iv.anchor) + s + 1)
             down == IF n = 1 THEN FoundAgain(base)
                     ELSE IF s + n = iv.count THEN Known(iv.tail)
                     ELSE Asked(d, iv.tail, Depth(A(d), iv.anchor) + s + n)
  <2>1. /\ tail.queries = (IF s = 0 THEN 0 ELSE 1) /\ FoundAgain(tail).queries = 0
        /\ base.queries = (IF s = 0 THEN 0 ELSE 1) /\ FoundAgain(base).queries = 0
    BY DEF Known, Asked, FoundAgain
  <2>2. up.queries = (IF n = 1 \/ s + n = iv.count THEN 0 ELSE 1) /\ down.queries = (IF n = 1 \/ s + n = iv.count THEN 0 ELSE 1)
    <3> HIDE DEF tail, base
    <3> QED
      BY <2>1 DEF Known, Asked
  <2>3. SliceLeft(d, iv, s, n).queries = up.queries + tail.queries
    BY <1>3 DEF SliceLeft, LeftFromTail, LeftFromBase, Between
  <2>4. SliceRight(d, iv, s, n).queries = base.queries + down.queries
    BY <1>3 DEF SliceRight, RightFromBase, Between
  <2> HIDE DEF tail, up, base, down
  <2> QED
    BY <1>3, <2>1, <2>2, <2>3, <2>4 DEF Cost
<1> QED
  BY <1>1, <1>2, <1>3

\* What a slice of l and r values costs.
BothCost(l, r, i, n) ==
    IF n \in {0, l + r} THEN 0
    ELSE Cost(l, LeastOf(i, l), LeastOf(i + n, l) - LeastOf(i, l)) + Cost(r, Beyond(i, l), Beyond(i + n, l) - Beyond(i, l))

\* The cost of a slice, and of both halves of a split.
LEMMA CostsBounded ==
    ASSUME NEW l \in Nat, NEW r \in Nat, NEW i \in 0..(l + r)
    PROVE  /\ \A n \in 0..(l + r - i) : BothCost(l, r, i, n) <= 2
           /\ BothCost(l, r, 0, i) + BothCost(l, r, i, l + r - i) <= 2
<1>1. ASSUME NEW n \in 0..(l + r - i) PROVE BothCost(l, r, i, n) <= 2
  <2>1. CASE i + n <= l
    BY <2>1 DEF BothCost, Cost, LeastOf, Beyond
  <2>2. CASE i >= l
    BY <2>2 DEF BothCost, Cost, LeastOf, Beyond
  <2>3. CASE i < l /\ i + n > l
    BY <2>3 DEF BothCost, Cost, LeastOf, Beyond
  <2> QED
    BY <2>1, <2>2, <2>3
<1>2. BothCost(l, r, 0, i) + BothCost(l, r, i, l + r - i) <= 2
  <2>1. CASE i \in {0, l + r}
    BY <2>1 DEF BothCost
  <2>2. CASE i \notin {0, l + r} /\ i <= l
    BY <2>2 DEF BothCost, Cost, LeastOf, Beyond
  <2>3. CASE i \notin {0, l + r} /\ i > l
    BY <2>3 DEF BothCost, Cost, LeastOf, Beyond
  <2> QED
    BY <2>1, <2>2, <2>3
<1> QED
  BY <1>1, <1>2

\* Slicing a deque costs what its two parts cost.
LEMMA SlicesCost ==
    ASSUME NEW B, Solid(B), NEW d, Two(B, d), NEW i \in 0..d.count, NEW n \in 0..(d.count - i)
    PROVE  SliceQueries(d, i, n) = BothCost(d.left.count, d.right.count, i, n)
<1> DEFINE l == d.left.count
           r == d.right.count
           u == LeastOf(i, l)
           v == LeastOf(i + n, l) - LeastOf(i, l)
           f == Beyond(i, l)
           g == Beyond(i + n, l) - Beyond(i, l)
<1>1. l \in Nat /\ r \in Nat /\ d.count = l + r
  BY TwoCounts
<1>2. u \in Nat /\ v \in Nat /\ f \in Nat /\ g \in Nat
  BY <1>1 DEF LeastOf, Beyond
<1>3. SliceLeft(d, d.left, u, v).queries = Cost(l, u, v) /\ SliceRight(d, d.right, f, g).queries = Cost(r, f, g)
  <2> HIDE DEF u, v, f, g
  <2> QED
    BY <1>1, <1>2, PartsCost
<1> QED
  BY <1>1, <1>3 DEF SliceQueries, SlicePartLeft, SlicePartRight, BothCost

\* IntervalsValid for deques of any length on arenas of any size: no mixture of
\* pushes at both ends, removals, slices, splits and reversals leaves a cached
\* base or an anchor that is not on the path of its tail.
THEOREM DequesValid == ASSUME DequeAssumption PROVE DequeSpec => []IntervalsValid
<1>1. ASSUME ContentInv, NEW h \in Held
      PROVE  LET d == hold[h] IN d.count = Count(d) /\ ValidInterval(d, d.left) /\ ValidInterval(d, d.right)
  <2> DEFINE d == hold[h]
             B == A(d)
  <2>1. Solid(B) /\ Two(B, d)
    BY <1>1, HeldDeque
  <2>2. Span(B, d.left) /\ Span(B, d.right) /\ B = A(d) /\ d.count = Count(d)
    BY <2>1, TwoCounts DEF Two, Count
  <2> HIDE DEF B, d
  <2>3. ValidInterval(d, d.left) /\ ValidInterval(d, d.right)
    BY <2>1, <2>2, SpanValid
  <2> QED
    BY <2>2, <2>3 DEF d
<1>2. ContentInv => IntervalsValid
  BY <1>1 DEF IntervalsValid
<1> QED
  BY <1>2, ContentStays, PTL

\* SlicesExact for deques of any length: every index, both ends and every slice
\* read what a traversal reads, whichever cached end points the calls that left
\* the deque reused instead of asking for them.
THEOREM DequesAnswer == ASSUME DequeAssumption PROVE DequeSpec => []SlicesExact
<1>1. ContentInv => SlicesExact
  BY DequeExact DEF SlicesExact
<1> QED
  BY <1>1, ContentStays, PTL

\* DequeKeepsPromise for any handles, arenas and values: deques that share an
\* arena are the independent immutable sequences of PersistentSequence, whatever
\* is pushed below one of them and whichever push fails.
THEOREM DequesIndependent == ASSUME DequeAssumption PROVE DequeSpec => [][DequeKeepsPromise]_arenaVars
<1>1. ContentInv /\ [DequeNext]_arenaVars => [DequeKeepsPromise]_arenaVars
  BY ContentNext
<1> QED
  BY <1>1, ContentStays, PTL DEF DequeSpec

\* QueryCeilings for deques of any length: a slice, and both halves of a split
\* together, ask for two level ancestors at most, as
\* bilateral_ancestral_deque.h:14 states.
THEOREM QueriesBounded == ASSUME DequeAssumption PROVE DequeSpec => []QueryCeilings
<1>1. ASSUME ContentInv, NEW h \in Held, NEW i \in 0..hold[h].count
      PROVE  LET d == hold[h] IN
             /\ \A n \in 0..(d.count - i) : SliceQueries(d, i, n) <= 2
             /\ SliceQueries(d, 0, i) + SliceQueries(d, i, d.count - i) <= 2
  <2> DEFINE d == hold[h]
             B == A(d)
             l == d.left.count
             r == d.right.count
  <2>1. Solid(B) /\ Two(B, d)
    BY <1>1, HeldDeque
  <2>2. l \in Nat /\ r \in Nat /\ d.count = l + r
    BY <2>1, TwoCounts
  <2> HIDE DEF B, d
  <2>3. ASSUME NEW j \in 0..d.count, NEW n \in 0..(d.count - j) PROVE SliceQueries(d, j, n) = BothCost(l, r, j, n)
    BY <2>1, SlicesCost
  <2>4. i \in 0..d.count /\ 0 \in 0..d.count /\ i \in 0..(d.count - 0) /\ d.count - i \in 0..(d.count - i)
    BY <2>2 DEF d
  <2> HIDE DEF l, r
  <2>5. /\ \A n \in 0..(d.count - i) : BothCost(l, r, i, n) <= 2
        /\ BothCost(l, r, 0, i) + BothCost(l, r, i, d.count - i) <= 2
    <3>1. i \in 0..(l + r)
      BY <2>2, <2>4
    <3>2. /\ \A n \in 0..(l + r - i) : BothCost(l, r, i, n) <= 2
          /\ BothCost(l, r, 0, i) + BothCost(l, r, i, l + r - i) <= 2
      BY <2>2, <3>1, CostsBounded
    <3> QED
      BY <2>2, <3>2
  <2>6. \A n \in 0..(d.count - i) : SliceQueries(d, i, n) <= 2
    BY <2>3, <2>4, <2>5
  <2>7. SliceQueries(d, 0, i) + SliceQueries(d, i, d.count - i) <= 2
    BY <2>3, <2>4, <2>5
  <2> QED
    BY <2>6, <2>7 DEF d
<1>2. ContentInv => QueryCeilings
  BY <1>1 DEF QueryCeilings
<1> QED
  BY <1>2, ContentStays, PTL
=============================================================================
