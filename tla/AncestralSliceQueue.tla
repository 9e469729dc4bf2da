------------------------ MODULE AncestralSliceQueue ------------------------
(***************************************************************************)
(* The ancestral slice queue (ancestral_slice_queue.c): a window           *)
(* (tail, low, count) on the path from a node of an ancestor arena to its  *)
(* root.  Only adding writes to the arena; every other call moves a        *)
(* boundary of the window.  Many queues, on branches of their own, share   *)
(* one arena.                                                              *)
(***************************************************************************)
EXTENDS IncrementalAncestor

CONSTANTS MaxSource,  \* values of the longest array a queue is built from
          MaxCount    \* where the count of a queue overflows (SIZE_MAX)

\* What an empty handle shows is no sequence.
QueueAssumption == ArenaAssumption /\ MaxSource \in Nat /\ Unset \notin Seq(Values)

A(q) == arena[q.arena]

EmptyQueue(a) == [arena |-> a, tail |-> Bottom, low |-> 0, count |-> 0]

NodeAt(q, i) ==
    IF i = q.count - 1 THEN q.tail ELSE AncestorAtDepth(A(q), q.tail, q.low + i).node

First(q) == ValueOf(A(q), NodeAt(q, 0))
Final(q) == ValueOf(A(q), q.tail)
At(q, i) == ValueOf(A(q), NodeAt(q, i))

\* The path is captured from the tail upwards before the first value is shown.
VisitOn(a, q) ==
    LET path[i \in 1..q.count] == IF i = q.count THEN q.tail ELSE Parent(a, path[i + 1])
    IN  <<>> \o [i \in 1..q.count |-> ValueOf(a, path[i])]
Visit(q) == VisitOn(A(q), q)

\* The first value leaves, but the window keeps its lower boundary.
WithoutFirstKeepsLow(q) == [q EXCEPT !.count = @ - 1]

WithoutFirst(q) == [q EXCEPT !.low = @ + 1, !.count = @ - 1]

WithoutLast(q) == [q EXCEPT !.tail = Parent(A(q), @), !.count = @ - 1]

\* An empty window too is anchored just above its lower boundary.
Slice(q, i, n) ==
    IF i = 0 /\ n = q.count THEN q
    ELSE [q EXCEPT !.tail = IF i + n = q.count THEN @
                            ELSE AncestorAtDepth(A(q), @, q.low + i + n - 1).node,
                   !.low = @ + i, !.count = n]

Take(q, n) == IF n = q.count THEN q ELSE Slice(q, 0, n)

Drop(q, n) == IF n = 0 THEN q ELSE [q EXCEPT !.low = @ + n, !.count = @ - n]

-----------------------------------------------------------------------------
\* The successor has a reference of its own; an aliased source gives up one.
Publish(s, h, q) ==
    /\ hold' = [hold EXCEPT ![h] = q]
    /\ refs' = [refs EXCEPT ![q.arena] = (@ + 1) - (IF h = s THEN 1 ELSE 0)]

Derive(s, h, q) == MayTarget(s, h) /\ Publish(s, h, q) /\ UNCHANGED arena

InitMyers(h, a) == NewOwner(h, a, EmptyQueue(a))

InitOn(s, h) == s \in Held /\ h \notin Held /\ Derive(s, h, EmptyQueue(hold[s].arena))

FromArray(h, a, values) ==
    /\ h \notin Held /\ arena[a] = NoArena /\ Len(values) < MaxNodes
    /\ \E grown \in {Chain(values)[Len(values)]} :
          /\ hold' = [hold EXCEPT ![h] = [arena |-> a, tail |-> grown.leaf, low |-> 0,
                                          count |-> Len(values)]]
          /\ arena' = [arena EXCEPT ![a] = grown.arena]
          /\ refs' = [refs EXCEPT ![a] = 1]

\* The reference taken for the successor is given back when no leaf is added.
AddLast(s, h, v) ==
    /\ MayTarget(s, h) /\ hold[s].count < MaxCount
    /\ LET q == hold[s] IN
       \E out \in AddLeaf(A(q), q.tail, v) :
          /\ arena' = [arena EXCEPT ![q.arena] = out.arena]
          /\ IF out.leaf = Unset THEN UNCHANGED <<hold, refs>>
             ELSE Publish(s, h, [q EXCEPT !.tail = out.leaf, !.count = @ + 1])

RemoveFirstTo(s, h) == s \in Held /\ hold[s].count > 0 /\ Derive(s, h, WithoutFirst(hold[s]))
RemoveLastTo(s, h) == s \in Held /\ hold[s].count > 0 /\ Derive(s, h, WithoutLast(hold[s]))

TryRemoveFirstTo(s, h) ==
    s \in Held /\ Derive(s, h, IF hold[s].count = 0 THEN hold[s] ELSE WithoutFirst(hold[s]))
TryRemoveLastTo(s, h) ==
    s \in Held /\ Derive(s, h, IF hold[s].count = 0 THEN hold[s] ELSE WithoutLast(hold[s]))

SliceTo(s, h, i, n) == s \in Held /\ i + n <= hold[s].count /\ Derive(s, h, Slice(hold[s], i, n))
TakeTo(s, h, n) == s \in Held /\ n <= hold[s].count /\ Derive(s, h, Take(hold[s], n))
DropTo(s, h, n) == s \in Held /\ n <= hold[s].count /\ Derive(s, h, Drop(hold[s], n))

\* Either half may replace the source, whose reference is given up afterwards.
SplitAt(s, l, r, i) ==
    /\ s \in Held /\ l # r /\ {l, r} \cap Held \subseteq {s} /\ i <= hold[s].count
    /\ LET q == hold[s] IN
       /\ hold' = [hold EXCEPT ![l] = Take(q, i), ![r] = Drop(q, i)]
       /\ refs' = [refs EXCEPT ![q.arena] = (@ + 2) - (IF s \in {l, r} THEN 1 ELSE 0)]
    /\ UNCHANGED arena

QueueNext ==
    \/ \E h \in Handles, a \in Arenas :
          \/ InitMyers(h, a)
          \/ \E n \in 1..MaxSource : \E values \in [1..n -> Values] : FromArray(h, a, values)
    \/ \E s, h \in Handles :
          \/ InitOn(s, h) \/ Copy(s, h) \/ Move(s, h)
          \/ RemoveFirstTo(s, h) \/ RemoveLastTo(s, h) \/ TryRemoveFirstTo(s, h) \/ TryRemoveLastTo(s, h)
          \/ \E v \in Values : AddLast(s, h, v)
          \/ \E n \in 0..MaxCount : TakeTo(s, h, n) \/ DropTo(s, h, n)
          \/ \E i, n \in 0..MaxCount : SliceTo(s, h, i, n)
    \/ \E h \in Handles : Dispose(h)
    \/ \E s, l, r \in Handles, i \in 0..MaxCount : SplitAt(s, l, r, i)

QueueSpec == ArenaInit /\ [][QueueNext]_arenaVars

-----------------------------------------------------------------------------
\* A window is on the path of its tail, ends at it, and stays appendable when
\* it is empty; indexing and visiting agree, and slicing, taking and dropping
\* give the values of the slice, whatever the queue went through before.
WindowsExact ==
    \A h \in Held : \A q \in {hold[h]} : \A all \in {Visit(q)} :
       /\ Depth(A(q), q.tail) = q.low + q.count - 1
       /\ \A i \in 0..(q.count - 1) : At(q, i) = all[i + 1]
       /\ q.count > 0 => First(q) = all[1] /\ Final(q) = all[q.count]
       /\ \A i \in 0..q.count :
             /\ Visit(Take(q, i)) = SubSeq(all, 1, i)
             /\ Visit(Drop(q, i)) = SubSeq(all, i + 1, q.count)
             /\ \A n \in 0..(q.count - i) : Visit(Slice(q, i, n)) = SubSeq(all, i + 1, i + n)

ContentOf(hs, as) ==
    [h \in Handles |-> IF hs[h].arena = Unset THEN Unset ELSE VisitOn(as[hs[h].arena], hs[h])]
Promised == INSTANCE PersistentSequence WITH Cursors <- {}, MaxInsert <- 0, content <- ContentOf(hold, arena)

\* Every call leaves in its result the sequence it promises and leaves every
\* other handle's sequence alone, though they share one arena that grows.
QueueKeepsPromise ==
    \E hs \in {hold'}, as \in {arena'} : Promised!Step(ContentOf(hold, arena), ContentOf(hs, as))

-----------------------------------------------------------------------------
(* The arenas of slice queues.                                             *)

\* Every handle has an arena field, whose arena is owned.
QueueInv == ArenaInv /\ \A h \in Handles : "arena" \in DOMAIN hold[h]

\* A derived window is one of the arena of its source.
LEMMA DerivedOwned ==
    ASSUME ArenaAssumption, QueueInv, NEW s \in Held, NEW h \in Handles, NEW q,
           "arena" \in DOMAIN q, q.arena = hold[s].arena, Derive(s, h, q)
    PROVE  QueueInv'
<1> DEFINE a == q.arena
<1>1. MayTarget(s, h) /\ hold' = [hold EXCEPT ![h] = q]
      /\ refs' = [refs EXCEPT ![a] = (@ + 1) - (IF h = s THEN 1 ELSE 0)] /\ arena' = arena
  BY DEF Derive, Publish
<1>2. a \in Arenas /\ Sized(arena[a]) /\ ArenaInv
  BY OwnedSized DEF QueueInv
<1>3. \E C : Sized(C) /\ arena' = [arena EXCEPT ![q.arena] = C]
  BY <1>1, <1>2 DEF ArenaInv, Kept
<1>4. ArenaInv'
  <2>1. refs' = [refs EXCEPT ![q.arena] = (@ + 1) - (IF h = s THEN 1 ELSE 0)]
    BY <1>1
  <2> QED
    BY <1>1, <1>2, <1>3, <2>1, SuccessorOwned
<1>5. \A k \in Handles : hold'[k] = IF k = h THEN q ELSE hold[k]
  BY <1>1 DEF QueueInv, ArenaInv, Counted
<1> QED
  BY <1>4, <1>5 DEF QueueInv

LEMMA WindowsDerived ==
    ASSUME NEW q, "arena" \in DOMAIN q
    PROVE  /\ \A w \in {WithoutFirst(q), WithoutLast(q)} : "arena" \in DOMAIN w /\ w.arena = q.arena
           /\ \A i, n : LET w == Slice(q, i, n) IN "arena" \in DOMAIN w /\ w.arena = q.arena
           /\ \A n : LET w == Take(q, n) IN "arena" \in DOMAIN w /\ w.arena = q.arena
           /\ \A n : LET w == Drop(q, n) IN "arena" \in DOMAIN w /\ w.arena = q.arena
<1>1. \A w \in {WithoutFirst(q), WithoutLast(q)} : "arena" \in DOMAIN w /\ w.arena = q.arena
  BY DEF WithoutFirst, WithoutLast
<1>2. ASSUME NEW i, NEW n PROVE "arena" \in DOMAIN Slice(q, i, n) /\ Slice(q, i, n).arena = q.arena
  BY DEF Slice
<1>3. ASSUME NEW n PROVE "arena" \in DOMAIN Take(q, n) /\ Take(q, n).arena = q.arena
  BY <1>2 DEF Take
<1>4. ASSUME NEW n PROVE "arena" \in DOMAIN Drop(q, n) /\ Drop(q, n).arena = q.arena
  BY DEF Drop
<1> QED
  BY <1>1, <1>2, <1>3, <1>4

LEMMA FromArrayOwned ==
    ASSUME ArenaAssumption, QueueInv, NEW h \in Handles, NEW a \in Arenas, NEW n \in Nat,
           NEW values \in [1..n -> Values], FromArray(h, a, values)
    PROVE  QueueInv'
<1> DEFINE grown == Chain(values)[Len(values)]
           q == [arena |-> a, tail |-> grown.leaf, low |-> 0, count |-> Len(values)]
<1>1. values \in Seq(Values) /\ Len(values) \in Nat
  OBVIOUS
<1>2. /\ h \notin Held /\ arena[a] = NoArena /\ Len(values) < MaxNodes
      /\ hold' = [hold EXCEPT ![h] = q] /\ arena' = [arena EXCEPT ![a] = grown.arena]
      /\ refs' = [refs EXCEPT ![a] = 1]
  BY DEF FromArray
<1>3. Sized(grown.arena)
  BY <1>1, <1>2, ChainSized
<1>4. q.arena = a /\ "arena" \in DOMAIN q
  OBVIOUS
<1> HIDE DEF grown, q
<1>5. ArenaInv'
  BY <1>2, <1>3, <1>4, OwnerFound DEF QueueInv
<1>6. \A k \in Handles : hold'[k] = IF k = h THEN q ELSE hold[k]
  BY <1>2 DEF QueueInv, ArenaInv, Counted
<1> QED
  BY <1>4, <1>5, <1>6 DEF QueueInv

LEMMA AddLastOwned ==
    ASSUME ArenaAssumption, QueueInv, NEW s \in Handles, NEW h \in Handles, NEW v, AddLast(s, h, v)
    PROVE  QueueInv'
<1> DEFINE q == hold[s]
           a == q.arena
<1>1. MayTarget(s, h) /\ s \in Held
  BY DEF AddLast, MayTarget
<1>2. PICK out \in AddLeaf(arena[a], q.tail, v) :
          /\ arena' = [arena EXCEPT ![a] = out.arena]
          /\ IF out.leaf = Unset THEN UNCHANGED <<hold, refs>>
             ELSE Publish(s, h, [q EXCEPT !.tail = out.leaf, !.count = @ + 1])
  BY DEF AddLast, A
<1>3. a \in Arenas /\ refs[a] \in Nat \ {0} /\ Sized(arena[a]) /\ ArenaInv /\ "arena" \in DOMAIN q
  BY <1>1, OwnedSized DEF QueueInv, Held
<1>4. Sized(out.arena)
  BY <1>3, AddLeafSized
<1>5. CASE out.leaf = Unset
  <2>1. UNCHANGED <<hold, refs>>
    BY <1>2, <1>5
  <2>2. Counted(hold, refs)'
    BY <1>3, <2>1, CountedNext DEF ArenaInv
  <2>3. Kept(arena, refs)'
    BY <1>2, <1>3, <1>4, <2>1 DEF ArenaInv, Kept
  <2> QED
    BY <2>1, <2>2, <2>3 DEF QueueInv, ArenaInv
<1>6. CASE out.leaf # Unset
  <2> DEFINE w == [q EXCEPT !.tail = out.leaf, !.count = @ + 1]
  <2>1. w.arena = a /\ "arena" \in DOMAIN w
    BY <1>3
  <2>2. /\ hold' = [hold EXCEPT ![h] = w]
        /\ refs' = [refs EXCEPT ![w.arena] = (@ + 1) - (IF h = s THEN 1 ELSE 0)]
    BY <1>2, <1>6 DEF Publish
  <2> HIDE DEF w
  <2>3. arena' = [arena EXCEPT ![w.arena] = out.arena]
    BY <1>2, <2>1
  <2>4. ArenaInv'
    BY <1>1, <1>3, <1>4, <2>1, <2>2, <2>3, SuccessorOwned
  <2>5. \A k \in Handles : hold'[k] = IF k = h THEN w ELSE hold[k]
    BY <1>3, <2>2 DEF ArenaInv, Counted
  <2> QED
    BY <2>1, <2>4, <2>5 DEF QueueInv
<1> QED
  BY <1>5, <1>6

LEMMA SplitAtOwned ==
    ASSUME ArenaAssumption, QueueInv, NEW s \in Handles, NEW l \in Handles, NEW r \in Handles, NEW i,
           SplitAt(s, l, r, i)
    PROVE  QueueInv'
<1> DEFINE q == hold[s]
           x == Take(q, i)
           y == Drop(q, i)
<1>1. /\ s \in Held /\ l # r /\ {l, r} \cap Held \subseteq {s} /\ arena' = arena
      /\ hold' = [hold EXCEPT ![l] = x, ![r] = y]
      /\ refs' = [refs EXCEPT ![q.arena] = (@ + 2) - (IF s \in {l, r} THEN 1 ELSE 0)]
  BY DEF SplitAt
<1>2. /\ x.arena = q.arena /\ "arena" \in DOMAIN x
      /\ y.arena = q.arena /\ "arena" \in DOMAIN y
  BY WindowsDerived DEF QueueInv
<1> HIDE DEF x, y
<1>3. ArenaInv'
  BY <1>1, <1>2, HalvesOwned DEF QueueInv
<1>4. \A k \in Handles : hold'[k] \in {x, y, hold[k]}
  BY <1>1 DEF QueueInv, ArenaInv, Counted
<1> QED
  BY <1>2, <1>3, <1>4 DEF QueueInv

\* Every call leaves each arena with as many references as queues on it.
LEMMA QueueNextOwned == ASSUME ArenaAssumption, QueueInv, [QueueNext]_arenaVars PROVE QueueInv'
<1> USE DEF Held
<1>1. ASSUME NEW h \in Handles, NEW a \in Arenas, InitMyers(h, a) PROVE QueueInv'
  <2>1. ArenaInv'
    BY <1>1, OwnerFound, NewArenaSized DEF InitMyers, NewOwner, EmptyQueue, QueueInv
  <2> QED
    BY <1>1, <2>1 DEF InitMyers, NewOwner, EmptyQueue, QueueInv, ArenaInv, Counted
<1>2. ASSUME NEW s \in Handles, NEW h \in Handles, InitOn(s, h) PROVE QueueInv'
  BY <1>2, DerivedOwned DEF InitOn, EmptyQueue
<1>3. ASSUME NEW s \in Handles, NEW h \in Handles, Copy(s, h) PROVE QueueInv'
  BY <1>3, CopyOwned DEF Copy, QueueInv, ArenaInv, Counted
<1>4. ASSUME NEW s \in Handles, NEW h \in Handles, Move(s, h) PROVE QueueInv'
  BY <1>4, MoveOwned DEF Move, QueueInv, ArenaInv, Counted, Nothing
<1>5. ASSUME NEW h \in Handles, Dispose(h) PROVE QueueInv'
  BY <1>5, DisposeOwned DEF Dispose, QueueInv, ArenaInv, Counted, Nothing
<1>6. ASSUME NEW s \in Held, NEW h \in Handles, NEW q, Derive(s, h, q),
             \/ q = hold[s] \/ q \in {WithoutFirst(hold[s]), WithoutLast(hold[s])}
             \/ \E i, n : q = Slice(hold[s], i, n)
             \/ \E n : q = Take(hold[s], n) \/ q = Drop(hold[s], n)
      PROVE QueueInv'
  <2>1. "arena" \in DOMAIN q /\ q.arena = hold[s].arena
    BY <1>6, WindowsDerived DEF QueueInv
  <2> QED
    BY <1>6, <2>1, DerivedOwned
<1>7. ASSUME NEW s \in Handles, NEW h \in Handles,
             \/ RemoveFirstTo(s, h) \/ RemoveLastTo(s, h) \/ TryRemoveFirstTo(s, h) \/ TryRemoveLastTo(s, h)
             \/ \E n \in 0..MaxCount : TakeTo(s, h, n) \/ DropTo(s, h, n)
             \/ \E i, n \in 0..MaxCount : SliceTo(s, h, i, n)
      PROVE  QueueInv'
  <2>1. \E q : /\ s \in Held /\ Derive(s, h, q)
               /\ \/ q = hold[s] \/ q \in {WithoutFirst(hold[s]), WithoutLast(hold[s])}
                  \/ \E i, n : q = Slice(hold[s], i, n)
                  \/ \E n : q = Take(hold[s], n) \/ q = Drop(hold[s], n)
    BY <1>7 DEF RemoveFirstTo, RemoveLastTo, TryRemoveFirstTo, TryRemoveLastTo, TakeTo, DropTo, SliceTo
  <2> QED
    BY <1>6, <2>1
<1>8. CASE UNCHANGED arenaVars
  BY <1>8 DEF arenaVars, QueueInv, ArenaInv, Counted, Kept, Owners
<1>9. ASSUME NEW h \in Handles, NEW a \in Arenas, NEW n \in 1..MaxSource, NEW values \in [1..n -> Values],
             FromArray(h, a, values)
      PROVE  QueueInv'
  <2>1. n \in Nat
    OBVIOUS
  <2> QED
    BY <1>9, <2>1, FromArrayOwned
<1> QED
  BY <1>1, <1>2, <1>3, <1>4, <1>5, <1>7, <1>8, <1>9, AddLastOwned, SplitAtOwned DEF QueueNext

\* ArenaOwned with any queues, on any branches of their arenas: an arena is
\* released with its last queue and not before, whatever calls went through,
\* failed or overwrote their source.
THEOREM QueuesOwnArenas == ASSUME ArenaAssumption PROVE QueueSpec => []ArenaOwned
<1>1. ArenaInit => QueueInv
  BY ArenaInitOwned DEF ArenaInit, QueueInv, Nothing
<1>2. QueueInv /\ [QueueNext]_arenaVars => QueueInv'
  BY QueueNextOwned
<1>3. QueueInv => ArenaOwned
  BY ArenaInvOwned DEF QueueInv
<1> QED
  BY <1>1, <1>2, <1>3, PTL DEF QueueSpec

-----------------------------------------------------------------------------
(* What slice queues hold.                                                 *)

\* A window on arena B: its tail is a node of B, as deep as the window's lower
\* boundary and its count say.
Window(B, q) ==
    /\ q = [arena |-> q.arena, tail |-> q.tail, low |-> q.low, count |-> q.count]
    /\ q.low \in Nat /\ q.count \in Nat /\ q.tail \in Nodes(B)
    /\ Depth(B, q.tail) = q.low + q.count - 1

\* The part of a window from index i with n values.
Spot(B, q, i) == ByParents(B, q.tail, q.low + i)
Part(B, q, i, n) == [arena |-> q.arena, tail |-> Spot(B, q, i + n - 1), low |-> q.low + i, count |-> n]

Solid(B) == Made(B) /\ B.count \in Nat \ {0}

\* A step down the window is a step to the parent of its node.
LEMMA SpotsClimb ==
    ASSUME NEW B, Solid(B), NEW q, Window(B, q), NEW i \in -1..(q.count - 1)
    PROVE  /\ Spot(B, q, i) \in Nodes(B) /\ Depth(B, Spot(B, q, i)) = q.low + i
           /\ i = q.count - 1 => Spot(B, q, i) = q.tail
           /\ i >= 0 => Parent(B, Spot(B, q, i)) = Spot(B, q, i - 1)
<1> DEFINE d == q.low + i
<1>1. d \in -1..Depth(B, q.tail) /\ q.tail \in Nodes(B) /\ Made(B) /\ B.count \in Nat \ {0}
  BY DEF Window, Solid
<1>2. /\ ByParents(B, q.tail, d) \in Nodes(B) /\ Depth(B, ByParents(B, q.tail, d)) = d
      /\ d >= 0 => Parent(B, ByParents(B, q.tail, d)) = ByParents(B, q.tail, d - 1)
  <2> HIDE DEF d
  <2> QED
    BY <1>1, PathsClimb
<1>3. ByParents(B, q.tail, Depth(B, q.tail)) = q.tail
  BY <1>1, OnPath
<1>4. i = q.count - 1 => d = Depth(B, q.tail)
  BY DEF Window
<1>5. i >= 0 => d >= 0 /\ d - 1 = q.low + (i - 1)
  BY DEF Window
<1> QED
  BY <1>2, <1>3, <1>4, <1>5 DEF Spot

\* Visiting shows the values on the path, from the lower boundary to the tail.
LEMMA VisitUnfolds ==
    ASSUME NEW B, Solid(B), NEW q, Window(B, q)
    PROVE  VisitOn(B, q) = [i \in 1..q.count |-> ValueOf(B, Spot(B, q, i - 1))]
<1> DEFINE n == q.count
           Path(path) == path = [i \in 1..n |-> IF i = n THEN q.tail ELSE Parent(B, path[i + 1])]
           path == CHOOSE p : Path(p)
           spots == [i \in 1..n |-> Spot(B, q, i - 1)]
<1>0. n \in Nat
  BY DEF Window
<1>1. Path(spots)
  <2>1. ASSUME NEW i \in 1..n PROVE spots[i] = IF i = n THEN q.tail ELSE Parent(B, spots[i + 1])
    <3>1. CASE i = n
      <4>1. i - 1 \in -1..(q.count - 1) /\ i - 1 = q.count - 1
        BY <1>0, <3>1
      <4> QED
        BY <3>1, <4>1, SpotsClimb
    <3>2. CASE i # n
      <4>1. i \in -1..(q.count - 1) /\ i >= 0 /\ i + 1 \in 1..n /\ (i + 1) - 1 = i
        BY <1>0, <3>2
      <4>2. Parent(B, Spot(B, q, i)) = Spot(B, q, i - 1)
        BY <4>1, SpotsClimb
      <4> QED
        BY <3>2, <4>1, <4>2
    <3> QED
      BY <3>1, <3>2
  <2> DEFINE sol == [i \in 1..n |-> IF i = n THEN q.tail ELSE Parent(B, spots[i + 1])]
  <2>2. spots = sol
    <3>1. \A i \in 1..n : spots[i] = sol[i]
      BY <2>1
    <3>2. spots = [i \in 1..n |-> spots[i]] /\ sol = [i \in 1..n |-> sol[i]]
      OBVIOUS
    <3> HIDE DEF spots, sol
    <3> QED
      BY <3>1, <3>2
  <2> QED
    BY <2>2
<1>2. Path(path)
  <2> HIDE DEF spots
  <2> QED
    BY <1>1
<1>3. VisitOn(B, q) = <<>> \o [i \in 1..n |-> ValueOf(B, path[i])]
  BY DEF VisitOn
<1> HIDE DEF path, spots
<1>4. \A i \in 1..n : path[i] = IF i = n THEN q.tail ELSE Parent(B, path[i + 1])
  BY <1>2
<1> DEFINE Good(k) == k < n => path[n - k] = spots[n - k]
           T == {k \in Nat : Good(k)}
<1>5. \A i \in 1..n : spots[i] = IF i = n THEN q.tail ELSE Parent(B, spots[i + 1])
  BY <1>1
<1>6. Nat \subseteq T
  <2>1. Good(0)
    BY <1>0, <1>4, <1>5
  <2>2. ASSUME NEW k \in Nat, Good(k) PROVE Good(k + 1)
    <3>1. CASE k + 1 < n
      <4>1. n - (k + 1) \in 1..n /\ n - (k + 1) # n /\ (n - (k + 1)) + 1 = n - k /\ k < n
        BY <1>0, <3>1
      <4> QED
        BY <1>4, <1>5, <2>2, <4>1
    <3> QED
      BY <3>1
  <2>3. 0 \in T /\ \A k \in Nat : k \in T => k + 1 \in T
    BY <2>1, <2>2
  <2> HIDE DEF T
  <2> QED
    BY <2>3, AllNumbers
<1>7. ASSUME NEW i \in 1..n PROVE path[i] = spots[i]
  <2>1. n - i \in Nat /\ n - i < n /\ n - (n - i) = i
    BY <1>0
  <2>2. Good(n - i)
    BY <1>6, <2>1
  <2> QED
    BY <2>1, <2>2
<1>8. \A i \in 1..n : ValueOf(B, path[i]) = ValueOf(B, Spot(B, q, i - 1))
  BY <1>7 DEF spots
<1> DEFINE f == [i \in 1..n |-> ValueOf(B, path[i])]
           g == [i \in 1..n |-> ValueOf(B, Spot(B, q, i - 1))]
<1>9. f = g
  BY <1>8
<1>10. <<>> \o g = g
  <2> DEFINE S == {g[i] : i \in 1..n}
  <2>1. g \in [1..n -> S]
    OBVIOUS
  <2> HIDE DEF g, S
  <2>2. g \in Seq(S)
    BY <1>0, <2>1, SeqDef
  <2> QED
    BY <2>2, ConcatEmptySeq
<1> QED
  BY <1>3, <1>9, <1>10

\* What a window shows has as many values as the window counts.
LEMMA ContentLength ==
    ASSUME NEW B, Solid(B), NEW q, Window(B, q)
    PROVE  Len(VisitOn(B, q)) = q.count /\ q.count \in Nat
BY VisitUnfolds DEF Window

\* A part of a window is a window, and shows that part of the values.
LEMMA PartOfWindow ==
    ASSUME NEW B, Solid(B), NEW q, Window(B, q), NEW i \in 0..q.count, NEW n \in 0..(q.count - i)
    PROVE  /\ Window(B, Part(B, q, i, n))
           /\ VisitOn(B, Part(B, q, i, n)) = SubSeq(VisitOn(B, q), i + 1, i + n)
<1> DEFINE w == Part(B, q, i, n)
<1>0. /\ q.low \in Nat /\ q.count \in Nat /\ q.tail \in Nodes(B) /\ Depth(B, q.tail) = q.low + q.count - 1
      /\ Made(B) /\ B.count \in Nat \ {0}
  BY DEF Window, Solid
<1>1. w = [arena |-> w.arena, tail |-> w.tail, low |-> w.low, count |-> w.count]
      /\ w.low = q.low + i /\ w.count = n /\ w.tail = Spot(B, q, i + n - 1)
  BY DEF Part
<1>2. i + n - 1 \in -1..(q.count - 1) /\ q.low + (i + n - 1) = w.low + w.count - 1
      /\ w.low \in Nat /\ w.count \in Nat
  BY <1>0, <1>1
<1> HIDE DEF w
<1>3. w.tail \in Nodes(B) /\ Depth(B, w.tail) = w.low + w.count - 1
  <2>1. w.tail \in Nodes(B) /\ Depth(B, w.tail) = q.low + (i + n - 1)
    BY <1>1, <1>2, SpotsClimb
  <2> QED
    BY <1>2, <2>1
<1>4. Window(B, w)
  BY <1>1, <1>2, <1>3 DEF Window
<1>5. ASSUME NEW j \in 1..n PROVE Spot(B, w, j - 1) = Spot(B, q, (i + j) - 1)
  <2> DEFINE e == q.low + (i + n - 1)
             d == q.low + ((i + j) - 1)
  <2>1. e \in -1..Depth(B, q.tail) /\ d \in -1..e /\ w.low + (j - 1) = d
    BY <1>0, <1>1
  <2>2. ByParents(B, ByParents(B, q.tail, e), d) = ByParents(B, q.tail, d)
    <3> HIDE DEF d, e
    <3> QED
      BY <1>0, <2>1, PathsCompose
  <2> QED
    BY <1>1, <2>1, <2>2 DEF Spot
<1> DEFINE all == VisitOn(B, q)
           sub == VisitOn(B, w)
           S == {ValueOf(B, m) : m \in Nodes(B)}
<1>6. all = [j \in 1..q.count |-> ValueOf(B, Spot(B, q, j - 1))]
  BY VisitUnfolds
<1>7. sub = [j \in 1..n |-> ValueOf(B, Spot(B, w, j - 1))]
  BY <1>1, <1>4, VisitUnfolds
<1>8. \A j \in 1..q.count : all[j] \in S
  <2>1. ASSUME NEW j \in 1..q.count PROVE Spot(B, q, j - 1) \in Nodes(B)
    <3>1. j - 1 \in -1..(q.count - 1)
      BY <1>0
    <3> QED
      BY <3>1, SpotsClimb
  <2> QED
    BY <1>6, <2>1
<1>9. ASSUME NEW j \in 1..n PROVE sub[j] = all[i + j] /\ i + j \in 1..q.count
  <2>1. i + j \in 1..q.count
    BY <1>0
  <2> QED
    BY <1>5, <1>6, <1>7, <2>1
<1> HIDE DEF all, sub, S
<1>10. sub \in Seq(S) /\ Len(sub) = n
  <2>1. sub \in [1..n -> S]
    BY <1>7, <1>8, <1>9
  <2>2. n \in Nat
    OBVIOUS
  <2> QED
    BY <2>1, <2>2, SeqDef
<1> DEFINE t == SubSeq(all, i + 1, i + n)
<1>11. /\ t \in Seq(S) /\ Len(t) = n
       /\ \A j \in 1..n : t[j] = all[i + j]
  <2>1. \A j \in (i + 1)..(i + n) : all[j] \in S
    <3>1. \A j \in (i + 1)..(i + n) : j \in 1..q.count
      BY <1>0
    <3> QED
      BY <1>8, <3>1
  <2>2. i + 1 \in Int /\ i + n \in Int
    OBVIOUS
  <2>3. /\ t \in Seq(S)
        /\ Len(t) = IF i + 1 <= i + n THEN (i + n) - (i + 1) + 1 ELSE 0
        /\ \A j \in 1..((i + n) - (i + 1) + 1) : t[j] = all[(i + 1) + j - 1]
    <3> HIDE DEF t
    <3> DEFINE a == i + 1
               b == i + n
    <3>1. a \in Int /\ b \in Int /\ \A j \in a..b : all[j] \in S
      BY <2>1
    <3> HIDE DEF a, b
    <3>2. /\ SubSeq(all, a, b) \in Seq(S)
          /\ Len(SubSeq(all, a, b)) = IF a <= b THEN b - a + 1 ELSE 0
          /\ \A j \in 1..(b - a + 1) : SubSeq(all, a, b)[j] = all[a + j - 1]
      BY <3>1, SubSeqProperties
    <3> QED
      BY <3>2 DEF a, b, t
  <2> HIDE DEF t
  <2>4. (i + n) - (i + 1) + 1 = n /\ (i + 1 <= i + n <=> n # 0) /\ \A j \in 1..n : (i + 1) + j - 1 = i + j
    OBVIOUS
  <2> QED
    BY <2>3, <2>4
<1> HIDE DEF t
<1>12. sub = t
  BY <1>9, <1>10, <1>11, SeqEqual
<1> QED
  BY <1>4, <1>12 DEF sub, t, all, w

\* A changed window, field by field (slice_queue_t is copied and its fields assigned).
LEMMA WindowChanges ==
    ASSUME NEW q, q = [arena |-> q.arena, tail |-> q.tail, low |-> q.low, count |-> q.count]
    PROVE  /\ \A l, n : [q EXCEPT !.low = l, !.count = n] = [arena |-> q.arena, tail |-> q.tail, low |-> l, count |-> n]
           /\ \A m, n : [q EXCEPT !.tail = m, !.count = n] = [arena |-> q.arena, tail |-> m, low |-> q.low, count |-> n]
           /\ \A m, l, n : [q EXCEPT !.tail = m, !.low = l, !.count = n] = [arena |-> q.arena, tail |-> m, low |-> l, count |-> n]
<1>1. PICK a, b, c, d : q = [arena |-> a, tail |-> b, low |-> c, count |-> d]
  OBVIOUS
<1>2. a = q.arena /\ b = q.tail /\ c = q.low /\ d = q.count
  BY <1>1
<1> DEFINE x(l) == [arena |-> a, tail |-> b, low |-> l, count |-> d]
           y(m) == [arena |-> a, tail |-> m, low |-> c, count |-> d]
           z(m, l) == [arena |-> a, tail |-> m, low |-> l, count |-> d]
<1>3. ASSUME NEW l, NEW n
      PROVE  [q EXCEPT !.low = l, !.count = n] = [arena |-> q.arena, tail |-> q.tail, low |-> l, count |-> n]
  <2>1. [q EXCEPT !.low = l] = x(l)
    BY <1>1
  <2>2. [x(l) EXCEPT !.count = n] = [arena |-> a, tail |-> b, low |-> l, count |-> n]
    OBVIOUS
  <2> QED
    BY ONLY <1>2, <2>1, <2>2
<1>4. ASSUME NEW m, NEW n
      PROVE  [q EXCEPT !.tail = m, !.count = n] = [arena |-> q.arena, tail |-> m, low |-> q.low, count |-> n]
  <2>1. [q EXCEPT !.tail = m] = y(m)
    BY <1>1
  <2>2. [y(m) EXCEPT !.count = n] = [arena |-> a, tail |-> m, low |-> c, count |-> n]
    OBVIOUS
  <2> QED
    BY ONLY <1>2, <2>1, <2>2
<1>5. ASSUME NEW m, NEW l, NEW n
      PROVE  [q EXCEPT !.tail = m, !.low = l, !.count = n] = [arena |-> q.arena, tail |-> m, low |-> l, count |-> n]
  <2>1. [q EXCEPT !.tail = m] = y(m)
    BY <1>1
  <2>2. [y(m) EXCEPT !.low = l] = z(m, l)
    OBVIOUS
  <2>3. [z(m, l) EXCEPT !.count = n] = [arena |-> a, tail |-> m, low |-> l, count |-> n]
    OBVIOUS
  <2> QED
    BY ONLY <1>2, <2>1, <2>2, <2>3
<1> QED
  BY ONLY <1>2, <1>3, <1>4, <1>5

\* What calls cut out of a window are parts of it.
LEMMA CallsCutParts ==
    ASSUME NEW q, LET B == A(q) IN Solid(B) /\ Window(B, q)
    PROVE  /\ q = Part(A(q), q, 0, q.count)
           /\ q.count > 0 => WithoutFirst(q) = Part(A(q), q, 1, q.count - 1)
           /\ q.count > 0 => WithoutLast(q) = Part(A(q), q, 0, q.count - 1)
           /\ \A i \in 0..q.count : \A n \in 0..(q.count - i) : Slice(q, i, n) = Part(A(q), q, i, n)
           /\ \A n \in 0..q.count : Take(q, n) = Part(A(q), q, 0, n) /\ Drop(q, n) = Part(A(q), q, n, q.count - n)
<1> DEFINE B == A(q)
<1>0. /\ Solid(B) /\ Window(B, q)
      /\ q = [arena |-> q.arena, tail |-> q.tail, low |-> q.low, count |-> q.count]
      /\ q.low \in Nat /\ q.count \in Nat /\ q.tail \in Nodes(B) /\ Depth(B, q.tail) = q.low + q.count - 1
  BY DEF Window
<1>1. Spot(B, q, q.count - 1) = q.tail
  <2>1. q.count - 1 \in -1..(q.count - 1)
    BY <1>0
  <2> QED
    BY <1>0, <2>1, SpotsClimb
<1> HIDE DEF B
<1>2. q = [arena |-> q.arena, tail |-> q.tail, low |-> q.low, count |-> q.count]
  BY <1>0
<1>3. /\ \A l, c : [q EXCEPT !.low = l, !.count = c] = [arena |-> q.arena, tail |-> q.tail, low |-> l, count |-> c]
      /\ \A m, c : [q EXCEPT !.tail = m, !.count = c] = [arena |-> q.arena, tail |-> m, low |-> q.low, count |-> c]
  BY ONLY <1>2, WindowChanges
<1>4. /\ q = Part(B, q, 0, q.count)
      /\ \A n \in 0..q.count : Drop(q, n) = Part(B, q, n, q.count - n)
  <2>1. ASSUME NEW n \in 0..q.count PROVE Drop(q, n) = Part(B, q, n, q.count - n)
    <3>1. n + (q.count - n) - 1 = q.count - 1
      BY <1>0
    <3>2. Part(B, q, n, q.count - n) = [arena |-> q.arena, tail |-> q.tail, low |-> q.low + n, count |-> q.count - n]
      BY <1>1, <3>1 DEF Part
    <3>3. Drop(q, n) = [arena |-> q.arena, tail |-> q.tail, low |-> q.low + n, count |-> q.count - n]
      <4>1. CASE n = 0
        BY <1>0, <4>1 DEF Drop
      <4>2. CASE n # 0
        <5>1. Drop(q, n) = [q EXCEPT !.low = q.low + n, !.count = q.count - n]
          BY <4>2 DEF Drop
        <5> QED
          BY <1>3, <5>1
      <4> QED
        BY <4>1, <4>2
    <3> QED
      BY <3>2, <3>3
  <2>2. Drop(q, 0) = q /\ 0 \in 0..q.count /\ q.count - 0 = q.count
    BY <1>0 DEF Drop
  <2> QED
    BY <2>1, <2>2
<1>5. ASSUME q.count > 0 PROVE WithoutFirst(q) = Part(B, q, 1, q.count - 1)
  <2>1. WithoutFirst(q) = Drop(q, 1) /\ 1 \in 0..q.count
    BY <1>0, <1>5 DEF WithoutFirst, Drop
  <2> QED
    BY <1>4, <2>1
<1>6. ASSUME q.count > 0 PROVE WithoutLast(q) = Part(B, q, 0, q.count - 1)
  <2>1. Parent(B, q.tail) = Spot(B, q, (q.count - 1) - 1)
    <3>1. q.count - 1 \in -1..(q.count - 1) /\ q.count - 1 >= 0
      BY <1>0, <1>6
    <3> QED
      BY <1>0, <1>1, <3>1, SpotsClimb
  <2>2. 0 + (q.count - 1) - 1 = (q.count - 1) - 1 /\ q.low + 0 = q.low
    BY <1>0
  <2>3. Part(B, q, 0, q.count - 1) = [arena |-> q.arena, tail |-> Parent(B, q.tail), low |-> q.low, count |-> q.count - 1]
    <3>1. Spot(B, q, 0 + (q.count - 1) - 1) = Parent(B, q.tail)
      BY <2>1, <2>2
    <3> QED
      BY <2>2, <3>1 DEF Part
  <2>4. WithoutLast(q) = [arena |-> q.arena, tail |-> Parent(B, q.tail), low |-> q.low, count |-> q.count - 1]
    <3>1. WithoutLast(q) = [q EXCEPT !.tail = Parent(B, q.tail), !.count = q.count - 1]
      BY DEF WithoutLast, B
    <3> QED
      BY <1>3, <3>1
  <2> QED
    BY <2>3, <2>4
<1>7. ASSUME NEW i \in 0..q.count, NEW n \in 0..(q.count - i) PROVE Slice(q, i, n) = Part(B, q, i, n)
  <2>1. CASE i = 0 /\ n = q.count
    BY <1>4, <2>1 DEF Slice
  <2>2. CASE ~(i = 0 /\ n = q.count)
    <3> DEFINE tail == IF i + n = q.count THEN q.tail ELSE AncestorAtDepth(B, q.tail, q.low + i + n - 1).node
    <3>1. Slice(q, i, n) = [arena |-> q.arena, tail |-> tail, low |-> q.low + i, count |-> n]
      BY <1>0, <2>2 DEF Slice, B
    <3>2. tail = Spot(B, q, i + n - 1)
      <4>1. CASE i + n = q.count
        BY <1>1, <4>1
      <4>2. CASE i + n # q.count
        <5> DEFINE d == q.low + (i + n - 1)
        <5>1. q.low + i + n - 1 = d /\ d \in -1..Depth(B, q.tail)
          BY <1>0, <4>2
        <5>2. AncestorAtDepth(B, q.tail, d).node = ByParents(B, q.tail, d)
          <6> HIDE DEF d
          <6> QED
            BY <1>0, <5>1, HopsFind DEF Solid
        <5> QED
          BY <4>2, <5>1, <5>2 DEF Spot
      <4> QED
        BY <4>1, <4>2
    <3> QED
      BY <3>1, <3>2 DEF Part
  <2> QED
    BY <2>1, <2>2
<1>8. ASSUME NEW n \in 0..q.count PROVE Take(q, n) = Part(B, q, 0, n)
  <2>1. CASE n = q.count
    BY <1>4, <2>1 DEF Take
  <2>2. CASE n # q.count
    <3>1. 0 \in 0..q.count /\ n \in 0..(q.count - 0)
      BY <1>0
    <3> QED
      BY <1>7, <2>2, <3>1 DEF Take
  <2> QED
    BY <2>1, <2>2
<1> QED
  BY <1>4, <1>5, <1>6, <1>7, <1>8 DEF B

\* Adding to an arena leaves its windows and what they show as they were.
LEMMA WindowStays ==
    ASSUME NEW B, Solid(B), NEW C, Solid(C), Adds(B, C), NEW q, Window(B, q)
    PROVE  Window(C, q) /\ VisitOn(C, q) = VisitOn(B, q)
<1>0. /\ Made(B) /\ B.count \in Nat \ {0} /\ Made(C) /\ C.count \in Nat /\ C.count >= B.count /\ SameSlots(B, C)
      /\ q.low \in Nat /\ q.count \in Nat /\ q.tail \in Nodes(B) /\ Depth(B, q.tail) = q.low + q.count - 1
  BY DEF Window, Solid, Adds
<1>1. /\ q.tail \in Nodes(C) /\ Depth(C, q.tail) = Depth(B, q.tail)
      /\ \A d \in -1..Depth(B, q.tail) : ByParents(C, q.tail, d) = ByParents(B, q.tail, d)
  BY <1>0, PathsKept
<1>2. Window(C, q)
  BY <1>0, <1>1 DEF Window
<1>3. ASSUME NEW i \in 1..q.count PROVE ValueOf(C, Spot(C, q, i - 1)) = ValueOf(B, Spot(B, q, i - 1))
  <2>1. q.low + (i - 1) \in -1..Depth(B, q.tail) /\ i - 1 \in -1..(q.count - 1)
    BY <1>0
  <2>2. Spot(C, q, i - 1) = Spot(B, q, i - 1)
    BY <1>1, <2>1 DEF Spot
  <2>3. Spot(B, q, i - 1) \in Nodes(B)
    BY <2>1, SpotsClimb
  <2> QED
    BY <1>0, <2>2, <2>3, PathsKept
<1>4. /\ VisitOn(C, q) = [i \in 1..q.count |-> ValueOf(C, Spot(C, q, i - 1))]
      /\ VisitOn(B, q) = [i \in 1..q.count |-> ValueOf(B, Spot(B, q, i - 1))]
  BY <1>2, VisitUnfolds
<1> QED
  BY <1>2, <1>3, <1>4

\* A window and a new leaf below its tail make a window with one value more.
Longer(q, leaf) == [q EXCEPT !.tail = leaf, !.count = @ + 1]

\* A window whose tail got a leaf shows what it showed and the leaf's value.
LEMMA WindowGrows ==
    ASSUME ArenaAssumption, NEW B, Stored(B), Made(B), NEW q, Window(B, q), NEW v,
           NEW out \in AddLeaf(B, q.tail, v), out.leaf # Unset
    PROVE  /\ Window(out.arena, Longer(q, out.leaf)) /\ Longer(q, out.leaf).arena = q.arena
           /\ VisitOn(out.arena, Longer(q, out.leaf)) = Append(VisitOn(B, q), v)
<1> DEFINE w == Longer(q, out.leaf)
           C == out.arena
<1>0. /\ q = [arena |-> q.arena, tail |-> q.tail, low |-> q.low, count |-> q.count]
      /\ q.low \in Nat /\ q.count \in Nat /\ q.tail \in Nodes(B) /\ Depth(B, q.tail) = q.low + q.count - 1
      /\ B.count \in Nat \ {0}
  BY DEF Window, Stored
<1>1. /\ Stored(C) /\ Made(C) /\ SameSlots(B, C) /\ out.leaf = B.count /\ C.count = B.count + 1
      /\ Parent(C, out.leaf) = q.tail /\ ValueOf(C, out.leaf) = v
  BY <1>0, AddLeafMakes
<1>2. Solid(B) /\ Solid(C) /\ Adds(B, C)
  BY <1>0, <1>1 DEF Solid, Adds
<1>3. w = [arena |-> q.arena, tail |-> out.leaf, low |-> q.low, count |-> q.count + 1]
  BY <1>0, WindowChanges DEF Longer
<1> HIDE DEF C, w
<1>4. Window(C, q) /\ VisitOn(C, q) = VisitOn(B, q)
  BY <1>2, WindowStays
<1>5. out.leaf \in Nodes(C) /\ out.leaf # Bottom
  BY <1>0, <1>1 DEF Nodes, Bottom
<1>6. Depth(C, out.leaf) = Depth(C, q.tail) + 1 /\ Depth(C, q.tail) = q.low + q.count - 1
  <2>1. Depth(C, q.tail) = Depth(C, out.leaf) - 1 /\ Depth(C, out.leaf) \in Nat
    BY <1>1, <1>2, <1>5, ParentOf DEF Solid
  <2> QED
    BY <1>4, <2>1 DEF Window
<1>7. Window(C, w)
  <2>1. w.low = q.low /\ w.count = q.count + 1 /\ w.tail = out.leaf /\ w.arena = q.arena
    BY <1>3
  <2> QED
    BY <1>0, <1>3, <1>5, <1>6, <2>1 DEF Window
<1>8. ASSUME NEW i \in 1..q.count PROVE Spot(C, w, i - 1) = Spot(C, q, i - 1)
  <2> DEFINE d == q.low + (i - 1)
  <2>1. d \in -1..(Depth(C, out.leaf) - 1)
    BY <1>0, <1>6
  <2>2. ByParents(C, out.leaf, d) = ByParents(C, q.tail, d)
    <3> HIDE DEF d
    <3>1. \A e \in -1..(Depth(C, out.leaf) - 1) : ByParents(C, out.leaf, e) = ByParents(C, q.tail, e)
      BY <1>1, <1>2, <1>5, OnPath DEF Solid
    <3> QED
      BY <2>1, <3>1
  <2> QED
    BY <1>3, <2>2 DEF Spot
<1>9. Spot(C, w, (q.count + 1) - 1) = out.leaf
  <2>1. (q.count + 1) - 1 \in -1..(w.count - 1) /\ (q.count + 1) - 1 = w.count - 1
    BY <1>0, <1>3
  <2> QED
    BY <1>2, <1>3, <1>7, <2>1, SpotsClimb
<1> DEFINE old == VisitOn(C, q)
           new == VisitOn(C, w)
<1>10. old = [i \in 1..q.count |-> ValueOf(C, Spot(C, q, i - 1))]
  BY <1>2, <1>4, VisitUnfolds
<1>11. new = [i \in 1..(q.count + 1) |-> ValueOf(C, Spot(C, w, i - 1))]
  <2>1. w.count = q.count + 1
    BY <1>3
  <2> QED
    BY <1>2, <1>7, <2>1, VisitUnfolds
<1> HIDE DEF old, new
<1>12. new = [i \in 1..(q.count + 1) |-> IF i = q.count + 1 THEN v ELSE old[i]]
  <2>1. ASSUME NEW i \in 1..(q.count + 1)
        PROVE  ValueOf(C, Spot(C, w, i - 1)) = IF i = q.count + 1 THEN v ELSE old[i]
    <3>1. CASE i = q.count + 1
      BY <1>1, <1>9, <3>1
    <3>2. CASE i # q.count + 1
      <4>1. i \in 1..q.count
        BY <1>0, <3>2
      <4> QED
        BY <1>8, <1>10, <3>2, <4>1
    <3> QED
      BY <3>1, <3>2
  <2> QED
    BY <1>11, <2>1
<1>13. Len(old) = q.count
  BY <1>0, <1>10
<1>14. new = Append(old, v)
  <2>1. Append(old, v) = [i \in 1..(Len(old) + 1) |-> IF i = Len(old) + 1 THEN v ELSE old[i]]
    BY <1>0, <1>10, <1>13
  <2> QED
    BY <1>12, <1>13, <2>1
<1> QED
  BY <1>3, <1>4, <1>7, <1>14 DEF C, w, old, new

\* A queue built from an array shows the array.
LEMMA WindowOfArray ==
    ASSUME ArenaAssumption, NEW n \in Nat, n < MaxNodes, NEW S, NEW values \in [1..n -> S], NEW q,
           q = [arena |-> q.arena, tail |-> Chain(values)[n].leaf, low |-> 0, count |-> n]
    PROVE  LET C == Chain(values)[n].arena IN
           Stored(C) /\ Made(C) /\ Window(C, q) /\ VisitOn(C, q) = values
<1> DEFINE C == Chain(values)[n].arena
<1>1. Len(values) = n /\ n \in 0..Len(values) /\ values = [i \in 1..n |-> values[i]]
  OBVIOUS
<1>2. /\ Stored(C) /\ Made(C) /\ Line(C, n) /\ Chain(values)[n].leaf = n
      /\ \A j \in 1..n : ValueOf(C, j) = values[j]
  BY <1>1, ChainMade
<1>3. q.arena = q.arena /\ q.tail = n /\ q.low = 0 /\ q.count = n
  BY <1>2
<1> HIDE DEF C
<1>4. Solid(C) /\ C.count \in Nat \ {0}
  BY <1>2 DEF Solid, Stored
<1>5. ASSUME NEW d \in -1..(n - 1) PROVE n \in Nodes(C) /\ Depth(C, n) = n - 1 /\ ByParents(C, n, d) = d + 1
  BY <1>2, LinePath
<1>6. Window(C, q)
  <2>1. -1 \in -1..(n - 1) /\ 0 + n - 1 = n - 1
    OBVIOUS
  <2> QED
    BY <1>2, <1>3, <1>5, <2>1 DEF Window
<1>7. ASSUME NEW i \in 1..n PROVE ValueOf(C, Spot(C, q, i - 1)) = values[i]
  <2>1. 0 + (i - 1) \in -1..(n - 1) /\ (0 + (i - 1)) + 1 = i
    OBVIOUS
  <2>2. Spot(C, q, i - 1) = i
    BY <1>3, <1>5, <2>1 DEF Spot
  <2> QED
    BY <1>2, <2>2
<1>8. VisitOn(C, q) = values
  BY <1>1, <1>3, <1>4, <1>6, <1>7, VisitUnfolds
<1> QED
  BY <1>2, <1>6, <1>8 DEF C

\* An empty window shows the empty sequence.
LEMMA EmptyWindow ==
    ASSUME NEW B, Solid(B), NEW a
    PROVE  Window(B, EmptyQueue(a)) /\ VisitOn(B, EmptyQueue(a)) = <<>>
<1> DEFINE q == EmptyQueue(a)
<1>1. q = [arena |-> a, tail |-> Bottom, low |-> 0, count |-> 0]
  BY DEF EmptyQueue
<1>2. Bottom \in Nodes(B) /\ Depth(B, Bottom) = -1
  <2>1. Bottom \in Nodes(B)
    BY DEF Solid, Nodes, Bottom
  <2> QED
    BY <2>1, NodeRanges DEF Solid
<1>3. Window(B, q)
  BY <1>1, <1>2 DEF Window
<1> HIDE DEF q
<1>4. VisitOn(B, q) = [i \in 1..0 |-> ValueOf(B, Spot(B, q, i - 1))]
  BY <1>1, <1>3, VisitUnfolds
<1> QED
  BY <1>3, <1>4 DEF q

\* What a handle holds is nothing or a window on an arena that shows values.
Sound(as, x) ==
    x.arena # Unset => Window(as[x.arena], x) /\ VisitOn(as[x.arena], x) \in Seq(Values)

ContentInv == QueueInv /\ NodesInv /\ \A h \in Handles : Sound(arena, hold[h])

\* A live handle holds a window of its arena.
LEMMA HeldWindow ==
    ASSUME QueueAssumption, ContentInv, NEW h \in Held
    PROVE  LET B == A(hold[h]) IN
           /\ hold[h].arena \in Arenas /\ hold[h].arena # Unset /\ B # NoArena
           /\ Stored(B) /\ Made(B) /\ Solid(B) /\ Window(B, hold[h])
           /\ Visit(hold[h]) \in Seq(Values) /\ Visit(hold[h]) = ContentOf(hold, arena)[h]
           /\ Len(Visit(hold[h])) = hold[h].count /\ hold[h].count \in Nat
<1> DEFINE q == hold[h]
           B == arena[q.arena]
<1>1. q.arena \in Arenas /\ Sized(B) /\ h \in Handles /\ q.arena # Unset
  BY OwnedSized DEF ContentInv, QueueInv, QueueAssumption, Held
<1>2. B # NoArena
  BY <1>1 DEF Sized, NoArena
<1>3. Stored(B) /\ Made(B)
  BY <1>1, <1>2 DEF ContentInv, NodesInv
<1>4. Solid(B)
  BY <1>3 DEF Solid, Stored
<1>5. Window(B, q) /\ VisitOn(B, q) \in Seq(Values)
  BY <1>1 DEF ContentInv, Sound
<1>6. ContentOf(hold, arena)[h] = VisitOn(B, q)
  BY <1>1 DEF ContentOf
<1>7. Len(VisitOn(B, q)) = q.count /\ q.count \in Nat
  BY <1>4, <1>5, ContentLength
<1> QED
  BY <1>1, <1>2, <1>3, <1>4, <1>5, <1>6, <1>7 DEF A, Visit

\* What holds after every call, but for the one handle or the two that it writes.
Settled == ArenaInv' /\ \A a \in Arenas : ArenaKept(arena, arena', a)

\* A handle that holds what one held before shows what that one showed.
LEMMA OthersStay ==
    ASSUME QueueAssumption, ContentInv, Settled, NEW g \in Handles, NEW f \in Handles, hold'[g] = hold[f]
    PROVE  Sound(arena', hold'[g]) /\ ContentOf(hold', arena')[g] = ContentOf(hold, arena)[f]
<1> DEFINE q == hold[f]
           a == q.arena
<1>1. CASE a = Unset
  BY <1>1 DEF Sound, ContentOf
<1>2. CASE a # Unset
  <2>1. f \in Held
    BY <1>2 DEF Held
  <2>2. /\ a \in Arenas /\ arena[a] # NoArena /\ Solid(arena[a]) /\ Window(arena[a], q)
        /\ VisitOn(arena[a], q) \in Seq(Values) /\ VisitOn(arena[a], q) = ContentOf(hold, arena)[f]
    BY <2>1, HeldWindow DEF A, Visit
  <2>3. arena'[a] # NoArena
    <3>1. Counted(hold', refs') /\ Kept(arena', refs')
      BY DEF Settled, ArenaInv
    <3>2. refs'[a] \in Nat \ {0}
      BY <1>2, <3>1, HeldCounted DEF QueueAssumption
    <3>3. Sized(arena'[a])
      BY <2>2, <3>1, <3>2 DEF Kept
    <3> QED
      BY <3>3 DEF Sized, NoArena
  <2>4. Window(arena'[a], q) /\ VisitOn(arena'[a], q) = VisitOn(arena[a], q)
    <3>1. CASE arena'[a] = arena[a]
      BY <2>2, <3>1
    <3>2. CASE arena'[a] # arena[a]
      <4>1. Stored(arena'[a]) /\ Made(arena'[a]) /\ Adds(arena[a], arena'[a])
        BY <2>2, <2>3, <3>2 DEF Settled, ArenaKept
      <4>2. Solid(arena'[a])
        BY <4>1 DEF Solid, Stored
      <4> QED
        BY <2>2, <4>1, <4>2, WindowStays
    <3> QED
      BY <3>1, <3>2
  <2>5. ContentOf(hold', arena')[g] = VisitOn(arena'[a], q)
    BY <1>2 DEF ContentOf
  <2> QED
    BY <1>2, <2>2, <2>4, <2>5 DEF Sound
<1> QED
  BY <1>1, <1>2

\* A handle that a call writes.
LEMMA WrittenShows ==
    ASSUME NEW g \in Handles, NEW w, hold'[g] = w, w.arena # Unset,
           Window(arena'[w.arena], w), VisitOn(arena'[w.arena], w) \in Seq(Values)
    PROVE  /\ Sound(arena', hold'[g])
           /\ ContentOf(hold', arena')[g] = VisitOn(arena'[w.arena], w)
BY DEF Sound, ContentOf

Lawful == (\A g \in Handles : Sound(arena', hold'[g])) /\ QueueKeepsPromise

\* A step that writes the result of a call is one the promised queue allows.
LEMMA LawfulByStep ==
    ASSUME \A g \in Handles : Sound(arena', hold'[g]),
           Promised!Step(ContentOf(hold, arena), ContentOf(hold', arena'))
    PROVE  Lawful
BY DEF Lawful, QueueKeepsPromise

\* Calls that leave one result.
LEMMA ResultLawful ==
    ASSUME QueueAssumption, ContentInv, Settled, NEW h \in Handles,
           \A g \in Handles \ {h} : hold'[g] = hold[g],
           Sound(arena', hold'[h]),
           LET now == ContentOf(hold, arena)
               new == ContentOf(hold', arena')
           IN  \/ new[h] = Unset
               \/ now[h] = Unset /\ \E n \in 0..MaxSource : new[h] \in [1..n -> Values]
               \/ \E s \in Handles : now[s] # Unset /\ new[h] \in Promised!Derived(now[s])
    PROVE  Lawful
<1> DEFINE now == ContentOf(hold, arena)
           new == ContentOf(hold', arena')
<1>1. \A g \in Handles \ {h} : Sound(arena', hold'[g]) /\ new[g] = now[g]
  BY OthersStay
<1> HIDE DEF now, new
<1>2. Promised!Step(now, new)
  BY <1>1 DEF Promised!Step, now, new
<1> QED
  BY <1>1, <1>2, LawfulByStep DEF now, new

\* A cut of a shown sequence is one the promised queue may derive.
LEMMA SubSeqShown ==
    ASSUME NEW S, NEW s \in Seq(S), NEW i \in 0..Len(s), NEW j \in 0..Len(s)
    PROVE  SubSeq(s, i + 1, j) \in Seq(S)
<1> DEFINE a == i + 1
<1>1. a \in Int /\ j \in Int /\ \A k \in a..j : s[k] \in S
  <2>1. \A k \in a..j : k \in 1..Len(s)
    OBVIOUS
  <2> QED
    BY <2>1, ElementOfSeq
<1> HIDE DEF a
<1>2. SubSeq(s, a, j) \in Seq(S)
  BY <1>1, SubSeqProperties
<1> QED
  BY <1>2 DEF a

\* A whole sequence is one the promised queue may derive.
LEMMA WholeDerived == ASSUME NEW all \in Seq(Values) PROVE all \in Promised!Derived(all)
<1>1. 0 \in 0..Len(all) /\ Len(all) \in 0..Len(all) /\ 0 + 1 = 1
  OBVIOUS
<1>2. SubSeq(all, 0 + 1, Len(all)) \in Promised!Derived(all)
  BY <1>1 DEF Promised!Derived
<1>3. SubSeq(all, 1, Len(all)) = all
  BY SubSeqFull
<1> QED
  BY <1>1, <1>2, <1>3

\* A result on the arena of its source.
LEMMA DerivedLawful ==
    ASSUME QueueAssumption, ContentInv, Settled, NEW s \in Held, NEW h \in Handles,
           NEW i \in 0..hold[s].count, NEW n \in 0..(hold[s].count - i), NEW w,
           w = Part(A(hold[s]), hold[s], i, n), Derive(s, h, w)
    PROVE  Lawful
<1> DEFINE q == hold[s]
           B == arena[q.arena]
           all == VisitOn(B, q)
<1>1. /\ q.arena # Unset /\ Solid(B) /\ Window(B, q) /\ all \in Seq(Values) /\ all = ContentOf(hold, arena)[s]
      /\ Len(all) = q.count /\ q.count \in Nat /\ w = Part(B, q, i, n)
  BY HeldWindow DEF A, Visit
<1>2. /\ w.arena = q.arena /\ hold' = [hold EXCEPT ![h] = w] /\ arena' = arena
  BY <1>1 DEF Derive, Publish, Part
<1>3. \A g \in Handles : hold'[g] = IF g = h THEN w ELSE hold[g]
  BY <1>2 DEF ContentInv, QueueInv, ArenaInv, Counted
<1>5. i \in 0..Len(all) /\ i + n \in 0..Len(all) /\ i \in 0..q.count /\ n \in 0..(q.count - i)
  BY <1>1
<1> HIDE DEF q, B
<1>4. Window(B, w) /\ VisitOn(B, w) = SubSeq(all, i + 1, i + n)
  <2>1. Solid(B) /\ Window(B, q) /\ w = Part(B, q, i, n)
    BY <1>1
  <2>2. Window(B, Part(B, q, i, n)) /\ VisitOn(B, Part(B, q, i, n)) = SubSeq(VisitOn(B, q), i + 1, i + n)
    BY <1>5, <2>1, PartOfWindow
  <2> QED
    BY <2>1, <2>2
<1> HIDE DEF all
<1>6. SubSeq(all, i + 1, i + n) \in Seq(Values)
  <2> DEFINE j == i + n
  <2>1. j \in 0..Len(all)
    BY <1>5
  <2> HIDE DEF j
  <2>2. SubSeq(all, i + 1, j) \in Seq(Values)
    BY <1>1, <1>5, <2>1, SubSeqShown
  <2> QED
    BY <2>2 DEF j
<1>7. /\ Sound(arena', hold'[h])
      /\ ContentOf(hold', arena')[h] = SubSeq(all, i + 1, i + n)
  <2>1. hold'[h] = w /\ w.arena # Unset /\ arena'[w.arena] = B
    BY <1>1, <1>2, <1>3 DEF B
  <2> QED
    BY <1>4, <1>6, <2>1, WrittenShows
<1>8. all # Unset
  BY <1>1 DEF QueueAssumption
<1>9. SubSeq(all, i + 1, i + n) \in Promised!Derived(all)
  BY <1>5 DEF Promised!Derived
<1>10. s \in Handles
  BY DEF Held
<1> QED
  BY <1>1, <1>3, <1>7, <1>8, <1>9, <1>10, ResultLawful

ArrayWindow(a, values, n) == [arena |-> a, tail |-> Chain(values)[n].leaf, low |-> 0, count |-> n]

\* The queue built from an array shows the array.
LEMMA FromArrayShows ==
    ASSUME QueueAssumption, ContentInv, NEW h \in Handles, NEW a \in Arenas, NEW n \in Nat,
           NEW values \in [1..n -> Values], FromArray(h, a, values)
    PROVE  \E C : /\ h \notin Held /\ arena[a] = NoArena /\ Stored(C) /\ Made(C)
                  /\ Window(C, ArrayWindow(a, values, n)) /\ VisitOn(C, ArrayWindow(a, values, n)) = values
                  /\ hold' = [hold EXCEPT ![h] = ArrayWindow(a, values, n)]
                  /\ arena' = [arena EXCEPT ![a] = C]
<1> DEFINE q == ArrayWindow(a, values, n)
           C == Chain(values)[n].arena
<1>1. Len(values) = n
  OBVIOUS
<1>2. /\ h \notin Held /\ arena[a] = NoArena /\ n < MaxNodes
      /\ hold' = [hold EXCEPT ![h] = q] /\ arena' = [arena EXCEPT ![a] = C]
  BY <1>1 DEF FromArray, ArrayWindow
<1>3. q = [arena |-> q.arena, tail |-> Chain(values)[n].leaf, low |-> 0, count |-> n]
  BY DEF ArrayWindow
<1> HIDE DEF q, C
<1>4. Stored(C) /\ Made(C) /\ Window(C, q) /\ VisitOn(C, q) = values
  BY <1>2, <1>3, WindowOfArray DEF QueueAssumption, C
<1> QED
  BY <1>2, <1>4 DEF q

\* Appending stores one leaf and moves no other arena's nodes.
LEMMA AddLastArena ==
    ASSUME QueueAssumption, ContentInv, NEW s \in Handles, NEW h \in Handles, NEW v \in Values, AddLast(s, h, v)
    PROVE  /\ s \in Held
           /\ \E out \in AddLeaf(arena[hold[s].arena], hold[s].tail, v) :
                 /\ arena' = [arena EXCEPT ![hold[s].arena] = out.arena]
                 /\ out.leaf = Unset => hold' = hold
                 /\ out.leaf # Unset => hold' = [hold EXCEPT ![h] = Longer(hold[s], out.leaf)]
BY DEF AddLast, MayTarget, Publish, A, Longer

\* No call writes to a node that is there.
LEMMA QueueNextKept ==
    ASSUME QueueAssumption, ContentInv, [QueueNext]_arenaVars
    PROVE  \A b \in Arenas : ArenaKept(arena, arena', b)
<1>0. ArenaAssumption /\ ArenaInv /\ NodesInv
  BY DEF QueueAssumption, ContentInv, QueueInv
<1>1. ASSUME NEW h \in Handles, NEW a \in Arenas, InitMyers(h, a)
      PROVE  \A b \in Arenas : ArenaKept(arena, arena', b)
  BY <1>0, <1>1, NewOwnerKept DEF InitMyers
<1>2. ASSUME NEW h \in Handles, Dispose(h) PROVE \A b \in Arenas : ArenaKept(arena, arena', b)
  BY <1>0, <1>2, DisposeKept
<1>3. ASSUME NEW s \in Handles, NEW h \in Handles, NEW v \in Values, AddLast(s, h, v)
      PROVE  \A b \in Arenas : ArenaKept(arena, arena', b)
  <2>1. PICK out \in AddLeaf(arena[hold[s].arena], hold[s].tail, v) :
           arena' = [arena EXCEPT ![hold[s].arena] = out.arena]
    BY <1>3, AddLastArena
  <2>2. s \in Held /\ hold[s].tail \in Nodes(arena[hold[s].arena])
    BY <1>3, AddLastArena, HeldWindow DEF Window, A
  <2> QED
    BY <1>0, <2>1, <2>2, LeafKept
<1>4. ASSUME NEW h \in Handles, NEW a \in Arenas, NEW n \in 1..MaxSource, NEW values \in [1..n -> Values],
             FromArray(h, a, values)
      PROVE  \A b \in Arenas : ArenaKept(arena, arena', b)
  <2>1. n \in Nat
    OBVIOUS
  <2>2. PICK C : arena[a] = NoArena /\ Stored(C) /\ Made(C) /\ arena' = [arena EXCEPT ![a] = C]
    BY <1>4, <2>1, FromArrayShows
  <2> QED
    BY <1>0, <2>2, OneArenaKept
<1>5. CASE arena' = arena
  BY <1>5 DEF ArenaKept
<1> QED
  BY <1>1, <1>2, <1>3, <1>4, <1>5
  DEF QueueNext, InitOn, Copy, Move, RemoveFirstTo, RemoveLastTo, TryRemoveFirstTo, TryRemoveLastTo,
      TakeTo, DropTo, SliceTo, Derive, SplitAt, arenaVars

\* Appending is a call of the promised queue.
LEMMA AddLastLawful ==
    ASSUME QueueAssumption, ContentInv, Settled, NEW s \in Handles, NEW h \in Handles, NEW v \in Values,
           AddLast(s, h, v)
    PROVE  Lawful
<1> DEFINE q == hold[s]
           B == arena[q.arena]
           all == VisitOn(B, q)
<1>1. PICK out \in AddLeaf(B, q.tail, v) :
         /\ arena' = [arena EXCEPT ![q.arena] = out.arena]
         /\ out.leaf = Unset => hold' = hold
         /\ out.leaf # Unset => hold' = [hold EXCEPT ![h] = Longer(q, out.leaf)]
  BY AddLastArena
<1>2. /\ s \in Held /\ q.arena # Unset /\ q.arena \in Arenas /\ Stored(B) /\ Made(B) /\ Solid(B) /\ Window(B, q)
      /\ all \in Seq(Values) /\ all = ContentOf(hold, arena)[s] /\ Len(all) = q.count /\ q.count \in Nat
  BY AddLastArena, HeldWindow DEF A, Visit
<1>3. all # Unset
  BY <1>2 DEF QueueAssumption
<1> HIDE DEF q, B, all
<1>4. CASE out.leaf = Unset
  <2>1. Sound(arena', hold'[s]) /\ ContentOf(hold', arena')[s] = all /\ \A g \in Handles : hold'[g] = hold[g]
    BY <1>1, <1>2, <1>4, OthersStay
  <2>2. all \in Promised!Derived(all)
    BY <1>2, WholeDerived
  <2> QED
    BY <1>2, <1>3, <2>1, <2>2, ResultLawful
<1>5. CASE out.leaf # Unset
  <2> DEFINE w == Longer(q, out.leaf)
  <2>1. Window(out.arena, w) /\ VisitOn(out.arena, w) = Append(all, v) /\ w.arena = q.arena
    <3>1. ArenaAssumption /\ Stored(B) /\ Made(B) /\ Window(B, q)
      BY <1>2 DEF QueueAssumption
    <3>2. /\ Window(out.arena, Longer(q, out.leaf)) /\ Longer(q, out.leaf).arena = q.arena
          /\ VisitOn(out.arena, Longer(q, out.leaf)) = Append(VisitOn(B, q), v)
      BY <1>5, <3>1, WindowGrows
    <3> QED
      BY <3>2 DEF all
  <2>2. hold' = [hold EXCEPT ![h] = w]
    BY <1>1, <1>5
  <2> HIDE DEF w
  <2>3. \A g \in Handles : hold'[g] = IF g = h THEN w ELSE hold[g]
    BY <2>2 DEF ContentInv, QueueInv, ArenaInv, Counted
  <2>4. arena'[w.arena] = out.arena
    BY <1>1, <1>2, <2>1 DEF ContentInv, QueueInv, ArenaInv, Kept
  <2>5. Append(all, v) \in Seq(Values)
    BY <1>2
  <2>6. Sound(arena', hold'[h]) /\ ContentOf(hold', arena')[h] = Append(all, v)
    BY <1>2, <2>1, <2>3, <2>4, <2>5, WrittenShows
  <2>7. Append(all, v) \in Promised!Derived(all)
    BY DEF Promised!Derived
  <2> QED
    BY <1>2, <1>3, <2>3, <2>6, <2>7, ResultLawful
<1> QED
  BY <1>4, <1>5

\* Building a queue in an arena of its own is a call of the promised queue.
LEMMA FreshLawful ==
    ASSUME QueueAssumption, ContentInv, Settled, NEW h \in Handles, h \notin Held, NEW w, w.arena # Unset,
           hold' = [hold EXCEPT ![h] = w], Window(arena'[w.arena], w), NEW n \in 0..MaxSource,
           VisitOn(arena'[w.arena], w) \in [1..n -> Values]
    PROVE  Lawful
<1>1. \A g \in Handles : hold'[g] = IF g = h THEN w ELSE hold[g]
  BY DEF ContentInv, QueueInv, ArenaInv, Counted
<1>2. VisitOn(arena'[w.arena], w) \in Seq(Values)
  <2>1. n \in Nat
    OBVIOUS
  <2> QED
    BY <2>1, SeqDef
<1>3. Sound(arena', hold'[h]) /\ ContentOf(hold', arena')[h] = VisitOn(arena'[w.arena], w)
  BY <1>1, <1>2, WrittenShows
<1>4. ContentOf(hold, arena)[h] = Unset
  BY DEF ContentOf, Held
<1> QED
  BY <1>1, <1>3, <1>4, ResultLawful

\* A split writes two cuts, both or neither.
LEMMA SplitAtLawful ==
    ASSUME QueueAssumption, ContentInv, Settled, NEW s \in Handles, NEW l \in Handles, NEW r \in Handles,
           NEW i \in 0..MaxCount, SplitAt(s, l, r, i)
    PROVE  Lawful
<1> DEFINE q == hold[s]
           B == arena[q.arena]
           all == VisitOn(B, q)
           x == Part(B, q, 0, i)
           y == Part(B, q, i, q.count - i)
           now == ContentOf(hold, arena)
           new == ContentOf(hold', arena')
<1>1. /\ s \in Held /\ l # r /\ i <= q.count /\ arena' = arena
      /\ hold' = [hold EXCEPT ![l] = Take(q, i), ![r] = Drop(q, i)]
  BY DEF SplitAt
<1>2. /\ q.arena # Unset /\ q.arena \in Arenas /\ Solid(B) /\ Window(B, q) /\ B = A(q)
      /\ all \in Seq(Values) /\ all = now[s] /\ Len(all) = q.count /\ q.count \in Nat
  BY <1>1, HeldWindow DEF A, Visit
<1>3. i \in 0..q.count /\ q.count - i \in 0..(q.count - i) /\ 0 \in 0..q.count /\ i \in 0..(q.count - 0)
  BY <1>1, <1>2
<1>4. Take(q, i) = x /\ Drop(q, i) = y
  BY <1>2, <1>3, CallsCutParts
<1>5. /\ Window(B, x) /\ VisitOn(B, x) = SubSeq(all, 0 + 1, 0 + i)
      /\ Window(B, y) /\ VisitOn(B, y) = SubSeq(all, i + 1, i + (q.count - i))
  <2>1. Window(B, x) /\ VisitOn(B, x) = SubSeq(all, 0 + 1, 0 + i)
    <3> DEFINE z == 0
    <3>1. z \in 0..q.count /\ i \in 0..(q.count - z)
      BY <1>3
    <3> HIDE DEF B, q, z
    <3>2. Window(B, Part(B, q, z, i)) /\ VisitOn(B, Part(B, q, z, i)) = SubSeq(VisitOn(B, q), z + 1, z + i)
      BY <1>2, <3>1, PartOfWindow
    <3> QED
      BY <3>2 DEF z
  <2>2. Window(B, y) /\ VisitOn(B, y) = SubSeq(all, i + 1, i + (q.count - i))
    <3> DEFINE n == q.count - i
    <3>1. n \in 0..n /\ i \in 0..q.count /\ n \in 0..(q.count - i)
      BY <1>3
    <3> HIDE DEF B, q, n
    <3>2. Window(B, Part(B, q, i, n)) /\ VisitOn(B, Part(B, q, i, n)) = SubSeq(VisitOn(B, q), i + 1, i + n)
      BY <1>2, <3>1, PartOfWindow
    <3> QED
      BY <3>2 DEF n
  <2> QED
    BY <2>1, <2>2
<1>6. x.arena = q.arena /\ y.arena = q.arena
  BY DEF Part
<1> HIDE DEF all, x, y
<1>7. VisitOn(B, x) = SubSeq(all, 1, i) /\ VisitOn(B, y) = SubSeq(all, i + 1, Len(all))
  <2>1. 0 + 1 = 1 /\ 0 + i = i /\ i + (q.count - i) = Len(all)
    BY <1>2, <1>3
  <2> QED
    BY <1>5, <2>1
<1>8. SubSeq(all, 1, i) \in Seq(Values) /\ SubSeq(all, i + 1, Len(all)) \in Seq(Values)
  <2>1. 0 \in 0..Len(all) /\ i \in 0..Len(all) /\ Len(all) \in 0..Len(all) /\ 0 + 1 = 1
    BY <1>2, <1>3
  <2> QED
    BY <1>2, <2>1, SubSeqShown
<1>9. SubSeq(all, 1, i) \o SubSeq(all, i + 1, Len(all)) = all
  <2>1. 1 \in 1..(Len(all) + 1) /\ i \in (1 - 1)..Len(all) /\ Len(all) \in i..Len(all)
    BY <1>2, <1>3
  <2>2. SubSeq(all, 1, i) \o SubSeq(all, i + 1, Len(all)) = SubSeq(all, 1, Len(all))
    BY <1>2, <2>1, ConcatAdjacentSubSeq
  <2> QED
    BY <1>2, <2>2, SubSeqFull
<1>10. \A g \in Handles : hold'[g] = IF g = r THEN y ELSE IF g = l THEN x ELSE hold[g]
  BY <1>1, <1>4 DEF ContentInv, QueueInv, ArenaInv, Counted
<1> HIDE DEF q, B, now, new
<1>11. Sound(arena', hold'[l]) /\ new[l] = SubSeq(all, 1, i)
  <2>1. hold'[l] = x /\ x.arena # Unset /\ arena'[x.arena] = B
    BY <1>1, <1>2, <1>6, <1>10 DEF B
  <2> QED
    BY <1>5, <1>7, <1>8, <2>1, WrittenShows DEF new
<1>12. Sound(arena', hold'[r]) /\ new[r] = SubSeq(all, i + 1, Len(all))
  <2>1. hold'[r] = y /\ y.arena # Unset /\ arena'[y.arena] = B
    BY <1>1, <1>2, <1>6, <1>10 DEF B
  <2> QED
    BY <1>5, <1>7, <1>8, <2>1, WrittenShows DEF new
<1>13. \A g \in Handles \ {l, r} : Sound(arena', hold'[g]) /\ new[g] = now[g]
  BY <1>10, OthersStay DEF now, new
<1>14. now[s] # Unset /\ new[l] # Unset /\ new[r] # Unset /\ new[l] \o new[r] = now[s]
  BY <1>2, <1>8, <1>9, <1>11, <1>12 DEF QueueAssumption
<1>15. Promised!Step(now, new)
  BY <1>1, <1>13, <1>14 DEF Promised!Step
<1> QED
  BY <1>11, <1>12, <1>13, <1>15, LawfulByStep DEF now, new

\* A move takes what the source showed.
LEMMA MoveLawful ==
    ASSUME QueueAssumption, ContentInv, Settled, NEW s \in Handles, NEW h \in Handles, Move(s, h)
    PROVE  Lawful
<1> DEFINE now == ContentOf(hold, arena)
           new == ContentOf(hold', arena')
<1>1. s # h /\ hold' = [hold EXCEPT ![h] = hold[s], ![s] = Nothing]
  BY DEF Move
<1>2. \A g \in Handles : hold'[g] = IF g = s THEN Nothing ELSE IF g = h THEN hold[s] ELSE hold[g]
  BY <1>1 DEF ContentInv, QueueInv, ArenaInv, Counted
<1>3. Sound(arena', hold'[s]) /\ new[s] = Unset
  BY <1>2 DEF Nothing, Sound, ContentOf
<1>4. Sound(arena', hold'[h]) /\ new[h] = now[s]
  <2>1. hold'[h] = hold[s]
    BY <1>1, <1>2
  <2> QED
    BY <2>1, OthersStay
<1>5. \A g \in Handles \ {s, h} : Sound(arena', hold'[g]) /\ new[g] = now[g]
  BY <1>2, OthersStay
<1> HIDE DEF now, new
<1>6. Promised!Step(now, new)
  BY <1>1, <1>3, <1>4, <1>5 DEF Promised!Step
<1> QED
  BY <1>3, <1>4, <1>5, <1>6, LawfulByStep DEF now, new

\* A call that cuts a window out of one, or leaves it as it is.
LEMMA CutsLawful ==
    ASSUME QueueAssumption, ContentInv, Settled, NEW s \in Held, NEW h \in Handles, NEW w, Derive(s, h, w),
           \/ w = hold[s]
           \/ hold[s].count > 0 /\ w \in {WithoutFirst(hold[s]), WithoutLast(hold[s])}
           \/ \E i \in 0..hold[s].count : \E n \in 0..(hold[s].count - i) : w = Slice(hold[s], i, n)
           \/ \E n \in 0..hold[s].count : w \in {Take(hold[s], n), Drop(hold[s], n)}
    PROVE  Lawful
<1> DEFINE q == hold[s]
           B == A(q)
<1>1. Solid(B) /\ Window(B, q) /\ q.count \in Nat
  BY HeldWindow
<1>2. \E i \in 0..q.count : \E n \in 0..(q.count - i) : w = Part(B, q, i, n)
  <2> HIDE DEF q
  <2>1. /\ q = Part(B, q, 0, q.count)
        /\ q.count > 0 => WithoutFirst(q) = Part(B, q, 1, q.count - 1)
        /\ q.count > 0 => WithoutLast(q) = Part(B, q, 0, q.count - 1)
        /\ \A i \in 0..q.count : \A n \in 0..(q.count - i) : Slice(q, i, n) = Part(B, q, i, n)
        /\ \A n \in 0..q.count : Take(q, n) = Part(B, q, 0, n) /\ Drop(q, n) = Part(B, q, n, q.count - n)
    BY <1>1, CallsCutParts
  <2> HIDE DEF B
  <2>2. CASE w = q
    <3>1. 0 \in 0..q.count /\ q.count \in 0..(q.count - 0)
      BY <1>1
    <3> QED
      BY <2>1, <2>2, <3>1
  <2>3. CASE q.count > 0 /\ w \in {WithoutFirst(q), WithoutLast(q)}
    <3>1. /\ 0 \in 0..q.count /\ q.count - 1 \in 0..(q.count - 0)
          /\ 1 \in 0..q.count /\ q.count - 1 \in 0..(q.count - 1)
      BY <1>1, <2>3
    <3> QED
      BY <2>1, <2>3, <3>1
  <2>4. CASE \E i \in 0..q.count : \E n \in 0..(q.count - i) : w = Slice(q, i, n)
    BY <2>1, <2>4
  <2>5. CASE \E n \in 0..q.count : w \in {Take(q, n), Drop(q, n)}
    <3>1. PICK n \in 0..q.count : w \in {Take(q, n), Drop(q, n)}
      BY <2>5
    <3>2. 0 \in 0..q.count /\ n \in 0..(q.count - 0) /\ q.count - n \in 0..(q.count - n)
      BY <1>1
    <3> QED
      BY <2>1, <3>1, <3>2
  <2> QED
    BY <2>2, <2>3, <2>4, <2>5 DEF q
<1> QED
  BY <1>2, DerivedLawful

\* An emptied queue shows the empty sequence.
LEMMA EmptyLawful ==
    ASSUME QueueAssumption, ContentInv, Settled, NEW s \in Handles, NEW h \in Handles, InitOn(s, h)
    PROVE  Lawful
<1> DEFINE q == hold[s]
           B == arena[q.arena]
           w == EmptyQueue(q.arena)
           all == ContentOf(hold, arena)[s]
<1>1. /\ s \in Held /\ q.arena # Unset /\ Solid(B) /\ all \in Seq(Values)
  BY HeldWindow DEF A, InitOn
<1>2. hold' = [hold EXCEPT ![h] = w] /\ arena' = arena /\ w.arena = q.arena
  BY DEF InitOn, Derive, Publish, EmptyQueue
<1>3. \A g \in Handles : hold'[g] = IF g = h THEN w ELSE hold[g]
  BY <1>2 DEF ContentInv, QueueInv, ArenaInv, Counted
<1>4. Window(B, w) /\ VisitOn(B, w) = <<>>
  BY <1>1, EmptyWindow
<1> HIDE DEF q, B, w, all
<1>5. Sound(arena', hold'[h]) /\ ContentOf(hold', arena')[h] = <<>>
  <2>1. hold'[h] = w /\ w.arena # Unset /\ arena'[w.arena] = B /\ <<>> \in Seq(Values)
    BY <1>1, <1>2, <1>3 DEF B
  <2> QED
    BY <1>4, <2>1, WrittenShows
<1>6. <<>> \in Promised!Derived(all)
  <2>1. SubSeq(all, 0 + 1, 0) = <<>> /\ 0 \in 0..Len(all)
    <3>1. SubSeq(all, 1, 0) = <<>>
      BY SubSeqEmpty
    <3> QED
      BY <1>1, <3>1
  <2>2. SubSeq(all, 0 + 1, 0) \in Promised!Derived(all)
    BY <2>1 DEF Promised!Derived
  <2> QED
    BY <2>1, <2>2
<1>7. all # Unset
  BY <1>1 DEF QueueAssumption
<1> QED
  BY <1>3, <1>5, <1>6, <1>7, ResultLawful DEF all

\* A new queue shows the empty sequence.
LEMMA InitMyersLawful ==
    ASSUME QueueAssumption, ContentInv, Settled, NEW h \in Handles, NEW a \in Arenas, InitMyers(h, a)
    PROVE  Lawful
<1> DEFINE w == EmptyQueue(a)
<1>1. /\ h \notin Held /\ hold' = [hold EXCEPT ![h] = w] /\ arena'[a] = NewArena /\ w.arena = a
  BY DEF InitMyers, NewOwner, EmptyQueue, ContentInv, QueueInv, ArenaInv, Kept
<1>2. Solid(NewArena)
  BY NewArenaMade DEF QueueAssumption, Solid, Stored
<1>3. Window(NewArena, w) /\ VisitOn(NewArena, w) = <<>>
  BY <1>2, EmptyWindow
<1>4. a # Unset
  BY DEF QueueAssumption, ArenaAssumption
<1> HIDE DEF w
<1>5. <<>> \in [1..0 -> Values] /\ 0 \in 0..MaxSource
  BY DEF QueueAssumption
<1> QED
  BY <1>1, <1>3, <1>4, <1>5, FreshLawful

\* Every call keeps the windows sound and leaves the sequence it promises.
LEMMA QueueNextLawful ==
    ASSUME QueueAssumption, ContentInv, Settled, QueueNext PROVE Lawful
<1> USE DEF Held
<1>1. ASSUME NEW h \in Handles, NEW a \in Arenas, InitMyers(h, a) PROVE Lawful
  BY <1>1, InitMyersLawful
<1>2. ASSUME NEW h \in Handles, NEW a \in Arenas, NEW n \in 1..MaxSource, NEW values \in [1..n -> Values],
             FromArray(h, a, values)
      PROVE  Lawful
  <2> DEFINE w == ArrayWindow(a, values, n)
  <2>1. n \in Nat /\ n \in 0..MaxSource
    OBVIOUS
  <2>2. PICK C : /\ h \notin Held /\ Window(C, w) /\ VisitOn(C, w) = values
                 /\ hold' = [hold EXCEPT ![h] = w] /\ arena' = [arena EXCEPT ![a] = C]
    BY <1>2, <2>1, FromArrayShows
  <2>3. w.arena = a /\ a # Unset
    BY DEF ArrayWindow, QueueAssumption, ArenaAssumption
  <2> HIDE DEF w
  <2>4. arena'[w.arena] = C
    BY <2>2, <2>3 DEF ContentInv, QueueInv, ArenaInv, Kept
  <2> QED
    BY <2>1, <2>2, <2>3, <2>4, FreshLawful
<1>3. ASSUME NEW s \in Handles, NEW h \in Handles, Copy(s, h) PROVE Lawful
  <2>1. s \in Held /\ \A g \in Handles : hold'[g] = IF g = h THEN hold[s] ELSE hold[g]
    BY <1>3 DEF Copy, ContentInv, QueueInv, ArenaInv, Counted
  <2>2. Sound(arena', hold'[h]) /\ ContentOf(hold', arena')[h] = ContentOf(hold, arena)[s]
    BY <2>1, OthersStay
  <2>3. h \notin Held
    BY <1>3 DEF Copy
  <2>4. ContentOf(hold, arena)[h] = Unset
    BY <2>3 DEF ContentOf
  <2> DEFINE all == ContentOf(hold, arena)[s]
  <2>5. all \in Seq(Values)
    BY <2>1, HeldWindow
  <2> HIDE DEF all
  <2>6. all # Unset
    BY <2>5 DEF QueueAssumption
  <2>7. all \in Promised!Derived(all)
    BY <2>5, WholeDerived
  <2> QED
    BY <2>1, <2>2, <2>6, <2>7, ResultLawful DEF all
<1>4. ASSUME NEW h \in Handles, Dispose(h) PROVE Lawful
  <2>1. \A g \in Handles : hold'[g] = IF g = h THEN Nothing ELSE hold[g]
    BY <1>4 DEF Dispose, ContentInv, QueueInv, ArenaInv, Counted
  <2>2. Sound(arena', hold'[h]) /\ ContentOf(hold', arena')[h] = Unset
    BY <2>1 DEF Nothing, Sound, ContentOf
  <2> QED
    BY <2>1, <2>2, ResultLawful
<1>5. ASSUME NEW s \in Handles, NEW h \in Handles,
             \/ RemoveFirstTo(s, h) \/ RemoveLastTo(s, h) \/ TryRemoveFirstTo(s, h) \/ TryRemoveLastTo(s, h)
             \/ \E n \in 0..MaxCount : TakeTo(s, h, n) \/ DropTo(s, h, n)
             \/ \E i, n \in 0..MaxCount : SliceTo(s, h, i, n)
      PROVE  Lawful
  <2>1. s \in Held
    BY <1>5 DEF RemoveFirstTo, RemoveLastTo, TryRemoveFirstTo, TryRemoveLastTo, TakeTo, DropTo, SliceTo
  <2> DEFINE q == hold[s]
  <2>2. q.count \in Nat
    BY <2>1, HeldWindow
  <2>3. CASE RemoveFirstTo(s, h) \/ RemoveLastTo(s, h)
    BY <2>1, <2>3, CutsLawful DEF RemoveFirstTo, RemoveLastTo
  <2>4. CASE TryRemoveFirstTo(s, h) \/ TryRemoveLastTo(s, h)
    <3>1. \E w \in {q, WithoutFirst(q), WithoutLast(q)} : Derive(s, h, w) /\ (q.count = 0 => w = q)
      BY <2>4 DEF TryRemoveFirstTo, TryRemoveLastTo
    <3>2. q.count # 0 => q.count > 0
      BY <2>2
    <3> QED
      BY <2>1, <3>1, <3>2, CutsLawful
  <2>5. ASSUME NEW n \in 0..MaxCount, TakeTo(s, h, n) \/ DropTo(s, h, n) PROVE Lawful
    <3>1. n \in 0..q.count
      BY <2>2, <2>5 DEF TakeTo, DropTo
    <3>2. Derive(s, h, Take(q, n)) \/ Derive(s, h, Drop(q, n))
      BY <2>5 DEF TakeTo, DropTo
    <3> QED
      BY <2>1, <3>1, <3>2, CutsLawful
  <2>6. ASSUME NEW i \in 0..MaxCount, NEW n \in 0..MaxCount, SliceTo(s, h, i, n) PROVE Lawful
    <3>1. i \in 0..q.count /\ n \in 0..(q.count - i)
      BY <2>2, <2>6 DEF SliceTo
    <3>2. Derive(s, h, Slice(q, i, n))
      BY <2>6 DEF SliceTo
    <3> QED
      BY <2>1, <3>1, <3>2, CutsLawful
  <2> QED
    BY <1>5, <2>3, <2>4, <2>5, <2>6
<1> QED
  BY <1>1, <1>2, <1>3, <1>4, <1>5, MoveLawful, EmptyLawful, AddLastLawful, SplitAtLawful DEF QueueNext

\* A step keeps every held window on its nodes.
LEMMA ContentNext ==
    ASSUME QueueAssumption, ContentInv, [QueueNext]_arenaVars
    PROVE  ContentInv' /\ [QueueKeepsPromise]_arenaVars
<1>1. QueueInv' /\ Settled
  BY QueueNextOwned, QueueNextKept DEF QueueAssumption, ContentInv, Settled, QueueInv
<1>2. NodesInv'
  BY <1>1, KeptNodes DEF Settled, ContentInv
<1>3. CASE QueueNext
  <2>1. Lawful
    BY <1>1, <1>3, QueueNextLawful
  <2> QED
    BY <1>1, <1>2, <2>1 DEF Lawful, ContentInv
<1>4. CASE UNCHANGED arenaVars
  <2>1. \A g \in Handles : Sound(arena', hold'[g])
    BY <1>4 DEF ContentInv, arenaVars
  <2> QED
    BY <1>1, <1>2, <1>4, <2>1 DEF ContentInv
<1> QED
  BY <1>3, <1>4

\* Every reachable state has its windows on made nodes.
LEMMA ContentStays == ASSUME QueueAssumption PROVE QueueSpec => []ContentInv
<1>1. ArenaInit => ContentInv
  BY ArenaInitOwned, ArenaInitKept DEF QueueAssumption, ArenaInit, QueueInv, ContentInv, Sound, Nothing
<1>2. ContentInv /\ [QueueNext]_arenaVars => ContentInv'
  BY ContentNext
<1> QED
  BY <1>1, <1>2, PTL DEF QueueSpec

\* A window on made nodes answers every read as the sequence it shows.
LEMMA WindowExact ==
    ASSUME QueueAssumption, ContentInv, NEW h \in Held, NEW q, q = hold[h], NEW all, all = Visit(q)
    PROVE  /\ Depth(A(q), q.tail) = q.low + q.count - 1
           /\ \A i \in 0..(q.count - 1) : At(q, i) = all[i + 1]
           /\ q.count > 0 => First(q) = all[1] /\ Final(q) = all[q.count]
           /\ \A i \in 0..q.count :
                 /\ Visit(Take(q, i)) = SubSeq(all, 1, i)
                 /\ Visit(Drop(q, i)) = SubSeq(all, i + 1, q.count)
                 /\ \A n \in 0..(q.count - i) : Visit(Slice(q, i, n)) = SubSeq(all, i + 1, i + n)
<1> DEFINE B == A(q)
<1>1. /\ Solid(B) /\ Window(B, q) /\ all = VisitOn(B, q)
      /\ q.low \in Nat /\ q.count \in Nat /\ q.tail \in Nodes(B) /\ Depth(B, q.tail) = q.low + q.count - 1
  BY HeldWindow DEF Window, Visit
<1>2. all = [i \in 1..q.count |-> ValueOf(B, Spot(B, q, i - 1))]
  BY <1>1, VisitUnfolds
<1>3. ASSUME NEW i \in 0..(q.count - 1) PROVE At(q, i) = all[i + 1] /\ NodeAt(q, i) = Spot(B, q, i)
  <2>1. NodeAt(q, i) = Spot(B, q, i)
    <3>1. CASE i = q.count - 1
      <4>1. i \in -1..(q.count - 1)
        BY <1>1
      <4>2. Spot(B, q, i) = q.tail
        <5> HIDE DEF B
        <5> QED
          BY <1>1, <3>1, <4>1, SpotsClimb
      <4> QED
        BY <3>1, <4>2 DEF NodeAt
    <3>2. CASE i # q.count - 1
      <4> DEFINE d == q.low + i
      <4>1. d \in -1..Depth(B, q.tail)
        BY <1>1
      <4>2. AncestorAtDepth(B, q.tail, d).node = ByParents(B, q.tail, d)
        <5> HIDE DEF B, d
        <5> QED
          BY <1>1, <4>1, HopsFind DEF Solid
      <4> QED
        BY <3>2, <4>2 DEF NodeAt, Spot
    <3> QED
      BY <3>1, <3>2
  <2>2. i + 1 \in 1..q.count /\ (i + 1) - 1 = i
    BY <1>1
  <2> QED
    BY <1>2, <2>1, <2>2 DEF At
<1>4. ASSUME q.count > 0 PROVE First(q) = all[1] /\ Final(q) = all[q.count]
  <2>1. 0 \in 0..(q.count - 1) /\ q.count - 1 \in 0..(q.count - 1) /\ (q.count - 1) + 1 = q.count /\ 0 + 1 = 1
    BY <1>1, <1>4
  <2>2. At(q, 0) = all[1] /\ At(q, q.count - 1) = all[q.count]
    BY <1>3, <2>1
  <2>3. NodeAt(q, q.count - 1) = q.tail
    BY DEF NodeAt
  <2> QED
    BY <2>2, <2>3 DEF First, Final, At
<1>5. \A i, n : A(Part(B, q, i, n)) = B
  BY DEF Part, A
<1> HIDE DEF B
<1>6. ASSUME NEW i \in 0..q.count, NEW n \in 0..(q.count - i)
      PROVE  Visit(Part(B, q, i, n)) = SubSeq(all, i + 1, i + n)
  BY <1>1, <1>5, PartOfWindow DEF Visit
<1>7. /\ \A i \in 0..q.count : \A n \in 0..(q.count - i) : Slice(q, i, n) = Part(B, q, i, n)
      /\ \A n \in 0..q.count : Take(q, n) = Part(B, q, 0, n) /\ Drop(q, n) = Part(B, q, n, q.count - n)
  BY <1>1, CallsCutParts DEF B
<1>8. ASSUME NEW i \in 0..q.count
      PROVE  /\ Visit(Take(q, i)) = SubSeq(all, 1, i)
             /\ Visit(Drop(q, i)) = SubSeq(all, i + 1, q.count)
             /\ \A n \in 0..(q.count - i) : Visit(Slice(q, i, n)) = SubSeq(all, i + 1, i + n)
  <2>1. /\ 0 \in 0..q.count /\ i \in 0..(q.count - 0) /\ 0 + 1 = 1 /\ 0 + i = i
        /\ q.count - i \in 0..(q.count - i) /\ i + (q.count - i) = q.count
    BY <1>1
  <2>2. Visit(Part(B, q, 0, i)) = SubSeq(all, 1, i)
    BY <1>6, <2>1
  <2>3. Visit(Part(B, q, i, q.count - i)) = SubSeq(all, i + 1, q.count)
    BY <1>6, <2>1
  <2> QED
    BY <1>6, <1>7, <2>2, <2>3
<1> QED
  BY <1>1, <1>3, <1>4, <1>8 DEF B

\* WindowsExact for queues of any length on arenas of any size: whatever a
\* window went through, an index finds what a visit shows, a cut shows the cut
\* of the values, and the queue can be added to, when it is empty too.
THEOREM QueuesAnswer == ASSUME QueueAssumption PROVE QueueSpec => []WindowsExact
<1>1. ContentInv => WindowsExact
  BY WindowExact DEF WindowsExact
<1> QED
  BY <1>1, ContentStays, PTL

\* QueueKeepsPromise for any handles, arenas and values: queues that share an
\* arena are the independent immutable sequences of PersistentSequence, whatever
\* is added below one of them and whichever addition fails.
THEOREM QueuesIndependent == ASSUME QueueAssumption PROVE QueueSpec => [][QueueKeepsPromise]_arenaVars
<1>1. ContentInv /\ [QueueNext]_arenaVars => [QueueKeepsPromise]_arenaVars
  BY ContentNext
<1> QED
  BY <1>1, ContentStays, PTL DEF QueueSpec
=============================================================================
