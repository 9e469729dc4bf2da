------------------------------- MODULE DabaLite ------------------------------
(***************************************************************************)
(* ft_daba_lite, the mutable sliding-window aggregate of the C FingerTree  *)
(* workspace (src/C/FingerTree/src/daba_lite.c).                           *)
(*                                                                         *)
(* A cursor (block, index) is the absolute position of its slot in the     *)
(* stream of slots the block chain has offered so far: cursors of one      *)
(* block are consecutive and the next block continues where it ends.       *)
(* base is the first slot of rep->first, limit the slot after the last     *)
(* block.  A fresh block of ft_daba_lite_clear continues at limit, so a    *)
(* position names one arrival for ever.                                    *)
(*                                                                         *)
(* A monoid value is the interval [lo, hi) of arrivals whose ordered       *)
(* product it is, with lo = hi for the identity.  Combining values that    *)
(* are not adjacent in stream order gives Torn, which is no product of     *)
(* consecutive elements: if a query never returns Torn and returns the     *)
(* interval [f, e), it returns the window's product in every monoid.       *)
(***************************************************************************)
EXTENDS Integers

CONSTANTS
    BlockCapacity,  \* FT_DABA_BLOCK_CAPACITY, slots per block (64)
    ScratchCount,   \* FT_DABA_SCRATCH_COUNT, staged values per call (8)
    MaxCount,       \* SIZE_MAX, the largest window
    Handles,        \* the ft_daba_lite objects a rep can be moved between
    NoHandle        \* no handle owns a rep

ASSUME DabaAssumption ==
    /\ BlockCapacity \in Nat \ {0}
    /\ ScratchCount \in Nat /\ ScratchCount >= 7  \* the _Static_assert
    /\ MaxCount \in Nat
    /\ NoHandle \notin Handles

VARIABLES
    owner,          \* the handle whose rep pointer is not NULL
    f, l, r, a, b, e,  \* the six cursors of the rep
    base, limit,    \* extent of the block chain
    items,          \* occupied slots and the value each holds
    aggRA, aggB,    \* the two aggregates kept in rep->storage
    count,          \* rep->count
    answer          \* value produced by the last ft_daba_lite_aggregate

cursors == <<f, l, r, a, b, e>>
chain == <<base, limit>>
vars == <<owner, f, l, r, a, b, e, base, limit, items, aggRA, aggB, count, answer>>

-----------------------------------------------------------------------------
(* Monoid values.                                                          *)

Product(i, j) == [lo |-> i, hi |-> j]
Identity == Product(0, 0)
Torn == [lo |-> 0, hi |-> -2]
NoAnswer == [lo |-> 0, hi |-> -1]

Combine(x, y) ==
    IF x.lo = x.hi THEN y
    ELSE IF y.lo = y.hi THEN x
    ELSE IF x.hi = y.lo /\ x # Torn /\ y # Torn THEN Product(x.lo, y.hi)
    ELSE Torn

-----------------------------------------------------------------------------
(* Cursor movement.  lim is the chain's extent, which an insertion may     *)
(* already have grown when it moves a cursor.                              *)

CanAdvance(c, lim) == c + 1 < lim
CanRetreat(c) == c - 1 >= base

-----------------------------------------------------------------------------
(* One repair step, planned by ft_daba_compute_fixup and carried out by    *)
(* ft_daba_apply_fixup.  front and end are the window the call is about to *)
(* publish, its the slots including a newly stored element, gone the slots *)
(* the call clears once the repair is done.                                *)

\* The front list is used up: the back list becomes the front list and the
\* reversal of it starts.
Flips == l = b

FlipL(front) == IF Flips THEN front ELSE l
FlipA(end) == IF Flips THEN end ELSE a
FlipB(end) == IF Flips THEN end ELSE b
\* Faulty variant: the flip keeps the old front aggregate.
FlipRAStale(ra, bb) == ra

FlipRA(ra, bb) == IF Flips THEN bb ELSE ra
FlipAggB(bb) == IF Flips THEN Identity ELSE bb

\* Staged values ft_daba_compute_fixup reserves in the temp pool.
FixupTemps(front, end) ==
    IF front = b \/ FlipL(front) = r THEN 3
    ELSE IF FlipA(end) = FlipB(end) THEN 5
    ELSE 4

\* ft_daba_compute_fixup returns FT_STATUS_OK: every cursor it moves stays
\* in the chain, every slot it reads is occupied, and the pool suffices.
FixupOK(front, end, its, lim, used) ==
    /\ used + FixupTemps(front, end) <= ScratchCount
    /\ front # b /\ FlipL(front) = r =>
         CanAdvance(r, lim) /\ CanAdvance(FlipA(end), lim)
    /\ front # b /\ FlipL(front) # r =>
         /\ CanAdvance(FlipL(front), lim)
         /\ CanRetreat(FlipA(end))
         /\ FlipL(front) \in DOMAIN its
         /\ FlipA(end) - 1 \in DOMAIN its
         /\ FlipA(end) # FlipB(end) => FlipA(end) \in DOMAIN its

\* Faulty variant: the evicted slot is not cleared.
WithoutClearing(its, gone) == its

\* The slots after ft_daba_slot_clear on each slot of gone.
Without(its, gone) == [i \in DOMAIN its \ gone |-> its[i]]

\* The window shrank to the back list, or was empty: nothing is left to
\* reverse and all four inner cursors meet at the end.
FixupReset(front, end, its, gone) ==
    /\ front = b
    /\ l' = end /\ r' = end /\ a' = end /\ b' = end
    /\ aggRA' = Identity /\ aggB' = Identity
    /\ items' = Without(its, gone)

\* Faulty variant: cursor a stays behind.
AdvanceAStays(end) == FlipA(end)

AdvanceA(end) == FlipA(end) + 1

\* Both halves of the reversal are exhausted: the accumulator gives up its
\* first slot, which already holds a suffix product.
FixupAdvance(front, end, its, gone, bb) ==
    /\ front # b
    /\ FlipL(front) = r
    /\ l' = FlipL(front) + 1
    /\ r' = r + 1
    /\ a' = AdvanceA(end)
    /\ b' = FlipB(end)
    /\ aggRA' = Identity
    /\ aggB' = FlipAggB(bb)
    /\ items' = Without(its, gone)

\* One slot of the left half and one of the right half are replaced by
\* suffix products of the front list.
FixupShrink(front, end, its, gone, ra, bb) ==
    LET left == FlipL(front)
        beforeA == FlipA(end) - 1
        productA == IF FlipA(end) = FlipB(end) THEN Identity ELSE its[FlipA(end)]
        first == Combine(its[left], FlipRA(ra, bb))
        second == Combine(its[beforeA], productA)
    IN  /\ front # b
        /\ left # r
        /\ l' = left + 1
        /\ r' = r
        /\ a' = beforeA
        /\ b' = FlipB(end)
        /\ aggRA' = FlipRA(ra, bb)
        /\ aggB' = FlipAggB(bb)
        /\ items' = Without([its EXCEPT ![left] = first, ![beforeA] = second], gone)

ApplyFixup(front, end, its, gone, ra, bb) ==
    \/ FixupReset(front, end, its, gone)
    \/ FixupAdvance(front, end, its, gone, bb)
    \/ FixupShrink(front, end, its, gone, ra, bb)

-----------------------------------------------------------------------------
(* Operations of a handle.                                                 *)

rep == <<f, l, r, a, b, e, base, limit, items, aggRA, aggB, count>>

\* An empty window over the fresh block at the end of the chain so far.
EmptyWindow ==
    /\ f' = limit /\ l' = limit /\ r' = limit
    /\ a' = limit /\ b' = limit /\ e' = limit
    /\ base' = limit
    /\ items' = [i \in {} |-> Identity]
    /\ aggRA' = Identity /\ aggB' = Identity
    /\ count' = 0
    /\ answer' = NoAnswer

\* ft_daba_lite_create that returns FT_STATUS_OK.
Create(h) ==
    /\ owner = NoHandle
    /\ owner' = h
    /\ limit' = limit + BlockCapacity
    /\ EmptyWindow

\* A call on a handle that owns no rep: ft_daba_lite_create without memory,
\* ft_daba_lite_destroy twice, or any operation on a moved-from handle.
Detached(h) ==
    /\ owner # h
    /\ answer' = NoAnswer
    /\ UNCHANGED <<owner, rep>>

\* ft_daba_lite_move into a handle that owns no rep.
Move(h, g) ==
    /\ owner = h
    /\ owner' = g
    /\ answer' = NoAnswer
    /\ UNCHANGED rep

\* ft_daba_lite_destroy: every occupied slot and every block is released.
Destroy(h) ==
    /\ owner = h
    /\ owner' = NoHandle
    /\ limit' = limit
    /\ EmptyWindow

\* The slots after ft_daba_slot_take stored a new element at position p.
Store(p) == [i \in DOMAIN items \cup {p} |-> IF i = p THEN Product(p, p + 1) ELSE items[i]]

\* The chain's extent after an insertion at e: a successor block is linked
\* when e takes the last slot of the last block.
GrownLimit == IF e + 1 < limit THEN limit ELSE limit + BlockCapacity

\* Faulty variant: an insertion also stages both old aggregates.
InsertTempsCopied == 4

\* Staged values an insertion holds before its repair step: the new back
\* aggregate and the stored value.
InsertTemps == 2

InsertOK ==
    /\ e \notin DOMAIN items
    /\ FixupOK(f, e + 1, Store(e), GrownLimit, InsertTemps)

\* ft_daba_lite_insert that returns FT_STATUS_OK.
Insert(h) ==
    /\ owner = h
    /\ count # MaxCount
    /\ InsertOK
    /\ ApplyFixup(f, e + 1, Store(e), {}, aggRA, Combine(aggB, Product(e, e + 1)))
    /\ e' = e + 1
    /\ limit' = GrownLimit
    /\ count' = count + 1
    /\ answer' = NoAnswer
    /\ UNCHANGED <<owner, f, base>>

\* ft_daba_lite_insert that stops with FT_STATUS_OVERFLOW at SIZE_MAX, with
\* FT_STATUS_NO_MEMORY when the successor block cannot be allocated, or with
\* FT_STATUS_INVALID_ARGUMENT after taking its element and its block back.
InsertFails(h) ==
    /\ owner = h
    /\ count = MaxCount \/ e + 1 = limit \/ ~InsertOK
    /\ answer' = NoAnswer
    /\ UNCHANGED <<owner, rep>>

\* Faulty variant: retired blocks are kept.
TrimBeforeNever(front) == base

\* ft_daba_trim_before: blocks in front of the one holding the new front are
\* released.  The front moves by one slot, so at most one block goes.
TrimBefore(front) == IF front >= base + BlockCapacity THEN base + BlockCapacity ELSE base

EvictOK ==
    /\ CanAdvance(f, limit)
    /\ FixupOK(f + 1, e, items, limit, 0)

\* ft_daba_lite_try_evict and ft_daba_lite_evict that remove the front.
Evict(h) ==
    /\ owner = h
    /\ count # 0
    /\ EvictOK
    /\ ApplyFixup(f + 1, e, items, {f}, aggRA, aggB)
    /\ f' = f + 1
    /\ base' = TrimBefore(f + 1)
    /\ count' = count - 1
    /\ answer' = NoAnswer
    /\ UNCHANGED <<owner, e, limit>>

\* ft_daba_lite_try_evict that leaves the window alone: it is empty, or the
\* repair could not be planned.
EvictFails(h) ==
    /\ owner = h
    /\ count = 0 \/ ~EvictOK
    /\ answer' = NoAnswer
    /\ UNCHANGED <<owner, rep>>

\* ft_daba_lite_clear: a replacement block is allocated first, then the whole
\* old chain is destroyed.
Clear(h) ==
    /\ owner = h
    /\ count # 0
    /\ limit' = limit + BlockCapacity
    /\ EmptyWindow
    /\ UNCHANGED owner

\* ft_daba_lite_clear of an empty window, or without memory for the
\* replacement block.
ClearFails(h) ==
    /\ owner = h
    /\ answer' = NoAnswer
    /\ UNCHANGED <<owner, rep>>

\* Faulty variants: the operands are swapped; the back list is forgotten.
AnswerSwapped == IF count = 0 THEN Identity ELSE Combine(aggB, items[f])
AnswerFrontOnly == IF count = 0 THEN Identity ELSE items[f]

\* ft_daba_lite_aggregate.
Answer == IF count = 0 THEN Identity ELSE Combine(items[f], aggB)

Aggregate(h) ==
    /\ owner = h
    /\ count # 0 => f \in DOMAIN items
    /\ answer' = Answer
    /\ UNCHANGED <<owner, rep>>

Init ==
    /\ owner = NoHandle
    /\ f = 0 /\ l = 0 /\ r = 0 /\ a = 0 /\ b = 0 /\ e = 0
    /\ base = 0 /\ limit = 0
    /\ items = [i \in {} |-> Identity]
    /\ aggRA = Identity /\ aggB = Identity
    /\ count = 0
    /\ answer = NoAnswer

Next ==
    \E h \in Handles :
        \/ Create(h) \/ Destroy(h) \/ Detached(h)
        \/ \E g \in Handles \ {h} : Move(h, g)
        \/ Insert(h) \/ InsertFails(h)
        \/ Evict(h) \/ EvictFails(h)
        \/ Clear(h) \/ ClearFails(h)
        \/ Aggregate(h)

Spec == Init /\ [][Next]_vars

-----------------------------------------------------------------------------
(* Correctness.                                                            *)

Values == [lo : Int, hi : Int]

\* v is the product of the arrivals i .. j-1.
IsProduct(v, i, j) == IF i < j THEN v = Product(i, j) ELSE v.lo = v.hi

\* Where the product held by slot i ends, for the cursors ll, rr, aa, bb.
SlotEnd(i, ll, rr, aa, bb) ==
    IF i < ll \/ (aa <= i /\ i < bb) THEN bb
    ELSE IF i < rr THEN rr
    ELSE i + 1

\* The variables keep their types: six cursors and two chain bounds in the
\* stream of slots, a finite map from occupied slots to monoid values.
TypeOK ==
    /\ owner \in Handles \cup {NoHandle}
    /\ f \in Nat /\ l \in Nat /\ r \in Nat
    /\ a \in Nat /\ b \in Nat /\ e \in Nat
    /\ base \in Nat /\ limit \in Nat /\ count \in Nat
    /\ DOMAIN items = f .. e - 1
    /\ \A i \in f .. e - 1 : items[i] \in Values
    /\ aggRA \in Values /\ aggB \in Values /\ answer \in Values

\* The cursors keep their order and the region lengths of
\* ft_daba_lite_validate: the left half is as long as the right half, and as
\* many front slots as the back list has, and one more, are finished.
Regions ==
    /\ f <= l /\ l <= r /\ r <= a /\ a <= b /\ b <= e
    /\ count = e - f
    /\ count = 0 => f = l /\ l = r /\ r = a /\ a = b
    /\ count # 0 => r - l = a - r /\ l - f = e - b + 1

\* What every slot and both running aggregates stand for.  A finished slot
\* of the front list and a slot of the accumulator hold the product up to b,
\* a slot of the left half the product up to r, any other its own element.
Contents ==
    /\ \A i \in f .. e - 1 : items[i] = Product(i, SlotEnd(i, l, r, a, b))
    /\ IsProduct(aggB, b, e)
    /\ l < r => IsProduct(aggRA, r, b)

\* The chain holds the window and the slot that the next element takes, and
\* never more than two blocks' worth of slots less one besides the window
\* (ft_daba_lite_validate's slack_slot_count).
ChainExtent ==
    /\ base <= f /\ e <= limit
    /\ owner # NoHandle =>
         /\ f < base + BlockCapacity
         /\ e < limit
         /\ limit <= e + BlockCapacity
         /\ (limit - base) - count \in 1 .. 2 * BlockCapacity - 1
    /\ owner = NoHandle => count = 0

\* The plan of a repair step never fails on a window that may grow or shrink:
\* no cursor leaves the chain, no slot it reads is vacant, and the staged
\* values fit FT_DABA_SCRATCH_COUNT, so an insertion or an eviction fails
\* only for want of memory, at SIZE_MAX or on an empty window.
PlansSucceed ==
    owner # NoHandle => InsertOK /\ (count # 0 => EvictOK)

\* A query returns the ordered product of exactly the elements in the window,
\* whatever insertions, evictions and clears came before it.
AggregateCorrect ==
    answer # NoAnswer => IsProduct(answer, f, e)

\* The window with its queries is all a client sees of the structure.
Window == INSTANCE SlidingWindow WITH lo <- f, hi <- e

\* Every step of the structure is a step of the sliding window or leaves it
\* alone: arrivals leave in arrival order, none is lost or repeated, and a
\* failed call changes nothing.
ImplementsWindow == Window!Spec

\* The states a run explores: the stream of slots is cut off after eight blocks.
\* The invariants relate positions to one another, so a longer stream repeats the
\* windows that fit below it.
Explored == limit <= 8 * BlockCapacity
==============================================================================
