----------------------------- MODULE GapCursor -----------------------------
(***************************************************************************)
(* Gap cursors on the measured tree, on the persistent deque and on the    *)
(* reversible deque (fingertree.c): a tree of their own and a position.  The tree is the    *)
(* sequence that module FingerTree shows it to be; a cursor call edits a   *)
(* staged copy and publishes it in place of its source or in an empty      *)
(* cursor.                                                                 *)
(***************************************************************************)
EXTENDS Naturals, SequencesExt

CONSTANTS Values, Trees, Cursors, Unset,
          MaxSize,  \* values of the largest tree
          MaxInsert \* values of the longest inserted array
VARIABLES tree, cur

vars == <<tree, cur>>

Open == {c \in Cursors : cur[c] # Unset}
Held == {h \in Trees : tree[h] # Unset}

PutIn(q, p, vs) == SubSeq(q, 1, p) \o vs \o SubSeq(q, p + 1, Len(q))
Without(q, p) == SubSeq(q, 1, p) \o SubSeq(q, p + 2, Len(q))

\* The place at which a monotone predicate turns true, or the end.
FindPosition(q, k) == IF Len(q) > k THEN k ELSE Len(q)

Stage(q, p) == [tree |-> q, position |-> p]

Valid(c) == c.position <= Len(c.tree)
PeekPrevious(c) == IF c.position = 0 THEN Unset ELSE c.tree[c.position]
PeekNext(c) == IF c.position = Len(c.tree) THEN Unset ELSE c.tree[c.position + 1]
MeasureSide(c) == [before |-> SubSeq(c.tree, 1, c.position), after |-> SubSeq(c.tree, c.position + 1, Len(c.tree))]

\* The staged cursor replaces its source or fills an empty one.
Publish(s, d, c) == s \in Open /\ (d = s \/ d \notin Open) /\ cur' = [cur EXCEPT ![d] = c] /\ UNCHANGED tree

OpenAt(h, c, p) ==
    /\ h \in Held /\ c \notin Open /\ p <= Len(tree[h])
    /\ cur' = [cur EXCEPT ![c] = Stage(tree[h], p)] /\ UNCHANGED tree

GetCursorAtStart(h, c) == OpenAt(h, c, 0)
GetCursorAtEnd(h, c) == h \in Held /\ OpenAt(h, c, Len(tree[h]))
GetCursorByMeasure(h, c, k) == h \in Held /\ OpenAt(h, c, FindPosition(tree[h], k))
GetCursor(h, c, p) == OpenAt(h, c, p)

CursorCopy(s, d) == s # d /\ d \notin Open /\ Publish(s, d, cur[s])
CursorMove(s, d) == s \in Open /\ s # d /\ cur' = [cur EXCEPT ![d] = cur[s], ![s] = Unset] /\ UNCHANGED tree
CursorDispose(c) == c \in Open /\ cur' = [cur EXCEPT ![c] = Unset] /\ UNCHANGED tree

Seek(s, d, p) == s \in Open /\ p <= Len(cur[s].tree) /\ Publish(s, d, Stage(cur[s].tree, p))
MovePrevious(s, d) == s \in Open /\ cur[s].position > 0 /\ Seek(s, d, cur[s].position - 1)
MoveNext(s, d) == s \in Open /\ cur[s].position < Len(cur[s].tree) /\ Seek(s, d, cur[s].position + 1)
SeekByMeasure(s, d, k) == s \in Open /\ Seek(s, d, FindPosition(cur[s].tree, k))

Insert(s, d, v) ==
    /\ s \in Open /\ Len(cur[s].tree) < MaxSize
    /\ LET c == cur[s] IN Publish(s, d, Stage(PutIn(c.tree, c.position, <<v>>), c.position + 1))

DeletePrevious(s, d) ==
    /\ s \in Open /\ cur[s].position > 0
    /\ LET c == cur[s] IN Publish(s, d, Stage(Without(c.tree, c.position - 1), c.position - 1))

DeleteNext(s, d) ==
    /\ s \in Open /\ cur[s].position < Len(cur[s].tree)
    /\ LET c == cur[s] IN Publish(s, d, Stage(Without(c.tree, c.position), c.position))

ReplaceNext(s, d, v) ==
    /\ s \in Open /\ cur[s].position < Len(cur[s].tree)
    /\ LET c == cur[s] IN Publish(s, d, Stage([c.tree EXCEPT ![c.position + 1] = v], c.position))

\* Nothing to insert is a copy of the cursor.
InsertDeque(s, d, q) ==
    /\ s \in Open /\ Len(cur[s].tree) + Len(q) <= MaxSize
    /\ LET c == cur[s] IN
       Publish(s, d, IF q = <<>> THEN c ELSE Stage(PutIn(c.tree, c.position, q), c.position + Len(q)))

FromArray(vs) == vs
InsertArray(s, d, vs) == InsertDeque(s, d, FromArray(vs))

Snapshot(c, h) == c \in Open /\ h \notin Held /\ tree' = [tree EXCEPT ![h] = cur[c].tree] /\ UNCHANGED cur
TreeDispose(h) == h \in Held /\ tree' = [tree EXCEPT ![h] = Unset] /\ UNCHANGED cur

\* The cursors of the reversible deque make the same calls on a deque of their
\* own, and can also turn it around: the position is then counted from the other
\* end.
ReversibleGetCursor(h, c, p) == OpenAt(h, c, p)
ReversibleCopy(s, d) == CursorCopy(s, d)
ReversibleMove(s, d) == CursorMove(s, d)
ReversibleDispose(c) == CursorDispose(c)
ReversibleSeek(s, d, p) == Seek(s, d, p)
ReversibleMovePrevious(s, d) == MovePrevious(s, d)
ReversibleMoveNext(s, d) == MoveNext(s, d)
ReversibleInsert(s, d, v) == Insert(s, d, v)
ReversibleInsertDeque(s, d, q) == InsertDeque(s, d, q)
ReversibleInsertArray(s, d, vs) == ReversibleInsertDeque(s, d, FromArray(vs))
ReversibleDeletePrevious(s, d) == DeletePrevious(s, d)
ReversibleDeleteNext(s, d) == DeleteNext(s, d)
ReversibleReplaceNext(s, d, v) == ReplaceNext(s, d, v)

ReverseCursor(s, d) ==
    s \in Open /\ LET c == cur[s] IN Publish(s, d, Stage(Reverse(c.tree), Len(c.tree) - c.position))

ReversibleSnapshot(c, h) == Snapshot(c, h)

Init == tree \in [Trees -> {Unset, <<>>}] /\ cur = [c \in Cursors |-> Unset]

Next ==
    \/ \E h \in Trees, c \in Cursors :
          \/ GetCursorAtStart(h, c) \/ GetCursorAtEnd(h, c) \/ Snapshot(c, h)
          \/ \E k \in 0..MaxSize : GetCursorByMeasure(h, c, k) \/ GetCursor(h, c, k)
    \/ \E s, d \in Cursors :
          \/ CursorCopy(s, d) \/ CursorMove(s, d) \/ MovePrevious(s, d) \/ MoveNext(s, d)
          \/ DeletePrevious(s, d) \/ DeleteNext(s, d)
          \/ \E k \in 0..MaxSize : Seek(s, d, k) \/ SeekByMeasure(s, d, k)
          \/ \E v \in Values : Insert(s, d, v) \/ ReplaceNext(s, d, v)
          \/ \E n \in 0..MaxInsert : \E vs \in [1..n -> Values] : InsertArray(s, d, vs)
          \/ \E h \in Held : InsertDeque(s, d, tree[h])
    \/ \E c \in Cursors : CursorDispose(c)
    \/ \E h \in Trees : TreeDispose(h)

ReversibleNext ==
    \/ \E h \in Trees, c \in Cursors :
          ReversibleSnapshot(c, h) \/ \E p \in 0..MaxSize : ReversibleGetCursor(h, c, p)
    \/ \E s, d \in Cursors :
          \/ ReversibleCopy(s, d) \/ ReversibleMove(s, d) \/ ReversibleMovePrevious(s, d) \/ ReversibleMoveNext(s, d)
          \/ ReversibleDeletePrevious(s, d) \/ ReversibleDeleteNext(s, d) \/ ReverseCursor(s, d)
          \/ \E p \in 0..MaxSize : ReversibleSeek(s, d, p)
          \/ \E v \in Values : ReversibleInsert(s, d, v) \/ ReversibleReplaceNext(s, d, v)
          \/ \E n \in 0..MaxInsert : \E vs \in [1..n -> Values] : ReversibleInsertArray(s, d, vs)
          \/ \E h \in Held : ReversibleInsertDeque(s, d, tree[h])
    \/ \E c \in Cursors : ReversibleDispose(c)
    \/ \E h \in Trees : TreeDispose(h)

Spec == Init /\ [][Next]_vars
ReversibleSpec == Init /\ [][ReversibleNext]_vars

-----------------------------------------------------------------------------
\* A cursor stays inside its tree, and what it peeks at and measures on its two
\* sides fits together.
CursorsValid ==
    \A c \in Open :
       /\ Valid(cur[c])
       /\ LET sides == MeasureSide(cur[c]) IN
          /\ sides.before \o sides.after = cur[c].tree
          /\ PeekPrevious(cur[c]) = IF sides.before = <<>> THEN Unset ELSE Last(sides.before)
          /\ PeekNext(cur[c]) = IF sides.after = <<>> THEN Unset ELSE Head(sides.after)

GapsOf(cs) == [c \in Cursors |-> IF cs[c] = Unset THEN Unset ELSE MeasureSide(cs[c])] @@ <<>>
Gap == INSTANCE PersistentSequence WITH Handles <- Trees, MaxSource <- 0, content <- tree

\* Every call moves the gap or edits beside it, as a list editor's would, and no
\* call disturbs another cursor or a tree it was opened on; a cursor whose deque
\* is turned around has the same two values beside it, swapped.
CursorKeepsPromise == \E now \in {cur}, new \in {cur'} : Gap!GapStep(GapsOf(now), GapsOf(new), tree, tree')
=============================================================================
