---------------------------- MODULE MeasuredRope ----------------------------
(***************************************************************************)
(* The measured rope of fingertree.c with its cursor, and the text rope on *)
(* top of it.  A chunk keeps the measure of its values beside them, and    *)
(* the tree measures a chunk by the pair of its length and that measure.   *)
(* The measure here is the sequence of the marks among the values, the     *)
(* freest one a predicate on counted marks can be asked of; in a text the  *)
(* marks are the newlines.  A call leaves its result in an empty rope or   *)
(* cursor, or in place of its source.                                      *)
(***************************************************************************)
EXTENDS Naturals, SequencesExt

CONSTANTS Values, Marks, Ropes, Cursors, Unset,
          MaxChunk, \* values of a full chunk
          MaxSize,  \* values of the longest rope
          MaxArray  \* values of the longest array a call takes
VARIABLES rope, cur

vars == <<rope, cur>>

Held == {h \in Ropes : rope[h] # Unset}
Open == {c \in Cursors : cur[c] # Unset}

-----------------------------------------------------------------------------
\* Chunks and their measures.

MeasureOf(v) == IF v \in Marks THEN <<v>> ELSE <<>>
ComputeMeasure(items) == FoldLeft(LAMBDA acc, v : acc \o MeasureOf(v), <<>>, items)
ChunkOf(items) == [items |-> items, measure |-> ComputeMeasure(items)]
ChunkSlice(c, i, n) == ChunkOf(SubSeq(c.items, i + 1, i + n))

\* The joined chunk keeps the measure of its left part.
ChunkConcatStale(a, b) == [items |-> a.items \o b.items, measure |-> a.measure]

ChunkConcat(a, b) == ChunkOf(a.items \o b.items)
ChunkInsert(c, i, v) == ChunkOf(SubSeq(c.items, 1, i) \o <<v>> \o SubSeq(c.items, i + 1, Len(c.items)))

ChunkRemove(c, i) == ChunkOf(RemoveAt(c.items, i + 1))

\* The pair the tree keeps for a run of chunks.
Identity == [length |-> 0, user |-> <<>>]
PairOf(c) == [length |-> Len(c.items), user |-> c.measure]
Combine(l, r) == [length |-> l.length + r.length, user |-> l.user \o r.user]
TreeMeasure(r) == FoldLeft(LAMBDA acc, c : Combine(acc, PairOf(c)), Identity, r)

-----------------------------------------------------------------------------
\* Ropes.

Visit(r) == FoldLeft(LAMBDA acc, c : acc \o c.items, <<>>, r)
Size(r) == TreeMeasure(r).length
Measure(r) == TreeMeasure(r).user

Prefix(r, i) == SubSeq(r, 1, i - 1)
Suffix(r, i) == SubSeq(r, i + 1, Len(r))

FirstOrNone(hits) == IF hits = {} THEN 0 ELSE Min(hits)
\* The first chunk at whose end the predicate holds, 0 when there is none.
TreeLocate(r, Reached(_)) == FirstOrNone({i \in DOMAIN r : Reached(TreeMeasure(SubSeq(r, 1, i)))})
LocateIndex(r, threshold) == TreeLocate(r, LAMBDA m : m.length >= threshold)

ChunksOf(vs) ==
    LET count == Len(vs)
        chunks == (count + MaxChunk - 1) \div MaxChunk
        From(i) == (i - 1) * MaxChunk
    IN  [i \in 1..chunks |-> ChunkOf(SubSeq(vs, From(i) + 1, IF i < chunks THEN From(i + 1) ELSE count))] @@ <<>>

ValueInChunk(r, index, i) == r[i].items[index - Size(Prefix(r, i)) + 1]
ValueAt(r, index) == ValueInChunk(r, index, LocateIndex(r, index + 1))

\* The marks of the first values: whole chunks from the tree, then value by value.
MeasureInChunk(chunk, count, before) ==
    before.user \o ComputeMeasure(SubSeq(chunk.items, 1, count - before.length))
MeasureTo(r, count, i) == MeasureInChunk(r[i], count, TreeMeasure(Prefix(r, i)))
PrefixMeasure(r, count) ==
    IF count = 0 THEN <<>>
    ELSE IF count = Size(r) THEN Measure(r)
    ELSE MeasureTo(r, count, LocateIndex(r, count))

SingleChunk(c) == IF c.items = <<>> THEN <<>> ELSE <<c>>
ReplacementFromChunk(c) ==
    LET n == Len(c.items) IN
    IF n <= MaxChunk THEN SingleChunk(c)
    ELSE <<ChunkSlice(c, 0, n \div 2), ChunkSlice(c, n \div 2, n - n \div 2)>>

ConcatRaw(l, r) == l \o r
Concat(l, r) ==
    IF l = <<>> \/ r = <<>> THEN ConcatRaw(l, r)
    ELSE IF Len(Last(l).items) + Len(Head(r).items) > MaxChunk THEN ConcatRaw(l, r)
    ELSE Append(Front(l), ChunkConcat(Last(l), Head(r))) \o Tail(r)

CoalesceTail(r) == IF Len(r) < 2 THEN r ELSE Concat(Front(r), SingleChunk(Last(r)))
CoalesceHead(r) == IF Len(r) < 2 THEN r ELSE Concat(SingleChunk(Head(r)), Tail(r))

SplitChunk(r, i, k) ==
    <<CoalesceTail(Prefix(r, i) \o SingleChunk(ChunkSlice(r[i], 0, k))),
      CoalesceHead(SingleChunk(ChunkSlice(r[i], k, Len(r[i].items) - k)) \o Suffix(r, i))>>
SplitIn(r, index, i) == SplitChunk(r, i, index - Size(Prefix(r, i)))
SplitAt(r, index) ==
    IF index = 0 THEN <<<<>>, r>>
    ELSE IF index = Size(r) THEN <<r, <<>>>>
    ELSE SplitIn(r, index, LocateIndex(r, index + 1))

Replaced(r, i, chunk) == Concat(Concat(Prefix(r, i), ReplacementFromChunk(chunk)), Suffix(r, i))
InsertIn(r, index, v, i) == Replaced(r, i, ChunkInsert(r[i], index - Size(Prefix(r, i)), v))
InsertValue(r, index, v) ==
    IF r = <<>> THEN ChunksOf(<<v>>)
    ELSE InsertIn(r, index, v, LocateIndex(r, IF index = Size(r) THEN index ELSE index + 1))

RemoveIn(r, index, i) == Replaced(r, i, ChunkRemove(r[i], index - Size(Prefix(r, i))))
RemoveValue(r, index) == RemoveIn(r, index, LocateIndex(r, index + 1))

\* Inside the chunk the tree found, the first value with n marks up to it, which
\* is where a monotone predicate turns true, and the marks in front of it.
MarksAfter(before, chunk, k) == before.user \o ComputeMeasure(SubSeq(chunk.items, 1, k))
LocateHit(before, chunk, k) ==
    [found |-> TRUE, index |-> before.length + k - 1, before |-> MarksAfter(before, chunk, k - 1)]
LocateInChunk(before, chunk, n) ==
    LocateHit(before, chunk, CHOOSE j \in 1..Len(chunk.items) :
       /\ Len(MarksAfter(before, chunk, j)) >= n
       /\ \A m \in 1..(j - 1) : Len(MarksAfter(before, chunk, m)) < n)
LocateFrom(r, n, i) ==
    IF i = 0 THEN [found |-> FALSE, index |-> Size(r), before |-> Measure(r)]
    ELSE LocateInChunk(TreeMeasure(Prefix(r, i)), r[i], n)
LocateByMeasure(r, n) == LocateFrom(r, n, TreeLocate(r, LAMBDA m : Len(m.user) >= n))

SplitAtHit(r, hit) == IF hit.found THEN SplitAt(r, hit.index) ELSE <<r, <<>>>>
SplitByMeasure(r, n) == SplitAtHit(r, LocateByMeasure(r, n))

-----------------------------------------------------------------------------
\* Texts: lines and columns count from zero.

LineCount(r) == Len(Measure(r)) + 1
LineOfOffset(r, offset) == Len(PrefixMeasure(r, offset))

LineStartOffset(r, line) ==
    IF line = 0 THEN 0 ELSE LocateByMeasure(r, line).index + 1
PlaceOn(r, offset, line) == [line |-> line, column |-> offset - LineStartOffset(r, line)]
LineColumnOf(r, offset) ==
    PlaceOn(r, offset, LineOfOffset(r, offset))
WithinLine(start, column, end) == IF column > end - start THEN Unset ELSE start + column
\* Unset when there is no such line or the line is shorter.
OffsetOf(r, line, column) ==
    IF line > Len(Measure(r)) THEN Unset
    ELSE WithinLine(LineStartOffset(r, line), column,
                    IF line < Len(Measure(r)) THEN LocateByMeasure(r, line + 1).index ELSE Size(r))

-----------------------------------------------------------------------------
\* Calls on ropes.

\* These calls write a fresh rope.  With h = s the step stands for such a call
\* and the dispose and move by which its caller puts the result in place.
Result(s, h, r) ==
    /\ s \in Held /\ (h = s \/ h \notin Held) /\ Size(r) <= MaxSize
    /\ rope' = [rope EXCEPT ![h] = r] /\ UNCHANGED cur

RopeInit(h) == h \notin Held /\ rope' = [rope EXCEPT ![h] = <<>>] /\ UNCHANGED cur
FromArray(h, vs) == h \notin Held /\ rope' = [rope EXCEPT ![h] = ChunksOf(vs)] /\ UNCHANGED cur
RopeCopy(s, h) == s \in Held /\ Result(s, h, rope[s])
RopeMove(s, h) == s \in Held /\ h # s /\ rope' = [rope EXCEPT ![h] = rope[s], ![s] = Unset] /\ UNCHANGED cur
RopeDispose(h) == h \in Held /\ rope' = [rope EXCEPT ![h] = Unset] /\ UNCHANGED cur
Halves(s, l, r, both) ==
    /\ s \in Held /\ l # r /\ {l, r} \cap Held = {}
    /\ rope' = [rope EXCEPT ![l] = both[1], ![r] = both[2]] /\ UNCHANGED cur
RopeSplitAt(s, l, r, i) == s \in Held /\ i <= Size(rope[s]) /\ Halves(s, l, r, SplitAt(rope[s], i))
RopeSplitByMeasure(s, l, r, n) == s \in Held /\ Halves(s, l, r, SplitByMeasure(rope[s], n))
RopeConcat(s, t, h) == {s, t} \subseteq Held /\ Result(s, h, Concat(rope[s], rope[t]))
RopeInsertAt(s, h, i, v) == s \in Held /\ i <= Size(rope[s]) /\ Result(s, h, InsertValue(rope[s], i, v))
PushBack(s, h, v) == s \in Held /\ RopeInsertAt(s, h, Size(rope[s]), v)
RopeRemoveAt(s, h, i) == s \in Held /\ i < Size(rope[s]) /\ Result(s, h, RemoveValue(rope[s], i))

-----------------------------------------------------------------------------
\* Calls on cursors.

Stage(r, p) == [rope |-> r, position |-> p]
Valid(c) == c.position <= Size(c.rope)
PeekPrevious(c) == IF c.position = 0 THEN Unset ELSE ValueAt(c.rope, c.position - 1)
PeekNext(c) == IF c.position = Size(c.rope) THEN Unset ELSE ValueAt(c.rope, c.position)
MeasureBefore(c) == PrefixMeasure(c.rope, c.position)
MeasureAfter(c) == Measure(SplitAt(c.rope, c.position)[2])

Publish(s, d, c) ==
    /\ s \in Open /\ (d = s \/ d \notin Open) /\ Size(c.rope) <= MaxSize
    /\ cur' = [cur EXCEPT ![d] = c] /\ UNCHANGED rope

GetCursor(h, c, p) ==
    /\ h \in Held /\ c \notin Open /\ p <= Size(rope[h])
    /\ cur' = [cur EXCEPT ![c] = Stage(rope[h], p)] /\ UNCHANGED rope
GetCursorByMeasure(h, c, n) ==
    h \in Held /\ GetCursor(h, c, LocateByMeasure(rope[h], n).index)
CursorCopy(s, d) == s # d /\ d \notin Open /\ Publish(s, d, cur[s])
CursorMove(s, d) == s \in Open /\ s # d /\ cur' = [cur EXCEPT ![d] = cur[s], ![s] = Unset] /\ UNCHANGED rope
CursorDispose(c) == c \in Open /\ cur' = [cur EXCEPT ![c] = Unset] /\ UNCHANGED rope
Seek(s, d, p) == s \in Open /\ p <= Size(cur[s].rope) /\ Publish(s, d, Stage(cur[s].rope, p))
MovePrevious(s, d) == s \in Open /\ cur[s].position > 0 /\ Seek(s, d, cur[s].position - 1)
MoveNext(s, d) == s \in Open /\ Seek(s, d, cur[s].position + 1)
SeekByMeasure(s, d, n) == s \in Open /\ Seek(s, d, LocateByMeasure(cur[s].rope, n).index)
Insert(s, d, v) ==
    s \in Open /\ LET c == cur[s] IN Publish(s, d, Stage(InsertValue(c.rope, c.position, v), c.position + 1))
InsertRope(s, d, r) ==
    /\ s \in Open
    /\ \E c \in {cur[s]} : \E both \in {SplitAt(c.rope, c.position)} :
          Publish(s, d, IF r = <<>> THEN c ELSE Stage(Concat(Concat(both[1], r), both[2]), c.position + Size(r)))
InsertArray(s, d, vs) == InsertRope(s, d, ChunksOf(vs))
DeletePrevious(s, d) ==
    /\ s \in Open /\ cur[s].position > 0
    /\ LET c == cur[s] IN Publish(s, d, Stage(RemoveValue(c.rope, c.position - 1), c.position - 1))
DeleteNext(s, d) ==
    /\ s \in Open /\ cur[s].position < Size(cur[s].rope)
    /\ LET c == cur[s] IN Publish(s, d, Stage(RemoveValue(c.rope, c.position), c.position))
ReplaceNext(s, d, v) ==
    /\ s \in Open /\ cur[s].position < Size(cur[s].rope)
    /\ LET c == cur[s] IN
       Publish(s, d, Stage(InsertValue(RemoveValue(c.rope, c.position), c.position, v), c.position))
Snapshot(c, h) == c \in Open /\ h \notin Held /\ rope' = [rope EXCEPT ![h] = cur[c].rope] /\ UNCHANGED cur

-----------------------------------------------------------------------------
Arrays == UNION {[1..n -> Values] : n \in 0..MaxArray}

Init == rope = [h \in Ropes |-> Unset] /\ cur = [c \in Cursors |-> Unset]

Next ==
    \/ \E h \in Ropes : RopeInit(h) \/ RopeDispose(h) \/ \E vs \in Arrays : FromArray(h, vs)
    \/ \E s, h \in Ropes :
          \/ RopeCopy(s, h) \/ RopeMove(s, h) \/ \E v \in Values : PushBack(s, h, v)
          \/ \E t \in Ropes :
                \/ RopeConcat(s, t, h)
                \/ \E i \in 0..MaxSize : RopeSplitAt(s, t, h, i) \/ RopeSplitByMeasure(s, t, h, i + 1)
          \/ \E i \in 0..MaxSize : RopeRemoveAt(s, h, i) \/ \E v \in Values : RopeInsertAt(s, h, i, v)
    \/ \E h \in Ropes, c \in Cursors :
          Snapshot(c, h) \/ \E p \in 0..MaxSize : GetCursor(h, c, p) \/ GetCursorByMeasure(h, c, p + 1)
    \/ \E s, d \in Cursors :
          \/ CursorCopy(s, d) \/ CursorMove(s, d) \/ MovePrevious(s, d) \/ MoveNext(s, d)
          \/ DeletePrevious(s, d) \/ DeleteNext(s, d)
          \/ \E p \in 0..MaxSize : Seek(s, d, p) \/ SeekByMeasure(s, d, p + 1)
          \/ \E v \in Values : Insert(s, d, v) \/ ReplaceNext(s, d, v)
          \/ \E vs \in Arrays : InsertArray(s, d, vs)
          \/ \E h \in Held : InsertRope(s, d, rope[h])
    \/ \E c \in Cursors : CursorDispose(c)

Spec == Init /\ [][Next]_vars

-----------------------------------------------------------------------------
Versions == {rope[h] : h \in Held} \cup {cur[c].rope : c \in Open}
MarksIn(q) == SelectSeq(q, LAMBDA v : v \in Marks)

\* The measure kept with each chunk is the measure of its values, chunks are
\* neither empty nor oversized, and neighbours do not fit into one.
ChunksMeasured ==
    \A r \in Versions :
       /\ \A i \in DOMAIN r : r[i].measure = MarksIn(r[i].items) /\ Len(r[i].items) \in 1..MaxChunk
       /\ \A i \in 1..(Len(r) - 1) : Len(r[i].items) + Len(r[i + 1].items) > MaxChunk

\* What a search by measure finds is the first value with that many marks up to
\* it, and the measures on the two sides of any place are those of the sequence.
MeasuresExact ==
    \A r \in Versions : \A q \in {Visit(r)} :
       /\ \A n \in 0..Len(q) :
             /\ PrefixMeasure(r, n) = MarksIn(SubSeq(q, 1, n))
             /\ MeasureAfter(Stage(r, n)) = MarksIn(SubSeq(q, n + 1, Len(q)))
       /\ \A n \in 1..(Len(q) + 1) : \A hit \in {LocateByMeasure(r, n)} :
             /\ hit.found = (n <= Len(MarksIn(q)))
             /\ hit.before = MarksIn(SubSeq(q, 1, hit.index))
             /\ IF hit.found THEN Len(hit.before) = n - 1 /\ q[hit.index + 1] \in Marks ELSE hit.index = Len(q)

\* Lines and columns and offsets are each other's inverse, a line's offsets end
\* before its newline, and no other place is accepted.
LinesExact ==
    \A r \in Versions : \A q \in {Visit(r)} :
       /\ \A o \in 0..Len(q) : \A at \in {LineColumnOf(r, o)} :
             /\ at.line < LineCount(r) /\ OffsetOf(r, at.line, at.column) = o
             /\ \A i \in (o - at.column + 1)..o : q[i] \notin Marks
       /\ \A l, c \in 0..(Len(q) + 1) : \A o \in {OffsetOf(r, l, c)} :
             o # Unset => LineColumnOf(r, o) = [line |-> l, column |-> c]

ContentOf(rs) == [h \in Ropes |-> IF rs[h] = Unset THEN Unset ELSE Visit(rs[h])] @@ <<>>
SidesOf(q, position) == [before |-> SubSeq(q, 1, position), after |-> SubSeq(q, position + 1, Len(q))]
Sides(c) == SidesOf(Visit(c.rope), c.position)
Line == INSTANCE PersistentSequence WITH Handles <- Ropes, MaxSource <- MaxArray, MaxInsert <- MaxSize,
        content <- ContentOf(rope)
GapsOf(cs) == [c \in Cursors |-> IF cs[c] = Unset THEN Unset ELSE Sides(cs[c])] @@ <<>>

\* A rope call does to its sequence what a sequence's call does, a cursor call
\* edits beside its gap, and neither changes another rope or cursor.
MeasuredRopeKeepsPromise ==
    \E ropes \in {rope'}, cursors \in {cur'} :
       \/ Line!EditStep(ContentOf(rope), ContentOf(ropes)) /\ cursors = cur
       \/ Line!GapStep(GapsOf(cur), GapsOf(cursors), ContentOf(rope), ContentOf(ropes))
=============================================================================
