-------------------------------- MODULE Rope --------------------------------
(***************************************************************************)
(* The rope of fingertree.c and its gap cursor.  A rope is a tree of       *)
(* chunks measured by their lengths, here the sequence of its chunks; a    *)
(* chunk is a non-empty array of at most MaxChunk values.  Calls work on   *)
(* the chunk that an index falls into and merge it with its neighbours     *)
(* where they fit together.  A call leaves its result in an empty rope or  *)
(* cursor, or in place of its source.                                      *)
(***************************************************************************)
EXTENDS Naturals, SequencesExt

CONSTANTS Values, Ropes, Cursors, Unset,
          MaxChunk, \* values of a full chunk
          MaxSize,  \* values of the longest rope
          MaxArray  \* values of the longest array a call takes
VARIABLES rope, cur

vars == <<rope, cur>>

Held == {h \in Ropes : rope[h] # Unset}
Open == {c \in Cursors : cur[c] # Unset}

-----------------------------------------------------------------------------
\* Chunks.

Slice(chunk, i, n) == SubSeq(chunk, i + 1, i + n)
ChunkConcat(a, b) == a \o b
ChunkInsert(chunk, i, v) == SubSeq(chunk, 1, i) \o <<v>> \o SubSeq(chunk, i + 1, Len(chunk))
ChunkRemove(chunk, i) == RemoveAt(chunk, i + 1)

-----------------------------------------------------------------------------
\* Ropes.

Visit(r) == FlattenSeq(r)
Size(r) == Len(Visit(r))

\* The first chunk at whose end the length reaches the threshold.
Locate(r, threshold) ==
    CHOOSE i \in DOMAIN r : Size(SubSeq(r, 1, i)) >= threshold /\ Size(SubSeq(r, 1, i - 1)) < threshold
Prefix(r, i) == SubSeq(r, 1, i - 1)
Suffix(r, i) == SubSeq(r, i + 1, Len(r))

FromArray(vs) ==
    LET count == Len(vs)
        chunks == (count + MaxChunk - 1) \div MaxChunk
    IN  [i \in 1..chunks |->
           Slice(vs, (i - 1) * MaxChunk, IF i < chunks THEN MaxChunk ELSE count - (i - 1) * MaxChunk)] @@ <<>>

ValueInChunk(r, index, i) == r[i][index - Size(Prefix(r, i)) + 1]
ValueAt(r, index) == ValueInChunk(r, index, Locate(r, index + 1))

SingleChunk(chunk) == IF chunk = <<>> THEN <<>> ELSE <<chunk>>
ReplacementFromChunk(chunk) ==
    IF Len(chunk) <= MaxChunk THEN SingleChunk(chunk)
    ELSE LET half == Len(chunk) \div 2
         IN  <<Slice(chunk, 0, half), Slice(chunk, half, Len(chunk) - half)>>

ConcatRaw(l, r) == l \o r

\* The chunks at the seam are merged when they fit into one.
Concat(l, r) ==
    IF l = <<>> \/ r = <<>> \/ Len(Last(l)) + Len(Head(r)) > MaxChunk THEN ConcatRaw(l, r)
    ELSE Append(Front(l), ChunkConcat(Last(l), Head(r))) \o Tail(r)

CoalesceTail(r) == IF Len(r) < 2 THEN r ELSE Concat(Front(r), SingleChunk(Last(r)))
CoalesceHead(r) == IF Len(r) < 2 THEN r ELSE Concat(SingleChunk(Head(r)), Tail(r))

SplitChunk(r, i, k) ==
    <<CoalesceTail(Prefix(r, i) \o SingleChunk(Slice(r[i], 0, k))),
      CoalesceHead(SingleChunk(Slice(r[i], k, Len(r[i]) - k)) \o Suffix(r, i))>>
SplitIn(r, index, i) == SplitChunk(r, i, index - Size(Prefix(r, i)))
SplitAt(r, index) ==
    IF index = 0 THEN <<<<>>, r>>
    ELSE IF index = Size(r) THEN <<r, <<>>>>
    ELSE SplitIn(r, index, Locate(r, index + 1))

Replaced(r, i, chunk) == Concat(Concat(Prefix(r, i), ReplacementFromChunk(chunk)), Suffix(r, i))
InsertIn(r, index, v, i) == Replaced(r, i, ChunkInsert(r[i], index - Size(Prefix(r, i)), v))
InsertValue(r, index, v) ==
    IF r = <<>> THEN FromArray(<<v>>)
    ELSE InsertIn(r, index, v, Locate(r, IF index = Size(r) THEN index ELSE index + 1))

RemoveIn(r, index, i) == Replaced(r, i, ChunkRemove(r[i], index - Size(Prefix(r, i))))
RemoveValue(r, index) == RemoveIn(r, index, Locate(r, index + 1))

-----------------------------------------------------------------------------
\* Calls on ropes.

\* These calls write a fresh rope.  With h = s the step stands for such a call
\* and the dispose and move by which its caller puts the result in place.
Result(s, h, r) ==
    /\ s \in Held /\ (h = s \/ h \notin Held) /\ Size(r) <= MaxSize
    /\ rope' = [rope EXCEPT ![h] = r] /\ UNCHANGED cur

RopeInit(h) == h \notin Held /\ rope' = [rope EXCEPT ![h] = <<>>] /\ UNCHANGED cur
RopeFromArray(h, vs) == h \notin Held /\ rope' = [rope EXCEPT ![h] = FromArray(vs)] /\ UNCHANGED cur
RopeCopy(s, h) == s \in Held /\ Result(s, h, rope[s])
RopeMove(s, h) == s \in Held /\ h # s /\ rope' = [rope EXCEPT ![h] = rope[s], ![s] = Unset] /\ UNCHANGED cur
RopeDispose(h) == h \in Held /\ rope' = [rope EXCEPT ![h] = Unset] /\ UNCHANGED cur
RopeSplitAt(s, l, r, index) ==
    /\ s \in Held /\ l # r /\ {l, r} \cap Held = {} /\ index <= Size(rope[s])
    /\ \E halves \in {SplitAt(rope[s], index)} : rope' = [rope EXCEPT ![l] = halves[1], ![r] = halves[2]]
    /\ UNCHANGED cur
RopeConcat(s, t, h) == {s, t} \subseteq Held /\ Result(s, h, Concat(rope[s], rope[t]))
RopeInsertAt(s, h, index, v) ==
    s \in Held /\ index <= Size(rope[s]) /\ Result(s, h, InsertValue(rope[s], index, v))
PushBack(s, h, v) == s \in Held /\ RopeInsertAt(s, h, Size(rope[s]), v)
RopeRemoveAt(s, h, index) == s \in Held /\ index < Size(rope[s]) /\ Result(s, h, RemoveValue(rope[s], index))

-----------------------------------------------------------------------------
\* Calls on cursors.

Stage(r, p) == [rope |-> r, position |-> p]
Valid(c) == c.position <= Size(c.rope)
PeekPrevious(c) == IF c.position = 0 THEN Unset ELSE ValueAt(c.rope, c.position - 1)
PeekNext(c) == IF c.position = Size(c.rope) THEN Unset ELSE ValueAt(c.rope, c.position)

Publish(s, d, c) ==
    /\ s \in Open /\ (d = s \/ d \notin Open) /\ Size(c.rope) <= MaxSize
    /\ cur' = [cur EXCEPT ![d] = c] /\ UNCHANGED rope

GetCursor(h, c, p) ==
    /\ h \in Held /\ c \notin Open /\ p <= Size(rope[h])
    /\ cur' = [cur EXCEPT ![c] = Stage(rope[h], p)] /\ UNCHANGED rope
CursorCopy(s, d) == s # d /\ d \notin Open /\ Publish(s, d, cur[s])
CursorMove(s, d) == s \in Open /\ s # d /\ cur' = [cur EXCEPT ![d] = cur[s], ![s] = Unset] /\ UNCHANGED rope
CursorDispose(c) == c \in Open /\ cur' = [cur EXCEPT ![c] = Unset] /\ UNCHANGED rope
Seek(s, d, p) == s \in Open /\ p <= Size(cur[s].rope) /\ Publish(s, d, Stage(cur[s].rope, p))
MovePrevious(s, d) == s \in Open /\ cur[s].position > 0 /\ Seek(s, d, cur[s].position - 1)
MoveNext(s, d) == s \in Open /\ Seek(s, d, cur[s].position + 1)
Insert(s, d, v) ==
    s \in Open /\ LET c == cur[s] IN Publish(s, d, Stage(InsertValue(c.rope, c.position, v), c.position + 1))
InsertRope(s, d, r) ==
    /\ s \in Open
    /\ \E c \in {cur[s]} : \E halves \in {SplitAt(c.rope, c.position)} :
          Publish(s, d, IF r = <<>> THEN c
                        ELSE Stage(Concat(Concat(halves[1], r), halves[2]), c.position + Size(r)))
InsertArray(s, d, vs) == InsertRope(s, d, FromArray(vs))
DeletePrevious(s, d) ==
    /\ s \in Open /\ cur[s].position > 0
    /\ LET c == cur[s] IN Publish(s, d, Stage(RemoveValue(c.rope, c.position - 1), c.position - 1))
DeleteNext(s, d) ==
    /\ s \in Open /\ cur[s].position < Size(cur[s].rope)
    /\ LET c == cur[s] IN Publish(s, d, Stage(RemoveValue(c.rope, c.position), c.position))
\* One value out and one in: the chunks may be cut differently.
ReplaceNext(s, d, v) ==
    /\ s \in Open /\ cur[s].position < Size(cur[s].rope)
    /\ LET c == cur[s] IN
       Publish(s, d, Stage(InsertValue(RemoveValue(c.rope, c.position), c.position, v), c.position))
Snapshot(c, h) == c \in Open /\ h \notin Held /\ rope' = [rope EXCEPT ![h] = cur[c].rope] /\ UNCHANGED cur

-----------------------------------------------------------------------------
Arrays == UNION {[1..n -> Values] : n \in 0..MaxArray}

Init == rope = [h \in Ropes |-> Unset] /\ cur = [c \in Cursors |-> Unset]

Next ==
    \/ \E h \in Ropes : RopeInit(h) \/ RopeDispose(h) \/ \E vs \in Arrays : RopeFromArray(h, vs)
    \/ \E s, h \in Ropes :
          \/ RopeCopy(s, h) \/ RopeMove(s, h) \/ \E v \in Values : PushBack(s, h, v)
          \/ \E t \in Ropes : RopeConcat(s, t, h) \/ \E i \in 0..MaxSize : RopeSplitAt(s, t, h, i)
          \/ \E i \in 0..MaxSize : RopeRemoveAt(s, h, i) \/ \E v \in Values : RopeInsertAt(s, h, i, v)
    \/ \E h \in Ropes, c \in Cursors : Snapshot(c, h) \/ \E p \in 0..MaxSize : GetCursor(h, c, p)
    \/ \E s, d \in Cursors :
          \/ CursorCopy(s, d) \/ CursorMove(s, d) \/ MovePrevious(s, d) \/ MoveNext(s, d)
          \/ DeletePrevious(s, d) \/ DeleteNext(s, d) \/ \E p \in 0..MaxSize : Seek(s, d, p)
          \/ \E v \in Values : Insert(s, d, v) \/ ReplaceNext(s, d, v)
          \/ \E vs \in Arrays : InsertArray(s, d, vs)
          \/ \E h \in Held : InsertRope(s, d, rope[h])
    \/ \E c \in Cursors : CursorDispose(c)

Spec == Init /\ [][Next]_vars

-----------------------------------------------------------------------------
Versions == {rope[h] : h \in Held} \cup {cur[c].rope : c \in Open}
Packed(r) ==
    /\ \A i \in DOMAIN r : Len(r[i]) \in 1..MaxChunk
    /\ \A i \in 1..(Len(r) - 1) : Len(r[i]) + Len(r[i + 1]) > MaxChunk

\* No call leaves an empty or an oversized chunk behind, nor two neighbours that
\* would fit into one: a rope never takes more than twice the chunks it needs.
RopesPacked == \A r \in Versions : Packed(r)

\* Every call's result reads as the edited sequence and is packed again, also
\* when it works on the concatenation of any two ropes.
RopeCallsExact ==
    \A r \in Versions \cup {Concat(a, b) : a, b \in Versions} :
       \A q \in {Visit(r)} :
          /\ Packed(r)
          /\ \A i \in 0..(Len(q) - 1) :
                /\ ValueAt(r, i) = q[i + 1]
                /\ \A s \in {RemoveValue(r, i)} : Visit(s) = RemoveAt(q, i + 1) /\ Packed(s)
          /\ \A i \in 0..Len(q) :
                /\ \A halves \in {SplitAt(r, i)} :
                      /\ Visit(halves[1]) = SubSeq(q, 1, i) /\ Visit(halves[2]) = SubSeq(q, i + 1, Len(q))
                      /\ Packed(halves[1]) /\ Packed(halves[2])
                /\ \A v \in Values : \A s \in {InsertValue(r, i, v)} :
                      Visit(s) = SubSeq(q, 1, i) \o <<v>> \o SubSeq(q, i + 1, Len(q)) /\ Packed(s)

SidesOf(q, position) == [before |-> SubSeq(q, 1, position), after |-> SubSeq(q, position + 1, Len(q))]
Sides(c) == SidesOf(Visit(c.rope), c.position)

ContentOf(rs) == [h \in Ropes |-> IF rs[h] = Unset THEN Unset ELSE Visit(rs[h])] @@ <<>>
Line == INSTANCE PersistentSequence WITH Handles <- Ropes, MaxSource <- MaxArray, MaxInsert <- MaxSize,
        content <- ContentOf(rope)
GapsOf(cs) == [c \in Cursors |-> IF cs[c] = Unset THEN Unset ELSE Sides(cs[c])] @@ <<>>

\* A rope call does to its sequence what a sequence's call does, a cursor call
\* edits beside its gap, and neither changes another rope or cursor.
RopeKeepsPromise ==
    \E ropes \in {rope'}, cursors \in {cur'} :
       \/ Line!EditStep(ContentOf(rope), ContentOf(ropes)) /\ cursors = cur
       \/ Line!GapStep(GapsOf(cur), GapsOf(cursors), ContentOf(rope), ContentOf(ropes))
=============================================================================
