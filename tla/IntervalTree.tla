---------------------------- MODULE IntervalTree ----------------------------
(***************************************************************************)
(* The interval trees of fingertree.c (64-bit and generic endpoints) and   *)
(* their cursors.  A tree is the sequence of its closed intervals in the   *)
(* order of their low ends; among equal low ends the newest is first.  The *)
(* tree measures a run of intervals by its count and its largest high end, *)
(* and the overlap queries descend by that measure.  A call leaves its     *)
(* result in an empty tree or cursor, or in place of its source.           *)
(***************************************************************************)
EXTENDS Integers, SequencesExt

CONSTANTS Ends,   \* endpoints, numbers
          Trees, Cursors, Unset,
          MaxSize \* intervals of the largest tree
VARIABLES tree, cur

vars == <<tree, cur>>

Held == {h \in Trees : tree[h] # Unset}
Open == {c \in Cursors : cur[c] # Unset}

ValidInterval(i) == i.low <= i.high
Intervals == {i \in [low : Ends, high : Ends] : ValidInterval(i)}
Overlaps(a, b) == a.low <= b.high /\ b.low <= a.high

MeasureIdentity == [count |-> 0, has |-> FALSE, high |-> 0]
MeasureValue(i) == [count |-> 1, has |-> TRUE, high |-> i.high]

MeasureCombine(l, r) ==
    [count |-> l.count + r.count, has |-> l.has \/ r.has,
     high |-> IF ~l.has THEN r.high ELSE IF ~r.has THEN l.high ELSE IF l.high >= r.high THEN l.high ELSE r.high]
TreeMeasure(q) == FoldLeft(LAMBDA acc, i : MeasureCombine(acc, MeasureValue(i)), MeasureIdentity, q)
MaxHighReaches(m, low) == m.has /\ m.high >= low

\* The index of the first interval by which the largest high end reaches low,
\* the size when there is none.
TreeLocate(q, low) ==
    LET hits == {i \in DOMAIN q : MaxHighReaches(TreeMeasure(SubSeq(q, 1, i)), low)}
    IN  IF hits = {} THEN Len(q) ELSE Min(hits) - 1

LowerBoundLow(q, low) == Len(SelectSeq(q, LAMBDA i : i.low < low))
\* From the lower bound, one by one.
UpperBoundLow(q, low) ==
    LET at == LowerBoundLow(q, low) + 1
        beyond == {i \in at..Len(q) : q[i].low # low}
    IN  IF beyond = {} THEN Len(q) ELSE Min(beyond) - 1

\* The first of the intervals with that low end that also has that high end.
IndexOf(q, v) ==
    LET at == LowerBoundLow(q, v.low) + 1
        run == {i \in at..Len(q) : \A j \in at..i : q[j].low = v.low}
        hits == {i \in run : q[i].high = v.high}
    IN  IF hits = {} THEN Unset ELSE Min(hits) - 1

PutAt(q, i, v) == SubSeq(q, 1, i) \o <<v>> \o SubSeq(q, i + 1, Len(q))

InsertInterval(q, v) == PutAt(q, LowerBoundLow(q, v.low), v)
RemoveOne(q, v) == IF IndexOf(q, v) = Unset THEN q ELSE RemoveAt(q, IndexOf(q, v) + 1)
ContainsInterval(q, v) == ValidInterval(v) /\ IndexOf(q, v) # Unset

\* Only the interval the descent hits is looked at.
TryFindOverlap(q, query) ==
    LET at == TreeLocate(q, query.low)
    IN  IF at < Len(q) /\ Overlaps(q[at + 1], query) THEN q[at + 1] ELSE Unset

\* After a hit the search goes on behind it, until the tree has no interval that
\* ends late enough or the one found begins too late.
CountStep(query, s) ==
    LET at == TreeLocate(s.rest, query.low)
    IN  IF at = Len(s.rest) THEN [s EXCEPT !.rest = <<>>]
        ELSE IF s.rest[at + 1].low > query.high THEN [s EXCEPT !.rest = <<>>]
        ELSE [overlaps |-> s.overlaps + 1, rest |-> SubSeq(s.rest, at + 2, Len(s.rest))]
CountOverlaps(q, query) ==
    FoldLeft(LAMBDA s, i : CountStep(query, s), [overlaps |-> 0, rest |-> q], q).overlaps

\* With generic endpoints the search ends at the first hit that does not overlap.
CountEntryStep(query, s) ==
    LET at == TreeLocate(s.rest, query.low)
    IN  IF at = Len(s.rest) THEN [s EXCEPT !.rest = <<>>]
        ELSE IF ~Overlaps(s.rest[at + 1], query) THEN [s EXCEPT !.rest = <<>>]
        ELSE [overlaps |-> s.overlaps + 1, rest |-> SubSeq(s.rest, at + 2, Len(s.rest))]
CountEntryOverlaps(q, query) ==
    FoldLeft(LAMBDA s, i : CountEntryStep(query, s), [overlaps |-> 0, rest |-> q], q).overlaps

\* The rank of the first overlap from a rank on, the size when there is none;
\* the scan ends at the first interval that begins behind the query.
FindOverlapFrom(q, start, query) ==
    LET stop == {i \in (start + 1)..Len(q) : q[i].low > query.high \/ Overlaps(q[i], query)}
    IN  IF stop = {} THEN Len(q)
        ELSE IF q[Min(stop)].low > query.high THEN Len(q) ELSE Min(stop) - 1

NextStart(c) == IF c.position = Len(c.tree) THEN c.position ELSE c.position + 1

-----------------------------------------------------------------------------
\* Calls on trees.

\* These calls write a fresh tree.  With h = s the step stands for such a call
\* and the dispose and move by which its caller puts the result in place.
Result(s, h, q) ==
    /\ s \in Held /\ (h = s \/ h \notin Held) /\ Len(q) <= MaxSize
    /\ tree' = [tree EXCEPT ![h] = q] /\ UNCHANGED cur
TreeInit(h) == h \notin Held /\ tree' = [tree EXCEPT ![h] = <<>>] /\ UNCHANGED cur
TreeCopy(s, h) == s \in Held /\ Result(s, h, tree[s])
TreeMove(s, h) == s \in Held /\ h # s /\ tree' = [tree EXCEPT ![h] = tree[s], ![s] = Unset] /\ UNCHANGED cur
TreeDispose(h) == h \in Held /\ tree' = [tree EXCEPT ![h] = Unset] /\ UNCHANGED cur
TreeInsert(s, h, v) == s \in Held /\ Result(s, h, InsertInterval(tree[s], v))
TreeRemoveOne(s, h, v) == s \in Held /\ Result(s, h, RemoveOne(tree[s], v))

-----------------------------------------------------------------------------
\* Calls on cursors.

Stage(q, p) == [tree |-> q, position |-> p]
ValidCursor(c) == c.position <= Len(c.tree)
Peek(q, p) == IF p >= Len(q) THEN Unset ELSE q[p + 1]
PeekPrevious(c) == IF c.position = 0 THEN Unset ELSE Peek(c.tree, c.position - 1)
PeekNext(c) == Peek(c.tree, c.position)
InsertMoves(c, v) == Stage(InsertInterval(c.tree, v), LowerBoundLow(c.tree, v.low) + 1)
DeleteAt(c, rank, p) == Stage(RemoveAt(c.tree, rank + 1), p)

Publish(s, d, c) ==
    /\ s \in Open /\ (d = s \/ d \notin Open) /\ Len(c.tree) <= MaxSize
    /\ cur' = [cur EXCEPT ![d] = c] /\ UNCHANGED tree
GetCursor(h, c, p) ==
    /\ h \in Held /\ c \notin Open /\ p <= Len(tree[h])
    /\ cur' = [cur EXCEPT ![c] = Stage(tree[h], p)] /\ UNCHANGED tree
GetCursorLowerBound(h, c, low) == h \in Held /\ GetCursor(h, c, LowerBoundLow(tree[h], low))
GetCursorUpperBound(h, c, low) == h \in Held /\ GetCursor(h, c, UpperBoundLow(tree[h], low))
GetCursorAtInterval(h, c, v) ==
    /\ h \in Held
    /\ LET at == IndexOf(tree[h], v)
       IN  GetCursor(h, c, IF at = Unset THEN LowerBoundLow(tree[h], v.low) ELSE at)
FindOverlapCursor(h, c, query) == h \in Held /\ GetCursor(h, c, FindOverlapFrom(tree[h], 0, query))
FindContainingCursor(h, c, point) == FindOverlapCursor(h, c, [low |-> point, high |-> point])
CursorCopy(s, d) == s # d /\ d \notin Open /\ Publish(s, d, cur[s])
CursorMove(s, d) == s \in Open /\ s # d /\ cur' = [cur EXCEPT ![d] = cur[s], ![s] = Unset] /\ UNCHANGED tree
CursorDispose(c) == c \in Open /\ cur' = [cur EXCEPT ![c] = Unset] /\ UNCHANGED tree
SeekRank(s, d, p) == s \in Open /\ p <= Len(cur[s].tree) /\ Publish(s, d, Stage(cur[s].tree, p))
MovePrevious(s, d) == s \in Open /\ cur[s].position > 0 /\ SeekRank(s, d, cur[s].position - 1)
MoveNext(s, d) == s \in Open /\ SeekRank(s, d, cur[s].position + 1)
SeekNextOverlap(s, d, query) ==
    s \in Open /\ Publish(s, d, Stage(cur[s].tree, FindOverlapFrom(cur[s].tree, NextStart(cur[s]), query)))
CursorInsert(s, d, v) == s \in Open /\ Publish(s, d, InsertMoves(cur[s], v))
DeletePrevious(s, d) ==
    /\ s \in Open /\ cur[s].position > 0
    /\ LET p == cur[s].position - 1 IN Publish(s, d, DeleteAt(cur[s], p, p))
DeleteNext(s, d) ==
    /\ s \in Open /\ cur[s].position < Len(cur[s].tree)
    /\ LET p == cur[s].position IN Publish(s, d, DeleteAt(cur[s], p, p))
Snapshot(c, h) == c \in Open /\ h \notin Held /\ tree' = [tree EXCEPT ![h] = cur[c].tree] /\ UNCHANGED cur

-----------------------------------------------------------------------------
Init == tree = [h \in Trees |-> Unset] /\ cur = [c \in Cursors |-> Unset]

Next ==
    \/ \E h \in Trees : TreeInit(h) \/ TreeDispose(h)
    \/ \E s, h \in Trees :
          \/ TreeCopy(s, h) \/ TreeMove(s, h)
          \/ \E v \in Intervals : TreeInsert(s, h, v) \/ TreeRemoveOne(s, h, v)
    \/ \E h \in Trees, c \in Cursors :
          \/ Snapshot(c, h) \/ \E p \in 0..MaxSize : GetCursor(h, c, p)
          \/ \E e \in Ends : \/ GetCursorLowerBound(h, c, e) \/ GetCursorUpperBound(h, c, e)
                             \/ FindContainingCursor(h, c, e)
          \/ \E v \in Intervals : GetCursorAtInterval(h, c, v) \/ FindOverlapCursor(h, c, v)
    \/ \E s, d \in Cursors :
          \/ CursorCopy(s, d) \/ CursorMove(s, d) \/ MovePrevious(s, d) \/ MoveNext(s, d)
          \/ DeletePrevious(s, d) \/ DeleteNext(s, d) \/ \E p \in 0..MaxSize : SeekRank(s, d, p)
          \/ \E v \in Intervals : CursorInsert(s, d, v) \/ SeekNextOverlap(s, d, v)
    \/ \E c \in Cursors : CursorDispose(c)

Spec == Init /\ [][Next]_vars

-----------------------------------------------------------------------------
Versions == {tree[h] : h \in Held} \cup {cur[c].tree : c \in Open}
Overlapping(q, query) == {i \in DOMAIN q : Overlaps(q[i], query)}

\* Once the largest high end reaches a place it does so for every longer run, as
\* the descent needs; it finds an overlap exactly when there is one, the first in
\* order, and the counting descents count them all.
QueriesExact ==
    \A q \in Versions :
       /\ \A i, j \in DOMAIN q : i < j => q[i].low <= q[j].low
       /\ \A low \in Ends, i, j \in DOMAIN q :
             i < j /\ MaxHighReaches(TreeMeasure(SubSeq(q, 1, i)), low) => MaxHighReaches(TreeMeasure(SubSeq(q, 1, j)), low)
       /\ \A query \in Intervals : LET hits == Overlapping(q, query) IN
             /\ TryFindOverlap(q, query) = IF hits = {} THEN Unset ELSE q[Min(hits)]
             /\ CountOverlaps(q, query) = Cardinality(hits) /\ CountEntryOverlaps(q, query) = Cardinality(hits)
             /\ ContainsInterval(q, query) = (\E i \in DOMAIN q : q[i] = query)

\* Starting from the first overlap and seeking the next one again and again, a
\* cursor visits every overlap once, in order, and ends behind the last interval.
WalkVisitsAll ==
    \A q \in Versions : \A query \in Intervals :
       LET Step(walk, i) ==
              Append(walk, FindOverlapFrom(q, NextStart(Stage(q, walk[Len(walk)])), query))
           walk == FoldLeft(Step, <<FindOverlapFrom(q, 0, query)>>, q)
           visited == {i \in DOMAIN walk : walk[i] < Len(q)}
       IN  /\ {walk[i] + 1 : i \in visited} = Overlapping(q, query)
           /\ \A i \in visited : \A j \in visited : i < j => walk[i] < walk[j]
           /\ walk[Len(walk)] = Len(q)

CountOf(q) == [v \in Intervals |-> Cardinality({i \in DOMAIN q : q[i] = v})] @@ <<>>
OneChange(now, new) ==
    \E h \in Trees \cup Cursors :
       /\ \A g \in (Trees \cup Cursors) \ {h} : new[g] = now[g]
       /\ \/ new[h] = Unset \/ \A v \in Intervals : new[h][v] = 0
          \/ \E s \in Trees \cup Cursors : now[s] # Unset /\
                \/ new[h] = now[s]
                \/ \E v \in Intervals, n \in 0..MaxSize :
                      n \in {now[s][v] + 1, now[s][v] - 1} /\ new[h] = [now[s] EXCEPT ![v] = n]
Bagged == [h \in Trees \cup Cursors |->
             IF h \in Trees THEN (IF tree[h] = Unset THEN Unset ELSE CountOf(tree[h]))
             ELSE (IF cur[h] = Unset THEN Unset ELSE CountOf(cur[h].tree))] @@ <<>>

\* A call puts one interval in or takes one out of one tree or cursor and leaves
\* all the others alone, or it moves one.
OneAtATime ==
    \E now \in {Bagged}, new \in {Bagged'} :
       \/ OneChange(now, new)
       \/ \E s, h \in Trees \cup Cursors : s # h /\ new = [now EXCEPT ![h] = now[s], ![s] = Unset]
=============================================================================
