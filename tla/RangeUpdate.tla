---------------------------- MODULE RangeUpdate ----------------------------
(***************************************************************************)
(* The range update sequence of range_update_sequence.c: a persistent AVL  *)
(* tree whose nodes keep the measure of their subtree and a pending tag    *)
(* for their children.  The algebra is the smallest that neither commutes  *)
(* nor cancels: elements are bits, a tag is a function of bits, a measure  *)
(* counts the ones and keeps the first bit.  A call leaves its result in   *)
(* an empty handle or cursor, or in place of a source.                     *)
(***************************************************************************)
EXTENDS Integers, SequencesExt

CONSTANTS Bits,      \* {0, 1}
          Tags,      \* tags callers apply, functions of bits
          Handles, Cursors, Unset,
          MaxSize,   \* elements of the longest sequence
          MaxArray   \* elements of the longest array handed over
VARIABLES seq, cur

vars == <<seq, cur>>

Held == {h \in Handles : seq[h] # Unset}
Open == {c \in Cursors : cur[c] # Unset}

IdentityTag == [b \in Bits |-> b] @@ <<>>
EmptyMeasure == [ones |-> 0, first |-> Unset]
MeasureElement(b) == [ones |-> b, first |-> b]
Combine(l, r) == [ones |-> l.ones + r.ones, first |-> IF l.first = Unset THEN r.first ELSE l.first]

Compose(newer, older) == [b \in Bits |-> newer[older[b]]] @@ <<>>
ApplyMeasure(t, m, count) ==
    [ones |-> t[1] * m.ones + t[0] * (count - m.ones), first |-> t[m.first]]

-----------------------------------------------------------------------------
\* Nodes.  A pending tag is for the children; the node's own element and measure
\* already have it.

Null == [height |-> 0, count |-> 0]
RawNode(e, l, r, height, count, measure, pending) ==
    [element |-> e, left |-> l, right |-> r, height |-> height, count |-> count,
     measure |-> measure, pending |-> pending]
MeasureWith(l, own) == IF l = Null THEN own ELSE Combine(l.measure, own)
MeasureWithBoth(withLeft, r) == IF r = Null THEN withLeft ELSE Combine(withLeft, r.measure)
Node(e, l, r) ==
    RawNode(e, l, r, (IF l.height > r.height THEN l.height ELSE r.height) + 1, l.count + 1 + r.count,
            MeasureWithBoth(MeasureWith(l, MeasureElement(e)), r), Unset)

\* A composed tag that does nothing is dropped.
UnlessIdentity(tag) == IF tag = IdentityTag THEN Unset ELSE tag
ApplySubtree(t, newer) ==
    RawNode(newer[t.element], t.left, t.right, t.height, t.count, ApplyMeasure(newer, t.measure, t.count),
            IF t.pending = Unset THEN newer ELSE UnlessIdentity(Compose(newer, t.pending)))

PushTo(child, tag) == IF child = Null THEN Null ELSE ApplySubtree(child, tag)
Push(t) ==
    IF t.pending = Unset THEN t
    ELSE RawNode(t.element, PushTo(t.left, t.pending), PushTo(t.right, t.pending), t.height, t.count, t.measure, Unset)

\* Rotations of a node c whose tag is pushed over its child p, pushed next.
LeftOver(c, p) == Node(p.element, Node(c.element, c.left, p.left), p.right)
RightOver(c, p) == Node(p.element, p.left, Node(c.element, p.right, c.right))
RotatePushedLeft(c) == LeftOver(c, Push(c.right))
RotatePushedRight(c) == RightOver(c, Push(c.left))
RotateLeft(t) == RotatePushedLeft(Push(t))
RotateRight(t) == RotatePushedRight(Push(t))

\* The two cases that lean inwards are turned twice.
TurnLeftChild(c) == Node(c.element, RotateLeft(c.left), c.right)
TurnRightChild(c) == Node(c.element, c.left, RotateRight(c.right))
Balance(t) ==
    IF t.left.height > t.right.height + 1
    THEN RotateRight(IF t.left.left.height < t.left.right.height THEN TurnLeftChild(Push(t)) ELSE t)
    ELSE IF t.right.height > t.left.height + 1
    THEN RotateLeft(IF t.right.right.height < t.right.left.height THEN TurnRightChild(Push(t)) ELSE t)
    ELSE t

RECURSIVE Join(_, _, _)
JoinBelow(l, pivot, r) == Node(l.element, l.left, Join(l.right, pivot, r))
JoinAbove(l, pivot, r) == Node(r.element, Join(l, pivot, r.left), r.right)
Join(l, pivot, r) ==
    IF l.height - r.height \in -1..1 THEN Node(pivot, l, r)
    ELSE Balance(IF l.height > r.height THEN JoinBelow(Push(l), pivot, r) ELSE JoinAbove(l, pivot, Push(r)))

RECURSIVE ExtractMinimum(_)
WithoutMinimum(c, removed) ==
    [minimum |-> removed.minimum, rest |-> Balance(Node(c.element, removed.rest, c.right))]
ExtractPushed(c) ==
    IF c.left = Null THEN [minimum |-> c.element, rest |-> c.right] ELSE WithoutMinimum(c, ExtractMinimum(c.left))
ExtractMinimum(t) == ExtractPushed(Push(t))
JoinAtMinimum(l, removed) == Join(l, removed.minimum, removed.rest)
ConcatNodes(l, r) ==
    IF l = Null THEN r ELSE IF r = Null THEN l ELSE JoinAtMinimum(l, ExtractMinimum(r))

RECURSIVE SplitNodes(_, _)
\* The part of the child that lies towards the pivot is joined to the other side.
SplitPair(isLeft, s, joined) == IF isLeft THEN <<s[1], joined>> ELSE <<joined, s[2]>>
SplitChild(c, s, isLeft) ==
    SplitPair(isLeft, s, Join(IF isLeft THEN s[2] ELSE c.left, c.element, IF isLeft THEN c.right ELSE s[1]))
SplitPushed(c, i) ==
    SplitChild(c, IF i <= c.left.count THEN SplitNodes(c.left, i) ELSE SplitNodes(c.right, i - c.left.count - 1),
               i <= c.left.count)
SplitNodes(t, i) ==
    IF t = Null \/ i = 0 THEN <<Null, t>> ELSE IF i = t.count THEN <<t, Null>> ELSE SplitPushed(Push(t), i)

RECURSIVE BuildBalanced(_)
BuildBalanced(q) ==
    IF q = <<>> THEN Null
    ELSE LET m == Len(q) \div 2
         IN  Node(q[m + 1], BuildBalanced(SubSeq(q, 1, m)), BuildBalanced(SubSeq(q, m + 2, Len(q))))

RECURSIVE InsertNode(_, _, _)
InsertBelow(c, i, e) ==
    IF i <= c.left.count THEN Node(c.element, InsertNode(c.left, i, e), c.right)
    ELSE Node(c.element, c.left, InsertNode(c.right, i - c.left.count - 1, e))
InsertNode(t, i, e) == IF t = Null THEN Node(e, Null, Null) ELSE Balance(InsertBelow(Push(t), i, e))

RECURSIVE SetNode(_, _, _)
SetBelow(c, i, e) ==
    IF i < c.left.count THEN Node(c.element, SetNode(c.left, i, e), c.right)
    ELSE IF i > c.left.count THEN Node(c.element, c.left, SetNode(c.right, i - c.left.count - 1, e))
    ELSE Node(e, c.left, c.right)
SetNode(t, i, e) == SetBelow(Push(t), i, e)

\* A node with one child at most is replaced by it, unbalanced as it is.
RECURSIVE RemoveNode(_, _)
AtMinimum(l, removed) == Node(removed.minimum, l, removed.rest)
RemoveBelow(c, i) ==
    IF i < c.left.count THEN Node(c.element, RemoveNode(c.left, i), c.right)
    ELSE IF i > c.left.count THEN Node(c.element, c.left, RemoveNode(c.right, i - c.left.count - 1))
    ELSE AtMinimum(c.left, ExtractMinimum(c.right))
RemovePushed(c, i) ==
    IF i = c.left.count /\ c.left = Null THEN c.right
    ELSE IF i = c.left.count /\ c.right = Null THEN c.left
    ELSE Balance(RemoveBelow(c, i))
RemoveNode(t, i) == RemovePushed(Push(t), i)

-----------------------------------------------------------------------------
\* Reads look through pending tags without pushing them.

ChildInheritance(t, inherited) ==
    IF t.pending = Unset THEN inherited ELSE IF inherited = Unset THEN t.pending
    ELSE UnlessIdentity(Compose(inherited, t.pending))
Through(tag, e) == IF tag = Unset THEN e ELSE tag[e]

RECURSIVE GetElement(_, _, _)
GetElement(t, i, inherited) ==
    IF i = t.left.count THEN Through(inherited, t.element)
    ELSE LET tag == ChildInheritance(t, inherited)
         IN  IF i < t.left.count THEN GetElement(t.left, i, tag)
             ELSE GetElement(t.right, i - t.left.count - 1, tag)

AddMeasure(aggregate, part) == IF aggregate = Unset THEN part ELSE Combine(aggregate, part)
RECURSIVE MeasureRangeNode(_, _, _, _)
MeasureRangeNode(t, start, count, inherited) ==
    IF start = 0 /\ count = t.count
    THEN IF inherited = Unset THEN t.measure ELSE ApplyMeasure(inherited, t.measure, t.count)
    ELSE LET end == start + count
             rightStart == t.left.count + 1
             tag == ChildInheritance(t, inherited)
             own == MeasureElement(t.element)
             left == IF start >= t.left.count THEN Unset
                     ELSE MeasureRangeNode(t.left, start, Min({count, t.left.count - start}), tag)
             middle == IF start > t.left.count \/ end <= t.left.count THEN left
                       ELSE AddMeasure(left, IF inherited = Unset THEN own ELSE ApplyMeasure(inherited, own, 1))
             from == IF start > rightStart THEN start - rightStart ELSE 0
         IN  IF end <= rightStart THEN middle
             ELSE AddMeasure(middle, MeasureRangeNode(t.right, from, end - rightStart - from, tag))

RECURSIVE VisitNode(_, _)
VisitNode(t, inherited) ==
    IF t = Null THEN <<>>
    ELSE LET tag == ChildInheritance(t, inherited)
         IN  VisitNode(t.left, tag) \o <<Through(inherited, t.element)>> \o VisitNode(t.right, tag)
Visit(t) == VisitNode(t, Unset)

MeasureOf(t) == IF t = Null THEN EmptyMeasure ELSE t.measure
MeasureRange(t, i, n) ==
    IF n = 0 THEN EmptyMeasure ELSE IF n = t.count THEN t.measure ELSE MeasureRangeNode(t, i, n, Unset)

\* The sequence's own audit: counts, heights, balance, no pending identity, and
\* the measure of what the pending tag will make of the children.
RECURSIVE ValidateNode(_)
ValidateNode(t) ==
    t # Null =>
       LET seen(child) == IF t.pending = Unset THEN child.measure ELSE ApplyMeasure(t.pending, child.measure, child.count)
           own == MeasureElement(t.element)
           withLeft == IF t.left = Null THEN own ELSE Combine(seen(t.left), own)
       IN  /\ ValidateNode(t.left) /\ ValidateNode(t.right)
           /\ t.count = t.left.count + 1 + t.right.count
           /\ t.height = Max({t.left.height, t.right.height}) + 1
           /\ t.left.height - t.right.height \in -1..1
           /\ t.pending # IdentityTag
           /\ t.measure = IF t.right = Null THEN withLeft ELSE Combine(withLeft, seen(t.right))

-----------------------------------------------------------------------------
\* What the calls on a sequence make of its tree.

GetRangeOf(t, i, n) ==
    IF n = 0 THEN Null ELSE IF n = t.count THEN t ELSE SplitNodes(SplitNodes(t, i)[2], n)[1]
ApplyBetween(left, s, tag) == FoldLeft(ConcatNodes, left, <<ApplySubtree(s[1], tag), s[2]>>)
ApplyWithin(s, n, tag) == ApplyBetween(s[1], SplitNodes(s[2], n), tag)
\* Nothing is rebuilt for an empty range or a tag that does nothing.
ApplyRangeTo(t, i, n, tag) ==
    IF n = 0 \/ tag = IdentityTag THEN t
    ELSE IF n = t.count THEN ApplySubtree(t, tag)
    ELSE ApplyWithin(SplitNodes(t, i), n, tag)

-----------------------------------------------------------------------------
\* Calls on sequences.

Put(sources, h, t) ==
    /\ sources \subseteq Held /\ (h \in sources \/ h \notin Held) /\ t.count <= MaxSize
    /\ seq' = [seq EXCEPT ![h] = t] /\ UNCHANGED cur

SequenceInit(h) == h \notin Held /\ seq' = [seq EXCEPT ![h] = Null] /\ UNCHANGED cur
FromArray(h, q) == h \notin Held /\ seq' = [seq EXCEPT ![h] = BuildBalanced(q)] /\ UNCHANGED cur
SequenceCopy(s, h) == s \in Held /\ h \notin Held /\ Put({s}, h, seq[s])
SequenceMove(s, h) ==
    s \in Held /\ h \notin Held /\ seq' = [seq EXCEPT ![h] = seq[s], ![s] = Unset] /\ UNCHANGED cur
SequenceDispose(h) == h \in Held /\ seq' = [seq EXCEPT ![h] = Unset] /\ UNCHANGED cur
InsertElement(s, h, i, e) == s \in Held /\ i <= seq[s].count /\ Put({s}, h, InsertNode(seq[s], i, e))
Prepend(s, h, e) == InsertElement(s, h, 0, e)
AppendElement(s, h, e) == s \in Held /\ InsertElement(s, h, seq[s].count, e)
SetElement(s, h, i, e) == s \in Held /\ i < seq[s].count /\ Put({s}, h, SetNode(seq[s], i, e))
RemoveElement(s, h, i) == s \in Held /\ i < seq[s].count /\ Put({s}, h, RemoveNode(seq[s], i))
ConcatSequences(a, b, h) == {a, b} \subseteq Held /\ Put({a, b}, h, ConcatNodes(seq[a], seq[b]))
\* The two parts go to two results, which may be where the source was.
SplitAt(s, l, r, i) ==
    /\ s \in Held /\ l # r /\ {l, r} \cap Held \subseteq {s} /\ i <= seq[s].count
    /\ \E parts \in {SplitNodes(seq[s], i)} : seq' = [seq EXCEPT ![l] = parts[1], ![r] = parts[2]]
    /\ UNCHANGED cur
GetRange(s, h, i, n) == s \in Held /\ i + n <= seq[s].count /\ Put({s}, h, GetRangeOf(seq[s], i, n))
ApplyRange(s, h, i, n, tag) ==
    s \in Held /\ i + n <= seq[s].count /\ Put({s}, h, ApplyRangeTo(seq[s], i, n, tag))

-----------------------------------------------------------------------------
\* Calls on cursors.

Stage(t, position) == [tree |-> t, position |-> position]
ValidCursor(c) == c.position <= c.tree.count
MeasureBefore(c) == MeasureRange(c.tree, 0, c.position)
MeasureAfter(c) == MeasureRange(c.tree, c.position, c.tree.count - c.position)
MeasurePrevious(c, n) == MeasureRange(c.tree, c.position - n, n)
MeasureNext(c, n) == MeasureRange(c.tree, c.position, n)

Publish(s, d, c) ==
    /\ s \in Open /\ (d = s \/ d \notin Open) /\ c.tree.count <= MaxSize
    /\ cur' = [cur EXCEPT ![d] = c] /\ UNCHANGED seq
GetCursor(h, d, position) ==
    /\ h \in Held /\ d \notin Open /\ position <= seq[h].count
    /\ cur' = [cur EXCEPT ![d] = Stage(seq[h], position)] /\ UNCHANGED seq
CursorCopy(s, d) == s \in Open /\ d \notin Open /\ Publish(s, d, cur[s])
CursorMove(s, d) ==
    s \in Open /\ d \notin Open /\ cur' = [cur EXCEPT ![d] = cur[s], ![s] = Unset] /\ UNCHANGED seq
CursorDispose(d) == d \in Open /\ cur' = [cur EXCEPT ![d] = Unset] /\ UNCHANGED seq
Seek(s, d, position) ==
    s \in Open /\ position <= cur[s].tree.count /\ Publish(s, d, Stage(cur[s].tree, position))
MovePrevious(s, d) == s \in Open /\ cur[s].position > 0 /\ Seek(s, d, cur[s].position - 1)
MoveNext(s, d) == s \in Open /\ cur[s].position < cur[s].tree.count /\ Seek(s, d, cur[s].position + 1)
CursorInsert(s, d, e) ==
    /\ s \in Open
    /\ LET c == cur[s] IN Publish(s, d, Stage(InsertNode(c.tree, c.position, e), c.position + 1))
DeletePrevious(s, d) ==
    /\ s \in Open /\ cur[s].position > 0
    /\ LET p == cur[s].position - 1 IN Publish(s, d, Stage(RemoveNode(cur[s].tree, p), p))
DeleteNext(s, d) ==
    /\ s \in Open /\ cur[s].position < cur[s].tree.count
    /\ LET p == cur[s].position IN Publish(s, d, Stage(RemoveNode(cur[s].tree, p), p))
ReplaceNext(s, d, e) ==
    /\ s \in Open /\ cur[s].position < cur[s].tree.count
    /\ LET p == cur[s].position IN Publish(s, d, Stage(SetNode(cur[s].tree, p, e), p))
\* The n elements before the gap or the n behind it.
Beside(s, n) == IF s \in Open THEN {cur[s].position - n, cur[s].position} ELSE {}
ApplyBeside(s, d, start, n, tag) ==
    /\ start >= 0 /\ start + n <= cur[s].tree.count
    /\ Publish(s, d, Stage(ApplyRangeTo(cur[s].tree, start, n, tag), cur[s].position))
Snapshot(c, h) ==
    c \in Open /\ h \notin Held /\ seq' = [seq EXCEPT ![h] = cur[c].tree] /\ UNCHANGED cur

-----------------------------------------------------------------------------
Init == seq = [h \in Handles |-> Unset] /\ cur = [c \in Cursors |-> Unset]

Places == 0..MaxSize

Next ==
    \/ \E h \in Handles :
          SequenceInit(h) \/ SequenceDispose(h) \/ \E n \in 0..MaxArray : \E q \in [1..n -> Bits] : FromArray(h, q)
    \/ \E s, h \in Handles :
          \/ SequenceCopy(s, h) \/ SequenceMove(s, h)
          \/ \E e \in Bits : Prepend(s, h, e) \/ AppendElement(s, h, e)
          \/ \E i \in Places :
                \/ RemoveElement(s, h, i) \/ \E e \in Bits : InsertElement(s, h, i, e) \/ SetElement(s, h, i, e)
                \/ \E n \in Places : GetRange(s, h, i, n) \/ \E tag \in Tags : ApplyRange(s, h, i, n, tag)
    \/ \E a, b, h \in Handles : ConcatSequences(a, b, h) \/ \E i \in Places : SplitAt(h, a, b, i)
    \/ \E h \in Handles, c \in Cursors : Snapshot(c, h) \/ \E i \in Places : GetCursor(h, c, i)
    \/ \E s, d \in Cursors :
          \/ CursorCopy(s, d) \/ CursorMove(s, d) \/ MovePrevious(s, d) \/ MoveNext(s, d)
          \/ DeletePrevious(s, d) \/ DeleteNext(s, d)
          \/ \E e \in Bits : CursorInsert(s, d, e) \/ ReplaceNext(s, d, e)
          \/ \E i \in Places : Seek(s, d, i)
                \/ \E tag \in Tags, start \in Beside(s, i) : ApplyBeside(s, d, start, i, tag)
    \/ \E d \in Cursors : CursorDispose(d)

Spec == Init /\ [][Next]_vars

-----------------------------------------------------------------------------
Versions == {seq[h] : h \in Held} \cup {cur[c].tree : c \in Open}

\* Every version passes the sequence's own audit.
VersionsValid == \A t \in Versions : ValidateNode(t)

\* The measure of n elements of a sequence of bits.
Measured(q, i, n) == FoldLeft(LAMBDA m, b : Combine(m, MeasureElement(b)), EmptyMeasure, SubSeq(q, i + 1, i + n))

\* Reading one element or measuring any range looks through the pending tags to
\* what a visit of the whole sequence would find.
ReadsExact ==
    \A t \in Versions : \A q \in {Visit(t)} :
       /\ MeasureOf(t) = Measured(q, 0, Len(q))
       /\ \A i \in 0..(Len(q) - 1) : GetElement(t, i, Unset) = q[i + 1]
       /\ \A i \in 0..Len(q) :
             /\ \A n \in 0..(Len(q) - i) : MeasureNext(Stage(t, i), n) = Measured(q, i, n)
             /\ \A n \in 0..i : MeasurePrevious(Stage(t, i), n) = Measured(q, i - n, n)
             /\ MeasureBefore(Stage(t, i)) = Measured(q, 0, i)
             /\ MeasureAfter(Stage(t, i)) = Measured(q, i, Len(q) - i)

ContentOf(ss) == [h \in Handles |-> IF ss[h] = Unset THEN Unset ELSE Visit(ss[h])] @@ <<>>
SidesOf(q, position) == [before |-> SubSeq(q, 1, position), after |-> SubSeq(q, position + 1, Len(q))]
Sides(c) == SidesOf(Visit(c.tree), c.position)
GapsOf(cs) == [c \in Cursors |-> IF cs[c] = Unset THEN Unset ELSE Sides(cs[c])] @@ <<>>
Line == INSTANCE PersistentSequence WITH Values <- Bits, MaxSource <- MaxArray, MaxInsert <- 1, content <- ContentOf(seq)

\* q with a tag applied to some of its elements in a row.
Tagged(q) ==
    {[i \in DOMAIN q |-> IF i \in from..to THEN tag[q[i]] ELSE q[i]] @@ <<>> :
        tag \in Tags, from \in DOMAIN q, to \in DOMAIN q}
SomeRangeTagged ==
    \/ /\ UNCHANGED cur
       /\ \E seqs \in {seq'} : \E now \in {ContentOf(seq)}, new \in {ContentOf(seqs)}, s, h \in Handles :
             /\ \A g \in Handles \ {h} : new[g] = now[g]
             /\ now[s] # Unset /\ new[h] \in Tagged(now[s])
    \/ /\ UNCHANGED seq
       /\ \E cursors \in {cur'} : \E now \in {GapsOf(cur)}, new \in {GapsOf(cursors)}, s, d \in Cursors :
             /\ \A g \in Cursors \ {d} : new[g] = now[g]
             /\ now[s] # Unset /\ new[d] # Unset
             /\ \/ new[d].before = now[s].before /\ new[d].after \in Tagged(now[s].after)
                \/ new[d].after = now[s].after /\ new[d].before \in Tagged(now[s].before)

\* A call edits its sequence, or applies its tag to one range of it and to
\* nothing else, however the tree carries it, and other versions stay as they are.
UpdatesKeepPromise ==
    \/ \E seqs \in {seq'}, cursors \in {cur'} :
          \/ Line!EditStep(ContentOf(seq), ContentOf(seqs)) /\ cursors = cur
          \/ Line!GapStep(GapsOf(cur), GapsOf(cursors), ContentOf(seq), ContentOf(seqs))
    \/ SomeRangeTagged
=============================================================================
