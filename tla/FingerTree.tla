---------------------------- MODULE FingerTree ----------------------------
(***************************************************************************)
(* The measured 2-3 finger tree of fingertree.c: digits of one to four     *)
(* elements at both ends and a middle tree of nodes that is suspended as   *)
(* a push or a pop until somebody needs it.  Every element caches how many *)
(* leaves it has, its last leaf and its measure.  The measure is the       *)
(* sequence of the leaves, of which any other measure is an image, so a    *)
(* monotone predicate is a threshold on its length.  Forcing a middle      *)
(* stores its result beside the suspension, which no caller can observe.   *)
(***************************************************************************)
EXTENDS Naturals, SequencesExt

CONSTANTS Values,   \* integers, the leaves
          Handles, Unset,
          MaxSize   \* leaves of the largest tree a call may return
VARIABLE hold       \* the tree each handle owns

-----------------------------------------------------------------------------
\* Elements.

RECURSIVE LeavesOf(_), MeasureOf(_)
LeavesOf(es) == IF es = <<>> THEN 0 ELSE Head(es).leaves + LeavesOf(Tail(es))
MeasureOf(es) == IF es = <<>> THEN <<>> ELSE Head(es).measure \o MeasureOf(Tail(es))

Leaf(v) == [kind |-> "leaf", value |-> v, leaves |-> 1, last |-> v, measure |-> <<v>>]

Node(es) == [kind |-> "node", children |-> es, leaves |-> LeavesOf(es), last |-> es[Len(es)].last,
             measure |-> MeasureOf(es)]

-----------------------------------------------------------------------------
\* Trees and suspended middles.

Empty == [kind |-> "empty", leaves |-> 0]
Single(e) == [kind |-> "single", element |-> e, leaves |-> e.leaves, last |-> e.last]

Computed(t) == [kind |-> "computed", tree |-> t, leaves |-> t.leaves]

DeepWith(pr, m, sf) == [kind |-> "deep", prefix |-> pr, middle |-> m, suffix |-> sf,
                        leaves |-> LeavesOf(pr) + m.leaves + LeavesOf(sf), last |-> sf[Len(sf)].last]
Deep(pr, t, sf) == DeepWith(pr, Computed(t), sf)

RECURSIVE RepCons(_, _), RepSnoc(_, _), ViewLeft(_), ViewRight(_)

Force(m) ==
    CASE m.kind = "computed"   -> m.tree
      [] m.kind = "push front" -> RepCons(m.source, m.element)
      [] m.kind = "push back"  -> RepSnoc(m.source, m.element)
      [] m.kind = "pop front"  -> ViewLeft(m.source).rest
      [] m.kind = "pop back"   -> ViewRight(m.source).rest

\* A suspended push knows its measure; the measure of a pop needs its result.
RECURSIVE TreeMeasure(_)
MiddleMeasure(m) == IF m.kind \in {"push front", "push back"} THEN m.measure ELSE TreeMeasure(Force(m))
TreeMeasure(t) ==
    CASE t.kind = "empty"  -> <<>>
      [] t.kind = "single" -> t.element.measure
      [] t.kind = "deep"   -> MeasureOf(t.prefix) \o MiddleMeasure(t.middle) \o MeasureOf(t.suffix)

Joined(side, new, old) == IF side = "push front" THEN new \o old ELSE old \o new
Push(side, t, e) ==
    [kind |-> side, source |-> t, element |-> e, leaves |-> t.leaves + e.leaves,
     measure |-> Joined(side, e.measure, TreeMeasure(t))]

Pop(side, t, removed) == [kind |-> side, source |-> t, leaves |-> t.leaves - removed]

RepCons(t, e) ==
    CASE t.kind = "empty"  -> Single(e)
      [] t.kind = "single" -> Deep(<<e>>, Empty, <<t.element>>)
      [] t.kind = "deep" /\ Len(t.prefix) < 4 -> DeepWith(<<e>> \o t.prefix, t.middle, t.suffix)
      [] OTHER -> DeepWith(<<e, t.prefix[1]>>, Push("push front", Force(t.middle), Node(SubSeq(t.prefix, 2, 4))),
                           t.suffix)

RepSnoc(t, e) ==
    CASE t.kind = "empty"  -> Single(e)
      [] t.kind = "single" -> Deep(<<t.element>>, Empty, <<e>>)
      [] t.kind = "deep" /\ Len(t.suffix) < 4 -> DeepWith(t.prefix, t.middle, Append(t.suffix, e))
      [] OTHER -> DeepWith(t.prefix, Push("push back", Force(t.middle), Node(SubSeq(t.suffix, 1, 3))),
                           <<t.suffix[4], e>>)

AppendAll(t, es) == FoldLeft(RepSnoc, t, es)
PrependAll(es, t) == FoldRight(LAMBDA e, acc : RepCons(acc, e), es, t)
\* A push loop over the at most four elements of a digit: all but the first end in the suffix.
FromBuffer(es) == IF Len(es) = 1 THEN Single(es[1]) ELSE Deep(<<es[1]>>, Empty, Tail(es))

Foremost(t) == IF t.kind = "single" THEN t.element ELSE t.prefix[1]
Hindmost(t) == IF t.kind = "single" THEN t.element ELSE t.suffix[Len(t.suffix)]

\* An empty prefix is filled with the middle's first node, whose removal from
\* the middle is suspended.
BorrowLeft(m, sf) == DeepWith(Foremost(m).children, Pop("pop front", m, Foremost(m).leaves), sf)
BorrowRight(m, pr) == DeepWith(pr, Pop("pop back", m, Hindmost(m).leaves), Hindmost(m).children)
ViewLeft(t) ==
    IF t.kind = "single" THEN [value |-> t.element, rest |-> Empty]
    ELSE [value |-> t.prefix[1],
          rest  |-> CASE Len(t.prefix) > 1   -> DeepWith(Tail(t.prefix), t.middle, t.suffix)
                      [] Len(t.prefix) = 1 /\ t.middle.leaves = 0 -> FromBuffer(t.suffix)
                      [] OTHER -> BorrowLeft(Force(t.middle), t.suffix)]

ViewRight(t) ==
    IF t.kind = "single" THEN [value |-> t.element, rest |-> Empty]
    ELSE [value |-> t.suffix[Len(t.suffix)],
          rest  |-> CASE Len(t.suffix) > 1   -> DeepWith(t.prefix, t.middle, Front(t.suffix))
                      [] Len(t.suffix) = 1 /\ t.middle.leaves = 0 -> FromBuffer(t.prefix)
                      [] OTHER -> BorrowRight(Force(t.middle), t.prefix)]

\* Threes while more than four are left, then two, three, or two and two.
LastNodes(es) == IF Len(es) = 4 THEN <<Node(SubSeq(es, 1, 2)), Node(SubSeq(es, 3, 4))>> ELSE <<Node(es)>>
NodesAfter(es, threes) ==
    [i \in 1..threes |-> Node(SubSeq(es, 3 * i - 2, 3 * i))] \o LastNodes(SubSeq(es, 3 * threes + 1, Len(es)))
NodesFrom(es) == NodesAfter(es, IF Len(es) <= 4 THEN 0 ELSE (Len(es) - 2) \div 3)

\* What a tree that is not deep adds to the other one.
ElementsOf(t) == IF t.kind = "empty" THEN <<>> ELSE <<t.element>>

RECURSIVE ConcatWith(_, _, _)

\* The digits that meet in the middle are taken in the wrong order.
ConcatSwapsDigits(l, es, r) ==
    CASE l.kind = "empty" \/ (l.kind = "single" /\ r.kind # "empty") -> PrependAll(ElementsOf(l) \o es, r)
      [] (l.kind # "empty" /\ r.kind = "empty") \/ (l.kind = "deep" /\ r.kind = "single") ->
            AppendAll(l, es \o ElementsOf(r))
      [] l.kind = "deep" /\ r.kind = "deep" ->
            Deep(l.prefix, ConcatWith(Force(l.middle), NodesFrom(r.prefix \o es \o l.suffix), Force(r.middle)),
                 r.suffix)

ConcatWith(l, es, r) ==
    CASE l.kind = "empty" \/ (l.kind = "single" /\ r.kind # "empty") -> PrependAll(ElementsOf(l) \o es, r)
      [] (l.kind # "empty" /\ r.kind = "empty") \/ (l.kind = "deep" /\ r.kind = "single") ->
            AppendAll(l, es \o ElementsOf(r))
      [] l.kind = "deep" /\ r.kind = "deep" ->
            Deep(l.prefix, ConcatWith(Force(l.middle), NodesFrom(l.suffix \o es \o r.prefix), Force(r.middle)),
                 r.suffix)

-----------------------------------------------------------------------------
\* Access by index.

\* The element of es that holds leaf i and the index of the leaf within it.
Holder(es, i) == CHOOSE k \in 1..Len(es) :
                    LeavesOf(SubSeq(es, 1, k - 1)) <= i /\ i < LeavesOf(SubSeq(es, 1, k))
Within(es, i) == i - LeavesOf(SubSeq(es, 1, Holder(es, i) - 1))

RECURSIVE LeafAt(_, _), SetLeaf(_, _, _)
LeafAt(e, i) == IF e.kind = "leaf" THEN e.value ELSE LeafAt(e.children[Holder(e.children, i)], Within(e.children, i))

ReplaceIn(es, i, v) == [es EXCEPT ![Holder(es, i)] = SetLeaf(@, Within(es, i), v)]
SetLeaf(e, i, v) == IF e.kind = "leaf" THEN Leaf(v) ELSE Node(ReplaceIn(e.children, i, v))

RECURSIVE CopyLeafAt(_, _), TreeSetLeaf(_, _, _)
LeafIn(es, i) == LeafAt(es[Holder(es, i)], Within(es, i))
CopyDeep(t, i, p) ==
    CASE i < p -> LeafIn(t.prefix, i)
      [] i >= p /\ i < p + t.middle.leaves -> CopyLeafAt(Force(t.middle), i - p)
      [] OTHER -> LeafIn(t.suffix, i - p - t.middle.leaves)
CopyLeafAt(t, i) ==
    IF t.kind = "single" THEN LeafAt(t.element, i) ELSE CopyDeep(t, i, LeavesOf(t.prefix))

DeepSetLeaf(t, i, v, p) ==
    CASE i < p -> DeepWith(ReplaceIn(t.prefix, i, v), t.middle, t.suffix)
      [] i >= p /\ i < p + t.middle.leaves -> Deep(t.prefix, TreeSetLeaf(Force(t.middle), i - p, v), t.suffix)
      [] OTHER -> DeepWith(t.prefix, t.middle, ReplaceIn(t.suffix, i - p - t.middle.leaves, v))
TreeSetLeaf(t, i, v) ==
    IF t.kind = "single" THEN Single(SetLeaf(t.element, i, v)) ELSE DeepSetLeaf(t, i, v, LeavesOf(t.prefix))

RECURSIVE VisitElement(_), Visit(_)
VisitElement(e) == IF e.kind = "leaf" THEN <<e.value>> ELSE FlattenSeq([i \in 1..Len(e.children) |-> VisitElement(e.children[i])])
VisitDigit(es) == FlattenSeq([i \in 1..Len(es) |-> VisitElement(es[i])])
Visit(t) ==
    CASE t.kind = "empty"  -> <<>>
      [] t.kind = "single" -> VisitElement(t.element)
      [] t.kind = "deep"   -> VisitDigit(t.prefix) \o Visit(Force(t.middle)) \o VisitDigit(t.suffix)

-----------------------------------------------------------------------------
\* Splitting.

FromDigit(es) == CASE Len(es) = 0 -> Empty
                   [] Len(es) = 1 -> Single(es[1])
                   [] OTHER       -> Deep(<<es[1]>>, Empty, Tail(es))

FilledLeft(view, sf) == Deep(view.value.children, view.rest, sf)
FilledRight(pr, view) == Deep(pr, view.rest, view.value.children)

DeepLeft(pr, t, sf) ==
    CASE pr # <<>> -> Deep(pr, t, sf)
      [] pr = <<>> /\ t.kind = "empty" -> FromDigit(sf)
      [] OTHER -> FilledLeft(ViewLeft(t), sf)

DeepRight(pr, t, sf) ==
    CASE sf # <<>> -> Deep(pr, t, sf)
      [] sf = <<>> /\ t.kind = "empty" -> FromDigit(pr)
      [] OTHER -> FilledRight(pr, ViewRight(t))

SplitDigitAt(es, i, k) ==
    [before |-> SubSeq(es, 1, k - 1), hit |-> es[k], index |-> Within(es, i), after |-> SubSeq(es, k + 1, Len(es))]
SplitDigit(es, i) == SplitDigitAt(es, i, Holder(es, i))

RECURSIVE SplitTree(_, _)
\* The digit or node that is cut, and the middle trees that stay on its two sides.
InMiddle(s) == [cut |-> SplitDigit(s.hit.children, s.index), left |-> s.left, right |-> s.right]
SplitPlace(t, i, p, m) ==
    CASE i < p -> [cut |-> SplitDigit(t.prefix, i), left |-> Unset, right |-> m]
      [] i >= p /\ i < p + m.leaves -> InMiddle(SplitTree(m, i - p))
      [] OTHER -> [cut |-> SplitDigit(t.suffix, i - p - m.leaves), left |-> m, right |-> Unset]
SplitAround(t, at) ==
    [left  |-> IF at.left = Unset THEN FromDigit(at.cut.before) ELSE DeepRight(t.prefix, at.left, at.cut.before),
     hit   |-> at.cut.hit, index |-> at.cut.index,
     right |-> IF at.right = Unset THEN FromDigit(at.cut.after) ELSE DeepLeft(at.cut.after, at.right, t.suffix)]
SplitTree(t, i) ==
    IF t.kind = "single" THEN [left |-> Empty, hit |-> t.element, index |-> i, right |-> Empty]
    ELSE SplitAround(t, SplitPlace(t, i, LeavesOf(t.prefix), Force(t.middle)))

Concat(l, r) == ConcatWith(l, <<>>, r)

HitToRight(s) == [left |-> s.left, right |-> RepCons(s.right, s.hit)]
SplitAt(t, i) ==
    CASE i = 0 -> [left |-> Empty, right |-> t]
      [] i > 0 /\ i = t.leaves -> [left |-> t, right |-> Empty]
      [] OTHER -> HitToRight(SplitTree(t, i))

JoinAround(s, v) == Concat(RepSnoc(s.left, Leaf(v)), s.right)
JoinWithout(s) == Concat(s.left, ViewLeft(s.right).rest)
InsertedAt(t, i, v) == JoinAround(SplitAt(t, i), v)
RemovedAt(t, i) == JoinWithout(SplitAt(t, i))

-----------------------------------------------------------------------------
\* Searching for the first leaf at which a prefix is longer than k, and for the
\* first leaf that is at least x in a sorted tree.

Consider(st, measure, leaves, k) ==
    IF Len(st.before \o measure) > k THEN st
    ELSE [st EXCEPT !.before = @ \o measure, !.index = @ + leaves]

RECURSIVE LocateElement(_, _, _), LocateTree(_, _, _)
LocateIn(st, es, k) == FoldLeft(LAMBDA acc, e : IF acc.hit # Unset THEN acc ELSE LocateElement(acc, e, k), st, es)
LocateFrom(st, e, k, next) ==
    CASE next # st -> next
      [] next = st /\ e.kind = "leaf" -> [st EXCEPT !.hit = e.value]
      [] OTHER -> LocateIn(st, e.children, k)
LocateElement(st, e, k) == LocateFrom(st, e, k, Consider(st, e.measure, e.leaves, k))

\* first is what the prefix came to, second what passing the middle would.
LocateRest(t, k, first, second) ==
    CASE first.hit # Unset -> first
      [] first.hit = Unset /\ second = first /\ t.middle.leaves > 0 -> LocateTree(first, Force(t.middle), k)
      [] OTHER -> LocateIn(second, t.suffix, k)
LocateDeep(t, k, first) ==
    LocateRest(t, k, first, Consider(first, MiddleMeasure(t.middle), t.middle.leaves, k))
LocateTree(st, t, k) ==
    CASE t.kind = "empty"  -> st
      [] t.kind = "single" -> LocateElement(st, t.element, k)
      [] t.kind = "deep"   -> LocateDeep(t, k, LocateIn(st, t.prefix, k))

LocateStart == [before |-> <<>>, index |-> 0, hit |-> Unset]
LocateWithin(t, k, all) ==
    IF Len(all) > k THEN LocateTree(LocateStart, t, k) ELSE [LocateStart EXCEPT !.before = all]
Locate(t, k) == LocateWithin(t, k, TreeMeasure(t))

RECURSIVE BoundElement(_, _, _), BoundTree(_, _, _)
BoundIn(st, es, x) == FoldLeft(LAMBDA acc, e : IF acc.hit # Unset THEN acc ELSE BoundElement(acc, e, x), st, es)
BoundElement(st, e, x) ==
    CASE e.last < x -> [st EXCEPT !.index = @ + e.leaves]
      [] e.last >= x /\ e.kind = "leaf" -> [st EXCEPT !.hit = e.value]
      [] OTHER -> BoundIn(st, e.children, x)
BoundMiddle(st, t, x) == IF st.hit # Unset THEN st ELSE BoundTree(st, Force(t.middle), x)
BoundTree(st, t, x) ==
    CASE t.kind = "empty" -> st
      [] t.kind # "empty" /\ t.last < x -> [st EXCEPT !.index = @ + t.leaves]
      [] t.kind = "single" /\ t.last >= x -> BoundElement(st, t.element, x)
      [] OTHER -> BoundIn(BoundMiddle(BoundIn(st, t.prefix, x), t, x), t.suffix, x)
Bound(t, x) == BoundTree([index |-> 0, hit |-> Unset], t, x)

-----------------------------------------------------------------------------
\* The calls.  A result goes to a handle that owns nothing, or to the source's
\* for a caller that disposes its source and keeps the result in its place.

Held == {h \in Handles : hold[h] # Unset}
MayReceive(s, h) == h = s \/ h \notin Held

Give(s, h, t) == s \in Held /\ MayReceive(s, h) /\ hold' = [hold EXCEPT ![h] = t]
GiveBoth(s, l, r, a, b) ==
    /\ s \in Held /\ l # r /\ MayReceive(s, l) /\ MayReceive(s, r)
    /\ hold' = [hold EXCEPT ![l] = a, ![r] = b]

TreeInit(h) == h \notin Held /\ hold' = [hold EXCEPT ![h] = Empty]
TreeCopy(s, h) == s # h /\ Give(s, h, hold[s])
TreeDispose(h) == h \in Held /\ hold' = [hold EXCEPT ![h] = Unset]
PushFront(s, h, v) == s \in Held /\ hold[s].leaves < MaxSize /\ Give(s, h, RepCons(hold[s], Leaf(v)))
PushBack(s, h, v) == s \in Held /\ hold[s].leaves < MaxSize /\ Give(s, h, RepSnoc(hold[s], Leaf(v)))
PopFront(s, h) == s \in Held /\ hold[s].leaves > 0 /\ Give(s, h, ViewLeft(hold[s]).rest)
PopBack(s, h) == s \in Held /\ hold[s].leaves > 0 /\ Give(s, h, ViewRight(hold[s]).rest)
TreeConcat(l, r, h) == {l, r} \subseteq Held /\ hold[l].leaves + hold[r].leaves <= MaxSize
                       /\ Give(l, h, Concat(hold[l], hold[r]))
TreeSplitAt(s, l, r, i) ==
    /\ s \in Held /\ i <= hold[s].leaves
    /\ \E cut \in {SplitAt(hold[s], i)} : GiveBoth(s, l, r, cut.left, cut.right)
SetAt(s, h, i, v) == s \in Held /\ i < hold[s].leaves /\ Give(s, h, TreeSetLeaf(hold[s], i, v))
TreeInsertAt(s, h, i, v) == s \in Held /\ i <= hold[s].leaves /\ hold[s].leaves < MaxSize
                            /\ Give(s, h, InsertedAt(hold[s], i, v))
TreeRemoveAt(s, h, i) == s \in Held /\ i < hold[s].leaves /\ Give(s, h, RemovedAt(hold[s], i))

\* The leaf at which the predicate turns true is left out of both halves.
TreeSplit(s, l, r, k) ==
    /\ s \in Held
    /\ \E at \in {Locate(hold[s], k)} :
          /\ at.hit # Unset
          /\ \E cut \in {SplitAt(hold[s], at.index)} : GiveBoth(s, l, r, cut.left, ViewLeft(cut.right).rest)

Init == hold = [h \in Handles |-> Unset]

Next ==
    \/ \E h \in Handles : TreeInit(h) \/ TreeDispose(h)
    \/ \E s, h \in Handles :
          \/ TreeCopy(s, h) \/ PopFront(s, h) \/ PopBack(s, h)
          \/ \E v \in Values : PushFront(s, h, v) \/ PushBack(s, h, v)
          \/ \E i \in 0..MaxSize :
                TreeRemoveAt(s, h, i) \/ \E v \in Values : SetAt(s, h, i, v) \/ TreeInsertAt(s, h, i, v)
    \/ \E s, g, h \in Handles :
          TreeConcat(s, g, h) \/ \E i \in 0..MaxSize : TreeSplitAt(s, g, h, i) \/ TreeSplit(s, g, h, i)

Spec == Init /\ [][Next]_hold

-----------------------------------------------------------------------------
\* Elements of one level have one depth, digits one to four elements and nodes
\* two or three; every cached count, signpost and measure is that of what
\* visiting shows, of suspended middles before and after they are forced.
RECURSIVE ValidElement(_, _), ValidTree(_, _)
ValidElement(e, d) ==
    /\ e.measure = VisitElement(e) /\ e.leaves = Len(e.measure) /\ e.last = e.measure[e.leaves]
    /\ IF d = 0 THEN e.kind = "leaf"
       ELSE e.kind = "node" /\ Len(e.children) \in 2..3 /\ \A i \in 1..Len(e.children) : ValidElement(e.children[i], d - 1)
ValidTree(t, d) ==
    CASE t.kind = "empty"  -> t.leaves = 0
      [] t.kind = "single" -> ValidElement(t.element, d) /\ t.leaves = t.element.leaves /\ t.last = t.element.last
      [] t.kind = "deep"   ->
            /\ \A es \in {t.prefix, t.suffix} : Len(es) \in 1..4 /\ \A i \in 1..Len(es) : ValidElement(es[i], d)
            /\ \A m \in {Force(t.middle)} : /\ ValidTree(m, d + 1) /\ t.middle.leaves = m.leaves
                                           /\ MiddleMeasure(t.middle) = Visit(m)
            /\ \A all \in {Visit(t)} : t.leaves = Len(all) /\ t.last = all[t.leaves]

\* Whatever calls built two trees, they and their concatenation are well shaped
\* and their caches are right.
TreesValid == \A h \in Held : \A t \in {hold[h]} \cup {Concat(hold[h], hold[g]) : g \in Held} : ValidTree(t, 0)

\* Trees that calls make of t, each with what it should hold when q is what t holds.
Pushed(t, q) == {<<RepCons(t, Leaf(0)), <<0>> \o q>>, <<RepSnoc(t, Leaf(0)), Append(q, 0)>>}
Halves(s, q, i) == {<<s.left, SubSeq(q, 1, i)>>, <<s.right, SubSeq(q, i + 1, Len(q))>>}
Popped(l, r, q) == {<<Single(l.value), <<q[1]>>>>, <<l.rest, Tail(q)>>, <<Single(r.value), <<Last(q)>>>>, <<r.rest, Front(q)>>}
Made(t, q) ==
    Pushed(t, q) \cup UNION {Halves(SplitAt(t, i), q, i) : i \in 0..Len(q)}
    \cup {<<TreeSetLeaf(t, i - 1, 0), [q EXCEPT ![i] = 0]>> : i \in DOMAIN q}
    \cup IF q = <<>> THEN {} ELSE Popped(ViewLeft(t), ViewRight(t), q)

\* Pushing and popping at both ends, indexing, replacing and splitting at every
\* place, and locating every threshold, do on every such tree what they do on
\* its sequence of leaves.
CallsExact ==
    \A h \in Held : \A t \in {hold[h]} \cup {Concat(hold[h], hold[g]) : g \in Held} : \A q \in {Visit(t)} :
       /\ TreeMeasure(t) = q /\ \A i \in DOMAIN q : CopyLeafAt(t, i - 1) = q[i]
       /\ \A i \in 0..Len(q) :
             Locate(t, i) = IF i = Len(q) THEN [before |-> q, index |-> 0, hit |-> Unset]
                            ELSE [before |-> SubSeq(q, 1, i), index |-> i, hit |-> q[i + 1]]
       /\ \A made \in Made(t, q) : Visit(made[1]) = made[2]

\* The signposts lead a search in a sorted tree to the first leaf that is large
\* enough, and past the last leaf when there is none.
BoundsExact ==
    \A h \in Held : \A all \in {Visit(hold[h])} :
       (\A i \in 1..(Len(all) - 1) : all[i] <= all[i + 1]) =>
          \A x \in Values : \A below \in {Len(SelectSeq(all, LAMBDA v : v < x))} :
             Bound(hold[h], x) = [index |-> below, hit |-> IF below = Len(all) THEN Unset ELSE all[below + 1]]

ContentOf(hs) == [h \in Handles |-> IF hs[h] = Unset THEN Unset ELSE Visit(hs[h])] @@ <<>>
Promised == INSTANCE PersistentSequence WITH MaxSource <- 0, Cursors <- {}, MaxInsert <- 0, content <- ContentOf(hold)

\* Every call returns the sequence it promises and changes no other tree.
TreeKeepsPromise == \E now \in {hold}, new \in {hold'} : Promised!EditStep(ContentOf(now), ContentOf(new))
=============================================================================
