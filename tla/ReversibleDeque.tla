-------------------------- MODULE ReversibleDeque --------------------------
(***************************************************************************)
(* The reversible deque of fingertree.c: a finger tree with digits of one  *)
(* to three elements whose nodes and deep trees carry a flag that mirrors  *)
(* everything below them.  Reversing flips one flag; every other call      *)
(* pushes the flags of what it touches one level down.                     *)
(***************************************************************************)
EXTENDS Naturals, SequencesExt

CONSTANTS Values, Handles, Unset,
          MaxSize   \* leaves of the largest deque a call may return
VARIABLE hold

-----------------------------------------------------------------------------
RECURSIVE LeavesOf(_)
LeavesOf(es) == IF es = <<>> THEN 0 ELSE Head(es).leaves + LeavesOf(Tail(es))

Leaf(v) == [kind |-> "leaf", value |-> v, leaves |-> 1]
NodeCreate(es, reversed) == [kind |-> "node", children |-> es, reversed |-> reversed, leaves |-> LeavesOf(es)]
Node(es) == NodeCreate(es, FALSE)

ElementMirror(e) == IF e.kind = "leaf" THEN e ELSE NodeCreate(e.children, ~e.reversed)

\* The children in logical order lose the flag of a mirrored node.
LogicalChildrenUnmirrored(e) == IF e.reversed THEN Reverse(e.children) ELSE e.children

\* The children in logical order; those of a mirrored node are mirrored.
LogicalChildren(e) ==
    [i \in 1..Len(e.children) |-> IF e.reversed THEN ElementMirror(e.children[Len(e.children) + 1 - i])
                                  ELSE e.children[i]] @@ <<>>

Empty == [kind |-> "empty", leaves |-> 0]
Single(e) == [kind |-> "single", element |-> e, leaves |-> e.leaves]
DeepEx(pr, m, sf, reversed) ==
    [kind |-> "deep", prefix |-> pr, middle |-> m, suffix |-> sf, reversed |-> reversed,
     leaves |-> LeavesOf(pr) + m.leaves + LeavesOf(sf)]
Deep(pr, m, sf) == DeepEx(pr, m, sf, FALSE)

Mirror(t) ==
    CASE t.kind = "empty"  -> t
      [] t.kind = "single" -> Single(ElementMirror(t.element))
      [] t.kind = "deep"   -> DeepEx(t.prefix, t.middle, t.suffix, ~t.reversed)

MirrorReversed(es) == [i \in 1..Len(es) |-> ElementMirror(es[Len(es) + 1 - i])] @@ <<>>

LogicalParts(t) ==
    IF t.reversed
    THEN [prefix |-> MirrorReversed(t.suffix), middle |-> Mirror(t.middle), suffix |-> MirrorReversed(t.prefix)]
    ELSE [prefix |-> t.prefix, middle |-> t.middle, suffix |-> t.suffix]

FromDigit(es) == CASE Len(es) = 0 -> Empty
                   [] Len(es) = 1 -> Single(es[1])
                   [] OTHER       -> Deep(<<es[1]>>, Empty, Tail(es))

RECURSIVE RepCons(_, _), RepSnoc(_, _), ViewLeft(_), ViewRight(_)
FilledLeft(view, sf) == Deep(LogicalChildren(view.value), view.rest, sf)
FilledRight(pr, view) == Deep(pr, view.rest, LogicalChildren(view.value))
DeepLeft(pr, m, sf) ==
    CASE pr # <<>> -> Deep(pr, m, sf)
      [] pr = <<>> /\ m.kind = "empty" -> FromDigit(sf)
      [] OTHER -> FilledLeft(ViewLeft(m), sf)
DeepRight(pr, m, sf) ==
    CASE sf # <<>> -> Deep(pr, m, sf)
      [] sf = <<>> /\ m.kind = "empty" -> FromDigit(pr)
      [] OTHER -> FilledRight(pr, ViewRight(m))

\* Only the first of three prefix elements stays; the other two go down.
ConsParts(p, e) ==
    IF Len(p.prefix) < 3 THEN Deep(<<e>> \o p.prefix, p.middle, p.suffix)
    ELSE Deep(<<e, p.prefix[1]>>, RepCons(p.middle, Node(Tail(p.prefix))), p.suffix)
RepCons(t, e) ==
    CASE t.kind = "empty"  -> Single(e)
      [] t.kind = "single" -> Deep(<<e>>, Empty, <<t.element>>)
      [] t.kind = "deep"   -> ConsParts(LogicalParts(t), e)

SnocParts(p, e) ==
    IF Len(p.suffix) < 3 THEN Deep(p.prefix, p.middle, Append(p.suffix, e))
    ELSE Deep(p.prefix, RepSnoc(p.middle, Node(Front(p.suffix))), <<p.suffix[3], e>>)
RepSnoc(t, e) ==
    CASE t.kind = "empty"  -> Single(e)
      [] t.kind = "single" -> Deep(<<t.element>>, Empty, <<e>>)
      [] t.kind = "deep"   -> SnocParts(LogicalParts(t), e)

ViewPartsLeft(p) == [value |-> p.prefix[1], rest |-> DeepLeft(Tail(p.prefix), p.middle, p.suffix)]
ViewPartsRight(p) == [value |-> p.suffix[Len(p.suffix)], rest |-> DeepRight(p.prefix, p.middle, Front(p.suffix))]
ViewLeft(t) ==
    IF t.kind = "single" THEN [value |-> t.element, rest |-> Empty] ELSE ViewPartsLeft(LogicalParts(t))
ViewRight(t) ==
    IF t.kind = "single" THEN [value |-> t.element, rest |-> Empty] ELSE ViewPartsRight(LogicalParts(t))

AppendAll(t, es) == FoldLeft(RepSnoc, t, es)
PrependAll(es, t) == FoldRight(LAMBDA e, acc : RepCons(acc, e), es, t)

LastNodes(es) == IF Len(es) = 4 THEN <<Node(SubSeq(es, 1, 2)), Node(SubSeq(es, 3, 4))>> ELSE <<Node(es)>>
NodesAfter(es, threes) ==
    [i \in 1..threes |-> Node(SubSeq(es, 3 * i - 2, 3 * i))] \o LastNodes(SubSeq(es, 3 * threes + 1, Len(es)))
NodesFrom(es) == NodesAfter(es, IF Len(es) <= 4 THEN 0 ELSE (Len(es) - 2) \div 3)

\* What a tree that is not deep adds to the other one.
ElementsOf(t) == IF t.kind = "empty" THEN <<>> ELSE <<t.element>>

RECURSIVE ConcatWith(_, _, _)
ConcatParts(p, es, q) ==
    Deep(p.prefix, ConcatWith(p.middle, NodesFrom(p.suffix \o es \o q.prefix), q.middle), q.suffix)
ConcatWith(l, es, r) ==
    CASE l.kind = "empty" \/ (l.kind = "single" /\ r.kind # "empty") -> PrependAll(ElementsOf(l) \o es, r)
      [] (l.kind # "empty" /\ r.kind = "empty") \/ (l.kind = "deep" /\ r.kind = "single") ->
            AppendAll(l, es \o ElementsOf(r))
      [] l.kind = "deep" /\ r.kind = "deep" ->
            ConcatParts(LogicalParts(l), es, LogicalParts(r))

-----------------------------------------------------------------------------
RECURSIVE FirstOf(_), LastOf(_)
FirstOf(e) == IF e.kind = "leaf" THEN e.value ELSE FirstOf(LogicalChildren(e)[1])
LastOf(e) == IF e.kind = "leaf" THEN e.value ELSE LastOf(LogicalChildren(e)[Len(e.children)])

\* The physical end of a mirrored tree is read backwards, without its parts.
CopyFirst(t) == CASE t.kind = "single" -> FirstOf(t.element)
                  [] t.kind = "deep" /\ t.reversed -> LastOf(t.suffix[Len(t.suffix)])
                  [] OTHER -> FirstOf(t.prefix[1])
CopyLast(t) == CASE t.kind = "single" -> LastOf(t.element)
                 [] t.kind = "deep" /\ t.reversed -> FirstOf(t.prefix[1])
                 [] OTHER -> LastOf(t.suffix[Len(t.suffix)])

Holder(es, i) == CHOOSE k \in 1..Len(es) :
                    LeavesOf(SubSeq(es, 1, k - 1)) <= i /\ i < LeavesOf(SubSeq(es, 1, k))
Within(es, i) == i - LeavesOf(SubSeq(es, 1, Holder(es, i) - 1))

RECURSIVE GetLeaf(_, _), SetLeaf(_, _, _)
GetInDigit(es, i) == GetLeaf(es[Holder(es, i)], Within(es, i))
GetLeaf(e, i) == IF e.kind = "leaf" THEN e.value ELSE GetInDigit(LogicalChildren(e), i)
ReplaceInDigit(es, i, v) == [es EXCEPT ![Holder(es, i)] = SetLeaf(@, Within(es, i), v)]
SetLeaf(e, i, v) == IF e.kind = "leaf" THEN Leaf(v) ELSE Node(ReplaceInDigit(LogicalChildren(e), i, v))

RECURSIVE RepGetLeaf(_, _), RepSetLeaf(_, _, _)
GetInParts(p, n, i) ==
    CASE i < n -> GetInDigit(p.prefix, i)
      [] i >= n /\ i < n + p.middle.leaves -> RepGetLeaf(p.middle, i - n)
      [] OTHER -> GetInDigit(p.suffix, i - n - p.middle.leaves)
GetCounted(p, i) == GetInParts(p, LeavesOf(p.prefix), i)
RepGetLeaf(t, i) == IF t.kind = "single" THEN GetLeaf(t.element, i) ELSE GetCounted(LogicalParts(t), i)

SetInParts(p, n, i, v) ==
    CASE i < n -> Deep(ReplaceInDigit(p.prefix, i, v), p.middle, p.suffix)
      [] i >= n /\ i < n + p.middle.leaves -> Deep(p.prefix, RepSetLeaf(p.middle, i - n, v), p.suffix)
      [] OTHER -> Deep(p.prefix, p.middle, ReplaceInDigit(p.suffix, i - n - p.middle.leaves, v))
SetCounted(p, i, v) == SetInParts(p, LeavesOf(p.prefix), i, v)
RepSetLeaf(t, i, v) ==
    IF t.kind = "single" THEN Single(SetLeaf(t.element, i, v)) ELSE SetCounted(LogicalParts(t), i, v)

SplitDigitAt(es, i, k) ==
    [before |-> SubSeq(es, 1, k - 1), hit |-> es[k], index |-> Within(es, i), after |-> SubSeq(es, k + 1, Len(es))]
SplitDigit(es, i) == SplitDigitAt(es, i, Holder(es, i))

RECURSIVE SplitTree(_, _)
\* The digit or node that is cut, and the middle deques that stay on its two sides.
InMiddle(s) == [cut |-> SplitDigit(LogicalChildren(s.hit), s.index), left |-> s.left, right |-> s.right]
SplitPlace(p, n, i) ==
    CASE i < n -> [cut |-> SplitDigit(p.prefix, i), left |-> Unset, right |-> p.middle]
      [] i >= n /\ i < n + p.middle.leaves -> InMiddle(SplitTree(p.middle, i - n))
      [] OTHER -> [cut |-> SplitDigit(p.suffix, i - n - p.middle.leaves), left |-> p.middle, right |-> Unset]
SplitAround(p, at) ==
    [left  |-> IF at.left = Unset THEN FromDigit(at.cut.before) ELSE DeepRight(p.prefix, at.left, at.cut.before),
     hit   |-> at.cut.hit, index |-> at.cut.index,
     right |-> IF at.right = Unset THEN FromDigit(at.cut.after) ELSE DeepLeft(at.cut.after, at.right, p.suffix)]
SplitParts(p, i) == SplitAround(p, SplitPlace(p, LeavesOf(p.prefix), i))
SplitTree(t, i) ==
    IF t.kind = "single" THEN [left |-> Empty, hit |-> t.element, index |-> i, right |-> Empty]
    ELSE SplitParts(LogicalParts(t), i)

HitToRight(s) == [left |-> s.left, right |-> RepCons(s.right, s.hit)]
RepSplitAt(t, i) ==
    CASE i = 0 -> [left |-> Empty, right |-> t]
      [] i > 0 /\ i = t.leaves -> [left |-> t, right |-> Empty]
      [] OTHER -> HitToRight(SplitTree(t, i))

RECURSIVE VisitElement(_), Visit(_)
VisitElement(e) ==
    IF e.kind = "leaf" THEN <<e.value>>
    ELSE FlattenSeq([i \in 1..Len(e.children) |-> VisitElement(LogicalChildren(e)[i])])
VisitDigit(es) == FlattenSeq([i \in 1..Len(es) |-> VisitElement(es[i])])
VisitParts(p) == VisitDigit(p.prefix) \o Visit(p.middle) \o VisitDigit(p.suffix)
Visit(t) ==
    CASE t.kind = "empty"  -> <<>>
      [] t.kind = "single" -> VisitElement(t.element)
      [] t.kind = "deep"   -> VisitParts(LogicalParts(t))

-----------------------------------------------------------------------------
\* The calls.  A result goes to a handle that owns nothing, or to the source's
\* for a caller that disposes its source and keeps the result in its place.

Held == {h \in Handles : hold[h] # Unset}
Give(s, h, t) == s \in Held /\ (h = s \/ h \notin Held) /\ hold' = [hold EXCEPT ![h] = t]

DequeInit(h) == h \notin Held /\ hold' = [hold EXCEPT ![h] = Empty]
DequeCopy(s, h) == s # h /\ Give(s, h, hold[s])
DequeDispose(h) == h \in Held /\ hold' = [hold EXCEPT ![h] = Unset]
DequeReverse(s, h) == s \in Held /\ Give(s, h, Mirror(hold[s]))
PushFront(s, h, v) == s \in Held /\ hold[s].leaves < MaxSize /\ Give(s, h, RepCons(hold[s], Leaf(v)))
PushBack(s, h, v) == s \in Held /\ hold[s].leaves < MaxSize /\ Give(s, h, RepSnoc(hold[s], Leaf(v)))
PopFront(s, h) == s \in Held /\ hold[s].leaves > 0 /\ Give(s, h, ViewLeft(hold[s]).rest)
PopBack(s, h) == s \in Held /\ hold[s].leaves > 0 /\ Give(s, h, ViewRight(hold[s]).rest)
DequeConcat(l, r, h) == {l, r} \subseteq Held /\ hold[l].leaves + hold[r].leaves <= MaxSize
                        /\ Give(l, h, ConcatWith(hold[l], <<>>, hold[r]))
DequeSplitAt(s, l, r, i) ==
    /\ s \in Held /\ l # r /\ {l, r} \cap Held \subseteq {s} /\ i <= hold[s].leaves
    /\ \E cut \in {RepSplitAt(hold[s], i)} : hold' = [hold EXCEPT ![l] = cut.left, ![r] = cut.right]
SetAt(s, h, i, v) == s \in Held /\ i < hold[s].leaves /\ Give(s, h, RepSetLeaf(hold[s], i, v))
DequeInsertAt(s, h, i, v) ==
    /\ s \in Held /\ i <= hold[s].leaves /\ hold[s].leaves < MaxSize
    /\ \E cut \in {RepSplitAt(hold[s], i)} : Give(s, h, ConcatWith(RepSnoc(cut.left, Leaf(v)), <<>>, cut.right))
DequeRemoveAt(s, h, i) ==
    /\ s \in Held /\ i < hold[s].leaves
    /\ \E cut \in {RepSplitAt(hold[s], i)} : Give(s, h, ConcatWith(cut.left, <<>>, ViewLeft(cut.right).rest))

Init == hold = [h \in Handles |-> Unset]

Next ==
    \/ \E h \in Handles : DequeInit(h) \/ DequeDispose(h)
    \/ \E s, h \in Handles :
          \/ DequeCopy(s, h) \/ DequeReverse(s, h) \/ PopFront(s, h) \/ PopBack(s, h)
          \/ \E v \in Values : PushFront(s, h, v) \/ PushBack(s, h, v)
          \/ \E i \in 0..MaxSize :
                DequeRemoveAt(s, h, i) \/ \E v \in Values : SetAt(s, h, i, v) \/ DequeInsertAt(s, h, i, v)
    \/ \E s, g, h \in Handles : DequeConcat(s, g, h) \/ \E i \in 0..MaxSize : DequeSplitAt(s, g, h, i)

Spec == Init /\ [][Next]_hold

-----------------------------------------------------------------------------
\* Digits of one to three elements, nodes of two or three, elements of one depth
\* per level, and counts that are those of what is visited, under every mixture
\* of flags.
RECURSIVE ValidElement(_, _), ValidTree(_, _)
ValidElement(e, d) ==
    /\ e.leaves = Len(VisitElement(e))
    /\ IF d = 0 THEN e.kind = "leaf"
       ELSE e.kind = "node" /\ Len(e.children) \in 2..3 /\ \A i \in 1..Len(e.children) : ValidElement(e.children[i], d - 1)
ValidTree(t, d) ==
    CASE t.kind = "empty"  -> t.leaves = 0
      [] t.kind = "single" -> ValidElement(t.element, d) /\ t.leaves = t.element.leaves
      [] t.kind = "deep"   ->
            /\ \A es \in {t.prefix, t.suffix} : Len(es) \in 1..3 /\ \A i \in 1..Len(es) : ValidElement(es[i], d)
            /\ ValidTree(t.middle, d + 1) /\ t.leaves = Len(Visit(t))

\* The trees a deque is combined with to reach deeper shapes and mixed flags.
Around(t) == {t, Mirror(t), ConcatWith(t, <<>>, Mirror(t)), ConcatWith(Mirror(t), <<>>, t)}

\* Every deque, its mirror image and their concatenations are well shaped.
DequesValid == \A h \in Held : \A t \in Around(hold[h]) : ValidTree(t, 0)

\* On every such deque each call does what it does on the sequence visited, and
\* mirroring gives that sequence reversed.
CallsExact ==
    \A h \in Held : \A t \in Around(hold[h]) :
       \A all \in {Visit(t)} : \A n \in {t.leaves} :
          /\ Visit(Mirror(t)) = Reverse(all)
          /\ Visit(RepCons(t, Leaf(0))) = <<0>> \o all /\ Visit(RepSnoc(t, Leaf(0))) = Append(all, 0)
          /\ n > 0 => /\ Visit(ViewLeft(t).rest) = Tail(all) /\ ViewLeft(t).value = Leaf(all[1])
                      /\ Visit(ViewRight(t).rest) = Front(all) /\ ViewRight(t).value = Leaf(all[n])
                      /\ CopyFirst(t) = all[1] /\ CopyLast(t) = all[n]
          /\ \A i \in 0..(n - 1) :
                RepGetLeaf(t, i) = all[i + 1] /\ Visit(RepSetLeaf(t, i, 0)) = [all EXCEPT ![i + 1] = 0]
          /\ \A i \in 0..n : \A s \in {RepSplitAt(t, i)} :
                Visit(s.left) = SubSeq(all, 1, i) /\ Visit(s.right) = SubSeq(all, i + 1, n)

ContentOf(hs) == [h \in Handles |-> IF hs[h] = Unset THEN Unset ELSE Visit(hs[h])] @@ <<>>
Promised == INSTANCE PersistentSequence WITH MaxSource <- 0, Cursors <- {}, MaxInsert <- 0, content <- ContentOf(hold)

\* Every call returns the sequence it promises and changes no other deque.
DequeKeepsPromise == \E now \in {hold}, new \in {hold'} : Promised!EditStep(ContentOf(now), ContentOf(new))
=============================================================================
