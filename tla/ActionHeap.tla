----------------------------- MODULE ActionHeap -----------------------------
(***************************************************************************)
(* The monotone action heap of persistent_monotone_action_heap.c: the      *)
(* bootstrapped skew heap with an action that changes all priorities at    *)
(* once.  An action waits on a tree for that tree and all below it, and on *)
(* a cell of a list of children for its tree and all later ones; every     *)
(* step that links or unlinks must leave each action over exactly the      *)
(* trees it was meant for.  The actions are clamps.  Two priorities with   *)
(* one key are equal to the order and still are two values.                *)
(***************************************************************************)
EXTENDS Integers, SequencesExt

CONSTANTS Elements,
          Priorities,  \* numbers; KeyOf is what the order compares
          Bounds,      \* the priorities that clamps are made of
          Handles, Unset,
          MaxSize,     \* entries of the largest heap
          MaxArray     \* entries of the longest array handed over
VARIABLE heap

Held == {h \in Handles : heap[h] # Unset}
KeyOf(p) == p \div 2

-----------------------------------------------------------------------------
\* Clamps: a constant, or a lower and an upper bound, each of which may be absent.

Clamp(c, lower, upper) == [constant |-> c, lower |-> lower, upper |-> upper]
IdentityAction == Clamp(Unset, Unset, Unset)
AtLeast(b) == Clamp(Unset, b, Unset)
AtMost(b) == Clamp(Unset, Unset, b)
Between(b, c) == Clamp(Unset, b, c)
Constant(b) == Clamp(b, Unset, Unset)
Clamps == {IdentityAction}
          \cup {Constant(b) : b \in Bounds} \cup {AtLeast(b) : b \in Bounds} \cup {AtMost(b) : b \in Bounds}
          \cup {Between(b[1], b[2]) : b \in {c \in Bounds \X Bounds : KeyOf(c[1]) <= KeyOf(c[2])}}

\* The bound a clamp chooses for a priority, or Unset when it passes.
Select(a, p) ==
    IF a.constant # Unset THEN a.constant
    ELSE IF a.lower # Unset /\ KeyOf(p) < KeyOf(a.lower) THEN a.lower
    ELSE IF a.upper # Unset /\ KeyOf(p) > KeyOf(a.upper) THEN a.upper ELSE Unset
Apply(a, p) == IF Select(a, p) = Unset THEN p ELSE Select(a, p)

\* Bounds of which one lies past the other are intersected as well.
ComposeDisjointToo(outer, inner) ==
    IF outer = IdentityAction THEN inner
    ELSE IF inner = IdentityAction \/ outer.constant # Unset THEN outer
    ELSE IF inner.constant # Unset THEN Constant(Apply(outer, inner.constant))
    ELSE Between(IF inner.lower = Unset THEN outer.lower ELSE IF outer.lower = Unset THEN inner.lower
                 ELSE IF KeyOf(inner.lower) >= KeyOf(outer.lower) THEN inner.lower ELSE outer.lower,
                 IF inner.upper = Unset THEN outer.upper ELSE IF outer.upper = Unset THEN inner.upper
                 ELSE IF KeyOf(inner.upper) <= KeyOf(outer.upper) THEN inner.upper ELSE outer.upper)

\* The inner clamp is the older.  Equal bounds keep the older value.
Compose(outer, inner) ==
    LET both(x, y) == x # Unset /\ y # Unset
    IN  IF outer = IdentityAction THEN inner
        ELSE IF inner = IdentityAction \/ outer.constant # Unset THEN outer
        ELSE IF inner.constant # Unset THEN Constant(Apply(outer, inner.constant))
        ELSE IF both(inner.upper, outer.lower) /\ KeyOf(inner.upper) < KeyOf(outer.lower) THEN Constant(outer.lower)
        ELSE IF both(inner.lower, outer.upper) /\ KeyOf(inner.lower) > KeyOf(outer.upper) THEN Constant(outer.upper)
        ELSE Between(IF inner.lower = Unset THEN outer.lower ELSE IF outer.lower = Unset THEN inner.lower
                     ELSE IF KeyOf(inner.lower) >= KeyOf(outer.lower) THEN inner.lower ELSE outer.lower,
                     IF inner.upper = Unset THEN outer.upper ELSE IF outer.upper = Unset THEN inner.upper
                     ELSE IF KeyOf(inner.upper) <= KeyOf(outer.upper) THEN inner.upper ELSE outer.upper)

-----------------------------------------------------------------------------
\* Trees, and lists of children whose cells carry actions for the rest of the list.

Tree(rank, element, priority, children, action) ==
    [rank |-> rank, element |-> element, priority |-> priority, children |-> children, action |-> action]
LogicalPriority(t) == Apply(t.action, t.priority)
LessEqual(t, u) == KeyOf(LogicalPriority(t)) <= KeyOf(LogicalPriority(u))

TagTree(t, a) == IF a = IdentityAction THEN t ELSE [t EXCEPT !.action = Compose(a, @)]
TagForest(f, a) == IF a = IdentityAction THEN f ELSE [f EXCEPT ![1].action = Compose(a, @)]
ForestCons(t, f) == <<[head |-> t, action |-> IdentityAction]>> \o f
ForestHead(f) == TagTree(f[1].head, f[1].action)
ForestTail(f) == IF Len(f) = 1 THEN <<>> ELSE TagForest(Tail(f), f[1].action)

\* A tree with nothing waiting on it.
Expose(t) ==
    IF t.action = IdentityAction THEN t
    ELSE Tree(t.rank, t.element, Apply(t.action, t.priority),
              IF t.children = <<>> THEN <<>> ELSE TagForest(t.children, t.action), IdentityAction)

RECURSIVE ForestToList(_)
ForestToList(f) == IF f = <<>> THEN <<>> ELSE <<ForestHead(f)>> \o ForestToList(ForestTail(f))
ListToForest(q) == FoldRight(ForestCons, q, <<>>)

\* The winner w, exposed, with one or two new children in front of its own.
AboveOne(rank, w, loser) == Tree(rank, w.element, w.priority, ForestCons(loser, w.children), IdentityAction)
AboveTwo(rank, w, child1, child2) ==
    Tree(rank, w.element, w.priority, ForestCons(child1, ForestCons(child2, w.children)), IdentityAction)
SkewLink(zero, first, second) ==
    IF LessEqual(first, zero) /\ LessEqual(first, second) THEN AboveTwo(first.rank + 1, Expose(first), zero, second)
    ELSE IF LessEqual(second, zero) /\ LessEqual(second, first)
    THEN AboveTwo(first.rank + 1, Expose(second), zero, first)
    ELSE AboveTwo(first.rank + 1, Expose(zero), first, second)
LinkTrees(first, second) ==
    IF LessEqual(first, second) THEN AboveOne(first.rank + 1, Expose(first), second)
    ELSE AboveOne(first.rank + 1, Expose(second), first)

SkewLinkFirst(t, first, rest) == ForestCons(SkewLink(t, first, ForestHead(rest)), ForestTail(rest))
SkewInsert(t, f) ==
    IF Len(f) < 2 THEN ForestCons(t, f)
    ELSE IF f[1].head.rank # f[2].head.rank THEN ForestCons(t, f)
    ELSE SkewLinkFirst(t, ForestHead(f), ForestTail(f))

RECURSIVE BucketAdd(_, _, _)
BucketAdd(buckets, capacity, t) ==
    IF buckets = Unset \/ t.rank >= capacity THEN Unset
    ELSE IF buckets[t.rank] = Unset THEN [buckets EXCEPT ![t.rank] = t]
    ELSE BucketAdd([buckets EXCEPT ![t.rank] = Unset], capacity, LinkTrees(buckets[t.rank], t))

FromBuckets(buckets, capacity) ==
    IF buckets = Unset THEN Unset
    ELSE SelectSeq([r \in 1..capacity |-> buckets[r - 1]] @@ <<>>, LAMBDA t : t # Unset)
MeldWithin(all, capacity) ==
    FromBuckets(FoldLeft(LAMBDA b, t : BucketAdd(b, capacity, t), [r \in 0..(capacity - 1) |-> Unset] @@ <<>>, all),
                capacity)
MeldAll(all) == MeldWithin(all, Len(all) + Max({0} \cup {all[i].rank : i \in DOMAIN all}) + 2)
SkewMeld(left, right) == MeldAll(left \o right)

RECURSIVE Split(_, _, _, _)
Split(rank, source, zeros, trees) ==
    LET done(z, t, rest) == [zeros |-> z, trees |-> t, embedded |-> rest]
        n == Len(source)
    IN  IF rank = 0 THEN done(zeros, trees, source)
        ELSE IF n = 0 \/ (n = 1 /\ rank # 1) THEN Unset
        ELSE IF n = 1 THEN done(zeros, Append(trees, source[1]), <<>>)
        ELSE LET first == source[1]  second == source[2]  rest == SubSeq(source, 3, n)
             IN  IF rank = 1
                 THEN IF second.rank = 0 THEN done(Append(zeros, first), Append(trees, second), rest)
                      ELSE done(zeros, Append(trees, first), Tail(source))
                 ELSE IF first.rank = second.rank THEN done(zeros, trees \o <<second, first>>, rest)
                 ELSE IF first.rank = 0 THEN Split(rank - 1, rest, Append(zeros, first), Append(trees, second))
                 ELSE Split(rank - 1, Tail(source), zeros, Append(trees, first))

-----------------------------------------------------------------------------
\* A heap is its root, on which nothing waits, and its count.

Empty == [root |-> Unset, count |-> 0]
Root(t, children) == Tree(0, t.element, t.priority, children, IdentityAction)
InsertEntry(hp, e) ==
    LET singleton == Tree(0, e.element, e.priority, <<>>, IdentityAction)
    IN  [root |-> IF hp.root = Unset THEN singleton
                  ELSE IF LessEqual(singleton, hp.root) THEN Root(singleton, ForestCons(hp.root, <<>>))
                  ELSE Root(hp.root, SkewInsert(singleton, hp.root.children)),
         count |-> hp.count + 1]
FromArrayResult(q) == FoldLeft(InsertEntry, Empty, q)
TransformAllResult(hp, a) ==
    IF hp.root = Unset \/ a = IdentityAction THEN hp ELSE [hp EXCEPT !.root = Expose(TagTree(@, a))]
RootOver(first, second) == Root(first, SkewInsert(second, first.children))
MeldResult(a, b) ==
    IF a.root = Unset THEN b ELSE IF b.root = Unset THEN a
    ELSE [root |-> IF LessEqual(a.root, b.root) THEN RootOver(a.root, b.root) ELSE RootOver(b.root, a.root),
          count |-> a.count + b.count]

LeastOf(trees) ==
    CHOOSE i \in DOMAIN trees :
       /\ \A j \in DOMAIN trees : LessEqual(trees[i], trees[j])
       /\ \A j \in 1..(i - 1) : ~LessEqual(trees[j], trees[i])

\* The new root is the least child; the forests it held and the zeros are melded
\* with what it leaves.  Unset when a list is not what its rank or the heap's
\* count says.
PourZeros(hp, minimum, zeros, all) ==
    IF all = Unset THEN Unset
    ELSE [root |-> Root(minimum, FoldLeft(LAMBDA f, z : SkewInsert(z, f), ListToForest(all), zeros)),
          count |-> hp.count - 1]
MeldEmbedded(merged, embedded) == IF merged = Unset THEN Unset ELSE SkewMeld(merged, embedded)
MeldParts(hp, minimum, others, parts) ==
    IF parts = Unset THEN Unset
    ELSE PourZeros(hp, minimum, parts.zeros, MeldEmbedded(SkewMeld(parts.trees, others), parts.embedded))
SplitBelow(hp, minimum, others, below) ==
    IF Len(below) > hp.count THEN Unset
    ELSE MeldParts(hp, minimum, others, Split(minimum.rank, below, <<>>, <<>>))
RaiseMinimum(hp, minimum, others) == SplitBelow(hp, minimum, others, ForestToList(minimum.children))
RaiseAt(hp, children, at) == RaiseMinimum(hp, Expose(children[at]), RemoveAt(children, at))
RaiseLeast(hp, children) ==
    IF Len(children) > hp.count THEN Unset ELSE RaiseAt(hp, children, LeastOf(children))
DeleteNonempty(hp) ==
    IF hp.root.children = <<>> THEN IF hp.count = 1 THEN Empty ELSE Unset
    ELSE RaiseLeast(hp, ForestToList(hp.root.children))

-----------------------------------------------------------------------------
\* The walk exposes each tree as it takes it, with as many places as entries.
RECURSIVE Walk(_, _, _)
WalkOn(next, seen, room) == IF Len(next) > room THEN Unset ELSE Walk(next, seen, room)
WalkInto(t, rest, seen, room) == WalkOn(rest \o ForestToList(t.children), seen \o <<t>>, room)
Walk(stack, seen, room) ==
    IF stack = <<>> THEN seen
    ELSE WalkInto(Expose(stack[Len(stack)]), SubSeq(stack, 1, Len(stack) - 1), seen, room)
Visit(hp) == IF hp.root = Unset THEN <<>> ELSE Walk(<<hp.root>>, <<>>, hp.count)

ValidSkewForest(f) ==
    \A i \in 2..Len(f) : \/ f[i - 1].head.rank < f[i].head.rank
                         \/ i = 2 /\ f[1].head.rank = f[2].head.rank
\* The embedded forest behind the children of a tree of some rank.
RECURSIVE EmbeddedOf(_, _)
EmbeddedOf(rank, f) ==
    IF rank = 0 THEN f ELSE IF f = <<>> THEN Unset
    ELSE LET first == f[1].head.rank
             second == IF Len(f) = 1 THEN -1 ELSE f[2].head.rank
             after(n) == SubSeq(f, n + 1, Len(f))
         IN  IF rank = 1 THEN IF first # 0 THEN Unset ELSE IF second = 0 THEN after(2) ELSE after(1)
             ELSE IF second = -1 THEN Unset
             ELSE IF first = second THEN IF first = rank - 1 THEN after(2) ELSE Unset
             ELSE IF first = 0 THEN IF second = rank - 1 THEN EmbeddedOf(rank - 1, after(2)) ELSE Unset
             ELSE IF first = rank - 1 THEN EmbeddedOf(rank - 1, after(1)) ELSE Unset
ValidChildren(t) == \A i \in DOMAIN t.children : LessEqual(t, ForestToList(t.children)[i])
Validate(hp) ==
    hp.root # Unset =>
       /\ hp.root.rank = 0 /\ ValidSkewForest(hp.root.children)
       /\ \A seen \in {Visit(hp)} :
             /\ seen # Unset /\ Len(seen) = hp.count
             /\ \A i \in DOMAIN seen : \A embedded \in {EmbeddedOf(seen[i].rank, seen[i].children)} :
                   embedded # Unset /\ ValidSkewForest(embedded) /\ ValidChildren(seen[i])

-----------------------------------------------------------------------------
Entries == [element : Elements, priority : Priorities]
Put(sources, h, new) ==
    /\ sources \subseteq Held /\ (h \in sources \/ h \notin Held) /\ new # Unset /\ new.count <= MaxSize
    /\ heap' = [heap EXCEPT ![h] = new]

HeapInit(h) == h \notin Held /\ heap' = [heap EXCEPT ![h] = Empty]
HeapCopy(s, h) == s \in Held /\ h \notin Held /\ Put({s}, h, heap[s])
HeapMove(s, h) == s \in Held /\ h \notin Held /\ heap' = [heap EXCEPT ![h] = heap[s], ![s] = Unset]
HeapDispose(h) == h \in Held /\ heap' = [heap EXCEPT ![h] = Unset]
InsertInto(s, h, e) == s \in Held /\ Put({s}, h, InsertEntry(heap[s], e))
FromArray(h, q) == h \notin Held /\ heap' = [heap EXCEPT ![h] = FromArrayResult(q)]
TransformAll(s, h, a) == s \in Held /\ Put({s}, h, TransformAllResult(heap[s], a))
Meld(a, b, h) == {a, b} \subseteq Held /\ Put({a, b}, h, MeldResult(heap[a], heap[b]))
DeleteMinimum(s, h) == s \in Held /\ heap[s].root # Unset /\ Put({s}, h, DeleteNonempty(heap[s]))
TryDeleteMinimum(s, h) ==
    s \in Held /\ Put({s}, h, IF heap[s].root = Unset THEN heap[s] ELSE DeleteNonempty(heap[s]))

Init == heap = [h \in Handles |-> Unset]

Next ==
    \/ \E h \in Handles : \/ HeapInit(h) \/ HeapDispose(h)
                          \/ \E n \in 0..MaxArray : \E q \in [1..n -> Entries] : FromArray(h, q)
    \/ \E s, h \in Handles : \/ HeapCopy(s, h) \/ HeapMove(s, h) \/ DeleteMinimum(s, h) \/ TryDeleteMinimum(s, h)
                             \/ \E e \in Entries : InsertInto(s, h, e)
                             \/ \E a \in Clamps : TransformAll(s, h, a)
    \/ \E a, b, h \in Handles : Meld(a, b, h)

Spec == Init /\ [][Next]_heap

-----------------------------------------------------------------------------
\* Every heap passes its own audit, and its root waits for nothing.
HeapsValid == \A h \in Held : Validate(heap[h]) /\ (heap[h].root # Unset => heap[h].root.action = IdentityAction)

\* No removal meets a list of children that does not fit its rank, or a rank
\* beyond its table.
NeverRefused == \A h \in Held : heap[h].root # Unset => DeleteNonempty(heap[h]) # Unset

BagOf(hp) ==
    FoldLeft(LAMBDA bag, t : [bag EXCEPT ![[element |-> t.element, priority |-> t.priority]] = @ + 1],
             [e \in Entries |-> 0] @@ <<>>, Visit(hp))
Before(e, f) == KeyOf(e.priority) < KeyOf(f.priority)
ContentOf(hp) == [h \in Handles |-> IF hp[h] = Unset THEN Unset ELSE BagOf(hp[h])] @@ <<>>
Promise == INSTANCE HeapPromise
           WITH Actions <- {[e \in Entries |-> [e EXCEPT !.priority = Apply(a, @)]] @@ <<>> : a \in Clamps}

\* An action changes exactly the entries that were in the heap, each to the very
\* value the actions give one after another; and every entry goes in once and
\* comes out once, a least one first.
HeapKeepsPromise == \E now \in {heap}, new \in {heap'} : Promise!Step(ContentOf(now), ContentOf(new))

\* What a heap serves until it is empty, compared with the entries it was given:
\* all of them, none twice, no one after a later one.
EntryOf(t) == [element |-> t.element, priority |-> t.priority]
RECURSIVE Served(_)
Served(hp) == IF hp.root = Unset THEN <<>> ELSE <<EntryOf(hp.root)>> \o Served(DeleteNonempty(hp))
SameBag(p, q) ==
    Len(p) = Len(q) /\ \A e \in ToSet(p) : Len(SelectSeq(p, LAMBDA x : x = e)) = Len(SelectSeq(q, LAMBDA x : x = e))
ServesAll(hp, given) ==
    \A q \in {Served(hp)} : SameBag(q, given) /\ \A i \in 2..Len(q) : ~Before(q[i], q[i - 1])

Acted(q, a) == [i \in DOMAIN q |-> [q[i] EXCEPT !.priority = Apply(a, @)]]
EntriesOf(hp) == FoldLeft(LAMBDA q, t : Append(q, EntryOf(t)), <<>>, Visit(hp))
Holds(hp, q) == \A own \in {EntriesOf(hp)} : SameBag(own, q)

\* A heap serves what it holds, an insertion adds its own entry, an action changes
\* every entry as it would one alone, and a heap poured together from others with
\* different actions waiting in them serves each entry with the actions of the heap
\* it came from.
CallsExact ==
    \A h \in Held : \A hp \in {heap[h]} : \A q \in {EntriesOf(hp)} :
       /\ ServesAll(hp, q)
       /\ \A e \in Entries : Holds(InsertEntry(hp, e), Append(q, e))
       /\ \A a \in Clamps : \A acted \in {TransformAllResult(hp, a)} :
             /\ Holds(acted, Acted(q, a))
             /\ hp.count < MaxSize =>
                  ServesAll(MeldResult(MeldResult(hp, acted), MeldResult(acted, hp)),
                            q \o Acted(q, a) \o Acted(q, a) \o q)

\* Long runs of insertions, with an action in the middle and one at the end, make
\* trees of every rank up to two below the root; they too are served in order.
LongRunsExact(priorities) ==
    Held = {} => \A run \in [1..4 -> [element : Elements, priority : priorities]], a, b \in Clamps :
       LET older == <<run[1], run[2], run[2], run[2]>>
           newer == <<run[3], run[3], run[3], run[4]>>
           grown == FoldLeft(InsertEntry, TransformAllResult(FromArrayResult(older), a), newer)
       IN  ServesAll(TransformAllResult(grown, b), Acted(Acted(older, a) \o newer, b))
=============================================================================
