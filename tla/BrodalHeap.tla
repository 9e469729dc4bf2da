----------------------------- MODULE BrodalHeap -----------------------------
(***************************************************************************)
(* The Brodal-Okasaki heap of brodal_okasaki_heap.c: a global root over a  *)
(* forest of skew binomial trees whose elements are heaps themselves, so a *)
(* tree's list of children runs on into the forest of the heap at its      *)
(* root, and only the ranks tell where one ends and the other begins.  A   *)
(* call leaves its result in an empty handle or in place of a source.      *)
(***************************************************************************)
EXTENDS Integers, SequencesExt

CONSTANTS Values,    \* numbers
          Handles, Unset,
          MaxSize,   \* values of the largest heap
          MaxArray   \* values of the longest array handed over
VARIABLE heap

Held == {h \in Handles : heap[h] # Unset}

LessEqual(x, y) == x <= y
Tree(rank, value, children) == [rank |-> rank, value |-> value, children |-> children]

\* A new tree of one value and two of one rank.
SkewLink(zero, first, second) ==
    IF LessEqual(first.value, zero.value) /\ LessEqual(first.value, second.value)
    THEN Tree(first.rank + 1, first.value, <<zero, second>> \o first.children)
    ELSE IF LessEqual(second.value, zero.value) /\ LessEqual(second.value, first.value)
    THEN Tree(first.rank + 1, second.value, <<zero, first>> \o second.children)
    ELSE Tree(first.rank + 1, zero.value, <<first, second>> \o zero.children)
LinkTrees(first, second) ==
    IF LessEqual(first.value, second.value)
    THEN Tree(first.rank + 1, first.value, <<second>> \o first.children)
    ELSE Tree(first.rank + 1, second.value, <<first>> \o second.children)

SkewInsert(tree, forest) ==
    IF Len(forest) >= 2 /\ forest[1].rank = forest[2].rank
    THEN <<SkewLink(tree, forest[1], forest[2])>> \o SubSeq(forest, 3, Len(forest))
    ELSE <<tree>> \o forest

GetMinimumTree(forest) ==
    LET at == CHOOSE i \in DOMAIN forest :
                 /\ \A j \in DOMAIN forest : LessEqual(forest[i].value, forest[j].value)
                 /\ \A j \in 1..(i - 1) : ~LessEqual(forest[j].value, forest[i].value)
    IN  [minimum |-> forest[at], remainder |-> RemoveAt(forest, at)]

\* Takes the children of a tree of some rank off the front of its list: single
\* values from skew links, trees, and the embedded forest that is left.
RECURSIVE Split(_, _, _, _)
Split(rank, source, zeros, trees) ==
    LET done(z, t, rest) == [zeros |-> z, trees |-> t, embedded |-> rest]
        n == Len(source)
    IN  IF rank = 0 THEN done(zeros, trees, source)
        ELSE IF n = 0 \/ (n = 1 /\ rank # 1) THEN Unset
        ELSE IF n = 1 THEN done(zeros, <<source[1]>> \o trees, <<>>)
        ELSE LET first == source[1]  second == source[2]  rest == SubSeq(source, 3, n)
             IN  IF rank = 1
                 THEN IF second.rank = 0 THEN done(Append(zeros, first), <<second>> \o trees, rest)
                      ELSE done(zeros, <<first>> \o trees, Tail(source))
                 ELSE IF first.rank = second.rank THEN done(zeros, <<first, second>> \o trees, rest)
                 ELSE IF first.rank = 0 THEN Split(rank - 1, rest, Append(zeros, first), <<second>> \o trees)
                 ELSE Split(rank - 1, Tail(source), zeros, <<first>> \o trees)
SplitForest(rank, source) == Split(rank, source, <<>>, <<>>)

\* One tree of each rank: two of one rank are linked and carried on.
RECURSIVE BucketAdd(_, _, _)
BucketAdd(buckets, capacity, tree) ==
    IF buckets = Unset \/ tree.rank >= capacity THEN Unset
    ELSE IF buckets[tree.rank] = Unset THEN [buckets EXCEPT ![tree.rank] = tree]
    ELSE BucketAdd([buckets EXCEPT ![tree.rank] = Unset], capacity, LinkTrees(buckets[tree.rank], tree))

FromBuckets(buckets, capacity) ==
    IF buckets = Unset THEN Unset
    ELSE SelectSeq([r \in 1..capacity |-> buckets[r - 1]] @@ <<>>, LAMBDA t : t # Unset)
MeldWithin(all, capacity) ==
    FromBuckets(FoldLeft(LAMBDA b, t : BucketAdd(b, capacity, t), [r \in 0..(capacity - 1) |-> Unset] @@ <<>>, all),
                capacity)
MeldAll(all) == MeldWithin(all, Len(all) + Max({0} \cup {all[i].rank : i \in DOMAIN all}) + 2)
SkewMeld(left, right) == MeldAll(left \o right)

-----------------------------------------------------------------------------
\* A heap is its root and its count.

Empty == [root |-> Unset, count |-> 0]
InsertValue(hp, v) ==
    [root |-> IF hp.root = Unset THEN Tree(0, v, <<>>)
              ELSE IF LessEqual(v, hp.root.value) THEN Tree(0, v, <<hp.root>>)
              ELSE Tree(0, hp.root.value, SkewInsert(Tree(0, v, <<>>), hp.root.children)),
     count |-> hp.count + 1]
FromArrayResult(q) == FoldLeft(InsertValue, Empty, q)
MeldResult(a, b) ==
    IF a.root = Unset THEN b ELSE IF b.root = Unset THEN a
    ELSE [root |-> IF LessEqual(a.root.value, b.root.value)
                   THEN Tree(0, a.root.value, SkewInsert(b.root, a.root.children))
                   ELSE Tree(0, b.root.value, SkewInsert(a.root, b.root.children)),
          count |-> a.count + b.count]

\* The new root is the least of the forest; what it held is poured back.  Unset
\* when a list is not what its rank says, which the code reports as an error.
PourZeros(hp, minimum, zeros, all) ==
    IF all = Unset THEN Unset
    ELSE [root |-> Tree(0, minimum.value, FoldLeft(LAMBDA f, z : SkewInsert(z, f), all, zeros)),
          count |-> hp.count - 1]
MeldEmbedded(merged, embedded) == IF merged = Unset THEN Unset ELSE SkewMeld(merged, embedded)
MeldParts(hp, took, parts) ==
    IF parts = Unset THEN Unset
    ELSE PourZeros(hp, took.minimum, parts.zeros, MeldEmbedded(SkewMeld(parts.trees, took.remainder), parts.embedded))
RaiseMinimum(hp, took) == MeldParts(hp, took, SplitForest(took.minimum.rank, took.minimum.children))
DeleteNonempty(hp) ==
    IF hp.root.children = <<>> THEN IF hp.count = 1 THEN Empty ELSE Unset
    ELSE RaiseMinimum(hp, GetMinimumTree(hp.root.children))

-----------------------------------------------------------------------------
\* A walk with a stack of as many places as the heap has values; Unset when that
\* is too few.
RECURSIVE Walk(_, _, _)
Walk(stack, seen, room) ==
    IF stack = <<>> THEN seen
    ELSE LET t == stack[Len(stack)]
             next == SubSeq(stack, 1, Len(stack) - 1) \o t.children
         IN  IF Len(next) > room THEN Unset ELSE Walk(next, Append(seen, t), room)
Visit(hp) == IF hp.root = Unset THEN <<>> ELSE Walk(<<hp.root>>, <<>>, hp.count)

\* The heap's own audit: ranks rise but for the first two, each tree's children
\* are what its rank says, parents are before their children, and the count.
ValidSkewForest(forest) ==
    \A i \in 2..Len(forest) :
       forest[i - 1].rank < forest[i].rank \/ (i = 2 /\ forest[1].rank = forest[2].rank)
RECURSIVE EmbeddedOf(_, _)
EmbeddedOf(rank, forest) ==
    IF rank = 0 THEN forest ELSE IF forest = <<>> THEN Unset
    ELSE IF rank = 1
    THEN IF forest[1].rank # 0 THEN Unset
         ELSE IF Len(forest) > 1 /\ forest[2].rank = 0 THEN SubSeq(forest, 3, Len(forest)) ELSE Tail(forest)
    ELSE IF Len(forest) = 1 THEN Unset
    ELSE IF forest[1].rank = forest[2].rank
    THEN IF forest[1].rank = rank - 1 THEN SubSeq(forest, 3, Len(forest)) ELSE Unset
    ELSE IF forest[1].rank = 0
    THEN IF forest[2].rank = rank - 1 THEN EmbeddedOf(rank - 1, SubSeq(forest, 3, Len(forest))) ELSE Unset
    ELSE IF forest[1].rank = rank - 1 THEN EmbeddedOf(rank - 1, Tail(forest)) ELSE Unset
Validate(hp) ==
    hp.root # Unset =>
       /\ hp.root.rank = 0 /\ ValidSkewForest(hp.root.children)
       /\ \A seen \in {Visit(hp)} :
             /\ seen # Unset /\ Len(seen) = hp.count
             /\ \A i \in DOMAIN seen : \A embedded \in {EmbeddedOf(seen[i].rank, seen[i].children)} :
                   /\ embedded # Unset /\ ValidSkewForest(embedded)
                   /\ \A j \in DOMAIN seen[i].children : LessEqual(seen[i].value, seen[i].children[j].value)

-----------------------------------------------------------------------------
Put(sources, h, new) ==
    /\ sources \subseteq Held /\ (h \in sources \/ h \notin Held) /\ new # Unset /\ new.count <= MaxSize
    /\ heap' = [heap EXCEPT ![h] = new]

HeapInit(h) == h \notin Held /\ heap' = [heap EXCEPT ![h] = Empty]
HeapCopy(s, h) == s \in Held /\ h \notin Held /\ Put({s}, h, heap[s])
HeapMove(s, h) == s \in Held /\ h \notin Held /\ heap' = [heap EXCEPT ![h] = heap[s], ![s] = Unset]
HeapDispose(h) == h \in Held /\ heap' = [heap EXCEPT ![h] = Unset]
InsertInto(s, h, v) == s \in Held /\ Put({s}, h, InsertValue(heap[s], v))
FromArray(h, q) == h \notin Held /\ heap' = [heap EXCEPT ![h] = FromArrayResult(q)]
Meld(a, b, h) == {a, b} \subseteq Held /\ Put({a, b}, h, MeldResult(heap[a], heap[b]))
DeleteMinimum(s, h) == s \in Held /\ heap[s].root # Unset /\ Put({s}, h, DeleteNonempty(heap[s]))
\* An empty heap is handed on as it is.
TryDeleteMinimum(s, h) ==
    s \in Held /\ Put({s}, h, IF heap[s].root = Unset THEN heap[s] ELSE DeleteNonempty(heap[s]))

Init == heap = [h \in Handles |-> Unset]

Next ==
    \/ \E h \in Handles : \/ HeapInit(h) \/ HeapDispose(h)
                          \/ \E n \in 0..MaxArray : \E q \in [1..n -> Values] : FromArray(h, q)
    \/ \E s, h \in Handles : \/ HeapCopy(s, h) \/ HeapMove(s, h) \/ DeleteMinimum(s, h) \/ TryDeleteMinimum(s, h)
                             \/ \E v \in Values : InsertInto(s, h, v)
    \/ \E a, b, h \in Handles : Meld(a, b, h)

Spec == Init /\ [][Next]_heap

-----------------------------------------------------------------------------
\* Every heap passes its own audit.
HeapsValid == \A h \in Held : Validate(heap[h])

\* No removal meets a list of children that does not fit its rank, or a rank
\* beyond its table.
NeverRefused == \A h \in Held : heap[h].root # Unset => DeleteNonempty(heap[h]) # Unset

BagOf(hp) ==
    FoldLeft(LAMBDA bag, t : [bag EXCEPT ![t.value] = @ + 1], [v \in Values |-> 0] @@ <<>>, Visit(hp))
Less(x, y) == x < y
ContentOf(hp) == [h \in Handles |-> IF hp[h] = Unset THEN Unset ELSE BagOf(hp[h])] @@ <<>>
Promise == INSTANCE HeapPromise WITH Entries <- Values, Before <- Less, Actions <- {}

\* An insertion adds its own value, melding pours two bags together, and a removal
\* takes the value of the root, which is a least one.
CallsExact ==
    \A h \in Held : \A hp \in {heap[h]} : \A bag \in {BagOf(hp)} :
       /\ \A v \in Values : BagOf(InsertValue(hp, v)) = Promise!Add(bag, v)
       /\ \A g \in Held : Promise!Poured(bag, BagOf(heap[g]), BagOf(MeldResult(hp, heap[g])))
       /\ hp.root # Unset => /\ hp.root.value \in Promise!Minimal(bag)
                             /\ BagOf(DeleteNonempty(hp)) = Promise!Drop(bag, hp.root.value)

\* Every value goes in once and comes out once, a least one first, through any
\* melds, and other heaps keep theirs.
HeapKeepsPromise == \E now \in {heap}, new \in {heap'} : Promise!Step(ContentOf(now), ContentOf(new))
=============================================================================
