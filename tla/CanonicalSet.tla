---------------------------- MODULE CanonicalSet ----------------------------
(***************************************************************************)
(* The canonical sorted set of canonical_sorted_set.c: a zip tree whose    *)
(* shape is meant to depend on its items alone.  A policy compares items   *)
(* (those with one key are equal) and gives each a rank from a keyed hash; *)
(* the higher rank is nearer to the root.  Nodes are values here: sharing  *)
(* and the caching of digests change no result.  A call leaves its result  *)
(* in an empty handle or cursor, or in place of a source.                  *)
(***************************************************************************)
EXTENDS Integers, SequencesExt

CONSTANTS Items, Policies,
          KeyOf,      \* KeyOf[p][x], a number: the comparer of a policy
          Ranks,      \* Ranks[p][x], a record of numbers
          Handles, Cursors, Unset,
          MaxInput    \* items of the longest array handed over
VARIABLES coll, cur

vars == <<coll, cur>>

Held == {h \in Handles : coll[h] # Unset}
Open == {c \in Cursors : cur[c] # Unset}

Compare(p, x, y) == KeyOf[p][x] - KeyOf[p][y]
RankOf(p, x) == Ranks[p][x]
RankEqual(p, x, y) == RankOf(p, x) = RankOf(p, y)

\* Of two items with one rank each is above the other.
HigherByRank(p, x, y) ==
    LET a == RankOf(p, x)  b == RankOf(p, y)
    IN  IF a.geometric # b.geometric THEN a.geometric > b.geometric ELSE a.secondary >= b.secondary

Higher(p, x, y) ==
    LET a == RankOf(p, x)  b == RankOf(p, y)
    IN  IF a.geometric # b.geometric THEN a.geometric > b.geometric
        ELSE IF a.secondary # b.secondary THEN a.secondary > b.secondary
        ELSE Compare(p, x, y) < 0

Null == [count |-> 0, height |-> 0]
Node(x, l, r) ==
    [item |-> x, left |-> l, right |-> r, count |-> l.count + r.count + 1,
     height |-> (IF l.height > r.height THEN l.height ELSE r.height) + 1]

RECURSIVE FindNode(_, _, _)
FindNode(p, t, x) ==
    IF t = Null THEN Null
    ELSE LET c == Compare(p, x, t.item)
         IN  IF c = 0 THEN t ELSE FindNode(p, IF c < 0 THEN t.left ELSE t.right, x)

RECURSIVE Visit(_)
Visit(t) == IF t = Null THEN <<>> ELSE Visit(t.left) \o <<t.item>> \o Visit(t.right)

\* The items below x and the others, in two trees rebuilt along one path.
RECURSIVE Split(_, _, _)
Split(p, t, x) ==
    IF t = Null THEN <<Null, Null>>
    ELSE IF Compare(p, x, t.item) < 0
    THEN LET s == Split(p, t.left, x) IN <<s[1], Node(t.item, s[2], t.right)>>
    ELSE LET s == Split(p, t.right, x) IN <<Node(t.item, t.left, s[1]), s[2]>>

RECURSIVE InsertValue(_, _, _)
InsertValue(p, t, x) ==
    IF t = Null \/ (t # Null /\ Higher(p, x, t.item))
    THEN LET s == Split(p, t, x) IN Node(x, s[1], s[2])
    ELSE IF Compare(p, x, t.item) < 0
    THEN Node(t.item, InsertValue(p, t.left, x), t.right)
    ELSE Node(t.item, t.left, InsertValue(p, t.right, x))

\* The right spine of the left tree zipped with the left spine of the right one.
RECURSIVE Merge(_, _, _)
Merge(p, l, r) ==
    IF l = Null THEN r ELSE IF r = Null THEN l
    ELSE IF Higher(p, l.item, r.item)
    THEN Node(l.item, l.left, Merge(p, l.right, r))
    ELSE Node(r.item, Merge(p, l, r.left), r.right)

\* Steps the merge takes and the room for them.
RECURSIVE MergeSteps(_, _, _)
MergeSteps(p, l, r) ==
    IF l = Null \/ r = Null THEN 0
    ELSE 1 + IF Higher(p, l.item, r.item) THEN MergeSteps(p, l.right, r) ELSE MergeSteps(p, l, r.left)

MergeCapacity(t) == 2 * (t.height + 1)

RECURSIVE RemoveFrom(_, _, _)
RemoveFrom(p, t, x) ==
    IF t = Null THEN Null
    ELSE LET c == Compare(p, x, t.item)
         IN  IF c = 0 THEN Merge(p, t.left, t.right)
             ELSE IF c < 0 THEN Node(t.item, RemoveFrom(p, t.left, x), t.right)
             ELSE Node(t.item, t.left, RemoveFrom(p, t.right, x))

\* An item whose equal is there must have its rank, or the policy is refused.
AddResult(v, x) ==
    LET there == FindNode(v.policy, v.root, x)
    IN  IF there = Null THEN [v EXCEPT !.root = InsertValue(v.policy, @, x)]
        ELSE IF RankEqual(v.policy, there.item, x) THEN v ELSE Unset
RemoveResult(v, x) == [v EXCEPT !.root = RemoveFrom(v.policy, @, x)]
EmptySet(p) == [policy |-> p, root |-> Null]
Size(v) == v.root.count
HoldsItem(v, x) == FindNode(v.policy, v.root, x) # Null
\* Adds a run of items, each to the result of the one before.
AddAll(v, items) == FoldLeft(LAMBDA acc, x : IF acc = Unset THEN Unset ELSE AddResult(acc, x), v, items)

-----------------------------------------------------------------------------
\* The set of an array: sorted, of equal items the first, built along its right spine.

BulkSort(p, items) ==
    FoldLeft(LAMBDA acc, x : LET before == SelectSeq(acc, LAMBDA y : Compare(p, y, x) <= 0)
                             IN  before \o <<x>> \o SubSeq(acc, Len(before) + 1, Len(acc)), <<>>, items)
Firsts(p, sorted) ==
    FoldLeft(LAMBDA acc, x : IF acc # <<>> /\ Compare(p, acc[Len(acc)], x) = 0 THEN acc ELSE Append(acc, x),
             <<>>, sorted)
BulkConsistent(p, sorted) ==
    \A i, j \in DOMAIN sorted : Compare(p, sorted[i], sorted[j]) = 0 => RankEqual(p, sorted[i], sorted[j])

\* A spine entry waits for its right child; linking hangs each below the one before.
Link(spine) == FoldRight(LAMBDA e, below : Node(e.item, e.left, below), spine, Null)
SpineStep(p, spine, x) ==
    LET stays == {i \in DOMAIN spine : ~Higher(p, x, spine[i].item)}
        keep == IF stays = {} THEN 0 ELSE Max(stays)
    IN  Append(SubSeq(spine, 1, keep), [item |-> x, left |-> Link(SubSeq(spine, keep + 1, Len(spine)))])
FromArrayResult(p, items) ==
    LET sorted == BulkSort(p, items)
    IN  IF ~BulkConsistent(p, sorted) THEN Unset
        ELSE [policy |-> p,
              root |-> Link(FoldLeft(LAMBDA spine, x : SpineStep(p, spine, x), <<>>, Firsts(p, sorted)))]

-----------------------------------------------------------------------------
\* Digests, equality and relations.

\* A digest mixes a node's content hash with its children's, in different ways.
Mix(n) == (3 * n + 1) % 7
RECURSIVE Digest(_, _)
Digest(p, t) ==
    IF t = Null THEN 2 ELSE Mix(RankOf(p, t.item).content + 2 * Digest(p, t.left) + 4 * Digest(p, t.right))
ContentHash(v) == IF v.root = Null THEN 0 ELSE Digest(v.policy, v.root)

\* The deepest the digest's stack gets when no digest is cached: a node waits
\* below its children, the left one on top.
RECURSIVE DigestStack(_, _)
DigestStack(t, below) ==
    LET own == below + 1
        right == IF t.right = Null THEN own ELSE DigestStack(t.right, own)
        left == IF t.left = Null THEN own
                ELSE DigestStack(t.left, own + IF t.right = Null THEN 0 ELSE 1)
    IN  Max({below + 3, left, right})
DigestCapacity(t) == 2 * (t.height + 1)

RECURSIVE NodesEqual(_, _, _)
NodesEqual(p, l, r) ==
    IF l = Null \/ r = Null THEN l = r
    ELSE /\ Compare(p, l.item, r.item) = 0
         /\ NodesEqual(p, l.left, r.left) /\ NodesEqual(p, l.right, r.right)
RECURSIVE PairStack(_, _, _, _)
PairStack(p, l, r, below) ==
    IF l = Null \/ r = Null THEN below + 1
    ELSE IF Compare(p, l.item, r.item) # 0 THEN below + 1
    ELSE Max({PairStack(p, l.left, r.left, below + 1), PairStack(p, l.right, r.right, below)})
PairCapacity(l, r) == (IF l.height > r.height THEN l.height ELSE r.height) + 1

SamePolicyEquals(a, b) ==
    Size(a) = Size(b) /\ ContentHash(a) = ContentHash(b) /\ NodesEqual(a.policy, a.root, b.root)

\* Another policy's set is rebuilt under the receiver's.
NormalizeOther(a, b) == IF a.policy = b.policy THEN b ELSE AddAll(EmptySet(a.policy), Visit(b.root))
SetEquals(a, b) == LET n == NormalizeOther(a, b) IN n # Unset /\ SamePolicyEquals(a, n)

AllFound(source, target) == \A x \in Range(Visit(source.root)) : HoldsItem(target, x)
AnyFound(source, target) == \E x \in Range(Visit(source.root)) : HoldsItem(target, x)
IsSubset(a, b) == LET n == NormalizeOther(a, b) IN n # Unset /\ AllFound(a, n)
IsProperSubset(a, b) == LET n == NormalizeOther(a, b) IN n # Unset /\ AllFound(a, n) /\ Size(a) < Size(n)
IsSuperset(a, b) == LET n == NormalizeOther(a, b) IN n # Unset /\ AllFound(n, a)
IsProperSuperset(a, b) == LET n == NormalizeOther(a, b) IN n # Unset /\ AllFound(n, a) /\ Size(a) > Size(n)
SetsOverlap(a, b) == LET n == NormalizeOther(a, b) IN n # Unset /\ AnyFound(n, a)

UnionResult(a, b) == AddAll(a, Visit(b.root))
IntersectResult(a, b) == AddAll(EmptySet(a.policy), SelectSeq(Visit(a.root), LAMBDA x : HoldsItem(b, x)))
ExceptResult(a, b) == FoldLeft(RemoveResult, a, Visit(b.root))

-----------------------------------------------------------------------------
\* The set's own audit: keys between the bounds of the path, ranks that repeat,
\* parents above children, counts and heights, and a stack that suffices.
RECURSIVE ValidNode(_, _, _, _)
ValidNode(p, t, lower, upper) ==
    t # Null =>
       /\ lower # Unset => Compare(p, t.item, lower) > 0
       /\ upper # Unset => Compare(p, t.item, upper) < 0
       /\ t.left # Null => Higher(p, t.item, t.left.item)
       /\ t.right # Null => Higher(p, t.item, t.right.item)
       /\ t = Node(t.item, t.left, t.right)
       /\ ValidNode(p, t.left, lower, t.item) /\ ValidNode(p, t.right, t.item, upper)
Validate(v) == ValidNode(v.policy, v.root, Unset, Unset)

-----------------------------------------------------------------------------
\* Calls on sets.

Put(s, h, v) ==
    /\ v # Unset /\ (h = s \/ h \notin Held)
    /\ coll' = [coll EXCEPT ![h] = v] /\ UNCHANGED cur
PutBinary(a, b, h, v) ==
    /\ v # Unset /\ (h \in {a, b} \/ h \notin Held)
    /\ coll' = [coll EXCEPT ![h] = v] /\ UNCHANGED cur

SetInit(h, p) == h \notin Held /\ coll' = [coll EXCEPT ![h] = EmptySet(p)] /\ UNCHANGED cur
SetCopy(s, h) == s \in Held /\ h \notin Held /\ Put(s, h, coll[s])
SetMove(s, h) ==
    s \in Held /\ h \notin Held /\ coll' = [coll EXCEPT ![h] = coll[s], ![s] = Unset] /\ UNCHANGED cur
SetDispose(h) == h \in Held /\ coll' = [coll EXCEPT ![h] = Unset] /\ UNCHANGED cur
Add(s, h, x) == s \in Held /\ Put(s, h, AddResult(coll[s], x))
RemoveItem(s, h, x) == s \in Held /\ Put(s, h, RemoveResult(coll[s], x))
Clear(s, h) == s \in Held /\ Put(s, h, EmptySet(coll[s].policy))
FromArray(h, p, items) ==
    LET v == FromArrayResult(p, items)
    IN  h \notin Held /\ v # Unset /\ coll' = [coll EXCEPT ![h] = v] /\ UNCHANGED cur

Compatible(a, b) == {a, b} \subseteq Held /\ coll[a].policy = coll[b].policy
UnionSets(a, b, h) == Compatible(a, b) /\ PutBinary(a, b, h, UnionResult(coll[a], coll[b]))
IntersectSets(a, b, h) == Compatible(a, b) /\ PutBinary(a, b, h, IntersectResult(coll[a], coll[b]))
ExceptSets(a, b, h) == Compatible(a, b) /\ PutBinary(a, b, h, ExceptResult(coll[a], coll[b]))

-----------------------------------------------------------------------------
\* Calls on cursors.

RECURSIVE Bound(_, _, _, _)
Bound(p, t, x, upper) ==
    IF t = Null THEN 0
    ELSE LET c == Compare(p, x, t.item)
         IN  IF c = 0 THEN t.left.count + (IF upper THEN 1 ELSE 0)
             ELSE IF c < 0 THEN Bound(p, t.left, x, upper)
             ELSE t.left.count + 1 + Bound(p, t.right, x, upper)
RECURSIVE ItemAt(_, _)
ItemAt(t, position) ==
    IF t = Null THEN Unset
    ELSE IF position < t.left.count THEN ItemAt(t.left, position)
    ELSE IF position = t.left.count THEN t.item
    ELSE ItemAt(t.right, position - t.left.count - 1)

Stage(v, position) == [set |-> v, position |-> position]
ValidCursor(c) == c.position <= Size(c.set)
PeekPrevious(c) == IF c.position = 0 THEN Unset ELSE ItemAt(c.set.root, c.position - 1)
PeekNext(c) == ItemAt(c.set.root, c.position)

AddMoves(c, x) ==
    LET v == AddResult(c.set, x)
    IN  IF v = Unset THEN Unset ELSE Stage(v, Bound(c.set.policy, c.set.root, x, FALSE) + 1)
DeleteAt(c, rank, position) == Stage(RemoveResult(c.set, ItemAt(c.set.root, rank)), position)

Publish(s, d, c) ==
    /\ s \in Open /\ (d = s \/ d \notin Open) /\ c # Unset
    /\ cur' = [cur EXCEPT ![d] = c] /\ UNCHANGED coll
GetCursor(h, d, position) ==
    /\ h \in Held /\ d \notin Open /\ position <= Size(coll[h])
    /\ cur' = [cur EXCEPT ![d] = Stage(coll[h], position)] /\ UNCHANGED coll
GetBoundCursor(h, d, x, upper) ==
    h \in Held /\ GetCursor(h, d, Bound(coll[h].policy, coll[h].root, x, upper))
CursorCopy(s, d) == s \in Open /\ d \notin Open /\ Publish(s, d, cur[s])
CursorMove(s, d) ==
    s \in Open /\ d \notin Open /\ cur' = [cur EXCEPT ![d] = cur[s], ![s] = Unset] /\ UNCHANGED coll
CursorDispose(d) == d \in Open /\ cur' = [cur EXCEPT ![d] = Unset] /\ UNCHANGED coll
SeekRank(s, d, position) ==
    s \in Open /\ position <= Size(cur[s].set) /\ Publish(s, d, Stage(cur[s].set, position))
MovePrevious(s, d) == s \in Open /\ cur[s].position > 0 /\ SeekRank(s, d, cur[s].position - 1)
MoveNext(s, d) == s \in Open /\ cur[s].position < Size(cur[s].set) /\ SeekRank(s, d, cur[s].position + 1)
CursorAdd(s, d, x) == s \in Open /\ Publish(s, d, AddMoves(cur[s], x))
DeletePrevious(s, d) ==
    /\ s \in Open /\ cur[s].position > 0
    /\ LET p == cur[s].position - 1 IN Publish(s, d, DeleteAt(cur[s], p, p))
DeleteNext(s, d) ==
    /\ s \in Open /\ cur[s].position < Size(cur[s].set)
    /\ LET p == cur[s].position IN Publish(s, d, DeleteAt(cur[s], p, p))
Snapshot(c, h) ==
    c \in Open /\ h \notin Held /\ coll' = [coll EXCEPT ![h] = cur[c].set] /\ UNCHANGED cur

-----------------------------------------------------------------------------
Init == coll = [h \in Handles |-> Unset] /\ cur = [c \in Cursors |-> Unset]

Next ==
    \/ \E h \in Handles :
          \/ SetDispose(h)
          \/ \E p \in Policies :
                SetInit(h, p) \/ \E n \in 1..MaxInput : \E items \in [1..n -> Items] : FromArray(h, p, items)
    \/ \E s, h \in Handles :
          \/ SetCopy(s, h) \/ SetMove(s, h) \/ Clear(s, h)
          \/ \E x \in Items : Add(s, h, x) \/ RemoveItem(s, h, x)
    \/ \E a, b, h \in Handles : UnionSets(a, b, h) \/ IntersectSets(a, b, h) \/ ExceptSets(a, b, h)
    \/ \E h \in Handles, c \in Cursors :
          \/ Snapshot(c, h) \/ \E n \in 0..Cardinality(Items) : GetCursor(h, c, n)
          \/ \E x \in Items, upper \in BOOLEAN : GetBoundCursor(h, c, x, upper)
    \/ \E s, d \in Cursors :
          \/ CursorCopy(s, d) \/ CursorMove(s, d) \/ MovePrevious(s, d) \/ MoveNext(s, d)
          \/ DeletePrevious(s, d) \/ DeleteNext(s, d)
          \/ \E n \in 0..Cardinality(Items) : SeekRank(s, d, n)
          \/ \E x \in Items : CursorAdd(s, d, x)
    \/ \E d \in Cursors : CursorDispose(d)

Spec == Init /\ [][Next]_vars

-----------------------------------------------------------------------------
Versions == {coll[h] : h \in Held} \cup {cur[c].set : c \in Open}
ItemsOf(v) == Range(Visit(v.root))
Keys(p, items) == {KeyOf[p][x] : x \in items}

\* The tree a set of items must have: the highest at the root.
RECURSIVE Canonical(_, _)
Canonical(p, items) ==
    IF items = {} THEN Null
    ELSE LET top == CHOOSE x \in items : \A y \in items \ {x} : Higher(p, x, y)
         IN  Node(top, Canonical(p, {y \in items : Compare(p, y, top) < 0}),
                       Canonical(p, {y \in items : Compare(p, y, top) > 0}))

\* However a version came about, its tree is the one of its items, one for each
\* key, and the set's own audit accepts it.
HistoryFree ==
    \A v \in Versions :
       /\ v.root = Canonical(v.policy, ItemsOf(v)) /\ Validate(v)
       /\ Cardinality(ItemsOf(v)) = Cardinality(Keys(v.policy, ItemsOf(v)))

\* The stacks that merges, digests and comparisons allocate are never too small.
RECURSIVE Subtrees(_)
Subtrees(t) == IF t = Null THEN {} ELSE {t} \cup Subtrees(t.left) \cup Subtrees(t.right)
StacksSuffice ==
    \A v \in Versions :
       /\ \A t \in Subtrees(v.root) : MergeSteps(v.policy, t.left, t.right) <= MergeCapacity(v.root)
       /\ v.root # Null => DigestStack(v.root, 0) <= DigestCapacity(v.root)
       /\ \A w \in Versions :
             v.policy = w.policy => PairStack(v.policy, v.root, w.root, 0) <= PairCapacity(v.root, w.root)

\* Equality and the relations answer for the items, whatever policy the other
\* set has, unless the receiver's policy gives equal items different ranks.
RelationsExact ==
    \A v, w \in Versions :
       LET a == Keys(v.policy, ItemsOf(v))
           b == Keys(v.policy, ItemsOf(w))
       IN  /\ NormalizeOther(v, w) # Unset
           /\ \A x \in ItemsOf(v), y \in ItemsOf(w) :
                 Compare(v.policy, x, y) = 0 => RankEqual(v.policy, x, y)
           =>
              /\ SetEquals(v, w) = (a = b)
              /\ IsSubset(v, w) = (a \subseteq b) /\ IsProperSubset(v, w) = (a \subseteq b /\ a # b)
              /\ IsSuperset(v, w) = (b \subseteq a) /\ IsProperSuperset(v, w) = (b \subseteq a /\ a # b)
              /\ SetsOverlap(v, w) = (a \cap b # {})

\* A cursor knows the items beside it, an added item is in front of the gap, and
\* a removal by rank takes the item of that rank and no other.
CursorStaysBeside ==
    \A c \in {cur[d] : d \in Open} :
       LET q == Visit(c.set.root)
       IN  /\ ValidCursor(c)
           /\ PeekPrevious(c) = (IF c.position = 0 THEN Unset ELSE q[c.position])
           /\ PeekNext(c) = (IF c.position = Len(q) THEN Unset ELSE q[c.position + 1])
           /\ \A x \in Items : LET m == AddMoves(c, x)
                               IN  m # Unset => /\ PeekPrevious(m) # Unset
                                                  /\ Compare(c.set.policy, PeekPrevious(m), x) = 0
           /\ \A r \in 0..(Len(q) - 1) : Visit(DeleteAt(c, r, r).set.root) = RemoveAt(q, r + 1)

\* A set built from an array at once is the set of adding its items one by one,
\* and refused when that is.
ArrayExact ==
    Held = {} => \A p \in Policies, n \in 1..MaxInput : \A q \in [1..n -> Items] :
                    FromArrayResult(p, q) = AddAll(EmptySet(p), q)

\* The items x meets in a set, by key.
Class(p, items, x) == {y \in items : KeyOf[p][y] = KeyOf[p][x]}
Both(p, a, b) == {x \in a : Class(p, b, x) # {}}

\* A call gives the items its own arguments ask for: an item whose equal is there
\* keeps the old one in the set, or is refused when the two differ in rank; the
\* left set's items are the ones that a union or an intersection keeps.
CallsExact ==
    \A v \in Versions : \A p \in {v.policy}, old \in {ItemsOf(v)} :
       /\ \A x \in Items : \A met \in {Class(p, old, x)} :
             /\ ItemsOf(RemoveResult(v, x)) = old \ met
             /\ IF \E y \in met : ~RankEqual(p, y, x) THEN AddResult(v, x) = Unset
                ELSE ItemsOf(AddResult(v, x)) = IF met = {} THEN old \cup {x} ELSE old
       /\ \A w \in {u \in Versions : u.policy = p} : \A other \in {ItemsOf(w)} :
             /\ UnionResult(v, w) # Unset => ItemsOf(UnionResult(v, w)) = old \cup (other \ Both(p, other, old))
             /\ ItemsOf(IntersectResult(v, w)) = Both(p, old, other)
             /\ ItemsOf(ExceptResult(v, w)) = old \ Both(p, old, other)

\* What a call may make of the sets there were: a new or emptied set, one with an
\* item more or its equal less, the union that keeps the left one's items, the
\* intersection or the difference.
Derivable(now, n) ==
    LET items == ItemsOf(n)
    IN  \/ items = {} \/ n \in now
        \/ \E v \in {w \in now : w.policy = n.policy} :
              LET old == ItemsOf(v)
              IN  \/ \E x \in Items : Class(n.policy, old, x) = {} /\ items = old \cup {x}
                  \/ \E x \in Items : items = old \ Class(n.policy, old, x)
                  \/ \E w \in {u \in now : u.policy = n.policy} :
                        LET other == ItemsOf(w)
                        IN  \/ items = old \cup (other \ Both(n.policy, other, old))
                            \/ items = Both(n.policy, old, other)
                            \/ items = old \ Both(n.policy, old, other)

\* A call changes the one set or cursor it writes, to something it may make.
SetKeepsPromise ==
    \E now \in {Versions}, new \in {Versions'} :
       /\ \/ \A v \in new \ now : Derivable(now, v)
          \/ \E h \in Handles \ Held : coll'[h] # Unset /\ Size(coll'[h]) <= MaxInput   \* from an array
       /\ Cardinality({h \in Handles : coll'[h] # coll[h] /\ coll'[h] # Unset}
                      \cup {c \in Cursors : cur'[c] # cur[c] /\ cur'[c] # Unset}) <= 1
=============================================================================
