-------------------------- MODULE HashCollections ---------------------------
(***************************************************************************)
(* The structures composed of hash maps and hash sets: the multimap, the   *)
(* relation, the directed graph, the map with a secondary index, the bag   *)
(* and the bidirectional map.  Each is a specification of its own over the *)
(* handles of VersionHandles.                                              *)
(***************************************************************************)
EXTENDS VersionHandles, Integers, FiniteSetsExt

(***************************************************************************)
(* The persistent multimap (persistent_hash_multimap.c): a map from a key  *)
(* to the non-empty set of its values, and the number of pairs, which the  *)
(* calls keep beside it.  kp and vp name the policies of the context.      *)
(***************************************************************************)
CONSTANT MaxPairs    \* INT64_MAX

NewMultimap(kp, vp) == [groups |-> EmptyTable, pairs |-> 0, kp |-> kp, vp |-> vp]

Has(m, k) == Cls(m.kp, k) \in DOMAIN m.groups
Group(m, k) == m.groups[Cls(m.kp, k)].value
TryGetKey(m, k) == m.groups[Cls(m.kp, k)].key
ContainsPair(m, k, v) == Has(m, k) /\ Cls(m.vp, v) \in DOMAIN Group(m, k)

\* The pair is new and the count is at its limit.
AddOverflows(m, k, v) == ~ContainsPair(m, k, v) /\ m.pairs = MaxPairs

AddPair(m, k, v) ==
    IF ContainsPair(m, k, v) THEN m
    ELSE LET values == SetTryAdd(IF Has(m, k) THEN Group(m, k) ELSE EmptyTable, Cls(m.vp, v), v)
         IN  [m EXCEPT !.groups = MapSet(@, Cls(m.kp, k), k, values), !.pairs = @ + 1]

\* The last value of a key takes the key with it.
RemovePair(m, k, v) ==
    IF ~ContainsPair(m, k, v) THEN m
    ELSE LET values == SetTryRemove(Group(m, k), Cls(m.vp, v))
         IN  [m EXCEPT !.groups = IF DOMAIN values = {} THEN MapRemove(@, Cls(m.kp, k))
                                  ELSE MapSet(@, Cls(m.kp, k), k, values),
                       !.pairs = @ - 1]

RemoveKey(m, k) ==
    IF ~Has(m, k) THEN m
    ELSE [m EXCEPT !.groups = MapRemove(@, Cls(m.kp, k)),
                   !.pairs = @ - Cardinality(DOMAIN Group(m, k))]

ClearPairs(m) == [m EXCEPT !.groups = EmptyTable, !.pairs = 0]

\* d7_hamt_multimap_visit: every pair, as the pointers that are stored.
Pairs(m) ==
    UNION {{<<m.groups[c].key, m.groups[c].value[d]>> : d \in DOMAIN m.groups[c].value} :
             c \in DOMAIN m.groups}

-----------------------------------------------------------------------------
CreateMultimap(h, kp, vp) ==
    /\ h \notin Held
    /\ Succeed(Unset, h, NewMultimap(kp, vp), 1) \/ FailAfter(0)

MultimapAdd(s, h, k, v) ==
    /\ MayTarget(s, h)
    /\ IF AddOverflows(hold[s], k, v) THEN Rejected
       ELSE Build(s, h, AddPair(hold[s], k, v), 1)

MultimapRemove(s, h, k, v) == MayTarget(s, h) /\ Build(s, h, RemovePair(hold[s], k, v), 1)
MultimapRemoveKey(s, h, k) == MayTarget(s, h) /\ Build(s, h, RemoveKey(hold[s], k), 1)
MultimapClear(s, h) == MayTarget(s, h) /\ Build(s, h, ClearPairs(hold[s]), 1)

MultimapNext ==
    \/ \E h \in Handles : CreateMultimap(h, "left", "right") \/ Destroy(h, 1)
    \/ \E s, h \in Handles : Clone(s, h, 1) \/ Move(s, h) \/ MultimapClear(s, h)
    \/ \E s, h \in Handles, k \in Items : MultimapRemoveKey(s, h, k)
    \/ \E s, h \in Handles, k, v \in Items : MultimapAdd(s, h, k, v) \/ MultimapRemove(s, h, k, v)

MultimapSpec == HandlesInit /\ [][MultimapNext]_handleVars

-----------------------------------------------------------------------------
\* d7_hamt_multimap_debug_validate: no key keeps an empty group, and the count
\* that additions and removals maintain is the number of pairs.
PairsCounted(m) ==
    /\ \A c \in DOMAIN m.groups : DOMAIN m.groups[c].value # {}
    /\ m.pairs = Cardinality(Pairs(m))

\* Every version of the multimap counts its pairs exactly and holds no empty
\* group, through overflow, aliasing and removal of whole keys.
MultimapValid == \A h \in Held : PairsCounted(hold[h])

\* No call leaks a structure or destroys one twice, whichever step of it fails.
MultimapOwned == live = Cardinality(Held)

-----------------------------------------------------------------------------
(***************************************************************************)
(* The persistent relation (persistent_relation.c): two multimaps, one in  *)
(* each direction, that every call updates one after the other.            *)
(***************************************************************************)

NewRelation(lp, rp) == [forward |-> NewMultimap(lp, rp), reverse |-> NewMultimap(rp, lp)]

StoredOr(m, x) == IF Has(m, x) THEN TryGetKey(m, x) ELSE x

\* The pointers already stored for either side stand for the caller's.
RelationAdd(r, x, y) ==
    LET left == StoredOr(r.forward, x)
        right == StoredOr(r.reverse, y)
    IN  IF ContainsPair(r.forward, left, right) THEN r
        ELSE [forward |-> AddPair(r.forward, left, right),
              reverse |-> AddPair(r.reverse, right, left)]

RelationRemove(r, x, y) ==
    IF ~Has(r.forward, x) \/ ~Has(r.reverse, y) THEN r
    ELSE LET left == TryGetKey(r.forward, x)
             right == TryGetKey(r.reverse, y)
         IN  IF ~ContainsPair(r.forward, left, right) THEN r
             ELSE [forward |-> RemovePair(r.forward, left, right),
                   reverse |-> RemovePair(r.reverse, right, left)]

\* The loop walks the values of the version it was given while it removes the
\* pairs, one by one, from a clone.
RelationRemoveLeft(r, x) ==
    IF ~Has(r.forward, x) THEN r
    ELSE LET left == TryGetKey(r.forward, x)
             rights == Group(r.forward, x)
         IN  FoldSet(LAMBDA c, current : RelationRemove(current, left, rights[c]), r, DOMAIN rights)

RelationRemoveRight(r, y) ==
    IF ~Has(r.reverse, y) THEN r
    ELSE LET right == TryGetKey(r.reverse, y)
             lefts == Group(r.reverse, y)
         IN  FoldSet(LAMBDA c, current : RelationRemove(current, lefts[c], right), r, DOMAIN lefts)

RelationClear(r) == [forward |-> ClearPairs(r.forward), reverse |-> ClearPairs(r.reverse)]

RelationInverse(r) == [forward |-> r.reverse, reverse |-> r.forward]

-----------------------------------------------------------------------------
CreateRelation(h, lp, rp) == h \notin Held /\ Build(Unset, h, NewRelation(lp, rp), 2)

\* Both directions are built before either is published.
AddTo(s, h, x, y) ==
    /\ MayTarget(s, h)
    /\ IF AddOverflows(hold[s].forward, x, y) THEN Rejected
       ELSE Build(s, h, RelationAdd(hold[s], x, y), 2)

RemoveFrom(s, h, x, y) == MayTarget(s, h) /\ Build(s, h, RelationRemove(hold[s], x, y), 2)
RemoveLeft(s, h, x) == MayTarget(s, h) /\ Build(s, h, RelationRemoveLeft(hold[s], x), 2)
RemoveRight(s, h, y) == MayTarget(s, h) /\ Build(s, h, RelationRemoveRight(hold[s], y), 2)
ClearRelation(s, h) == MayTarget(s, h) /\ Build(s, h, RelationClear(hold[s]), 2)
InvertRelation(s, h) == MayTarget(s, h) /\ Build(s, h, RelationInverse(hold[s]), 2)

RelationNext ==
    \/ \E h \in Handles : CreateRelation(h, "left", "right") \/ Destroy(h, 2)
    \/ \E s, h \in Handles : Clone(s, h, 2) \/ Move(s, h) \/ ClearRelation(s, h) \/ InvertRelation(s, h)
    \/ \E s, h \in Handles, x \in Items : RemoveLeft(s, h, x) \/ RemoveRight(s, h, x)
    \/ \E s, h \in Handles, x, y \in Items : AddTo(s, h, x, y) \/ RemoveFrom(s, h, x, y)

RelationSpec == HandlesInit /\ [][RelationNext]_handleVars

-----------------------------------------------------------------------------
Transposed(pairs) == {<<p[2], p[1]>> : p \in pairs}

\* The two directions hold the same pairs, down to the stored pointers, so a
\* representative found through either side is the one the other side holds;
\* both count them.  d7_hamt_relation_debug_validate checks the classes.
Mirrored(r) ==
    /\ PairsCounted(r.forward) /\ PairsCounted(r.reverse)
    /\ Pairs(r.reverse) = Transposed(Pairs(r.forward))
    /\ r.reverse.kp = r.forward.vp /\ r.reverse.vp = r.forward.kp

\* No sequence of calls, failed ones included, lets the directions differ.
DirectionsAgree == \A h \in Held : Mirrored(hold[h])

RelationOwned == live = 2 * Cardinality(Held)

PairsOf(r) == {<<Cls(r.forward.kp, p[1]), Cls(r.forward.vp, p[2])>> : p \in Pairs(r.forward)}

\* Each call does to the set of pairs of classes exactly what its name says,
\* whichever equal pointers it is given: in particular the removal of one side,
\* which works pair by pair, removes all of its pairs and no other.
RelationExact ==
    \A h \in Held : \A x, y \in Items :
       LET r == hold[h]
           now == PairsOf(r)
           cx == Cls(r.forward.kp, x)
           cy == Cls(r.forward.vp, y)
       IN  /\ PairsOf(RelationAdd(r, x, y)) = now \cup {<<cx, cy>>}
           /\ PairsOf(RelationRemove(r, x, y)) = now \ {<<cx, cy>>}
           /\ PairsOf(RelationRemoveLeft(r, x)) = {p \in now : p[1] # cx}
           /\ PairsOf(RelationRemoveRight(r, y)) = {p \in now : p[2] # cy}
           /\ PairsOf(RelationInverse(r)) = Transposed(now)

-----------------------------------------------------------------------------
(***************************************************************************)
(* The persistent directed graph (persistent_directed_graph.c): a set of   *)
(* vertices and a relation of edges under one vertex policy.               *)
(***************************************************************************)

NewGraph == [vertices |-> EmptyTable, edges |-> NewRelation("vertex", "vertex")]

AddVertex(g, v) == [g EXCEPT !.vertices = SetTryAdd(@, Cls("vertex", v), v)]

\* Missing endpoints join the vertices; the edge is stored with the pointers
\* the vertex set holds.
AddEdge(g, x, y) ==
    LET complete == AddVertex(AddVertex(g, x), y)
    IN  [complete EXCEPT !.edges = RelationAdd(@, complete.vertices[Cls("vertex", x)],
                                                  complete.vertices[Cls("vertex", y)])]

RemoveEdge(g, x, y) == [g EXCEPT !.edges = RelationRemove(@, x, y)]

RemoveVertex(g, v) ==
    IF Cls("vertex", v) \notin DOMAIN g.vertices THEN g
    ELSE LET stored == g.vertices[Cls("vertex", v)]
         IN  [g EXCEPT !.vertices = SetTryRemove(@, Cls("vertex", v)),
                       !.edges = RelationRemoveRight(RelationRemoveLeft(@, stored), stored)]

ClearGraph(g) == [vertices |-> EmptyTable, edges |-> RelationClear(g.edges)]
ReverseGraph(g) == [g EXCEPT !.edges = RelationInverse(@)]

-----------------------------------------------------------------------------
GraphCall(s, h, g) == MayTarget(s, h) /\ Build(s, h, g, 3)

GraphAddEdge(s, h, x, y) ==
    /\ MayTarget(s, h)
    /\ IF AddOverflows(hold[s].edges.forward, x, y) THEN Rejected
       ELSE Build(s, h, AddEdge(hold[s], x, y), 3)

GraphNext ==
    \/ \E h \in Handles : (h \notin Held /\ Build(Unset, h, NewGraph, 3)) \/ Destroy(h, 3)
    \/ \E s, h \in Handles :
          \/ Clone(s, h, 3)
          \/ Move(s, h)
          \/ s \in Held /\ (GraphCall(s, h, ClearGraph(hold[s])) \/ GraphCall(s, h, ReverseGraph(hold[s])))
    \/ \E s, h \in Handles, v \in Items :
          s \in Held /\ (GraphCall(s, h, AddVertex(hold[s], v)) \/ GraphCall(s, h, RemoveVertex(hold[s], v)))
    \/ \E s, h \in Handles, x, y \in Items :
          GraphAddEdge(s, h, x, y) \/ (s \in Held /\ GraphCall(s, h, RemoveEdge(hold[s], x, y)))

GraphSpec == HandlesInit /\ [][GraphNext]_handleVars

-----------------------------------------------------------------------------
\* Every edge joins two vertices of the graph and is stored, in both
\* directions, with the very pointers the vertex set holds: no vertex goes
\* while an edge still refers to it.  Both directions hold the same edges.
EdgesJoinVertices ==
    \A h \in Held :
       LET g == hold[h]
           stored == {g.vertices[c] : c \in DOMAIN g.vertices}
       IN  /\ Mirrored(g.edges)
           /\ Pairs(g.edges.forward) \subseteq stored \X stored

GraphOwned == live = 3 * Cardinality(Held)

-----------------------------------------------------------------------------
(***************************************************************************)
(* The persistent map with a secondary index (persistent_indexed_map.c): a *)
(* primary map of values that remember their index key, and a multimap     *)
(* from index keys to primary keys.                                        *)
(***************************************************************************)

CONSTANTS Selector,  \* Selector[k][v]: what the caller's selector answers
          Failure    \* the answer of a selector that fails

NewIndexed == [primary |-> EmptyTable, index |-> NewMultimap("index", "key")]

Present(m, k) == Cls("key", k) \in DOMAIN m.primary
EntryOf(m, k) == m.primary[Cls("key", k)].value
StoredKey(m, k) == m.primary[Cls("key", k)].key

WithEntry(m, k, v, index, ix) ==
    [primary |-> MapSet(m.primary, Cls("key", k), k, [value |-> v, index |-> TryGetKey(index, ix)]),
     index |-> index]

\* The entry refers to the index key the multimap stores.
AddEntry(m, k, v) ==
    LET ix == Selector[k][v] IN WithEntry(m, k, v, AddPair(m.index, ix, k), ix)

\* An equal value changes nothing, not even the index; a value whose index key
\* is equal keeps the stored one; any other moves the stored key.
SetEntry(m, k, v) ==
    LET stored == StoredKey(m, k)
        old == EntryOf(m, k)
        ix == Selector[stored][v]
    IN  IF Cls("value", old.value) = Cls("value", v) THEN m
        ELSE IF Cls("index", old.index) = Cls("index", ix)
             THEN WithEntry(m, stored, v, m.index, old.index)
        ELSE WithEntry(m, stored, v, AddPair(RemovePair(m.index, old.index, stored), ix, stored), ix)

RemoveEntry(m, k) ==
    IF ~Present(m, k) THEN m
    ELSE [primary |-> MapRemove(m.primary, Cls("key", k)),
          index |-> RemovePair(m.index, EntryOf(m, k).index, StoredKey(m, k))]

ClearEntries(m) == [primary |-> EmptyTable, index |-> ClearPairs(m.index)]

-----------------------------------------------------------------------------
IndexedCall(s, h, m) == MayTarget(s, h) /\ Build(s, h, m, 2)

\* d7_hamt_indexed_map_add rejects a present key and try_add clones.
Add(s, h, k, v) ==
    /\ MayTarget(s, h)
    /\ IF Present(hold[s], k) \/ Selector[k][v] = Failure THEN Rejected
       ELSE Build(s, h, AddEntry(hold[s], k, v), 2)

TryAdd(s, h, k, v) ==
    /\ MayTarget(s, h)
    /\ IF Present(hold[s], k) THEN Build(s, h, hold[s], 2)
       ELSE IF Selector[k][v] = Failure THEN Rejected
       ELSE Build(s, h, AddEntry(hold[s], k, v), 2)

Set(s, h, k, v) ==
    /\ MayTarget(s, h)
    /\ IF ~Present(hold[s], k) THEN Add(s, h, k, v)
       ELSE IF /\ Cls("value", EntryOf(hold[s], k).value) # Cls("value", v)
               /\ Selector[StoredKey(hold[s], k)][v] = Failure
            THEN Rejected
       ELSE Build(s, h, SetEntry(hold[s], k, v), 2)

IndexedNext ==
    \/ \E h \in Handles : (h \notin Held /\ Build(Unset, h, NewIndexed, 2)) \/ Destroy(h, 2)
    \/ \E s, h \in Handles :
          Clone(s, h, 2) \/ Move(s, h) \/ (s \in Held /\ IndexedCall(s, h, ClearEntries(hold[s])))
    \/ \E s, h \in Handles, k \in Items : s \in Held /\ IndexedCall(s, h, RemoveEntry(hold[s], k))
    \/ \E s, h \in Handles, k, v \in Items : Add(s, h, k, v) \/ TryAdd(s, h, k, v) \/ Set(s, h, k, v)

IndexedSpec == HandlesInit /\ [][IndexedNext]_handleVars

-----------------------------------------------------------------------------
\* The index is exactly what the selector says of the stored keys and values,
\* with the stored pointers on both sides: replacing a value moves its key, and
\* a value that counts as equal leaves the index with the value that stays.
IndexFollowsSelector ==
    \A h \in Held :
       LET m == hold[h] IN
       /\ PairsCounted(m.index)
       /\ Pairs(m.index) = {<<m.primary[c].value.index, m.primary[c].key>> : c \in DOMAIN m.primary}
       /\ m.index.pairs = Cardinality(DOMAIN m.primary)
       /\ \A c \in DOMAIN m.primary :
             LET e == m.primary[c]
             IN  Cls("index", e.value.index) = Cls("index", Selector[e.key][e.value.value])

IndexedOwned == live = 2 * Cardinality(Held)

-----------------------------------------------------------------------------
(***************************************************************************)
(* The persistent multiset (persistent_hash_bag.c): a hash map of counts   *)
(* of 32 bits and the total of all counts in 64 bits, kept beside it.      *)
(***************************************************************************)

CONSTANTS Policies,
          MaxCount,   \* INT32_MAX
          MaxTotal    \* INT64_MAX

NewBag(p) == [policy |-> p, counts |-> EmptyTable, total |-> 0]
\* A call that answers OVERFLOW in the middle of a loop.
Overflow == [policy |-> "overflow", counts |-> EmptyTable, total |-> -1]

BagClass(b, x) == Cls(b.policy, x)
CountOf(b, x) == IF BagClass(b, x) \in DOMAIN b.counts THEN b.counts[BagClass(b, x)].value ELSE 0

\* The factories of add_or_update check the count against its 32 bits.
AddCopies(b, x, n) ==
    IF b = Overflow \/ n = 0 THEN b
    ELSE IF n > MaxTotal - b.total \/ n > MaxCount - CountOf(b, x) THEN Overflow
    ELSE [b EXCEPT !.counts = MapSet(@, BagClass(b, x), x, CountOf(b, x) + n), !.total = @ + n]

RemoveCopies(b, x, n) ==
    LET stored == CountOf(b, x) IN
    IF n = 0 \/ stored = 0 THEN b
    ELSE [b EXCEPT !.counts = IF n >= stored THEN MapRemove(@, BagClass(b, x))
                              ELSE MapSet(@, BagClass(b, x), x, stored - n),
                   !.total = @ - (IF n >= stored THEN stored ELSE n)]

RemoveAll(b, x) == RemoveCopies(b, x, CountOf(b, x))

ClearBag(b) == [b EXCEPT !.counts = EmptyTable, !.total = 0]

\* d7_hamt_bag_entry_iterator: the items as they are stored.
BagItems(b) == {b.counts[c].key : c \in DOMAIN b.counts}

\* d7_hamt_bag_create_range.
CreateRange(p, items) == FoldSet(LAMBDA x, current : AddCopies(current, x, 1), NewBag(p), items)

\* Entries that the receiver's policy holds equal are added up.
Normalize(receiver, other) ==
    FoldSet(LAMBDA x, current : AddCopies(current, x, CountOf(other, x)),
            NewBag(receiver.policy), BagItems(other))

UnionNormalized(receiver, other) ==
    FoldSet(LAMBDA x, current :
              IF current # Overflow /\ CountOf(other, x) > CountOf(current, x)
              THEN AddCopies(current, x, CountOf(other, x) - CountOf(current, x)) ELSE current,
            receiver, BagItems(other))

IntersectNormalized(receiver, other) ==
    FoldSet(LAMBDA x, current :
              IF CountOf(other, x) = 0 THEN RemoveAll(current, x)
              ELSE IF CountOf(other, x) < CountOf(receiver, x)
                   THEN RemoveCopies(current, x, CountOf(receiver, x) - CountOf(other, x))
              ELSE current,
            receiver, BagItems(receiver))

ExceptNormalized(receiver, other) ==
    FoldSet(LAMBDA x, current : RemoveCopies(current, x, CountOf(other, x)),
            receiver, BagItems(receiver))

SumNormalized(receiver, other) ==
    IF other.total > MaxTotal - receiver.total THEN Overflow
    ELSE FoldSet(LAMBDA x, current : AddCopies(current, x, CountOf(other, x)),
                 receiver, BagItems(other))

Operations == {"union", "intersect", "except", "sum"}

Combine(receiver, other, op) ==
    LET argument == IF receiver.policy = other.policy THEN other ELSE Normalize(receiver, other)
    IN  IF argument = Overflow THEN Overflow
        ELSE CASE op = "union" -> UnionNormalized(receiver, argument)
               [] op = "intersect" -> IntersectNormalized(receiver, argument)
               [] op = "except" -> ExceptNormalized(receiver, argument)
               [] op = "sum" -> SumNormalized(receiver, argument)

-----------------------------------------------------------------------------
\* d7_hamt_bag_publish: the result may be either operand.
BagCall(s, h, b) ==
    MayTarget(s, h) /\ IF b = Overflow THEN Rejected ELSE Build(s, h, b, 1)

BagNext ==
    \/ \E h \in Handles : Destroy(h, 1)
    \/ \E h \in Handles, p \in Policies :
          /\ h \notin Held
          /\ \/ Succeed(Unset, h, NewBag(p), 1)
             \/ \E items \in SUBSET Items : Build(Unset, h, CreateRange(p, items), 1)
    \/ \E s, h \in Handles : Clone(s, h, 1) \/ (s \in Held /\ BagCall(s, h, ClearBag(hold[s])))
    \/ \E s, h \in Handles, x \in Items :
          s \in Held /\ (\/ BagCall(s, h, RemoveAll(hold[s], x))
                         \/ \E n \in 0..MaxCount : \/ BagCall(s, h, AddCopies(hold[s], x, n))
                                                   \/ BagCall(s, h, RemoveCopies(hold[s], x, n)))
    \/ \E r, o \in Held, h \in Handles, op \in Operations :
          /\ h \in {r, o} \/ h \notin Held
          /\ LET b == Combine(hold[r], hold[o], op)
             IN  IF b = Overflow THEN Rejected ELSE Build(IF h = o THEN o ELSE r, h, b, 1)

BagSpec == HandlesInit /\ [][BagNext]_handleVars

-----------------------------------------------------------------------------
\* d7_hamt_bag_debug_validate_canonical: every count is positive and within its
\* 32 bits, and the total is their sum and within its 64.
Totalled(b) ==
    /\ \A c \in DOMAIN b.counts : b.counts[c].value \in 1..MaxCount /\ c = BagClass(b, b.counts[c].key)
    /\ b.total = MapThenSumSet(LAMBDA c : b.counts[c].value, DOMAIN b.counts)
    /\ b.total <= MaxTotal

\* No sequence of additions, removals and combinations lets the total drift
\* from the counts, at either limit.
TotalsExact == \A h \in Held : Totalled(hold[h])

\* How many of an item the algebra of bags says there are.
Expected(m, n, op) ==
    CASE op = "union" -> IF m > n THEN m ELSE n
      [] op = "intersect" -> IF m < n THEN m ELSE n
      [] op = "except" -> IF m > n THEN m - n ELSE 0
      [] op = "sum" -> m + n

\* A combination under one policy is the bag operation, and it overflows
\* exactly when the bag it should yield does not fit; the receiver's pointers win.
BagAlgebraExact ==
    \A r, o \in Held : \A op \in Operations :
       LET a == hold[r]
           b == hold[o]
           classes == DOMAIN a.counts \cup DOMAIN b.counts
           N(x, c) == IF c \in DOMAIN x.counts THEN x.counts[c].value ELSE 0
           want == [c \in classes |-> Expected(N(a, c), N(b, c), op)]
           got == Combine(a, b, op)
           fits == /\ \A c \in classes : want[c] <= MaxCount
                   /\ MapThenSumSet(LAMBDA c : want[c], classes) <= MaxTotal
       IN  a.policy = b.policy =>
             IF ~fits THEN got = Overflow
             ELSE /\ got # Overflow /\ \A c \in classes : N(got, c) = want[c]
                  /\ \A c \in DOMAIN got.counts \cap DOMAIN a.counts :
                        got.counts[c].key = a.counts[c].key

BagOwned == live = Cardinality(Held)

-----------------------------------------------------------------------------
(***************************************************************************)
(* The persistent bidirectional map (persistent_bi_map.c): a map and its   *)
(* inverse, which every call updates one after the other, under a shared   *)
(* policy state whose two policies trade places when the map is inverted.  *)
(***************************************************************************)

VARIABLE refs    \* refs[p]: the reference count of policy state p
biMapVars == <<hold, live, refs>>

CONSTANT States  \* addresses of policy states

\* The policies in the roles they have in this version.
KeyPolicy(m) == IF m.inverted THEN "values" ELSE "keys"
ValuePolicy(m) == IF m.inverted THEN "keys" ELSE "values"

ActiveValuesEqual(m, v, w) == Cls(ValuePolicy(m), v) = Cls(ValuePolicy(m), w)

KeyClass(m, k) == Cls(KeyPolicy(m), k)
ValueClass(m, v) == Cls(ValuePolicy(m), v)
ContainsKey(m, k) == KeyClass(m, k) \in DOMAIN m.forward
ContainsValue(m, v) == ValueClass(m, v) \in DOMAIN m.inverse

WithPair(m, k, v) ==
    [m EXCEPT !.forward = MapSet(@, KeyClass(m, k), k, v),
              !.inverse = MapSet(@, ValueClass(m, v), v, k)]

WithoutPair(m, k, v) ==
    [m EXCEPT !.forward = MapRemove(@, KeyClass(m, k)),
              !.inverse = MapRemove(@, ValueClass(m, v))]

TryAddBoth(m, k, v) == IF ContainsKey(m, k) \/ ContainsValue(m, v) THEN m ELSE WithPair(m, k, v)

\* The new value is taken by another key.
SetConflicts(m, k, v) ==
    /\ ContainsValue(m, v)
    /\ ContainsKey(m, k) => ~ActiveValuesEqual(m, m.forward[KeyClass(m, k)].value, v)

\* The key keeps its stored pointer, on both sides.
SetPair(m, k, v) ==
    IF ~ContainsKey(m, k) THEN WithPair(m, k, v)
    ELSE LET stored == m.forward[KeyClass(m, k)]
         IN  IF ActiveValuesEqual(m, stored.value, v) THEN m
             ELSE WithPair(WithoutPair(m, stored.key, stored.value), stored.key, v)

TryRemoveKey(m, k) ==
    IF ~ContainsKey(m, k) THEN m
    ELSE WithoutPair(m, m.forward[KeyClass(m, k)].key, m.forward[KeyClass(m, k)].value)

TryRemoveValue(m, v) ==
    IF ~ContainsValue(m, v) THEN m
    ELSE WithoutPair(m, m.inverse[ValueClass(m, v)].value, m.inverse[ValueClass(m, v)].key)

ClearBoth(m) == [m EXCEPT !.forward = EmptyTable, !.inverse = EmptyTable]

InverseBiMap(m) == [m EXCEPT !.forward = m.inverse, !.inverse = m.forward, !.inverted = ~m.inverted]

-----------------------------------------------------------------------------
BiMapInit == HandlesInit /\ refs = [p \in States |-> 0]

CreateBiMap(h) ==
    /\ h \notin Held
    /\ \E p \in States :
          /\ refs[p] = 0
          /\ Succeed(Unset, h, [forward |-> EmptyTable, inverse |-> EmptyTable,
                                state |-> p, inverted |-> FALSE], 2)
          /\ refs' = [refs EXCEPT ![p] = 1]

CloneMap(s, h) == Clone(s, h, 2) /\ refs' = [refs EXCEPT ![hold[s].state] = @ + 1]

\* The policy state goes with the last version that refers to it.
DestroyMap(h) == Destroy(h, 2) /\ refs' = [refs EXCEPT ![hold[h].state] = @ - 1]

\* The candidate has a reference of its own; an aliased source gives up one.
ComposeBiMap(s, h, m) ==
    /\ MayTarget(s, h)
    /\ \/ /\ Succeed(s, h, m, 2)
          /\ refs' = [refs EXCEPT ![m.state] = (@ + 1) - (IF h = s THEN 1 ELSE 0)]
       \/ \E built \in 0..1 : FailAfter(built) /\ UNCHANGED refs

AddBoth(s, h, k, v) ==
    /\ MayTarget(s, h)
    /\ IF ContainsKey(hold[s], k) \/ ContainsValue(hold[s], v) THEN UNCHANGED biMapVars
       ELSE ComposeBiMap(s, h, WithPair(hold[s], k, v))

SetBoth(s, h, k, v) ==
    /\ MayTarget(s, h)
    /\ IF SetConflicts(hold[s], k, v) THEN UNCHANGED biMapVars
       ELSE ComposeBiMap(s, h, SetPair(hold[s], k, v))

BiMapNext ==
    \/ \E h \in Handles : CreateBiMap(h) \/ DestroyMap(h)
    \/ \E s, h \in Handles :
          \/ CloneMap(s, h)
          \/ s \in Held /\ (ComposeBiMap(s, h, ClearBoth(hold[s])) \/ ComposeBiMap(s, h, InverseBiMap(hold[s])))
    \/ \E s, h \in Handles, x \in Items :
          s \in Held /\ (\/ ComposeBiMap(s, h, TryRemoveKey(hold[s], x))
                         \/ ComposeBiMap(s, h, TryRemoveValue(hold[s], x)))
    \/ \E s, h \in Handles, k, v \in Items :
          \/ AddBoth(s, h, k, v)
          \/ SetBoth(s, h, k, v)
          \/ s \in Held /\ ComposeBiMap(s, h, TryAddBoth(hold[s], k, v))

BiMapSpec == BiMapInit /\ [][BiMapNext]_biMapVars

-----------------------------------------------------------------------------
\* The two maps are inverse to each other, down to the pointers they store:
\* every entry of one is the swapped entry of the other, under the policies in
\* the roles the inversion gives them.
MutuallyInverse ==
    \A h \in Held :
       LET m == hold[h] IN
       /\ \A c \in DOMAIN m.forward :
             LET e == m.forward[c]
             IN  /\ c = KeyClass(m, e.key)
                 /\ ContainsValue(m, e.value)
                 /\ m.inverse[ValueClass(m, e.value)] = [key |-> e.value, value |-> e.key]
       /\ \A c \in DOMAIN m.inverse :
             LET e == m.inverse[c]
             IN  /\ c = ValueClass(m, e.key)
                 /\ ContainsKey(m, e.value)
                 /\ m.forward[KeyClass(m, e.value)] = [key |-> e.value, value |-> e.key]

\* Maps and policy states are owned exactly once: a failure of the second map
\* releases the first, and a policy state lives exactly as long as a version
\* that refers to it, inverted or not.
BiMapOwned ==
    /\ live = 2 * Cardinality(Held)
    /\ \A p \in States : refs[p] = Cardinality({h \in Held : hold[h].state = p})
=============================================================================
