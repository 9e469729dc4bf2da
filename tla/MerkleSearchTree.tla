-------------------------- MODULE MerkleSearchTree --------------------------
(***************************************************************************)
(* The persistent map of merkle_search_tree.c in memory: its handles, the  *)
(* cursors that walk and edit a version, the comparisons that skip         *)
(* subtrees of equal digest, and the three-way merge.  All trees share one *)
(* policy.                                                                 *)
(***************************************************************************)
EXTENDS MerkleTree

CONSTANTS Handles, Cursors,
          MaxArray,   \* entries of a bulk call
          Resolvers   \* functions from keys to "unresolved", "base", "left", "right", "delete" or a value
VARIABLES tree, cur
vars == <<tree, cur>>

Held == {h \in Handles : tree[h] # Unset}
Open == {c \in Cursors : cur[c] # Unset}

\* A call writes its result over a source or to a handle that holds nothing.
PublishTree(sources, h, t) ==
    /\ sources \subseteq Held /\ (h \in sources \/ h \notin Held)
    /\ tree' = [tree EXCEPT ![h] = t] /\ UNCHANGED cur
TreeInit(h) == h \notin Held /\ tree' = [tree EXCEPT ![h] = Null] /\ UNCHANGED cur
FromArray(h, q) == h \notin Held /\ tree' = [tree EXCEPT ![h] = FromArrayResult(q)] /\ UNCHANGED cur
TreeCopy(s, h) == s \in Held /\ h \notin Held /\ PublishTree({s}, h, tree[s])
TreeMove(s, h) == s \in Held /\ h \notin Held /\ tree' = [tree EXCEPT ![h] = tree[s], ![s] = Unset] /\ UNCHANGED cur
TreeDispose(h) == h \in Held /\ PublishTree({h}, h, Unset)
SetEntry(s, h, e) == s \in Held /\ PublishTree({s}, h, SetResult(tree[s], e))
RemoveKey(s, h, k) == s \in Held /\ PublishTree({s}, h, RemoveResult(tree[s], k))
Clear(s, h) == s \in Held /\ PublishTree({s}, h, Null)

-----------------------------------------------------------------------------
\* Comparisons.  The nodes of one digest are not looked into.

\* A range is walked from the first entry that is not below it.
RECURSIVE VisitRange(_, _, _)
VisitRange(t, low, high) ==
    IF t = Null THEN <<>>
    ELSE LET n == Len(t.entries)
             shown == {i \in 1..n : \A j \in 1..(i - 1) : t.entries[j].key <= high}
             last == IF t.entries[n].key < high THEN VisitRange(t.children[n + 1], low, high) ELSE <<>>
         IN  FoldLeft(LAMBDA q, i :
                         q \o (IF t.entries[i].key > low THEN VisitRange(t.children[i], low, high) ELSE <<>>)
                           \o (IF low <= t.entries[i].key /\ t.entries[i].key <= high THEN <<t.entries[i]>> ELSE <<>>),
                      <<>>, SetToSortSeq(shown, <)) \o last

ContentEquals(l, r) == l = r
SameSeparators(l, r) ==
    l.level = r.level /\ Len(l.entries) = Len(r.entries) /\ \A i \in DOMAIN l.entries : l.entries[i].key = r.entries[i].key
RECURSIVE NodesEqual(_, _)
NodesEqual(l, r) ==
    \/ l = r
    \/ /\ l # Null /\ r # Null /\ SameSeparators(l, r)
       /\ \A i \in DOMAIN l.entries : SameValues(l.entries[i], r.entries[i])
       /\ \A i \in DOMAIN l.children : NodesEqual(l.children[i], r.children[i])
EnumeratedEqual(l, r) ==
    LET p == InOrder(l)
        q == InOrder(r)
    IN  Len(p) = Len(q) /\ \A i \in DOMAIN p : p[i].key = q[i].key /\ SameValues(p[i], q[i])
\* Different bytes may still be equal values.
MapEquals(l, r) == l.count = r.count /\ IF l = r THEN NodesEqual(l, r) ELSE EnumeratedEqual(l, r)

Difference(k, before, after) == [key |-> k, before |-> before, after |-> after]
EmitSubtree(t, kind) ==
    LET q == InOrder(t)
    IN  [i \in DOMAIN q |-> IF kind = "removed" THEN Difference(q[i].key, q[i].value, Unset)
                                                ELSE Difference(q[i].key, Unset, q[i].value)] @@ <<>>
EmitChange(e, f) == IF SameValues(e, f) THEN <<>> ELSE <<Difference(e.key, e.value, f.value)>>
RECURSIVE MergeDiff(_, _)
MergeDiff(p, q) ==
    IF p = <<>> /\ q = <<>> THEN <<>>
    ELSE IF q = <<>> \/ (p # <<>> /\ p[1].key < q[1].key)
         THEN <<Difference(p[1].key, p[1].value, Unset)>> \o MergeDiff(Tail(p), q)
    ELSE IF p = <<>> \/ q[1].key < p[1].key THEN <<Difference(q[1].key, Unset, q[1].value)>> \o MergeDiff(p, Tail(q))
    ELSE EmitChange(p[1], q[1]) \o MergeDiff(Tail(p), Tail(q))

RECURSIVE DiffNodes(_, _)
DiffNodes(l, r) ==
    IF l = r THEN <<>>
    ELSE IF l = Null THEN EmitSubtree(r, "added") ELSE IF r = Null THEN EmitSubtree(l, "removed")
    ELSE IF ~SameSeparators(l, r) THEN MergeDiff(InOrder(l), InOrder(r))
    ELSE FoldLeft(LAMBDA q, i : q \o DiffNodes(l.children[i], r.children[i]) \o EmitChange(l.entries[i], r.entries[i]),
                  <<>>, [i \in DOMAIN l.entries |-> i] @@ <<>>)
         \o DiffNodes(Last(l.children), Last(r.children))

-----------------------------------------------------------------------------
\* The three-way merge: the three walks side by side, key by key.

StatesEqual(e, f) == IF e = Unset \/ f = Unset THEN e = f ELSE SameValues(e, f)
HeadAt(q, k) == IF q # <<>> /\ q[1].key = k THEN q[1] ELSE Unset
Rest(q, e) == IF e = Unset THEN q ELSE Tail(q)
LeastKey(b, l, r) == Min({q[1].key : q \in {b, l, r} \ {<<>>}})

\* What one key becomes: an entry, Unset for none, or the refusal to decide.
Conflict == [key |-> Unset, value |-> Unset]
Resolved(b, l, r, answer) ==
    LET representative == IF l # Unset THEN l ELSE IF r # Unset THEN r ELSE b
    IN  CASE answer = "unresolved" -> Conflict
          [] answer = "base" -> b
          [] answer = "left" -> l
          [] answer = "right" -> r
          [] answer = "delete" -> Unset
          [] OTHER -> Entry(representative.key, answer)

Select(b, l, r, answer) ==
    IF StatesEqual(l, r) THEN l
    ELSE IF StatesEqual(l, b) THEN r ELSE IF StatesEqual(r, b) THEN l ELSE Resolved(b, l, r, answer)

RECURSIVE MergeWalk(_, _, _, _)
MergeWalk(b, l, r, resolver) ==
    IF b = <<>> /\ l = <<>> /\ r = <<>> THEN [entries |-> <<>>, conflicts |-> <<>>]
    ELSE LET k == LeastKey(b, l, r)
             eb == HeadAt(b, k)
             el == HeadAt(l, k)
             er == HeadAt(r, k)
             chosen == Select(eb, el, er, resolver[k])
             others == MergeWalk(Rest(b, eb), Rest(l, el), Rest(r, er), resolver)
         IN  [entries |-> (IF chosen \in {Unset, Conflict} THEN <<>> ELSE <<chosen>>) \o others.entries,
              conflicts |-> (IF chosen = Conflict THEN <<k>> ELSE <<>>) \o others.conflicts]
Merge(b, l, r, resolver) == MergeWalk(InOrder(b), InOrder(l), InOrder(r), resolver)

\* One undecided key, and there is no tree.
MergeInto(b, l, r, h, resolver) ==
    /\ {b, l, r} \subseteq Held
    /\ \E m \in {Merge(tree[b], tree[l], tree[r], resolver)} :
          m.conflicts = <<>> /\ PublishTree({b, l, r}, h, BuildCanonical(m.entries))

-----------------------------------------------------------------------------
\* Cursors: a version and a rank in it.

RECURSIVE LowerBoundRank(_, _)
LowerBoundRank(t, k) ==
    IF t = Null THEN 0
    ELSE LET p == FindPosition(t, k)
             before == p + SumOfCounts(SubSeq(t.children, 1, p))
         IN  IF FoundAt(t, k) THEN before + t.children[p + 1].count ELSE before + LowerBoundRank(t.children[p + 1], k)
RECURSIVE EntryAtRank(_, _)
EntryAtRank(t, rank) ==
    IF rank >= t.count THEN Unset
    ELSE LET start(i) == i - 1 + SumOfCounts(SubSeq(t.children, 1, i - 1))
             i == Max({j \in DOMAIN t.children : start(j) <= rank})
         IN  IF rank < start(i) + t.children[i].count THEN EntryAtRank(t.children[i], rank - start(i)) ELSE t.entries[i]
PeekPrevious(c) == IF c.position = 0 THEN Unset ELSE EntryAtRank(c.tree, c.position - 1)
PeekNext(c) == EntryAtRank(c.tree, c.position)

Stage(t, position) == [tree |-> t, position |-> position]
CursorPublish(s, d, c) ==
    /\ s \in Open /\ (d = s \/ d \notin Open)
    /\ cur' = [cur EXCEPT ![d] = c] /\ UNCHANGED tree
CursorCreate(h, d, position) ==
    /\ h \in Held /\ d \notin Open /\ position <= tree[h].count
    /\ cur' = [cur EXCEPT ![d] = Stage(tree[h], position)] /\ UNCHANGED tree
CursorFromBound(h, d, k, upper) ==
    /\ h \in Held
    /\ CursorCreate(h, d, LowerBoundRank(tree[h], k) + (IF upper /\ FindEntry(tree[h], k) # Unset THEN 1 ELSE 0))
CursorCopy(s, d) == s \in Open /\ d \notin Open /\ CursorPublish(s, d, cur[s])
CursorDestroy(d) == d \in Open /\ cur' = [cur EXCEPT ![d] = Unset] /\ UNCHANGED tree
Seek(s, d, position) == s \in Open /\ position <= cur[s].tree.count /\ CursorPublish(s, d, Stage(cur[s].tree, position))
MovePrevious(s, d) == s \in Open /\ cur[s].position > 0 /\ Seek(s, d, cur[s].position - 1)
MoveNext(s, d) == s \in Open /\ cur[s].position < cur[s].tree.count /\ Seek(s, d, cur[s].position + 1)

\* Only where the key belongs; a new entry is left behind the cursor.
PutCore(c, e, strict) ==
    LET found == FindEntry(c.tree, e.key) # Unset
    IN  IF (strict /\ found) \/ LowerBoundRank(c.tree, e.key) # c.position THEN Unset
        ELSE Stage(SetResult(c.tree, e), c.position + (IF found THEN 0 ELSE 1))
CursorPut(s, d, e, strict) ==
    s \in Open /\ \E c \in {PutCore(cur[s], e, strict)} : c # Unset /\ CursorPublish(s, d, c)
SetNextValue(s, d, v) ==
    /\ s \in Open /\ cur[s].position < cur[s].tree.count
    /\ CursorPublish(s, d, Stage(SetResult(cur[s].tree, Entry(PeekNext(cur[s]).key, v)), cur[s].position))
DeleteAt(c, position) == Stage(RemoveResult(c.tree, EntryAtRank(c.tree, position).key), position)
DeletePrevious(s, d) == s \in Open /\ cur[s].position > 0 /\ CursorPublish(s, d, DeleteAt(cur[s], cur[s].position - 1))
DeleteNext(s, d) ==
    s \in Open /\ cur[s].position < cur[s].tree.count /\ CursorPublish(s, d, DeleteAt(cur[s], cur[s].position))
Snapshot(c, h) == c \in Open /\ h \notin Held /\ tree' = [tree EXCEPT ![h] = cur[c].tree] /\ UNCHANGED cur

-----------------------------------------------------------------------------
Init == tree = [h \in Handles |-> Unset] /\ cur = [c \in Cursors |-> Unset]

Next ==
    \/ \E h \in Handles : \/ TreeInit(h) \/ TreeDispose(h)
                          \/ \E n \in 0..MaxArray : \E q \in [1..n -> Entries] : FromArray(h, q)
    \/ \E s, h \in Handles :
          \/ TreeCopy(s, h) \/ TreeMove(s, h) \/ Clear(s, h)
          \/ \E e \in Entries : SetEntry(s, h, e)
          \/ \E k \in Keys : RemoveKey(s, h, k)
    \/ \E b, l, r, h \in Handles, resolver \in Resolvers : MergeInto(b, l, r, h, resolver)
    \/ \E h \in Handles, c \in Cursors :
          \/ Snapshot(c, h)
          \/ \E n \in 0..Cardinality(Keys) : CursorCreate(h, c, n)
          \/ \E k \in Keys, upper \in BOOLEAN : CursorFromBound(h, c, k, upper)
    \/ \E s, d \in Cursors :
          \/ CursorCopy(s, d) \/ MovePrevious(s, d) \/ MoveNext(s, d)
          \/ DeletePrevious(s, d) \/ DeleteNext(s, d)
          \/ \E n \in 0..Cardinality(Keys) : Seek(s, d, n)
          \/ \E e \in Entries, strict \in BOOLEAN : CursorPut(s, d, e, strict)
          \/ \E v \in Values : SetNextValue(s, d, v)
    \/ \E d \in Cursors : CursorDestroy(d)

Spec == Init /\ [][Next]_vars

-----------------------------------------------------------------------------
Versions == {tree[h] : h \in Held} \cup {cur[c].tree : c \in Open}
ValueAt(q, k) == IF \E i \in DOMAIN q : q[i].key = k THEN (CHOOSE e \in ToSet(q) : e.key = k).value ELSE Unset
ClassAt(q, k) == IF ValueAt(q, k) = Unset THEN Unset ELSE ValueClass[ValueAt(q, k)]
SortedKeys(s) == SetToSortSeq(s, <)

\* Whatever calls made it, a version is the one tree of its entries, which is
\* what lets digests stand for contents; and a range shows exactly its entries.
TreesCanonical ==
    \A t \in Versions :
       LET all == InOrder(t)
       IN  /\ ValidNode(t, Unset, Unset) /\ t = BuildCanonical(all)
           /\ \A low, high \in Keys :
                 low <= high => VisitRange(t, low, high) = SelectSeq(all, LAMBDA e : low <= e.key /\ e.key <= high)

\* Comparisons that skip equal digests and follow equal separators report each
\* key whose value differs, once and in order, though bytes may differ where
\* values are equal.
DiffExact ==
    \A l, r \in Versions :
       LET p == InOrder(l)
           q == InOrder(r)
           keys == SortedKeys({k \in Keys : ClassAt(p, k) # ClassAt(q, k)})
       IN  /\ ContentEquals(l, r) <=> p = q
           /\ MapEquals(l, r) <=> keys = <<>>
           /\ DiffNodes(l, r) = [i \in DOMAIN keys |-> Difference(keys[i], ValueAt(p, keys[i]), ValueAt(q, keys[i]))]

\* A merge takes each key's change from whichever side made one, and asks
\* about exactly the keys both sides changed differently.
MergeExact ==
    \A b, l, r \in {tree[h] : h \in Held}, resolver \in Resolvers :
       LET m == Merge(b, l, r, resolver)
           eb == InOrder(b)
           el == InOrder(l)
           er == InOrder(r)
           changed(e, k) == ClassAt(e, k) # ClassAt(eb, k)
           disputed == {k \in Keys : changed(el, k) /\ changed(er, k) /\ ClassAt(el, k) # ClassAt(er, k)}
       IN  /\ m.conflicts = SortedKeys({k \in disputed : resolver[k] = "unresolved"})
           /\ \A i \in 2..Len(m.entries) : m.entries[i - 1].key < m.entries[i].key
           /\ \A k \in Keys \ disputed :
                 ClassAt(m.entries, k) = IF changed(el, k) THEN ClassAt(el, k) ELSE ClassAt(er, k)
           /\ \A k \in disputed :
                 resolver[k] # "unresolved" =>
                    ValueAt(m.entries, k) = CASE resolver[k] = "base" -> ValueAt(eb, k)
                                              [] resolver[k] = "left" -> ValueAt(el, k)
                                              [] resolver[k] = "right" -> ValueAt(er, k)
                                              [] resolver[k] = "delete" -> Unset
                                              [] OTHER -> resolver[k]

\* A cursor knows the entries beside it; a key goes in only where it belongs,
\* behind the cursor if it is new and in front of it if it was there.
CursorStaysBeside ==
    \A c \in {cur[d] : d \in Open} :
       LET all == InOrder(c.tree)
       IN  /\ c.position <= Len(all)
           /\ PeekPrevious(c) = (IF c.position = 0 THEN Unset ELSE all[c.position])
           /\ PeekNext(c) = (IF c.position = Len(all) THEN Unset ELSE all[c.position + 1])
           /\ \A e \in Entries :
                 LET m == PutCore(c, e, FALSE)
                     fits == /\ c.position > 0 => all[c.position].key < e.key
                             /\ c.position < Len(all) => e.key <= all[c.position + 1].key
                 IN  /\ (m # Unset) <=> fits
                     /\ fits => IF FindEntry(c.tree, e.key) # Unset THEN PeekNext(m) = e ELSE PeekPrevious(m) = e
=============================================================================
