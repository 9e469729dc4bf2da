----------------------------- MODULE MerkleTree -----------------------------
(***************************************************************************)
(* The trees of merkle_search_tree.c.  A key's level comes from the digest *)
(* of its bytes, and each node holds the keys of the highest level of its  *)
(* part of the keys, so one set of entries has one tree.  Digests are      *)
(* taken to tell different blocks apart: a node stands for its own digest, *)
(* and two nodes are one value exactly when their digests are equal.       *)
(***************************************************************************)
EXTENDS Integers, SequencesExt

CONSTANTS Keys,       \* numbers
          LevelOf,    \* the level of each key
          Values,
          ValueClass, \* what the value type's equality compares; bytes may still differ
          Unset

Null == [count |-> 0]
Entry(k, v) == [key |-> k, value |-> v]
Entries == [key : Keys, value : Values]
SumOfCounts(children) == FoldLeft(LAMBDA n, c : n + c.count, 0, children)

\* A node's block: its level, the count of its subtree, its entries and the
\* digests of its children, one more than entries.
Block(level, count, entries, children) ==
    [level |-> level, count |-> count, entries |-> entries, children |-> children]
Node(level, entries, children) == Block(level, Len(entries) + SumOfCounts(children), entries, children)
EntryNode(e) == Node(LevelOf[e.key], <<e>>, <<Null, Null>>)
SameValues(e, f) == e.value = f.value \/ ValueClass[e.value] = ValueClass[f.value]

\* The number of entries before a key, which is also the child to look in.
FindPosition(t, k) == Cardinality({i \in DOMAIN t.entries : t.entries[i].key < k})
FoundAt(t, k) == FindPosition(t, k) < Len(t.entries) /\ t.entries[FindPosition(t, k) + 1].key = k
ChildFor(t, k) == t.children[FindPosition(t, k) + 1]
RECURSIVE FindEntry(_, _)
FindEntry(t, k) ==
    IF t = Null THEN Unset
    ELSE IF FoundAt(t, k) THEN t.entries[FindPosition(t, k) + 1] ELSE FindEntry(ChildFor(t, k), k)

\* One child, or one entry, replaced.
RebuildChild(t, position, child) == Node(t.level, t.entries, [t.children EXCEPT ![position + 1] = child])
RebuildEntry(t, position, e) == Node(t.level, [t.entries EXCEPT ![position + 1] = e], t.children)
CreateOrCollapse(level, entries, children) ==
    IF entries = <<>> THEN children[1] ELSE Node(level, entries, children)

RECURSIVE InOrder(_)
InOrder(t) ==
    IF t = Null THEN <<>>
    ELSE FoldLeft(LAMBDA q, i : q \o InOrder(t.children[i]) \o (IF i <= Len(t.entries) THEN <<t.entries[i]>> ELSE <<>>),
                  <<>>, [i \in 1..Len(t.children) |-> i] @@ <<>>)

\* The tree of an ordered list: the entries of the highest level, and the trees of
\* the stretches between them.
RECURSIVE BuildCanonical(_)
BuildCanonical(ordered) ==
    IF ordered = <<>> THEN Null
    ELSE LET top == Max({LevelOf[ordered[i].key] : i \in DOMAIN ordered})
             at == SetToSortSeq({i \in DOMAIN ordered : LevelOf[ordered[i].key] = top}, <)
             from(j) == IF j = 1 THEN 1 ELSE at[j - 1] + 1
             to(j) == IF j = Len(at) + 1 THEN Len(ordered) ELSE at[j] - 1
         IN  Node(top, [j \in 1..Len(at) |-> ordered[at[j]]] @@ <<>>,
                  [j \in 1..(Len(at) + 1) |-> BuildCanonical(SubSeq(ordered, from(j), to(j)))] @@ <<>>)

\* The parts of a tree before and after a key that is not in it.
RECURSIVE Split(_, _)
Split(t, k) ==
    IF t = Null THEN <<Null, Null>>
    ELSE LET p == FindPosition(t, k)
             child == Split(t.children[p + 1], k)
             n == Len(t.entries)
         IN  <<CreateOrCollapse(t.level, SubSeq(t.entries, 1, p), SubSeq(t.children, 1, p) \o <<child[1]>>),
               CreateOrCollapse(t.level, SubSeq(t.entries, p + 1, n), <<child[2]>> \o SubSeq(t.children, p + 2, n + 1))>>

RECURSIVE InsertNode(_, _)
InsertNode(t, e) ==
    LET level == LevelOf[e.key]
        p == FindPosition(t, e.key)
        n == Len(t.entries)
    IN  IF t = Null THEN EntryNode(e)
        ELSE IF level > t.level THEN Node(level, <<e>>, Split(t, e.key))
        ELSE IF level < t.level THEN RebuildChild(t, p, InsertNode(t.children[p + 1], e))
        ELSE LET parts == Split(t.children[p + 1], e.key)
             IN  Node(t.level, SubSeq(t.entries, 1, p) \o <<e>> \o SubSeq(t.entries, p + 1, n),
                      SubSeq(t.children, 1, p) \o parts \o SubSeq(t.children, p + 2, n + 1))

RECURSIVE UpdateValue(_, _)
UpdateValue(t, e) ==
    LET p == FindPosition(t, e.key)
    IN  IF FoundAt(t, e.key) THEN RebuildEntry(t, p, e) ELSE RebuildChild(t, p, UpdateValue(t.children[p + 1], e))

RECURSIVE JoinNodes(_, _)
JoinNodes(l, r) ==
    IF l = Null THEN r ELSE IF r = Null THEN l
    ELSE LET last == Len(l.entries)
         IN  IF l.level > r.level THEN RebuildChild(l, last, JoinNodes(l.children[last + 1], r))
             ELSE IF l.level < r.level THEN RebuildChild(r, 0, JoinNodes(l, r.children[1]))
             ELSE Node(l.level, l.entries \o r.entries,
                       SubSeq(l.children, 1, last) \o <<JoinNodes(l.children[last + 1], r.children[1])>>
                       \o Tail(r.children))

RECURSIVE RemoveNode(_, _)
RemoveNode(t, k) ==
    LET p == FindPosition(t, k)
        n == Len(t.entries)
    IN  IF ~FoundAt(t, k) THEN RebuildChild(t, p, RemoveNode(t.children[p + 1], k))
        ELSE CreateOrCollapse(t.level, RemoveAt(t.entries, p + 1),
                              SubSeq(t.children, 1, p) \o <<JoinNodes(t.children[p + 1], t.children[p + 2])>>
                              \o SubSeq(t.children, p + 3, n + 1))

\* The calls.  The stored key and an unchanged value stay as they are.
SetResult(t, e) ==
    LET old == FindEntry(t, e.key)
    IN  IF old = Unset THEN InsertNode(t, e) ELSE IF old.value = e.value THEN t ELSE UpdateValue(t, e)
RemoveResult(t, k) == IF FindEntry(t, k) = Unset THEN t ELSE RemoveNode(t, k)

\* A stable sort; of equal keys the first key and the last value.
SortPending(q) == SortSeq(q, LAMBDA e, f : e.key < f.key)
FromArrayResult(q) ==
    LET sorted == SortPending(q)
        lasts == SetToSortSeq({i \in DOMAIN sorted : i = Len(sorted) \/ sorted[i + 1].key # sorted[i].key}, <)
    IN  BuildCanonical([i \in DOMAIN lasts |-> sorted[lasts[i]]] @@ <<>>)

\* The blocks of a tree.
RECURSIVE BlocksOf(_)
BlocksOf(t) == IF t = Null THEN {} ELSE {t} \cup UNION {BlocksOf(t.children[i]) : i \in DOMAIN t.children}

\* The audit, with the keys a node must lie between; Unset bounds nothing.
RECURSIVE ValidNode(_, _, _)
ValidNode(t, lower, upper) ==
    t # Null =>
       LET n == Len(t.entries)
       IN  /\ n > 0 /\ Len(t.children) = n + 1
           /\ t.count = n + SumOfCounts(t.children)
           /\ \A i \in 1..n : /\ LevelOf[t.entries[i].key] = t.level
                              /\ i > 1 => t.entries[i - 1].key < t.entries[i].key
                              /\ lower # Unset => t.entries[i].key > lower
                              /\ upper # Unset => t.entries[i].key < upper
           /\ \A i \in 1..(n + 1) :
                 /\ t.children[i] # Null => t.children[i].level < t.level
                 /\ ValidNode(t.children[i], IF i = 1 THEN lower ELSE t.entries[i - 1].key,
                                             IF i = n + 1 THEN upper ELSE t.entries[i].key)
=============================================================================
