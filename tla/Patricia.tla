------------------------------ MODULE Patricia ------------------------------
(***************************************************************************)
(* The integer maps of patricia.c: a binary trie over the bits of a key,    *)
(* with a branch only where two keys differ, which algebra walks in step.   *)
(* Sets are maps without values.  A cursor stands between two keys and is   *)
(* refused a key that belongs elsewhere.                                    *)
(***************************************************************************)
EXTENDS Integers, SequencesExt, FiniteSetsExt, TLC

CONSTANTS Width,        \* 32 or 64 bits
          Keys, Values,
          Equal(_, _),  \* the equality of values in the policy
          Others        \* maps, as functions, to combine with
VARIABLES map, gap      \* the map, and where a cursor stands in it; NoCursor when it is none
vars == <<map, gap>>
NoCursor == -1

WidthAssumption == Width > 0 /\ \A k \in Keys : k \in -(2^(Width - 1))..(2^(Width - 1) - 1)

Null == [kind |-> "null"]
Leaf(k, v, p) == [kind |-> "leaf", path |-> p, key |-> k, value |-> v, count |-> 1]
Branch(p, m, l, r) == [kind |-> "branch", path |-> p, mask |-> m, left |-> l, right |-> r, count |-> l.count + r.count]

\* The sign bit is turned over, so that paths are ordered as keys are.
Encode(k) == ((k % 2^Width) + 2^(Width - 1)) % 2^Width

\* The bits above a mask; doubling the highest mask gives zero, and all ones
\* when one is taken from it.
PrefixOf(p, m) == LET low == (2 * m - 1) % 2^Width IN p - (p % (low + 1))
BitAt(p, m) == (p \div m) % 2
\* The highest bit in which two paths differ.
DifferingBit(p, q) == 2^Max({n \in 0..(Width - 1) : BitAt(p, 2^n) # BitAt(q, 2^n)})
Join(p, a, q, b) ==
    LET m == DifferingBit(p, q)
    IN  IF BitAt(p, m) = 0 THEN Branch(PrefixOf(p, m), m, a, b) ELSE Branch(PrefixOf(p, m), m, b, a)
Collapse(p, m, l, r) == IF l = Null THEN r ELSE IF r = Null THEN l ELSE Branch(p, m, l, r)
Child(t, p) == IF BitAt(p, t.mask) = 0 THEN t.left ELSE t.right
WithChild(t, p, c) ==
    IF BitAt(p, t.mask) = 0 THEN Collapse(t.path, t.mask, c, t.right) ELSE Collapse(t.path, t.mask, t.left, c)
Covers(t, p) == PrefixOf(p, t.mask) = t.path

RECURSIVE FindNode(_, _)
FindNode(t, p) ==
    CASE t = Null -> Null
      [] t # Null /\ t.kind = "leaf" -> IF t.path = p THEN t ELSE Null
      [] t # Null /\ t.kind = "branch" -> IF Covers(t, p) THEN FindNode(Child(t, p), p) ELSE Null

\* How two values of one key are combined; without a function the right's is
\* taken.
Combiners == {"none", "first", "least"}
Combine(how, l, r) == CASE how = "first" -> l [] how = "least" -> IF l < r THEN l ELSE r [] how = "none" -> r
\* The value that is there stays when the new one is equal.
Resolved(t, v) == IF Equal(t.value, v) THEN t ELSE Leaf(t.key, v, t.path)

\* How an incoming value meets the one there is.
Meeting(how, incomingLeft, there, v) ==
    IF how = "none" /\ incomingLeft THEN there ELSE IF incomingLeft THEN Combine(how, v, there) ELSE Combine(how, there, v)

RECURSIVE SetNode(_, _, _, _)
SetNode(t, leaf, how, incomingLeft) ==
    CASE t = Null -> leaf
      [] t # Null /\ t.kind = "leaf" ->
           IF t.path = leaf.path THEN Resolved(t, Meeting(how, incomingLeft, t.value, leaf.value))
           ELSE Join(t.path, t, leaf.path, leaf)
      [] t # Null /\ t.kind = "branch" ->
           IF Covers(t, leaf.path) THEN WithChild(t, leaf.path, SetNode(Child(t, leaf.path), leaf, how, incomingLeft))
           ELSE Join(t.path, t, leaf.path, leaf)

RECURSIVE RemoveNode(_, _)
RemoveNode(t, p) ==
    CASE t = Null -> Null
      [] t # Null /\ t.kind = "leaf" -> IF t.path = p THEN Null ELSE t
      [] t # Null /\ t.kind = "branch" -> IF Covers(t, p) THEN WithChild(t, p, RemoveNode(Child(t, p), p)) ELSE t

\* Whether t belongs under s.
Below(s, t) == s.mask > t.mask /\ Covers(s, t.path)
Aligned(s, t) == s.mask = t.mask /\ s.path = t.path

RECURSIVE UnionNodes(_, _, _)
UnionNodes(s, t, how) ==
    CASE s = Null -> t
      [] s # Null /\ t = Null -> s
      [] s # Null /\ t # Null ->
           IF s.kind = "leaf" /\ t.kind = "leaf"
           THEN IF s.path # t.path THEN Join(s.path, s, t.path, t)
                ELSE LET v == Combine(how, s.value, t.value)
                     IN  IF Equal(s.value, v) THEN s ELSE IF Equal(t.value, v) THEN t ELSE Leaf(s.key, v, s.path)
           ELSE IF s.kind = "leaf" THEN SetNode(t, s, how, TRUE)
           ELSE IF t.kind = "leaf" THEN SetNode(s, t, how, FALSE)
           ELSE IF Aligned(s, t) THEN Branch(s.path, s.mask, UnionNodes(s.left, t.left, how), UnionNodes(s.right, t.right, how))
           ELSE IF Below(s, t) THEN WithChild(s, t.path, UnionNodes(Child(s, t.path), t, how))
           ELSE IF Below(t, s) THEN WithChild(t, s.path, UnionNodes(s, Child(t, s.path), how))
           ELSE Join(s.path, s, t.path, t)

RECURSIVE IntersectNodes(_, _, _)
IntersectNodes(s, t, how) ==
    CASE s = Null \/ t = Null -> Null
      [] s # Null /\ t # Null ->
           IF s.kind = "leaf" \/ t.kind = "leaf"
           THEN LET l == IF s.kind = "leaf" THEN s ELSE FindNode(s, t.path)
                    r == IF t.kind = "leaf" THEN t ELSE FindNode(t, s.path)
                    v == Combine(how, l.value, r.value)
                IN  IF l = Null \/ r = Null \/ l.path # r.path THEN Null
                    ELSE IF how = "none" \/ Equal(l.value, v) THEN l ELSE IF Equal(r.value, v) THEN r ELSE Leaf(l.key, v, l.path)
           ELSE IF Aligned(s, t)
                THEN Collapse(s.path, s.mask, IntersectNodes(s.left, t.left, how), IntersectNodes(s.right, t.right, how))
           ELSE IF Below(s, t) THEN IntersectNodes(Child(s, t.path), t, how)
           ELSE IF Below(t, s) THEN IntersectNodes(s, Child(t, s.path), how)
           ELSE Null

RECURSIVE ExceptNodes(_, _)
ExceptNodes(s, t) ==
    CASE s = Null \/ t = Null -> s
      [] s # Null /\ t # Null ->
           IF s = t THEN Null
           ELSE IF s.kind = "leaf" THEN (IF FindNode(t, s.path) # Null THEN Null ELSE s)
           ELSE IF t.kind = "leaf" THEN RemoveNode(s, t.path)
           ELSE IF Aligned(s, t) THEN Collapse(s.path, s.mask, ExceptNodes(s.left, t.left), ExceptNodes(s.right, t.right))
           ELSE IF Below(s, t) THEN WithChild(s, t.path, ExceptNodes(Child(s, t.path), t))
           ELSE IF Below(t, s) THEN ExceptNodes(s, Child(t, s.path))
           ELSE s

CountOf(t) == IF t = Null THEN 0 ELSE t.count
RECURSIVE Visit(_)
Visit(t) == CASE t = Null -> <<>> [] t # Null /\ t.kind = "leaf" -> <<<<t.key, t.value>>>>
              [] t # Null /\ t.kind = "branch" -> Visit(t.left) \o Visit(t.right)

RECURSIVE EntryAtNode(_, _)
EntryAtNode(t, index) ==
    IF t = Null \/ index >= CountOf(t) THEN Null ELSE IF t.kind = "leaf" THEN t
    ELSE IF index < t.left.count THEN EntryAtNode(t.left, index) ELSE EntryAtNode(t.right, index - t.left.count)

\* How many keys come before a path.
RECURSIVE LowerBoundRank(_, _)
LowerBoundRank(t, p) ==
    IF t = Null THEN 0 ELSE IF t.kind = "leaf" THEN (IF t.path < p THEN 1 ELSE 0)
    ELSE IF ~Covers(t, p) THEN (IF p < t.path THEN 0 ELSE t.count)
    ELSE IF BitAt(p, t.mask) = 0 THEN LowerBoundRank(t.left, p) ELSE t.left.count + LowerBoundRank(t.right, p)

-----------------------------------------------------------------------------
MapSet(t, k, v) == SetNode(t, Leaf(k, v, Encode(k)), "none", FALSE)
MapRemove(t, k) == RemoveNode(t, Encode(k))
MapOf(f) == FoldSet(LAMBDA k, t : MapSet(t, k, f[k]), Null, DOMAIN f)

Cursor(t, position) == [map |-> t, position |-> position]
CursorAt(t, k) == Cursor(t, LowerBoundRank(t, Encode(k)))
Reposition(c, position) == IF position > CountOf(c.map) THEN c ELSE Cursor(c.map, position)
CursorInsert(c, k, v) ==
    IF FindNode(c.map, Encode(k)) # Null \/ CursorAt(c.map, k) # c THEN c ELSE Cursor(MapSet(c.map, k, v), c.position + 1)
CursorPut(c, k, v) ==
    IF CursorAt(c.map, k) # c THEN c
    ELSE Cursor(MapSet(c.map, k, v), c.position + (IF FindNode(c.map, Encode(k)) # Null THEN 0 ELSE 1))
SetNextValue(c, v) ==
    LET t == EntryAtNode(c.map, c.position) IN IF t = Null THEN c ELSE Cursor(MapSet(c.map, t.key, v), c.position)
CursorDelete(c, previous) ==
    LET index == IF previous THEN c.position - 1 ELSE c.position
    IN  IF (previous /\ c.position = 0) \/ (~previous /\ c.position = CountOf(c.map)) THEN c
        ELSE Cursor(MapRemove(c.map, EntryAtNode(c.map, index).key), index)

Become(t) == gap = NoCursor /\ map' = t /\ UNCHANGED gap
Now == Cursor(map, gap)
Edit(c) == map' = c.map /\ gap' = c.position

Put(k, v) == Become(MapSet(map, k, v))
Delete(k) == Become(MapRemove(map, k))
Algebra(f) ==
    \/ \E how \in Combiners : Become(UnionNodes(map, MapOf(f), how)) \/ Become(IntersectNodes(map, MapOf(f), how))
    \/ Become(ExceptNodes(map, MapOf(f)))
OpenCursor == gap = NoCursor /\ \/ \E i \in 0..CountOf(map) : Edit(Cursor(map, i))
                                \/ \E k \in Keys : Edit(CursorAt(map, k))
EditCursor ==
    /\ gap # NoCursor
    /\ \/ \E previous \in BOOLEAN : Edit(CursorDelete(Now, previous))
       \/ \E k \in Keys, v \in Values : Edit(CursorInsert(Now, k, v)) \/ Edit(CursorPut(Now, k, v))
       \/ \E v \in Values : Edit(SetNextValue(Now, v))
       \/ gap > 0 /\ Edit(Reposition(Now, gap - 1))
       \/ Edit(Reposition(Now, gap + 1))
Snapshot == gap # NoCursor /\ gap' = NoCursor /\ UNCHANGED map

Init == map = Null /\ gap = NoCursor
Next ==
    \/ \E k \in Keys : Delete(k) \/ \E v \in Values : Put(k, v)
    \/ \E f \in Others : Algebra(f)
    \/ OpenCursor \/ EditCursor \/ Snapshot
Spec == Init /\ [][Next]_vars

-----------------------------------------------------------------------------
AsFunction(t) == LET q == Visit(t) IN [k \in {q[i][1] : i \in DOMAIN q} |-> q[CHOOSE i \in DOMAIN q : q[i][1] = k][2]] @@ <<>>
RECURSIVE WellFormed(_)
WellFormed(t) ==
    t = Null \/ t.kind = "leaf" \/
       /\ t.path = PrefixOf(t.path, t.mask) /\ BitAt(t.path, t.mask) = 0
       /\ \A side \in {<<t.left, 0>>, <<t.right, 1>>} :
             /\ side[1] # Null /\ BitAt(side[1].path, t.mask) = side[2] /\ Covers(t, side[1].path) /\ WellFormed(side[1])
             /\ side[1].kind = "branch" => side[1].mask < t.mask

\* A map's trie depends on its entries and not on its history, walks them in
\* the order of the signed keys, the lowest and highest included, and ranks
\* each key, there or not, by how many come before it.
TrieCanonical ==
    /\ WellFormed(map) /\ map = MapOf(AsFunction(map)) /\ gap \in -1..CountOf(map)
    /\ \A i \in 2..CountOf(map) : Visit(map)[i - 1][1] < Visit(map)[i][1]
    /\ \A k \in Keys : LowerBoundRank(map, Encode(k)) = Cardinality({j \in DOMAIN AsFunction(map) : j < k})

Alike(f, g) == DOMAIN f = DOMAIN g /\ \A k \in DOMAIN f : Equal(f[k], g[k])
\* Union, intersection and difference of two tries are those of their maps,
\* and a function given for common keys gets the left map's value first
\* whichever trie is deeper.
AlgebraExact ==
    \A g \in Others :
       LET f == AsFunction(map)
           t == MapOf(g)
       IN  /\ \A how \in Combiners :
                 /\ Alike(AsFunction(UnionNodes(map, t, how)),
                          [k \in DOMAIN f \cap DOMAIN g |-> Combine(how, f[k], g[k])] @@ f @@ g)
                 /\ Alike(AsFunction(IntersectNodes(map, t, how)),
                          [k \in DOMAIN f \cap DOMAIN g |-> IF how = "none" THEN f[k] ELSE Combine(how, f[k], g[k])])
                 /\ WellFormed(UnionNodes(map, t, how)) /\ WellFormed(IntersectNodes(map, t, how))
           /\ AsFunction(ExceptNodes(map, t)) = ([k \in DOMAIN f \ DOMAIN g |-> f[k]] @@ <<>>) /\ WellFormed(ExceptNodes(map, t))

\* A cursor takes a new key only where the key belongs and then stands after
\* it; a deletion leaves it between the neighbours of what went.
CursorInPlace ==
    gap # NoCursor =>
       /\ \A k \in Keys, v \in Values :
             LET c == CursorInsert(Now, k, v)
                 q == Visit(map)
             IN  IF k \notin DOMAIN AsFunction(map) /\ (\A i \in DOMAIN q : q[i][1] < k <=> i <= gap)
                 THEN Visit(c.map) = InsertAt(q, gap + 1, <<k, v>>) /\ EntryAtNode(c.map, c.position - 1).key = k
                 ELSE c = Now
       /\ \A previous \in BOOLEAN :
             LET c == CursorDelete(Now, previous) IN
             c # Now => Visit(c.map) = RemoveAt(Visit(map), IF previous THEN gap ELSE gap + 1) /\ c.position = IF previous THEN gap - 1 ELSE gap
=============================================================================
