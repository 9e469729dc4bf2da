----------------------------- MODULE OrderedSet -----------------------------
(***************************************************************************)
(* Histories of one ordered set and of the cursor over it (ordered_set.c    *)
(* and the set cursors of ordered_cursor.c).  A cursor is made from a set   *)
(* and gives one back as a snapshot.  An operation that is refused, for an  *)
(* index or for want of stamps, leaves what its caller holds as it was.     *)
(***************************************************************************)
EXTENDS StampedOrder

CONSTANTS Operands   \* the sequences of items that are set against a set
VARIABLES set, gap   \* the set, and where a cursor stands in it; NoCursor when it is none
vars == <<set, gap>>
NoCursor == -1

Cursor(s, position) == [set |-> s, position |-> position]
\* A cursor on an item, or at the end when the set does not have it.
CursorAtItem(s, x) == Cursor(s, IF IndexOf(s, x) = -1 THEN SizeOf(s) ELSE IndexOf(s, x))
PeekPrevious(c) == IF c.position = 0 THEN <<>> ELSE <<ItemsOf(c.set)[c.position]>>
PeekNext(c) == IF c.position = SizeOf(c.set) THEN <<>> ELSE <<ItemsOf(c.set)[c.position + 1]>>
Seek(c, position) == IF position > SizeOf(c.set) THEN c ELSE Cursor(c.set, position)
MovePrevious(c) == IF c.position = 0 THEN c ELSE Seek(c, c.position - 1)
MoveNext(c) == Seek(c, c.position + 1)
Published(c, s, position) == IF s = Unset THEN c ELSE Cursor(s, position)

TryInsert(c, x) ==
    IF SetContains(c.set, x) THEN c ELSE Published(c, SetInsert(c.set, c.position, x), c.position + 1)
DeletePrevious(c) ==
    IF c.position = 0 THEN c ELSE Published(c, SetRemoveAt(c.set, c.position - 1), c.position - 1)
DeleteNext(c) ==
    IF c.position = SizeOf(c.set) THEN c ELSE Published(c, SetRemoveAt(c.set, c.position), c.position)

Become(s) == s # Unset /\ gap = NoCursor /\ set' = s /\ UNCHANGED gap
Now == Cursor(set, gap)
Edit(c) == set' = c.set /\ gap' = c.position
Indices == 0..(Cardinality({ClassOf[x] : x \in Items}) - 1)

Insert(x) == Become(SetAdd(set, x)) \/ Become(SetAddFirst(set, x)) \/ \E i \in Indices : Become(SetInsert(set, i, x))
Move(x) == Become(MoveToFirst(set, x)) \/ Become(MoveToLast(set, x)) \/ \E i \in Indices : Become(MoveTo(set, i, x))
RemoveItem(x) == Become(SetRemove(set, x)) \/ \E i \in Indices : Become(SetRemoveAt(set, i))
Rearrange == Become(SetReverse(set)) \/ Become(SortBy(set, Rank)) \/ Become(EmptySet)
TakeRange == \E i, n \in Indices : Become(GetRange(set, i, n)) \/ Become(Take(set, n)) \/ Become(Drop(set, i))
Combine(q) == FromItems(q) # Unset /\ \E k \in Kinds : Become(ApplyAlgebra(set, FromItems(q), k))
Build(q) == Become(FromItems(q))
OpenCursor == gap = NoCursor /\ \/ \E i \in 0..SizeOf(set) : Edit(Cursor(set, i))
                                \/ \E x \in Items : Edit(CursorAtItem(set, x))
EditCursor ==
    /\ gap # NoCursor
    /\ \/ Edit(MovePrevious(Now)) \/ Edit(MoveNext(Now)) \/ Edit(DeletePrevious(Now)) \/ Edit(DeleteNext(Now))
       \/ \E x \in Items : Edit(TryInsert(Now, x))
       \/ \E i \in Indices : Edit(Seek(Now, i))
Snapshot == gap # NoCursor /\ gap' = NoCursor /\ UNCHANGED set

Init == set = EmptySet /\ gap = NoCursor
Next ==
    \/ \E x \in Items : Insert(x) \/ Move(x) \/ RemoveItem(x)
    \/ Rearrange \/ TakeRange \/ OpenCursor \/ EditCursor \/ Snapshot
    \/ \E q \in Operands : Combine(q) \/ Build(q)
Spec == Init /\ [][Next]_vars

-----------------------------------------------------------------------------
\* However items were inserted, moved and given new stamps, stamps grow along
\* the order, the index agrees with it and bisection finds every item.
OrderIndexed ==
    /\ ValidSet(set) /\ gap \in -1..SizeOf(set)
    /\ \A i \in DOMAIN set.order : set.order[i].stamp \in MinStamp..MaxStamp /\ IndexOf(set, set.order[i].item) = i - 1

Same(x, y) == ClassOf[x] = ClassOf[y]
Place(q, x) == SelectInSeq(q, LAMBDA y : Same(x, y))
\* Room for n stamps around zero.
Fits(n) == n \div 2 <= MaxStamp \div StampGap
Gives(s, q) == IF Fits(Len(q)) THEN s # Unset /\ ItemsOf(s) = q ELSE s = Unset \/ ItemsOf(s) = q
Keep(q, classes) == SelectSeq(q, LAMBDA y : ClassOf[y] \in classes)
Classes(q) == {ClassOf[q[i]] : i \in DOMAIN q}

\* What every operation does to the sequence of items, with nothing said of
\* stamps: an item keeps its first representative, goes where it was told, and
\* only a set too large for its stamps is refused.
OperationsExact ==
    LET q == ItemsOf(set) IN
    /\ \A x \in Items, i \in 0..Len(q) :
          Gives(SetInsert(set, i, x), IF Place(q, x) > 0 THEN q ELSE InsertAt(q, i + 1, x))
    /\ \A x \in Items, i \in 0..(Len(q) - 1) :
          Place(q, x) > 0 => LET p == Place(q, x) IN Gives(MoveTo(set, i, x), InsertAt(RemoveAt(q, p), i + 1, q[p]))
    /\ \A x \in Items :
          /\ Gives(SetRemove(set, x), SelectSeq(q, LAMBDA y : ~Same(x, y)))
          /\ TryGetValue(set, x) = IF Place(q, x) > 0 THEN q[Place(q, x)] ELSE x
    /\ \A i \in 0..Len(q) : \A n \in 0..(Len(q) - i) :
          Gives(GetRange(set, i, n), SubSeq(q, i + 1, i + n)) /\ ValidSet(GetRange(set, i, n))
    /\ Gives(SetReverse(set), Reverse(q))
    /\ \A s \in {SortBy(set, Rank)} :
          s # Unset => /\ Len(s.order) = Len(q)
                       /\ \A i, j \in DOMAIN q :
                             (Rank[q[i]] < Rank[q[j]] \/ (Rank[q[i]] = Rank[q[j]] /\ i < j)) => IndexOf(s, q[i]) < IndexOf(s, q[j])

\* Set algebra keeps the receiver's order and representatives, and comparisons
\* are those of the sets of classes.
AlgebraExact ==
    \A r \in Operands : \A t \in {FromItems(r)} : t # Unset =>
       LET q == ItemsOf(set)
           new == Keep(ItemsOf(t), Classes(r) \ Classes(q))
           old == Keep(q, Classes(q) \ Classes(r))
       IN  /\ Gives(ApplyAlgebra(set, t, "union"), q \o new)
           /\ Gives(ApplyAlgebra(set, t, "intersect"), Keep(q, Classes(r)))
           /\ Gives(ApplyAlgebra(set, t, "except"), old)
           /\ Gives(ApplyAlgebra(set, t, "symmetric"), old \o new)
           /\ ApplyRelation(set, t, "subset") = (Classes(q) \subseteq Classes(r))
           /\ ApplyRelation(set, t, "properSubset") = (Classes(q) \subseteq Classes(r) /\ Classes(q) # Classes(r))
           /\ ApplyRelation(set, t, "superset") = (Classes(r) \subseteq Classes(q))
           /\ ApplyRelation(set, t, "properSuperset") = (Classes(r) \subseteq Classes(q) /\ Classes(q) # Classes(r))
           /\ ApplyRelation(set, t, "overlaps") = (Classes(q) \cap Classes(r) # {})
           /\ ApplyRelation(set, t, "equals") = (Classes(q) = Classes(r))

Before(c) == SubSeq(ItemsOf(c.set), 1, c.position)
After(c) == SubSeq(ItemsOf(c.set), c.position + 1, SizeOf(c.set))
\* An edit at a cursor touches one item beside it: what else was before it is
\* before it still, and what was after it after it.
CursorBeside ==
    gap # NoCursor =>
       /\ \A x \in Items : \A c \in {TryInsert(Now, x)} :
             c # Now => Before(c) = Append(Before(Now), x) /\ After(c) = After(Now)
       /\ gap > 0 => Before(DeletePrevious(Now)) = Front(Before(Now)) /\ After(DeletePrevious(Now)) = After(Now)
       /\ gap < SizeOf(set) => Before(DeleteNext(Now)) = Before(Now) /\ After(DeleteNext(Now)) = Tail(After(Now))
       /\ PeekPrevious(Now) = IF gap = 0 THEN <<>> ELSE <<Last(Before(Now))>>
       /\ PeekNext(Now) = IF gap = SizeOf(set) THEN <<>> ELSE <<Head(After(Now))>>
=============================================================================
