------------------------- MODULE PrioritySearchQueue -------------------------
(***************************************************************************)
(* The priority search queue of priority_search_queue.c: a height-balanced *)
(* tree by key in which every node also knows the winner of its subtree,   *)
(* the entry of least priority and, among those, least key.  Walks have a  *)
(* stack whose size is fixed from the height.  A call leaves its result in *)
(* an empty handle or in place of its source.                              *)
(***************************************************************************)
EXTENDS Integers, SequencesExt

CONSTANTS Keys, Priorities,  \* numbers
          Values,
          Handles, Cursors, Unset,
          MaxArray           \* entries of the longest array handed over
VARIABLES queue, cur
vars == <<queue, cur>>

Held == {h \in Handles : queue[h] # Unset}
Open == {c \in Cursors : cur[c] # Unset}
Entries == [key : Keys, priority : Priorities, value : Values]

-----------------------------------------------------------------------------
\* The tree.

Null == [count |-> 0, height |-> 0]
Before(e, f) == e.priority < f.priority \/ (e.priority = f.priority /\ e.key < f.key)
SelectWinner(entry, left, right) ==
    LET best == IF left # Null /\ Before(left.winner, entry) THEN left.winner ELSE entry
    IN  IF right # Null /\ Before(right.winner, best) THEN right.winner ELSE best
Node(entry, left, right) ==
    [entry |-> entry, winner |-> SelectWinner(entry, left, right), left |-> left, right |-> right,
     count |-> left.count + right.count + 1, height |-> Max({left.height, right.height}) + 1]

\* A tall side is lifted by a single rotation, whichever of its sides is tall.
SingleRotation(entry, left, right) ==
    IF left.height > right.height + 1 THEN Node(left.entry, left.left, Node(entry, left.right, right))
    ELSE IF right.height > left.height + 1 THEN Node(right.entry, Node(entry, left, right.left), right.right)
    ELSE Node(entry, left, right)

BalanceCreate(entry, left, right) ==
    IF left.height > right.height + 1
    THEN IF left.left.height >= left.right.height
         THEN Node(left.entry, left.left, Node(entry, left.right, right))
         ELSE Node(left.right.entry, Node(left.entry, left.left, left.right.left),
                                     Node(entry, left.right.right, right))
    ELSE IF right.height > left.height + 1
    THEN IF right.right.height >= right.left.height
         THEN Node(right.entry, Node(entry, left, right.left), right.right)
         ELSE Node(right.left.entry, Node(entry, left, right.left.left),
                                     Node(right.entry, right.left.right, right.right))
    ELSE Node(entry, left, right)

\* The stored key outlives a new priority and value.  The same tree comes back
\* when nothing changes.
RECURSIVE SetNode(_, _, _)
SetNode(t, e, overwrite) ==
    IF t = Null THEN Node(e, Null, Null)
    ELSE IF e.key = t.entry.key THEN IF overwrite THEN Node(e, t.left, t.right) ELSE t
    ELSE BalanceCreate(t.entry, IF e.key < t.entry.key THEN SetNode(t.left, e, overwrite) ELSE t.left,
                       IF e.key > t.entry.key THEN SetNode(t.right, e, overwrite) ELSE t.right)

RECURSIVE LeastNode(_)
LeastNode(t) == IF t.left = Null THEN t.entry ELSE LeastNode(t.left)
RECURSIVE RemoveMinNode(_)
RemoveMinNode(t) == IF t.left = Null THEN t.right ELSE BalanceCreate(t.entry, RemoveMinNode(t.left), t.right)

RECURSIVE RemoveNode(_, _)
RemoveNode(t, k) ==
    IF t = Null THEN Null
    ELSE IF k = t.entry.key /\ Null \in {t.left, t.right} THEN IF t.left = Null THEN t.right ELSE t.left
    ELSE BalanceCreate(IF k = t.entry.key THEN LeastNode(t.right) ELSE t.entry,
                       IF k < t.entry.key THEN RemoveNode(t.left, k) ELSE t.left,
                       CASE k < t.entry.key -> t.right
                         [] k = t.entry.key -> RemoveMinNode(t.right)
                         [] k > t.entry.key -> RemoveNode(t.right, k))

RECURSIVE FindNode(_, _)
FindNode(t, k) ==
    IF t = Null THEN Null ELSE IF k = t.entry.key THEN t
    ELSE FindNode(IF k < t.entry.key THEN t.left ELSE t.right, k)
TryGetMinimum(t) == IF t = Null THEN Unset ELSE t.winner
FromArrayResult(q) == FoldLeft(LAMBDA t, e : SetNode(t, e, TRUE), Null, q)

-----------------------------------------------------------------------------
\* Walks.  The stack of each holds no more nodes than its room; Unset when it would.

RECURSIVE InOrder(_, _, _, _)
InOrder(node, stack, seen, room) ==
    IF node # Null
    THEN IF Len(stack) = room THEN Unset ELSE InOrder(node.left, Append(stack, node), seen, room)
    ELSE IF stack = <<>> THEN seen
    ELSE LET top == stack[Len(stack)]
         IN  InOrder(top.right, SubSeq(stack, 1, Len(stack) - 1), Append(seen, top.entry), room)
Visit(t) == InOrder(t, <<>>, <<>>, t.height)

\* The frames of a node, last first: the side below, the node, the side above.
QueryFrames(node, low, high, most) ==
    (IF node.entry.key < high /\ node.right # Null THEN <<[node |-> node.right, emit |-> FALSE]>> ELSE <<>>)
    \o (IF low <= node.entry.key /\ node.entry.key <= high /\ node.entry.priority <= most
        THEN <<[node |-> node, emit |-> TRUE]>> ELSE <<>>)
    \o (IF node.entry.key > low /\ node.left # Null THEN <<[node |-> node.left, emit |-> FALSE]>> ELSE <<>>)
RECURSIVE QueryWalk(_, _, _, _, _, _)
QueryWalk(stack, seen, low, high, most, room) ==
    IF Len(stack) > room THEN Unset ELSE IF stack = <<>> THEN seen
    ELSE LET top == stack[Len(stack)]
             rest == SubSeq(stack, 1, Len(stack) - 1)
         IN  IF top.emit THEN QueryWalk(rest, Append(seen, top.node.entry), low, high, most, room)
             ELSE IF top.node.winner.priority > most THEN QueryWalk(rest, seen, low, high, most, room)
             ELSE QueryWalk(rest \o QueryFrames(top.node, low, high, most), seen, low, high, most, room)
VisitAtMost(t, low, high, most) ==
    IF low > high THEN Unset ELSE IF t = Null THEN <<>>
    ELSE QueryWalk(<<[node |-> t, emit |-> FALSE]>>, <<>>, low, high, most, 2 * t.height + 1)

\* The audit's walk, with the keys a node must lie between.
RECURSIVE ValidNode(_, _, _)
ValidNode(t, lower, upper) ==
    t # Null =>
       /\ lower # Unset => t.entry.key > lower
       /\ upper # Unset => t.entry.key < upper
       /\ t.count = t.left.count + t.right.count + 1
       /\ t.height = Max({t.left.height, t.right.height}) + 1
       /\ t.left.height - t.right.height \in -1..1
       /\ t.winner = SelectWinner(t.entry, t.left, t.right)
       /\ ValidNode(t.left, lower, t.entry.key) /\ ValidNode(t.right, t.entry.key, upper)
Validate(t) == ValidNode(t, Unset, Unset)

-----------------------------------------------------------------------------
\* Calls on queues.

Put(s, h, t) ==
    /\ s \in Held /\ (h = s \/ h \notin Held)
    /\ queue' = [queue EXCEPT ![h] = t] /\ UNCHANGED cur
QueueInit(h) == h \notin Held /\ queue' = [queue EXCEPT ![h] = Null] /\ UNCHANGED cur
FromArray(h, q) == h \notin Held /\ queue' = [queue EXCEPT ![h] = FromArrayResult(q)] /\ UNCHANGED cur
QueueCopy(s, h) == s \in Held /\ h \notin Held /\ Put(s, h, queue[s])
QueueMove(s, h) ==
    s \in Held /\ h \notin Held /\ queue' = [queue EXCEPT ![h] = queue[s], ![s] = Unset] /\ UNCHANGED cur
QueueDispose(h) == h \in Held /\ queue' = [queue EXCEPT ![h] = Unset] /\ UNCHANGED cur
SetEntry(s, h, e) == s \in Held /\ Put(s, h, SetNode(queue[s], e, TRUE))
TryAdd(s, h, e) == s \in Held /\ Put(s, h, SetNode(queue[s], e, FALSE))
RemoveKey(s, h, k) == s \in Held /\ Put(s, h, RemoveNode(queue[s], k))
TryRemove(s, h, k) == s \in Held /\ FindNode(queue[s], k) # Null /\ Put(s, h, RemoveNode(queue[s], k))
DeleteMinimum(s, h) == s \in Held /\ queue[s] # Null /\ TryRemove(s, h, queue[s].winner.key)
TryDeleteMinimum(s, h) ==
    s \in Held /\ IF queue[s] = Null THEN Put(s, h, queue[s]) ELSE TryRemove(s, h, queue[s].winner.key)

-----------------------------------------------------------------------------
\* Calls on cursors.  A cursor is a queue and a place between two of its keys.

RECURSIVE CursorBound(_, _, _)
CursorBound(t, k, upper) ==
    IF t = Null THEN 0
    ELSE IF k = t.entry.key THEN t.left.count + (IF upper THEN 1 ELSE 0)
    ELSE IF k < t.entry.key THEN CursorBound(t.left, k, upper)
    ELSE t.left.count + 1 + CursorBound(t.right, k, upper)
RECURSIVE CursorNodeAt(_, _)
CursorNodeAt(t, position) ==
    IF t = Null THEN Null
    ELSE IF position < t.left.count THEN CursorNodeAt(t.left, position)
    ELSE IF position = t.left.count THEN t
    ELSE CursorNodeAt(t.right, position - t.left.count - 1)
EntryOf(t) == IF t = Null THEN Unset ELSE t.entry
PeekPrevious(c) == IF c.position = 0 THEN Unset ELSE EntryOf(CursorNodeAt(c.queue, c.position - 1))
PeekNext(c) == EntryOf(CursorNodeAt(c.queue, c.position))

Stage(t, position) == [queue |-> t, position |-> position]

\* A new entry is behind the cursor, a replaced one in front of it.
SetOrInsert(c, e) ==
    LET position == CursorBound(c.queue, e.key, FALSE)
    IN  Stage(SetNode(c.queue, e, TRUE), IF FindNode(c.queue, e.key) = Null THEN position + 1 ELSE position)

Publish(s, d, c) ==
    /\ s \in Open /\ (d = s \/ d \notin Open)
    /\ cur' = [cur EXCEPT ![d] = c] /\ UNCHANGED queue
GetCursor(h, d, position) ==
    /\ h \in Held /\ d \notin Open /\ position <= queue[h].count
    /\ cur' = [cur EXCEPT ![d] = Stage(queue[h], position)] /\ UNCHANGED queue
GetBoundCursor(h, d, k, upper) == h \in Held /\ GetCursor(h, d, CursorBound(queue[h], k, upper))
GetCursorAtMinimum(h, d) ==
    /\ h \in Held
    /\ GetCursor(h, d, IF queue[h] = Null THEN 0 ELSE CursorBound(queue[h], queue[h].winner.key, FALSE))
CursorCopy(s, d) == s \in Open /\ d \notin Open /\ Publish(s, d, cur[s])
CursorMove(s, d) ==
    s \in Open /\ d \notin Open /\ cur' = [cur EXCEPT ![d] = cur[s], ![s] = Unset] /\ UNCHANGED queue
CursorDispose(d) == d \in Open /\ cur' = [cur EXCEPT ![d] = Unset] /\ UNCHANGED queue
SeekRank(s, d, position) ==
    s \in Open /\ position <= cur[s].queue.count /\ Publish(s, d, Stage(cur[s].queue, position))
MovePrevious(s, d) == s \in Open /\ cur[s].position > 0 /\ SeekRank(s, d, cur[s].position - 1)
MoveNext(s, d) == s \in Open /\ cur[s].position < cur[s].queue.count /\ SeekRank(s, d, cur[s].position + 1)
\* Refused when the key is there; the cursor stays as it is.
CursorInsert(s, d, e) ==
    s \in Open /\ FindNode(cur[s].queue, e.key) = Null /\ Publish(s, d, SetOrInsert(cur[s], e))
CursorSetItem(s, d, e) == s \in Open /\ Publish(s, d, SetOrInsert(cur[s], e))
CursorSetNext(s, d, p, v) ==
    /\ s \in Open
    /\ \E t \in {CursorNodeAt(cur[s].queue, cur[s].position)} :
          /\ t # Null
          /\ Publish(s, d, Stage(SetNode(cur[s].queue, [key |-> t.entry.key, priority |-> p, value |-> v], TRUE),
                                 cur[s].position))
DeleteAt(c, rank, position) == Stage(RemoveNode(c.queue, CursorNodeAt(c.queue, rank).entry.key), position)
DeletePrevious(s, d) ==
    s \in Open /\ cur[s].position > 0 /\ Publish(s, d, DeleteAt(cur[s], cur[s].position - 1, cur[s].position - 1))
DeleteNext(s, d) ==
    /\ s \in Open /\ cur[s].position < cur[s].queue.count
    /\ Publish(s, d, DeleteAt(cur[s], cur[s].position, cur[s].position))
Snapshot(c, h) == c \in Open /\ h \notin Held /\ queue' = [queue EXCEPT ![h] = cur[c].queue] /\ UNCHANGED cur

-----------------------------------------------------------------------------
Init == queue = [h \in Handles |-> Unset] /\ cur = [c \in Cursors |-> Unset]

Next ==
    \/ \E h \in Handles : \/ QueueInit(h) \/ QueueDispose(h)
                          \/ \E n \in 0..MaxArray : \E q \in [1..n -> Entries] : FromArray(h, q)
    \/ \E s, h \in Handles :
          \/ QueueCopy(s, h) \/ QueueMove(s, h) \/ DeleteMinimum(s, h) \/ TryDeleteMinimum(s, h)
          \/ \E e \in Entries : SetEntry(s, h, e) \/ TryAdd(s, h, e)
          \/ \E k \in Keys : RemoveKey(s, h, k) \/ TryRemove(s, h, k)
    \/ \E h \in Handles, c \in Cursors :
          \/ Snapshot(c, h) \/ GetCursorAtMinimum(h, c)
          \/ \E n \in 0..Cardinality(Keys) : GetCursor(h, c, n)
          \/ \E k \in Keys, upper \in BOOLEAN : GetBoundCursor(h, c, k, upper)
    \/ \E s, d \in Cursors :
          \/ CursorCopy(s, d) \/ CursorMove(s, d) \/ MovePrevious(s, d) \/ MoveNext(s, d)
          \/ DeletePrevious(s, d) \/ DeleteNext(s, d)
          \/ \E n \in 0..Cardinality(Keys) : SeekRank(s, d, n)
          \/ \E e \in Entries : CursorInsert(s, d, e) \/ CursorSetItem(s, d, e)
          \/ \E p \in Priorities, v \in Values : CursorSetNext(s, d, p, v)
    \/ \E d \in Cursors : CursorDispose(d)

Spec == Init /\ [][Next]_vars

-----------------------------------------------------------------------------
Versions == {queue[h] : h \in Held} \cup {cur[c].queue : c \in Open}
Least(s) == CHOOSE e \in s : \A f \in s \ {e} : Before(e, f)

\* Every version stays balanced and ordered, with the right winner in each node,
\* and no rotation or removal loses one.
QueuesValid == \A t \in Versions : Validate(t)

\* The walks' stacks suffice; a walk shows all entries by key, a query exactly
\* those of its keys and priorities though it skips subtrees by their winner,
\* and the minimum is the least of all.
QueriesExact ==
    \A t \in Versions :
       LET all == Visit(t)
       IN  /\ all # Unset /\ Len(all) = t.count
           /\ \A i \in 2..Len(all) : all[i - 1].key < all[i].key
           /\ TryGetMinimum(t) = (IF all = <<>> THEN Unset ELSE Least(ToSet(all)))
           /\ \A low \in Keys, high \in Keys, most \in Priorities :
                 low <= high => VisitAtMost(t, low, high, most) =
                     SelectSeq(all, LAMBDA e : low <= e.key /\ e.key <= high /\ e.priority <= most)

\* A cursor knows the entries beside it, and edits leave it beside the entry they
\* were about: behind a new one, in front of a replaced one.
CursorStaysBeside ==
    \A c \in {cur[d] : d \in Open} :
       LET all == Visit(c.queue)
       IN  /\ c.position <= c.queue.count
           /\ PeekPrevious(c) = (IF c.position = 0 THEN Unset ELSE all[c.position])
           /\ PeekNext(c) = (IF c.position = Len(all) THEN Unset ELSE all[c.position + 1])
           /\ \A e \in Entries :
                 LET m == SetOrInsert(c, e)
                 IN  IF \E i \in DOMAIN all : all[i].key = e.key THEN PeekNext(m) = e ELSE PeekPrevious(m) = e

ContentOf(t) == ToSet(Visit(t))

\* An entry put for a key replaces the one it had, an entry added only if its key
\* is new leaves the queue untouched otherwise, and a removal takes its own key.
CallsExact ==
    \A t \in Versions : \A old \in {ContentOf(t)} :
       /\ \A e \in Entries : \A others \in {{f \in old : f.key # e.key}} :
             /\ ContentOf(SetNode(t, e, TRUE)) = others \cup {e}
             /\ ContentOf(SetNode(t, e, FALSE)) = IF others = old THEN old \cup {e} ELSE old
       /\ \A k \in Keys : ContentOf(RemoveNode(t, k)) = {f \in old : f.key # k}

Derivable(now, new) ==
    \/ new \in now \cup {{}}
    \/ \E old \in now :
          \/ \E e \in Entries : new = {f \in old : f.key # e.key} \cup {e}
          \/ \E k \in Keys : new = {f \in old : f.key # k}
Touched(s, t, x) == \A y \in DOMAIN s \ {x} : t[y] = s[y]
Moved(s, t, x) == \E y \in DOMAIN s \ {x} : s[y] # Unset /\ t = [s EXCEPT ![x] = s[y], ![y] = Unset]

\* A call writes one queue or cursor: an entry is put for its key or taken out
\* from a version there was, and every other version stays as it was.
QueueKeepsPromise ==
    \E q \in {queue}, r \in {queue'}, c \in {cur}, d \in {cur'} :
       LET now == {ContentOf(q[h]) : h \in Held} \cup {ContentOf(c[x].queue) : x \in Open}
       IN  \/ c = d /\ \E h \in Handles :
                 \/ Moved(q, r, h)
                 \/ /\ Touched(q, r, h)
                    /\ r[h] # Unset => Derivable(now, ContentOf(r[h])) \/ Cardinality(ContentOf(r[h])) <= MaxArray
           \/ q = r /\ \E x \in Cursors :
                 \/ Moved(c, d, x)
                 \/ Touched(c, d, x) /\ (d[x] # Unset => Derivable(now, ContentOf(d[x].queue)))
=============================================================================
