-------------------------------- MODULE Hamt --------------------------------
(***************************************************************************)
(* The CHAMP-backed persistent hash map of src/src/C/Hamt/src/hamt.c: the  *)
(* trie of leaf, collision and bitmap nodes, its update, removal and       *)
(* combination algorithms, its structural difference and enumeration, and  *)
(* the handles through which a caller holds versions.                      *)
(*                                                                         *)
(* A node is a value.  A bitmap node's two compact arrays are functions    *)
(* whose domains are data_map and node_map, so the popcount addressing of  *)
(* the arrays is abstracted.  Pointer identity of nodes is abstracted to   *)
(* equality of values where the code only uses it to keep a node it was    *)
(* given; where it takes a short cut on identical operands the flag        *)
(* `shared` says whether equal operands are the same node.                 *)
(***************************************************************************)
EXTENDS Naturals, Sequences, FiniteSets, SequencesExt, FiniteSetsExt, Functions, TLC

CONSTANTS
    Keys,      \* key pointers
    Class,     \* Class[k]: the class of k under the policy's key_equal
    Hash,      \* Hash[k]: the policy's hash
    Values,    \* value pointers
    Bits,      \* D7_HAMT_BITS_PER_LEVEL
    Width,     \* the width of a hash in bits
    Handles,   \* the caller's d7_hamt_map variables
    Foreign    \* what maps under another policy enumerate: keys that differ
               \* there may be equal here

HamtAssumption ==
    /\ Bits \in Nat \ {0} /\ Width \in Nat \ {0}
    /\ \A k \in Keys : Hash[k] \in 0..(2^Width - 1)
    /\ \A k, l \in Keys : Class[k] = Class[l] => Hash[k] = Hash[l]

VARIABLE map   \* map[h]: the version in h, or UnsetMap

UnsetMap == [root |-> [kind |-> "unset", count |-> 0], count |-> 0]
Slots == 0..(2^Bits - 1)

\* The policy's key_equal.
KeysEqual(k, l) == Class[k] = Class[l]
Entry(k, v) == [key |-> k, value |-> v]

-----------------------------------------------------------------------------
(* Nodes.                                                                  *)

Null == [kind |-> "null", count |-> 0]

Run(h, es) ==
    IF es = <<>> THEN Null
    ELSE [kind |-> IF Len(es) = 1 THEN "leaf" ELSE "collision",
          hash |-> h, entries |-> es, count |-> Len(es)]

Leaf(h, k, v) == Run(h, <<Entry(k, v)>>)

IsBitmap(n) == n.kind = "bitmap"

\* data[i] is the inline leaf of slot i, nodes[i] its child.
Bitmap(data, nodes) ==
    [kind |-> "bitmap", data |-> data, nodes |-> nodes,
     count |-> FoldFunction(LAMBDA n, acc : n.count + acc, Cardinality(DOMAIN data), nodes)]

Index(h, shift) == (h \div 2^shift) % 2^Bits
Without(f, i) == Restrict(f, DOMAIN f \ {i})

\* A rebuild that forgets that a lone collision child also replaces its branch.
BitmapRebuildKeepsCollision(data, nodes) ==
    IF DOMAIN data = {} /\ DOMAIN nodes = {} THEN Null
    ELSE IF Cardinality(DOMAIN data) = 1 /\ DOMAIN nodes = {}
         THEN data[CHOOSE i \in DOMAIN data : TRUE]
    ELSE Bitmap(data, nodes)

\* d7_hamt_bitmap_rebuild: the collapse that keeps a branch canonical.
BitmapRebuild(data, nodes) ==
    LET d == DOMAIN data
        c == DOMAIN nodes
    IN  IF d = {} /\ c = {} THEN Null
        ELSE IF Cardinality(d) = 1 /\ c = {} THEN data[CHOOSE i \in d : TRUE]
        ELSE IF d = {} /\ Cardinality(c) = 1 /\ ~IsBitmap(nodes[CHOOSE i \in c : TRUE])
             THEN nodes[CHOOSE i \in c : TRUE]
        ELSE Bitmap(data, nodes)

-----------------------------------------------------------------------------
(* Insertion.                                                              *)

RECURSIVE MergeHashNodes(_, _, _)
\* d7_hamt_merge_hash_nodes: a run and a new leaf that share the path so far.
\* Different hashes differ at some index below Width, so the guard of the code
\* against shift >= 32 is never taken.
MergeHashNodes(left, right, shift) ==
    LET i == Index(left.hash, shift)
        j == Index(right.hash, shift)
    IN  IF left.hash = right.hash THEN Run(left.hash, left.entries \o right.entries)
        ELSE IF i = j THEN Bitmap(<<>>, i :> MergeHashNodes(left, right, shift + Bits))
        ELSE IF left.kind = "leaf" THEN Bitmap((i :> left) @@ (j :> right), <<>>)
        ELSE Bitmap(j :> right, i :> left)

\* A selection says which value a present key gets, as a function of the
\* stored one, and which value an absent key gets.
\* d7_hamt_map_set and d7_hamt_map_try_add.
SetSelection(v, overwrite) ==
    [present |-> [old \in Values |-> IF overwrite THEN v ELSE old], absent |-> v]
\* d7_hamt_select_present_value, d7_hamt_select_added_value.
FactorySelection(operation, added, updated) ==
    [present |-> [old \in Values |-> IF operation = "get_or_add" THEN old ELSE updated],
     absent |-> added]

Position(es, k) == SelectInSeq(es, LAMBDA e : KeysEqual(e.key, k))

Outcome(n, added, selected) == [node |-> n, added |-> added, selected |-> selected]

\* The overwritten entry takes the new key pointer along with the new value.
UpdateRunTakesKey(run, k, sel) ==
    LET p == Position(run.entries, k)
        v == sel.present[run.entries[p].value]
    IN  IF p = 0
        THEN Outcome(Run(run.hash, Append(run.entries, Entry(k, sel.absent))), TRUE, sel.absent)
        ELSE Outcome([run EXCEPT !.entries[p] = Entry(k, v)], FALSE, v)

\* A key that is present keeps its stored pointer and its place in the run.
UpdateRun(run, k, sel) ==
    LET p == Position(run.entries, k)
        v == sel.present[run.entries[p].value]
    IN  IF p = 0
        THEN Outcome(Run(run.hash, Append(run.entries, Entry(k, sel.absent))), TRUE, sel.absent)
        ELSE Outcome([run EXCEPT !.entries[p].value = v], FALSE, v)

\* A run met on the way: same hash, update it; other hash, grow the trie.
UpdateHashNode(run, k, shift, sel) ==
    IF run.hash = Hash[k] THEN UpdateRun(run, k, sel)
    ELSE Outcome(MergeHashNodes(run, Leaf(Hash[k], k, sel.absent), shift), TRUE, sel.absent)

\* An inline entry that meets another key leaves data_map for node_map.
UpdateInline(n, i, k, shift, sel) ==
    LET With(up) == Outcome(IF up.added THEN Bitmap(Without(n.data, i), (i :> up.node) @@ n.nodes)
                            ELSE Bitmap((i :> up.node) @@ n.data, n.nodes),
                            up.added, up.selected)
    IN  With(UpdateHashNode(n.data[i], k, shift + Bits, sel))

RECURSIVE NodeUpdate(_, _, _, _)
\* d7_hamt_node_set and d7_hamt_node_factory_update descend alike.
NodeUpdate(n, k, shift, sel) ==
    LET i == Index(Hash[k], shift) IN
    IF ~IsBitmap(n) THEN UpdateHashNode(n, k, shift, sel)
    ELSE IF i \in DOMAIN n.data THEN UpdateInline(n, i, k, shift, sel)
    ELSE IF i \notin DOMAIN n.nodes
        THEN Outcome(Bitmap((i :> Leaf(Hash[k], k, sel.absent)) @@ n.data, n.nodes),
                     TRUE, sel.absent)
    ELSE
        LET With(up) == Outcome(Bitmap(n.data, (i :> up.node) @@ n.nodes), up.added, up.selected)
        IN  With(NodeUpdate(n.nodes[i], k, shift + Bits, sel))

\* The root of an empty map is the null node, and its first leaf hangs there.
RootUpdate(m, k, sel) ==
    LET With(up) == [map |-> [root |-> up.node, count |-> m.count + IF up.added THEN 1 ELSE 0],
                     added |-> up.added, selected |-> up.selected]
    IN  With(IF m.root = Null THEN Outcome(Leaf(Hash[k], k, sel.absent), TRUE, sel.absent)
             ELSE NodeUpdate(m.root, k, 0, sel))

-----------------------------------------------------------------------------
(* Removal.                                                                *)

RemoveFromRun(run, k) ==
    LET p == IF run.hash = Hash[k] THEN Position(run.entries, k) ELSE 0
    IN  IF p = 0 THEN [node |-> run, removed |-> FALSE]
        ELSE [node |-> Run(run.hash, RemoveAt(run.entries, p)), removed |-> TRUE]

RECURSIVE NodeRemove(_, _, _)
NodeRemove(n, k, shift) ==
    LET i == Index(Hash[k], shift) IN
    IF ~IsBitmap(n) THEN RemoveFromRun(n, k)
    ELSE IF i \in DOMAIN n.data THEN
        IF RemoveFromRun(n.data[i], k).removed
        THEN [node |-> BitmapRebuild(Without(n.data, i), n.nodes), removed |-> TRUE]
        ELSE [node |-> n, removed |-> FALSE]
    ELSE IF i \notin DOMAIN n.nodes THEN [node |-> n, removed |-> FALSE]
    ELSE
        LET rm == NodeRemove(n.nodes[i], k, shift + Bits)
        IN  [removed |-> rm.removed,
             node |-> IF ~rm.removed THEN n
                      ELSE IF rm.node = Null THEN BitmapRebuild(n.data, Without(n.nodes, i))
                      ELSE IF rm.node.kind = "leaf"
                           THEN BitmapRebuild((i :> rm.node) @@ n.data, Without(n.nodes, i))
                      ELSE BitmapRebuild(n.data, (i :> rm.node) @@ n.nodes)]

TryRemove(m, k) ==
    LET With(rm) == [root |-> rm.node, count |-> m.count - IF rm.removed THEN 1 ELSE 0]
    IN  With(IF m.root = Null THEN [node |-> Null, removed |-> FALSE] ELSE NodeRemove(m.root, k, 0))

-----------------------------------------------------------------------------
(* Union, intersection, difference and symmetric difference.               *)

Operations == {"union", "intersect", "except", "symmetric_except"}

\* d7_hamt_logical_slot: what a node holds below slot i at this depth.
LogicalSlot(n, i, shift) ==
    IF n = Null THEN Null
    ELSE IF ~IsBitmap(n) THEN IF Index(n.hash, shift) = i THEN n ELSE Null
    ELSE IF i \in DOMAIN n.data THEN n.data[i]
    ELSE IF i \in DOMAIN n.nodes THEN n.nodes[i]
    ELSE Null

\* d7_hamt_build_logical_node.  When the slots are those of the left operand
\* the code keeps the left node; rebuilding it yields the same value.
BuildLogicalNode(f) ==
    LET slots == f @@ <<>>
    IN  BitmapRebuild(Restrict(slots, {i \in Slots : slots[i].kind = "leaf"}),
                      Restrict(slots, {i \in Slots : slots[i].kind \in {"collision", "bitmap"}}))

\* Two runs of one hash: the keys of the left come first, in their order.
CombineEntries(left, right, op) ==
    LET Match(es, e) == Position(es, e.key)
        fromLeft ==
            CASE op = "union" ->
                   [i \in DOMAIN left |->
                      IF Match(right, left[i]) = 0 THEN left[i]
                      ELSE Entry(left[i].key, right[Match(right, left[i])].value)]
              [] op = "intersect" -> SelectSeq(left, LAMBDA e : Match(right, e) # 0)
              [] OTHER -> SelectSeq(left, LAMBDA e : Match(right, e) = 0)
        fromRight == IF op \in {"union", "symmetric_except"}
                     THEN SelectSeq(right, LAMBDA e : Match(left, e) = 0)
                     ELSE <<>>
    IN  fromLeft \o fromRight

RECURSIVE CombineHashNodes(_, _, _, _)
CombineHashNodes(left, right, shift, op) ==
    LET i == Index(left.hash, shift)
        j == Index(right.hash, shift)
    IN  IF left.hash = right.hash
        THEN Run(left.hash, CombineEntries(left.entries, right.entries, op))
        ELSE IF op = "intersect" THEN Null
        ELSE IF op = "except" THEN left
        ELSE BuildLogicalNode(
               [s \in Slots |->
                  IF i = j THEN IF s = i THEN CombineHashNodes(left, right, shift + Bits, op) ELSE Null
                  ELSE IF s = i THEN left ELSE IF s = j THEN right ELSE Null])

RECURSIVE CombineNodes(_, _, _, _, _)
CombineNodes(left, right, shift, op, shared) ==
    IF left = right /\ (shared \/ left = Null)
    THEN IF op \in {"union", "intersect"} THEN left ELSE Null
    ELSE IF left = Null THEN IF op \in {"union", "symmetric_except"} THEN right ELSE Null
    ELSE IF right = Null THEN IF op = "intersect" THEN Null ELSE left
    ELSE IF ~IsBitmap(left) /\ ~IsBitmap(right) THEN CombineHashNodes(left, right, shift, op)
    ELSE BuildLogicalNode(
           [i \in Slots |-> CombineNodes(LogicalSlot(left, i, shift), LogicalSlot(right, i, shift),
                                         shift + Bits, op, shared)])

-----------------------------------------------------------------------------
(* Enumeration and lookup.                                                 *)

Concat(f) ==
    LET upTo[i \in 0..2^Bits] == IF i = 0 THEN <<>> ELSE upTo[i - 1] \o f[i - 1]
    IN  upTo[2^Bits]

RECURSIVE Enumerate(_)
\* d7_hamt_map_iterator_next, run to its end: a branch yields its inline
\* entries in slot order and then descends into its children in slot order.
Enumerate(n) ==
    IF n = Null THEN <<>>
    ELSE IF ~IsBitmap(n) THEN n.entries
    ELSE Concat([i \in Slots |-> IF i \in DOMAIN n.data THEN n.data[i].entries ELSE <<>>])
         \o Concat([i \in Slots |-> IF i \in DOMAIN n.nodes THEN Enumerate(n.nodes[i]) ELSE <<>>])

Missing == [key |-> "none", value |-> "none"]

RECURSIVE TryGetEntry(_, _, _)
TryGetEntry(n, k, shift) ==
    LET i == Index(Hash[k], shift)
        InRun(run) == LET p == Position(run.entries, k)
                      IN  IF run.hash = Hash[k] /\ p # 0 THEN run.entries[p] ELSE Missing
    IN  IF n = Null THEN Missing
        ELSE IF ~IsBitmap(n) THEN InRun(n)
        ELSE IF i \in DOMAIN n.data THEN InRun(n.data[i])
        ELSE IF i \in DOMAIN n.nodes THEN TryGetEntry(n.nodes[i], k, shift + Bits)
        ELSE Missing

-----------------------------------------------------------------------------
(* Structural difference and equality.                                     *)

Difference(kind, k, before, after) ==
    [kind |-> kind, key |-> k, before |-> before, after |-> after]
Added(es) == [i \in DOMAIN es |-> Difference("added", es[i].key, "none", es[i].value)]
Dropped(es) == [i \in DOMAIN es |-> Difference("removed", es[i].key, es[i].value, "none")]

RECURSIVE AppendOperand(_)
\* d7_hamt_append_diff_operand: the entries below an operand, slot by slot.
AppendOperand(n) ==
    IF n = Null THEN <<>>
    ELSE IF ~IsBitmap(n) THEN n.entries
    ELSE Concat([i \in Slots |-> AppendOperand(LogicalSlot(n, i, 0))])

\* d7_hamt_diff_entry_runs: first the left run's losses and changes, in its order.
DiffEntryRuns(left, right) ==
    LET l == left.entries
        r == right.entries
        Same(e) == LET p == Position(r, e.key) IN p # 0 /\ r[p].value = e.value
        Before(e) == LET p == Position(r, e.key)
                     IN  IF p = 0 THEN Difference("removed", e.key, e.value, "none")
                         ELSE Difference("changed", e.key, e.value, r[p].value)
        changed == SelectSeq(l, LAMBDA e : ~Same(e))
    IN  IF left.hash # right.hash THEN Dropped(l) \o Added(r)
        ELSE [i \in DOMAIN changed |-> Before(changed[i])]
             \o Added(SelectSeq(r, LAMBDA e : Position(l, e.key) = 0))

RECURSIVE DiffOperands(_, _, _)
DiffOperands(left, right, shift) ==
    IF left = right THEN <<>>
    ELSE IF left = Null THEN Added(AppendOperand(right))
    ELSE IF right = Null THEN Dropped(AppendOperand(left))
    ELSE IF ~IsBitmap(left) /\ ~IsBitmap(right) THEN DiffEntryRuns(left, right)
    ELSE Concat([i \in Slots |-> DiffOperands(LogicalSlot(left, i, shift),
                                              LogicalSlot(right, i, shift), shift + Bits)])

RECURSIVE NodesEqual(_, _)
\* d7_hamt_nodes_equal: equality that trusts the canonical shape and compares
\* the entries of collision nodes in any order.
NodesEqual(left, right) ==
    \/ left = right
    \/ /\ left.kind = right.kind
       /\ IF IsBitmap(left)
          THEN /\ DOMAIN left.data = DOMAIN right.data
               /\ DOMAIN left.nodes = DOMAIN right.nodes
               /\ \A i \in DOMAIN left.data : NodesEqual(left.data[i], right.data[i])
               /\ \A i \in DOMAIN left.nodes : NodesEqual(left.nodes[i], right.nodes[i])
          ELSE /\ left.hash = right.hash /\ left.count = right.count
               /\ \A i \in DOMAIN left.entries : \E j \in DOMAIN right.entries :
                     /\ KeysEqual(left.entries[i].key, right.entries[j].key)
                     /\ left.entries[i].value = right.entries[j].value

-----------------------------------------------------------------------------
(* Maps: bulk updates, combination, and the relations of the set facade.   *)

Empty == [root |-> Null, count |-> 0]
Set(m, k, v) == RootUpdate(m, k, SetSelection(v, TRUE)).map
TryAdded(m, k, v) == RootUpdate(m, k, SetSelection(v, FALSE))
FactoryUpdated(m, k, operation, v, w) == RootUpdate(m, k, FactorySelection(operation, v, w))
\* d7_hamt_map_add: a rejected duplicate destroys a distinct result and keeps an
\* aliased one.
AddResult(m, k, v, aliased) ==
    LET With(up) == IF up.added \/ aliased THEN up.map ELSE Empty
    IN  With(TryAdded(m, k, v))
\* d7_hamt_map_set_many, d7_hamt_map_create_range and the set's union_many.
SetMany(m, items) == FoldLeft(LAMBDA acc, e : Set(acc, e.key, e.value), m, items)
ExceptMany(m, items) == FoldLeft(LAMBDA acc, e : TryRemove(acc, e.key), m, items)
ContainsKey(m, k) == TryGetEntry(m.root, k, 0) # Missing
\* A probe of the given items, then the entries of m that the probe contains.
IntersectMany(m, items) ==
    LET Within(probe) == SelectSeq(Enumerate(m.root), LAMBDA e : ContainsKey(probe, e.key))
    IN  SetMany(Empty, Within(SetMany(Empty, items)))
\* The items are deduplicated before they toggle.
SymmetricExceptMany(m, items) ==
    FoldLeft(LAMBDA acc, e : IF ContainsKey(acc, e.key) THEN TryRemove(acc, e.key)
                            ELSE Set(acc, e.key, e.value),
            m, Enumerate(SetMany(Empty, items).root))

\* d7_hamt_map_combine, of operands with compatible callbacks.
Combine(l, r, op, shared) ==
    LET Rooted(root) == [root |-> root, count |-> root.count]
    IN  Rooted(CombineNodes(l.root, r.root, 0, op, shared))

\* d7_hamt_map_combine: a right operand with other callbacks, of which only what
\* it enumerates counts, is first rebuilt under the policy of the left one.
CombineNormalized(l, items, op) == Combine(l, SetMany(Empty, items), op, FALSE)

ContainsAllOf(container, contained) ==
    \A e \in ToSet(Enumerate(contained.root)) : ContainsKey(container, e.key)

Relations == {"subset", "proper_subset", "superset", "proper_superset", "overlaps", "equals"}

\* d7_hamt_set_is_subset_of and its siblings decide by the counts of the
\* intersection and the union.
SetRelation(l, r, rel) ==
    LET Decide(inter, united) ==
          CASE rel = "subset" -> inter = l.count
            [] rel = "proper_subset" -> inter = l.count /\ united > l.count
            [] rel = "superset" -> united = l.count
            [] rel = "proper_superset" -> united = l.count /\ inter < l.count
            [] rel = "overlaps" -> inter # 0
            [] rel = "equals" -> inter = l.count /\ united = l.count
    IN  Decide(Combine(l, r, "intersect", TRUE).count, Combine(l, r, "union", TRUE).count)

\* d7_hamt_set_is_subset_of_many and its siblings count a deduplicated probe.
RelationMany(m, items, rel) ==
    LET Decide(probe) ==
          CASE rel = "subset" -> ContainsAllOf(probe, m)
            [] rel = "proper_subset" -> m.count < probe.count /\ ContainsAllOf(probe, m)
            [] rel = "superset" -> \A i \in DOMAIN items : ContainsKey(m, items[i].key)
            [] rel = "proper_superset" -> probe.count < m.count /\ ContainsAllOf(m, probe)
            [] rel = "overlaps" -> \E i \in DOMAIN items : ContainsKey(m, items[i].key)
            [] rel = "equals" -> m.count = probe.count /\ ContainsAllOf(probe, m)
    IN  Decide(SetMany(Empty, items))

-----------------------------------------------------------------------------
(* The caller's handles.  A call writes its result after the last step that *)
(* can fail, so one that fails is a stuttering step.                        *)

Held == {h \in Handles : map[h] # UnsetMap}

\* A call leaves its result in its own source or in a handle that holds nothing.
Targets(sources) == sources \cup (Handles \ Held)

Publish(h, m) == map' = [map EXCEPT ![h] = m]

Init == map = [h \in Handles |-> UnsetMap]

Create(h) == h \notin Held /\ Publish(h, Empty)

Clone(s, h) == s \in Held /\ h \notin Held /\ Publish(h, map[s])

Destroy(h) == h \in Held /\ Publish(h, UnsetMap)

SetEntry(s, k, v, h) ==
    /\ s \in Held /\ h \in Targets({s})
    /\ Publish(h, Set(map[s], k, v))

TryAdd(s, k, v, h) ==
    /\ s \in Held /\ h \in Targets({s})
    /\ Publish(h, TryAdded(map[s], k, v).map)

Add(s, k, v, h) ==
    /\ s \in Held /\ h \in Targets({s})
    /\ Publish(h, AddResult(map[s], k, v, h = s))

FactoryUpdate(s, k, operation, v, w, h) ==
    /\ s \in Held /\ h \in Targets({s})
    /\ Publish(h, FactoryUpdated(map[s], k, operation, v, w).map)

RemoveEntry(s, k, h) ==
    /\ s \in Held /\ h \in Targets({s})
    /\ Publish(h, TryRemove(map[s], k))

Clear(s, h) == s \in Held /\ h \in Targets({s}) /\ Publish(h, Empty)

CombineMaps(l, r, op, shared, h) ==
    /\ {l, r} \subseteq Held /\ h \in Targets({l, r})
    /\ Publish(h, Combine(map[l], map[r], op, shared))

CombineWithForeign(l, items, op, h) ==
    /\ l \in Held /\ h \in Targets({l})
    /\ Publish(h, CombineNormalized(map[l], items, op))

Next ==
    \/ \E h \in Handles : Create(h) \/ Destroy(h)
    \/ \E s, h \in Handles : Clone(s, h) \/ Clear(s, h)
    \/ \E s, h \in Handles, k \in Keys, v \in Values :
          SetEntry(s, k, v, h) \/ TryAdd(s, k, v, h) \/ Add(s, k, v, h)
    \/ \E s, h \in Handles, k \in Keys, v \in Values :
          \/ FactoryUpdate(s, k, "get_or_add", v, v, h)
          \/ \E w \in Values : FactoryUpdate(s, k, "add_or_update", v, w, h)
    \/ \E s, h \in Handles, k \in Keys : RemoveEntry(s, k, h)
    \/ \E l, r, h \in Handles, op \in Operations, shared \in BOOLEAN : CombineMaps(l, r, op, shared, h)
    \/ \E l, h \in Handles, op \in Operations, items \in Foreign : CombineWithForeign(l, items, op, h)

Spec == Init /\ [][Next]_map

-----------------------------------------------------------------------------
(* Properties.                                                             *)

Content(m) ==
    LET Keyed(es) == [c \in {Class[es[i].key] : i \in DOMAIN es} |->
                        es[CHOOSE i \in DOMAIN es : Class[es[i].key] = c]] @@ <<>>
    IN  Keyed(Enumerate(m.root))

RECURSIVE ValidateNode(_, _, _)
\* d7_hamt_debug_validate_node, with the hash prefix as a value and its depth.
ValidateNode(n, shift, prefix) ==
    LET HasPrefix(h, s, p) == h % 2^s = p IN
    IF n = Null THEN TRUE
    ELSE IF ~IsBitmap(n)
    THEN /\ HasPrefix(n.hash, shift, prefix) /\ n.count = Len(n.entries)
         /\ n.kind = "collision" => n.count >= 2
    ELSE /\ shift < Width
         /\ DOMAIN n.data \cap DOMAIN n.nodes = {}
         /\ \/ Cardinality(DOMAIN n.data \cup DOMAIN n.nodes) >= 2
            \/ DOMAIN n.data = {} /\ \E i \in DOMAIN n.nodes : IsBitmap(n.nodes[i])
         /\ \A i \in DOMAIN n.data :
               HasPrefix(n.data[i].hash, shift + Bits, prefix + i * 2^shift)
         /\ \A i \in DOMAIN n.nodes :
               /\ n.nodes[i].kind # "leaf" /\ n.nodes[i] # Null
               /\ ValidateNode(n.nodes[i], shift + Bits, prefix + i * 2^shift)
         /\ n.count = Bitmap(n.data, n.nodes).count

\* Every version stays canonical: inline entries and children sit on their
\* hash path, no branch could be collapsed, and the handle's count, which the
\* calls keep by adding and subtracting, is the number of entries.
Canonical ==
    \A h \in Held : /\ ValidateNode(map[h].root, 0, 0)
                    /\ map[h].count = Len(Enumerate(map[h].root))

\* The shape is a function of the contents, whatever sequence of updates,
\* removals and combinations built it: the equality of the code, which
\* compares shapes, decides equality of contents.
ShapeDecidesEquality ==
    \A g, h \in Held :
       NodesEqual(map[g].root, map[h].root)
         <=> \E a \in {Content(map[g])}, b \in {Content(map[h])} :
                DOMAIN a = DOMAIN b /\ \A c \in DOMAIN a : a[c].value = b[c].value

\* The reported difference of two versions is exact: one record for every key
\* that is added, removed or changed, and nothing else.
DiffExact ==
    \A g, h \in Held :
       \E a \in {Content(map[g])}, b \in {Content(map[h])}, d \in {DiffOperands(map[g].root, map[h].root, 0)} :
           /\ IsInjective([i \in DOMAIN d |-> Class[d[i].key]])
           /\ ToSet(d) =
                {Difference("removed", a[c].key, a[c].value, "none") : c \in DOMAIN a \ DOMAIN b}
                \cup {Difference("added", b[c].key, "none", b[c].value) : c \in DOMAIN b \ DOMAIN a}
                \cup {Difference("changed", a[c].key, a[c].value, b[c].value) :
                        c \in {x \in DOMAIN a \cap DOMAIN b : a[x].value # b[x].value}}

Holds(l, r, rel) ==
    CASE rel = "subset" -> l \subseteq r
      [] rel = "proper_subset" -> l \subseteq r /\ l # r
      [] rel = "superset" -> r \subseteq l
      [] rel = "proper_superset" -> r \subseteq l /\ l # r
      [] rel = "overlaps" -> l \cap r # {}
      [] rel = "equals" -> l = r

\* The set relations, which the code decides by counting structural
\* combinations, agree with the relations of the sets of key classes.
RelationsExact ==
    \A g, h \in Held, rel \in Relations :
       SetRelation(map[g], map[h], rel)
         <=> Holds(DOMAIN Content(map[g]), DOMAIN Content(map[h]), rel)

\* The bulk set operations and relations on an array of items, duplicates
\* included, do what the operations on the set of those items do.
BulkExact ==
    \A h \in Held : \A items \in {<<>>} \cup {<<Entry(k, v), Entry(l, v)>> : k, l \in Keys, v \in Values} :
       \E m \in {map[h]}, here \in {DOMAIN Content(map[h])}, given \in {{Class[items[i].key] : i \in DOMAIN items}} :
           /\ DOMAIN Content(SetMany(m, items)) = here \cup given
           /\ DOMAIN Content(ExceptMany(m, items)) = here \ given
           /\ DOMAIN Content(IntersectMany(m, items)) = here \cap given
           /\ DOMAIN Content(SymmetricExceptMany(m, items)) = (here \ given) \cup (given \ here)
           /\ \A rel \in Relations : RelationMany(m, items, rel) <=> Holds(here, given, rel)

\* A lookup finds exactly the stored entries, with the stored key pointer.
LookupFinds ==
    \A h \in Held, k \in Keys :
       \E a \in {Content(map[h])} :
           TryGetEntry(map[h].root, k, 0) = IF Class[k] \in DOMAIN a THEN a[Class[k]] ELSE Missing

\* The trie implements the persistent map, call by call: whatever version a call
\* starts from and whatever its key, its values and its other operand are, the
\* version it publishes is the one the promise gives for the same call with the
\* same arguments, and so are the `added` and `selected` it reports.
Promise == INSTANCE PersistentMap
Yields(up, k, had, promised) ==
    /\ Content(up.map) = promised /\ up.map.count = Cardinality(DOMAIN promised)
    /\ up.added = ~had
    /\ up.selected = promised[Class[k]].value

RefinesMap ==
    \A s \in Held : \E now \in {Content(map[s])} :
       /\ \A k \in Keys : Content(TryRemove(map[s], k)) = Promise!RemoveEntry(now, k)
       /\ \A k \in Keys, v \in Values :
             /\ Content(Set(map[s], k, v)) = Promise!SetEntry(now, k, v)
             /\ Yields(TryAdded(map[s], k, v), k, Promise!Has(now, k), Promise!TryAdd(now, k, v))
             /\ \A aliased \in BOOLEAN :
                   Content(AddResult(map[s], k, v, aliased)) = Promise!Add(now, k, v, aliased)
             /\ Yields(FactoryUpdated(map[s], k, "get_or_add", v, v), k, Promise!Has(now, k),
                       Promise!TryAdd(now, k, v))
             /\ \A w \in Values :
                   Yields(FactoryUpdated(map[s], k, "add_or_update", v, w), k, Promise!Has(now, k),
                          Promise!AddOrUpdate(now, k, v, w))
       /\ \A op \in Operations :
             /\ \A r \in Held, shared \in BOOLEAN :
                   Content(Combine(map[s], map[r], op, shared)) = Promise!Combine(now, Content(map[r]), op)
             /\ \A items \in Foreign :
                   Content(CombineNormalized(map[s], items, op))
                     = Promise!Combine(now, Promise!Gathered(items), op)
=============================================================================
