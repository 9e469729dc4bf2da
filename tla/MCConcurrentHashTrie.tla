------------------------- MODULE MCConcurrentHashTrie -------------------------
(***************************************************************************)
(* What ConcurrentHashTrie promises its callers, and the trie under small  *)
(* workloads that put the promise to the test: every call takes effect at  *)
(* one instant between its invocation and its return (linearizability), a  *)
(* snapshot view is one of those instants preserved for ever, and the      *)
(* structure the calls leave behind is a well-formed hash trie.            *)
(*                                                                         *)
(* A call's instant is not the same step in every behaviour: a descriptor  *)
(* deep in the trie may be committed after a snapshot by a helper that     *)
(* read the root before it.  So a monitor keeps, in cands, every           *)
(* sequential history consistent with the results returned so far, as a    *)
(* set of configurations; a result no history explains empties the set.    *)
(*                                                                         *)
(* In the workloads hashes have three chunks.  k1 and k2 part at the third *)
(* level, k3 has the hash of k1, k4 parts from them at the first level and *)
(* k5 at the second.                                                       *)
(***************************************************************************)
EXTENDS ConcurrentHashTrie, TLC

CONSTANTS k1, k2, k3, k4, k5, t1, t2, t3

VARIABLES
    cands,      \* the sequential configurations still possible
    frozen      \* main node of each indirection node a view has been seen to reach

monitored == <<vars, cands, frozen>>

-----------------------------------------------------------------------------
(* The sequential map.                                                     *)

NoEntries == [k \in Keys |-> NoValue]

\* A configuration: the map, the result of each pending call that has taken
\* effect, and the map each thread's view preserves.
Configuration(map, res, view) == [map |-> map, res |-> res, view |-> view]

Pairs(map) == {<<k, map[k]>> : k \in {x \in Keys : map[x] # NoValue}}

\* The sequential effect of a call on a map, with its result.
Effect(map, view, call) ==
    LET k == call.key
        old == map[k]
        here == old # NoValue
        To(new, ok, val) ==
            [map |-> [map EXCEPT ![k] = new],
             res |-> [changed |-> new # old, ok |-> ok, val |-> val, all |-> {}]]
        Same(ok, val, all) ==
            [map |-> map, res |-> [changed |-> FALSE, ok |-> ok, val |-> val, all |-> all]]
        sum == IF here THEN old + call.cmp ELSE call.val
        matches == here /\ old = call.cmp
    IN  CASE call.op = "SetItem" -> To(call.val, TRUE, NoValue)
          [] call.op = "TryAdd" -> To(IF here THEN old ELSE call.val, ~here, NoValue)
          [] call.op = "GetOrAdd" ->
               LET v == IF here THEN old ELSE call.val IN To(v, TRUE, v)
          [] call.op = "AddOrUpdate" -> To(sum, TRUE, sum)
          [] call.op = "TryUpdate" -> To(IF matches THEN call.val ELSE old, matches, NoValue)
          [] call.op = "TryRemove" -> To(NoValue, here, old)
          [] call.op = "TryGetValue" -> Same(here, old, {})
          [] call.op = "Snapshot" -> Same(TRUE, NoValue, {})
          [] call.op = "ViewTryGetValue" -> Same(view[k] # NoValue, view[k], {})
          [] call.op = "ViewEnumerate" -> Same(TRUE, NoValue, Pairs(view))
          [] call.op = "Clear" ->
               [map |-> NoEntries,
                res |-> [changed |-> map # NoEntries, ok |-> TRUE, val |-> NoValue, all |-> {}]]

\* Thread t's pending call takes effect in configuration c.
TakesEffect(c, t) ==
    LET call == th[t].call
        effect == Effect(c.map, c.view[t], call)
    IN  Configuration(effect.map, [c.res EXCEPT ![t] = effect.res],
                      IF call.op = "Snapshot" THEN [c.view EXCEPT ![t] = c.map] ELSE c.view)

Pending == {t \in Callers : th[t].pc # "idle"}

\* Any number of pending calls take effect, in any order.
Explained ==
    LET Grow[n \in 0 .. Cardinality(Pending)] ==
          IF n = 0 THEN cands
          ELSE Grow[n - 1] \cup
               {TakesEffect(p[1], p[2]) :
                  p \in {q \in Grow[n - 1] \X Pending : q[1].res[q[2]] = None}}
    IN  Grow[Cardinality(Pending)]

\* The result the code returned is the one the history gives.
Agrees(expected, res) ==
    /\ expected # None
    /\ expected.changed = res.changed
    /\ expected.ok = res.ok
    /\ expected.val = res.val
    /\ expected.all = {<<res.all[i].key, res.all[i].val>> : i \in DOMAIN res.all}
    /\ Cardinality(expected.all) = Len(res.all)

\* Thread t returned in this step: the histories that gave its call another
\* result, or no effect yet, are ruled out.
Returned(t) == Len(log'[t]) > Len(log[t])
Observe ==
    cands' = IF \A t \in Callers : ~Returned(t) THEN cands
             ELSE LET t == CHOOSE x \in Callers : Returned(x)
                  IN  {[c EXCEPT !.res[t] = None] :
                         c \in {d \in Explained : Agrees(d.res[t], Last(log'[t]))}}

-----------------------------------------------------------------------------
(* The tree a root denotes.                                                *)

\* The main node an indirection node denotes now.
Denotes(n) == IF main[n].kind = "D" THEN Selected(main[n]) ELSE main[n]

\* The indirection nodes a main node has branches to.
Children(m) ==
    IF m.kind # "C" THEN {}
    ELSE {[node |-> m.branches[c].id, chunk |-> c] :
            c \in {d \in DOMAIN m.branches : m.branches[d].kind = "I"}}

\* One level further down, where next gives the children of every node.
Below(next, places) ==
    UNION {{[node |-> x.node, path |-> Append(p.path, x.chunk)] : x \in next[p.node]} : p \in places}

\* The nodes reachable from node n, with the chunks that lead to them.
Reached(n, next) ==
    LET At[d \in 0 .. Levels + 1] ==
          IF d = 0 THEN {[node |-> n, path |-> <<>>]} ELSE Below(next, At[d - 1])
    IN  UNION {At[d] : d \in 0 .. Levels + 1}

\* Indirection nodes reachable from node n.
Places(n) == Reached(n, [x \in DOMAIN main |-> Children(Denotes(x))])

\* Entries held at a place, each with the chunks that lead to it.
EntriesAt(p) ==
    LET m == Denotes(p.node)
    IN  CASE m.kind = "T" -> IF m.entry = None THEN {} ELSE {[entry |-> m.entry, path |-> p.path]}
          [] m.kind = "L" -> {[entry |-> m.entries[i], path |-> p.path] : i \in DOMAIN m.entries}
          [] m.kind = "C" -> {[entry |-> m.branches[c], path |-> Append(p.path, c)] :
                                c \in {d \in DOMAIN m.branches : m.branches[d].kind = "S"}}

\* The root that _root denotes now.
CurrentRoot == IF root.kind = "RD" THEN SelectedRoot(root) ELSE root

Entries(n) == UNION {EntriesAt(p) : p \in Places(n)}
ContentOf(n) ==
    [k \in Keys |-> LET own == {x \in Entries(n) : x.entry.key = k}
                    IN  IF own = {} THEN NoValue ELSE (CHOOSE x \in own : TRUE).entry.val]

Views == {th[t].view : t \in Callers} \ {None}

\* Nodes reachable from a view through main nodes only, no descriptors.
SettledNodes(v) ==
    {p.node : p \in {q \in Reached(v.node.id, [x \in DOMAIN main |-> Children(main[x])]) :
                        main[q.node].kind # "D"}}

RecordFrozen ==
    frozen' = [n \in DOMAIN frozen \cup UNION {SettledNodes(v) : v \in Views}' |->
                 IF n \in DOMAIN frozen THEN frozen[n] ELSE main'[n]]

-----------------------------------------------------------------------------
MonitorInit ==
    /\ Init
    /\ cands = {Configuration(NoEntries, [t \in Callers |-> None], [t \in Callers |-> NoEntries])}
    /\ frozen = [n \in {} |-> EmptyCNode]

MonitorNext == Next /\ Observe /\ RecordFrozen

MonitorSpec == MonitorInit /\ [][MonitorNext]_monitored

-----------------------------------------------------------------------------
(* Correctness.                                                            *)

Kinds == {"C", "L", "T"}

BranchesPublished(m) ==
    m.kind = "C" => \A c \in DOMAIN m.branches :
                        m.branches[c].kind = "I" => m.branches[c].id \in DOMAIN main

Statuses == {"Undecided", "Committed", "Aborted"}

\* The shared fields hold objects of their declared types, and every object
\* reached from them is one that was published.
TypeOK ==
    /\ root.kind \in {"R", "RD"}
    /\ CurrentRoot.node.id \in DOMAIN main
    /\ \A n \in DOMAIN main :
         \/ main[n].kind \in Kinds /\ BranchesPublished(main[n])
         \/ /\ main[n].kind = "D"
            /\ main[n].id \in DOMAIN status
            /\ BranchesPublished(main[n].before) /\ BranchesPublished(main[n].after)
    /\ \A d \in DOMAIN status : status[d] \in Statuses
    /\ revision \in Nat
    /\ live \in BOOLEAN

\* In CHAMP order, two keys of a map are ordered where their hashes part: a
\* key alone in its partition comes before one that shares it, otherwise the
\* lower chunk comes first.  Keys of equal hash keep their bucket order.
ChampPrecedes(k, j, keys) ==
    LET h == Hash[k]
        g == Hash[j]
        d == SplitLevel(h, g, 1)
        Shares(x) == \E y \in keys \ {x} : SubSeq(Hash[y], 1, d) = SubSeq(Hash[x], 1, d)
    IN  h # g => \/ ~Shares(k) /\ Shares(j)
                 \/ (Shares(k) <=> Shares(j)) /\ h[d] < g[d]

\* A view enumerates in canonical CHAMP order, also when frozen tombs hide
\* singletons below the level they belong to.
EnumerationCanonical ==
    \A t \in Threads : \A i \in DOMAIN log[t] :
        LET all == log[t][i].all
        IN  \A x, y \in DOMAIN all :
              x < y => ChampPrecedes(all[x].key, all[y].key, {all[z].key : z \in DOMAIN all})

\* Every result the trie has returned is explained by one sequential history
\* in which each call takes effect between its invocation and its return,
\* each view shows the map as it was when its snapshot took effect, and what a
\* view enumerates comes in the one order of its contents.
Linearizable == cands # {} /\ EnumerationCanonical

\* When every call has returned, the trie holds exactly the map one of those
\* histories ends with: no update is lost and none is applied twice.
QuiescentContent ==
    Quiescent => \E c \in cands : c.map = ContentOf(CurrentRoot.node.id)

\* What ValidateStructureForTesting demands holds in every state, also between
\* two accesses of a call: the root holds no tomb, a tomb holds an entry, a
\* collision node at least two entries of one hash and no key twice, a
\* non-root C-node more than one singleton, every entry lies in its hash
\* partition, and no indirection node occurs twice.
WellFormed ==
    LET top == CurrentRoot.node.id
        places == Places(top)
    IN  /\ CurrentRoot.node.gen = CurrentRoot.id
        /\ \A p, q \in places : p.node = q.node => p = q
        /\ \A p \in places :
             LET m == Denotes(p.node)
             IN  /\ m.kind = "T" => p.node # top /\ m.entry # None
                 /\ m.kind = "L" =>
                      /\ Len(m.entries) >= 2
                      /\ \A i, j \in DOMAIN m.entries :
                           /\ Hash[m.entries[i].key] = Hash[m.entries[j].key]
                           /\ m.entries[i].key = m.entries[j].key => i = j
                 /\ m.kind = "C" /\ p.node # top =>
                      /\ DOMAIN m.branches # {}
                      /\ Cardinality(DOMAIN m.branches) = 1 =>
                           \A c \in DOMAIN m.branches : m.branches[c].kind = "I"
        /\ \A x \in Entries(top) : SubSeq(Hash[x.entry.key], 1, Len(x.path)) = x.path

\* A removal does not return before the tombs on its path are gone, so no
\* tomb outlives the calls that were running when it was made.
QuiescentNoTombs ==
    Quiescent => \A p \in Places(CurrentRoot.node.id) : Denotes(p.node).kind # "T"

\* A view keeps what it held when its snapshot took effect: once it has reached
\* an indirection node that holds a main node, the node denotes that main node
\* for ever, and a descriptor a late writer puts there is never committed.
FrozenViews ==
    \A n \in DOMAIN frozen :
        \/ main[n] = frozen[n]
        \/ /\ main[n].kind = "D"
           /\ main[n].before = frozen[n]
           /\ status[main[n].id] # "Committed"

ChangedCalls(t) == Cardinality({i \in DOMAIN log[t] : log[t][i].changed})

\* When every call has returned, _revision is the number of calls that
\* changed the content since CreateRange returned.
RevisionExact ==
    Quiescent => revision = MapThenSumSet(ChangedCalls, Threads)

\* When every call has returned, the trie holds exactly the map that one of the
\* sequential histories ends with: no update is lost and none applied twice; no
\* tomb outlives the removals that made it, and the revision has counted every
\* call that changed the content.
QuiescentExact == QuiescentContent /\ QuiescentNoTombs /\ RevisionExact

-----------------------------------------------------------------------------
(* Workloads.                                                              *)

MCHash ==
    [k \in Keys |-> CASE k = k1 -> <<0, 0, 0>>
                      [] k = k2 -> <<0, 0, 1>>
                      [] k = k3 -> <<0, 0, 0>>
                      [] k = k4 -> <<1, 0, 0>>
                      [] k = k5 -> <<0, 1, 0>>]

SetItem(k, v) == Call("SetItem", k, v, 0)
TryAdd(k, v) == Call("TryAdd", k, v, 0)
GetOrAdd(k, v) == Call("GetOrAdd", k, v, 0)
AddOrUpdate(k, v, delta) == Call("AddOrUpdate", k, v, delta)
TryUpdate(k, v, cmp) == Call("TryUpdate", k, v, cmp)
TryRemove(k) == Call("TryRemove", k, 0, 0)
TryGetValue(k) == Call("TryGetValue", k, 0, 0)
ViewTryGetValue(k) == Call("ViewTryGetValue", k, 0, 0)
Clear == Call("Clear", k1, 0, 0)
Snapshot == Call("Snapshot", k1, 0, 0)
ViewEnumerate == Call("ViewEnumerate", k1, 0, 0)

\* A workload of three threads, and one in which the third has nothing to do.
Workload3(load, first, second, third) ==
    [load |-> load, run |-> (t1 :> first @@ t2 :> second @@ t3 :> third)]
Workload(load, first, second) == Workload3(load, first, second, <<>>)

Load(keys) == [i \in DOMAIN keys |-> SetItem(keys[i], i)]

\* Updates against updates: contraction meets insertion below the same node,
\* a singleton or a collision node is split while it changes, counters race,
\* and the whole trie is cleared under a writer.
UpdateScripts ==
    { Workload(Load(<<k1, k2>>), <<TryRemove(k2), TryGetValue(k1)>>, <<SetItem(k3, 5), TryRemove(k1)>>),
      Workload(Load(<<k1, k3>>), <<TryRemove(k3), TryAdd(k5, 6)>>, <<TryAdd(k2, 7), TryRemove(k1)>>),
      Workload(Load(<<k1>>), <<AddOrUpdate(k1, 1, 1), AddOrUpdate(k4, 1, 1)>>,
               <<AddOrUpdate(k1, 1, 1), AddOrUpdate(k4, 1, 0)>>),
      Workload(Load(<<k1, k5>>), <<Clear, GetOrAdd(k1, 8)>>, <<SetItem(k5, 9), Clear>>),
      Workload(Load(<<k1, k2, k5>>), <<TryUpdate(k2, 8, 2), TryRemove(k2)>>,
               <<TryRemove(k5), TryUpdate(k2, 9, 8)>>),
      Workload(<<>>, <<TryAdd(k1, 1), TryRemove(k1), TryUpdate(k1, 1, 1)>>,
               <<TryAdd(k3, 2), SetItem(k3, 2), TryUpdate(k3, 2, 2)>>),
      Workload(Load(<<k1, k3, k2>>), <<TryRemove(k1), SetItem(k3, 7)>>,
               <<TryRemove(k3), GetOrAdd(k2, 9)>>) }

\* Snapshots against updates: a view is taken while a descriptor is being
\* installed, and the first update after it renews the path.
SnapshotScripts ==
    { Workload(Load(<<k1, k2, k4>>), <<AddOrUpdate(k1, 1, 5), TryRemove(k2)>>,
               <<Snapshot, ViewEnumerate, ViewTryGetValue(k1)>>),
      Workload(Load(<<k1, k5>>), <<Snapshot, TryRemove(k5), ViewEnumerate>>,
               <<Snapshot, SetItem(k1, 7), ViewTryGetValue(k1)>>),
      Workload(Load(<<k1, k3, k5>>), <<TryRemove(k3), TryAdd(k2, 8)>>,
               <<Snapshot, ViewEnumerate, TryGetValue(k3)>>),
      Workload(Load(<<k4, k1>>), <<Clear, TryAdd(k2, 6)>>, <<Snapshot, TryGetValue(k2), ViewEnumerate>>),
      Workload(Load(<<k1, k2>>), <<TryRemove(k2), Snapshot, ViewEnumerate>>,
               <<Snapshot, ViewTryGetValue(k2), ViewEnumerate>>) }

\* A writer, a helper and a snapshot: the helper may have read the root
\* before the snapshot and decide the writer's descriptor after it.
HelperScripts ==
    { Workload3(Load(<<k1, k5>>), <<SetItem(k1, 7)>>, <<TryGetValue(k1)>>, <<Snapshot, ViewTryGetValue(k1)>>),
      Workload3(Load(<<k1>>), <<SetItem(k1, 7)>>, <<Clear>>, <<Snapshot, ViewTryGetValue(k1)>>),
      Workload3(Load(<<k5>>), <<TryRemove(k5)>>, <<TryAdd(k5, 7)>>, <<Snapshot, ViewTryGetValue(k5)>>) }

\* A running thread against one that may stop anywhere.
StallScripts ==
    { Workload(Load(<<k1, k5>>), <<TryRemove(k5)>>, <<SetItem(k1, 7), Snapshot>>),
      Workload(Load(<<k1, k5>>), <<Snapshot, SetItem(k5, 8)>>, <<TryRemove(k1), TryGetValue(k5)>>),
      Workload(Load(<<k1, k3>>), <<TryAdd(k2, 9)>>, <<Snapshot, Clear>>),
      Workload(Load(<<k1>>), <<Clear, Snapshot>>, <<Clear, Snapshot>>),
      Workload(Load(<<k1, k2, k3, k4>>), <<TryRemove(k2)>>,
               <<Snapshot, ViewEnumerate, TryGetValue(k3)>>) }
\* Progress is asked for without the monitor.
UnwatchedInit == Init /\ cands = {} /\ frozen = <<>>
UnwatchedSpec == UnwatchedInit /\ [][Next /\ UNCHANGED <<cands, frozen>>]_monitored /\ Fairness

Every == UpdateScripts \cup SnapshotScripts \cup HelperScripts
===============================================================================
