----------------------------- MODULE MerkleSync -----------------------------
(***************************************************************************)
(* How the trees of merkle_search_tree.c reach and leave a shared store of *)
(* blocks: saving, loading with verification, packs that travel, and the   *)
(* rounds by which a receiver asks a sender for what it lacks.  Each call  *)
(* of the store is one step, other users of the store come between, a      *)
(* process may stop after any step, and packs lose blocks or have them     *)
(* damaged on the way.                                                     *)
(***************************************************************************)
EXTENDS MerkleTree, FiniteSetsExt

CONSTANTS Trees,      \* what savers save and packs are made from
          Foreign,    \* roots whose digests are right but that are no trees
          Target,     \* what the receiver wants
          OtherPuts,  \* blocks that other users may put in the store
          Savers, Importers, Receivers,
          MaxFaults, MaxBlocks, MaxDepth, MaxEntryCount
VARIABLES store,      \* the blocks, each an address and its bytes
          task,       \* what each process is doing
          pack,       \* the pack on its way
          loaded,     \* the roots asked for and the trees handed to callers
          faults
vars == <<store, task, pack, loaded, faults>>

Procs == Savers \cup Importers \cup Receivers
Wire(t) == [digest |-> t, bytes |-> t]
Stored(d) == {b \in store : b.digest = d}
Present(d) == Stored(d) # {}
DigestsOf(blocks) == {b.digest : b \in blocks}
HasLoaded(root) == \E l \in loaded : l.root = root
\* A block's references.
ChildrenOf(bytes) == SelectSeq(bytes.children, LAMBDA c : c # Null)
Closure(s) == \A b \in s : \A i \in DOMAIN b.bytes.children :
                 b.bytes.children[i] # Null => \E c \in s : c.digest = b.bytes.children[i]

\* The blocks of a tree, a node before its children.
RECURSIVE CollectExport(_)
CollectExport(t) ==
    IF t = Null THEN <<>> ELSE FoldLeft(LAMBDA q, c : q \o CollectExport(c), <<Wire(t)>>, t.children)
\* Below a block that the receiver has, everything is taken to be there.
RECURSIVE CollectMissing(_)
CollectMissing(t) ==
    IF t = Null \/ Present(t) THEN <<>> ELSE FoldLeft(LAMBDA q, c : q \o CollectMissing(c), <<Wire(t)>>, t.children)

Idle == [op |-> "idle"]
Become(p, r) == task' = [task EXCEPT ![p] = r]

\* A put of other bytes at an address there is fails and changes nothing.
PutBlock(b) == IF Present(b.digest) THEN store ELSE store \cup {b}
Conflicts(b) == Present(b.digest) /\ b \notin store

-----------------------------------------------------------------------------
\* Writing blocks: all are looked up first, and only then put one by one.

Writing(phase, blocks, rest, result) == [op |-> phase, blocks |-> blocks, rest |-> rest, result |-> result]
Preflight(p) ==
    /\ task[p].op = "preflight" /\ UNCHANGED <<store, pack, loaded, faults>>
    /\ IF task[p].rest = <<>> THEN Become(p, Writing("put", task[p].blocks, task[p].blocks, task[p].result))
       ELSE IF Conflicts(Head(task[p].rest)) THEN Become(p, Idle)
       ELSE Become(p, [task[p] EXCEPT !.rest = Tail(@)])
PutStep(p) ==
    /\ task[p].op = "put" /\ UNCHANGED <<pack, faults>>
    /\ IF task[p].rest = <<>>
       THEN /\ Become(p, Idle) /\ UNCHANGED store
            /\ loaded' = IF task[p].result = Unset THEN loaded ELSE loaded \cup {task[p].result}
       ELSE /\ store' = PutBlock(Head(task[p].rest)) /\ UNCHANGED loaded
            /\ Become(p, IF Conflicts(Head(task[p].rest)) THEN Idle ELSE [task[p] EXCEPT !.rest = Tail(@)])
Save(p, t) ==
    /\ p \in Savers /\ task[p] = Idle /\ UNCHANGED <<store, pack, loaded, faults>>
    /\ Become(p, Writing("preflight", CollectExport(t), CollectExport(t), Unset))

-----------------------------------------------------------------------------
\* Loading: the blocks of a root are read one by one, from the pack before the
\* store, and each is charged to the budget once.

Loading(root, blocks) ==
    [op |-> "load", root |-> root, blocks |-> blocks, read |-> ToSet(blocks),
     todo |-> IF root = Null THEN <<>> ELSE <<<<root, 1>>>>]
Read(read, d) ==
    LET staged == {b \in read : b.digest = d} IN IF staged # {} THEN staged ELSE Stored(d)
Decoded(b) ==
    /\ b.bytes = b.digest
    /\ \A i \in DOMAIN b.bytes.entries : LevelOf[b.bytes.entries[i].key] = b.bytes.level
    /\ \A i \in 2..Len(b.bytes.entries) : b.bytes.entries[i - 1].key < b.bytes.entries[i].key
EntryCount(s) == FoldSet(LAMBDA t, n : n + Len(t.entries), 0, s)
Affordable(seen) == Cardinality(seen) <= MaxBlocks /\ EntryCount(seen) <= MaxEntryCount

\* Each visit of a block is charged.
ChargedEachTime(seen, d) ==
    IF d \in seen THEN Cardinality(seen) < MaxBlocks ELSE Affordable(seen \cup {d})

Charged(seen, d) == Affordable(seen \cup {d})

\* What is below a block is found in the bytes that came for it.
LoadStep(p) ==
    /\ task[p].op = "load" /\ task[p].todo # <<>> /\ UNCHANGED <<store, pack, loaded, faults>>
    /\ \E d \in {Head(task[p].todo)[1]}, depth \in {Head(task[p].todo)[2]} :
          LET found == Read(task[p].read, d)
              within == depth <= MaxDepth /\ Charged(DigestsOf(task[p].read), d)
          IN  IF within /\ found # {} /\ \A b \in found : Decoded(b)
              THEN \E b \in found : LET below == ChildrenOf(b.bytes) IN
                      Become(p, [task[p] EXCEPT !.read = @ \cup {b},
                                                !.todo = [i \in DOMAIN below |-> <<below[i], depth + 1>>] \o Tail(@)])
              ELSE Become(p, Idle)

\* The nodes made of the blocks that were read, from the root down.
RECURSIVE Assembled(_, _)
Assembled(read, d) ==
    IF d = Null THEN Null
    ELSE LET b == CHOOSE b \in read : b.digest = d
         IN  [b.bytes EXCEPT !.children = [i \in DOMAIN @ |-> Assembled(read, @[i])]]
\* The level, the first and the last key of a child against the node above it.
ReferenceValid(t, i) ==
    LET child == t.children[i + 1]
    IN  /\ child.level < t.level
        /\ i > 0 => Head(InOrder(child)).key > t.entries[i].key
        /\ i < Len(t.entries) => Last(InOrder(child)).key < t.entries[i + 1].key
NodeValid(t) ==
    /\ \A i \in 0..Len(t.entries) : t.children[i + 1] # Null => ReferenceValid(t, i)
    /\ t.count = Len(t.entries) + SumOfCounts(t.children)

\* Every node is compared with its children and with the digest it was read
\* by, and the whole is audited; a written pack comes before the result.
FinishLoad(p) ==
    /\ task[p].op = "load" /\ task[p].todo = <<>> /\ UNCHANGED <<store, pack, faults>>
    /\ LET t == Assembled(task[p].read, task[p].root)
           result == [root |-> task[p].root, tree |-> t]
       IN  IF ~(t = task[p].root /\ (\A x \in BlocksOf(t) : NodeValid(x)) /\ ValidNode(t, Unset, Unset))
           THEN Become(p, Idle) /\ UNCHANGED loaded
           ELSE IF task[p].blocks = <<>> THEN Become(p, Idle) /\ loaded' = loaded \cup {result}
           ELSE Become(p, Writing("preflight", task[p].blocks, task[p].blocks, result)) /\ UNCHANGED loaded
Load(p, root) ==
    /\ p \in Importers /\ task[p] = Idle /\ UNCHANGED <<store, pack, loaded, faults>>
    /\ Become(p, Loading(root, <<>>))

-----------------------------------------------------------------------------
\* Packs.

\* A pack with the same block twice is refused.
PackInit(root, blocks) ==
    IF \A i, j \in DOMAIN blocks : blocks[i].digest = blocks[j].digest => i = j
    THEN [root |-> root, blocks |-> blocks] ELSE Unset
ExportPack(t) ==
    /\ Importers # {} /\ pack = Unset /\ pack' = PackInit(t, CollectExport(t))
    /\ UNCHANGED <<store, task, loaded, faults>>
CreateSyncPack(t) ==
    /\ Importers # {} /\ pack = Unset /\ pack' = PackInit(t, CollectMissing(t))
    /\ UNCHANGED <<store, task, loaded, faults>>
\* Every block of a pack is decoded and charged before any is used.
ImportPack(p) ==
    /\ p \in Importers /\ task[p] = Idle /\ pack # Unset /\ pack' = Unset /\ UNCHANGED <<store, loaded, faults>>
    /\ IF (\A b \in ToSet(pack.blocks) : Decoded(b)) /\ Affordable(DigestsOf(ToSet(pack.blocks)))
       THEN Become(p, Loading(pack.root, pack.blocks)) ELSE Become(p, Idle)

-----------------------------------------------------------------------------
\* Rounds: ask for what is missing of the target, put what comes, ask again.

Planning == [op |-> "plan", todo |-> <<Target>>, requested |-> <<>>]

\* Nothing below a block that is there is looked for.
PlanPruned(p) ==
    /\ task[p].op = "plan" /\ task[p].todo # <<>> /\ UNCHANGED <<store, pack, loaded, faults>>
    /\ \E d \in {Head(task[p].todo)} :
          Become(p, [task[p] EXCEPT !.todo = Tail(@), !.requested = IF Present(d) THEN @ ELSE Append(@, d)])

PlanStep(p) ==
    /\ task[p].op = "plan" /\ task[p].todo # <<>> /\ UNCHANGED <<store, pack, loaded, faults>>
    /\ \E d \in {Head(task[p].todo)} :
          IF Present(d) THEN Become(p, [task[p] EXCEPT !.todo = ChildrenOf(d) \o Tail(@)])
          ELSE Become(p, [task[p] EXCEPT !.todo = Tail(@), !.requested = Append(@, d)])
Plan(p) ==
    /\ p \in Receivers /\ task[p] = Idle /\ ~HasLoaded(Target) /\ Become(p, Planning)
    /\ UNCHANGED <<store, pack, loaded, faults>>
\* The plan is complete: the sender answers it, or there is nothing left to ask.
AnswerPlan(p) ==
    /\ task[p].op = "plan" /\ task[p].todo = <<>> /\ UNCHANGED <<store, pack, loaded, faults>>
    /\ IF task[p].requested = <<>> THEN Become(p, Loading(Target, <<>>))
       ELSE \E q \in {[i \in DOMAIN task[p].requested |-> Wire(task[p].requested[i])]} :
               Become(p, Writing("put", q, q, Unset))

-----------------------------------------------------------------------------
Fault == faults < MaxFaults /\ faults' = faults + 1
Crash(p) == p \in Savers /\ task[p] # Idle /\ Fault /\ Become(p, Idle) /\ UNCHANGED <<store, pack, loaded>>
RemoveBlock(b) == b \in store /\ Fault /\ store' = store \ {b} /\ UNCHANGED <<task, pack, loaded>>
LosePackBlock(i) ==
    /\ Fault /\ pack' = [pack EXCEPT !.blocks = RemoveAt(@, i)] /\ UNCHANGED <<store, task, loaded>>
DamagePackBlock(i, t) ==
    /\ Fault /\ pack' = [pack EXCEPT !.blocks[i].bytes = t] /\ UNCHANGED <<store, task, loaded>>
\* Another user of the store puts a block of its own.
PutOther(b) == Fault /\ store' = PutBlock(b) /\ store' # store /\ UNCHANGED <<task, pack, loaded>>

Init == store = {} /\ task = [p \in Procs |-> Idle] /\ pack = Unset /\ loaded = {} /\ faults = 0

ProcStep(p) ==
    Preflight(p) \/ PutStep(p) \/ FinishLoad(p) \/ LoadStep(p) \/ Plan(p) \/ PlanStep(p) \/ AnswerPlan(p)
Next ==
    \/ \E p \in Procs : ProcStep(p)
    \/ \E p \in Savers : Crash(p) \/ \E t \in Trees : Save(p, t)
    \/ \E p \in Importers : ImportPack(p) \/ \E r \in Trees \cup Foreign : Load(p, r)
    \/ \E t \in Trees : ExportPack(t) \/ CreateSyncPack(t)
    \/ \E b \in store : RemoveBlock(b)
    \/ \E b \in OtherPuts : PutOther(b)
    \/ /\ pack # Unset
       /\ \E i \in DOMAIN pack.blocks : LosePackBlock(i) \/ \E t \in Trees \cup Foreign : DamagePackBlock(i, t)

\* Each process goes on with what it is doing.
Spec == Init /\ [][Next]_vars /\ \A p \in Procs : WF_vars(ProcStep(p))

-----------------------------------------------------------------------------
\* No caller ever gets a tree that is not the one tree of its entries and the one
\* it asked for, whatever was put in the store or happened to a pack: nodes that
\* agree each with its neighbours make up a tree in order.
LoadedTreesValid == \A l \in loaded : l.tree = l.root /\ l.tree = BuildCanonical(InOrder(l.tree))

Whole(t, blocks) == \A d \in BlocksOf(t) : Read(blocks, d) = {Wire(d)}
\* A load that gives up has met a block that was missing or wrong, or a budget
\* that the tree and its pack together exceed.  A pack is turned down for a
\* damaged block or its size, and its writing stops at other bytes in the store.
LoadJustified(p) ==
    task[p].op = "load" /\ task'[p] = Idle /\ loaded' = loaded /\ ~HasLoaded(task[p].root) =>
       \/ ~Whole(task[p].root, task[p].read)
       \/ ~Affordable(BlocksOf(task[p].root) \cup DigestsOf(ToSet(task[p].blocks)))
       \/ ~ValidNode(task[p].root, Unset, Unset)
       \/ \E d \in BlocksOf(task[p].root) : Cardinality({x \in BlocksOf(task[p].root) : d \in BlocksOf(x)}) > MaxDepth
WritingJustified(p) ==
    task[p].op \in {"preflight", "put"} /\ task[p].rest # <<>> /\ task'[p] = Idle /\ faults' = faults =>
       \E b \in ToSet(task[p].blocks), c \in store : c.digest = b.digest /\ c.bytes # b.bytes
PackJustified ==
    pack # Unset /\ pack' = Unset /\ task' = task =>
       \/ \E b \in ToSet(pack.blocks) : b.bytes # b.digest
       \/ ~Affordable(DigestsOf(ToSet(pack.blocks)))
RefusalJustified == PackJustified /\ \A p \in Procs : LoadJustified(p) /\ WritingJustified(p)

\* A pack of what a receiver lacks is enough to load the tree from a store in
\* which no block lacks a child; a save that stopped halfway leaves one that is
\* not, and then only the rounds help.
SyncPackSuffices ==
    Closure(store) /\ (\A b \in store : b.bytes = b.digest) => \A t \in Trees : Whole(t, ToSet(CollectMissing(t)))

\* The rounds end with the target loaded, whatever savers that stopped halfway
\* and removals left in the store before they ceased.
SyncConverges == Receivers # {} => <>HasLoaded(Target)
=============================================================================
