-------------------------- MODULE ConcurrentHashTrie --------------------------
(***************************************************************************)
(* ConcurrentHashTrie<TKey, TValue>, the lock-free snapshottable hash trie *)
(* of the C# Hamt workspace (ConcurrentHashTrie.cs).  Any number of        *)
(* threads call it; shared memory is the _root reference, the Main field   *)
(* of every indirection node, the Status field of every descriptor and the *)
(* _revision counter.  One action is one access to shared memory together  *)
(* with the local computation up to the next access.  Every access is      *)
(* volatile or interlocked, so the accesses of all threads are totally     *)
(* ordered; a Status field is read only after it is decided, and then it   *)
(* never changes, so that read is part of the step that decided it.        *)
(*                                                                         *)
(* Objects compared by reference carry an identity <<thread, n, slot>>.    *)
(* An object becomes shared only when a compare-and-swap publishes it, so  *)
(* identities are used up by publication, not by allocation.  A generation *)
(* is named by the identity of the Root that is created with it.           *)
(*                                                                         *)
(* Hash[k] is the sequence of 5-bit chunks of k's hash, from shift 0 on;   *)
(* the bitmap and compact array of a C-node are a function from chunks to  *)
(* branches.                                                               *)
(***************************************************************************)
EXTENDS Integers, Sequences, FiniteSets, FiniteSetsExt, SequencesExt

CONSTANTS
    Threads,    \* concurrent callers
    Loader,     \* the caller of CreateRange, which runs before the others
    Keys,
    Hash,       \* Keys -> sequence of Levels chunks
    Levels,     \* number of chunks in a hash
    Scripts,    \* workloads: [load : Seq(call), run : [Threads -> Seq(call)]]
    Stalled     \* threads that may stop for ever at any step

\* null: no object of any class.
None == [kind |-> "null"]

MutateOps == {"SetItem", "TryAdd", "GetOrAdd", "AddOrUpdate", "TryUpdate", "TryRemove"}
ViewOps == {"ViewTryGetValue", "ViewEnumerate"}

\* A call, with the value it brings and the value it compares with or adds.
Calls == [op : MutateOps \cup ViewOps \cup {"TryGetValue", "Clear", "Snapshot"},
          key : Keys, val : Nat, cmp : Nat]

ASSUME CtrieAssumption ==
    /\ Levels \in Nat \ {0}
    /\ Hash \in [Keys -> [1 .. Levels -> Nat]]
    /\ Loader \notin Threads
    /\ Stalled \subseteq Threads
    /\ None \notin Threads \cup {Loader}
    /\ \A s \in Scripts : s.load \in Seq(Calls) /\ s.run \in [Threads -> Seq(Calls)]

VARIABLES
    root,       \* _root: a Root or a RootDescriptor
    main,       \* Main of every indirection node: a main node or a Descriptor
    status,     \* Status of every descriptor
    revision,   \* _revision
    th,         \* registers of every thread
    log,        \* results each thread's calls have returned
    script,     \* the workload of this behaviour
    live        \* CreateRange has returned the trie

shared == <<root, main, status, revision>>
vars == <<root, main, status, revision, th, log, script, live>>

Callers == Threads \cup {Loader}

-----------------------------------------------------------------------------
(* Node classes.                                                           *)

StaticId == <<None, 0, 0>>
SNode(k, v) == [kind |-> "S", key |-> k, val |-> v]
INode(id, generation) == [kind |-> "I", id |-> id, gen |-> generation]
CNode(id, branches) == [kind |-> "C", id |-> id, branches |-> branches]
LNode(id, entries) == [kind |-> "L", id |-> id, entries |-> entries]
TNode(id, entry) == [kind |-> "T", id |-> id, entry |-> entry]
EmptyCNode == CNode(StaticId, [c \in {} |-> None])
EmptyTNode == TNode(StaticId, None)
Root(id) == [kind |-> "R", id |-> id, node |-> INode(id, id)]
Descriptor(id, before, after, rt) ==
    [kind |-> "D", id |-> id, before |-> before, after |-> after, root |-> rt]
RootDescriptor(id, before, expected, after) ==
    [kind |-> "RD", id |-> id, before |-> before, expected |-> expected, after |-> after]

InitialRoot == Root(StaticId)

\* CNode.Insert and CNode.Replace; CNode.Remove.
Put(branches, c, branch) ==
    [d \in DOMAIN branches \cup {c} |-> IF d = c THEN branch ELSE branches[d]]
Drop(branches, c) == [d \in DOMAIN branches \ {c} |-> branches[d]]

\* The branches of a C-node in bitmap order.
Ordered(branches) ==
    LET chunks == SetToSortSeq(DOMAIN branches, <)
    IN  [i \in DOMAIN chunks |-> branches[chunks[i]]]

\* LNode.Find, -1 when the key is absent.
Find(entries, k) ==
    LET hits == {i \in DOMAIN entries : entries[i].key = k}
    IN  IF hits = {} THEN -1 ELSE CHOOSE i \in hits : \A j \in hits : i <= j

-----------------------------------------------------------------------------
(* Contraction and merging.                                                *)

\* Faulty variant: a C-node left with one singleton is not turned into a tomb.
ContractNever(id, branches, isRoot) == CNode(id, branches)

Contract(id, branches, isRoot) ==
    IF isRoot \/ Cardinality(DOMAIN branches) > 1 THEN CNode(id, branches)
    ELSE IF DOMAIN branches = {} THEN EmptyTNode
    ELSE LET only == branches[CHOOSE c \in DOMAIN branches : TRUE]
         IN  IF only.kind = "S" THEN TNode(id, only) ELSE CNode(id, branches)

ContractCollision(id, entries, isRoot) ==
    IF Len(entries) > 1 THEN LNode(id, entries)
    ELSE IF entries = <<>> THEN (IF isRoot THEN EmptyCNode ELSE EmptyTNode)
    ELSE IF ~isRoot THEN TNode(id, entries[1])
    ELSE CNode(id, Put([c \in {} |-> None], Hash[entries[1].key][1], entries[1]))

SlotId(id, slot) == <<id[1], id[2], slot>>

\* The first level from `level` on at which two hashes differ.
SplitLevel(h, g, level) == Min({j \in level .. Levels : h[j] # g[j]})

\* Faulty variant: the lowest of the new nodes is not created.
LevelsAbove(level, split) == level .. split - 1

\* The levels that get a new indirection node.
LevelsTo(level, split) == level .. split

\* Merge(SNode, SNode): the indirection nodes for levels level .. split and
\* what they hold; the top one replaces the singleton's branch.
MergeSingletons(id, first, second, level, generation) ==
    LET h == Hash[first.key]
        g == Hash[second.key]
        split == IF h = g THEN level ELSE SplitLevel(h, g, level)
        Node(j) == INode(SlotId(id, j), generation)
        Content(j) ==
            IF h = g THEN LNode(SlotId(id, j), <<first, second>>)
            ELSE IF j = split
                 THEN CNode(SlotId(id, j), Put(Put([c \in {} |-> None], h[j], first), g[j], second))
                 ELSE CNode(SlotId(id, j), Put([c \in {} |-> None], h[j], Node(j + 1)))
    IN  [branch |-> Node(level),
         fresh |-> [n \in {SlotId(id, j) : j \in LevelsTo(level, split)} |-> Content(n[3])]]

\* Merge(LNode, SNode): the C-node that replaces the collision node, which
\* itself moves below the level at which the hashes part.
MergeCollision(id, collision, single, level, generation) ==
    LET h == Hash[collision.entries[1].key]
        g == Hash[single.key]
        split == SplitLevel(h, g, level)
        Node(j) == INode(SlotId(id, j), generation)
        Content(j) ==
            IF j = split
            THEN CNode(SlotId(id, j), Put(Put([c \in {} |-> None], h[j], Node(j + 1)), g[j], single))
            ELSE CNode(SlotId(id, j), Put([c \in {} |-> None], h[j], Node(j + 1)))
    IN  [node |-> Content(level),
         fresh |-> [n \in {SlotId(id, j) : j \in LevelsTo(level + 1, split + 1)} |->
                      IF n[3] = split + 1 THEN collision ELSE Content(n[3])]]

-----------------------------------------------------------------------------
(* Calls, their decisions and their results.                               *)

Call(op, k, v, cmp) == [op |-> op, key |-> k, val |-> v, cmp |-> cmp]
NoCall == Call("none", None, 0, 0)

\* Values are positive; 0 is default(TValue).
NoValue == 0

\* A Decision, with the transform's captured flag `matched` of TryUpdate.
\* AddOrUpdate's updateFactory adds call.cmp to the current value.
Decision(kind, val, result, matched) ==
    [kind |-> kind, val |-> val, result |-> result, matched |-> matched]
DecideNone == Decision("None", NoValue, NoValue, FALSE)
DecideReturn(v) == Decision("None", NoValue, v, TRUE)
DecideSet(v) == Decision("Set", v, v, TRUE)
DecideRemove(v) == Decision("Remove", NoValue, v, TRUE)

Transform(call, exists, current) ==
    LET updated == IF exists THEN current + call.cmp ELSE call.val
    IN  CASE call.op = "SetItem" ->
               IF exists /\ current = call.val THEN DecideNone ELSE DecideSet(call.val)
          [] call.op = "TryAdd" ->
               IF exists THEN DecideNone ELSE DecideSet(call.val)
          [] call.op = "GetOrAdd" ->
               IF exists THEN DecideReturn(current) ELSE DecideSet(call.val)
          [] call.op = "AddOrUpdate" ->
               IF exists /\ current = updated THEN DecideReturn(current) ELSE DecideSet(updated)
          [] call.op = "TryUpdate" ->
               IF ~(exists /\ current = call.cmp) THEN DecideNone
               ELSE IF current = call.val THEN DecideReturn(current)
               ELSE DecideSet(call.val)
          [] call.op = "TryRemove" ->
               IF exists THEN DecideRemove(current) ELSE DecideNone

\* What a call returns; changed says that it incremented _revision, all is
\* the sequence an enumeration yields.
Result(changed, ok, val, all) == [changed |-> changed, ok |-> ok, val |-> val, all |-> all]
Done(changed) == Result(changed, TRUE, NoValue, <<>>)

\* The public method's result from a MutationResult and the last decision.
MutationResult(call, changed, val, matched) ==
    CASE call.op = "SetItem" -> Done(changed)
      [] call.op = "TryAdd" -> Result(changed, changed, NoValue, <<>>)
      [] call.op \in {"GetOrAdd", "AddOrUpdate"} -> Result(changed, TRUE, val, <<>>)
      [] call.op = "TryUpdate" ->
           Result(changed, matched /\ (changed \/ val = call.val), NoValue, <<>>)
      [] call.op = "TryRemove" ->
           Result(changed, changed, IF changed THEN val ELSE NoValue, <<>>)

-----------------------------------------------------------------------------
(* Threads.  pc names the shared access a thread performs next:            *)
(*   root      ReadRoot reads _root            main    ReadMain reads Main *)
(*   install   Gcas swaps its descriptor in    status  Complete(Descriptor)*)
(*   settle    ReadMain swaps the descriptor out                           *)
(*   rdInstall Snapshot swaps its descriptor into _root                    *)
(*   rdMain, rdStatus, rdRoot  the three accesses of Complete(RootDescr.)  *)
(*   bump      Interlocked.Increment(_revision)                            *)
(*   scan      no access: Enumerate consumes one branch                    *)

NoWalk == [queue |-> <<>>, rest |-> <<>>, multi |-> <<>>, stack |-> <<>>, out |-> <<>>]

Idle(view, seq) ==
    [pc |-> "idle", phase |-> "none", call |-> NoCall, root |-> None, node |-> None,
     at |-> None, level |-> 1, parent |-> None, renewing |-> None, desc |-> None,
     fresh |-> <<>>, purpose |-> "none", wish |-> "none", rdesc |-> None,
     ans |-> Done(FALSE), walk |-> NoWalk, view |-> view, seq |-> seq]

\* The identity of the object that thread t publishes next.
NewId(t) == <<t, th[t].seq, 0>>

Become(t, r) == th' = [th EXCEPT ![t] = r]

\* The call returns res.
Answers(t, res) ==
    /\ log' = [log EXCEPT ![t] = Append(@, res)]
    /\ Become(t, Idle(th[t].view, th[t].seq))

\* The same in a step that only reads shared memory: the thread goes on, or
\* its call returns.
Proceeds(t, r) == Become(t, r) /\ UNCHANGED <<shared, log, script, live>>
Returns(t, res) == Answers(t, res) /\ UNCHANGED <<shared, script, live>>

\* The outer loop of Mutate, CleanTombs, Clear and Snapshot starts over.
Restart(r) ==
    [r EXCEPT !.pc = "root", !.root = None, !.node = None, !.at = None, !.level = 1,
              !.parent = None, !.renewing = None, !.desc = None, !.fresh = <<>>,
              !.purpose = "none", !.wish = "none", !.rdesc = None]

ScriptOf(t) == IF t = Loader THEN script.load ELSE script.run[t]
NextCall(t) == ScriptOf(t)[Len(log[t]) + 1]

PhaseOf(call) ==
    CASE call.op \in MutateOps -> "mutate"
      [] call.op = "TryGetValue" -> "lookup"
      [] call.op = "ViewTryGetValue" -> "lookup"
      [] call.op = "ViewEnumerate" -> "enumerate"
      [] call.op = "Clear" -> "clear"
      [] call.op = "Snapshot" -> "snapshot"

\* A thread enters its next call.  A view's methods start from the view's
\* root, all others from ReadRoot.
Invoke(t) ==
    /\ th[t].pc = "idle"
    /\ t = Loader \/ live
    /\ Len(log[t]) < Len(ScriptOf(t))
    /\ LET call == NextCall(t)
           r == [Restart(th[t]) EXCEPT !.call = call, !.phase = PhaseOf(call)]
           v == th[t].view
       IN  IF call.op \notin ViewOps THEN Proceeds(t, r)
           ELSE Proceeds(t, [r EXCEPT !.pc = "main", !.root = v, !.node = v.node.id,
                                      !.at = v.node.id, !.walk.queue = <<v.node>>])

\* CreateRange has loaded its items: it resets the counter and returns.
Publish ==
    /\ ~live
    /\ th[Loader].pc = "idle"
    /\ Len(log[Loader]) = Len(script.load)
    /\ revision' = 0
    /\ live' = TRUE
    /\ UNCHANGED <<root, main, status, th, log, script>>

-----------------------------------------------------------------------------
(* ReadRoot and Complete(RootDescriptor).                                  *)

\* ReadRoot meets a snapshot in progress and helps it.
ReadRootMeetsSnapshot(t) ==
    /\ th[t].pc = "root"
    /\ root.kind = "RD"
    /\ Proceeds(t, [th[t] EXCEPT !.pc = "rdMain", !.rdesc = root])

\* ReadRoot at the start of an operation's loop.
ReadRootBegins(t) ==
    /\ th[t].pc = "root"
    /\ root.kind = "R"
    /\ th[t].desc = None
    /\ Proceeds(t, [th[t] EXCEPT !.pc = "main", !.root = root, !.node = root.node.id,
                                 !.at = root.node.id])

\* Faulty variant: the root is not compared.
ProposedStatusAlways(rt, desc) == "Committed"

\* The status Complete(Descriptor) proposes, given the root it read.
ProposedStatus(rt, desc) == IF rt = desc.root THEN "Committed" ELSE "Aborted"

\* ReadRoot inside Complete(Descriptor).
ReadRootCompletes(t) ==
    /\ th[t].pc = "root"
    /\ root.kind = "R"
    /\ th[t].desc # None
    /\ Proceeds(t, [th[t] EXCEPT !.pc = "status", !.wish = ProposedStatus(root, th[t].desc)])

\* The status Complete(RootDescriptor) proposes, given the raw Main it read.
ProposedRootStatus(raw, rdesc) == IF raw = rdesc.expected THEN "Committed" ELSE "Aborted"

RootCompleteMain(t) ==
    /\ th[t].pc = "rdMain"
    /\ LET rd == th[t].rdesc
       IN  Proceeds(t, [th[t] EXCEPT !.pc = "rdStatus",
                                     !.wish = ProposedRootStatus(main[rd.before.node.id], rd)])

\* Faulty variant: a plain write of the status.
DecidedBlindly(id, wish) == wish

\* The compare-and-swap of Undecided, which only the first completer wins.
Decided(id, wish) == IF status[id] = "Undecided" THEN wish ELSE status[id]

RootCompleteStatus(t) ==
    /\ th[t].pc = "rdStatus"
    /\ LET id == th[t].rdesc.id
       IN  status' = [status EXCEPT ![id] = Decided(id, th[t].wish)]
    /\ Become(t, [th[t] EXCEPT !.pc = "rdRoot", !.wish = "none"])
    /\ UNCHANGED <<root, main, revision, log, script, live>>

SelectedRoot(rdesc) == IF status[rdesc.id] = "Committed" THEN rdesc.after ELSE rdesc.before

\* A thread completes its own RootDescriptor in Snapshot, another's in
\* ReadRoot.
RootCompleteRoot(t) ==
    /\ th[t].pc = "rdRoot"
    /\ LET rd == th[t].rdesc
           own == rd.id[1] = t
       IN  /\ root' = IF root = rd THEN SelectedRoot(rd) ELSE root
           /\ IF own /\ status[rd.id] = "Committed"
              THEN /\ log' = [log EXCEPT ![t] = Append(@, Done(FALSE))]
                   /\ Become(t, Idle(rd.before, th[t].seq))
              ELSE /\ log' = log
                   /\ Become(t, IF own THEN Restart(th[t])
                                ELSE [th[t] EXCEPT !.pc = "root", !.rdesc = None])
    /\ UNCHANGED <<main, status, revision, script, live>>

-----------------------------------------------------------------------------
(* Gcas, Complete(Descriptor) and the helping half of ReadMain.            *)

\* Call Gcas(node, before, after) under the operation's root.  fresh are the
\* new indirection nodes reachable from after, ans the operation's result in
\* case it succeeds.
Gcas(t, purpose, node, before, after, fresh, ans) ==
    Proceeds(t, [th[t] EXCEPT !.pc = "install", !.at = node, !.purpose = purpose,
                              !.renewing = None, !.fresh = fresh, !.ans = ans,
                              !.desc = Descriptor(NewId(t), before, after, th[t].root)])

\* Gcas installs its descriptor.
GcasInstalls(t) ==
    /\ th[t].pc = "install"
    /\ LET r == th[t]
           fresh == r.fresh
       IN  /\ main[r.at] = r.desc.before
           /\ main' = [n \in DOMAIN main \cup DOMAIN fresh |->
                         IF n = r.at THEN r.desc
                         ELSE IF n \in DOMAIN fresh THEN fresh[n] ELSE main[n]]
           /\ status' = [d \in DOMAIN status \cup {r.desc.id} |->
                           IF d = r.desc.id THEN "Undecided" ELSE status[d]]
           /\ Become(t, [r EXCEPT !.pc = "root", !.seq = @ + 1, !.fresh = <<>>])
    /\ UNCHANGED <<root, revision, log, script, live>>

\* Faulty variant: the operation ignores that Gcas failed.
GcasLosesUnnoticed(t) ==
    /\ th[t].pc = "install"
    /\ main[th[t].at] # th[t].desc.before
    /\ Proceeds(t, IF th[t].purpose \in {"tomb", "renew"} THEN Restart(th[t])
                   ELSE [th[t] EXCEPT !.pc = "bump", !.fresh = <<>>])

\* Gcas finds another main node or descriptor and fails.
GcasLoses(t) ==
    /\ th[t].pc = "install"
    /\ main[th[t].at] # th[t].desc.before
    /\ Proceeds(t, Restart(th[t]))

\* Gcas committed: a tomb is gone and the operation starts over, a renewed
\* child is entered, or an update is in place and has to be counted.
GcasCommitted(r) ==
    CASE r.purpose = "tomb" -> Restart(r)
      [] r.purpose = "renew" ->
           LET c == Hash[r.call.key][r.level]
               child == r.desc.after.branches[c].id
           IN  [r EXCEPT !.pc = "main", !.desc = None, !.purpose = "none", !.wish = "none",
                         !.parent = [node |-> r.node, main |-> r.desc.after, chunk |-> c],
                         !.node = child, !.at = child, !.level = @ + 1]
      [] OTHER -> [r EXCEPT !.pc = "bump", !.wish = "none"]

\* Complete decides the descriptor, in Gcas (purpose set) or in ReadMain.
CompleteStatus(t) ==
    /\ th[t].pc = "status"
    /\ LET r == th[t]
           decided == Decided(r.desc.id, r.wish)
       IN  /\ status' = [status EXCEPT ![r.desc.id] = decided]
           /\ Become(t, IF r.purpose = "none" THEN [r EXCEPT !.pc = "settle", !.wish = "none"]
                        ELSE IF decided = "Committed" THEN GcasCommitted(r)
                        ELSE Restart(r))
    /\ UNCHANGED <<root, main, revision, log, script, live>>

\* ReadMain reads the Main field of a node that was published.
AtMain(t) == th[t].pc = "main" /\ th[t].at \in DOMAIN main

ReadMainMeetsDescriptor(t) ==
    /\ AtMain(t)
    /\ main[th[t].at].kind = "D"
    /\ Proceeds(t, [th[t] EXCEPT !.pc = "root", !.desc = main[th[t].at]])

Selected(desc) == IF status[desc.id] = "Committed" THEN desc.after ELSE desc.before

\* Faulty variant: ReadMain leaves the decided descriptor in place.
ReadMainNeverSettles(t) ==
    /\ th[t].pc = "settle"
    /\ Proceeds(t, [th[t] EXCEPT !.pc = "main", !.desc = None])

\* ReadMain swaps the decided descriptor for the node it selects, and reads
\* again.
ReadMainSettles(t) ==
    /\ th[t].pc = "settle"
    /\ LET r == th[t]
       IN  /\ main' = [main EXCEPT ![r.at] = IF @ = r.desc THEN Selected(r.desc) ELSE @]
           /\ Become(t, [r EXCEPT !.pc = "main", !.desc = None])
    /\ UNCHANGED <<root, status, revision, log, script, live>>

\* ReadMain returns a main node to an operation in one of the given phases.
MainAt(t) == main[th[t].at]
ReadsMain(t, phases) ==
    /\ AtMain(t)
    /\ th[t].phase \in phases
    /\ MainAt(t).kind # "D"

\* The C-node that was read has no branch for the key, or one of this kind.
ChunkOf(t) == Hash[th[t].call.key][th[t].level]
BranchAt(t) == MainAt(t).branches[ChunkOf(t)]
BranchVacant(t) == MainAt(t).kind = "C" /\ ChunkOf(t) \notin DOMAIN MainAt(t).branches
BranchIs(t, kind) ==
    /\ MainAt(t).kind = "C"
    /\ ChunkOf(t) \in DOMAIN MainAt(t).branches
    /\ BranchAt(t).kind = kind

-----------------------------------------------------------------------------
(* Mutate and CleanTombs: the walk from the root to the key's node.        *)

Walking(t) == ReadsMain(t, {"mutate", "clean"}) /\ th[t].renewing = None

AtRoot(t, node) == node = th[t].root.node.id

\* A tomb: the parent takes its entry back.  (The root holds no tomb: the
\* code throws if it does.)
WalkMeetsTomb(t) ==
    /\ Walking(t)
    /\ MainAt(t).kind = "T"
    /\ th[t].parent # None
    /\ LET p == th[t].parent
           entry == MainAt(t).entry
           cleaned == IF entry = None THEN Drop(p.main.branches, p.chunk)
                      ELSE Put(p.main.branches, p.chunk, entry)
       IN  Gcas(t, "tomb", p.node, p.main,
                Contract(NewId(t), cleaned, AtRoot(t, p.node)), <<>>, th[t].ans)

\* Faulty variant: every child passes for one of this generation.
AnyGeneration(child, rt) == TRUE

InGeneration(child, rt) == child.gen = rt.id

\* A child of this generation is entered.
WalkDescends(t) ==
    /\ Walking(t)
    /\ BranchIs(t, "I")
    /\ InGeneration(BranchAt(t), th[t].root)
    /\ LET child == BranchAt(t).id
       IN  Proceeds(t, [th[t] EXCEPT
               !.parent = [node |-> th[t].node, main |-> MainAt(t), chunk |-> ChunkOf(t)],
               !.node = child, !.at = child, !.level = @ + 1])

\* A child of an older generation is read first ...
WalkMeetsOldChild(t) ==
    /\ Walking(t)
    /\ BranchIs(t, "I")
    /\ ~InGeneration(BranchAt(t), th[t].root)
    /\ Proceeds(t, [th[t] EXCEPT !.renewing = MainAt(t), !.at = BranchAt(t).id])

\* ... and replaced by a copy of this generation.
WalkRenewsChild(t) ==
    /\ ReadsMain(t, {"mutate", "clean"})
    /\ th[t].renewing # None
    /\ LET cnode == th[t].renewing
           id == SlotId(NewId(t), 1)
           renewed == INode(id, th[t].root.id)
       IN  Gcas(t, "renew", th[t].node, cnode,
                CNode(NewId(t), Put(cnode.branches, ChunkOf(t), renewed)),
                [n \in {id} |-> MainAt(t)], th[t].ans)

-----------------------------------------------------------------------------
(* Mutate: the decision at the key's node.                                 *)

\* Mutate with decision dec: nothing to do, returning val, or a Gcas that
\* puts after in place.
Decide(t, dec, val, after, fresh) ==
    LET r == th[t]
        res == MutationResult(r.call, dec.kind # "None",
                              IF dec.kind = "None" THEN val ELSE dec.result, dec.matched)
    IN  IF dec.kind = "None" THEN Returns(t, res)
        ELSE Gcas(t, IF dec.kind = "Remove" THEN "remove" ELSE "set",
                  r.node, MainAt(t), after, fresh, res)

MutateCollision(t) ==
    /\ Walking(t) /\ th[t].phase = "mutate"
    /\ MainAt(t).kind = "L"
    /\ LET m == MainAt(t)
           call == th[t].call
           index == Find(m.entries, call.key)
           exists == index >= 0
           current == IF exists THEN m.entries[index].val ELSE NoValue
           dec == Transform(call, exists, current)
           id == NewId(t)
           entry == SNode(call.key, dec.val)
           merged == MergeCollision(id, m, entry, th[t].level, th[t].root.id)
       IN  IF dec.kind = "Remove"
           THEN Decide(t, dec, current,
                       ContractCollision(id, RemoveAt(m.entries, index), AtRoot(t, th[t].node)), <<>>)
           ELSE IF exists
           THEN Decide(t, dec, current, LNode(id, [m.entries EXCEPT ![index] = entry]), <<>>)
           ELSE IF Hash[m.entries[1].key] = Hash[call.key]
           THEN Decide(t, dec, current, LNode(id, Append(m.entries, entry)), <<>>)
           ELSE Decide(t, dec, current, merged.node, merged.fresh)

MutateVacant(t) ==
    /\ Walking(t) /\ th[t].phase = "mutate"
    /\ BranchVacant(t)
    /\ LET dec == Transform(th[t].call, FALSE, NoValue)
           entry == SNode(th[t].call.key, dec.val)
       IN  Decide(t, dec, dec.result,
                  CNode(NewId(t), Put(MainAt(t).branches, ChunkOf(t), entry)), <<>>)

MutateSingleton(t) ==
    /\ Walking(t) /\ th[t].phase = "mutate"
    /\ BranchIs(t, "S")
    /\ BranchAt(t).key = th[t].call.key
    /\ LET current == BranchAt(t).val
           branches == MainAt(t).branches
           dec == Transform(th[t].call, TRUE, current)
       IN  Decide(t, dec, IF dec.result = NoValue THEN current ELSE dec.result,
                  IF dec.kind = "Remove"
                  THEN Contract(NewId(t), Drop(branches, ChunkOf(t)), AtRoot(t, th[t].node))
                  ELSE CNode(NewId(t), Put(branches, ChunkOf(t), SNode(BranchAt(t).key, dec.val))),
                  <<>>)

\* Another key's singleton is in the way: both move one level down.
MutateSplits(t) ==
    /\ Walking(t) /\ th[t].phase = "mutate"
    /\ BranchIs(t, "S")
    /\ BranchAt(t).key # th[t].call.key
    /\ LET dec == Transform(th[t].call, FALSE, NoValue)
           merged == MergeSingletons(NewId(t), BranchAt(t), SNode(th[t].call.key, dec.val),
                                     th[t].level + 1, th[t].root.id)
       IN  Decide(t, dec, dec.result,
                  CNode(NewId(t), Put(MainAt(t).branches, ChunkOf(t), merged.branch)), merged.fresh)

\* Only a removal goes on to CleanTombs; every committed update is counted.
CleansUp(purpose) == purpose = "remove"
Counts(purpose) == 1

\* The update is in place: it is counted, and a removal goes on to clean the
\* tombs on its path.
Bump(t) ==
    /\ th[t].pc = "bump"
    /\ revision' = revision + Counts(th[t].purpose)
    /\ IF CleansUp(th[t].purpose)
       THEN Become(t, [Restart(th[t]) EXCEPT !.phase = "clean"]) /\ log' = log
       ELSE Answers(t, th[t].ans)
    /\ UNCHANGED <<root, main, status, script, live>>

\* CleanTombs returns at a collision node, a vacant chunk or a singleton.
CleanTombsReturns(t) ==
    /\ Walking(t) /\ th[t].phase = "clean"
    /\ MainAt(t).kind = "L" \/ BranchVacant(t) \/ BranchIs(t, "S")
    /\ Returns(t, th[t].ans)

-----------------------------------------------------------------------------
(* TryGetValue, Clear and Snapshot.                                        *)

\* The entry of key k in the singleton, collision node or tomb s, or None.
EntryIn(s, k) ==
    CASE s.kind = "S" -> IF s.key = k THEN s ELSE None
      [] s.kind = "T" -> IF s.entry # None /\ s.entry.key = k THEN s.entry ELSE None
      [] s.kind = "L" -> IF Find(s.entries, k) >= 0 THEN s.entries[Find(s.entries, k)] ELSE None

LookupResult(entry) ==
    Result(FALSE, entry # None, IF entry = None THEN NoValue ELSE entry.val, <<>>)

LookupReturns(t) ==
    /\ ReadsMain(t, {"lookup"})
    /\ \/ MainAt(t).kind # "C" /\ Returns(t, LookupResult(EntryIn(MainAt(t), th[t].call.key)))
       \/ BranchVacant(t) /\ Returns(t, LookupResult(None))
       \/ BranchIs(t, "S") /\ Returns(t, LookupResult(EntryIn(BranchAt(t), th[t].call.key)))

LookupDescends(t) ==
    /\ ReadsMain(t, {"lookup"})
    /\ BranchIs(t, "I")
    /\ LET child == BranchAt(t).id
       IN  Proceeds(t, [th[t] EXCEPT !.node = child, !.at = child, !.level = @ + 1])

ClearFindsEmpty(t) ==
    /\ ReadsMain(t, {"clear"})
    /\ MainAt(t).kind = "C" /\ DOMAIN MainAt(t).branches = {}
    /\ Returns(t, Done(FALSE))

ClearReplaces(t) ==
    /\ ReadsMain(t, {"clear"})
    /\ ~(MainAt(t).kind = "C" /\ DOMAIN MainAt(t).branches = {})
    /\ Gcas(t, "clear", th[t].node, MainAt(t), EmptyCNode, <<>>, Done(TRUE))

SnapshotReadsMain(t) ==
    /\ ReadsMain(t, {"snapshot"})
    /\ LET rd == RootDescriptor(NewId(t), th[t].root, MainAt(t), Root(NewId(t)))
       IN  Proceeds(t, [th[t] EXCEPT !.pc = "rdInstall", !.rdesc = rd])

\* The new root's indirection node starts with the main node that was read.
SnapshotInstalls(t) ==
    /\ th[t].pc = "rdInstall"
    /\ LET rd == th[t].rdesc
       IN  /\ root = rd.before
           /\ root' = rd
           /\ main' = [n \in DOMAIN main \cup {rd.id} |-> IF n = rd.id THEN rd.expected ELSE main[n]]
           /\ status' = [d \in DOMAIN status \cup {rd.id} |->
                           IF d = rd.id THEN "Undecided" ELSE status[d]]
    /\ Become(t, [th[t] EXCEPT !.pc = "rdMain", !.seq = @ + 1])
    /\ UNCHANGED <<revision, log, script, live>>

SnapshotLoses(t) ==
    /\ th[t].pc = "rdInstall"
    /\ root # th[t].rdesc.before
    /\ Proceeds(t, Restart(th[t]))

-----------------------------------------------------------------------------
(* Enumerate and Classify over a snapshot view.  walk.queue holds the      *)
(* indirection nodes still to be enumerated, walk.rest the branches of the *)
(* current C-node still to be classified, walk.multi those found to hold   *)
(* several entries, walk.stack the C-nodes Classify is inside of.          *)

YieldAll(w, entries) == [w EXCEPT !.out = @ \o entries]
YieldOne(w, s) == IF s = None THEN w ELSE [w EXCEPT !.out = Append(@, s)]

\* Classify found several entries: every enclosing call returns at once.
ReturnMultiple(w) ==
    [w EXCEPT !.stack = <<>>, !.multi = Append(@, Head(w.rest)), !.rest = Tail(@)]

\* Classify returns the singleton s, or None for no entry, to its caller.
ReturnSummary(w, s) ==
    IF w.stack = <<>> THEN [YieldOne(w, s) EXCEPT !.rest = Tail(@)]
    ELSE LET top == Last(w.stack)
         IN  IF s # None /\ top.single # None THEN ReturnMultiple(w)
             ELSE [w EXCEPT !.stack = Append(Front(@),
                      [rest |-> Tail(top.rest),
                       single |-> IF top.single = None THEN s ELSE top.single])]

Enters(t, phase, node, w) ==
    Proceeds(t, [th[t] EXCEPT !.pc = "main", !.phase = phase, !.at = node.id, !.walk = w])

\* Enumerate of the next indirection node, or the end of the enumeration.
EnumerateNext(t, w) ==
    IF w.queue = <<>> THEN Returns(t, Result(FALSE, TRUE, NoValue, w.out))
    ELSE Enters(t, "enumerate", Head(w.queue), w)

EnumerateLeaf(t) ==
    /\ ReadsMain(t, {"enumerate"})
    /\ LET m == MainAt(t)
           w == [th[t].walk EXCEPT !.queue = Tail(@)]
       IN  \/ m.kind = "T" /\ EnumerateNext(t, YieldOne(w, m.entry))
           \/ m.kind = "L" /\ EnumerateNext(t, YieldAll(w, m.entries))

\* From here on no shared access: the branches are classified one by one.
Scans(t, w) == Proceeds(t, [th[t] EXCEPT !.pc = "scan", !.walk = w])

EnumerateCNode(t) ==
    /\ ReadsMain(t, {"enumerate"})
    /\ MainAt(t).kind = "C"
    /\ Scans(t, [th[t].walk EXCEPT !.queue = Tail(@), !.rest = Ordered(MainAt(t).branches),
                                   !.multi = <<>>])

\* The branch list Enumerate or the innermost Classify is going through.
Branches(w) == IF w.stack = <<>> THEN w.rest ELSE Last(w.stack).rest

ScanFinishes(t) ==
    /\ th[t].pc = "scan"
    /\ LET w == th[t].walk
       IN  /\ Branches(w) = <<>>
           /\ IF w.stack = <<>>
              THEN EnumerateNext(t, [w EXCEPT !.queue = w.multi \o @, !.multi = <<>>])
              ELSE Scans(t, ReturnSummary([w EXCEPT !.stack = Front(@)], Last(w.stack).single))

ScanBranch(t) ==
    /\ th[t].pc = "scan"
    /\ LET w == th[t].walk
           branch == Head(Branches(w))
       IN  /\ Branches(w) # <<>>
           /\ IF branch.kind = "S" THEN Scans(t, ReturnSummary(w, branch))
              ELSE Enters(t, "classify", branch, w)

ClassifyTomb(w, entry) == ReturnSummary(w, entry)

ClassifyMain(t) ==
    /\ ReadsMain(t, {"classify"})
    /\ LET m == MainAt(t)
           w == th[t].walk
       IN  Scans(t, CASE m.kind = "T" -> ClassifyTomb(w, m.entry)
                      [] m.kind = "L" -> ReturnMultiple(w)
                      [] m.kind = "C" ->
                           [w EXCEPT !.stack = Append(@, [rest |-> Ordered(m.branches), single |-> None])])

-----------------------------------------------------------------------------
Init ==
    /\ root = InitialRoot
    /\ main = [n \in {StaticId} |-> EmptyCNode]
    /\ status = [d \in {} |-> "Undecided"]
    /\ revision = 0
    /\ th = [t \in Callers |-> Idle(None, 1)]
    /\ log = [t \in Callers |-> <<>>]
    /\ script \in Scripts
    /\ live = FALSE

\* One step of thread t.
Step(t) ==
    \/ Invoke(t)
    \/ ReadRootMeetsSnapshot(t) \/ ReadRootBegins(t) \/ ReadRootCompletes(t)
    \/ RootCompleteMain(t) \/ RootCompleteStatus(t) \/ RootCompleteRoot(t)
    \/ GcasInstalls(t) \/ GcasLoses(t) \/ CompleteStatus(t)
    \/ ReadMainMeetsDescriptor(t) \/ ReadMainSettles(t)
    \/ WalkMeetsTomb(t) \/ WalkDescends(t) \/ WalkMeetsOldChild(t) \/ WalkRenewsChild(t)
    \/ MutateCollision(t) \/ MutateVacant(t) \/ MutateSingleton(t) \/ MutateSplits(t)
    \/ Bump(t) \/ CleanTombsReturns(t)
    \/ LookupReturns(t) \/ LookupDescends(t)
    \/ ClearFindsEmpty(t) \/ ClearReplaces(t)
    \/ SnapshotReadsMain(t) \/ SnapshotInstalls(t) \/ SnapshotLoses(t)
    \/ EnumerateLeaf(t) \/ EnumerateCNode(t) \/ ScanFinishes(t) \/ ScanBranch(t)
    \/ ClassifyMain(t)

\* Every call of the workload has returned.
Finished(t) == th[t].pc = "idle" /\ Len(log[t]) = Len(ScriptOf(t))
Quiescent == live /\ \A t \in Callers : Finished(t)
Terminated == Quiescent /\ UNCHANGED vars

Next == Publish \/ Terminated \/ \E t \in Callers : Step(t)

Spec == Init /\ [][Next]_vars

-----------------------------------------------------------------------------
(* Safety of the descriptors.                                              *)

\* A descriptor is decided once, however late another helper's own
\* compare-and-swap comes, and it leaves its node only after that, for the
\* main node its outcome selects: nobody can act on the other outcome.
DecisionsStable ==
    [][/\ \A d \in DOMAIN status :
            /\ d \in DOMAIN status'
            /\ status[d] # "Undecided" => status'[d] = status[d]
       /\ \A n \in DOMAIN main :
            main[n].kind = "D" /\ main'[n] # main[n] =>
              /\ status[main[n].id] # "Undecided"
              /\ main'[n] = Selected(main[n])]_vars

-----------------------------------------------------------------------------
(* Progress.                                                               *)

\* A runnable thread is scheduled eventually.  Nothing is assumed of the
\* threads in Stalled: they may lose the processor in the middle of a call.
Fairness == WF_vars(Publish) /\ \A t \in Callers \ Stalled : WF_vars(Step(t))

\* The trie is lock-free: every call of a thread that keeps running returns,
\* wherever the others stopped.  Whoever meets a descriptor completes it, so
\* no thread waits for the one that installed it.
CallsReturn == \A t \in Threads \ Stalled : <>Finished(t)
===============================================================================
