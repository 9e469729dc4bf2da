------------------------------ MODULE CtrieProofs ------------------------------
(***************************************************************************)
(* ConcurrentHashTrie is safe for any set of threads, any workloads, any   *)
(* keys and any hashes.  First its descriptors: one is decided once, and   *)
(* leaves its node only for the main node its outcome selects.  Then its   *)
(* shape: there is a history that gives every indirection node ever        *)
(* published a generation and a path, such that every main node and every  *)
(* register of every thread agrees with it.  Of this history follow the    *)
(* types of the shared fields, that the trie is well formed between any    *)
(* two accesses, and that a view keeps what it has reached.                *)
(***************************************************************************)
EXTENDS MCConcurrentHashTrie, FiniteSetTheorems, SequenceTheorems, WellFoundedInduction, TLAPS

-----------------------------------------------------------------------------
\* The inductive invariant.

\* A main node, not a descriptor.
Plain(m) == m.kind # "D"

\* A descriptor that was swapped into a node.
Installed(st, d) ==
    /\ d.kind = "D"
    /\ d.id \in DOMAIN st
    /\ Plain(d.before)
    /\ Plain(d.after)

\* An identity that thread t, with registers r, will use up in its next
\* publication.
Reserved(t, r, id) == id[1] = t /\ id[2] = r.seq

\* What Gcas is about to publish: its descriptor and new indirection nodes.
Offered(t, r) ==
    /\ r.desc.kind = "D"
    /\ Reserved(t, r, r.desc.id)
    /\ Plain(r.desc.before)
    /\ Plain(r.desc.after)
    /\ \A n \in DOMAIN r.fresh : Reserved(t, r, n) /\ Plain(r.fresh[n])

Registers == {"pc", "parent", "renewing", "desc", "fresh", "wish", "rdesc", "seq"}

\* The registers of thread t: it holds main nodes where it expects them, and a
\* descriptor it settles is decided.
ThreadOK(st, t, r) ==
    /\ Registers \subseteq DOMAIN r
    /\ r.seq \in Nat
    /\ r.parent # None => Plain(r.parent.main)
    /\ r.renewing # None => Plain(r.renewing)
    /\ r.pc = "install" => Offered(t, r)
    /\ r.pc # "install" /\ r.desc # None => Installed(st, r.desc)
    /\ r.pc = "status" => r.desc # None /\ r.wish # "Undecided"
    /\ r.pc = "settle" => r.desc # None /\ st[r.desc.id] # "Undecided"
    /\ r.pc = "rdInstall" => Reserved(t, r, r.rdesc.id) /\ Plain(r.rdesc.expected)

\* An identity that was used up.
Spent(id) ==
    \/ id[1] = None
    \/ id[1] \in Callers /\ id[2] \in Nat /\ id[2] < th[id[1]].seq

IdsSpent == \A id \in DOMAIN main \cup DOMAIN status : Spent(id)
DescriptorsInstalled == \A n \in DOMAIN main : main[n].kind = "D" => Installed(status, main[n])
ThreadsOK == DOMAIN th = Callers /\ \A t \in Callers : ThreadOK(status, t, th[t])

\* Nobody publishes under an identity in use, and every descriptor a thread
\* holds or meets is one of two main nodes.
TrieInv == IdsSpent /\ DescriptorsInstalled /\ ThreadsOK

-----------------------------------------------------------------------------
\* Steps.

\* No decision is taken back.
StatusKept(st, stt) ==
    \A d \in DOMAIN st : d \in DOMAIN stt /\ (st[d] # "Undecided" => stt[d] = st[d])

\* A descriptor leaves node n only for the node its outcome selects.
MainKept(m, mm) ==
    \A n \in DOMAIN m :
        m[n].kind = "D" /\ mm[n] # m[n] =>
            /\ status[m[n].id] # "Undecided"
            /\ mm[n] = Selected(m[n])

\* What DecisionsStable says of a step.
Keeps == StatusKept(status, status') /\ MainKept(main, main')

\* A thread is not disturbed by another's step.
LEMMA OthersKept ==
    ASSUME NEW st, NEW stt, StatusKept(st, stt), NEW u, NEW r, ThreadOK(st, u, r)
    PROVE  ThreadOK(stt, u, r)
<1>1. r.pc # "install" /\ r.desc # None => Installed(stt, r.desc)
  BY DEF StatusKept, ThreadOK, Installed
<1>2. r.pc = "settle" => r.desc # None /\ stt[r.desc.id] # "Undecided"
  BY DEF StatusKept, ThreadOK, Installed
<1> QED
  BY <1>1, <1>2 DEF ThreadOK

\* An identity thread t reserves is not in use.
LEMMA ReservedFresh ==
    ASSUME TrieInv, NEW t \in Callers, NEW id, Reserved(t, th[t], id)
    PROVE  id \notin DOMAIN main /\ id \notin DOMAIN status
<1>1. th[t].seq \in Nat
  BY DEF TrieInv, ThreadsOK, ThreadOK
<1>2. t # None
  BY CtrieAssumption DEF Callers
<1>3. ~Spent(id)
  BY <1>1, <1>2 DEF Spent, Reserved
<1> QED
  BY <1>3 DEF TrieInv, IdsSpent

\* A step of thread t that leaves its registers as r preserves the invariant
\* if r is as it should be, only t's reserved identities are used, and the
\* descriptors in main are installed.
LEMMA StepPreserves ==
    ASSUME TrieInv, NEW t \in Callers, NEW r, th' = [th EXCEPT ![t] = r],
           ThreadOK(status', t, r), StatusKept(status, status'),
           r.seq = th[t].seq \/ r.seq = th[t].seq + 1,
           \A id \in DOMAIN main' \cup DOMAIN status' :
               \/ id \in DOMAIN main \cup DOMAIN status
               \/ Reserved(t, th[t], id) /\ r.seq = th[t].seq + 1,
           DescriptorsInstalled'
    PROVE  TrieInv'
<1>1. DOMAIN th = Callers /\ DOMAIN th' = Callers /\ th'[t] = r
  BY DEF TrieInv, ThreadsOK
<1>2. \A u \in Callers : u # t => th'[u] = th[u]
  BY <1>1
<1>3. \A u \in Callers : ThreadOK(status, u, th[u])
  BY DEF TrieInv, ThreadsOK
<1>4. \A u \in Callers : ThreadOK(status', u, th'[u])
  <2> SUFFICES ASSUME NEW u \in Callers PROVE ThreadOK(status', u, th'[u])
    OBVIOUS
  <2>1. CASE u = t
    BY <2>1, <1>1
  <2>2. CASE u # t
    BY <2>2, <1>2, <1>3, OthersKept
  <2> QED
    BY <2>1, <2>2
<1>5. \A u \in Callers : th[u].seq \in Nat /\ th'[u].seq \in Nat /\ th[u].seq <= th'[u].seq
  <2> SUFFICES ASSUME NEW u \in Callers
               PROVE  th[u].seq \in Nat /\ th'[u].seq \in Nat /\ th[u].seq <= th'[u].seq
    OBVIOUS
  <2>1. th[u].seq \in Nat
    BY <1>3 DEF ThreadOK
  <2>2. CASE u = t
    BY <2>1, <2>2, <1>1
  <2>3. CASE u # t
    BY <2>1, <2>3, <1>2
  <2> QED
    BY <2>1, <2>2, <2>3
<1>6. ASSUME NEW id \in DOMAIN main' \cup DOMAIN status' PROVE Spent(id)'
  <2>1. CASE id \in DOMAIN main \cup DOMAIN status
    <3>1. Spent(id)
      BY <2>1 DEF TrieInv, IdsSpent
    <3> QED
      BY <3>1, <1>5 DEF Spent, Callers
  <2>2. CASE Reserved(t, th[t], id) /\ r.seq = th[t].seq + 1
    BY <2>2, <1>1, <1>5 DEF Spent, Reserved, Callers
  <2> QED
    BY <2>1, <2>2
<1> QED
  BY <1>1, <1>4, <1>6 DEF TrieInv, ThreadsOK, IdsSpent, Callers

\* A step that changes neither main nor status.
LEMMA QuietStep ==
    ASSUME TrieInv, NEW t \in Callers, NEW r, th' = [th EXCEPT ![t] = r],
           ThreadOK(status, t, r), r.seq = th[t].seq, UNCHANGED <<main, status>>
    PROVE  TrieInv' /\ Keeps
<1>1. StatusKept(status, status') /\ MainKept(main, main')
  BY DEF StatusKept, MainKept
<1>2. DescriptorsInstalled' /\ ThreadOK(status', t, r)
  BY DEF TrieInv, DescriptorsInstalled
<1>3. TrieInv'
  BY <1>1, <1>2, StepPreserves
<1> QED
  BY <1>1, <1>3 DEF Keeps

-----------------------------------------------------------------------------
\* Registers.

LEMMA IdleOK ==
    ASSUME NEW st, NEW t, NEW view, NEW seq \in Nat
    PROVE  ThreadOK(st, t, Idle(view, seq)) /\ Idle(view, seq).seq = seq
BY DEF ThreadOK, Idle, Registers

LEMMA RestartOK ==
    ASSUME NEW st, NEW t, NEW r, Registers \subseteq DOMAIN r, r.seq \in Nat
    PROVE  /\ ThreadOK(st, t, Restart(r)) /\ Restart(r).seq = r.seq
           /\ Restart(r).desc = None /\ Restart(r).parent = None /\ Restart(r).renewing = None
           /\ Restart(r).pc = "root"
BY DEF ThreadOK, Restart, Registers

\* A thread that changes registers the invariant does not speak of, and goes
\* on to an access that expects nothing of them.
LEMMA WanderOK ==
    ASSUME NEW st, NEW t, NEW r, ThreadOK(st, t, r), r.pc # "install", NEW s,
           Registers \subseteq DOMAIN s, s.seq = r.seq, s.desc = r.desc,
           s.parent # None => Plain(s.parent.main),
           s.renewing # None => Plain(s.renewing),
           s.pc \notin {"install", "status", "settle", "rdInstall"}
    PROVE  ThreadOK(st, t, s)
BY DEF ThreadOK

\* The registers of a thread between two steps.
LEMMA ThreadHas ==
    ASSUME TrieInv, NEW t \in Callers
    PROVE  ThreadOK(status, t, th[t]) /\ Registers \subseteq DOMAIN th[t] /\ th[t].seq \in Nat
BY DEF TrieInv, ThreadsOK, ThreadOK

LEMMA ProceedsKeeps ==
    ASSUME TrieInv, NEW t \in Callers, NEW r, Proceeds(t, r),
           ThreadOK(status, t, r), r.seq = th[t].seq
    PROVE  TrieInv' /\ Keeps
BY QuietStep DEF Proceeds, Become, shared

LEMMA ReturnsKeeps ==
    ASSUME TrieInv, NEW t \in Callers, NEW res, Returns(t, res)
    PROVE  TrieInv' /\ Keeps
<1> DEFINE r == Idle(th[t].view, th[t].seq)
<1>1. th[t].seq \in Nat
  BY ThreadHas
<1>2. ThreadOK(status, t, r) /\ r.seq = th[t].seq
  BY <1>1, IdleOK
<1>3. th' = [th EXCEPT ![t] = r] /\ UNCHANGED <<main, status>>
  BY DEF Returns, Answers, Become, shared
<1> HIDE DEF r
<1> QED
  BY <1>2, <1>3, QuietStep

LEMMA RestartsKeeps ==
    ASSUME TrieInv, NEW t \in Callers, Proceeds(t, Restart(th[t]))
    PROVE  TrieInv' /\ Keeps
<1>1. ThreadOK(status, t, Restart(th[t])) /\ Restart(th[t]).seq = th[t].seq
  BY ThreadHas, RestartOK
<1> QED
  BY <1>1, ProceedsKeeps

-----------------------------------------------------------------------------
\* Gcas and the nodes it is given.

\* New indirection nodes have reserved identities and hold main nodes.
FreshOK(t, fresh) == \A n \in DOMAIN fresh : Reserved(t, th[t], n) /\ Plain(fresh[n])

LEMMA GcasKeeps ==
    ASSUME TrieInv, NEW t \in Callers, NEW purpose, NEW node, NEW before, NEW after, NEW fresh,
           NEW ans, Gcas(t, purpose, node, before, after, fresh, ans),
           Plain(before), Plain(after), FreshOK(t, fresh)
    PROVE  TrieInv' /\ Keeps
<1> DEFINE d == Descriptor(NewId(t), before, after, th[t].root)
           r == [th[t] EXCEPT !.pc = "install", !.at = node, !.purpose = purpose,
                              !.renewing = None, !.fresh = fresh, !.ans = ans, !.desc = d]
<1>1. ThreadOK(status, t, th[t]) /\ Registers \subseteq DOMAIN th[t] /\ th[t].seq \in Nat
  BY ThreadHas
<1>2. d.kind = "D" /\ d.id = NewId(t) /\ d.before = before /\ d.after = after
  BY DEF Descriptor
<1> HIDE DEF d
<1>3. /\ Registers \subseteq DOMAIN r /\ r.seq = th[t].seq /\ r.pc = "install"
      /\ r.parent = th[t].parent /\ r.renewing = None /\ r.desc = d /\ r.fresh = fresh
  BY <1>1 DEF Registers
<1>4. Proceeds(t, r)
  BY DEF Gcas, d
<1> HIDE DEF r
<1>5. Offered(t, r)
  BY <1>2, <1>3 DEF Offered, FreshOK, Reserved, NewId
<1>6. ThreadOK(status, t, r)
  BY <1>1, <1>3, <1>5 DEF ThreadOK
<1> QED
  BY <1>3, <1>4, <1>6, ProceedsKeeps

LEMMA DecideKeeps ==
    ASSUME TrieInv, NEW t \in Callers, NEW dec, NEW val, NEW after, NEW fresh,
           Decide(t, dec, val, after, fresh),
           Plain(MainAt(t)), Plain(after), FreshOK(t, fresh)
    PROVE  TrieInv' /\ Keeps
<1> DEFINE res == MutationResult(th[t].call, dec.kind # "None",
                              IF dec.kind = "None" THEN val ELSE dec.result, dec.matched)
           purpose == IF dec.kind = "Remove" THEN "remove" ELSE "set"
<1>1. Returns(t, res) \/ Gcas(t, purpose, th[t].node, MainAt(t), after, fresh, res)
  BY DEF Decide
<1> HIDE DEF res, purpose
<1> QED
  BY <1>1, ReturnsKeeps, GcasKeeps

LEMMA NoFresh == ASSUME NEW t PROVE FreshOK(t, <<>>)
BY DEF FreshOK

LEMMA CNodePlain == ASSUME NEW id, NEW branches PROVE Plain(CNode(id, branches))
BY DEF Plain, CNode

LEMMA LNodePlain == ASSUME NEW id, NEW entries PROVE Plain(LNode(id, entries))
BY DEF Plain, LNode

LEMMA TNodePlain == ASSUME NEW id, NEW entry PROVE Plain(TNode(id, entry))
BY DEF Plain, TNode

LEMMA ContractPlain ==
    ASSUME NEW id, NEW branches, NEW isRoot PROVE Plain(Contract(id, branches, isRoot))
<1>1. \E i, b, e : Contract(id, branches, isRoot) \in {CNode(i, b), TNode(i, e)}
  BY DEF Contract, EmptyTNode
<1> QED
  BY <1>1, CNodePlain, TNodePlain

LEMMA ContractCollisionPlain ==
    ASSUME NEW id, NEW entries, NEW isRoot PROVE Plain(ContractCollision(id, entries, isRoot))
<1>1. \E i, b, e, s : ContractCollision(id, entries, isRoot) \in {CNode(i, b), TNode(i, e), LNode(i, s)}
  BY DEF ContractCollision, EmptyTNode, EmptyCNode
<1> QED
  BY <1>1, CNodePlain, TNodePlain, LNodePlain

\* The nodes MergeSingletons creates.
LEMMA MergeSingletonsFresh ==
    ASSUME NEW t, NEW first, NEW second, NEW level, NEW generation
    PROVE  FreshOK(t, MergeSingletons(NewId(t), first, second, level, generation).fresh)
<1> DEFINE h == Hash[first.key]
           g == Hash[second.key]
           split == IF h = g THEN level ELSE SplitLevel(h, g, level)
           id == NewId(t)
           Node(j) == INode(SlotId(id, j), generation)
           Content(j) ==
            IF h = g THEN LNode(SlotId(id, j), <<first, second>>)
            ELSE IF j = split
                 THEN CNode(SlotId(id, j), Put(Put([c \in {} |-> None], h[j], first), g[j], second))
                 ELSE CNode(SlotId(id, j), Put([c \in {} |-> None], h[j], Node(j + 1)))
           S == {SlotId(id, j) : j \in LevelsTo(level, split)}
           fresh == [n \in S |-> Content(n[3])]
<1>1. MergeSingletons(id, first, second, level, generation).fresh = fresh
  BY DEF MergeSingletons
<1>2. \A j : Plain(Content(j))
  <2> TAKE j
  <2> QED
    BY CNodePlain, LNodePlain
<1>3. \A n \in S : Reserved(t, th[t], n)
  BY DEF Reserved, SlotId, NewId
<1> HIDE DEF S, Content, h, g, split
<1>4. FreshOK(t, fresh)
  BY <1>2, <1>3 DEF FreshOK
<1> QED
  BY <1>1, <1>4

\* The nodes MergeCollision creates.
LEMMA MergeCollisionFresh ==
    ASSUME NEW t, NEW collision, Plain(collision), NEW single, NEW level, NEW generation
    PROVE  LET m == MergeCollision(NewId(t), collision, single, level, generation)
           IN  Plain(m.node) /\ FreshOK(t, m.fresh)
<1> DEFINE h == Hash[collision.entries[1].key]
           g == Hash[single.key]
           split == SplitLevel(h, g, level)
           id == NewId(t)
           Node(j) == INode(SlotId(id, j), generation)
           Content(j) ==
            IF j = split
            THEN CNode(SlotId(id, j), Put(Put([c \in {} |-> None], h[j], Node(j + 1)), g[j], single))
            ELSE CNode(SlotId(id, j), Put([c \in {} |-> None], h[j], Node(j + 1)))
           S == {SlotId(id, j) : j \in LevelsTo(level + 1, split + 1)}
           fresh == [n \in S |-> IF n[3] = split + 1 THEN collision ELSE Content(n[3])]
           m == MergeCollision(id, collision, single, level, generation)
<1>1. m.fresh = fresh /\ m.node = Content(level)
  BY DEF MergeCollision
<1>2. \A j : Plain(Content(j))
  <2> TAKE j
  <2> QED
    BY CNodePlain
<1>3. \A n \in S : Reserved(t, th[t], n)
  BY DEF Reserved, SlotId, NewId
<1> HIDE DEF S, Content, h, g, split
<1>4. FreshOK(t, fresh)
  BY <1>2, <1>3 DEF FreshOK
<1> HIDE DEF fresh
<1>5. Plain(m.node) /\ FreshOK(t, m.fresh)
  BY <1>1, <1>2, <1>4
<1> QED
  BY <1>5

-----------------------------------------------------------------------------
\* Steps that only read shared memory.

LEMMA InvokeKeeps ==
    ASSUME TrieInv, NEW t \in Callers, Invoke(t) PROVE TrieInv' /\ Keeps
<1> DEFINE q == Restart(th[t])
           call == NextCall(t)
           r == [q EXCEPT !.call = call, !.phase = PhaseOf(call)]
           v == th[t].view
           s == [r EXCEPT !.pc = "main", !.root = v, !.node = v.node.id,
                          !.at = v.node.id, !.walk.queue = <<v.node>>]
<1>1. /\ ThreadOK(status, t, q) /\ q.seq = th[t].seq /\ q.desc = None
      /\ q.parent = None /\ q.renewing = None /\ q.pc = "root"
  BY ThreadHas, RestartOK
<1>2. Proceeds(t, r) \/ Proceeds(t, s)
  BY DEF Invoke
<1> HIDE DEF q, call, v
<1>3. Registers \subseteq DOMAIN q
  BY <1>1 DEF ThreadOK
<1>4. /\ Registers \subseteq DOMAIN r /\ r.seq = q.seq /\ r.desc = None
      /\ r.parent = None /\ r.renewing = None /\ r.pc = "root"
  BY <1>1, <1>3 DEF Registers
<1> HIDE DEF r
<1>5. /\ Registers \subseteq DOMAIN s /\ s.seq = q.seq /\ s.desc = None
      /\ s.parent = None /\ s.renewing = None /\ s.pc = "main"
  BY <1>4 DEF Registers
<1> HIDE DEF s
<1>6. ThreadOK(status, t, r) /\ ThreadOK(status, t, s)
  BY <1>1, <1>4, <1>5, WanderOK
<1> QED
  BY <1>1, <1>2, <1>4, <1>5, <1>6, ProceedsKeeps

LEMMA ReadRootKeeps ==
    ASSUME TrieInv, NEW t \in Callers,
           \/ ReadRootMeetsSnapshot(t) \/ ReadRootBegins(t) \/ ReadRootCompletes(t)
    PROVE  TrieInv' /\ Keeps
<1> DEFINE a == [th[t] EXCEPT !.pc = "rdMain", !.rdesc = root]
           b == [th[t] EXCEPT !.pc = "main", !.root = root, !.node = root.node.id,
                              !.at = root.node.id]
           c == [th[t] EXCEPT !.pc = "status", !.wish = ProposedStatus(root, th[t].desc)]
<1>1. ThreadOK(status, t, th[t]) /\ Registers \subseteq DOMAIN th[t]
  BY ThreadHas
<1>2. th[t].pc = "root"
  BY DEF ReadRootMeetsSnapshot, ReadRootBegins, ReadRootCompletes
<1>3. CASE ReadRootMeetsSnapshot(t)
  <2>1. Proceeds(t, a)
    BY <1>3 DEF ReadRootMeetsSnapshot
  <2>2. ThreadOK(status, t, a) /\ a.seq = th[t].seq
    BY <1>1, <1>2 DEF ThreadOK, Registers
  <2> QED
    BY <2>1, <2>2, ProceedsKeeps
<1>4. CASE ReadRootBegins(t)
  <2>1. Proceeds(t, b)
    BY <1>4 DEF ReadRootBegins
  <2>2. ThreadOK(status, t, b) /\ b.seq = th[t].seq
    BY <1>1, <1>2 DEF ThreadOK, Registers
  <2> QED
    BY <2>1, <2>2, ProceedsKeeps
<1>5. CASE ReadRootCompletes(t)
  <2>1. Proceeds(t, c) /\ th[t].desc # None
    BY <1>5 DEF ReadRootCompletes
  <2>2. ProposedStatus(root, th[t].desc) # "Undecided"
    BY DEF ProposedStatus
  <2>3. ThreadOK(status, t, c) /\ c.seq = th[t].seq
    BY <1>1, <1>2, <2>1, <2>2 DEF ThreadOK, Registers
  <2> QED
    BY <2>1, <2>3, ProceedsKeeps
<1> QED
  BY <1>3, <1>4, <1>5

LEMMA RootCompleteMainKeeps ==
    ASSUME TrieInv, NEW t \in Callers, RootCompleteMain(t) PROVE TrieInv' /\ Keeps
<1> DEFINE w == ProposedRootStatus(main[th[t].rdesc.before.node.id], th[t].rdesc)
           r == [th[t] EXCEPT !.pc = "rdStatus", !.wish = w]
<1>1. ThreadOK(status, t, th[t]) /\ Registers \subseteq DOMAIN th[t]
  BY ThreadHas
<1>2. Proceeds(t, r) /\ th[t].pc = "rdMain"
  BY DEF RootCompleteMain
<1> HIDE DEF w
<1>3. ThreadOK(status, t, r) /\ r.seq = th[t].seq
  BY <1>1, <1>2 DEF ThreadOK, Registers
<1> QED
  BY <1>2, <1>3, ProceedsKeeps

LEMMA RootCompleteRootKeeps ==
    ASSUME TrieInv, NEW t \in Callers, RootCompleteRoot(t) PROVE TrieInv' /\ Keeps
<1> DEFINE rd == th[t].rdesc
           a == Idle(rd.before, th[t].seq)
           b == Restart(th[t])
           c == [th[t] EXCEPT !.pc = "root", !.rdesc = None]
<1>1. ThreadOK(status, t, th[t]) /\ Registers \subseteq DOMAIN th[t] /\ th[t].seq \in Nat
  BY ThreadHas
<1>2. /\ th[t].pc = "rdRoot" /\ UNCHANGED <<main, status>>
      /\ \E r \in {a, b, c} : th' = [th EXCEPT ![t] = r]
  BY DEF RootCompleteRoot, Become
<1>3. ThreadOK(status, t, a) /\ a.seq = th[t].seq
  BY <1>1, IdleOK
<1>4. ThreadOK(status, t, b) /\ b.seq = th[t].seq
  BY <1>1, RestartOK
<1>5. ThreadOK(status, t, c) /\ c.seq = th[t].seq
  BY <1>1, <1>2 DEF ThreadOK, Registers
<1> HIDE DEF a, b, c
<1> QED
  BY <1>2, <1>3, <1>4, <1>5, QuietStep

\* ReadMain meets a descriptor that is in its node.
LEMMA ReadMainMeetsDescriptorKeeps ==
    ASSUME TrieInv, NEW t \in Callers, ReadMainMeetsDescriptor(t) PROVE TrieInv' /\ Keeps
<1> DEFINE d == main[th[t].at]
           r == [th[t] EXCEPT !.pc = "root", !.desc = d]
<1>1. ThreadOK(status, t, th[t]) /\ Registers \subseteq DOMAIN th[t]
  BY ThreadHas
<1>2. Proceeds(t, r) /\ th[t].pc = "main" /\ th[t].at \in DOMAIN main /\ d.kind = "D"
  BY DEF ReadMainMeetsDescriptor, AtMain
<1>3. Installed(status, d)
  BY <1>2 DEF TrieInv, DescriptorsInstalled
<1> HIDE DEF d
<1>4. ThreadOK(status, t, r) /\ r.seq = th[t].seq
  BY <1>1, <1>2, <1>3 DEF ThreadOK, Registers
<1> QED
  BY <1>2, <1>4, ProceedsKeeps

LEMMA BumpKeeps ==
    ASSUME TrieInv, NEW t \in Callers, Bump(t) PROVE TrieInv' /\ Keeps
<1> DEFINE q == Restart(th[t])
           a == [q EXCEPT !.phase = "clean"]
           b == Idle(th[t].view, th[t].seq)
<1>1. th[t].seq \in Nat /\ Registers \subseteq DOMAIN th[t]
  BY ThreadHas
<1>2. /\ ThreadOK(status, t, q) /\ q.seq = th[t].seq /\ q.desc = None
      /\ q.parent = None /\ q.renewing = None /\ q.pc = "root"
  BY <1>1, RestartOK
<1>3. UNCHANGED <<main, status>> /\ \E r \in {a, b} : th' = [th EXCEPT ![t] = r]
  BY DEF Bump, Become, Answers
<1> HIDE DEF q
<1>4. /\ Registers \subseteq DOMAIN a /\ a.seq = q.seq /\ a.desc = q.desc
      /\ a.parent = None /\ a.renewing = None /\ a.pc = "root"
  BY <1>2 DEF Registers, ThreadOK
<1>5. ThreadOK(status, t, b) /\ b.seq = th[t].seq
  BY <1>1, IdleOK
<1> HIDE DEF a, b
<1>6. ThreadOK(status, t, a)
  BY <1>2, <1>4, WanderOK
<1> QED
  BY <1>2, <1>3, <1>4, <1>5, <1>6, QuietStep

-----------------------------------------------------------------------------
\* The walk and the decision at the key's node.

\* A main node was read.
LEMMA ReadsPlain ==
    ASSUME NEW t, NEW phases, ReadsMain(t, phases)
    PROVE  Plain(MainAt(t)) /\ th[t].pc = "main"
BY DEF ReadsMain, AtMain, Plain

LEMMA WalkKeeps ==
    ASSUME TrieInv, NEW t \in Callers, WalkDescends(t) \/ WalkMeetsOldChild(t)
    PROVE  TrieInv' /\ Keeps
<1> DEFINE p == [node |-> th[t].node, main |-> MainAt(t), chunk |-> ChunkOf(t)]
           child == BranchAt(t).id
           a == [th[t] EXCEPT !.parent = p, !.node = child, !.at = child, !.level = @ + 1]
           b == [th[t] EXCEPT !.renewing = MainAt(t), !.at = BranchAt(t).id]
<1>1. ThreadOK(status, t, th[t]) /\ Registers \subseteq DOMAIN th[t]
  BY ThreadHas
<1>2. Plain(MainAt(t)) /\ th[t].pc = "main"
  BY ReadsPlain DEF WalkDescends, WalkMeetsOldChild, Walking
<1>3. p.main = MainAt(t)
  OBVIOUS
<1> HIDE DEF p, child
<1>4. CASE WalkDescends(t)
  <2>1. Proceeds(t, a)
    BY <1>4 DEF WalkDescends, p, child
  <2>2. /\ Registers \subseteq DOMAIN a /\ a.seq = th[t].seq /\ a.desc = th[t].desc /\ a.pc = "main"
        /\ a.parent = p /\ a.renewing = th[t].renewing
    BY <1>1, <1>2 DEF Registers
  <2> HIDE DEF a
  <2>3. ThreadOK(status, t, a)
    BY <1>1, <1>2, <1>3, <2>2 DEF ThreadOK
  <2> QED
    BY <2>1, <2>2, <2>3, ProceedsKeeps
<1>5. CASE WalkMeetsOldChild(t)
  <2>1. Proceeds(t, b)
    BY <1>5 DEF WalkMeetsOldChild
  <2>2. /\ Registers \subseteq DOMAIN b /\ b.seq = th[t].seq /\ b.desc = th[t].desc /\ b.pc = "main"
        /\ b.parent = th[t].parent /\ b.renewing = MainAt(t)
    BY <1>1, <1>2 DEF Registers
  <2> HIDE DEF b
  <2>3. ThreadOK(status, t, b)
    BY <1>1, <1>2, <2>2 DEF ThreadOK
  <2> QED
    BY <2>1, <2>2, <2>3, ProceedsKeeps
<1> QED
  BY <1>4, <1>5

LEMMA WalkMeetsTombKeeps ==
    ASSUME TrieInv, NEW t \in Callers, WalkMeetsTomb(t) PROVE TrieInv' /\ Keeps
<1> DEFINE p == th[t].parent
           entry == MainAt(t).entry
           cleaned == IF entry = None THEN Drop(p.main.branches, p.chunk)
                      ELSE Put(p.main.branches, p.chunk, entry)
           after == Contract(NewId(t), cleaned, AtRoot(t, p.node))
<1>1. Gcas(t, "tomb", p.node, p.main, after, <<>>, th[t].ans) /\ p # None
  BY DEF WalkMeetsTomb
<1>2. Plain(after)
  BY ContractPlain
<1>3. Plain(p.main)
  BY <1>1, ThreadHas DEF ThreadOK
<1> HIDE DEF p, after
<1> QED
  BY <1>1, <1>2, <1>3, NoFresh, GcasKeeps

LEMMA WalkRenewsChildKeeps ==
    ASSUME TrieInv, NEW t \in Callers, WalkRenewsChild(t) PROVE TrieInv' /\ Keeps
<1> DEFINE cnode == th[t].renewing
           id == SlotId(NewId(t), 1)
           renewed == INode(id, th[t].root.id)
           after == CNode(NewId(t), Put(cnode.branches, ChunkOf(t), renewed))
           fresh == [n \in {id} |-> MainAt(t)]
<1>1. Gcas(t, "renew", th[t].node, cnode, after, fresh, th[t].ans) /\ cnode # None
  BY DEF WalkRenewsChild
<1>2. Plain(after)
  BY CNodePlain
<1>3. Plain(cnode)
  BY <1>1, ThreadHas DEF ThreadOK
<1>4. Plain(MainAt(t))
  BY ReadsPlain DEF WalkRenewsChild
<1>5. Reserved(t, th[t], id)
  BY DEF Reserved, SlotId, NewId
<1> HIDE DEF cnode, after, id
<1>6. FreshOK(t, fresh)
  BY <1>4, <1>5 DEF FreshOK
<1> HIDE DEF fresh
<1> QED
  BY <1>1, <1>2, <1>3, <1>6, GcasKeeps

LEMMA MutateCollisionKeeps ==
    ASSUME TrieInv, NEW t \in Callers, MutateCollision(t) PROVE TrieInv' /\ Keeps
<1> DEFINE m == MainAt(t)
           call == th[t].call
           index == Find(m.entries, call.key)
           exists == index >= 0
           current == IF exists THEN m.entries[index].val ELSE NoValue
           dec == Transform(call, exists, current)
           id == NewId(t)
           entry == SNode(call.key, dec.val)
           merged == MergeCollision(id, m, entry, th[t].level, th[t].root.id)
           a == ContractCollision(id, RemoveAt(m.entries, index), AtRoot(t, th[t].node))
           b == LNode(id, [m.entries EXCEPT ![index] = entry])
           c == LNode(id, Append(m.entries, entry))
<1>1. \/ Decide(t, dec, current, a, <<>>) \/ Decide(t, dec, current, b, <<>>)
      \/ Decide(t, dec, current, c, <<>>) \/ Decide(t, dec, current, merged.node, merged.fresh)
  BY DEF MutateCollision
<1>2. Plain(MainAt(t))
  BY ReadsPlain DEF MutateCollision, Walking
<1>3. Plain(a) /\ Plain(b) /\ Plain(c)
  BY ContractCollisionPlain, LNodePlain
<1>4. Plain(merged.node) /\ FreshOK(t, merged.fresh)
  BY <1>2, MergeCollisionFresh
<1> HIDE DEF a, b, c, merged, current, dec
<1> QED
  BY <1>1, <1>2, <1>3, <1>4, NoFresh, DecideKeeps

LEMMA MutateVacantKeeps ==
    ASSUME TrieInv, NEW t \in Callers, MutateVacant(t) PROVE TrieInv' /\ Keeps
<1> DEFINE dec == Transform(th[t].call, FALSE, NoValue)
           entry == SNode(th[t].call.key, dec.val)
           after == CNode(NewId(t), Put(MainAt(t).branches, ChunkOf(t), entry))
<1>1. Decide(t, dec, dec.result, after, <<>>)
  BY DEF MutateVacant
<1>2. Plain(MainAt(t)) /\ Plain(after)
  BY ReadsPlain, CNodePlain DEF MutateVacant, Walking
<1> HIDE DEF dec, after
<1> QED
  BY <1>1, <1>2, NoFresh, DecideKeeps

LEMMA MutateSingletonKeeps ==
    ASSUME TrieInv, NEW t \in Callers, MutateSingleton(t) PROVE TrieInv' /\ Keeps
<1> DEFINE current == BranchAt(t).val
           branches == MainAt(t).branches
           dec == Transform(th[t].call, TRUE, current)
           val == IF dec.result = NoValue THEN current ELSE dec.result
           a == Contract(NewId(t), Drop(branches, ChunkOf(t)), AtRoot(t, th[t].node))
           b == CNode(NewId(t), Put(branches, ChunkOf(t), SNode(BranchAt(t).key, dec.val)))
           after == IF dec.kind = "Remove" THEN a ELSE b
<1>1. Decide(t, dec, val, after, <<>>)
  BY DEF MutateSingleton
<1>2. Plain(MainAt(t))
  BY ReadsPlain DEF MutateSingleton, Walking
<1>3. Plain(a) /\ Plain(b)
  BY ContractPlain, CNodePlain
<1> HIDE DEF dec, val, a, b
<1>4. Plain(after)
  BY <1>3
<1> HIDE DEF after
<1> QED
  BY <1>1, <1>2, <1>4, NoFresh, DecideKeeps

LEMMA MutateSplitsKeeps ==
    ASSUME TrieInv, NEW t \in Callers, MutateSplits(t) PROVE TrieInv' /\ Keeps
<1> DEFINE dec == Transform(th[t].call, FALSE, NoValue)
           merged == MergeSingletons(NewId(t), BranchAt(t), SNode(th[t].call.key, dec.val),
                                     th[t].level + 1, th[t].root.id)
           after == CNode(NewId(t), Put(MainAt(t).branches, ChunkOf(t), merged.branch))
<1>1. Decide(t, dec, dec.result, after, merged.fresh)
  BY DEF MutateSplits
<1>2. Plain(MainAt(t)) /\ Plain(after)
  BY ReadsPlain, CNodePlain DEF MutateSplits, Walking
<1>3. FreshOK(t, merged.fresh)
  BY MergeSingletonsFresh
<1> HIDE DEF dec, merged, after
<1> QED
  BY <1>1, <1>2, <1>3, DecideKeeps

LEMMA CleanTombsReturnsKeeps ==
    ASSUME TrieInv, NEW t \in Callers, CleanTombsReturns(t) PROVE TrieInv' /\ Keeps
BY ReturnsKeeps DEF CleanTombsReturns

-----------------------------------------------------------------------------
\* TryGetValue, Clear, Snapshot and the enumeration of a view.

LEMMA LookupKeeps ==
    ASSUME TrieInv, NEW t \in Callers, LookupReturns(t) \/ LookupDescends(t) \/ ClearFindsEmpty(t)
    PROVE  TrieInv' /\ Keeps
<1>1. CASE LookupReturns(t)
  BY <1>1, ReturnsKeeps DEF LookupReturns
<1>2. CASE LookupDescends(t)
  <2> DEFINE child == BranchAt(t).id
             r == [th[t] EXCEPT !.node = child, !.at = child, !.level = @ + 1]
  <2>1. Proceeds(t, r) /\ th[t].pc = "main"
    BY <1>2, ReadsPlain DEF LookupDescends
  <2> HIDE DEF child
  <2>2. ThreadOK(status, t, th[t]) /\ Registers \subseteq DOMAIN th[t]
    BY ThreadHas
  <2>3. ThreadOK(status, t, r) /\ r.seq = th[t].seq
    BY <2>1, <2>2 DEF ThreadOK, Registers
  <2> QED
    BY <2>1, <2>3, ProceedsKeeps
<1>3. CASE ClearFindsEmpty(t)
  BY <1>3, ReturnsKeeps DEF ClearFindsEmpty
<1> QED
  BY <1>1, <1>2, <1>3

LEMMA ClearReplacesKeeps ==
    ASSUME TrieInv, NEW t \in Callers, ClearReplaces(t) PROVE TrieInv' /\ Keeps
<1>1. Gcas(t, "clear", th[t].node, MainAt(t), EmptyCNode, <<>>, Done(TRUE))
  BY DEF ClearReplaces
<1>2. Plain(MainAt(t)) /\ Plain(EmptyCNode)
  BY ReadsPlain, CNodePlain DEF ClearReplaces, EmptyCNode
<1> QED
  BY <1>1, <1>2, NoFresh, GcasKeeps

LEMMA SnapshotReadsMainKeeps ==
    ASSUME TrieInv, NEW t \in Callers, SnapshotReadsMain(t) PROVE TrieInv' /\ Keeps
<1> DEFINE rd == RootDescriptor(NewId(t), th[t].root, MainAt(t), Root(NewId(t)))
           r == [th[t] EXCEPT !.pc = "rdInstall", !.rdesc = rd]
<1>1. ThreadOK(status, t, th[t]) /\ Registers \subseteq DOMAIN th[t]
  BY ThreadHas
<1>2. Proceeds(t, r) /\ th[t].pc = "main" /\ Plain(MainAt(t))
  BY ReadsPlain DEF SnapshotReadsMain
<1>3. rd.id = NewId(t) /\ rd.expected = MainAt(t)
  BY DEF RootDescriptor
<1> HIDE DEF rd
<1>4. /\ Registers \subseteq DOMAIN r /\ r.seq = th[t].seq /\ r.desc = th[t].desc /\ r.rdesc = rd
      /\ r.pc = "rdInstall" /\ r.parent = th[t].parent /\ r.renewing = th[t].renewing
  BY <1>1 DEF Registers
<1> HIDE DEF r
<1>5. Reserved(t, r, r.rdesc.id)
  BY <1>3, <1>4 DEF Reserved, NewId
<1>6. ThreadOK(status, t, r)
  BY <1>1, <1>2, <1>3, <1>4, <1>5 DEF ThreadOK
<1> QED
  BY <1>2, <1>4, <1>6, ProceedsKeeps

\* A thread enumerating a view goes on.
LEMMA WalksOn ==
    ASSUME TrieInv, NEW t \in Callers, th[t].pc \in {"main", "scan"}, NEW w,
           \/ Scans(t, w) \/ (\E phase, node : Enters(t, phase, node, w)) \/ EnumerateNext(t, w)
    PROVE  TrieInv' /\ Keeps
<1>1. ThreadOK(status, t, th[t]) /\ Registers \subseteq DOMAIN th[t]
  BY ThreadHas
<1>2. CASE Scans(t, w)
  <2> DEFINE r == [th[t] EXCEPT !.pc = "scan", !.walk = w]
  <2>1. Proceeds(t, r)
    BY <1>2 DEF Scans
  <2>2. ThreadOK(status, t, r) /\ r.seq = th[t].seq
    BY <1>1 DEF ThreadOK, Registers
  <2> QED
    BY <2>1, <2>2, ProceedsKeeps
<1>3. ASSUME NEW phase, NEW node, Enters(t, phase, node, w) PROVE TrieInv' /\ Keeps
  <2> DEFINE r == [th[t] EXCEPT !.pc = "main", !.phase = phase, !.at = node.id, !.walk = w]
  <2>1. Proceeds(t, r)
    BY <1>3 DEF Enters
  <2>2. ThreadOK(status, t, r) /\ r.seq = th[t].seq
    BY <1>1 DEF ThreadOK, Registers
  <2> QED
    BY <2>1, <2>2, ProceedsKeeps
<1>4. CASE EnumerateNext(t, w)
  BY <1>3, <1>4, ReturnsKeeps DEF EnumerateNext
<1> QED
  BY <1>2, <1>3, <1>4

LEMMA EnumerateKeeps ==
    ASSUME TrieInv, NEW t \in Callers,
           \/ EnumerateLeaf(t) \/ EnumerateCNode(t) \/ ScanFinishes(t) \/ ScanBranch(t)
           \/ ClassifyMain(t)
    PROVE  TrieInv' /\ Keeps
<1>1. th[t].pc \in {"main", "scan"}
  BY DEF EnumerateLeaf, EnumerateCNode, ScanFinishes, ScanBranch, ClassifyMain, ReadsMain, AtMain
<1>2. \E w : \/ Scans(t, w) \/ (\E phase, node : Enters(t, phase, node, w)) \/ EnumerateNext(t, w)
  <2>1. CASE EnumerateLeaf(t)
    BY <2>1 DEF EnumerateLeaf
  <2>2. CASE EnumerateCNode(t)
    BY <2>2 DEF EnumerateCNode
  <2>3. CASE ScanFinishes(t)
    BY <2>3 DEF ScanFinishes
  <2>4. CASE ScanBranch(t)
    BY <2>4 DEF ScanBranch
  <2>5. CASE ClassifyMain(t)
    BY <2>5 DEF ClassifyMain
  <2> QED
    BY <2>1, <2>2, <2>3, <2>4, <2>5
<1> QED
  BY <1>1, <1>2, WalksOn

-----------------------------------------------------------------------------
\* The compare-and-swaps.

LEMMA LosesKeeps ==
    ASSUME TrieInv, NEW t \in Callers, GcasLoses(t) \/ SnapshotLoses(t) PROVE TrieInv' /\ Keeps
BY RestartsKeeps DEF GcasLoses, SnapshotLoses

\* Gcas puts its descriptor where a main node was, under a new identity.
LEMMA GcasInstallsKeeps ==
    ASSUME TrieInv, NEW t \in Callers, GcasInstalls(t) PROVE TrieInv' /\ Keeps
<1> DEFINE r == th[t]
           d == r.desc
           s == [r EXCEPT !.pc = "root", !.seq = @ + 1, !.fresh = <<>>]
<1>1. ThreadOK(status, t, r) /\ Registers \subseteq DOMAIN r /\ r.seq \in Nat
  BY ThreadHas
<1>2. /\ r.pc = "install" /\ main[r.at] = d.before
      /\ main' = [n \in DOMAIN main \cup DOMAIN r.fresh |->
                    IF n = r.at THEN d ELSE IF n \in DOMAIN r.fresh THEN r.fresh[n] ELSE main[n]]
      /\ status' = [i \in DOMAIN status \cup {d.id} |-> IF i = d.id THEN "Undecided" ELSE status[i]]
      /\ th' = [th EXCEPT ![t] = s]
  BY DEF GcasInstalls, Become
<1>3. /\ d.kind = "D" /\ Reserved(t, r, d.id) /\ Plain(d.before) /\ Plain(d.after)
      /\ \A n \in DOMAIN r.fresh : Reserved(t, r, n) /\ Plain(r.fresh[n])
  BY <1>1, <1>2 DEF ThreadOK, Offered
<1>4. d.id \notin DOMAIN status /\ \A n \in DOMAIN r.fresh : n \notin DOMAIN main
  BY <1>3, ReservedFresh
<1>5. StatusKept(status, status')
  BY <1>2, <1>4 DEF StatusKept
<1>6. MainKept(main, main')
  BY <1>2, <1>3, <1>4 DEF MainKept, Plain
<1>7. Installed(status', d)
  BY <1>2, <1>3 DEF Installed
<1>8. DescriptorsInstalled'
  <2> SUFFICES ASSUME NEW n \in DOMAIN main', main'[n].kind = "D"
               PROVE  Installed(status', main'[n])
    BY DEF DescriptorsInstalled
  <2>1. CASE n = r.at
    BY <2>1, <1>2, <1>7
  <2>2. CASE n # r.at /\ n \in DOMAIN r.fresh
    BY <2>2, <1>2, <1>3 DEF Plain
  <2>3. CASE n # r.at /\ n \notin DOMAIN r.fresh
    <3>1. n \in DOMAIN main /\ main'[n] = main[n]
      BY <2>3, <1>2
    <3>2. Installed(status, main[n])
      BY <3>1 DEF TrieInv, DescriptorsInstalled
    <3> QED
      BY <3>1, <3>2, <1>5 DEF Installed, StatusKept
  <2> QED
    BY <2>1, <2>2, <2>3
<1>9. /\ Registers \subseteq DOMAIN s /\ s.seq = r.seq + 1 /\ s.pc = "root" /\ s.desc = d
      /\ s.parent = r.parent /\ s.renewing = r.renewing
  BY <1>1 DEF Registers
<1>10. \A id \in DOMAIN main' \cup DOMAIN status' :
          \/ id \in DOMAIN main \cup DOMAIN status
          \/ Reserved(t, th[t], id) /\ s.seq = th[t].seq + 1
  BY <1>2, <1>3, <1>9
<1> HIDE DEF s
<1>11. ThreadOK(status', t, s)
  BY <1>1, <1>7, <1>9 DEF ThreadOK
<1>12. TrieInv'
  BY <1>2, <1>5, <1>8, <1>9, <1>10, <1>11, StepPreserves
<1> QED
  BY <1>5, <1>6, <1>12 DEF Keeps

\* Snapshot's descriptor takes the new root's node and its status along.
LEMMA SnapshotInstallsKeeps ==
    ASSUME TrieInv, NEW t \in Callers, SnapshotInstalls(t) PROVE TrieInv' /\ Keeps
<1> DEFINE r == th[t]
           rd == r.rdesc
           s == [r EXCEPT !.pc = "rdMain", !.seq = @ + 1]
<1>1. ThreadOK(status, t, r) /\ Registers \subseteq DOMAIN r /\ r.seq \in Nat
  BY ThreadHas
<1>2. /\ r.pc = "rdInstall"
      /\ main' = [n \in DOMAIN main \cup {rd.id} |-> IF n = rd.id THEN rd.expected ELSE main[n]]
      /\ status' = [i \in DOMAIN status \cup {rd.id} |-> IF i = rd.id THEN "Undecided" ELSE status[i]]
      /\ th' = [th EXCEPT ![t] = s]
  BY DEF SnapshotInstalls, Become
<1>3. Reserved(t, r, rd.id) /\ Plain(rd.expected)
  BY <1>1, <1>2 DEF ThreadOK
<1>4. rd.id \notin DOMAIN status /\ rd.id \notin DOMAIN main
  BY <1>3, ReservedFresh
<1>5. StatusKept(status, status')
  BY <1>2, <1>4 DEF StatusKept
<1>6. MainKept(main, main')
  BY <1>2, <1>4 DEF MainKept
<1>7. DescriptorsInstalled'
  <2> SUFFICES ASSUME NEW n \in DOMAIN main', main'[n].kind = "D"
               PROVE  Installed(status', main'[n])
    BY DEF DescriptorsInstalled
  <2>1. n # rd.id
    BY <1>2, <1>3 DEF Plain
  <2>2. n \in DOMAIN main /\ main'[n] = main[n]
    BY <2>1, <1>2
  <2>3. Installed(status, main[n])
    BY <2>2 DEF TrieInv, DescriptorsInstalled
  <2> QED
    BY <2>2, <2>3, <1>5 DEF Installed, StatusKept
<1>8. /\ Registers \subseteq DOMAIN s /\ s.seq = r.seq + 1 /\ s.pc = "rdMain" /\ s.desc = r.desc
      /\ s.parent = r.parent /\ s.renewing = r.renewing
  BY <1>1 DEF Registers
<1>9. \A id \in DOMAIN main' \cup DOMAIN status' :
          \/ id \in DOMAIN main \cup DOMAIN status
          \/ Reserved(t, th[t], id) /\ s.seq = th[t].seq + 1
  BY <1>2, <1>3, <1>8
<1> HIDE DEF s
<1>10. ThreadOK(status', t, r)
  BY <1>1, <1>5, OthersKept
<1>11. ThreadOK(status', t, s)
  BY <1>1, <1>2, <1>8, <1>10 DEF ThreadOK
<1>12. TrieInv'
  BY <1>2, <1>5, <1>7, <1>8, <1>9, <1>11, StepPreserves
<1> QED
  BY <1>5, <1>6, <1>12 DEF Keeps

\* The swap of Undecided decides at most an undecided descriptor.
LEMMA DecidedKeeps ==
    ASSUME NEW id, NEW wish, status' = [status EXCEPT ![id] = Decided(id, wish)]
    PROVE  StatusKept(status, status') /\ DOMAIN status' = DOMAIN status
BY DEF StatusKept, Decided

\* A step that decides: main stays, the descriptors in it stay installed.
LEMMA DecidingStep ==
    ASSUME TrieInv, NEW t \in Callers, NEW r, th' = [th EXCEPT ![t] = r],
           ThreadOK(status', t, r), r.seq = th[t].seq, main' = main,
           StatusKept(status, status'), DOMAIN status' = DOMAIN status
    PROVE  TrieInv' /\ Keeps
<1>1. MainKept(main, main')
  BY DEF MainKept
<1>2. DescriptorsInstalled'
  BY DEF TrieInv, DescriptorsInstalled, Installed
<1>3. TrieInv'
  BY <1>2, StepPreserves
<1> QED
  BY <1>1, <1>3 DEF Keeps

LEMMA RootCompleteStatusKeeps ==
    ASSUME TrieInv, NEW t \in Callers, RootCompleteStatus(t) PROVE TrieInv' /\ Keeps
<1> DEFINE r == th[t]
           s == [r EXCEPT !.pc = "rdRoot", !.wish = "none"]
<1>1. ThreadOK(status, t, r) /\ Registers \subseteq DOMAIN r
  BY ThreadHas
<1>2. /\ r.pc = "rdStatus" /\ main' = main /\ th' = [th EXCEPT ![t] = s]
      /\ status' = [status EXCEPT ![r.rdesc.id] = Decided(r.rdesc.id, r.wish)]
  BY DEF RootCompleteStatus, Become
<1>3. StatusKept(status, status') /\ DOMAIN status' = DOMAIN status
  BY <1>2, DecidedKeeps
<1>4. ThreadOK(status', t, r)
  BY <1>1, <1>3, OthersKept
<1>5. ThreadOK(status', t, s) /\ s.seq = r.seq
  BY <1>1, <1>2, <1>4 DEF ThreadOK, Registers
<1> HIDE DEF s
<1> QED
  BY <1>2, <1>3, <1>5, DecidingStep

\* After the compare-and-swap of a status the descriptor is decided, and its
\* owner goes on by the outcome.
LEMMA CompleteStatusKeeps ==
    ASSUME TrieInv, NEW t \in Callers, CompleteStatus(t) PROVE TrieInv' /\ Keeps
<1> DEFINE r == th[t]
           d == r.desc
           decided == Decided(d.id, r.wish)
           a == [r EXCEPT !.pc = "settle", !.wish = "none"]
           b == GcasCommitted(r)
           c == Restart(r)
<1>1. ThreadOK(status, t, r) /\ Registers \subseteq DOMAIN r /\ r.seq \in Nat
  BY ThreadHas
<1>2. /\ r.pc = "status" /\ main' = main /\ \E s \in {a, b, c} : th' = [th EXCEPT ![t] = s]
      /\ status' = [status EXCEPT ![d.id] = decided]
  BY DEF CompleteStatus, Become
<1>3. StatusKept(status, status') /\ DOMAIN status' = DOMAIN status
  BY <1>2, DecidedKeeps
<1>4. ThreadOK(status', t, r)
  BY <1>1, <1>3, OthersKept
<1>5. d # None /\ r.wish # "Undecided" /\ Installed(status, d) /\ Installed(status', d)
  BY <1>1, <1>2, <1>4 DEF ThreadOK
<1>6. status'[d.id] # "Undecided"
  BY <1>2, <1>5 DEF Installed, Decided
<1>7. ThreadOK(status', t, c) /\ c.seq = r.seq
  BY <1>1, RestartOK
<1>8. ThreadOK(status', t, a) /\ a.seq = r.seq
  <2>1. /\ Registers \subseteq DOMAIN a /\ a.seq = r.seq /\ a.pc = "settle" /\ a.desc = d
        /\ a.parent = r.parent /\ a.renewing = r.renewing
    BY <1>1 DEF Registers
  <2> HIDE DEF a
  <2> QED
    BY <2>1, <1>4, <1>5, <1>6 DEF ThreadOK
<1>9. ThreadOK(status', t, b) /\ b.seq = r.seq
  <2>1. CASE r.purpose = "tomb"
    <3>1. b = Restart(r)
      BY <2>1 DEF GcasCommitted
    <3> QED
      BY <3>1, <1>1, RestartOK
  <2>2. CASE r.purpose = "renew"
    <3> DEFINE ch == Hash[r.call.key][r.level]
               child == d.after.branches[ch].id
               p == [node |-> r.node, main |-> d.after, chunk |-> ch]
               e == [r EXCEPT !.pc = "main", !.desc = None, !.purpose = "none", !.wish = "none",
                              !.parent = p, !.node = child, !.at = child, !.level = @ + 1]
    <3>1. b = e
      BY <2>2 DEF GcasCommitted
    <3>2. p.main = d.after
      OBVIOUS
    <3> HIDE DEF ch, child, p
    <3>3. /\ Registers \subseteq DOMAIN e /\ e.seq = r.seq /\ e.pc = "main" /\ e.desc = None
          /\ e.parent = p /\ e.renewing = r.renewing
      BY <1>1 DEF Registers
    <3> HIDE DEF e, b
    <3>4. ThreadOK(status', t, e)
      BY <3>2, <3>3, <1>4, <1>5 DEF ThreadOK, Installed
    <3> QED
      BY <3>1, <3>3, <3>4
  <2>3. CASE r.purpose \notin {"tomb", "renew"}
    <3> DEFINE e == [r EXCEPT !.pc = "bump", !.wish = "none"]
    <3>1. b = e
      BY <2>3 DEF GcasCommitted
    <3>2. /\ Registers \subseteq DOMAIN e /\ e.seq = r.seq /\ e.pc = "bump" /\ e.desc = d
          /\ e.parent = r.parent /\ e.renewing = r.renewing
      BY <1>1 DEF Registers
    <3> HIDE DEF e, b
    <3>3. ThreadOK(status', t, e)
      BY <3>2, <1>4, <1>5 DEF ThreadOK
    <3> QED
      BY <3>1, <3>2, <3>3
  <2> QED
    BY <2>1, <2>2, <2>3
<1> HIDE DEF a, b, c
<1> QED
  BY <1>2, <1>3, <1>7, <1>8, <1>9, DecidingStep

\* ReadMain takes a decided descriptor out.
LEMMA ReadMainSettlesKeeps ==
    ASSUME TrieInv, NEW t \in Callers, ReadMainSettles(t) PROVE TrieInv' /\ Keeps
<1> DEFINE r == th[t]
           d == r.desc
           s == [r EXCEPT !.pc = "main", !.desc = None]
<1>1. ThreadOK(status, t, r) /\ Registers \subseteq DOMAIN r
  BY ThreadHas
<1>2. /\ r.pc = "settle" /\ status' = status /\ th' = [th EXCEPT ![t] = s]
      /\ main' = [main EXCEPT ![r.at] = IF main[r.at] = d THEN Selected(d) ELSE main[r.at]]
  BY DEF ReadMainSettles, Become
<1>3. Installed(status, d) /\ status[d.id] # "Undecided"
  BY <1>1, <1>2 DEF ThreadOK
<1>4. Plain(Selected(d))
  BY <1>3 DEF Installed, Selected
<1>5. \A n \in DOMAIN main : main'[n] = main[n] \/ (main[n] = d /\ main'[n] = Selected(d))
  BY <1>2
<1>6. StatusKept(status, status') /\ DOMAIN main' = DOMAIN main
  BY <1>2 DEF StatusKept
<1>7. MainKept(main, main')
  BY <1>3, <1>5 DEF MainKept
<1>8. DescriptorsInstalled'
  <2> SUFFICES ASSUME NEW n \in DOMAIN main, main'[n].kind = "D"
               PROVE  Installed(status', main'[n])
    BY <1>6 DEF DescriptorsInstalled
  <2>1. main'[n] = main[n]
    BY <1>4, <1>5 DEF Plain
  <2> QED
    BY <2>1, <1>2 DEF TrieInv, DescriptorsInstalled
<1>9. ThreadOK(status', t, s) /\ s.seq = r.seq
  BY <1>1, <1>2 DEF ThreadOK, Registers
<1> HIDE DEF s
<1>10. TrieInv'
  BY <1>2, <1>6, <1>8, <1>9, StepPreserves
<1> QED
  BY <1>6, <1>7, <1>10 DEF Keeps

-----------------------------------------------------------------------------
\* The specification.

LEMMA InitOK == ASSUME Init PROVE TrieInv
<1>1. IdsSpent
  BY DEF Init, IdsSpent, Spent, StaticId
<1>2. DescriptorsInstalled
  BY CNodePlain DEF Init, DescriptorsInstalled, EmptyCNode, Plain
<1>3. ThreadsOK
  BY IdleOK DEF Init, ThreadsOK
<1> QED
  BY <1>1, <1>2, <1>3 DEF TrieInv

LEMMA UnchangedKeeps ==
    ASSUME TrieInv, UNCHANGED <<main, status, th>> PROVE TrieInv' /\ Keeps
BY DEF TrieInv, IdsSpent, Spent, DescriptorsInstalled, ThreadsOK, Keeps, StatusKept, MainKept, Callers

LEMMA StepKeeps ==
    ASSUME TrieInv, NEW t \in Callers, Step(t) PROVE TrieInv' /\ Keeps
BY InvokeKeeps, ReadRootKeeps, RootCompleteMainKeeps, RootCompleteStatusKeeps,
   RootCompleteRootKeeps, GcasInstallsKeeps, LosesKeeps, CompleteStatusKeeps,
   ReadMainMeetsDescriptorKeeps, ReadMainSettlesKeeps, WalkMeetsTombKeeps, WalkKeeps,
   WalkRenewsChildKeeps, MutateCollisionKeeps, MutateVacantKeeps, MutateSingletonKeeps,
   MutateSplitsKeeps, BumpKeeps, CleanTombsReturnsKeeps, LookupKeeps, ClearReplacesKeeps,
   SnapshotReadsMainKeeps, SnapshotInstallsKeeps, EnumerateKeeps DEF Step

LEMMA NextKeeps == ASSUME TrieInv, [Next]_vars PROVE TrieInv' /\ Keeps
<1>1. CASE UNCHANGED <<main, status, th>>
  BY <1>1, UnchangedKeeps
<1>2. CASE \E t \in Callers : Step(t)
  BY <1>2, StepKeeps
<1> QED
  BY <1>1, <1>2 DEF Next, Publish, Terminated, vars

\* TrieInv holds in every state, for any set of threads and any workload.
THEOREM TrieInvariance == Spec => []TrieInv
<1>1. Init => TrieInv
  BY InitOK
<1>2. TrieInv /\ [Next]_vars => TrieInv'
  BY NextKeeps
<1> QED
  BY <1>1, <1>2, PTL DEF Spec

\* DecisionsStable for any set of threads, any workload and any hashes: of the
\* helpers that compare and swap one Status the first decides, and ReadMain
\* replaces a descriptor by the node that decision selects.
THEOREM DecisionsFinal == Spec => DecisionsStable
<1>1. TrieInv /\ [Next]_vars => Keeps
  BY NextKeeps
<1>2. Keeps => /\ \A d \in DOMAIN status :
                    /\ d \in DOMAIN status'
                    /\ status[d] # "Undecided" => status'[d] = status[d]
               /\ \A n \in DOMAIN main :
                    main[n].kind = "D" /\ main'[n] # main[n] =>
                      /\ status[main[n].id] # "Undecided"
                      /\ main'[n] = Selected(main[n])
  BY DEF Keeps, StatusKept, MainKept
<1> QED
  BY <1>1, <1>2, TrieInvariance, PTL DEF Spec, DecisionsStable

-----------------------------------------------------------------------------
(* The shape of the trie.                                                  *)
(*                                                                         *)
(* W is a history of the publications: it maps every indirection node ever *)
(* published to the generation it was created in and the chunks that lead  *)
(* to it.  Neither ever changes, whatever the main nodes do.               *)

Paths == {p \in Seq(Nat) : Len(p) <= Levels}

\* Key k is in the partition that path p leads to.
OnPath(p, k) == \A i \in 1 .. Len(p) : Hash[k][i] = p[i]

Single(s, p) == s.kind = "S" /\ s.key \in Keys /\ OnPath(p, s.key)

\* An indirection node is where its parent's branch leads.
Child(W, b, p) == b.kind = "I" /\ b.id \in DOMAIN W /\ W[b.id] = [gen |-> b.gen, path |-> p]

BranchFits(W, p, b) == Single(b, p) \/ Child(W, b, p)

BranchesFit(W, p, branches) ==
    /\ Len(p) < Levels
    /\ IsFiniteSet(DOMAIN branches) /\ DOMAIN branches \subseteq Nat
    /\ \A c \in DOMAIN branches : BranchFits(W, Append(p, c), branches[c])

\* Only the root's C-node may be empty or hold one singleton.
Compressed(branches) ==
    /\ DOMAIN branches # {}
    /\ \A c \in DOMAIN branches : DOMAIN branches = {c} => branches[c].kind = "I"

CNodeFits(W, p, branches) == BranchesFit(W, p, branches) /\ (p # <<>> => Compressed(branches))

\* Different keys of one hash, all on path p.
Bucket(p, entries) ==
    /\ \E S : entries \in Seq(S)
    /\ \A i \in 1 .. Len(entries) : Single(entries[i], p)
    /\ \A i, j \in 1 .. Len(entries) :
          /\ Hash[entries[i].key] = Hash[entries[j].key]
          /\ entries[i].key = entries[j].key => i = j

\* m is what a node at path p may hold.
Fits(W, p, m) ==
    \/ m.kind = "C" /\ CNodeFits(W, p, m.branches)
    \/ m.kind = "L" /\ Bucket(p, m.entries) /\ Len(m.entries) >= 2
    \/ m.kind = "T" /\ p # <<>> /\ Single(m.entry, p)

\* Below a node of generation g are nodes of g and of roots that views keep.
Gens(R, g, m) ==
    m.kind = "C" => \A c \in DOMAIN m.branches :
                        m.branches[c].kind = "I" => m.branches[c].gen \in {g} \cup R

\* Roots that were ever current, and those that are so no more.
Active == {StaticId} \cup {d \in DOMAIN main : d \in DOMAIN status /\ status[d] = "Committed"}
Retired == Active \ {CurrentRoot.id}

RootAt(W, A, x) ==
    /\ x = Root(x.id)
    /\ x.id \in A
    /\ x.id \in DOMAIN W /\ W[x.id] = [gen |-> x.id, path |-> <<>>]

Holds(W, A, R, n, m) == Fits(W, W[n].path, m) /\ (W[n].gen \in A => Gens(R, W[n].gen, m))

\* A descriptor in node n belongs to n's generation.
DescHolds(W, A, R, n, d) ==
    /\ Holds(W, A, R, n, d.before)
    /\ Holds(W, A, R, n, d.after)
    /\ d.root.id = W[n].gen
    /\ W[n].gen \in A
    /\ d.id \notin DOMAIN W

MainHolds(W, A, R, n, m) ==
    IF m.kind = "D" THEN DescHolds(W, A, R, n, m) ELSE Holds(W, A, R, n, m)

PlaceOK(A, n, w) ==
    /\ w.path \in Paths
    /\ w.path = <<>> <=> n = w.gen
    /\ w.gen \in A \/ n = w.gen

\* A root descriptor that was swapped in; it is in _root until it is decided.
RootDescHolds(W, A, R, st, rt, rd) ==
    /\ rd.kind = "RD"
    /\ rd.id \in DOMAIN st /\ rd.id # StaticId
    /\ RootAt(W, A, rd.before)
    /\ rd.after = Root(rd.id)
    /\ rd.id \in DOMAIN W /\ W[rd.id] = [gen |-> rd.id, path |-> <<>>]
    /\ st[rd.id] = "Undecided" => rt = rd
    /\ st[rd.id] = "Committed" => rd.before.id \in R

-----------------------------------------------------------------------------
\* The registers of a thread in the middle of an operation.

Descends == {"mutate", "clean"}
OpPhases == Descends \cup {"clear", "snapshot"}
Helping == {"rdMain", "rdStatus", "rdRoot"}

\* The operation has read the root it works under.
Begun(r) ==
    \/ r.pc \in {"main", "install", "status", "settle", "rdInstall"}
    \/ r.pc \in {"root"} \cup Helping /\ r.desc # None

Chunk(r) == Hash[r.call.key][r.level]

\* m is a C-node with a branch to an indirection node at chunk c.
Leads(m, c) == m.kind = "C" /\ c \in DOMAIN m.branches /\ m.branches[c].kind = "I"

\* A main node that was read from, or is going to, a node n of generation g.
NodeFits(W, R, g, n, m) ==
    n \in DOMAIN W /\ W[n].gen = g /\ Fits(W, W[n].path, m) /\ Gens(R, g, m)

\* The parent has a branch to the thread's node.
ParentFits(W, R, g, p, node) ==
    /\ NodeFits(W, R, g, p.node, p.main)
    /\ Leads(p.main, p.chunk) /\ p.main.branches[p.chunk].id = node

\* The branch that is renewed is of an older generation.
RenewingFits(W, R, r) ==
    /\ r.purpose = "none"
    /\ NodeFits(W, R, r.root.id, r.node, r.renewing)
    /\ Leads(r.renewing, Chunk(r))
    /\ r.renewing.branches[Chunk(r)].gen # r.root.id
    /\ r.renewing.branches[Chunk(r)].id = r.at

\* The new C-node has a branch to the copy.
RenewedFits(W, R, r) ==
    /\ Leads(r.desc.after, Chunk(r))
    /\ r.desc.after.branches[Chunk(r)].gen = r.root.id
    /\ r.pc # "install" => NodeFits(W, R, r.root.id, r.node, r.desc.after)

\* Mutate and CleanTombs are where the key's hash leads.
WalkFits(W, R, r) ==
    /\ r.level = Len(W[r.node].path) + 1
    /\ OnPath(W[r.node].path, r.call.key)
    /\ r.renewing = None /\ r.purpose = "none" => r.at = r.node
    /\ r.renewing # None => RenewingFits(W, R, r)
    /\ r.parent # None => ParentFits(W, R, r.root.id, r.parent, r.node)
    /\ r.purpose = "renew" => RenewedFits(W, R, r)

OpFits(W, A, R, r) ==
    /\ RootAt(W, A, r.root)
    /\ r.node \in DOMAIN W /\ W[r.node].gen = r.root.id
    /\ r.phase \notin Descends => r.node = r.root.id /\ r.at = r.node
    /\ r.phase \in Descends => WalkFits(W, R, r)

Join(W, V) == [n \in DOMAIN W \cup DOMAIN V |-> IF n \in DOMAIN V THEN V[n] ELSE W[n]]

\* The new nodes fit together at the places V gives them.
FreshFits(W, R, g, fresh, V) ==
    /\ DOMAIN V = DOMAIN fresh
    /\ \A n \in DOMAIN V :
          /\ V[n].gen = g /\ V[n].path \in Paths /\ V[n].path # <<>>
          /\ Fits(Join(W, V), V[n].path, fresh[n]) /\ Gens(R, g, fresh[n])

\* What Gcas is about to publish fits where it goes.
OfferFits(W, R, r, V) ==
    /\ r.at \in DOMAIN W /\ W[r.at].gen = r.root.id
    /\ r.desc.root = r.root
    /\ r.purpose = "renew" => r.at = r.node
    /\ Fits(Join(W, V), W[r.at].path, r.desc.after) /\ Gens(R, r.root.id, r.desc.after)
    /\ FreshFits(W, R, r.root.id, r.fresh, V)
    /\ r.desc.id \notin DOMAIN V

\* What Snapshot is about to publish.
SnapshotFits(W, A, R, r) ==
    /\ r.phase \notin Descends
    /\ r.rdesc.kind = "RD"
    /\ RootAt(W, A, r.rdesc.before) /\ r.rdesc.after = Root(r.rdesc.id)
    /\ Fits(W, <<>>, r.rdesc.expected) /\ Gens(R, r.rdesc.before.id, r.rdesc.expected)

Outcomes == {"Committed", "Aborted"}
AllRegisters == {"pc", "phase", "call", "root", "node", "at", "level", "parent", "renewing", "desc",
                 "fresh", "purpose", "wish", "rdesc", "ans", "walk", "view", "seq"}

\* What the call and the place in it say of the registers.
OpState(W, A, R, r) ==
    /\ r.phase = "mutate" => r.call.op \in MutateOps
    /\ r.phase \in OpPhases => r.call.key \in Keys
    /\ r.pc = "scan" => r.phase \notin OpPhases
    /\ r.phase \in Descends /\ ~Begun(r) /\ r.pc # "bump" =>
          r.level = 1 /\ r.parent = None /\ r.renewing = None
    /\ r.phase \in OpPhases /\ Begun(r) => OpFits(W, A, R, r)

\* A Gcas is under way while a purpose is set.
GcasState(W, R, r) ==
    /\ r.purpose # "none" =>
          /\ r.phase \in OpPhases /\ r.desc # None
          /\ r.pc \in {"install", "root", "status", "bump"} \cup Helping
    /\ r.purpose = "renew" => r.phase \in Descends
    /\ r.pc # "install" /\ r.desc # None => r.desc.id \notin DOMAIN W
    /\ r.pc = "install" => r.phase \in OpPhases /\ \E V : OfferFits(W, R, r, V)
    /\ r.pc \in {"status", "rdStatus"} => r.wish \in Outcomes

RootState(W, A, R, st, rt, r) ==
    /\ r.pc \in Helping => RootDescHolds(W, A, R, st, rt, r.rdesc)
    /\ r.pc = "rdRoot" => st[r.rdesc.id] # "Undecided"
    /\ r.pc = "rdInstall" => SnapshotFits(W, A, R, r)
    /\ r.view # None => RootAt(W, A, r.view) /\ r.view.id \in R

RegistersFit(W, A, R, st, rt, r) ==
    /\ AllRegisters \subseteq DOMAIN r
    /\ OpState(W, A, R, r)
    /\ GcasState(W, R, r)
    /\ RootState(W, A, R, st, rt, r)

-----------------------------------------------------------------------------
\* The inductive invariant.

\* The node a snapshot in progress offers as the new root belongs to nobody yet.
CurrentOK(W) ==
    /\ root.kind \in {"R", "RD"}
    /\ RootAt(W, Active, CurrentRoot)
    /\ root.kind = "RD" =>
          /\ RootDescHolds(W, Active, Retired, status, root, root)
          /\ status[root.id] = "Undecided" =>
                main[root.id].kind # "D" /\ Gens(Retired, root.before.id, main[root.id])

PlacesOK(W) == \A n \in DOMAIN W : PlaceOK(Active, n, W[n])
NodesHold(W) == \A n \in DOMAIN W : MainHolds(W, Active, Retired, n, main[n])
ThreadsFit(W) == \A t \in Callers : RegistersFit(W, Active, Retired, status, root, th[t])

ShapeInv(W) ==
    /\ DOMAIN W = DOMAIN main
    /\ StaticId \in DOMAIN W
    /\ PlacesOK(W)
    /\ NodesHold(W)
    /\ CurrentOK(W)
    /\ ThreadsFit(W)

ScalarsOK ==
    /\ \A d \in DOMAIN status : status[d] \in Statuses
    /\ revision \in Nat
    /\ live \in BOOLEAN
    /\ script \in Scripts
    /\ DOMAIN log = Callers /\ \A t \in Callers : \E S : log[t] \in Seq(S)

\* Descriptors are told apart by their identities.
DescriptorsUnique ==
    \A n \in DOMAIN main : main[n].kind = "D" =>
        /\ \A k \in DOMAIN main : main[k].kind = "D" /\ main[k].id = main[n].id => main[k] = main[n]
        /\ \A t \in Callers :
              th[t].pc # "install" /\ th[t].desc # None /\ th[t].desc.id = main[n].id =>
                  th[t].desc = main[n]

\* Node n, of a generation that is current no more, holds m, and the descriptor
\* of a late writer does not change that.
KeptAt(n, m) ==
    \/ main[n] = m
    \/ /\ main[n].kind = "D" /\ main[n].before = m
       /\ status[main[n].id] # "Committed"
       /\ \A t \in Callers :
             th[t].pc = "status" /\ th[t].desc.id = main[n].id => th[t].wish # "Committed"

FrozenAt(W, n, m) == n \in DOMAIN W /\ W[n].gen \in Retired /\ m.kind # "D" /\ KeptAt(n, m)
AllFrozen(W, f) == \A n \in DOMAIN f : FrozenAt(W, n, f[n])

\* The invariant for the main nodes f that views have been seen to reach.
CoreInv(W, f) == ShapeInv(W) /\ DescriptorsUnique /\ AllFrozen(W, f)

-----------------------------------------------------------------------------
\* Paths.

LEMMA PathAppend ==
    ASSUME NEW p \in Paths, NEW c \in Nat, Len(p) < Levels
    PROVE  /\ Append(p, c) \in Paths /\ Append(p, c) # <<>> /\ Len(Append(p, c)) = Len(p) + 1
           /\ Append(p, c)[Len(p) + 1] = c
           /\ \A i \in 1 .. Len(p) : Append(p, c)[i] = p[i]
<1>1. Levels \in Nat
  BY CtrieAssumption
<1>2. p \in Seq(Nat) /\ Len(p) \in Nat
  BY DEF Paths
<1>3. /\ Append(p, c) \in Seq(Nat) /\ Append(p, c) # <<>> /\ Len(Append(p, c)) = Len(p) + 1
      /\ Append(p, c)[Len(p) + 1] = c /\ \A i \in 1 .. Len(p) : Append(p, c)[i] = p[i]
  BY <1>2, AppendProperties
<1> QED
  BY <1>1, <1>2, <1>3 DEF Paths

\* A key is on a path when it is on the path above and in the last chunk.
LEMMA OnPathAppend ==
    ASSUME NEW p \in Paths, NEW c \in Nat, Len(p) < Levels, NEW k
    PROVE  OnPath(Append(p, c), k) <=> OnPath(p, k) /\ Hash[k][Len(p) + 1] = c
<1>1. Len(p) \in Nat
  BY DEF Paths
<1>2. /\ Append(p, c) \in Paths /\ Len(Append(p, c)) = Len(p) + 1
      /\ Append(p, c)[Len(p) + 1] = c /\ \A i \in 1 .. Len(p) : Append(p, c)[i] = p[i]
  BY PathAppend
<1> DEFINE q == Append(p, c)
<1> HIDE DEF q
<1>3. /\ Len(q) = Len(p) + 1 /\ q[Len(p) + 1] = c /\ \A i \in 1 .. Len(p) : q[i] = p[i]
  BY <1>2 DEF q
<1>4. OnPath(q, k) <=> OnPath(p, k) /\ Hash[k][Len(p) + 1] = c
  BY <1>1, <1>3 DEF OnPath
<1> QED
  BY <1>4 DEF q

LEMMA EveryKeyAtRoot == ASSUME NEW k PROVE OnPath(<<>>, k) /\ <<>> \in Paths /\ Len(<<>>) = 0
BY CtrieAssumption DEF OnPath, Paths

\* The first n chunks of a hash.
LEMMA HashPrefix ==
    ASSUME NEW k \in Keys, NEW n \in 0 .. Levels
    PROVE  LET p == SubSeq(Hash[k], 1, n)
           IN  /\ p \in Paths /\ Len(p) = n
               /\ \A i \in 1 .. n : p[i] = Hash[k][i] /\ Hash[k][i] \in Nat
               /\ n # 0 => p # <<>>
<1>1. Levels \in Nat /\ Hash[k] \in [1 .. Levels -> Nat]
  BY CtrieAssumption
<1>2. Hash[k] \in Seq(Nat) /\ Len(Hash[k]) = Levels
  BY <1>1, IsASeq
<1> DEFINE h == Hash[k]
           p == SubSeq(h, 1, n)
<1> HIDE DEF h
<1>3. p \in Seq(Nat) /\ Len(p) = n /\ \A i \in 1 .. n : p[i] = h[i]
  BY <1>1, <1>2, SubSeqProperties DEF h
<1>4. \A i \in 1 .. n : h[i] \in Nat
  BY <1>1 DEF h
<1> HIDE DEF p
<1>5. n # 0 => p # <<>>
  BY <1>3
<1> QED
  BY <1>1, <1>3, <1>4, <1>5 DEF Paths, h, p

\* Two paths that lead to the same keys' chunks are equal.
LEMMA PathsEqual ==
    ASSUME NEW p \in Paths, NEW q \in Paths, Len(p) = Len(q), \A i \in 1 .. Len(p) : p[i] = q[i]
    PROVE  p = q
BY SeqEqual DEF Paths

-----------------------------------------------------------------------------
\* The predicates grow with the trie.

\* Every publication is remembered.
Extends(W, WW) == DOMAIN W \subseteq DOMAIN WW /\ \A n \in DOMAIN W : WW[n] = W[n]

LEMMA ChildGrows ==
    ASSUME NEW W, NEW WW, Extends(W, WW), NEW b, NEW p, BranchFits(W, p, b)
    PROVE  BranchFits(WW, p, b)
BY DEF Extends, BranchFits, Child

LEMMA FitsGrows ==
    ASSUME NEW W, NEW WW, Extends(W, WW), NEW p, NEW m, Fits(W, p, m)
    PROVE  Fits(WW, p, m)
<1>1. ASSUME NEW branches, BranchesFit(W, p, branches) PROVE BranchesFit(WW, p, branches)
  BY <1>1, ChildGrows DEF BranchesFit
<1> QED
  BY <1>1 DEF Fits, CNodeFits

LEMMA GensGrows ==
    ASSUME NEW R, NEW RR, R \subseteq RR, NEW g, NEW m, Gens(R, g, m)
    PROVE  Gens(RR, g, m)
BY DEF Gens

LEMMA RootAtGrows ==
    ASSUME NEW W, NEW WW, Extends(W, WW), NEW A, NEW AA, A \subseteq AA, NEW x, RootAt(W, A, x)
    PROVE  RootAt(WW, AA, x)
BY DEF Extends, RootAt

LEMMA NodeFitsGrows ==
    ASSUME NEW W, NEW WW, Extends(W, WW), NEW R, NEW RR, R \subseteq RR, NEW g, NEW n, NEW m,
           NodeFits(W, R, g, n, m)
    PROVE  NodeFits(WW, RR, g, n, m)
<1>1. n \in DOMAIN W /\ W[n].gen = g /\ Fits(W, W[n].path, m) /\ Gens(R, g, m)
  BY DEF NodeFits
<1>2. n \in DOMAIN WW /\ WW[n] = W[n]
  BY <1>1 DEF Extends
<1>3. Fits(WW, W[n].path, m) /\ Gens(RR, g, m)
  BY <1>1, FitsGrows, GensGrows
<1> QED
  BY <1>1, <1>2, <1>3 DEF NodeFits

LEMMA OpFitsGrows ==
    ASSUME NEW W, NEW WW, Extends(W, WW), NEW A, NEW AA, A \subseteq AA, NEW R, NEW RR, R \subseteq RR,
           NEW r, OpFits(W, A, R, r)
    PROVE  OpFits(WW, AA, RR, r)
<1>1. RootAt(WW, AA, r.root)
  BY RootAtGrows DEF OpFits
<1>2. r.node \in DOMAIN W /\ r.node \in DOMAIN WW /\ WW[r.node] = W[r.node] /\ W[r.node].gen = r.root.id
  BY DEF OpFits, Extends
<1>3. ASSUME WalkFits(W, R, r) PROVE WalkFits(WW, RR, r)
  <2>1. r.renewing # None => RenewingFits(WW, RR, r)
    BY <1>3, NodeFitsGrows DEF WalkFits, RenewingFits
  <2>2. r.parent # None => ParentFits(WW, RR, r.root.id, r.parent, r.node)
    BY <1>3, NodeFitsGrows DEF WalkFits, ParentFits
  <2>3. r.purpose = "renew" => RenewedFits(WW, RR, r)
    BY <1>3, NodeFitsGrows DEF WalkFits, RenewedFits
  <2> QED
    BY <1>2, <1>3, <2>1, <2>2, <2>3 DEF WalkFits
<1> QED
  BY <1>1, <1>2, <1>3 DEF OpFits

LEMMA JoinGrows ==
    ASSUME NEW W, NEW WW, Extends(W, WW), NEW V
    PROVE  Extends(Join(W, V), Join(WW, V))
BY DEF Extends, Join

LEMMA JoinExtends ==
    ASSUME NEW W, NEW V, \A n \in DOMAIN V : n \notin DOMAIN W
    PROVE  Extends(W, Join(W, V))
BY DEF Extends, Join

LEMMA OfferFitsGrows ==
    ASSUME NEW W, NEW WW, Extends(W, WW), NEW R, NEW RR, R \subseteq RR, NEW r, NEW V,
           OfferFits(W, R, r, V)
    PROVE  OfferFits(WW, RR, r, V)
<1>1. Extends(Join(W, V), Join(WW, V))
  BY JoinGrows
<1>2. r.at \in DOMAIN W /\ r.at \in DOMAIN WW /\ WW[r.at] = W[r.at]
  BY DEF OfferFits, Extends
<1>3. Fits(Join(WW, V), W[r.at].path, r.desc.after) /\ Gens(RR, r.root.id, r.desc.after)
  BY <1>1, FitsGrows, GensGrows DEF OfferFits
<1>4. FreshFits(WW, RR, r.root.id, r.fresh, V)
  BY <1>1, FitsGrows, GensGrows DEF OfferFits, FreshFits
<1> QED
  BY <1>2, <1>3, <1>4 DEF OfferFits

-----------------------------------------------------------------------------
\* The other threads.

\* What a step adds to the trie does not disturb a thread that takes no part.
Grows(W, A, R, st, rt, WW, AA, RR, stt, rtt) ==
    /\ Extends(W, WW) /\ A \subseteq AA /\ R \subseteq RR
    /\ StatusKept(st, stt)
    /\ \A n \in DOMAIN WW : n \in DOMAIN st => n \in DOMAIN W
    /\ \A rd : RootDescHolds(W, A, R, st, rt, rd) => RootDescHolds(WW, AA, RR, stt, rtt, rd)

LEMMA OthersFit ==
    ASSUME NEW W, NEW A, NEW R, NEW st, NEW rt, NEW WW, NEW AA, NEW RR, NEW stt, NEW rtt,
           Grows(W, A, R, st, rt, WW, AA, RR, stt, rtt),
           NEW u, NEW r, ThreadOK(st, u, r), RegistersFit(W, A, R, st, rt, r)
    PROVE  RegistersFit(WW, AA, RR, stt, rtt, r)
<1>1. Extends(W, WW) /\ A \subseteq AA /\ R \subseteq RR /\ StatusKept(st, stt)
  BY DEF Grows
<1>2. OpState(WW, AA, RR, r)
  BY <1>1, OpFitsGrows DEF OpState, RegistersFit
<1>3. GcasState(WW, RR, r)
  <2>1. r.pc # "install" /\ r.desc # None => r.desc.id \in DOMAIN st /\ r.desc.id \notin DOMAIN W
    BY DEF ThreadOK, Installed, RegistersFit, GcasState
  <2>2. r.pc # "install" /\ r.desc # None => r.desc.id \notin DOMAIN WW
    BY <2>1 DEF Grows
  <2>3. ASSUME r.pc = "install" PROVE \E V : OfferFits(WW, RR, r, V)
    <3>1. PICK V : OfferFits(W, R, r, V)
      BY <2>3 DEF RegistersFit, GcasState
    <3>2. OfferFits(WW, RR, r, V)
      BY <1>1, <3>1, OfferFitsGrows
    <3> QED
      BY <3>2
  <2> QED
    BY <2>2, <2>3 DEF RegistersFit, GcasState
<1>4. RootState(WW, AA, RR, stt, rtt, r)
  <2>1. r.pc \in Helping => RootDescHolds(WW, AA, RR, stt, rtt, r.rdesc)
    BY DEF Grows, RegistersFit, RootState
  <2>2. r.pc = "rdRoot" => r.rdesc.id \in DOMAIN st /\ st[r.rdesc.id] # "Undecided"
    BY DEF RegistersFit, RootState, RootDescHolds, Helping
  <2>3. r.pc = "rdRoot" => stt[r.rdesc.id] # "Undecided"
    BY <1>1, <2>2 DEF StatusKept
  <2>4. r.pc = "rdInstall" => SnapshotFits(WW, AA, RR, r)
    BY <1>1, RootAtGrows, FitsGrows, GensGrows DEF RegistersFit, RootState, SnapshotFits
  <2>5. r.view # None => RootAt(WW, AA, r.view) /\ r.view.id \in RR
    BY <1>1, RootAtGrows DEF RegistersFit, RootState
  <2> QED
    BY <2>1, <2>3, <2>4, <2>5 DEF RootState
<1> QED
  BY <1>2, <1>3, <1>4 DEF RegistersFit

\* A step that publishes no root and decides none.
LEMMA SameGrows ==
    ASSUME NEW W, NEW A, NEW R, NEW st, NEW rt, NEW WW, NEW stt,
           Extends(W, WW), StatusKept(st, stt),
           \A n \in DOMAIN WW : n \in DOMAIN st => n \in DOMAIN W,
           \A n \in DOMAIN W : n \in DOMAIN st => stt[n] = st[n]
    PROVE  Grows(W, A, R, st, rt, WW, A, R, stt, rt)
<1>1. ASSUME NEW rd, RootDescHolds(W, A, R, st, rt, rd)
      PROVE  RootDescHolds(WW, A, R, stt, rt, rd)
  <2>1. RootAt(WW, A, rd.before)
    BY <1>1, RootAtGrows DEF RootDescHolds
  <2>2. rd.id \in DOMAIN W /\ rd.id \in DOMAIN WW /\ WW[rd.id] = W[rd.id]
    BY <1>1 DEF RootDescHolds, Extends
  <2>3. rd.id \in DOMAIN st /\ rd.id \in DOMAIN stt /\ stt[rd.id] = st[rd.id]
    BY <1>1, <2>2 DEF RootDescHolds, StatusKept
  <2> QED
    BY <1>1, <2>1, <2>2, <2>3 DEF RootDescHolds
<1> QED
  BY <1>1 DEF Grows

\* The registers of all threads after a step of thread t.
LEMMA ThreadsStep ==
    ASSUME TrieInv, NEW W, ThreadsFit(W), NEW WW, NEW t \in Callers, NEW r,
           th' = [th EXCEPT ![t] = r],
           Grows(W, Active, Retired, status, root, WW, Active', Retired', status', root'),
           RegistersFit(WW, Active', Retired', status', root', r)
    PROVE  ThreadsFit(WW)'
<1>1. DOMAIN th = Callers
  BY DEF TrieInv, ThreadsOK
<1>2. ASSUME NEW u \in Callers PROVE RegistersFit(WW, Active', Retired', status', root', th'[u])
  <2>1. CASE u = t
    BY <1>1, <2>1
  <2>2. CASE u # t
    <3>1. th'[u] = th[u]
      BY <1>1, <2>2
    <3>2. ThreadOK(status, u, th[u]) /\ RegistersFit(W, Active, Retired, status, root, th[u])
      BY ThreadHas DEF ThreadsFit
    <3> QED
      BY <3>1, <3>2, OthersFit
  <2> QED
    BY <2>1, <2>2
<1> QED
  BY <1>2 DEF ThreadsFit, Callers

-----------------------------------------------------------------------------
\* Steps that only read shared memory.

\* A step of thread t that leaves its registers as r and decides nothing.
DescQuiet(q, r) ==
    /\ r.pc # "status"
    /\ r.pc = "install" \/ r.desc = None \/ (r.desc = q.desc /\ q.pc # "install")

LEMMA QuietShape ==
    ASSUME TrieInv, NEW W, ShapeInv(W), NEW t \in Callers, NEW r, th' = [th EXCEPT ![t] = r],
           UNCHANGED <<root, main, status>>, RegistersFit(W, Active, Retired, status, root, r)
    PROVE  ShapeInv(W)' /\ Retired' = Retired
<1>1. CurrentRoot' = CurrentRoot
  BY DEF CurrentRoot, SelectedRoot
<1>2. Active' = Active /\ Retired' = Retired
  BY <1>1 DEF Active, Retired
<1>3. Grows(W, Active, Retired, status, root, W, Active', Retired', status', root')
  BY <1>2, SameGrows DEF Extends, StatusKept
<1>4. ThreadsFit(W)'
  BY <1>2, <1>3, ThreadsStep DEF ShapeInv
<1>5. PlacesOK(W)' /\ NodesHold(W)' /\ CurrentOK(W)'
  BY <1>1, <1>2 DEF ShapeInv, PlacesOK, NodesHold, CurrentOK
<1> QED
  BY <1>2, <1>4, <1>5 DEF ShapeInv

LEMMA QuietCore ==
    ASSUME TrieInv, NEW W, NEW f, CoreInv(W, f), NEW t \in Callers, NEW r, th' = [th EXCEPT ![t] = r],
           UNCHANGED <<root, main, status>>, RegistersFit(W, Active, Retired, status, root, r),
           DescQuiet(th[t], r)
    PROVE  CoreInv(W, f)'
<1>1. ShapeInv(W)' /\ Retired' = Retired
  BY QuietShape DEF CoreInv
<1>2. DOMAIN th = Callers
  BY DEF TrieInv, ThreadsOK
<1>3. \A u \in Callers : th'[u] = IF u = t THEN r ELSE th[u]
  BY <1>2
<1>4. DescriptorsUnique'
  BY <1>3 DEF CoreInv, DescriptorsUnique, DescQuiet, Callers
<1>5. ASSUME NEW n, NEW m, KeptAt(n, m) PROVE KeptAt(n, m)'
  BY <1>3, <1>5 DEF KeptAt, DescQuiet, Callers
<1>6. AllFrozen(W, f)'
  BY <1>1, <1>5 DEF CoreInv, AllFrozen, FrozenAt
<1> QED
  BY <1>1, <1>4, <1>6 DEF CoreInv

\* What thread t's registers are known to be.
LEMMA CoreHas ==
    ASSUME NEW W, NEW f, CoreInv(W, f), NEW t \in Callers
    PROVE  /\ RegistersFit(W, Active, Retired, status, root, th[t])
           /\ AllRegisters \subseteq DOMAIN th[t]
BY DEF CoreInv, ShapeInv, ThreadsFit, RegistersFit

LEMMA ProceedsCore ==
    ASSUME TrieInv, NEW W, NEW f, CoreInv(W, f), NEW t \in Callers, NEW r, Proceeds(t, r),
           RegistersFit(W, Active, Retired, status, root, r), DescQuiet(th[t], r)
    PROVE  CoreInv(W, f)'
BY QuietCore DEF Proceeds, Become, shared

\* Idle threads hold a view at most.
LEMMA IdleFits ==
    ASSUME NEW W, NEW A, NEW R, NEW st, NEW rt, NEW view, NEW seq,
           view # None => RootAt(W, A, view) /\ view.id \in R
    PROVE  RegistersFit(W, A, R, st, rt, Idle(view, seq)) /\ Idle(view, seq).pc = "idle"
           /\ Idle(view, seq).desc = None
<1> DEFINE s == Idle(view, seq)
<1>1. /\ AllRegisters \subseteq DOMAIN s /\ s.pc = "idle" /\ s.phase = "none" /\ s.purpose = "none"
      /\ s.desc = None /\ s.view = view
  BY DEF Idle, AllRegisters
<1> HIDE DEF s
<1>2. OpState(W, A, R, s) /\ GcasState(W, R, s) /\ RootState(W, A, R, st, rt, s)
  BY <1>1 DEF OpState, GcasState, RootState, OpPhases, Descends, Helping
<1> QED
  BY <1>1, <1>2 DEF RegistersFit, s

\* An operation that starts over has no place in the trie.
LEMMA RestartFits ==
    ASSUME NEW W, NEW A, NEW R, NEW st, NEW rt, NEW r, RegistersFit(W, A, R, st, rt, r)
    PROVE  /\ RegistersFit(W, A, R, st, rt, Restart(r))
           /\ Restart(r).pc = "root" /\ Restart(r).desc = None /\ Restart(r).view = r.view
           /\ Restart(r).call = r.call /\ Restart(r).phase = r.phase
           /\ Restart(r).purpose = "none" /\ Restart(r).level = 1
           /\ Restart(r).parent = None /\ Restart(r).renewing = None
<1> DEFINE s == Restart(r)
<1>1. AllRegisters \subseteq DOMAIN r
  BY DEF RegistersFit
<1>2. /\ AllRegisters \subseteq DOMAIN s /\ s.pc = "root" /\ s.phase = r.phase /\ s.purpose = "none"
      /\ s.desc = None /\ s.view = r.view /\ s.call = r.call /\ s.level = 1 /\ s.parent = None
      /\ s.renewing = None
  BY <1>1 DEF Restart, AllRegisters
<1> HIDE DEF s
<1>3. OpState(W, A, R, s)
  BY <1>2 DEF OpState, Begun, Helping, RegistersFit
<1>4. GcasState(W, R, s)
  BY <1>2 DEF GcasState
<1>5. RootState(W, A, R, st, rt, s)
  BY <1>2 DEF RootState, RegistersFit, Helping
<1> QED
  BY <1>2, <1>3, <1>4, <1>5 DEF RegistersFit, s

LEMMA ReturnsCore ==
    ASSUME TrieInv, NEW W, NEW f, CoreInv(W, f), NEW t \in Callers, NEW res, Returns(t, res)
    PROVE  CoreInv(W, f)'
<1> DEFINE r == Idle(th[t].view, th[t].seq)
<1>1. th[t].view # None => RootAt(W, Active, th[t].view) /\ th[t].view.id \in Retired
  BY CoreHas DEF RegistersFit, RootState
<1>2. RegistersFit(W, Active, Retired, status, root, r) /\ r.pc = "idle" /\ r.desc = None
  BY <1>1, IdleFits
<1>3. th' = [th EXCEPT ![t] = r] /\ UNCHANGED <<root, main, status>>
  BY DEF Returns, Answers, Become, shared
<1> HIDE DEF r
<1>4. DescQuiet(th[t], r)
  BY <1>2 DEF DescQuiet
<1> QED
  BY <1>2, <1>3, <1>4, QuietCore

LEMMA RestartsCore ==
    ASSUME TrieInv, NEW W, NEW f, CoreInv(W, f), NEW t \in Callers, Proceeds(t, Restart(th[t]))
    PROVE  CoreInv(W, f)'
<1> DEFINE r == Restart(th[t])
<1>1. RegistersFit(W, Active, Retired, status, root, r) /\ r.pc = "root" /\ r.desc = None
  BY CoreHas, RestartFits
<1> HIDE DEF r
<1>2. DescQuiet(th[t], r)
  BY <1>1 DEF DescQuiet
<1> QED
  BY <1>1, <1>2, ProceedsCore DEF r

-----------------------------------------------------------------------------
\* Moving from one access to the next within an operation.

SameOp(r, s) ==
    /\ s.phase = r.phase /\ s.call = r.call /\ s.root = r.root /\ s.node = r.node /\ s.at = r.at
    /\ s.level = r.level /\ s.parent = r.parent /\ s.renewing = r.renewing /\ s.purpose = r.purpose

LEMMA SameOpFits ==
    ASSUME NEW W, NEW A, NEW R, NEW r, NEW s, SameOp(r, s), OpFits(W, A, R, r),
           s.purpose = "renew" => s.desc = r.desc /\ r.pc # "install"
    PROVE  OpFits(W, A, R, s)
<1>1. Chunk(s) = Chunk(r)
  BY DEF SameOp, Chunk
<1>2. s.renewing # None /\ RenewingFits(W, R, r) => RenewingFits(W, R, s)
  BY <1>1 DEF SameOp, RenewingFits
<1>3. s.purpose = "renew" /\ RenewedFits(W, R, r) => RenewedFits(W, R, s)
  BY <1>1 DEF SameOp, RenewedFits
<1>4. WalkFits(W, R, r) => WalkFits(W, R, s)
  BY <1>2, <1>3 DEF SameOp, WalkFits
<1> QED
  BY <1>4 DEF SameOp, OpFits

LEMMA SameOpState ==
    ASSUME NEW W, NEW A, NEW R, NEW r, NEW s, SameOp(r, s), OpState(W, A, R, r),
           s.purpose = "renew" => s.desc = r.desc /\ r.pc # "install",
           s.pc # "scan", Begun(s) => Begun(r),
           s.phase \in Descends /\ ~Begun(s) /\ s.pc # "bump" => ~Begun(r) /\ r.pc # "bump"
    PROVE  OpState(W, A, R, s)
BY SameOpFits DEF OpState, SameOp

LEMMA ReadRootMeetsSnapshotCore ==
    ASSUME TrieInv, NEW W, NEW f, CoreInv(W, f), NEW t \in Callers, ReadRootMeetsSnapshot(t)
    PROVE  CoreInv(W, f)'
<1> DEFINE r == th[t]
           s == [r EXCEPT !.pc = "rdMain", !.rdesc = root]
<1>1. RegistersFit(W, Active, Retired, status, root, r) /\ AllRegisters \subseteq DOMAIN r
  BY CoreHas
<1>2. Proceeds(t, s) /\ r.pc = "root" /\ root.kind = "RD"
  BY DEF ReadRootMeetsSnapshot
<1> HIDE DEF r
<1>3. /\ AllRegisters \subseteq DOMAIN s /\ s.pc = "rdMain" /\ s.rdesc = root /\ s.desc = r.desc
      /\ s.view = r.view /\ SameOp(r, s)
  BY <1>1 DEF AllRegisters, SameOp
<1> HIDE DEF s
<1>4. RootDescHolds(W, Active, Retired, status, root, root)
  BY <1>2 DEF CoreInv, ShapeInv, CurrentOK
<1>5. OpState(W, Active, Retired, s)
  BY <1>1, <1>2, <1>3, SameOpState DEF RegistersFit, Begun, Helping
<1>6. GcasState(W, Retired, s)
  BY <1>1, <1>2, <1>3 DEF RegistersFit, GcasState, SameOp, Helping
<1>7. RootState(W, Active, Retired, status, root, s)
  BY <1>1, <1>2, <1>3, <1>4 DEF RegistersFit, RootState, Helping
<1>8. DescQuiet(r, s)
  BY <1>2, <1>3 DEF DescQuiet
<1> QED
  BY <1>2, <1>3, <1>5, <1>6, <1>7, <1>8, ProceedsCore DEF RegistersFit, r

\* The operation begins at the root.
LEMMA ReadRootBeginsCore ==
    ASSUME TrieInv, NEW W, NEW f, CoreInv(W, f), NEW t \in Callers, ReadRootBegins(t)
    PROVE  CoreInv(W, f)'
<1> DEFINE r == th[t]
           s == [r EXCEPT !.pc = "main", !.root = root, !.node = root.node.id, !.at = root.node.id]
<1>1. RegistersFit(W, Active, Retired, status, root, r) /\ AllRegisters \subseteq DOMAIN r
  BY CoreHas
<1>2. Proceeds(t, s) /\ r.pc = "root" /\ root.kind = "R" /\ r.desc = None
  BY DEF ReadRootBegins
<1>3. RootAt(W, Active, root)
  BY <1>2 DEF CoreInv, ShapeInv, CurrentOK, CurrentRoot
<1>4. /\ root.node.id = root.id /\ root.id \in DOMAIN W
      /\ W[root.id].gen = root.id /\ W[root.id].path = <<>>
  BY <1>3 DEF RootAt, Root, INode
<1> HIDE DEF r
<1>5. /\ AllRegisters \subseteq DOMAIN s /\ s.pc = "main" /\ s.rdesc = r.rdesc /\ s.desc = None
      /\ s.view = r.view /\ s.root = root /\ s.node = root.id /\ s.at = root.id
      /\ s.phase = r.phase /\ s.call = r.call /\ s.level = r.level /\ s.parent = r.parent
      /\ s.renewing = r.renewing /\ s.purpose = r.purpose
  BY <1>1, <1>2, <1>4 DEF AllRegisters
<1> HIDE DEF s
<1>6. s.purpose = "none" /\ ~Begun(r)
  BY <1>1, <1>2, <1>5 DEF RegistersFit, GcasState, Begun, Helping
<1>7. s.phase \in Descends => s.level = 1 /\ s.parent = None /\ s.renewing = None
  BY <1>1, <1>2, <1>5, <1>6 DEF RegistersFit, OpState
<1>8. s.phase \in Descends => WalkFits(W, Retired, s)
  BY <1>4, <1>5, <1>6, <1>7, EveryKeyAtRoot DEF WalkFits
<1>9. OpFits(W, Active, Retired, s)
  BY <1>3, <1>4, <1>5, <1>8 DEF OpFits
<1>10. OpState(W, Active, Retired, s)
  BY <1>1, <1>5, <1>9 DEF RegistersFit, OpState, Begun
<1>11. GcasState(W, Retired, s)
  BY <1>5, <1>6 DEF GcasState
<1>12. RootState(W, Active, Retired, status, root, s)
  BY <1>1, <1>5 DEF RegistersFit, RootState, Helping
<1>13. DescQuiet(r, s)
  BY <1>5 DEF DescQuiet
<1> QED
  BY <1>2, <1>5, <1>10, <1>11, <1>12, <1>13, ProceedsCore DEF RegistersFit, r

LEMMA RootCompleteMainCore ==
    ASSUME TrieInv, NEW W, NEW f, CoreInv(W, f), NEW t \in Callers, RootCompleteMain(t)
    PROVE  CoreInv(W, f)'
<1> DEFINE r == th[t]
           wish == ProposedRootStatus(main[r.rdesc.before.node.id], r.rdesc)
           s == [r EXCEPT !.pc = "rdStatus", !.wish = wish]
<1>1. RegistersFit(W, Active, Retired, status, root, r) /\ AllRegisters \subseteq DOMAIN r
  BY CoreHas
<1>2. Proceeds(t, s) /\ r.pc = "rdMain"
  BY DEF RootCompleteMain
<1>3. wish \in Outcomes
  BY DEF ProposedRootStatus, Outcomes
<1> HIDE DEF r, wish
<1>4. /\ AllRegisters \subseteq DOMAIN s /\ s.pc = "rdStatus" /\ s.rdesc = r.rdesc /\ s.desc = r.desc
      /\ s.view = r.view /\ s.wish = wish /\ SameOp(r, s)
  BY <1>1 DEF AllRegisters, SameOp
<1> HIDE DEF s
<1>5. OpState(W, Active, Retired, s)
  BY <1>1, <1>2, <1>4, SameOpState DEF RegistersFit, Begun, Helping
<1>6. GcasState(W, Retired, s)
  BY <1>1, <1>2, <1>3, <1>4 DEF RegistersFit, GcasState, SameOp, Helping
<1>7. RootState(W, Active, Retired, status, root, s)
  BY <1>1, <1>2, <1>4 DEF RegistersFit, RootState, Helping
<1>8. DescQuiet(r, s)
  BY <1>2, <1>4 DEF DescQuiet
<1> QED
  BY <1>2, <1>4, <1>5, <1>6, <1>7, <1>8, ProceedsCore DEF RegistersFit, r

LEMMA SnapshotReadsMainCore ==
    ASSUME TrieInv, NEW W, NEW f, CoreInv(W, f), NEW t \in Callers, SnapshotReadsMain(t)
    PROVE  CoreInv(W, f)'
<1> DEFINE r == th[t]
           m == MainAt(t)
           rd == RootDescriptor(NewId(t), r.root, m, Root(NewId(t)))
           s == [r EXCEPT !.pc = "rdInstall", !.rdesc = rd]
<1>1. RegistersFit(W, Active, Retired, status, root, r) /\ AllRegisters \subseteq DOMAIN r
  BY CoreHas
<1>2. Proceeds(t, s) /\ r.pc = "main" /\ r.phase = "snapshot" /\ m.kind # "D" /\ m = main[r.at]
  BY DEF SnapshotReadsMain, ReadsMain, AtMain, MainAt
<1>3. rd.kind = "RD" /\ rd.id = NewId(t) /\ rd.before = r.root /\ rd.expected = m /\ rd.after = Root(rd.id)
  BY DEF RootDescriptor
<1> HIDE DEF r, m, rd
<1>4. OpFits(W, Active, Retired, r)
  BY <1>1, <1>2 DEF RegistersFit, OpState, Begun, OpPhases
<1>5. RootAt(W, Active, r.root) /\ r.at = r.root.id
  BY <1>2, <1>4 DEF OpFits, Descends
<1>6. r.at \in DOMAIN W /\ W[r.at].gen = r.root.id /\ W[r.at].path = <<>> /\ r.root.id \in Active
  BY <1>5 DEF RootAt
<1>7. Holds(W, Active, Retired, r.at, m)
  BY <1>2, <1>6 DEF CoreInv, ShapeInv, NodesHold, MainHolds
<1>8. Fits(W, <<>>, m) /\ Gens(Retired, r.root.id, m)
  BY <1>6, <1>7 DEF Holds
<1>9. /\ AllRegisters \subseteq DOMAIN s /\ s.pc = "rdInstall" /\ s.rdesc = rd /\ s.desc = r.desc
      /\ s.view = r.view /\ SameOp(r, s)
  BY <1>1 DEF AllRegisters, SameOp
<1> HIDE DEF s
<1>10. SnapshotFits(W, Active, Retired, s)
  BY <1>2, <1>3, <1>5, <1>8, <1>9 DEF SnapshotFits, SameOp, Descends
<1>11. OpState(W, Active, Retired, s)
  BY <1>1, <1>2, <1>9, SameOpState DEF RegistersFit, Begun, GcasState
<1>12. GcasState(W, Retired, s)
  BY <1>1, <1>2, <1>9 DEF RegistersFit, GcasState, SameOp, Helping
<1>13. RootState(W, Active, Retired, status, root, s)
  BY <1>1, <1>2, <1>9, <1>10 DEF RegistersFit, RootState, Helping
<1>14. DescQuiet(r, s)
  BY <1>2, <1>9 DEF DescQuiet
<1> QED
  BY <1>2, <1>9, <1>11, <1>12, <1>13, <1>14, ProceedsCore DEF RegistersFit, r

-----------------------------------------------------------------------------
\* Entering and leaving a call.

\* The call a thread is about to make.
LEMMA NextCallIs ==
    ASSUME ScalarsOK, NEW t \in Callers, Len(log[t]) < Len(ScriptOf(t))
    PROVE  NextCall(t) \in Calls
<1>1. PICK S : log[t] \in Seq(S)
  BY DEF ScalarsOK
<1>2. Len(log[t]) \in Nat
  BY <1>1, LenProperties
<1>3. script.load \in Seq(Calls) /\ script.run \in [Threads -> Seq(Calls)]
  BY CtrieAssumption DEF ScalarsOK
<1>4. ScriptOf(t) \in Seq(Calls)
  BY <1>3 DEF ScriptOf, Callers
<1> DEFINE q == ScriptOf(t)
           i == Len(log[t]) + 1
<1> HIDE DEF q, i
<1>5. q \in Seq(Calls) /\ i \in 1 .. Len(q)
  BY <1>2, <1>4, LenProperties DEF q, i
<1>6. q[i] \in Calls
  BY <1>5, ElementOfSeq
<1> QED
  BY <1>6 DEF NextCall, q, i

LEMMA PhaseOfIs ==
    ASSUME NEW call \in Calls
    PROVE  /\ PhaseOf(call) = "mutate" => call.op \in MutateOps
           /\ call.op \in ViewOps => PhaseOf(call) \in {"lookup", "enumerate"}
           /\ call.key \in Keys
BY DEF Calls, PhaseOf, MutateOps, ViewOps

LEMMA InvokeCore ==
    ASSUME TrieInv, ScalarsOK, NEW W, NEW f, CoreInv(W, f), NEW t \in Callers, Invoke(t)
    PROVE  CoreInv(W, f)'
<1> DEFINE q == Restart(th[t])
           call == NextCall(t)
           phase == PhaseOf(call)
           r == [q EXCEPT !.call = call, !.phase = phase]
           v == th[t].view
           s == [r EXCEPT !.pc = "main", !.root = v, !.node = v.node.id,
                          !.at = v.node.id, !.walk.queue = <<v.node>>]
<1>1. /\ RegistersFit(W, Active, Retired, status, root, q) /\ q.pc = "root" /\ q.desc = None
      /\ q.purpose = "none" /\ q.level = 1 /\ q.parent = None /\ q.renewing = None
  BY CoreHas, RestartFits
<1>2. (call.op \notin ViewOps /\ Proceeds(t, r)) \/ (call.op \in ViewOps /\ Proceeds(t, s))
  BY DEF Invoke
<1>3. call \in Calls
  BY NextCallIs DEF Invoke
<1>4. /\ phase = "mutate" => call.op \in MutateOps
      /\ call.op \in ViewOps => phase \in {"lookup", "enumerate"}
      /\ call.key \in Keys
  BY <1>3, PhaseOfIs
<1> HIDE DEF q, call, phase, v
<1>5. AllRegisters \subseteq DOMAIN q
  BY <1>1 DEF RegistersFit
<1>6. /\ AllRegisters \subseteq DOMAIN r /\ r.pc = "root" /\ r.desc = None /\ r.purpose = "none"
      /\ r.level = 1 /\ r.parent = None /\ r.renewing = None /\ r.view = q.view
      /\ r.call = call /\ r.phase = phase
  BY <1>1, <1>5 DEF AllRegisters
<1> HIDE DEF r
<1>7. /\ AllRegisters \subseteq DOMAIN s /\ s.pc = "main" /\ s.desc = None /\ s.purpose = "none"
      /\ s.view = q.view /\ s.call = call /\ s.phase = phase
  BY <1>6 DEF AllRegisters
<1> HIDE DEF s
<1>8. RegistersFit(W, Active, Retired, status, root, r)
  <2>1. OpState(W, Active, Retired, r)
    BY <1>4, <1>6 DEF OpState, Begun, Helping
  <2>2. GcasState(W, Retired, r) /\ RootState(W, Active, Retired, status, root, r)
    BY <1>1, <1>6 DEF GcasState, RootState, RegistersFit, Helping
  <2> QED
    BY <1>6, <2>1, <2>2 DEF RegistersFit
<1>9. call.op \in ViewOps => RegistersFit(W, Active, Retired, status, root, s)
  <2> SUFFICES ASSUME call.op \in ViewOps PROVE RegistersFit(W, Active, Retired, status, root, s)
    OBVIOUS
  <2>1. OpState(W, Active, Retired, s)
    BY <1>4, <1>7 DEF OpState, OpPhases, Descends
  <2>2. GcasState(W, Retired, s) /\ RootState(W, Active, Retired, status, root, s)
    BY <1>1, <1>7 DEF GcasState, RootState, RegistersFit, Helping
  <2> QED
    BY <1>7, <2>1, <2>2 DEF RegistersFit
<1>10. DescQuiet(th[t], r) /\ DescQuiet(th[t], s)
  BY <1>6, <1>7 DEF DescQuiet
<1> QED
  BY <1>2, <1>8, <1>9, <1>10, ProceedsCore

LEMMA BumpCore ==
    ASSUME TrieInv, NEW W, NEW f, CoreInv(W, f), NEW t \in Callers, Bump(t)
    PROVE  CoreInv(W, f)'
<1> DEFINE q == Restart(th[t])
           a == [q EXCEPT !.phase = "clean"]
           b == Idle(th[t].view, th[t].seq)
<1>1. RegistersFit(W, Active, Retired, status, root, th[t])
  BY CoreHas
<1>2. /\ RegistersFit(W, Active, Retired, status, root, q) /\ q.pc = "root" /\ q.desc = None
      /\ q.purpose = "none" /\ q.level = 1 /\ q.parent = None /\ q.renewing = None
      /\ q.call = th[t].call
  BY <1>1, RestartFits
<1>3. UNCHANGED <<root, main, status>>
  BY DEF Bump
<1>4. \/ th[t].purpose = "remove" /\ th' = [th EXCEPT ![t] = a]
      \/ th' = [th EXCEPT ![t] = b]
  BY DEF Bump, Become, Answers, CleansUp
<1>5. th[t].view # None => RootAt(W, Active, th[t].view) /\ th[t].view.id \in Retired
  BY <1>1 DEF RegistersFit, RootState
<1>6. RegistersFit(W, Active, Retired, status, root, b) /\ b.pc = "idle" /\ b.desc = None
  BY <1>5, IdleFits
<1> HIDE DEF b, q
<1>7. AllRegisters \subseteq DOMAIN q
  BY <1>2 DEF RegistersFit
<1>8. /\ AllRegisters \subseteq DOMAIN a /\ a.pc = "root" /\ a.desc = None /\ a.purpose = "none"
      /\ a.level = 1 /\ a.parent = None /\ a.renewing = None /\ a.view = q.view
      /\ a.call = th[t].call /\ a.phase = "clean"
  BY <1>2, <1>7 DEF AllRegisters
<1> HIDE DEF a
<1>9. ASSUME th[t].purpose = "remove" PROVE RegistersFit(W, Active, Retired, status, root, a)
  <2>1. th[t].call.key \in Keys
    BY <1>1, <1>9 DEF RegistersFit, OpState, GcasState
  <2>2. OpState(W, Active, Retired, a)
    BY <1>8, <2>1 DEF OpState, Begun, Helping
  <2>3. GcasState(W, Retired, a) /\ RootState(W, Active, Retired, status, root, a)
    BY <1>2, <1>8 DEF GcasState, RootState, RegistersFit, Helping
  <2> QED
    BY <1>8, <2>2, <2>3 DEF RegistersFit
<1>10. DescQuiet(th[t], a) /\ DescQuiet(th[t], b)
  BY <1>6, <1>8 DEF DescQuiet
<1> QED
  BY <1>3, <1>4, <1>6, <1>9, <1>10, QuietCore

-----------------------------------------------------------------------------
\* Lookups and enumerations, which write nothing.

LEMMA AwayFits ==
    ASSUME NEW W, NEW A, NEW R, NEW st, NEW rt, NEW r, RegistersFit(W, A, R, st, rt, r),
           r.pc \in {"main", "scan"}, NEW s, AllRegisters \subseteq DOMAIN s,
           s.pc \in {"main", "scan"}, s.phase \notin OpPhases, s.purpose = r.purpose,
           s.desc = r.desc, s.view = r.view
    PROVE  RegistersFit(W, A, R, st, rt, s) /\ DescQuiet(r, s)
<1>1. r.purpose = "none"
  BY DEF RegistersFit, GcasState, Helping
<1>2. OpState(W, A, R, s)
  BY DEF OpState, OpPhases, Descends
<1>3. GcasState(W, R, s) /\ RootState(W, A, R, st, rt, s)
  BY <1>1 DEF GcasState, RootState, RegistersFit, Helping
<1> QED
  BY <1>2, <1>3 DEF RegistersFit, DescQuiet

LEMMA LookupDescendsCore ==
    ASSUME TrieInv, NEW W, NEW f, CoreInv(W, f), NEW t \in Callers, LookupDescends(t)
    PROVE  CoreInv(W, f)'
<1> DEFINE r == th[t]
           child == BranchAt(t).id
           s == [r EXCEPT !.node = child, !.at = child, !.level = @ + 1]
<1>1. RegistersFit(W, Active, Retired, status, root, r) /\ AllRegisters \subseteq DOMAIN r
  BY CoreHas
<1>2. Proceeds(t, s) /\ r.pc = "main" /\ r.phase = "lookup"
  BY DEF LookupDescends, ReadsMain, AtMain
<1> HIDE DEF r, child
<1>3. /\ AllRegisters \subseteq DOMAIN s /\ s.pc = "main" /\ s.phase = "lookup"
      /\ s.purpose = r.purpose /\ s.desc = r.desc /\ s.view = r.view
  BY <1>1, <1>2 DEF AllRegisters
<1> HIDE DEF s
<1>4. RegistersFit(W, Active, Retired, status, root, s) /\ DescQuiet(r, s)
  BY <1>1, <1>2, <1>3, AwayFits DEF OpPhases, Descends
<1> QED
  BY <1>2, <1>4, ProceedsCore DEF r

LEMMA EnumerateCore ==
    ASSUME TrieInv, NEW W, NEW f, CoreInv(W, f), NEW t \in Callers,
           \/ EnumerateLeaf(t) \/ EnumerateCNode(t) \/ ScanFinishes(t) \/ ScanBranch(t)
           \/ ClassifyMain(t)
    PROVE  CoreInv(W, f)'
<1> DEFINE r == th[t]
<1>1. RegistersFit(W, Active, Retired, status, root, r) /\ AllRegisters \subseteq DOMAIN r
  BY CoreHas
<1>2. r.pc \in {"main", "scan"} /\ (r.pc = "main" => r.phase \in {"enumerate", "classify"})
  BY DEF EnumerateLeaf, EnumerateCNode, ScanFinishes, ScanBranch, ClassifyMain, ReadsMain, AtMain
<1>3. r.phase \notin OpPhases
  BY <1>1, <1>2 DEF RegistersFit, OpState, OpPhases, Descends
<1>4. \E w : \/ Scans(t, w) \/ EnumerateNext(t, w)
             \/ \E node : \E phase \in {"enumerate", "classify"} : Enters(t, phase, node, w)
  <2>1. CASE EnumerateLeaf(t)
    BY <2>1 DEF EnumerateLeaf
  <2>2. CASE EnumerateCNode(t)
    BY <2>2 DEF EnumerateCNode
  <2>3. CASE ScanFinishes(t)
    BY <2>3 DEF ScanFinishes
  <2>4. CASE ScanBranch(t)
    BY <2>4 DEF ScanBranch
  <2>5. CASE ClassifyMain(t)
    BY <2>5 DEF ClassifyMain
  <2> QED
    BY <2>1, <2>2, <2>3, <2>4, <2>5
<1>5. PICK w : \/ Scans(t, w) \/ EnumerateNext(t, w)
               \/ \E node : \E phase \in {"enumerate", "classify"} : Enters(t, phase, node, w)
  BY <1>4
<1>6. CASE Scans(t, w)
  <2> DEFINE s == [r EXCEPT !.pc = "scan", !.walk = w]
  <2>1. Proceeds(t, s)
    BY <1>6 DEF Scans
  <2> HIDE DEF r
  <2>2. /\ AllRegisters \subseteq DOMAIN s /\ s.pc = "scan" /\ s.phase = r.phase
        /\ s.purpose = r.purpose /\ s.desc = r.desc /\ s.view = r.view
    BY <1>1 DEF AllRegisters
  <2> HIDE DEF s
  <2>3. RegistersFit(W, Active, Retired, status, root, s) /\ DescQuiet(r, s)
    BY <1>1, <1>2, <1>3, <2>2, AwayFits
  <2> QED
    BY <2>1, <2>3, ProceedsCore DEF r
<1>7. ASSUME NEW phase \in {"enumerate", "classify"}, NEW node, Enters(t, phase, node, w)
      PROVE  CoreInv(W, f)'
  <2> DEFINE s == [r EXCEPT !.pc = "main", !.phase = phase, !.at = node.id, !.walk = w]
  <2>1. Proceeds(t, s)
    BY <1>7 DEF Enters
  <2> HIDE DEF r
  <2>2. /\ AllRegisters \subseteq DOMAIN s /\ s.pc = "main" /\ s.phase = phase
        /\ s.purpose = r.purpose /\ s.desc = r.desc /\ s.view = r.view
    BY <1>1 DEF AllRegisters
  <2> HIDE DEF s
  <2>3. s.phase \notin OpPhases
    BY <2>2 DEF OpPhases, Descends
  <2>4. RegistersFit(W, Active, Retired, status, root, s) /\ DescQuiet(r, s)
    BY <1>1, <1>2, <2>2, <2>3, AwayFits
  <2> QED
    BY <2>1, <2>4, ProceedsCore DEF r
<1>8. CASE EnumerateNext(t, w)
  BY <1>7, <1>8, ReturnsCore DEF EnumerateNext
<1> QED
  BY <1>5, <1>6, <1>7, <1>8

LEMMA AnswersCore ==
    ASSUME TrieInv, NEW W, NEW f, CoreInv(W, f), NEW t \in Callers,
           LookupReturns(t) \/ CleanTombsReturns(t) \/ ClearFindsEmpty(t)
    PROVE  CoreInv(W, f)'
BY ReturnsCore DEF LookupReturns, CleanTombsReturns, ClearFindsEmpty

LEMMA LosesCore ==
    ASSUME TrieInv, NEW W, NEW f, CoreInv(W, f), NEW t \in Callers, GcasLoses(t) \/ SnapshotLoses(t)
    PROVE  CoreInv(W, f)'
BY RestartsCore DEF GcasLoses, SnapshotLoses

-----------------------------------------------------------------------------
\* Helping a descriptor.

\* The descriptor that is met fits where it is.
LEMMA ReadMainMeetsDescriptorCore ==
    ASSUME TrieInv, NEW W, NEW f, CoreInv(W, f), NEW t \in Callers, ReadMainMeetsDescriptor(t)
    PROVE  CoreInv(W, f)'
<1> DEFINE r == th[t]
           d == main[r.at]
           s == [r EXCEPT !.pc = "root", !.desc = d]
<1>1. RegistersFit(W, Active, Retired, status, root, r) /\ AllRegisters \subseteq DOMAIN r
  BY CoreHas
<1>2. Proceeds(t, s) /\ r.pc = "main" /\ r.at \in DOMAIN main /\ d.kind = "D"
  BY DEF ReadMainMeetsDescriptor, AtMain
<1>3. th' = [th EXCEPT ![t] = s] /\ UNCHANGED <<root, main, status>> /\ DOMAIN th = Callers
  BY <1>2 DEF Proceeds, Become, shared, TrieInv, ThreadsOK
<1>4. d.id \notin DOMAIN W /\ d # None
  BY <1>2 DEF CoreInv, ShapeInv, NodesHold, MainHolds, DescHolds, None
<1> HIDE DEF r, d
<1>5. /\ AllRegisters \subseteq DOMAIN s /\ s.pc = "root" /\ s.rdesc = r.rdesc /\ s.desc = d
      /\ s.view = r.view /\ SameOp(r, s)
  BY <1>1 DEF AllRegisters, SameOp
<1> HIDE DEF s
<1>6. r.purpose = "none"
  BY <1>1, <1>2 DEF RegistersFit, GcasState, Helping
<1>7. OpState(W, Active, Retired, s)
  BY <1>1, <1>2, <1>4, <1>5, <1>6, SameOpState DEF RegistersFit, Begun, SameOp
<1>8. GcasState(W, Retired, s)
  BY <1>4, <1>5, <1>6 DEF GcasState, SameOp
<1>9. RootState(W, Active, Retired, status, root, s)
  BY <1>1, <1>5 DEF RegistersFit, RootState, Helping
<1>10. RegistersFit(W, Active, Retired, status, root, s)
  BY <1>5, <1>7, <1>8, <1>9 DEF RegistersFit
<1>11. ShapeInv(W)' /\ Retired' = Retired
  BY <1>3, <1>10, QuietShape DEF CoreInv
<1>12. \A u \in Callers : th'[u] = IF u = t THEN s ELSE th[u]
  BY <1>3
<1>13. DescriptorsUnique'
  BY <1>2, <1>3, <1>5, <1>12 DEF CoreInv, DescriptorsUnique, Callers, d
<1>14. ASSUME NEW n, NEW m, KeptAt(n, m) PROVE KeptAt(n, m)'
  BY <1>3, <1>5, <1>12, <1>14 DEF KeptAt, Callers
<1>15. AllFrozen(W, f)'
  BY <1>11, <1>14 DEF CoreInv, AllFrozen, FrozenAt
<1> QED
  BY <1>11, <1>13, <1>15 DEF CoreInv

\* A descriptor in a node of a retired generation finds another root.
LEMMA ReadRootCompletesCore ==
    ASSUME TrieInv, NEW W, NEW f, CoreInv(W, f), NEW t \in Callers, ReadRootCompletes(t)
    PROVE  CoreInv(W, f)'
<1> DEFINE r == th[t]
           d == r.desc
           wish == ProposedStatus(root, d)
           s == [r EXCEPT !.pc = "status", !.wish = wish]
<1>1. RegistersFit(W, Active, Retired, status, root, r) /\ AllRegisters \subseteq DOMAIN r
  BY CoreHas
<1>2. Proceeds(t, s) /\ r.pc = "root" /\ root.kind = "R" /\ d # None
  BY DEF ReadRootCompletes
<1>3. th' = [th EXCEPT ![t] = s] /\ UNCHANGED <<root, main, status>> /\ DOMAIN th = Callers
  BY <1>2 DEF Proceeds, Become, shared, TrieInv, ThreadsOK
<1>4. wish \in Outcomes /\ (wish = "Committed" => root = d.root)
  BY DEF ProposedStatus, Outcomes
<1> HIDE DEF r, wish
<1>5. /\ AllRegisters \subseteq DOMAIN s /\ s.pc = "status" /\ s.rdesc = r.rdesc /\ s.desc = d
      /\ s.view = r.view /\ s.wish = wish /\ SameOp(r, s)
  BY <1>1 DEF AllRegisters, SameOp
<1> HIDE DEF s
<1>6. OpState(W, Active, Retired, s)
  BY <1>1, <1>2, <1>5, SameOpState DEF RegistersFit, Begun
<1>7. GcasState(W, Retired, s)
  BY <1>1, <1>2, <1>4, <1>5 DEF RegistersFit, GcasState, SameOp
<1>8. RootState(W, Active, Retired, status, root, s)
  BY <1>1, <1>5 DEF RegistersFit, RootState, Helping
<1>9. RegistersFit(W, Active, Retired, status, root, s)
  BY <1>5, <1>6, <1>7, <1>8 DEF RegistersFit
<1>10. ShapeInv(W)' /\ Retired' = Retired
  BY <1>3, <1>9, QuietShape DEF CoreInv
<1>11. \A u \in Callers : th'[u] = IF u = t THEN s ELSE th[u]
  BY <1>3
<1>12. DescriptorsUnique'
  BY <1>2, <1>3, <1>5, <1>11 DEF CoreInv, DescriptorsUnique, Callers, r
<1>13. root.id \notin Retired
  BY <1>2 DEF Retired, CurrentRoot
<1>14. ASSUME NEW n, NEW m, FrozenAt(W, n, m) PROVE KeptAt(n, m)'
  <2>1. CASE main[n] = m
    BY <1>3, <2>1 DEF KeptAt
  <2>2. CASE main[n] # m
    <3>1. /\ main[n].kind = "D" /\ main[n].before = m /\ status[main[n].id] # "Committed"
          /\ n \in DOMAIN main /\ n \in DOMAIN W /\ W[n].gen \in Retired
      BY <1>14, <2>2 DEF FrozenAt, KeptAt, CoreInv, ShapeInv
    <3>2. main[n].root.id = W[n].gen
      BY <3>1 DEF CoreInv, ShapeInv, NodesHold, MainHolds, DescHolds
    <3>3. d.id = main[n].id => d = main[n]
      BY <1>2, <3>1 DEF CoreInv, DescriptorsUnique, r
    <3>4. d.id = main[n].id => wish # "Committed"
      BY <1>4, <1>13, <3>1, <3>2, <3>3
    <3> QED
      BY <1>3, <1>5, <1>11, <1>14, <2>2, <3>1, <3>4 DEF FrozenAt, KeptAt, Callers
  <2> QED
    BY <2>1, <2>2
<1>15. AllFrozen(W, f)'
  BY <1>10, <1>14 DEF CoreInv, AllFrozen, FrozenAt
<1> QED
  BY <1>10, <1>12, <1>15 DEF CoreInv

\* After a renewal the operation enters the copy.
LEMMA GcasCommittedFits ==
    ASSUME NEW W, NEW A, NEW R, NEW st, NEW rt, NEW r, RegistersFit(W, A, R, st, rt, r),
           r.pc = "status", r.purpose # "none", \A n \in DOMAIN W : W[n].path \in Paths
    PROVE  LET s == GcasCommitted(r)
           IN  /\ RegistersFit(W, A, R, st, rt, s) /\ s.pc # "status" /\ s.pc # "install"
               /\ s.desc \in {None, r.desc}
<1> DEFINE b == GcasCommitted(r)
<1>1. AllRegisters \subseteq DOMAIN r /\ OpState(W, A, R, r) /\ GcasState(W, R, r) /\ r.phase \in OpPhases
  BY DEF RegistersFit, GcasState
<1>2. OpFits(W, A, R, r)
  BY <1>1 DEF OpState, Begun
<1>3. CASE r.purpose = "tomb"
  <2>1. b = Restart(r)
    BY <1>3 DEF GcasCommitted
  <2> HIDE DEF b
  <2> QED
    BY <2>1, RestartFits DEF b
<1>4. CASE r.purpose = "renew"
  <2> DEFINE c == Chunk(r)
             m == r.desc.after
             child == m.branches[c].id
             p == [node |-> r.node, main |-> m, chunk |-> c]
             s == [r EXCEPT !.pc = "main", !.desc = None, !.purpose = "none", !.wish = "none",
                            !.parent = p, !.node = child, !.at = child, !.level = @ + 1]
  <2>1. b = s
    BY <1>4 DEF GcasCommitted, Chunk
  <2>2. p.node = r.node /\ p.main = m /\ p.chunk = c
    OBVIOUS
  <2> HIDE DEF c, m, child, p
  <2>3. /\ AllRegisters \subseteq DOMAIN s /\ s.pc = "main" /\ s.desc = None /\ s.purpose = "none"
        /\ s.parent = p /\ s.node = child /\ s.at = child /\ s.level = r.level + 1
        /\ s.phase = r.phase /\ s.call = r.call /\ s.root = r.root /\ s.renewing = r.renewing
        /\ s.view = r.view
    BY <1>1 DEF AllRegisters
  <2> HIDE DEF s, b
  <2>4. RootState(W, A, R, st, rt, s) /\ GcasState(W, R, s)
    BY <2>3 DEF RegistersFit, RootState, GcasState, Helping
  <2>5. r.phase \in Descends => WalkFits(W, R, s) /\ s.node \in DOMAIN W /\ W[s.node].gen = s.root.id
    <3> SUFFICES ASSUME r.phase \in Descends
                 PROVE  WalkFits(W, R, s) /\ s.node \in DOMAIN W /\ W[s.node].gen = s.root.id
      OBVIOUS
    <3>1. /\ WalkFits(W, R, r) /\ RenewedFits(W, R, r) /\ r.renewing = None
          /\ r.node \in DOMAIN W /\ r.call.key \in Keys
      BY <1>1, <1>2, <1>4 DEF OpFits, OpState, WalkFits, RenewingFits
    <3>2. /\ NodeFits(W, R, r.root.id, r.node, m) /\ Leads(m, c) /\ m.branches[c].gen = r.root.id
      BY <3>1 DEF RenewedFits, c, m
    <3>3. CNodeFits(W, W[r.node].path, m.branches)
      BY <3>2 DEF NodeFits, Leads, Fits
    <3>4. /\ Child(W, m.branches[c], Append(W[r.node].path, c)) /\ c \in Nat
          /\ Len(W[r.node].path) < Levels
      BY <3>2, <3>3 DEF CNodeFits, BranchesFit, BranchFits, Single, Leads
    <3>5. child \in DOMAIN W /\ W[child].gen = r.root.id /\ W[child].path = Append(W[r.node].path, c)
      BY <3>2, <3>4 DEF Child, child
    <3>6. W[r.node].path \in Paths /\ Len(W[r.node].path) \in Nat
      BY <3>1 DEF Paths
    <3>7. r.level = Len(W[r.node].path) + 1 /\ OnPath(W[r.node].path, r.call.key)
      BY <3>1 DEF WalkFits
    <3>8. s.level = Len(W[child].path) + 1 /\ OnPath(W[child].path, s.call.key)
      <4> DEFINE q == W[r.node].path
      <4> HIDE DEF q
      <4>1. q \in Paths /\ Len(q) \in Nat /\ Len(q) < Levels /\ c \in Nat
        BY <3>4, <3>6 DEF q
      <4>2. Len(Append(q, c)) = Len(q) + 1
        BY <4>1, PathAppend
      <4>3. Hash[r.call.key][Len(q) + 1] = c /\ OnPath(q, r.call.key)
        BY <3>7 DEF q, c, Chunk
      <4>4. OnPath(Append(q, c), r.call.key)
        BY <4>1, <4>3, OnPathAppend
      <4>5. W[child].path = Append(q, c) /\ s.level = Len(q) + 1 + 1 /\ s.call = r.call
        BY <2>3, <3>5, <3>7 DEF q
      <4> QED
        BY <4>2, <4>4, <4>5
    <3>9. ParentFits(W, R, s.root.id, s.parent, s.node)
      BY <2>2, <2>3, <3>2 DEF ParentFits, child
    <3>10. WalkFits(W, R, s)
      BY <2>3, <3>1, <3>8, <3>9 DEF WalkFits
    <3> QED
      BY <2>3, <3>5, <3>10
  <2>6. r.phase \in Descends
    BY <1>1, <1>4 DEF RegistersFit, GcasState
  <2>7. OpFits(W, A, R, s)
    BY <1>2, <2>3, <2>5, <2>6 DEF OpFits
  <2>8. OpState(W, A, R, s)
    BY <1>1, <2>3, <2>7 DEF OpState, Begun
  <2> QED
    BY <2>1, <2>3, <2>4, <2>8 DEF RegistersFit, b
<1>5. CASE r.purpose \notin {"tomb", "renew"}
  <2> DEFINE s == [r EXCEPT !.pc = "bump", !.wish = "none"]
  <2>1. b = s
    BY <1>5 DEF GcasCommitted
  <2>2. /\ AllRegisters \subseteq DOMAIN s /\ s.pc = "bump" /\ s.desc = r.desc /\ s.view = r.view
        /\ SameOp(r, s)
    BY <1>1 DEF AllRegisters, SameOp
  <2> HIDE DEF s, b
  <2>3. OpState(W, A, R, s)
    BY <1>1, <1>5, <2>2, SameOpState DEF Begun, Helping, SameOp
  <2>4. RootState(W, A, R, st, rt, s) /\ GcasState(W, R, s)
    BY <1>1, <2>2 DEF RegistersFit, RootState, GcasState, Helping, SameOp
  <2> QED
    BY <2>1, <2>2, <2>3, <2>4 DEF RegistersFit, b
<1> QED
  BY <1>3, <1>4, <1>5

\* The registers of all threads, and those of t, after a step of thread t.
LEMMA ThreadsAfter ==
    ASSUME TrieInv, NEW t \in Callers, NEW s, th' = [th EXCEPT ![t] = s]
    PROVE  \A u \in Callers : th'[u] = IF u = t THEN s ELSE th[u]
BY DEF TrieInv, ThreadsOK

LEMMA CoreParts ==
    ASSUME NEW W, NEW f, CoreInv(W, f)
    PROVE  /\ DOMAIN W = DOMAIN main /\ StaticId \in DOMAIN W
           /\ PlacesOK(W) /\ NodesHold(W) /\ CurrentOK(W) /\ ThreadsFit(W)
           /\ DescriptorsUnique /\ AllFrozen(W, f)
           /\ \A n \in DOMAIN W : W[n].path \in Paths
BY DEF CoreInv, ShapeInv, PlacesOK, PlaceOK

\* A descriptor's identity is no node's.
LEMMA DescriptorNoNode ==
    ASSUME NEW W, NEW f, CoreInv(W, f), NEW n \in DOMAIN W, main[n].kind = "D"
    PROVE  main[n].id \notin DOMAIN W /\ DescHolds(W, Active, Retired, n, main[n])
BY DEF CoreInv, ShapeInv, NodesHold, MainHolds, DescHolds

\* The first completer's wish is the outcome.
LEMMA CompleteStatusCore ==
    ASSUME TrieInv, NEW W, NEW f, CoreInv(W, f), NEW t \in Callers, CompleteStatus(t)
    PROVE  CoreInv(W, f)'
<1> DEFINE r == th[t]
           d == r.desc
           decided == Decided(d.id, r.wish)
           a == [r EXCEPT !.pc = "settle", !.wish = "none"]
           b == GcasCommitted(r)
           c == Restart(r)
<1>1. RegistersFit(W, Active, Retired, status, root, r) /\ AllRegisters \subseteq DOMAIN r
  BY CoreHas
<1>2. /\ r.pc = "status" /\ UNCHANGED <<root, main>>
      /\ status' = [status EXCEPT ![d.id] = decided]
      /\ \/ r.purpose = "none" /\ th' = [th EXCEPT ![t] = a]
         \/ r.purpose # "none" /\ th' = [th EXCEPT ![t] = b]
         \/ th' = [th EXCEPT ![t] = c]
  BY DEF CompleteStatus, Become
<1>3. d # None /\ d.id \in DOMAIN status /\ d.id \notin DOMAIN W
  <2>1. ThreadOK(status, t, r)
    BY ThreadHas
  <2> QED
    BY <1>1, <1>2, <2>1 DEF ThreadOK, Installed, RegistersFit, GcasState
<1>4. StatusKept(status, status') /\ DOMAIN status' = DOMAIN status
  BY <1>2, DecidedKeeps
<1>5. \A i \in DOMAIN W : i \in DOMAIN status => status'[i] = status[i]
  BY <1>2, <1>3
<1>6. DOMAIN W = DOMAIN main /\ StaticId \in DOMAIN W /\ CurrentOK(W)
  BY CoreParts
<1>7. root.kind = "RD" => root.id \in DOMAIN W /\ root.id \in DOMAIN status
  BY <1>6 DEF CurrentOK, RootDescHolds
<1>8. CurrentRoot' = CurrentRoot
  BY <1>2, <1>5, <1>7 DEF CurrentRoot, SelectedRoot
<1>9. Active' = Active
  BY <1>2, <1>4, <1>5, <1>6 DEF Active
<1>10. Retired' = Retired
  BY <1>8, <1>9 DEF Retired
<1>11. Grows(W, Active, Retired, status, root, W, Active', Retired', status', root')
  <2>1. Grows(W, Active, Retired, status, root, W, Active, Retired, status', root)
    BY <1>4, <1>5, SameGrows DEF Extends
  <2> QED
    BY <1>2, <1>9, <1>10, <2>1
<1>12. RegistersFit(W, Active', Retired', status', root', r)
  BY <1>1, <1>11, ThreadHas, OthersFit
<1>13. r.purpose = "none" =>
          RegistersFit(W, Active', Retired', status', root', a) /\ a.pc = "settle" /\ a.desc = d
  <2> SUFFICES ASSUME r.purpose = "none"
               PROVE  RegistersFit(W, Active', Retired', status', root', a) /\ a.pc = "settle" /\ a.desc = d
    OBVIOUS
  <2> HIDE DEF r
  <2>1. /\ AllRegisters \subseteq DOMAIN a /\ a.pc = "settle" /\ a.desc = d /\ a.view = r.view
        /\ SameOp(r, a)
    BY <1>1 DEF AllRegisters, SameOp
  <2> HIDE DEF a
  <2>2. OpState(W, Active', Retired', a)
    BY <1>2, <1>12, <2>1, SameOpState DEF RegistersFit, Begun, SameOp
  <2>3. GcasState(W, Retired', a) /\ RootState(W, Active', Retired', status', root', a)
    BY <1>3, <1>12, <2>1 DEF GcasState, RootState, RegistersFit, SameOp, Helping
  <2> QED
    BY <2>1, <2>2, <2>3 DEF RegistersFit
<1>14. r.purpose # "none" =>
          /\ RegistersFit(W, Active', Retired', status', root', b) /\ b.pc # "status" /\ b.pc # "install"
          /\ b.desc \in {None, d}
  BY <1>2, <1>12, CoreParts, GcasCommittedFits
<1>15. RegistersFit(W, Active', Retired', status', root', c) /\ c.pc = "root" /\ c.desc = None
  BY <1>12, RestartFits
<1> HIDE DEF a, b, c
<1>16. PICK s : /\ th' = [th EXCEPT ![t] = s]
                /\ RegistersFit(W, Active', Retired', status', root', s)
                /\ s.pc # "status" /\ s.pc # "install" /\ s.desc \in {None, d}
  BY <1>2, <1>13, <1>14, <1>15
<1>17. ThreadsFit(W)'
  BY <1>11, <1>16, CoreParts, ThreadsStep
<1>18. PlacesOK(W)' /\ NodesHold(W)'
  BY <1>2, <1>9, <1>10, CoreParts DEF PlacesOK, NodesHold
<1>19. CurrentOK(W)'
  <2>1. root.kind = "RD" => RootDescHolds(W, Active', Retired', status', root', root)
    BY <1>6, <1>11 DEF CurrentOK, Grows
  <2> QED
    BY <1>2, <1>5, <1>6, <1>7, <1>8, <1>9, <1>10, <2>1 DEF CurrentOK
<1>20. \A u \in Callers : th'[u] = IF u = t THEN s ELSE th[u]
  BY <1>16, ThreadsAfter
<1>21. DescriptorsUnique'
  BY <1>2, <1>3, <1>16, <1>20, CoreParts DEF DescriptorsUnique, Callers
<1>22. ASSUME NEW n \in DOMAIN W, NEW m, KeptAt(n, m) PROVE KeptAt(n, m)'
  <2>1. CASE main[n] = m
    BY <1>2, <2>1 DEF KeptAt
  <2>2. CASE main[n] # m
    <3>1. main[n].kind = "D" /\ main[n].before = m /\ status[main[n].id] # "Committed"
      BY <1>22, <2>2 DEF KeptAt
    <3>2. main[n].id = d.id => r.wish # "Committed"
      BY <1>2, <1>22, <2>2 DEF KeptAt
    <3>3. status'[main[n].id] # "Committed"
      BY <1>2, <1>3, <3>1, <3>2 DEF Decided
    <3> QED
      BY <1>2, <1>16, <1>20, <1>22, <2>2, <3>1, <3>3 DEF KeptAt, Callers
  <2> QED
    BY <2>1, <2>2
<1>23. AllFrozen(W, f)'
  BY <1>10, <1>22, CoreParts DEF AllFrozen, FrozenAt
<1> QED
  BY <1>2, <1>6, <1>17, <1>18, <1>19, <1>21, <1>23 DEF CoreInv, ShapeInv

\* A decided descriptor gives way to a main node that fits as well.
LEMMA ReadMainSettlesCore ==
    ASSUME TrieInv, NEW W, NEW f, CoreInv(W, f), NEW t \in Callers, ReadMainSettles(t)
    PROVE  CoreInv(W, f)'
<1> DEFINE r == th[t]
           d == r.desc
           s == [r EXCEPT !.pc = "main", !.desc = None]
<1>1. RegistersFit(W, Active, Retired, status, root, r) /\ AllRegisters \subseteq DOMAIN r
  BY CoreHas
<1>2. /\ r.pc = "settle" /\ UNCHANGED <<root, status>> /\ th' = [th EXCEPT ![t] = s]
      /\ main' = [main EXCEPT ![r.at] = IF main[r.at] = d THEN Selected(d) ELSE main[r.at]]
  BY DEF ReadMainSettles, Become
<1>3. ThreadOK(status, t, r)
  BY ThreadHas
<1>4. d.kind = "D" /\ d # None /\ Plain(Selected(d))
  BY <1>2, <1>3 DEF ThreadOK, Installed, Selected
<1>5. DOMAIN main' = DOMAIN main /\ DOMAIN W = DOMAIN main
  BY <1>2, CoreParts
<1>6. \A n \in DOMAIN main : main'[n] = main[n] \/ (main[n] = d /\ main'[n] = Selected(d))
  BY <1>2
<1>7. CurrentRoot' = CurrentRoot
  BY <1>2 DEF CurrentRoot, SelectedRoot
<1>8. Active' = Active /\ Retired' = Retired
  BY <1>2, <1>5, <1>7 DEF Active, Retired
<1>9. Grows(W, Active, Retired, status, root, W, Active', Retired', status', root')
  BY <1>2, <1>8, SameGrows DEF Extends, StatusKept
<1> HIDE DEF r
<1>10. /\ AllRegisters \subseteq DOMAIN s /\ s.pc = "main" /\ s.desc = None /\ s.view = r.view
       /\ SameOp(r, s)
  BY <1>1 DEF AllRegisters, SameOp
<1> HIDE DEF s
<1>11. r.purpose = "none"
  BY <1>1, <1>2 DEF RegistersFit, GcasState, Helping
<1>12. OpState(W, Active, Retired, s)
  BY <1>1, <1>2, <1>10, <1>11, SameOpState DEF RegistersFit, Begun, SameOp
<1>13. GcasState(W, Retired, s) /\ RootState(W, Active, Retired, status, root, s)
  BY <1>1, <1>10, <1>11 DEF GcasState, RootState, RegistersFit, SameOp, Helping
<1>14. RegistersFit(W, Active', Retired', status', root', s)
  BY <1>2, <1>8, <1>10, <1>12, <1>13 DEF RegistersFit
<1>15. ThreadsFit(W)'
  BY <1>2, <1>9, <1>14, CoreParts, ThreadsStep
<1>16. PlacesOK(W)'
  BY <1>8, CoreParts DEF PlacesOK
<1>17. NodesHold(W)'
  <2>1. ASSUME NEW n \in DOMAIN W PROVE MainHolds(W, Active, Retired, n, main'[n])
    <3>1. MainHolds(W, Active, Retired, n, main[n])
      BY CoreParts DEF NodesHold
    <3>2. CASE main[n] = d /\ main'[n] = Selected(d)
      <4>1. Holds(W, Active, Retired, n, Selected(d))
        BY <1>4, <3>1, <3>2 DEF MainHolds, DescHolds, Selected
      <4> QED
        BY <1>4, <3>2, <4>1 DEF MainHolds, Plain
    <3> QED
      BY <1>5, <1>6, <3>1, <3>2
  <2> QED
    BY <1>8, <2>1 DEF NodesHold
<1>18. CurrentOK(W)'
  <2>1. CurrentOK(W)
    BY CoreParts
  <2>2. root.kind = "RD" => root.id \in DOMAIN W
    BY <2>1 DEF CurrentOK, RootDescHolds
  <2>3. root.kind = "RD" /\ status[root.id] = "Undecided" => main'[root.id] = main[root.id]
    BY <1>4, <1>5, <1>6, <2>1, <2>2 DEF CurrentOK
  <2> QED
    BY <1>2, <1>7, <1>8, <2>1, <2>3 DEF CurrentOK
<1>19. \A u \in Callers : th'[u] = IF u = t THEN s ELSE th[u]
  BY <1>2, ThreadsAfter
<1>20. DescriptorsUnique'
  <2>1. \A n \in DOMAIN main : main'[n].kind = "D" => main'[n] = main[n]
    BY <1>4, <1>6 DEF Plain
  <2> QED
    BY <1>5, <1>10, <1>19, <2>1, CoreParts DEF DescriptorsUnique, Callers
<1>21. ASSUME NEW n \in DOMAIN W, NEW m, m.kind # "D", KeptAt(n, m) PROVE KeptAt(n, m)'
  <2>1. CASE main[n] = m
    BY <1>4, <1>5, <1>6, <1>21, <2>1 DEF KeptAt
  <2>2. CASE main[n] # m /\ main'[n] = main[n]
    BY <1>2, <1>10, <1>19, <1>21, <2>2 DEF KeptAt, Callers
  <2>3. CASE main[n] # m /\ main'[n] # main[n]
    <3>1. main[n].before = m /\ status[main[n].id] # "Committed" /\ main[n] = d /\ main'[n] = Selected(d)
      BY <1>5, <1>6, <1>21, <2>3 DEF KeptAt
    <3> QED
      BY <3>1 DEF Selected, KeptAt
  <2> QED
    BY <2>1, <2>2, <2>3
<1>22. AllFrozen(W, f)'
  BY <1>8, <1>21, CoreParts DEF AllFrozen, FrozenAt
<1> QED
  BY <1>5, <1>15, <1>16, <1>17, <1>18, <1>20, <1>22, CoreParts DEF CoreInv, ShapeInv

-----------------------------------------------------------------------------
\* Helping a snapshot.

\* rd is in _root and is committed: its root becomes the current one and the
\* root before it retires.
LEMMA SnapshotCommits ==
    ASSUME NEW W, NEW f, CoreInv(W, f), NEW rd,
           RootDescHolds(W, Active, Retired, status, root, rd), status[rd.id] = "Undecided",
           status' = [status EXCEPT ![rd.id] = "Committed"], UNCHANGED <<root, main>>
    PROVE  /\ Active' = Active \cup {rd.id} /\ Retired' = Active /\ rd.id \notin Active
           /\ Grows(W, Active, Retired, status, root, W, Active', Retired', status', root')
           /\ PlacesOK(W)' /\ NodesHold(W)' /\ CurrentOK(W)'
<1>1. /\ root = rd /\ rd.kind = "RD" /\ rd.id \in DOMAIN status /\ rd.id # StaticId
      /\ RootAt(W, Active, rd.before) /\ rd.after = Root(rd.id)
      /\ rd.id \in DOMAIN W /\ W[rd.id] = [gen |-> rd.id, path |-> <<>>]
  BY DEF RootDescHolds
<1>2. DOMAIN W = DOMAIN main /\ StaticId \in DOMAIN W
  BY CoreParts
<1>3. rd.id \notin Active
  BY <1>1 DEF Active
<1>4. status'[rd.id] = "Committed" /\ \A i \in DOMAIN status : i # rd.id => status'[i] = status[i]
  BY <1>1
<1>5. Active' = Active \cup {rd.id}
  BY <1>1, <1>2, <1>4 DEF Active
<1>6. CurrentRoot = rd.before /\ CurrentRoot' = Root(rd.id)
  BY <1>1, <1>4 DEF CurrentRoot, SelectedRoot
<1>7. Root(rd.id).id = rd.id
  BY DEF Root
<1>8. Retired' = Active /\ Retired \subseteq Active /\ rd.before.id \in Retired'
  BY <1>1, <1>3, <1>5, <1>6, <1>7 DEF Retired, RootAt
<1>9. StatusKept(status, status')
  BY <1>4 DEF StatusKept
<1>10. ASSUME NEW x, RootDescHolds(W, Active, Retired, status, root, x)
       PROVE  RootDescHolds(W, Active', Retired', status', root', x)
  <2>1. RootAt(W, Active', x.before)
    BY <1>5, <1>10, RootAtGrows DEF RootDescHolds, Extends
  <2>2. CASE x.id = rd.id
    <3>1. x = rd
      BY <1>1, <1>10, <2>2 DEF RootDescHolds
    <3> QED
      BY <1>4, <1>8, <1>9, <1>10, <2>1, <3>1 DEF RootDescHolds, StatusKept
  <2>3. CASE x.id # rd.id
    BY <1>4, <1>8, <1>9, <1>10, <2>1, <2>3 DEF RootDescHolds, StatusKept
  <2> QED
    BY <2>2, <2>3
<1>11. Grows(W, Active, Retired, status, root, W, Active', Retired', status', root')
  BY <1>5, <1>8, <1>9, <1>10 DEF Grows, Extends
<1>12. PlacesOK(W)'
  BY <1>5, CoreParts DEF PlacesOK, PlaceOK
<1>13. NodesHold(W)'
  <2>1. ASSUME NEW n \in DOMAIN W PROVE MainHolds(W, Active', Retired', n, main[n])
    <3>1. MainHolds(W, Active, Retired, n, main[n]) /\ PlaceOK(Active, n, W[n])
      BY CoreParts DEF NodesHold, PlacesOK
    <3>2. ASSUME NEW m, Holds(W, Active, Retired, n, m), W[n].gen \in Active
          PROVE  Holds(W, Active', Retired', n, m)
      BY <1>8, <3>2, GensGrows DEF Holds
    <3>3. CASE W[n].gen \in Active
      BY <1>5, <3>1, <3>2, <3>3 DEF MainHolds, DescHolds
    <3>4. CASE W[n].gen \notin Active
      <4>1. main[n].kind # "D" /\ Fits(W, W[n].path, main[n])
        BY <3>1, <3>4 DEF MainHolds, DescHolds, Holds
      <4>2. W[n].gen = rd.id => n = rd.id
        BY <1>3, <3>1 DEF PlaceOK
      <4>3. Gens(Retired, rd.before.id, main[rd.id])
        BY <1>1, CoreParts DEF CurrentOK
      <4>4. Gens(Retired', rd.id, main[rd.id])
        BY <1>8, <4>3 DEF Gens
      <4>5. W[n].gen \in Active' => Gens(Retired', W[n].gen, main[n])
        BY <1>5, <3>4, <4>2, <4>4
      <4> QED
        BY <4>1, <4>5 DEF MainHolds, Holds
    <3> QED
      BY <3>3, <3>4
  <2> QED
    BY <2>1 DEF NodesHold
<1>14. CurrentOK(W)'
  <2>1. RootDescHolds(W, Active', Retired', status', root', root)
    BY <1>1, <1>10
  <2>2. RootAt(W, Active', Root(rd.id))
    BY <1>1, <1>5, <1>7 DEF RootAt
  <2> QED
    BY <1>1, <1>4, <1>6, <2>1, <2>2 DEF CurrentOK
<1> QED
  BY <1>3, <1>5, <1>8, <1>11, <1>12, <1>13, <1>14

\* The same when the outcome leaves the roots as they are.
LEMMA SnapshotSettled ==
    ASSUME NEW W, NEW f, CoreInv(W, f), NEW rd,
           RootDescHolds(W, Active, Retired, status, root, rd),
           NEW outcome, outcome # "Undecided",
           status[rd.id] = outcome \/ (status[rd.id] = "Undecided" /\ outcome # "Committed"),
           status' = [status EXCEPT ![rd.id] = outcome], UNCHANGED <<root, main>>
    PROVE  /\ Active' = Active /\ Retired' = Retired
           /\ Grows(W, Active, Retired, status, root, W, Active', Retired', status', root')
           /\ PlacesOK(W)' /\ NodesHold(W)' /\ CurrentOK(W)'
<1>1. rd.id \in DOMAIN status /\ rd.id \in DOMAIN W /\ rd.id # StaticId
  BY DEF RootDescHolds
<1>2. DOMAIN W = DOMAIN main /\ StaticId \in DOMAIN W /\ CurrentOK(W)
  BY CoreParts
<1>3. /\ DOMAIN status' = DOMAIN status /\ StatusKept(status, status') /\ status'[rd.id] = outcome
      /\ \A i \in DOMAIN status : i # rd.id => status'[i] = status[i]
      /\ \A i \in DOMAIN status : status'[i] = "Committed" <=> status[i] = "Committed"
  BY <1>1 DEF StatusKept
<1>4. Active' = Active
  BY <1>3 DEF Active
<1>5. root.kind = "RD" => root.id \in DOMAIN status
  BY <1>2 DEF CurrentOK, RootDescHolds
<1>6. CurrentRoot' = CurrentRoot
  BY <1>3, <1>5 DEF CurrentRoot, SelectedRoot
<1>7. Retired' = Retired
  BY <1>4, <1>6 DEF Retired
<1>8. ASSUME NEW x, RootDescHolds(W, Active, Retired, status, root, x)
      PROVE  RootDescHolds(W, Active, Retired, status', root, x)
  BY <1>3, <1>8 DEF RootDescHolds, StatusKept
<1>9. Grows(W, Active, Retired, status, root, W, Active', Retired', status', root')
  BY <1>3, <1>4, <1>7, <1>8 DEF Grows, Extends
<1>10. PlacesOK(W)' /\ NodesHold(W)'
  BY <1>4, <1>7, CoreParts DEF PlacesOK, NodesHold
<1>11. CurrentOK(W)'
  <2>1. root.kind = "RD" => RootDescHolds(W, Active, Retired, status', root, root)
    BY <1>2, <1>8 DEF CurrentOK
  <2>2. root.kind = "RD" /\ status'[root.id] = "Undecided" => status[root.id] = "Undecided"
    BY <1>3, <1>5
  <2> QED
    BY <1>2, <1>4, <1>6, <1>7, <2>1, <2>2 DEF CurrentOK
<1> QED
  BY <1>4, <1>7, <1>9, <1>10, <1>11

LEMMA RootCompleteStatusCore ==
    ASSUME TrieInv, ScalarsOK, NEW W, NEW f, CoreInv(W, f), NEW t \in Callers, RootCompleteStatus(t)
    PROVE  CoreInv(W, f)'
<1> DEFINE r == th[t]
           rd == r.rdesc
           outcome == Decided(rd.id, r.wish)
           s == [r EXCEPT !.pc = "rdRoot", !.wish = "none"]
<1>1. RegistersFit(W, Active, Retired, status, root, r) /\ AllRegisters \subseteq DOMAIN r
  BY CoreHas
<1>2. /\ r.pc = "rdStatus" /\ UNCHANGED <<root, main>> /\ th' = [th EXCEPT ![t] = s]
      /\ status' = [status EXCEPT ![rd.id] = outcome]
  BY DEF RootCompleteStatus, Become
<1>3. RootDescHolds(W, Active, Retired, status, root, rd) /\ r.wish \in Outcomes
  BY <1>1, <1>2 DEF RegistersFit, RootState, GcasState, Helping
<1>4. rd.id \in DOMAIN W /\ rd.id \in DOMAIN status
  BY <1>3 DEF RootDescHolds
<1>5. /\ outcome # "Undecided" /\ (status[rd.id] # "Undecided" => outcome = status[rd.id])
  BY <1>3 DEF Decided, Outcomes
<1> HIDE DEF outcome
<1>6. /\ Grows(W, Active, Retired, status, root, W, Active', Retired', status', root')
      /\ PlacesOK(W)' /\ NodesHold(W)' /\ CurrentOK(W)'
  <2>1. CASE status[rd.id] = "Undecided" /\ outcome = "Committed"
    BY <1>2, <1>3, <2>1, SnapshotCommits
  <2>2. CASE ~(status[rd.id] = "Undecided" /\ outcome = "Committed")
    <3>1. status[rd.id] = outcome \/ (status[rd.id] = "Undecided" /\ outcome # "Committed")
      BY <1>5, <2>2
    <3> QED
      BY <1>2, <1>3, <1>5, <3>1, SnapshotSettled
  <2> QED
    BY <2>1, <2>2
<1>7. RegistersFit(W, Active', Retired', status', root', r)
  BY <1>1, <1>6, ThreadHas, OthersFit
<1> HIDE DEF r
<1>8. /\ AllRegisters \subseteq DOMAIN s /\ s.pc = "rdRoot" /\ s.rdesc = rd /\ s.desc = r.desc
      /\ s.view = r.view /\ SameOp(r, s)
  BY <1>1 DEF AllRegisters, SameOp
<1> HIDE DEF s
<1>9. OpState(W, Active', Retired', s)
  BY <1>2, <1>7, <1>8, SameOpState DEF RegistersFit, Begun, Helping
<1>10. GcasState(W, Retired', s)
  BY <1>2, <1>7, <1>8 DEF RegistersFit, GcasState, SameOp, Helping
<1>11. status'[rd.id] # "Undecided"
  BY <1>2, <1>4, <1>5
<1>12. RootState(W, Active', Retired', status', root', s)
  BY <1>2, <1>7, <1>8, <1>11 DEF RegistersFit, RootState, Helping
<1>13. ThreadsFit(W)'
  BY <1>2, <1>6, <1>8, <1>9, <1>10, <1>12, CoreParts, ThreadsStep DEF RegistersFit
<1>14. \A u \in Callers : th'[u] = IF u = t THEN s ELSE th[u]
  BY <1>2, ThreadsAfter
<1>15. DescriptorsUnique'
  BY <1>2, <1>8, <1>14, CoreParts DEF DescriptorsUnique, Callers, r
<1>16. ASSUME NEW n \in DOMAIN W, NEW m, KeptAt(n, m) PROVE KeptAt(n, m)'
  <2>1. CASE main[n] = m
    BY <1>2, <2>1 DEF KeptAt
  <2>2. CASE main[n] # m
    <3>1. main[n].kind = "D" /\ main[n].before = m /\ status[main[n].id] # "Committed"
      BY <1>16, <2>2 DEF KeptAt
    <3>2. main[n].id \notin DOMAIN W /\ main[n].id \in DOMAIN status
      BY <3>1, DescriptorNoNode, CoreParts DEF TrieInv, DescriptorsInstalled, Installed
    <3>3. status'[main[n].id] # "Committed"
      BY <1>2, <1>4, <3>1, <3>2
    <3> QED
      BY <1>2, <1>8, <1>14, <1>16, <2>2, <3>1, <3>3 DEF KeptAt, Callers
  <2> QED
    BY <2>1, <2>2
<1>17. AllFrozen(W, f)'
  BY <1>6, <1>16, CoreParts DEF AllFrozen, FrozenAt, Grows
<1> QED
  BY <1>2, <1>6, <1>13, <1>15, <1>17, CoreParts DEF CoreInv, ShapeInv

\* The decided descriptor leaves _root for the root it stands for.
LEMMA RootCompleteRootCore ==
    ASSUME TrieInv, NEW W, NEW f, CoreInv(W, f), NEW t \in Callers, RootCompleteRoot(t)
    PROVE  CoreInv(W, f)'
<1> DEFINE r == th[t]
           rd == r.rdesc
           a == Idle(rd.before, r.seq)
           b == Restart(r)
           c == [r EXCEPT !.pc = "root", !.rdesc = None]
<1>1. RegistersFit(W, Active, Retired, status, root, r) /\ AllRegisters \subseteq DOMAIN r
  BY CoreHas
<1>2. /\ r.pc = "rdRoot" /\ UNCHANGED <<main, status>>
      /\ root' = IF root = rd THEN SelectedRoot(rd) ELSE root
      /\ \/ status[rd.id] = "Committed" /\ th' = [th EXCEPT ![t] = a]
         \/ th' = [th EXCEPT ![t] = b]
         \/ th' = [th EXCEPT ![t] = c]
  BY DEF RootCompleteRoot, Become
<1>3. RootDescHolds(W, Active, Retired, status, root, rd) /\ status[rd.id] # "Undecided"
  BY <1>1, <1>2 DEF RegistersFit, RootState, Helping
<1>4. CurrentOK(W)
  BY CoreParts
<1>5. CurrentRoot' = CurrentRoot /\ (root' = root \/ (root = rd /\ root' = CurrentRoot /\ root'.kind = "R"))
  <2>1. CASE root = rd
    <3>1. CurrentRoot = SelectedRoot(rd) /\ root' = SelectedRoot(rd)
      BY <1>2, <1>3, <2>1 DEF CurrentRoot, RootDescHolds
    <3>2. root'.kind = "R"
      BY <1>4, <3>1 DEF CurrentOK, RootAt, Root
    <3> QED
      BY <2>1, <3>1, <3>2 DEF CurrentRoot
  <2>2. CASE root # rd
    BY <1>2, <2>2 DEF CurrentRoot, SelectedRoot
  <2> QED
    BY <2>1, <2>2
<1>6. Active' = Active /\ Retired' = Retired
  BY <1>2, <1>5 DEF Active, Retired
<1>7. ASSUME NEW x, RootDescHolds(W, Active, Retired, status, root, x)
      PROVE  RootDescHolds(W, Active, Retired, status, root', x)
  BY <1>3, <1>5, <1>7 DEF RootDescHolds
<1>8. Grows(W, Active, Retired, status, root, W, Active', Retired', status', root')
  BY <1>2, <1>6, <1>7 DEF Grows, Extends, StatusKept
<1>9. RegistersFit(W, Active', Retired', status', root', r)
  BY <1>1, <1>8, ThreadHas, OthersFit
<1>10. status[rd.id] = "Committed" =>
          RegistersFit(W, Active', Retired', status', root', a) /\ a.pc = "idle" /\ a.desc = None
  <2>1. status[rd.id] = "Committed" => RootAt(W, Active', rd.before) /\ rd.before.id \in Retired'
    BY <1>3, <1>6 DEF RootDescHolds
  <2> QED
    BY <2>1, IdleFits
<1>11. RegistersFit(W, Active', Retired', status', root', b) /\ b.pc = "root" /\ b.desc = None
  BY <1>9, RestartFits
<1>12. RegistersFit(W, Active', Retired', status', root', c) /\ c.pc = "root" /\ c.desc = r.desc
  <2> HIDE DEF r
  <2>1. /\ AllRegisters \subseteq DOMAIN c /\ c.pc = "root" /\ c.desc = r.desc /\ c.view = r.view
        /\ SameOp(r, c)
    BY <1>1 DEF AllRegisters, SameOp
  <2> HIDE DEF c
  <2>2. OpState(W, Active', Retired', c)
    BY <1>2, <1>9, <2>1, SameOpState DEF RegistersFit, Begun, Helping
  <2>3. GcasState(W, Retired', c) /\ RootState(W, Active', Retired', status', root', c)
    BY <1>2, <1>9, <2>1 DEF GcasState, RootState, RegistersFit, SameOp, Helping
  <2> QED
    BY <2>1, <2>2, <2>3 DEF RegistersFit
<1> HIDE DEF a, b, c
<1>13. PICK s : /\ th' = [th EXCEPT ![t] = s]
                /\ RegistersFit(W, Active', Retired', status', root', s)
                /\ s.pc \in {"idle", "root"} /\ s.desc \in {None, r.desc}
  BY <1>2, <1>10, <1>11, <1>12
<1>14. ThreadsFit(W)'
  BY <1>8, <1>13, CoreParts, ThreadsStep
<1>15. PlacesOK(W)' /\ NodesHold(W)'
  BY <1>2, <1>6, CoreParts DEF PlacesOK, NodesHold
<1>16. CurrentOK(W)'
  BY <1>2, <1>4, <1>5, <1>6 DEF CurrentOK
<1>17. \A u \in Callers : th'[u] = IF u = t THEN s ELSE th[u]
  BY <1>13, ThreadsAfter
<1>18. DescriptorsUnique'
  BY <1>2, <1>13, <1>17, CoreParts DEF DescriptorsUnique, Callers
<1>19. ASSUME NEW n, NEW m, KeptAt(n, m) PROVE KeptAt(n, m)'
  BY <1>2, <1>13, <1>17, <1>19 DEF KeptAt, Callers
<1>20. AllFrozen(W, f)'
  BY <1>6, <1>19, CoreParts DEF AllFrozen, FrozenAt
<1> QED
  BY <1>2, <1>14, <1>15, <1>16, <1>18, <1>20, CoreParts DEF CoreInv, ShapeInv

-----------------------------------------------------------------------------
\* Publications.

\* The new root's node is nobody's yet; the snapshot is in progress.
LEMMA SnapshotInstallsCore ==
    ASSUME TrieInv, NEW W, NEW f, CoreInv(W, f), NEW t \in Callers, SnapshotInstalls(t)
    PROVE  \E WW : CoreInv(WW, f)'
<1> DEFINE r == th[t]
           rd == r.rdesc
           place == [gen |-> rd.id, path |-> <<>>]
           V == [n \in {rd.id} |-> place]
           s == [r EXCEPT !.pc = "rdMain", !.seq = @ + 1]
<1>0. PICK WW : WW = Join(W, V)
  OBVIOUS
<1>1. RegistersFit(W, Active, Retired, status, root, r) /\ AllRegisters \subseteq DOMAIN r
  BY CoreHas
<1>2. /\ r.pc = "rdInstall" /\ root = rd.before /\ root' = rd /\ th' = [th EXCEPT ![t] = s]
      /\ main' = [n \in DOMAIN main \cup {rd.id} |-> IF n = rd.id THEN rd.expected ELSE main[n]]
      /\ status' = [i \in DOMAIN status \cup {rd.id} |-> IF i = rd.id THEN "Undecided" ELSE status[i]]
  BY DEF SnapshotInstalls, Become
<1>3. SnapshotFits(W, Active, Retired, r)
  BY <1>1, <1>2 DEF RegistersFit, RootState
<1>4. /\ rd.kind = "RD" /\ RootAt(W, Active, rd.before) /\ rd.after = Root(rd.id)
      /\ Fits(W, <<>>, rd.expected) /\ Gens(Retired, rd.before.id, rd.expected) /\ r.phase \notin Descends
  BY <1>3 DEF SnapshotFits
<1>5. Reserved(t, r, rd.id) /\ Plain(rd.expected)
  BY <1>2, ThreadHas DEF ThreadOK
<1>6. rd.id \notin DOMAIN main /\ rd.id \notin DOMAIN status
  BY <1>5, ReservedFresh
<1>7. rd.id # StaticId
  BY <1>5, CtrieAssumption DEF Reserved, StaticId, Callers
<1>8. DOMAIN W = DOMAIN main /\ StaticId \in DOMAIN W
  BY CoreParts
<1>9. /\ DOMAIN WW = DOMAIN W \cup {rd.id} /\ WW[rd.id] = place
      /\ Extends(W, WW)
  BY <1>0, <1>6, <1>8 DEF Join, Extends
<1>10. place.gen = rd.id /\ place.path = <<>>
  OBVIOUS
<1> HIDE DEF V, place
<1>11. root.kind = "R" /\ CurrentRoot = root /\ CurrentRoot' = root
  <2>1. root.kind = "R"
    BY <1>2, <1>4 DEF RootAt, Root
  <2>2. status'[rd.id] = "Undecided"
    BY <1>2
  <2> QED
    BY <1>2, <1>4, <2>1, <2>2 DEF CurrentRoot, SelectedRoot
<1>12. Active' = Active /\ Retired' = Retired /\ rd.id \notin Active
  <2>1. Active' = Active /\ rd.id \notin Active
    BY <1>2, <1>6, <1>7 DEF Active
  <2> QED
    BY <1>11, <2>1 DEF Retired
<1>13. StatusKept(status, status')
  BY <1>2, <1>6 DEF StatusKept
<1>14. ASSUME NEW x, RootDescHolds(W, Active, Retired, status, root, x)
       PROVE  RootDescHolds(WW, Active', Retired', status', root', x)
  <2>1. RootAt(WW, Active, x.before)
    BY <1>9, <1>14, RootAtGrows DEF RootDescHolds
  <2>2. /\ x.id \in DOMAIN status /\ x.id # rd.id /\ status[x.id] # "Undecided"
    BY <1>6, <1>11, <1>14 DEF RootDescHolds
  <2>3. x.id \in DOMAIN status' /\ status'[x.id] = status[x.id]
    BY <1>2, <2>2
  <2>4. x.id \in DOMAIN WW /\ WW[x.id] = W[x.id]
    BY <1>9, <1>14 DEF Extends, RootDescHolds
  <2> QED
    BY <1>12, <1>14, <2>1, <2>2, <2>3, <2>4 DEF RootDescHolds
<1>15. Grows(W, Active, Retired, status, root, WW, Active', Retired', status', root')
  BY <1>6, <1>9, <1>12, <1>13, <1>14 DEF Grows
<1>16. RootAt(WW, Active', rd.before)
  BY <1>4, <1>9, <1>12, RootAtGrows
<1>17. RootDescHolds(WW, Active', Retired', status', root', rd)
  BY <1>2, <1>4, <1>7, <1>9, <1>10, <1>16 DEF RootDescHolds, place
<1>18. RegistersFit(WW, Active', Retired', status', root', r)
  BY <1>1, <1>15, ThreadHas, OthersFit
<1> HIDE DEF r
<1>19. /\ AllRegisters \subseteq DOMAIN s /\ s.pc = "rdMain" /\ s.rdesc = rd /\ s.desc = r.desc
       /\ s.view = r.view /\ SameOp(r, s)
  BY <1>1 DEF AllRegisters, SameOp
<1> HIDE DEF s
<1>20. r.purpose = "none"
  BY <1>1, <1>2 DEF RegistersFit, GcasState, Helping
<1>21. OpState(WW, Active', Retired', s)
  BY <1>2, <1>4, <1>18, <1>19, <1>20, SameOpState DEF RegistersFit, Begun, SameOp
<1>22. GcasState(WW, Retired', s)
  BY <1>2, <1>18, <1>19, <1>20 DEF RegistersFit, GcasState, SameOp
<1>23. RootState(WW, Active', Retired', status', root', s)
  BY <1>17, <1>18, <1>19 DEF RegistersFit, RootState
<1>24. ThreadsFit(WW)'
  BY <1>2, <1>15, <1>19, <1>21, <1>22, <1>23, CoreParts, ThreadsStep DEF RegistersFit, r
<1>25. PlacesOK(WW)'
  <2>1. ASSUME NEW n \in DOMAIN WW PROVE PlaceOK(Active, n, WW[n])
    <3>1. CASE n = rd.id
      BY <1>9, <1>10, <3>1, EveryKeyAtRoot DEF PlaceOK
    <3>2. CASE n # rd.id
      BY <1>9, <3>2, CoreParts DEF PlacesOK, Extends
    <3> QED
      BY <3>1, <3>2
  <2> QED
    BY <1>12, <2>1 DEF PlacesOK
<1>26. NodesHold(WW)'
  <2>1. ASSUME NEW n \in DOMAIN WW PROVE MainHolds(WW, Active, Retired, n, main'[n])
    <3>1. CASE n = rd.id
      <4>1. main'[n] = rd.expected /\ Fits(WW, <<>>, rd.expected)
        BY <1>2, <1>4, <1>9, <3>1, FitsGrows
      <4> QED
        BY <1>5, <1>9, <1>10, <1>12, <3>1, <4>1 DEF MainHolds, Holds, Plain
    <3>2. CASE n # rd.id
      <4>1. n \in DOMAIN W /\ main'[n] = main[n] /\ WW[n] = W[n]
        BY <1>2, <1>8, <1>9, <3>2 DEF Extends
      <4>2. MainHolds(W, Active, Retired, n, main[n])
        BY <4>1, CoreParts DEF NodesHold
      <4>3. main[n].kind = "D" => main[n].id \in DOMAIN status
        BY <1>8, <4>1 DEF TrieInv, DescriptorsInstalled, Installed
      <4>4. ASSUME NEW m, Holds(W, Active, Retired, n, m) PROVE Holds(WW, Active, Retired, n, m)
        BY <1>9, <4>1, <4>4, FitsGrows DEF Holds
      <4> QED
        BY <1>6, <1>9, <4>1, <4>2, <4>3, <4>4 DEF MainHolds, DescHolds
    <3> QED
      BY <3>1, <3>2
  <2> QED
    BY <1>12, <2>1 DEF NodesHold
<1>27. CurrentOK(WW)'
  <2>1. main'[rd.id] = rd.expected
    BY <1>2
  <2> QED
    BY <1>2, <1>4, <1>5, <1>11, <1>12, <1>16, <1>17, <2>1 DEF CurrentOK, Plain
<1>28. \A u \in Callers : th'[u] = IF u = t THEN s ELSE th[u]
  BY <1>2, ThreadsAfter
<1>29. \A n \in DOMAIN main' : main'[n].kind = "D" => n \in DOMAIN main /\ main'[n] = main[n]
  BY <1>2, <1>5 DEF Plain
<1>30. DescriptorsUnique'
  <2>1. DescriptorsUnique
    BY CoreParts
  <2>2. \A u \in Callers : th'[u].pc # "install" => th[u].pc # "install" /\ th'[u].desc = th[u].desc
    BY <1>2, <1>19, <1>28 DEF r
  <2> QED
    BY <1>29, <2>1, <2>2 DEF DescriptorsUnique, Callers
<1>31. ASSUME NEW n \in DOMAIN W, NEW m, KeptAt(n, m) PROVE KeptAt(n, m)'
  <2>1. main'[n] = main[n]
    BY <1>2, <1>6, <1>8
  <2>2. main[n].kind = "D" => main[n].id \in DOMAIN status /\ status'[main[n].id] = status[main[n].id]
    BY <1>2, <1>6, <1>8 DEF TrieInv, DescriptorsInstalled, Installed
  <2> QED
    BY <1>19, <1>28, <1>31, <2>1, <2>2 DEF KeptAt, Callers
<1>32. AllFrozen(WW, f)'
  BY <1>9, <1>12, <1>31, CoreParts DEF AllFrozen, FrozenAt, Extends
<1>33. DOMAIN WW = DOMAIN main' /\ StaticId \in DOMAIN WW
  BY <1>2, <1>8, <1>9
<1>34. CoreInv(WW, f)'
  BY <1>24, <1>25, <1>26, <1>27, <1>30, <1>32, <1>33 DEF CoreInv, ShapeInv
<1> QED
  BY <1>34

\* The new nodes take their places, and the descriptor one of this generation.
LEMMA GcasInstallsCore ==
    ASSUME TrieInv, NEW W, NEW f, CoreInv(W, f), NEW t \in Callers, GcasInstalls(t)
    PROVE  \E WW : CoreInv(WW, f)'
<1> DEFINE r == th[t]
           d == r.desc
           s == [r EXCEPT !.pc = "root", !.seq = @ + 1, !.fresh = <<>>]
<1>1. RegistersFit(W, Active, Retired, status, root, r) /\ AllRegisters \subseteq DOMAIN r
  BY CoreHas
<1>2. /\ r.pc = "install" /\ main[r.at] = d.before /\ root' = root
      /\ main' = [n \in DOMAIN main \cup DOMAIN r.fresh |->
                    IF n = r.at THEN d ELSE IF n \in DOMAIN r.fresh THEN r.fresh[n] ELSE main[n]]
      /\ status' = [i \in DOMAIN status \cup {d.id} |-> IF i = d.id THEN "Undecided" ELSE status[i]]
      /\ th' = [th EXCEPT ![t] = s]
  BY DEF GcasInstalls, Become
<1>3. /\ d.kind = "D" /\ Reserved(t, r, d.id) /\ Plain(d.before) /\ Plain(d.after)
      /\ \A n \in DOMAIN r.fresh : Reserved(t, r, n) /\ Plain(r.fresh[n])
  BY <1>2, ThreadHas DEF ThreadOK, Offered
<1>4. /\ d.id \notin DOMAIN status /\ d.id \notin DOMAIN main /\ d # None
      /\ \A n \in DOMAIN r.fresh : n \notin DOMAIN main /\ n \notin DOMAIN status
  BY <1>3, ReservedFresh DEF None
<1>5. PICK V : OfferFits(W, Retired, r, V)
  BY <1>1, <1>2 DEF RegistersFit, GcasState
<1>6. /\ r.at \in DOMAIN W /\ W[r.at].gen = r.root.id /\ d.root = r.root
      /\ r.purpose = "renew" => r.at = r.node
      /\ Fits(Join(W, V), W[r.at].path, d.after) /\ Gens(Retired, r.root.id, d.after)
      /\ FreshFits(W, Retired, r.root.id, r.fresh, V) /\ d.id \notin DOMAIN V
  BY <1>5 DEF OfferFits
<1> DEFINE WW == Join(W, V)
<1>7. DOMAIN W = DOMAIN main /\ StaticId \in DOMAIN W /\ CurrentOK(W)
  BY CoreParts
<1>8. DOMAIN V = DOMAIN r.fresh
  BY <1>6 DEF FreshFits
<1>9. /\ Extends(W, WW) /\ DOMAIN WW = DOMAIN W \cup DOMAIN V
      /\ \A n \in DOMAIN V : WW[n] = V[n] /\ n \notin DOMAIN W
  BY <1>4, <1>7, <1>8, JoinExtends DEF Join
<1>10. OpFits(W, Active, Retired, r) /\ r.phase \in OpPhases
  BY <1>1, <1>2 DEF RegistersFit, OpState, GcasState, Begun
<1>11. RootAt(W, Active, r.root) /\ r.root.id \in Active /\ r.root.id \in DOMAIN W
  BY <1>10 DEF OpFits, RootAt
<1> HIDE DEF WW
<1>12. \A i \in DOMAIN status : i \in DOMAIN status' /\ status'[i] = status[i]
  BY <1>2, <1>4
<1>13. root.kind = "RD" => root.id \in DOMAIN status /\ root.id \in DOMAIN W
  BY <1>7 DEF CurrentOK, RootDescHolds
<1>14. CurrentRoot' = CurrentRoot
  BY <1>2, <1>12, <1>13 DEF CurrentRoot, SelectedRoot
<1>15. Active' = Active
  BY <1>2, <1>4, <1>7, <1>12 DEF Active
<1>16. Retired' = Retired
  BY <1>14, <1>15 DEF Retired
<1>17. StatusKept(status, status')
  BY <1>12 DEF StatusKept
<1>18. Grows(W, Active, Retired, status, root, WW, Active', Retired', status', root')
  <2>1. \A n \in DOMAIN WW : n \in DOMAIN status => n \in DOMAIN W
    BY <1>4, <1>8, <1>9
  <2>2. Grows(W, Active, Retired, status, root, WW, Active, Retired, status', root)
    BY <1>9, <1>12, <1>17, <2>1, SameGrows
  <2> QED
    BY <1>2, <1>15, <1>16, <2>2
<1>19. d.id \notin DOMAIN WW
  BY <1>4, <1>6, <1>7, <1>9
<1>20. RegistersFit(WW, Active', Retired', status', root', r)
  BY <1>1, <1>18, ThreadHas, OthersFit
<1>21. WW[r.at] = W[r.at] /\ r.at \in DOMAIN WW
  BY <1>6, <1>9 DEF Extends
<1> HIDE DEF r
<1>22. /\ AllRegisters \subseteq DOMAIN s /\ s.pc = "root" /\ s.rdesc = r.rdesc /\ s.desc = d
       /\ s.view = r.view /\ SameOp(r, s)
  BY <1>1 DEF AllRegisters, SameOp
<1> HIDE DEF s
<1>23. OpFits(WW, Active', Retired', s)
  <2>1. OpFits(WW, Active', Retired', r)
    BY <1>2, <1>10, <1>20 DEF RegistersFit, OpState, Begun
  <2>2. Chunk(s) = Chunk(r)
    BY <1>22 DEF SameOp, Chunk
  <2>3. s.renewing # None /\ RenewingFits(WW, Retired', r) => RenewingFits(WW, Retired', s)
    BY <1>22, <2>2 DEF SameOp, RenewingFits
  <2>4. s.purpose = "renew" => NodeFits(WW, Retired', r.root.id, r.node, d.after)
    BY <1>6, <1>16, <1>21, <1>22 DEF SameOp, NodeFits, WW
  <2>5. s.purpose = "renew" /\ RenewedFits(WW, Retired', r) => RenewedFits(WW, Retired', s)
    BY <1>22, <2>2, <2>4 DEF SameOp, RenewedFits
  <2>6. WalkFits(WW, Retired', r) => WalkFits(WW, Retired', s)
    BY <1>22, <2>3, <2>5 DEF SameOp, WalkFits
  <2> QED
    BY <1>22, <2>1, <2>6 DEF SameOp, OpFits
<1>24. OpState(WW, Active', Retired', s)
  BY <1>4, <1>20, <1>22, <1>23 DEF RegistersFit, OpState, SameOp, Begun
<1>25. GcasState(WW, Retired', s)
  BY <1>4, <1>19, <1>20, <1>22 DEF RegistersFit, GcasState, SameOp
<1>26. RootState(WW, Active', Retired', status', root', s)
  BY <1>20, <1>22 DEF RegistersFit, RootState, Helping
<1>27. ThreadsFit(WW)'
  BY <1>2, <1>18, <1>22, <1>24, <1>25, <1>26, CoreParts, ThreadsStep DEF RegistersFit, r
<1>28. PlacesOK(WW)'
  <2>1. ASSUME NEW n \in DOMAIN WW PROVE PlaceOK(Active, n, WW[n])
    <3>1. CASE n \in DOMAIN V
      <4>1. V[n].gen = r.root.id /\ V[n].path \in Paths /\ V[n].path # <<>>
        BY <1>6, <3>1 DEF FreshFits
      <4> QED
        BY <1>9, <1>11, <3>1, <4>1 DEF PlaceOK
    <3>2. CASE n \notin DOMAIN V
      BY <1>9, <3>2, CoreParts DEF PlacesOK, Extends
    <3> QED
      BY <3>1, <3>2
  <2> QED
    BY <1>15, <2>1 DEF PlacesOK
<1>29. NodesHold(WW)'
  <2>1. ASSUME NEW n \in DOMAIN WW PROVE MainHolds(WW, Active, Retired, n, main'[n])
    <3>1. CASE n \in DOMAIN V
      <4>1. /\ V[n].gen = r.root.id /\ Fits(WW, V[n].path, r.fresh[n])
            /\ Gens(Retired, r.root.id, r.fresh[n])
        BY <1>6, <3>1 DEF FreshFits, WW
      <4>2. main'[n] = r.fresh[n] /\ Plain(r.fresh[n])
        BY <1>2, <1>3, <1>6, <1>8, <1>9, <3>1
      <4> QED
        BY <1>9, <3>1, <4>1, <4>2 DEF MainHolds, Holds, Plain
    <3>2. CASE n \notin DOMAIN V
      <4>1. n \in DOMAIN W /\ WW[n] = W[n]
        BY <1>9, <3>2 DEF Extends
      <4>2. MainHolds(W, Active, Retired, n, main[n])
        BY <4>1, CoreParts DEF NodesHold
      <4>3. main[n].kind = "D" => main[n].id \in DOMAIN status
        BY <1>7, <4>1 DEF TrieInv, DescriptorsInstalled, Installed
      <4>4. ASSUME NEW m, Holds(W, Active, Retired, n, m) PROVE Holds(WW, Active, Retired, n, m)
        BY <1>9, <4>1, <4>4, FitsGrows DEF Holds
      <4>5. CASE n = r.at
        <5>1. main'[n] = d /\ Holds(W, Active, Retired, n, d.before)
          BY <1>2, <1>3, <1>7, <4>1, <4>2, <4>5 DEF MainHolds, Plain
        <5>2. Holds(WW, Active, Retired, n, d.after)
          BY <1>6, <4>1, <4>5 DEF Holds, WW
        <5>3. d.root.id = WW[n].gen /\ WW[n].gen \in Active
          BY <1>6, <1>11, <4>1, <4>5
        <5> QED
          BY <1>3, <1>19, <4>4, <5>1, <5>2, <5>3 DEF MainHolds, DescHolds
      <4>6. CASE n # r.at
        <5>1. main'[n] = main[n]
          BY <1>2, <1>7, <1>8, <3>2, <4>1, <4>6
        <5>2. main[n].kind = "D" => main[n].id \notin DOMAIN WW
          BY <1>4, <1>8, <1>9, <4>1, <4>3, DescriptorNoNode
        <5> QED
          BY <4>1, <4>2, <4>4, <5>1, <5>2 DEF MainHolds, DescHolds
      <4> QED
        BY <4>5, <4>6
    <3> QED
      BY <3>1, <3>2
  <2> QED
    BY <1>15, <1>16, <2>1 DEF NodesHold
<1>30. CurrentOK(WW)'
  <2>1. root.kind = "RD" => RootDescHolds(WW, Active', Retired', status', root', root)
    BY <1>7, <1>18 DEF CurrentOK, Grows
  <2>2. RootAt(WW, Active, CurrentRoot)
    BY <1>7, <1>9, RootAtGrows DEF CurrentOK
  <2>3. ASSUME root.kind = "RD", status[root.id] = "Undecided" PROVE main'[root.id] = main[root.id]
    <3>1. root.id \notin Active /\ W[root.id].gen = root.id /\ root.id \in DOMAIN W
      BY <1>7, <2>3 DEF CurrentOK, RootDescHolds, Active
    <3>2. root.id # r.at
      BY <1>6, <1>11, <3>1
    <3> QED
      BY <1>2, <1>4, <1>7, <3>1, <3>2
  <2>4. root.kind = "RD" /\ status[root.id] = "Undecided" =>
           main'[root.id].kind # "D" /\ Gens(Retired, root.before.id, main'[root.id])
    BY <1>7, <2>3 DEF CurrentOK
  <2>5. root' = root /\ (root.kind = "RD" => status'[root.id] = status[root.id])
    BY <1>2, <1>12, <1>13
  <2>6. root.kind \in {"R", "RD"} /\ RootAt(WW, Active', CurrentRoot')
    BY <1>7, <1>14, <1>15, <2>2 DEF CurrentOK
  <2>7. /\ root'.kind \in {"R", "RD"}
        /\ RootAt(WW, Active', CurrentRoot')
        /\ root'.kind = "RD" =>
              /\ RootDescHolds(WW, Active', Retired', status', root', root')
              /\ status'[root'.id] = "Undecided" =>
                    main'[root'.id].kind # "D" /\ Gens(Retired', root'.before.id, main'[root'.id])
    BY <1>16, <2>1, <2>4, <2>5, <2>6
  <2> QED
    BY <2>7 DEF CurrentOK, Gens
<1>31. \A u \in Callers : th'[u] = IF u = t THEN s ELSE th[u]
  <2>1. th' = [th EXCEPT ![t] = s]
    BY <1>2
  <2> QED
    BY <2>1, ThreadsAfter
<1>32. \A u \in Callers : u # t /\ th[u].pc # "install" /\ th[u].desc # None => th[u].desc.id # d.id
  BY <1>4, ThreadHas DEF ThreadOK, Installed
<1>33. \A n \in DOMAIN main' : main'[n].kind = "D" =>
          \/ n = r.at /\ main'[n] = d
          \/ n # r.at /\ n \in DOMAIN main /\ main'[n] = main[n] /\ main[n].id # d.id
  BY <1>2, <1>3, <1>4 DEF Plain, TrieInv, DescriptorsInstalled, Installed
<1>34. DescriptorsUnique'
  <2>1. DescriptorsUnique
    BY CoreParts
  <2> SUFFICES ASSUME NEW n \in DOMAIN main', main'[n].kind = "D"
               PROVE  /\ \A k \in DOMAIN main' :
                            main'[k].kind = "D" /\ main'[k].id = main'[n].id => main'[k] = main'[n]
                      /\ \A u \in Callers :
                            th'[u].pc # "install" /\ th'[u].desc # None /\ th'[u].desc.id = main'[n].id =>
                                th'[u].desc = main'[n]
    BY DEF DescriptorsUnique, Callers
  <2>2. CASE n = r.at /\ main'[n] = d
    BY <1>22, <1>31, <1>32, <1>33, <2>2
  <2>3. CASE n # r.at /\ n \in DOMAIN main /\ main'[n] = main[n] /\ main[n].id # d.id
    BY <1>22, <1>31, <1>32, <1>33, <2>1, <2>3 DEF DescriptorsUnique
  <2> QED
    BY <1>33, <2>2, <2>3
<1>35. ASSUME NEW n \in DOMAIN W, NEW m, m.kind # "D", KeptAt(n, m) PROVE KeptAt(n, m)'
  <2>1. CASE n = r.at
    <3>1. main[n] = m /\ main'[n] = d /\ d.before = m
      BY <1>2, <1>3, <1>7, <1>35, <2>1 DEF KeptAt, Plain
    <3>2. status'[d.id] # "Committed"
      BY <1>2
    <3>3. \A u \in Callers : th'[u].pc = "status" => th'[u].desc.id # d.id
      BY <1>22, <1>31, <1>32, ThreadHas DEF ThreadOK
    <3> QED
      BY <1>3, <3>1, <3>2, <3>3 DEF KeptAt, Callers
  <2>2. CASE n # r.at
    <3>1. main'[n] = main[n]
      BY <1>2, <1>4, <1>7, <2>2
    <3>2. main[n].kind = "D" => main[n].id \in DOMAIN status
      BY <1>7 DEF TrieInv, DescriptorsInstalled, Installed
    <3> QED
      BY <1>12, <1>22, <1>31, <1>35, <3>1, <3>2 DEF KeptAt, Callers
  <2> QED
    BY <2>1, <2>2
<1>36. AllFrozen(WW, f)'
  BY <1>9, <1>16, <1>35, CoreParts DEF AllFrozen, FrozenAt, Extends
<1>37. DOMAIN WW = DOMAIN main' /\ StaticId \in DOMAIN WW
  BY <1>2, <1>7, <1>8, <1>9
<1>38. CoreInv(WW, f)'
  BY <1>27, <1>28, <1>29, <1>30, <1>34, <1>36, <1>37 DEF CoreInv, ShapeInv
<1> QED
  BY <1>38

-----------------------------------------------------------------------------
\* Gcas: what is offered fits where it goes.

\* after, with the new nodes at the places V gives them, may replace what node holds.
Offers(W, t, node, after, fresh, V) ==
    /\ node \in DOMAIN W /\ W[node].gen = th[t].root.id
    /\ Fits(Join(W, V), W[node].path, after) /\ Gens(Retired, th[t].root.id, after)
    /\ FreshFits(W, Retired, th[t].root.id, fresh, V)
    /\ NewId(t) \notin DOMAIN V

\* The copy of the child is where the child was.
Renews(r, node, after) ==
    /\ r.phase \in Descends /\ node = r.node
    /\ Leads(after, Chunk(r)) /\ after.branches[Chunk(r)].gen = r.root.id

LEMMA GcasCore ==
    ASSUME TrieInv, NEW W, NEW f, CoreInv(W, f), NEW t \in Callers,
           NEW purpose, NEW node, NEW before, NEW after, NEW fresh, NEW ans, NEW V,
           Gcas(t, purpose, node, before, after, fresh, ans),
           th[t].pc = "main", th[t].phase \in OpPhases, purpose # "none",
           Offers(W, t, node, after, fresh, V),
           th[t].phase \in Descends \/ node = th[t].node,
           purpose = "renew" => Renews(th[t], node, after)
    PROVE  CoreInv(W, f)'
<1> DEFINE r == th[t]
           d == Descriptor(NewId(t), before, after, r.root)
           s == [r EXCEPT !.pc = "install", !.at = node, !.purpose = purpose,
                          !.renewing = None, !.fresh = fresh, !.ans = ans, !.desc = d]
<1>1. RegistersFit(W, Active, Retired, status, root, r) /\ AllRegisters \subseteq DOMAIN r
  BY CoreHas
<1>2. d.kind = "D" /\ d.id = NewId(t) /\ d.after = after /\ d.root = r.root /\ d # None
  BY DEF Descriptor, None
<1>3. Proceeds(t, s)
  BY DEF Gcas
<1>4. /\ node \in DOMAIN W /\ W[node].gen = r.root.id
      /\ Fits(Join(W, V), W[node].path, after) /\ Gens(Retired, r.root.id, after)
      /\ FreshFits(W, Retired, r.root.id, fresh, V) /\ NewId(t) \notin DOMAIN V
  BY DEF Offers
<1>5. r.phase \in Descends \/ node = r.node
  OBVIOUS
<1>6. r.pc = "main" /\ r.phase \in OpPhases /\ (purpose = "renew" => Renews(r, node, after))
  OBVIOUS
<1> HIDE DEF r, d
<1>7. /\ AllRegisters \subseteq DOMAIN s /\ s.pc = "install" /\ s.at = node /\ s.purpose = purpose
      /\ s.renewing = None /\ s.fresh = fresh /\ s.desc = d /\ s.phase = r.phase /\ s.call = r.call
      /\ s.root = r.root /\ s.node = r.node /\ s.level = r.level /\ s.parent = r.parent
      /\ s.view = r.view
  BY <1>1 DEF AllRegisters
<1> HIDE DEF s
<1>8. OpFits(W, Active, Retired, r) /\ OpState(W, Active, Retired, r)
  BY <1>1, <1>6 DEF RegistersFit, OpState, Begun
<1>9. Chunk(s) = Chunk(r)
  BY <1>7 DEF Chunk
<1>10. purpose = "renew" => RenewedFits(W, Retired, s)
  BY <1>2, <1>6, <1>7, <1>9 DEF Renews, RenewedFits
<1>11. WalkFits(W, Retired, r) => WalkFits(W, Retired, s)
  BY <1>7, <1>10 DEF WalkFits
<1>12. OpFits(W, Active, Retired, s)
  BY <1>5, <1>7, <1>8, <1>11 DEF OpFits
<1>13. OpState(W, Active, Retired, s)
  BY <1>7, <1>8, <1>12 DEF OpState, Begun
<1>14. OfferFits(W, Retired, s, V)
  BY <1>2, <1>4, <1>6, <1>7 DEF OfferFits, Renews
<1>15. GcasState(W, Retired, s)
  BY <1>2, <1>6, <1>7, <1>14 DEF GcasState, Renews, Helping
<1>16. RootState(W, Active, Retired, status, root, s)
  BY <1>1, <1>7 DEF RegistersFit, RootState, Helping
<1>17. RegistersFit(W, Active, Retired, status, root, s) /\ DescQuiet(r, s)
  BY <1>7, <1>13, <1>15, <1>16 DEF RegistersFit, DescQuiet
<1> QED
  BY <1>3, <1>17, ProceedsCore DEF r

\* What the walk, or Clear, has read.
LEMMA WalkHas ==
    ASSUME TrieInv, NEW W, NEW f, CoreInv(W, f), NEW t \in Callers,
           Walking(t) \/ ReadsMain(t, {"clear"})
    PROVE  /\ th[t].pc = "main" /\ th[t].phase \in OpPhases /\ th[t].at = th[t].node
           /\ th[t].node \in DOMAIN W /\ W[th[t].node].gen = th[t].root.id
           /\ W[th[t].node].path \in Paths
           /\ Fits(W, W[th[t].node].path, MainAt(t)) /\ Gens(Retired, th[t].root.id, MainAt(t))
           /\ th[t].call.key \in Keys
           /\ RootAt(W, Active, th[t].root)
           /\ OpFits(W, Active, Retired, th[t])
<1> DEFINE r == th[t]
<1>1. RegistersFit(W, Active, Retired, status, root, r) /\ AllRegisters \subseteq DOMAIN r
  BY CoreHas
<1>2. /\ r.pc = "main" /\ r.phase \in {"mutate", "clean", "clear"} /\ MainAt(t).kind # "D"
      /\ r.at \in DOMAIN main /\ MainAt(t) = main[r.at]
      /\ r.phase \in {"mutate", "clean"} => r.renewing = None
  BY DEF Walking, ReadsMain, AtMain, MainAt
<1> HIDE DEF r
<1>3. OpFits(W, Active, Retired, r) /\ r.call.key \in Keys /\ r.purpose = "none"
  BY <1>1, <1>2 DEF RegistersFit, OpState, GcasState, Begun, OpPhases, Descends, Helping
<1>4. /\ RootAt(W, Active, r.root) /\ r.node \in DOMAIN W /\ W[r.node].gen = r.root.id /\ r.at = r.node
  BY <1>2, <1>3 DEF OpFits, WalkFits, Descends
<1>5. W[r.node].path \in Paths /\ Holds(W, Active, Retired, r.node, MainAt(t))
  BY <1>2, <1>4, CoreParts DEF NodesHold, MainHolds
<1>6. r.root.id \in Active
  BY <1>4 DEF RootAt
<1> QED
  BY <1>2, <1>3, <1>4, <1>5, <1>6 DEF Holds, OpPhases, Descends, r

\* No new nodes are needed.
LEMMA OffersAlone ==
    ASSUME NEW W, NEW t, NEW node, NEW after, node \in DOMAIN W, W[node].gen = th[t].root.id,
           Fits(W, W[node].path, after), Gens(Retired, th[t].root.id, after)
    PROVE  Offers(W, t, node, after, <<>>, <<>>)
<1>1. Extends(W, Join(W, <<>>))
  BY JoinExtends
<1>2. Fits(Join(W, <<>>), W[node].path, after)
  BY <1>1, FitsGrows
<1>3. FreshFits(W, Retired, th[t].root.id, <<>>, <<>>)
  BY DEF FreshFits
<1> QED
  BY <1>2, <1>3 DEF Offers

\* The decision: nothing to do, or the Gcas of what fits.
LEMMA DecideCore ==
    ASSUME TrieInv, NEW W, NEW f, CoreInv(W, f), NEW t \in Callers, Walking(t),
           NEW dec, NEW val, NEW after, NEW fresh, NEW V, Decide(t, dec, val, after, fresh),
           dec.kind # "None" => Offers(W, t, th[t].node, after, fresh, V)
    PROVE  CoreInv(W, f)'
<1> DEFINE r == th[t]
           res == MutationResult(r.call, dec.kind # "None",
                              IF dec.kind = "None" THEN val ELSE dec.result, dec.matched)
           purpose == IF dec.kind = "Remove" THEN "remove" ELSE "set"
<1>1. \/ dec.kind = "None" /\ Returns(t, res)
      \/ dec.kind # "None" /\ Gcas(t, purpose, r.node, MainAt(t), after, fresh, res)
  BY DEF Decide
<1>2. purpose # "none" /\ purpose # "renew"
  OBVIOUS
<1>3. r.pc = "main" /\ r.phase \in OpPhases
  BY WalkHas
<1> HIDE DEF res, purpose
<1> QED
  BY <1>1, <1>2, <1>3, ReturnsCore, GcasCore

-----------------------------------------------------------------------------
\* The walk.

\* The key's chunk at this level leads one step down the key's path.
LEMMA WalkAt ==
    ASSUME TrieInv, NEW W, NEW f, CoreInv(W, f), NEW t \in Callers, Walking(t)
    PROVE  LET p == W[th[t].node].path
               c == ChunkOf(t)
           IN  /\ th[t].phase \in Descends /\ th[t].level = Len(p) + 1 /\ Len(p) \in Nat
               /\ OnPath(p, th[t].call.key)
               /\ Chunk(th[t]) = c
               /\ AtRoot(t, th[t].node) <=> p = <<>>
               /\ Len(p) < Levels =>
                     /\ c \in Nat /\ c = Hash[th[t].call.key][Len(p) + 1]
                     /\ Append(p, c) \in Paths /\ Append(p, c) # <<>>
                     /\ Len(Append(p, c)) = Len(p) + 1
                     /\ OnPath(Append(p, c), th[t].call.key)
<1> DEFINE r == th[t]
           p == W[r.node].path
           c == ChunkOf(t)
<1>1. /\ r.node \in DOMAIN W /\ p \in Paths /\ r.call.key \in Keys /\ OpFits(W, Active, Retired, r)
      /\ RootAt(W, Active, r.root) /\ W[r.node].gen = r.root.id
  BY WalkHas
<1>2. r.phase \in Descends
  BY DEF Walking, ReadsMain, Descends
<1>3. Chunk(r) = c /\ c = Hash[r.call.key][r.level]
  BY DEF Chunk, ChunkOf
<1>4. AtRoot(t, r.node) <=> r.node = r.root.node.id
  BY DEF AtRoot
<1> HIDE DEF c, r
<1>5. WalkFits(W, Retired, r)
  BY <1>1, <1>2 DEF OpFits
<1>6. r.level = Len(p) + 1 /\ Len(p) \in Nat /\ OnPath(p, r.call.key)
  BY <1>1, <1>5 DEF WalkFits, Paths
<1>7. PlaceOK(Active, r.node, W[r.node])
  BY <1>1, CoreParts DEF PlacesOK
<1>8. r.root.node.id = r.root.id
  BY <1>1 DEF RootAt, Root, INode
<1>9. AtRoot(t, r.node) <=> p = <<>>
  BY <1>1, <1>4, <1>7, <1>8 DEF PlaceOK
<1> HIDE DEF p
<1>10. ASSUME Len(p) < Levels
       PROVE  /\ c \in Nat /\ c = Hash[r.call.key][Len(p) + 1]
              /\ Append(p, c) \in Paths /\ Append(p, c) # <<>> /\ Len(Append(p, c)) = Len(p) + 1
              /\ OnPath(Append(p, c), r.call.key)
  <2>1. c = Hash[r.call.key][Len(p) + 1]
    BY <1>3, <1>6
  <2>2. Len(p) + 1 \in 1 .. Levels
    BY <1>6, <1>10, CtrieAssumption
  <2>3. Hash[r.call.key] \in [1 .. Levels -> Nat]
    BY <1>1, CtrieAssumption
  <2>4. c \in Nat
    BY <2>1, <2>2, <2>3
  <2>5. /\ Append(p, c) \in Paths /\ Append(p, c) # <<>> /\ Len(Append(p, c)) = Len(p) + 1
    BY <1>1, <1>10, <2>4, PathAppend
  <2>6. OnPath(Append(p, c), r.call.key)
    BY <1>1, <1>6, <1>10, <2>1, <2>4, OnPathAppend
  <2> QED
    BY <2>1, <2>4, <2>5, <2>6
<1> QED
  BY <1>2, <1>3, <1>6, <1>9, <1>10 DEF r, p, c

LEMMA BranchHas ==
    ASSUME NEW W, NEW p, NEW m, Fits(W, p, m), m.kind = "C"
    PROVE  /\ BranchesFit(W, p, m.branches) /\ Len(p) < Levels
           /\ p # <<>> => Compressed(m.branches)
           /\ \A c \in DOMAIN m.branches : c \in Nat /\ BranchFits(W, Append(p, c), m.branches[c])
BY DEF Fits, CNodeFits, BranchesFit

\* An indirection node's branch leads to a node one level down.
LEMMA ChildHas ==
    ASSUME NEW W, NEW p, NEW b, BranchFits(W, p, b), b.kind = "I"
    PROVE  b.id \in DOMAIN W /\ W[b.id].gen = b.gen /\ W[b.id].path = p
BY DEF BranchFits, Single, Child

LEMMA WalkDescendsCore ==
    ASSUME TrieInv, NEW W, NEW f, CoreInv(W, f), NEW t \in Callers, WalkDescends(t)
    PROVE  CoreInv(W, f)'
<1> DEFINE r == th[t]
           m == MainAt(t)
           c == ChunkOf(t)
           child == BranchAt(t).id
           p == W[r.node].path
           up == [node |-> r.node, main |-> m, chunk |-> c]
           s == [r EXCEPT !.parent = up, !.node = child, !.at = child, !.level = @ + 1]
<1>1. RegistersFit(W, Active, Retired, status, root, r) /\ AllRegisters \subseteq DOMAIN r
  BY CoreHas
<1>2. /\ Walking(t) /\ Proceeds(t, s)
      /\ m.kind = "C" /\ c \in DOMAIN m.branches /\ BranchAt(t) = m.branches[c]
      /\ m.branches[c].kind = "I" /\ m.branches[c].gen = r.root.id /\ child = m.branches[c].id
  BY DEF WalkDescends, BranchIs, InGeneration, BranchAt
<1>3. /\ r.pc = "main" /\ r.phase \in OpPhases /\ r.at = r.node
      /\ r.node \in DOMAIN W /\ W[r.node].gen = r.root.id /\ p \in Paths
      /\ Fits(W, p, m) /\ Gens(Retired, r.root.id, m) /\ r.call.key \in Keys
      /\ RootAt(W, Active, r.root) /\ OpFits(W, Active, Retired, r)
  BY <1>2, WalkHas
<1>4. /\ r.phase \in Descends /\ r.level = Len(p) + 1 /\ Len(p) \in Nat
      /\ OnPath(p, r.call.key) /\ Chunk(r) = c
      /\ Len(p) < Levels => Len(Append(p, c)) = Len(p) + 1 /\ OnPath(Append(p, c), r.call.key)
  BY <1>2, WalkAt
<1>5. r.renewing = None
  BY <1>2 DEF Walking
<1>6. up.node = r.node /\ up.main = m /\ up.chunk = c
  OBVIOUS
<1> HIDE DEF r, m, c, child, p, up
<1>7. /\ AllRegisters \subseteq DOMAIN s /\ s.pc = r.pc /\ s.at = child /\ s.purpose = r.purpose
      /\ s.renewing = None /\ s.desc = r.desc /\ s.phase = r.phase /\ s.call = r.call
      /\ s.root = r.root /\ s.node = child /\ s.level = r.level + 1 /\ s.parent = up
      /\ s.view = r.view /\ s.wish = r.wish /\ s.rdesc = r.rdesc
  BY <1>1, <1>5 DEF AllRegisters
<1> HIDE DEF s
<1>8. Len(p) < Levels /\ BranchFits(W, Append(p, c), m.branches[c])
  BY <1>2, <1>3, BranchHas
<1>9. child \in DOMAIN W /\ W[child].gen = r.root.id /\ W[child].path = Append(p, c)
  BY <1>2, <1>8 DEF BranchFits, Single, Child
<1>10. ParentFits(W, Retired, r.root.id, up, child)
  BY <1>2, <1>3, <1>6 DEF ParentFits, NodeFits, Leads, p
<1>11. r.purpose = "none"
  BY <1>1, <1>3 DEF RegistersFit, GcasState, Helping
<1>12. WalkFits(W, Retired, s)
  BY <1>4, <1>7, <1>8, <1>9, <1>10, <1>11 DEF WalkFits
<1>13. OpFits(W, Active, Retired, s)
  BY <1>3, <1>4, <1>7, <1>9, <1>12 DEF OpFits
<1>14. OpState(W, Active, Retired, s)
  BY <1>1, <1>3, <1>7, <1>13 DEF RegistersFit, OpState, Begun
<1>15. GcasState(W, Retired, s) /\ RootState(W, Active, Retired, status, root, s)
  BY <1>1, <1>3, <1>7, <1>11 DEF RegistersFit, GcasState, RootState, Helping
<1>16. RegistersFit(W, Active, Retired, status, root, s) /\ DescQuiet(r, s)
  BY <1>3, <1>7, <1>14, <1>15 DEF RegistersFit, DescQuiet
<1> QED
  BY <1>2, <1>16, ProceedsCore DEF r

LEMMA WalkMeetsOldChildCore ==
    ASSUME TrieInv, NEW W, NEW f, CoreInv(W, f), NEW t \in Callers, WalkMeetsOldChild(t)
    PROVE  CoreInv(W, f)'
<1> DEFINE r == th[t]
           m == MainAt(t)
           c == ChunkOf(t)
           child == BranchAt(t).id
           s == [r EXCEPT !.renewing = m, !.at = child]
<1>1. RegistersFit(W, Active, Retired, status, root, r) /\ AllRegisters \subseteq DOMAIN r
  BY CoreHas
<1>2. /\ Walking(t) /\ Proceeds(t, s)
      /\ m.kind = "C" /\ c \in DOMAIN m.branches /\ m.branches[c].kind = "I"
      /\ m.branches[c].gen # r.root.id /\ child = m.branches[c].id
  BY DEF WalkMeetsOldChild, BranchIs, InGeneration, BranchAt
<1>3. /\ r.pc = "main" /\ r.node \in DOMAIN W /\ W[r.node].gen = r.root.id
      /\ Fits(W, W[r.node].path, m) /\ Gens(Retired, r.root.id, m)
      /\ RootAt(W, Active, r.root) /\ OpFits(W, Active, Retired, r)
  BY <1>2, WalkHas
<1>4. r.phase \in Descends /\ Chunk(r) = c
  BY <1>2, WalkAt
<1> HIDE DEF r, m, c, child
<1>5. m # None
  BY <1>2 DEF None
<1>6. /\ AllRegisters \subseteq DOMAIN s /\ s.pc = r.pc /\ s.at = child /\ s.purpose = r.purpose
      /\ s.renewing = m /\ s.desc = r.desc /\ s.phase = r.phase /\ s.call = r.call
      /\ s.root = r.root /\ s.node = r.node /\ s.level = r.level /\ s.parent = r.parent
      /\ s.view = r.view
  BY <1>1 DEF AllRegisters
<1> HIDE DEF s
<1>7. r.purpose = "none"
  BY <1>1, <1>3 DEF RegistersFit, GcasState, Helping
<1>8. Chunk(s) = c
  BY <1>4, <1>6 DEF Chunk
<1>9. RenewingFits(W, Retired, s)
  BY <1>2, <1>3, <1>6, <1>7, <1>8 DEF RenewingFits, NodeFits, Leads
<1>10. WalkFits(W, Retired, r)
  BY <1>3, <1>4 DEF OpFits
<1>11. WalkFits(W, Retired, s)
  BY <1>5, <1>6, <1>7, <1>9, <1>10 DEF WalkFits
<1>12. OpFits(W, Active, Retired, s)
  BY <1>3, <1>4, <1>6, <1>11 DEF OpFits
<1>13. OpState(W, Active, Retired, s)
  BY <1>1, <1>3, <1>6, <1>12 DEF RegistersFit, OpState, Begun
<1>14. GcasState(W, Retired, s) /\ RootState(W, Active, Retired, status, root, s)
  BY <1>1, <1>3, <1>6, <1>7 DEF RegistersFit, GcasState, RootState, Helping
<1>15. RegistersFit(W, Active, Retired, status, root, s) /\ DescQuiet(r, s)
  BY <1>3, <1>6, <1>13, <1>14 DEF RegistersFit, DescQuiet
<1> QED
  BY <1>2, <1>15, ProceedsCore DEF r

\* EmptyCNode fits at the root only.
LEMMA ClearReplacesCore ==
    ASSUME TrieInv, NEW W, NEW f, CoreInv(W, f), NEW t \in Callers, ClearReplaces(t)
    PROVE  CoreInv(W, f)'
<1> DEFINE r == th[t]
<1>1. ReadsMain(t, {"clear"}) /\ Gcas(t, "clear", r.node, MainAt(t), EmptyCNode, <<>>, Done(TRUE))
  BY DEF ClearReplaces
<1>2. /\ r.pc = "main" /\ r.phase \in OpPhases /\ r.node \in DOMAIN W /\ W[r.node].gen = r.root.id
      /\ OpFits(W, Active, Retired, r) /\ RootAt(W, Active, r.root)
  BY <1>1, WalkHas
<1>3. r.phase = "clear"
  BY <1>1 DEF ReadsMain
<1> HIDE DEF r
<1>4. W[r.node].path = <<>>
  BY <1>2, <1>3 DEF OpFits, RootAt, Descends
<1>5. /\ EmptyCNode.kind = "C" /\ DOMAIN EmptyCNode.branches = {}
  BY DEF EmptyCNode, CNode
<1>6. Fits(W, W[r.node].path, EmptyCNode) /\ Gens(Retired, r.root.id, EmptyCNode)
  <2>1. IsFiniteSet({})
    BY FS_EmptySet
  <2>2. 0 < Levels /\ Len(<<>>) = 0
    BY CtrieAssumption
  <2>3. BranchesFit(W, <<>>, EmptyCNode.branches)
    BY <1>5, <2>1, <2>2 DEF BranchesFit
  <2> QED
    BY <1>4, <1>5, <2>3 DEF Fits, CNodeFits, Gens
<1>7. Offers(W, t, r.node, EmptyCNode, <<>>, <<>>)
  BY <1>2, <1>6, OffersAlone DEF r
<1> QED
  BY <1>1, <1>2, <1>7, GcasCore DEF r

-----------------------------------------------------------------------------
\* What the operators on C-nodes make of branches that fit.

\* The generations of a C-node's children.
GensOf(R, g, branches) ==
    \A c \in DOMAIN branches : branches[c].kind = "I" => branches[c].gen \in {g} \cup R

LEMMA CNodeIs ==
    ASSUME NEW id, NEW branches
    PROVE  CNode(id, branches).kind = "C" /\ CNode(id, branches).branches = branches
BY DEF CNode

LEMMA LeafIs ==
    ASSUME NEW id, NEW x
    PROVE  /\ LNode(id, x).kind = "L" /\ LNode(id, x).entries = x
           /\ TNode(id, x).kind = "T" /\ TNode(id, x).entry = x
BY DEF LNode, TNode

LEMMA NoneFits ==
    ASSUME NEW W, NEW p, Len(p) < Levels
    PROVE  BranchesFit(W, p, [c \in {} |-> None]) /\ DOMAIN [c \in {} |-> None] = {}
<1> DEFINE B == [c \in {} |-> None]
<1>1. DOMAIN B = {}
  OBVIOUS
<1> HIDE DEF B
<1>2. IsFiniteSet(DOMAIN B)
  BY <1>1, FS_EmptySet
<1>3. BranchesFit(W, p, B)
  BY <1>1, <1>2 DEF BranchesFit
<1> QED
  BY <1>1, <1>3 DEF B

LEMMA PutFits ==
    ASSUME NEW W, NEW p, NEW B, BranchesFit(W, p, B), NEW c \in Nat, NEW b,
           BranchFits(W, Append(p, c), b)
    PROVE  BranchesFit(W, p, Put(B, c, b))
<1> DEFINE P == Put(B, c, b)
<1>1. /\ DOMAIN P = DOMAIN B \cup {c} /\ P[c] = b /\ \A d \in DOMAIN B : d # c => P[d] = B[d]
  BY DEF Put
<1> HIDE DEF P
<1>2. IsFiniteSet(DOMAIN P)
  BY <1>1, FS_AddElement DEF BranchesFit
<1>3. BranchesFit(W, p, P)
  BY <1>1, <1>2 DEF BranchesFit
<1> QED
  BY <1>3 DEF P

LEMMA PutGens ==
    ASSUME NEW R, NEW g, NEW B, GensOf(R, g, B), NEW c, NEW b, b.kind = "I" => b.gen \in {g} \cup R
    PROVE  GensOf(R, g, Put(B, c, b))
<1> DEFINE P == Put(B, c, b)
<1>1. /\ DOMAIN P = DOMAIN B \cup {c} /\ P[c] = b /\ \A d \in DOMAIN B : d # c => P[d] = B[d]
  BY DEF Put
<1> HIDE DEF P
<1>2. GensOf(R, g, P)
  BY <1>1 DEF GensOf
<1> QED
  BY <1>2 DEF P

\* A C-node does not end up with one singleton by an insertion or a replacement.
LEMMA PutCompressed ==
    ASSUME NEW B, Compressed(B), NEW c, NEW b,
           b.kind = "I" \/ c \notin DOMAIN B \/ B[c].kind = "S"
    PROVE  Compressed(Put(B, c, b))
<1> DEFINE P == Put(B, c, b)
<1>1. /\ DOMAIN P = DOMAIN B \cup {c} /\ P[c] = b /\ \A d \in DOMAIN B : d # c => P[d] = B[d]
  BY DEF Put
<1> HIDE DEF P
<1>2. ASSUME NEW d \in DOMAIN P, DOMAIN P = {d} PROVE P[d].kind = "I"
  <2>1. d = c /\ DOMAIN B = {c}
    BY <1>1, <1>2 DEF Compressed
  <2> QED
    BY <1>1, <2>1 DEF Compressed
<1>3. Compressed(P)
  BY <1>1, <1>2 DEF Compressed
<1> QED
  BY <1>3 DEF P

LEMMA DropFits ==
    ASSUME NEW W, NEW p, NEW B, BranchesFit(W, p, B), NEW R, NEW g, GensOf(R, g, B), NEW c \in DOMAIN B,
           B[c].kind = "S"
    PROVE  /\ BranchesFit(W, p, Drop(B, c)) /\ GensOf(R, g, Drop(B, c))
           /\ Compressed(B) => DOMAIN Drop(B, c) # {}
<1> DEFINE P == Drop(B, c)
<1>1. DOMAIN P = DOMAIN B \ {c} /\ \A d \in DOMAIN P : P[d] = B[d]
  BY DEF Drop
<1> HIDE DEF P
<1>2. IsFiniteSet(DOMAIN P)
  BY <1>1, FS_Subset DEF BranchesFit
<1>3. BranchesFit(W, p, P) /\ GensOf(R, g, P)
  BY <1>1, <1>2 DEF BranchesFit, GensOf
<1>4. Compressed(B) => DOMAIN P # {}
  BY <1>1 DEF Compressed
<1> QED
  BY <1>3, <1>4 DEF P

\* A singleton is on the path of the node above it.
LEMMA SingleAbove ==
    ASSUME NEW p \in Paths, NEW c \in Nat, Len(p) < Levels, NEW s, Single(s, Append(p, c))
    PROVE  Single(s, p)
BY OnPathAppend DEF Single

LEMMA ContractFits ==
    ASSUME NEW W, NEW p \in Paths, NEW B, BranchesFit(W, p, B), NEW R, NEW g, GensOf(R, g, B),
           NEW id, NEW isRoot, isRoot <=> p = <<>>, p # <<>> => DOMAIN B # {}
    PROVE  Fits(W, p, Contract(id, B, isRoot)) /\ Gens(R, g, Contract(id, B, isRoot))
<1> DEFINE only == B[CHOOSE c \in DOMAIN B : TRUE]
           m == CNode(id, B)
           n == TNode(id, only)
<1>1. m.kind = "C" /\ m.branches = B /\ n.kind = "T" /\ n.entry = only
  BY CNodeIs, LeafIs
<1>2. isRoot \/ Cardinality(DOMAIN B) > 1 => Contract(id, B, isRoot) = m
  BY DEF Contract
<1>3. ~(isRoot \/ Cardinality(DOMAIN B) > 1) /\ DOMAIN B # {} =>
          Contract(id, B, isRoot) = IF only.kind = "S" THEN n ELSE m
  BY DEF Contract
<1> HIDE DEF m, n, only
<1>4. Gens(R, g, m) /\ Gens(R, g, n)
  BY <1>1 DEF Gens, GensOf
<1>5. CASE isRoot
  BY <1>1, <1>2, <1>4, <1>5 DEF Fits, CNodeFits
<1>6. CASE ~isRoot /\ Cardinality(DOMAIN B) > 1
  <2>1. ASSUME NEW c, DOMAIN B = {c} PROVE FALSE
    <3>1. Cardinality({c}) = 1
      BY FS_Singleton
    <3> QED
      BY <1>6, <2>1, <3>1
  <2>2. Compressed(B)
    BY <1>6, <2>1 DEF Compressed
  <2> QED
    BY <1>1, <1>2, <1>4, <1>6, <2>2 DEF Fits, CNodeFits
<1>7. CASE ~isRoot /\ ~(Cardinality(DOMAIN B) > 1)
  <2>1. IsFiniteSet(DOMAIN B) /\ DOMAIN B # {}
    BY <1>7 DEF BranchesFit
  <2>2. Cardinality(DOMAIN B) \in Nat /\ Cardinality(DOMAIN B) # 0
    BY <2>1, FS_CardinalityType, FS_EmptySet
  <2>3. PICK x : DOMAIN B = {x}
    <3>1. Cardinality(DOMAIN B) = 1
      BY <1>7, <2>2
    <3> QED
      BY <2>1, <3>1, FS_Singleton
  <2>4. only = B[x] /\ x \in DOMAIN B /\ x \in Nat /\ Len(p) < Levels /\ BranchFits(W, Append(p, x), B[x])
    BY <2>3 DEF only, BranchesFit
  <2>5. CASE only.kind = "S"
    <3>1. Single(only, Append(p, x))
      BY <2>4, <2>5 DEF BranchFits, Child
    <3>2. Single(only, p)
      BY <2>4, <3>1, SingleAbove
    <3> QED
      BY <1>1, <1>3, <1>4, <1>7, <2>1, <2>5, <3>2 DEF Fits
  <2>6. CASE only.kind # "S"
    <3>1. only.kind = "I"
      BY <2>4, <2>6 DEF BranchFits, Child, Single
    <3>2. Compressed(B)
      BY <2>3, <2>4, <3>1 DEF Compressed
    <3> QED
      BY <1>1, <1>3, <1>4, <1>7, <2>1, <2>6, <3>2 DEF Fits, CNodeFits
  <2> QED
    BY <2>5, <2>6
<1> QED
  BY <1>5, <1>6, <1>7

-----------------------------------------------------------------------------
\* What they make of a bucket.

LEMMA BucketRemove ==
    ASSUME NEW p, NEW e, Bucket(p, e), NEW i \in 1 .. Len(e)
    PROVE  Bucket(p, RemoveAt(e, i)) /\ Len(RemoveAt(e, i)) = Len(e) - 1
<1>1. PICK S : e \in Seq(S)
  BY DEF Bucket
<1>2. Len(e) \in Nat /\ \A j \in 1 .. Len(e) : e[j] \in S
  BY <1>1, LenProperties
<1> DEFINE a == SubSeq(e, 1, i - 1)
           b == SubSeq(e, i + 1, Len(e))
           s == a \o b
<1>3. /\ a \in Seq(S) /\ Len(a) = i - 1 /\ \A j \in 1 .. i - 1 : a[j] = e[j]
  BY <1>2, SubSeqProperties
<1>4. /\ b \in Seq(S) /\ Len(b) = Len(e) - i /\ \A j \in 1 .. Len(e) - i : b[j] = e[j + i]
  <2>1. \A j \in i + 1 .. Len(e) : e[j] \in S
    BY <1>2
  <2>2. b \in Seq(S) /\ Len(b) = IF i + 1 <= Len(e) THEN Len(e) - (i + 1) + 1 ELSE 0
    BY <1>2, <2>1, SubSeqProperties
  <2>3. \A j \in 1 .. Len(e) - (i + 1) + 1 : b[j] = e[(i + 1) + j - 1]
    BY <1>2, <2>1, SubSeqProperties
  <2> QED
    BY <1>2, <2>2, <2>3
<1>5. RemoveAt(e, i) = s
  BY DEF RemoveAt
<1> HIDE DEF a, b
<1>6. /\ s \in Seq(S) /\ Len(s) = Len(e) - 1
      /\ \A j \in 1 .. Len(e) - 1 : s[j] = IF j < i THEN e[j] ELSE e[j + 1]
  <2>1. /\ s \in Seq(S) /\ Len(s) = Len(a) + Len(b)
        /\ \A j \in 1 .. Len(a) + Len(b) : s[j] = IF j <= Len(a) THEN a[j] ELSE b[j - Len(a)]
    BY <1>3, <1>4, ConcatProperties
  <2> HIDE DEF s
  <2>2. s \in Seq(S) /\ Len(s) = Len(e) - 1
    BY <1>2, <1>3, <1>4, <2>1
  <2>3. ASSUME NEW j \in 1 .. Len(e) - 1 PROVE s[j] = IF j < i THEN e[j] ELSE e[j + 1]
    <3>0. j \in 1 .. Len(a) + Len(b) /\ j \in Int /\ i \in Int /\ (j <= Len(a) <=> j < i)
      BY <1>2, <1>3, <1>4
    <3>1. CASE j < i
      <4>1. s[j] = a[j] /\ j \in 1 .. i - 1
        BY <2>1, <3>0, <3>1
      <4> QED
        BY <1>3, <3>1, <4>1
    <3>2. CASE ~(j < i)
      <4>1. s[j] = b[j - (i - 1)] /\ j - (i - 1) \in 1 .. Len(e) - i
        <5>1. s[j] = b[j - Len(a)]
          BY <2>1, <3>0, <3>2
        <5>2. Len(a) = i - 1
          BY <1>3
        <5> QED
          BY <1>2, <3>0, <3>2, <5>1, <5>2
      <4>2. b[j - (i - 1)] = e[j - (i - 1) + i]
        BY <1>4, <4>1
      <4>3. j - (i - 1) + i = j + 1
        BY <1>2
      <4> QED
        BY <3>2, <4>1, <4>2, <4>3
    <3> QED
      BY <3>1, <3>2
  <2> QED
    BY <2>2, <2>3
<1> HIDE DEF s
<1>7. Bucket(p, s)
  <2>1. \A j \in 1 .. Len(s) : Single(s[j], p)
    BY <1>2, <1>6 DEF Bucket
  <2>2. ASSUME NEW j \in 1 .. Len(s), NEW k \in 1 .. Len(s)
        PROVE  Hash[s[j].key] = Hash[s[k].key] /\ (s[j].key = s[k].key => j = k)
    <3> DEFINE jj == IF j < i THEN j ELSE j + 1
               kk == IF k < i THEN k ELSE k + 1
    <3>1. jj \in 1 .. Len(e) /\ kk \in 1 .. Len(e) /\ s[j] = e[jj] /\ s[k] = e[kk] /\ (jj = kk => j = k)
      BY <1>2, <1>6
    <3> HIDE DEF jj, kk
    <3> QED
      BY <3>1 DEF Bucket
  <2> QED
    BY <1>6, <2>1, <2>2 DEF Bucket
<1> QED
  BY <1>5, <1>6, <1>7

LEMMA BucketReplace ==
    ASSUME NEW p, NEW e, Bucket(p, e), NEW i \in 1 .. Len(e), NEW x, Single(x, p), x.key = e[i].key
    PROVE  Bucket(p, [e EXCEPT ![i] = x]) /\ Len([e EXCEPT ![i] = x]) = Len(e)
<1>1. PICK S : e \in Seq(S)
  BY DEF Bucket
<1> DEFINE T == S \cup {x}
           s == [e EXCEPT ![i] = x]
<1>2. e \in Seq(T) /\ x \in T
  BY <1>1, SeqMonotonic
<1>3. /\ s \in Seq(T) /\ Len(s) = Len(e)
      /\ \A j \in 1 .. Len(e) : s[j] = IF j = i THEN x ELSE e[j]
  BY <1>2, ExceptSeq
<1> HIDE DEF s, T
<1>4. \A j \in 1 .. Len(s) : Single(s[j], p) /\ s[j].key = e[j].key
  BY <1>3 DEF Bucket
<1>5. Bucket(p, s)
  BY <1>3, <1>4 DEF Bucket
<1> QED
  BY <1>3, <1>5 DEF s

LEMMA BucketAppend ==
    ASSUME NEW p, NEW e, Bucket(p, e), Len(e) >= 1, NEW x, Single(x, p),
           Hash[x.key] = Hash[e[1].key], \A i \in 1 .. Len(e) : e[i].key # x.key
    PROVE  Bucket(p, Append(e, x)) /\ Len(Append(e, x)) = Len(e) + 1
<1>1. PICK S : e \in Seq(S)
  BY DEF Bucket
<1> DEFINE T == S \cup {x}
           s == Append(e, x)
<1>2. e \in Seq(T) /\ x \in T /\ Len(e) \in Nat
  BY <1>1, SeqMonotonic, LenProperties
<1>3. /\ s \in Seq(T) /\ Len(s) = Len(e) + 1 /\ s[Len(e) + 1] = x
      /\ \A j \in 1 .. Len(e) : s[j] = e[j]
  BY <1>2, AppendProperties
<1> HIDE DEF s, T
<1>4. \A j \in 1 .. Len(s) : j \in 1 .. Len(e) \/ j = Len(e) + 1
  BY <1>2, <1>3
<1>5. \A j \in 1 .. Len(s) : Single(s[j], p) /\ Hash[s[j].key] = Hash[e[1].key]
  <2>1. 1 \in 1 .. Len(e)
    BY <1>2
  <2> QED
    BY <1>3, <1>4, <2>1 DEF Bucket
<1>6. ASSUME NEW j \in 1 .. Len(s), NEW k \in 1 .. Len(s), s[j].key = s[k].key PROVE j = k
  BY <1>3, <1>4, <1>6 DEF Bucket
<1>7. Bucket(p, s)
  BY <1>3, <1>5, <1>6 DEF Bucket
<1> QED
  BY <1>3, <1>7 DEF s

\* Find gives the one entry of the key.
LEMMA FindIs ==
    ASSUME NEW p, NEW e, Bucket(p, e), NEW k
    PROVE  /\ Find(e, k) >= 0 => Find(e, k) \in 1 .. Len(e) /\ e[Find(e, k)].key = k
           /\ ~(Find(e, k) >= 0) => \A i \in 1 .. Len(e) : e[i].key # k
<1>1. PICK S : e \in Seq(S)
  BY DEF Bucket
<1>2. DOMAIN e = 1 .. Len(e) /\ Len(e) \in Nat
  BY <1>1, LenProperties
<1> DEFINE hits == {i \in DOMAIN e : e[i].key = k}
<1>3. Find(e, k) = IF hits = {} THEN -1 ELSE CHOOSE i \in hits : \A j \in hits : i <= j
  BY DEF Find
<1>4. CASE hits = {}
  BY <1>2, <1>3, <1>4
<1>5. CASE hits # {}
  <2>1. PICK i \in hits : TRUE
    BY <1>5
  <2>2. \A j \in hits : j = i
    BY <1>2, <2>1 DEF Bucket
  <2>3. i \in Nat
    BY <1>2, <2>1
  <2>4. \A j \in hits : i <= j
    BY <2>2, <2>3
  <2> HIDE DEF hits
  <2>5. Find(e, k) = i
    BY <1>3, <1>5, <2>1, <2>2, <2>4
  <2> QED
    BY <1>2, <2>1, <2>3, <2>5 DEF hits
<1> QED
  BY <1>4, <1>5

-----------------------------------------------------------------------------
\* The nodes that Merge creates.

\* The chunks of key k's hash above level n + 1.
Prefix(k, n) == SubSeq(Hash[k], 1, n)

\* Two keys' chunks above level n are the same.
AgreeAbove(k, x, n) == \A i \in 1 .. n - 1 : Hash[k][i] = Hash[x][i]

LEMMA HashIs ==
    ASSUME NEW k \in Keys
    PROVE  /\ Hash[k] \in [1 .. Levels -> Nat] /\ Levels \in Nat /\ Levels # 0
           /\ \A i \in 1 .. Levels : Hash[k][i] \in Nat
BY CtrieAssumption

LEMMA PrefixIs ==
    ASSUME NEW k \in Keys, NEW n \in 0 .. Levels
    PROVE  /\ Prefix(k, n) \in Paths /\ Len(Prefix(k, n)) = n /\ (n # 0 => Prefix(k, n) # <<>>)
           /\ \A i \in 1 .. n : Prefix(k, n)[i] = Hash[k][i]
           /\ \A x : OnPath(Prefix(k, n), x) <=> \A i \in 1 .. n : Hash[x][i] = Hash[k][i]
<1> DEFINE p == Prefix(k, n)
<1>1. /\ p \in Paths /\ Len(p) = n /\ (n # 0 => p # <<>>)
      /\ \A i \in 1 .. n : p[i] = Hash[k][i]
  BY HashPrefix DEF Prefix
<1> HIDE DEF p
<1>2. \A x : OnPath(p, x) <=> \A i \in 1 .. n : Hash[x][i] = Hash[k][i]
  BY <1>1 DEF OnPath
<1> QED
  BY <1>1, <1>2 DEF p

LEMMA PrefixAppend ==
    ASSUME NEW k \in Keys, NEW j \in 1 .. Levels
    PROVE  Prefix(k, j) = Append(Prefix(k, j - 1), Hash[k][j])
<1> DEFINE p == Prefix(k, j - 1)
           q == Prefix(k, j)
           c == Hash[k][j]
<1>1. Levels \in Nat /\ c \in Nat /\ j - 1 \in 0 .. Levels /\ j \in 0 .. Levels
  BY HashIs
<1>2. p \in Paths /\ Len(p) = j - 1 /\ \A i \in 1 .. j - 1 : p[i] = Hash[k][i]
  BY <1>1, PrefixIs
<1>3. q \in Paths /\ Len(q) = j /\ \A i \in 1 .. j : q[i] = Hash[k][i]
  BY <1>1, PrefixIs
<1> HIDE DEF p, q, c
<1>4. /\ Append(p, c) \in Paths /\ Len(Append(p, c)) = j /\ Append(p, c)[j] = c
      /\ \A i \in 1 .. j - 1 : Append(p, c)[i] = p[i]
  <2>1. Len(p) < Levels /\ Len(p) + 1 = j
    BY <1>1, <1>2
  <2> QED
    BY <1>1, <1>2, <2>1, PathAppend
<1> DEFINE s == Append(p, c)
<1> HIDE DEF s
<1>5. s \in Paths /\ Len(s) = j /\ \A i \in 1 .. j : q[i] = s[i]
  <2>1. \A i \in 1 .. j : i = j \/ i \in 1 .. j - 1
    BY <1>1
  <2> QED
    BY <1>2, <1>3, <1>4, <2>1 DEF s, c
<1>6. q = s
  BY <1>3, <1>5, PathsEqual
<1> QED
  BY <1>6 DEF p, q, c, s

\* A path is the prefix of the hashes it leads to.
LEMMA PrefixOf ==
    ASSUME NEW p \in Paths, NEW k \in Keys, OnPath(p, k)
    PROVE  p = Prefix(k, Len(p)) /\ Len(p) \in 0 .. Levels
<1>1. Len(p) \in 0 .. Levels
  BY CtrieAssumption DEF Paths
<1> DEFINE q == Prefix(k, Len(p))
<1>2. q \in Paths /\ Len(q) = Len(p) /\ \A i \in 1 .. Len(p) : q[i] = Hash[k][i]
  BY <1>1, PrefixIs
<1> HIDE DEF q
<1>3. p = q
  BY <1>2, PathsEqual DEF OnPath
<1> QED
  BY <1>1, <1>3 DEF q

\* Two keys on one path agree on its chunks.
LEMMA OnPathAgree ==
    ASSUME NEW p \in Paths, NEW k, NEW x, OnPath(p, k), OnPath(p, x)
    PROVE  AgreeAbove(k, x, Len(p) + 1)
<1>1. Len(p) \in Nat
  BY DEF Paths
<1> QED
  BY <1>1 DEF AgreeAbove, OnPath

\* Every set of natural numbers that is not empty has a least one.
LEMMA LeastLevel ==
    ASSUME NEW T, T \subseteq Nat, T # {}
    PROVE  \E m \in T : \A k \in T : m <= k
<1>1. PICK m \in T : \A k \in T : ~(<<k, m>> \in OpToRel(<, Nat))
  BY NatLessThanWellFounded, WFMin
<1>2. \A k \in T : ~(k < m)
  BY <1>1 DEF OpToRel
<1> QED
  BY <1>2

LEMMA HashesPart ==
    ASSUME NEW D, NEW h \in [D -> Nat], NEW g \in [D -> Nat], h # g
    PROVE  \E i \in D : h[i] # g[i]
OBVIOUS

\* Two hashes that agree above a level part at SplitLevel.
LEMMA SplitIs ==
    ASSUME NEW k \in Keys, NEW x \in Keys, Hash[k] # Hash[x],
           NEW level \in 1 .. Levels + 1, AgreeAbove(k, x, level)
    PROVE  LET j == SplitLevel(Hash[k], Hash[x], level)
           IN  j \in level .. Levels /\ Hash[k][j] # Hash[x][j] /\ AgreeAbove(k, x, j)
<1> DEFINE T == {j \in level .. Levels : Hash[k][j] # Hash[x][j]}
           s == SplitLevel(Hash[k], Hash[x], level)
<1>1. Hash[k] \in [1 .. Levels -> Nat] /\ Hash[x] \in [1 .. Levels -> Nat] /\ Levels \in Nat
  BY HashIs
<1>2. T \subseteq Nat /\ T # {}
  <2>1. PICK i \in 1 .. Levels : Hash[k][i] # Hash[x][i]
    BY <1>1, HashesPart
  <2>2. ~(i \in 1 .. level - 1)
    BY <2>1 DEF AgreeAbove
  <2>3. i \in level .. Levels
    BY <1>1, <2>2
  <2>4. i \in T
    BY <2>1, <2>3
  <2>5. T \subseteq Nat
    BY <1>1
  <2> QED
    BY <2>4, <2>5
<1>3. s = CHOOSE m \in T : \A j \in T : m <= j
  BY DEF SplitLevel, Min
<1>4. \E m \in T : \A j \in T : m <= j
  BY <1>2, LeastLevel
<1> HIDE DEF s
<1>5. s \in T /\ \A j \in T : s <= j
  BY <1>3, <1>4
<1>6. AgreeAbove(k, x, s)
  <2>1. ASSUME NEW i \in 1 .. s - 1, Hash[k][i] # Hash[x][i] PROVE FALSE
    <3>1. ~(i \in 1 .. level - 1)
      BY <2>1 DEF AgreeAbove
    <3>2. i \in T
      BY <1>1, <1>5, <2>1, <3>1
    <3> QED
      BY <1>1, <1>5, <2>1, <3>2
  <2> QED
    BY <2>1 DEF AgreeAbove
<1> QED
  BY <1>5, <1>6 DEF s

NoBranches == [c \in {} |-> None]

\* A C-node with one branch, to the next node on the path.
LEMMA LinkFits ==
    ASSUME NEW W, NEW k \in Keys, NEW j \in 1 .. Levels, NEW n, NEW g, NEW R, NEW id,
           n \in DOMAIN W, W[n] = [gen |-> g, path |-> Prefix(k, j)]
    PROVE  LET m == CNode(id, Put(NoBranches, Hash[k][j], INode(n, g)))
           IN  Fits(W, Prefix(k, j - 1), m) /\ Gens(R, g, m)
<1> DEFINE c == Hash[k][j]
           p == Prefix(k, j - 1)
           b == INode(n, g)
           B == Put(NoBranches, c, b)
           m == CNode(id, B)
<1>1. /\ c \in Nat /\ Levels \in Nat /\ j - 1 \in 0 .. Levels /\ j - 1 < Levels
      /\ Prefix(k, j) = Append(p, c)
  BY HashIs, PrefixAppend
<1>2. p \in Paths /\ Len(p) = j - 1
  BY <1>1, PrefixIs
<1>3. b.kind = "I" /\ b.id = n /\ b.gen = g
  BY DEF INode
<1>4. m.kind = "C" /\ m.branches = B
  BY CNodeIs
<1> HIDE DEF c, p, b, m
<1>5. DOMAIN B = {c} /\ B[c] = b
  BY DEF Put, NoBranches
<1>6. BranchFits(W, Append(p, c), b)
  BY <1>1, <1>3 DEF BranchFits, Child
<1>7. BranchesFit(W, p, NoBranches)
  BY <1>1, <1>2, NoneFits DEF NoBranches
<1>8. BranchesFit(W, p, B)
  BY <1>1, <1>6, <1>7, PutFits
<1> HIDE DEF B
<1>9. Compressed(B)
  BY <1>3, <1>5 DEF Compressed
<1>10. Fits(W, p, m) /\ Gens(R, g, m)
  BY <1>3, <1>4, <1>5, <1>8, <1>9 DEF Fits, CNodeFits, Gens
<1> QED
  BY <1>10 DEF m, p, B, c, b

\* A C-node at which two hashes part.
LEMMA ForkFits ==
    ASSUME NEW W, NEW k \in Keys, NEW x \in Keys, NEW j \in 1 .. Levels,
           Hash[k][j] # Hash[x][j], AgreeAbove(k, x, j), NEW g, NEW R, NEW id,
           NEW a, BranchFits(W, Prefix(k, j), a), a.kind = "I" => a.gen = g,
           NEW b, b.kind = "S", b.key = x
    PROVE  LET m == CNode(id, Put(Put(NoBranches, Hash[k][j], a), Hash[x][j], b))
           IN  Fits(W, Prefix(k, j - 1), m) /\ Gens(R, g, m)
<1> DEFINE c == Hash[k][j]
           d == Hash[x][j]
           p == Prefix(k, j - 1)
           A == Put(NoBranches, c, a)
           B == Put(A, d, b)
           m == CNode(id, B)
<1>1. /\ c \in Nat /\ d \in Nat /\ Levels \in Nat /\ j - 1 \in 0 .. Levels /\ j - 1 < Levels
      /\ Prefix(k, j) = Append(p, c)
  BY HashIs, PrefixAppend
<1>2. p \in Paths /\ Len(p) = j - 1 /\ OnPath(p, x)
  BY <1>1, PrefixIs DEF AgreeAbove
<1>3. m.kind = "C" /\ m.branches = B
  BY CNodeIs
<1>4. c # d
  OBVIOUS
<1> HIDE DEF p, m
<1>5. OnPath(Append(p, d), x)
  <2>1. Hash[x][Len(p) + 1] = d
    BY <1>1, <1>2
  <2> HIDE DEF d
  <2> QED
    BY <1>1, <1>2, <2>1, OnPathAppend
<1> HIDE DEF c, d
<1>6. DOMAIN A = {c} /\ A[c] = a
  BY DEF Put, NoBranches
<1>7. BranchesFit(W, p, NoBranches)
  BY <1>1, <1>2, NoneFits DEF NoBranches
<1>8. BranchesFit(W, p, A)
  BY <1>1, <1>7, PutFits
<1>9. BranchFits(W, Append(p, d), b)
  BY <1>5 DEF BranchFits, Single
<1> HIDE DEF A
<1>10. BranchesFit(W, p, B)
  BY <1>1, <1>8, <1>9, PutFits
<1>11. DOMAIN B = {c, d} /\ B[c] = a /\ B[d] = b
  BY <1>4, <1>6 DEF Put
<1> HIDE DEF B
<1>12. Compressed(B)
  BY <1>4, <1>11 DEF Compressed
<1>13. Fits(W, p, m) /\ Gens(R, g, m)
  BY <1>3, <1>10, <1>11, <1>12 DEF Fits, CNodeFits, Gens
<1> QED
  BY <1>13 DEF m, p, A, B, c, d

\* Merge names its new nodes after the C-node it is for.
Slotted(id, V) == \A n \in DOMAIN V : \E j \in Nat \ {0} : n = SlotId(id, j)

\* The places of the new nodes in the slots from a to b, on key k's path.
Spine(id, g, k, a, b) ==
    [n \in {SlotId(id, j) : j \in a .. b} |-> [gen |-> g, path |-> Prefix(k, n[3] - 1)]]

SpineOK(id, g, k, a, b, V, WW) ==
    /\ DOMAIN V = {SlotId(id, j) : j \in a .. b}
    /\ Slotted(id, V)
    /\ \A j \in a .. b :
          /\ SlotId(id, j) \in DOMAIN V /\ SlotId(id, j)[3] = j
          /\ V[SlotId(id, j)] = [gen |-> g, path |-> Prefix(k, j - 1)]
          /\ SlotId(id, j) \in DOMAIN WW
          /\ WW[SlotId(id, j)] = [gen |-> g, path |-> Prefix(k, j - 1)]
          /\ Prefix(k, j - 1) \in Paths /\ Prefix(k, j - 1) # <<>>

LEMMA SpineIs ==
    ASSUME NEW id, NEW g, NEW k \in Keys, NEW a \in Nat, NEW b \in Nat, a >= 2, b <= Levels + 1, NEW W
    PROVE  LET V == Spine(id, g, k, a, b)
           IN  SpineOK(id, g, k, a, b, V, Join(W, V))
<1> DEFINE S == {SlotId(id, j) : j \in a .. b}
           V == Spine(id, g, k, a, b)
<1>1. \A j : SlotId(id, j)[3] = j
  BY DEF SlotId
<1>2. DOMAIN V = S /\ \A n \in S : V[n] = [gen |-> g, path |-> Prefix(k, n[3] - 1)]
  BY DEF Spine
<1> HIDE DEF V
<1>3. Slotted(id, V)
  BY <1>2 DEF Slotted
<1>4. \A j \in a .. b : SlotId(id, j) \in S
  OBVIOUS
<1> HIDE DEF S
<1>5. \A j \in a .. b : Prefix(k, j - 1) \in Paths /\ Prefix(k, j - 1) # <<>>
  BY HashIs, PrefixIs
<1>6. \A j \in a .. b : /\ SlotId(id, j) \in DOMAIN V
                        /\ V[SlotId(id, j)] = [gen |-> g, path |-> Prefix(k, j - 1)]
  BY <1>1, <1>2, <1>4
<1>7. \A j \in a .. b : /\ SlotId(id, j) \in DOMAIN Join(W, V)
                        /\ Join(W, V)[SlotId(id, j)] = [gen |-> g, path |-> Prefix(k, j - 1)]
  BY <1>6 DEF Join
<1> QED
  BY <1>1, <1>2, <1>3, <1>5, <1>6, <1>7 DEF V, S, SpineOK

\* The first two entries of a bucket, and more.
LEMMA LeafFits ==
    ASSUME NEW W, NEW p, NEW e, Bucket(p, e), Len(e) >= 2, NEW R, NEW g, NEW id
    PROVE  Fits(W, p, LNode(id, e)) /\ Gens(R, g, LNode(id, e))
BY LeafIs DEF Fits, Gens

LEMMA MergeSingletonsFits ==
    ASSUME NEW W, NEW q \in Paths, q # <<>>, NEW first, Single(first, q), NEW second, Single(second, q),
           first.key # second.key, NEW id, NEW g, NEW R
    PROVE  LET merged == MergeSingletons(id, first, second, Len(q) + 1, g)
           IN  \E V : /\ FreshFits(W, R, g, merged.fresh, V) /\ Slotted(id, V)
                      /\ merged.branch.gen = g /\ Child(Join(W, V), merged.branch, q)
<1> DEFINE k == first.key
           x == second.key
           level == Len(q) + 1
           same == Hash[k] = Hash[x]
           split == IF Hash[k] = Hash[x] THEN level ELSE SplitLevel(Hash[k], Hash[x], level)
           Node(j) == INode(SlotId(id, j), g)
           Leaf(j) == LNode(SlotId(id, j), <<first, second>>)
           Fork(j) == CNode(SlotId(id, j), Put(Put(NoBranches, Hash[k][j], first), Hash[x][j], second))
           Link(j) == CNode(SlotId(id, j), Put(NoBranches, Hash[k][j], Node(j + 1)))
           Content(j) == IF Hash[k] = Hash[x] THEN Leaf(j) ELSE IF j = split THEN Fork(j) ELSE Link(j)
           S == {SlotId(id, j) : j \in level .. split}
           fresh == [n \in S |-> Content(n[3])]
           merged == MergeSingletons(id, first, second, level, g)
           V == Spine(id, g, k, level, split)
           WW == Join(W, V)
<1>1. merged.branch = Node(level) /\ merged.fresh = fresh
  BY DEF MergeSingletons, LevelsTo, NoBranches
<1>2. k \in Keys /\ x \in Keys /\ OnPath(q, k) /\ OnPath(q, x) /\ first.kind = "S" /\ second.kind = "S"
  BY DEF Single
<1>3. q = Prefix(k, Len(q)) /\ Len(q) \in 0 .. Levels /\ Levels \in Nat
  BY <1>2, PrefixOf, HashIs
<1>4. Len(q) # 0
  <2>1. q \in Seq(Nat)
    BY DEF Paths
  <2> QED
    BY <2>1, EmptySeq
<1>5. level \in Nat /\ level >= 2 /\ level <= Levels + 1 /\ level - 1 = Len(q) /\ level \in 1 .. Levels + 1
  BY <1>3, <1>4
<1>6. AgreeAbove(k, x, level)
  BY <1>2, OnPathAgree
<1> HIDE DEF k, x, level
<1>7. ~same => /\ split \in level .. Levels /\ Hash[k][split] # Hash[x][split]
               /\ AgreeAbove(k, x, split)
  BY <1>2, <1>5, <1>6, SplitIs
<1>8. same => split = level
  OBVIOUS
<1> HIDE DEF split
<1>9. split \in Nat /\ split <= Levels + 1 /\ level <= split
  BY <1>3, <1>5, <1>7, <1>8
<1>0. SpineOK(id, g, k, level, split, V, WW)
  BY <1>2, <1>5, <1>9, SpineIs
<1> HIDE DEF V, WW
<1>10. /\ DOMAIN V = S /\ Slotted(id, V)
       /\ \A j \in level .. split :
             /\ SlotId(id, j) \in DOMAIN V /\ SlotId(id, j)[3] = j
             /\ V[SlotId(id, j)] = [gen |-> g, path |-> Prefix(k, j - 1)]
             /\ SlotId(id, j) \in DOMAIN WW
             /\ WW[SlotId(id, j)] = [gen |-> g, path |-> Prefix(k, j - 1)]
             /\ Prefix(k, j - 1) \in Paths /\ Prefix(k, j - 1) # <<>>
  BY <1>0 DEF SpineOK
<1>11. ASSUME NEW j \in level .. split
       PROVE  Fits(WW, Prefix(k, j - 1), Content(j)) /\ Gens(R, g, Content(j))
  <2>1. CASE same
    <3>1. j = level /\ Prefix(k, j - 1) = q
      BY <1>3, <1>5, <1>8, <2>1
    <3> DEFINE e == <<first, second>>
    <3>2. /\ e \in Seq({first, second}) /\ Len(e) = 2 /\ e[1] = first /\ e[2] = second
      OBVIOUS
    <3> HIDE DEF e
    <3>3. \A i \in 1 .. Len(e) : i = 1 \/ i = 2
      BY <3>2
    <3>4. Bucket(q, e)
      BY <2>1, <3>2, <3>3 DEF Bucket, k, x
    <3>5. Fits(WW, q, Leaf(j)) /\ Gens(R, g, Leaf(j))
      <4>1. Len(e) >= 2
        BY <3>2
      <4>2. Fits(WW, q, LNode(SlotId(id, j), e)) /\ Gens(R, g, LNode(SlotId(id, j), e))
        BY <3>4, <4>1, LeafFits
      <4>3. Leaf(j) = LNode(SlotId(id, j), e)
        BY DEF e
      <4> HIDE DEF Leaf
      <4> QED
        BY <4>2, <4>3
    <3>6. Content(j) = Leaf(j)
      BY <2>1
    <3> HIDE DEF Leaf, Content
    <3> QED
      BY <3>1, <3>5, <3>6
  <2>2. CASE ~same /\ j = split
    <3>1. j \in 1 .. Levels /\ j \in 0 .. Levels
      BY <1>3, <1>5, <1>7, <2>2
    <3>2. Single(first, Prefix(k, j))
      BY <1>2, <3>1, PrefixIs DEF Single, k
    <3>3. Fits(WW, Prefix(k, j - 1), Fork(j)) /\ Gens(R, g, Fork(j))
      <4>1. BranchFits(WW, Prefix(k, j), first)
        BY <3>2 DEF BranchFits
      <4>2. Hash[k][j] # Hash[x][j] /\ AgreeAbove(k, x, j)
        BY <1>7, <2>2
      <4>3. second.key = x
        BY DEF x
      <4> QED
        BY <1>2, <3>1, <4>1, <4>2, <4>3, ForkFits
    <3> HIDE DEF Fork
    <3> QED
      BY <2>2, <3>3
  <2>3. CASE ~same /\ j # split
    <3>1. j \in 1 .. Levels /\ j + 1 \in level .. split /\ j + 1 - 1 = j
      BY <1>3, <1>5, <1>7, <2>3
    <3>2. /\ SlotId(id, j + 1) \in DOMAIN WW
          /\ WW[SlotId(id, j + 1)] = [gen |-> g, path |-> Prefix(k, j)]
      BY <1>10, <3>1
    <3>3. Fits(WW, Prefix(k, j - 1), Link(j)) /\ Gens(R, g, Link(j))
      BY <1>2, <3>1, <3>2, LinkFits
    <3> HIDE DEF Link
    <3> QED
      BY <2>3, <3>3
  <2> QED
    BY <2>1, <2>2, <2>3
<1> HIDE DEF Content
<1>12. FreshFits(W, R, g, fresh, V)
  <2>1. ASSUME NEW n \in S
        PROVE  /\ V[n].gen = g /\ V[n].path \in Paths /\ V[n].path # <<>>
               /\ Fits(WW, V[n].path, fresh[n]) /\ Gens(R, g, fresh[n])
    <3>1. PICK j \in level .. split : n = SlotId(id, j)
      OBVIOUS
    <3>2. n[3] = j /\ V[n] = [gen |-> g, path |-> Prefix(k, j - 1)]
          /\ Prefix(k, j - 1) \in Paths /\ Prefix(k, j - 1) # <<>>
      BY <1>10, <3>1
    <3>3. fresh[n] = Content(j)
      BY <3>2
    <3> HIDE DEF fresh
    <3> QED
      BY <1>11, <3>2, <3>3
  <2>2. DOMAIN fresh = S
    OBVIOUS
  <2> HIDE DEF fresh, S
  <2> QED
    BY <1>10, <2>1, <2>2 DEF FreshFits, WW
<1>13. Node(level).gen = g /\ Child(WW, Node(level), q)
  <2>1. level \in level .. split /\ Prefix(k, level - 1) = q
    BY <1>3, <1>5, <1>9
  <2>2. Node(level).kind = "I" /\ Node(level).id = SlotId(id, level) /\ Node(level).gen = g
    BY DEF INode
  <2> HIDE DEF Node
  <2> QED
    BY <1>10, <2>1, <2>2 DEF Child
<1> HIDE DEF merged, fresh, Node, S
<1>14. /\ FreshFits(W, R, g, merged.fresh, V) /\ Slotted(id, V)
       /\ merged.branch.gen = g /\ Child(Join(W, V), merged.branch, q)
  BY <1>1, <1>10, <1>12, <1>13 DEF WW
<1> QED
  BY <1>14 DEF merged, level

LEMMA LevelBetween ==
    ASSUME NEW top \in Nat, NEW a \in Nat, NEW b \in Nat, a >= 1, b <= top, NEW j \in a .. b
    PROVE  j \in 1 .. top /\ j + 1 \in a + 1 .. b + 1 /\ j + 1 - 1 = j
OBVIOUS

LEMMA MergeCollisionFits ==
    ASSUME NEW W, NEW p \in Paths, Len(p) < Levels, NEW m, m.kind = "L", Bucket(p, m.entries),
           Len(m.entries) >= 2, NEW single, Single(single, p),
           Hash[m.entries[1].key] # Hash[single.key], NEW id, NEW g, NEW R
    PROVE  LET merged == MergeCollision(id, m, single, Len(p) + 1, g)
           IN  \E V : /\ FreshFits(W, R, g, merged.fresh, V) /\ Slotted(id, V)
                      /\ Fits(Join(W, V), p, merged.node) /\ Gens(R, g, merged.node)
<1> DEFINE k == m.entries[1].key
           x == single.key
           level == Len(p) + 1
           split == SplitLevel(Hash[k], Hash[x], level)
           Node(j) == INode(SlotId(id, j), g)
           Fork(j) == CNode(SlotId(id, j), Put(Put(NoBranches, Hash[k][j], Node(j + 1)), Hash[x][j], single))
           Link(j) == CNode(SlotId(id, j), Put(NoBranches, Hash[k][j], Node(j + 1)))
           Content(j) == IF j = split THEN Fork(j) ELSE Link(j)
           S == {SlotId(id, j) : j \in level + 1 .. split + 1}
           fresh == [n \in S |-> IF n[3] = split + 1 THEN m ELSE Content(n[3])]
           merged == MergeCollision(id, m, single, level, g)
           V == Spine(id, g, k, level + 1, split + 1)
           WW == Join(W, V)
<1>1. merged.node = Content(level) /\ merged.fresh = fresh
  BY DEF MergeCollision, LevelsTo, NoBranches
<1>2. k \in Keys /\ x \in Keys /\ OnPath(p, k) /\ OnPath(p, x) /\ single.kind = "S"
  <2>1. PICK T : m.entries \in Seq(T)
    BY DEF Bucket
  <2>2. 1 \in 1 .. Len(m.entries)
    BY <2>1, LenProperties
  <2> QED
    BY <2>2 DEF Bucket, Single
<1>3. p = Prefix(k, Len(p)) /\ Len(p) \in 0 .. Levels /\ Levels \in Nat
  BY <1>2, PrefixOf, HashIs
<1>4. level \in Nat /\ level >= 1 /\ level <= Levels /\ level - 1 = Len(p) /\ level \in 1 .. Levels + 1
  BY <1>3
<1>5. AgreeAbove(k, x, level)
  BY <1>2, OnPathAgree
<1>6. Hash[k] # Hash[x]
  OBVIOUS
<1> HIDE DEF k, x, level
<1>7. split \in level .. Levels /\ Hash[k][split] # Hash[x][split] /\ AgreeAbove(k, x, split)
  BY <1>2, <1>4, <1>5, <1>6, SplitIs
<1> HIDE DEF split
<1>8. /\ level + 1 \in Nat /\ level + 1 >= 2 /\ split + 1 \in Nat /\ split + 1 <= Levels + 1
      /\ split \in Nat /\ level <= split /\ level \in Nat /\ level >= 1 /\ split <= Levels
  <2>1. split \in Nat /\ level <= split /\ split <= Levels /\ level \in Nat /\ level >= 1
    BY <1>3, <1>4, <1>7
  <2> QED
    BY <1>3, <2>1
<1>0. SpineOK(id, g, k, level + 1, split + 1, V, WW)
  BY <1>2, <1>8, SpineIs
<1> HIDE DEF V, WW
<1>9. /\ DOMAIN V = S /\ Slotted(id, V)
      /\ \A j \in level + 1 .. split + 1 :
             /\ SlotId(id, j) \in DOMAIN V /\ SlotId(id, j)[3] = j
             /\ V[SlotId(id, j)] = [gen |-> g, path |-> Prefix(k, j - 1)]
             /\ SlotId(id, j) \in DOMAIN WW
             /\ WW[SlotId(id, j)] = [gen |-> g, path |-> Prefix(k, j - 1)]
             /\ Prefix(k, j - 1) \in Paths /\ Prefix(k, j - 1) # <<>>
  BY <1>0 DEF SpineOK
<1>10. ASSUME NEW j \in level .. split
       PROVE  Fits(WW, Prefix(k, j - 1), Content(j)) /\ Gens(R, g, Content(j))
  <2>1. j \in 1 .. Levels /\ j + 1 \in level + 1 .. split + 1 /\ j + 1 - 1 = j
    BY <1>3, <1>8, LevelBetween
  <2>2. /\ SlotId(id, j + 1) \in DOMAIN WW
        /\ WW[SlotId(id, j + 1)] = [gen |-> g, path |-> Prefix(k, j)]
    <3> DEFINE i == j + 1
    <3>1. i \in level + 1 .. split + 1 /\ i - 1 = j
      BY <2>1
    <3> HIDE DEF i
    <3>2. SlotId(id, i) \in DOMAIN WW /\ WW[SlotId(id, i)] = [gen |-> g, path |-> Prefix(k, i - 1)]
      BY <1>9, <3>1
    <3> QED
      BY <3>1, <3>2 DEF i
  <2>3. CASE j = split
    <3>1. Node(j + 1).kind = "I" /\ Node(j + 1).gen = g /\ Node(j + 1).id = SlotId(id, j + 1)
      BY DEF INode
    <3>2. BranchFits(WW, Prefix(k, j), Node(j + 1))
      BY <2>2, <3>1 DEF BranchFits, Child
    <3>3. single.key = x
      BY DEF x
    <3>4. Fits(WW, Prefix(k, j - 1), Fork(j)) /\ Gens(R, g, Fork(j))
      <4> HIDE DEF Node
      <4> QED
        BY <1>2, <1>7, <2>1, <2>3, <3>1, <3>2, <3>3, ForkFits
    <3> HIDE DEF Fork
    <3> QED
      BY <2>3, <3>4
  <2>4. CASE j # split
    <3>1. Fits(WW, Prefix(k, j - 1), Link(j)) /\ Gens(R, g, Link(j))
      BY <1>2, <2>1, <2>2, LinkFits
    <3> HIDE DEF Link
    <3> QED
      BY <2>4, <3>1
  <2> QED
    BY <2>3, <2>4
<1>11. Fits(WW, Prefix(k, split), m) /\ Gens(R, g, m)
  <2>1. split \in 0 .. Levels
    BY <1>3, <1>7, <1>8
  <2>2. \A i \in 1 .. Len(m.entries) : Single(m.entries[i], Prefix(k, split))
    <3>1. PICK T : m.entries \in Seq(T)
      BY DEF Bucket
    <3>2. 1 \in 1 .. Len(m.entries)
      BY <3>1, LenProperties
    <3>3. \A i \in 1 .. Len(m.entries) : Hash[m.entries[i].key] = Hash[k]
      BY <3>2 DEF Bucket, k
    <3> QED
      BY <1>2, <2>1, <3>3, PrefixIs DEF Bucket, Single
  <2>3. Bucket(Prefix(k, split), m.entries)
    BY <2>2 DEF Bucket
  <2> QED
    BY <2>3 DEF Fits, Gens
<1> HIDE DEF Content
<1>12. FreshFits(W, R, g, fresh, V)
  <2>1. ASSUME NEW n \in S
        PROVE  /\ V[n].gen = g /\ V[n].path \in Paths /\ V[n].path # <<>>
               /\ Fits(WW, V[n].path, fresh[n]) /\ Gens(R, g, fresh[n])
    <3>1. PICK j \in level + 1 .. split + 1 : n = SlotId(id, j)
      OBVIOUS
    <3>2. n[3] = j /\ V[n] = [gen |-> g, path |-> Prefix(k, j - 1)]
          /\ Prefix(k, j - 1) \in Paths /\ Prefix(k, j - 1) # <<>>
      BY <1>9, <3>1
    <3>3. fresh[n] = IF j = split + 1 THEN m ELSE Content(j)
      BY <3>2
    <3> HIDE DEF fresh
    <3>4. CASE j = split + 1
      <4>1. j - 1 = split
        BY <1>8, <3>4
      <4> QED
        BY <1>11, <3>2, <3>3, <3>4, <4>1
    <3>5. CASE j # split + 1
      <4>1. j \in level .. split
        BY <1>8, <3>5
      <4> QED
        BY <1>10, <3>2, <3>3, <3>5, <4>1
    <3> QED
      BY <3>4, <3>5
  <2>2. DOMAIN fresh = S
    OBVIOUS
  <2> HIDE DEF fresh, S
  <2> QED
    BY <1>9, <2>1, <2>2 DEF FreshFits, WW
<1>13. Fits(WW, p, Content(level)) /\ Gens(R, g, Content(level))
  <2>1. level \in level .. split /\ Prefix(k, level - 1) = p
    BY <1>3, <1>4, <1>8
  <2> QED
    BY <1>10, <2>1
<1> HIDE DEF merged, fresh, S
<1>14. /\ FreshFits(W, R, g, merged.fresh, V) /\ Slotted(id, V)
       /\ Fits(Join(W, V), p, merged.node) /\ Gens(R, g, merged.node)
  BY <1>1, <1>9, <1>12, <1>13 DEF WW
<1> QED
  BY <1>14 DEF merged, level

-----------------------------------------------------------------------------
\* The updates the walk offers.

LEMMA PutNodeFits ==
    ASSUME NEW W, NEW p, NEW m, Fits(W, p, m), m.kind = "C", NEW R, NEW g, Gens(R, g, m),
           NEW c \in Nat, NEW b, BranchFits(W, Append(p, c), b), b.kind = "I" => b.gen \in {g} \cup R,
           b.kind = "I" \/ c \notin DOMAIN m.branches \/ m.branches[c].kind = "S", NEW id
    PROVE  LET after == CNode(id, Put(m.branches, c, b))
           IN  Fits(W, p, after) /\ Gens(R, g, after)
<1> DEFINE B == m.branches
           P == Put(B, c, b)
           after == CNode(id, P)
<1>1. BranchesFit(W, p, B) /\ (p # <<>> => Compressed(B)) /\ GensOf(R, g, B)
  BY BranchHas DEF Gens, GensOf
<1>2. after.kind = "C" /\ after.branches = P
  BY CNodeIs
<1>3. BranchesFit(W, p, P)
  BY <1>1, PutFits
<1>4. GensOf(R, g, P)
  BY <1>1, PutGens
<1>5. p # <<>> => Compressed(P)
  BY <1>1, PutCompressed
<1> HIDE DEF P, after
<1>6. Fits(W, p, after) /\ Gens(R, g, after)
  BY <1>2, <1>3, <1>4, <1>5 DEF Fits, CNodeFits, Gens, GensOf
<1> QED
  BY <1>6 DEF P, after

LEMMA SingletonFits ==
    ASSUME NEW k \in Keys, NEW v, NEW p, OnPath(p, k)
    PROVE  /\ Single(SNode(k, v), p) /\ SNode(k, v).kind = "S" /\ SNode(k, v).key = k
           /\ \A W : BranchFits(W, p, SNode(k, v))
BY DEF Single, SNode, BranchFits

\* Only what exists is removed.
LEMMA RemovesExisting ==
    ASSUME NEW call, call.op \in MutateOps, NEW exists \in BOOLEAN, NEW current,
           Transform(call, exists, current).kind = "Remove"
    PROVE  exists
BY DEF Transform, MutateOps, DecideNone, DecideSet, DecideReturn, DecideRemove, Decision

LEMMA ContractCollisionFits ==
    ASSUME NEW W, NEW p \in Paths, NEW e, Bucket(p, e), Len(e) >= 1, NEW R, NEW g, NEW id, NEW isRoot,
           isRoot <=> p = <<>>
    PROVE  LET m == ContractCollision(id, e, isRoot) IN Fits(W, p, m) /\ Gens(R, g, m)
<1> DEFINE m == ContractCollision(id, e, isRoot)
           c == Hash[e[1].key][1]
           only == CNode(id, Put(NoBranches, c, e[1]))
<1>1. Len(e) \in Nat /\ 1 \in 1 .. Len(e) /\ Single(e[1], p)
  <2>1. PICK S : e \in Seq(S)
    BY DEF Bucket
  <2>2. Len(e) \in Nat /\ 1 \in 1 .. Len(e)
    BY <2>1, LenProperties
  <2> QED
    BY <2>2 DEF Bucket
<1>2. e # <<>>
  BY <1>1
<1>3. CASE Len(e) > 1
  <2>1. m = LNode(id, e) /\ Len(e) >= 2
    BY <1>1, <1>3 DEF ContractCollision
  <2> HIDE DEF m
  <2>2. Fits(W, p, m) /\ Gens(R, g, m)
    BY <2>1, LeafFits
  <2> QED
    BY <2>2 DEF m
<1>4. CASE ~(Len(e) > 1) /\ ~isRoot
  <2>1. m = TNode(id, e[1])
    BY <1>2, <1>4 DEF ContractCollision
  <2> HIDE DEF m
  <2>2. m.kind = "T" /\ m.entry = e[1]
    BY <2>1, LeafIs
  <2>3. Fits(W, p, m) /\ Gens(R, g, m)
    BY <1>1, <1>4, <2>2 DEF Fits, Gens
  <2> QED
    BY <2>3 DEF m
<1>5. CASE ~(Len(e) > 1) /\ isRoot
  <2>1. m = only /\ p = <<>>
    BY <1>2, <1>5 DEF ContractCollision, NoBranches
  <2>2. e[1].key \in Keys /\ e[1].kind = "S"
    BY <1>1 DEF Single
  <2>3. c \in Nat /\ 1 \in 1 .. Levels /\ Len(p) = 0 /\ Len(p) < Levels
    BY <2>1, <2>2, HashIs, EveryKeyAtRoot
  <2>4. only.kind = "C" /\ only.branches = Put(NoBranches, c, e[1])
    BY CNodeIs
  <2>5. OnPath(Append(p, c), e[1].key)
    <3>1. Hash[e[1].key][Len(p) + 1] = c
      BY <2>3
    <3>2. OnPath(p, e[1].key)
      BY <1>1 DEF Single
    <3>3. \A k : \A d \in Nat : OnPath(p, k) /\ Hash[k][Len(p) + 1] = d => OnPath(Append(p, d), k)
      <4>1. Len(p) < Levels
        BY <2>3
      <4> HIDE DEF c, m, only
      <4> QED
        BY <4>1, OnPathAppend
    <3> HIDE DEF c, m, only
    <3> QED
      BY <2>3, <3>1, <3>2, <3>3
  <2>6. BranchFits(W, Append(p, c), e[1])
    BY <2>2, <2>5 DEF BranchFits, Single
  <2> HIDE DEF m, only, c
  <2>7. BranchesFit(W, p, NoBranches)
    BY <2>3, NoneFits DEF NoBranches
  <2> DEFINE P == Put(NoBranches, c, e[1])
  <2>8. BranchesFit(W, p, P)
    BY <2>3, <2>6, <2>7, PutFits
  <2>9. DOMAIN P = {c} /\ P[c] = e[1]
    BY DEF Put, NoBranches
  <2>10. only.branches = P
    BY <2>4
  <2> HIDE DEF P
  <2>11. Fits(W, p, only) /\ Gens(R, g, only)
    BY <2>1, <2>2, <2>4, <2>8, <2>9, <2>10 DEF Fits, CNodeFits, Gens
  <2> QED
    BY <2>1, <2>11 DEF m
<1> QED
  BY <1>3, <1>4, <1>5

\* Slots are reserved by the thread that merges, and NewId is none of them.
LEMMA SlottedFresh ==
    ASSUME TrieInv, NEW W, NEW f, CoreInv(W, f), NEW t \in Callers, NEW V, Slotted(NewId(t), V)
    PROVE  NewId(t) \notin DOMAIN V /\ Extends(W, Join(W, V))
<1>1. ASSUME NEW j \in Nat \ {0}
      PROVE  SlotId(NewId(t), j) # NewId(t) /\ Reserved(t, th[t], SlotId(NewId(t), j))
  <2>1. SlotId(NewId(t), j)[3] = j /\ NewId(t)[3] = 0 /\ Reserved(t, th[t], SlotId(NewId(t), j))
    BY DEF SlotId, NewId, Reserved
  <2> QED
    BY <2>1
<1>2. \A n \in DOMAIN V : n \notin DOMAIN W
  BY <1>1, CoreParts, ReservedFresh DEF Slotted
<1> QED
  BY <1>1, <1>2, JoinExtends DEF Slotted

LEMMA MutateVacantCore ==
    ASSUME TrieInv, NEW W, NEW f, CoreInv(W, f), NEW t \in Callers, MutateVacant(t)
    PROVE  CoreInv(W, f)'
<1> DEFINE r == th[t]
           dec == Transform(r.call, FALSE, NoValue)
           entry == SNode(r.call.key, dec.val)
           m == MainAt(t)
           c == ChunkOf(t)
           after == CNode(NewId(t), Put(m.branches, c, entry))
           p == W[r.node].path
<1>1. Walking(t) /\ m.kind = "C" /\ c \notin DOMAIN m.branches /\ Decide(t, dec, dec.result, after, <<>>)
  BY DEF MutateVacant, BranchVacant
<1>2. /\ r.node \in DOMAIN W /\ W[r.node].gen = r.root.id /\ Fits(W, p, m)
      /\ Gens(Retired, r.root.id, m) /\ r.call.key \in Keys
  BY <1>1, WalkHas
<1>3. Len(p) < Levels
  BY <1>1, <1>2, BranchHas
<1>4. c \in Nat /\ OnPath(Append(p, c), r.call.key)
  BY <1>1, <1>3, WalkAt
<1>5. BranchFits(W, Append(p, c), entry) /\ entry.kind = "S"
  BY <1>2, <1>4, SingletonFits
<1> HIDE DEF dec, entry, c
<1>6. Fits(W, p, after) /\ Gens(Retired, r.root.id, after)
  BY <1>1, <1>2, <1>4, <1>5, PutNodeFits
<1> HIDE DEF after
<1>7. Offers(W, t, r.node, after, <<>>, <<>>)
  BY <1>2, <1>6, OffersAlone
<1> QED
  BY <1>1, <1>7, DecideCore

LEMMA MutateSingletonCore ==
    ASSUME TrieInv, NEW W, NEW f, CoreInv(W, f), NEW t \in Callers, MutateSingleton(t)
    PROVE  CoreInv(W, f)'
<1> DEFINE r == th[t]
           m == MainAt(t)
           c == ChunkOf(t)
           b == BranchAt(t)
           branches == m.branches
           dec == Transform(r.call, TRUE, b.val)
           val == IF dec.result = NoValue THEN b.val ELSE dec.result
           one == Contract(NewId(t), Drop(branches, c), AtRoot(t, r.node))
           entry == SNode(b.key, dec.val)
           two == CNode(NewId(t), Put(branches, c, entry))
           after == IF dec.kind = "Remove" THEN one ELSE two
           p == W[r.node].path
<1>1. /\ Walking(t) /\ m.kind = "C" /\ c \in DOMAIN branches /\ b = branches[c] /\ b.kind = "S"
      /\ b.key = r.call.key /\ Decide(t, dec, val, after, <<>>)
  BY DEF MutateSingleton, BranchIs, BranchAt
<1>2. /\ r.node \in DOMAIN W /\ W[r.node].gen = r.root.id /\ p \in Paths /\ Fits(W, p, m)
      /\ Gens(Retired, r.root.id, m) /\ r.call.key \in Keys
  BY <1>1, WalkHas
<1>3. Len(p) < Levels /\ BranchesFit(W, p, branches) /\ (p # <<>> => Compressed(branches))
  BY <1>1, <1>2, BranchHas
<1>4. c \in Nat /\ OnPath(Append(p, c), r.call.key) /\ (AtRoot(t, r.node) <=> p = <<>>)
  BY <1>1, <1>3, WalkAt
<1>5. BranchFits(W, Append(p, c), entry) /\ entry.kind = "S"
  BY <1>1, <1>2, <1>4, SingletonFits
<1>6. GensOf(Retired, r.root.id, branches)
  BY <1>1, <1>2 DEF Gens, GensOf
<1> HIDE DEF dec, val, entry, c, b
<1>7. Fits(W, p, two) /\ Gens(Retired, r.root.id, two)
  BY <1>1, <1>2, <1>4, <1>5, PutNodeFits
<1>8. Fits(W, p, one) /\ Gens(Retired, r.root.id, one)
  <2> DEFINE P == Drop(branches, c)
  <2>1. BranchesFit(W, p, P) /\ GensOf(Retired, r.root.id, P) /\ (p # <<>> => DOMAIN P # {})
    BY <1>1, <1>3, <1>6, DropFits
  <2> HIDE DEF P
  <2>2. Fits(W, p, Contract(NewId(t), P, AtRoot(t, r.node)))
        /\ Gens(Retired, r.root.id, Contract(NewId(t), P, AtRoot(t, r.node)))
    BY <1>2, <1>4, <2>1, ContractFits
  <2> QED
    BY <2>2 DEF P
<1> HIDE DEF one, two
<1>9. Fits(W, p, after) /\ Gens(Retired, r.root.id, after)
  BY <1>7, <1>8
<1> HIDE DEF after
<1>10. Offers(W, t, r.node, after, <<>>, <<>>)
  BY <1>2, <1>9, OffersAlone
<1> QED
  BY <1>1, <1>10, DecideCore

LEMMA MutateSplitsCore ==
    ASSUME TrieInv, NEW W, NEW f, CoreInv(W, f), NEW t \in Callers, MutateSplits(t)
    PROVE  CoreInv(W, f)'
<1> DEFINE r == th[t]
           m == MainAt(t)
           c == ChunkOf(t)
           b == BranchAt(t)
           dec == Transform(r.call, FALSE, NoValue)
           entry == SNode(r.call.key, dec.val)
           merged == MergeSingletons(NewId(t), b, entry, r.level + 1, r.root.id)
           after == CNode(NewId(t), Put(m.branches, c, merged.branch))
           p == W[r.node].path
           q == Append(p, c)
<1>1. /\ Walking(t) /\ m.kind = "C" /\ c \in DOMAIN m.branches /\ b = m.branches[c] /\ b.kind = "S"
      /\ b.key # r.call.key /\ Decide(t, dec, dec.result, after, merged.fresh)
  BY DEF MutateSplits, BranchIs, BranchAt
<1>2. /\ r.node \in DOMAIN W /\ W[r.node].gen = r.root.id /\ p \in Paths /\ Fits(W, p, m)
      /\ Gens(Retired, r.root.id, m) /\ r.call.key \in Keys
  BY <1>1, WalkHas
<1>3. Len(p) < Levels /\ BranchFits(W, q, b)
  BY <1>1, <1>2, BranchHas
<1>4. /\ c \in Nat /\ q \in Paths /\ q # <<>> /\ OnPath(q, r.call.key)
      /\ r.level = Len(p) + 1 /\ Len(q) = Len(p) + 1
  BY <1>1, <1>3, WalkAt
<1>5. Single(entry, q) /\ entry.key = r.call.key
  BY <1>2, <1>4, SingletonFits
<1>6. Single(b, q)
  BY <1>1, <1>3 DEF BranchFits, Child
<1>7. merged = MergeSingletons(NewId(t), b, entry, Len(q) + 1, r.root.id)
  BY <1>4
<1> HIDE DEF dec, entry, c, b, merged, q
<1>8. PICK V : /\ FreshFits(W, Retired, r.root.id, merged.fresh, V) /\ Slotted(NewId(t), V)
               /\ merged.branch.gen = r.root.id /\ Child(Join(W, V), merged.branch, q)
  BY <1>1, <1>4, <1>5, <1>6, <1>7, MergeSingletonsFits
<1>9. NewId(t) \notin DOMAIN V /\ Extends(W, Join(W, V))
  BY <1>8, SlottedFresh
<1>10. Fits(Join(W, V), p, m)
  BY <1>2, <1>9, FitsGrows
<1>11. BranchFits(Join(W, V), Append(p, c), merged.branch) /\ merged.branch.kind = "I"
  BY <1>8 DEF BranchFits, Child, q
<1>12. Fits(Join(W, V), p, after) /\ Gens(Retired, r.root.id, after)
  BY <1>1, <1>2, <1>4, <1>8, <1>10, <1>11, PutNodeFits
<1> HIDE DEF after
<1>13. Offers(W, t, r.node, after, merged.fresh, V)
  BY <1>2, <1>8, <1>9, <1>12 DEF Offers
<1> QED
  BY <1>1, <1>13, DecideCore

-----------------------------------------------------------------------------
\* The parent's C-node still has its branch to the tomb, and takes the entry back.
LEMMA WalkMeetsTombCore ==
    ASSUME TrieInv, NEW W, NEW f, CoreInv(W, f), NEW t \in Callers, WalkMeetsTomb(t)
    PROVE  CoreInv(W, f)'
<1> DEFINE r == th[t]
           m == MainAt(t)
           n == r.parent.node
           B == r.parent.main.branches
           c == r.parent.chunk
           p == W[n].path
           P == Put(B, c, m.entry)
           after == Contract(NewId(t), P, AtRoot(t, n))
           g == r.root.id
<1>1. Walking(t) /\ m.kind = "T" /\ r.parent # None
  BY DEF WalkMeetsTomb
<1>2. m.entry # None => Gcas(t, "tomb", n, r.parent.main, after, <<>>, r.ans)
  BY DEF WalkMeetsTomb
<1>3. /\ r.pc = "main" /\ r.phase \in OpPhases /\ r.node \in DOMAIN W
      /\ Fits(W, W[r.node].path, m) /\ RootAt(W, Active, r.root) /\ OpFits(W, Active, Retired, r)
  BY <1>1, WalkHas
<1>4. r.phase \in Descends
  BY <1>1, WalkAt
<1> HIDE DEF r, m
<1>5. ParentFits(W, Retired, g, r.parent, r.node)
  BY <1>1, <1>3, <1>4 DEF OpFits, WalkFits
<1>6. /\ n \in DOMAIN W /\ W[n].gen = g /\ Fits(W, p, r.parent.main) /\ Gens(Retired, g, r.parent.main)
      /\ r.parent.main.kind = "C" /\ c \in DOMAIN B /\ B[c].kind = "I" /\ B[c].id = r.node
  BY <1>5 DEF ParentFits, NodeFits, Leads
<1>7. p \in Paths /\ PlaceOK(Active, n, W[n])
  BY <1>6, CoreParts DEF PlacesOK
<1>8. BranchesFit(W, p, B) /\ Len(p) < Levels /\ c \in Nat /\ BranchFits(W, Append(p, c), B[c])
  BY <1>6, BranchHas
<1>9. W[r.node].path = Append(p, c)
  <2> DEFINE b == B[c]
             above == Append(p, c)
  <2>1. BranchFits(W, above, b) /\ b.kind = "I" /\ b.id = r.node
    BY <1>6, <1>8
  <2> HIDE DEF b, above
  <2>2. W[b.id].path = above
    BY <2>1, ChildHas
  <2> QED
    BY <2>1, <2>2 DEF above
<1>10. Single(m.entry, Append(p, c))
  BY <1>1, <1>3, <1>9 DEF Fits
<1>11. m.entry.kind = "S" /\ m.entry # None
  BY <1>10 DEF Single, None
<1>12. GensOf(Retired, g, B)
  BY <1>6 DEF Gens, GensOf
<1>13. AtRoot(t, n) <=> p = <<>>
  <2>1. r.root.node.id = g
    BY <1>3 DEF RootAt, Root, INode
  <2> QED
    BY <1>6, <1>7, <2>1 DEF PlaceOK, AtRoot, r
<1> HIDE DEF n, B, c, p, g
<1>14. BranchFits(W, Append(p, c), m.entry)
  BY <1>10 DEF BranchFits
<1>15. BranchesFit(W, p, P) /\ GensOf(Retired, g, P) /\ DOMAIN P # {}
  <2>1. BranchesFit(W, p, P)
    BY <1>8, <1>14, PutFits
  <2>2. GensOf(Retired, g, P)
    BY <1>11, <1>12, PutGens
  <2>3. c \in DOMAIN P
    BY DEF Put
  <2> QED
    BY <2>1, <2>2, <2>3
<1> HIDE DEF P
<1>16. Fits(W, p, after) /\ Gens(Retired, g, after)
  BY <1>7, <1>13, <1>15, ContractFits
<1> HIDE DEF after
<1>17. Offers(W, t, n, after, <<>>, <<>>)
  BY <1>6, <1>16, OffersAlone DEF p, g, r
<1> QED
  BY <1>2, <1>3, <1>4, <1>11, <1>17, GcasCore DEF r

\* The old child's main node is what the copy starts with: its own children
\* are of retired generations, so they may be below a node of any generation.
LEMMA WalkRenewsChildCore ==
    ASSUME TrieInv, NEW W, NEW f, CoreInv(W, f), NEW t \in Callers, WalkRenewsChild(t)
    PROVE  CoreInv(W, f)'
<1> DEFINE r == th[t]
           m == MainAt(t)
           cn == r.renewing
           c == ChunkOf(t)
           g == r.root.id
           p == W[r.node].path
           q == Append(p, c)
           id == SlotId(NewId(t), 1)
           renewed == INode(id, g)
           after == CNode(NewId(t), Put(cn.branches, c, renewed))
           fresh == [n \in {id} |-> m]
           V == [n \in {id} |-> [gen |-> g, path |-> q]]
<1>1. /\ ReadsMain(t, {"mutate", "clean"}) /\ cn # None
      /\ Gcas(t, "renew", r.node, cn, after, fresh, r.ans)
  BY DEF WalkRenewsChild
<1>2. /\ r.pc = "main" /\ r.at \in DOMAIN main /\ r.phase \in Descends /\ r.phase \in OpPhases
      /\ m = main[r.at] /\ m.kind # "D" /\ c = Chunk(r)
  BY <1>1 DEF ReadsMain, AtMain, Descends, OpPhases, MainAt, Chunk, ChunkOf
<1>3. RegistersFit(W, Active, Retired, status, root, r)
  BY CoreHas
<1> HIDE DEF r, m, c
<1>4. /\ r.node \in DOMAIN W /\ W[r.node].gen = g /\ WalkFits(W, Retired, r) /\ r.call.key \in Keys
  BY <1>2, <1>3 DEF RegistersFit, OpState, OpFits, Begun
<1>5. RenewingFits(W, Retired, r) /\ OnPath(p, r.call.key) /\ r.level = Len(p) + 1
  BY <1>1, <1>4 DEF WalkFits
<1>6. /\ Fits(W, p, cn) /\ Gens(Retired, g, cn) /\ cn.kind = "C" /\ c \in DOMAIN cn.branches
      /\ cn.branches[c].kind = "I" /\ cn.branches[c].gen # g /\ cn.branches[c].id = r.at
  BY <1>2, <1>5 DEF RenewingFits, NodeFits, Leads
<1>7. p \in Paths /\ DOMAIN W = DOMAIN main
  BY <1>4, CoreParts
<1>8. Len(p) < Levels /\ c \in Nat /\ BranchFits(W, q, cn.branches[c])
  BY <1>6, BranchHas
<1>9. r.at \in DOMAIN W /\ W[r.at].gen = cn.branches[c].gen /\ W[r.at].path = q
  <2> DEFINE b == cn.branches[c]
  <2>1. BranchFits(W, q, b) /\ b.kind = "I" /\ b.id = r.at
    BY <1>6, <1>8
  <2> HIDE DEF b, q
  <2>2. b.id \in DOMAIN W /\ W[b.id].gen = b.gen /\ W[b.id].path = q
    BY <2>1, ChildHas
  <2> QED
    BY <2>1, <2>2 DEF b
<1>10. W[r.at].gen \in Retired /\ W[r.at].gen \in Active
  BY <1>6, <1>9 DEF Gens, Retired
<1>11. Fits(W, q, m) /\ Gens(Retired, W[r.at].gen, m)
  BY <1>2, <1>9, <1>10, CoreParts DEF NodesHold, MainHolds, Holds
<1>12. Gens(Retired, g, m)
  BY <1>10, <1>11 DEF Gens
<1>13. q \in Paths /\ q # <<>>
  BY <1>7, <1>8, PathAppend
<1> HIDE DEF p, q, g
<1>14. /\ DOMAIN V = {id} /\ DOMAIN fresh = {id} /\ V[id] = [gen |-> g, path |-> q] /\ fresh[id] = m
      /\ Slotted(NewId(t), V)
  BY DEF Slotted
<1>15. renewed.kind = "I" /\ renewed.id = id /\ renewed.gen = g
  BY DEF INode
<1> HIDE DEF id, V, fresh, renewed
<1>16. NewId(t) \notin DOMAIN V /\ Extends(W, Join(W, V))
  BY <1>14, SlottedFresh
<1>17. Fits(Join(W, V), q, m) /\ Fits(Join(W, V), p, cn)
  BY <1>6, <1>11, <1>16, FitsGrows
<1>18. FreshFits(W, Retired, g, fresh, V)
  BY <1>12, <1>13, <1>14, <1>17 DEF FreshFits
<1>19. BranchFits(Join(W, V), q, renewed)
  BY <1>14, <1>15 DEF BranchFits, Child, Join
<1>20. Fits(Join(W, V), p, after) /\ Gens(Retired, g, after)
  BY <1>6, <1>8, <1>15, <1>17, <1>19, PutNodeFits DEF q
<1>21. Renews(r, r.node, after)
  <2>1. after.kind = "C" /\ after.branches = Put(cn.branches, c, renewed)
    BY CNodeIs
  <2>2. c \in DOMAIN after.branches /\ after.branches[c] = renewed
    BY <2>1 DEF Put
  <2> HIDE DEF after
  <2> QED
    BY <1>2, <1>15, <2>1, <2>2 DEF Renews, Leads, g
<1> HIDE DEF after
<1>22. Offers(W, t, r.node, after, fresh, V)
  BY <1>4, <1>16, <1>18, <1>20 DEF Offers, g, r, p
<1> QED
  BY <1>1, <1>2, <1>21, <1>22, GcasCore DEF r

LEMMA MutateCollisionCore ==
    ASSUME TrieInv, NEW W, NEW f, CoreInv(W, f), NEW t \in Callers, MutateCollision(t)
    PROVE  CoreInv(W, f)'
<1> DEFINE r == th[t]
           m == MainAt(t)
           e == m.entries
           k == r.call.key
           index == Find(e, k)
           exists == index >= 0
           current == IF exists THEN e[index].val ELSE NoValue
           dec == Transform(r.call, exists, current)
           id == NewId(t)
           entry == SNode(k, dec.val)
           merged == MergeCollision(id, m, entry, r.level, r.root.id)
           isRoot == AtRoot(t, r.node)
           removed == ContractCollision(id, RemoveAt(e, index), isRoot)
           replaced == LNode(id, [e EXCEPT ![index] = entry])
           longer == LNode(id, Append(e, entry))
           p == W[r.node].path
           g == r.root.id
<1>1. Walking(t) /\ m.kind = "L" /\ r.phase = "mutate"
  BY DEF MutateCollision
<1>2. \/ dec.kind = "Remove" /\ Decide(t, dec, current, removed, <<>>)
      \/ dec.kind # "Remove" /\ exists /\ Decide(t, dec, current, replaced, <<>>)
      \/ /\ dec.kind # "Remove" /\ ~exists /\ Hash[e[1].key] = Hash[k]
         /\ Decide(t, dec, current, longer, <<>>)
      \/ /\ dec.kind # "Remove" /\ ~exists /\ Hash[e[1].key] # Hash[k]
         /\ Decide(t, dec, current, merged.node, merged.fresh)
  BY DEF MutateCollision
<1>3. /\ r.node \in DOMAIN W /\ W[r.node].gen = g /\ p \in Paths /\ Fits(W, p, m) /\ k \in Keys
  BY <1>1, WalkHas
<1>4. Bucket(p, e) /\ Len(e) >= 2
  BY <1>1, <1>3 DEF Fits
<1>5. r.level = Len(p) + 1 /\ Len(p) \in Nat /\ OnPath(p, k) /\ (isRoot <=> p = <<>>)
  BY <1>1, WalkAt
<1>6. exists => index \in 1 .. Len(e) /\ e[index].key = k
  BY <1>4, FindIs
<1>7. ~exists => \A i \in 1 .. Len(e) : e[i].key # k
  BY <1>4, FindIs
<1>8. dec.kind = "Remove" => exists
  <2>1. r.call.op \in MutateOps
    BY <1>1, CoreHas DEF RegistersFit, OpState
  <2>2. exists \in BOOLEAN
    OBVIOUS
  <2> HIDE DEF r, exists, current
  <2> QED
    BY <2>1, <2>2, RemovesExisting
<1>9. Single(entry, p) /\ entry.key = k
  BY <1>3, <1>5, SingletonFits
<1>10. \E S : e \in Seq(S)
  BY <1>4 DEF Bucket
<1>11. Len(e) \in Nat /\ 1 \in 1 .. Len(e) /\ Single(e[1], p)
  BY <1>4, <1>10, LenProperties DEF Bucket
<1> HIDE DEF r, m, e, k, index, exists, current, dec, entry, merged, isRoot, p, g
<1>12. CASE dec.kind = "Remove" /\ Decide(t, dec, current, removed, <<>>)
  <2>1. Bucket(p, RemoveAt(e, index)) /\ Len(RemoveAt(e, index)) = Len(e) - 1
    BY <1>4, <1>6, <1>8, <1>12, BucketRemove
  <2>2. Len(RemoveAt(e, index)) >= 1
    BY <1>4, <1>11, <2>1
  <2>3. Fits(W, p, removed) /\ Gens(Retired, g, removed)
    BY <1>3, <1>5, <2>1, <2>2, ContractCollisionFits
  <2> HIDE DEF removed
  <2>4. Offers(W, t, r.node, removed, <<>>, <<>>)
    BY <1>3, <2>3, OffersAlone DEF r, g, p
  <2> QED
    BY <1>1, <1>12, <2>4, DecideCore DEF r
<1>13. CASE exists /\ Decide(t, dec, current, replaced, <<>>)
  <2>1. Bucket(p, [e EXCEPT ![index] = entry]) /\ Len([e EXCEPT ![index] = entry]) = Len(e)
    BY <1>4, <1>6, <1>9, <1>13, BucketReplace
  <2>2. Fits(W, p, replaced) /\ Gens(Retired, g, replaced)
    BY <1>4, <2>1, LeafFits
  <2> HIDE DEF replaced
  <2>3. Offers(W, t, r.node, replaced, <<>>, <<>>)
    BY <1>3, <2>2, OffersAlone DEF r, g, p
  <2> QED
    BY <1>1, <1>13, <2>3, DecideCore DEF r
<1>14. CASE ~exists /\ Hash[e[1].key] = Hash[k] /\ Decide(t, dec, current, longer, <<>>)
  <2>1. Bucket(p, Append(e, entry)) /\ Len(Append(e, entry)) = Len(e) + 1
    <3>1. Len(e) >= 1
      BY <1>11
    <3> QED
      BY <1>4, <1>7, <1>9, <1>14, <3>1, BucketAppend
  <2>2. Len(Append(e, entry)) >= 2
    BY <1>4, <1>11, <2>1
  <2>3. Fits(W, p, longer) /\ Gens(Retired, g, longer)
    BY <2>1, <2>2, LeafFits
  <2> HIDE DEF longer
  <2>4. Offers(W, t, r.node, longer, <<>>, <<>>)
    BY <1>3, <2>3, OffersAlone DEF r, g, p
  <2> QED
    BY <1>1, <1>14, <2>4, DecideCore DEF r
<1>15. CASE Hash[e[1].key] # Hash[k] /\ Decide(t, dec, current, merged.node, merged.fresh)
  <2>1. e[1].key \in Keys /\ OnPath(p, e[1].key)
    BY <1>11 DEF Single
  <2>2. Len(p) < Levels
    <3>1. /\ Hash[e[1].key] \in [1 .. Levels -> Nat] /\ Hash[k] \in [1 .. Levels -> Nat]
          /\ Levels \in Nat
      BY <1>3, <2>1, HashIs
    <3>2. PICK i \in 1 .. Levels : Hash[e[1].key][i] # Hash[k][i]
      BY <1>15, <3>1, HashesPart
    <3>3. i \notin 1 .. Len(p)
      BY <1>5, <2>1, <3>2 DEF OnPath
    <3> QED
      BY <1>5, <3>1, <3>2, <3>3
  <2>3. merged = MergeCollision(id, m, entry, Len(p) + 1, g)
    BY <1>5 DEF merged, g
  <2>4. Hash[m.entries[1].key] # Hash[entry.key] /\ Bucket(p, m.entries) /\ Len(m.entries) >= 2
    BY <1>4, <1>9, <1>15 DEF e
  <2>5. PICK V : /\ FreshFits(W, Retired, g, merged.fresh, V) /\ Slotted(id, V)
                 /\ Fits(Join(W, V), p, merged.node) /\ Gens(Retired, g, merged.node)
    BY <1>1, <1>3, <1>9, <2>2, <2>3, <2>4, MergeCollisionFits
  <2>6. NewId(t) \notin DOMAIN V
    BY <2>5, SlottedFresh
  <2>7. Offers(W, t, r.node, merged.node, merged.fresh, V)
    BY <1>3, <2>5, <2>6 DEF Offers, r, g, p
  <2> QED
    BY <1>1, <1>15, <2>7, DecideCore DEF r
<1> QED
  BY <1>2, <1>8, <1>12, <1>13, <1>14, <1>15

-----------------------------------------------------------------------------
\* The scalar variables.

\* A step that decides nothing, counts nothing, and returns at most one result.
LogGrows(t) == log' = log \/ \E res : log' = [log EXCEPT ![t] = Append(log[t], res)]
Uncounted(t) == UNCHANGED <<status, revision, script, live>> /\ LogGrows(t)
Logs == DOMAIN log = Callers /\ \A u \in Callers : \E S : log[u] \in Seq(S)

LEMMA LogGrowsKeeps == ASSUME Logs, NEW t \in Callers, LogGrows(t) PROVE Logs'
<1>1. ASSUME NEW res, log' = [log EXCEPT ![t] = Append(log[t], res)], NEW u \in Callers
      PROVE  \E S : log'[u] \in Seq(S)
  <2>1. PICK S : log[u] \in Seq(S)
    BY DEF Logs
  <2>2. CASE u = t
    <3> DEFINE T == S \cup {res}
               q == log[t]
    <3>1. q \in Seq(T)
      BY <2>1, <2>2, SeqMonotonic
    <3>2. Append(q, res) \in Seq(T)
      BY <3>1
    <3> HIDE DEF T, q
    <3>3. log'[u] = Append(q, res)
      BY <1>1, <2>2 DEF Logs, q
    <3> QED
      BY <3>2, <3>3
  <2>3. CASE u # t
    BY <1>1, <2>1, <2>3 DEF Logs
  <2> QED
    BY <2>2, <2>3
<1>2. \A u \in Callers : \E S : log'[u] \in Seq(S)
  <2>1. CASE log' = log
    BY <2>1 DEF Logs
  <2>2. CASE \E res : log' = [log EXCEPT ![t] = Append(log[t], res)]
    BY <2>2, <1>1
  <2> QED
    BY <2>1, <2>2 DEF LogGrows
<1>3. DOMAIN log' = Callers
  BY DEF LogGrows, Logs
<1> QED
  BY <1>2, <1>3 DEF Logs

LEMMA UncountedKeeps == ASSUME ScalarsOK, NEW t \in Callers, Uncounted(t) PROVE ScalarsOK'
<1>1. Logs'
  BY LogGrowsKeeps DEF ScalarsOK, Logs, Uncounted
<1> QED
  BY <1>1 DEF ScalarsOK, Logs, Uncounted

\* A step after which status is st keeps the scalar variables as they should be.
LEMMA StatusStep ==
    ASSUME ScalarsOK, NEW t \in Callers, LogGrows(t), UNCHANGED <<revision, script, live>>,
           \A d \in DOMAIN status' : status'[d] \in Statuses
    PROVE  ScalarsOK'
<1>1. Logs'
  BY LogGrowsKeeps DEF ScalarsOK, Logs
<1> QED
  BY <1>1 DEF ScalarsOK, Logs

LEMMA LocalUncounted ==
    ASSUME NEW t, NEW r, NEW res, Proceeds(t, r) \/ Returns(t, res)
    PROVE  Uncounted(t)
BY DEF Proceeds, Returns, Answers, shared, Uncounted, LogGrows

LEMMA GcasUncounted ==
    ASSUME NEW t, NEW purpose, NEW node, NEW before, NEW after, NEW fresh, NEW ans,
           Gcas(t, purpose, node, before, after, fresh, ans)
    PROVE  Uncounted(t)
BY LocalUncounted DEF Gcas

LEMMA DecideUncounted ==
    ASSUME NEW t, NEW dec, NEW val, NEW after, NEW fresh, Decide(t, dec, val, after, fresh)
    PROVE  Uncounted(t)
<1> DEFINE res == MutationResult(th[t].call, dec.kind # "None",
                              IF dec.kind = "None" THEN val ELSE dec.result, dec.matched)
           purpose == IF dec.kind = "Remove" THEN "remove" ELSE "set"
<1>1. \/ Returns(t, res) \/ Gcas(t, purpose, th[t].node, MainAt(t), after, fresh, res)
  BY DEF Decide
<1> HIDE DEF res, purpose
<1> QED
  BY <1>1, LocalUncounted, GcasUncounted

LEMMA MutateUncounted ==
    ASSUME NEW t, \/ MutateVacant(t) \/ MutateSingleton(t) \/ MutateSplits(t)
    PROVE  Uncounted(t)
<1>1. CASE MutateVacant(t)
  BY <1>1, DecideUncounted DEF MutateVacant
<1>2. CASE MutateSingleton(t)
  BY <1>2, DecideUncounted DEF MutateSingleton
<1>3. CASE MutateSplits(t)
  BY <1>3, DecideUncounted DEF MutateSplits
<1> QED
  BY <1>1, <1>2, <1>3

LEMMA MutateCollisionUncounted == ASSUME NEW t, MutateCollision(t) PROVE Uncounted(t)
<1>1. \E dec, val, after, fresh : Decide(t, dec, val, after, fresh)
  BY DEF MutateCollision
<1> QED
  BY <1>1, DecideUncounted

LEMMA WalkUncounted ==
    ASSUME NEW t, \/ WalkDescends(t) \/ WalkMeetsOldChild(t) \/ WalkMeetsTomb(t) \/ WalkRenewsChild(t)
    PROVE  Uncounted(t)
<1>1. CASE WalkDescends(t) \/ WalkMeetsOldChild(t)
  BY <1>1, LocalUncounted DEF WalkDescends, WalkMeetsOldChild
<1>2. CASE WalkMeetsTomb(t) \/ WalkRenewsChild(t)
  BY <1>2, GcasUncounted DEF WalkMeetsTomb, WalkRenewsChild
<1> QED
  BY <1>1, <1>2

LEMMA ReadUncounted ==
    ASSUME NEW t, \/ Invoke(t) \/ ReadRootMeetsSnapshot(t) \/ ReadRootBegins(t)
                  \/ ReadRootCompletes(t) \/ RootCompleteMain(t) \/ GcasLoses(t)
                  \/ ReadMainMeetsDescriptor(t) \/ CleanTombsReturns(t) \/ LookupReturns(t)
                  \/ LookupDescends(t) \/ ClearFindsEmpty(t) \/ ClearReplaces(t)
                  \/ SnapshotReadsMain(t) \/ SnapshotLoses(t)
    PROVE  Uncounted(t)
<1>1. CASE Invoke(t)
  BY <1>1, LocalUncounted DEF Invoke
<1>2. CASE ReadRootMeetsSnapshot(t) \/ ReadRootBegins(t) \/ ReadRootCompletes(t)
  BY <1>2, LocalUncounted DEF ReadRootMeetsSnapshot, ReadRootBegins, ReadRootCompletes
<1>3. CASE RootCompleteMain(t) \/ GcasLoses(t) \/ ReadMainMeetsDescriptor(t)
  BY <1>3, LocalUncounted DEF RootCompleteMain, GcasLoses, ReadMainMeetsDescriptor
<1>4. CASE CleanTombsReturns(t) \/ LookupReturns(t) \/ LookupDescends(t)
  BY <1>4, LocalUncounted DEF CleanTombsReturns, LookupReturns, LookupDescends
<1>5. CASE ClearFindsEmpty(t) \/ ClearReplaces(t)
  BY <1>5, LocalUncounted, GcasUncounted DEF ClearFindsEmpty, ClearReplaces
<1>6. CASE SnapshotReadsMain(t) \/ SnapshotLoses(t)
  BY <1>6, LocalUncounted DEF SnapshotReadsMain, SnapshotLoses
<1> QED
  BY <1>1, <1>2, <1>3, <1>4, <1>5, <1>6

LEMMA EnumerateUncounted ==
    ASSUME NEW t, \/ EnumerateLeaf(t) \/ EnumerateCNode(t) \/ ScanFinishes(t) \/ ScanBranch(t)
                  \/ ClassifyMain(t)
    PROVE  Uncounted(t)
<1>1. ASSUME NEW w, EnumerateNext(t, w) PROVE Uncounted(t)
  BY <1>1, LocalUncounted DEF EnumerateNext, Enters
<1>2. ASSUME NEW w, Scans(t, w) PROVE Uncounted(t)
  BY <1>2, LocalUncounted DEF Scans
<1>3. ASSUME NEW phase, NEW node, NEW w, Enters(t, phase, node, w) PROVE Uncounted(t)
  BY <1>3, LocalUncounted DEF Enters
<1>4. CASE EnumerateLeaf(t)
  BY <1>1, <1>4 DEF EnumerateLeaf
<1>5. CASE EnumerateCNode(t)
  BY <1>2, <1>5 DEF EnumerateCNode
<1>6. CASE ScanFinishes(t)
  BY <1>1, <1>2, <1>6 DEF ScanFinishes
<1>7. CASE ScanBranch(t)
  BY <1>2, <1>3, <1>7 DEF ScanBranch
<1>8. CASE ClassifyMain(t)
  BY <1>2, <1>8 DEF ClassifyMain
<1> QED
  BY <1>4, <1>5, <1>6, <1>7, <1>8

LEMMA DecidingScalars ==
    ASSUME ScalarsOK, NEW W, NEW f, CoreInv(W, f), NEW t \in Callers,
           CompleteStatus(t) \/ RootCompleteStatus(t)
    PROVE  ScalarsOK'
<1> DEFINE r == th[t]
           d == IF r.pc = "status" THEN r.desc.id ELSE r.rdesc.id
<1>1. /\ r.pc \in {"status", "rdStatus"} /\ status' = [status EXCEPT ![d] = Decided(d, r.wish)]
      /\ UNCHANGED <<revision, script, live, log>>
  BY DEF CompleteStatus, RootCompleteStatus
<1>2. r.wish \in Outcomes
  BY <1>1, CoreHas DEF RegistersFit, GcasState
<1> HIDE DEF r, d
<1>3. \A x \in DOMAIN status' : status'[x] \in Statuses
  BY <1>1, <1>2 DEF ScalarsOK, Decided, Statuses, Outcomes
<1> QED
  BY <1>1, <1>3, StatusStep DEF LogGrows

LEMMA OtherScalars ==
    ASSUME ScalarsOK, NEW t \in Callers,
           \/ RootCompleteRoot(t) \/ GcasInstalls(t) \/ ReadMainSettles(t) \/ Bump(t)
           \/ SnapshotInstalls(t)
    PROVE  ScalarsOK'
<1>1. CASE RootCompleteRoot(t)
  <2>1. LogGrows(t) /\ UNCHANGED <<status, revision, script, live>>
    BY <1>1 DEF RootCompleteRoot, LogGrows
  <2> QED
    BY <2>1, UncountedKeeps DEF Uncounted
<1>2. CASE ReadMainSettles(t)
  <2>1. LogGrows(t) /\ UNCHANGED <<status, revision, script, live>>
    BY <1>2 DEF ReadMainSettles, LogGrows
  <2> QED
    BY <2>1, UncountedKeeps DEF Uncounted
<1>3. CASE GcasInstalls(t) \/ SnapshotInstalls(t)
  <2>1. LogGrows(t) /\ UNCHANGED <<revision, script, live>>
    BY <1>3 DEF GcasInstalls, SnapshotInstalls, LogGrows
  <2>2. \A d \in DOMAIN status' : status'[d] \in Statuses
    <3> DEFINE g == th[t].desc.id
               s == th[t].rdesc.id
    <3>1. \A d \in DOMAIN status : status[d] \in Statuses
      BY DEF ScalarsOK
    <3>2. CASE GcasInstalls(t)
      <4>1. status' = [d \in DOMAIN status \cup {g} |-> IF d = g THEN "Undecided" ELSE status[d]]
        BY <3>2 DEF GcasInstalls
      <4> HIDE DEF g, s
      <4> QED
        BY <3>1, <4>1 DEF Statuses
    <3>3. CASE SnapshotInstalls(t)
      <4>1. status' = [d \in DOMAIN status \cup {s} |-> IF d = s THEN "Undecided" ELSE status[d]]
        BY <3>3 DEF SnapshotInstalls
      <4> HIDE DEF g, s
      <4> QED
        BY <3>1, <4>1 DEF Statuses
    <3> QED
      BY <1>3, <3>2, <3>3
  <2> QED
    BY <2>1, <2>2, StatusStep
<1>4. CASE Bump(t)
  <2>1. LogGrows(t) /\ UNCHANGED <<status, script, live>> /\ revision' = revision + 1
    BY <1>4 DEF Bump, LogGrows, Answers, Counts
  <2>2. Logs'
    BY <2>1, LogGrowsKeeps DEF ScalarsOK, Logs
  <2> QED
    BY <2>1, <2>2 DEF ScalarsOK, Logs
<1> QED
  BY <1>1, <1>2, <1>3, <1>4

LEMMA StepScalars ==
    ASSUME ScalarsOK, NEW W, NEW f, CoreInv(W, f), NEW t \in Callers, Step(t)
    PROVE  ScalarsOK'
<1>1. \/ Uncounted(t) \/ CompleteStatus(t) \/ RootCompleteStatus(t)
      \/ RootCompleteRoot(t) \/ GcasInstalls(t) \/ ReadMainSettles(t) \/ Bump(t)
      \/ SnapshotInstalls(t)
  BY MutateUncounted, MutateCollisionUncounted, WalkUncounted, ReadUncounted, EnumerateUncounted
     DEF Step
<1> QED
  BY <1>1, UncountedKeeps, DecidingScalars, OtherScalars

-----------------------------------------------------------------------------
\* Any step.

LEMMA StepCore ==
    ASSUME TrieInv, ScalarsOK, NEW W, NEW f, CoreInv(W, f), NEW t \in Callers, Step(t)
    PROVE  \E WW : CoreInv(WW, f)'
<1> DEFINE Kept == CoreInv(W, f)'
<1>1. CASE \/ Invoke(t) \/ ReadRootMeetsSnapshot(t) \/ ReadRootBegins(t) \/ ReadRootCompletes(t)
           \/ RootCompleteMain(t) \/ RootCompleteStatus(t) \/ RootCompleteRoot(t)
           \/ GcasLoses(t) \/ CompleteStatus(t) \/ ReadMainMeetsDescriptor(t) \/ ReadMainSettles(t)
  <2>1. Kept
    BY <1>1, InvokeCore, ReadRootMeetsSnapshotCore, ReadRootBeginsCore, ReadRootCompletesCore,
       RootCompleteMainCore, RootCompleteStatusCore, RootCompleteRootCore, LosesCore,
       CompleteStatusCore, ReadMainMeetsDescriptorCore, ReadMainSettlesCore
  <2> QED
    BY <2>1
<1>2. CASE \/ WalkMeetsTomb(t) \/ WalkDescends(t) \/ WalkMeetsOldChild(t) \/ WalkRenewsChild(t)
           \/ MutateCollision(t) \/ MutateVacant(t) \/ MutateSingleton(t) \/ MutateSplits(t)
           \/ Bump(t) \/ CleanTombsReturns(t)
  <2>1. Kept
    BY <1>2, WalkMeetsTombCore, WalkDescendsCore, WalkMeetsOldChildCore, WalkRenewsChildCore,
       MutateCollisionCore, MutateVacantCore, MutateSingletonCore, MutateSplitsCore, BumpCore,
       AnswersCore
  <2> QED
    BY <2>1
<1>3. CASE \/ LookupReturns(t) \/ LookupDescends(t) \/ ClearFindsEmpty(t) \/ ClearReplaces(t)
           \/ SnapshotReadsMain(t) \/ SnapshotLoses(t)
           \/ EnumerateLeaf(t) \/ EnumerateCNode(t) \/ ScanFinishes(t) \/ ScanBranch(t)
           \/ ClassifyMain(t)
  <2>1. Kept
    BY <1>3, AnswersCore, LookupDescendsCore, ClearReplacesCore, SnapshotReadsMainCore, LosesCore,
       EnumerateCore
  <2> QED
    BY <2>1
<1>4. CASE GcasInstalls(t)
  BY <1>4, GcasInstallsCore
<1>5. CASE SnapshotInstalls(t)
  BY <1>5, SnapshotInstallsCore
<1> QED
  BY <1>1, <1>2, <1>3, <1>4, <1>5 DEF Step

LEMMA UnchangedCore ==
    ASSUME NEW W, NEW f, CoreInv(W, f), UNCHANGED <<root, main, status, th>>
    PROVE  CoreInv(W, f)'
<1>1. Active' = Active /\ CurrentRoot' = CurrentRoot
  BY DEF Active, CurrentRoot, SelectedRoot
<1>2. Retired' = Retired
  BY <1>1 DEF Retired
<1>3. PlacesOK(W)' /\ NodesHold(W)' /\ ThreadsFit(W)'
  BY <1>1, <1>2, CoreParts DEF PlacesOK, NodesHold, ThreadsFit
<1>4. CurrentOK(W)'
  BY <1>1, <1>2, CoreParts DEF CurrentOK
<1>5. DescriptorsUnique'
  BY CoreParts DEF DescriptorsUnique
<1>6. AllFrozen(W, f)'
  BY <1>2, CoreParts DEF AllFrozen, FrozenAt, KeptAt
<1> QED
  BY <1>3, <1>4, <1>5, <1>6, CoreParts DEF CoreInv, ShapeInv

LEMMA UnchangedScalars == ASSUME ScalarsOK, UNCHANGED vars PROVE ScalarsOK'
BY DEF ScalarsOK, vars

LEMMA PublishScalars == ASSUME ScalarsOK, Publish PROVE ScalarsOK'
BY DEF ScalarsOK, Publish

LEMMA NextCore ==
    ASSUME TrieInv, ScalarsOK, NEW W, NEW f, CoreInv(W, f), [Next]_vars
    PROVE  ScalarsOK' /\ \E WW : CoreInv(WW, f)'
<1>1. CASE UNCHANGED vars
  BY <1>1, UnchangedScalars, UnchangedCore DEF vars
<1>2. CASE Publish
  <2>1. UNCHANGED <<root, main, status, th>>
    BY <1>2 DEF Publish
  <2> QED
    BY <1>2, <2>1, PublishScalars, UnchangedCore
<1>3. ASSUME NEW t \in Callers, Step(t)
      PROVE  ScalarsOK' /\ \E WW : CoreInv(WW, f)'
  BY <1>3, StepScalars, StepCore
<1> QED
  BY <1>1, <1>2, <1>3 DEF Next, Terminated

-----------------------------------------------------------------------------
\* What the places reached from a node have in common.

Level(n, next, at, d) ==
    at[d] = IF d = 0 THEN {[node |-> n, path |-> <<>>]} ELSE Below(next, at[d - 1])

\* The recursion has a solution.
LEMMA LevelsExist ==
    ASSUME NEW n, NEW next, NEW k \in Nat
    PROVE  \E at : at = [d \in 0 .. k |-> at[d]] /\ \A d \in 0 .. k : Level(n, next, at, d)
<1> DEFINE Solved(j) == \E at : at = [d \in 0 .. j |-> at[d]] /\ \A d \in 0 .. j : Level(n, next, at, d)
           T == {j \in Nat : ~Solved(j)}
<1>1. Solved(0)
  <2> DEFINE at == [d \in 0 .. 0 |-> {[node |-> n, path |-> <<>>]}]
  <2>1. at = [d \in 0 .. 0 |-> at[d]] /\ \A d \in 0 .. 0 : Level(n, next, at, d)
    BY DEF Level
  <2> QED
    BY <2>1
<1>2. ASSUME NEW j \in Nat, Solved(j) PROVE Solved(j + 1)
  <2>1. PICK at : at = [d \in 0 .. j |-> at[d]] /\ \A d \in 0 .. j : Level(n, next, at, d)
    BY <1>2
  <2> DEFINE more == [d \in 0 .. j + 1 |-> IF d = j + 1 THEN Below(next, at[j]) ELSE at[d]]
  <2>2. more = [d \in 0 .. j + 1 |-> more[d]]
    OBVIOUS
  <2>3. ASSUME NEW d \in 0 .. j + 1 PROVE Level(n, next, more, d)
    <3>1. CASE d = j + 1
      <4>1. d - 1 = j /\ j # j + 1 /\ j \in 0 .. j + 1 /\ d # 0
        BY <3>1
      <4>2. more[d - 1] = at[j] /\ more[d] = Below(next, at[j])
        BY <3>1, <4>1
      <4> HIDE DEF more
      <4> QED
        BY <4>1, <4>2 DEF Level
    <3>2. CASE d # j + 1
      <4>1. d \in 0 .. j /\ (d # 0 => d - 1 \in 0 .. j)
        BY <3>2
      <4>2. more[d] = at[d] /\ (d # 0 => more[d - 1] = at[d - 1])
        BY <3>2, <4>1
      <4>3. Level(n, next, at, d)
        BY <2>1, <4>1
      <4> HIDE DEF more
      <4> QED
        BY <4>2, <4>3 DEF Level
    <3> QED
      BY <3>1, <3>2
  <2> HIDE DEF more
  <2> QED
    BY <2>2, <2>3
<1> HIDE DEF Solved
<1>3. ASSUME T # {} PROVE FALSE
  <2>1. PICK j \in T : \A i \in T : j <= i
    BY <1>3, LeastLevel
  <2>2. j \in Nat /\ ~Solved(j) /\ j # 0
    BY <1>1
  <2>3. j - 1 \in Nat /\ j - 1 \notin T /\ (j - 1) + 1 = j
    BY <2>1, <2>2
  <2>4. Solved(j - 1)
    BY <2>3
  <2> QED
    BY <1>2, <2>2, <2>3, <2>4
<1> QED
  BY <1>3 DEF Solved

\* A set of places that has the start and all children of its members has every
\* place reached.
LEMMA ReachedWithin ==
    ASSUME NEW n, NEW next, NEW P, [node |-> n, path |-> <<>>] \in P,
           \A p \in P : \A x \in next[p.node] : [node |-> x.node, path |-> Append(p.path, x.chunk)] \in P
    PROVE  Reached(n, next) \subseteq P
<1> DEFINE Sol(at) == at = [d \in 0 .. Levels + 1 |-> IF d = 0 THEN {[node |-> n, path |-> <<>>]}
                                                     ELSE Below(next, at[d - 1])]
           At == CHOOSE at : Sol(at)
<1>1. Levels + 1 \in Nat
  BY CtrieAssumption
<1>2. \E at : Sol(at)
  <2>1. PICK at : /\ at = [d \in 0 .. Levels + 1 |-> at[d]]
                  /\ \A d \in 0 .. Levels + 1 : Level(n, next, at, d)
    BY <1>1, LevelsExist
  <2> DEFINE sol == [d \in 0 .. Levels + 1 |-> IF d = 0 THEN {[node |-> n, path |-> <<>>]}
                                            ELSE Below(next, at[d - 1])]
  <2>3. \A d \in 0 .. Levels + 1 : at[d] = IF d = 0 THEN {[node |-> n, path |-> <<>>]}
                                           ELSE Below(next, at[d - 1])
    BY <2>1 DEF Level
  <2>4. at = sol
    BY <2>1, <2>3
  <2> QED
    BY <2>4
<1>3. Sol(At)
  BY <1>2
<1>4. Reached(n, next) = UNION {At[d] : d \in 0 .. Levels + 1}
  BY DEF Reached
<1> HIDE DEF At
<1>5. \A d \in 0 .. Levels + 1 : At[d] = IF d = 0 THEN {[node |-> n, path |-> <<>>]}
                                         ELSE Below(next, At[d - 1])
  BY <1>3
<1>6. ASSUME NEW Q, Q \subseteq P PROVE Below(next, Q) \subseteq P
  BY <1>6 DEF Below
<1> DEFINE T == {d \in 0 .. Levels + 1 : ~(At[d] \subseteq P)}
<1>7. ASSUME T # {} PROVE FALSE
  <2>1. PICK j \in T : \A i \in T : j <= i
    <3>1. T \subseteq Nat
      BY <1>1
    <3> HIDE DEF T
    <3> QED
      BY <1>7, <3>1, LeastLevel
  <2>2. CASE j = 0
    BY <1>5, <2>1, <2>2
  <2>3. CASE j # 0
    <3>1. j - 1 \in 0 .. Levels + 1 /\ ~(j <= j - 1) /\ At[j] = Below(next, At[j - 1])
      BY <1>1, <1>5, <2>1, <2>3
    <3>2. At[j - 1] \subseteq P
      BY <2>1, <3>1
    <3> QED
      BY <1>6, <2>1, <3>1, <3>2
  <2> QED
    BY <2>2, <2>3
<1> QED
  BY <1>4, <1>7

-----------------------------------------------------------------------------
\* What a view reaches.

LEMMA ChildrenAre ==
    ASSUME NEW m, NEW x \in Children(m)
    PROVE  /\ m.kind = "C" /\ x.chunk \in DOMAIN m.branches
           /\ m.branches[x.chunk].kind = "I" /\ m.branches[x.chunk].id = x.node
BY DEF Children

\* Nodes a view reaches through main nodes are of generations that are current
\* no more.
LEMMA SettledIn ==
    ASSUME NEW W, NEW f, CoreInv(W, f), NEW v \in Views, NEW n \in SettledNodes(v)
    PROVE  n \in DOMAIN W /\ W[n].gen \in Retired /\ main[n].kind # "D"
<1> DEFINE next == [y \in DOMAIN main |-> Children(main[y])]
           S == {y \in DOMAIN W : W[y].gen \in Retired}
           P == {[node |-> y, path |-> W[y].path] : y \in S}
<1>1. DOMAIN W = DOMAIN main /\ NodesHold(W)
  BY CoreParts
<1>2. RootAt(W, Active, v) /\ v.id \in Retired
  <2>1. PICK t \in Callers : th[t].view = v /\ v # None
    BY DEF Views
  <2> QED
    BY <2>1, CoreHas DEF RegistersFit, RootState
<1>3. v.node.id = v.id /\ v.id \in DOMAIN W /\ W[v.id].gen = v.id /\ W[v.id].path = <<>>
  BY <1>2 DEF RootAt, Root, INode
<1>4. [node |-> v.node.id, path |-> <<>>] \in P
  BY <1>2, <1>3
<1>5. ASSUME NEW y \in S, NEW x \in next[y]
      PROVE  x.node \in S /\ W[x.node].path = Append(W[y].path, x.chunk)
  <2> DEFINE m == main[y]
             b == m.branches[x.chunk]
             q == Append(W[y].path, x.chunk)
  <2>1. m.kind = "C" /\ x.chunk \in DOMAIN m.branches /\ b.kind = "I" /\ b.id = x.node
    BY <1>1, <1>5, ChildrenAre
  <2>2. W[y].gen \in Active
    BY <1>5 DEF Retired
  <2> HIDE DEF m, b
  <2>3. Fits(W, W[y].path, m) /\ Gens(Retired, W[y].gen, m)
    BY <1>1, <2>1, <2>2 DEF NodesHold, MainHolds, Holds, m
  <2>4. BranchFits(W, q, b)
    BY <2>1, <2>3, BranchHas DEF b
  <2>5. b.gen \in Retired
    BY <1>5, <2>1, <2>3 DEF Gens, b
  <2> HIDE DEF q
  <2>6. b.id \in DOMAIN W /\ W[b.id].gen = b.gen /\ W[b.id].path = q
    BY <2>1, <2>4, ChildHas
  <2> QED
    BY <2>1, <2>5, <2>6 DEF q
<1>6. ASSUME NEW p \in P, NEW x \in next[p.node]
      PROVE  [node |-> x.node, path |-> Append(p.path, x.chunk)] \in P
  <2>1. PICK y \in S : p = [node |-> y, path |-> W[y].path]
    BY <1>6
  <2>2. p.node = y /\ p.path = W[y].path
    BY <2>1
  <2> HIDE DEF next, S
  <2>3. x.node \in S /\ W[x.node].path = Append(p.path, x.chunk)
    BY <1>5, <1>6, <2>2
  <2> QED
    BY <2>3
<1> HIDE DEF P, next
<1>7. Reached(v.node.id, next) \subseteq P
  BY <1>4, <1>6, ReachedWithin
<1>8. PICK p \in Reached(v.node.id, next) : p.node = n /\ main[n].kind # "D"
  BY DEF SettledNodes, next
<1> QED
  BY <1>7, <1>8 DEF P

-----------------------------------------------------------------------------
\* What the invariant implies.

\* A node denotes a main node that fits where the node is.
LEMMA DenotesFits ==
    ASSUME TrieInv, NEW W, NEW f, CoreInv(W, f), NEW n \in DOMAIN W
    PROVE  Fits(W, W[n].path, Denotes(n))
<1>1. MainHolds(W, Active, Retired, n, main[n])
  BY CoreParts DEF NodesHold
<1>2. CASE main[n].kind = "D"
  BY <1>1, <1>2 DEF MainHolds, DescHolds, Holds, Denotes, Selected
<1>3. CASE main[n].kind # "D"
  BY <1>1, <1>3 DEF MainHolds, Holds, Denotes
<1> QED
  BY <1>2, <1>3

LEMMA FitsPublished ==
    ASSUME NEW W, DOMAIN W = DOMAIN main, NEW p, NEW m, Fits(W, p, m)
    PROVE  m.kind \in Kinds /\ BranchesPublished(m)
<1>1. m.kind \in Kinds
  BY DEF Fits, Kinds
<1>2. ASSUME m.kind = "C", NEW c \in DOMAIN m.branches, m.branches[c].kind = "I"
      PROVE  m.branches[c].id \in DOMAIN main
  <2>1. BranchFits(W, Append(p, c), m.branches[c])
    BY <1>2, BranchHas
  <2> QED
    BY <1>2, <2>1 DEF BranchFits, Single, Child
<1> QED
  BY <1>1, <1>2 DEF BranchesPublished

LEMMA CoreTypeOK ==
    ASSUME TrieInv, ScalarsOK, NEW W, NEW f, CoreInv(W, f) PROVE TypeOK
<1>1. DOMAIN W = DOMAIN main /\ CurrentOK(W) /\ NodesHold(W)
  BY CoreParts
<1>2. root.kind \in {"R", "RD"} /\ CurrentRoot.node.id \in DOMAIN main
  BY <1>1 DEF CurrentOK, RootAt, Root, INode
<1>3. ASSUME NEW n \in DOMAIN main
      PROVE  \/ main[n].kind \in Kinds /\ BranchesPublished(main[n])
             \/ /\ main[n].kind = "D" /\ main[n].id \in DOMAIN status
                /\ BranchesPublished(main[n].before) /\ BranchesPublished(main[n].after)
  <2>1. MainHolds(W, Active, Retired, n, main[n])
    BY <1>1 DEF NodesHold
  <2>2. CASE main[n].kind = "D"
    <3>1. Fits(W, W[n].path, main[n].before) /\ Fits(W, W[n].path, main[n].after)
      BY <2>1, <2>2 DEF MainHolds, DescHolds, Holds
    <3>2. BranchesPublished(main[n].before) /\ BranchesPublished(main[n].after)
      BY <1>1, <3>1, FitsPublished
    <3>3. main[n].id \in DOMAIN status
      BY <2>2 DEF TrieInv, DescriptorsInstalled, Installed
    <3> QED
      BY <2>2, <3>2, <3>3
  <2>3. CASE main[n].kind # "D"
    <3>1. Fits(W, W[n].path, main[n])
      BY <2>1, <2>3 DEF MainHolds, Holds
    <3> QED
      BY <1>1, <3>1, FitsPublished
  <2> QED
    BY <2>2, <2>3
<1> QED
  BY <1>2, <1>3 DEF TypeOK, ScalarsOK

LEMMA CoreFrozen == ASSUME NEW W, CoreInv(W, frozen) PROVE FrozenViews
BY CoreParts DEF AllFrozen, FrozenAt, KeptAt, FrozenViews

-----------------------------------------------------------------------------
\* The trie is well formed.

\* Where an indirection node can be: at the top, or below it.
Seats(W, top) ==
    {[node |-> n, path |-> W[n].path] : n \in {m \in DOMAIN W : m = top \/ W[m].path # <<>>}}

LEMMA CurrentAt ==
    ASSUME NEW W, NEW f, CoreInv(W, f)
    PROVE  LET top == CurrentRoot.node.id
           IN  /\ CurrentRoot.node.gen = CurrentRoot.id
               /\ top \in DOMAIN W /\ W[top].path = <<>>
BY CoreParts DEF CurrentOK, RootAt, Root, INode

LEMMA PlacesSeated ==
    ASSUME TrieInv, NEW W, NEW f, CoreInv(W, f)
    PROVE  Places(CurrentRoot.node.id) \subseteq Seats(W, CurrentRoot.node.id)
<1> DEFINE top == CurrentRoot.node.id
           next == [y \in DOMAIN main |-> Children(Denotes(y))]
           S == {m \in DOMAIN W : m = top \/ W[m].path # <<>>}
           P == Seats(W, top)
<1>1. DOMAIN W = DOMAIN main
  BY CoreParts
<1>2. top \in DOMAIN W /\ W[top].path = <<>>
  BY CurrentAt
<1> HIDE DEF top
<1>3. [node |-> top, path |-> <<>>] \in P
  BY <1>2 DEF Seats
<1>4. ASSUME NEW y \in DOMAIN W, NEW x \in next[y]
      PROVE  x.node \in S /\ W[x.node].path = Append(W[y].path, x.chunk)
  <2> DEFINE m == Denotes(y)
             b == m.branches[x.chunk]
             p == W[y].path
             q == Append(p, x.chunk)
  <2>1. m.kind = "C" /\ x.chunk \in DOMAIN m.branches /\ b.kind = "I" /\ b.id = x.node
    BY <1>1, <1>4, ChildrenAre
  <2>2. Fits(W, p, m)
    BY DenotesFits
  <2> HIDE DEF m, b
  <2>3. Len(p) < Levels /\ x.chunk \in Nat /\ BranchFits(W, q, b)
    BY <2>1, <2>2, BranchHas DEF b
  <2>4. p \in Paths
    BY CoreParts
  <2>5. q # <<>>
    BY <2>3, <2>4, PathAppend
  <2> HIDE DEF q
  <2>6. b.id \in DOMAIN W /\ W[b.id].path = q
    BY <2>1, <2>3, ChildHas
  <2> QED
    BY <2>1, <2>5, <2>6 DEF q
<1>5. ASSUME NEW p \in P, NEW x \in next[p.node]
      PROVE  [node |-> x.node, path |-> Append(p.path, x.chunk)] \in P
  <2>1. PICK y \in S : p = [node |-> y, path |-> W[y].path]
    BY <1>5 DEF Seats
  <2>2. p.node = y /\ p.path = W[y].path /\ y \in DOMAIN W
    BY <2>1
  <2> HIDE DEF next
  <2>3. x.node \in S /\ W[x.node].path = Append(p.path, x.chunk)
    BY <1>4, <1>5, <2>2
  <2> QED
    BY <2>3 DEF Seats
<1> HIDE DEF P, next
<1>6. Reached(top, next) \subseteq P
  BY <1>3, <1>5, ReachedWithin
<1> QED
  BY <1>6 DEF Places, next, P, top

\* What ValidateStructureForTesting asks of one place.
PlaceWellFormed(top, p) ==
    LET m == Denotes(p.node)
    IN  /\ m.kind = "T" => p.node # top /\ m.entry # None
        /\ m.kind = "L" =>
             /\ Len(m.entries) >= 2
             /\ \A i, j \in DOMAIN m.entries :
                  /\ Hash[m.entries[i].key] = Hash[m.entries[j].key]
                  /\ m.entries[i].key = m.entries[j].key => i = j
        /\ m.kind = "C" /\ p.node # top =>
             /\ DOMAIN m.branches # {}
             /\ Cardinality(DOMAIN m.branches) = 1 =>
                  \A c \in DOMAIN m.branches : m.branches[c].kind = "I"

LEMMA BucketDomain == ASSUME NEW p, NEW e, Bucket(p, e) PROVE DOMAIN e = 1 .. Len(e)
<1>1. PICK S : e \in Seq(S)
  BY DEF Bucket
<1> QED
  BY <1>1, LenProperties

LEMMA SeatWellFormed ==
    ASSUME TrieInv, NEW W, NEW f, CoreInv(W, f), NEW p \in Seats(W, CurrentRoot.node.id)
    PROVE  PlaceWellFormed(CurrentRoot.node.id, p)
<1> DEFINE top == CurrentRoot.node.id
           m == Denotes(p.node)
<1>1. W[top].path = <<>>
  BY CurrentAt
<1>2. /\ p.node \in DOMAIN W /\ p.path = W[p.node].path
      /\ p.node # top => p.path # <<>>
  BY DEF Seats
<1>3. Fits(W, p.path, m)
  BY <1>2, DenotesFits
<1> HIDE DEF top, m
<1>4. CASE m.kind = "T"
  <2>1. p.path # <<>> /\ Single(m.entry, p.path)
    BY <1>3, <1>4 DEF Fits
  <2>2. m.entry # None
    BY <2>1 DEF Single, None
  <2> QED
    BY <1>1, <1>2, <1>4, <2>1, <2>2 DEF PlaceWellFormed, m, top
<1>5. CASE m.kind = "L"
  <2>1. Bucket(p.path, m.entries) /\ Len(m.entries) >= 2
    BY <1>3, <1>5 DEF Fits
  <2>2. \A i, j \in DOMAIN m.entries :
          /\ Hash[m.entries[i].key] = Hash[m.entries[j].key]
          /\ m.entries[i].key = m.entries[j].key => i = j
    BY <2>1, BucketDomain DEF Bucket
  <2> QED
    BY <1>5, <2>1, <2>2 DEF PlaceWellFormed, m
<1>6. CASE m.kind = "C" /\ p.node # top
  <2> DEFINE B == m.branches
  <2>1. Compressed(B) /\ IsFiniteSet(DOMAIN B)
    BY <1>2, <1>3, <1>6, BranchHas DEF BranchesFit
  <2> HIDE DEF B
  <2>2. DOMAIN B # {}
    BY <2>1 DEF Compressed
  <2>3. ASSUME Cardinality(DOMAIN B) = 1, NEW c \in DOMAIN B PROVE B[c].kind = "I"
    <3>1. \E x : DOMAIN B = {x}
      BY <2>1, <2>3, FS_Singleton
    <3>2. DOMAIN B = {c}
      BY <2>3, <3>1
    <3> QED
      BY <2>1, <3>2 DEF Compressed
  <2> QED
    BY <1>6, <2>2, <2>3 DEF PlaceWellFormed, m, top, B
<1>7. CASE m.kind = "C" /\ p.node = top
  BY <1>7 DEF PlaceWellFormed, m, top
<1>8. m.kind \in {"C", "L", "T"}
  BY <1>3 DEF Fits
<1> QED
  BY <1>4, <1>5, <1>6, <1>7, <1>8 DEF top

\* An entry on path q lies in its hash partition.
LEMMA SinglePartition ==
    ASSUME NEW s, NEW q \in Paths, Single(s, q)
    PROVE  SubSeq(Hash[s.key], 1, Len(q)) = q
BY PrefixOf DEF Single, Prefix

LEMMA EntriesPartitioned ==
    ASSUME TrieInv, NEW W, NEW f, CoreInv(W, f), NEW p \in Seats(W, CurrentRoot.node.id),
           NEW x \in EntriesAt(p)
    PROVE  SubSeq(Hash[x.entry.key], 1, Len(x.path)) = x.path
<1> DEFINE m == Denotes(p.node)
<1>1. p.node \in DOMAIN W /\ p.path = W[p.node].path
  BY DEF Seats
<1>2. Fits(W, p.path, m) /\ p.path \in Paths
  BY <1>1, DenotesFits, CoreParts
<1>3. m.kind \in {"C", "L", "T"}
  BY <1>2 DEF Fits
<1>4. x.path \in Paths /\ Single(x.entry, x.path)
  <2>1. CASE m.kind = "T"
    <3>1. x = [entry |-> m.entry, path |-> p.path]
      BY <2>1 DEF EntriesAt
    <3> HIDE DEF m
    <3> QED
      BY <1>2, <2>1, <3>1 DEF Fits
  <2>2. CASE m.kind = "L"
    <3>1. PICK i \in DOMAIN m.entries : x = [entry |-> m.entries[i], path |-> p.path]
      BY <2>2 DEF EntriesAt
    <3> HIDE DEF m
    <3>2. Bucket(p.path, m.entries)
      BY <1>2, <2>2 DEF Fits
    <3>3. i \in 1 .. Len(m.entries)
      BY <3>2, BucketDomain
    <3>4. Single(m.entries[i], p.path)
      BY <3>2, <3>3 DEF Bucket
    <3> QED
      BY <1>2, <3>1, <3>4
  <2>3. CASE m.kind = "C"
    <3>1. PICK c \in DOMAIN m.branches :
            m.branches[c].kind = "S" /\ x = [entry |-> m.branches[c], path |-> Append(p.path, c)]
      BY <2>3 DEF EntriesAt
    <3> HIDE DEF m
    <3>2. Len(p.path) < Levels /\ c \in Nat /\ BranchFits(W, Append(p.path, c), m.branches[c])
      BY <1>2, <2>3, BranchHas
    <3>3. Append(p.path, c) \in Paths
      BY <1>2, <3>2, PathAppend
    <3>4. Single(m.branches[c], Append(p.path, c))
      BY <3>1, <3>2 DEF BranchFits, Child
    <3> QED
      BY <3>1, <3>3, <3>4
  <2> HIDE DEF m
  <2> QED
    BY <1>3, <2>1, <2>2, <2>3
<1> QED
  BY <1>4, SinglePartition

LEMMA CoreWellFormed == ASSUME TrieInv, NEW W, NEW f, CoreInv(W, f) PROVE WellFormed
<1> DEFINE top == CurrentRoot.node.id
<1>1. CurrentRoot.node.gen = CurrentRoot.id
  BY CurrentAt
<1>2. Places(top) \subseteq Seats(W, top)
  BY PlacesSeated
<1>3. \A p, q \in Seats(W, top) : p.node = q.node => p = q
  BY DEF Seats
<1>4. \A p \in Places(top) : PlaceWellFormed(top, p)
  BY <1>2, SeatWellFormed
<1>5. \A x \in Entries(top) : SubSeq(Hash[x.entry.key], 1, Len(x.path)) = x.path
  BY <1>2, EntriesPartitioned DEF Entries
<1> QED
  BY <1>1, <1>2, <1>3, <1>4, <1>5 DEF WellFormed, PlaceWellFormed

-----------------------------------------------------------------------------
\* The monitored specification.

LEMMA CoreInit == ASSUME MonitorInit PROVE ScalarsOK /\ \E W : CoreInv(W, frozen)
<1> DEFINE W == [n \in {StaticId} |-> [gen |-> StaticId, path |-> <<>>]]
<1>1. /\ root = InitialRoot /\ main = [n \in {StaticId} |-> EmptyCNode]
      /\ status = [d \in {} |-> "Undecided"] /\ revision = 0 /\ live = FALSE
      /\ th = [t \in Callers |-> Idle(None, 1)] /\ log = [t \in Callers |-> <<>>]
      /\ script \in Scripts /\ frozen = [n \in {} |-> EmptyCNode]
  BY DEF MonitorInit, Init
<1>2. ScalarsOK
  <2>1. DOMAIN log = Callers /\ \A t \in Callers : log[t] = <<>> /\ log[t] \in Seq({})
    BY <1>1
  <2> QED
    BY <1>1, <2>1 DEF ScalarsOK
<1>3. /\ DOMAIN W = {StaticId} /\ W[StaticId] = [gen |-> StaticId, path |-> <<>>]
      /\ DOMAIN main = {StaticId} /\ main[StaticId] = EmptyCNode /\ DOMAIN status = {}
  BY <1>1
<1> HIDE DEF W
<1>4. CurrentRoot = root /\ root = Root(StaticId) /\ root.kind = "R" /\ root.id = StaticId
  BY <1>1 DEF CurrentRoot, InitialRoot, Root
<1>5. Active = {StaticId} /\ RootAt(W, Active, CurrentRoot)
  BY <1>3, <1>4 DEF Active, RootAt
<1>6. CurrentOK(W)
  BY <1>4, <1>5 DEF CurrentOK
<1>7. PlacesOK(W)
  BY <1>3, <1>5, EveryKeyAtRoot DEF PlacesOK, PlaceOK
<1>8. EmptyCNode.kind = "C" /\ DOMAIN EmptyCNode.branches = {}
  BY DEF EmptyCNode, CNode
<1>9. Fits(W, <<>>, EmptyCNode) /\ Gens(Retired, StaticId, EmptyCNode)
  <2>1. IsFiniteSet({})
    BY FS_EmptySet
  <2>2. Len(<<>>) < Levels
    BY CtrieAssumption
  <2> QED
    BY <1>8, <2>1, <2>2 DEF Fits, CNodeFits, BranchesFit, Gens
<1>10. NodesHold(W)
  BY <1>3, <1>8, <1>9 DEF NodesHold, MainHolds, Holds
<1>11. ThreadsFit(W)
  BY <1>1, IdleFits DEF ThreadsFit
<1>12. DescriptorsUnique
  BY <1>3, <1>8 DEF DescriptorsUnique
<1>13. AllFrozen(W, frozen)
  BY <1>1 DEF AllFrozen
<1>14. CoreInv(W, frozen)
  BY <1>3, <1>6, <1>7, <1>10, <1>11, <1>12, <1>13 DEF CoreInv, ShapeInv
<1> QED
  BY <1>2, <1>14

\* What SettledIn says, of every history.
ViewsSettled ==
    \A W, f : CoreInv(W, f) =>
        \A v \in Views : \A n \in SettledNodes(v) :
            n \in DOMAIN W /\ W[n].gen \in Retired /\ main[n].kind # "D"

\* RecordFrozen adds what the views reach now.
LEMMA RecordKeeps ==
    ASSUME NEW f, f = frozen, NEW W, CoreInv(W, f)', RecordFrozen, ViewsSettled'
    PROVE  CoreInv(W, frozen)'
<1>1. ASSUME NEW n, n \in DOMAIN frozen' PROVE FrozenAt(W, n, frozen[n])'
  <2>1. CASE n \in DOMAIN f
    <3>1. frozen'[n] = f[n]
      BY <1>1, <2>1 DEF RecordFrozen
    <3>2. FrozenAt(W, n, f[n])'
      BY <2>1 DEF CoreInv, AllFrozen
    <3> QED
      BY <3>1, <3>2 DEF FrozenAt, KeptAt
  <2>2. CASE n \notin DOMAIN f
    <3>1. frozen'[n] = main'[n] /\ \E v \in Views' : n \in SettledNodes(v)'
      BY <1>1, <2>2 DEF RecordFrozen
    <3>2. n \in DOMAIN W /\ W[n].gen \in Retired' /\ main'[n].kind # "D"
      BY <3>1 DEF ViewsSettled
    <3> QED
      BY <3>1, <3>2 DEF FrozenAt, KeptAt
  <2> QED
    BY <2>1, <2>2
<1> QED
  BY <1>1 DEF CoreInv, AllFrozen

\* The invariant of the trie: the descriptors, the scalar variables, and the
\* shape for some history of publications.
TrieShape == TrieInv /\ ScalarsOK /\ \E W : CoreInv(W, frozen)

LEMMA MonitorKeeps ==
    ASSUME TrieShape, [MonitorNext]_monitored, ViewsSettled' PROVE TrieShape'
<1>1. PICK f : f = frozen
  OBVIOUS
<1>2. PICK W : CoreInv(W, f)
  BY <1>1 DEF TrieShape
<1>3. [Next]_vars /\ (RecordFrozen \/ UNCHANGED frozen)
  BY DEF MonitorNext, monitored
<1>4. TrieInv'
  BY <1>3, NextKeeps DEF TrieShape
<1>5. ScalarsOK' /\ \E WW : CoreInv(WW, f)'
  BY <1>2, <1>3, NextCore DEF TrieShape
<1>6. PICK WW : CoreInv(WW, f)'
  BY <1>5
<1>7. CASE RecordFrozen
  BY <1>1, <1>4, <1>5, <1>6, <1>7, RecordKeeps DEF TrieShape
<1>8. CASE UNCHANGED frozen
  BY <1>1, <1>4, <1>5, <1>6, <1>8 DEF TrieShape
<1> QED
  BY <1>3, <1>7, <1>8

\* TrieShape holds in every state, for any threads, workloads, keys and hashes.
THEOREM ShapeInvariance == MonitorSpec => []TrieShape
<1>1. MonitorInit => TrieShape
  BY InitOK, CoreInit DEF TrieShape, MonitorInit
<1>2. ViewsSettled
  BY SettledIn DEF ViewsSettled
<1>3. TrieShape /\ [MonitorNext]_monitored /\ ViewsSettled' => TrieShape'
  BY MonitorKeeps
<1> QED
  BY <1>1, <1>2, <1>3, PTL DEF MonitorSpec

\* TypeOK: _root and every Main hold objects of their declared types, and every
\* object reached from them was published.
THEOREM TrieTypes == MonitorSpec => []TypeOK
<1>1. TrieShape => TypeOK
  BY CoreTypeOK DEF TrieShape
<1> QED
  BY <1>1, ShapeInvariance, PTL

\* WellFormed: what ValidateStructureForTesting demands holds between any two
\* accesses of any threads, whatever the helpers and the snapshots do.
THEOREM TrieWellFormed == MonitorSpec => []WellFormed
<1>1. TrieShape => WellFormed
  BY CoreWellFormed DEF TrieShape
<1> QED
  BY <1>1, ShapeInvariance, PTL

\* FrozenViews: no writer changes what a ConcurrentHashTrie snapshot reaches.
THEOREM ViewsFrozen == MonitorSpec => []FrozenViews
<1>1. TrieShape => FrozenViews
  BY CoreFrozen DEF TrieShape
<1> QED
  BY <1>1, ShapeInvariance, PTL
================================================================================
