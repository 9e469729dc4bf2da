----------------------------- MODULE MCSharing -----------------------------
(***************************************************************************)
(* What several threads share, on small instances: a suspended middle of   *)
(* the C and of the C# finger tree, the block store in memory, and a store *)
(* that savers fill and a receiver completes.  A behaviour is a history of *)
(* one of them, chosen at the start.                                       *)
(***************************************************************************)
EXTENDS LazyMiddle, MemoryBlockStore

CONSTANTS Subjects, Unset, s1, r1

VARIABLES subject, store, task, pack, loaded, faults
syncVars == <<store, task, pack, loaded, faults>>
everything == <<subject, vars, managedVars, storeVars, syncVars>>

\* Two trees of three keys, the second of which lies between the others.
Nil == [count |-> 0]
LeafOf(k) == [level |-> 0, count |-> 1, entries |-> <<[key |-> k, value |-> "a"]>>, children |-> <<Nil, Nil>>]
Inner(left, right) ==
    [level |-> 1, count |-> left.count + 1 + right.count, entries |-> <<[key |-> 2, value |-> "a"]>>,
     children |-> <<left, right>>]
Whole == Inner(LeafOf(1), LeafOf(3))
Smaller == Inner(LeafOf(1), Nil)
Sync == INSTANCE MerkleSync
        WITH Keys <- 1..3, Values <- {"a"}, LevelOf <- <<0, 1, 0>>, ValueClass <- [a |-> "a"], Trees <- {Whole, Smaller},
             Foreign <- {}, Target <- Whole, OtherPuts <- {}, Savers <- {s1}, Importers <- {}, Receivers <- {r1},
             MaxFaults <- 2, MaxBlocks <- 4, MaxDepth <- 3, MaxEntryCount <- 4

SharingInit == subject \in Subjects /\ Init /\ ManagedInit /\ StoreInit /\ Sync!Init
SharingNext ==
    /\ UNCHANGED subject
    /\ \/ subject = "lazy" /\ Next /\ UNCHANGED <<managedVars, storeVars, syncVars>>
       \/ subject = "managed" /\ ManagedNext /\ UNCHANGED <<vars, storeVars, syncVars>>
       \/ subject = "store" /\ StoreNext /\ UNCHANGED <<vars, managedVars, syncVars>>
       \/ subject = "sync" /\ Sync!Next /\ UNCHANGED <<vars, managedVars, storeVars>>
SharingSpec ==
    /\ SharingInit /\ [][SharingNext]_everything
    /\ \A t \in Threads : WF_vars(subject = "lazy" /\ Step(t))
    /\ \A t \in Callers : WF_storeVars(subject = "store" /\ Working(t))
    /\ \A p \in {s1, r1} : WF_syncVars(subject = "sync" /\ Sync!ProcStep(p))

\* Nobody waits for ever: every thread that forces a middle gets through, every
\* call to the block store ends, and the rounds of a synchronisation end with
\* the target loaded.
SharingEnds ==
    /\ subject = "lazy" => EveryoneFinishes
    /\ subject = "store" => CallsEnd
    /\ subject = "sync" => Sync!SyncConverges
=============================================================================
