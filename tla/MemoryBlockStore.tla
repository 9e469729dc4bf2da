-------------------------- MODULE MemoryBlockStore --------------------------
(***************************************************************************)
(* The block store in memory of merkle_search_tree.c: an array sorted by   *)
(* digest behind a lock.  Memory is never allocated under the lock, so a   *)
(* put that finds the array full lets the lock go, allocates, and looks    *)
(* again at a store that other threads may have changed.  What a thread    *)
(* does between taking the lock and letting it go is one step.             *)
(***************************************************************************)
EXTENDS Integers, SequencesExt, FiniteSetsExt

CONSTANTS Callers, Bytes,
          Addresses,        \* numbers, the order of the digests
          InitialCapacity   \* 8 in the code
ASSUME StoreAssumption == IsFiniteSet(Callers) /\ Addresses \subseteq Int /\ InitialCapacity \in Nat \ {0}

VARIABLES blocks, capacity,
          arrays,  \* how many arrays are allocated
          call,
          spare,   \* the capacity of the array a call has allocated, 0 when it has none
          need     \* the capacity a call is about to allocate, 0 when it is not
storeVars == <<blocks, capacity, arrays, call, spare, need>>

content == ToSet(blocks)
Promise == INSTANCE BlockStore

\* Where a digest is or belongs.
LowerBound(d) == Cardinality({i \in DOMAIN blocks : blocks[i].digest < d}) + 1
Found(d) == LowerBound(d) <= Len(blocks) /\ blocks[LowerBound(d)].digest = d
Inserted(b) == InsertAt(blocks, LowerBound(b.digest), b)

\* The capacity that holds one block more than a full array: doubling it once
\* is enough.
Growth(current, required) ==
    LET start == IF current = 0 THEN InitialCapacity ELSE current
    IN  IF start >= required THEN start ELSE 2 * start

ArraysOf(n) == IF n > 0 THEN 1 ELSE 0
Answer(t, a) == call' = [call EXCEPT ![t] = Promise!Answered(a)]
\* The call ends and gives back its own array.
Finish(t, a) == Answer(t, a) /\ spare' = [spare EXCEPT ![t] = 0] /\ arrays' = arrays - ArraysOf(spare[t]) /\ UNCHANGED need
Quick(t, op, a) == call[t].op = op /\ Finish(t, a)

Count(t) == Quick(t, "count", Len(blocks)) /\ UNCHANGED <<blocks, capacity>>
StoreContains(t) == Quick(t, "contains", Found(call[t].digest)) /\ UNCHANGED <<blocks, capacity>>
TryGet(t) ==
    /\ Quick(t, "get", IF Found(call[t].digest) THEN {blocks[LowerBound(call[t].digest)]} ELSE {})
    /\ UNCHANGED <<blocks, capacity>>

PutPresent(t) ==
    /\ call[t].op = "put" /\ need[t] = 0 /\ Found(call[t].block.digest)
    /\ Finish(t, IF blocks[LowerBound(call[t].block.digest)] = call[t].block THEN "identical" ELSE "conflict")
    /\ UNCHANGED <<blocks, capacity>>

PutFits(t) ==
    /\ call[t].op = "put" /\ need[t] = 0 /\ ~Found(call[t].block.digest) /\ Len(blocks) < capacity
    /\ blocks' = Inserted(call[t].block) /\ Finish(t, "added") /\ UNCHANGED capacity

\* The address is not looked for again once the memory is there.
PutReplacesBlindly(t) ==
    /\ call[t].op = "put" /\ need[t] = 0 /\ UNCHANGED need
    /\ Len(blocks) = capacity /\ spare[t] > capacity
    /\ blocks' = Inserted(call[t].block) /\ capacity' = spare[t]
    /\ Answer(t, "added") /\ spare' = [spare EXCEPT ![t] = 0] /\ arrays' = arrays - ArraysOf(capacity)

\* The full array is not given back.
PutLosesArray(t) ==
    /\ call[t].op = "put" /\ need[t] = 0 /\ UNCHANGED need
    /\ ~Found(call[t].block.digest) /\ Len(blocks) = capacity /\ spare[t] > capacity
    /\ blocks' = Inserted(call[t].block) /\ capacity' = spare[t]
    /\ Answer(t, "added") /\ spare' = [spare EXCEPT ![t] = 0] /\ UNCHANGED arrays

\* The allocated array replaces the full one, which is given back.
PutReplaces(t) ==
    /\ call[t].op = "put" /\ need[t] = 0 /\ UNCHANGED need
    /\ ~Found(call[t].block.digest) /\ Len(blocks) >= capacity
    /\ Len(blocks) + 1 <= spare[t] /\ spare[t] > capacity
    /\ blocks' = Inserted(call[t].block) /\ capacity' = spare[t]
    /\ Answer(t, "added") /\ spare' = [spare EXCEPT ![t] = 0]
    /\ arrays' = arrays - ArraysOf(capacity)

\* An array that came too late is given back, and a larger one asked for.
PutTooSmall(t) ==
    /\ call[t].op = "put" /\ need[t] = 0 /\ UNCHANGED <<blocks, capacity, call>>
    /\ ~Found(call[t].block.digest) /\ Len(blocks) >= capacity
    /\ Len(blocks) + 1 > spare[t] \/ spare[t] <= capacity
    /\ need' = [need EXCEPT ![t] = Growth(capacity, Len(blocks) + 1)]
    /\ spare' = [spare EXCEPT ![t] = 0] /\ arrays' = arrays - ArraysOf(spare[t])

Allocate(t) ==
    /\ need[t] > 0 /\ need' = [need EXCEPT ![t] = 0] /\ UNCHANGED <<blocks, capacity>>
    /\ \/ spare' = [spare EXCEPT ![t] = need[t]] /\ arrays' = arrays + 1 /\ UNCHANGED call
       \/ call' = [call EXCEPT ![t] = Promise!NoMemory] /\ UNCHANGED <<spare, arrays>>

StoreRemove(t) ==
    /\ \E d \in {call[t].digest} :
          /\ Quick(t, "remove", Found(d))
          /\ blocks' = IF Found(d) THEN RemoveAt(blocks, LowerBound(d)) ELSE blocks
    /\ UNCHANGED capacity
Clear(t) ==
    /\ call[t].op = "clear" /\ blocks' = <<>> /\ capacity' = 0 /\ arrays' = arrays - ArraysOf(capacity)
    /\ Answer(t, {}) /\ UNCHANGED <<spare, need>>

\* The digests are copied to an array of the call, once it is large enough.
VisitCopies(t) ==
    /\ need[t] = 0 /\ Len(blocks) <= spare[t]
    /\ Quick(t, "visit", {blocks[i].digest : i \in DOMAIN blocks}) /\ UNCHANGED <<blocks, capacity>>
VisitTooSmall(t) ==
    /\ call[t].op = "visit" /\ need[t] = 0 /\ Len(blocks) > spare[t] /\ UNCHANGED <<blocks, capacity, call>>
    /\ need' = [need EXCEPT ![t] = Len(blocks)]
    /\ spare' = [spare EXCEPT ![t] = 0] /\ arrays' = arrays - ArraysOf(spare[t])

Working(t) ==
    \/ Count(t) \/ StoreContains(t) \/ TryGet(t) \/ (call[t].op = "remove" /\ StoreRemove(t)) \/ Clear(t)
    \/ PutPresent(t) \/ PutFits(t) \/ PutReplaces(t) \/ PutTooSmall(t)
    \/ VisitCopies(t) \/ VisitTooSmall(t) \/ Allocate(t)
Invoke(t) ==
    call[t] = Promise!Idle /\ \E r \in Promise!Requests : call' = [call EXCEPT ![t] = r]
    /\ UNCHANGED <<blocks, capacity, arrays, spare, need>>
Return(t) ==
    call[t].op \in {"done", "failed"} /\ call' = [call EXCEPT ![t] = Promise!Idle]
    /\ UNCHANGED <<blocks, capacity, arrays, spare, need>>

StoreInit ==
    /\ blocks = <<>> /\ capacity = 0 /\ arrays = 0
    /\ call = [t \in Callers |-> Promise!Idle]
    /\ spare = [t \in Callers |-> 0] /\ need = [t \in Callers |-> 0]
StoreNext == \E t \in Callers : Working(t) \/ Invoke(t) \/ Return(t)

\* A thread that wants the lock gets it, and goes on with its call.
StoreSpec == StoreInit /\ [][StoreNext]_storeVars /\ \A t \in Callers : WF_storeVars(Working(t))

-----------------------------------------------------------------------------
\* Though a put looks, allocates and looks again, every call answers as if it
\* ran alone at one moment.
StoreKeepsPromise == [][Promise!Next]_<<content, call>>

\* The array stays sorted without repeats and within its capacity, and every
\* array belongs to the store or to one call: none is lost when calls race to
\* grow or clear the store.
ArraysOwned ==
    /\ Len(blocks) <= capacity
    /\ \A i \in 2..Len(blocks) : blocks[i - 1].digest < blocks[i].digest
    /\ arrays = ArraysOf(capacity) + Cardinality({t \in Callers : spare[t] > 0})
    /\ \A t \in Callers : call[t].op \notin {"put", "visit"} => spare[t] = 0 /\ need[t] = 0

\* A call ends, however often other threads fill, grow and clear the store.
CallsEnd == \A t \in Callers : call[t] \in Promise!Requests ~> call[t].op \in {"done", "failed"}
=============================================================================
