----------------------------- MODULE LazyMiddle -----------------------------
(***************************************************************************)
(* Threads that share one suspended middle of the C finger tree, each      *)
(* through a tree of its own (fingertree.c): the result of forcing it and  *)
(* the measure of that result are computed by whoever needs them first,    *)
(* published by compare-and-exchange and owned by counted references.  Any *)
(* computation may run out of memory.                                      *)
(***************************************************************************)
EXTENDS Naturals, FiniteSets

CONSTANTS Threads, Reps, \* representations that can be allocated
          Nothing, Failed
ASSUME LazyAssumption ==
    /\ IsFiniteSet(Threads)
    /\ Nothing \notin Threads \cup Reps /\ Failed \notin Reps /\ Failed # Nothing

VARIABLES computed, \* the middle's slot for its result
          middle,   \* references to the middle; freed at 0
          refs,     \* references to each representation; freed at 0
          measure,  \* each representation's slot for its measure: Nothing or the thread that computed it
          pc, cand, \* where a thread is, and the representation it computed
          got,      \* the representation its force returned
          borrowed, \* the measure it was given, as <<representation, computer>>
          answer    \* what its call returned

vars == <<computed, middle, refs, measure, pc, cand, got, borrowed, answer>>

Init ==
    /\ computed = Nothing /\ middle = Cardinality(Threads)
    /\ refs = [r \in Reps |-> 0] /\ measure = [r \in Reps |-> Nothing]
    /\ pc = [t \in Threads |-> "load"] /\ cand = [t \in Threads |-> Nothing]
    /\ got = [t \in Threads |-> Nothing] /\ borrowed = [t \in Threads |-> Nothing]
    /\ answer = [t \in Threads |-> Nothing]

Goto(t, l) == pc' = [pc EXCEPT ![t] = l]

\* A caller is given the result with a reference of its own.
Take(t, r) ==
    /\ refs' = [refs EXCEPT ![r] = @ + 1]
    /\ got' = [got EXCEPT ![t] = r] /\ answer' = [answer EXCEPT ![t] = r]
    /\ Goto(t, "measure")

Load(t) ==
    /\ pc[t] = "load"
    /\ IF computed # Nothing THEN Take(t, computed)
       ELSE Goto(t, "compute") /\ UNCHANGED <<refs, got, answer>>
    /\ UNCHANGED <<computed, middle, measure, cand, borrowed>>

Fresh == {r \in Reps : refs[r] = 0 /\ computed # r}

Compute(t) ==
    /\ pc[t] = "compute"
    /\ \/ \E r \in Fresh :
             /\ refs' = [refs EXCEPT ![r] = 1] /\ measure' = [measure EXCEPT ![r] = Nothing]
             /\ cand' = [cand EXCEPT ![t] = r] /\ Goto(t, "publish")
       \/ Goto(t, "reload") /\ UNCHANGED <<refs, measure, cand>>    \* out of memory
    /\ UNCHANGED <<computed, middle, got, borrowed, answer>>

\* After a failure another thread's result is as good.
Reload(t) ==
    /\ pc[t] = "reload"
    /\ IF computed # Nothing THEN Take(t, computed)
       ELSE Goto(t, "failed") /\ answer' = [answer EXCEPT ![t] = Failed] /\ UNCHANGED <<refs, got>>
    /\ UNCHANGED <<computed, middle, measure, cand, borrowed>>

\* The slot and the winner share one reference.
PublishUncounted(t) ==
    /\ pc[t] = "publish"
    /\ computed' = IF computed = Nothing THEN cand[t] ELSE computed
    /\ refs' = IF computed = Nothing THEN refs ELSE [refs EXCEPT ![cand[t]] = @ - 1, ![computed] = @ + 1]
    /\ got' = [got EXCEPT ![t] = computed'] /\ answer' = [answer EXCEPT ![t] = computed']
    /\ cand' = [cand EXCEPT ![t] = Nothing] /\ Goto(t, "measure")
    /\ UNCHANGED <<middle, measure, borrowed>>

\* The loser goes on with the result it computed itself.
PublishKeepsOwn(t) ==
    /\ pc[t] = "publish"
    /\ computed' = IF computed = Nothing THEN cand[t] ELSE computed
    /\ refs' = IF computed = Nothing THEN [refs EXCEPT ![cand[t]] = @ + 1] ELSE refs
    /\ got' = [got EXCEPT ![t] = cand[t]] /\ answer' = [answer EXCEPT ![t] = cand[t]]
    /\ cand' = [cand EXCEPT ![t] = Nothing] /\ Goto(t, "measure")
    /\ UNCHANGED <<middle, measure, borrowed>>

\* The slot keeps the candidate's first reference; a loser frees its candidate.
Publish(t) ==
    /\ pc[t] = "publish"
    /\ IF computed = Nothing
       THEN computed' = cand[t] /\ Take(t, cand[t])
       ELSE /\ refs' = [refs EXCEPT ![cand[t]] = @ - 1, ![computed] = @ + 1]
            /\ got' = [got EXCEPT ![t] = computed] /\ answer' = [answer EXCEPT ![t] = computed]
            /\ Goto(t, "measure") /\ UNCHANGED computed
    /\ cand' = [cand EXCEPT ![t] = Nothing]
    /\ UNCHANGED <<middle, measure, borrowed>>

\* rep_get_measure: load; compute, or fail; publish or take what was published.
LoadMeasure(t) ==
    /\ pc[t] = "measure"
    /\ IF measure[got[t]] # Nothing
       THEN borrowed' = [borrowed EXCEPT ![t] = <<got[t], measure[got[t]]>>] /\ Goto(t, "drop")
       ELSE UNCHANGED borrowed /\ (Goto(t, "publish measure") \/ Goto(t, "drop"))
    /\ UNCHANGED <<computed, middle, refs, measure, cand, got, answer>>

PublishMeasure(t) ==
    /\ pc[t] = "publish measure"
    /\ measure' = [measure EXCEPT ![got[t]] = IF @ = Nothing THEN t ELSE @]
    /\ borrowed' = [borrowed EXCEPT ![t] = <<got[t], measure'[got[t]]>>]
    /\ Goto(t, "drop")
    /\ UNCHANGED <<computed, middle, refs, cand, got, answer>>

\* middle_get_measure gives its reference back and returns the borrowed measure.
DropResult(t) ==
    /\ pc[t] = "drop"
    /\ refs' = [refs EXCEPT ![got[t]] = @ - 1] /\ got' = [got EXCEPT ![t] = Nothing]
    /\ Goto(t, "use")
    /\ UNCHANGED <<computed, middle, measure, cand, borrowed, answer>>

\* The result is released with the first tree that is disposed.
ReleaseMiddleEarly(t) ==
    /\ pc[t] \in {"use", "failed"}
    /\ middle' = middle - 1
    /\ refs' = IF computed # Nothing THEN [refs EXCEPT ![computed] = @ - 1] ELSE refs
    /\ computed' = Nothing
    /\ borrowed' = [borrowed EXCEPT ![t] = Nothing] /\ Goto(t, "done")
    /\ UNCHANGED <<measure, cand, got, answer>>

\* The thread disposes the tree that kept the middle alive for it.
ReleaseMiddle(t) ==
    /\ pc[t] \in {"use", "failed"}
    /\ middle' = middle - 1
    /\ refs' = IF middle = 1 /\ computed # Nothing THEN [refs EXCEPT ![computed] = @ - 1] ELSE refs
    /\ computed' = IF middle = 1 THEN Nothing ELSE computed
    /\ borrowed' = [borrowed EXCEPT ![t] = Nothing] /\ Goto(t, "done")
    /\ UNCHANGED <<measure, cand, got, answer>>

Step(t) == Load(t) \/ Compute(t) \/ Reload(t) \/ Publish(t) \/ LoadMeasure(t) \/ PublishMeasure(t)
           \/ DropResult(t) \/ ReleaseMiddle(t)
Next == \E t \in Threads : Step(t)
Spec == Init /\ [][Next]_vars /\ \A t \in Threads : WF_vars(Step(t))

-----------------------------------------------------------------------------
\* The threads that hold r.
Holders(f, r) == {t \in Threads : f[t] = r}

\* Each count is the number of owners: the slot of a living middle, candidates
\* not yet published, and callers.  Nothing in use is freed, nothing leaks.
CountsExact ==
    /\ middle = Cardinality({t \in Threads : pc[t] # "done"})
    /\ \A r \in Reps : refs[r] = (IF computed = r THEN 1 ELSE 0)
                                 + Cardinality(Holders(cand, r)) + Cardinality(Holders(got, r))

\* A measure stays allocated while the caller that borrowed it uses it, though
\* the reference it was read through has been given back.
BorrowedAlive == \A t \in Threads : borrowed[t] # Nothing =>
                    refs[borrowed[t][1]] > 0 /\ measure[borrowed[t][1]] = borrowed[t][2]

\* Every force that succeeds returns the one result that was published, and no
\* later force publishes another while the middle lives.
ForcesOnce ==
    [][/\ computed # Nothing /\ middle' > 0 => computed' = computed
       /\ \A t \in Threads : answer'[t] # answer[t] => answer'[t] = Failed \/ answer'[t] = computed'
       /\ \A t, u \in Threads : {answer'[t], answer'[u]} \subseteq Reps => answer'[t] = answer'[u]]_vars

\* Every thread gets through, whoever wins and whatever fails.
EveryoneFinishes == \A t \in Threads : <>(pc[t] = "done")

-----------------------------------------------------------------------------
(***************************************************************************)
(* LazyMiddle.Force of the C# finger tree: one cell holds the pending      *)
(* operation and later the tree it computed.  A thread that read the       *)
(* operation runs it and publishes by compare-and-exchange.                *)
(***************************************************************************)

CONSTANTS Results, Pending
ASSUME CellAssumption == Pending \notin Results

VARIABLES state,   \* the cell: Pending or the tree that was published
          at,      \* "idle", "run", "exchange" or "done"
          result,  \* the tree a thread computed
          returned   \* the tree its call returned

managedVars == <<state, at, result, returned>>

ManagedInit == /\ state = Pending /\ at = [t \in Threads |-> "idle"]
        /\ result = [t \in Threads |-> Nothing] /\ returned = [t \in Threads |-> Nothing]

Read(t) ==
    /\ at[t] = "idle"
    /\ IF state = Pending
       THEN at' = [at EXCEPT ![t] = "run"] /\ UNCHANGED returned
       ELSE at' = [at EXCEPT ![t] = "done"] /\ returned' = [returned EXCEPT ![t] = state]
    /\ UNCHANGED <<state, result>>

\* Each run of the operation builds a tree of its own.
Run(t) ==
    /\ at[t] = "run"
    /\ \E r \in Results \ ({state} \cup {result[u] : u \in Threads}) : result' = [result EXCEPT ![t] = r]
    /\ at' = [at EXCEPT ![t] = "exchange"]
    /\ UNCHANGED <<state, returned>>

\* The loser returns the tree it built itself.
ExchangeKeepsOwn(t) ==
    /\ at[t] = "exchange"
    /\ state' = IF state = Pending THEN result[t] ELSE state
    /\ returned' = [returned EXCEPT ![t] = result[t]]
    /\ at' = [at EXCEPT ![t] = "done"]
    /\ UNCHANGED result

Exchange(t) ==
    /\ at[t] = "exchange"
    /\ state' = IF state = Pending THEN result[t] ELSE state
    /\ returned' = [returned EXCEPT ![t] = state']
    /\ at' = [at EXCEPT ![t] = "done"]
    /\ UNCHANGED result

\* The caller forces the middle again, as every later operation does.
Again(t) ==
    /\ at[t] = "done"
    /\ at' = [at EXCEPT ![t] = "idle"] /\ returned' = [returned EXCEPT ![t] = Nothing]
    /\ result' = [result EXCEPT ![t] = Nothing]
    /\ UNCHANGED state

ManagedNext == \E t \in Threads : Read(t) \/ Run(t) \/ Exchange(t) \/ Again(t)
ManagedSpec == ManagedInit /\ [][ManagedNext]_managedVars

-----------------------------------------------------------------------------
\* Threads that force one suspension at the same time may compute it more than
\* once, but each of them returns the one tree the cell keeps from then on.
AnswersConverge == \A t \in Threads : returned[t] # Nothing => returned[t] = state

\* A tree that was published stays in the cell.
PublishedOnce == state # Pending => state' = state
=============================================================================
