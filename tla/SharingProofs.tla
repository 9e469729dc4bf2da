---------------------------- MODULE SharingProofs ----------------------------
(***************************************************************************)
(* Proofs about what several threads share: the suspended middle of the C  *)
(* finger tree, the cell of the C# one, and the block store in memory, for *)
(* every finite set of threads.                                            *)
(***************************************************************************)
EXTENDS LazyMiddle, MemoryBlockStore, FiniteSetTheorems, SequenceTheorems, WellFoundedInduction, TLAPS

\* Only t holds in g what it does not hold in f.
Only(t, f, g) == \A u \in Threads \ {t} : g[u] = f[u]

\* When one thread exchanges what it holds, the number of holders of r moves by
\* what that thread gave up and what it took.
LEMMA HoldersChange ==
    ASSUME NEW f, NEW g, NEW t \in Threads, NEW r, Only(t, f, g)
    PROVE  Cardinality(Holders(g, r)) + (IF f[t] = r THEN 1 ELSE 0)
           = Cardinality(Holders(f, r)) + (IF g[t] = r THEN 1 ELSE 0)
<1>1. /\ IsFiniteSet(Holders(f, r)) /\ Cardinality(Holders(f, r)) \in Nat
      /\ IsFiniteSet(Holders(g, r)) /\ Cardinality(Holders(g, r)) \in Nat
  BY LazyAssumption, FS_Subset, FS_CardinalityType DEF Holders
<1>2. f[t] # r /\ g[t] = r => Holders(g, r) = Holders(f, r) \cup {t} /\ t \notin Holders(f, r)
  BY DEF Holders, Only
<1>3. f[t] = r /\ g[t] # r => Holders(f, r) = Holders(g, r) \cup {t} /\ t \notin Holders(g, r)
  BY DEF Holders, Only
<1>4. (f[t] = r <=> g[t] = r) => Holders(g, r) = Holders(f, r)
  BY DEF Holders, Only
<1> QED
  BY <1>1, <1>2, <1>3, <1>4, FS_AddElement

\* Finitely many threads hold r, and none exactly when the number is zero.
LEMMA HoldersCount ==
    ASSUME NEW f, NEW r
    PROVE  /\ Cardinality(Holders(f, r)) \in Nat
           /\ Cardinality(Holders(f, r)) = 0 <=> \A t \in Threads : f[t] # r
<1>1. IsFiniteSet(Holders(f, r))
  BY LazyAssumption, FS_Subset DEF Holders
<1>2. Holders(f, r) = {} <=> \A t \in Threads : f[t] # r
  BY DEF Holders
<1> QED
  BY <1>1, <1>2, FS_CardinalityType, FS_EmptySet

\* The references the threads hold to r, as candidates and as results.
Held(c, g, r) == Cardinality(Holders(c, r)) + Cardinality(Holders(g, r))
One(x, r) == IF x = r THEN 1 ELSE 0

\* The references a step of t moves: what it takes less what it gives up.
LEMMA HeldMoves ==
    ASSUME NEW c, NEW cc, NEW g, NEW gg, NEW t \in Threads, NEW r,
           Only(t, c, cc), Only(t, g, gg)
    PROVE  /\ Held(c, g, r) \in Nat /\ Held(cc, gg, r) \in Nat
           /\ Held(cc, gg, r) = Held(c, g, r) + One(cc[t], r) - One(c[t], r) + One(gg[t], r) - One(g[t], r)
<1>1. /\ Cardinality(Holders(c, r)) \in Nat /\ Cardinality(Holders(cc, r)) \in Nat
      /\ Cardinality(Holders(g, r)) \in Nat /\ Cardinality(Holders(gg, r)) \in Nat
  BY HoldersCount
<1>2. /\ Cardinality(Holders(cc, r)) + One(c[t], r) = Cardinality(Holders(c, r)) + One(cc[t], r)
      /\ Cardinality(Holders(gg, r)) + One(g[t], r) = Cardinality(Holders(g, r)) + One(gg[t], r)
  BY HoldersChange DEF One
<1> QED
  BY <1>1, <1>2 DEF Held, One

-----------------------------------------------------------------------------
\* Where a thread can be.
Places == {"load", "compute", "reload", "publish", "measure", "publish measure", "drop", "use", "failed", "done"}

LazyTypeOK ==
    /\ computed \in Reps \cup {Nothing} /\ middle \in Nat
    /\ refs \in [Reps -> Nat] /\ measure \in [Reps -> Threads \cup {Nothing}]
    /\ pc \in [Threads -> Places]
    /\ cand \in [Threads -> Reps \cup {Nothing}] /\ got \in [Threads -> Reps \cup {Nothing}]
    /\ borrowed \in [Threads -> (Reps \X Threads) \cup {Nothing}]
    /\ answer \in [Threads -> Reps \cup {Nothing, Failed}]

\* What a thread holds goes with its place: a candidate until it is published,
\* a counted reference to the one result until it is dropped, a measure of that
\* result until its own tree is gone.
HoldsOf(t) ==
    /\ cand[t] # Nothing <=> pc[t] = "publish"
    /\ got[t] # Nothing <=> pc[t] \in {"measure", "publish measure", "drop"}
    /\ got[t] # Nothing => got[t] = computed
    /\ borrowed[t] # Nothing =>
          /\ pc[t] \in {"drop", "use"} /\ computed # Nothing /\ measure[computed] # Nothing
          /\ borrowed[t] = <<computed, measure[computed]>>
    /\ answer[t] \in Reps /\ middle > 0 => answer[t] = computed

\* Every answer is the same representation, also when the middle is gone.
AnswersAgree == \A t, u \in Threads : {answer[t], answer[u]} \subseteq Reps => answer[t] = answer[u]

LazyInv == LazyTypeOK /\ CountsExact /\ AnswersAgree /\ \A t \in Threads : HoldsOf(t)

\* The middle lives as long as some thread is not done.
Unfinished == {t \in Threads : pc[t] # "done"}
\* The trees that are left are counted, and each thread that is not done has one.
LEMMA UnfinishedCount ==
    ASSUME middle = Cardinality(Unfinished), NEW t \in Threads, pc[t] # "done"
    PROVE  /\ middle \in Nat /\ middle > 0
           /\ Cardinality(Unfinished \ {t}) = middle - 1
           /\ middle = 1 => Unfinished = {t}
<1>1. IsFiniteSet(Unfinished) /\ t \in Unfinished
  BY LazyAssumption, FS_Subset DEF Unfinished
<1>2. Cardinality(Unfinished \ {t}) = middle - 1 /\ IsFiniteSet(Unfinished \ {t})
  BY <1>1, FS_RemoveElement
<1>3. Cardinality(Unfinished \ {t}) \in Nat /\ middle \in Nat
  BY <1>1, <1>2, FS_CardinalityType
<1>4. middle > 0
  BY <1>2, <1>3
<1>5. middle = 1 => Unfinished \ {t} = {}
  BY <1>2, FS_EmptySet
<1> QED
  BY <1>1, <1>2, <1>3, <1>4, <1>5

\* The suspension as it is built satisfies the invariant.
LEMMA LazyInitInv == Init => LazyInv
<1> SUFFICES ASSUME Init PROVE LazyInv
  OBVIOUS
<1> USE LazyAssumption DEF Init
<1>1. LazyTypeOK
  BY FS_CardinalityType DEF LazyTypeOK, Places
<1>2. CountsExact
  <2>1. {t \in Threads : pc[t] # "done"} = Threads
    OBVIOUS
  <2>2. ASSUME NEW r \in Reps
        PROVE  Cardinality(Holders(cand, r)) = 0 /\ Cardinality(Holders(got, r)) = 0
    BY <2>2, HoldersCount
  <2> QED
    BY <2>1, <2>2 DEF CountsExact, Holders
<1>3. AnswersAgree /\ \A t \in Threads : HoldsOf(t)
  BY DEF AnswersAgree, HoldsOf
<1> QED
  BY <1>1, <1>2, <1>3 DEF LazyInv

-----------------------------------------------------------------------------
\* A reference held is counted.
LEMMA HeldIsCounted ==
    ASSUME NEW c, NEW g, NEW t \in Threads, NEW r, c[t] = r \/ g[t] = r
    PROVE  Held(c, g, r) > 0
<1>1. Cardinality(Holders(c, r)) \in Nat /\ Cardinality(Holders(g, r)) \in Nat
  BY HoldersCount
<1>2. Cardinality(Holders(c, r)) # 0 \/ Cardinality(Holders(g, r)) # 0
  BY HoldersCount
<1> QED
  BY <1>1, <1>2 DEF Held

\* The counts, read off the references that the threads hold.
LEMMA CountsNow ==
    ASSUME CountsExact
    PROVE  \A r \in Reps : Held(cand, got, r) \in Nat /\ refs[r] = One(computed, r) + Held(cand, got, r)
<1>1. \A r \in Reps : Cardinality(Holders(cand, r)) \in Nat /\ Cardinality(Holders(got, r)) \in Nat
  BY HoldersCount
<1> QED
  BY <1>1 DEF CountsExact, Held, One

\* A step of one thread keeps the counts exact when each count moves by what
\* the slot and the thread take and give up.
LEMMA CountsStep ==
    ASSUME CountsExact, NEW t \in Threads, Only(t, cand, cand'), Only(t, got, got'),
           middle' = Cardinality({u \in Threads : pc'[u] # "done"}),
           \A r \in Reps : refs'[r] = refs[r] + One(computed', r) - One(computed, r)
                                     + One(cand'[t], r) - One(cand[t], r) + One(got'[t], r) - One(got[t], r)
    PROVE  CountsExact'
<1>1. ASSUME NEW r \in Reps
      PROVE  refs'[r] = (IF computed' = r THEN 1 ELSE 0)
                        + Cardinality(Holders(cand', r)) + Cardinality(Holders(got', r))
  <2>1. Cardinality(Holders(cand', r)) \in Nat /\ Cardinality(Holders(got', r)) \in Nat
    BY HoldersCount
  <2>2. Held(cand, got, r) \in Nat /\ refs[r] = One(computed, r) + Held(cand, got, r)
    BY CountsNow
  <2>3. Held(cand', got', r) = Held(cand, got, r) + One(cand'[t], r) - One(cand[t], r)
                               + One(got'[t], r) - One(got[t], r)
    BY HeldMoves
  <2> QED
    BY <2>1, <2>2, <2>3 DEF Held, One
<1> QED
  BY <1>1 DEF CountsExact

\* While a thread stays unfinished the middle keeps its count.
LEMMA MiddleStays ==
    ASSUME CountsExact, middle' = middle, \A u \in Threads : pc'[u] = "done" <=> pc[u] = "done"
    PROVE  middle' = Cardinality({u \in Threads : pc'[u] # "done"})
<1>1. {u \in Threads : pc'[u] # "done"} = {u \in Threads : pc[u] # "done"}
  OBVIOUS
<1> QED
  BY <1>1 DEF CountsExact

\* A thread finds the result published, and takes a reference to it.
LEMMA TakePreserves ==
    ASSUME NEW t \in Threads
    PROVE  /\ LazyInv /\ pc[t] \in {"load", "reload"} /\ computed # Nothing
           /\ Take(t, computed) /\ UNCHANGED <<computed, middle, measure, cand, borrowed>>
           => LazyInv'
<1>0. SUFFICES ASSUME LazyInv, pc[t] \in {"load", "reload"}, computed # Nothing,
                      Take(t, computed), UNCHANGED <<computed, middle, measure, cand, borrowed>>
               PROVE  LazyInv'
  OBVIOUS
<1>1. LazyTypeOK /\ computed \in Reps /\ LazyTypeOK'
  <2>1. LazyTypeOK /\ computed \in Reps
    BY <1>0 DEF LazyInv, LazyTypeOK
  <2>2. refs' \in [Reps -> Nat] /\ got' \in [Threads -> Reps \cup {Nothing}]
    BY <1>0, <2>1 DEF LazyTypeOK, Take
  <2>3. answer' \in [Threads -> Reps \cup {Nothing, Failed}] /\ pc' \in [Threads -> Places]
    BY <1>0, <2>1 DEF LazyTypeOK, Take, Goto, Places
  <2> QED
    BY <1>0, <2>1, <2>2, <2>3 DEF LazyTypeOK
<1>2. middle \in Nat /\ middle > 0
  BY <1>0, UnfinishedCount DEF LazyInv, CountsExact, Unfinished
<1>3. CountsExact'
  <2>1. \A u \in Threads : pc'[u] = "done" <=> pc[u] = "done"
    BY <1>0, <1>1 DEF LazyTypeOK, Take, Goto
  <2>2. Only(t, cand, cand') /\ Only(t, got, got')
    BY <1>0, <1>1 DEF LazyTypeOK, Take, Only
  <2>3. got[t] = Nothing /\ got'[t] = computed /\ cand'[t] = cand[t] /\ computed' = computed
    BY <1>0, <1>1 DEF LazyInv, LazyTypeOK, HoldsOf, Take
  <2>4. \A r \in Reps : refs'[r] = refs[r] + One(computed, r) /\ refs[r] \in Nat
    BY <1>0, <1>1 DEF LazyTypeOK, Take, One
  <2>5. \A r \in Reps : refs'[r] = refs[r] + One(computed', r) - One(computed, r)
                                   + One(cand'[t], r) - One(cand[t], r) + One(got'[t], r) - One(got[t], r)
    BY <2>3, <2>4, LazyAssumption DEF One
  <2> QED
    BY <1>0, <2>1, <2>2, <2>5, CountsStep, MiddleStays DEF LazyInv
<1>4. ASSUME NEW u \in Threads PROVE HoldsOf(u)'
  <2>1. HoldsOf(u)
    BY <1>0 DEF LazyInv
  <2>2. /\ pc' = [pc EXCEPT ![t] = "measure"] /\ got' = [got EXCEPT ![t] = computed]
        /\ answer' = [answer EXCEPT ![t] = computed]
        /\ computed' = computed /\ middle' = middle /\ measure' = measure /\ cand' = cand /\ borrowed' = borrowed
    BY <1>0 DEF Take, Goto
  <2>3. CASE u = t
    BY <1>0, <1>1, <2>1, <2>2, <2>3, LazyAssumption DEF LazyTypeOK, HoldsOf
  <2>4. CASE u # t
    <3>1. pc'[u] = pc[u] /\ got'[u] = got[u] /\ answer'[u] = answer[u]
      BY <1>1, <2>2, <2>4 DEF LazyTypeOK
    <3> QED
      BY <2>1, <2>2, <3>1 DEF HoldsOf
  <2> QED
    BY <2>3, <2>4
<1>5. AnswersAgree'
  <2>1. \A u \in Threads : answer'[u] \in Reps => answer'[u] = computed
    BY <1>0, <1>1, <1>2 DEF LazyInv, LazyTypeOK, HoldsOf, Take
  <2> QED
    BY <2>1 DEF AnswersAgree
<1> QED
  BY <1>1, <1>3, <1>4, <1>5 DEF LazyInv

\* The first look at the slot.
LEMMA LoadPreserves ==
    ASSUME NEW t \in Threads PROVE LazyInv /\ Load(t) => LazyInv'
<1>0. SUFFICES ASSUME LazyInv, Load(t), computed = Nothing PROVE LazyInv'
  BY TakePreserves DEF Load
<1>1. LazyTypeOK /\ LazyTypeOK'
  BY <1>0 DEF LazyInv, LazyTypeOK, Load, Goto, Places
<1>2. CountsExact'
  <2>0. middle' = middle
    BY <1>0 DEF Load
  <2>1. \A u \in Threads : pc'[u] = "done" <=> pc[u] = "done"
    BY <1>0, <1>1 DEF LazyTypeOK, Load, Goto
  <2>2. Only(t, cand, cand') /\ Only(t, got, got')
    BY <1>0 DEF Load, Only
  <2>3. \A r \in Reps : refs'[r] = refs[r] + One(computed', r) - One(computed, r)
                                   + One(cand'[t], r) - One(cand[t], r) + One(got'[t], r) - One(got[t], r)
    <3>1. UNCHANGED <<computed, refs, cand, got>>
      BY <1>0 DEF Load
    <3> QED
      BY <1>1, <3>1 DEF LazyTypeOK, One
  <2> QED
    BY <1>0, <2>0, <2>1, <2>2, <2>3, CountsStep, MiddleStays DEF LazyInv
<1>3. ASSUME NEW u \in Threads PROVE HoldsOf(u)'
  BY <1>0, <1>1 DEF LazyInv, LazyTypeOK, HoldsOf, Load, Goto
<1>4. AnswersAgree'
  BY <1>0 DEF LazyInv, AnswersAgree, Load
<1> QED
  BY <1>1, <1>2, <1>3, <1>4 DEF LazyInv

\* A thread allocates a representation nobody refers to.
LEMMA ComputePreserves ==
    ASSUME NEW t \in Threads PROVE LazyInv /\ Compute(t) => LazyInv'
<1>0. SUFFICES ASSUME LazyInv, Compute(t) PROVE LazyInv'
  OBVIOUS
<1>1. LazyTypeOK /\ pc[t] = "compute" /\ cand[t] = Nothing
  BY <1>0 DEF LazyInv, HoldsOf, Compute
<1>2. CASE \E r \in Fresh :
             /\ refs' = [refs EXCEPT ![r] = 1] /\ measure' = [measure EXCEPT ![r] = Nothing]
             /\ cand' = [cand EXCEPT ![t] = r] /\ Goto(t, "publish")
  <2>0. PICK q \in Reps : /\ refs[q] = 0 /\ computed # q
                          /\ refs' = [refs EXCEPT ![q] = 1] /\ measure' = [measure EXCEPT ![q] = Nothing]
                          /\ cand' = [cand EXCEPT ![t] = q] /\ pc' = [pc EXCEPT ![t] = "publish"]
                          /\ UNCHANGED <<computed, middle, got, borrowed, answer>>
    BY <1>0, <1>2 DEF Fresh, Goto, Compute
  <2>1. LazyTypeOK'
    BY <1>1, <2>0 DEF LazyTypeOK, Places
  <2>2. CountsExact'
    <3>1. \A u \in Threads : pc'[u] = "done" <=> pc[u] = "done"
      BY <1>1, <2>0 DEF LazyTypeOK
    <3>2. Only(t, cand, cand') /\ Only(t, got, got')
      BY <1>1, <2>0 DEF LazyTypeOK, Only
    <3>3. \A r \in Reps : refs'[r] = refs[r] + One(computed', r) - One(computed, r)
                                     + One(cand'[t], r) - One(cand[t], r) + One(got'[t], r) - One(got[t], r)
      BY <1>1, <2>0, LazyAssumption DEF LazyTypeOK, One
    <3> QED
      BY <1>0, <2>0, <3>1, <3>2, <3>3, CountsStep, MiddleStays DEF LazyInv
  <2>3. ASSUME NEW u \in Threads PROVE HoldsOf(u)'
    BY <1>0, <1>1, <2>0, LazyAssumption DEF LazyInv, LazyTypeOK, HoldsOf
  <2>4. AnswersAgree'
    BY <1>0, <2>0 DEF LazyInv, AnswersAgree
  <2> QED
    BY <2>1, <2>2, <2>3, <2>4 DEF LazyInv
<1>3. CASE Goto(t, "reload") /\ UNCHANGED <<refs, measure, cand>>
  <2>0. pc' = [pc EXCEPT ![t] = "reload"]
        /\ UNCHANGED <<computed, middle, refs, measure, cand, got, borrowed, answer>>
    BY <1>0, <1>3 DEF Goto, Compute
  <2>1. LazyTypeOK'
    BY <1>1, <2>0 DEF LazyTypeOK, Places
  <2>2. CountsExact'
    <3>1. \A u \in Threads : pc'[u] = "done" <=> pc[u] = "done"
      BY <1>1, <2>0 DEF LazyTypeOK
    <3>2. Only(t, cand, cand') /\ Only(t, got, got')
      BY <2>0 DEF Only
    <3>3. \A r \in Reps : refs'[r] = refs[r] + One(computed', r) - One(computed, r)
                                     + One(cand'[t], r) - One(cand[t], r) + One(got'[t], r) - One(got[t], r)
      BY <1>1, <2>0 DEF LazyTypeOK, One
    <3> QED
      BY <1>0, <2>0, <3>1, <3>2, <3>3, CountsStep, MiddleStays DEF LazyInv
  <2>3. ASSUME NEW u \in Threads PROVE HoldsOf(u)'
    BY <1>0, <1>1, <2>0 DEF LazyInv, LazyTypeOK, HoldsOf
  <2>4. AnswersAgree'
    BY <1>0, <2>0 DEF LazyInv, AnswersAgree
  <2> QED
    BY <2>1, <2>2, <2>3, <2>4 DEF LazyInv
<1> QED
  BY <1>0, <1>2, <1>3 DEF Compute

\* The look at the slot after a computation that ran out of memory.
LEMMA ReloadPreserves ==
    ASSUME NEW t \in Threads PROVE LazyInv /\ Reload(t) => LazyInv'
<1>0. SUFFICES ASSUME LazyInv, Reload(t), computed = Nothing PROVE LazyInv'
  BY TakePreserves DEF Reload
<1>1. LazyTypeOK /\ LazyTypeOK'
  BY <1>0 DEF LazyInv, LazyTypeOK, Reload, Goto, Places
<1>2. CountsExact'
  <2>0. middle' = middle
    BY <1>0 DEF Reload
  <2>1. \A u \in Threads : pc'[u] = "done" <=> pc[u] = "done"
    BY <1>0, <1>1 DEF LazyTypeOK, Reload, Goto
  <2>2. Only(t, cand, cand') /\ Only(t, got, got')
    BY <1>0 DEF Reload, Only
  <2>3. \A r \in Reps : refs'[r] = refs[r] + One(computed', r) - One(computed, r)
                                   + One(cand'[t], r) - One(cand[t], r) + One(got'[t], r) - One(got[t], r)
    <3>1. UNCHANGED <<computed, refs, cand, got>>
      BY <1>0 DEF Reload
    <3> QED
      BY <1>1, <3>1 DEF LazyTypeOK, One
  <2> QED
    BY <1>0, <2>0, <2>1, <2>2, <2>3, CountsStep, MiddleStays DEF LazyInv
<1>3. ASSUME NEW u \in Threads PROVE HoldsOf(u)'
  <2>1. HoldsOf(u) /\ pc[t] = "reload"
    BY <1>0 DEF LazyInv, Reload
  <2>2. /\ pc' = [pc EXCEPT ![t] = "failed"] /\ answer' = [answer EXCEPT ![t] = Failed]
        /\ computed' = computed /\ middle' = middle /\ measure' = measure /\ cand' = cand /\ borrowed' = borrowed
        /\ got' = got
    BY <1>0 DEF Reload, Goto
  <2>3. CASE u = t
    BY <1>1, <2>1, <2>2, <2>3, LazyAssumption DEF LazyTypeOK, HoldsOf
  <2>4. CASE u # t
    <3>1. pc'[u] = pc[u] /\ answer'[u] = answer[u]
      BY <1>1, <2>2, <2>4 DEF LazyTypeOK
    <3> QED
      BY <2>1, <2>2, <3>1 DEF HoldsOf
  <2> QED
    BY <2>3, <2>4
<1>4. AnswersAgree'
  BY <1>0, <1>1, LazyAssumption DEF LazyInv, LazyTypeOK, AnswersAgree, Reload
<1> QED
  BY <1>1, <1>2, <1>3, <1>4 DEF LazyInv

\* The first to publish: the slot and the publisher hold a reference each.
LEMMA PublishFirstPreserves ==
    ASSUME NEW t \in Threads PROVE LazyInv /\ Publish(t) /\ computed = Nothing => LazyInv'
<1>0. SUFFICES ASSUME LazyInv, Publish(t), computed = Nothing PROVE LazyInv'
  OBVIOUS
<1>1. /\ LazyTypeOK /\ pc[t] = "publish" /\ cand[t] \in Reps /\ got[t] = Nothing
      /\ middle \in Nat /\ middle > 0
  <2>1. LazyTypeOK /\ pc[t] = "publish" /\ cand[t] \in Reps /\ got[t] = Nothing
    BY <1>0 DEF LazyInv, LazyTypeOK, HoldsOf, Publish
  <2> QED
    BY <1>0, <2>1, UnfinishedCount DEF LazyInv, CountsExact, Unfinished
<1>2. /\ computed' = cand[t] /\ refs' = [refs EXCEPT ![cand[t]] = @ + 1]
      /\ got' = [got EXCEPT ![t] = cand[t]] /\ answer' = [answer EXCEPT ![t] = cand[t]]
      /\ pc' = [pc EXCEPT ![t] = "measure"] /\ cand' = [cand EXCEPT ![t] = Nothing]
      /\ UNCHANGED <<middle, measure, borrowed>>
  BY <1>0 DEF Publish, Take, Goto
<1>3. CountsExact'
  <2>1. \A u \in Threads : pc'[u] = "done" <=> pc[u] = "done"
    BY <1>1, <1>2 DEF LazyTypeOK
  <2>2. Only(t, cand, cand') /\ Only(t, got, got')
    BY <1>1, <1>2 DEF LazyTypeOK, Only
  <2>3. \A r \in Reps : refs'[r] = refs[r] + One(computed', r) - One(computed, r)
                                   + One(cand'[t], r) - One(cand[t], r) + One(got'[t], r) - One(got[t], r)
    BY <1>0, <1>1, <1>2, LazyAssumption DEF LazyTypeOK, One
  <2> QED
    BY <1>0, <1>2, <2>1, <2>2, <2>3, CountsStep, MiddleStays DEF LazyInv
<1>4. LazyTypeOK'
  <2>1. refs' \in [Reps -> Nat]
    BY <1>1, <1>2 DEF LazyTypeOK
  <2>2. pc' \in [Threads -> Places]
    BY <1>1, <1>2 DEF LazyTypeOK, Places
  <2>3. /\ got' \in [Threads -> Reps \cup {Nothing}] /\ cand' \in [Threads -> Reps \cup {Nothing}]
        /\ answer' \in [Threads -> Reps \cup {Nothing, Failed}]
    BY <1>1, <1>2 DEF LazyTypeOK
  <2> QED
    BY <1>1, <1>2, <2>1, <2>2, <2>3 DEF LazyTypeOK
<1>5. \A u \in Threads : answer[u] \notin Reps /\ got[u] = Nothing /\ borrowed[u] = Nothing
  BY <1>0, <1>1, LazyAssumption DEF LazyInv, LazyTypeOK, HoldsOf
<1>6. ASSUME NEW u \in Threads PROVE HoldsOf(u)'
  BY <1>0, <1>1, <1>2, <1>5, LazyAssumption DEF LazyInv, LazyTypeOK, HoldsOf
<1>7. AnswersAgree'
  <2>1. \A u \in Threads : answer'[u] \in Reps => answer'[u] = cand[t]
    BY <1>1, <1>2, <1>5 DEF LazyTypeOK
  <2> QED
    BY <2>1 DEF AnswersAgree
<1> QED
  BY <1>3, <1>4, <1>6, <1>7 DEF LazyInv

\* A later publisher frees its own candidate and refers to the result instead.
LEMMA PublishLaterPreserves ==
    ASSUME NEW t \in Threads PROVE LazyInv /\ Publish(t) /\ computed # Nothing => LazyInv'
<1>0. SUFFICES ASSUME LazyInv, Publish(t), computed # Nothing PROVE LazyInv'
  OBVIOUS
<1>1. /\ LazyTypeOK /\ pc[t] = "publish" /\ cand[t] \in Reps /\ got[t] = Nothing /\ computed \in Reps
      /\ middle \in Nat /\ middle > 0
  <2>1. LazyTypeOK /\ pc[t] = "publish" /\ cand[t] \in Reps /\ got[t] = Nothing /\ computed \in Reps
    BY <1>0 DEF LazyInv, LazyTypeOK, HoldsOf, Publish
  <2> QED
    BY <1>0, <2>1, UnfinishedCount DEF LazyInv, CountsExact, Unfinished
<1>2. /\ refs' = [refs EXCEPT ![cand[t]] = @ - 1, ![computed] = @ + 1]
      /\ got' = [got EXCEPT ![t] = computed] /\ answer' = [answer EXCEPT ![t] = computed]
      /\ pc' = [pc EXCEPT ![t] = "measure"] /\ cand' = [cand EXCEPT ![t] = Nothing]
      /\ UNCHANGED <<computed, middle, measure, borrowed>>
  BY <1>0 DEF Publish, Goto
<1>3. CountsExact'
  <2>1. \A u \in Threads : pc'[u] = "done" <=> pc[u] = "done"
    BY <1>1, <1>2 DEF LazyTypeOK
  <2>2. Only(t, cand, cand') /\ Only(t, got, got')
    BY <1>1, <1>2 DEF LazyTypeOK, Only
  <2>3. \A r \in Reps : refs'[r] = refs[r] + One(computed', r) - One(computed, r)
                                   + One(cand'[t], r) - One(cand[t], r) + One(got'[t], r) - One(got[t], r)
    BY <1>0, <1>1, <1>2, LazyAssumption DEF LazyTypeOK, One
  <2> QED
    BY <1>0, <1>2, <2>1, <2>2, <2>3, CountsStep, MiddleStays DEF LazyInv
<1>4. LazyTypeOK'
  <2>1. refs[cand[t]] > 0
    <3>1. Held(cand, got, cand[t]) > 0
      BY HeldIsCounted
    <3>2. Held(cand, got, cand[t]) \in Nat /\ refs[cand[t]] = One(computed, cand[t]) + Held(cand, got, cand[t])
      BY <1>0, <1>1, CountsNow DEF LazyInv
    <3> QED
      BY <3>1, <3>2 DEF One
  <2>2. refs' \in [Reps -> Nat]
    BY <1>1, <1>2, <2>1 DEF LazyTypeOK
  <2> QED
    BY <1>1, <1>2, <2>2 DEF LazyTypeOK, Places
<1>5. ASSUME NEW u \in Threads PROVE HoldsOf(u)'
  BY <1>0, <1>1, <1>2, LazyAssumption DEF LazyInv, LazyTypeOK, HoldsOf
<1>6. AnswersAgree'
  <2>1. \A u \in Threads : answer'[u] \in Reps => answer'[u] = computed
    BY <1>0, <1>1, <1>2 DEF LazyInv, LazyTypeOK, HoldsOf
  <2> QED
    BY <2>1 DEF AnswersAgree
<1> QED
  BY <1>3, <1>4, <1>5, <1>6 DEF LazyInv

\* The measure is read through the reference just taken.
LEMMA LoadMeasurePreserves ==
    ASSUME NEW t \in Threads PROVE LazyInv /\ LoadMeasure(t) => LazyInv'
<1>0. SUFFICES ASSUME LazyInv, LoadMeasure(t) PROVE LazyInv'
  OBVIOUS
<1>1. LazyTypeOK /\ pc[t] = "measure" /\ got[t] \in Reps /\ got[t] = computed /\ computed # Nothing
  BY <1>0 DEF LazyInv, LazyTypeOK, HoldsOf, LoadMeasure
<1>2. /\ \/ /\ measure[computed] # Nothing
            /\ borrowed' = [borrowed EXCEPT ![t] = <<computed, measure[computed]>>]
         \/ UNCHANGED borrowed
      /\ pc' = [pc EXCEPT ![t] = "drop"] \/ (pc' = [pc EXCEPT ![t] = "publish measure"] /\ UNCHANGED borrowed)
      /\ UNCHANGED <<computed, middle, refs, measure, cand, got, answer>>
  BY <1>0, <1>1 DEF LoadMeasure, Goto
<1>3. CountsExact'
  <2>1. \A u \in Threads : pc'[u] = "done" <=> pc[u] = "done"
    BY <1>1, <1>2 DEF LazyTypeOK
  <2>2. Only(t, cand, cand') /\ Only(t, got, got')
    BY <1>1, <1>2 DEF LazyTypeOK, Only
  <2>3. \A r \in Reps : refs'[r] = refs[r] + One(computed', r) - One(computed, r)
                                   + One(cand'[t], r) - One(cand[t], r) + One(got'[t], r) - One(got[t], r)
    <3>1. UNCHANGED <<computed, refs, cand, got>>
      BY <1>2
    <3>2. \A r \in Reps : refs[r] \in Nat
      BY <1>1 DEF LazyTypeOK
    <3> QED
      BY <3>1, <3>2 DEF One
  <2> QED
    BY <1>0, <1>2, <2>1, <2>2, <2>3, CountsStep, MiddleStays DEF LazyInv
<1>4. LazyTypeOK'
  <2>1. pc' \in [Threads -> Places]
    BY <1>1, <1>2 DEF LazyTypeOK, Places
  <2>2. borrowed' \in [Threads -> (Reps \X Threads) \cup {Nothing}]
    <3>1. measure[computed] # Nothing => <<computed, measure[computed]>> \in (Reps \X Threads) \cup {Nothing}
      BY <1>1 DEF LazyTypeOK
    <3>2. borrowed \in [Threads -> (Reps \X Threads) \cup {Nothing}]
      BY <1>1 DEF LazyTypeOK
    <3> QED
      BY <1>2, <3>1, <3>2
  <2> QED
    BY <1>1, <1>2, <2>1, <2>2 DEF LazyTypeOK
<1>5. ASSUME NEW u \in Threads PROVE HoldsOf(u)'
  BY <1>0, <1>1, <1>2 DEF LazyInv, LazyTypeOK, HoldsOf
<1>6. AnswersAgree'
  BY <1>0, <1>2 DEF LazyInv, AnswersAgree
<1> QED
  BY <1>3, <1>4, <1>5, <1>6 DEF LazyInv

\* The measure is cached in the representation.
LEMMA PublishMeasurePreserves ==
    ASSUME NEW t \in Threads PROVE LazyInv /\ PublishMeasure(t) => LazyInv'
<1>0. SUFFICES ASSUME LazyInv, PublishMeasure(t) PROVE LazyInv'
  OBVIOUS
<1>1. LazyTypeOK /\ pc[t] = "publish measure" /\ computed \in Reps /\ got[t] = computed /\ computed # Nothing
  BY <1>0 DEF LazyInv, LazyTypeOK, HoldsOf, PublishMeasure
<1>2. /\ measure' = [measure EXCEPT ![computed] = IF @ = Nothing THEN t ELSE @]
      /\ borrowed' = [borrowed EXCEPT ![t] = <<computed, measure'[computed]>>]
      /\ pc' = [pc EXCEPT ![t] = "drop"]
      /\ UNCHANGED <<computed, middle, refs, cand, got, answer>>
  BY <1>0, <1>1 DEF PublishMeasure, Goto
<1>3. CountsExact'
  <2>1. \A u \in Threads : pc'[u] = "done" <=> pc[u] = "done"
    BY <1>1, <1>2 DEF LazyTypeOK
  <2>2. Only(t, cand, cand') /\ Only(t, got, got')
    BY <1>1, <1>2 DEF LazyTypeOK, Only
  <2>3. \A r \in Reps : refs'[r] = refs[r] + One(computed', r) - One(computed, r)
                                   + One(cand'[t], r) - One(cand[t], r) + One(got'[t], r) - One(got[t], r)
    <3>1. UNCHANGED <<computed, refs, cand, got>>
      BY <1>2
    <3>2. \A r \in Reps : refs[r] \in Nat
      BY <1>1 DEF LazyTypeOK
    <3> QED
      BY <3>1, <3>2 DEF One
  <2> QED
    BY <1>0, <1>2, <2>1, <2>2, <2>3, CountsStep, MiddleStays DEF LazyInv
<1>4. LazyTypeOK'
  <2>1. pc' \in [Threads -> Places]
    BY <1>1, <1>2 DEF LazyTypeOK, Places
  <2>2. measure' \in [Reps -> Threads \cup {Nothing}] /\ measure'[computed] \in Threads
    BY <1>1, <1>2, LazyAssumption DEF LazyTypeOK
  <2>3. borrowed' \in [Threads -> (Reps \X Threads) \cup {Nothing}]
    BY <1>1, <1>2, <2>2 DEF LazyTypeOK
  <2> QED
    BY <1>1, <1>2, <2>1, <2>2, <2>3 DEF LazyTypeOK
<1>5. ASSUME NEW u \in Threads PROVE HoldsOf(u)'
  <2>1. measure'[computed] # Nothing /\ (measure[computed] # Nothing => measure'[computed] = measure[computed])
    BY <1>1, <1>2, LazyAssumption DEF LazyTypeOK
  <2> QED
    BY <1>0, <1>1, <1>2, <2>1 DEF LazyInv, LazyTypeOK, HoldsOf
<1>6. AnswersAgree'
  BY <1>0, <1>2 DEF LazyInv, AnswersAgree
<1> QED
  BY <1>3, <1>4, <1>5, <1>6 DEF LazyInv

\* The caller gives its reference back and keeps the measure it borrowed.
LEMMA DropResultPreserves ==
    ASSUME NEW t \in Threads PROVE LazyInv /\ DropResult(t) => LazyInv'
<1>0. SUFFICES ASSUME LazyInv, DropResult(t) PROVE LazyInv'
  OBVIOUS
<1>1. LazyTypeOK /\ pc[t] = "drop" /\ computed \in Reps /\ got[t] = computed
  BY <1>0 DEF LazyInv, LazyTypeOK, HoldsOf, DropResult
<1>2. /\ refs' = [refs EXCEPT ![computed] = @ - 1] /\ got' = [got EXCEPT ![t] = Nothing]
      /\ pc' = [pc EXCEPT ![t] = "use"]
      /\ UNCHANGED <<computed, middle, measure, cand, borrowed, answer>>
  BY <1>0, <1>1 DEF DropResult, Goto
<1>3. CountsExact'
  <2>1. \A u \in Threads : pc'[u] = "done" <=> pc[u] = "done"
    BY <1>1, <1>2 DEF LazyTypeOK
  <2>2. Only(t, cand, cand') /\ Only(t, got, got')
    BY <1>1, <1>2 DEF LazyTypeOK, Only
  <2>3. \A r \in Reps : refs'[r] = refs[r] + One(computed', r) - One(computed, r)
                                   + One(cand'[t], r) - One(cand[t], r) + One(got'[t], r) - One(got[t], r)
    BY <1>1, <1>2, LazyAssumption DEF LazyTypeOK, One
  <2> QED
    BY <1>0, <1>2, <2>1, <2>2, <2>3, CountsStep, MiddleStays DEF LazyInv
<1>4. LazyTypeOK'
  <2>1. pc' \in [Threads -> Places]
    BY <1>1, <1>2 DEF LazyTypeOK, Places
  <2>2. refs[computed] > 0
    <3>1. Held(cand, got, computed) \in Nat /\ refs[computed] = One(computed, computed) + Held(cand, got, computed)
      BY <1>0, <1>1, CountsNow DEF LazyInv
    <3> QED
      BY <3>1 DEF One
  <2>3. refs' \in [Reps -> Nat]
    BY <1>1, <1>2, <2>2 DEF LazyTypeOK
  <2>4. got' \in [Threads -> Reps \cup {Nothing}]
    BY <1>1, <1>2 DEF LazyTypeOK
  <2> QED
    BY <1>1, <1>2, <2>1, <2>3, <2>4 DEF LazyTypeOK
<1>5. ASSUME NEW u \in Threads PROVE HoldsOf(u)'
  BY <1>0, <1>1, <1>2, LazyAssumption DEF LazyInv, LazyTypeOK, HoldsOf
<1>6. AnswersAgree'
  BY <1>0, <1>2 DEF LazyInv, AnswersAgree
<1> QED
  BY <1>3, <1>4, <1>5, <1>6 DEF LazyInv

\* The last tree to go frees the result, which nobody holds any more.
LEMMA ReleaseMiddlePreserves ==
    ASSUME NEW t \in Threads PROVE LazyInv /\ ReleaseMiddle(t) => LazyInv'
<1>0. SUFFICES ASSUME LazyInv, ReleaseMiddle(t) PROVE LazyInv'
  OBVIOUS
<1>1. LazyTypeOK /\ pc[t] \in {"use", "failed"} /\ cand[t] = Nothing /\ got[t] = Nothing
  BY <1>0 DEF LazyInv, LazyTypeOK, HoldsOf, ReleaseMiddle
<1>2. /\ middle \in Nat /\ middle > 0 /\ Cardinality(Unfinished \ {t}) = middle - 1
      /\ middle = 1 => Unfinished = {t}
  BY <1>0, <1>1, UnfinishedCount DEF LazyInv, CountsExact, Unfinished
<1>3. /\ middle' = middle - 1
      /\ refs' = IF middle = 1 /\ computed # Nothing THEN [refs EXCEPT ![computed] = @ - 1] ELSE refs
      /\ computed' = IF middle = 1 THEN Nothing ELSE computed
      /\ borrowed' = [borrowed EXCEPT ![t] = Nothing] /\ pc' = [pc EXCEPT ![t] = "done"]
      /\ UNCHANGED <<measure, cand, got, answer>>
  BY <1>0 DEF ReleaseMiddle, Goto
<1>4. \A u \in Threads : middle = 1 /\ u # t => pc[u] = "done"
  BY <1>2 DEF Unfinished
<1>5. CountsExact'
  <2>1. {u \in Threads : pc'[u] # "done"} = Unfinished \ {t}
    BY <1>1, <1>3 DEF LazyTypeOK, Unfinished
  <2>2. middle' = Cardinality({u \in Threads : pc'[u] # "done"})
    BY <1>2, <1>3, <2>1
  <2>3. Only(t, cand, cand') /\ Only(t, got, got')
    BY <1>3 DEF Only
  <2>4. cand'[t] = cand[t] /\ got'[t] = got[t]
    BY <1>3
  <2>5. \A r \in Reps : refs[r] \in Nat /\ refs'[r] = refs[r] + One(computed', r) - One(computed, r)
    BY <1>1, <1>3, LazyAssumption DEF LazyTypeOK, One
  <2>6. \A r \in Reps : refs'[r] = refs[r] + One(computed', r) - One(computed, r)
                                   + One(cand'[t], r) - One(cand[t], r) + One(got'[t], r) - One(got[t], r)
    BY <2>4, <2>5 DEF One
  <2> QED
    BY <1>0, <2>2, <2>3, <2>6, CountsStep DEF LazyInv
<1>6. LazyTypeOK'
  <2>1. pc' \in [Threads -> Places] /\ borrowed' \in [Threads -> (Reps \X Threads) \cup {Nothing}]
    BY <1>1, <1>3 DEF LazyTypeOK, Places
  <2>2. computed # Nothing => refs[computed] > 0
    <3>1. computed # Nothing => computed \in Reps
      BY <1>1 DEF LazyTypeOK
    <3>2. computed # Nothing =>
             Held(cand, got, computed) \in Nat /\ refs[computed] = One(computed, computed) + Held(cand, got, computed)
      BY <1>0, <3>1, CountsNow DEF LazyInv
    <3> QED
      BY <3>2 DEF One
  <2>3. refs' \in [Reps -> Nat]
    BY <1>1, <1>3, <2>2 DEF LazyTypeOK
  <2>4. middle' \in Nat /\ computed' \in Reps \cup {Nothing}
    BY <1>1, <1>2, <1>3 DEF LazyTypeOK
  <2> QED
    BY <1>1, <1>3, <2>1, <2>3, <2>4 DEF LazyTypeOK
<1>7. ASSUME NEW u \in Threads PROVE HoldsOf(u)'
  <2>1. /\ HoldsOf(u) /\ measure' = measure /\ cand'[u] = cand[u] /\ got'[u] = got[u] /\ answer'[u] = answer[u]
        /\ u # t => pc'[u] = pc[u] /\ borrowed'[u] = borrowed[u]
        /\ pc'[t] = "done" /\ borrowed'[t] = Nothing
    BY <1>0, <1>1, <1>3 DEF LazyInv, LazyTypeOK
  <2>2. CASE middle = 1
    <3>1. ~(middle' > 0) /\ computed' = Nothing /\ pc'[u] = "done"
      BY <1>3, <1>4, <2>1, <2>2
    <3>2. cand[u] = Nothing /\ got[u] = Nothing
      BY <1>1, <1>4, <2>1, <2>2 DEF HoldsOf
    <3>3. borrowed'[u] = Nothing
      BY <1>4, <2>1, <2>2 DEF HoldsOf
    <3> QED
      BY <2>1, <3>1, <3>2, <3>3 DEF HoldsOf
  <2>3. CASE middle # 1
    <3>1. computed' = computed
      BY <1>3, <2>3
    <3> QED
      BY <1>1, <1>2, <1>3, <2>1, <2>3, <3>1 DEF HoldsOf
  <2> QED
    BY <2>2, <2>3
<1>8. AnswersAgree'
  BY <1>0, <1>3 DEF LazyInv, AnswersAgree
<1> QED
  BY <1>5, <1>6, <1>7, <1>8 DEF LazyInv

\* No step of any thread leaves the invariant.
LEMMA LazyStep == LazyInv /\ [Next]_vars => LazyInv'
<1> SUFFICES ASSUME LazyInv, [Next]_vars PROVE LazyInv'
  OBVIOUS
<1>1. CASE Next
  BY <1>1, LoadPreserves, ComputePreserves, ReloadPreserves, PublishFirstPreserves, PublishLaterPreserves,
     LoadMeasurePreserves, PublishMeasurePreserves, DropResultPreserves, ReleaseMiddlePreserves DEF Next, Step
<1>2. CASE UNCHANGED vars
  <2>1. UNCHANGED <<computed, middle, refs, measure, pc, cand, got, borrowed, answer>>
    BY <1>2 DEF vars
  <2>2. LazyTypeOK'
    BY <2>1 DEF LazyInv, LazyTypeOK
  <2>3. CountsExact'
    BY <2>1 DEF LazyInv, CountsExact, Holders
  <2>4. AnswersAgree' /\ \A t \in Threads : HoldsOf(t)'
    BY <2>1 DEF LazyInv, AnswersAgree, HoldsOf
  <2> QED
    BY <2>2, <2>3, <2>4 DEF LazyInv
<1> QED
  BY <1>1, <1>2

\* What the counts, the places and the agreement of answers say together holds
\* in every state.
THEOREM LazyInvariance == Spec => []LazyInv
BY LazyInitInv, LazyStep, PTL DEF Spec

\* For any number of threads: every reference count is the number of owners, so
\* nothing in use is freed and nothing leaks (rep_release, ft_middle_release).
THEOREM ReferencesCounted == Spec => []CountsExact
<1>1. LazyInv => CountsExact
  BY DEF LazyInv
<1> QED
  BY <1>1, LazyInvariance, PTL

\* A measure outlives the reference it was read through: while one tree is left
\* the slot of the middle holds the representation it belongs to.
THEOREM MeasuresOutlive == Spec => []BorrowedAlive
<1>1. LazyInv => BorrowedAlive
  <2> SUFFICES ASSUME LazyInv, NEW t \in Threads, borrowed[t] # Nothing
               PROVE  refs[borrowed[t][1]] > 0 /\ measure[borrowed[t][1]] = borrowed[t][2]
    BY DEF BorrowedAlive
  <2>1. computed \in Reps /\ borrowed[t] = <<computed, measure[computed]>>
    BY DEF LazyInv, LazyTypeOK, HoldsOf
  <2>2. Held(cand, got, computed) \in Nat /\ refs[computed] = One(computed, computed) + Held(cand, got, computed)
    BY <2>1, CountsNow DEF LazyInv
  <2>3. refs[computed] > 0
    BY <2>2 DEF One
  <2> QED
    BY <2>1, <2>3
<1> QED
  BY <1>1, LazyInvariance, PTL

\* What one step may do to the result: it is published once and every force that
\* succeeds returns it.
OneResult ==
    /\ computed # Nothing /\ middle' > 0 => computed' = computed
    /\ \A t \in Threads : answer'[t] # answer[t] => answer'[t] = Failed \/ answer'[t] = computed'
    /\ \A t, u \in Threads : {answer'[t], answer'[u]} \subseteq Reps => answer'[t] = answer'[u]

\* Every step of force_middle and of the release respects the one result.
LEMMA OneResultStep == LazyInv /\ LazyInv' /\ Next => OneResult
<1>0. SUFFICES ASSUME LazyInv, LazyInv', NEW t \in Threads, Step(t) PROVE OneResult
  BY DEF Next
<1>1. LazyTypeOK
  BY <1>0 DEF LazyInv
<1>2. middle \in Nat
  BY <1>1 DEF LazyTypeOK
<1>3. computed # Nothing /\ middle' > 0 => computed' = computed
  <2>1. CASE Load(t) \/ Compute(t) \/ Reload(t) \/ LoadMeasure(t) \/ PublishMeasure(t) \/ DropResult(t)
    BY <2>1 DEF Load, Compute, Reload, LoadMeasure, PublishMeasure, DropResult
  <2>2. CASE Publish(t)
    BY <2>2 DEF Publish
  <2>3. CASE ReleaseMiddle(t)
    BY <1>2, <2>3 DEF ReleaseMiddle
  <2> QED
    BY <1>0, <2>1, <2>2, <2>3 DEF Step
<1>4. \A u \in Threads : answer'[u] # answer[u] => answer'[u] = Failed \/ answer'[u] = computed'
  <2>1. CASE Load(t) \/ Reload(t)
    BY <1>1, <2>1 DEF LazyTypeOK, Load, Reload, Take
  <2>2. CASE Publish(t)
    BY <1>1, <2>2 DEF LazyTypeOK, Publish, Take
  <2>3. CASE Compute(t) \/ LoadMeasure(t) \/ PublishMeasure(t) \/ DropResult(t) \/ ReleaseMiddle(t)
    BY <2>3 DEF Compute, LoadMeasure, PublishMeasure, DropResult, ReleaseMiddle
  <2> QED
    BY <1>0, <2>1, <2>2, <2>3 DEF Step
<1>5. \A u, v \in Threads : {answer'[u], answer'[v]} \subseteq Reps => answer'[u] = answer'[v]
  BY <1>0 DEF LazyInv, AnswersAgree
<1> QED
  BY <1>3, <1>4, <1>5 DEF OneResult

\* However many threads force the middle and whichever of them run out of
\* memory, one result is published and every successful force returns it
\* (force_middle).
THEOREM OneForceWins == Spec => ForcesOnce
<1>1. LazyInv /\ LazyInv' /\ [Next]_vars => [OneResult]_vars
  BY OneResultStep
<1>2. Spec => [][OneResult]_vars
  BY <1>1, LazyInvariance, PTL DEF Spec
<1>3. ForcesOnce <=> [][OneResult]_vars
  BY PTL DEF ForcesOnce, OneResult
<1> QED
  BY <1>2, <1>3, PTL

-----------------------------------------------------------------------------
\* The C# middle.  A thread that returned a tree returned the one the cell holds,
\* and the cell was not pending any more: that is what the next exchange needs.
ManagedInv ==
    /\ state \in Results \cup {Pending}
    /\ at \in [Threads -> {"idle", "run", "exchange", "done"}]
    /\ DOMAIN result = Threads /\ DOMAIN returned = Threads
    /\ \A t \in Threads : at[t] = "exchange" => result[t] \in Results
    /\ \A t \in Threads : returned[t] # Nothing => returned[t] = state /\ state # Pending

\* No step of any thread leaves the invariant of the cell.
LEMMA ManagedStep == ManagedInv /\ [ManagedNext]_managedVars => ManagedInv'
<1>0. SUFFICES ASSUME ManagedInv, [ManagedNext]_managedVars PROVE ManagedInv'
  OBVIOUS
<1>1. CASE UNCHANGED managedVars
  BY <1>0, <1>1 DEF ManagedInv, managedVars
<1>2. ASSUME NEW t \in Threads, Read(t) PROVE ManagedInv'
  <2>1. CASE state = Pending
    BY <1>0, <1>2, <2>1 DEF ManagedInv, Read
  <2>2. CASE state # Pending
    BY <1>0, <1>2, <2>2 DEF ManagedInv, Read
  <2> QED
    BY <2>1, <2>2
<1>3. ASSUME NEW t \in Threads, Run(t) PROVE ManagedInv'
  BY <1>0, <1>3 DEF ManagedInv, Run
<1>4. ASSUME NEW t \in Threads, Exchange(t) PROVE ManagedInv'
  <2>1. result[t] \in Results /\ result[t] # Pending
    BY <1>0, <1>4, CellAssumption DEF ManagedInv, Exchange
  <2>2. CASE state = Pending
    BY <1>0, <1>4, <2>1, <2>2 DEF ManagedInv, Exchange
  <2>3. CASE state # Pending
    BY <1>0, <1>4, <2>1, <2>3 DEF ManagedInv, Exchange
  <2> QED
    BY <2>2, <2>3
<1>5. ASSUME NEW t \in Threads, Again(t) PROVE ManagedInv'
  BY <1>0, <1>5 DEF ManagedInv, Again
<1> QED
  BY <1>0, <1>1, <1>2, <1>3, <1>4, <1>5 DEF ManagedNext

\* The invariant of the cell holds in every state of LazyMiddle.Force.
THEOREM ManagedInvariance == ManagedSpec => []ManagedInv
<1>1. ManagedInit => ManagedInv
  BY DEF ManagedInit, ManagedInv
<1> QED
  BY <1>1, ManagedStep, PTL DEF ManagedSpec

\* LazyMiddle.Force returns, to every thread and in whatever order they run,
\* the one tree that the cell keeps.
THEOREM EveryForceConverges == ManagedSpec => []AnswersConverge
<1>1. ManagedInv => AnswersConverge
  BY DEF ManagedInv, AnswersConverge
<1> QED
  BY <1>1, ManagedInvariance, PTL

\* The cell is written once: no later compare-and-exchange replaces a published
\* tree.
THEOREM CellWrittenOnce == ManagedSpec => [][PublishedOnce]_managedVars
<1>1. [ManagedNext]_managedVars => [PublishedOnce]_managedVars
  BY DEF ManagedNext, PublishedOnce, managedVars, Read, Run, Exchange, Again
<1> QED
  BY <1>1, PTL DEF ManagedSpec

-----------------------------------------------------------------------------
\* Every set of natural numbers that is not empty has a least one.
LEMMA LeastNatural ==
    ASSUME NEW T, T \subseteq Nat, T # {}
    PROVE  \E m \in T : \A k \in T : m <= k
<1>1. PICK m \in T : \A k \in T : ~(<<k, m>> \in OpToRel(<, Nat))
  BY NatLessThanWellFounded, WFMin
<1>2. \A k \in T : ~(k < m)
  BY <1>1 DEF OpToRel
<1> QED
  BY <1>2

\* An array is sorted when its digests rise from each block to every later one.
Rising(q) == \A i, j \in 1..Len(q) : i < j => q[i].digest < q[j].digest
IsArray(q) == q \in Seq(Promise!Blocks) /\ Rising(q)

\* The entries of an array are blocks, whose digests are compared as numbers.
LEMMA BlockDigests ==
    ASSUME NEW q, IsArray(q)
    PROVE  /\ Len(q) \in Nat /\ DOMAIN q = 1..Len(q)
           /\ \A i \in 1..Len(q) : q[i] \in Promise!Blocks /\ q[i].digest \in Int
<1>1. q \in Seq(Promise!Blocks)
  BY DEF IsArray
<1>2. Len(q) \in Nat /\ DOMAIN q = 1..Len(q) /\ \A i \in 1..Len(q) : q[i] \in Promise!Blocks
  BY <1>1, LenProperties, ElementOfSeq
<1>3. \A b \in Promise!Blocks : b.digest \in Int
  BY StoreAssumption DEF Promise!Blocks
<1> QED
  BY <1>2, <1>3

\* The search splits the array: what is before the place has a lower digest, and
\* what is at the place or behind it has not.
LEMMA LowerBoundSplits ==
    ASSUME IsArray(blocks), NEW d \in Int
    PROVE  /\ LowerBound(d) \in 1..(Len(blocks) + 1)
           /\ \A i \in 1..Len(blocks) : blocks[i].digest < d <=> i < LowerBound(d)
<1> DEFINE S == {i \in DOMAIN blocks : blocks[i].digest < d}
           T == {i \in 1..(Len(blocks) + 1) : i \notin S}
<1>1. /\ Len(blocks) \in Nat /\ DOMAIN blocks = 1..Len(blocks)
      /\ \A i \in 1..Len(blocks) : blocks[i].digest \in Int
  BY BlockDigests
<1>2. PICK m \in T : \A k \in T : m <= k
  <2>1. T \subseteq Nat /\ Len(blocks) + 1 \in T
    BY <1>1
  <2> QED
    BY <2>1, LeastNatural
<1>3. m \in 1..(Len(blocks) + 1) /\ m \notin S
  BY <1>2
<1>4. \A i \in 1..(m - 1) : i \in S
  BY <1>1, <1>2, <1>3
<1>5. ASSUME NEW i \in S PROVE i \in 1..(m - 1)
  <2>1. i \in 1..Len(blocks) /\ blocks[i].digest < d
    BY <1>1
  <2>2. SUFFICES ASSUME i > m PROVE FALSE
    BY <1>1, <1>3, <2>1
  <2>3. m \in 1..Len(blocks) /\ blocks[m].digest < blocks[i].digest
    BY <1>1, <1>3, <2>1, <2>2 DEF IsArray, Rising
  <2>4. blocks[m].digest < d
    BY <1>1, <2>1, <2>3
  <2> QED
    BY <1>1, <1>3, <2>3, <2>4
<1>6. S = 1..(m - 1)
  BY <1>4, <1>5
<1>7. Cardinality(S) = m - 1
  <2>1. m \in Nat /\ m >= 1 /\ m - 1 \in Int /\ 1 \in Int
    BY <1>1, <1>3
  <2>2. Cardinality(1..(m - 1)) = IF 1 > m - 1 THEN 0 ELSE (m - 1) - 1 + 1
    BY <2>1, FS_Interval
  <2>3. Cardinality(1..(m - 1)) = m - 1
    BY <2>1, <2>2
  <2> QED
    BY <1>6, <2>3
<1>8. LowerBound(d) = m
  BY <1>1, <1>3, <1>7 DEF LowerBound
<1>9. \A i \in 1..Len(blocks) : blocks[i].digest < d <=> i \in S
  BY <1>1
<1> HIDE DEF S, T
<1>10. \A i \in 1..Len(blocks) : i \in S <=> i < m
  BY <1>1, <1>3, <1>6
<1> QED
  BY <1>3, <1>8, <1>9, <1>10

\* A block is found exactly when the array holds one of its digest, and then at
\* one place.
LEMMA FoundExact ==
    ASSUME IsArray(blocks), NEW d \in Int
    PROVE  /\ Found(d) <=> \E i \in 1..Len(blocks) : blocks[i].digest = d
           /\ Found(d) => LowerBound(d) \in 1..Len(blocks) /\ blocks[LowerBound(d)].digest = d
           /\ \A i \in 1..Len(blocks) : blocks[i].digest = d => i = LowerBound(d)
<1> DEFINE p == LowerBound(d)
<1>1. /\ Len(blocks) \in Nat /\ p \in 1..(Len(blocks) + 1)
      /\ \A i \in 1..Len(blocks) : blocks[i].digest \in Int
  BY BlockDigests, LowerBoundSplits
<1>2. \A i \in 1..Len(blocks) : blocks[i].digest < d <=> i < p
  BY LowerBoundSplits
<1>3. Found(d) <=> p <= Len(blocks) /\ blocks[p].digest = d
  BY DEF Found
<1> HIDE DEF p
<1>4. ASSUME NEW i \in 1..Len(blocks), blocks[i].digest = d PROVE i = p
  <2>1. ~(i < p)
    BY <1>1, <1>2, <1>4
  <2>2. SUFFICES ASSUME p < i PROVE FALSE
    BY <1>1, <2>1
  <2>3. p \in 1..Len(blocks) /\ blocks[p].digest < blocks[i].digest
    BY <1>1, <2>2 DEF IsArray, Rising
  <2> QED
    BY <1>1, <1>2, <1>4, <2>3
<1>5. Found(d) => p \in 1..Len(blocks)
  BY <1>1, <1>3
<1>6. ASSUME NEW i \in 1..Len(blocks), blocks[i].digest = d PROVE Found(d)
  <2>1. i = p
    BY <1>4, <1>6
  <2> QED
    BY <1>1, <1>3, <1>6, <2>1
<1>7. Found(d) => \E i \in 1..Len(blocks) : blocks[i].digest = d
  BY <1>3, <1>5
<1>8. p = LowerBound(d)
  BY DEF p
<1> QED
  BY <1>3, <1>4, <1>5, <1>6, <1>7, <1>8

-----------------------------------------------------------------------------
\* What the array holds after a block is put in its place or taken out.

\* A block put where the search says keeps the array sorted and adds just itself.
LEMMA InsertedIsArray ==
    ASSUME IsArray(blocks), NEW b \in Promise!Blocks, ~Found(b.digest)
    PROVE  /\ IsArray(Inserted(b)) /\ Len(Inserted(b)) = Len(blocks) + 1
           /\ ToSet(Inserted(b)) = ToSet(blocks) \cup {b}
<1> DEFINE n == Len(blocks)
           p == LowerBound(b.digest)
           q == Inserted(b)
<1>1. b.digest \in Int
  BY StoreAssumption DEF Promise!Blocks
<1>2. /\ n \in Nat /\ p \in 1..(n + 1) /\ DOMAIN blocks = 1..n
      /\ \A i \in 1..n : blocks[i] \in Promise!Blocks /\ blocks[i].digest \in Int
  BY <1>1, BlockDigests, LowerBoundSplits
<1>3. /\ \A i \in 1..(p - 1) : blocks[i].digest < b.digest
      /\ \A i \in p..n : blocks[i].digest > b.digest
  <2>1. \A i \in 1..n : blocks[i].digest < b.digest <=> i < p
    BY <1>1, LowerBoundSplits
  <2>2. \A i \in 1..n : blocks[i].digest # b.digest
    BY <1>1, FoundExact
  <2> HIDE DEF n, p
  <2> QED
    BY <1>1, <1>2, <2>1, <2>2
<1>4. /\ q \in Seq(Promise!Blocks) /\ Len(q) = n + 1
      /\ \A i \in 1..(n + 1) : q[i] = IF i < p THEN blocks[i] ELSE IF i = p THEN b ELSE blocks[i - 1]
  <2>1. blocks \in Seq(Promise!Blocks)
    BY DEF IsArray
  <2>2. q = SubSeq(blocks, 1, p - 1) \o <<b>> \o SubSeq(blocks, p, n)
    BY DEF Inserted, InsertAt
  <2> HIDE DEF n, p, q
  <2> DEFINE s == SubSeq(blocks, 1, p - 1)
             u == SubSeq(blocks, p, n)
  <2>3. s \in Seq(Promise!Blocks) /\ Len(s) = p - 1 /\ \A i \in 1..(p - 1) : s[i] = blocks[i]
    BY <1>2, <2>1, SubSeqProperties
  <2>4. u \in Seq(Promise!Blocks) /\ Len(u) = n - p + 1 /\ \A i \in 1..(n - p + 1) : u[i] = blocks[p + i - 1]
    BY <1>2, <2>1, SubSeqProperties
  <2>5. <<b>> \in Seq(Promise!Blocks) /\ Len(<<b>>) = 1 /\ <<b>>[1] = b
    OBVIOUS
  <2> HIDE DEF s, u
  <2>6. /\ s \o <<b>> \in Seq(Promise!Blocks) /\ Len(s \o <<b>>) = p
        /\ \A i \in 1..p : (s \o <<b>>)[i] = IF i <= p - 1 THEN s[i] ELSE <<b>>[i - (p - 1)]
    BY <1>2, <2>3, <2>5, ConcatProperties
  <2>7. /\ q \in Seq(Promise!Blocks) /\ Len(q) = p + (n - p + 1)
        /\ \A i \in 1..(p + (n - p + 1)) : q[i] = IF i <= p THEN (s \o <<b>>)[i] ELSE u[i - p]
    BY <1>2, <2>2, <2>4, <2>6, ConcatProperties DEF s, u
  <2>8. Len(q) = n + 1 /\ p + (n - p + 1) = n + 1
    BY <1>2, <2>7
  <2>9. ASSUME NEW i \in 1..(n + 1)
        PROVE  q[i] = IF i < p THEN blocks[i] ELSE IF i = p THEN b ELSE blocks[i - 1]
    <3>1. CASE i < p
      BY <1>2, <2>3, <2>6, <2>7, <2>8, <3>1
    <3>2. CASE i = p
      BY <1>2, <2>5, <2>6, <2>7, <2>8, <3>2
    <3>3. CASE i > p
      <4>1. i - p \in 1..(n - p + 1) /\ p + (i - p) - 1 = i - 1 /\ ~(i <= p)
        BY <1>2, <3>3
      <4>2. q[i] = u[i - p] /\ u[i - p] = blocks[p + (i - p) - 1]
        BY <2>4, <2>7, <2>8, <4>1
      <4> QED
        BY <1>2, <3>3, <4>1, <4>2
    <3> QED
      BY <1>2, <3>1, <3>2, <3>3
  <2> QED
    BY <2>7, <2>8, <2>9
<1>5. Rising(blocks)
  BY DEF IsArray
<1> HIDE DEF n, p, q
<1>6. n = Len(blocks)
  BY DEF n
<1>7. Rising(q)
  <2>1. SUFFICES ASSUME NEW i \in 1..(n + 1), NEW j \in 1..(n + 1), i < j
                 PROVE  q[i].digest < q[j].digest
    BY <1>4 DEF Rising
  <2>2. \A k, l \in 1..n : k < l => blocks[k].digest < blocks[l].digest
    BY <1>5, <1>6 DEF Rising
  <2>3. CASE j < p
    <3>1. i \in 1..n /\ j \in 1..n /\ i < p
      BY <1>2, <2>1, <2>3
    <3>2. q[i] = blocks[i] /\ q[j] = blocks[j]
      BY <1>4, <2>3, <3>1
    <3> QED
      BY <2>1, <2>2, <3>1, <3>2
  <2>4. CASE j = p
    <3>1. i \in 1..(p - 1)
      BY <1>2, <2>1, <2>4
    <3> QED
      BY <1>2, <1>3, <1>4, <2>1, <2>4, <3>1
  <2>5. CASE j > p /\ i < p
    <3>1. j - 1 \in 1..n /\ i \in 1..n /\ i < j - 1
      BY <1>2, <2>1, <2>5
    <3> QED
      BY <1>2, <1>4, <2>1, <2>2, <2>5, <3>1
  <2>6. CASE j > p /\ i = p
    <3>1. j - 1 \in p..n
      BY <1>2, <2>1, <2>6
    <3>2. q[i] = b /\ q[j] = blocks[j - 1]
      BY <1>2, <1>4, <2>1, <2>6
    <3>3. blocks[j - 1].digest > b.digest /\ blocks[j - 1].digest \in Int
      BY <1>2, <1>3, <3>1
    <3> QED
      BY <1>1, <3>2, <3>3
  <2>7. CASE j > p /\ i > p
    <3>1. j - 1 \in 1..n /\ i - 1 \in 1..n /\ i - 1 < j - 1
      BY <1>2, <2>1, <2>7
    <3> QED
      BY <1>2, <1>4, <2>1, <2>2, <2>7, <3>1
  <2> QED
    BY <1>2, <2>1, <2>3, <2>4, <2>5, <2>6, <2>7
<1>8. ToSet(q) = ToSet(blocks) \cup {b}
  <2>1. DOMAIN q = 1..(n + 1)
    BY <1>2, <1>4, LenProperties
  <2>2. ASSUME NEW i \in 1..(n + 1) PROVE q[i] \in {blocks[j] : j \in 1..n} \cup {b}
    BY <1>2, <1>4
  <2>3. ASSUME NEW j \in 1..n PROVE \E i \in 1..(n + 1) : q[i] = blocks[j]
    <3>1. j < p => j \in 1..(n + 1) /\ q[j] = blocks[j]
      BY <1>2, <1>4
    <3>2. j >= p => j + 1 \in 1..(n + 1) /\ j + 1 > p /\ (j + 1) - 1 = j
      BY <1>2
    <3>3. j >= p => q[j + 1] = blocks[j]
      BY <1>2, <1>4, <3>2
    <3> QED
      BY <1>2, <3>1, <3>2, <3>3
  <2>4. p \in 1..(n + 1) /\ q[p] = b
    BY <1>2, <1>4
  <2>5. ToSet(q) = {q[i] : i \in 1..(n + 1)} /\ ToSet(blocks) = {blocks[j] : j \in 1..n}
    BY <1>2, <2>1 DEF ToSet
  <2>6. ToSet(q) \subseteq ToSet(blocks) \cup {b}
    BY <2>2, <2>5
  <2>7. ToSet(blocks) \subseteq ToSet(q)
    BY <2>3, <2>5
  <2>8. b \in ToSet(q)
    BY <2>4, <2>5
  <2> QED
    BY <2>6, <2>7, <2>8
<1>9. q = Inserted(b)
  BY DEF q
<1> QED
  BY <1>4, <1>6, <1>7, <1>8, <1>9 DEF IsArray

\* A block taken out leaves the array sorted and takes just itself away.
LEMMA RemovedIsArray ==
    ASSUME IsArray(blocks), NEW p \in 1..Len(blocks)
    PROVE  /\ IsArray(RemoveAt(blocks, p)) /\ Len(RemoveAt(blocks, p)) = Len(blocks) - 1
           /\ ToSet(RemoveAt(blocks, p)) = ToSet(blocks) \ {blocks[p]}
<1> DEFINE n == Len(blocks)
           q == RemoveAt(blocks, p)
<1>1. /\ n \in Nat /\ p \in 1..n /\ DOMAIN blocks = 1..n
      /\ \A i \in 1..n : blocks[i] \in Promise!Blocks /\ blocks[i].digest \in Int
  BY BlockDigests
<1>2. /\ q \in Seq(Promise!Blocks) /\ Len(q) = n - 1
      /\ \A i \in 1..(n - 1) : q[i] = IF i < p THEN blocks[i] ELSE blocks[i + 1]
  <2>1. blocks \in Seq(Promise!Blocks)
    BY DEF IsArray
  <2> DEFINE s == SubSeq(blocks, 1, p - 1)
             u == SubSeq(blocks, p + 1, n)
  <2>2. q = s \o u
    BY DEF RemoveAt
  <2> HIDE DEF n, q
  <2>3. s \in Seq(Promise!Blocks) /\ Len(s) = p - 1 /\ \A i \in 1..(p - 1) : s[i] = blocks[i]
    BY <1>1, <2>1, SubSeqProperties
  <2>4. u \in Seq(Promise!Blocks) /\ Len(u) = n - p /\ \A i \in 1..(n - p) : u[i] = blocks[p + i]
    BY <1>1, <2>1, SubSeqProperties
  <2> HIDE DEF s, u
  <2>5. /\ q \in Seq(Promise!Blocks) /\ Len(q) = (p - 1) + (n - p)
        /\ \A i \in 1..((p - 1) + (n - p)) : q[i] = IF i <= p - 1 THEN s[i] ELSE u[i - (p - 1)]
    <3>1. /\ s \o u \in Seq(Promise!Blocks) /\ Len(s \o u) = Len(s) + Len(u)
          /\ \A i \in 1..(Len(s) + Len(u)) : (s \o u)[i] = IF i <= Len(s) THEN s[i] ELSE u[i - Len(s)]
      BY <2>3, <2>4, ConcatProperties
    <3> QED
      BY <2>2, <2>3, <2>4, <3>1
  <2>6. Len(q) = n - 1 /\ (p - 1) + (n - p) = n - 1
    BY <1>1, <2>5
  <2>7. ASSUME NEW i \in 1..(n - 1) PROVE q[i] = IF i < p THEN blocks[i] ELSE blocks[i + 1]
    <3>1. CASE i < p
      BY <1>1, <2>3, <2>5, <2>6, <3>1
    <3>2. CASE i >= p
      <4>1. i - (p - 1) \in 1..(n - p) /\ p + (i - (p - 1)) = i + 1 /\ ~(i <= p - 1)
        BY <1>1, <3>2
      <4> QED
        BY <1>1, <2>4, <2>5, <2>6, <4>1
    <3> QED
      BY <1>1, <3>1, <3>2
  <2> QED
    BY <2>5, <2>6, <2>7
<1>3. Rising(blocks)
  BY DEF IsArray
<1> HIDE DEF n, q
<1>4. n = Len(blocks) /\ q = RemoveAt(blocks, p)
  BY DEF n, q
<1>5. Rising(q)
  <2>1. SUFFICES ASSUME NEW i \in 1..(n - 1), NEW j \in 1..(n - 1), i < j
                 PROVE  q[i].digest < q[j].digest
    BY <1>2 DEF Rising
  <2>2. \A k, l \in 1..n : k < l => blocks[k].digest < blocks[l].digest
    BY <1>3, <1>4 DEF Rising
  <2>3. i \in 1..n /\ j \in 1..n /\ i + 1 \in 1..n /\ j + 1 \in 1..n /\ i < j + 1 /\ i + 1 < j + 1
    BY <1>1, <2>1
  <2>4. CASE j < p
    <3>1. q[i] = blocks[i] /\ q[j] = blocks[j]
      BY <1>1, <1>2, <2>1, <2>4
    <3> QED
      BY <2>1, <2>2, <2>3, <3>1
  <2>5. CASE i < p /\ j >= p
    <3>1. q[i] = blocks[i] /\ q[j] = blocks[j + 1]
      BY <1>1, <1>2, <2>1, <2>5
    <3> QED
      BY <2>2, <2>3, <3>1
  <2>6. CASE i >= p
    <3>1. q[i] = blocks[i + 1] /\ q[j] = blocks[j + 1]
      BY <1>1, <1>2, <2>1, <2>6
    <3> QED
      BY <2>2, <2>3, <3>1
  <2> QED
    BY <1>1, <2>1, <2>4, <2>5, <2>6
<1>6. ToSet(q) = ToSet(blocks) \ {blocks[p]}
  <2>1. DOMAIN q = 1..(n - 1)
    BY <1>1, <1>2, LenProperties
  <2>2. \A i \in 1..n : i # p => blocks[i] # blocks[p]
    BY <1>1, <1>3, <1>4 DEF Rising
  <2>3. ASSUME NEW i \in 1..(n - 1) PROVE \E j \in 1..n : j # p /\ q[i] = blocks[j]
    <3>1. i \in 1..n /\ i + 1 \in 1..n /\ (i >= p => i + 1 # p) /\ (i < p => i # p)
      BY <1>1
    <3>2. CASE i < p
      <4>1. q[i] = blocks[i]
        BY <1>2, <3>2
      <4> QED
        BY <3>1, <3>2, <4>1
    <3>3. CASE ~(i < p)
      <4>1. q[i] = blocks[i + 1] /\ i + 1 # p
        BY <1>1, <1>2, <3>1, <3>3
      <4> QED
        BY <3>1, <4>1
    <3> QED
      BY <3>2, <3>3
  <2>4. ASSUME NEW j \in 1..n, j # p PROVE \E i \in 1..(n - 1) : q[i] = blocks[j]
    <3>1. j < p => j \in 1..(n - 1) /\ q[j] = blocks[j]
      BY <1>1, <1>2
    <3>2. j > p => j - 1 \in 1..(n - 1) /\ ~(j - 1 < p) /\ (j - 1) + 1 = j
      BY <1>1
    <3>3. j > p => q[j - 1] = blocks[j]
      BY <1>1, <1>2, <3>2
    <3> QED
      BY <1>1, <2>4, <3>1, <3>2, <3>3
  <2>5. ToSet(q) = {q[i] : i \in 1..(n - 1)} /\ ToSet(blocks) = {blocks[i] : i \in 1..n}
    BY <1>1, <2>1 DEF ToSet
  <2>6. ASSUME NEW x \in ToSet(q) PROVE x \in ToSet(blocks) \ {blocks[p]}
    BY <1>1, <2>2, <2>3, <2>5
  <2>7. ASSUME NEW x \in ToSet(blocks) \ {blocks[p]} PROVE x \in ToSet(q)
    <3>1. PICK j \in 1..n : x = blocks[j]
      BY <2>5
    <3>2. j # p
      BY <3>1
    <3> QED
      BY <2>4, <2>5, <3>1, <3>2
  <2> QED
    BY <2>6, <2>7
<1> QED
  BY <1>2, <1>4, <1>5, <1>6 DEF IsArray

-----------------------------------------------------------------------------
\* The inductive invariant of the store.

Waiting == {"idle", "done", "failed"}
Spares(f) == {t \in Callers : f[t] > 0}
Beside(t, f, g) == \A u \in Callers \ {t} : g[u] = f[u]

StoreTypeOK ==
    /\ IsArray(blocks) /\ capacity \in Nat /\ arrays \in Int
    /\ spare \in [Callers -> Nat] /\ need \in [Callers -> Nat]
    /\ DOMAIN call = Callers /\ \A t \in Callers : call[t] \in Promise!Requests \/ call[t].op \in Waiting

\* A call holds an array, or is about to ask for one, only while it puts or
\* visits, and never both.
CallHolds(t) ==
    /\ call[t].op \notin {"put", "visit"} => spare[t] = 0 /\ need[t] = 0
    /\ need[t] > 0 => spare[t] = 0

StoreInv ==
    /\ StoreTypeOK /\ Len(blocks) <= capacity
    /\ arrays = ArraysOf(capacity) + Cardinality(Spares(spare))
    /\ \A t \in Callers : CallHolds(t)

\* When one call exchanges its array, the number of arrays of calls moves by it.
LEMMA SparesChange ==
    ASSUME NEW f, NEW g, NEW t \in Callers, Beside(t, f, g)
    PROVE  /\ Cardinality(Spares(f)) \in Nat /\ Cardinality(Spares(g)) \in Nat
           /\ Cardinality(Spares(g)) + ArraysOf(f[t]) = Cardinality(Spares(f)) + ArraysOf(g[t])
<1>1. /\ IsFiniteSet(Spares(f)) /\ Cardinality(Spares(f)) \in Nat
      /\ IsFiniteSet(Spares(g)) /\ Cardinality(Spares(g)) \in Nat
  BY StoreAssumption, FS_Subset, FS_CardinalityType DEF Spares
<1>2. ~(f[t] > 0) /\ g[t] > 0 => Spares(g) = Spares(f) \cup {t} /\ t \notin Spares(f)
  BY DEF Spares, Beside
<1>3. f[t] > 0 /\ ~(g[t] > 0) => Spares(f) = Spares(g) \cup {t} /\ t \notin Spares(g)
  BY DEF Spares, Beside
<1>4. (f[t] > 0 <=> g[t] > 0) => Spares(g) = Spares(f)
  BY DEF Spares, Beside
<1> QED
  BY <1>1, <1>2, <1>3, <1>4, FS_AddElement DEF ArraysOf

\* The empty store satisfies the invariant.
LEMMA StoreInitInv == StoreInit => StoreInv
<1> SUFFICES ASSUME StoreInit PROVE StoreInv
  OBVIOUS
<1>1. blocks = <<>> /\ Len(blocks) = 0 /\ IsArray(blocks)
  BY EmptySeq DEF StoreInit, IsArray, Rising
<1>2. Spares(spare) = {} /\ Cardinality(Spares(spare)) = 0
  BY FS_EmptySet DEF StoreInit, Spares
<1>3. StoreTypeOK
  BY <1>1 DEF StoreInit, StoreTypeOK, Waiting, Promise!Idle
<1> QED
  BY <1>1, <1>2, <1>3 DEF StoreInit, StoreInv, CallHolds, ArraysOf

\* A call that ends gives back the array it still has.
LEMMA FinishPreserves ==
    ASSUME NEW t \in Callers, NEW a
    PROVE  StoreInv /\ Finish(t, a) /\ need[t] = 0 /\ IsArray(blocks') /\ Len(blocks') <= capacity
           /\ capacity' = capacity => StoreInv'
<1>0. SUFFICES ASSUME StoreInv, Finish(t, a), need[t] = 0, IsArray(blocks'), Len(blocks') <= capacity,
                      capacity' = capacity
               PROVE  StoreInv'
  OBVIOUS
<1>1. /\ StoreTypeOK /\ need' = need /\ spare' = [spare EXCEPT ![t] = 0]
      /\ arrays' = arrays - ArraysOf(spare[t]) /\ call' = [call EXCEPT ![t] = Promise!Answered(a)]
  BY <1>0 DEF StoreInv, Finish, Answer
<1>2. /\ spare' \in [Callers -> Nat] /\ spare'[t] = 0 /\ Beside(t, spare, spare')
      /\ DOMAIN call' = Callers /\ call'[t].op = "done" /\ Beside(t, call, call')
  BY <1>1 DEF StoreTypeOK, Beside, Promise!Answered
<1>3. arrays' = ArraysOf(capacity') + Cardinality(Spares(spare')) /\ arrays' \in Int
  <2>1. /\ Cardinality(Spares(spare)) \in Nat /\ Cardinality(Spares(spare')) \in Nat
        /\ Cardinality(Spares(spare')) + ArraysOf(spare[t]) = Cardinality(Spares(spare)) + ArraysOf(spare'[t])
    BY <1>2, SparesChange
  <2>2. arrays = ArraysOf(capacity) + Cardinality(Spares(spare)) /\ ArraysOf(spare'[t]) = 0
    BY <1>0, <1>2 DEF StoreInv, ArraysOf
  <2>3. ArraysOf(capacity) \in Nat /\ ArraysOf(spare[t]) \in Nat
    BY DEF ArraysOf
  <2> QED
    BY <1>0, <1>1, <2>1, <2>2, <2>3
<1>4. StoreTypeOK'
  BY <1>0, <1>1, <1>2, <1>3 DEF StoreTypeOK, Beside, Waiting, IsArray, Rising
<1>5. ASSUME NEW u \in Callers PROVE CallHolds(u)'
  <2>1. CASE u = t
    BY <1>0, <1>1, <1>2, <2>1 DEF CallHolds
  <2>2. CASE u # t
    BY <1>0, <1>1, <1>2, <2>2 DEF StoreInv, CallHolds, Beside
  <2> QED
    BY <2>1, <2>2
<1> QED
  BY <1>0, <1>3, <1>4, <1>5 DEF StoreInv, Spares

\* The sum of what a step takes and gives back, rearranged.
LEMMA Rearranged ==
    \A c, d, e, f, k, l \in Nat : l + e = k + f => (c + k) + d - c + f - e = d + l
  OBVIOUS

\* What a step of one thread must respect: it keeps the array sorted and within
\* its capacity, counts the arrays it takes and gives back, and leaves what the
\* other threads hold alone.
LEMMA StepPreserves ==
    ASSUME NEW t \in Callers, StoreInv,
           IsArray(blocks'), capacity' \in Nat, Len(blocks') <= capacity',
           spare' \in [Callers -> Nat], need' \in [Callers -> Nat], DOMAIN call' = Callers,
           call'[t] \in Promise!Requests \/ call'[t].op \in Waiting,
           Beside(t, spare, spare'), Beside(t, need, need'), Beside(t, call, call'),
           CallHolds(t)',
           arrays' = arrays + ArraysOf(capacity') - ArraysOf(capacity) + ArraysOf(spare'[t]) - ArraysOf(spare[t])
    PROVE  StoreInv'
<1>1. arrays' = ArraysOf(capacity') + Cardinality(Spares(spare')) /\ arrays' \in Int
  <2>1. /\ Cardinality(Spares(spare)) \in Nat /\ Cardinality(Spares(spare')) \in Nat
        /\ Cardinality(Spares(spare')) + ArraysOf(spare[t]) = Cardinality(Spares(spare)) + ArraysOf(spare'[t])
    BY SparesChange
  <2>2. arrays = ArraysOf(capacity) + Cardinality(Spares(spare))
    BY DEF StoreInv
  <2>3. /\ ArraysOf(capacity) \in Nat /\ ArraysOf(capacity') \in Nat
        /\ ArraysOf(spare[t]) \in Nat /\ ArraysOf(spare'[t]) \in Nat
    BY DEF ArraysOf
  <2>4. (ArraysOf(capacity) + Cardinality(Spares(spare))) + ArraysOf(capacity') - ArraysOf(capacity)
                  + ArraysOf(spare'[t]) - ArraysOf(spare[t])
         = ArraysOf(capacity') + Cardinality(Spares(spare'))
    BY ONLY <2>1, <2>3, Rearranged
  <2>5. arrays' = ArraysOf(capacity') + Cardinality(Spares(spare'))
    BY <2>2, <2>4
  <2> QED
    BY <2>1, <2>3, <2>5
<1>2. \A u \in Callers : call'[u] \in Promise!Requests \/ call'[u].op \in Waiting
  BY DEF StoreInv, StoreTypeOK, Beside
<1>3. StoreTypeOK'
  BY <1>1, <1>2 DEF StoreTypeOK, Waiting, IsArray, Rising
<1>4. ASSUME NEW u \in Callers PROVE CallHolds(u)'
  <2>1. CASE u # t
    BY <2>1 DEF StoreInv, CallHolds, Beside
  <2> QED
    BY <2>1
<1> QED
  BY <1>1, <1>3, <1>4 DEF StoreInv, Spares

\* A call that works asks for what its request says.
LEMMA RequestOf ==
    ASSUME StoreInv, NEW t \in Callers
    PROVE  /\ call[t].op \notin Waiting => call[t] \in Promise!Requests
           /\ call[t].op = "put" => call[t].block \in Promise!Blocks /\ call[t].block.digest \in Int
           /\ call[t].op \in {"get", "contains", "remove"} => call[t].digest \in Int
<1>1. call[t] \in Promise!Requests \/ call[t].op \in Waiting
  BY DEF StoreInv, StoreTypeOK
<1>2. \A b \in Promise!Blocks : b.digest \in Int
  BY StoreAssumption DEF Promise!Blocks
<1>3. call[t].op = "put" => call[t].block \in Promise!Blocks
  BY <1>1 DEF Promise!Requests, Waiting
<1>4. call[t].op \in {"get", "contains", "remove"} => call[t].digest \in Addresses
  BY <1>1 DEF Promise!Requests, Waiting
<1> QED
  BY <1>1, <1>2, <1>3, <1>4, StoreAssumption

\* The capacity asked for holds one block more than a full array.
LEMMA GrowthSuffices ==
    ASSUME NEW c \in Nat
    PROVE  /\ Growth(c, c + 1) \in Nat /\ Growth(c, c + 1) >= c + 1
<1>1. InitialCapacity \in Nat /\ InitialCapacity >= 1
  BY StoreAssumption
<1> QED
  BY <1>1 DEF Growth

\* The call's array becomes the store's and the full one is given back.
LEMMA PutReplacesPreserves ==
    ASSUME StoreInv, NEW t \in Callers, PutReplaces(t)
    PROVE  StoreInv'
<1>1. /\ StoreTypeOK /\ need[t] = 0 /\ need' = need /\ call[t].op = "put" /\ ~Found(call[t].block.digest)
      /\ Len(blocks) + 1 <= spare[t] /\ spare[t] > capacity
      /\ blocks' = Inserted(call[t].block) /\ capacity' = spare[t]
      /\ call' = [call EXCEPT ![t] = Promise!Answered("added")] /\ spare' = [spare EXCEPT ![t] = 0]
      /\ arrays' = arrays - ArraysOf(capacity)
  BY DEF StoreInv, PutReplaces, Answer
<1>2. /\ spare \in [Callers -> Nat] /\ need \in [Callers -> Nat] /\ DOMAIN call = Callers /\ IsArray(blocks)
      /\ capacity \in Nat /\ arrays \in Int
  BY <1>1 DEF StoreTypeOK
<1>3. IsArray(blocks') /\ Len(blocks') = Len(blocks) + 1
  BY <1>1, <1>2, RequestOf, InsertedIsArray
<1>4. /\ spare' \in [Callers -> Nat] /\ need' \in [Callers -> Nat] /\ DOMAIN call' = Callers
      /\ spare'[t] = 0 /\ need'[t] = 0 /\ call'[t].op = "done"
      /\ Beside(t, spare, spare') /\ Beside(t, need, need') /\ Beside(t, call, call')
  BY <1>1, <1>2 DEF Beside, Promise!Answered
<1>5. spare[t] \in Nat /\ capacity' \in Nat /\ Len(blocks') <= capacity'
  BY <1>1, <1>2, <1>3
<1>6. arrays' = arrays + ArraysOf(capacity') - ArraysOf(capacity) + ArraysOf(spare'[t]) - ArraysOf(spare[t])
  BY <1>1, <1>2, <1>4 DEF ArraysOf
<1>7. CallHolds(t)' /\ call'[t].op \in Waiting
  BY <1>4 DEF CallHolds, Waiting
<1> QED
  BY <1>3, <1>4, <1>5, <1>6, <1>7, StepPreserves

\* A call that asks for a larger array gives back the one it has.
LEMMA AskingPreserves ==
    ASSUME StoreInv, NEW t \in Callers, call[t].op \in {"put", "visit"}, NEW n \in Nat,
           need' = [need EXCEPT ![t] = n], spare' = [spare EXCEPT ![t] = 0],
           arrays' = arrays - ArraysOf(spare[t]), UNCHANGED <<blocks, capacity, call>>
    PROVE  StoreInv'
<1>1. /\ spare \in [Callers -> Nat] /\ need \in [Callers -> Nat] /\ DOMAIN call = Callers /\ IsArray(blocks)
      /\ capacity \in Nat /\ arrays \in Int /\ Len(blocks) <= capacity
      /\ call[t] \in Promise!Requests \/ call[t].op \in Waiting
      /\ blocks' = blocks /\ capacity' = capacity /\ call' = call
  BY DEF StoreInv, StoreTypeOK
<1>2. /\ spare' \in [Callers -> Nat] /\ need' \in [Callers -> Nat] /\ DOMAIN call' = Callers
      /\ spare'[t] = 0 /\ call'[t].op \in {"put", "visit"}
      /\ Beside(t, spare, spare') /\ Beside(t, need, need') /\ Beside(t, call, call')
  BY <1>1 DEF Beside
<1>3. arrays' = arrays + ArraysOf(capacity') - ArraysOf(capacity) + ArraysOf(spare'[t]) - ArraysOf(spare[t])
  BY <1>1, <1>2 DEF ArraysOf
<1>4. CallHolds(t)'
  BY <1>2 DEF CallHolds
<1>5. IsArray(blocks') /\ Len(blocks') <= capacity' /\ capacity' \in Nat
      /\ (call'[t] \in Promise!Requests \/ call'[t].op \in Waiting)
  BY <1>1
<1> QED
  BY <1>2, <1>3, <1>4, <1>5, StepPreserves

\* The memory arrives and belongs to the call, or the call fails with nothing.
LEMMA AllocatePreserves ==
    ASSUME StoreInv, NEW t \in Callers, Allocate(t)
    PROVE  StoreInv'
<1>1. /\ spare \in [Callers -> Nat] /\ need \in [Callers -> Nat] /\ DOMAIN call = Callers /\ IsArray(blocks)
      /\ capacity \in Nat /\ arrays \in Int /\ Len(blocks) <= capacity
      /\ call[t] \in Promise!Requests \/ call[t].op \in Waiting
      /\ CallHolds(t)
  BY DEF StoreInv, StoreTypeOK
<1>2. /\ need[t] > 0 /\ need' = [need EXCEPT ![t] = 0] /\ blocks' = blocks /\ capacity' = capacity
      /\ call[t].op \in {"put", "visit"} /\ spare[t] = 0
  BY <1>1 DEF Allocate, CallHolds
<1>3. need' \in [Callers -> Nat] /\ need'[t] = 0 /\ Beside(t, need, need')
  BY <1>1, <1>2 DEF Beside
<1>4. IsArray(blocks') /\ Len(blocks') <= capacity' /\ capacity' \in Nat
  BY <1>1, <1>2
<1>5. CASE spare' = [spare EXCEPT ![t] = need[t]] /\ arrays' = arrays + 1 /\ UNCHANGED call
  <2>1. /\ spare' \in [Callers -> Nat] /\ spare'[t] = need[t] /\ Beside(t, spare, spare')
        /\ call' = call /\ DOMAIN call' = Callers /\ Beside(t, call, call')
    BY <1>1, <1>5 DEF Beside
  <2>2. arrays' = arrays + ArraysOf(capacity') - ArraysOf(capacity) + ArraysOf(spare'[t]) - ArraysOf(spare[t])
    BY <1>1, <1>2, <1>5, <2>1 DEF ArraysOf
  <2>3. CallHolds(t)' /\ (call'[t] \in Promise!Requests \/ call'[t].op \in Waiting)
    BY <1>1, <1>2, <1>3, <2>1 DEF CallHolds
  <2> QED
    BY <1>3, <1>4, <2>1, <2>2, <2>3, StepPreserves
<1>6. CASE call' = [call EXCEPT ![t] = Promise!NoMemory] /\ UNCHANGED <<spare, arrays>>
  <2>1. /\ spare' = spare /\ arrays' = arrays /\ Beside(t, spare, spare')
        /\ DOMAIN call' = Callers /\ call'[t].op = "failed" /\ Beside(t, call, call')
    BY <1>1, <1>6 DEF Beside, Promise!NoMemory
  <2>2. arrays' = arrays + ArraysOf(capacity') - ArraysOf(capacity) + ArraysOf(spare'[t]) - ArraysOf(spare[t])
    BY <1>1, <1>2, <2>1 DEF ArraysOf
  <2>3. CallHolds(t)' /\ call'[t].op \in Waiting
    BY <1>2, <1>3, <2>1 DEF CallHolds, Waiting
  <2> QED
    BY <1>1, <1>3, <1>4, <2>1, <2>2, <2>3, StepPreserves
<1> QED
  BY <1>5, <1>6 DEF Allocate

\* Clearing gives the one array of the store back and no other.
LEMMA ClearPreserves ==
    ASSUME StoreInv, NEW t \in Callers, Clear(t)
    PROVE  StoreInv'
<1>1. /\ spare \in [Callers -> Nat] /\ need \in [Callers -> Nat] /\ DOMAIN call = Callers
      /\ capacity \in Nat /\ arrays \in Int /\ CallHolds(t)
  BY DEF StoreInv, StoreTypeOK
<1>2. /\ call[t].op = "clear" /\ blocks' = <<>> /\ capacity' = 0 /\ arrays' = arrays - ArraysOf(capacity)
      /\ call' = [call EXCEPT ![t] = Promise!Answered({})] /\ spare' = spare /\ need' = need
  BY DEF Clear, Answer
<1>3. spare'[t] = 0 /\ need'[t] = 0 /\ spare[t] = 0
  BY <1>1, <1>2 DEF CallHolds
<1>4. IsArray(blocks') /\ Len(blocks') = 0
  BY <1>2, EmptySeq DEF IsArray, Rising
<1>5. /\ DOMAIN call' = Callers /\ call'[t].op = "done"
      /\ Beside(t, spare, spare') /\ Beside(t, need, need') /\ Beside(t, call, call')
  BY <1>1, <1>2 DEF Beside, Promise!Answered
<1>6. arrays' = arrays + ArraysOf(capacity') - ArraysOf(capacity) + ArraysOf(spare'[t]) - ArraysOf(spare[t])
  BY <1>1, <1>2, <1>3 DEF ArraysOf
<1>7. CallHolds(t)' /\ call'[t].op \in Waiting
  BY <1>3, <1>5 DEF CallHolds, Waiting
<1>8. capacity' \in Nat /\ Len(blocks') <= capacity' /\ spare' \in [Callers -> Nat] /\ need' \in [Callers -> Nat]
  BY <1>1, <1>2, <1>4
<1> QED
  BY <1>4, <1>5, <1>6, <1>7, <1>8, StepPreserves

\* A call that starts, or a caller that takes the answer, touches no array.
LEMMA EdgePreserves ==
    ASSUME StoreInv, NEW t \in Callers, Invoke(t) \/ Return(t)
    PROVE  StoreInv'
<1>1. /\ spare \in [Callers -> Nat] /\ need \in [Callers -> Nat] /\ DOMAIN call = Callers /\ IsArray(blocks)
      /\ capacity \in Nat /\ arrays \in Int /\ Len(blocks) <= capacity /\ CallHolds(t)
  BY DEF StoreInv, StoreTypeOK
<1>2. /\ call[t].op \in Waiting /\ Beside(t, call, call') /\ DOMAIN call' = Callers
      /\ call'[t] \in Promise!Requests \/ call'[t].op \in Waiting
      /\ blocks' = blocks /\ capacity' = capacity /\ arrays' = arrays /\ spare' = spare /\ need' = need
  BY <1>1 DEF Invoke, Return, Promise!Idle, Beside, Waiting
<1>3. spare[t] = 0 /\ need[t] = 0
  BY <1>1, <1>2 DEF CallHolds, Waiting
<1>4. CallHolds(t)' /\ Beside(t, spare, spare') /\ Beside(t, need, need')
  BY <1>2, <1>3 DEF CallHolds, Beside
<1>5. arrays' = arrays + ArraysOf(capacity') - ArraysOf(capacity) + ArraysOf(spare'[t]) - ArraysOf(spare[t])
  BY <1>1, <1>2, <1>3 DEF ArraysOf
<1>6. IsArray(blocks') /\ Len(blocks') <= capacity' /\ capacity' \in Nat /\ spare' \in [Callers -> Nat]
      /\ need' \in [Callers -> Nat]
  BY <1>1, <1>2
<1> QED
  BY <1>2, <1>4, <1>5, <1>6, StepPreserves

\* No step of any thread leaves the invariant of the store.
LEMMA StoreStep == StoreInv /\ [StoreNext]_storeVars => StoreInv'
<1>0. SUFFICES ASSUME StoreInv, [StoreNext]_storeVars PROVE StoreInv'
  OBVIOUS
<1>1. IsArray(blocks) /\ Len(blocks) <= capacity /\ Len(blocks) \in Nat /\ capacity \in Nat
  BY <1>0, BlockDigests DEF StoreInv, StoreTypeOK
<1>2. CASE UNCHANGED storeVars
  BY <1>0, <1>2 DEF StoreInv, StoreTypeOK, CallHolds, Spares, storeVars, IsArray, Rising
<1>3. ASSUME NEW t \in Callers, Working(t) \/ Invoke(t) \/ Return(t) PROVE StoreInv'
  <2>0. /\ CallHolds(t) /\ need[t] \in Nat /\ spare[t] \in Nat
    BY <1>0 DEF StoreInv, StoreTypeOK
  <2>1. CASE Count(t) \/ StoreContains(t) \/ TryGet(t)
    <3>1. /\ blocks' = blocks /\ capacity' = capacity /\ need[t] = 0
          /\ \E a : Finish(t, a)
      BY <2>0, <2>1 DEF Count, StoreContains, TryGet, Quick, CallHolds
    <3> QED
      BY <1>0, <1>1, <3>1, FinishPreserves
  <2>2. CASE PutPresent(t) \/ VisitCopies(t)
    <3>1. /\ blocks' = blocks /\ capacity' = capacity /\ need[t] = 0
          /\ \E a : Finish(t, a)
      BY <2>2 DEF PutPresent, VisitCopies, Quick
    <3> QED
      BY <1>0, <1>1, <3>1, FinishPreserves
  <2>3. CASE PutFits(t)
    <3>1. /\ blocks' = Inserted(call[t].block) /\ capacity' = capacity /\ need[t] = 0 /\ Finish(t, "added")
          /\ call[t].op = "put" /\ ~Found(call[t].block.digest) /\ Len(blocks) < capacity
      BY <2>3 DEF PutFits
    <3>2. IsArray(blocks') /\ Len(blocks') = Len(blocks) + 1
      BY <1>0, <1>1, <3>1, RequestOf, InsertedIsArray
    <3>3. Len(blocks') <= capacity
      BY <1>1, <3>1, <3>2
    <3> QED
      BY <1>0, <3>1, <3>2, <3>3, FinishPreserves
  <2>4. CASE StoreRemove(t)
    <3>1. /\ call[t].op = "remove" /\ Finish(t, Found(call[t].digest)) /\ capacity' = capacity
          /\ blocks' = IF Found(call[t].digest) THEN RemoveAt(blocks, LowerBound(call[t].digest)) ELSE blocks
      BY <2>4 DEF StoreRemove, Quick
    <3>2. need[t] = 0
      BY <2>0, <3>1 DEF CallHolds
    <3>3. Found(call[t].digest) => LowerBound(call[t].digest) \in 1..Len(blocks)
      BY <1>0, <1>1, <3>1, RequestOf, FoundExact
    <3>4. IsArray(blocks') /\ Len(blocks') <= Len(blocks) /\ Len(blocks') \in Int
      <4>1. CASE Found(call[t].digest)
        BY <1>1, <3>1, <3>3, <4>1, RemovedIsArray
      <4>2. CASE ~Found(call[t].digest)
        BY <1>1, <3>1, <4>2
      <4> QED
        BY <4>1, <4>2
    <3>5. Len(blocks') <= capacity
      BY <1>1, <3>4
    <3> QED
      BY <1>0, <3>1, <3>2, <3>4, <3>5, FinishPreserves
  <2>5. CASE PutReplaces(t)
    BY <1>0, <2>5, PutReplacesPreserves
  <2>6. CASE PutTooSmall(t)
    <3>1. Len(blocks) = capacity
      BY <1>1, <2>6 DEF PutTooSmall
    <3>2. Growth(capacity, Len(blocks) + 1) \in Nat
      BY <1>1, <3>1, GrowthSuffices
    <3>3. /\ call[t].op \in {"put", "visit"} /\ UNCHANGED <<blocks, capacity, call>>
          /\ need' = [need EXCEPT ![t] = Growth(capacity, Len(blocks) + 1)]
          /\ spare' = [spare EXCEPT ![t] = 0] /\ arrays' = arrays - ArraysOf(spare[t])
      BY <2>6 DEF PutTooSmall
    <3> QED
      BY <1>0, <3>2, <3>3, AskingPreserves
  <2>7. CASE VisitTooSmall(t)
    <3>1. /\ call[t].op \in {"put", "visit"} /\ UNCHANGED <<blocks, capacity, call>>
          /\ need' = [need EXCEPT ![t] = Len(blocks)]
          /\ spare' = [spare EXCEPT ![t] = 0] /\ arrays' = arrays - ArraysOf(spare[t])
      BY <2>7 DEF VisitTooSmall
    <3> QED
      BY <1>0, <1>1, <3>1, AskingPreserves
  <2>8. CASE Allocate(t)
    BY <1>0, <2>8, AllocatePreserves
  <2>9. CASE Clear(t)
    BY <1>0, <2>9, ClearPreserves
  <2>10. CASE Invoke(t) \/ Return(t)
    BY <1>0, <2>10, EdgePreserves
  <2> QED
    BY <1>3, <2>1, <2>2, <2>3, <2>4, <2>5, <2>6, <2>7, <2>8, <2>9, <2>10 DEF Working
<1> QED
  BY <1>0, <1>2, <1>3 DEF StoreNext

\* The invariant of the store holds in every state.
THEOREM StoreInvariance == StoreSpec => []StoreInv
<1> QED
  BY StoreInitInv, StoreStep, PTL DEF StoreSpec

\* For any number of threads, digests and any capacity to start with: the array
\* stays sorted within its capacity and every allocated array has one owner,
\* though a put drops the lock to allocate (memory_block_store_put).
THEOREM NoArrayLost == StoreSpec => []ArraysOwned
<1>1. StoreInv => ArraysOwned
  <2>0. SUFFICES ASSUME StoreInv PROVE ArraysOwned
    OBVIOUS
  <2>1. Len(blocks) \in Nat /\ Len(blocks) <= capacity /\ Rising(blocks)
    BY <2>0, BlockDigests DEF StoreInv, StoreTypeOK, IsArray
  <2>2. ASSUME NEW i \in 2..Len(blocks) PROVE blocks[i - 1].digest < blocks[i].digest
    <3>1. i - 1 \in 1..Len(blocks) /\ i \in 1..Len(blocks) /\ i - 1 < i
      BY <2>1
    <3> QED
      BY <2>1, <3>1 DEF Rising
  <2>3. \A t \in Callers : call[t].op \notin {"put", "visit"} => spare[t] = 0 /\ need[t] = 0
    BY <2>0 DEF StoreInv, CallHolds
  <2> QED
    BY <2>0, <2>1, <2>2, <2>3 DEF ArraysOwned, StoreInv, Spares
<1> QED
  BY <1>1, StoreInvariance, PTL

-----------------------------------------------------------------------------
\* The array shows what the abstract store holds.

\* A sorted array lists the content without repeats.
LEMMA ArrayShowsContent ==
    ASSUME IsArray(blocks)
    PROVE  /\ content = {blocks[i] : i \in 1..Len(blocks)}
           /\ Promise!Addressed(content) = {blocks[i].digest : i \in DOMAIN blocks}
           /\ Cardinality(content) = Len(blocks)
<1>1. Len(blocks) \in Nat /\ DOMAIN blocks = 1..Len(blocks)
  BY BlockDigests
<1>2. content = {blocks[i] : i \in 1..Len(blocks)}
  BY <1>1 DEF content, ToSet
<1>3. Promise!Addressed(content) = {blocks[i].digest : i \in DOMAIN blocks}
  BY <1>1, <1>2 DEF Promise!Addressed
<1>4. Cardinality(content) = Len(blocks)
  <2> DEFINE f == [i \in 1..Len(blocks) |-> blocks[i]]
  <2>1. \A i \in 1..Len(blocks) : blocks[i].digest \in Int
    BY BlockDigests
  <2>2. \A i, j \in 1..Len(blocks) : blocks[i] = blocks[j] => i = j
    BY <1>1, <2>1 DEF IsArray, Rising
  <2>3. f \in Bijection(1..Len(blocks), content)
    BY <1>2, <2>2 DEF Bijection, Injection, Surjection, IsInjective
  <2>4. IsFiniteSet(1..Len(blocks)) /\ Cardinality(1..Len(blocks)) = Len(blocks)
    <3>1. 1 \in Int /\ Len(blocks) \in Int
      BY <1>1
    <3>2. /\ IsFiniteSet(1..Len(blocks))
          /\ Cardinality(1..Len(blocks)) = IF 1 > Len(blocks) THEN 0 ELSE Len(blocks) - 1 + 1
      BY <3>1, FS_Interval
    <3> QED
      BY <1>1, <3>2
  <2>5. Cardinality(content) = Cardinality(1..Len(blocks))
    BY <2>3, <2>4, FS_Bijection DEF ExistsBijection
  <2> QED
    BY <2>4, <2>5
<1> QED
  BY <1>2, <1>3, <1>4

\* The search finds the block that the content has at a digest, or that it has none.
LEMMA FoundShowsBlock ==
    ASSUME IsArray(blocks), NEW d \in Int
    PROVE  /\ Found(d) => Promise!At(content, d) = {blocks[LowerBound(d)]} /\ blocks[LowerBound(d)] \in content
           /\ ~Found(d) => Promise!At(content, d) = {}
           /\ Found(d) <=> d \in Promise!Addressed(content)
           /\ Found(d) <=> Promise!At(content, d) # {}
<1>1. content = {blocks[i] : i \in 1..Len(blocks)} /\ DOMAIN blocks = 1..Len(blocks)
      /\ Promise!Addressed(content) = {blocks[i].digest : i \in DOMAIN blocks}
  BY ArrayShowsContent, BlockDigests
<1>2. /\ Found(d) <=> \E i \in 1..Len(blocks) : blocks[i].digest = d
      /\ Found(d) => LowerBound(d) \in 1..Len(blocks) /\ blocks[LowerBound(d)].digest = d
      /\ \A i \in 1..Len(blocks) : blocks[i].digest = d => i = LowerBound(d)
  BY FoundExact
<1>3. Found(d) <=> d \in Promise!Addressed(content)
  BY <1>1, <1>2
<1>4. Found(d) => Promise!At(content, d) = {blocks[LowerBound(d)]} /\ blocks[LowerBound(d)] \in content
  BY <1>1, <1>2 DEF Promise!At
<1>5. ~Found(d) => Promise!At(content, d) = {}
  BY <1>1, <1>2 DEF Promise!At
<1> QED
  BY <1>3, <1>4, <1>5

\* A step that leaves behind the content of a request and answers it performs
\* the request.
LEMMA Performed ==
    ASSUME StoreInv, NEW t \in Callers, call[t].op \notin Waiting, NEW a,
           Promise!Effect(content, call[t]) = <<content', a>>, Answer(t, a)
    PROVE  Promise!Next
<1>1. call[t] \in Promise!Requests
  BY RequestOf
<1>2. /\ content' = Promise!Effect(content, call[t])[1]
      /\ call' = [call EXCEPT ![t] = Promise!Answered(Promise!Effect(content, call[t])[2])]
  BY DEF Answer
<1>3. Promise!Perform(t)
  BY <1>1, <1>2 DEF Promise!Perform
<1> QED
  BY <1>3 DEF Promise!Next

\* Every step performs one request as if alone, fails it for want of memory, or
\* changes nothing that a caller can see.
LEMMA StepRefines ==
    ASSUME StoreInv, [StoreNext]_storeVars
    PROVE  [Promise!Next]_<<content, call>>
<1>1. IsArray(blocks) /\ Len(blocks) \in Nat
  BY BlockDigests DEF StoreInv, StoreTypeOK
<1>2. blocks' = blocks => content' = content
  BY DEF content
<1>3. CASE UNCHANGED storeVars
  BY <1>2, <1>3 DEF storeVars
<1>4. ASSUME NEW t \in Callers, Working(t) \/ Invoke(t) \/ Return(t)
      PROVE  Promise!Next \/ UNCHANGED <<content, call>>
  <2>0. /\ call[t].op = "put" => call[t].block \in Promise!Blocks /\ call[t].block.digest \in Int
        /\ call[t].op \in {"get", "contains", "remove"} => call[t].digest \in Int
    BY RequestOf
  <2>1. CASE Count(t)
    <3>1. call[t].op = "count" /\ Answer(t, Len(blocks)) /\ content' = content
      BY <1>2, <2>1 DEF Count, Quick, Finish
    <3>2. Promise!Cardinality(content) = Cardinality(content)
      BY DEF Promise!Cardinality, Cardinality
    <3>3. Promise!Effect(content, call[t]) = <<content', Len(blocks)>>
      BY <1>1, <3>1, <3>2, ArrayShowsContent DEF Promise!Effect
    <3> QED
      BY <3>1, <3>3, Performed DEF Waiting
  <2>2. CASE StoreContains(t)
    <3>1. call[t].op = "contains" /\ Answer(t, Found(call[t].digest)) /\ content' = content
      BY <1>2, <2>2 DEF StoreContains, Quick, Finish
    <3>2. Found(call[t].digest) = (Promise!At(content, call[t].digest) # {})
      BY <1>1, <2>0, <3>1, FoundShowsBlock DEF Found
    <3>3. Promise!Effect(content, call[t]) = <<content', Found(call[t].digest)>>
      BY <3>1, <3>2 DEF Promise!Effect
    <3> QED
      BY <3>1, <3>3, Performed DEF Waiting
  <2>3. CASE TryGet(t)
    <3> DEFINE a == IF Found(call[t].digest) THEN {blocks[LowerBound(call[t].digest)]} ELSE {}
    <3>1. call[t].op = "get" /\ Answer(t, a) /\ content' = content
      BY <1>2, <2>3 DEF TryGet, Quick, Finish
    <3>2. a = Promise!At(content, call[t].digest)
      BY <1>1, <2>0, <3>1, FoundShowsBlock
    <3> HIDE DEF a
    <3>3. Promise!Effect(content, call[t]) = <<content', a>>
      BY <3>1, <3>2 DEF Promise!Effect
    <3> QED
      BY <3>1, <3>3, Performed DEF Waiting
  <2>4. CASE PutPresent(t)
    <3> DEFINE b == call[t].block
               a == IF blocks[LowerBound(b.digest)] = b THEN "identical" ELSE "conflict"
    <3>1. call[t].op = "put" /\ Answer(t, a) /\ content' = content /\ Found(b.digest)
      BY <1>2, <2>4 DEF PutPresent, Finish
    <3>2. /\ b.digest \in Promise!Addressed(content)
          /\ Promise!At(content, b.digest) = {blocks[LowerBound(b.digest)]}
          /\ blocks[LowerBound(b.digest)] \in content
      BY <1>1, <2>0, <3>1, FoundShowsBlock
    <3>3. b \in content <=> blocks[LowerBound(b.digest)] = b
      BY <3>2 DEF Promise!At
    <3>4. Promise!Effect(content, call[t]) = <<content', a>>
      BY <3>1, <3>2, <3>3 DEF Promise!Effect
    <3> QED
      BY <3>1, <3>4, Performed DEF Waiting
  <2>5. CASE PutFits(t) \/ PutReplaces(t)
    <3> DEFINE b == call[t].block
    <3>1. call[t].op = "put" /\ Answer(t, "added") /\ blocks' = Inserted(b) /\ ~Found(b.digest)
      BY <2>5 DEF PutFits, PutReplaces, Finish
    <3>2. content' = content \cup {b} /\ b.digest \notin Promise!Addressed(content)
      BY <1>1, <2>0, <3>1, FoundShowsBlock, InsertedIsArray DEF content
    <3>3. Promise!Effect(content, call[t]) = <<content', "added">>
      BY <3>1, <3>2 DEF Promise!Effect
    <3> QED
      BY <3>1, <3>3, Performed DEF Waiting
  <2>6. CASE StoreRemove(t)
    <3> DEFINE d == call[t].digest
    <3>1. /\ call[t].op = "remove" /\ Answer(t, Found(d))
          /\ blocks' = IF Found(d) THEN RemoveAt(blocks, LowerBound(d)) ELSE blocks
      BY <2>6 DEF StoreRemove, Quick, Finish
    <3>2. Found(d) = (Promise!At(content, d) # {})
      BY <1>1, <2>0, <3>1, FoundShowsBlock DEF Found
    <3>3. content' = content \ Promise!At(content, d)
      <4>1. CASE Found(d)
        <5>1. LowerBound(d) \in 1..Len(blocks) /\ Promise!At(content, d) = {blocks[LowerBound(d)]}
          BY <1>1, <2>0, <3>1, <4>1, FoundExact, FoundShowsBlock
        <5> QED
          BY <1>1, <3>1, <4>1, <5>1, RemovedIsArray DEF content
      <4>2. CASE ~Found(d)
        BY <1>2, <3>1, <3>2, <4>2
      <4> QED
        BY <4>1, <4>2
    <3>4. Promise!Effect(content, call[t]) = <<content', Found(d)>>
      BY <3>1, <3>2, <3>3 DEF Promise!Effect
    <3> QED
      BY <3>1, <3>4, Performed DEF Waiting
  <2>7. CASE Clear(t)
    <3>1. call[t].op = "clear" /\ Answer(t, {}) /\ content' = {}
      BY <2>7, EmptySeq DEF Clear, content, ToSet
    <3>2. Promise!Effect(content, call[t]) = <<content', {}>>
      BY <3>1 DEF Promise!Effect
    <3> QED
      BY <3>1, <3>2, Performed DEF Waiting
  <2>8. CASE VisitCopies(t)
    <3> DEFINE a == {blocks[i].digest : i \in DOMAIN blocks}
    <3>1. call[t].op = "visit" /\ Answer(t, a) /\ content' = content
      BY <1>2, <2>8 DEF VisitCopies, Quick, Finish
    <3>2. a = Promise!Addressed(content)
      BY <1>1, ArrayShowsContent
    <3> HIDE DEF a
    <3>3. Promise!Effect(content, call[t]) = <<content', a>>
      BY <3>1, <3>2 DEF Promise!Effect
    <3> QED
      BY <3>1, <3>3, Performed DEF Waiting
  <2>9. CASE PutTooSmall(t) \/ VisitTooSmall(t)
    BY <1>2, <2>9 DEF PutTooSmall, VisitTooSmall
  <2>10. CASE Allocate(t)
    <3>1. /\ content' = content /\ call[t].op \in {"put", "visit"}
          /\ UNCHANGED call \/ call' = [call EXCEPT ![t] = Promise!NoMemory]
      <4>1. CallHolds(t) /\ need[t] \in Nat
        BY DEF StoreInv, StoreTypeOK
      <4> QED
        BY <1>2, <2>10, <4>1 DEF Allocate, CallHolds
    <3>2. call[t] \in Promise!Requests
      BY <3>1, RequestOf DEF Waiting
    <3>3. CASE UNCHANGED call
      BY <3>1, <3>3
    <3>4. CASE call' = [call EXCEPT ![t] = Promise!NoMemory]
      BY <3>1, <3>2, <3>4 DEF Promise!Next, Promise!Perform
    <3> QED
      BY <3>1, <3>3, <3>4
  <2>11. CASE Invoke(t)
    BY <1>2, <2>11 DEF Invoke, Promise!Next, Promise!Invoke
  <2>12. CASE Return(t)
    BY <1>2, <2>12 DEF Return, Promise!Next, Promise!Return
  <2> QED
    BY <1>4, <2>1, <2>2, <2>3, <2>4, <2>5, <2>6, <2>7, <2>8, <2>9, <2>10, <2>11, <2>12 DEF Working
<1> QED
  BY <1>3, <1>4 DEF StoreNext

\* Every call on the store takes effect at one moment, whatever other threads did
\* while it had let the lock go.
THEOREM CallsAtOneMoment == StoreSpec => StoreKeepsPromise
<1>1. StoreInv /\ [StoreNext]_storeVars => [Promise!Next]_<<content, call>>
  BY StepRefines
<1> QED
  BY <1>1, StoreInvariance, PTL DEF StoreSpec, StoreKeepsPromise

\* The sorted array behind its lock implements the store that BlockStore promises.
THEOREM StoreRefinesPromise == StoreSpec => Promise!Spec
<1>1. StoreInit => Promise!Init
  BY EmptySeq DEF StoreInit, Promise!Init, content, ToSet
<1> QED
  BY <1>1, CallsAtOneMoment, PTL DEF StoreSpec, StoreKeepsPromise, Promise!Spec
=============================================================================
