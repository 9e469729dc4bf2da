----------------------------- MODULE SessionProofs -----------------------------
(***************************************************************************)
(* Edit sessions of the hash map are safe for any number of maps, session  *)
(* states, handles, iterators and addresses: roots and sessions are        *)
(* counted exactly, an iterator that answers OK reads live nodes that hold *)
(* what they held, and a published version never changes.                  *)
(***************************************************************************)
EXTENDS HamtTransient, FiniteSetTheorems, TLAPS

-----------------------------------------------------------------------------
\* Counting owners.

\* Only a's part of a function on S changes.
Only(S, a, f, ff) == \A x \in S : x # a => ff[x] = f[x]

One(x, q) == IF x = q THEN 1 ELSE 0
MapOwners(f, q) == Cardinality({m \in Maps : f[m] = q})
SessionOwners(g, q) == Cardinality({s \in Sessions : g[s].root = q})
HandleOwners(h, s) == Cardinality({t \in Transients : h[t] = s})

\* Two sets that differ in at most one element differ in number by whether they
\* have it.
LEMMA Tally ==
    ASSUME NEW S, IsFiniteSet(S), NEW A \in SUBSET S, NEW B \in SUBSET S, NEW a,
           A \ {a} = B \ {a}
    PROVE  /\ Cardinality(A) \in Nat /\ Cardinality(B) \in Nat
           /\ Cardinality(B) + (IF a \in A THEN 1 ELSE 0) = Cardinality(A) + (IF a \in B THEN 1 ELSE 0)
<1>1. IsFiniteSet(A) /\ IsFiniteSet(B)
  BY FS_Subset
<1>2. Cardinality(A) \in Nat /\ Cardinality(B) \in Nat
  BY <1>1, FS_CardinalityType
<1>3. CASE a \in A /\ a \notin B
  <2>1. A = B \cup {a}
    BY <1>3
  <2>2. Cardinality(A) = Cardinality(B) + 1
    BY <2>1, <1>1, <1>3, FS_AddElement
  <2> QED
    BY <2>2, <1>2, <1>3
<1>4. CASE a \notin A /\ a \in B
  <2>1. B = A \cup {a}
    BY <1>4
  <2>2. Cardinality(B) = Cardinality(A) + 1
    BY <2>1, <1>1, <1>4, FS_AddElement
  <2> QED
    BY <2>2, <1>2, <1>4
<1>5. CASE a \in A <=> a \in B
  <2>1. A = B
    BY <1>5
  <2> QED
    BY <2>1, <1>2
<1> QED
  BY <1>3, <1>4, <1>5

\* A map variable that changes moves one reference.
LEMMA MapOwnersMove ==
    ASSUME NEW f, NEW ff, NEW m \in Maps, NEW q, Only(Maps, m, f, ff)
    PROVE  /\ MapOwners(f, q) \in Nat /\ MapOwners(ff, q) \in Nat
           /\ MapOwners(ff, q) + One(f[m], q) = MapOwners(f, q) + One(ff[m], q)
<1> DEFINE A == {n \in Maps : f[n] = q}
           B == {n \in Maps : ff[n] = q}
<1>1. A \in SUBSET Maps /\ B \in SUBSET Maps /\ A \ {m} = B \ {m}
  BY DEF Only
<1>2. (m \in A <=> f[m] = q) /\ (m \in B <=> ff[m] = q)
  OBVIOUS
<1> HIDE DEF A, B
<1>3. /\ Cardinality(A) \in Nat /\ Cardinality(B) \in Nat
      /\ Cardinality(B) + (IF m \in A THEN 1 ELSE 0) = Cardinality(A) + (IF m \in B THEN 1 ELSE 0)
  BY <1>1, SessionAssumption, Tally
<1> QED
  BY <1>2, <1>3 DEF MapOwners, One, A, B

\* So does a session.
LEMMA SessionOwnersMove ==
    ASSUME NEW g, NEW gg, NEW s \in Sessions, NEW q, Only(Sessions, s, g, gg)
    PROVE  /\ SessionOwners(g, q) \in Nat /\ SessionOwners(gg, q) \in Nat
           /\ SessionOwners(gg, q) + One(g[s].root, q) = SessionOwners(g, q) + One(gg[s].root, q)
<1> DEFINE A == {n \in Sessions : g[n].root = q}
           B == {n \in Sessions : gg[n].root = q}
<1>1. A \in SUBSET Sessions /\ B \in SUBSET Sessions /\ A \ {s} = B \ {s}
  BY DEF Only
<1>2. (s \in A <=> g[s].root = q) /\ (s \in B <=> gg[s].root = q)
  OBVIOUS
<1> HIDE DEF A, B
<1>3. /\ Cardinality(A) \in Nat /\ Cardinality(B) \in Nat
      /\ Cardinality(B) + (IF s \in A THEN 1 ELSE 0) = Cardinality(A) + (IF s \in B THEN 1 ELSE 0)
  BY <1>1, SessionAssumption, Tally
<1> QED
  BY <1>2, <1>3 DEF SessionOwners, One, A, B

\* And so does a handle.
LEMMA HandleOwnersMove ==
    ASSUME NEW h, NEW hh, NEW t \in Transients, NEW s, Only(Transients, t, h, hh)
    PROVE  /\ HandleOwners(h, s) \in Nat /\ HandleOwners(hh, s) \in Nat
           /\ HandleOwners(hh, s) + One(h[t], s) = HandleOwners(h, s) + One(hh[t], s)
<1> DEFINE A == {n \in Transients : h[n] = s}
           B == {n \in Transients : hh[n] = s}
<1>1. A \in SUBSET Transients /\ B \in SUBSET Transients /\ A \ {t} = B \ {t}
  BY DEF Only
<1>2. (t \in A <=> h[t] = s) /\ (t \in B <=> hh[t] = s)
  OBVIOUS
<1> HIDE DEF A, B
<1>3. /\ Cardinality(A) \in Nat /\ Cardinality(B) \in Nat
      /\ Cardinality(B) + (IF t \in A THEN 1 ELSE 0) = Cardinality(A) + (IF t \in B THEN 1 ELSE 0)
  BY <1>1, SessionAssumption, Tally
<1> QED
  BY <1>2, <1>3 DEF HandleOwners, One, A, B

\* Whoever owns is counted.
LEMMA OwnersCount ==
    /\ \A f, q : MapOwners(f, q) \in Nat /\ \A m \in Maps : f[m] = q => MapOwners(f, q) > 0
    /\ \A g, q : SessionOwners(g, q) \in Nat /\ \A s \in Sessions : g[s].root = q => SessionOwners(g, q) > 0
    /\ \A h, s : HandleOwners(h, s) \in Nat /\ \A t \in Transients : h[t] = s => HandleOwners(h, s) > 0
<1>1. ASSUME NEW S, IsFiniteSet(S), NEW A \in SUBSET S
      PROVE  Cardinality(A) \in Nat /\ (A # {} => Cardinality(A) > 0)
  <2>1. IsFiniteSet(A)
    BY <1>1, FS_Subset
  <2>2. Cardinality(A) \in Nat /\ (Cardinality(A) = 0 <=> A = {})
    BY <2>1, FS_CardinalityType, FS_EmptySet
  <2> QED
    BY <2>2
<1>2. ASSUME NEW f, NEW q
      PROVE  MapOwners(f, q) \in Nat /\ \A m \in Maps : f[m] = q => MapOwners(f, q) > 0
  <2> DEFINE A == {m \in Maps : f[m] = q}
  <2>1. A \in SUBSET Maps /\ \A m \in Maps : f[m] = q => A # {}
    OBVIOUS
  <2>2. MapOwners(f, q) = Cardinality(A)
    BY DEF MapOwners
  <2> HIDE DEF A
  <2> QED
    BY <1>1, <2>1, <2>2, SessionAssumption
<1>3. ASSUME NEW g, NEW q
      PROVE  SessionOwners(g, q) \in Nat /\ \A s \in Sessions : g[s].root = q => SessionOwners(g, q) > 0
  <2> DEFINE A == {s \in Sessions : g[s].root = q}
  <2>1. A \in SUBSET Sessions /\ \A s \in Sessions : g[s].root = q => A # {}
    OBVIOUS
  <2>2. SessionOwners(g, q) = Cardinality(A)
    BY DEF SessionOwners
  <2> HIDE DEF A
  <2> QED
    BY <1>1, <2>1, <2>2, SessionAssumption
<1>4. ASSUME NEW h, NEW s
      PROVE  HandleOwners(h, s) \in Nat /\ \A t \in Transients : h[t] = s => HandleOwners(h, s) > 0
  <2> DEFINE A == {t \in Transients : h[t] = s}
  <2>1. A \in SUBSET Transients /\ \A t \in Transients : h[t] = s => A # {}
    OBVIOUS
  <2>2. HandleOwners(h, s) = Cardinality(A)
    BY DEF HandleOwners
  <2> HIDE DEF A
  <2> QED
    BY <1>1, <2>1, <2>2, SessionAssumption
<1> QED
  BY <1>2, <1>3, <1>4

\* Nobody owns what is owned by none.
LEMMA NoOwners ==
    /\ \A f, q : (\A m \in Maps : f[m] # q) => MapOwners(f, q) = 0
    /\ \A g, q : (\A s \in Sessions : g[s].root # q) => SessionOwners(g, q) = 0
    /\ \A h, s : (\A t \in Transients : h[t] # s) => HandleOwners(h, s) = 0
<1>1. ASSUME NEW f, NEW q, \A m \in Maps : f[m] # q
      PROVE  MapOwners(f, q) = 0
  <2>1. {m \in Maps : f[m] = q} = {}
    BY <1>1
  <2> QED
    BY <2>1, FS_EmptySet DEF MapOwners
<1>2. ASSUME NEW g, NEW q, \A s \in Sessions : g[s].root # q
      PROVE  SessionOwners(g, q) = 0
  <2>1. {s \in Sessions : g[s].root = q} = {}
    BY <1>2
  <2> QED
    BY <2>1, FS_EmptySet DEF SessionOwners
<1>3. ASSUME NEW h, NEW s, \A t \in Transients : h[t] # s
      PROVE  HandleOwners(h, s) = 0
  <2>1. {t \in Transients : h[t] = s} = {}
    BY <1>3
  <2> QED
    BY <2>1, FS_EmptySet DEF HandleOwners
<1> QED
  BY <1>1, <1>2, <1>3

-----------------------------------------------------------------------------
\* The heap.

HeapOK(h) ==
    /\ DOMAIN h = Roots
    /\ \A q \in Roots : h[q].refs \in Nat /\ h[q] = [refs |-> h[q].refs, content |-> h[q].content]

\* The step from h to hh takes a reference to up and gives one to down back, and
\* a root that is alive before and after keeps its content.
Moves(h, hh, up, down) ==
    \A q \in Roots :
        /\ hh[q].refs = h[q].refs + One(up, q) - One(down, q)
        /\ h[q].refs > 0 /\ hh[q].refs > 0 => hh[q].content = h[q].content

\* d7_hamt_node_retain adds one reference and nothing else.
LEMMA RetainMoves ==
    ASSUME NEW h, HeapOK(h), NEW r \in Roots \cup {NoRoot}
    PROVE  HeapOK(Retain(h, r)) /\ Moves(h, Retain(h, r), r, NoRoot)
<1>1. CASE r = NoRoot
  BY <1>1, SessionAssumption DEF Retain, HeapOK, Moves, One
<1>2. CASE r \in Roots
  <2> DEFINE hh == [h EXCEPT ![r].refs = @ + 1]
  <2>1. Retain(h, r) = hh
    BY <1>2, SessionAssumption DEF Retain
  <2>2. DOMAIN hh = Roots
    BY DEF HeapOK
  <2>3. hh[r] = [refs |-> h[r].refs + 1, content |-> h[r].content]
    BY <1>2 DEF HeapOK
  <2>4. \A q \in Roots : q # r => hh[q] = h[q]
    BY DEF HeapOK
  <2> HIDE DEF hh
  <2>5. HeapOK(hh)
    BY <2>2, <2>3, <2>4 DEF HeapOK
  <2>6. Moves(h, hh, r, NoRoot)
    BY <2>3, <2>4, SessionAssumption DEF HeapOK, Moves, One
  <2> QED
    BY <2>1, <2>5, <2>6
<1> QED
  BY <1>1, <1>2

\* d7_hamt_node_release takes one reference; the content goes with the last one.
LEMMA ReleaseMoves ==
    ASSUME NEW h, HeapOK(h), NEW r \in Roots \cup {NoRoot}, r # NoRoot => h[r].refs > 0
    PROVE  HeapOK(Release(h, r)) /\ Moves(h, Release(h, r), NoRoot, r)
<1>1. CASE r = NoRoot
  BY <1>1, SessionAssumption DEF Release, HeapOK, Moves, One
<1>2. CASE r \in Roots
  <2> DEFINE hh == Release(h, r)
  <2>1. r # NoRoot /\ h[r].refs \in Nat /\ h[r].refs > 0
    BY <1>2, SessionAssumption DEF HeapOK
  <2>2. DOMAIN hh = Roots
    BY <2>1 DEF HeapOK, Release
  <2>3. h[r].refs = 1 => hh[r] = [refs |-> 0, content |-> <<>>]
    BY <2>1, <1>2 DEF HeapOK, Release, Freed
  <2>4. h[r].refs # 1 => hh[r] = [refs |-> h[r].refs - 1, content |-> h[r].content]
    BY <2>1, <1>2 DEF HeapOK, Release
  <2>5. \A q \in Roots : q # r => hh[q] = h[q]
    BY <2>1 DEF HeapOK, Release
  <2> HIDE DEF hh
  <2>6. hh[r].refs = h[r].refs - 1 /\ hh[r].refs \in Nat /\ hh[r] = [refs |-> hh[r].refs, content |-> hh[r].content]
    BY <2>1, <2>3, <2>4
  <2>7. hh[r].refs > 0 => hh[r].content = h[r].content
    BY <2>1, <2>3, <2>4
  <2>8. HeapOK(hh)
    BY <2>2, <2>5, <2>6 DEF HeapOK
  <2>9. Moves(h, hh, NoRoot, r)
    BY <2>1, <2>5, <2>6, <2>7, SessionAssumption DEF HeapOK, Moves, One
  <2> QED
    BY <2>8, <2>9 DEF hh
<1> QED
  BY <1>1, <1>2

\* The heap after a commit built its root at the address r.
Built(h, r, new) == IF r = NoRoot THEN h ELSE [h EXCEPT ![r] = [refs |-> 1, content |-> new]]

\* A commit builds its root at a free address before it releases the old one.
LEMMA CommitMoves ==
    ASSUME NEW h, HeapOK(h), NEW new, NEW r \in Roots \cup {NoRoot}, r # NoRoot => h[r].refs = 0,
           NEW old \in Roots \cup {NoRoot}, old # NoRoot => h[old].refs > 0
    PROVE  /\ HeapOK(Release(Built(h, r, new), old))
           /\ Moves(h, Release(Built(h, r, new), old), r, old)
<1> DEFINE mid == Built(h, r, new)
           hh == Release(mid, old)
<1>1. r # NoRoot => DOMAIN mid = Roots /\ mid[r] = [refs |-> 1, content |-> new] /\ \A q \in Roots : q # r => mid[q] = h[q]
  BY DEF HeapOK, Built
<1>2. r = NoRoot => mid = h
  BY DEF Built
<1>3. hh = Release(mid, old)
  OBVIOUS
<1> HIDE DEF mid, hh
<1>4. HeapOK(mid) /\ \A q \in Roots : mid[q].refs = h[q].refs + One(r, q)
  <2>1. CASE r = NoRoot
    BY <2>1, <1>2, SessionAssumption DEF HeapOK, One
  <2>2. CASE r # NoRoot
    BY <2>2, <1>1 DEF HeapOK, One
  <2> QED
    BY <2>1, <2>2
<1>5. r # NoRoot => r # old
  OBVIOUS
<1>6. old # NoRoot => mid[old].refs > 0
  BY <1>1, <1>2, <1>5
<1>7. HeapOK(hh) /\ Moves(mid, hh, NoRoot, old)
  BY <1>3, <1>4, <1>6, ReleaseMoves
<1>8. ASSUME NEW q \in Roots
      PROVE  /\ hh[q].refs = h[q].refs + One(r, q) - One(old, q)
             /\ h[q].refs > 0 /\ hh[q].refs > 0 => hh[q].content = h[q].content
  <2>1. hh[q].refs = mid[q].refs + One(NoRoot, q) - One(old, q)
    BY <1>7 DEF Moves
  <2>2. mid[q].refs = h[q].refs + One(r, q) /\ mid[q].refs \in Nat /\ h[q].refs \in Nat
    BY <1>4 DEF HeapOK
  <2>3. One(NoRoot, q) = 0
    BY SessionAssumption DEF One
  <2>4. One(old, q) \in {0, 1} /\ One(r, q) \in {0, 1}
    BY DEF One
  <2>5. hh[q].refs = h[q].refs + One(r, q) - One(old, q)
    BY <2>1, <2>2, <2>3, <2>4
  <2>6. h[q].refs > 0 => mid[q] = h[q]
    BY <1>1, <1>2, <2>2
  <2>7. mid[q].refs > 0 /\ hh[q].refs > 0 => hh[q].content = mid[q].content
    BY <1>7 DEF Moves
  <2> QED
    BY <2>5, <2>6, <2>7
<1>9. HeapOK(hh) /\ Moves(h, hh, r, old)
  BY <1>7, <1>8 DEF Moves
<1> QED
  BY <1>9 DEF hh, mid

-----------------------------------------------------------------------------
\* The invariant.

SessionTypeOK ==
    /\ HeapOK(heap)
    /\ maps \in [Maps -> Roots \cup {NoRoot, Unset}]
    /\ sess \in [Sessions -> [refs : Nat, version : Nat, active : BOOLEAN, root : Roots \cup {NoRoot}]]
    /\ hnd \in [Transients -> Sessions \cup {NoSession}]
    /\ DOMAIN iter = Iterators

\* A session state that no handle owns has no root, so that it can be used again.
VacantRootless == \A s \in Sessions : sess[s].refs = 0 => sess[s].root = NoRoot

\* An iterator borrows a session that some handle owns.  While the session has
\* the version at which the iterator was made, it has the root of that moment
\* too, with the content of that moment.
Borrows(it) ==
    it.sess # NoSession =>
       /\ it.sess \in Sessions /\ sess[it.sess].refs > 0
       /\ it.version \in Nat /\ it.version <= sess[it.sess].version
       /\ sess[it.sess].active /\ sess[it.sess].version = it.version =>
             it.root = sess[it.sess].root /\ ContentAt(it.root) = it.seen

SessionInv ==
    /\ SessionTypeOK /\ ReferencesBalanced /\ VacantRootless
    /\ \A i \in Iterators : Borrows(iter[i])

\* A root that stays alive keeps what it holds, whoever edits, publishes or
\* destroys: an address gets a new content only between two lives.
LiveFixed == \A q \in Roots : heap[q].refs > 0 /\ heap'[q].refs > 0 => heap'[q].content = heap[q].content

\* The balance in terms of owners.
LEMMA BalanceOwners ==
    ReferencesBalanced <=>
       /\ \A q \in Roots : heap[q].refs = MapOwners(maps, q) + SessionOwners(sess, q)
       /\ \A s \in Sessions : sess[s].refs = HandleOwners(hnd, s)
  BY DEF ReferencesBalanced, MapOwners, SessionOwners, HandleOwners

\* What somebody owns is alive.
LEMMA OwnedAlive ==
    ASSUME SessionInv
    PROVE  /\ \A m \in Maps : maps[m] \in Roots => heap[maps[m]].refs > 0
           /\ \A s \in Sessions : sess[s].root \in Roots => heap[sess[s].root].refs > 0
           /\ \A t \in Transients : hnd[t] \in Sessions => sess[hnd[t]].refs > 0
<1>1. /\ \A q \in Roots : heap[q].refs = MapOwners(maps, q) + SessionOwners(sess, q)
      /\ \A s \in Sessions : sess[s].refs = HandleOwners(hnd, s)
  BY BalanceOwners DEF SessionInv
<1>2. ASSUME NEW m \in Maps, maps[m] \in Roots PROVE heap[maps[m]].refs > 0
  <2>1. MapOwners(maps, maps[m]) \in Nat /\ MapOwners(maps, maps[m]) > 0 /\ SessionOwners(sess, maps[m]) \in Nat
    BY OwnersCount
  <2> QED
    BY <1>1, <1>2, <2>1
<1>3. ASSUME NEW s \in Sessions, sess[s].root \in Roots PROVE heap[sess[s].root].refs > 0
  <2>1. /\ SessionOwners(sess, sess[s].root) \in Nat /\ SessionOwners(sess, sess[s].root) > 0
        /\ MapOwners(maps, sess[s].root) \in Nat
    BY OwnersCount
  <2> QED
    BY <1>1, <1>3, <2>1
<1>4. ASSUME NEW t \in Transients, hnd[t] \in Sessions PROVE sess[hnd[t]].refs > 0
  <2>1. HandleOwners(hnd, hnd[t]) > 0
    BY OwnersCount
  <2> QED
    BY <1>1, <1>4, <2>1
<1> QED
  BY <1>2, <1>3, <1>4

\* The invariant holds before the first call.
LEMMA SessionsStart == SessionsInit => SessionInv
<1> SUFFICES ASSUME SessionsInit PROVE SessionInv
  OBVIOUS
<1> USE DEF SessionsInit
<1>1. HeapOK(heap)
  BY DEF HeapOK, Freed
<1>2. SessionTypeOK
  BY <1>1 DEF SessionTypeOK, NoState
<1>3. \A s \in Sessions : sess[s].root = NoRoot /\ sess[s].refs = 0
  BY DEF NoState
<1>4. \A q \in Roots : heap[q].refs = MapOwners(maps, q) + SessionOwners(sess, q)
  <2> SUFFICES ASSUME NEW q \in Roots PROVE heap[q].refs = MapOwners(maps, q) + SessionOwners(sess, q)
    OBVIOUS
  <2>1. q # NoRoot
    BY SessionAssumption
  <2>2. MapOwners(maps, q) = 0
    BY <2>1, NoOwners
  <2>3. SessionOwners(sess, q) = 0
    BY <2>1, <1>3, NoOwners
  <2> QED
    BY <2>2, <2>3 DEF Freed
<1>5. \A s \in Sessions : sess[s].refs = HandleOwners(hnd, s)
  <2> SUFFICES ASSUME NEW s \in Sessions PROVE sess[s].refs = HandleOwners(hnd, s)
    OBVIOUS
  <2>1. \A t \in Transients : hnd[t] # s
    BY SessionAssumption
  <2> QED
    BY <2>1, <1>3, NoOwners
<1>6. \A i \in Iterators : Borrows(iter[i])
  BY DEF Borrows, NoIterator
<1> QED
  BY <1>2, <1>3, <1>4, <1>5, <1>6, BalanceOwners DEF SessionInv, VacantRootless

\* A step that keeps the types, the count of every root and of every session, and
\* the iterators, keeps the invariant.  The iterators are kept if every session
\* that one of them borrows is still owned, has not gone back in version, and has
\* the root it had whenever it has the version it had.
LEMMA Keeps ==
    ASSUME SessionInv, SessionTypeOK', ReferencesBalanced', VacantRootless', LiveFixed, iter' = iter,
           \A i \in Iterators : iter[i].sess # NoSession =>
              LET old == sess[iter[i].sess]
                  new == sess'[iter[i].sess]
              IN  /\ new.refs > 0 /\ new.version >= old.version
                  /\ new.active /\ new.version = old.version => old.active /\ new.root = old.root
    PROVE  SessionInv'
<1> SUFFICES ASSUME NEW i \in Iterators PROVE Borrows(iter[i])'
  BY DEF SessionInv
<1> DEFINE it == iter[i]
<1>1. CASE it.sess = NoSession
  BY <1>1 DEF Borrows
<1>2. CASE it.sess # NoSession
  <2> DEFINE old == sess[it.sess]
             new == sess'[it.sess]
  <2>1. Borrows(it)
    BY DEF SessionInv
  <2>2. it.sess \in Sessions
    BY <2>1, <1>2 DEF Borrows
  <2>3. /\ old.version \in Nat /\ new.version \in Nat /\ new.refs > 0 /\ new.version >= old.version
        /\ new.active /\ new.version = old.version => old.active /\ new.root = old.root
    BY <1>2, <2>2 DEF SessionInv, SessionTypeOK
  <2>4. it.version \in Nat /\ it.version <= old.version
    BY <2>1, <1>2 DEF Borrows
  <2>5. ASSUME new.active, new.version = it.version
        PROVE  it.root = new.root /\ ContentAt(it.root)' = it.seen
    <3>1. old.version = it.version /\ new.version = old.version
      BY <2>3, <2>4, <2>5
    <3>2. old.active /\ new.root = old.root
      BY <3>1, <2>3, <2>5
    <3>3. it.root = old.root /\ ContentAt(it.root) = it.seen
      BY <3>1, <3>2, <2>1, <1>2 DEF Borrows
    <3>4. CASE it.root = NoRoot
      BY <3>4, <3>2, <3>3 DEF ContentAt
    <3>5. CASE it.root # NoRoot
      <4>1. it.root \in Roots
        BY <3>3, <3>5, <2>2 DEF SessionInv, SessionTypeOK
      <4>2. heap[it.root].refs > 0
        BY <4>1, <3>3, <2>2, OwnedAlive
      <4>3. heap'[it.root].refs > 0
        <5>1. heap'[it.root].refs = MapOwners(maps', it.root) + SessionOwners(sess', it.root)
          BY <4>1, BalanceOwners DEF ReferencesBalanced, MapOwners, SessionOwners
        <5>2. /\ MapOwners(maps', it.root) \in Nat /\ SessionOwners(sess', it.root) \in Nat
              /\ SessionOwners(sess', it.root) > 0
          BY <2>2, <3>2, <3>3, OwnersCount
        <5> QED
          BY <5>1, <5>2
      <4>4. heap'[it.root].content = heap[it.root].content
        BY <4>1, <4>2, <4>3 DEF LiveFixed
      <4> QED
        BY <4>4, <3>2, <3>3, <3>5 DEF ContentAt
    <3> QED
      BY <3>4, <3>5
  <2>6. it.version <= new.version
    BY <2>3, <2>4
  <2>7. iter'[i] = it
    OBVIOUS
  <2> QED
    BY <2>2, <2>3, <2>4, <2>5, <2>6, <2>7 DEF Borrows
<1> QED
  BY <1>1, <1>2

\* If the heap moves as the owners do, the balance is kept and no live root changes.
LEMMA BalanceKept ==
    ASSUME SessionInv, HeapOK(heap'), NEW up, NEW down, Moves(heap, heap', up, down),
           \A q \in Roots : MapOwners(maps', q) + SessionOwners(sess', q) + One(down, q)
                            = MapOwners(maps, q) + SessionOwners(sess, q) + One(up, q),
           \A s \in Sessions : sess'[s].refs = HandleOwners(hnd', s)
    PROVE  ReferencesBalanced' /\ LiveFixed
<1>1. ASSUME NEW q \in Roots
      PROVE  heap'[q].refs = MapOwners(maps', q) + SessionOwners(sess', q)
  <2>1. heap[q].refs = MapOwners(maps, q) + SessionOwners(sess, q)
    BY BalanceOwners DEF SessionInv
  <2>2. heap'[q].refs = heap[q].refs + One(up, q) - One(down, q)
    BY DEF Moves
  <2>3. /\ MapOwners(maps', q) \in Nat /\ SessionOwners(sess', q) \in Nat
        /\ MapOwners(maps, q) \in Nat /\ SessionOwners(sess, q) \in Nat
    BY OwnersCount
  <2>4. One(up, q) \in {0, 1} /\ One(down, q) \in {0, 1}
    BY DEF One
  <2> QED
    BY <2>1, <2>2, <2>3, <2>4
<1>2. ReferencesBalanced'
  BY <1>1 DEF ReferencesBalanced, MapOwners, SessionOwners, HandleOwners
<1>3. LiveFixed
  BY DEF LiveFixed, Moves
<1> QED
  BY <1>2, <1>3

\* A step changes one session.
LEMMA OneSessionMoves ==
    ASSUME NEW s \in Sessions, NEW q, \A x \in Sessions : x # s => sess'[x] = sess[x]
    PROVE  /\ SessionOwners(sess, q) \in Nat /\ SessionOwners(sess', q) \in Nat
           /\ SessionOwners(sess', q) + One(sess[s].root, q) = SessionOwners(sess, q) + One(sess'[s].root, q)
<1>1. Only(Sessions, s, sess, sess')
  BY DEF Only
<1> QED
  BY <1>1, SessionOwnersMove

\* A step changes one handle.
LEMMA OneHandleMoves ==
    ASSUME NEW t \in Transients, NEW s, \A x \in Transients : x # t => hnd'[x] = hnd[x]
    PROVE  /\ HandleOwners(hnd, s) \in Nat /\ HandleOwners(hnd', s) \in Nat
           /\ HandleOwners(hnd', s) + One(hnd[t], s) = HandleOwners(hnd, s) + One(hnd'[t], s)
<1>1. Only(Transients, t, hnd, hnd')
  BY DEF Only
<1> QED
  BY <1>1, HandleOwnersMove

\* A step changes one map variable.
LEMMA OneMapMoves ==
    ASSUME NEW m \in Maps, NEW q, \A x \in Maps : x # m => maps'[x] = maps[x]
    PROVE  /\ MapOwners(maps, q) \in Nat /\ MapOwners(maps', q) \in Nat
           /\ MapOwners(maps', q) + One(maps[m], q) = MapOwners(maps, q) + One(maps'[m], q)
<1>1. Only(Maps, m, maps, maps')
  BY DEF Only
<1> QED
  BY <1>1, MapOwnersMove

\* d7_hamt_map_to_transient takes a vacant session state and a reference.
LEMMA ToTransientKeeps ==
    ASSUME SessionInv, NEW m \in Maps, NEW t \in Transients, ToTransient(m, t)
    PROVE  SessionInv' /\ LiveFixed
<1> DEFINE root == maps[m]
           state == [refs |-> 1, version |-> 0, active |-> TRUE, root |-> root]
<1>1. PICK s \in Sessions : /\ sess[s].refs = 0
                            /\ sess' = [sess EXCEPT ![s] = state]
                            /\ hnd' = [hnd EXCEPT ![t] = s]
  BY DEF ToTransient
<1>2. maps' = maps /\ iter' = iter /\ hnd[t] = NoSession /\ heap' = Retain(heap, root)
  BY DEF ToTransient
<1>3. root \in Roots \cup {NoRoot}
  BY DEF ToTransient, SessionInv, SessionTypeOK
<1>4. HeapOK(heap') /\ Moves(heap, heap', root, NoRoot)
  BY <1>2, <1>3, RetainMoves DEF SessionInv, SessionTypeOK
<1>5. sess'[s] = state /\ \A u \in Sessions : u # s => sess'[u] = sess[u]
  BY <1>1 DEF SessionInv, SessionTypeOK
<1>6. hnd'[t] = s /\ \A u \in Transients : u # t => hnd'[u] = hnd[u]
  BY <1>1 DEF SessionInv, SessionTypeOK
<1>7. SessionTypeOK'
  <2>1. state \in [refs : Nat, version : Nat, active : BOOLEAN, root : Roots \cup {NoRoot}]
    BY <1>3
  <2> HIDE DEF state
  <2> QED
    BY <2>1, <1>1, <1>2, <1>4 DEF SessionInv, SessionTypeOK
<1>8. \A q \in Roots : MapOwners(maps', q) + SessionOwners(sess', q) + One(NoRoot, q)
                       = MapOwners(maps, q) + SessionOwners(sess, q) + One(root, q)
  <2> SUFFICES ASSUME NEW q \in Roots
               PROVE  MapOwners(maps', q) + SessionOwners(sess', q) + One(NoRoot, q)
                      = MapOwners(maps, q) + SessionOwners(sess, q) + One(root, q)
    OBVIOUS
  <2>1. sess[s].root = NoRoot /\ sess'[s].root = root
    BY <1>1, <1>5 DEF SessionInv, VacantRootless
  <2>2. /\ SessionOwners(sess, q) \in Nat /\ SessionOwners(sess', q) \in Nat
        /\ SessionOwners(sess', q) + One(NoRoot, q) = SessionOwners(sess, q) + One(root, q)
    <3>1. /\ SessionOwners(sess, q) \in Nat /\ SessionOwners(sess', q) \in Nat
          /\ SessionOwners(sess', q) + One(sess[s].root, q) = SessionOwners(sess, q) + One(sess'[s].root, q)
      BY <1>5, OneSessionMoves
    <3> QED
      BY <3>1, <2>1
  <2>3. MapOwners(maps', q) = MapOwners(maps, q) /\ MapOwners(maps, q) \in Nat
    BY <1>2, OwnersCount
  <2>4. One(NoRoot, q) \in {0, 1} /\ One(root, q) \in {0, 1}
    BY DEF One
  <2> HIDE DEF root
  <2> QED
    BY <2>2, <2>3, <2>4
<1>9. \A u \in Sessions : sess'[u].refs = HandleOwners(hnd', u)
  <2> SUFFICES ASSUME NEW u \in Sessions PROVE sess'[u].refs = HandleOwners(hnd', u)
    OBVIOUS
  <2>1. /\ HandleOwners(hnd, u) \in Nat /\ HandleOwners(hnd', u) \in Nat
        /\ HandleOwners(hnd', u) + One(NoSession, u) = HandleOwners(hnd, u) + One(s, u)
    <3>1. /\ HandleOwners(hnd, u) \in Nat /\ HandleOwners(hnd', u) \in Nat
          /\ HandleOwners(hnd', u) + One(hnd[t], u) = HandleOwners(hnd, u) + One(hnd'[t], u)
      BY <1>6, OneHandleMoves
    <3> QED
      BY <3>1, <1>2, <1>6
  <2>2. sess[u].refs = HandleOwners(hnd, u)
    BY BalanceOwners DEF SessionInv
  <2>3. One(NoSession, u) = 0 /\ One(s, u) = IF u = s THEN 1 ELSE 0
    BY SessionAssumption DEF One
  <2> QED
    BY <2>1, <2>2, <2>3, <1>1, <1>5
<1>10. ReferencesBalanced' /\ LiveFixed
  BY <1>4, <1>8, <1>9, BalanceKept
<1>11. VacantRootless'
  BY <1>5 DEF SessionInv, VacantRootless
<1>12. \A i \in Iterators : iter[i].sess # NoSession =>
          /\ iter[i].sess \in Sessions /\ sess'[iter[i].sess] = sess[iter[i].sess] /\ sess[iter[i].sess].refs > 0
  BY <1>1, <1>5 DEF SessionInv, Borrows
<1> QED
  <2>1. \A i \in Iterators : iter[i].sess # NoSession => sess[iter[i].sess].version \in Nat
    BY <1>12 DEF SessionInv, SessionTypeOK
  <2> QED
    BY <1>2, <1>7, <1>10, <1>11, <1>12, <2>1, Keeps

\* The cases of a handle that is cloned, consumed or in use.
LEMMA ActiveOwned ==
    ASSUME SessionInv, NEW t \in Transients, hnd[t] # NoSession
    PROVE  /\ hnd[t] \in Sessions /\ sess[hnd[t]].refs \in Nat /\ sess[hnd[t]].refs > 0
           /\ sess[hnd[t]].version \in Nat /\ sess[hnd[t]].root \in Roots \cup {NoRoot}
           /\ sess[hnd[t]].root # NoRoot => heap[sess[hnd[t]].root].refs > 0
<1>1. hnd[t] \in Sessions
  BY DEF SessionInv, SessionTypeOK
<1>2. sess[hnd[t]].refs \in Nat /\ sess[hnd[t]].version \in Nat /\ sess[hnd[t]].root \in Roots \cup {NoRoot}
  BY <1>1 DEF SessionInv, SessionTypeOK
<1> QED
  BY <1>1, <1>2, OwnedAlive

\* What an iterator borrows has the types of a session.
LEMMA BorrowedTyped ==
    ASSUME SessionInv, NEW i \in Iterators, iter[i].sess # NoSession
    PROVE  /\ iter[i].sess \in Sessions /\ sess[iter[i].sess].version \in Nat
           /\ sess[iter[i].sess].refs \in Nat /\ sess[iter[i].sess].refs > 0
<1>1. iter[i].sess \in Sessions /\ sess[iter[i].sess].refs > 0
  BY DEF SessionInv, Borrows
<1> QED
  BY <1>1 DEF SessionInv, SessionTypeOK

\* d7_hamt_map_transient_clone shares the session state and counts the handle.
LEMMA CloneKeeps ==
    ASSUME SessionInv, NEW t \in Transients, NEW u \in Transients, TransientClone(t, u)
    PROVE  SessionInv' /\ LiveFixed
<1> DEFINE s == hnd[t]
<1>1. /\ hnd[t] # NoSession /\ hnd[u] = NoSession /\ heap' = heap /\ maps' = maps /\ iter' = iter
      /\ sess' = [sess EXCEPT ![s].refs = @ + 1] /\ hnd' = [hnd EXCEPT ![u] = s]
  BY DEF TransientClone, Active
<1>2. s \in Sessions /\ sess[s].refs \in Nat /\ sess[s].refs > 0
  BY <1>1, ActiveOwned
<1>3. /\ sess'[s].refs = sess[s].refs + 1 /\ sess'[s].version = sess[s].version
      /\ sess'[s].active = sess[s].active /\ sess'[s].root = sess[s].root
      /\ \A x \in Sessions : x # s => sess'[x] = sess[x]
  BY <1>1, <1>2 DEF SessionInv, SessionTypeOK
<1>4. hnd'[u] = s /\ \A x \in Transients : x # u => hnd'[x] = hnd[x]
  BY <1>1 DEF SessionInv, SessionTypeOK
<1>5. SessionTypeOK'
  <2>1. sess' \in [Sessions -> [refs : Nat, version : Nat, active : BOOLEAN, root : Roots \cup {NoRoot}]]
    BY <1>1, <1>2 DEF SessionInv, SessionTypeOK
  <2> QED
    BY <2>1, <1>1, <1>2 DEF SessionInv, SessionTypeOK
<1>6. \A q \in Roots : heap'[q].refs = MapOwners(maps', q) + SessionOwners(sess', q)
  <2> SUFFICES ASSUME NEW q \in Roots PROVE heap'[q].refs = MapOwners(maps', q) + SessionOwners(sess', q)
    OBVIOUS
  <2>1. /\ SessionOwners(sess, q) \in Nat /\ SessionOwners(sess', q) \in Nat
        /\ SessionOwners(sess', q) + One(sess[s].root, q) = SessionOwners(sess, q) + One(sess[s].root, q)
    <3>1. /\ SessionOwners(sess, q) \in Nat /\ SessionOwners(sess', q) \in Nat
          /\ SessionOwners(sess', q) + One(sess[s].root, q) = SessionOwners(sess, q) + One(sess'[s].root, q)
      BY <1>2, <1>3, OneSessionMoves
    <3> QED
      BY <3>1, <1>3
  <2>2. One(sess[s].root, q) \in {0, 1}
    BY DEF One
  <2>3. SessionOwners(sess', q) = SessionOwners(sess, q)
    BY <2>1, <2>2
  <2> QED
    BY <2>3, <1>1, BalanceOwners DEF SessionInv
<1>7. \A x \in Sessions : sess'[x].refs = HandleOwners(hnd', x)
  <2> SUFFICES ASSUME NEW x \in Sessions PROVE sess'[x].refs = HandleOwners(hnd', x)
    OBVIOUS
  <2>1. /\ HandleOwners(hnd, x) \in Nat /\ HandleOwners(hnd', x) \in Nat
        /\ HandleOwners(hnd', x) + One(NoSession, x) = HandleOwners(hnd, x) + One(s, x)
    <3>1. /\ HandleOwners(hnd, x) \in Nat /\ HandleOwners(hnd', x) \in Nat
          /\ HandleOwners(hnd', x) + One(hnd[u], x) = HandleOwners(hnd, x) + One(hnd'[u], x)
      BY <1>4, OneHandleMoves
    <3> QED
      BY <3>1, <1>1, <1>4
  <2>2. sess[x].refs = HandleOwners(hnd, x)
    BY BalanceOwners DEF SessionInv
  <2>3. One(NoSession, x) = 0 /\ One(s, x) = IF x = s THEN 1 ELSE 0
    BY SessionAssumption DEF One
  <2> HIDE DEF s
  <2> QED
    BY <2>1, <2>2, <2>3, <1>3
<1>8. ReferencesBalanced'
  BY <1>6, <1>7 DEF ReferencesBalanced, MapOwners, SessionOwners, HandleOwners
<1>9. LiveFixed
  BY <1>1 DEF LiveFixed
<1>10. VacantRootless'
  BY <1>2, <1>3 DEF SessionInv, VacantRootless
<1>11. ASSUME NEW i \in Iterators, iter[i].sess # NoSession
       PROVE  LET old == sess[iter[i].sess]
                  new == sess'[iter[i].sess]
              IN  /\ new.refs > 0 /\ new.version >= old.version
                  /\ new.active /\ new.version = old.version => old.active /\ new.root = old.root
  <2>1. /\ iter[i].sess \in Sessions /\ sess[iter[i].sess].version \in Nat
        /\ sess[iter[i].sess].refs \in Nat /\ sess[iter[i].sess].refs > 0
    BY <1>11, BorrowedTyped
  <2> HIDE DEF s
  <2> QED
    BY <2>1, <1>2, <1>3
<1> QED
  BY <1>1, <1>5, <1>8, <1>9, <1>10, <1>11, Keeps

\* d7_hamt_map_transient_destroy: the last handle frees the state and gives its root back.
LEMMA DestroyKeeps ==
    ASSUME SessionInv, NEW t \in Transients, IteratorsGone(t), TransientDestroy(t)
    PROVE  SessionInv' /\ LiveFixed
<1> DEFINE s == hnd[t]
           down == IF sess[s].refs > 1 THEN NoRoot ELSE sess[s].root
<1>1. hnd[t] # NoSession /\ maps' = maps /\ iter' = iter /\ hnd' = [hnd EXCEPT ![t] = NoSession]
  BY DEF TransientDestroy
<1>2. /\ s \in Sessions /\ sess[s].refs \in Nat /\ sess[s].refs > 0 /\ sess[s].root \in Roots \cup {NoRoot}
      /\ sess[s].root # NoRoot => heap[sess[s].root].refs > 0
  BY <1>1, ActiveOwned
<1>3. /\ sess'[s].refs = sess[s].refs - 1
      /\ \A x \in Sessions : x # s => sess'[x] = sess[x]
      /\ sess[s].refs > 1 => /\ sess'[s].version = sess[s].version /\ sess'[s].active = sess[s].active
                             /\ sess'[s].root = sess[s].root
      /\ sess[s].refs = 1 => sess'[s].root = NoRoot
      /\ sess' \in [Sessions -> [refs : Nat, version : Nat, active : BOOLEAN, root : Roots \cup {NoRoot}]]
  <2>1. CASE sess[s].refs > 1
    BY <2>1, <1>2 DEF TransientDestroy, SessionInv, SessionTypeOK
  <2>2. CASE sess[s].refs = 1
    <3>1. sess' = [sess EXCEPT ![s] = NoState]
      BY <2>2 DEF TransientDestroy
    <3>2. /\ NoState \in [refs : Nat, version : Nat, active : BOOLEAN, root : Roots \cup {NoRoot}]
          /\ NoState.refs = 0 /\ NoState.root = NoRoot
      BY DEF NoState
    <3> HIDE DEF s
    <3> QED
      BY <2>2, <3>1, <3>2, <1>2 DEF SessionInv, SessionTypeOK
  <2> QED
    BY <1>2, <2>1, <2>2
<1>4. hnd'[t] = NoSession /\ \A x \in Transients : x # t => hnd'[x] = hnd[x]
  BY <1>1 DEF SessionInv, SessionTypeOK
<1>5. HeapOK(heap') /\ Moves(heap, heap', NoRoot, down)
  <2>1. HeapOK(heap)
    BY DEF SessionInv, SessionTypeOK
  <2>2. CASE sess[s].refs > 1
    <3>1. heap' = heap /\ down = NoRoot
      BY <2>2 DEF TransientDestroy
    <3> QED
      BY <2>1, <3>1, SessionAssumption DEF HeapOK, Moves, One
  <2>3. CASE sess[s].refs = 1
    <3>1. heap' = Release(heap, sess[s].root) /\ down = sess[s].root
      BY <2>3 DEF TransientDestroy
    <3> HIDE DEF down, s
    <3> QED
      BY <2>1, <3>1, <1>2, ReleaseMoves
  <2> QED
    BY <1>2, <2>2, <2>3
<1>6. SessionTypeOK'
  BY <1>1, <1>3, <1>5 DEF SessionInv, SessionTypeOK
<1>7. \A q \in Roots : MapOwners(maps', q) + SessionOwners(sess', q) + One(down, q)
                       = MapOwners(maps, q) + SessionOwners(sess, q) + One(NoRoot, q)
  <2> SUFFICES ASSUME NEW q \in Roots
               PROVE  MapOwners(maps', q) + SessionOwners(sess', q) + One(down, q)
                      = MapOwners(maps, q) + SessionOwners(sess, q) + One(NoRoot, q)
    OBVIOUS
  <2>1. /\ SessionOwners(sess, q) \in Nat /\ SessionOwners(sess', q) \in Nat
        /\ SessionOwners(sess', q) + One(sess[s].root, q) = SessionOwners(sess, q) + One(sess'[s].root, q)
    BY <1>2, <1>3, OneSessionMoves
  <2>2. MapOwners(maps', q) = MapOwners(maps, q) /\ MapOwners(maps, q) \in Nat
    BY <1>1, OwnersCount
  <2>3. One(NoRoot, q) = 0 /\ One(sess[s].root, q) \in {0, 1}
    BY SessionAssumption DEF One
  <2>4. CASE sess[s].refs > 1
    <3>1. down = NoRoot /\ sess'[s].root = sess[s].root
      BY <2>4, <1>3
    <3> HIDE DEF down
    <3> QED
      BY <2>1, <2>2, <2>3, <3>1
  <2>5. CASE sess[s].refs = 1
    <3>1. down = sess[s].root /\ sess'[s].root = NoRoot
      BY <2>5, <1>3
    <3> HIDE DEF down
    <3> QED
      BY <2>1, <2>2, <2>3, <3>1
  <2> QED
    BY <1>2, <2>4, <2>5
<1>8. \A x \in Sessions : sess'[x].refs = HandleOwners(hnd', x)
  <2> SUFFICES ASSUME NEW x \in Sessions PROVE sess'[x].refs = HandleOwners(hnd', x)
    OBVIOUS
  <2>1. /\ HandleOwners(hnd, x) \in Nat /\ HandleOwners(hnd', x) \in Nat
        /\ HandleOwners(hnd', x) + One(hnd[t], x) = HandleOwners(hnd, x) + One(hnd'[t], x)
    BY <1>4, OneHandleMoves
  <2>2. sess[x].refs = HandleOwners(hnd, x)
    BY BalanceOwners DEF SessionInv
  <2>3. One(hnd'[t], x) = 0 /\ One(hnd[t], x) = IF x = s THEN 1 ELSE 0
    BY <1>4, SessionAssumption DEF One
  <2> HIDE DEF s
  <2> QED
    BY <2>1, <2>2, <2>3, <1>3
<1>9. ReferencesBalanced' /\ LiveFixed
  <2> HIDE DEF down
  <2> QED
    BY <1>5, <1>7, <1>8, BalanceKept
<1>10. VacantRootless'
  <2>1. sess'[s].refs = 0 => sess'[s].root = NoRoot
    BY <1>2, <1>3
  <2> QED
    BY <2>1, <1>3 DEF SessionInv, VacantRootless
<1>11. ASSUME NEW i \in Iterators, iter[i].sess # NoSession
       PROVE  LET old == sess[iter[i].sess]
                  new == sess'[iter[i].sess]
              IN  /\ new.refs > 0 /\ new.version >= old.version
                  /\ new.active /\ new.version = old.version => old.active /\ new.root = old.root
  <2>1. /\ iter[i].sess \in Sessions /\ sess[iter[i].sess].version \in Nat
        /\ sess[iter[i].sess].refs \in Nat /\ sess[iter[i].sess].refs > 0
    BY <1>11, BorrowedTyped
  <2>2. iter[i].sess = s => sess[s].refs > 1
    BY <1>1, <1>2 DEF IteratorsGone
  <2> HIDE DEF s
  <2> QED
    BY <2>1, <2>2, <1>2, <1>3
<1> QED
  BY <1>1, <1>6, <1>9, <1>10, <1>11, Keeps

\* An edit of a session: a root of its own at a free address, the old one released,
\* the version advanced, or nothing at all.
LEMMA EditKeeps ==
    ASSUME SessionInv, NEW t \in Transients, NEW new, Edit(t, new)
    PROVE  SessionInv' /\ LiveFixed /\ maps' = maps
<1> DEFINE s == hnd[t]
           old == sess[s].root
<1>1. hnd[t] # NoSession /\ maps' = maps /\ hnd' = hnd /\ iter' = iter /\ Commit(s, new)
  BY DEF Edit, Active
<1>2. /\ s \in Sessions /\ sess[s].refs \in Nat /\ sess[s].refs > 0 /\ sess[s].version \in Nat
      /\ old \in Roots \cup {NoRoot}
      /\ old # NoRoot => heap[old].refs > 0
  BY <1>1, ActiveOwned
<1>3. CASE new = ContentAt(old)
  <2>1. heap' = heap /\ sess' = sess
    BY <1>1, <1>3 DEF Commit
  <2>2. /\ SessionTypeOK' /\ ReferencesBalanced' /\ VacantRootless'
        /\ \A i \in Iterators : Borrows(iter[i])'
    BY <1>1, <2>1 DEF SessionInv, SessionTypeOK, ReferencesBalanced, VacantRootless, Borrows, ContentAt
  <2> QED
    BY <2>1, <2>2, <1>1 DEF SessionInv, LiveFixed
<1>4. CASE new # ContentAt(old)
  <2>1. PICK r \in Roots \cup {NoRoot} :
           /\ r # NoRoot => heap[r].refs = 0
           /\ heap' = Release(Built(heap, r, new), old)
           /\ sess' = [sess EXCEPT ![s].root = r, ![s].version = @ + 1]
    BY <1>1, <1>4 DEF Commit, Built
  <2>2. /\ sess'[s].refs = sess[s].refs /\ sess'[s].version = sess[s].version + 1 /\ sess'[s].root = r
        /\ \A x \in Sessions : x # s => sess'[x] = sess[x]
        /\ sess' \in [Sessions -> [refs : Nat, version : Nat, active : BOOLEAN, root : Roots \cup {NoRoot}]]
    BY <2>1, <1>2 DEF SessionInv, SessionTypeOK
  <2>3. HeapOK(heap') /\ Moves(heap, heap', r, old)
    <3>1. HeapOK(heap)
      BY DEF SessionInv, SessionTypeOK
    <3> HIDE DEF old, s
    <3> QED
      <4>1. r \in Roots \cup {NoRoot} /\ (r # NoRoot => heap[r].refs = 0)
        BY <2>1
      <4>2. /\ HeapOK(Release(Built(heap, r, new), old))
            /\ Moves(heap, Release(Built(heap, r, new), old), r, old)
        BY <3>1, <1>2, <4>1, CommitMoves
      <4> QED
        BY <4>2, <2>1
  <2>4. SessionTypeOK'
    BY <1>1, <2>2, <2>3 DEF SessionInv, SessionTypeOK
  <2>5. \A q \in Roots : MapOwners(maps', q) + SessionOwners(sess', q) + One(old, q)
                         = MapOwners(maps, q) + SessionOwners(sess, q) + One(r, q)
    <3> SUFFICES ASSUME NEW q \in Roots
                 PROVE  MapOwners(maps', q) + SessionOwners(sess', q) + One(old, q)
                        = MapOwners(maps, q) + SessionOwners(sess, q) + One(r, q)
      OBVIOUS
    <3>1. /\ SessionOwners(sess, q) \in Nat /\ SessionOwners(sess', q) \in Nat
          /\ SessionOwners(sess', q) + One(sess[s].root, q) = SessionOwners(sess, q) + One(sess'[s].root, q)
      BY <1>2, <2>2, OneSessionMoves
    <3>2. SessionOwners(sess', q) + One(old, q) = SessionOwners(sess, q) + One(r, q)
      BY <3>1, <2>2
    <3>3. MapOwners(maps', q) = MapOwners(maps, q) /\ MapOwners(maps, q) \in Nat
      BY <1>1, OwnersCount
    <3>4. One(old, q) \in {0, 1} /\ One(r, q) \in {0, 1}
      BY DEF One
    <3> HIDE DEF old
    <3> QED
      BY <3>1, <3>2, <3>3, <3>4
  <2>6. \A x \in Sessions : sess'[x].refs = HandleOwners(hnd', x)
    <3>1. \A x \in Sessions : sess[x].refs = HandleOwners(hnd, x) /\ sess'[x].refs = sess[x].refs
      BY <2>2, BalanceOwners DEF SessionInv
    <3> QED
      BY <3>1, <1>1
  <2>7. ReferencesBalanced' /\ LiveFixed
    <3> HIDE DEF old
    <3> QED
      BY <2>3, <2>5, <2>6, BalanceKept
  <2>8. VacantRootless'
    BY <1>2, <2>2 DEF SessionInv, VacantRootless
  <2>9. ASSUME NEW i \in Iterators, iter[i].sess # NoSession
        PROVE  LET was == sess[iter[i].sess]
                   is == sess'[iter[i].sess]
               IN  /\ is.refs > 0 /\ is.version >= was.version
                   /\ is.active /\ is.version = was.version => was.active /\ is.root = was.root
    <3>1. /\ iter[i].sess \in Sessions /\ sess[iter[i].sess].version \in Nat
          /\ sess[iter[i].sess].refs \in Nat /\ sess[iter[i].sess].refs > 0
      BY <2>9, BorrowedTyped
    <3> HIDE DEF s
    <3> QED
      BY <3>1, <1>2, <2>2
  <2> QED
    BY <1>1, <2>4, <2>7, <2>8, <2>9, Keeps
<1> QED
  BY <1>3, <1>4

\* d7_hamt_map_transient_persist hands the root over with its reference.
LEMMA PersistKeeps ==
    ASSUME SessionInv, NEW t \in Transients, NEW m \in Maps, TransientPersist(t, m)
    PROVE  SessionInv' /\ LiveFixed
<1> DEFINE s == hnd[t]
           root == sess[s].root
<1>1. /\ hnd[t] # NoSession /\ maps[m] = Unset /\ heap' = heap /\ hnd' = hnd /\ iter' = iter
      /\ maps' = [maps EXCEPT ![m] = root]
      /\ sess' = [sess EXCEPT ![s].root = NoRoot, ![s].active = FALSE, ![s].version = @ + 1]
  BY DEF TransientPersist, Active
<1>2. /\ s \in Sessions /\ sess[s].refs \in Nat /\ sess[s].refs > 0 /\ sess[s].version \in Nat
      /\ root \in Roots \cup {NoRoot}
  BY <1>1, ActiveOwned
<1>3. /\ sess'[s].refs = sess[s].refs /\ sess'[s].version = sess[s].version + 1
      /\ sess'[s].root = NoRoot /\ ~sess'[s].active
      /\ \A x \in Sessions : x # s => sess'[x] = sess[x]
      /\ sess' \in [Sessions -> [refs : Nat, version : Nat, active : BOOLEAN, root : Roots \cup {NoRoot}]]
  BY <1>1, <1>2 DEF SessionInv, SessionTypeOK
<1>4. maps'[m] = root /\ \A n \in Maps : n # m => maps'[n] = maps[n]
  BY <1>1 DEF SessionInv, SessionTypeOK
<1>5. SessionTypeOK'
  BY <1>1, <1>2, <1>3 DEF SessionInv, SessionTypeOK
<1>6. \A q \in Roots : heap'[q].refs = MapOwners(maps', q) + SessionOwners(sess', q)
  <2> SUFFICES ASSUME NEW q \in Roots PROVE heap'[q].refs = MapOwners(maps', q) + SessionOwners(sess', q)
    OBVIOUS
  <2>1. /\ SessionOwners(sess, q) \in Nat /\ SessionOwners(sess', q) \in Nat
        /\ SessionOwners(sess', q) + One(sess[s].root, q) = SessionOwners(sess, q) + One(sess'[s].root, q)
    BY <1>2, <1>3, OneSessionMoves
  <2>2. /\ MapOwners(maps, q) \in Nat /\ MapOwners(maps', q) \in Nat
        /\ MapOwners(maps', q) + One(maps[m], q) = MapOwners(maps, q) + One(maps'[m], q)
    BY <1>4, OneMapMoves
  <2>3. One(sess'[s].root, q) = 0 /\ One(maps[m], q) = 0
    BY <1>1, <1>3, SessionAssumption DEF One
  <2>4. One(maps'[m], q) = One(root, q) /\ One(root, q) \in {0, 1}
    BY <1>4 DEF One
  <2>5. heap[q].refs = MapOwners(maps, q) + SessionOwners(sess, q)
    BY BalanceOwners DEF SessionInv
  <2> QED
    BY <2>1, <2>2, <2>3, <2>4, <2>5, <1>1
<1>7. \A x \in Sessions : sess'[x].refs = HandleOwners(hnd', x)
  <2>1. \A x \in Sessions : sess[x].refs = HandleOwners(hnd, x) /\ sess'[x].refs = sess[x].refs
    BY <1>3, BalanceOwners DEF SessionInv
  <2> QED
    BY <2>1, <1>1
<1>8. ReferencesBalanced'
  BY <1>6, <1>7 DEF ReferencesBalanced, MapOwners, SessionOwners, HandleOwners
<1>9. LiveFixed
  BY <1>1 DEF LiveFixed
<1>10. VacantRootless'
  BY <1>3 DEF SessionInv, VacantRootless
<1>11. ASSUME NEW i \in Iterators, iter[i].sess # NoSession
       PROVE  LET old == sess[iter[i].sess]
                  new == sess'[iter[i].sess]
              IN  /\ new.refs > 0 /\ new.version >= old.version
                  /\ new.active /\ new.version = old.version => old.active /\ new.root = old.root
  <2>1. /\ iter[i].sess \in Sessions /\ sess[iter[i].sess].version \in Nat
        /\ sess[iter[i].sess].refs \in Nat /\ sess[iter[i].sess].refs > 0
    BY <1>11, BorrowedTyped
  <2> HIDE DEF s
  <2> QED
    BY <2>1, <1>2, <1>3
<1> QED
  BY <1>1, <1>5, <1>8, <1>9, <1>10, <1>11, Keeps

\* d7_hamt_map_clone retains the root for the new variable.
LEMMA MapCloneKeeps ==
    ASSUME SessionInv, NEW m \in Maps, NEW n \in Maps, MapClone(m, n)
    PROVE  SessionInv' /\ LiveFixed
<1> DEFINE root == maps[m]
<1>1. /\ root # Unset /\ maps[n] = Unset /\ heap' = Retain(heap, root) /\ maps' = [maps EXCEPT ![n] = root]
      /\ sess' = sess /\ hnd' = hnd /\ iter' = iter
  BY DEF MapClone
<1>2. root \in Roots \cup {NoRoot} /\ HeapOK(heap)
  BY <1>1 DEF SessionInv, SessionTypeOK
<1>3. HeapOK(heap') /\ Moves(heap, heap', root, NoRoot)
  BY <1>1, <1>2, RetainMoves
<1>4. maps'[n] = root /\ \A x \in Maps : x # n => maps'[x] = maps[x]
  BY <1>1 DEF SessionInv, SessionTypeOK
<1>5. SessionTypeOK'
  BY <1>1, <1>2, <1>3 DEF SessionInv, SessionTypeOK
<1>6. \A q \in Roots : MapOwners(maps', q) + SessionOwners(sess', q) + One(NoRoot, q)
                       = MapOwners(maps, q) + SessionOwners(sess, q) + One(root, q)
  <2> SUFFICES ASSUME NEW q \in Roots
               PROVE  MapOwners(maps', q) + SessionOwners(sess', q) + One(NoRoot, q)
                      = MapOwners(maps, q) + SessionOwners(sess, q) + One(root, q)
    OBVIOUS
  <2>1. /\ MapOwners(maps, q) \in Nat /\ MapOwners(maps', q) \in Nat
        /\ MapOwners(maps', q) + One(maps[n], q) = MapOwners(maps, q) + One(maps'[n], q)
    BY <1>4, OneMapMoves
  <2>2. One(maps[n], q) = 0 /\ One(NoRoot, q) = 0 /\ One(root, q) \in {0, 1} /\ One(maps'[n], q) = One(root, q)
    BY <1>1, <1>4, SessionAssumption DEF One
  <2>3. SessionOwners(sess', q) = SessionOwners(sess, q) /\ SessionOwners(sess, q) \in Nat
    BY <1>1, OwnersCount
  <2> HIDE DEF root
  <2> QED
    BY <2>1, <2>2, <2>3
<1>7. \A x \in Sessions : sess'[x].refs = HandleOwners(hnd', x)
  BY <1>1, BalanceOwners DEF SessionInv
<1>8. ReferencesBalanced' /\ LiveFixed
  BY <1>3, <1>6, <1>7, BalanceKept
<1>9. VacantRootless'
  BY <1>1 DEF SessionInv, VacantRootless
<1>10. ASSUME NEW i \in Iterators, iter[i].sess # NoSession
       PROVE  LET old == sess[iter[i].sess]
                  new == sess'[iter[i].sess]
              IN  /\ new.refs > 0 /\ new.version >= old.version
                  /\ new.active /\ new.version = old.version => old.active /\ new.root = old.root
  BY <1>10, <1>1, BorrowedTyped
<1> QED
  BY <1>1, <1>5, <1>8, <1>9, <1>10, Keeps

\* d7_hamt_map_destroy gives the reference of the variable back.
LEMMA MapDestroyKeeps ==
    ASSUME SessionInv, NEW m \in Maps, MapDestroy(m)
    PROVE  SessionInv' /\ LiveFixed
<1> DEFINE root == maps[m]
<1>1. /\ root # Unset /\ heap' = Release(heap, root) /\ maps' = [maps EXCEPT ![m] = Unset]
      /\ sess' = sess /\ hnd' = hnd /\ iter' = iter
  BY DEF MapDestroy
<1>2. root \in Roots \cup {NoRoot} /\ HeapOK(heap)
  BY <1>1 DEF SessionInv, SessionTypeOK
<1>3. root # NoRoot => heap[root].refs > 0
  BY <1>2, OwnedAlive
<1>4. HeapOK(heap') /\ Moves(heap, heap', NoRoot, root)
  BY <1>1, <1>2, <1>3, ReleaseMoves
<1>5. maps'[m] = Unset /\ \A x \in Maps : x # m => maps'[x] = maps[x]
  BY <1>1 DEF SessionInv, SessionTypeOK
<1>6. SessionTypeOK'
  BY <1>1, <1>4 DEF SessionInv, SessionTypeOK
<1>7. \A q \in Roots : MapOwners(maps', q) + SessionOwners(sess', q) + One(root, q)
                       = MapOwners(maps, q) + SessionOwners(sess, q) + One(NoRoot, q)
  <2> SUFFICES ASSUME NEW q \in Roots
               PROVE  MapOwners(maps', q) + SessionOwners(sess', q) + One(root, q)
                      = MapOwners(maps, q) + SessionOwners(sess, q) + One(NoRoot, q)
    OBVIOUS
  <2>1. /\ MapOwners(maps, q) \in Nat /\ MapOwners(maps', q) \in Nat
        /\ MapOwners(maps', q) + One(maps[m], q) = MapOwners(maps, q) + One(maps'[m], q)
    BY <1>5, OneMapMoves
  <2>2. One(maps'[m], q) = 0 /\ One(NoRoot, q) = 0 /\ One(root, q) \in {0, 1}
    BY <1>5, SessionAssumption DEF One
  <2>3. SessionOwners(sess', q) = SessionOwners(sess, q) /\ SessionOwners(sess, q) \in Nat
    BY <1>1, OwnersCount
  <2> QED
    BY <2>1, <2>2, <2>3
<1>8. \A x \in Sessions : sess'[x].refs = HandleOwners(hnd', x)
  BY <1>1, BalanceOwners DEF SessionInv
<1>9. ReferencesBalanced' /\ LiveFixed
  BY <1>4, <1>7, <1>8, BalanceKept
<1>10. VacantRootless'
  BY <1>1 DEF SessionInv, VacantRootless
<1>11. ASSUME NEW i \in Iterators, iter[i].sess # NoSession
       PROVE  LET old == sess[iter[i].sess]
                  new == sess'[iter[i].sess]
              IN  /\ new.refs > 0 /\ new.version >= old.version
                  /\ new.active /\ new.version = old.version => old.active /\ new.root = old.root
  BY <1>11, <1>1, BorrowedTyped
<1> QED
  BY <1>1, <1>6, <1>9, <1>10, <1>11, Keeps

\* What the iterators do leaves maps, sessions and roots alone.
LEMMA IteratorKeeps ==
    ASSUME SessionInv, NEW i \in Iterators, heap' = heap, maps' = maps, sess' = sess, hnd' = hnd,
           NEW it, Borrows(it), iter' = [iter EXCEPT ![i] = it]
    PROVE  SessionInv' /\ LiveFixed
<1>1. SessionTypeOK'
  BY DEF SessionInv, SessionTypeOK
<1>2. ReferencesBalanced' /\ VacantRootless'
  BY DEF SessionInv, ReferencesBalanced, VacantRootless
<1>3. ASSUME NEW j \in Iterators PROVE Borrows(iter[j])'
  <2>1. Borrows(iter'[j])
    BY DEF SessionInv, SessionTypeOK
  <2> QED
    BY <2>1 DEF Borrows, ContentAt
<1> QED
  BY <1>1, <1>2, <1>3 DEF SessionInv, LiveFixed

\* d7_hamt_map_transient_iterator_init notes the version and the root it finds.
LEMMA IteratorInitKeeps ==
    ASSUME SessionInv, NEW t \in Transients, NEW i \in Iterators, IteratorInit(t, i)
    PROVE  SessionInv' /\ LiveFixed
<1> DEFINE it == [sess |-> hnd[t], version |-> sess[hnd[t]].version,
                  root |-> sess[hnd[t]].root, seen |-> ContentAt(sess[hnd[t]].root)]
<1>1. /\ hnd[t] # NoSession /\ iter' = [iter EXCEPT ![i] = it]
      /\ heap' = heap /\ maps' = maps /\ sess' = sess /\ hnd' = hnd
  BY DEF IteratorInit, Active, Here
<1>2. hnd[t] \in Sessions /\ sess[hnd[t]].refs > 0 /\ sess[hnd[t]].version \in Nat
  BY <1>1, ActiveOwned
<1>3. /\ it.sess = hnd[t] /\ it.version = sess[hnd[t]].version /\ it.root = sess[hnd[t]].root
      /\ it.seen = ContentAt(sess[hnd[t]].root)
  OBVIOUS
<1> HIDE DEF it
<1>4. Borrows(it)
  BY <1>2, <1>3 DEF Borrows
<1> QED
  BY <1>1, <1>4, IteratorKeeps

-----------------------------------------------------------------------------
\* The theorems.

\* A map variable holds one version until it is destroyed.
MapsKept == \A m \in Maps : maps[m] # Unset /\ maps'[m] # Unset => maps'[m] = maps[m]

\* Every call keeps the invariant, changes no live root, and gives a map variable
\* another version only when it holds none.
LEMMA SessionsStep ==
    ASSUME SessionInv, SessionsNext
    PROVE  SessionInv' /\ LiveFixed /\ MapsKept
<1>1. ASSUME NEW m \in Maps, NEW t \in Transients, ToTransient(m, t)
      PROVE  SessionInv' /\ LiveFixed /\ MapsKept
  <2>1. maps' = maps
    BY <1>1 DEF ToTransient
  <2> QED
    BY <1>1, <2>1, ToTransientKeeps DEF MapsKept
<1>2. ASSUME NEW m \in Maps, NEW t \in Transients, TransientPersist(t, m)
      PROVE  SessionInv' /\ LiveFixed /\ MapsKept
  <2>1. maps[m] = Unset /\ \A n \in Maps : n # m => maps'[n] = maps[n]
    BY <1>2 DEF TransientPersist, SessionInv, SessionTypeOK
  <2>2. MapsKept
    BY <2>1 DEF MapsKept
  <2> QED
    BY <1>2, <2>2, PersistKeeps
<1>3. ASSUME NEW t \in Transients, NEW u \in Transients, TransientClone(t, u)
      PROVE  SessionInv' /\ LiveFixed /\ MapsKept
  <2>1. maps' = maps
    BY <1>3 DEF TransientClone
  <2> QED
    BY <1>3, <2>1, CloneKeeps DEF MapsKept
<1>4. ASSUME NEW t \in Transients, IteratorsGone(t), TransientDestroy(t)
      PROVE  SessionInv' /\ LiveFixed /\ MapsKept
  <2>1. maps' = maps
    BY <1>4 DEF TransientDestroy
  <2> QED
    BY <1>4, <2>1, DestroyKeeps DEF MapsKept
<1>5. ASSUME NEW t \in Transients, NEW new, Edit(t, new)
      PROVE  SessionInv' /\ LiveFixed /\ MapsKept
  BY <1>5, EditKeeps DEF MapsKept
<1>6. ASSUME NEW t \in Transients, TransientClear(t)
      PROVE  SessionInv' /\ LiveFixed /\ MapsKept
  BY <1>6, <1>5 DEF TransientClear
<1>7. ASSUME NEW t \in Transients, NEW k \in Keys, NEW v \in Values,
             TransientSet(t, k, v) \/ TransientAdd(t, k, v) \/ TransientTryAdd(t, k, v)
      PROVE  SessionInv' /\ LiveFixed /\ MapsKept
  <2>1. Edit(t, (k :> v) @@ Here(t)) \/ Edit(t, Here(t) @@ (k :> v))
    BY <1>7 DEF TransientSet, TransientAdd, TransientTryAdd
  <2> QED
    BY <2>1, <1>5
<1>8. ASSUME NEW t \in Transients, NEW k \in Keys, TransientRemove(t, k)
      PROVE  SessionInv' /\ LiveFixed /\ MapsKept
  <2>1. Edit(t, Restrict(Here(t), DOMAIN Here(t) \ {k}))
    BY <1>8 DEF TransientRemove
  <2> QED
    BY <2>1, <1>5
<1>9. ASSUME NEW t \in Transients, NEW i \in Iterators, IteratorInit(t, i)
      PROVE  SessionInv' /\ LiveFixed /\ MapsKept
  <2>1. maps' = maps
    BY <1>9 DEF IteratorInit
  <2> QED
    BY <1>9, <2>1, IteratorInitKeeps DEF MapsKept
<1>10. ASSUME NEW i \in Iterators, IteratorEnd(i)
       PROVE  SessionInv' /\ LiveFixed /\ MapsKept
  <2>1. /\ iter' = [iter EXCEPT ![i] = NoIterator]
        /\ heap' = heap /\ maps' = maps /\ sess' = sess /\ hnd' = hnd
    BY <1>10 DEF IteratorEnd
  <2>2. Borrows(NoIterator)
    BY DEF Borrows, NoIterator
  <2> QED
    BY <2>1, <2>2, IteratorKeeps DEF MapsKept
<1>11. ASSUME NEW m \in Maps, NEW n \in Maps, MapClone(m, n)
       PROVE  SessionInv' /\ LiveFixed /\ MapsKept
  <2>1. maps[n] = Unset /\ \A x \in Maps : x # n => maps'[x] = maps[x]
    BY <1>11 DEF MapClone, SessionInv, SessionTypeOK
  <2>2. MapsKept
    BY <2>1 DEF MapsKept
  <2> QED
    BY <1>11, <2>2, MapCloneKeeps
<1>12. ASSUME NEW m \in Maps, MapDestroy(m)
       PROVE  SessionInv' /\ LiveFixed /\ MapsKept
  <2>1. maps'[m] = Unset /\ \A x \in Maps : x # m => maps'[x] = maps[x]
    BY <1>12 DEF MapDestroy, SessionInv, SessionTypeOK
  <2>2. MapsKept
    BY <2>1 DEF MapsKept
  <2> QED
    BY <1>12, <2>2, MapDestroyKeeps
<1> QED
  BY <1>1, <1>2, <1>3, <1>4, <1>6, <1>7, <1>8, <1>9, <1>10, <1>11, <1>12 DEF SessionsNext

\* The invariant holds in every state, for any maps, sessions, handles, iterators
\* and addresses: counts are exact, a vacant state has no root, and an iterator
\* whose session has not changed borrows the root it was made with.
THEOREM SessionsInvariance == SessionsSpec => []SessionInv
<1>1. SessionInv /\ [SessionsNext]_sessionVars => SessionInv'
  <2> SUFFICES ASSUME SessionInv, [SessionsNext]_sessionVars PROVE SessionInv'
    OBVIOUS
  <2>1. CASE SessionsNext
    BY <2>1, SessionsStep
  <2>2. CASE UNCHANGED sessionVars
    BY <2>2 DEF sessionVars, SessionInv, SessionTypeOK, ReferencesBalanced, VacantRootless, Borrows, ContentAt
  <2> QED
    BY <2>1, <2>2
<1> QED
  BY <1>1, SessionsStart, PTL DEF SessionsSpec

\* Retain and release balance: every root is counted as often as maps and sessions
\* own it and every session as often as handles do, through edits, clones,
\* publication by a session that others still share, and destruction.
THEOREM RootsCounted == SessionsSpec => []ReferencesBalanced
  BY SessionsInvariance, PTL DEF SessionInv

\* An iterator that answers OK reads live nodes with the content of the moment it
\* was made, although it owns nothing and addresses are used again.
THEOREM IteratorsSafe == SessionsSpec => []IteratorReadsLiveNodes
<1>1. SessionInv => IteratorReadsLiveNodes
  <2> SUFFICES ASSUME SessionInv, NEW i \in Iterators, IteratorAnswer(i) = "OK"
               PROVE  /\ iter[i].root # NoRoot => heap[iter[i].root].refs > 0
                      /\ ContentAt(iter[i].root) = iter[i].seen
    BY DEF IteratorReadsLiveNodes
  <2>1. /\ iter[i].sess # NoSession /\ sess[iter[i].sess].active
        /\ sess[iter[i].sess].version = iter[i].version
    BY DEF IteratorAnswer
  <2>2. /\ iter[i].sess \in Sessions /\ iter[i].root = sess[iter[i].sess].root
        /\ ContentAt(iter[i].root) = iter[i].seen
    BY <2>1 DEF SessionInv, Borrows
  <2>3. iter[i].root \in Roots \cup {NoRoot}
    BY <2>2 DEF SessionInv, SessionTypeOK
  <2> QED
    BY <2>2, <2>3, OwnedAlive
<1> QED
  BY <1>1, SessionsInvariance, PTL

\* No step of any session changes a root that stays alive: an address gets
\* another content only after its last owner gave it up.
THEOREM LiveRootsFixed == SessionsSpec => [][LiveFixed]_sessionVars
<1>1. SessionInv /\ [SessionsNext]_sessionVars => [LiveFixed]_sessionVars
  BY SessionsStep
<1> QED
  BY <1>1, SessionsInvariance, PTL DEF SessionsSpec

\* A version that a map variable holds reads the same until the variable is
\* destroyed, whatever sessions that share its nodes do.
THEOREM VersionsStay == SessionsSpec => VersionsImmutable
<1> DEFINE Same == \A m \in Maps : (maps[m] # Unset /\ maps'[m] # Unset)
                      => /\ maps'[m] = maps[m]
                         /\ maps[m] # NoRoot => heap'[maps[m]].content = heap[maps[m]].content
<1>1. SessionInv /\ SessionInv' /\ [SessionsNext]_sessionVars => [Same]_sessionVars
  <2> SUFFICES ASSUME SessionInv, SessionInv', SessionsNext, NEW m \in Maps, maps[m] # Unset, maps'[m] # Unset
               PROVE  /\ maps'[m] = maps[m]
                      /\ maps[m] # NoRoot => heap'[maps[m]].content = heap[maps[m]].content
    OBVIOUS
  <2>1. LiveFixed /\ maps'[m] = maps[m]
    BY SessionsStep DEF MapsKept
  <2>2. ASSUME maps[m] # NoRoot PROVE heap'[maps[m]].content = heap[maps[m]].content
    <3>1. maps[m] \in Roots
      BY <2>2 DEF SessionInv, SessionTypeOK
    <3>2. heap[maps[m]].refs > 0
      BY <3>1, OwnedAlive
    <3>3. heap'[maps[m]].refs > 0
      <4>1. heap'[maps[m]].refs = MapOwners(maps', maps[m]) + SessionOwners(sess', maps[m])
        BY <3>1 DEF SessionInv, ReferencesBalanced, MapOwners, SessionOwners
      <4>2. /\ MapOwners(maps', maps[m]) \in Nat /\ MapOwners(maps', maps[m]) > 0
            /\ SessionOwners(sess', maps[m]) \in Nat
        BY <2>1, OwnersCount
      <4> QED
        BY <4>1, <4>2
    <3> QED
      BY <3>1, <3>2, <3>3, <2>1 DEF LiveFixed
  <2> QED
    BY <2>1, <2>2
<1>2. VersionsImmutable <=> [][Same]_sessionVars
  BY DEF VersionsImmutable
<1> HIDE DEF Same
<1> QED
  BY <1>1, <1>2, SessionsInvariance, PTL DEF SessionsSpec
================================================================================
