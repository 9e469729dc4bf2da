---------------------------- MODULE HamtTransient ----------------------------
(***************************************************************************)
(* The edit sessions of the persistent hash map (hamt.c, the transient     *)
(* functions): reference-counted session states shared by cloned handles,  *)
(* roots that are owned by maps and sessions, iterators that borrow a      *)
(* session without owning it, and publication, which consumes the session. *)
(*                                                                         *)
(* A root stands for its whole tree.  Its address is chosen among the free *)
(* ones, so an address may be used again as soon as its last owner is      *)
(* gone.  The null root is the empty map.                                  *)
(***************************************************************************)
EXTENDS Naturals, FiniteSets, Functions, TLC

CONSTANTS Keys, Values,
          Maps,        \* the caller's map variables
          Sessions,    \* addresses of session states
          Transients,  \* the caller's session handles
          Iterators,   \* the caller's session iterators
          Roots,       \* addresses of root nodes
          NoRoot, NoSession, Unset,
          MaxVersion   \* bound on a session's version counter

\* The caller's variables and the session states are finitely many, and the
\* markers are no addresses.
ASSUME SessionAssumption ==
    /\ IsFiniteSet(Maps) /\ IsFiniteSet(Sessions) /\ IsFiniteSet(Transients)
    /\ NoRoot \notin Roots /\ Unset \notin Roots \cup {NoRoot} /\ NoSession \notin Sessions

VARIABLES heap, maps, sess, hnd, iter
sessionVars == <<heap, maps, sess, hnd, iter>>

Freed == [refs |-> 0, content |-> <<>>]
NoState == [refs |-> 0, version |-> 0, active |-> FALSE, root |-> NoRoot]
NoIterator == [sess |-> NoSession, version |-> 0, root |-> NoRoot, seen |-> <<>>]

ContentAt(r) == IF r = NoRoot THEN <<>> ELSE heap[r].content

\* d7_hamt_node_retain and d7_hamt_node_release on a heap.
Retain(h, r) == IF r = NoRoot THEN h ELSE [h EXCEPT ![r].refs = @ + 1]
Release(h, r) ==
    IF r = NoRoot THEN h
    ELSE IF h[r].refs = 1 THEN [h EXCEPT ![r] = Freed]
    ELSE [h EXCEPT ![r].refs = @ - 1]

SessionsInit ==
    /\ heap = [r \in Roots |-> Freed]
    /\ maps = [m \in Maps |-> NoRoot]
    /\ sess = [s \in Sessions |-> NoState]
    /\ hnd = [t \in Transients |-> NoSession]
    /\ iter = [i \in Iterators |-> NoIterator]

\* d7_hamt_map_transient_active_state.
Active(t) == hnd[t] # NoSession /\ sess[hnd[t]].active

\* d7_hamt_map_to_transient; a session on an empty map is one of a null root.
ToTransient(m, t) ==
    /\ maps[m] # Unset /\ hnd[t] = NoSession
    /\ \E s \in Sessions :
          /\ sess[s].refs = 0
          /\ sess' = [sess EXCEPT ![s] = [refs |-> 1, version |-> 0, active |-> TRUE, root |-> maps[m]]]
          /\ hnd' = [hnd EXCEPT ![t] = s]
    /\ heap' = Retain(heap, maps[m])
    /\ UNCHANGED <<maps, iter>>

TransientClone(t, u) ==
    /\ Active(t) /\ u # t /\ hnd[u] = NoSession
    /\ sess' = [sess EXCEPT ![hnd[t]].refs = @ + 1]
    /\ hnd' = [hnd EXCEPT ![u] = hnd[t]]
    /\ UNCHANGED <<heap, maps, iter>>

\* The session state is freed with its last handle, consumed or not.
TransientDestroy(t) ==
    /\ hnd[t] # NoSession
    /\ hnd' = [hnd EXCEPT ![t] = NoSession]
    /\ LET s == hnd[t] IN
       IF sess[s].refs > 1
       THEN sess' = [sess EXCEPT ![s].refs = @ - 1] /\ UNCHANGED heap
       ELSE /\ sess' = [sess EXCEPT ![s] = NoState]
            /\ heap' = Release(heap, sess[s].root)
    /\ UNCHANGED <<maps, iter>>

\* A commit that forgets to advance the version when the map becomes empty.
CommitKeepsVersionWhenEmptied(s, new) ==
    LET old == sess[s].root IN
    IF new = ContentAt(old) THEN UNCHANGED <<heap, sess>>
    ELSE \E r \in Roots \cup {NoRoot} :
            /\ r = NoRoot <=> new = <<>>
            /\ r # NoRoot => heap[r].refs = 0
            /\ heap' = Release(IF r = NoRoot THEN heap
                               ELSE [heap EXCEPT ![r] = [refs |-> 1, content |-> new]], old)
            /\ sess' = [sess EXCEPT ![s].root = r,
                                    ![s].version = IF new = <<>> THEN @ ELSE @ + 1]

\* d7_hamt_map_transient_commit: an edit that changes nothing returns the root
\* it was given; any other edit has a root of its own, the old one loses the
\* session's reference, and the version advances.
Commit(s, new) ==
    LET old == sess[s].root IN
    IF new = ContentAt(old) THEN UNCHANGED <<heap, sess>>
    ELSE \E r \in Roots \cup {NoRoot} :
            /\ r = NoRoot <=> new = <<>>
            /\ r # NoRoot => heap[r].refs = 0
            /\ heap' = Release(IF r = NoRoot THEN heap
                               ELSE [heap EXCEPT ![r] = [refs |-> 1, content |-> new]], old)
            /\ sess' = [sess EXCEPT ![s].root = r, ![s].version = @ + 1]

Edit(t, new) ==
    /\ Active(t) /\ sess[hnd[t]].version < MaxVersion
    /\ Commit(hnd[t], new)
    /\ UNCHANGED <<maps, hnd, iter>>

Here(t) == ContentAt(sess[hnd[t]].root)

TransientSet(t, k, v) == Active(t) /\ Edit(t, (k :> v) @@ Here(t))

\* d7_hamt_map_transient_add rejects a present key; try_add commits the
\* unchanged map.
TransientAdd(t, k, v) == Active(t) /\ k \notin DOMAIN Here(t) /\ Edit(t, (k :> v) @@ Here(t))
TransientTryAdd(t, k, v) == Active(t) /\ Edit(t, Here(t) @@ (k :> v))
TransientRemove(t, k) == Active(t) /\ Edit(t, Restrict(Here(t), DOMAIN Here(t) \ {k}))
TransientClear(t) == Active(t) /\ Edit(t, <<>>)

\* The session keeps the root it hands over.
TransientPersistKeepsRoot(t, m) ==
    /\ Active(t) /\ maps[m] = Unset
    /\ maps' = [maps EXCEPT ![m] = sess[hnd[t]].root]
    /\ sess' = [sess EXCEPT ![hnd[t]].active = FALSE, ![hnd[t]].version = @ + 1]
    /\ UNCHANGED <<heap, hnd, iter>>

\* The clones of a consumed session are still there, and answer CONSUMED.
TransientPersist(t, m) ==
    /\ Active(t) /\ maps[m] = Unset
    /\ maps' = [maps EXCEPT ![m] = sess[hnd[t]].root]
    /\ sess' = [sess EXCEPT ![hnd[t]].root = NoRoot, ![hnd[t]].active = FALSE,
                            ![hnd[t]].version = @ + 1]
    /\ UNCHANGED <<heap, hnd, iter>>

IteratorInit(t, i) ==
    /\ Active(t)
    /\ iter' = [iter EXCEPT ![i] = [sess |-> hnd[t], version |-> sess[hnd[t]].version,
                                    root |-> sess[hnd[t]].root, seen |-> Here(t)]]
    /\ UNCHANGED <<heap, maps, sess, hnd>>

\* d7_hamt_map_transient_iterator_next, while the caller keeps the promise
\* that some handle owns the session.
IteratorAnswer(i) ==
    LET it == iter[i] IN
    IF it.sess = NoSession \/ sess[it.sess].refs = 0 THEN "NOT_ALLOWED"
    ELSE IF ~sess[it.sess].active THEN "CONSUMED"
    ELSE IF sess[it.sess].version # it.version THEN "MODIFIED"
    ELSE "OK"

\* A caller lets go of an iterator before its session goes.
IteratorEnd(i) ==
    /\ iter[i] # NoIterator
    /\ iter' = [iter EXCEPT ![i] = NoIterator]
    /\ UNCHANGED <<heap, maps, sess, hnd>>

MapClone(m, n) ==
    /\ maps[m] # Unset /\ maps[n] = Unset
    /\ maps' = [maps EXCEPT ![n] = maps[m]]
    /\ heap' = Retain(heap, maps[m])
    /\ UNCHANGED <<sess, hnd, iter>>

MapDestroy(m) ==
    /\ maps[m] # Unset
    /\ maps' = [maps EXCEPT ![m] = Unset]
    /\ heap' = Release(heap, maps[m])
    /\ UNCHANGED <<sess, hnd, iter>>

\* The last handle of a session is destroyed only when no iterator borrows it.
IteratorsGone(t) == hnd[t] # NoSession =>
    (sess[hnd[t]].refs = 1 => \A i \in Iterators : iter[i].sess # hnd[t])

SessionsNext ==
    \/ \E m \in Maps, t \in Transients : ToTransient(m, t) \/ TransientPersist(t, m)
    \/ \E t, u \in Transients : TransientClone(t, u)
    \/ \E t \in Transients : (IteratorsGone(t) /\ TransientDestroy(t)) \/ TransientClear(t)
    \/ \E t \in Transients, k \in Keys, v \in Values :
          TransientSet(t, k, v) \/ TransientAdd(t, k, v) \/ TransientTryAdd(t, k, v)
    \/ \E t \in Transients, k \in Keys : TransientRemove(t, k)
    \/ \E t \in Transients, i \in Iterators : IteratorInit(t, i)
    \/ \E i \in Iterators : IteratorEnd(i)
    \/ \E m, n \in Maps : MapClone(m, n)
    \/ \E m \in Maps : MapDestroy(m)

SessionsSpec == SessionsInit /\ [][SessionsNext]_sessionVars

-----------------------------------------------------------------------------
\* Every root is referenced exactly as often as maps and sessions own it, so
\* the last owner frees it and none frees it twice; every session counts its
\* handles.  Publication hands the session's reference over.
ReferencesBalanced ==
    /\ \A r \in Roots :
          heap[r].refs = Cardinality({m \in Maps : maps[m] = r})
                         + Cardinality({s \in Sessions : sess[s].root = r})
    /\ \A s \in Sessions : sess[s].refs = Cardinality({t \in Transients : hnd[t] = s})

\* An iterator that answers OK walks nodes that are still alive and still hold
\* what they held when the iterator was made, although the address of its root
\* may have been freed and used again in between.
IteratorReadsLiveNodes ==
    \A i \in Iterators : IteratorAnswer(i) = "OK" =>
       LET it == iter[i] IN
       /\ it.root # NoRoot => heap[it.root].refs > 0
       /\ ContentAt(it.root) = it.seen

\* A version a map variable holds is immutable: no edit of a session that
\* shares its nodes, and no publication, changes what the map reads.
VersionsImmutable ==
    [][\A m \in Maps : (maps[m] # Unset /\ maps'[m] # Unset)
          => /\ maps'[m] = maps[m]
             /\ maps[m] # NoRoot => heap'[maps[m]].content = heap[maps[m]].content]_sessionVars
=============================================================================
