--------------------------- MODULE VersionHandles ---------------------------
(***************************************************************************)
(* The calling convention that the composite structures over the hash map  *)
(* share.  A caller's handle owns a version, a version owns the component  *)
(* structures it is made of, and a call builds a candidate out of several  *)
(* structures, any of which may fail to be built, before it publishes.     *)
(***************************************************************************)
EXTENDS Naturals, FiniteSets

CONSTANTS Handles,   \* the caller's variables
          Unset      \* what a variable holds that owns no version

VARIABLES hold,      \* hold[h]: the version in h
          live       \* component structures that were made and not destroyed
handleVars == <<hold, live>>

Held == {h \in Handles : hold[h] # Unset}

\* The result of a call goes to its own source or to a variable that owns nothing.
MayTarget(s, h) == s \in Held /\ (h = s \/ h \notin Held)

HandlesInit == hold = [h \in Handles |-> Unset] /\ live = 0

\* publish: a source that is also the result is destroyed first.
Succeed(s, h, version, parts) ==
    /\ hold' = [hold EXCEPT ![h] = version]
    /\ live' = live + parts - (IF h = s THEN parts ELSE 0)

Rejected == UNCHANGED handleVars

\* The next structure cannot be built: those built before it are destroyed.
FailAfter(built) == hold' = hold /\ live' = (live + built) - built

\* A call that builds this many structures one after another.
Build(s, h, version, parts) ==
    Succeed(s, h, version, parts) \/ \E built \in 0..(parts - 1) : FailAfter(built)

Destroy(h, parts) ==
    /\ h \in Held
    /\ hold' = [hold EXCEPT ![h] = Unset]
    /\ live' = live - parts

Clone(s, h, parts) ==
    /\ s \in Held /\ h \notin Held
    /\ hold' = [hold EXCEPT ![h] = hold[s]] /\ live' = live + parts

\* The destination takes over what the source owned.
Move(s, h) ==
    /\ s \in Held /\ h \notin Held
    /\ hold' = [hold EXCEPT ![h] = hold[s], ![s] = Unset] /\ UNCHANGED live

-----------------------------------------------------------------------------
(***************************************************************************)
(* The hash map and the hash set as the structures built on them use them: *)
(* what Hamt is shown to implement.  A map takes the class of a key to the *)
(* key pointer it stores and a value, a set the class of an item to the    *)
(* item pointer it stores.                                                 *)
(***************************************************************************)
CONSTANTS Items,    \* the pointers a caller passes
          Class     \* Class[p][x]: the class of x under the equality of policy p

Cls(p, x) == Class[p][x]

EmptyTable == [c \in {} |-> c]

\* d7_hamt_map_set: a present key keeps its stored pointer.
MapSet(m, c, k, v) ==
    [x \in DOMAIN m \cup {c} |->
        IF x # c THEN m[x]
        ELSE [key |-> IF c \in DOMAIN m THEN m[c].key ELSE k, value |-> v]]

MapRemove(m, c) == [x \in DOMAIN m \ {c} |-> m[x]]

\* d7_hamt_set_try_add: a present item is kept.
SetTryAdd(s, c, item) ==
    [x \in DOMAIN s \cup {c} |-> IF x \in DOMAIN s THEN s[x] ELSE item]

SetTryRemove(s, c) == [x \in DOMAIN s \ {c} |-> s[x]]
=============================================================================
