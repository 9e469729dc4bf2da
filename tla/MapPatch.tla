------------------------------ MODULE MapPatch ------------------------------
(***************************************************************************)
(* Patches of hash maps (persistent_map_patch.c): for each key, the state  *)
(* a map must have before the patch and the state it has after.  A state   *)
(* is a value or Absent.  Patches are applied to maps, inverted, composed  *)
(* and derived from two maps.                                              *)
(***************************************************************************)
EXTENDS VersionHandles, FiniteSetsExt

CONSTANTS Keys, Values, Absent,
          Maps        \* the caller's map variables

VARIABLE maps         \* maps[m]: a hash map, or Unset
vars == <<hold, live, maps>>

States == Values \cup {Absent}
Conflict == [c \in {"conflict"} |-> c]   \* a call that answers INVALID_ARGUMENT

StatesEqual(s, t) ==
    \/ s = Absent /\ t = Absent
    \/ s # Absent /\ t # Absent /\ Cls("value", s) = Cls("value", t)

K(k) == Cls("key", k)
StateOf(m, c) == IF c \in DOMAIN m THEN m[c].value ELSE Absent
Change(b, a) == [before |-> b, after |-> a]

\* d7_hamt_map_patch_add, for a key the patch does not mention.
AddChange(p, k, b, a) == IF StatesEqual(b, a) THEN p ELSE MapSet(p, K(k), k, Change(b, a))

Preflight(p, m) == \A c \in DOMAIN p : StatesEqual(StateOf(m, c), p[c].value.before)

\* d7_hamt_map_patch_try_apply, once every expectation holds.
ApplyChanges(p, m) ==
    FoldSet(LAMBDA c, current :
              IF p[c].value.after = Absent THEN MapRemove(current, c)
              ELSE MapSet(current, c, p[c].key, p[c].value.after),
            m, DOMAIN p)

Invert(p) ==
    FoldSet(LAMBDA c, q : AddChange(q, p[c].key, p[c].value.after, p[c].value.before),
            EmptyTable, DOMAIN p)

\* A composition that keeps a change that was undone.
ComposeOneKeepsUndone(current, k, b, a) ==
    IF K(k) \notin DOMAIN current THEN AddChange(current, k, b, a)
    ELSE MapSet(current, K(k), k, Change(current[K(k)].value.before, a))

\* One step of the loop of d7_hamt_map_patch_compose.  A change that meets
\* another is replaced by rebuilding the patch without it and adding the
\* combined change, which is dropped when it changes nothing.
ComposeOne(current, k, b, a) ==
    IF current = Conflict THEN Conflict
    ELSE IF K(k) \notin DOMAIN current THEN AddChange(current, k, b, a)
    ELSE LET existing == current[K(k)]
         IN  IF ~StatesEqual(existing.value.after, b) THEN Conflict
             ELSE AddChange(MapRemove(current, K(k)), existing.key, existing.value.before, a)

Compose(p, q) ==
    FoldSet(LAMBDA c, current : ComposeOne(current, q[c].key, q[c].value.before, q[c].value.after),
            p, DOMAIN q)

Between(m, n) ==
    LET lost == FoldSet(LAMBDA c, p : AddChange(p, m[c].key, m[c].value, StateOf(n, c)),
                        EmptyTable, DOMAIN m)
    IN  FoldSet(LAMBDA c, p : AddChange(p, n[c].key, Absent, n[c].value), lost, DOMAIN n \ DOMAIN m)

-----------------------------------------------------------------------------
Init == HandlesInit /\ maps = [m \in Maps |-> EmptyTable]

AddEntry(s, h, k, b, a) ==
    /\ MayTarget(s, h)
    /\ IF ~StatesEqual(b, a) /\ K(k) \in DOMAIN hold[s] THEN Rejected
       ELSE Build(s, h, AddChange(hold[s], k, b, a), 1)

\* A key the patch mentions already is left alone.
TryAddEntry(s, h, k, b, a) ==
    MayTarget(s, h) /\ Build(s, h, IF K(k) \in DOMAIN hold[s] THEN hold[s]
                                   ELSE AddChange(hold[s], k, b, a), 1)

RemoveChange(s, h, k) == MayTarget(s, h) /\ Build(s, h, MapRemove(hold[s], K(k)), 1)
Clear(s, h) == MayTarget(s, h) /\ Build(s, h, EmptyTable, 1)
InvertPatch(s, h) == MayTarget(s, h) /\ Build(s, h, Invert(hold[s]), 1)

ComposePatches(s, o, h) ==
    /\ o \in Held /\ MayTarget(s, h)
    /\ LET p == Compose(hold[s], hold[o])
       IN  IF p = Conflict THEN Rejected ELSE Build(s, h, p, 1)

\* A conflicting try_apply answers with a clone of its source.
TryApply(p, m, n) ==
    /\ p \in Held /\ maps[m] # Unset /\ (n = m \/ maps[n] = Unset)
    /\ maps' = [maps EXCEPT ![n] = IF Preflight(hold[p], maps[m]) THEN ApplyChanges(hold[p], maps[m])
                                   ELSE maps[m]]
    /\ UNCHANGED handleVars

\* A conflicting apply destroys the clone that try_apply left in its result.
Apply(p, m, n) ==
    /\ p \in Held /\ maps[m] # Unset /\ (n = m \/ maps[n] = Unset)
    /\ maps' = [maps EXCEPT ![n] = IF Preflight(hold[p], maps[m]) THEN ApplyChanges(hold[p], maps[m])
                                   ELSE Unset]
    /\ UNCHANGED handleVars

BetweenMaps(m, n, h) ==
    /\ maps[m] # Unset /\ maps[n] # Unset /\ h \notin Held
    /\ Build(Unset, h, Between(maps[m], maps[n]), 1)

\* The calls of the map itself.
SetInMap(m, k, v) ==
    /\ maps[m] # Unset
    /\ maps' = [maps EXCEPT ![m] = IF v = Absent THEN MapRemove(@, K(k)) ELSE MapSet(@, K(k), k, v)]
    /\ UNCHANGED handleVars

CreateMap(m) == maps[m] = Unset /\ maps' = [maps EXCEPT ![m] = EmptyTable] /\ UNCHANGED handleVars

PatchSteps ==
    \/ \E h \in Handles : (h \notin Held /\ Build(Unset, h, EmptyTable, 1)) \/ Destroy(h, 1)
    \/ \E s, h \in Handles : Clone(s, h, 1) \/ Move(s, h) \/ Clear(s, h) \/ InvertPatch(s, h)
    \/ \E s, h \in Handles, k \in Keys, b, a \in States :
          AddEntry(s, h, k, b, a) \/ TryAddEntry(s, h, k, b, a)
    \/ \E s, h \in Handles, k \in Keys : RemoveChange(s, h, k)
    \/ \E s, o, h \in Handles : ComposePatches(s, o, h)
    \/ \E m, n \in Maps, h \in Handles : BetweenMaps(m, n, h)

Next ==
    \/ PatchSteps /\ UNCHANGED maps
    \/ \E p \in Handles, m, n \in Maps : TryApply(p, m, n) \/ Apply(p, m, n)
    \/ \E m \in Maps, k \in Keys, v \in States : SetInMap(m, k, v)
    \/ \E m \in Maps : CreateMap(m)

Spec == Init /\ [][Next]_vars

-----------------------------------------------------------------------------
\* Equal contents, up to equal keys and values.
Same(m, n) == DOMAIN m = DOMAIN n /\ \A c \in DOMAIN m : StatesEqual(m[c].value, n[c].value)

Live == {m \in Maps : maps[m] # Unset}

\* d7_hamt_map_patch_debug_validate: no change of a patch leaves its key as it
\* was, however the patch was put together; patches are not leaked.
PatchesMinimal ==
    /\ \A h \in Held : \A c \in DOMAIN hold[h] :
          /\ ~StatesEqual(hold[h][c].value.before, hold[h][c].value.after)
          /\ c = K(hold[h][c].key)
    /\ live = Cardinality(Held)

\* The inverse of a patch applies to what the patch made of a map, and restores
\* that map.
InverseUndoes ==
    \A h \in Held, m \in Live : Preflight(hold[h], maps[m]) =>
       LET after == ApplyChanges(hold[h], maps[m])
       IN  Preflight(Invert(hold[h]), after) /\ Same(ApplyChanges(Invert(hold[h]), after), maps[m])

\* A composition applies to the maps to which its parts apply in turn, and does
\* what they do; it is refused only when the parts can never apply in turn.
ComposeExact ==
    \A g, h \in Held, m \in Live : Preflight(hold[g], maps[m]) =>
       LET middle == ApplyChanges(hold[g], maps[m])
           both == Compose(hold[g], hold[h])
       IN  IF both = Conflict THEN ~Preflight(hold[h], middle)
           ELSE /\ Preflight(both, maps[m]) <=> Preflight(hold[h], middle)
                /\ Preflight(both, maps[m]) =>
                      Same(ApplyChanges(both, maps[m]), ApplyChanges(hold[h], middle))

\* The patch between two maps takes the one to the other.
BetweenExact ==
    \A m, n \in Live :
       /\ Preflight(Between(maps[m], maps[n]), maps[m])
       /\ Same(ApplyChanges(Between(maps[m], maps[n]), maps[m]), maps[n])

\* What the API specification says of the composed structures: outputs are
\* written only after success, so a call that is refused leaves the map it was
\* given where it was.
OutputsOnlyAfterSuccess == \A m \in Maps : maps[m] # Unset => maps'[m] # Unset
=============================================================================
