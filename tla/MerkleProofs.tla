---------------------------- MODULE MerkleProofs ----------------------------
(***************************************************************************)
(* The proofs of merkle_search_tree.c: that a key has a value, that it has *)
(* none, or what a range of keys holds, as blocks that lead from a root's  *)
(* digest.  A proof travels, and on the way anything in it may be lost,    *)
(* changed or put in.                                                      *)
(***************************************************************************)
EXTENDS MerkleTree, FiniteSetsExt

CONSTANTS Trees,        \* the trees proofs are made from
          MaxFaults, MaxBlocks, MaxDepth, MaxEntryCount, MaxChildReferences
VARIABLES proof, faults
vars == <<proof, faults>>

\* A block arrives as a digest and bytes.  Making a proof sorts the positions of
\* the children it goes into and refuses one that comes twice: they are a set,
\* taken in ascending order.
ProofStep(t, expanded) == [digest |-> t, bytes |-> t, expanded |-> expanded]
Proof(root, kind, first, second, steps) ==
    [matches |-> TRUE, root |-> root, kind |-> kind, first |-> first, second |-> second, steps |-> steps]

\* A proof of two equal blocks cannot be built.
Buildable(p) == IsInjective([i \in DOMAIN p.steps |-> p.steps[i].digest])

\* Made by following the key.
RECURSIVE PathOf(_, _)
PathOf(t, k) ==
    IF t = Null THEN <<>>
    ELSE IF FoundAt(t, k) \/ ChildFor(t, k) = Null THEN <<ProofStep(t, {})>>
    ELSE <<ProofStep(t, {FindPosition(t, k)})>> \o PathOf(ChildFor(t, k), k)
CreateProof(t, k) ==
    LET e == FindEntry(t, k)
    IN  IF e = Unset THEN Proof(t, "nonmembership", k, Unset, PathOf(t, k))
                     ELSE Proof(t, "membership", k, e.value, PathOf(t, k))

\* Made by going into each child whose keys may be in the range.
Intersects(t, i, low, high) ==
    /\ i > 0 => t.entries[i].key < high
    /\ i < Len(t.entries) => t.entries[i + 1].key > low
InRange(t, low, high) == {i \in 0..Len(t.entries) : t.children[i + 1] # Null /\ Intersects(t, i, low, high)}
RECURSIVE CollectRange(_, _, _)
CollectRange(t, low, high) ==
    IF t = Null THEN <<>>
    ELSE FoldLeft(LAMBDA q, i : q \o CollectRange(t.children[i + 1], low, high),
                  <<ProofStep(t, InRange(t, low, high))>>, SetToSortSeq(InRange(t, low, high), <))
CreateRangeProof(t, low, high) == Proof(t, "range", low, high, CollectRange(t, low, high))

-----------------------------------------------------------------------------
\* Verification, from the blocks alone: a digest is looked up, never looked into.

Refused == {Unset}
StepOf(p, digest) == CHOOSE i \in DOMAIN p.steps : p.steps[i].digest = digest
HasStep(p, digest) == \E i \in DOMAIN p.steps : p.steps[i].digest = digest
\* The budget's bound is on references, and a node of n entries has n + 1.
ReferencesWithin(s) == Len(s.bytes.entries) < MaxChildReferences
DecodeWireBlock(s) ==
    /\ s.bytes = s.digest
    /\ ReferencesWithin(s)
    /\ \A i \in DOMAIN s.bytes.entries : LevelOf[s.bytes.entries[i].key] = s.bytes.level
    /\ \A i \in 2..Len(s.bytes.entries) : s.bytes.entries[i - 1].key < s.bytes.entries[i].key
ExpansionExists(s) == \A i \in s.expanded : i <= Len(s.bytes.entries) /\ s.bytes.children[i + 1] # Null
DecodeProofQuery(p) ==
    /\ p.first # Unset
    /\ p.kind = "nonmembership" <=> p.second = Unset
    /\ p.kind = "membership" => p.second \in Values
    /\ p.kind = "range" => p.second \in Keys /\ p.first <= p.second

ProofReference(parent, i, child) ==
    /\ child.level < parent.level
    /\ \A j \in DOMAIN child.entries : /\ i > 0 => child.entries[j].key > parent.entries[i].key
                                       /\ i < Len(parent.entries) => child.entries[j].key < parent.entries[i + 1].key

\* The blocks visited on the way to a good end.
RECURSIVE VerifyPoint(_, _, _, _)
VerifyPoint(p, digest, depth, visited) ==
    IF depth > MaxDepth \/ ~HasStep(p, digest) \/ digest \in visited THEN Refused
    ELSE LET s == p.steps[StepOf(p, digest)]
             b == s.bytes
             i == FindPosition(b, p.first)
             child == b.children[i + 1]
         IN  IF FoundAt(b, p.first)
             THEN IF s.expanded = {} /\ p.kind = "membership" /\ p.second = b.entries[i + 1].value
                  THEN visited \cup {digest} ELSE Refused
             ELSE IF child = Null
             THEN IF s.expanded = {} /\ p.kind = "nonmembership" THEN visited \cup {digest} ELSE Refused
             ELSE IF s.expanded = {i} /\ HasStep(p, child) /\ ProofReference(b, i, p.steps[StepOf(p, child)].bytes)
                  THEN VerifyPoint(p, child, depth + 1, visited \cup {digest}) ELSE Refused

RECURSIVE VerifyRangeNode(_, _, _, _)
VerifyRangeNode(p, digest, depth, visited) ==
    IF depth > MaxDepth \/ ~HasStep(p, digest) \/ digest \in visited THEN Refused
    ELSE LET s == p.steps[StepOf(p, digest)]
             b == s.bytes
         IN  IF s.expanded # InRange(b, p.first, p.second) THEN Refused
             ELSE FoldLeft(LAMBDA seen, i :
                              IF \/ seen = Refused \/ ~HasStep(p, b.children[i + 1])
                                 \/ ~ProofReference(b, i, p.steps[StepOf(p, b.children[i + 1])].bytes)
                              THEN Refused
                              ELSE VerifyRangeNode(p, b.children[i + 1], depth + 1, seen),
                           visited \cup {digest}, SetToSortSeq(s.expanded, <))

WithinBudget(p) ==
    /\ Len(p.steps) <= MaxBlocks
    /\ \A i \in DOMAIN p.steps : Cardinality(p.steps[i].expanded) <= MaxChildReferences
    /\ FoldLeft(LAMBDA n, s : n + Len(s.bytes.entries), 0, p.steps) <= MaxEntryCount
\* Blocks that the walk did not need are let through.
VerifyIgnoringRest(p) ==
    /\ p.matches /\ WithinBudget(p)
    /\ \A i \in DOMAIN p.steps : DecodeWireBlock(p.steps[i]) /\ ExpansionExists(p.steps[i])
    /\ DecodeProofQuery(p)
    /\ IF p.root = Null THEN p.steps = <<>> /\ p.kind # "membership"
       ELSE Refused # (IF p.kind = "range" THEN VerifyRangeNode(p, p.root, 1, {}) ELSE VerifyPoint(p, p.root, 1, {}))

VerifyProof(p) ==
    /\ p.matches /\ WithinBudget(p)
    /\ \A i \in DOMAIN p.steps : DecodeWireBlock(p.steps[i]) /\ ExpansionExists(p.steps[i])
    /\ DecodeProofQuery(p)
    /\ IF p.root = Null THEN p.steps = <<>> /\ p.kind # "membership"
       ELSE LET visited == IF p.kind = "range" THEN VerifyRangeNode(p, p.root, 1, {}) ELSE VerifyPoint(p, p.root, 1, {})
            IN  visited # Refused /\ Cardinality(visited) = Len(p.steps)

-----------------------------------------------------------------------------
MakeProof(t, k) == proof = Unset /\ proof' = CreateProof(t, k) /\ faults' = 0
MakeRangeProof(t, low, high) ==
    proof = Unset /\ low <= high /\ proof' = CreateRangeProof(t, low, high) /\ faults' = 0
DisposeProof == proof # Unset /\ proof' = Unset /\ faults' = 0

\* What may happen to a proof on its way.
Fault(p) == proof # Unset /\ faults < MaxFaults /\ Buildable(p) /\ proof' = p /\ faults' = faults + 1
Blocks == UNION {BlocksOf(t) : t \in Trees}
LoseStep(i) == i <= Len(proof.steps) /\ Fault([proof EXCEPT !.steps = RemoveAt(@, i)])
MoveStep(i) == i <= Len(proof.steps) /\ Fault([proof EXCEPT !.steps = RemoveAt(@, i) \o <<@[i]>>])
AddStep(b) == Fault([proof EXCEPT !.steps = @ \o <<ProofStep(b, {})>>])
ReplaceStep(i, b) == i <= Len(proof.steps) /\ Fault([proof EXCEPT !.steps[i] = ProofStep(b, @.expanded)])
DamageBytes(i, b) == i <= Len(proof.steps) /\ Fault([proof EXCEPT !.steps[i].bytes = b])
ChangeExpansion(i, s) == i <= Len(proof.steps) /\ Fault([proof EXCEPT !.steps[i].expanded = s])
ChangeQuery(kind, first, second) == Fault([proof EXCEPT !.kind = kind, !.first = first, !.second = second])
ChangeRoot(t) == Fault([proof EXCEPT !.root = t])
ChangeEnvelope == Fault([proof EXCEPT !.matches = FALSE])

Init == proof = Unset /\ faults = 0
MayFault ==
    /\ proof # Unset
    /\ \/ ChangeEnvelope
       \/ \E t \in Trees : ChangeRoot(t)
       \/ \E k \in Keys : \/ ChangeQuery("nonmembership", k, Unset)
                          \/ \E v \in Values : ChangeQuery("membership", k, v)
                          \/ \E n \in Keys : ChangeQuery("range", k, n)
       \/ \E b \in Blocks : AddStep(b)
       \/ \E i \in DOMAIN proof.steps : \/ LoseStep(i) \/ MoveStep(i)
                                        \/ \E b \in Blocks : ReplaceStep(i, b) \/ DamageBytes(i, b)
                                        \/ \E s \in SUBSET (0..2) : ChangeExpansion(i, s)
Next ==
    \/ \E t \in Trees, k \in Keys : MakeProof(t, k)
    \/ \E t \in Trees, low, high \in Keys : MakeRangeProof(t, low, high)
    \/ DisposeProof
    \/ MayFault

Spec == Init /\ [][Next]_vars

-----------------------------------------------------------------------------
DepthOf(root, b) == Cardinality({x \in BlocksOf(root) : b \in BlocksOf(x)})

\* A proof that arrives as it was made is accepted, whenever it fits the budget.
HonestAccepted ==
    proof # Unset /\ faults = 0 =>
       (VerifyProof(proof) <=> /\ WithinBudget(proof)
                               /\ \A i \in DOMAIN proof.steps : ReferencesWithin(proof.steps[i])
                               /\ \A i \in DOMAIN proof.steps : DepthOf(proof.root, proof.steps[i].bytes) <= MaxDepth)

EntriesOf(t, low, high) == {e \in ToSet(InOrder(t)) : low <= e.key /\ e.key <= high}
ShownBy(p) == UNION {ToSet(p.steps[i].bytes.entries) : i \in DOMAIN p.steps}

\* Whatever happened to it, a proof that is accepted tells the truth about the
\* tree of its root, shows all of the range it is about, and holds exactly the
\* blocks that a fresh proof of the same question would.
AcceptedTellsTruth ==
    proof # Unset /\ VerifyProof(proof) =>
       LET e == FindEntry(proof.root, proof.first)
       IN  CASE proof.kind = "membership" ->
                  e # Unset /\ e.value = proof.second /\ ToSet(proof.steps) = ToSet(PathOf(proof.root, proof.first))
             [] proof.kind = "nonmembership" ->
                  e = Unset /\ ToSet(proof.steps) = ToSet(PathOf(proof.root, proof.first))
             [] proof.kind = "range" ->
                  /\ EntriesOf(proof.root, proof.first, proof.second)
                        = {x \in ShownBy(proof) : proof.first <= x.key /\ x.key <= proof.second}
                  /\ ToSet(proof.steps) = ToSet(CollectRange(proof.root, proof.first, proof.second))
=============================================================================
