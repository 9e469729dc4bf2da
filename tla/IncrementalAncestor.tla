------------------------ MODULE IncrementalAncestor ------------------------
(***************************************************************************)
(* The append-only arena of incremental_ancestor.c that answers level-     *)
(* ancestor queries.  A published node never changes; it has a parent and  *)
(* a jump to an ancestor further up.  Node records live in blocks of 1, 3, *)
(* 5, ... slots, so that a node's block is the integer square root of its  *)
(* number.  Handles share an arena by reference count.                     *)
(***************************************************************************)
EXTENDS Integers, SequencesExt, FiniteSetTheorems, SequenceTheorems, WellFoundedInduction, TLAPS

CONSTANTS Handles, Arenas, Values,
          Unset,           \* what a handle without an arena, a slot without a node has
          MaxNodes,        \* where node numbers overflow (SIZE_MAX)
          FirstDirectory,  \* entries of the first block directory
          WordBits         \* the even number of bits of a node number

RootBits == WordBits \div 2
PowerOfTwo[k \in 0..RootBits] == IF k = 0 THEN 1 ELSE 2 * PowerOfTwo[k - 1]

ArenaAssumption ==
    /\ IsFiniteSet(Handles)
    /\ Unset \notin Arenas /\ Unset \notin Nat
    /\ MaxNodes \in Nat \ {0}
    /\ WordBits \in Nat /\ WordBits % 2 = 0 /\ FirstDirectory > 0
    /\ MaxNodes + 1 < PowerOfTwo[RootBits] * PowerOfTwo[RootBits]

VARIABLES hold,    \* hold[h]: what the caller's variable h owns, with its .arena
          arena,   \* arena[a]: the arena at address a
          refs     \* refs[a]: its reference count
arenaVars == <<hold, arena, refs>>

Bottom == 0

\* What an empty handle holds, and what is at a free address.
Nothing == [arena |-> Unset]
NoArena == [blocks |-> <<>>, capacity |-> 0, count |-> 0]

Held == {h \in Handles : hold[h].arena # Unset}
MayTarget(s, h) == s \in Held /\ (h = s \/ h \notin Held)

\* The square root tries the bits 2^(w-2), ..., 4, 1 in turn, squares of powers of two.
RootStep(acc, bit) ==
    IF acc.rem >= acc.root + bit
    THEN [rem |-> acc.rem - (acc.root + bit), root |-> (acc.root \div 2) + bit]
    ELSE [acc EXCEPT !.root = @ \div 2]

IntegerSquareRoot(n) ==
    LET after[i \in 0..RootBits] ==
            IF i = 0 THEN [rem |-> n, root |-> 0]
            ELSE RootStep(after[i - 1], PowerOfTwo[RootBits - i] * PowerOfTwo[RootBits - i])
    IN  after[RootBits].root

InBlock(A, n, b) == A.blocks[b + 1][n - b * b + 1]
Slot(A, n) == InBlock(A, n, IntegerSquareRoot(n))

\* Makes room for node A.count.  A directory that grew stays, block or no block.
Grown(A) ==
    IF Len(A.blocks) = A.capacity
    THEN [A EXCEPT !.capacity = IF @ = 0 THEN FirstDirectory ELSE 2 * @]
    ELSE A
ReserveBlock(A, b) ==
    IF b # Len(A.blocks) THEN [ok |-> {A}, failed |-> {}]
    ELSE [ok |-> {[Grown(A) EXCEPT !.blocks = @ \o <<[i \in 1..(2 * b + 1) |-> Unset]>>]},
          failed |-> {A, Grown(A)}]
Reserve(A) == ReserveBlock(A, IntegerSquareRoot(A.count))

\* The jump of a new leaf: one level, or the parent's and the one it lands on.
JumpOver(parent, p, q) ==
    IF parent = Bottom \/ p.skip = Bottom \/ q.distance > p.distance
    THEN [to |-> parent, distance |-> 1]
    ELSE [to |-> q.skip, distance |-> 1 + p.distance + q.distance]
Jump(A, parent) == JumpOver(parent, Slot(A, parent), Slot(A, Slot(A, parent).skip))

PutInBlock(A, n, b, record) ==
    [A EXCEPT !.blocks[b + 1][n - b * b + 1] = record, !.count = n + 1]
Put(A, n, record) == PutInBlock(A, n, IntegerSquareRoot(n), record)

Depth(A, n) == Slot(A, n).depth
Parent(A, n) == Slot(A, n).parent
ValueOf(A, n) == Slot(A, n).value

\* What adding a leaf may come to; no leaf when it fails.
LeafNode(parent, jump, depth, v) ==
    [parent |-> parent, skip |-> jump.to, distance |-> jump.distance, depth |-> depth, value |-> v]
AddReserved(A, parent, v, room) ==
    {[arena |-> B, leaf |-> Unset] : B \in room.failed \cup {A}}
    \cup {[arena |-> Put(B, B.count, LeafNode(parent, Jump(A, parent), Depth(A, parent) + 1, v)),
           leaf |-> B.count] : B \in room.ok}
AddLeaf(A, parent, v) ==
    IF A.count = MaxNodes THEN {[arena |-> A, leaf |-> Unset]}
    ELSE AddReserved(A, parent, v, Reserve(A))

Nodes(A) == 0..(A.count - 1)

\* The ancestor at a depth not below -1 nor above the node's, and the hops to it.
Hop(r, depth) == IF r.distance # 0 /\ r.distance <= r.depth - depth THEN r.skip ELSE r.parent
AncestorAtDepth(A, node, depth) ==
    LET walk[n \in Nodes(A)] ==
            IF Depth(A, n) <= depth THEN [node |-> n, hops |-> 0]
            ELSE [walk[Hop(Slot(A, n), depth)] EXCEPT !.hops = @ + 1]
    IN  walk[node]

\* The arena with its bottom node, in block 0.
NewArena ==
    Put([blocks |-> <<<<Unset>>>>, capacity |-> FirstDirectory, count |-> 0], Bottom,
        [parent |-> Bottom, skip |-> Bottom, distance |-> 0, depth |-> -1, value |-> Unset])

\* A new arena to which a path of leaves is added, with what each adding came to.
Grow(grown, v) == CHOOSE out \in AddLeaf(grown.arena, grown.leaf, v) : out.leaf # Unset
Chain(values) ==
    LET grown[i \in 0..Len(values)] ==
            IF i = 0 THEN [arena |-> NewArena, leaf |-> Bottom] ELSE Grow(grown[i - 1], values[i])
    IN  grown

-----------------------------------------------------------------------------
ArenaInit ==
    /\ hold = [h \in Handles |-> Nothing]
    /\ arena = [a \in Arenas |-> NoArena]
    /\ refs = [a \in Arenas |-> 0]

\* A new arena whose only reference is the new owner's.
NewOwner(h, a, owner) ==
    /\ h \notin Held /\ arena[a] = NoArena
    /\ hold' = [hold EXCEPT ![h] = owner]
    /\ arena' = [arena EXCEPT ![a] = NewArena]
    /\ refs' = [refs EXCEPT ![a] = 1]

CreateArena(h, a) == NewOwner(h, a, [arena |-> a])

\* A copy has a reference of its own.
Copy(s, h) ==
    /\ s \in Held /\ h \notin Held
    /\ hold' = [hold EXCEPT ![h] = hold[s]]
    /\ refs' = [refs EXCEPT ![hold[s].arena] = @ + 1]
    /\ UNCHANGED arena

Move(s, h) ==
    /\ s \in Held /\ h \notin Held
    /\ hold' = [hold EXCEPT ![h] = hold[s], ![s] = Nothing]
    /\ UNCHANGED <<arena, refs>>

\* An arena that outlives its last reference.
DisposeLeaks(h) ==
    /\ h \in Held
    /\ hold' = [hold EXCEPT ![h] = Nothing]
    /\ refs' = [refs EXCEPT ![hold[h].arena] = @ - 1]
    /\ UNCHANGED arena

\* The last reference takes the arena with it.
Dispose(h) ==
    LET a == hold[h].arena IN
    /\ h \in Held
    /\ hold' = [hold EXCEPT ![h] = Nothing]
    /\ refs' = [refs EXCEPT ![a] = @ - 1]
    /\ arena' = [arena EXCEPT ![a] = IF refs[a] = 1 THEN NoArena ELSE @]

ArenaAddLeaf(h, parent, v) ==
    /\ h \in Held
    /\ LET a == hold[h].arena IN
       /\ parent \in Nodes(arena[a])
       /\ \E out \in AddLeaf(arena[a], parent, v) : arena' = [arena EXCEPT ![a] = out.arena]
       /\ UNCHANGED <<hold, refs>>

ArenaNext ==
    \/ \E h \in Handles, a \in Arenas : CreateArena(h, a)
    \/ \E s, h \in Handles : Copy(s, h) \/ Move(s, h)
    \/ \E h \in Handles : Dispose(h)
    \/ \E h \in Handles, parent \in 0..(MaxNodes - 1), v \in Values : ArenaAddLeaf(h, parent, v)

ArenaSpec == ArenaInit /\ [][ArenaNext]_arenaVars

-----------------------------------------------------------------------------
Existing == {a \in Arenas : arena[a] # NoArena}

\* The ancestor a chain of parents leads to.
ByParents(A, node, depth) ==
    LET up[n \in Nodes(A)] == IF Depth(A, n) = depth THEN n ELSE up[Parent(A, n)]
    IN  up[node]

\* A query finds the node that walking from parent to parent finds, for every
\* node and every depth on its path, however the jumps were coalesced.
AncestorsExact ==
    \A a \in Existing : \A n \in Nodes(arena[a]) : \A d \in -1..Depth(arena[a], n) :
       AncestorAtDepth(arena[a], n, d).node = ByParents(arena[a], n, d)

Log2Floor(n) == CHOOSE e \in 0..n : 2 ^ e <= n /\ n < 2 ^ (e + 1)

\* A query takes logarithmically many hops in the depth of the node it starts
\* from, on every branch of the tree and not only on a single chain.
HopsLogarithmic ==
    \A a \in Existing : \A n \in Nodes(arena[a]) : \A d \in -1..Depth(arena[a], n) :
       AncestorAtDepth(arena[a], n, d).hops <= 2 * Log2Floor(Depth(arena[a], n) + 2)

\* An arena exists exactly as long as handles refer to it, and its reference
\* count is their number.
ArenaOwned ==
    \A a \in Arenas :
       /\ refs[a] = Cardinality({h \in Held : hold[h].arena = a})
       /\ (arena[a] = NoArena) = (refs[a] = 0)

\* A published node is never written again, whatever is added to the arena,
\* whichever addition fails, and however the block directory grows.
NodesFrozen ==
    \A a \in Existing : arena'[a] # NoArena =>
       \A n \in Nodes(arena[a]) : Slot(arena'[a], n) = Slot(arena[a], n)

-----------------------------------------------------------------------------
(* Arenas and their owners, for any handles, addresses and word size.      *)

Owners(hd, a) == {h \in Handles : hd[h].arena = a}

\* The counts rf are the numbers of owners that the handles hd make up.
Counted(hd, rf) ==
    /\ hd = [h \in Handles |-> hd[h]]
    /\ rf \in [Arenas -> Nat]
    /\ \A h \in Handles : hd[h].arena \in Arenas \cup {Unset}
    /\ \A a \in Arenas : rf[a] = Cardinality(Owners(hd, a))

\* An arena has its bottom node at least.
Sized(A) ==
    /\ DOMAIN A = {"blocks", "capacity", "count"}
    /\ A.count \in Nat \ {0}

\* The arenas as at the addresses that have owners.
Kept(as, rf) ==
    /\ as = [a \in Arenas |-> as[a]]
    /\ \A a \in Arenas : IF rf[a] = 0 THEN as[a] = NoArena ELSE Sized(as[a])

ArenaInv == Counted(hold, refs) /\ Kept(arena, refs)

LEMMA OwnersFinite == ASSUME ArenaAssumption, NEW hd, NEW a PROVE IsFiniteSet(Owners(hd, a))
BY FS_Subset DEF Owners, ArenaAssumption

\* What a handle gives up and what it takes is all that the counts notice.
LEMMA Assigned ==
    ASSUME ArenaAssumption, NEW hd, NEW rf, Counted(hd, rf),
           NEW h \in Handles, NEW x, x.arena \in Arenas \cup {Unset},
           NEW count, count = [a \in Arenas |-> count[a]],
           \A a \in Arenas : count[a] = (rf[a] + (IF x.arena = a THEN 1 ELSE 0))
                                        - (IF hd[h].arena = a THEN 1 ELSE 0)
    PROVE  Counted([hd EXCEPT ![h] = x], count)
<1> DEFINE new == [hd EXCEPT ![h] = x]
<1>1. /\ new = [k \in Handles |-> new[k]]
      /\ \A k \in Handles : new[k] = IF k = h THEN x ELSE hd[k]
  BY DEF Counted
<1>2. ASSUME NEW a \in Arenas PROVE count[a] \in Nat /\ count[a] = Cardinality(Owners(new, a))
  <2> DEFINE rest == Owners(hd, a) \ {h}
  <2> HIDE DEF new
  <2>1. /\ IsFiniteSet(Owners(hd, a)) /\ Cardinality(Owners(hd, a)) = rf[a] /\ rf[a] \in Nat
        /\ (h \in Owners(hd, a)) <=> (hd[h].arena = a)
    <3>1. IsFiniteSet(Owners(hd, a))
      BY OwnersFinite
    <3>2. Cardinality(Owners(hd, a)) = rf[a] /\ rf[a] \in Nat
      BY DEF Counted
    <3> QED
      BY <3>1, <3>2 DEF Owners
  <2>2. /\ IsFiniteSet(rest)
        /\ Cardinality(rest) = rf[a] - (IF hd[h].arena = a THEN 1 ELSE 0)
    <3>1. /\ IsFiniteSet(Owners(hd, a) \ {h})
          /\ Cardinality(Owners(hd, a) \ {h}) =
                IF h \in Owners(hd, a) THEN Cardinality(Owners(hd, a)) - 1 ELSE Cardinality(Owners(hd, a))
      BY <2>1, FS_RemoveElement
    <3> QED
      BY <2>1, <3>1
  <2>3. Cardinality(rest) \in Nat
    BY <2>2, FS_CardinalityType
  <2>4. CASE x.arena = a
    <3>1. Owners(new, a) = rest \cup {h} /\ h \notin rest
      BY <1>1, <2>4 DEF Owners
    <3>2. Cardinality(Owners(new, a)) = Cardinality(rest) + 1
      BY <2>2, <3>1, FS_AddElement
    <3> QED
      BY <2>1, <2>2, <2>3, <2>4, <3>2
  <2>5. CASE x.arena # a
    <3>1. Owners(new, a) = rest
      BY <1>1, <2>5 DEF Owners
    <3> QED
      BY <2>1, <2>2, <2>3, <2>5, <3>1
  <2> QED
    BY <2>4, <2>5
<1>3. \A k \in Handles : new[k].arena \in Arenas \cup {Unset}
  BY <1>1 DEF Counted
<1> HIDE DEF new
<1>4. count \in [Arenas -> Nat]
  BY <1>2
<1>5. Counted(new, count)
  BY <1>1, <1>2, <1>3, <1>4 DEF Counted
<1> QED
  BY <1>5 DEF new

\* An arena that a handle refers to has an owner.
LEMMA HeldCounted ==
    ASSUME ArenaAssumption, NEW hd, NEW rf, Counted(hd, rf), NEW h \in Handles, hd[h].arena # Unset
    PROVE  hd[h].arena \in Arenas /\ rf[hd[h].arena] \in Nat \ {0}
<1> DEFINE a == hd[h].arena
<1>1. a \in Arenas /\ h \in Owners(hd, a) /\ rf[a] = Cardinality(Owners(hd, a)) /\ rf[a] \in Nat
  BY DEF Counted, Owners
<1>2. rf[a] # 0
  BY <1>1, OwnersFinite, FS_EmptySet
<1> QED
  BY <1>1, <1>2

\* Adding a leaf leaves an arena, and a leaf only if it has one node more.
LEMMA AddLeafSized ==
    ASSUME NEW A, Sized(A), NEW parent, NEW v, NEW out \in AddLeaf(A, parent, v), ArenaAssumption
    PROVE  Sized(out.arena) /\ (out.leaf # Unset => out.arena.count = A.count + 1)
<1> DEFINE b == IntegerSquareRoot(A.count)
           more == [Grown(A) EXCEPT !.blocks = @ \o <<[i \in 1..(2 * b + 1) |-> Unset]>>]
<1>1. Sized(Grown(A)) /\ Grown(A).count = A.count
  BY DEF Sized, Grown
<1>2. Sized(more) /\ more.count = A.count
  BY <1>1 DEF Sized
<1>3. \A B \in Reserve(A).ok \cup Reserve(A).failed : B = A \/ B = Grown(A) \/ B = more
  BY DEF Reserve, ReserveBlock
<1>4. \A B \in Reserve(A).ok \cup Reserve(A).failed \cup {A} : Sized(B) /\ B.count = A.count
  BY <1>1, <1>2, <1>3
<1>5. ASSUME NEW B, Sized(B), B.count = A.count, NEW record
      PROVE  Sized(Put(B, B.count, record)) /\ Put(B, B.count, record).count = A.count + 1
  <2> DEFINE c == IntegerSquareRoot(B.count)
  <2> HIDE DEF c
  <2>1. Sized(PutInBlock(B, B.count, c, record)) /\ PutInBlock(B, B.count, c, record).count = A.count + 1
    BY <1>5 DEF Sized, PutInBlock
  <2> QED
    BY <2>1 DEF Put, c
<1>6. CASE A.count = MaxNodes
  BY <1>6 DEF AddLeaf
<1>7. CASE A.count # MaxNodes
  <2> DEFINE leaf == LeafNode(parent, Jump(A, parent), Depth(A, parent) + 1, v)
  <2> HIDE DEF leaf
  <2>1. out \in AddReserved(A, parent, v, Reserve(A))
    BY <1>7 DEF AddLeaf
  <2>2. \/ \E B \in Reserve(A).failed \cup {A} : out = [arena |-> B, leaf |-> Unset]
        \/ \E B \in Reserve(A).ok : out = [arena |-> Put(B, B.count, leaf), leaf |-> B.count]
    BY <2>1 DEF AddReserved, leaf
  <2>3. CASE \E B \in Reserve(A).failed \cup {A} : out = [arena |-> B, leaf |-> Unset]
    BY <1>4, <2>3
  <2>4. CASE \E B \in Reserve(A).ok : out = [arena |-> Put(B, B.count, leaf), leaf |-> B.count]
    <3>1. PICK B \in Reserve(A).ok : out = [arena |-> Put(B, B.count, leaf), leaf |-> B.count]
      BY <2>4
    <3>2. Sized(B) /\ B.count = A.count
      BY <1>4
    <3>3. out.arena = Put(B, B.count, leaf)
      BY <3>1
    <3> QED
      BY <1>5, <3>2, <3>3
  <2> QED
    BY <2>2, <2>3, <2>4
<1> QED
  BY <1>6, <1>7

LEMMA NewArenaSized == Sized(NewArena) /\ NewArena.count = 1
<1> DEFINE c == IntegerSquareRoot(Bottom)
<1> HIDE DEF c
<1>1. ASSUME NEW record
      PROVE  LET A == PutInBlock([blocks |-> <<<<Unset>>>>, capacity |-> FirstDirectory, count |-> 0],
                                 Bottom, c, record)
             IN  Sized(A) /\ A.count = 1
  BY DEF PutInBlock, Sized, Bottom
<1> QED
  BY <1>1 DEF NewArena, Put, c

\* A handle that keeps to its arena, one that joins, and one that leaves.
LEMMA SameCounts ==
    ASSUME ArenaAssumption, NEW hd, NEW rf, Counted(hd, rf), NEW h \in Handles, NEW x, x.arena = hd[h].arena
    PROVE  Counted([hd EXCEPT ![h] = x], rf)
<1>1. rf = [a \in Arenas |-> rf[a]] /\ \A a \in Arenas : rf[a] \in Nat
  BY DEF Counted
<1>2. \A a \in Arenas : rf[a] = (rf[a] + (IF x.arena = a THEN 1 ELSE 0)) - (IF hd[h].arena = a THEN 1 ELSE 0)
  BY <1>1
<1>3. x.arena \in Arenas \cup {Unset}
  BY DEF Counted
<1> QED
  BY <1>1, <1>2, <1>3, Assigned

LEMMA OwnerAdded ==
    ASSUME ArenaAssumption, NEW hd, NEW rf, Counted(hd, rf), NEW h \in Handles, hd[h].arena = Unset,
           NEW x, x.arena \in Arenas
    PROVE  Counted([hd EXCEPT ![h] = x], [rf EXCEPT ![x.arena] = @ + 1])
<1> DEFINE count == [rf EXCEPT ![x.arena] = @ + 1]
<1>1. \A a \in Arenas : rf[a] \in Nat /\ hd[h].arena # a
  BY DEF Counted, ArenaAssumption
<1>2. count = [a \in Arenas |-> count[a]] /\ \A a \in Arenas : count[a] = IF a = x.arena THEN rf[a] + 1 ELSE rf[a]
  BY DEF Counted
<1> HIDE DEF count
<1>3. \A a \in Arenas : count[a] = (rf[a] + (IF x.arena = a THEN 1 ELSE 0)) - (IF hd[h].arena = a THEN 1 ELSE 0)
  BY <1>1, <1>2
<1>4. Counted([hd EXCEPT ![h] = x], count)
  BY <1>2, <1>3, Assigned
<1> QED
  BY <1>4 DEF count

LEMMA OwnerGone ==
    ASSUME ArenaAssumption, NEW hd, NEW rf, Counted(hd, rf), NEW h \in Handles, hd[h].arena # Unset
    PROVE  Counted([hd EXCEPT ![h] = Nothing], [rf EXCEPT ![hd[h].arena] = @ - 1])
<1> DEFINE x == Nothing
           count == [rf EXCEPT ![hd[h].arena] = @ - 1]
<1>1. x.arena = Unset /\ \A a \in Arenas : rf[a] \in Nat /\ x.arena # a
  BY DEF Counted, ArenaAssumption, Nothing
<1>2. count = [a \in Arenas |-> count[a]] /\ \A a \in Arenas : count[a] = IF a = hd[h].arena THEN rf[a] - 1 ELSE rf[a]
  BY DEF Counted
<1> HIDE DEF count, x
<1>3. \A a \in Arenas : count[a] = (rf[a] + (IF x.arena = a THEN 1 ELSE 0)) - (IF hd[h].arena = a THEN 1 ELSE 0)
  BY <1>1, <1>2
<1>4. Counted([hd EXCEPT ![h] = x], count)
  BY <1>1, <1>2, <1>3, Assigned
<1> QED
  BY <1>4 DEF count, x

LEMMA CountedNext ==
    ASSUME NEW hd, NEW rf, Counted(hd, rf), hold' = hd, refs' = rf PROVE Counted(hold, refs)'
BY DEF Counted, Owners

\* A new arena and its only owner.
LEMMA OwnerFound ==
    ASSUME ArenaAssumption, ArenaInv, NEW h \in Handles, h \notin Held, NEW a \in Arenas, arena[a] = NoArena,
           NEW owner, owner.arena = a, NEW A, Sized(A),
           hold' = [hold EXCEPT ![h] = owner], arena' = [arena EXCEPT ![a] = A], refs' = [refs EXCEPT ![a] = 1]
    PROVE  ArenaInv'
<1>1. Counted(hold, refs) /\ Kept(arena, refs)
  BY DEF ArenaInv
<1>2. refs \in [Arenas -> Nat] /\ refs[a] = 0
  BY <1>1 DEF Counted, Kept, Sized, NoArena
<1>3. hold[h].arena = Unset
  BY DEF Held
<1>4. Counted([hold EXCEPT ![h] = owner], [refs EXCEPT ![a] = @ + 1])
  BY <1>1, <1>3, OwnerAdded
<1>5. [refs EXCEPT ![a] = @ + 1] = [refs EXCEPT ![a] = 1]
  BY <1>2
<1>6. Counted(hold, refs)'
  BY <1>4, <1>5, CountedNext
<1>7. Kept(arena, refs)'
  BY <1>1, <1>2 DEF Kept
<1> QED
  BY <1>6, <1>7 DEF ArenaInv

\* More owners of an arena that has one, and perhaps a node more in it.
LEMMA ArenaGrows ==
    ASSUME ArenaInv, NEW a \in Arenas, refs[a] # 0, NEW A, Sized(A), NEW n \in Nat \ {0},
           NEW as, as = [arena EXCEPT ![a] = A], NEW rf, rf = [refs EXCEPT ![a] = n]
    PROVE  Kept(as, rf)
BY DEF ArenaInv, Kept, Counted

LEMMA OwnedSized ==
    ASSUME ArenaAssumption, ArenaInv, NEW h \in Held
    PROVE  /\ hold[h].arena \in Arenas /\ refs[hold[h].arena] \in Nat \ {0}
           /\ Sized(arena[hold[h].arena])
<1>1. h \in Handles /\ hold[h].arena # Unset
  BY DEF Held
<1>2. hold[h].arena \in Arenas /\ refs[hold[h].arena] \in Nat \ {0}
  BY <1>1, HeldCounted DEF ArenaInv
<1> QED
  BY <1>2 DEF ArenaInv, Kept

LEMMA CopyOwned == ASSUME ArenaAssumption, ArenaInv, NEW s \in Handles, NEW h \in Handles, Copy(s, h) PROVE ArenaInv'
<1>1. /\ s \in Held /\ hold[h].arena = Unset
      /\ hold' = [hold EXCEPT ![h] = hold[s]] /\ refs' = [refs EXCEPT ![hold[s].arena] = @ + 1] /\ arena' = arena
  BY DEF Copy, Held
<1>2. hold[s].arena \in Arenas /\ refs[hold[s].arena] \in Nat \ {0}
  BY <1>1, OwnedSized
<1>3. Counted([hold EXCEPT ![h] = hold[s]], [refs EXCEPT ![hold[s].arena] = @ + 1])
  BY <1>1, <1>2, OwnerAdded DEF ArenaInv
<1>4. Counted(hold, refs)'
  BY <1>1, <1>3, CountedNext
<1>5. Kept(arena, refs)'
  BY <1>1, <1>2 DEF ArenaInv, Counted, Kept
<1> QED
  BY <1>4, <1>5 DEF ArenaInv

LEMMA MoveOwned == ASSUME ArenaAssumption, ArenaInv, NEW s \in Handles, NEW h \in Handles, Move(s, h) PROVE ArenaInv'
<1>1. /\ s \in Held /\ hold[h].arena = Unset /\ s # h
      /\ hold' = [hold EXCEPT ![h] = hold[s], ![s] = Nothing] /\ refs' = refs /\ arena' = arena
  BY DEF Move, Held
<1> DEFINE mid == [hold EXCEPT ![h] = hold[s]]
           more == [refs EXCEPT ![hold[s].arena] = @ + 1]
<1>2. hold[s].arena \in Arenas /\ refs[hold[s].arena] \in Nat \ {0}
  BY <1>1, OwnedSized
<1>3. Counted(mid, more)
  BY <1>1, <1>2, OwnerAdded DEF ArenaInv
<1>4. mid[s] = hold[s] /\ hold[s].arena # Unset
  BY <1>1 DEF ArenaInv, Counted, Held
<1> HIDE DEF mid, more
<1>5. Counted([mid EXCEPT ![s] = Nothing], [more EXCEPT ![hold[s].arena] = @ - 1])
  BY <1>3, <1>4, OwnerGone
<1>6. [more EXCEPT ![hold[s].arena] = @ - 1] = refs
  <2>1. refs \in [Arenas -> Nat]
    BY DEF ArenaInv, Counted
  <2>2. \A a \in Arenas : [more EXCEPT ![hold[s].arena] = @ - 1][a] = refs[a]
    BY <1>2, <2>1 DEF more
  <2>3. [more EXCEPT ![hold[s].arena] = @ - 1] = [a \in Arenas |-> [more EXCEPT ![hold[s].arena] = @ - 1][a]]
    BY <2>1 DEF more
  <2> QED
    BY <2>1, <2>2, <2>3
<1>7. hold' = [mid EXCEPT ![s] = Nothing]
  BY <1>1 DEF mid
<1>8. Counted([mid EXCEPT ![s] = Nothing], refs)
  BY <1>5, <1>6
<1>9. Counted(hold, refs)'
  BY <1>1, <1>7, <1>8, CountedNext
<1> QED
  BY <1>1, <1>9 DEF ArenaInv, Kept

LEMMA DisposeOwned == ASSUME ArenaAssumption, ArenaInv, NEW h \in Handles, Dispose(h) PROVE ArenaInv'
<1> DEFINE a == hold[h].arena
<1>1. /\ h \in Held /\ hold[h].arena # Unset
      /\ hold' = [hold EXCEPT ![h] = Nothing] /\ refs' = [refs EXCEPT ![a] = @ - 1]
      /\ arena' = [arena EXCEPT ![a] = IF refs[a] = 1 THEN NoArena ELSE @]
  BY DEF Dispose, Held
<1>2. a \in Arenas /\ refs[a] \in Nat \ {0}
  BY <1>1, OwnedSized
<1>3. Counted([hold EXCEPT ![h] = Nothing], [refs EXCEPT ![a] = @ - 1])
  BY <1>1, OwnerGone DEF ArenaInv
<1>4. Counted(hold, refs)'
  BY <1>1, <1>3, CountedNext
<1>5. Kept(arena, refs)'
  BY <1>1, <1>2 DEF ArenaInv, Counted, Kept
<1> QED
  BY <1>4, <1>5 DEF ArenaInv

LEMMA ArenaAddLeafOwned ==
    ASSUME ArenaAssumption, ArenaInv, NEW h \in Handles, NEW parent, NEW v, ArenaAddLeaf(h, parent, v)
    PROVE  ArenaInv'
<1> DEFINE a == hold[h].arena
<1>1. h \in Held /\ UNCHANGED <<hold, refs>>
  BY DEF ArenaAddLeaf
<1>2. PICK out \in AddLeaf(arena[a], parent, v) : arena' = [arena EXCEPT ![a] = out.arena]
  BY DEF ArenaAddLeaf
<1>3. a \in Arenas /\ refs[a] \in Nat \ {0} /\ Sized(arena[a])
  BY <1>1, OwnedSized
<1>4. Sized(out.arena)
  BY <1>3, AddLeafSized
<1>5. Counted(hold, refs)'
  BY <1>1 DEF ArenaInv, Counted, Owners
<1>6. Kept(arena, refs)'
  BY <1>1, <1>2, <1>3, <1>4 DEF ArenaInv, Kept
<1> QED
  BY <1>5, <1>6 DEF ArenaInv

LEMMA ArenaInitOwned == ASSUME ArenaAssumption, ArenaInit PROVE ArenaInv
<1>1. hold = [h \in Handles |-> hold[h]] /\ \A h \in Handles : hold[h].arena = Unset
  BY DEF ArenaInit, Nothing
<1>2. \A a \in Arenas : Owners(hold, a) = {}
  BY <1>1 DEF Owners, ArenaAssumption
<1>3. refs = [a \in Arenas |-> 0] /\ arena = [a \in Arenas |-> NoArena]
  BY DEF ArenaInit
<1>4. Counted(hold, refs)
  BY <1>1, <1>2, <1>3, FS_EmptySet DEF Counted
<1>5. Kept(arena, refs)
  BY <1>3 DEF Kept
<1> QED
  BY <1>4, <1>5 DEF ArenaInv

LEMMA ArenaNextOwned == ASSUME ArenaAssumption, ArenaInv, [ArenaNext]_arenaVars PROVE ArenaInv'
<1>1. ASSUME NEW h \in Handles, NEW a \in Arenas, CreateArena(h, a) PROVE ArenaInv'
  BY <1>1, OwnerFound, NewArenaSized DEF CreateArena, NewOwner
<1>2. CASE UNCHANGED arenaVars
  BY <1>2 DEF arenaVars, ArenaInv, Counted, Kept, Owners
<1> QED
  BY <1>1, <1>2, CopyOwned, MoveOwned, DisposeOwned, ArenaAddLeafOwned DEF ArenaNext

LEMMA ArenaInvOwned == ASSUME ArenaAssumption, ArenaInv PROVE ArenaOwned
<1>1. ASSUME NEW a \in Arenas
      PROVE  /\ refs[a] = Cardinality({h \in Held : hold[h].arena = a})
             /\ (arena[a] = NoArena) = (refs[a] = 0)
  <2>1. Owners(hold, a) = {h \in Held : hold[h].arena = a}
    BY DEF Owners, Held, ArenaAssumption
  <2>2. refs[a] = Cardinality(Owners(hold, a))
    BY DEF ArenaInv, Counted
  <2>3. IF refs[a] = 0 THEN arena[a] = NoArena ELSE Sized(arena[a])
    BY DEF ArenaInv, Kept
  <2>4. Sized(arena[a]) => arena[a] # NoArena
    BY DEF Sized, NoArena
  <2> QED
    BY <2>1, <2>2, <2>3, <2>4
<1> QED
  BY <1>1 DEF ArenaOwned

\* ArenaOwned for any handles, addresses, bounds and word size: an arena is
\* released with its last handle and not before, whichever additions failed.
THEOREM ArenasOwned == ASSUME ArenaAssumption PROVE ArenaSpec => []ArenaOwned
<1>1. ArenaInit => ArenaInv
  BY ArenaInitOwned
<1>2. ArenaInv /\ [ArenaNext]_arenaVars => ArenaInv'
  BY ArenaNextOwned
<1>3. ArenaInv => ArenaOwned
  BY ArenaInvOwned
<1> QED
  BY <1>1, <1>2, <1>3, PTL DEF ArenaSpec

-----------------------------------------------------------------------------
(* What the structures on an arena do to its owners.                       *)

\* A successor in an empty handle has a reference of its own; one in its
\* source's place takes over the source's.
LEMMA SuccessorOwned ==
    ASSUME ArenaAssumption, ArenaInv, NEW s \in Held, NEW h \in Handles, MayTarget(s, h),
           NEW x, x.arena = hold[s].arena, hold' = [hold EXCEPT ![h] = x],
           refs' = [refs EXCEPT ![x.arena] = (@ + 1) - (IF h = s THEN 1 ELSE 0)],
           NEW A, Sized(A), arena' = [arena EXCEPT ![x.arena] = A]
    PROVE  ArenaInv'
<1> DEFINE a == x.arena
<1>1. a \in Arenas /\ refs[a] \in Nat \ {0} /\ Counted(hold, refs) /\ refs \in [Arenas -> Nat]
  BY OwnedSized DEF ArenaInv, Counted
<1>2. Counted(hold, refs)'
  <2>1. CASE h = s
    <3>1. (refs[a] + 1) - (IF h = s THEN 1 ELSE 0) = refs[a]
      BY <1>1, <2>1
    <3>2. refs' = refs
      BY <1>1, <3>1
    <3>3. Counted([hold EXCEPT ![h] = x], refs)
      BY <1>1, <2>1, SameCounts
    <3> QED
      BY <3>2, <3>3, CountedNext
  <2>2. CASE h # s
    <3>1. hold[h].arena = Unset
      BY <2>2 DEF MayTarget, Held
    <3>2. (refs[a] + 1) - (IF h = s THEN 1 ELSE 0) = refs[a] + 1
      BY <1>1, <2>2
    <3>3. refs' = [refs EXCEPT ![a] = @ + 1]
      BY <3>2
    <3>4. Counted([hold EXCEPT ![h] = x], [refs EXCEPT ![a] = @ + 1])
      BY <1>1, <3>1, OwnerAdded
    <3> QED
      BY <3>3, <3>4, CountedNext
  <2> QED
    BY <2>1, <2>2
<1>3. \E n \in Nat \ {0} : refs' = [refs EXCEPT ![a] = n]
  <2>1. (refs[a] + 1) - (IF h = s THEN 1 ELSE 0) \in Nat \ {0}
    BY <1>1
  <2> QED
    BY <2>1
<1>4. Kept(arena, refs)'
  <2>1. PICK n \in Nat \ {0} : refs' = [refs EXCEPT ![a] = n]
    BY <1>3
  <2>2. \A as, rf : as = [arena EXCEPT ![a] = A] /\ rf = [refs EXCEPT ![a] = n] => Kept(as, rf)
    BY <1>1, ArenaGrows
  <2>3. Kept(arena', refs')
    BY <2>1, <2>2
  <2> QED
    BY <2>3 DEF Kept
<1> QED
  BY <1>2, <1>4 DEF ArenaInv

\* The two halves of a split.
LEMMA HalvesOwned ==
    ASSUME ArenaAssumption, ArenaInv, NEW s \in Held, NEW l \in Handles, NEW r \in Handles,
           l # r, {l, r} \cap Held \subseteq {s},
           NEW x, x.arena = hold[s].arena, NEW y, y.arena = hold[s].arena,
           hold' = [hold EXCEPT ![l] = x, ![r] = y],
           refs' = [refs EXCEPT ![hold[s].arena] = (@ + 2) - (IF s \in {l, r} THEN 1 ELSE 0)],
           arena' = arena
    PROVE  ArenaInv'
<1> DEFINE a == hold[s].arena
           mid == [hold EXCEPT ![l] = x]
           first == IF l = s THEN refs ELSE [refs EXCEPT ![a] = @ + 1]
<1>1. a \in Arenas /\ refs[a] \in Nat \ {0} /\ Counted(hold, refs) /\ refs \in [Arenas -> Nat]
  BY OwnedSized DEF ArenaInv, Counted
<1>2. (l # s => hold[l].arena = Unset) /\ (r # s => hold[r].arena = Unset)
  BY DEF Held
<1>3. Counted(mid, first)
  BY <1>1, <1>2, SameCounts, OwnerAdded
<1>4. mid[r] = hold[r] /\ first[a] = refs[a] + (IF l = s THEN 0 ELSE 1) /\ first \in [Arenas -> Nat]
  BY <1>1 DEF Counted
<1>5. /\ refs' = [refs EXCEPT ![a] = refs'[a]]
      /\ first = [refs EXCEPT ![a] = first[a]]
      /\ refs'[a] = (refs[a] + 2) - (IF s \in {l, r} THEN 1 ELSE 0)
  BY <1>1
<1>6. hold' = [mid EXCEPT ![r] = y]
  OBVIOUS
<1> HIDE DEF mid, first
<1>7. Counted(hold, refs)'
  <2>1. CASE r = s
    <3>1. Counted([mid EXCEPT ![r] = y], first)
      BY <1>3, <1>4, <2>1, SameCounts
    <3>2. refs' = first
      BY <1>1, <1>4, <1>5, <2>1
    <3> QED
      BY <1>6, <3>1, <3>2, CountedNext
  <2>2. CASE r # s
    <3>1. Counted([mid EXCEPT ![r] = y], [first EXCEPT ![a] = @ + 1])
      BY <1>1, <1>2, <1>3, <1>4, <2>2, OwnerAdded
    <3>2. refs'[a] = first[a] + 1
      BY <1>1, <1>4, <1>5, <2>2
    <3>3. refs' = [first EXCEPT ![a] = @ + 1]
      BY <1>1, <1>4, <1>5, <3>2
    <3> QED
      BY <1>6, <3>1, <3>3, CountedNext
  <2> QED
    BY <2>1, <2>2
<1>8. refs'[a] # 0 /\ refs' = [refs EXCEPT ![a] = refs'[a]]
  BY <1>1, <1>5
<1>9. Kept(arena, refs)'
  BY <1>1, <1>8 DEF ArenaInv, Kept
<1> QED
  BY <1>7, <1>9 DEF ArenaInv

\* An addition fails only at the bound or for want of memory.
LEMMA GrowAdds ==
    ASSUME ArenaAssumption, NEW grown, Sized(grown.arena), grown.arena.count # MaxNodes, NEW v
    PROVE  /\ Grow(grown, v) \in AddLeaf(grown.arena, grown.leaf, v)
           /\ Grow(grown, v).leaf # Unset
<1> DEFINE A == grown.arena
           leaf == LeafNode(grown.leaf, Jump(A, grown.leaf), Depth(A, grown.leaf) + 1, v)
<1> HIDE DEF leaf
<1>1. PICK B \in Reserve(A).ok : TRUE
  <2>1. Reserve(A).ok # {}
    BY DEF Reserve, ReserveBlock
  <2> QED
    BY <2>1
<1>2. B.count = A.count /\ A.count \in Nat
  BY DEF Reserve, ReserveBlock, Grown, Sized
<1>3. [arena |-> Put(B, B.count, leaf), leaf |-> B.count] \in AddLeaf(A, grown.leaf, v)
  BY DEF AddLeaf, AddReserved, leaf
<1>4. \E out \in AddLeaf(A, grown.leaf, v) : out.leaf # Unset
  BY <1>2, <1>3 DEF ArenaAssumption
<1> QED
  BY <1>4 DEF Grow

LEMMA GrowSized ==
    ASSUME ArenaAssumption, NEW grown, Sized(grown.arena), grown.arena.count # MaxNodes, NEW v
    PROVE  Sized(Grow(grown, v).arena) /\ Grow(grown, v).arena.count = grown.arena.count + 1
BY GrowAdds, AddLeafSized

Links(values, grown, i) ==
    grown[i] = IF i = 0 THEN [arena |-> NewArena, leaf |-> Bottom] ELSE Grow(grown[i - 1], values[i])

\* A set of numbers that has 0, and with each number the next, has all of them.
LEMMA AllNumbers ==
    ASSUME NEW S, 0 \in S, \A j \in Nat : j \in S => j + 1 \in S PROVE Nat \subseteq S
<1> DEFINE T == Nat \ S
<1>1. ASSUME T # {} PROVE FALSE
  <2>1. PICK j \in T : \A i \in T : ~(<<i, j>> \in OpToRel(<, Nat))
    BY <1>1, NatLessThanWellFounded, WFMin
  <2>2. \A i \in T : ~(i < j)
    BY <2>1 DEF OpToRel
  <2>3. j # 0 /\ j - 1 \in Nat /\ (j - 1) + 1 = j /\ j - 1 < j
    OBVIOUS
  <2> QED
    BY <2>2, <2>3
<1> QED
  BY <1>1

\* The recursion of Chain has a solution.
LEMMA LinksExist ==
    ASSUME NEW values, NEW n \in Nat
    PROVE  \E grown : grown = [i \in 0..n |-> grown[i]] /\ \A i \in 0..n : Links(values, grown, i)
<1> DEFINE Solved(j) == \E grown : grown = [i \in 0..j |-> grown[i]] /\ \A i \in 0..j : Links(values, grown, i)
           S == {j \in Nat : Solved(j)}
<1>1. Solved(0)
  <2> DEFINE grown == [i \in 0..0 |-> [arena |-> NewArena, leaf |-> Bottom]]
  <2>1. grown = [i \in 0..0 |-> grown[i]] /\ \A i \in 0..0 : Links(values, grown, i)
    BY DEF Links
  <2> QED
    BY <2>1
<1>2. ASSUME NEW j \in Nat, Solved(j) PROVE Solved(j + 1)
  <2>1. PICK grown : grown = [i \in 0..j |-> grown[i]] /\ \A i \in 0..j : Links(values, grown, i)
    BY <1>2
  <2> DEFINE more == [i \in 0..j + 1 |-> IF i = j + 1 THEN Grow(grown[j], values[j + 1]) ELSE grown[i]]
  <2>2. more = [i \in 0..j + 1 |-> more[i]]
    OBVIOUS
  <2>3. ASSUME NEW i \in 0..j + 1 PROVE Links(values, more, i)
    <3>1. CASE i = j + 1
      <4>1. i - 1 = j /\ j # j + 1 /\ j \in 0..j + 1 /\ i # 0
        BY <3>1
      <4>2. more[i - 1] = grown[j] /\ more[i] = Grow(grown[j], values[j + 1])
        BY <3>1, <4>1
      <4> HIDE DEF more
      <4> QED
        BY <3>1, <4>1, <4>2 DEF Links
    <3>2. CASE i # j + 1
      <4>1. i \in 0..j /\ (i # 0 => i - 1 \in 0..j)
        BY <3>2
      <4>2. more[i] = grown[i] /\ (i # 0 => more[i - 1] = grown[i - 1])
        BY <3>2, <4>1
      <4>3. Links(values, grown, i)
        BY <2>1, <4>1
      <4> HIDE DEF more
      <4> QED
        BY <4>2, <4>3 DEF Links
    <3> QED
      BY <3>1, <3>2
  <2> HIDE DEF more
  <2> QED
    BY <2>2, <2>3
<1> HIDE DEF Solved
<1>3. Nat \subseteq S
  <2>1. 0 \in S /\ \A j \in Nat : j \in S => j + 1 \in S
    BY <1>1, <1>2
  <2> HIDE DEF S
  <2> QED
    BY <2>1, AllNumbers
<1> QED
  BY <1>3 DEF Solved

LEMMA ChainUnfolds ==
    ASSUME NEW values, Len(values) \in Nat
    PROVE  \A i \in 0..Len(values) : Links(values, Chain(values), i)
<1> DEFINE n == Len(values)
           Sol(grown) == grown = [i \in 0..n |-> IF i = 0 THEN [arena |-> NewArena, leaf |-> Bottom]
                                                 ELSE Grow(grown[i - 1], values[i])]
           grown == CHOOSE g : Sol(g)
<1>1. \E g : Sol(g)
  <2>1. PICK g : g = [i \in 0..n |-> g[i]] /\ \A i \in 0..n : Links(values, g, i)
    BY LinksExist
  <2> DEFINE sol == [i \in 0..n |-> IF i = 0 THEN [arena |-> NewArena, leaf |-> Bottom]
                                    ELSE Grow(g[i - 1], values[i])]
  <2>2. \A i \in 0..n : g[i] = IF i = 0 THEN [arena |-> NewArena, leaf |-> Bottom]
                                ELSE Grow(g[i - 1], values[i])
    BY <2>1 DEF Links
  <2>3. g = sol
    BY <2>1, <2>2
  <2> QED
    BY <2>3
<1>2. Sol(grown)
  BY <1>1
<1>3. Chain(values) = grown
  BY DEF Chain
<1> HIDE DEF grown
<1>4. \A i \in 0..n : grown[i] = IF i = 0 THEN [arena |-> NewArena, leaf |-> Bottom]
                                  ELSE Grow(grown[i - 1], values[i])
  BY <1>2
<1> QED
  BY <1>3, <1>4 DEF Links

\* An arena built from an array that it has room for.
LEMMA ChainSized ==
    ASSUME ArenaAssumption, NEW values, Len(values) \in Nat, Len(values) < MaxNodes
    PROVE  Sized(Chain(values)[Len(values)].arena)
<1> DEFINE n == Len(values)
           grown == Chain(values)
<1>1. \A i \in 0..n : grown[i] = IF i = 0 THEN [arena |-> NewArena, leaf |-> Bottom]
                                  ELSE Grow(grown[i - 1], values[i])
  BY ChainUnfolds DEF Links
<1> HIDE DEF grown
<1> DEFINE Good(i) == i <= n => Sized(grown[i].arena) /\ grown[i].arena.count = i + 1
           S == {i \in Nat : Good(i)}
<1>2. Good(0)
  BY <1>1, NewArenaSized
<1>3. ASSUME NEW i \in Nat, Good(i) PROVE Good(i + 1)
  <2>1. CASE i + 1 <= n
    <3>1. i <= n /\ i + 1 \in 0..n /\ (i + 1) - 1 = i /\ i + 1 # 0 /\ i + 1 # MaxNodes
      BY <2>1 DEF ArenaAssumption
    <3>2. Sized(grown[i].arena) /\ grown[i].arena.count = i + 1
      BY <1>3, <3>1
    <3>3. grown[i + 1] = Grow(grown[i], values[i + 1])
      BY <1>1, <3>1
    <3> QED
      BY <3>1, <3>2, <3>3, GrowSized
  <2>2. CASE ~(i + 1 <= n)
    BY <2>2
  <2> QED
    BY <2>1, <2>2
<1>4. Nat \subseteq S
  <2>1. 0 \in S /\ \A i \in Nat : i \in S => i + 1 \in S
    BY <1>2, <1>3
  <2> HIDE DEF S
  <2> QED
    BY <2>1, AllNumbers
<1>5. Good(n)
  BY <1>4
<1> QED
  BY <1>5 DEF grown

-----------------------------------------------------------------------------
(* The square root that addresses the blocks, for any word size.           *)

\* Each number of 0..n has a value in S: its own, or one made of a smaller number's.
Solves(g, n, S, out, turn, next, stop) ==
    /\ g \in [0..n -> S]
    /\ \A i \in 0..n : g[i] = IF i \in stop THEN out[i] ELSE turn[i][g[next[i]]]

LEMMA Recursion ==
    ASSUME NEW n \in Nat, NEW S, NEW out \in [0..n -> S], NEW turn \in [0..n -> [S -> S]],
           NEW next \in [0..n -> 0..n], NEW stop, 0 \in stop,
           \A i \in 0..n : i \notin stop => next[i] < i
    PROVE  \E g : Solves(g, n, S, out, turn, next, stop)
<1> DEFINE Fits(g, i) == g[i] = IF i \in stop THEN out[i] ELSE turn[i][g[next[i]]]
           Solved(j) == j <= n => \E g : Solves(g, j, S, out, turn, next, stop)
           T == {j \in Nat : Solved(j)}
<1>1. Solved(0)
  <2>1. Solves([i \in 0..0 |-> out[0]], 0, S, out, turn, next, stop)
    BY DEF Solves
  <2> QED
    BY <2>1
<1>2. ASSUME NEW j \in Nat, Solved(j), j + 1 <= n PROVE Solved(j + 1)
  <2>0. PICK g : Solves(g, j, S, out, turn, next, stop)
    BY <1>2
  <2>1. g \in [0..j -> S] /\ \A i \in 0..j : Fits(g, i)
    BY <2>0 DEF Solves
  <2> DEFINE last == IF j + 1 \in stop THEN out[j + 1] ELSE turn[j + 1][g[next[j + 1]]]
             more == [i \in 0..(j + 1) |-> IF i = j + 1 THEN last ELSE g[i]]
  <2>2. j + 1 \in 0..n /\ (j + 1 \notin stop => next[j + 1] \in 0..j)
    BY <1>2
  <2>3. last \in S
    BY <2>1, <2>2
  <2>4. more \in [0..(j + 1) -> S]
    <3> HIDE DEF last
    <3> QED
      BY <2>1, <2>3
  <2>5. ASSUME NEW i \in 0..(j + 1) PROVE Fits(more, i)
    <3>1. CASE i = j + 1
      <4>1. more[i] = last /\ (j + 1 \notin stop => more[next[j + 1]] = g[next[j + 1]])
        BY <2>2, <3>1
      <4> QED
        BY <3>1, <4>1
    <3>2. CASE i # j + 1
      <4>1. i \in 0..j /\ i \in 0..n /\ (i \notin stop => next[i] \in 0..j)
        BY <1>2, <3>2
      <4>2. more[i] = g[i] /\ (i \notin stop => more[next[i]] = g[next[i]])
        BY <4>1
      <4>3. Fits(g, i)
        BY <2>1, <4>1
      <4> QED
        BY <4>2, <4>3
    <3> QED
      BY <3>1, <3>2
  <2>6. Solves(more, j + 1, S, out, turn, next, stop)
    <3> HIDE DEF more
    <3> QED
      BY <2>4, <2>5 DEF Solves
  <2> QED
    BY <2>6
<1>3. ASSUME NEW j \in Nat, Solved(j) PROVE Solved(j + 1)
  <2>1. CASE j + 1 <= n
    BY <1>2, <1>3, <2>1
  <2>2. CASE ~(j + 1 <= n)
    BY <2>2
  <2> QED
    BY <2>1, <2>2
<1> HIDE DEF Solved
<1>4. Nat \subseteq T
  <2>1. 0 \in T /\ \A j \in Nat : j \in T => j + 1 \in T
    BY <1>1, <1>3
  <2> HIDE DEF T
  <2> QED
    BY <2>1, AllNumbers
<1>5. Solved(n)
  BY <1>4
<1> QED
  BY <1>5 DEF Solved

LEMMA PowersOfTwo ==
    ASSUME RootBits \in Nat
    PROVE  /\ PowerOfTwo \in [0..RootBits -> Nat \ {0}]
           /\ PowerOfTwo[0] = 1 /\ \A k \in 1..RootBits : PowerOfTwo[k] = 2 * PowerOfTwo[k - 1]
<1> DEFINE n == RootBits
           Sol(g) == g = [k \in 0..n |-> IF k = 0 THEN 1 ELSE 2 * g[k - 1]]
           out == [k \in 0..n |-> 1]
           turn == [k \in 0..n |-> [x \in Nat \ {0} |-> 2 * x]]
           next == [k \in 0..n |-> IF k = 0 THEN 0 ELSE k - 1]
<1>1. PICK g : Solves(g, n, Nat \ {0}, out, turn, next, {0})
  <2>1. /\ out \in [0..n -> Nat \ {0}] /\ turn \in [0..n -> [Nat \ {0} -> Nat \ {0}]]
        /\ next \in [0..n -> 0..n] /\ \A i \in 0..n : i \notin {0} => next[i] < i
    OBVIOUS
  <2> HIDE DEF out, turn, next
  <2> QED
    BY <2>1, Recursion
<1>2. Sol(g)
  <2>1. /\ g \in [0..n -> Nat \ {0}]
        /\ \A k \in 0..n : g[k] = IF k \in {0} THEN out[k] ELSE turn[k][g[next[k]]]
    <3> HIDE DEF out, turn, next
    <3> QED
      BY <1>1 DEF Solves
  <2>2. ASSUME NEW k \in 0..n, k # 0 PROVE g[k] = 2 * g[k - 1]
    <3>1. next[k] = k - 1 /\ g[k - 1] \in Nat \ {0}
      BY <2>1, <2>2
    <3>2. turn[k][g[k - 1]] = 2 * g[k - 1]
      BY <3>1
    <3> QED
      BY <2>1, <2>2, <3>1, <3>2
  <2>3. g[0] = 1
    <3>1. 0 \in 0..n /\ out[0] = 1
      OBVIOUS
    <3> HIDE DEF out, turn, next, n
    <3> QED
      BY <2>1, <3>1
  <2> HIDE DEF n
  <2>4. \A k \in 0..n : g[k] = IF k = 0 THEN 1 ELSE 2 * g[k - 1]
    BY <2>2, <2>3 DEF n
  <2> QED
    BY <2>1, <2>4
<1>3. Sol(PowerOfTwo)
  BY <1>2 DEF PowerOfTwo
<1> DEFINE T == {k \in Nat : k <= n => PowerOfTwo[k] \in Nat \ {0}}
<1> HIDE DEF n
<1>4. \A k \in 0..n : PowerOfTwo[k] = IF k = 0 THEN 1 ELSE 2 * PowerOfTwo[k - 1]
  BY <1>3
<1>5. Nat \subseteq T
  <2>1. 0 \in T
    BY <1>4 DEF n
  <2>2. ASSUME NEW k \in Nat, k \in T PROVE k + 1 \in T
    <3>1. CASE k + 1 <= n
      <4>1. k + 1 \in 0..n /\ (k + 1) - 1 = k /\ PowerOfTwo[k] \in Nat \ {0}
        BY <2>2, <3>1 DEF n
      <4>2. PowerOfTwo[k + 1] = 2 * PowerOfTwo[k]
        BY <1>4, <4>1
      <4> QED
        BY <4>1, <4>2
    <3> QED
      BY <3>1
  <2> HIDE DEF T
  <2> QED
    BY <2>1, <2>2, AllNumbers
<1>6. \A k \in 0..n : PowerOfTwo[k] \in Nat \ {0}
  BY <1>5 DEF n
<1>7. PowerOfTwo = [k \in 0..n |-> PowerOfTwo[k]]
  BY <1>3
<1>8. PowerOfTwo \in [0..n -> Nat \ {0}]
  BY <1>6, <1>7
<1>9. PowerOfTwo[0] = 1 /\ \A k \in 1..n : PowerOfTwo[k] = 2 * PowerOfTwo[k - 1]
  BY <1>4 DEF n
<1> QED
  BY <1>8, <1>9 DEF n

\* Before the bit of p is tried, n is below the square of the root plus 2p.
RootSoFar(n, acc, p) ==
    /\ acc = [rem |-> acc.rem, root |-> acc.root]
    /\ \E r \in Nat : /\ acc.root = r * p /\ acc.rem \in Nat
                      /\ n = r * r + acc.rem /\ acc.rem < 2 * (r * p) + p * p

LEMMA RootStepKeeps ==
    ASSUME NEW n \in Nat, NEW p \in Nat \ {0}, NEW acc, RootSoFar(n, acc, 2 * p)
    PROVE  RootSoFar(n, RootStep(acc, p * p), p)
<1>1. PICK r \in Nat : /\ acc.root = r * (2 * p) /\ acc.rem \in Nat
                       /\ n = r * r + acc.rem /\ acc.rem < 2 * (r * (2 * p)) + (2 * p) * (2 * p)
  BY DEF RootSoFar
<1>0. acc = [rem |-> acc.rem, root |-> acc.root]
  BY DEF RootSoFar
<1> DEFINE x == r * p
           y == p * p
           z == r * r
<1>2. x \in Nat /\ y \in Nat /\ z \in Nat
  OBVIOUS
<1>3. /\ r * (2 * p) = 2 * x /\ (2 * p) * (2 * p) = 4 * y
      /\ (r + p) * (r + p) = z + 2 * x + y /\ (r + p) * p = x + y
  OBVIOUS
<1> DEFINE out == RootStep(acc, y)
<1>4. CASE acc.rem >= acc.root + y
  <2>1. out.rem = acc.rem - (acc.root + y) /\ out.root = (acc.root \div 2) + y
    BY <1>4 DEF RootStep
  <2>0. out = [rem |-> out.rem, root |-> out.root]
    BY <1>4 DEF RootStep
  <2> HIDE DEF x, y, z, out
  <2>2. (2 * x) \div 2 = x
    BY <1>2
  <2>3. /\ out.root = x + y /\ out.rem \in Nat /\ n = z + 2 * x + y + out.rem
        /\ out.rem < 2 * (x + y) + y
    BY <1>1, <1>2, <1>3, <1>4, <2>1, <2>2 DEF z
  <2>4. r + p \in Nat
    OBVIOUS
  <2> QED
    BY <1>3, <2>0, <2>3, <2>4 DEF RootSoFar, y, out
<1>5. CASE ~(acc.rem >= acc.root + y)
  <2>1. out = [acc EXCEPT !.root = @ \div 2]
    BY <1>5 DEF RootStep
  <2>2. out = [rem |-> acc.rem, root |-> acc.root \div 2]
    BY <1>0, <2>1
  <2> HIDE DEF x, y, z, out
  <2>3. (2 * x) \div 2 = x
    BY <1>2
  <2>4. out.root = x /\ out.rem \in Nat /\ n = z + out.rem /\ out.rem < 2 * x + y
    BY <1>1, <1>2, <1>3, <1>5, <2>2, <2>3 DEF z
  <2> QED
    BY <2>2, <2>4 DEF RootSoFar, x, y, z, out
<1> QED
  BY <1>4, <1>5

\* The square root is the largest number whose square is not above n.
RootOf(n, r) == r \in Nat /\ r * r <= n /\ n < (r + 1) * (r + 1)

Addressable == {n \in Nat : n <= MaxNodes}

LEMMA SquareRootExact ==
    ASSUME ArenaAssumption, NEW n \in Addressable PROVE RootOf(n, IntegerSquareRoot(n))
<1> DEFINE m == RootBits
           bit(i) == PowerOfTwo[m - i] * PowerOfTwo[m - i]
           Sol(g) == g = [i \in 0..m |-> IF i = 0 THEN [rem |-> n, root |-> 0] ELSE RootStep(g[i - 1], bit(i))]
           States == [rem : Nat, root : Nat]
           out == [i \in 0..m |-> [rem |-> n, root |-> 0]]
           turn == [i \in 0..m |-> [acc \in States |-> RootStep(acc, bit(i))]]
           next == [i \in 0..m |-> IF i = 0 THEN 0 ELSE i - 1]
<1>1. m \in Nat /\ n \in Nat
  BY DEF ArenaAssumption, RootBits, Addressable
<1>2. /\ \A k \in 0..m : PowerOfTwo[k] \in Nat \ {0}
      /\ PowerOfTwo[0] = 1 /\ \A k \in 1..m : PowerOfTwo[k] = 2 * PowerOfTwo[k - 1]
  BY <1>1, PowersOfTwo
<1>3. n < PowerOfTwo[m] * PowerOfTwo[m]
  <2>1. PowerOfTwo[m] \in Nat
    BY <1>1, <1>2
  <2>2. PowerOfTwo[m] * PowerOfTwo[m] \in Nat
    BY <2>1
  <2> QED
    BY <2>2 DEF ArenaAssumption, Addressable
<1> HIDE DEF m
<1>4. ASSUME NEW i \in 1..m
      PROVE  /\ m - i \in 0..m /\ PowerOfTwo[m - i] \in Nat \ {0} /\ bit(i) \in Nat
             /\ PowerOfTwo[m - (i - 1)] = 2 * PowerOfTwo[m - i]
  <2>1. m - i \in 0..m /\ m - (i - 1) \in 1..m /\ (m - (i - 1)) - 1 = m - i
    BY <1>1
  <2>2. PowerOfTwo[m - i] \in Nat \ {0}
    BY <1>2, <2>1
  <2> QED
    BY <1>2, <2>1, <2>2
<1>5. ASSUME NEW acc \in States, NEW b \in Nat PROVE RootStep(acc, b) \in States
  <2>1. CASE acc.rem >= acc.root + b
    BY <2>1 DEF RootStep
  <2>2. CASE ~(acc.rem >= acc.root + b)
    BY <2>2 DEF RootStep
  <2> QED
    BY <2>1, <2>2
<1>6. PICK g : Solves(g, m, States, out, turn, next, {0})
  <2>1. out \in [0..m -> States] /\ next \in [0..m -> 0..m] /\ \A i \in 0..m : i \notin {0} => next[i] < i
    BY <1>1
  <2>2. turn \in [0..m -> [States -> States]]
    <3>1. ASSUME NEW i \in 0..m, NEW acc \in States PROVE RootStep(acc, bit(i)) \in States
      <4>1. m - i \in 0..m
        BY <1>1
      <4>2. PowerOfTwo[m - i] \in Nat
        BY <1>2, <4>1
      <4>3. bit(i) \in Nat
        BY <4>2
      <4> HIDE DEF States, bit
      <4> QED
        BY <1>5, <4>3
    <3> HIDE DEF States, bit
    <3> QED
      BY <3>1
  <2> HIDE DEF out, turn, next, States
  <2> QED
    BY <1>1, <2>1, <2>2, Recursion
<1>7. Sol(g)
  <2>1. /\ g \in [0..m -> States]
        /\ \A i \in 0..m : g[i] = IF i \in {0} THEN out[i] ELSE turn[i][g[next[i]]]
    <3> HIDE DEF out, turn, next, States
    <3> QED
      BY <1>6 DEF Solves
  <2>2. ASSUME NEW i \in 0..m, i # 0 PROVE g[i] = RootStep(g[i - 1], bit(i))
    <3>1. next[i] = i - 1 /\ g[i - 1] \in States
      BY <1>1, <2>1, <2>2
    <3>2. turn[i][g[i - 1]] = RootStep(g[i - 1], bit(i))
      <4> HIDE DEF bit, States
      <4> QED
        BY <3>1
    <3> HIDE DEF out, turn, next, States, bit
    <3> QED
      BY <2>1, <2>2, <3>1, <3>2
  <2>3. g[0] = [rem |-> n, root |-> 0]
    <3>1. 0 \in 0..m /\ out[0] = [rem |-> n, root |-> 0]
      BY <1>1
    <3> HIDE DEF out, turn, next, States
    <3> QED
      BY <2>1, <3>1
  <2>4. \A i \in 0..m : g[i] = IF i = 0 THEN [rem |-> n, root |-> 0] ELSE RootStep(g[i - 1], bit(i))
    BY <2>2, <2>3
  <2> HIDE DEF bit, States
  <2> QED
    BY <2>1, <2>4
<1> DEFINE after == CHOOSE f : Sol(f)
<1>8. Sol(after)
  <2> HIDE DEF Sol
  <2> QED
    BY <1>7
<1>9. IntegerSquareRoot(n) = after[m].root
  BY DEF IntegerSquareRoot, m
<1>10. /\ after[0] = [rem |-> n, root |-> 0]
       /\ \A i \in 1..m : after[i] = RootStep(after[i - 1], bit(i))
  <2> HIDE DEF after, bit
  <2> QED
    BY <1>1, <1>8
<1> HIDE DEF after, bit
<1> DEFINE Good(i) == i <= m => RootSoFar(n, after[i], PowerOfTwo[m - i])
           T == {i \in Nat : Good(i)}
<1>11. Good(0)
  <2>1. m - 0 = m /\ PowerOfTwo[m] \in Nat
    BY <1>1, <1>2
  <2>2. RootSoFar(n, after[0], PowerOfTwo[m])
    <3>1. after[0].root = 0 * PowerOfTwo[m] /\ after[0].rem = n
      BY <1>10, <2>1
    <3>2. n = 0 * 0 + n /\ n < 2 * (0 * PowerOfTwo[m]) + PowerOfTwo[m] * PowerOfTwo[m]
      BY <1>1, <1>3, <2>1
    <3> QED
      BY <1>1, <1>10, <3>1, <3>2 DEF RootSoFar
  <2> QED
    BY <2>1, <2>2
<1>12. ASSUME NEW i \in Nat, Good(i) PROVE Good(i + 1)
  <2>1. CASE i + 1 <= m
    <3>1. i + 1 \in 1..m /\ (i + 1) - 1 = i /\ i <= m
      BY <1>1, <2>1
    <3>2. PowerOfTwo[m - (i + 1)] \in Nat \ {0} /\ PowerOfTwo[m - i] = 2 * PowerOfTwo[m - (i + 1)]
      BY <1>4, <3>1
    <3>3. after[i + 1] = RootStep(after[i], PowerOfTwo[m - (i + 1)] * PowerOfTwo[m - (i + 1)])
      BY <1>10, <3>1 DEF bit
    <3>4. RootSoFar(n, after[i], 2 * PowerOfTwo[m - (i + 1)])
      BY <1>12, <3>1, <3>2
    <3> QED
      BY <1>1, <3>2, <3>3, <3>4, RootStepKeeps
  <2>2. CASE ~(i + 1 <= m)
    BY <2>2
  <2> QED
    BY <2>1, <2>2
<1>13. Nat \subseteq T
  <2>1. 0 \in T /\ \A i \in Nat : i \in T => i + 1 \in T
    BY <1>11, <1>12
  <2> HIDE DEF T
  <2> QED
    BY <2>1, AllNumbers
<1>14. RootSoFar(n, after[m], 1)
  <2>1. Good(m)
    BY <1>1, <1>13
  <2>2. m - m = 0
    BY <1>1
  <2> QED
    BY <1>1, <1>2, <2>1, <2>2
<1>15. PICK r \in Nat : /\ after[m].root = r * 1 /\ after[m].rem \in Nat
                        /\ n = r * r + after[m].rem /\ after[m].rem < 2 * (r * 1) + 1 * 1
  BY <1>14 DEF RootSoFar
<1>16. after[m].root = r /\ r * r <= n /\ n < r * r + 2 * r + 1 /\ r * r \in Nat
  BY <1>1, <1>15
<1>17. (r + 1) * (r + 1) = r * r + 2 * r + 1
  OBVIOUS
<1> QED
  BY <1>9, <1>16, <1>17 DEF RootOf

LEMMA SquareMonotonic == ASSUME NEW a \in Nat, NEW b \in Nat, a <= b PROVE a * a <= b * b
<1>1. PICK c \in Nat : b = a + c
  <2>1. b - a \in Nat /\ b = a + (b - a)
    OBVIOUS
  <2> QED
    BY <2>1
<1>2. b * b = a * a + (2 * (a * c) + c * c)
  BY <1>1
<1>3. 2 * (a * c) + c * c \in Nat /\ a * a \in Nat
  OBVIOUS
<1> QED
  BY <1>2, <1>3

\* A number determines its root, and the next number's is that or one more.
LEMMA RootSteps ==
    ASSUME NEW n \in Nat, NEW r, NEW s, RootOf(n, r), RootOf(n + 1, s) PROVE s \in {r, r + 1}
<1>1. /\ r \in Nat /\ s \in Nat /\ r * r <= n /\ n < (r + 1) * (r + 1)
      /\ s * s <= n + 1 /\ n + 1 < (s + 1) * (s + 1)
  BY DEF RootOf
<1>2. r * r \in Nat /\ s * s \in Nat /\ (r + 1) * (r + 1) \in Nat /\ (s + 1) * (s + 1) \in Nat
  BY <1>1
<1>3. CASE s < r
  <2>1. (s + 1) * (s + 1) <= r * r
    BY <1>1, <1>3, SquareMonotonic
  <2> QED
    BY <1>1, <1>2, <2>1
<1>4. CASE s > r + 1
  <2>1. (r + 2) * (r + 2) <= s * s
    BY <1>1, <1>4, SquareMonotonic
  <2>2. (r + 2) * (r + 2) = (r + 1) * (r + 1) + 2 * r + 3
    BY <1>1
  <2> QED
    BY <1>1, <1>2, <2>1, <2>2
<1> QED
  BY <1>1, <1>3, <1>4

LEMMA RootOfZero == ASSUME NEW r, RootOf(0, r) PROVE r = 0
<1>1. r \in Nat /\ r * r <= 0
  BY DEF RootOf
<1>2. CASE r # 0
  <2>1. 1 * 1 <= r * r
    BY <1>1, <1>2, SquareMonotonic
  <2>2. r * r \in Nat
    BY <1>1
  <2> QED
    BY <1>1, <2>1, <2>2
<1> QED
  BY <1>1, <1>2

-----------------------------------------------------------------------------
(* Nodes and their slots, for any directory.                               *)

\* Block b has the 2b + 1 slots of the numbers from b^2 on.
Blocked(A) ==
    /\ DOMAIN A = {"blocks", "capacity", "count"}
    /\ A.count \in Nat
    /\ \E S : A.blocks \in Seq(S)
    /\ \A b \in 0..(Len(A.blocks) - 1) : A.blocks[b + 1] = [i \in 1..(2 * b + 1) |-> A.blocks[b + 1][i]]

\* There are the blocks of the nodes so far, or that of the next one too.
Stored(A) == Blocked(A) /\ A.count \in 1..MaxNodes /\ Len(A.blocks) = IntegerSquareRoot(A.count - 1) + 1
Ready(A) == Blocked(A) /\ A.count \in 0..(MaxNodes - 1) /\ Len(A.blocks) = IntegerSquareRoot(A.count) + 1

SameSlots(A, B) == \A m \in Nodes(A) : Slot(B, m) = Slot(A, m)

\* Where the slot of a node is.
LEMMA SlotPlace ==
    ASSUME ArenaAssumption, NEW n \in Addressable, NEW m \in 0..n
    PROVE  /\ IntegerSquareRoot(m) \in Nat /\ IntegerSquareRoot(n) \in Nat
           /\ IntegerSquareRoot(m) <= IntegerSquareRoot(n)
           /\ m - IntegerSquareRoot(m) * IntegerSquareRoot(m) + 1 \in 1..(2 * IntegerSquareRoot(m) + 1)
<1> DEFINE c == IntegerSquareRoot(m)
           b == IntegerSquareRoot(n)
<1>1. n \in Nat /\ m \in Nat /\ m \in Addressable
  BY DEF Addressable, ArenaAssumption
<1>2. RootOf(m, c) /\ RootOf(n, b)
  BY <1>1, SquareRootExact
<1> HIDE DEF c, b
<1>3. /\ c \in Nat /\ b \in Nat /\ c * c <= m /\ m < (c + 1) * (c + 1)
      /\ b * b <= n /\ n < (b + 1) * (b + 1)
  BY <1>2 DEF RootOf
<1>4. c * c \in Nat /\ (c + 1) * (c + 1) = c * c + 2 * c + 1 /\ (b + 1) * (b + 1) \in Nat
  BY <1>3
<1>5. m - c * c + 1 \in 1..(2 * c + 1)
  BY <1>1, <1>3, <1>4
<1>6. CASE c > b
  <2>1. (b + 1) * (b + 1) <= c * c
    BY <1>3, <1>6, SquareMonotonic
  <2> QED
    BY <1>1, <1>3, <1>4, <2>1
<1> QED
  BY <1>3, <1>5, <1>6 DEF b, c

LEMMA ArenaUpdated ==
    ASSUME NEW A, DOMAIN A = {"blocks", "capacity", "count"}, NEW x, NEW y
    PROVE  /\ LET B == [A EXCEPT !.blocks = x]
              IN  DOMAIN B = DOMAIN A /\ B.blocks = x /\ B.capacity = A.capacity /\ B.count = A.count
           /\ LET B == [A EXCEPT !.blocks = x, !.count = y]
              IN  DOMAIN B = DOMAIN A /\ B.blocks = x /\ B.capacity = A.capacity /\ B.count = y
OBVIOUS

LEMMA PutStores ==
    ASSUME ArenaAssumption, NEW B, Ready(B), NEW record
    PROVE  LET P == Put(B, B.count, record)
           IN  Stored(P) /\ P.count = B.count + 1 /\ Slot(P, B.count) = record /\ SameSlots(B, P)
<1> DEFINE n == B.count
           b == IntegerSquareRoot(n)
           i == n - b * b + 1
           block == [B.blocks[b + 1] EXCEPT ![i] = record]
           P == PutInBlock(B, n, b, record)
<1>1. n \in Addressable /\ n \in Nat /\ n \in 0..n /\ n + 1 \in 1..MaxNodes
  BY DEF Ready, Addressable, ArenaAssumption
<1>2. b \in Nat /\ i \in 1..(2 * b + 1)
  BY <1>1, SlotPlace
<1>3. PICK S : B.blocks \in Seq(S)
  BY DEF Ready, Blocked
<1>4. Len(B.blocks) = b + 1
  BY DEF Ready
<1>5. DOMAIN B = {"blocks", "capacity", "count"}
  BY DEF Ready, Blocked
<1>6. \A a \in 0..b : B.blocks[a + 1] = [k \in 1..(2 * a + 1) |-> B.blocks[a + 1][k]]
  <2>1. \A a \in 0..(Len(B.blocks) - 1) : B.blocks[a + 1] = [k \in 1..(2 * a + 1) |-> B.blocks[a + 1][k]]
    BY DEF Ready, Blocked
  <2> HIDE DEF b
  <2> QED
    BY <1>2, <1>4, <2>1
<1> HIDE DEF n, b, i
<1>7. /\ block[i] = record
      /\ \A k \in 1..(2 * b + 1) : k # i => block[k] = B.blocks[b + 1][k]
      /\ block = [k \in 1..(2 * b + 1) |-> block[k]]
  <2>1. B.blocks[b + 1] = [k \in 1..(2 * b + 1) |-> B.blocks[b + 1][k]]
    BY <1>2, <1>6
  <2> DEFINE old == B.blocks[b + 1]
  <2> HIDE DEF old
  <2>2. old = [k \in 1..(2 * b + 1) |-> old[k]]
    BY <2>1 DEF old
  <2>3. /\ [old EXCEPT ![i] = record][i] = record
        /\ \A k \in 1..(2 * b + 1) : k # i => [old EXCEPT ![i] = record][k] = old[k]
        /\ [old EXCEPT ![i] = record] = [k \in 1..(2 * b + 1) |-> [old EXCEPT ![i] = record][k]]
    BY <1>2, <2>2
  <2> QED
    BY <2>3 DEF old
<1>8. DOMAIN P = DOMAIN B /\ P.blocks = [B.blocks EXCEPT ![b + 1] = block] /\ P.count = n + 1
  <2>1. P = [B EXCEPT !.blocks = [B.blocks EXCEPT ![b + 1] = block], !.count = n + 1]
    BY DEF PutInBlock, i
  <2> HIDE DEF block, P
  <2> QED
    BY <1>5, <2>1, ArenaUpdated
<1> HIDE DEF block, P
<1>9. /\ P.blocks \in Seq(S \cup {block}) /\ Len(P.blocks) = b + 1 /\ P.blocks[b + 1] = block
      /\ \A k \in 1..(b + 1) : k # b + 1 => P.blocks[k] = B.blocks[k]
  <2>1. B.blocks \in Seq(S \cup {block}) /\ b + 1 \in 1..Len(B.blocks)
    BY <1>2, <1>3, <1>4
  <2>2. P.blocks = [B.blocks EXCEPT ![b + 1] = block]
    BY <1>8
  <2> QED
    BY <1>2, <1>4, <2>1, <2>2, ExceptSeq
<1>10. Stored(P) /\ P.count = n + 1
  <2>1. DOMAIN P = {"blocks", "capacity", "count"} /\ P.count = n + 1
    BY <1>5, <1>8
  <2>2. ASSUME NEW a \in 0..(Len(P.blocks) - 1)
        PROVE  P.blocks[a + 1] = [k \in 1..(2 * a + 1) |-> P.blocks[a + 1][k]]
    <3>1. a \in 0..b
      BY <1>2, <1>9
    <3>2. CASE a = b
      BY <1>7, <1>9, <3>2
    <3>3. CASE a # b
      <4>1. P.blocks[a + 1] = B.blocks[a + 1]
        BY <1>2, <1>9, <3>1, <3>3
      <4> QED
        BY <1>6, <3>1, <4>1
    <3> QED
      BY <3>2, <3>3
  <2>3. Blocked(P)
    BY <1>1, <1>9, <2>1, <2>2 DEF Blocked
  <2>4. (n + 1) - 1 = n
    BY <1>1
  <2> QED
    BY <1>1, <1>9, <2>1, <2>3, <2>4 DEF Stored, b
<1>11. Slot(P, n) = record
  BY <1>7, <1>9 DEF Slot, InBlock, b, i
<1>12. ASSUME NEW m \in Nodes(B) PROVE Slot(P, m) = Slot(B, m)
  <2> DEFINE c == IntegerSquareRoot(m)
             k == m - c * c + 1
  <2>1. m \in 0..n /\ m # n
    BY <1>1, <1>12 DEF Nodes, n
  <2>2. c \in Nat /\ c <= b /\ k \in 1..(2 * c + 1)
    BY <1>1, <2>1, SlotPlace DEF b
  <2>3. Slot(P, m) = P.blocks[c + 1][k] /\ Slot(B, m) = B.blocks[c + 1][k]
    BY DEF Slot, InBlock
  <2> HIDE DEF c
  <2>4. CASE c = b
    <3>1. k # i
      <4>1. b * b \in Nat
        BY <1>2
      <4> QED
        BY <1>1, <2>1, <2>4, <4>1 DEF i
    <3> HIDE DEF k
    <3> QED
      BY <1>7, <1>9, <2>2, <2>3, <2>4, <3>1
  <2>5. CASE c # b
    <3>1. c + 1 \in 1..(b + 1) /\ c + 1 # b + 1
      BY <1>2, <2>2, <2>5
    <3> QED
      BY <1>9, <2>3, <3>1
  <2> QED
    BY <2>4, <2>5
<1> QED
  BY <1>10, <1>11, <1>12 DEF SameSlots, Put, P, n, b

\* Whatever becomes of the directory, the nodes so far stay where they are.
LEMMA ReserveKeeps ==
    ASSUME ArenaAssumption, NEW A, Stored(A), A.count # MaxNodes
    PROVE  /\ \A B \in Reserve(A).ok : Ready(B) /\ B.count = A.count /\ SameSlots(A, B)
           /\ \A B \in Reserve(A).failed \cup {A} : Stored(B) /\ B.count = A.count /\ SameSlots(A, B)
<1> DEFINE n == A.count
           b == IntegerSquareRoot(n)
           c == IntegerSquareRoot(n - 1)
           fresh == [i \in 1..(2 * b + 1) |-> Unset]
           more == [Grown(A) EXCEPT !.blocks = @ \o <<fresh>>]
<1>1. n \in 1..MaxNodes /\ n \in 0..(MaxNodes - 1) /\ n \in Addressable /\ n - 1 \in Addressable /\ n - 1 \in Nat
  BY DEF Stored, Addressable, ArenaAssumption
<1>2. b \in Nat /\ c \in Nat /\ b \in {c, c + 1}
  <2>1. RootOf(n, b) /\ RootOf(n - 1, c) /\ (n - 1) + 1 = n
    BY <1>1, SquareRootExact
  <2> HIDE DEF b, c
  <2>2. b \in {c, c + 1}
    BY <1>1, <2>1, RootSteps
  <2> QED
    BY <2>1, <2>2 DEF RootOf
<1>3. Len(A.blocks) = c + 1
  BY DEF Stored
<1>4. PICK S : A.blocks \in Seq(S)
  BY DEF Stored, Blocked
<1>5. DOMAIN A = {"blocks", "capacity", "count"} /\ Blocked(A)
  BY DEF Stored, Blocked
<1>6. \A a \in 0..c : A.blocks[a + 1] = [k \in 1..(2 * a + 1) |-> A.blocks[a + 1][k]]
  <2>1. \A a \in 0..(Len(A.blocks) - 1) : A.blocks[a + 1] = [k \in 1..(2 * a + 1) |-> A.blocks[a + 1][k]]
    BY DEF Stored, Blocked
  <2> HIDE DEF c
  <2> QED
    BY <1>2, <1>3, <2>1
<1>7. DOMAIN Grown(A) = DOMAIN A /\ Grown(A).blocks = A.blocks /\ Grown(A).count = n
  BY <1>5 DEF Grown
<1> HIDE DEF n, b, c
<1>8. Stored(Grown(A)) /\ Grown(A).count = n /\ SameSlots(A, Grown(A))
  <2>1. Grown(A).blocks = A.blocks /\ Grown(A).count = A.count
    BY <1>7 DEF n
  <2>2. Blocked(Grown(A))
    BY <1>5, <1>7, <2>1 DEF Blocked
  <2> QED
    BY <2>1, <2>2 DEF Stored, SameSlots, Slot, InBlock, n
<1>9. CASE b # Len(A.blocks)
  <2>1. Reserve(A) = [ok |-> {A}, failed |-> {}]
    BY <1>9 DEF Reserve, ReserveBlock, b, n
  <2>2. b = c
    BY <1>2, <1>3, <1>9
  <2>3. Ready(A) /\ SameSlots(A, A)
    BY <1>1, <1>3, <1>5, <2>2 DEF Ready, SameSlots, b, n
  <2> QED
    BY <2>1, <2>3
<1>10. CASE b = Len(A.blocks)
  <2>1. Reserve(A) = [ok |-> {more}, failed |-> {A, Grown(A)}]
    BY <1>10 DEF Reserve, ReserveBlock, b, n
  <2>2. b = c + 1
    BY <1>3, <1>10
  <2> HIDE DEF fresh
  <2>3. DOMAIN more = {"blocks", "capacity", "count"} /\ more.blocks = A.blocks \o <<fresh>> /\ more.count = n
    <3> DEFINE G == Grown(A)
    <3> HIDE DEF G
    <3>1. DOMAIN G = {"blocks", "capacity", "count"} /\ G.blocks = A.blocks /\ G.count = n
      BY <1>5, <1>7 DEF G
    <3>2. /\ DOMAIN [G EXCEPT !.blocks = G.blocks \o <<fresh>>] = {"blocks", "capacity", "count"}
          /\ [G EXCEPT !.blocks = G.blocks \o <<fresh>>].blocks = A.blocks \o <<fresh>>
          /\ [G EXCEPT !.blocks = G.blocks \o <<fresh>>].count = n
      BY <3>1, ArenaUpdated
    <3> QED
      BY <3>2 DEF G
  <2> HIDE DEF more
  <2>4. /\ more.blocks \in Seq(S \cup {fresh}) /\ Len(more.blocks) = b + 1
        /\ more.blocks[b + 1] = fresh /\ \A k \in 1..b : more.blocks[k] = A.blocks[k]
    <3>1. A.blocks \in Seq(S \cup {fresh}) /\ <<fresh>> \in Seq(S \cup {fresh}) /\ Len(<<fresh>>) = 1
      BY <1>4
    <3>2. more.blocks = A.blocks \o <<fresh>>
      BY <2>3
    <3>3. /\ more.blocks \in Seq(S \cup {fresh}) /\ Len(more.blocks) = b + 1
          /\ \A k \in 1..(b + 1) : more.blocks[k] = IF k <= b THEN A.blocks[k] ELSE <<fresh>>[k - b]
      BY <1>10, <3>1, <3>2, ConcatProperties
    <3>4. more.blocks[b + 1] = <<fresh>>[(b + 1) - b] /\ (b + 1) - b = 1
      BY <1>2, <3>3
    <3> QED
      BY <1>2, <3>3, <3>4
  <2>5. Ready(more)
    <3>1. ASSUME NEW a \in 0..(Len(more.blocks) - 1)
          PROVE  more.blocks[a + 1] = [k \in 1..(2 * a + 1) |-> more.blocks[a + 1][k]]
      <4>1. a \in 0..b
        BY <1>2, <2>4
      <4>2. CASE a = b
        BY <2>4, <4>2 DEF fresh
      <4>3. CASE a # b
        <5>1. a \in 0..c /\ a + 1 \in 1..b
          BY <1>2, <2>2, <4>1, <4>3
        <5> QED
          BY <1>6, <2>4, <5>1
      <4> QED
        BY <4>2, <4>3
    <3>2. DOMAIN more = {"blocks", "capacity", "count"} /\ more.count = n
      BY <2>3
    <3>3. Blocked(more)
      BY <1>1, <2>4, <3>1, <3>2 DEF Blocked
    <3> QED
      BY <1>1, <2>4, <3>2, <3>3 DEF Ready, b
  <2>6. SameSlots(A, more)
    <3>1. ASSUME NEW m \in Nodes(A) PROVE Slot(more, m) = Slot(A, m)
      <4>1. m \in 0..(n - 1)
        BY DEF Nodes, n
      <4>2. IntegerSquareRoot(m) \in Nat /\ IntegerSquareRoot(m) <= c
        BY <1>1, <4>1, SlotPlace DEF c
      <4>3. IntegerSquareRoot(m) + 1 \in 1..b
        BY <1>2, <2>2, <4>2
      <4> QED
        BY <2>4, <4>3 DEF Slot, InBlock
    <3> QED
      BY <3>1 DEF SameSlots
  <2>7. more.count = n
    BY <2>3
  <2>8. Stored(A) /\ SameSlots(A, A)
    BY DEF SameSlots
  <2> QED
    BY <1>8, <2>1, <2>5, <2>6, <2>7, <2>8 DEF n
<1> QED
  BY <1>9, <1>10

\* A node's record is the one its leaf was given, from nodes before it.
NodeMade(A, n) ==
    /\ Slot(A, n) = LeafNode(Parent(A, n), Jump(A, Parent(A, n)), Depth(A, Parent(A, n)) + 1, ValueOf(A, n))
    /\ Parent(A, n) \in 0..(n - 1) /\ Slot(A, n).skip \in 0..(n - 1)
    /\ Slot(A, n).distance \in Nat \ {0} /\ Depth(A, n) \in Nat

BottomRecord == [parent |-> Bottom, skip |-> Bottom, distance |-> 0, depth |-> -1, value |-> Unset]

Made(A) == Slot(A, Bottom) = BottomRecord /\ \A n \in Nodes(A) \ {Bottom} : NodeMade(A, n)

LEMMA NodeRanges ==
    ASSUME NEW A, Made(A), A.count \in Nat, NEW n \in Nodes(A)
    PROVE  /\ n \in Nat
           /\ Parent(A, n) \in 0..n /\ Slot(A, n).skip \in 0..n /\ Slot(A, n).distance \in Nat
           /\ Depth(A, n) \in Int /\ Depth(A, n) >= -1
           /\ n # Bottom => NodeMade(A, n)
           /\ n = Bottom => Depth(A, n) = -1 /\ Slot(A, n) = BottomRecord
<1>1. n \in Nat
  BY DEF Nodes
<1>2. CASE n = Bottom
  BY <1>2 DEF Made, BottomRecord, Parent, Depth, Bottom
<1>3. CASE n # Bottom
  BY <1>1, <1>3 DEF Made, NodeMade
<1> QED
  BY <1>1, <1>2, <1>3

\* The slots of an arena say all about its nodes.
LEMMA MadeKept ==
    ASSUME NEW A, Made(A), A.count \in Nat \ {0}, NEW B, SameSlots(A, B), NEW n \in Nodes(A) \ {Bottom}
    PROVE  NodeMade(B, n)
<1>1. NodeMade(A, n) /\ n \in Nat
  BY DEF Made, Nodes
<1> DEFINE p == Parent(A, n)
           s == Slot(A, p).skip
<1>2. p \in Nodes(A)
  BY <1>1 DEF NodeMade, Nodes
<1>3. s \in Nodes(A)
  <2>1. s \in 0..p /\ p \in Nat
    BY <1>2, NodeRanges
  <2> QED
    BY <1>2, <2>1 DEF Nodes
<1>4. Slot(B, n) = Slot(A, n) /\ Slot(B, p) = Slot(A, p) /\ Slot(B, s) = Slot(A, s)
  BY <1>2, <1>3 DEF SameSlots
<1>5. Parent(B, n) = p /\ Depth(B, p) = Depth(A, p) /\ Depth(B, n) = Depth(A, n) /\ ValueOf(B, n) = ValueOf(A, n)
  BY <1>4 DEF Parent, Depth, ValueOf
<1>6. Jump(B, p) = Jump(A, p)
  BY <1>4 DEF Jump
<1> QED
  BY <1>1, <1>4, <1>5, <1>6 DEF NodeMade

LEMMA NewArenaMade == ASSUME ArenaAssumption PROVE Stored(NewArena) /\ Made(NewArena)
<1> DEFINE B == [blocks |-> <<<<Unset>>>>, capacity |-> FirstDirectory, count |-> 0]
<1>1. IntegerSquareRoot(0) = 0
  <2>1. 0 \in Addressable
    BY DEF Addressable, ArenaAssumption
  <2> QED
    BY <2>1, SquareRootExact, RootOfZero
<1>2. Ready(B)
  <2>1. B.blocks \in Seq({<<Unset>>}) /\ Len(B.blocks) = 1 /\ B.blocks[1] = <<Unset>>
    OBVIOUS
  <2>2. <<Unset>> = [i \in 1..1 |-> <<Unset>>[i]]
    OBVIOUS
  <2>3. ASSUME NEW b \in 0..(Len(B.blocks) - 1) PROVE B.blocks[b + 1] = [i \in 1..(2 * b + 1) |-> B.blocks[b + 1][i]]
    <3>1. b = 0 /\ b + 1 = 1 /\ 2 * b + 1 = 1
      BY <2>1
    <3> HIDE DEF B
    <3> QED
      BY <2>1, <2>2, <3>1
  <2>4. B.count = 0 /\ DOMAIN B = {"blocks", "capacity", "count"}
    OBVIOUS
  <2> HIDE DEF B
  <2>5. Blocked(B)
    BY <2>1, <2>3, <2>4 DEF Blocked
  <2> QED
    BY <1>1, <2>1, <2>4, <2>5 DEF Ready, ArenaAssumption
<1>3. B.count = 0 /\ NewArena = Put(B, B.count, BottomRecord)
  BY DEF NewArena, BottomRecord, Bottom
<1> HIDE DEF B
<1>4. Stored(NewArena) /\ NewArena.count = 1 /\ Slot(NewArena, Bottom) = BottomRecord
  BY <1>2, <1>3, PutStores DEF Bottom
<1> QED
  BY <1>4 DEF Made, Nodes, Bottom

\* A node that is added changes no other, nor does one that is not.
LEMMA AddLeafMakes ==
    ASSUME ArenaAssumption, NEW A, Stored(A), Made(A), NEW parent \in Nodes(A), NEW v,
           NEW out \in AddLeaf(A, parent, v)
    PROVE  /\ Stored(out.arena) /\ Made(out.arena) /\ SameSlots(A, out.arena)
           /\ IF out.leaf = Unset THEN out.arena.count = A.count
              ELSE /\ out.leaf = A.count /\ out.arena.count = A.count + 1
                   /\ Parent(out.arena, out.leaf) = parent /\ ValueOf(out.arena, out.leaf) = v
<1>1. A.count \in Nat \ {0}
  BY DEF Stored
<1>2. \A B : B.count = A.count /\ SameSlots(A, B) => Made(B)
  <2> TAKE B
  <2> HAVE B.count = A.count /\ SameSlots(A, B)
  <2>1. Slot(B, Bottom) = Slot(A, Bottom)
    BY <1>1 DEF SameSlots, Nodes, Bottom
  <2>2. \A n \in Nodes(A) \ {Bottom} : NodeMade(B, n)
    BY <1>1, MadeKept
  <2>3. Nodes(B) = Nodes(A)
    BY DEF Nodes
  <2> QED
    BY <2>1, <2>2, <2>3 DEF Made
<1>3. ASSUME NEW B, out = [arena |-> B, leaf |-> Unset], Stored(B), B.count = A.count, SameSlots(A, B)
      PROVE  /\ Stored(out.arena) /\ Made(out.arena) /\ SameSlots(A, out.arena)
             /\ out.leaf = Unset /\ out.arena.count = A.count
  BY <1>2, <1>3
<1>4. SameSlots(A, A)
  BY DEF SameSlots
<1>5. CASE A.count = MaxNodes
  <2>1. out = [arena |-> A, leaf |-> Unset]
    BY <1>5 DEF AddLeaf
  <2> QED
    BY <1>3, <1>4, <2>1
<1>6. CASE A.count # MaxNodes
  <2> DEFINE leaf == LeafNode(parent, Jump(A, parent), Depth(A, parent) + 1, v)
  <2>1. \/ \E B \in Reserve(A).failed \cup {A} : out = [arena |-> B, leaf |-> Unset]
        \/ \E B \in Reserve(A).ok : out = [arena |-> Put(B, B.count, leaf), leaf |-> B.count]
    <3> HIDE DEF leaf
    <3>1. out \in AddReserved(A, parent, v, Reserve(A))
      BY <1>6 DEF AddLeaf
    <3> QED
      BY <3>1 DEF AddReserved, leaf
  <2> HIDE DEF leaf
  <2>2. CASE \E B \in Reserve(A).failed \cup {A} : out = [arena |-> B, leaf |-> Unset]
    BY <1>3, <1>6, <2>2, ReserveKeeps
  <2>3. CASE \E B \in Reserve(A).ok : out = [arena |-> Put(B, B.count, leaf), leaf |-> B.count]
    <3>1. PICK B \in Reserve(A).ok : out = [arena |-> Put(B, B.count, leaf), leaf |-> B.count]
      BY <2>3
    <3> DEFINE P == Put(B, B.count, leaf)
               n == A.count
    <3>2. Ready(B) /\ B.count = n /\ SameSlots(A, B)
      BY <1>6, <3>1, ReserveKeeps
    <3>3. Stored(P) /\ P.count = n + 1 /\ Slot(P, n) = leaf /\ SameSlots(B, P)
      BY <3>2, PutStores
    <3>4. out.arena = P /\ out.leaf = n
      BY <3>1, <3>2
    <3> HIDE DEF P, n
    <3>5. SameSlots(A, P)
      BY <3>2, <3>3 DEF SameSlots, Nodes, n
    <3> DEFINE s == Slot(A, parent).skip
               jump == Jump(A, parent)
    <3>6. s \in 0..parent /\ s \in Nodes(A) /\ parent \in Nat /\ parent \in 0..(n - 1)
      <4>1. s \in 0..parent /\ parent \in Nat /\ parent \in 0..(n - 1)
        BY <1>1, NodeRanges DEF Nodes, n
      <4> QED
        BY <1>1, <4>1 DEF Nodes, n
    <3>7. Parent(P, n) = parent /\ ValueOf(P, n) = v /\ Slot(P, n) = LeafNode(parent, jump, Depth(A, parent) + 1, v)
      BY <3>3 DEF Parent, ValueOf, LeafNode, leaf
    <3>8. Depth(P, parent) = Depth(A, parent) /\ Jump(P, parent) = jump
      <4>1. Slot(P, parent) = Slot(A, parent) /\ Slot(P, s) = Slot(A, s)
        BY <3>5, <3>6 DEF SameSlots
      <4> QED
        BY <4>1 DEF Depth, Jump
    <3>9. jump.to \in 0..(n - 1) /\ jump.distance \in Nat \ {0}
      <4>1. /\ Slot(A, s).skip \in 0..s /\ Slot(A, s).distance \in Nat
            /\ Slot(A, parent).distance \in Nat
        BY <1>1, <3>6, NodeRanges
      <4>2. n \in Nat
        BY <1>1 DEF n
      <4>3. jump = JumpOver(parent, Slot(A, parent), Slot(A, s))
        BY DEF Jump
      <4>4. jump \in {[to |-> parent, distance |-> 1],
                      [to |-> Slot(A, s).skip, distance |-> 1 + Slot(A, parent).distance + Slot(A, s).distance]}
        BY <4>3 DEF JumpOver
      <4> HIDE DEF jump, s
      <4>5. Slot(A, s).skip \in 0..(n - 1)
        BY <3>6, <4>1, <4>2
      <4> QED
        BY <3>6, <4>1, <4>4, <4>5
    <3>10. Depth(A, parent) + 1 \in Nat
      BY <1>1, NodeRanges
    <3>11. NodeMade(P, n)
      <4>1. Slot(P, n).skip = jump.to /\ Slot(P, n).distance = jump.distance /\ Depth(P, n) = Depth(A, parent) + 1
        BY <3>7 DEF LeafNode, Depth
      <4> HIDE DEF jump
      <4> QED
        BY <3>6, <3>7, <3>8, <3>9, <3>10, <4>1 DEF NodeMade
    <3>12. Made(P)
      <4>1. Slot(P, Bottom) = BottomRecord
        BY <1>1, <3>5 DEF SameSlots, Nodes, Bottom, Made
      <4>2. \A m \in Nodes(A) \ {Bottom} : NodeMade(P, m)
        BY <1>1, <3>5, MadeKept
      <4>3. \A m \in Nodes(P) : m = n \/ m \in Nodes(A)
        BY <1>1, <3>3 DEF Nodes, n
      <4> QED
        BY <3>11, <4>1, <4>2, <4>3 DEF Made
    <3>13. n # Unset
      BY <1>1 DEF n, ArenaAssumption
    <3> QED
      BY <3>3, <3>4, <3>5, <3>7, <3>12, <3>13 DEF n
  <2> QED
    BY <2>1, <2>2, <2>3
<1> QED
  BY <1>5, <1>6

\* Every arena there is holds nodes as they were made.
NodesInv == \A a \in Arenas : arena[a] # NoArena => Stored(arena[a]) /\ Made(arena[a])

\* What a step may do to an arena: release it, make it, or add to it.
Adds(A, B) == A.count <= B.count /\ SameSlots(A, B)
ArenaKept(as, bs, a) ==
    \/ bs[a] = NoArena
    \/ bs[a] = as[a]
    \/ Stored(bs[a]) /\ Made(bs[a]) /\ (as[a] = NoArena \/ Adds(as[a], bs[a]))

LEMMA KeptNodes ==
    ASSUME NodesInv, \A a \in Arenas : ArenaKept(arena, arena', a) PROVE NodesInv' /\ NodesFrozen
<1>1. NodesInv'
  BY DEF NodesInv, ArenaKept
<1>2. NodesFrozen
  BY DEF NodesFrozen, Existing, ArenaKept, Adds, SameSlots
<1> QED
  BY <1>1, <1>2

LEMMA OneArenaKept ==
    ASSUME ArenaInv, NEW a \in Arenas, NEW C, arena' = [arena EXCEPT ![a] = C],
           C = NoArena \/ (Stored(C) /\ Made(C) /\ (arena[a] = NoArena \/ Adds(arena[a], C)))
    PROVE  \A b \in Arenas : ArenaKept(arena, arena', b)
<1>1. \A b \in Arenas : arena'[b] = IF b = a THEN C ELSE arena[b]
  BY DEF ArenaInv, Kept
<1> QED
  BY <1>1 DEF ArenaKept

LEMMA NewOwnerKept ==
    ASSUME ArenaAssumption, ArenaInv, NEW h, NEW a \in Arenas, NEW owner, NewOwner(h, a, owner)
    PROVE  \A b \in Arenas : ArenaKept(arena, arena', b)
<1>1. arena[a] = NoArena /\ arena' = [arena EXCEPT ![a] = NewArena]
  BY DEF NewOwner
<1> QED
  BY <1>1, NewArenaMade, OneArenaKept

LEMMA DisposeKept ==
    ASSUME ArenaAssumption, ArenaInv, NEW h \in Handles, Dispose(h)
    PROVE  \A b \in Arenas : ArenaKept(arena, arena', b)
<1> DEFINE a == hold[h].arena
<1>1. a \in Arenas
  BY HeldCounted DEF Dispose, Held, ArenaInv
<1>2. \A b \in Arenas : arena'[b] \in {NoArena, arena[b]}
  <2>1. arena' = [arena EXCEPT ![a] = IF refs[a] = 1 THEN NoArena ELSE arena[a]]
    BY DEF Dispose
  <2> QED
    BY <1>1, <2>1 DEF ArenaInv, Kept
<1> QED
  BY <1>2 DEF ArenaKept

\* A leaf below a node of an arena that a handle refers to.
LEMMA LeafKept ==
    ASSUME ArenaAssumption, ArenaInv, NodesInv, NEW h \in Held, NEW parent \in Nodes(arena[hold[h].arena]),
           NEW v, NEW out \in AddLeaf(arena[hold[h].arena], parent, v),
           arena' = [arena EXCEPT ![hold[h].arena] = out.arena]
    PROVE  \A b \in Arenas : ArenaKept(arena, arena', b)
<1> DEFINE a == hold[h].arena
<1>1. a \in Arenas /\ Sized(arena[a])
  BY OwnedSized
<1>2. arena[a] # NoArena
  BY <1>1 DEF Sized, NoArena
<1>3. Stored(arena[a]) /\ Made(arena[a])
  BY <1>1, <1>2 DEF NodesInv
<1>4. Stored(out.arena) /\ Made(out.arena) /\ Adds(arena[a], out.arena)
  BY <1>1, <1>3, AddLeafMakes DEF Adds, Sized
<1> QED
  BY <1>1, <1>4, OneArenaKept

LEMMA ArenaNextKept ==
    ASSUME ArenaAssumption, ArenaInv, NodesInv, [ArenaNext]_arenaVars
    PROVE  \A b \in Arenas : ArenaKept(arena, arena', b)
<1>1. ASSUME NEW h \in Handles, NEW a \in Arenas, CreateArena(h, a)
      PROVE  \A b \in Arenas : ArenaKept(arena, arena', b)
  BY <1>1, NewOwnerKept DEF CreateArena
<1>2. ASSUME NEW h \in Handles, Dispose(h) PROVE \A b \in Arenas : ArenaKept(arena, arena', b)
  BY <1>2, DisposeKept
<1>3. ASSUME NEW h \in Handles, NEW parent, NEW v, ArenaAddLeaf(h, parent, v)
      PROVE  \A b \in Arenas : ArenaKept(arena, arena', b)
  <2>1. h \in Held /\ parent \in Nodes(arena[hold[h].arena])
    BY <1>3 DEF ArenaAddLeaf
  <2>2. \E out \in AddLeaf(arena[hold[h].arena], parent, v) : arena' = [arena EXCEPT ![hold[h].arena] = out.arena]
    BY <1>3 DEF ArenaAddLeaf
  <2> QED
    BY <2>1, <2>2, LeafKept
<1>4. CASE arena' = arena
  BY <1>4 DEF ArenaKept
<1> QED
  BY <1>1, <1>2, <1>3, <1>4 DEF ArenaNext, Copy, Move, arenaVars

LEMMA ArenaInitKept == ASSUME ArenaInit PROVE NodesInv
BY DEF ArenaInit, NodesInv

LEMMA ArenaStays == ASSUME ArenaAssumption PROVE ArenaSpec => [](ArenaInv /\ NodesInv)
<1>1. ArenaInit => ArenaInv /\ NodesInv
  BY ArenaInitOwned, ArenaInitKept
<1>2. ArenaInv /\ NodesInv /\ [ArenaNext]_arenaVars => (ArenaInv /\ NodesInv)'
  BY ArenaNextOwned, ArenaNextKept, KeptNodes
<1> QED
  BY <1>1, <1>2, PTL DEF ArenaSpec

\* NodesFrozen for any arenas: an addition that grows the directory, allocates
\* a block, fails in between or writes a record leaves every node readable as
\* it was.
THEOREM NodesStay == ASSUME ArenaAssumption PROVE ArenaSpec => [][NodesFrozen]_arenaVars
<1>1. ArenaInv /\ NodesInv /\ [ArenaNext]_arenaVars => [NodesFrozen]_arenaVars
  BY ArenaNextKept, KeptNodes
<1> QED
  BY <1>1, ArenaStays, PTL DEF ArenaSpec

-----------------------------------------------------------------------------
(* Level ancestors, for any tree of nodes.                                 *)

\* The recursion over parents has a solution.
LEMMA ByParentsUnfolds ==
    ASSUME NEW A, Made(A), A.count \in Nat \ {0}, NEW d \in Int, NEW n \in Nodes(A)
    PROVE  ByParents(A, n, d) = IF Depth(A, n) = d THEN n ELSE ByParents(A, Parent(A, n), d)
<1> DEFINE c == A.count - 1
           N == 0..c
           Sol(up) == up = [k \in N |-> IF Depth(A, k) = d THEN k ELSE up[Parent(A, k)]]
           out == [k \in N |-> k]
           turn == [k \in N |-> [m \in N |-> m]]
           next == [k \in N |-> Parent(A, k)]
           stop == {k \in N : Depth(A, k) = d \/ k = Bottom}
<1>1. c \in Nat /\ N = Nodes(A)
  BY DEF Nodes
<1>2. ASSUME NEW k \in N PROVE Parent(A, k) \in N /\ (k # Bottom => Parent(A, k) < k) /\ Parent(A, Bottom) = Bottom
  <2>1. Parent(A, k) \in 0..k /\ k \in Nat /\ (k # Bottom => NodeMade(A, k))
    BY <1>1, NodeRanges
  <2>2. k # Bottom => Parent(A, k) \in 0..(k - 1)
    BY <2>1 DEF NodeMade
  <2>3. Parent(A, Bottom) = Bottom
    BY DEF Made, BottomRecord, Parent
  <2> QED
    BY <1>1, <2>1, <2>2, <2>3
<1> HIDE DEF c
<1>3. PICK g : Solves(g, c, N, out, turn, next, stop)
  <2>1. /\ out \in [N -> N] /\ turn \in [N -> [N -> N]] /\ next \in [N -> N]
        /\ 0 \in stop /\ \A k \in N : k \notin stop => next[k] < k
    BY <1>1, <1>2 DEF Bottom
  <2> HIDE DEF out, turn, next, stop
  <2> QED
    BY <1>1, <2>1, Recursion
<1>4. Sol(g)
  <2>1. /\ g \in [N -> N]
        /\ \A k \in N : g[k] = IF k \in stop THEN out[k] ELSE turn[k][g[next[k]]]
    <3> HIDE DEF out, turn, next, stop
    <3> QED
      BY <1>3 DEF Solves
  <2>2. ASSUME NEW k \in N PROVE g[k] = IF Depth(A, k) = d THEN k ELSE g[Parent(A, k)]
    <3>1. out[k] = k /\ next[k] = Parent(A, k) /\ g[Parent(A, k)] \in N
      BY <1>2, <2>1
    <3>2. turn[k][g[Parent(A, k)]] = g[Parent(A, k)]
      BY <3>1
    <3>3. CASE k = Bottom
      <4>1. k \in stop
        BY <3>3
      <4> HIDE DEF out, turn, next, stop, N
      <4> QED
        BY <1>2, <2>1, <3>1, <3>3, <4>1
    <3>4. CASE k # Bottom
      <4>1. k \in stop <=> Depth(A, k) = d
        BY <3>4
      <4> HIDE DEF out, turn, next, stop, N
      <4> QED
        BY <2>1, <3>1, <3>2, <4>1
    <3> QED
      BY <3>3, <3>4
  <2> HIDE DEF N
  <2> QED
    BY <2>1, <2>2
<1> DEFINE f == CHOOSE up : Sol(up)
<1>5. Sol(f)
  <2> HIDE DEF Sol
  <2> QED
    BY <1>4
<1>6. \A k \in N : ByParents(A, k, d) = f[k]
  BY <1>1 DEF ByParents
<1> HIDE DEF f
<1>7. \A k \in N : f[k] = IF Depth(A, k) = d THEN k ELSE f[Parent(A, k)]
  <2> HIDE DEF N
  <2> QED
    BY <1>5
<1> QED
  BY <1>1, <1>2, <1>6, <1>7

\* The recursion over hops has a solution.
LEMMA WalkUnfolds ==
    ASSUME NEW A, Made(A), A.count \in Nat \ {0}, NEW d \in Int, d >= -1, NEW n \in Nodes(A)
    PROVE  /\ Hop(Slot(A, n), d) \in Nodes(A)
           /\ AncestorAtDepth(A, n, d) \in [node : Nodes(A), hops : Nat]
           /\ AncestorAtDepth(A, n, d) =
                 IF Depth(A, n) <= d THEN [node |-> n, hops |-> 0]
                 ELSE [AncestorAtDepth(A, Hop(Slot(A, n), d), d) EXCEPT !.hops = @ + 1]
<1> DEFINE c == A.count - 1
           N == 0..c
           S == [node : N, hops : Nat]
           hop(k) == Hop(Slot(A, k), d)
           Sol(w) == w = [k \in N |-> IF Depth(A, k) <= d THEN [node |-> k, hops |-> 0]
                                      ELSE [w[hop(k)] EXCEPT !.hops = @ + 1]]
           out == [k \in N |-> [node |-> k, hops |-> 0]]
           turn == [k \in N |-> [r \in S |-> [r EXCEPT !.hops = @ + 1]]]
           next == [k \in N |-> hop(k)]
           stop == {k \in N : Depth(A, k) <= d}
<1>1. c \in Nat /\ N = Nodes(A)
  BY DEF Nodes
<1>2. ASSUME NEW k \in N PROVE hop(k) \in N /\ (k # Bottom => hop(k) < k)
  <2>1. Parent(A, k) \in 0..k /\ Slot(A, k).skip \in 0..k /\ k \in Nat /\ (k # Bottom => NodeMade(A, k))
    BY <1>1, NodeRanges
  <2>2. hop(k) \in {Parent(A, k), Slot(A, k).skip}
    BY DEF Hop, Parent
  <2>3. k # Bottom => Parent(A, k) \in 0..(k - 1) /\ Slot(A, k).skip \in 0..(k - 1)
    BY <2>1 DEF NodeMade
  <2> HIDE DEF hop
  <2> QED
    BY <1>1, <2>1, <2>2, <2>3
<1>3. Depth(A, Bottom) = -1
  BY DEF Made, BottomRecord, Depth
<1> HIDE DEF c, hop
<1>4. PICK g : Solves(g, c, S, out, turn, next, stop)
  <2>1. out \in [N -> S] /\ next \in [N -> N]
    BY <1>1, <1>2
  <2>2. 0 \in stop /\ \A k \in N : k \notin stop => next[k] < k
    BY <1>1, <1>2, <1>3 DEF Bottom
  <2>3. turn \in [N -> [S -> S]]
    <3>1. \A r \in S : [r EXCEPT !.hops = @ + 1] \in S
      OBVIOUS
    <3> HIDE DEF S, N
    <3> QED
      BY <3>1
  <2> HIDE DEF out, turn, next, stop, S
  <2> QED
    BY <1>1, <2>1, <2>2, <2>3, Recursion
<1>5. Sol(g)
  <2>1. /\ g \in [N -> S]
        /\ \A k \in N : g[k] = IF k \in stop THEN out[k] ELSE turn[k][g[next[k]]]
    <3> HIDE DEF out, turn, next, stop, S
    <3> QED
      BY <1>4 DEF Solves
  <2>2. ASSUME NEW k \in N
        PROVE  g[k] = IF Depth(A, k) <= d THEN [node |-> k, hops |-> 0] ELSE [g[hop(k)] EXCEPT !.hops = @ + 1]
    <3>1. out[k] = [node |-> k, hops |-> 0] /\ next[k] = hop(k) /\ g[hop(k)] \in S
      <4> HIDE DEF S
      <4> QED
        BY <1>2, <2>1
    <3>2. turn[k][g[hop(k)]] = [g[hop(k)] EXCEPT !.hops = @ + 1]
      <4> HIDE DEF S
      <4> QED
        BY <3>1
    <3>3. k \in stop <=> Depth(A, k) <= d
      OBVIOUS
    <3> HIDE DEF out, turn, next, stop, N, S
    <3> QED
      BY <2>1, <3>1, <3>2, <3>3
  <2> HIDE DEF N, S
  <2> QED
    BY <2>1, <2>2
<1> DEFINE f == CHOOSE w : Sol(w)
<1>6. Sol(f)
  <2> HIDE DEF Sol
  <2> QED
    BY <1>5
<1>7. \A k \in N : AncestorAtDepth(A, k, d) = f[k]
  BY <1>1 DEF AncestorAtDepth, hop
<1> HIDE DEF f
<1>8. \A k \in N : f[k] = IF Depth(A, k) <= d THEN [node |-> k, hops |-> 0] ELSE [f[hop(k)] EXCEPT !.hops = @ + 1]
  <2> HIDE DEF N
  <2> QED
    BY <1>6
<1> DEFINE further(r) == [r EXCEPT !.hops = @ + 1]
<1>9. ASSUME NEW k \in N
       PROVE  /\ Depth(A, k) <= d => f[k] = [node |-> k, hops |-> 0]
              /\ ~(Depth(A, k) <= d) => f[k] = further(f[hop(k)])
  <2> HIDE DEF N
  <2> QED
    BY <1>8
<1>10. \A r \in S : further(r) \in S
  OBVIOUS
<1> HIDE DEF further
<1> DEFINE T == {j \in Nat : \A k \in N : k <= j => f[k] \in S}
<1>11. Nat \subseteq T
  <2>1. 0 \in T
    <3>1. 0 \in N /\ Depth(A, 0) <= d
      BY <1>1, <1>3 DEF Bottom
    <3>2. f[0] = [node |-> 0, hops |-> 0]
      BY <1>9, <3>1
    <3> QED
      BY <3>1, <3>2
  <2>2. ASSUME NEW j \in Nat, j \in T PROVE j + 1 \in T
    <3>1. ASSUME NEW k \in N, k <= j + 1 PROVE f[k] \in S
      <4>1. CASE Depth(A, k) <= d
        <5>1. f[k] = [node |-> k, hops |-> 0]
          BY <1>9, <4>1
        <5> QED
          BY <5>1
      <4>2. CASE ~(Depth(A, k) <= d)
        <5>1. hop(k) \in N /\ hop(k) <= j
          <6>1. k # Bottom
            BY <1>3, <4>2
          <6>2. hop(k) \in N /\ hop(k) < k
            BY <1>2, <6>1
          <6> QED
            BY <1>1, <3>1, <6>2
        <5>2. f[hop(k)] \in S
          BY <2>2, <5>1
        <5>3. f[k] = further(f[hop(k)])
          BY <1>9, <4>2
        <5> QED
          BY <1>10, <5>2, <5>3
      <4> QED
        BY <4>1, <4>2
    <3> QED
      BY <3>1
  <2> HIDE DEF T
  <2> QED
    BY <2>1, <2>2, AllNumbers
<1>12. \A k \in N : f[k] \in S
  <2> HIDE DEF S
  <2> QED
    BY <1>1, <1>11
<1> QED
  <2>1. n \in N /\ hop(n) \in N
    BY <1>1, <1>2
  <2>2. /\ AncestorAtDepth(A, n, d) = f[n] /\ f[n] \in S
        /\ AncestorAtDepth(A, hop(n), d) = f[hop(n)]
        /\ Depth(A, n) <= d => f[n] = [node |-> n, hops |-> 0]
        /\ ~(Depth(A, n) <= d) => f[n] = further(f[hop(n)])
    <3> HIDE DEF N, S
    <3> QED
      BY <1>7, <1>12, <1>9, <2>1
  <2> HIDE DEF N
  <2>3. AncestorAtDepth(A, n, d) =
           IF Depth(A, n) <= d THEN [node |-> n, hops |-> 0] ELSE further(AncestorAtDepth(A, hop(n), d))
    BY <2>2
  <2> QED
    BY <1>1, <2>1, <2>2, <2>3 DEF hop, further

\* A jump lands on an ancestor, as far up as it says.
JumpSound(A, n) ==
    LET s == Slot(A, n) IN
    /\ Depth(A, s.skip) = Depth(A, n) - s.distance
    /\ \A d \in -1..Depth(A, s.skip) : ByParents(A, n, d) = ByParents(A, s.skip, d)

LEMMA JumpsSound ==
    ASSUME NEW A, Made(A), A.count \in Nat \ {0}, NEW n \in Nodes(A), n # Bottom PROVE JumpSound(A, n)
<1> DEFINE T == {j \in Nat : \A k \in Nodes(A) : k <= j /\ k # Bottom => JumpSound(A, k)}
<1>1. 0 \in T
  BY DEF Nodes, Bottom
<1>2. ASSUME NEW j \in Nat, j \in T PROVE j + 1 \in T
  <2>1. ASSUME NEW k \in Nodes(A), k <= j + 1, k # Bottom PROVE JumpSound(A, k)
    <3> DEFINE p == Parent(A, k)
               s == Slot(A, p).skip
               q == Slot(A, s).skip
               to == Slot(A, k).skip
    <3>1. /\ k \in Nat /\ NodeMade(A, k) /\ p \in 0..(k - 1) /\ Depth(A, k) = Depth(A, p) + 1
          /\ to = Jump(A, p).to /\ Slot(A, k).distance = Jump(A, p).distance
      <4>1. k \in Nat /\ NodeMade(A, k)
        BY <2>1, NodeRanges
      <4> QED
        BY <4>1 DEF NodeMade, LeafNode, Depth
    <3>2. p \in Nodes(A) /\ s \in Nodes(A) /\ q \in Nodes(A) /\ p <= j /\ s <= j /\ Depth(A, p) \in Int
          /\ Depth(A, p) >= -1
      <4>1. p \in Nodes(A) /\ p \in Nat
        BY <3>1 DEF Nodes
      <4>2. s \in 0..p /\ s \in Nodes(A)
        <5>1. s \in 0..p
          BY <4>1, NodeRanges
        <5> QED
          BY <4>1, <5>1 DEF Nodes
      <4>3. q \in 0..s
        BY <4>2, NodeRanges
      <4> HIDE DEF p, s, q
      <4> QED
        BY <2>1, <3>1, <4>1, <4>2, <4>3, NodeRanges DEF Nodes
    <3>3. ASSUME NEW d \in -1..Depth(A, p) PROVE ByParents(A, k, d) = ByParents(A, p, d)
      <4>1. d \in Int /\ Depth(A, k) # d
        BY <3>1, <3>2
      <4> QED
        BY <4>1, ByParentsUnfolds
    <3>4. CASE p = Bottom \/ s = Bottom \/ Slot(A, s).distance > Slot(A, p).distance
      <4>1. to = p /\ Slot(A, k).distance = 1
        BY <3>1, <3>4 DEF Jump, JumpOver
      <4> HIDE DEF p, to
      <4>2. Depth(A, to) = Depth(A, k) - 1
        BY <3>1, <3>2, <4>1
      <4> QED
        BY <3>3, <4>1, <4>2 DEF JumpSound, to
    <3>5. CASE ~(p = Bottom \/ s = Bottom \/ Slot(A, s).distance > Slot(A, p).distance)
      <4>1. to = q /\ Slot(A, k).distance = 1 + Slot(A, p).distance + Slot(A, s).distance
        BY <3>1, <3>5 DEF Jump, JumpOver
      <4>2. JumpSound(A, p) /\ JumpSound(A, s)
        BY <2>1, <3>2, <3>5, <1>2
      <4>3. /\ Depth(A, s) = Depth(A, p) - Slot(A, p).distance
            /\ Depth(A, q) = Depth(A, s) - Slot(A, s).distance
            /\ \A d \in -1..Depth(A, s) : ByParents(A, p, d) = ByParents(A, s, d)
            /\ \A d \in -1..Depth(A, q) : ByParents(A, s, d) = ByParents(A, q, d)
        BY <4>2 DEF JumpSound
      <4>4. /\ Slot(A, p).distance \in Nat /\ Slot(A, s).distance \in Nat
            /\ Depth(A, s) \in Int /\ Depth(A, q) \in Int
        BY <3>2, NodeRanges
      <4> HIDE DEF p, s, q, to
      <4>5. Depth(A, q) = Depth(A, k) - Slot(A, k).distance
        BY <3>1, <3>2, <4>1, <4>3, <4>4
      <4>6. ASSUME NEW d \in -1..Depth(A, q) PROVE ByParents(A, k, d) = ByParents(A, q, d)
        <5>1. d \in -1..Depth(A, s) /\ d \in -1..Depth(A, p)
          BY <3>2, <4>3, <4>4
        <5> QED
          BY <3>3, <4>3, <5>1
      <4> QED
        BY <4>1, <4>5, <4>6 DEF JumpSound, to
    <3> QED
      BY <3>4, <3>5
  <2> QED
    BY <2>1
<1>3. Nat \subseteq T
  <2> HIDE DEF T
  <2> QED
    BY <1>1, <1>2, AllNumbers
<1>4. n \in Nat
  BY DEF Nodes
<1> QED
  BY <1>3, <1>4

\* The hops find the ancestor that the parents lead to.
LEMMA HopsFind ==
    ASSUME NEW A, Made(A), A.count \in Nat \ {0}, NEW n \in Nodes(A), NEW d \in -1..Depth(A, n)
    PROVE  AncestorAtDepth(A, n, d).node = ByParents(A, n, d)
<1> DEFINE Found(k) == d <= Depth(A, k) => AncestorAtDepth(A, k, d).node = ByParents(A, k, d)
           T == {j \in Nat : \A k \in Nodes(A) : k <= j => Found(k)}
<1>0. d \in Int /\ d >= -1
  OBVIOUS
<1>1. ASSUME NEW k \in Nodes(A), d = Depth(A, k) PROVE Found(k)
  <2>1. AncestorAtDepth(A, k, d) = [node |-> k, hops |-> 0]
    <3>1. Depth(A, k) <= d
      BY <1>0, <1>1
    <3> QED
      BY <1>0, <3>1, WalkUnfolds
  <2>2. ByParents(A, k, d) = k
    BY <1>0, <1>1, ByParentsUnfolds
  <2> QED
    BY <2>1, <2>2
<1>2. 0 \in T
  <2>1. ASSUME NEW k \in Nodes(A), k <= 0 PROVE Found(k)
    <3>1. k = Bottom /\ Depth(A, k) = -1
      BY <2>1, NodeRanges DEF Nodes, Bottom
    <3>2. CASE d = -1
      <4>1. d = Depth(A, k)
        BY <3>1, <3>2
      <4> QED
        BY <1>1, <4>1
    <3>3. CASE d # -1
      BY <1>0, <3>1, <3>3
    <3> QED
      BY <3>2, <3>3
  <2> QED
    BY <2>1
<1>3. ASSUME NEW j \in Nat, j \in T PROVE j + 1 \in T
  <2>1. ASSUME NEW k \in Nodes(A), k <= j + 1 PROVE Found(k)
    <3>1. Depth(A, k) \in Int /\ Depth(A, k) >= -1 /\ k \in Nat
      BY NodeRanges
    <3>2. CASE d >= Depth(A, k)
      <4>1. CASE d = Depth(A, k)
        BY <1>1, <4>1
      <4>2. CASE d # Depth(A, k)
        BY <1>0, <3>1, <3>2, <4>2
      <4> QED
        BY <4>1, <4>2
    <3>3. CASE d < Depth(A, k)
      <4> DEFINE hop == Hop(Slot(A, k), d)
      <4>1. k # Bottom /\ NodeMade(A, k)
        BY <1>0, <3>1, <3>3, NodeRanges
      <4>2. hop \in Nodes(A) /\ AncestorAtDepth(A, k, d).node = AncestorAtDepth(A, hop, d).node
        <5>1. /\ hop \in Nodes(A) /\ AncestorAtDepth(A, k, d) = [AncestorAtDepth(A, hop, d) EXCEPT !.hops = @ + 1]
          BY <1>0, <3>1, <3>3, WalkUnfolds
        <5>2. AncestorAtDepth(A, hop, d) \in [node : Nodes(A), hops : Nat]
          <6> HIDE DEF hop
          <6> QED
            BY <1>0, <5>1, WalkUnfolds
        <5> HIDE DEF hop
        <5> QED
          BY <5>1, <5>2
      <4>3. hop <= j /\ d <= Depth(A, hop) /\ ByParents(A, k, d) = ByParents(A, hop, d)
        <5>1. CASE Slot(A, k).distance <= Depth(A, k) - d
          <6>1. hop = Slot(A, k).skip
            BY <4>1, <5>1 DEF Hop, NodeMade, Depth
          <6>2. /\ Depth(A, hop) = Depth(A, k) - Slot(A, k).distance
                /\ \A e \in -1..Depth(A, hop) : ByParents(A, k, e) = ByParents(A, hop, e)
            BY <4>1, <6>1, JumpsSound DEF JumpSound
          <6>3. hop \in 0..(k - 1) /\ Slot(A, k).distance \in Nat
            BY <4>1, <6>1 DEF NodeMade
          <6> HIDE DEF hop
          <6>4. d \in -1..Depth(A, hop)
            BY <1>0, <3>1, <5>1, <6>2, <6>3
          <6> QED
            BY <2>1, <3>1, <6>2, <6>3, <6>4
        <5>2. CASE ~(Slot(A, k).distance <= Depth(A, k) - d)
          <6>1. hop = Parent(A, k)
            BY <5>2 DEF Hop, Parent, Depth
          <6>2. hop \in 0..(k - 1) /\ Depth(A, k) = Depth(A, hop) + 1
            BY <4>1, <6>1 DEF NodeMade, LeafNode, Depth
          <6> HIDE DEF hop
          <6>3. ByParents(A, k, d) = ByParents(A, hop, d)
            BY <1>0, <3>1, <3>3, <6>1, ByParentsUnfolds
          <6>4. Depth(A, hop) \in Int
            BY <4>2, NodeRanges
          <6> QED
            BY <1>0, <2>1, <3>1, <3>3, <6>2, <6>3, <6>4
        <5> QED
          BY <5>1, <5>2
      <4> HIDE DEF hop
      <4>4. Found(hop)
        BY <1>3, <4>2, <4>3
      <4> QED
        BY <4>2, <4>3, <4>4
    <3> QED
      BY <1>0, <3>1, <3>2, <3>3
  <2> QED
    BY <2>1
<1>4. Nat \subseteq T
  <2> HIDE DEF T
  <2> QED
    BY <1>2, <1>3, AllNumbers
<1>5. n \in Nat /\ Depth(A, n) \in Int
  BY NodeRanges
<1>6. Found(n)
  BY <1>4, <1>5
<1> QED
  BY <1>0, <1>5, <1>6

\* AncestorsExact for trees of any size and shape: however jumps were
\* coalesced on the branches of an arena, the query that takes them ends where
\* the parents lead.
THEOREM AncestorsFound == ASSUME ArenaAssumption PROVE ArenaSpec => []AncestorsExact
<1>1. ArenaInv /\ NodesInv => AncestorsExact
  <2> SUFFICES ASSUME NodesInv, NEW a \in Existing, NEW n \in Nodes(arena[a]), NEW d \in -1..Depth(arena[a], n)
               PROVE  AncestorAtDepth(arena[a], n, d).node = ByParents(arena[a], n, d)
    BY DEF AncestorsExact
  <2>1. Made(arena[a]) /\ arena[a].count \in Nat \ {0}
    BY DEF NodesInv, Existing, Stored
  <2> QED
    BY <2>1, HopsFind
<1> QED
  BY <1>1, ArenaStays, PTL

-----------------------------------------------------------------------------
(* Paths, for what is built on the arena.                                  *)

LEMMA AlongParents ==
    ASSUME NEW A, Made(A), A.count \in Nat \ {0}, NEW T, Bottom \in T,
           \A n \in Nodes(A) \ {Bottom} : Parent(A, n) \in T => n \in T
    PROVE  Nodes(A) \subseteq T
<1> DEFINE U == {j \in Nat : \A n \in Nodes(A) : n <= j => n \in T}
<1>1. 0 \in U
  BY DEF Nodes, Bottom
<1>2. ASSUME NEW j \in Nat, j \in U PROVE j + 1 \in U
  <2>1. ASSUME NEW n \in Nodes(A), n <= j + 1 PROVE n \in T
    <3>1. CASE n = Bottom
      BY <3>1
    <3>2. CASE n # Bottom
      <4>1. Parent(A, n) \in 0..(n - 1) /\ n \in Nat
        BY <3>2, NodeRanges DEF NodeMade
      <4>2. Parent(A, n) \in Nodes(A) /\ Parent(A, n) <= j
        BY <2>1, <4>1 DEF Nodes
      <4> QED
        BY <1>2, <3>2, <4>2
    <3> QED
      BY <3>1, <3>2
  <2> QED
    BY <2>1
<1>3. Nat \subseteq U
  <2> HIDE DEF U
  <2> QED
    BY <1>1, <1>2, AllNumbers
<1>4. \A n \in Nodes(A) : n \in Nat
  BY DEF Nodes
<1> QED
  BY <1>3, <1>4

\* A node and its parent, with their depths.
LEMMA ParentOf ==
    ASSUME NEW A, Made(A), A.count \in Nat \ {0}, NEW n \in Nodes(A), n # Bottom
    PROVE  /\ Parent(A, n) \in Nodes(A) /\ Depth(A, n) \in Nat
           /\ Depth(A, Parent(A, n)) \in Int /\ Depth(A, Parent(A, n)) = Depth(A, n) - 1
<1>1. NodeMade(A, n) /\ n \in Nat
  BY NodeRanges
<1>2. Depth(A, n) = Depth(A, Parent(A, n)) + 1 /\ Depth(A, n) \in Nat
  BY <1>1 DEF NodeMade, LeafNode, Depth
<1>3. Parent(A, n) \in Nodes(A)
  BY <1>1 DEF NodeMade, Nodes
<1>4. Depth(A, Parent(A, n)) \in Int
  BY <1>3, NodeRanges
<1> QED
  BY <1>2, <1>3, <1>4

LEMMA OnPath ==
    ASSUME NEW A, Made(A), A.count \in Nat \ {0}, NEW n \in Nodes(A)
    PROVE  /\ ByParents(A, n, Depth(A, n)) = n
           /\ \A d \in -1..(Depth(A, n) - 1) : n # Bottom /\ ByParents(A, n, d) = ByParents(A, Parent(A, n), d)
<1>1. Depth(A, n) \in Int /\ (n = Bottom => Depth(A, n) = -1)
  BY NodeRanges
<1>2. ByParents(A, n, Depth(A, n)) = n
  BY <1>1, ByParentsUnfolds
<1>3. ASSUME NEW d \in -1..(Depth(A, n) - 1)
      PROVE  n # Bottom /\ ByParents(A, n, d) = ByParents(A, Parent(A, n), d)
  <2>1. d \in Int /\ d # Depth(A, n) /\ Depth(A, n) # -1
    BY <1>1
  <2> QED
    BY <1>1, <2>1, ByParentsUnfolds
<1> QED
  BY <1>2, <1>3

\* The path from a node holds one node of each depth, each the parent of the next.
LEMMA PathsClimb ==
    ASSUME NEW A, Made(A), A.count \in Nat \ {0}, NEW n \in Nodes(A), NEW d \in -1..Depth(A, n)
    PROVE  /\ ByParents(A, n, d) \in Nodes(A) /\ Depth(A, ByParents(A, n, d)) = d
           /\ d >= 0 => Parent(A, ByParents(A, n, d)) = ByParents(A, n, d - 1)
<1> DEFINE Climbs(m, e) == /\ ByParents(A, m, e) \in Nodes(A) /\ Depth(A, ByParents(A, m, e)) = e
                           /\ e >= 0 => Parent(A, ByParents(A, m, e)) = ByParents(A, m, e - 1)
           T == {m \in Nodes(A) : \A e \in -1..Depth(A, m) : Climbs(m, e)}
<1>1. Bottom \in Nodes(A) /\ Depth(A, Bottom) = -1
  BY NodeRanges DEF Nodes, Bottom
<1>2. Bottom \in T
  BY <1>1, OnPath
<1>3. ASSUME NEW m \in Nodes(A) \ {Bottom}, Parent(A, m) \in T PROVE m \in T
  <2> DEFINE p == Parent(A, m)
  <2>1. p \in Nodes(A) /\ Depth(A, m) \in Nat /\ Depth(A, p) \in Int /\ Depth(A, p) = Depth(A, m) - 1
    BY ParentOf
  <2>2. \A e \in -1..Depth(A, p) : ByParents(A, m, e) = ByParents(A, p, e)
    BY <2>1, OnPath
  <2>3. ByParents(A, p, Depth(A, p)) = p /\ ByParents(A, m, Depth(A, m)) = m
    BY <2>1, OnPath
  <2>4. \A e \in -1..Depth(A, p) : Climbs(p, e)
    BY <1>3
  <2>5. ASSUME NEW e \in -1..Depth(A, m) PROVE Climbs(m, e)
    <3>1. CASE e = Depth(A, m)
      <4>1. e - 1 = Depth(A, p) /\ e - 1 \in -1..Depth(A, p)
        BY <2>1, <3>1
      <4>2. ByParents(A, m, e - 1) = p
        BY <2>2, <2>3, <4>1
      <4> QED
        BY <2>3, <3>1, <4>2
    <3>2. CASE e # Depth(A, m)
      <4>1. e \in -1..Depth(A, p) /\ (e >= 0 => e - 1 \in -1..Depth(A, p))
        BY <2>1, <3>2
      <4> HIDE DEF p
      <4> QED
        BY <2>2, <2>4, <4>1
    <3> QED
      BY <3>1, <3>2
  <2> QED
    BY <2>5
<1>4. Nodes(A) \subseteq T
  <2> HIDE DEF T
  <2> QED
    BY <1>2, <1>3, AlongParents
<1> QED
  BY <1>4

\* The path from a node on a path is the rest of that path.
LEMMA PathsCompose ==
    ASSUME NEW A, Made(A), A.count \in Nat \ {0}, NEW n \in Nodes(A), NEW e \in -1..Depth(A, n), NEW d \in -1..e
    PROVE  ByParents(A, ByParents(A, n, e), d) = ByParents(A, n, d)
<1> DEFINE Composed(m) == e <= Depth(A, m) => ByParents(A, ByParents(A, m, e), d) = ByParents(A, m, d)
           T == {m \in Nodes(A) : Composed(m)}
<1>1. Bottom \in T
  <2>1. Bottom \in Nodes(A) /\ Depth(A, Bottom) = -1
    BY NodeRanges DEF Nodes, Bottom
  <2>2. e <= Depth(A, Bottom) => e = -1 /\ d = -1
    BY <2>1
  <2>3. ByParents(A, Bottom, -1) = Bottom
    BY <2>1, OnPath
  <2> QED
    BY <2>1, <2>2, <2>3
<1>2. ASSUME NEW m \in Nodes(A) \ {Bottom}, Parent(A, m) \in T PROVE m \in T
  <2> DEFINE p == Parent(A, m)
  <2>1. p \in Nodes(A) /\ Depth(A, m) \in Nat /\ Depth(A, p) \in Int /\ Depth(A, p) = Depth(A, m) - 1
    BY ParentOf
  <2>2. \A c \in -1..Depth(A, p) : ByParents(A, m, c) = ByParents(A, p, c)
    BY <2>1, OnPath
  <2>3. CASE e = Depth(A, m)
    BY <2>3, OnPath
  <2>4. CASE e < Depth(A, m)
    <3>1. e \in -1..Depth(A, p) /\ d \in -1..Depth(A, p) /\ Composed(p)
      BY <1>2, <2>1, <2>4
    <3> HIDE DEF p
    <3> QED
      BY <2>1, <2>2, <3>1
  <2>5. CASE e > Depth(A, m)
    BY <2>1, <2>5
  <2> QED
    BY <2>1, <2>3, <2>4, <2>5
<1>3. Nodes(A) \subseteq T
  <2> HIDE DEF T
  <2> QED
    BY <1>1, <1>2, AlongParents
<1>4. Composed(n) /\ Depth(A, n) \in Int
  BY <1>3, NodeRanges
<1> QED
  BY <1>4

\* Paths stay when the arena grows.
LEMMA PathsKept ==
    ASSUME NEW A, Made(A), A.count \in Nat \ {0}, NEW B, Made(B), B.count \in Nat, B.count >= A.count,
           SameSlots(A, B), NEW n \in Nodes(A)
    PROVE  /\ n \in Nodes(B) /\ Depth(B, n) = Depth(A, n) /\ Parent(B, n) = Parent(A, n)
           /\ ValueOf(B, n) = ValueOf(A, n)
           /\ \A d \in -1..Depth(A, n) : ByParents(B, n, d) = ByParents(A, n, d)
<1>1. ASSUME NEW m \in Nodes(A)
      PROVE  /\ m \in Nodes(B) /\ Depth(B, m) = Depth(A, m) /\ Parent(B, m) = Parent(A, m)
             /\ ValueOf(B, m) = ValueOf(A, m)
  BY DEF Nodes, SameSlots, Depth, Parent, ValueOf
<1> DEFINE Same(m) == \A d \in -1..Depth(A, m) : ByParents(B, m, d) = ByParents(A, m, d)
           T == {m \in Nodes(A) : Same(m)}
<1>2. B.count \in Nat \ {0}
  OBVIOUS
<1>3. Bottom \in T
  <2>1. Bottom \in Nodes(A) /\ Depth(A, Bottom) = -1
    BY NodeRanges DEF Nodes, Bottom
  <2>2. ByParents(A, Bottom, -1) = Bottom /\ ByParents(B, Bottom, -1) = Bottom
    BY <1>1, <1>2, <2>1, OnPath
  <2>3. Same(Bottom)
    BY <2>1, <2>2
  <2> QED
    BY <2>1, <2>3
<1>4. ASSUME NEW m \in Nodes(A) \ {Bottom}, Parent(A, m) \in T PROVE m \in T
  <2> DEFINE p == Parent(A, m)
  <2>1. p \in Nodes(A) /\ Depth(A, m) \in Nat /\ Depth(A, p) \in Int /\ Depth(A, p) = Depth(A, m) - 1
    BY ParentOf
  <2>2. ASSUME NEW d \in -1..Depth(A, m) PROVE ByParents(B, m, d) = ByParents(A, m, d)
    <3>1. CASE d = Depth(A, m)
      BY <1>1, <1>2, <3>1, OnPath
    <3>2. CASE d # Depth(A, m)
      <4>1. d \in -1..(Depth(A, m) - 1) /\ d \in -1..(Depth(B, m) - 1) /\ d \in -1..Depth(A, p)
        BY <1>1, <2>1, <3>2
      <4>2. ByParents(A, m, d) = ByParents(A, p, d)
        BY <4>1, OnPath
      <4>3. ByParents(B, m, d) = ByParents(B, p, d)
        BY <1>1, <1>2, <4>1, OnPath
      <4> QED
        BY <1>4, <4>1, <4>2, <4>3
    <3> QED
      BY <3>1, <3>2
  <2> QED
    BY <2>2
<1>5. Nodes(A) \subseteq T
  <2> HIDE DEF T
  <2> QED
    BY <1>3, <1>4, AlongParents
<1> QED
  BY <1>1, <1>5

\* The nodes of an array: one path, in the order of the values.
Line(A, k) ==
    /\ A.count = k + 1
    /\ \A j \in 1..k : Parent(A, j) = j - 1 /\ Depth(A, j) = j - 1

LEMMA ChainMade ==
    ASSUME ArenaAssumption, NEW values, Len(values) \in Nat, Len(values) < MaxNodes,
           NEW k \in 0..Len(values)
    PROVE  /\ Stored(Chain(values)[k].arena) /\ Made(Chain(values)[k].arena)
           /\ Line(Chain(values)[k].arena, k) /\ Chain(values)[k].leaf = k
           /\ \A j \in 1..k : ValueOf(Chain(values)[k].arena, j) = values[j]
<1> DEFINE n == Len(values)
           grown == Chain(values)
           Good(i) == i <= n => /\ Stored(grown[i].arena) /\ Made(grown[i].arena)
                                /\ Line(grown[i].arena, i) /\ grown[i].leaf = i
                                /\ \A j \in 1..i : ValueOf(grown[i].arena, j) = values[j]
           S == {i \in Nat : Good(i)}
<1>1. \A i \in 0..n : grown[i] = IF i = 0 THEN [arena |-> NewArena, leaf |-> Bottom]
                                  ELSE Grow(grown[i - 1], values[i])
  BY ChainUnfolds DEF Links
<1> HIDE DEF grown
<1>2. Good(0)
  <2>1. grown[0] = [arena |-> NewArena, leaf |-> 0]
    BY <1>1 DEF Bottom
  <2>2. Stored(NewArena) /\ Made(NewArena) /\ NewArena.count = 1
    BY NewArenaMade, NewArenaSized
  <2> QED
    BY <2>1, <2>2 DEF Line
<1>3. ASSUME NEW i \in Nat, Good(i), i + 1 <= n PROVE Good(i + 1)
  <2> DEFINE A == grown[i].arena
             out == grown[i + 1]
             B == out.arena
  <2>1. i <= n /\ i + 1 \in 0..n /\ (i + 1) - 1 = i /\ i + 1 # 0 /\ i + 1 # MaxNodes
    BY <1>3 DEF ArenaAssumption
  <2>2. /\ Stored(A) /\ Made(A) /\ Line(A, i) /\ grown[i].leaf = i
        /\ \A j \in 1..i : ValueOf(A, j) = values[j]
    BY <1>3, <2>1
  <2>3. A.count = i + 1 /\ A.count \in Nat \ {0} /\ Sized(A) /\ i \in Nodes(A)
    BY <2>2 DEF Line, Sized, Stored, Blocked, Nodes
  <2>4. out = Grow(grown[i], values[i + 1])
    BY <1>1, <2>1
  <2>5. out \in AddLeaf(A, i, values[i + 1]) /\ out.leaf # Unset
    BY <2>1, <2>2, <2>3, <2>4, GrowAdds
  <2> HIDE DEF A, out
  <2>6. /\ Stored(B) /\ Made(B) /\ SameSlots(A, B) /\ out.leaf = i + 1 /\ B.count = i + 2
        /\ Parent(B, i + 1) = i /\ ValueOf(B, i + 1) = values[i + 1]
    BY <2>2, <2>3, <2>5, AddLeafMakes
  <2> HIDE DEF B
  <2>7. i + 1 \in Nodes(B) /\ B.count \in Nat \ {0} /\ i + 1 # Bottom
    BY <2>6 DEF Nodes, Bottom
  <2>8. Depth(B, i) = Depth(B, i + 1) - 1 /\ Depth(B, i + 1) \in Nat
    BY <2>6, <2>7, ParentOf
  <2>9. Depth(A, i) = i - 1 /\ Depth(B, i) = Depth(A, i)
    <3>1. ASSUME i = 0 PROVE Depth(A, i) = i - 1
      BY <2>2, <3>1 DEF Made, BottomRecord, Depth, Bottom
    <3>2. ASSUME i # 0 PROVE Depth(A, i) = i - 1
      <4>1. i \in 1..i
        BY <3>2
      <4> QED
        BY <2>2, <4>1 DEF Line
    <3>3. Slot(B, i) = Slot(A, i)
      BY <2>3, <2>6 DEF SameSlots
    <3> QED
      BY <3>1, <3>2, <3>3 DEF Depth
  <2>10. ASSUME NEW j \in 1..(i + 1)
         PROVE  Parent(B, j) = j - 1 /\ Depth(B, j) = j - 1 /\ ValueOf(B, j) = values[j]
    <3>1. CASE j = i + 1
      BY <2>6, <2>8, <2>9, <3>1
    <3>2. CASE j # i + 1
      <4>1. j \in 1..i /\ j \in Nodes(A)
        BY <2>3, <3>2 DEF Nodes
      <4>2. Slot(B, j) = Slot(A, j)
        BY <2>6, <4>1 DEF SameSlots
      <4>3. Parent(A, j) = j - 1 /\ Depth(A, j) = j - 1 /\ ValueOf(A, j) = values[j]
        BY <2>2, <4>1 DEF Line
      <4> QED
        BY <4>2, <4>3 DEF Parent, Depth, ValueOf
    <3> QED
      BY <3>1, <3>2
  <2>11. Line(B, i + 1)
    BY <2>6, <2>10 DEF Line
  <2> QED
    BY <2>6, <2>10, <2>11 DEF B, out
<1>4. ASSUME NEW i \in Nat, Good(i) PROVE Good(i + 1)
  <2>1. CASE i + 1 <= n
    BY <1>3, <1>4, <2>1
  <2>2. CASE ~(i + 1 <= n)
    BY <2>2
  <2> QED
    BY <2>1, <2>2
<1>5. Nat \subseteq S
  <2>1. 0 \in S /\ \A i \in Nat : i \in S => i + 1 \in S
    <3> HIDE DEF Good
    <3> QED
      BY <1>2, <1>4
  <2> HIDE DEF S
  <2> QED
    BY <2>1, AllNumbers
<1>6. Good(k)
  <2> HIDE DEF Good
  <2> QED
    BY <1>5
<1> QED
  BY <1>6 DEF grown

LEMMA LinePath ==
    ASSUME NEW A, Made(A), NEW k \in Nat, Line(A, k), NEW d \in -1..(k - 1)
    PROVE  k \in Nodes(A) /\ Depth(A, k) = k - 1 /\ ByParents(A, k, d) = d + 1
<1> DEFINE T == {j \in Nodes(A) : \A e \in -1..(j - 1) : ByParents(A, j, e) = e + 1}
<1>1. /\ A.count \in Nat \ {0} /\ Nodes(A) = 0..k
      /\ \A j \in 0..k : Depth(A, j) = j - 1 /\ (j # 0 => Parent(A, j) = j - 1)
  <2>1. Depth(A, 0) = -1
    BY DEF Made, BottomRecord, Depth, Bottom
  <2> QED
    BY <2>1 DEF Line, Nodes
<1>2. Bottom \in T
  <2>1. Bottom \in Nodes(A) /\ Depth(A, Bottom) = -1
    BY <1>1 DEF Bottom
  <2>2. ByParents(A, Bottom, -1) = 0
    BY <1>1, <2>1, OnPath DEF Bottom
  <2>3. \A e \in -1..(Bottom - 1) : e = -1
    BY DEF Bottom
  <2> QED
    BY <2>1, <2>2, <2>3
<1>3. ASSUME NEW j \in Nodes(A) \ {Bottom}, Parent(A, j) \in T PROVE j \in T
  <2>1. j \in 1..k /\ Parent(A, j) = j - 1 /\ Depth(A, j) = j - 1
    BY <1>1 DEF Bottom
  <2>2. ASSUME NEW e \in -1..(j - 1) PROVE ByParents(A, j, e) = e + 1
    <3>1. CASE e = j - 1
      BY <1>1, <2>1, <3>1, OnPath
    <3>2. CASE e # j - 1
      <4>1. e \in -1..(Depth(A, j) - 1) /\ e \in -1..((j - 1) - 1)
        BY <2>1, <3>2
      <4>2. ByParents(A, j, e) = ByParents(A, j - 1, e)
        <5>1. ByParents(A, j, e) = ByParents(A, Parent(A, j), e)
          <6>1. A.count \in Nat \ {0} /\ j \in Nodes(A)
            BY <1>1
          <6>2. \A c \in -1..(Depth(A, j) - 1) : ByParents(A, j, c) = ByParents(A, Parent(A, j), c)
            BY <6>1, OnPath
          <6> QED
            BY <4>1, <6>2
        <5> QED
          BY <2>1, <5>1
      <4> QED
        BY <1>3, <2>1, <4>1, <4>2
    <3> QED
      BY <3>1, <3>2
  <2> QED
    BY <2>2
<1>4. Nodes(A) \subseteq T
  <2> HIDE DEF T
  <2> QED
    BY <1>1, <1>2, <1>3, AlongParents
<1>5. k \in T
  <2> HIDE DEF T
  <2> QED
    BY <1>1, <1>4
<1> QED
  BY <1>1, <1>5
=============================================================================
