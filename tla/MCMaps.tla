------------------------------- MODULE MCMaps -------------------------------
(***************************************************************************)
(* The hash maps and what is built on them, the ordered collections and    *)
(* the Merkle search tree on small instances.  A behaviour is a history of *)
(* one subject, chosen at the start among those the run asks for.  The     *)
(* edit sessions of the hash map have variables of their own; the other    *)
(* subjects share first to fifth.                                          *)
(***************************************************************************)
EXTENDS HamtTransient, Integers, SequencesExt, FiniteSetsExt

CONSTANTS Subjects,                        \* the subjects of a run
          k1, k2, m1, m2, r1, r2, r3, s1, s2, t1, t2, i1, p1

VARIABLES subject, first, second, third, fourth, fifth
others == <<first, second, third, fourth, fifth>>
vars == <<subject, first, second, third, fourth, fifth, heap, maps, sess, hnd, iter>>

Rest == second = Unset /\ third = Unset /\ fourth = Unset /\ fifth = Unset

-----------------------------------------------------------------------------
\* Hash tries: a and a2 are equal keys, a and b collide, c leaves their path at
\* the last bit and d at the second.
TrieClass == [a |-> "a", a2 |-> "a", b |-> "b", c |-> "c", d |-> "d"]
TrieHash == [a |-> 0, a2 |-> 0, b |-> 0, c |-> 4, d |-> 2]
\* Maps under a policy that tells a and a2 apart.
Item(k, v) == [key |-> k, value |-> v]
ForeignMaps == {<<Item("a", "x"), Item("a2", "y")>>, <<Item("c", "x"), Item("a2", "x"), Item("b", "y"), Item("a", "y")>>}

Tries == INSTANCE Hamt
         WITH Keys <- {"a", "b", "c", "d"}, Class <- TrieClass, Hash <- TrieHash, Values <- {"x"}, Bits <- 1, Width <- 3,
              Handles <- {t1, t2}, Foreign <- {}, map <- first
TrieMap == INSTANCE Hamt
         WITH Keys <- {"a", "b", "c"}, Class <- TrieClass, Hash <- TrieHash, Values <- {"x", "y"}, Bits <- 1, Width <- 3,
              Handles <- {t1, t2}, Foreign <- {}, map <- first
TrieBulk == INSTANCE Hamt
         WITH Keys <- {"a", "a2", "b", "c", "d"}, Class <- TrieClass, Hash <- TrieHash, Values <- {"x", "y"}, Bits <- 1,
              Width <- 3, Handles <- {t1}, Foreign <- ForeignMaps, map <- first

\* Structures on hash maps: b is a for one side of a relation and c for the other,
\* the values a and b are equal and yet their index keys differ, the index keys b
\* and c are equal, and one pair has no index key.
BLikeA == [a |-> "a", b |-> "a", c |-> "c"]
BLikeC == [a |-> "a", b |-> "c", c |-> "c"]
Apart == [a |-> "a", b |-> "b", c |-> "c"]
Classes == [left |-> BLikeA, right |-> BLikeC, vertex |-> BLikeA, key |-> BLikeA, value |-> BLikeA, index |-> BLikeC,
            fine |-> Apart, coarse |-> BLikeA, keys |-> BLikeA, values |-> BLikeC]
IndexKeys == [a |-> [a |-> "a", b |-> "b", c |-> "c"],
              b |-> [a |-> "a", b |-> "b", c |-> "a"],
              c |-> [a |-> "a", b |-> "none", c |-> "c"]]

Collections == INSTANCE HashCollections
         WITH Handles <- {t1, t2}, Items <- {"a", "b", "c"}, Class <- Classes, MaxPairs <- 3, Selector <- IndexKeys,
              Failure <- "none", Policies <- {"fine", "coarse"}, MaxCount <- 2, MaxTotal <- 4, States <- {},
              hold <- first, live <- second, refs <- third
Indexed == INSTANCE HashCollections
         WITH Handles <- {t1, t2}, Items <- {"a", "b", "c"}, Class <- Classes, MaxPairs <- 9, Selector <- IndexKeys,
              Failure <- "none", Policies <- {}, MaxCount <- 2, MaxTotal <- 4, States <- {},
              hold <- first, live <- second, refs <- third
BiMaps == INSTANCE HashCollections
         WITH Handles <- {t1, t2}, Items <- {"a", "b", "c"}, Class <- Classes, MaxPairs <- 3, Selector <- IndexKeys,
              Failure <- "none", Policies <- {}, MaxCount <- 2, MaxTotal <- 4, States <- {s1, s2},
              hold <- first, live <- second, refs <- third

\* Patches of a map of two keys; the values x and x2 are equal.
PatchClass == [key |-> [a |-> "a", b |-> "b"], value |-> [x |-> "x", x2 |-> "x", y |-> "y"]]
Patches == INSTANCE MapPatch
         WITH Handles <- {t1, t2}, Items <- {}, Class <- PatchClass, Keys <- {"a", "b"}, Values <- {"x", "y"},
              Absent <- "absent", Maps <- {m1}, hold <- first, live <- second, maps <- third
PatchesBetween == INSTANCE MapPatch
         WITH Handles <- {t1}, Items <- {}, Class <- PatchClass, Keys <- {"a", "b"}, Values <- {"x", "x2", "y"},
              Absent <- "absent", Maps <- {m1, m2}, hold <- first, live <- second, maps <- third

ASSUME TrieWords == Tries!HamtAssumption /\ TrieMap!HamtAssumption /\ TrieBulk!HamtAssumption

CollectionNames == {"multimap", "relation", "graph", "bag"}
HashInit ==
    /\ SessionsInit
    /\ \/ subject = "tries" /\ Tries!Init /\ Rest
       \/ subject = "trie map" /\ TrieMap!Init /\ Rest
       \/ subject = "bulk trie" /\ TrieBulk!Init /\ Rest
       \/ subject = "sessions" /\ first = Unset /\ Rest
       \/ subject \in CollectionNames /\ Collections!HandlesInit /\ third = Unset /\ fourth = Unset /\ fifth = Unset
       \/ subject = "indexed map" /\ Indexed!HandlesInit /\ third = Unset /\ fourth = Unset /\ fifth = Unset
       \/ subject = "bimap" /\ BiMaps!BiMapInit /\ fourth = Unset /\ fifth = Unset
       \/ subject \in {"patches", "patch outputs"} /\ Patches!Init /\ fourth = Unset /\ fifth = Unset
       \/ subject = "patches between" /\ PatchesBetween!Init /\ fourth = Unset /\ fifth = Unset
HashNext ==
    \/ subject = "tries" /\ Tries!Next /\ UNCHANGED <<second, third, fourth, fifth>>
    \/ subject = "trie map" /\ TrieMap!Next /\ UNCHANGED <<second, third, fourth, fifth>>
    \/ subject = "bulk trie" /\ TrieBulk!Next /\ UNCHANGED <<second, third, fourth, fifth>>
    \/ subject = "multimap" /\ Collections!MultimapNext /\ UNCHANGED <<third, fourth, fifth>>
    \/ subject = "relation" /\ Collections!RelationNext /\ UNCHANGED <<third, fourth, fifth>>
    \/ subject = "graph" /\ Collections!GraphNext /\ UNCHANGED <<third, fourth, fifth>>
    \/ subject = "bag" /\ Collections!BagNext /\ UNCHANGED <<third, fourth, fifth>>
    \/ subject = "indexed map" /\ Indexed!IndexedNext /\ UNCHANGED <<third, fourth, fifth>>
    \/ subject = "bimap" /\ BiMaps!BiMapNext /\ UNCHANGED <<fourth, fifth>>
    \/ subject \in {"patches", "patch outputs"} /\ Patches!Next /\ UNCHANGED <<fourth, fifth>>
    \/ subject = "patches between" /\ PatchesBetween!Next /\ UNCHANGED <<fourth, fifth>>
HashSymmetry == Permutations({t1, t2}) \cup Permutations({m1, m2}) \cup Permutations({r1, r2, r3})

\* A trie has the one shape its contents have, though keys collide or share all
\* bits but the last, so that equality, relations and differences can go by shape;
\* a lookup, also after a bulk load, finds what was stored last.
TriesExact ==
    /\ subject = "tries" =>
          Tries!Canonical /\ Tries!ShapeDecidesEquality /\ Tries!DiffExact /\ Tries!RelationsExact
    /\ subject = "trie map" =>
          TrieMap!Canonical /\ TrieMap!ShapeDecidesEquality /\ TrieMap!DiffExact /\ TrieMap!RelationsExact
    /\ subject = "bulk trie" => TrieBulk!BulkExact /\ TrieBulk!LookupFinds

\* The two maps a structure keeps agree after every call, and after one that is
\* refused or fails, which leaves what was there.  What a version is made of is
\* owned once per handle, and patches say exactly what changed: undoing,
\* composing and comparing them is exact.
CollectionsExact ==
    /\ subject = "multimap" => Collections!MultimapValid /\ Collections!MultimapOwned
    /\ subject = "relation" =>
          Collections!DirectionsAgree /\ Collections!RelationExact /\ Collections!RelationOwned
    /\ subject = "graph" => Collections!EdgesJoinVertices /\ Collections!GraphOwned
    /\ subject = "bag" => Collections!TotalsExact /\ Collections!BagAlgebraExact /\ Collections!BagOwned
    /\ subject = "indexed map" => Indexed!IndexFollowsSelector /\ Indexed!IndexedOwned
    /\ subject = "bimap" => BiMaps!MutuallyInverse /\ BiMaps!BiMapOwned
    /\ subject = "patches" => Patches!PatchesMinimal /\ Patches!InverseUndoes /\ Patches!ComposeExact
    /\ subject = "patches between" =>
          PatchesBetween!PatchesMinimal /\ PatchesBetween!InverseUndoes /\ PatchesBetween!BetweenExact

\* The trie implements the persistent map: every call, on every version a history
\* reaches and with every argument, publishes what the promise says of that call
\* with those arguments, also when the other operand has another policy.
TriesRefineMaps ==
    /\ subject = "trie map" => TrieMap!RefinesMap
    /\ subject = "bulk trie" => TrieBulk!RefinesMap

\* What the API specification says of the composed structures: outputs are
\* written only after success, so a call that is refused leaves the map it was
\* given where it was.
OutputsOnlyAfterSuccess == [][subject = "patch outputs" => Patches!OutputsOnlyAfterSuccess]_vars

-----------------------------------------------------------------------------
\* Merkle search trees.
Levels == <<0, 1, 0, 2, 0, 1>>
Plain == [a |-> "a", b |-> "b", A |-> "a"]
Silent == {<<"unresolved", "unresolved", "unresolved", "unresolved", "unresolved", "unresolved">>}
SomeResolvers == {<<"unresolved", "unresolved">>, <<"base", "A">>, <<"right", "delete">>, <<"left", "b">>}

Merkle == INSTANCE MerkleSearchTree
          WITH Keys <- 1..6, Values <- {"a", "b"}, LevelOf <- Levels, ValueClass <- Plain,
               Handles <- {t1}, Cursors <- {}, MaxArray <- 2, Resolvers <- Silent, tree <- first, cur <- second
MerkleCursor == INSTANCE MerkleSearchTree
          WITH Keys <- 1..4, Values <- {"a"}, LevelOf <- Levels, ValueClass <- Plain,
               Handles <- {t1}, Cursors <- {i1}, MaxArray <- 2, Resolvers <- Silent, tree <- first, cur <- second
MerkleMerge == INSTANCE MerkleSearchTree
          WITH Keys <- 1..2, Values <- {"a", "A", "b"}, LevelOf <- Levels, ValueClass <- Plain,
               Handles <- {t1, t2, s1}, Cursors <- {}, MaxArray <- 0, Resolvers <- SomeResolvers,
               tree <- first, cur <- second
MerkleDiff == INSTANCE MerkleSearchTree
          WITH Keys <- 1..4, Values <- {"a", "b"}, LevelOf <- Levels, ValueClass <- Plain,
               Handles <- {t1, t2}, Cursors <- {}, MaxArray <- 0, Resolvers <- Silent, tree <- first, cur <- second

\* Maps of the keys in which only the first key may have the second value.
Entries(s, v) == LET q == SetToSortSeq(s, <) IN [i \in DOMAIN q |-> Merkle!Entry(q[i], IF q[i] = 1 THEN v ELSE "a")] @@ <<>>
TreesOf(sets, v) == {Merkle!BuildCanonical(Entries(s, v)) : s \in sets}
FourKeyTrees == TreesOf({s \in SUBSET (1..4) : Cardinality(s) # 1}, "a") \cup TreesOf({{1, 2, 3}}, "b")
ThreeKeyTrees == TreesOf({{}, {3}, {1, 2}, {1, 2, 3}}, "a") \cup TreesOf({{1, 2}}, "b")
Proofs == INSTANCE MerkleProofs
          WITH Keys <- 1..4, Values <- {"a", "b"}, LevelOf <- Levels, ValueClass <- Plain, Trees <- FourKeyTrees,
               MaxFaults <- 1, MaxBlocks <- 4, MaxDepth <- 2, MaxEntryCount <- 4, MaxChildReferences <- 3,
               proof <- first, faults <- second
ProofsTwice == INSTANCE MerkleProofs
          WITH Keys <- 1..3, Values <- {"a", "b"}, LevelOf <- Levels, ValueClass <- Plain, Trees <- ThreeKeyTrees,
               MaxFaults <- 2, MaxBlocks <- 3, MaxDepth <- 2, MaxEntryCount <- 4, MaxChildReferences <- 2,
               proof <- first, faults <- second

Leaf(k) == Merkle!Node(0, <<Merkle!Entry(k, "a")>>, <<Merkle!Null, Merkle!Null>>)
Fork(left, right) == Merkle!Node(1, <<Merkle!Entry(2, "a")>>, <<left, right>>)
Smaller == Fork(Leaf(1), Merkle!Null)
\* A key on the wrong side, and a count that is not the number of entries.
Misplaced == Fork(Leaf(3), Merkle!Null)
Miscounted == Merkle!Block(1, 5, <<Merkle!Entry(2, "a")>>, <<Leaf(1), Merkle!Null>>)
\* The blocks of those, and one block with the bytes of another.
BadPuts == {[digest |-> Misplaced, bytes |-> Misplaced], [digest |-> Miscounted, bytes |-> Miscounted],
            [digest |-> Smaller, bytes |-> Leaf(1)]}
Packs == INSTANCE MerkleSync
          WITH Keys <- 1..3, Values <- {"a"}, LevelOf <- Levels, ValueClass <- Plain, Trees <- {Smaller, Leaf(1)},
               Foreign <- {Misplaced, Miscounted}, Target <- Smaller, OtherPuts <- BadPuts, Savers <- {s1}, Importers <- {i1},
               Receivers <- {}, MaxFaults <- 1, MaxBlocks <- 2, MaxDepth <- 2, MaxEntryCount <- 3,
               store <- first, task <- second, pack <- third, loaded <- fourth, faults <- fifth

MerkleInit ==
    /\ SessionsInit
    /\ \/ subject = "merkle tree" /\ Merkle!Init /\ third = Unset /\ fourth = Unset /\ fifth = Unset
       \/ subject = "merkle cursor" /\ MerkleCursor!Init /\ third = Unset /\ fourth = Unset /\ fifth = Unset
       \/ subject = "merkle merge" /\ MerkleMerge!Init /\ third = Unset /\ fourth = Unset /\ fifth = Unset
       \/ subject = "merkle diff" /\ MerkleDiff!Init /\ third = Unset /\ fourth = Unset /\ fifth = Unset
       \/ subject = "proofs" /\ Proofs!Init /\ third = Unset /\ fourth = Unset /\ fifth = Unset
       \/ subject = "twice damaged proofs" /\ ProofsTwice!Init /\ third = Unset /\ fourth = Unset /\ fifth = Unset
       \/ subject = "packs" /\ Packs!Init
MerkleNext ==
    \/ subject = "merkle tree" /\ Merkle!Next /\ UNCHANGED <<third, fourth, fifth>>
    \/ subject = "merkle cursor" /\ MerkleCursor!Next /\ UNCHANGED <<third, fourth, fifth>>
    \/ subject = "merkle merge" /\ MerkleMerge!Next /\ UNCHANGED <<third, fourth, fifth>>
    \/ subject = "merkle diff" /\ MerkleDiff!Next /\ UNCHANGED <<third, fourth, fifth>>
    \/ subject = "proofs" /\ Proofs!Next /\ UNCHANGED <<third, fourth, fifth>>
    \/ subject = "twice damaged proofs" /\ ProofsTwice!Next /\ UNCHANGED <<third, fourth, fifth>>
    \/ subject = "packs" /\ Packs!Next
MerkleSymmetry == Permutations({t1, t2})

\* A tree is the one tree of its entries however it came about, a difference or a
\* merge is that of the two or three maps, and a cursor stays beside its entries.
\* An honest proof is accepted within its limits, one that is accepted tells the
\* truth about the tree of its root whatever was done to it, a tree that is
\* loaded is whole and canonical, and a pack holds what its receiver lacks.
MerkleExact ==
    /\ subject = "merkle tree" => Merkle!TreesCanonical
    /\ subject = "merkle cursor" => MerkleCursor!CursorStaysBeside
    /\ subject = "merkle merge" => MerkleMerge!MergeExact
    /\ subject = "merkle diff" => MerkleDiff!DiffExact
    /\ subject = "proofs" => Proofs!HonestAccepted /\ Proofs!AcceptedTellsTruth
    /\ subject = "twice damaged proofs" => ProofsTwice!AcceptedTellsTruth
    /\ subject = "packs" => Packs!LoadedTreesValid /\ Packs!SyncPackSuffices

\* A load, an import and the writing of blocks are refused only for a reason that
\* the pack, the store or the limits give.
RefusalsJustified == [][subject = "packs" => Packs!RefusalJustified]_vars

-----------------------------------------------------------------------------
\* Ordered collections; items and values that are equal modulo 10 are equal.
Modulo10 == [x \in 0..15 |-> x % 10] @@ <<>>
Modulo2 == [x \in 0..15 |-> x % 2] @@ <<>>
SameUnit(v, w) == v % 10 = w % 10
Same(v, w) == v = w
SomeSequences == {<<2>>, <<11, 3>>, <<3, 1, 11>>, <<4, 3, 2, 1>>}

InOrderSet == INSTANCE OrderedSet
           WITH Items <- {1, 2, 3, 4, 11}, ClassOf <- Modulo10, Rank <- Modulo2, SameValue <- Same, MaxStamp <- 2,
                StampGap <- 2, Operands <- SomeSequences, set <- first, gap <- second
InOrderMap == INSTANCE OrderedMap
           WITH Items <- {1, 2, 3, 11}, ClassOf <- Modulo10, Rank <- Modulo2, SameValue <- SameUnit, MaxStamp <- 2,
                StampGap <- 2, Values <- {1, 2, 11}, Keys <- {}, Members <- {}, MaxPairs <- 0,
                map <- first, gap <- second
InOrderPairs == INSTANCE OrderedMap
           WITH Items <- {1, 2, 3, 5, 6, 11, 15}, ClassOf <- Modulo10, Rank <- Modulo2, SameValue <- Same, MaxStamp <- 2,
                StampGap <- 2, Values <- {}, Keys <- {1, 2, 11}, Members <- {5, 6, 15}, MaxPairs <- 3,
                map <- first, gap <- second
EveryMap == UNION {[s -> {1, 2}] \cup [s -> {1, 11}] : s \in SUBSET {-4, -1, 3}}
Integral == INSTANCE Patricia
           WITH Width <- 3, Keys <- {-4, -3, -1, 0, 1, 3}, Values <- {1, 2}, Equal <- SameUnit, Others <- {},
                map <- first, gap <- second
IntegralAlgebra == INSTANCE Patricia
           WITH Width <- 3, Keys <- {-4, -1, 2, 3}, Values <- {1, 2, 11}, Equal <- SameUnit, Others <- EveryMap,
                map <- first, gap <- second

ASSUME StampWords == InOrderSet!StampAssumption /\ InOrderMap!StampAssumption /\ InOrderPairs!StampAssumption
ASSUME KeyWords == Integral!WidthAssumption /\ IntegralAlgebra!WidthAssumption

OrderedInit ==
    /\ SessionsInit /\ third = Unset /\ fourth = Unset /\ fifth = Unset
    /\ \/ subject = "ordered set" /\ InOrderSet!Init
       \/ subject = "ordered map" /\ InOrderMap!Init
       \/ subject = "ordered multimap" /\ InOrderPairs!MultimapInit
       \/ subject = "integer map" /\ Integral!Init
       \/ subject = "integer map algebra" /\ IntegralAlgebra!Init
OrderedNext ==
    /\ UNCHANGED <<third, fourth, fifth>>
    /\ \/ subject = "ordered set" /\ InOrderSet!Next
       \/ subject = "ordered map" /\ InOrderMap!Next
       \/ subject = "ordered multimap" /\ InOrderPairs!MultimapNext
       \/ subject = "integer map" /\ Integral!Next
       \/ subject = "integer map algebra" /\ IntegralAlgebra!Next

\* The labels of an ordered collection stay in step with its order and its table
\* when they run out and are dealt again, every call does to the order what it
\* says, and a cursor stays beside its items; a radix trie has the one shape of
\* its contents, negative keys included, and its algebra is that of maps.
OrderedExact ==
    /\ subject = "ordered set" => InOrderSet!OrderIndexed /\ InOrderSet!OperationsExact
                                  /\ InOrderSet!AlgebraExact /\ InOrderSet!CursorBeside
    /\ subject = "ordered map" => InOrderMap!KeysAndValuesAgree /\ InOrderMap!MapOperationsExact
                                  /\ InOrderMap!MapCursorBeside
    /\ subject = "ordered multimap" => InOrderPairs!PairsCounted /\ InOrderPairs!PairsExact
                                       /\ InOrderPairs!PairCursorBeside
    /\ subject = "integer map" => Integral!TrieCanonical /\ Integral!CursorInPlace
    /\ subject = "integer map algebra" => IntegralAlgebra!AlgebraExact

-----------------------------------------------------------------------------
\* A run has one of the three kinds of subject.
HashSpec ==
    /\ subject \in Subjects /\ HashInit
    /\ [][/\ UNCHANGED subject
          /\ \/ subject = "sessions" /\ SessionsNext /\ UNCHANGED others
             \/ HashNext /\ UNCHANGED sessionVars]_vars
MerkleSpec ==
    /\ subject \in Subjects /\ MerkleInit
    /\ [][MerkleNext /\ UNCHANGED <<subject, sessionVars>>]_vars
OrderedSpec ==
    /\ subject \in Subjects /\ OrderedInit
    /\ [][OrderedNext /\ UNCHANGED <<subject, sessionVars>>]_vars
=============================================================================
