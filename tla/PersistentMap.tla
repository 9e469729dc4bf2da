--------------------------- MODULE PersistentMap ---------------------------
(***************************************************************************)
(* What a persistent hash map promises its caller.  A version is a finite  *)
(* map from key classes to the key pointer that was first stored for the   *)
(* class and the value that was last stored.  There is one operator for    *)
(* each call: the version the call yields, from the versions and the       *)
(* arguments it was given.                                                 *)
(***************************************************************************)
EXTENDS Naturals, SequencesExt, Functions, TLC

CONSTANT Class        \* Class[k]: the class of key k

Cell(k, v) == [key |-> k, value |-> v]
NoEntries == <<>>

Has(m, k) == Class[k] \in DOMAIN m

\* The first key pointer of a class stays with it.
SetEntry(m, k, v) ==
    IF Has(m, k) THEN [m EXCEPT ![Class[k]].value = v] ELSE (Class[k] :> Cell(k, v)) @@ m

TryAdd(m, k, v) == IF Has(m, k) THEN m ELSE SetEntry(m, k, v)

\* A refused duplicate leaves a result that is the source alone, and empties another.
Add(m, k, v, aliased) == IF Has(m, k) /\ ~aliased THEN NoEntries ELSE TryAdd(m, k, v)

AddOrUpdate(m, k, added, updated) == SetEntry(m, k, IF Has(m, k) THEN updated ELSE added)

RemoveEntry(m, k) == Restrict(m, DOMAIN m \ {Class[k]})

\* The entries of both operands keep the key of the left and take the value of the right.
Combine(l, r, op) ==
    LET L == DOMAIN l
        R == DOMAIN r
        dom == CASE op = "union" -> L \cup R
                 [] op = "intersect" -> L \cap R
                 [] op = "except" -> L \ R
                 [] op = "symmetric_except" -> (L \ R) \cup (R \ L)
    IN  [c \in dom |-> IF c \notin L THEN r[c]
                       ELSE IF op = "union" /\ c \in R THEN Cell(l[c].key, r[c].value)
                       ELSE l[c]]

\* What a sequence of entries is as a map: equal keys meet, and the last value stays.
Gathered(items) == FoldLeft(LAMBDA m, e : SetEntry(m, e.key, e.value), NoEntries, items)
=============================================================================
