-------------------------- MODULE ConnectionForest --------------------------
(***************************************************************************)
(* The persistent ancestral connection forest                              *)
(* (persistent_ancestral_connection_forest.c): union by size over a sparse *)
(* map of parent cells.  Each link makes a history token that owns its     *)
(* parent and its root; the edge a union adds is tagged with the token, so *)
(* that a later version can tell in which version two vertices first were  *)
(* connected.                                                              *)
(***************************************************************************)
EXTENDS Integers, Sequences, FiniteSetsExt, Functions, TLC

CONSTANTS Handles,     \* the caller's forests
          Witnesses,   \* the caller's history tokens
          Tokens,      \* addresses of tokens
          Unset,
          VertexCount,
          MaxDepth     \* where the depth of a history overflows (UINT64_MAX)

VARIABLES hold,      \* hold[h]: the forest in h
          witness,   \* witness[w]: the token in w
          token,     \* token[t]: the token at t
          joined     \* joined[t]: the pairs that version t connects (auxiliary)
vars == <<hold, witness, token, joined>>

Vertices == 0..(VertexCount - 1)
Held == {h \in Handles : hold[h] # Unset}
Made == {t \in Tokens : token[t] # Unset}

\* The caller's own data and the child tokens both keep a token alive.
Retain(T, t) == IF t = Unset THEN T ELSE [T EXCEPT ![t].refs = @ + 1]

\* Unwinds a history link by link; the root cannot go before the parent does.
RECURSIVE Release(_, _)
Release(T, t) ==
    IF t = Unset THEN T
    ELSE IF T[t].refs > 1 THEN [T EXCEPT ![t].refs = @ - 1]
    ELSE LET freed == [T EXCEPT ![t] = Unset]
             rooted == IF T[t].root = Unset THEN freed
                       ELSE [freed EXCEPT ![T[t].root].refs = @ - 1]
         IN  Release(rooted, T[t].parent)

RootOf(T, t) == IF T[t].root = Unset THEN t ELSE T[t].root

RootToken == [refs |-> 1, depth |-> 0, parent |-> Unset, root |-> Unset]

CreateChild(T, parent, t) ==
    Retain(Retain([T EXCEPT ![t] = [refs |-> 1, depth |-> T[parent].depth + 1,
                                    parent |-> parent, root |-> RootOf(T, parent)]],
                  parent), RootOf(T, parent))

-----------------------------------------------------------------------------
\* An absent cell is a singleton root.
CellOf(f, v) == IF v \in DOMAIN f.cells THEN f.cells[v]
                ELSE [parent |-> v, size |-> 1, joined |-> Unset]

FindRoot(f, v) ==
    LET up[u \in Vertices] == IF CellOf(f, u).parent = u THEN u ELSE up[CellOf(f, u).parent]
    IN  up[v]

ComponentSize(f, v) == CellOf(f, FindRoot(f, v)).size
Connected(f, u, v) == FindRoot(f, u) = FindRoot(f, v)

\* Two roots become one; on a tie the first endpoint's root stays.
Union(f, l, r, t) ==
    LET big == IF CellOf(f, l).size < CellOf(f, r).size THEN r ELSE l
        small == IF big = l THEN r ELSE l
        winner == [parent |-> big, size |-> CellOf(f, l).size + CellOf(f, r).size, joined |-> Unset]
        loser == [parent |-> big, size |-> 0, joined |-> t]
    IN  [f EXCEPT !.cells = (small :> loser) @@ (big :> winner) @@ @, !.components = @ - 1]

\* The vertices from v to its root.
BuildPath(f, v) ==
    LET up[u \in Vertices] ==
            IF CellOf(f, u).parent = u THEN <<u>> ELSE <<u>> \o up[CellOf(f, u).parent]
    IN  up[v]

Later(T, s, t) ==
    IF t = Unset THEN s ELSE IF s = Unset THEN t ELSE IF T[t].depth > T[s].depth THEN t ELSE s

\* The latest tag on the two paths below where they meet.
FirstConnected(T, f, u, v) ==
    LET p == Range(BuildPath(f, u))
        q == Range(BuildPath(f, v))
        below == (p \ q) \cup (q \ p)
    IN  IF u = v THEN RootOf(T, f.version)
        ELSE IF ~Connected(f, u, v) THEN Unset
        ELSE FoldSet(LAMBDA x, latest : Later(T, latest, CellOf(f, x).joined), Unset, below)

-----------------------------------------------------------------------------
Init ==
    /\ hold = [h \in Handles |-> Unset]
    /\ witness = [w \in Witnesses |-> Unset]
    /\ token = [t \in Tokens |-> Unset]
    /\ joined = [t \in Tokens |-> {}]

Pairs(f) == {p \in Vertices \X Vertices : Connected(f, p[1], p[2])}

\* The cells of a few vertices are in the root node of a map.  A forest shares it with its
\* clones; a set copies the node, and each cell in it retains its tag anew.  Every
\* union changes the cells, so two forests with the same cells have one map.
Tags(f) == {v \in DOMAIN f.cells : f.cells[v].joined # Unset}
Others(h) == {hold[x] : x \in Held \ {h}}
RetainCells(T, f) == FoldSet(LAMBDA v, U : Retain(U, f.cells[v].joined), T, Tags(f))
ReleaseCells(T, f, rest) ==
    IF \E g \in rest : g.cells = f.cells THEN T
    ELSE FoldSet(LAMBDA v, U : Release(U, f.cells[v].joined), T, Tags(f))

\* The cells go first, then the version.
Dropped(T, f, rest) == Release(ReleaseCells(T, f, rest), f.version)

NewForest(h, t) ==
    /\ h \notin Held /\ token[t] = Unset
    /\ hold' = [hold EXCEPT ![h] = [cells |-> <<>>, components |-> VertexCount, version |-> t]]
    /\ token' = [token EXCEPT ![t] = RootToken]
    /\ joined' = [joined EXCEPT ![t] = {<<v, v>> : v \in Vertices}]
    /\ UNCHANGED witness

CloneForest(s, h) ==
    /\ s \in Held /\ h \notin Held
    /\ hold' = [hold EXCEPT ![h] = hold[s]]
    /\ token' = Retain(token, hold[s].version)
    /\ UNCHANGED <<witness, joined>>

MoveForest(s, h) ==
    /\ s \in Held /\ h \notin Held
    /\ hold' = [hold EXCEPT ![h] = hold[s], ![s] = Unset]
    /\ UNCHANGED <<witness, token, joined>>

DestroyForest(h) ==
    /\ h \in Held
    /\ hold' = [hold EXCEPT ![h] = Unset]
    /\ token' = Dropped(token, hold[h], Others(h))
    /\ UNCHANGED <<witness, joined>>

\* The child token is made first and destroyed again when a cell cannot be set.
Link(s, h, u, v, t) ==
    /\ s \in Held /\ (h = s \/ h \notin Held) /\ token[t] = Unset
    /\ token[hold[s].version].depth < MaxDepth
    /\ LET f == hold[s]
           child == CreateChild(token, f.version, t)
           next == IF Connected(f, u, v) THEN [f EXCEPT !.version = t]
                   ELSE [Union(f, FindRoot(f, u), FindRoot(f, v), t) EXCEPT !.version = t]
           tagged == IF Connected(f, u, v) THEN child ELSE RetainCells(child, next)
       IN  \/ /\ hold' = [hold EXCEPT ![h] = next]
              /\ token' = IF h = s THEN Dropped(tagged, f, Others(s) \cup {next}) ELSE tagged
              /\ joined' = [joined EXCEPT ![t] = Pairs(next)]
           \/ /\ ~Connected(f, u, v)
              /\ token' = Release(child, t) /\ UNCHANGED <<hold, joined>>
    /\ UNCHANGED witness

\* The caller keeps a token of a forest, or the parent or root of one it keeps.
TakeToken(w, t) ==
    /\ witness[w] = Unset /\ t # Unset
    /\ witness' = [witness EXCEPT ![w] = t]
    /\ token' = Retain(token, t)
    /\ UNCHANGED <<hold, joined>>

CopyVersion(w, h) == h \in Held /\ TakeToken(w, hold[h].version)
FirstConnectedCopy(w, h, u, v) == h \in Held /\ TakeToken(w, FirstConnected(token, hold[h], u, v))
TryCopyParent(w, x) == witness[x] # Unset /\ TakeToken(w, token[witness[x]].parent)
CopyRoot(w, x) == witness[x] # Unset /\ TakeToken(w, RootOf(token, witness[x]))

DestroyVersion(w) ==
    /\ witness[w] # Unset
    /\ witness' = [witness EXCEPT ![w] = Unset]
    /\ token' = Release(token, witness[w])
    /\ UNCHANGED <<hold, joined>>

Next ==
    \/ \E h \in Handles, t \in Tokens : NewForest(h, t)
    \/ \E s, h \in Handles : CloneForest(s, h) \/ MoveForest(s, h)
    \/ \E h \in Handles : DestroyForest(h)
    \/ \E s, h \in Handles, u, v \in Vertices, t \in Tokens : Link(s, h, u, v, t)
    \/ \E w \in Witnesses, h \in Handles :
          \/ CopyVersion(w, h)
          \/ \E u, v \in Vertices : FirstConnectedCopy(w, h, u, v)
    \/ \E w, x \in Witnesses : TryCopyParent(w, x) \/ CopyRoot(w, x)
    \/ \E w \in Witnesses : DestroyVersion(w)

Spec == Init /\ [][Next]_vars

-----------------------------------------------------------------------------
MaximumHeight(n) == CHOOSE e \in 0..n : 2 ^ e <= n /\ n < 2 ^ (e + 1)

\* What the library's audit asks of a forest: exact component sizes and
\* count, no stored singletons, tags that grow strictly towards the root, and
\* paths no longer than union by size allows.
ForestsValid ==
    \A h \in Held :
       LET f == hold[h]
           component(v) == {u \in Vertices : Connected(f, u, v)}
           path(v) == BuildPath(f, v)
       IN  /\ \A v \in Vertices : ComponentSize(f, v) = Cardinality(component(v))
           /\ f.components = Cardinality({component(v) : v \in Vertices})
           /\ \A v \in DOMAIN f.cells :
                 /\ f.cells[v].parent = v => f.cells[v].size > 1 /\ f.cells[v].joined = Unset
                 /\ Cardinality(Range(path(v))) - 1 <= MaximumHeight(VertexCount)
                 /\ LET u == f.cells[v].parent
                    IN  f.cells[v].joined # Unset /\ CellOf(f, u).joined # Unset =>
                           token[f.cells[v].joined].depth < token[CellOf(f, u).joined].depth

\* The tokens from t to its root.
Lineage(t) ==
    LET up[u \in Made] == IF token[u].parent = Unset THEN {u} ELSE {u} \cup up[token[u].parent]
    IN  up[t]

\* The answer of first_connected is the earliest version on the forest's own
\* lineage in which the two vertices were connected, and it is still there,
\* whichever forests of that lineage have been destroyed.
FirstConnectedExact ==
    \A h \in Held : \A u, v \in Vertices :
       LET when == {t \in Lineage(hold[h].version) : <<u, v>> \in joined[t]}
       IN  FirstConnected(token, hold[h], u, v) =
              IF when = {} THEN Unset
              ELSE CHOOSE t \in when : \A x \in when : token[t].depth <= token[x].depth

\* A token exists exactly as long as something refers to it, and its count is
\* the number of references: forests, tagged cells of each map, the caller's tokens, and
\* the parent and root references of other tokens.
TokensOwned ==
    \A t \in Tokens :
       LET count == Cardinality({h \in Held : hold[h].version = t})
                    + Cardinality({w \in Witnesses : witness[w] = t})
                    + Cardinality({x \in Made : token[x].parent = t})
                    + Cardinality({x \in Made : token[x].root = t})
                    + Cardinality({c \in {<<hold[h].cells, v>> : h \in Held, v \in Vertices} :
                                     c[2] \in DOMAIN c[1] /\ c[1][c[2]].joined = t})
       IN  IF token[t] = Unset THEN count = 0 ELSE token[t].refs = count /\ count > 0
=============================================================================
