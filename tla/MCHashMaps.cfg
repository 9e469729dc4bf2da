SPECIFICATION HashSpec
CONSTANTS
    Subjects = {"tries", "trie map", "bulk trie", "sessions", "multimap", "relation", "graph", "bag", "indexed map", "bimap", "patches", "patches between"}
    Keys = {k1, k2}
    Values = {p1}
    Maps = {m1, m2}
    Sessions = {s1, s2}
    Transients = {t1, t2}
    Iterators = {i1}
    Roots = {r1, r2, r3}
    NoRoot = NoRoot
    NoSession = NoSession
    MaxVersion = 2
    k1 = k1 k2 = k2 m1 = m1 m2 = m2 r1 = r1 r2 = r2 r3 = r3
    s1 = s1 s2 = s2 t1 = t1 t2 = t2 i1 = i1 p1 = p1
    Unset = Unset
SYMMETRY HashSymmetry
INVARIANTS ReferencesBalanced IteratorReadsLiveNodes TriesExact CollectionsExact TriesRefineMaps
PROPERTIES VersionsImmutable
CHECK_DEADLOCK FALSE
