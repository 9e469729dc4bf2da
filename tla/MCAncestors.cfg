SPECIFICATION AncestorsSpec
CONSTANTS
    Subjects = {"arena", "deep arena", "slice queue", "bilateral deque", "deep bilateral deque", "forest", "deep forest"}
    h1 = h1 h2 = h2 h3 = h3 c1 = c1 c2 = c2
    a1 = a1 a2 = a2 v1 = v1 v2 = v2 v3 = v3 v4 = v4
    Unset = Unset
SYMMETRY AncestorSymmetry
INVARIANTS AncestorsAnswer AncestorsOwned
PROPERTY AncestorsKeepPromise
CHECK_DEADLOCK FALSE
