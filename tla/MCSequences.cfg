SPECIFICATION SequencesSpec
CONSTANTS
    Subjects = {"tree", "deque", "cursor", "reversible cursor"}
    h1 = h1 h2 = h2 h3 = h3 c1 = c1 c2 = c2
    a1 = a1 a2 = a2 v1 = v1 v2 = v2 v3 = v3 v4 = v4
    Unset = Unset
CONSTRAINT Orderly
SYMMETRY SequenceSymmetry
INVARIANT SequencesExact
PROPERTY SequencesKeepPromise
CHECK_DEADLOCK FALSE
