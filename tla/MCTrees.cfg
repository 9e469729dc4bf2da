SPECIFICATION TreesSpec
CONSTANTS
    Subjects = {"zip tree", "zip tree cursor", "zip tree spines", "range updates", "deep range updates", "brodal heap", "action heap", "deep action heap", "search queue", "deep search queue"}
    h1 = h1 h2 = h2 h3 = h3 c1 = c1 c2 = c2
    a1 = a1 a2 = a2 v1 = v1 v2 = v2 v3 = v3 v4 = v4
    Unset = Unset
CONSTRAINT TreesSmall
SYMMETRY TreeSymmetry
INVARIANTS TreesExact HeapsExact
PROPERTY TreesKeepPromise
CHECK_DEADLOCK FALSE
