SPECIFICATION RopesSpec
CONSTANTS
    Subjects = {"rope", "long rope", "measured rope", "long measured rope", "sorted collection", "priority queue", "interval tree", "deep interval tree"}
    h1 = h1 h2 = h2 h3 = h3 c1 = c1 c2 = c2
    a1 = a1 a2 = a2 v1 = v1 v2 = v2 v3 = v3 v4 = v4
    Unset = Unset
CONSTRAINT RopesSmall
SYMMETRY RopeSymmetry
INVARIANT RopesExact
PROPERTY RopesKeepPromise
CHECK_DEADLOCK FALSE
