CONSTANTS
    k1 = k1
    k2 = k2
    k3 = k3
    k4 = k4
    k5 = k5
    t1 = t1
    t2 = t2
    t3 = t3
    Loader = Loader
    Threads = {t1, t2, t3}
    Keys = {k1, k2, k3, k4, k5}
    Hash <- MCHash
    Levels = 3
    Stalled = {}
    Scripts <- Every
SPECIFICATION MonitorSpec
INVARIANTS TypeOK Linearizable QuiescentExact WellFormed FrozenViews
PROPERTY DecisionsStable
