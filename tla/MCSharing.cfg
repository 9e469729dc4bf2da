SPECIFICATION SharingSpec
CONSTANTS
    Subjects = {"lazy", "managed", "store", "sync"}
    Threads = {t1, t2, t3}
    Reps = {r1, r2, r3}
    Nothing = Nothing
    Failed = Failed
    Results = {r1, r2, r3, r4}
    Pending = Pending
    Callers = {t1, t2}
    Addresses = {1, 2, 3}
    Bytes = {"x", "y"}
    InitialCapacity = 1
    Unset = Unset
    s1 = s1
    r1 = r1
INVARIANTS CountsExact BorrowedAlive AnswersConverge ArraysOwned
PROPERTIES ForcesOnce StoreKeepsPromise SharingEnds
CHECK_DEADLOCK FALSE
