SPECIFICATION FairSpec
CONSTANTS
    t1 = t1
    t2 = t2
    e1 = e1
    Calls = {t1, t2, e1}
    Threads = {h1, h2}
    KindOf <- MCKindOf
CHECK_DEADLOCK FALSE
INVARIANTS
    TypeOK
    OneWinner
    ConfirmedIsDelivered
    NothingLeftBehind
PROPERTIES
    KeepsPromise
    RunEnds
