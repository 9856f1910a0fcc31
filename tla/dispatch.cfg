\* Two calls for one derivation; the database may fail.
SPECIFICATION FairSpec
CONSTANTS
    c1 = c1
    c2 = c2
    k1 = k1
    NoCall = NoCall
    Calls = {c1, c2}
    Keys = {k1}
    KeyOf <- SameKey
    Substitutable = {}
    Retention = 1
    ResultTimeout = 1
    DbMayFail = TRUE
    LastStart = 2
    MaxTime = 4
    MaxResults = 1
    WorkerOutcomes = {"completed", "bogus", "failed"}
INVARIANTS
    TypeOK
    InFlightOnce
    PersistedBeforeReturned
    ReplayWindow
PROPERTIES
    CompletedIsFinal
    CallEnds
    ReservationReleased
CHECK_DEADLOCK FALSE
