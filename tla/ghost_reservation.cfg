\* A dispatcher that fails or is dropped, and an attacher.
SPECIFICATION Spec
CONSTANTS
    c1 = c1
    c2 = c2
    k1 = k1
    NoCall = NoCall
    Calls = {c1, c2}
    Keys = {k1}
    KeyOf <- SameKey
    Substitutable = {}
    Retention = 1
    ResultTimeout = 1
    DbMayFail = FALSE
    LastStart = 2
    MaxTime = 3
    MaxResults = 2
    WorkerOutcomes = {"completed", "failed"}
INVARIANTS
    AttachedJobIsDispatched
CHECK_DEADLOCK FALSE
