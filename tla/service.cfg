\* A dispatcher and an attacher, one plain worker; the job may be redelivered once,
\* and a worker of another version cannot decode the one c2 dispatches.
SPECIFICATION Spec
CONSTANTS
    c1 = c1
    c2 = c2
    k1 = k1
    w1 = w1
    w2 = w2
    NoCall = NoCall
    Calls = {c1, c2}
    Keys = {k1}
    KeyOf <- SameKey
    Substitutable = {}
    Retention = 1
    ResultTimeout = 1
    DbMayFail = FALSE
    LastStart = 0
    MaxTime = 1
    MaxResults = 2
    Workers = {w1}
    Classes <- PlainFleet
    Exclusive = {}
    Required <- PlainJobs
    Undecodable = {c2}
    MaxDeliver = 2
    MaxAckPending = 1
    FailingPublishes = {"publish", "publishEarly", "escalate"}
    MaxCopies = 1
    MaxRetries = 0
    MaxFaults = 0
INVARIANTS
    BuiltIsFetchable
    Agreement
PROPERTIES
    KeepsPromise
CHECK_DEADLOCK FALSE
