\* A worker's publish may fail.
SPECIFICATION Spec
CONSTANTS
    w1 = w1
    w2 = w2
    w3 = w3
    j1 = j1
    j2 = j2
    NoJob = NoJob
    Jobs = {j1}
    Workers = {w1}
    Classes <- MixedFleet
    Exclusive = {}
    Required <- PlainJobs
    Undecodable = {}
    MaxDeliver = 2
    MaxAckPending = 1
    FailingPublishes = {"publishEarly", "escalate"}
    MaxCopies = 2
    MaxRetries = 1
    MaxFaults = 1
INVARIANTS
    NoJobLost
CHECK_DEADLOCK FALSE
