\* Two kvm workers and an exclusive big-parallel one without kvm that a job may
\* escalate to and whose own job it cannot decode; workers die, publishes after a
\* build fail.
SPECIFICATION FairSpec
CONSTANTS
    w1 = w1
    w2 = w2
    w3 = w3
    j1 = j1
    j2 = j2
    NoJob = NoJob
    Jobs = {j1, j2}
    Workers = {w1, w2, w3}
    Classes <- KvmFleet
    Exclusive = {w3}
    Required <- KvmJobs
    Undecodable = {j2}
    MaxDeliver = 2
    MaxAckPending = 1
    FailingPublishes = {"publish"}
    MaxCopies = 2
    MaxRetries = 1
    MaxFaults = 1
INVARIANTS
    TypeOK
    NoJobLost
    CompletedIsUploaded
    WorkIsPaidFor
PROPERTIES
    EveryJobAnswered
CHECK_DEADLOCK FALSE
