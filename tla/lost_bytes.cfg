\* A live row has bytes.
SPECIFICATION Spec
CONSTANTS
    t1 = t1
    t2 = t2
    lib = lib
    app = app
    i1 = i1
    i2 = i2
    AnyTenant = AnyTenant
    NoKey = NoKey
    Rows <- SharedRows
    Refs <- AppNeedsLib
    Ingests = {i1}
    BatchSize = 1
    MaxMarks = 1
    MaxIngests = 2
    MaxFailures = 1
INVARIANTS
    LiveHasBytes
CHECK_DEADLOCK FALSE
