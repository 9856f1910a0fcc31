\* Two tenants that share lib, one of which has app, which needs lib.
SPECIFICATION FairSpec
CONSTANTS
    t1 = t1
    t2 = t2
    lib = lib
    app = app
    i1 = i1
    i2 = i2
    AnyTenant = AnyTenant
    NoKey = NoKey
    Rows <- ClosureRows
    Refs <- AppNeedsLib
    Ingests = {i1, i2}
    BatchSize = 1
    MaxMarks = 1
    MaxIngests = 2
    MaxFailures = 1
INVARIANTS
    TypeOK
    UploadedIsKept
    BytesAreNamed
PROPERTIES
    ReferencedIsKept
    LimboEnds
CHECK_DEADLOCK FALSE
