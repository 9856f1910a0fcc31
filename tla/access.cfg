SPECIFICATION FairSpec
CONSTANTS
    Tenants = {"t1", "t2"}
    FirstTenant = "t1"
    SshKeys = {"key"}
    Cas = {"ca"}
    Drvs = {"drvA", "drvB"}
    Paths = {"out", "fixed"}
    DrvOutputs <- MCDrvOutputs
    Slugs = {"cache"}
    CacheTtl = 1
    Retention = 2
    MaxTime = 3
    MaxKid = 2
    MaxConns = 1
    MaxEvents = 3
INVARIANTS
    TypeOK
    TokenHonoured
    OwnArtifactsOnly
PROPERTIES
    RootsConverge
CHECK_DEADLOCK FALSE
