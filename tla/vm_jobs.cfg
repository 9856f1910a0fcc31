\* Three jobs of two tenants on one worker that may restart once.
SPECIFICATION FairSpec
CONSTANTS
    j1 = j1
    j2 = j2
    j3 = j3
    t1 = t1
    t2 = t2
    p1 = p1
    p2 = p2
    NoJob = NoJob
    NoTenant = NoTenant
    Jobs = {j1, j2, j3}
    Tenants = {t1, t2}
    TenantOf <- TwoTenants
    Inputs <- SharedInputs
    BigParallel = FALSE
    MaxRestarts = 1
INVARIANTS
    TypeOK
    OwnVm
    FirstBuildHasInputs
PROPERTIES
    VerdictIsEarned
    JobReported
CHECK_DEADLOCK FALSE
