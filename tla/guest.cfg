\* Any sequence of jobs of two tenants, with at most two OOM kills or full disks.
SPECIFICATION FairSpec
CONSTANTS
    j1 = j1
    j2 = j2
    j3 = j3
    t1 = t1
    t2 = t2
    NoJob = NoJob
    NoTenant = NoTenant
    None = None
    Jobs = {j1, j2, j3}
    Tenants = {t1, t2}
    TenantOf <- TwoTenants
    UidCeiling = 2
    MaxFaults = 2
INVARIANTS
    TypeOK
    OwnDaemon
    StatusIsThisBuilds
PROPERTIES
    HangNoticed
    JobGetsOn
CHECK_DEADLOCK FALSE
