\* Every build has its inputs.
SPECIFICATION Spec
CONSTANTS
    j1 = j1
    j2 = j2
    j3 = j3
    t1 = t1
    t2 = t2
    p1 = p1
    p2 = p2
    NoJob = NoJob
    NoTenant = NoTenant
    Jobs = {j1}
    Tenants = {t1, t2}
    TenantOf <- TwoTenants
    Inputs <- SharedInputs
    BigParallel = FALSE
    MaxRestarts = 0
INVARIANTS
    BuildHasInputs
CHECK_DEADLOCK FALSE
