CONSTANTS
    NumInputs = 3
    NumOutputs = 2
    MaxParallel = 2
    Graphs <- MCGraphs
    Trees <- MCTrees
    None = None
CHECK_DEADLOCK FALSE
SPECIFICATION FairSpec
INVARIANTS
    TypeOK
    OrderRespected
    InSync
    ArtifactsAsBuilt
    LogComplete
PROPERTY
    FetchEnds
