SPECIFICATION Spec
INVARIANTS
    TypeOK
    InitOncePerPipeline
    NoEmptySecret
    SecretsMatchResource
PROPERTY
    WorkedOnIsSafe
CONSTANTS
    Kinds <- MCTwoKinds
    MaxUid = 2
    MaxGenerations = 2
    MaxDisturbances = 1
    Sweeps <- MCSweeps
    SweepSteps <- MCSweepSteps
    MaxLag = 1
CHECK_DEADLOCK FALSE
