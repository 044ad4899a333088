SPECIFICATION FairSpec
PROPERTIES
    ComesUp
    NamespaceGoes
CONSTANTS
    Kinds <- MCAllKinds
    MaxUid = 1
    MaxGenerations = 2
    MaxDisturbances = 1
    Sweeps <- MCSweeps
    SweepSteps <- MCSweepSteps
    MaxLag = 1
CHECK_DEADLOCK FALSE
