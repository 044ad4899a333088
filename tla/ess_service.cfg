CONSTANTS
    dLoose = dLoose
    dAnch = dAnch
    dApi = dApi
    sLoose = sLoose
    sAnch = sAnch
    sApi = sApi
    Paths = {dLoose, dAnch, dApi}
    FileSources = {sLoose, sAnch}
    ApiSources = {sApi}
    PathOf <- MCPathOf
    SchemeOf <- MCSchemeOf
    RegexOf <- MCRegexOf
    PathWithin <- Disjoint
    MaxJobs = 1
    MaxWatchers = 2
    MaxEvents = 2
    MaxOps = 0
    MaxApiStarts = 1
    MaxCrashes = 1
    NoPath = NoPath
    NoSource = NoSource
    NoEntry = NoEntry
SPECIFICATION Spec
INVARIANT PodsInWatcherOrder
PROPERTY IntakeSpec
PROPERTY BacklogDrains
CHECK_DEADLOCK FALSE
