CONSTANTS
    dLoose = dLoose
    dAnch = dAnch
    dApi = dApi
    sLoose = sLoose
    sAnch = sAnch
    sApi = sApi
    Paths = {dLoose, dApi}
    FileSources = {sLoose}
    ApiSources = {sApi}
    PathOf <- MCPathOf
    SchemeOf <- MCSchemeOf
    RegexOf <- MCRegexOf
    PathWithin <- Disjoint
    MaxJobs = 1
    MaxWatchers = 1
    MaxEvents = 2
    MaxOps = 0
    MaxApiStarts = 0
    MaxCrashes = 0
    NoPath = NoPath
    NoSource = NoSource
    NoEntry = NoEntry
SPECIFICATION Spec
INVARIANT RunningWithinMaxJobs
CHECK_DEADLOCK FALSE
