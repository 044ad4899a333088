CONSTANTS
    dLoose = dLoose
    dAnch = dAnch
    dApi = dApi
    sLoose = sLoose
    sAnch = sAnch
    sApi = sApi
    Paths = {dLoose, dAnch}
    FileSources = {sLoose, sAnch}
    ApiSources = {}
    PathOf <- MCPathOf
    SchemeOf <- MCSchemeOf
    RegexOf <- MCRegexOf
    PathWithin <- Disjoint
    MaxJobs = 1
    MaxWatchers = 2
    MaxEvents = 2
    MaxOps = 2
    MaxApiStarts = 0
    MaxCrashes = 0
    NoPath = NoPath
    NoSource = NoSource
    NoEntry = NoEntry
SPECIFICATION Spec
INVARIANT TypeOK
INVARIANT PodFromItsSource
INVARIANT StalePodsBounded
INVARIANT DuplicatesBounded
CHECK_DEADLOCK FALSE
