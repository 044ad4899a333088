CONSTANTS
    dLoose = dLoose
    dAnch = dAnch
    dApi = dApi
    sLoose = sLoose
    sAnch = sAnch
    sApi = sApi
    Paths = {dLoose, dAnch}
    FileSources = {sLoose, sAnch}
    ApiSources = {}
    PathOf <- MCPathOf
    SchemeOf <- MCSchemeOf
    RegexOf <- MCRegexOf
    PathWithin <- Disjoint
    MaxJobs = 2
    MaxWatchers = 3
    MaxEvents = 1
    MaxOps = 1
    MaxApiStarts = 0
    MaxCrashes = 0
    NoPath = NoPath
    NoSource = NoSource
    NoEntry = NoEntry
SPECIFICATION Spec
INVARIANT OneWatcherPerSource
CHECK_DEADLOCK FALSE
