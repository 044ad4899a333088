CONSTANTS
    j1 = j1
    j2 = j2
    f1 = f1
    NoEntry = NoEntry
    Database = "cockroachdb"
    LogIds <- MCJobs
    Jobs <- MCJobs
    Files <- MCFiles
    FileOf <- MCFileOf
    SkipHeaders = 1
    MaxRecords = 3
    Sizes <- MCSizes
    MaxUploads = 2
SPECIFICATION Spec
INVARIANTS
    TypeOK
    RowsOfTheFile
    LogNotAhead
    StatsNotAhead
    MetricNotAhead
    MarkedUnopened
PROPERTY LoadSpec
SYMMETRY MCSymmetry
CHECK_DEADLOCK FALSE
