-------------------------- MODULE PipelineDatabase --------------------------
(***************************************************************************)
(* The tables of a pipeline that extract jobs share, and the statements of *)
(* internal/db on them.  Each statement is one transaction of the database;*)
(* nothing in the program spans two of them.                               *)
(*                                                                         *)
(* A data row is a record with a field key, its primary key.  A row of     *)
(* pipeline_stats carries, as history, the data rows that it counts.       *)
(***************************************************************************)
EXTENDS Naturals, FiniteSets

CONSTANTS
    Database,   \* DatabaseType of the pipeline: "cockroachdb" or "mysql"
    LogIds,     \* values of CHURRO_EXTRACTLOG
    NoEntry     \* stands for a log entry that is not there

ASSUME DatabaseAssumption ==
    /\ Database \in {"cockroachdb", "mysql"}
    /\ NoEntry \notin Nat

VARIABLES
    rows,            \* rows of the data tables
    extractlog,      \* records_loaded, by id
    pipelineStats,   \* rows of pipeline_stats
    filesProcessed   \* value of "Files Processed" in pipelinemetric

dbVars == <<rows, extractlog, pipelineStats, filesProcessed>>

EmptyDatabase ==
    /\ rows = {}
    /\ extractlog = [i \in LogIds |-> NoEntry]
    /\ pipelineStats = {}
    /\ filesProcessed = 0

\* INSERT of one row or of several: refused if there is nothing to insert or
\* a key is taken, and then no row of the statement is stored.
Insertable(new) ==
    /\ new # {}
    /\ \A r \in new, q \in rows : q.key # r.key
    /\ \A r, q \in new : q # r => q.key # r.key

Insert(new) == Insertable(new) /\ rows' = rows \cup new

\* INSERT into extractlog, whose id is the primary key.
CreateExtractLog(id, n) ==
    extractlog' = IF extractlog[id] = NoEntry
                  THEN [extractlog EXCEPT ![id] = n]
                  ELSE extractlog

\* UPDATE of extractlog; without the entry it changes no row.
UpdateExtractLog(id, n) ==
    extractlog' = IF extractlog[id] = NoEntry
                  THEN extractlog
                  ELSE [extractlog EXCEPT ![id] = n]

NoStats == [file |-> "", records |-> 0, counted |-> {}]

\* What the SELECT of UpdatePipelineStats may return: it takes the first row
\* of the file in no particular order.
StatsOf(f) ==
    LET found == {s \in pipelineStats : s.file = f}
    IN  IF found = {} THEN {NoStats} ELSE found

\* The write of UpdatePipelineStats.  The UPSERT of cockroachdb gives no key,
\* so it adds a row; the UPDATE of mysql finds none, as nothing inserts one.
WriteStats(f, base, new) ==
    pipelineStats' =
        IF Database = "cockroachdb"
        THEN pipelineStats \cup {[file    |-> f,
                                  records |-> base.records + Cardinality(new),
                                  counted |-> base.counted \cup new]}
        ELSE pipelineStats

UpdatePipelineMetric(v) == filesProcessed' = v
============================================================================
