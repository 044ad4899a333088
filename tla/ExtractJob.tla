----------------------------- MODULE ExtractJob -----------------------------
(***************************************************************************)
(* churro-extract on files: the pods that internal/extractsource starts,   *)
(* each of which loads one file, counts it and renames it.  Pods run at    *)
(* the same time, may have the same file (a file can be queued twice), and *)
(* share the database and the watched directory, where users put files     *)
(* under names that were there before.                                     *)
(*                                                                         *)
(* A file is a number of records, of which the parser takes those before   *)
(* the first that it cannot parse; its rows are numbered.  Columns, rules, *)
(* transforms and extensions are not modelled: where one of them fails,    *)
(* the insert of the row fails (a wrong value, a source that was deleted   *)
(* and has no columns any more) or the pod ends (a panic).  A file arrives *)
(* complete, by a rename, and the disk reads it without errors.            *)
(***************************************************************************)
EXTENDS PipelineDatabase

CONSTANTS
    Jobs, Files,
    FileOf,        \* CHURRO_FILENAME of each job
    SkipHeaders,   \* Skipheaders of the source
    MaxRecords,    \* bound on the records of a file
    Sizes,         \* the sizes that files have: pairs of all records and those that parse
    MaxUploads     \* bound on the arrivals of files

ASSUME JobsAssumption ==
    /\ IsFiniteSet(Jobs) /\ LogIds = Jobs
    /\ FileOf \in [Jobs -> Files]
    /\ SkipHeaders \in Nat /\ MaxRecords \in Nat \ {0} /\ MaxUploads \in Nat

Schemes == {"csv", "xlsx", "json", "jsonpath", "xml"}

\* A file on disk: its number in the order of arrival, its records, and how
\* many of them the parser takes before one that it cannot parse (a stray
\* quote, another number of fields than the first record has).
Contents == {c \in [id : 1..MaxUploads, records : 0..MaxRecords, parsed : 0..MaxRecords] :
                c.parsed <= c.records /\ <<c.records, c.parsed>> \in Sizes}
NoFile == [id |-> 0, records |-> 0, parsed |-> 0]
WellFormed(f) == f.parsed = f.records

VARIABLES
    scheme,      \* CHURRO_SCHEME of the jobs of a file
    file,        \* what is in the watched directory under the name
    processed,   \* and under the name with .churro-processed
    uploads,     \* arrivals so far
    dataprov,    \* jobs with a row in dataprov
    pc,          \* where each job is
    opened,      \* the file the job opened
    n,           \* recordsRead, or the index of the loop
    statsBase,   \* what UpdatePipelineStats has read
    metricBase,  \* the value bumpMetric has read
    refused      \* history: rows whose insert failed

diskVars == <<scheme, file, processed, uploads>>
jobVars == <<dataprov, pc, opened, n, statsBase, metricBase, refused>>
vars == <<dbVars, diskVars, jobVars>>

Init ==
    /\ EmptyDatabase
    /\ scheme \in [Files -> Schemes]
    /\ file = [f \in Files |-> NoFile]
    /\ processed = [f \in Files |-> NoFile]
    /\ uploads = 0
    /\ dataprov = {}
    /\ pc = [j \in Jobs |-> "idle"]
    /\ opened = [j \in Jobs |-> NoFile]
    /\ n = [j \in Jobs |-> 0]
    /\ statsBase = [j \in Jobs |-> NoStats]
    /\ metricBase = [j \in Jobs |-> 0]
    /\ refused = {}

Scheme(j) == scheme[FileOf[j]]
Goto(j, l) == pc' = [pc EXCEPT ![j] = l]
Row(j, k) == [key |-> <<j, k>>]

-----------------------------------------------------------------------------
(* The environment: users put files in the directory, the extractsource    *)
(* service starts a pod for a file it has seen, and pods are deleted, run  *)
(* out of memory, panic or call os.Exit.                                   *)

Upload(f) ==
    /\ uploads < MaxUploads
    /\ uploads' = uploads + 1
    /\ \E c \in Contents : c.id = uploads' /\ file' = [file EXCEPT ![f] = c]
    /\ UNCHANGED <<dbVars, scheme, processed, jobVars>>

Launch(j) ==
    /\ pc[j] = "idle"
    /\ file[FileOf[j]] # NoFile \/ processed[FileOf[j]] # NoFile
    /\ Goto(j, "register")
    /\ UNCHANGED <<dbVars, diskVars, dataprov, opened, n, statsBase, metricBase, refused>>

Kill(j) ==
    /\ pc[j] \notin {"idle", "ended", "dead"}
    /\ Goto(j, "dead")
    /\ UNCHANGED <<dbVars, diskVars, dataprov, opened, n, statsBase, metricBase, refused>>

-----------------------------------------------------------------------------
(* NewExtractServer up to the extraction.                                  *)

Register(j) ==
    /\ pc[j] = "register"
    /\ dataprov' = dataprov \cup {j}
    /\ Goto(j, "open")
    /\ UNCHANGED <<dbVars, diskVars, opened, n, statsBase, metricBase, refused>>

RegisterFails(j) ==
    /\ pc[j] = "register"
    /\ Goto(j, "dead")
    /\ UNCHANGED <<dbVars, diskVars, dataprov, opened, n, statsBase, metricBase, refused>>

\* Every extraction opens the file first; all but the one of CSV parse it to
\* its end before they load any of it.
Open(j) ==
    /\ pc[j] = "open"
    /\ LET f == file[FileOf[j]]
       IN  /\ f # NoFile
           /\ opened' = [opened EXCEPT ![j] = f]
           /\ Goto(j, IF Scheme(j) = "csv" \/ WellFormed(f) THEN "table" ELSE "getMetric")
    /\ UNCHANGED <<dbVars, diskVars, dataprov, n, statsBase, metricBase, refused>>

\* The file is not there any more, or cannot be opened.
OpenFails(j) ==
    /\ pc[j] = "open"
    /\ Goto(j, "getMetric")
    /\ UNCHANGED <<dbVars, diskVars, dataprov, opened, n, statsBase, metricBase, refused>>

\* tableCheck: CREATE TABLE IF NOT EXISTS.
TableCheck(j) ==
    /\ pc[j] = "table"
    /\ \/ Goto(j, "read")
       \/ Goto(j, IF Scheme(j) = "xlsx" THEN "dead" ELSE "getMetric")
    /\ UNCHANGED <<dbVars, diskVars, dataprov, opened, n, statsBase, metricBase, refused>>

-----------------------------------------------------------------------------
(* The extraction.  CSV, XLSX and XML load one record at a time, JSON the  *)
(* document as one row, JSONPath the rows of all matches in one statement. *)

\* How often the loop of the extraction goes round.  The one of CSV parses as
\* it goes and returns at the first record that it cannot parse.
Units(j) ==
    CASE Scheme(j) \in {"json", "jsonpath"} -> 1
      [] Scheme(j) = "csv" -> opened[j].parsed
      [] OTHER -> opened[j].records

\* Headers are skipped in CSV and XLSX files.
Skipped(j, k) == Scheme(j) \in {"csv", "xlsx"} /\ k <= SkipHeaders

\* The rows of the unit at n[j].
Batch(j) ==
    IF Scheme(j) = "jsonpath"
    THEN {Row(j, k) : k \in 1..opened[j].records}
    ELSE {Row(j, n[j])}

\* Mutant of ReadRecord: the loop goes on behind a record that does not parse,
\* and takes the end of the file for one.
ReadRecordTooFar(j) ==
    /\ pc[j] = "read"
    /\ n[j] <= opened[j].records
    /\ n' = [n EXCEPT ![j] = @ + 1]
    /\ Goto(j, IF Skipped(j, n'[j]) THEN "read" ELSE "load")
    /\ UNCHANGED <<dbVars, diskVars, dataprov, opened, statsBase, metricBase, refused>>

\* The next record.  XML jobs insert a log entry too, but in the admin
\* database, which has no table extractlog, and ignore the error.
ReadRecord(j) ==
    /\ pc[j] = "read"
    /\ n[j] < Units(j)
    /\ n' = [n EXCEPT ![j] = @ + 1]
    /\ Goto(j, CASE Skipped(j, n'[j]) -> "read"
                 [] ~Skipped(j, n'[j]) /\ Scheme(j) \in {"csv", "json", "jsonpath"} -> "log"
                 [] OTHER -> "load")
    /\ UNCHANGED <<dbVars, diskVars, dataprov, opened, statsBase, metricBase, refused>>

\* Mutant of EndOfFile: the loop can end before it has read all it could.
EndOfFileEarly(j) ==
    /\ pc[j] = "read"
    /\ n[j] <= Units(j)
    /\ Goto(j, IF Scheme(j) = "xlsx" THEN "log" ELSE "getMetric")
    /\ UNCHANGED <<dbVars, diskVars, dataprov, opened, n, statsBase, metricBase, refused>>

\* The end of the file, or the CSV record that does not parse: the extraction
\* returns its error, which the caller logs before it counts and renames the
\* file like any other.
EndOfFile(j) ==
    /\ pc[j] = "read"
    /\ n[j] = Units(j)
    /\ Goto(j, IF Scheme(j) = "xlsx" THEN "log" ELSE "getMetric")
    /\ UNCHANGED <<dbVars, diskVars, dataprov, opened, n, statsBase, metricBase, refused>>

\* Mutant of RecordsLoaded: the entry says what the file has.
RecordsLoadedOfFile(j) == opened[j].records

\* RecordsLoaded of the entry that the job creates.
RecordsLoaded(j) ==
    CASE Scheme(j) = "csv" -> n[j]
      [] Scheme(j) = "json" -> 1
      [] OTHER -> opened[j].records

\* The log entry, before the row (CSV, JSON, JSONPath) or at the end (XLSX);
\* a CSV job creates one for each row.  Errors are logged and ignored.
LogExtract(j) ==
    /\ pc[j] = "log"
    /\ CreateExtractLog(j, RecordsLoaded(j)) \/ UNCHANGED extractlog
    /\ Goto(j, IF Scheme(j) = "xlsx" THEN "getMetric" ELSE "load")
    /\ UNCHANGED <<rows, pipelineStats, filesProcessed, diskVars,
                   dataprov, opened, n, statsBase, metricBase, refused>>

\* processCSV, processXLSX, processXML, processJSONPath; processJSON writes no statistics.
Load(j) ==
    /\ pc[j] = "load"
    /\ Insert(Batch(j))
    /\ Goto(j, IF Scheme(j) = "json" THEN "read" ELSE "getStats")
    /\ UNCHANGED <<extractlog, pipelineStats, filesProcessed, diskVars,
                   dataprov, opened, n, statsBase, metricBase, refused>>

\* Mutant of LoadFails: the first row that is refused ends the extraction.
LoadFailsReturns(j) ==
    /\ pc[j] = "load"
    /\ refused' = refused \cup Batch(j)
    /\ Goto(j, "getMetric")
    /\ UNCHANGED <<dbVars, diskVars, dataprov, opened, n, statsBase, metricBase>>

LoadFails(j) ==
    /\ pc[j] = "load"
    /\ refused' = refused \cup Batch(j)
    /\ Goto(j, "read")
    /\ UNCHANGED <<dbVars, diskVars, dataprov, opened, n, statsBase, metricBase>>

\* Mutant of GetStats: recordsRead is added as well as the rows of the statement.
GetStatsTwice(j) ==
    /\ pc[j] = "getStats"
    /\ \E s \in StatsOf(FileOf[j]) :
           statsBase' = [statsBase EXCEPT ![j] = [s EXCEPT !.records = @ + n[j]]]
    /\ Goto(j, "putStats")
    /\ UNCHANGED <<dbVars, diskVars, dataprov, opened, n, metricBase, refused>>

GetStats(j) ==
    /\ pc[j] = "getStats"
    /\ \E s \in StatsOf(FileOf[j]) : statsBase' = [statsBase EXCEPT ![j] = s]
    /\ Goto(j, "putStats")
    /\ UNCHANGED <<dbVars, diskVars, dataprov, opened, n, metricBase, refused>>

PutStats(j) ==
    /\ pc[j] = "putStats"
    /\ WriteStats(FileOf[j], statsBase[j], Batch(j))
    /\ statsBase' = [statsBase EXCEPT ![j] = NoStats]
    /\ Goto(j, "read")
    /\ UNCHANGED <<rows, extractlog, filesProcessed, diskVars,
                   dataprov, opened, n, metricBase, refused>>

\* Either statement of UpdatePipelineStats fails.
StatsFail(j) ==
    /\ pc[j] \in {"getStats", "putStats"}
    /\ statsBase' = [statsBase EXCEPT ![j] = NoStats]
    /\ Goto(j, "read")
    /\ UNCHANGED <<dbVars, diskVars, dataprov, opened, n, metricBase, refused>>

-----------------------------------------------------------------------------
(* bumpMetric and renameFile, whatever the extraction returned.            *)

\* No row of extractsourcemetric is ever created, so the first loop is empty.
GetMetric(j) ==
    /\ pc[j] = "getMetric"
    /\ metricBase' = [metricBase EXCEPT ![j] = filesProcessed]
    /\ Goto(j, "putMetric")
    /\ UNCHANGED <<dbVars, diskVars, dataprov, opened, n, statsBase, refused>>

\* Mutant of PutMetric: the value is written as an increment.
PutMetricAdds(j) ==
    /\ pc[j] = "putMetric"
    /\ UpdatePipelineMetric(filesProcessed + metricBase[j] + 1)
    /\ metricBase' = [metricBase EXCEPT ![j] = 0]
    /\ Goto(j, "rename")
    /\ UNCHANGED <<rows, extractlog, pipelineStats, diskVars,
                   dataprov, opened, n, statsBase, refused>>

PutMetric(j) ==
    /\ pc[j] = "putMetric"
    /\ UpdatePipelineMetric(metricBase[j] + 1)
    /\ metricBase' = [metricBase EXCEPT ![j] = 0]
    /\ Goto(j, "rename")
    /\ UNCHANGED <<rows, extractlog, pipelineStats, diskVars,
                   dataprov, opened, n, statsBase, refused>>

MetricFails(j) ==
    /\ pc[j] \in {"getMetric", "putMetric"}
    /\ metricBase' = [metricBase EXCEPT ![j] = 0]
    /\ Goto(j, "rename")
    /\ UNCHANGED <<dbVars, diskVars, dataprov, opened, n, statsBase, refused>>

\* Mutant of RenameFile: the name is taken away before the file is opened.
RenameFileEarly(j) ==
    /\ pc[j] \in {"register", "rename"}
    /\ LET f == FileOf[j]
       IN  /\ file[f] # NoFile
           /\ processed' = [processed EXCEPT ![f] = file[f]]
           /\ file' = [file EXCEPT ![f] = NoFile]
    /\ Goto(j, IF pc[j] = "register" THEN "open" ELSE "ended")
    /\ UNCHANGED <<dbVars, scheme, uploads, dataprov, opened, n, statsBase, metricBase, refused>>

\* os.Rename of what has the name now, which need not be what was opened; it
\* replaces the file processed before.
RenameFile(j) ==
    /\ pc[j] = "rename"
    /\ LET f == FileOf[j]
       IN  \/ /\ file[f] # NoFile
              /\ processed' = [processed EXCEPT ![f] = file[f]]
              /\ file' = [file EXCEPT ![f] = NoFile]
           \/ UNCHANGED <<processed, file>>
    /\ Goto(j, "ended")
    /\ UNCHANGED <<dbVars, scheme, uploads, dataprov, opened, n, statsBase, metricBase, refused>>

-----------------------------------------------------------------------------
Step(j) ==
    \/ Register(j) \/ RegisterFails(j)
    \/ Open(j) \/ OpenFails(j) \/ TableCheck(j)
    \/ ReadRecord(j) \/ EndOfFile(j) \/ LogExtract(j)
    \/ Load(j) \/ LoadFails(j)
    \/ GetStats(j) \/ PutStats(j) \/ StatsFail(j)
    \/ GetMetric(j) \/ PutMetric(j) \/ MetricFails(j)
    \/ RenameFile(j)

Next ==
    \/ \E f \in Files : Upload(f)
    \/ \E j \in Jobs : Launch(j) \/ Kill(j) \/ Step(j)

Spec == Init /\ [][Next]_vars

-----------------------------------------------------------------------------
Labels == {"idle", "register", "open", "table", "read", "log", "load", "getStats",
           "putStats", "getMetric", "putMetric", "rename", "ended", "dead"}

AllRows == {Row(j, k) : j \in Jobs, k \in 1..MaxRecords}

StatsRows == [file : Files, records : Nat, counted : SUBSET AllRows]

\* Type invariant of the job's locals, the disk and the tables.
TypeOK ==
    /\ rows \subseteq AllRows /\ refused \subseteq AllRows
    /\ extractlog \in [Jobs -> Nat \cup {NoEntry}]
    /\ pipelineStats \subseteq StatsRows
    /\ filesProcessed \in Nat
    /\ scheme \in [Files -> Schemes]
    /\ file \in [Files -> Contents \cup {NoFile}]
    /\ processed \in [Files -> Contents \cup {NoFile}]
    /\ uploads \in 0..MaxUploads
    /\ dataprov \subseteq Jobs
    /\ pc \in [Jobs -> Labels]
    /\ opened \in [Jobs -> Contents \cup {NoFile}]
    /\ n \in [Jobs -> 0..MaxRecords]
    /\ statsBase \in [Jobs -> StatsRows \cup {NoStats}]
    /\ metricBase \in [Jobs -> Nat]

\* The rows that a job has to load from the file it opened.
Due(j) ==
    CASE Scheme(j) \in {"csv", "xlsx"} -> {Row(j, k) : k \in (SkipHeaders + 1)..opened[j].records}
      [] Scheme(j) = "json" -> {Row(j, 1)}
      [] OTHER -> {Row(j, k) : k \in 1..opened[j].records}

\* Of these, the rows its loop comes to: a CSV job leaves those behind the first
\* record that does not parse.
Loadable(j) == {r \in Due(j) : Scheme(j) = "csv" => r.key[2] <= opened[j].parsed}

Tried(j) == {r \in rows \cup refused : r.key[1] = j}

\* A job tries each row of the file it has opened that its loop comes to, and
\* nothing else: at no time has it inserted, or failed to insert, a row that is
\* a header, not in its file or behind a CSV record that does not parse, and
\* once it is over, refused inserts, log entries and statistics on the way left
\* none of the others out (a job with n[j] = 0 has read nothing).  The rows
\* behind such a record (csv.go:89) are never tried, although the file is
\* counted and marked as processed.
RowsOfTheFile ==
    \A j \in Jobs :
        /\ Tried(j) \subseteq Loadable(j)
        /\ pc[j] \in {"getMetric", "putMetric", "rename", "ended"} /\ n[j] # 0 =>
               Tried(j) = Loadable(j)

\* The log is not ahead of its job: an entry, of a job that dataprov knows,
\* never says more records than the job has read, and that of an XLSX job,
\* written last, is there only when every row was tried.
LogNotAhead ==
    \A j \in Jobs : extractlog[j] # NoEntry =>
        /\ j \in dataprov
        /\ n[j] # 0 \/ Units(j) = 0
        /\ extractlog[j] <= IF Scheme(j) = "jsonpath" THEN opened[j].records ELSE n[j]
        /\ Scheme(j) = "xlsx" => Tried(j) = Due(j)

\* Jobs read and write pipeline_stats in separate statements, so updates are
\* lost; but no row of it ever says more records than were loaded from its file.
StatsNotAhead ==
    \A s \in pipelineStats :
        s.records <= Cardinality({r \in rows : FileOf[r.key[1]] = s.file})

\* The jobs that are through with bumpMetric, or stopped.
Through == {j \in Jobs : pc[j] \in {"rename", "ended", "dead"}}

\* bumpMetric is a read and a write, so increments are lost, and the value
\* may even go back; but it never exceeds the number of jobs that ended.
MetricNotAhead == filesProcessed <= Cardinality(Through)

\* renameFile takes whatever has the name, whatever became of the extraction.
\* A file is marked as processed that no job has opened only if some job of the
\* name has ended that had opened an earlier file of the name, or none at all.
\* The latter may be the very job that was started for the file: where the open
\* fails, the file is counted and renamed all the same (server.go:226).
MarkedUnopened ==
    \A f \in Files :
        processed[f] # NoFile /\ (\A j \in Jobs : opened[j] # processed[f]) =>
            \E j \in Jobs :
                /\ FileOf[j] = f /\ pc[j] = "ended"
                /\ opened[j] = NoFile \/ opened[j].id < processed[f].id
-----------------------------------------------------------------------------
(* What a job promises of its rows, and how its program counter and the    *)
(* tables map to it.                                                       *)

LoadPhase ==
    [j \in Jobs |->
        CASE pc[j] \in {"idle", "register", "open"} -> "waits"
          [] pc[j] \in {"getMetric", "putMetric", "rename"} -> "over"
          [] pc[j] = "ended" -> "marked"
          [] pc[j] = "dead" -> "stopped"
          [] OTHER -> "loads"]
LoadLeft ==
    [j \in Jobs |-> IF opened[j] = NoFile THEN {}
                    ELSE {r.key[2] : r \in Due(j) \ Tried(j)}]
Keys(table) == {r.key : r \in table}

Loading == INSTANCE FileLoad WITH
    phase <- LoadPhase, taken <- opened, left <- LoadLeft,
    stored <- Keys(rows), refused <- Keys(refused)

\* The steps of a job, with its statements on the log, the statistics and the
\* metric between them, implement FileLoad: rows are tried in order, each
\* once, of the one file that was taken, up to a CSV record that does not
\* parse, and the rename comes last.
LoadSpec == Loading!Spec
============================================================================
