------------------------------ MODULE FileLoad ------------------------------
(***************************************************************************)
(* What an extract job promises of the rows of a file, whatever happens to *)
(* the log, the statistics and the metric on the way, and whatever other   *)
(* jobs and users do: it takes the file that has its name at one moment,   *)
(* and no other; it tries the rows of that file in their order, each once, *)
(* and each is stored or refused; it gives up only before the first row,   *)
(* at a record of a CSV file that does not parse, or because the pod ends; *)
(* and a file is marked as processed only by a job that is over.           *)
(***************************************************************************)
EXTENDS Naturals

CONSTANTS
    Jobs, Files, FileOf, SkipHeaders,
    Contents,   \* what a file can be: its records, and those before the first bad one
    NoFile

VARIABLES
    scheme,            \* of the jobs of each file name
    file, processed,   \* the directory: by name, and by the name of processed files
    phase,             \* of each job: it waits, loads, is over, has marked, or has stopped
    taken,             \* the file that each job took
    left,              \* the numbers of its rows that are not tried yet
    stored, refused    \* rows, each a pair of a job and a number

vars == <<scheme, file, processed, phase, taken, left, stored, refused>>

Init ==
    /\ scheme \in [Files -> {"csv", "xlsx", "json", "jsonpath", "xml"}]
    /\ file = [f \in Files |-> NoFile] /\ processed = file
    /\ phase = [j \in Jobs |-> "waits"]
    /\ taken = [j \in Jobs |-> NoFile]
    /\ left = [j \in Jobs |-> {}]
    /\ stored = {} /\ refused = {}

Scheme(j) == scheme[FileOf[j]]

\* The numbers of the rows of a file.  A JSON document is one row.
Numbers(j, f) ==
    CASE Scheme(j) \in {"csv", "xlsx"} -> {k \in 1..f.records : k > SkipHeaders}
      [] Scheme(j) = "json" -> {1}
      [] OTHER -> 1..f.records

\* The rows of a CSV file behind the first record that does not parse.
Unread(j) ==
    IF Scheme(j) = "csv" THEN {k \in Numbers(j, taken[j]) : k > taken[j].parsed} ELSE {}

\* What is tried next: all rows at once, or the first that is left.
Upcoming(j) ==
    IF Scheme(j) = "jsonpath" THEN left[j]
    ELSE {k \in left[j] : \A l \in left[j] : k <= l}

Pass(j, from, to) == phase[j] = from /\ phase' = [phase EXCEPT ![j] = to]

Arrive(f) ==
    /\ \E c \in Contents : file' = [file EXCEPT ![f] = c]
    /\ UNCHANGED <<scheme, processed, phase, taken, left, stored, refused>>

\* A file that cannot be parsed is over at once.
Take(j) ==
    /\ Pass(j, "waits", "loads") \/ Pass(j, "waits", "over")
    /\ file[FileOf[j]] # NoFile
    /\ taken' = [taken EXCEPT ![j] = file[FileOf[j]]]
    /\ left' = [left EXCEPT ![j] = Numbers(j, file[FileOf[j]])]
    /\ UNCHANGED <<scheme, file, processed, stored, refused>>

TakeNone(j) ==
    /\ Pass(j, "waits", "over")
    /\ UNCHANGED <<scheme, file, processed, taken, left, stored, refused>>

Try(j) ==
    /\ phase[j] = "loads" /\ left[j] # Unread(j)
    /\ left' = [left EXCEPT ![j] = @ \ Upcoming(j)]
    /\ \/ stored' = stored \cup {j} \X Upcoming(j) /\ UNCHANGED refused
       \/ refused' = refused \cup {j} \X Upcoming(j) /\ UNCHANGED stored
    /\ UNCHANGED <<scheme, file, processed, phase, taken>>

\* No row is left but those that are never read, or none was tried.
Finish(j) ==
    /\ Pass(j, "loads", "over")
    /\ left[j] \in {Unread(j), Numbers(j, taken[j])}
    /\ UNCHANGED <<scheme, file, processed, taken, left, stored, refused>>

\* What has the name now takes the place of what was processed before.
Mark(j) ==
    /\ Pass(j, "over", "marked")
    /\ LET f == FileOf[j]
       IN  \/ /\ file[f] # NoFile
              /\ processed' = [processed EXCEPT ![f] = file[f]]
              /\ file' = [file EXCEPT ![f] = NoFile]
           \/ UNCHANGED <<file, processed>>
    /\ UNCHANGED <<scheme, taken, left, stored, refused>>

Stop(j) ==
    /\ \E at \in {"waits", "loads", "over"} : Pass(j, at, "stopped")
    /\ UNCHANGED <<scheme, file, processed, taken, left, stored, refused>>

Next ==
    \/ \E f \in Files : Arrive(f)
    \/ \E j \in Jobs :
          Take(j) \/ TakeNone(j) \/ Try(j) \/ Finish(j) \/ Mark(j) \/ Stop(j)

Spec == Init /\ [][Next]_vars
=============================================================================
