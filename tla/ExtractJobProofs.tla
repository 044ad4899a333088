-------------------------- MODULE ExtractJobProofs --------------------------
(***************************************************************************)
(* Proofs about churro-extract on files, for any number of jobs, files,    *)
(* records, headers and uploads, and for both databases.                   *)
(***************************************************************************)
EXTENDS ExtractJob, FiniteSetTheorems, TLAPS

-----------------------------------------------------------------------------
(* Types, and where each job is: that says what its locals hold.  What a   *)
(* job has opened stays.                                                   *)

Before == {"idle", "register", "open", "table"}
After == {"getMetric", "putMetric", "rename", "ended"}
Stats == {"getStats", "putStats"}
Loads == {"table", "read", "log", "load"} \cup Stats

\* The record at n[j] is read and not yet tried.
InHand(j) ==
    \/ pc[j] = "load"
    \/ pc[j] = "log" /\ Scheme(j) # "xlsx"

Located(j) ==
    /\ pc[j] \in Before => n[j] = 0
    /\ pc[j] \in {"idle", "register", "open"} => opened[j] = NoFile
    /\ pc[j] \in Loads => opened[j] # NoFile
    /\ n[j] <= Units(j)
    /\ (InHand(j) \/ pc[j] \in Stats) => n[j] # 0 /\ ~Skipped(j, n[j])
    /\ pc[j] = "log" => Scheme(j) # "xml"
    /\ (pc[j] = "log" /\ Scheme(j) = "xlsx") => n[j] = Units(j)
    /\ (pc[j] \in After /\ n[j] # 0) => n[j] = Units(j)
    /\ pc[j] \notin {"idle", "register", "dead"} => j \in dataprov

Typed == TypeOK /\ \A j \in Jobs : Located(j)

USE JobsAssumption, DatabaseAssumption

\* What a step of another job leaves alone.
Same(j) ==
    /\ pc'[j] = pc[j] /\ opened'[j] = opened[j] /\ n'[j] = n[j]
    /\ scheme' = scheme /\ (j \in dataprov => j \in dataprov')

LEMMA SameLocated ==
    ASSUME NEW j \in Jobs, Located(j), Same(j)
    PROVE  Located(j)'
BY DEF Located, Same, InHand, Scheme, Units, Skipped

LEMMA InitTyped == Init => Typed
<1> SUFFICES ASSUME Init PROVE Typed
  OBVIOUS
<1> USE DEF Init, EmptyDatabase
<1>1. TypeOK
  BY DEF TypeOK, Labels
<1>2. ASSUME NEW j \in Jobs PROVE Located(j)
  BY DEF Located, Before, After, Loads, Stats, InHand, Units, NoFile
<1> QED
  BY <1>1, <1>2 DEF Typed

LEMMA StatsRead ==
    ASSUME NEW s \in StatsRows \cup {NoStats}
    PROVE  s.records \in Nat /\ s.counted \in SUBSET AllRows
<1>1. CASE s \in StatsRows
  BY <1>1 DEF StatsRows
<1>2. CASE s = NoStats
  BY <1>2 DEF NoStats
<1> QED
  BY <1>1, <1>2

LEMMA UnitsType ==
    ASSUME TypeOK, NEW j \in Jobs
    PROVE  /\ Scheme(j) \in Schemes /\ opened[j].records \in 0..MaxRecords
           /\ opened[j].parsed \in 0..opened[j].records
           /\ Units(j) \in 0..MaxRecords
<1>1. Scheme(j) \in Schemes
  BY DEF TypeOK, Scheme
<1>2. opened[j].records \in 0..MaxRecords /\ opened[j].parsed \in 0..opened[j].records
  <2>1. opened[j] \in Contents \cup {NoFile}
    BY DEF TypeOK
  <2> QED
    BY <2>1 DEF Contents, NoFile
<1> QED
  BY <1>1, <1>2 DEF Units

\* A batch is a finite set of rows of its own job, some of them.
LEMMA BatchType ==
    ASSUME TypeOK, NEW j \in Jobs, n[j] # 0
    PROVE  /\ Batch(j) \subseteq AllRows /\ IsFiniteSet(Batch(j))
           /\ \A r \in Batch(j) : r.key[1] = j
<1>1. n[j] \in 1..MaxRecords
  BY DEF TypeOK
<1>2. CASE Scheme(j) = "jsonpath"
  <2> DEFINE m == opened[j].records
             B == {Row(j, k) : k \in 1..m}
             f == [k \in 1..m |-> Row(j, k)]
  <2>1. m \in 0..MaxRecords
    BY UnitsType
  <2>2. B \subseteq AllRows /\ \A r \in B : r.key[1] = j
    BY <2>1 DEF AllRows, Row
  <2>3. f \in Surjection(1..m, B)
    BY DEF Surjection
  <2>4. IsFiniteSet(1..m)
    BY <2>1, FS_Interval
  <2> HIDE DEF f
  <2>5. IsFiniteSet(B)
    BY <2>3, <2>4, FS_Surjection
  <2> QED
    BY <1>2, <2>2, <2>5 DEF Batch
<1>3. CASE Scheme(j) # "jsonpath"
  <2>1. Batch(j) = {Row(j, n[j])}
    BY <1>3 DEF Batch
  <2>2. IsFiniteSet({Row(j, n[j])})
    BY FS_Singleton
  <2> QED
    BY <1>1, <2>1, <2>2 DEF AllRows, Row
<1> QED
  BY <1>2, <1>3

LEMMA StepTyped == Typed /\ [Next]_vars => Typed'
<1> SUFFICES ASSUME Typed, [Next]_vars PROVE Typed'
  OBVIOUS
<1> USE DEF Typed, Goto, vars, dbVars, diskVars, jobVars
<1>1. ASSUME NEW f \in Files, Upload(f) PROVE Typed'
  <2>1. TypeOK'
    BY <1>1 DEF Upload, TypeOK, Contents
  <2>2. \A i \in Jobs : Same(i)
    BY <1>1 DEF Upload, Same
  <2> QED
    BY <2>1, <2>2, SameLocated
<1>2. ASSUME NEW j \in Jobs, Launch(j) PROVE Typed'
  <2>1. TypeOK'
    BY <1>2 DEF Launch, TypeOK, Labels
  <2>2. \A i \in Jobs \ {j} : Same(i)
    BY <1>2 DEF Launch, Same, TypeOK
  <2>3. Located(j)'
    BY <1>2 DEF Launch, Located, Before, After, Loads, Stats, InHand, Units, Skipped, Scheme, TypeOK
  <2> QED
    BY <2>1, <2>2, <2>3, SameLocated
<1>3. ASSUME NEW j \in Jobs, Kill(j) PROVE Typed'
  <2>1. TypeOK'
    BY <1>3 DEF Kill, TypeOK, Labels
  <2>2. \A i \in Jobs \ {j} : Same(i)
    BY <1>3 DEF Kill, Same, TypeOK
  <2>3. Located(j)'
    BY <1>3 DEF Kill, Located, Before, After, Loads, Stats, InHand, Units, Skipped, Scheme, TypeOK
  <2> QED
    BY <2>1, <2>2, <2>3, SameLocated
<1>4. ASSUME NEW j \in Jobs, Register(j) PROVE Typed'
  <2>1. TypeOK'
    BY <1>4 DEF Register, TypeOK, Labels
  <2>2. \A i \in Jobs \ {j} : Same(i)
    BY <1>4 DEF Register, Same, TypeOK
  <2>3. Located(j)'
    BY <1>4 DEF Register, Located, Before, After, Loads, Stats, InHand, Units, Skipped, Scheme, TypeOK
  <2> QED
    BY <2>1, <2>2, <2>3, SameLocated
<1>5. ASSUME NEW j \in Jobs, RegisterFails(j) PROVE Typed'
  <2>1. TypeOK'
    BY <1>5 DEF RegisterFails, TypeOK, Labels
  <2>2. \A i \in Jobs \ {j} : Same(i)
    BY <1>5 DEF RegisterFails, Same, TypeOK
  <2>3. Located(j)'
    BY <1>5 DEF RegisterFails, Located, Before, After, Loads, Stats, InHand, Units, Skipped, Scheme, TypeOK
  <2> QED
    BY <2>1, <2>2, <2>3, SameLocated
<1>6. ASSUME NEW j \in Jobs, Open(j) PROVE Typed'
  <2>a. /\ opened'[j] \in Contents /\ n'[j] = 0 /\ scheme' = scheme
        /\ opened'[j].records \in Nat /\ opened'[j].parsed \in Nat /\ j \in dataprov'
        /\ pc'[j] \in {"table", "getMetric"}
    BY <1>6 DEF Open, TypeOK, Contents, Located, Before
  <2>1. TypeOK'
    BY <1>6 DEF Open, TypeOK, Labels
  <2>2. \A i \in Jobs \ {j} : Same(i)
    BY <1>6 DEF Open, Same, TypeOK
  <2>3. Located(j)'
    BY <1>6, <2>a DEF Open, Located, Before, After, Loads, Stats, InHand, Units, Skipped, Scheme, TypeOK
  <2> QED
    BY <2>1, <2>2, <2>3, SameLocated
<1>7. ASSUME NEW j \in Jobs, OpenFails(j) PROVE Typed'
  <2>1. TypeOK'
    BY <1>7 DEF OpenFails, TypeOK, Labels
  <2>2. \A i \in Jobs \ {j} : Same(i)
    BY <1>7 DEF OpenFails, Same, TypeOK
  <2>3. Located(j)'
    BY <1>7 DEF OpenFails, Located, Before, After, Loads, Stats, InHand, Units, Skipped, Scheme, TypeOK
  <2> QED
    BY <2>1, <2>2, <2>3, SameLocated
<1>8. ASSUME NEW j \in Jobs, TableCheck(j) PROVE Typed'
  <2>1. TypeOK'
    BY <1>8 DEF TableCheck, TypeOK, Labels
  <2>2. \A i \in Jobs \ {j} : Same(i)
    BY <1>8 DEF TableCheck, Same, TypeOK
  <2>3. Located(j)'
    BY <1>8, UnitsType
       DEF TableCheck, Located, Before, After, Loads, Stats, InHand, Units, Skipped, Scheme, TypeOK
  <2> QED
    BY <2>1, <2>2, <2>3, SameLocated
<1>9. ASSUME NEW j \in Jobs, ReadRecord(j) PROVE Typed'
  <2>a. n'[j] \in 0..MaxRecords /\ n'[j] = n[j] + 1 /\ Units(j) \in 0..MaxRecords
    BY <1>9, UnitsType DEF ReadRecord, TypeOK
  <2>1. TypeOK'
    BY <1>9, <2>a DEF ReadRecord, TypeOK, Labels
  <2>2. \A i \in Jobs \ {j} : Same(i)
    BY <1>9 DEF ReadRecord, Same, TypeOK
  <2>3. Located(j)'
    BY <1>9, UnitsType, <2>a
       DEF ReadRecord, Located, Before, After, Loads, Stats, InHand, Units, Skipped, Scheme, TypeOK
  <2> QED
    BY <2>1, <2>2, <2>3, SameLocated
<1>10. ASSUME NEW j \in Jobs, EndOfFile(j) PROVE Typed'
  <2>1. TypeOK'
    BY <1>10 DEF EndOfFile, TypeOK, Labels
  <2>2. \A i \in Jobs \ {j} : Same(i)
    BY <1>10 DEF EndOfFile, Same, TypeOK
  <2>3. Located(j)'
    BY <1>10, UnitsType
       DEF EndOfFile, Located, Before, After, Loads, Stats, InHand, Units, Skipped, Scheme, TypeOK
  <2> QED
    BY <2>1, <2>2, <2>3, SameLocated
<1>11. ASSUME NEW j \in Jobs, LogExtract(j) PROVE Typed'
  <2>a. RecordsLoaded(j) \in Nat
    BY UnitsType DEF RecordsLoaded, TypeOK
  <2>1. TypeOK'
    BY <1>11, <2>a DEF LogExtract, TypeOK, Labels, CreateExtractLog
  <2>2. \A i \in Jobs \ {j} : Same(i)
    BY <1>11 DEF LogExtract, Same, TypeOK
  <2>3. Located(j)'
    BY <1>11, UnitsType
       DEF LogExtract, Located, Before, After, Loads, Stats, InHand, Units, Skipped, Scheme, TypeOK
  <2> QED
    BY <2>1, <2>2, <2>3, SameLocated
<1>12. ASSUME NEW j \in Jobs, Load(j) PROVE Typed'
  <2>a. Batch(j) \subseteq AllRows
    BY <1>12, BatchType DEF Load, Located, InHand
  <2>1. TypeOK'
    BY <1>12, <2>a DEF Load, TypeOK, Labels, Insert
  <2>2. \A i \in Jobs \ {j} : Same(i)
    BY <1>12 DEF Load, Same, TypeOK
  <2>3. Located(j)'
    BY <1>12 DEF Load, Located, Before, After, Loads, Stats, InHand, Units, Skipped, Scheme, TypeOK
  <2> QED
    BY <2>1, <2>2, <2>3, SameLocated
<1>13. ASSUME NEW j \in Jobs, LoadFails(j) PROVE Typed'
  <2>a. Batch(j) \subseteq AllRows
    BY <1>13, BatchType DEF LoadFails, Located, InHand
  <2>1. TypeOK'
    BY <1>13, <2>a DEF LoadFails, TypeOK, Labels
  <2>2. \A i \in Jobs \ {j} : Same(i)
    BY <1>13 DEF LoadFails, Same, TypeOK
  <2>3. Located(j)'
    BY <1>13 DEF LoadFails, Located, Before, After, Loads, Stats, InHand, Units, Skipped, Scheme, TypeOK
  <2> QED
    BY <2>1, <2>2, <2>3, SameLocated
<1>14. ASSUME NEW j \in Jobs, GetStats(j) PROVE Typed'
  <2>1. TypeOK'
    BY <1>14 DEF GetStats, TypeOK, Labels, StatsOf
  <2>2. \A i \in Jobs \ {j} : Same(i)
    BY <1>14 DEF GetStats, Same, TypeOK
  <2>3. Located(j)'
    BY <1>14 DEF GetStats, Located, Before, After, Loads, Stats, InHand, Units, Skipped, Scheme, TypeOK
  <2> QED
    BY <2>1, <2>2, <2>3, SameLocated
<1>15. ASSUME NEW j \in Jobs, PutStats(j) PROVE Typed'
  <2>a. pipelineStats' \subseteq StatsRows
    <3>1. statsBase[j] \in StatsRows \cup {NoStats} /\ FileOf[j] \in Files
      BY DEF TypeOK
    <3>2. statsBase[j].records \in Nat /\ statsBase[j].counted \in SUBSET AllRows
      BY <3>1, StatsRead
    <3>3. Batch(j) \subseteq AllRows /\ IsFiniteSet(Batch(j))
      BY <1>15, BatchType DEF PutStats, Located, Stats
    <3>4. Cardinality(Batch(j)) \in Nat
      BY <3>3, FS_CardinalityType
    <3> QED
      BY <1>15, <3>1, <3>2, <3>3, <3>4 DEF PutStats, WriteStats, StatsRows, TypeOK
  <2>1. TypeOK'
    BY <1>15, <2>a DEF PutStats, TypeOK, Labels
  <2>2. \A i \in Jobs \ {j} : Same(i)
    BY <1>15 DEF PutStats, Same, TypeOK
  <2>3. Located(j)'
    BY <1>15 DEF PutStats, Located, Before, After, Loads, Stats, InHand, Units, Skipped, Scheme, TypeOK
  <2> QED
    BY <2>1, <2>2, <2>3, SameLocated
<1>16. ASSUME NEW j \in Jobs, StatsFail(j) PROVE Typed'
  <2>1. TypeOK'
    BY <1>16 DEF StatsFail, TypeOK, Labels
  <2>2. \A i \in Jobs \ {j} : Same(i)
    BY <1>16 DEF StatsFail, Same, TypeOK
  <2>3. Located(j)'
    BY <1>16 DEF StatsFail, Located, Before, After, Loads, Stats, InHand, Units, Skipped, Scheme, TypeOK
  <2> QED
    BY <2>1, <2>2, <2>3, SameLocated
<1>17. ASSUME NEW j \in Jobs, GetMetric(j) PROVE Typed'
  <2>1. TypeOK'
    BY <1>17 DEF GetMetric, TypeOK, Labels
  <2>2. \A i \in Jobs \ {j} : Same(i)
    BY <1>17 DEF GetMetric, Same, TypeOK
  <2>3. Located(j)'
    BY <1>17 DEF GetMetric, Located, Before, After, Loads, Stats, InHand, Units, Skipped, Scheme, TypeOK
  <2> QED
    BY <2>1, <2>2, <2>3, SameLocated
<1>18. ASSUME NEW j \in Jobs, PutMetric(j) PROVE Typed'
  <2>1. TypeOK'
    BY <1>18 DEF PutMetric, TypeOK, Labels, UpdatePipelineMetric
  <2>2. \A i \in Jobs \ {j} : Same(i)
    BY <1>18 DEF PutMetric, Same, TypeOK
  <2>3. Located(j)'
    BY <1>18 DEF PutMetric, Located, Before, After, Loads, Stats, InHand, Units, Skipped, Scheme, TypeOK
  <2> QED
    BY <2>1, <2>2, <2>3, SameLocated
<1>19. ASSUME NEW j \in Jobs, MetricFails(j) PROVE Typed'
  <2>1. TypeOK'
    BY <1>19 DEF MetricFails, TypeOK, Labels
  <2>2. \A i \in Jobs \ {j} : Same(i)
    BY <1>19 DEF MetricFails, Same, TypeOK
  <2>3. Located(j)'
    BY <1>19 DEF MetricFails, Located, Before, After, Loads, Stats, InHand, Units, Skipped, Scheme, TypeOK
  <2> QED
    BY <2>1, <2>2, <2>3, SameLocated
<1>20. ASSUME NEW j \in Jobs, RenameFile(j) PROVE Typed'
  <2>1. TypeOK'
    BY <1>20 DEF RenameFile, TypeOK, Labels
  <2>2. \A i \in Jobs \ {j} : Same(i)
    BY <1>20 DEF RenameFile, Same, TypeOK
  <2>3. Located(j)'
    BY <1>20 DEF RenameFile, Located, Before, After, Loads, Stats, InHand, Units, Skipped, Scheme, TypeOK
  <2> QED
    BY <2>1, <2>2, <2>3, SameLocated
<1>21. CASE UNCHANGED vars
  <2>1. TypeOK' /\ \A i \in Jobs : Same(i)
    BY <1>21 DEF TypeOK, Same
  <2> QED
    BY <2>1, SameLocated
<1> QED
  BY <1>1, <1>2, <1>3, <1>4, <1>5, <1>6, <1>7, <1>8, <1>9, <1>10, <1>11, <1>12, <1>13, <1>14,
     <1>15, <1>16, <1>17, <1>18, <1>19, <1>20, <1>21 DEF Next, Step

\* Type correctness of the jobs: their locals, the files and the tables.
THEOREM TypeCorrect == Spec => []TypeOK
<1>1. Typed => TypeOK
  BY DEF Typed
<1> QED
  BY <1>1, InitTyped, StepTyped, PTL DEF Spec

-----------------------------------------------------------------------------
(* The metric.  What bumpMetric has read was written by a job that is      *)
(* through, and the job that writes it back, plus one, is not yet.         *)

MetricInv ==
    /\ filesProcessed <= Cardinality(Through)
    /\ \A j \in Jobs : pc[j] = "putMetric" => metricBase[j] <= Cardinality(Through)

\* What leaves the value and what has been read of it alone.
MetricKept ==
    /\ filesProcessed' = filesProcessed
    /\ Through \subseteq Through'
    /\ \A j \in Jobs : pc'[j] = "putMetric" => pc[j] = "putMetric" /\ metricBase'[j] = metricBase[j]

LEMMA ThroughFinite ==
    /\ IsFiniteSet(Through) /\ Cardinality(Through) \in Nat
    /\ IsFiniteSet(Through') /\ Cardinality(Through') \in Nat
<1>1. Through \subseteq Jobs /\ Through' \subseteq Jobs
  BY DEF Through
<1> QED
  BY <1>1, FS_Subset, FS_CardinalityType

LEMMA StepMetric == TypeOK /\ MetricInv /\ [Next]_vars => MetricInv'
<1> SUFFICES ASSUME TypeOK, MetricInv, [Next]_vars PROVE MetricInv'
  OBVIOUS
<1> USE DEF Goto, vars, dbVars, diskVars, jobVars
<1>1. ASSUME MetricKept PROVE MetricInv'
  <2>1. Cardinality(Through) <= Cardinality(Through')
    BY <1>1, ThroughFinite, FS_Subset DEF MetricKept
  <2> QED
    BY <1>1, <2>1, ThroughFinite DEF MetricKept, MetricInv, TypeOK
<1>2. ASSUME NEW f \in Files, Upload(f) PROVE MetricKept
  BY <1>2 DEF Upload, MetricKept, Through
<1>3. ASSUME NEW j \in Jobs,
             Launch(j) \/ Kill(j) \/ Register(j) \/ RegisterFails(j) \/ Open(j) \/ OpenFails(j)
             \/ TableCheck(j) \/ ReadRecord(j) \/ EndOfFile(j) \/ LogExtract(j)
      PROVE  MetricKept
  BY <1>3 DEF Launch, Kill, Register, RegisterFails, Open, OpenFails, TableCheck, ReadRecord,
              EndOfFile, LogExtract, MetricKept, Through, TypeOK
<1>4. ASSUME NEW j \in Jobs,
             Load(j) \/ LoadFails(j) \/ GetStats(j) \/ PutStats(j) \/ StatsFail(j)
             \/ MetricFails(j) \/ RenameFile(j)
      PROVE  MetricKept
  BY <1>4 DEF Load, LoadFails, GetStats, PutStats, StatsFail, MetricFails, RenameFile,
              MetricKept, Through, TypeOK
<1>5. ASSUME NEW j \in Jobs, GetMetric(j) PROVE MetricInv'
  <2>1. /\ filesProcessed' = filesProcessed /\ Through' = Through
        /\ metricBase'[j] = filesProcessed
        /\ \A i \in Jobs \ {j} : pc'[i] = pc[i] /\ metricBase'[i] = metricBase[i]
    BY <1>5 DEF GetMetric, Through, TypeOK
  <2> QED
    BY <2>1 DEF MetricInv
<1>6. ASSUME NEW j \in Jobs, PutMetric(j) PROVE MetricInv'
  <2>1. /\ filesProcessed' = metricBase[j] + 1
        /\ Through' = Through \cup {j} /\ j \notin Through
        /\ \A i \in Jobs : pc'[i] = "putMetric" =>
               pc[i] = "putMetric" /\ metricBase'[i] = metricBase[i]
    BY <1>6 DEF PutMetric, UpdatePipelineMetric, Through, TypeOK
  <2>2. Cardinality(Through') = Cardinality(Through) + 1
    BY <2>1, ThroughFinite, FS_AddElement
  <2>3. metricBase[j] <= Cardinality(Through) /\ metricBase[j] \in Nat
    BY <1>6 DEF PutMetric, MetricInv, TypeOK
  <2>4. filesProcessed' <= Cardinality(Through')
    BY <2>1, <2>2, <2>3, ThroughFinite
  <2>5. ASSUME NEW i \in Jobs, pc'[i] = "putMetric"
        PROVE  metricBase'[i] <= Cardinality(Through')
    <3>1. metricBase'[i] = metricBase[i] /\ metricBase[i] <= Cardinality(Through)
      BY <2>1, <2>5 DEF MetricInv
    <3> QED
      BY <2>2, <3>1, ThroughFinite DEF TypeOK
  <2> QED
    BY <2>4, <2>5 DEF MetricInv
<1>7. CASE UNCHANGED vars
  BY <1>1, <1>7 DEF MetricKept, Through
<1> QED
  BY <1>1, <1>2, <1>3, <1>4, <1>5, <1>6, <1>7 DEF Next, Step

\* Files Processed never exceeds the number of jobs that ended, however the
\* reads and writes of the jobs interleave and whichever of them are killed.
THEOREM MetricCorrect == Spec => []MetricNotAhead
<1> DEFINE Inv == Typed /\ MetricInv
<1>1. Init => Inv
  <2> SUFFICES ASSUME Init PROVE MetricInv
    BY InitTyped
  <2> QED
    BY ThroughFinite DEF Init, EmptyDatabase, MetricInv
<1>2. Inv /\ [Next]_vars => Inv'
  BY StepTyped, StepMetric DEF Typed
<1>3. Inv => MetricNotAhead
  BY DEF MetricInv, MetricNotAhead
<1> QED
  BY <1>1, <1>2, <1>3, PTL DEF Spec

-----------------------------------------------------------------------------
(* The renames.  Files are numbered as they arrive; a job that has opened  *)
(* a file has opened the one that is there or an earlier one, and has      *)
(* opened none before it is past Open.                                     *)

RenameInv ==
    /\ \A f \in Files : file[f].id <= uploads
    /\ \A j \in Jobs : opened[j].id <= uploads
    /\ \A j \in Jobs :
           file[FileOf[j]] # NoFile =>
               opened[j] = file[FileOf[j]] \/ opened[j].id < file[FileOf[j]].id
    /\ MarkedUnopened

\* What neither opens nor renames a file, nor takes a job back that ended.
FilesKept ==
    /\ UNCHANGED <<file, processed, opened, uploads>>
    /\ \A j \in Jobs : pc[j] = "ended" => pc'[j] = "ended"

LEMMA FileType ==
    ASSUME TypeOK
    PROVE  /\ \A f \in Files : file[f].id \in Nat /\ (file[f] # NoFile => file[f].id # 0)
           /\ \A f \in Files : /\ processed[f].id \in Nat
                              /\ processed[f] # NoFile => processed[f].id # 0
           /\ \A j \in Jobs : opened[j].id \in Nat
<1>1. \A c \in Contents \cup {NoFile} : c.id \in Nat /\ (c # NoFile => c.id # 0)
  BY DEF Contents, NoFile
<1> QED
  BY <1>1 DEF TypeOK

LEMMA StepRename == Typed /\ RenameInv /\ [Next]_vars => RenameInv'
<1> SUFFICES ASSUME Typed, RenameInv, [Next]_vars PROVE RenameInv'
  OBVIOUS
<1> USE DEF Goto, vars, dbVars, diskVars, jobVars
<1>1. ASSUME FilesKept PROVE RenameInv'
  BY <1>1 DEF FilesKept, RenameInv, MarkedUnopened
<1>2. ASSUME NEW f \in Files, Upload(f) PROVE RenameInv'
  <2>1. /\ uploads' = uploads + 1 /\ uploads \in Nat
        /\ \A g \in Files \ {f} : file'[g] = file[g]
        /\ file'[f].id = uploads + 1
        /\ UNCHANGED <<processed, opened, pc>>
    BY <1>2 DEF Upload, Typed, TypeOK
  <2>2. (\A g \in Files : file'[g].id <= uploads') /\ (\A j \in Jobs : opened'[j].id <= uploads')
    BY <2>1, FileType DEF RenameInv, Typed
  <2>3. ASSUME NEW j \in Jobs, file'[FileOf[j]] # NoFile
        PROVE  opened'[j] = file'[FileOf[j]] \/ opened'[j].id < file'[FileOf[j]].id
    <3>1. CASE FileOf[j] = f
      BY <2>1, <3>1, FileType DEF RenameInv, Typed
    <3>2. CASE FileOf[j] # f
      BY <2>1, <2>3, <3>2 DEF RenameInv
    <3> QED
      BY <3>1, <3>2
  <2>4. MarkedUnopened'
    BY <2>1 DEF RenameInv, MarkedUnopened
  <2> QED
    BY <2>2, <2>3, <2>4 DEF RenameInv
<1>3. ASSUME NEW j \in Jobs,
             Launch(j) \/ Kill(j) \/ Register(j) \/ RegisterFails(j) \/ OpenFails(j)
             \/ TableCheck(j) \/ ReadRecord(j) \/ EndOfFile(j) \/ LogExtract(j)
      PROVE  FilesKept
  BY <1>3 DEF Launch, Kill, Register, RegisterFails, OpenFails, TableCheck, ReadRecord,
              EndOfFile, LogExtract, FilesKept, Typed, TypeOK
<1>4. ASSUME NEW j \in Jobs,
             Load(j) \/ LoadFails(j) \/ GetStats(j) \/ PutStats(j) \/ StatsFail(j)
             \/ GetMetric(j) \/ PutMetric(j) \/ MetricFails(j)
      PROVE  FilesKept
  BY <1>4 DEF Load, LoadFails, GetStats, PutStats, StatsFail, GetMetric, PutMetric, MetricFails,
              FilesKept, Typed, TypeOK
<1>5. ASSUME NEW j \in Jobs, Open(j) PROVE RenameInv'
  <2>1. /\ opened'[j] = file[FileOf[j]] /\ opened[j] = NoFile /\ pc[j] = "open"
        /\ \A i \in Jobs \ {j} : opened'[i] = opened[i] /\ pc'[i] = pc[i]
        /\ UNCHANGED <<file, processed, uploads>>
    BY <1>5 DEF Open, Typed, TypeOK, Located
  <2>2. MarkedUnopened'
    BY <2>1 DEF RenameInv, MarkedUnopened
  <2> QED
    BY <2>1, <2>2 DEF RenameInv
<1>6. ASSUME NEW j \in Jobs, RenameFile(j) PROVE RenameInv'
  <2>1. /\ UNCHANGED <<opened, uploads>> /\ FileOf[j] \in Files
        /\ pc[j] = "rename" /\ pc'[j] = "ended"
        /\ \A i \in Jobs \ {j} : pc'[i] = pc[i]
    BY <1>6 DEF RenameFile, Typed, TypeOK
  <2>2. CASE UNCHANGED <<processed, file>>
    BY <2>1, <2>2, <1>1 DEF FilesKept
  <2>3. CASE /\ file[FileOf[j]] # NoFile
             /\ processed' = [processed EXCEPT ![FileOf[j]] = file[FileOf[j]]]
             /\ file' = [file EXCEPT ![FileOf[j]] = NoFile]
    <3>1. /\ \A g \in Files \ {FileOf[j]} : file'[g] = file[g] /\ processed'[g] = processed[g]
          /\ file'[FileOf[j]] = NoFile /\ processed'[FileOf[j]] = file[FileOf[j]]
      BY <2>1, <2>3 DEF Typed, TypeOK
    <3>2. \A g \in Files : file'[g].id <= uploads'
      BY <2>1, <3>1, FileType DEF RenameInv, NoFile, Typed, TypeOK
    <3>3. MarkedUnopened'
      BY <2>1, <2>3, <3>1 DEF RenameInv, MarkedUnopened
    <3> QED
      BY <2>1, <3>1, <3>2, <3>3 DEF RenameInv
  <2> QED
    BY <1>6, <2>2, <2>3 DEF RenameFile
<1>7. CASE UNCHANGED vars
  BY <1>1, <1>7 DEF FilesKept
<1> QED
  BY <1>1, <1>2, <1>3, <1>4, <1>5, <1>6, <1>7 DEF Next, Step

\* A file that no job has opened is marked as processed only if a job of the
\* name has ended that had opened an earlier file of it, or none at all.
THEOREM MarksUnopened == Spec => []MarkedUnopened
<1> DEFINE Inv == Typed /\ RenameInv
<1>1. Init => Inv
  <2>1. Init => RenameInv
    BY DEF Init, RenameInv, MarkedUnopened, NoFile
  <2> QED
    BY <2>1, InitTyped
<1>2. Inv /\ [Next]_vars => Inv'
  BY StepTyped, StepRename
<1>3. Inv => MarkedUnopened
  BY DEF RenameInv
<1> QED
  BY <1>1, <1>2, <1>3, PTL DEF Spec

-----------------------------------------------------------------------------
(* The rows.  A job tries the units of its file in order, each once.       *)

\* The rows of the k-th unit that a job reads.
UnitRows(j, k) ==
    CASE Skipped(j, k) -> {}
      [] ~Skipped(j, k) /\ Scheme(j) = "jsonpath" -> {Row(j, i) : i \in 1..opened[j].records}
      [] OTHER -> {Row(j, k)}

\* Exactly the units read so far have been tried, apart from the one in hand.
UnitsTried(j) ==
    /\ \A r \in Tried(j) : \E k \in 1..n[j] : r \in UnitRows(j, k) /\ (InHand(j) => k # n[j])
    /\ pc[j] # "dead" => \A k \in 1..n[j] :
           (InHand(j) => k # n[j]) => UnitRows(j, k) \subseteq Tried(j)

RowsInv == \A j \in Jobs : UnitsTried(j)

\* A job on its way: what a step of it is.
Moves(j) == Launch(j) \/ Kill(j) \/ Step(j)

\* What leaves the rows that a job has tried, and its log entry, alone.
Alone(j) ==
    /\ Same(j) /\ Tried(j)' = Tried(j)
    /\ extractlog'[j] = extractlog[j]

LEMMA InHandBatch ==
    ASSUME Typed, NEW j \in Jobs, InHand(j)
    PROVE  Batch(j) = UnitRows(j, n[j]) /\ n[j] # 0
<1>1. n[j] # 0 /\ ~Skipped(j, n[j])
  BY DEF Typed, Located
<1> QED
  BY <1>1 DEF Batch, UnitRows

LEMMA TriedMore ==
    ASSUME Typed, NEW j \in Jobs, n[j] # 0, (rows \cup refused)' = (rows \cup refused) \cup Batch(j)
    PROVE  /\ Tried(j)' = Tried(j) \cup Batch(j)
           /\ \A i \in Jobs \ {j} : Tried(i)' = Tried(i)
<1>1. \A r \in Batch(j) : r.key[1] = j
  BY BatchType DEF Typed
<1> QED
  BY <1>1 DEF Tried

LEMMA MovesAlone ==
    ASSUME Typed, NEW j \in Jobs, Moves(j), NEW i \in Jobs \ {j}
    PROVE  Alone(i)
<1> USE DEF Goto, vars, dbVars, diskVars, jobVars
<1>1. CASE Launch(j) \/ Kill(j) \/ Register(j) \/ RegisterFails(j) \/ Open(j) \/ OpenFails(j)
           \/ TableCheck(j) \/ ReadRecord(j) \/ EndOfFile(j)
  BY <1>1 DEF Launch, Kill, Register, RegisterFails, Open, OpenFails, TableCheck, ReadRecord,
              EndOfFile, Alone, Same, Tried, Typed, TypeOK
<1>2. CASE LogExtract(j)
  BY <1>2 DEF LogExtract, CreateExtractLog, Alone, Same, Tried, Typed, TypeOK
<1>3. CASE GetStats(j) \/ PutStats(j) \/ StatsFail(j)
           \/ GetMetric(j) \/ PutMetric(j) \/ MetricFails(j) \/ RenameFile(j)
  BY <1>3 DEF GetStats, PutStats, StatsFail, GetMetric, PutMetric, MetricFails, RenameFile,
              Alone, Same, Tried, Typed, TypeOK
<1>4. CASE Load(j) \/ LoadFails(j)
  <2>1. /\ (rows \cup refused)' = (rows \cup refused) \cup Batch(j)
        /\ Same(i) /\ extractlog'[i] = extractlog[i]
    BY <1>4 DEF Load, LoadFails, Insert, Same, Typed, TypeOK
  <2>2. n[j] # 0
    BY <1>4, InHandBatch DEF Load, LoadFails, InHand
  <2> QED
    BY <2>1, <2>2, TriedMore DEF Alone
<1> QED
  BY <1>1, <1>2, <1>3, <1>4 DEF Moves, Step

LEMMA StepAlone ==
    ASSUME Typed, [Next]_vars
    PROVE  \/ \A i \in Jobs : Alone(i)
           \/ \E j \in Jobs : Moves(j) /\ \A i \in Jobs \ {j} : Alone(i)
<1>1. ASSUME NEW f \in Files, Upload(f) PROVE \A i \in Jobs : Alone(i)
  BY <1>1 DEF Upload, Alone, Same, Tried, dbVars, jobVars
<1>2. ASSUME NEW j \in Jobs, Moves(j) PROVE \A i \in Jobs \ {j} : Alone(i)
  BY <1>2, MovesAlone
<1>3. CASE UNCHANGED vars
  BY <1>3 DEF Alone, Same, Tried, vars, dbVars, diskVars, jobVars
<1> QED
  BY <1>1, <1>2, <1>3 DEF Next, Moves

\* What leaves the rows that a job has tried, and what it has read, alone.
TriedKept(j) ==
    /\ n'[j] = n[j] /\ opened'[j] = opened[j] /\ scheme' = scheme
    /\ Tried(j)' = Tried(j)
    /\ InHand(j)' => InHand(j)
    /\ pc'[j] # "dead" => pc[j] # "dead" /\ (InHand(j) => InHand(j)')

LEMMA KeptUnits ==
    ASSUME NEW j \in Jobs, UnitsTried(j), TriedKept(j)
    PROVE  UnitsTried(j)'
BY DEF UnitsTried, TriedKept, UnitRows, Skipped, Scheme

LEMMA MovesUnits ==
    ASSUME Typed, NEW j \in Jobs, UnitsTried(j), Moves(j)
    PROVE  UnitsTried(j)'
<1> USE DEF Typed, Goto, vars, dbVars, diskVars, jobVars
<1>1. CASE Launch(j) \/ Kill(j) \/ Register(j) \/ RegisterFails(j) \/ OpenFails(j) \/ TableCheck(j)
           \/ EndOfFile(j) \/ LogExtract(j)
  <2>1. TriedKept(j)
    BY <1>1 DEF Launch, Kill, Register, RegisterFails, OpenFails, TableCheck, EndOfFile, LogExtract,
                TriedKept, InHand, Scheme, Tried, TypeOK
  <2> QED
    BY <2>1, KeptUnits
<1>2. CASE GetStats(j) \/ PutStats(j) \/ StatsFail(j)
           \/ GetMetric(j) \/ PutMetric(j) \/ MetricFails(j) \/ RenameFile(j)
  <2>1. TriedKept(j)
    BY <1>2 DEF GetStats, PutStats, StatsFail, GetMetric, PutMetric, MetricFails, RenameFile,
                TriedKept, InHand, Scheme, Tried, TypeOK
  <2> QED
    BY <2>1, KeptUnits
<1>3. CASE Open(j)
  <2>1. n[j] = 0 /\ n'[j] = 0 /\ Tried(j)' = Tried(j)
    BY <1>3 DEF Open, Located, Before, Tried
  <2> QED
    BY <2>1 DEF UnitsTried
<1>4. CASE ReadRecord(j)
  <2>1. /\ n'[j] = n[j] + 1 /\ n[j] \in Nat /\ opened' = opened /\ scheme' = scheme
        /\ Tried(j)' = Tried(j) /\ pc[j] = "read"
    BY <1>4 DEF ReadRecord, Tried, TypeOK
  <2>2. \A k : UnitRows(j, k)' = UnitRows(j, k)
    BY <2>1 DEF UnitRows, Skipped, Scheme
  <2>3. ~InHand(j)
    BY <2>1 DEF InHand
  <2>4. ~InHand(j)' => UnitRows(j, n[j] + 1) = {}
    <3>1. Skipped(j, n'[j]) \/ InHand(j)'
      BY <1>4, <2>1, UnitsType DEF ReadRecord, InHand, Scheme, TypeOK
    <3> QED
      BY <2>1, <3>1 DEF UnitRows
  <2>5. \A k \in 1..(n[j] + 1) : k \in 1..n[j] \/ k = n[j] + 1
    BY <2>1
  <2>6. 1..n[j] \subseteq 1..(n[j] + 1)
    BY <2>1
  <2> QED
    BY <2>1, <2>2, <2>3, <2>4, <2>5, <2>6 DEF UnitsTried
<1>5. CASE Load(j) \/ LoadFails(j)
  <2>1. /\ (rows \cup refused)' = (rows \cup refused) \cup Batch(j)
        /\ n' = n /\ opened' = opened /\ scheme' = scheme /\ pc[j] = "load"
    BY <1>5 DEF Load, LoadFails, Insert
  <2>2. /\ InHand(j) /\ n[j] # 0 /\ n[j] \in Nat /\ Batch(j) = UnitRows(j, n[j])
        /\ Tried(j)' = Tried(j) \cup Batch(j)
    BY <2>1, InHandBatch, TriedMore DEF InHand, TypeOK
  <2>3. \A k : UnitRows(j, k)' = UnitRows(j, k)
    BY <2>1 DEF UnitRows, Skipped, Scheme
  <2>4. n[j] \in 1..n[j]
    BY <2>2
  <2>5. ~InHand(j)'
    BY <1>5 DEF Load, LoadFails, InHand, TypeOK
  <2>6. \A r \in Tried(j)' : \E k \in 1..n[j] : r \in UnitRows(j, k)
    BY <2>2, <2>4 DEF UnitsTried
  <2>7. \A k \in 1..n[j] : UnitRows(j, k) \subseteq Tried(j)'
    BY <2>1, <2>2 DEF UnitsTried
  <2> QED
    BY <2>1, <2>3, <2>5, <2>6, <2>7 DEF UnitsTried
<1> QED
  BY <1>1, <1>2, <1>3, <1>4, <1>5 DEF Moves, Step

LEMMA StepRows == Typed /\ RowsInv /\ [Next]_vars => RowsInv'
<1> SUFFICES ASSUME Typed, RowsInv, [Next]_vars, NEW i \in Jobs PROVE UnitsTried(i)'
  BY DEF RowsInv
<1>1. UnitsTried(i)
  BY DEF RowsInv
<1>2. ASSUME Alone(i) PROVE UnitsTried(i)'
  <2>1. TriedKept(i)
    BY <1>2 DEF Alone, Same, TriedKept, InHand, Scheme
  <2> QED
    BY <1>1, <2>1, KeptUnits
<1> QED
  BY <1>1, <1>2, StepAlone, MovesUnits

LEMMA InitRows == Init => RowsInv
BY DEF Init, EmptyDatabase, RowsInv, UnitsTried, Tried

\* All rows due can be loaded but for those behind the first bad CSV record.
LEMMA LoadableDue ==
    ASSUME NEW j \in Jobs
    PROVE  Scheme(j) # "csv" => Loadable(j) = Due(j)
BY DEF Loadable

\* The rows that can be loaded are those of the units of the file.
LEMMA LoadableUnits ==
    ASSUME TypeOK, NEW j \in Jobs
    PROVE  \A r : r \in Loadable(j) <=> \E k \in 1..Units(j) : r \in UnitRows(j, k)
<1> DEFINE m == opened[j].records
<1> DEFINE p == opened[j].parsed
<1>1. Scheme(j) \in Schemes /\ m \in Nat /\ p \in 0..m /\ SkipHeaders \in Nat
  BY UnitsType
<1> HIDE DEF m, p
<1>2. CASE Scheme(j) = "csv"
  <2>1. \A k : UnitRows(j, k) = IF k <= SkipHeaders THEN {} ELSE {Row(j, k)}
    BY <1>2 DEF UnitRows, Skipped
  <2>2. /\ Units(j) = p
        /\ Loadable(j) = {r \in {Row(j, k) : k \in (SkipHeaders + 1)..m} : r.key[2] <= p}
    BY <1>2 DEF Units, Loadable, Due, m, p
  <2>3. Loadable(j) = {Row(j, k) : k \in (SkipHeaders + 1)..p}
    <3>1. \A k : Row(j, k).key[2] = k
      BY DEF Row
    <3>2. \A k \in (SkipHeaders + 1)..m : k <= p <=> k \in (SkipHeaders + 1)..p
      BY <1>1
    <3>3. (SkipHeaders + 1)..p \subseteq (SkipHeaders + 1)..m
      BY <1>1
    <3> QED
      BY <2>2, <3>1, <3>2, <3>3
  <2> QED
    BY <1>1, <2>1, <2>2, <2>3
<1>6. CASE Scheme(j) = "xlsx"
  <2>1. \A k : UnitRows(j, k) = IF k <= SkipHeaders THEN {} ELSE {Row(j, k)}
    BY <1>6 DEF UnitRows, Skipped
  <2>2. Units(j) = m /\ Loadable(j) = {Row(j, k) : k \in (SkipHeaders + 1)..m}
    BY <1>6, LoadableDue DEF Units, Due, m
  <2> QED
    BY <1>1, <2>1, <2>2
<1>3. CASE Scheme(j) = "json"
  <2>1. \A k : UnitRows(j, k) = {Row(j, k)}
    BY <1>3 DEF UnitRows, Skipped
  <2>2. Units(j) = 1 /\ Loadable(j) = {Row(j, 1)}
    BY <1>3, LoadableDue DEF Units, Due
  <2> QED
    BY <2>1, <2>2
<1>4. CASE Scheme(j) = "jsonpath"
  <2>1. \A k : UnitRows(j, k) = {Row(j, i) : i \in 1..m}
    BY <1>4 DEF UnitRows, Skipped, m
  <2>2. Units(j) = 1 /\ Loadable(j) = {Row(j, i) : i \in 1..m}
    BY <1>4, LoadableDue DEF Units, Due, m
  <2> QED
    BY <2>1, <2>2
<1>5. CASE Scheme(j) = "xml"
  <2>1. \A k : UnitRows(j, k) = {Row(j, k)}
    BY <1>5 DEF UnitRows, Skipped
  <2>2. Units(j) = m /\ Loadable(j) = {Row(j, k) : k \in 1..m}
    BY <1>5, LoadableDue DEF Units, Due, m
  <2> QED
    BY <2>1, <2>2
<1> QED
  BY <1>1, <1>2, <1>3, <1>4, <1>5, <1>6 DEF Schemes

\* The rows tried are rows that can be loaded, and all of them once every unit
\* is read and none is in hand.
LEMMA TriedLoadable ==
    ASSUME Typed, RowsInv, NEW j \in Jobs
    PROVE  /\ Tried(j) \subseteq Loadable(j)
           /\ (n[j] = Units(j) /\ ~InHand(j) /\ pc[j] # "dead") => Tried(j) = Loadable(j)
<1>1. 1..n[j] \subseteq 1..Units(j)
  BY UnitsType DEF Typed, Located, TypeOK
<1> QED
  BY <1>1, LoadableUnits DEF RowsInv, UnitsTried, Typed

\* A job tries the rows of the file that it has opened and no others, those
\* behind a CSV record that does not parse apart, each of them by the time it is
\* through: neither a refused row nor a failed statement on the log or the
\* statistics makes it leave one out.
THEOREM RowsCorrect == Spec => []RowsOfTheFile
<1> DEFINE Inv == Typed /\ RowsInv
<1>1. Init => Inv
  BY InitTyped, InitRows
<1>2. Inv /\ [Next]_vars => Inv'
  BY StepTyped, StepRows
<1>3. Inv => RowsOfTheFile
  BY TriedLoadable DEF RowsOfTheFile, Typed, Located, After, InHand
<1> QED
  BY <1>1, <1>2, <1>3, PTL DEF Spec

-----------------------------------------------------------------------------
(* The log. *)

\* What LogNotAhead says of one job, and that the entry of an XLSX job comes
\* when there is nothing left to try.
Logged(j) ==
    extractlog[j] # NoEntry =>
        /\ j \in dataprov /\ pc[j] \notin Before
        /\ n[j] # 0 \/ Units(j) = 0
        /\ extractlog[j] <= IF Scheme(j) = "jsonpath" THEN opened[j].records ELSE n[j]
        /\ Scheme(j) = "xlsx" => pc[j] \in After \cup {"dead"} /\ Tried(j) = Due(j)

LogInv == \A j \in Jobs : Logged(j)

LEMMA AloneLogged ==
    ASSUME NEW j \in Jobs, Logged(j), Alone(j)
    PROVE  Logged(j)'
BY DEF Logged, Alone, Same, Units, Scheme, Due

\* What leaves the log entry alone and is not the load of a row.
LogKept(j) ==
    /\ extractlog'[j] = extractlog[j]
    /\ scheme' = scheme /\ (j \in dataprov => j \in dataprov')
    /\ Tried(j)' = Tried(j)
    /\ pc[j] \notin Before =>
           /\ opened'[j] = opened[j] /\ n'[j] >= n[j] /\ pc'[j] \notin Before
           /\ pc[j] \in After \cup {"dead"} => n'[j] = n[j] /\ pc'[j] \in After \cup {"dead"}

LEMMA KeptLogged ==
    ASSUME TypeOK, TypeOK', NEW j \in Jobs, Logged(j), LogKept(j)
    PROVE  Logged(j)'
<1>1. /\ n[j] \in Nat /\ n'[j] \in Nat
      /\ opened[j].records \in Nat
      /\ extractlog[j] # NoEntry => extractlog[j] \in Nat
  BY UnitsType DEF TypeOK
<1> QED
  BY <1>1 DEF Logged, LogKept, Units, Scheme, Due

LEMMA MovesLogged ==
    ASSUME Typed, Typed', RowsInv, NEW j \in Jobs, Logged(j), Moves(j)
    PROVE  Logged(j)'
<1> USE DEF Typed, Goto, vars, dbVars, diskVars, jobVars
<1>1. CASE Launch(j) \/ Kill(j) \/ Register(j) \/ RegisterFails(j) \/ Open(j) \/ OpenFails(j)
           \/ TableCheck(j) \/ ReadRecord(j) \/ EndOfFile(j)
  <2>1. LogKept(j)
    BY <1>1 DEF Launch, Kill, Register, RegisterFails, Open, OpenFails, TableCheck, ReadRecord,
                EndOfFile, LogKept, Before, After, Tried, TypeOK
  <2> QED
    BY <2>1, KeptLogged
<1>2. CASE GetStats(j) \/ PutStats(j) \/ StatsFail(j)
           \/ GetMetric(j) \/ PutMetric(j) \/ MetricFails(j) \/ RenameFile(j)
  <2>1. LogKept(j)
    BY <1>2 DEF GetStats, PutStats, StatsFail, GetMetric, PutMetric, MetricFails, RenameFile,
                LogKept, Before, After, Tried, TypeOK
  <2> QED
    BY <2>1, KeptLogged
<1>3. CASE LogExtract(j)
  <2>1. /\ UNCHANGED <<scheme, opened, n, dataprov>> /\ Tried(j)' = Tried(j)
        /\ pc[j] = "log"
        /\ pc'[j] = IF Scheme(j) = "xlsx" THEN "getMetric" ELSE "load"
        /\ extractlog'[j] \in {extractlog[j], RecordsLoaded(j)}
    BY <1>3 DEF LogExtract, CreateExtractLog, Tried, TypeOK
  <2>2. /\ j \in dataprov /\ Scheme(j) # "xml"
        /\ Scheme(j) # "xlsx" => n[j] # 0
        /\ Scheme(j) = "xlsx" => n[j] = Units(j) /\ Tried(j) = Due(j)
    BY <2>1, TriedLoadable, LoadableDue DEF Located, InHand
  <2>3. n[j] \in Nat /\ opened[j].records \in Nat /\ Scheme(j) \in Schemes
    BY UnitsType DEF TypeOK
  <2>4. n[j] # 0 \/ Units(j) = 0
    BY <2>2, <2>3
  <2>5. CASE extractlog'[j] = extractlog[j]
    BY <2>1, <2>2, <2>3, <2>4, <2>5 DEF Logged, Units, Scheme, Due, Before, After
  <2>6. CASE extractlog'[j] = RecordsLoaded(j)
    <3>1. RecordsLoaded(j) <= IF Scheme(j) = "jsonpath" THEN opened[j].records ELSE n[j]
      <4>1. CASE Scheme(j) = "csv"
        BY <2>3, <4>1 DEF RecordsLoaded
      <4>2. CASE Scheme(j) = "json"
        BY <2>2, <2>3, <4>2 DEF RecordsLoaded
      <4>3. CASE Scheme(j) = "xlsx"
        BY <2>2, <2>3, <4>3 DEF RecordsLoaded, Units
      <4>4. CASE Scheme(j) = "jsonpath"
        BY <2>3, <4>4 DEF RecordsLoaded
      <4> QED
        BY <2>2, <2>3, <4>1, <4>2, <4>3, <4>4 DEF Schemes
    <3> QED
      BY <2>1, <2>2, <2>4, <2>6, <3>1 DEF Logged, Units, Scheme, Due, Before, After
  <2> QED
    BY <2>1, <2>5, <2>6
<1>4. CASE Load(j) \/ LoadFails(j)
  <2>1. /\ UNCHANGED <<scheme, opened, n, dataprov, extractlog>>
        /\ pc[j] = "load" /\ pc'[j] \in {"read", "getStats"}
    BY <1>4 DEF Load, LoadFails, TypeOK
  <2>2. extractlog[j] # NoEntry => Scheme(j) # "xlsx"
    BY <2>1 DEF Logged, After
  <2> QED
    BY <2>1, <2>2 DEF Logged, Units, Scheme, Before
<1> QED
  BY <1>1, <1>2, <1>3, <1>4 DEF Moves, Step

\* A log entry never says more records than its job has read, and that of an
\* XLSX job is there only when every row of the file was tried.
THEOREM LogCorrect == Spec => []LogNotAhead
<1> DEFINE Inv == Typed /\ RowsInv /\ LogInv
<1>1. Init => Inv
  <2>1. Init => LogInv
    BY DEF Init, EmptyDatabase, LogInv, Logged
  <2> QED
    BY <2>1, InitTyped, InitRows
<1>2. Inv /\ [Next]_vars => Inv'
  <2> SUFFICES ASSUME Inv, [Next]_vars PROVE Inv'
    OBVIOUS
  <2>1. Typed' /\ RowsInv'
    BY StepTyped, StepRows
  <2>2. ASSUME NEW j \in Jobs PROVE Logged(j)'
    BY <2>1, StepAlone, AloneLogged, MovesLogged DEF LogInv
  <2> QED
    BY <2>1, <2>2 DEF LogInv
<1>3. Inv => LogNotAhead
  BY DEF LogInv, Logged, LogNotAhead
<1> QED
  BY <1>1, <1>2, <1>3, PTL DEF Spec

-----------------------------------------------------------------------------
(* The statistics.  A row of pipeline_stats, and what a job has read of    *)
(* one, is the number of the rows that it counts; the rows that a job is   *)
(* about to add are stored, and not counted yet.                           *)

Counting == {j \in Jobs : pc[j] \in Stats}

CountsRows(s, f) ==
    /\ s.records = Cardinality(s.counted)
    /\ s.counted \subseteq rows
    /\ \A r \in s.counted : FileOf[r.key[1]] = f
    /\ \A j \in Counting : Batch(j) \cap s.counted = {}

StatsInv ==
    /\ IsFiniteSet(rows)
    /\ \A j \in Counting : Batch(j) \subseteq rows
    /\ \A s \in pipelineStats : CountsRows(s, s.file)
    /\ \A j \in Jobs : pc[j] = "putStats" => CountsRows(statsBase[j], FileOf[j])

\* What stores nothing leaves nothing more to count; a load stores a batch
\* that is new.
RowsKept ==
    /\ rows' = rows
    /\ Counting' \subseteq Counting
    /\ \A j \in Counting' : Batch(j)' = Batch(j)

RowsAdded(j) ==
    /\ Insertable(Batch(j)) /\ rows' = rows \cup Batch(j) /\ IsFiniteSet(Batch(j))
    /\ Counting' \subseteq Counting \cup {j}
    /\ \A i \in Jobs : Batch(i)' = Batch(i)

LEMMA RowsStep ==
    ASSUME Typed, [Next]_vars
    PROVE  RowsKept \/ \E j \in Jobs : RowsAdded(j)
<1> USE DEF Typed, Goto, vars, dbVars, diskVars, jobVars
<1>1. ASSUME NEW f \in Files, Upload(f) PROVE RowsKept
  BY <1>1 DEF Upload, RowsKept, Counting, Batch, Scheme
<1>2. ASSUME NEW j \in Jobs,
             Launch(j) \/ Kill(j) \/ Register(j) \/ RegisterFails(j) \/ Open(j) \/ OpenFails(j)
             \/ TableCheck(j) \/ ReadRecord(j) \/ EndOfFile(j) \/ LogExtract(j)
      PROVE  RowsKept
  <2>1. /\ rows' = rows /\ scheme' = scheme
        /\ \A i \in Jobs \ {j} : pc'[i] = pc[i] /\ n'[i] = n[i] /\ opened'[i] = opened[i]
        /\ pc'[j] \notin Stats
    BY <1>2 DEF Launch, Kill, Register, RegisterFails, Open, OpenFails, TableCheck, ReadRecord,
                EndOfFile, LogExtract, Stats, TypeOK
  <2> QED
    BY <2>1 DEF RowsKept, Counting, Batch, Scheme
<1>3. ASSUME NEW j \in Jobs,
             LoadFails(j) \/ GetStats(j) \/ PutStats(j) \/ StatsFail(j)
             \/ GetMetric(j) \/ PutMetric(j) \/ MetricFails(j) \/ RenameFile(j)
      PROVE  RowsKept
  <2>1. /\ rows' = rows /\ scheme' = scheme /\ n' = n /\ opened' = opened
        /\ Counting' \subseteq Counting
    BY <1>3 DEF LoadFails, GetStats, PutStats, StatsFail, GetMetric, PutMetric, MetricFails,
                RenameFile, Counting, Stats, TypeOK
  <2> QED
    BY <2>1 DEF RowsKept, Batch, Scheme
<1>4. ASSUME NEW j \in Jobs, Load(j) PROVE RowsAdded(j)
  <2>1. n[j] # 0
    BY <1>4, InHandBatch DEF Load, InHand
  <2>2. IsFiniteSet(Batch(j))
    BY <2>1, BatchType
  <2>3. /\ Insertable(Batch(j)) /\ rows' = rows \cup Batch(j)
        /\ Counting' \subseteq Counting \cup {j}
    BY <1>4 DEF Load, Insert, Counting, TypeOK
  <2>4. \A i \in Jobs : Batch(i)' = Batch(i)
    BY <1>4 DEF Load, Batch, Scheme
  <2> QED
    BY <2>2, <2>3, <2>4 DEF RowsAdded
<1>5. CASE UNCHANGED vars
  BY <1>5 DEF RowsKept, Counting, Batch, Scheme
<1> QED
  BY <1>1, <1>2, <1>3, <1>4, <1>5 DEF Next, Step

LEMMA CountsStep ==
    ASSUME Typed, [Next]_vars
    PROVE  \A s, f : CountsRows(s, f) => CountsRows(s, f)'
<1>1. CASE RowsKept
  BY <1>1 DEF RowsKept, CountsRows
<1>2. ASSUME NEW j \in Jobs, RowsAdded(j)
      PROVE  \A s, f : CountsRows(s, f) => CountsRows(s, f)'
  <2>1. Batch(j) \cap rows = {}
    BY <1>2 DEF RowsAdded, Insertable
  <2>2. \A i \in Counting' : Batch(i)' = Batch(i) /\ (i \in Counting \/ i = j)
    BY <1>2 DEF RowsAdded, Counting
  <2>3. rows \subseteq rows'
    BY <1>2 DEF RowsAdded
  <2> QED
    BY <2>1, <2>2, <2>3 DEF CountsRows
<1> QED
  BY <1>1, <1>2, RowsStep

\* The rows are finite, and those of a batch that is being counted stored.
LEMMA StepStored ==
    ASSUME Typed, StatsInv, [Next]_vars
    PROVE  IsFiniteSet(rows') /\ \A j \in Counting' : Batch(j)' \subseteq rows'
<1>1. CASE RowsKept
  BY <1>1 DEF RowsKept, StatsInv
<1>2. ASSUME NEW j \in Jobs, RowsAdded(j)
      PROVE  IsFiniteSet(rows') /\ \A i \in Counting' : Batch(i)' \subseteq rows'
  <2>1. IsFiniteSet(rows')
    BY <1>2, FS_Union DEF RowsAdded, StatsInv
  <2> QED
    BY <1>2, <2>1 DEF RowsAdded, StatsInv, Counting
<1> QED
  BY <1>1, <1>2, RowsStep

\* What leaves the statistics and what has been read of them alone.
StatsKept ==
    /\ pipelineStats' = pipelineStats
    /\ \A j \in Jobs : pc'[j] = "putStats" => pc[j] = "putStats" /\ statsBase'[j] = statsBase[j]

LEMMA StepStats ==
    ASSUME Typed, StatsInv, [Next]_vars
    PROVE  StatsInv'
<1> USE DEF Typed, Goto, vars, dbVars, diskVars, jobVars
<1>1. ASSUME StatsKept PROVE StatsInv'
  BY <1>1, CountsStep, StepStored DEF StatsKept, StatsInv
<1>2. ASSUME NEW f \in Files, Upload(f) PROVE StatsKept
  BY <1>2 DEF Upload, StatsKept
<1>3. ASSUME NEW j \in Jobs,
             Launch(j) \/ Kill(j) \/ Register(j) \/ RegisterFails(j) \/ Open(j) \/ OpenFails(j)
             \/ TableCheck(j) \/ ReadRecord(j) \/ EndOfFile(j) \/ LogExtract(j)
      PROVE  StatsKept
  BY <1>3 DEF Launch, Kill, Register, RegisterFails, Open, OpenFails, TableCheck, ReadRecord,
              EndOfFile, LogExtract, StatsKept, TypeOK
<1>4. ASSUME NEW j \in Jobs,
             Load(j) \/ LoadFails(j) \/ StatsFail(j)
             \/ GetMetric(j) \/ PutMetric(j) \/ MetricFails(j) \/ RenameFile(j)
      PROVE  StatsKept
  BY <1>4 DEF Load, LoadFails, StatsFail, GetMetric, PutMetric, MetricFails, RenameFile,
              StatsKept, TypeOK
<1>5. ASSUME NEW j \in Jobs, GetStats(j) PROVE StatsInv'
  <2>1. PICK s \in StatsOf(FileOf[j]) : statsBase' = [statsBase EXCEPT ![j] = s]
    BY <1>5 DEF GetStats
  <2>2. CountsRows(s, FileOf[j])
    <3>1. CASE s = NoStats
      BY <3>1, FS_EmptySet DEF CountsRows, NoStats
    <3>2. CASE s # NoStats
      BY <3>2 DEF StatsOf, StatsInv
    <3> QED
      BY <3>1, <3>2
  <2>3. /\ pipelineStats' = pipelineStats /\ statsBase'[j] = s
        /\ \A i \in Jobs \ {j} : statsBase'[i] = statsBase[i] /\ pc'[i] = pc[i]
    BY <1>5, <2>1 DEF GetStats, TypeOK
  <2> QED
    BY <2>2, <2>3, CountsStep, StepStored DEF StatsInv
<1>6. ASSUME NEW j \in Jobs, PutStats(j) PROVE StatsInv'
  <2>0. PICK old, new, s :
            /\ old = statsBase[j].counted /\ new = Batch(j)
            /\ s = [file    |-> FileOf[j],
                    records |-> statsBase[j].records + Cardinality(new),
                    counted |-> old \cup new]
    OBVIOUS
  <2>1. /\ pipelineStats' \subseteq pipelineStats \cup {s}
        /\ \A i \in Jobs : pc'[i] = "putStats" =>
               i # j /\ pc[i] = "putStats" /\ statsBase'[i] = statsBase[i]
        /\ j \in Counting /\ j \notin Counting' /\ Counting' \subseteq Counting
        /\ rows' = rows /\ \A i \in Jobs : Batch(i)' = Batch(i)
    BY <1>6, <2>0 DEF PutStats, WriteStats, Counting, Stats, Batch, Scheme, TypeOK
  <2>2. CountsRows(statsBase[j], FileOf[j])
    BY <1>6 DEF PutStats, StatsInv
  <2>3. IsFiniteSet(old) /\ IsFiniteSet(new) /\ new \subseteq rows /\ old \subseteq rows
    BY <2>0, <2>1, <2>2, FS_Subset DEF CountsRows, StatsInv
  <2>4. s.records = Cardinality(s.counted)
    <3>1. Cardinality(old \cup new) = Cardinality(old) + Cardinality(new) - Cardinality(old \cap new)
      BY <2>3, FS_Union
    <3>2. old \cap new = {}
      BY <2>0, <2>1, <2>2 DEF CountsRows
    <3>3. Cardinality(old \cap new) = 0
      BY <3>2, FS_EmptySet
    <3> QED
      BY <2>0, <2>2, <2>3, <3>1, <3>3, FS_CardinalityType DEF CountsRows
  <2>5. \A i \in Counting : \A r \in Batch(i) : r.key[1] = i
    BY BatchType DEF Located, Counting
  <2>6. \A r \in s.counted : FileOf[r.key[1]] = s.file
    BY <2>0, <2>1, <2>2, <2>5 DEF CountsRows
  <2>7. \A i \in Counting' : Batch(i) \cap s.counted = {}
    BY <2>0, <2>1, <2>2, <2>5 DEF CountsRows
  <2>8. CountsRows(s, s.file)'
    <3>1. Counting' \subseteq Jobs
      BY DEF Counting
    <3> QED
      BY <2>0, <2>1, <2>3, <2>4, <2>6, <2>7, <3>1 DEF CountsRows
  <2> QED
    BY <2>1, <2>8, CountsStep, StepStored DEF StatsInv
<1>7. CASE UNCHANGED vars
  BY <1>1, <1>7 DEF StatsKept
<1> QED
  BY <1>1, <1>2, <1>3, <1>4, <1>5, <1>6, <1>7 DEF Next, Step

\* No row of pipeline_stats says more records than were loaded from its file,
\* whatever jobs have the same file, and whichever of their updates are lost.
THEOREM StatsCorrect == Spec => []StatsNotAhead
<1> DEFINE Inv == Typed /\ StatsInv
<1>1. Init => Inv
  <2>1. Init => StatsInv
    BY FS_EmptySet DEF Init, EmptyDatabase, StatsInv, Counting, Stats
  <2> QED
    BY <2>1, InitTyped
<1>2. Inv /\ [Next]_vars => Inv'
  BY StepTyped, StepStats
<1>3. Inv => StatsNotAhead
  <2> SUFFICES ASSUME Inv, NEW s \in pipelineStats
               PROVE  s.records <= Cardinality({r \in rows : FileOf[r.key[1]] = s.file})
    BY DEF StatsNotAhead
  <2> DEFINE S == {r \in rows : FileOf[r.key[1]] = s.file}
  <2>1. s.counted \subseteq S /\ s.records = Cardinality(s.counted)
    BY DEF StatsInv, CountsRows
  <2>2. IsFiniteSet(S)
    BY FS_Subset DEF StatsInv
  <2> QED
    BY <2>1, <2>2, FS_Subset
<1> QED
  BY <1>1, <1>2, <1>3, PTL DEF Spec
-----------------------------------------------------------------------------
(* What a job promises.  The rows that are left are those due and not      *)
(* tried; the unit in hand is the first of them.                           *)

LEMMA RowNumbers ==
    ASSUME NEW j, NEW of \in Schemes, NEW m \in Nat
    PROVE  (CASE of \in {"csv", "xlsx"} -> {Row(j, k) : k \in (SkipHeaders + 1)..m}
              [] of = "json" -> {Row(j, 1)}
              [] OTHER -> {Row(j, k) : k \in 1..m})
           = {Row(j, k) : k \in CASE of \in {"csv", "xlsx"} -> {k \in 1..m : k > SkipHeaders}
                                  [] of = "json" -> {1}
                                  [] OTHER -> 1..m}
<1>1. CASE of \in {"csv", "xlsx"}
  <2>1. {k \in 1..m : k > SkipHeaders} = (SkipHeaders + 1)..m
    OBVIOUS
  <2> QED
    BY <1>1, <2>1
<1>2. CASE of = "json"
  BY <1>2
<1>3. CASE of \in {"jsonpath", "xml"}
  BY <1>3
<1> QED
  BY <1>1, <1>2, <1>3 DEF Schemes

LEMMA NumbersDue ==
    ASSUME TypeOK, NEW j \in Jobs
    PROVE  Due(j) = {Row(j, k) : k \in Loading!Numbers(j, opened[j])}
<1>1. Scheme(j) \in Schemes /\ opened[j].records \in Nat
  BY UnitsType
<1> QED
  BY <1>1, RowNumbers DEF Due, Loading!Numbers, Loading!Scheme, Scheme

LEMMA NumbersType ==
    ASSUME TypeOK, NEW j \in Jobs
    PROVE  Loading!Numbers(j, opened[j]) \subseteq Nat
<1>1. opened[j].records \in Nat
  BY UnitsType
<1> QED
  BY <1>1 DEF Loading!Numbers

LEMMA LeftNumbers ==
    ASSUME TypeOK, NEW j \in Jobs, opened[j] # NoFile
    PROVE  LoadLeft[j] = {k \in Loading!Numbers(j, opened[j]) : Row(j, k) \notin Tried(j)}
<1>1. \A k : Row(j, k).key[2] = k
  BY DEF Row
<1>2. LoadLeft[j] = {r.key[2] : r \in Due(j) \ Tried(j)}
  BY DEF LoadLeft
<1> QED
  BY <1>1, <1>2, NumbersDue

\* The rows of the unit in hand, by number.
HandNumbers(j) == IF Scheme(j) = "jsonpath" THEN 1..opened[j].records ELSE {n[j]}

LEMMA HandNext ==
    ASSUME Typed, RowsInv, NEW j \in Jobs, InHand(j)
    PROVE  /\ opened[j] # NoFile
           /\ Batch(j) = {Row(j, k) : k \in HandNumbers(j)}
           /\ HandNumbers(j) \subseteq LoadLeft[j] \ Loading!Unread(j)
           /\ Loading!Upcoming(j) = HandNumbers(j)
<1>1. /\ opened[j] # NoFile /\ n[j] \in 1..Units(j) /\ ~Skipped(j, n[j])
      /\ n[j] \in Nat /\ Scheme(j) \in Schemes /\ TypeOK /\ pc[j] # "dead"
  BY UnitsType DEF Typed, Located, InHand, Loads, TypeOK
<1>2. Batch(j) = {Row(j, k) : k \in HandNumbers(j)}
  BY DEF Batch, HandNumbers
<1>3. LoadLeft[j] = {k \in Loading!Numbers(j, opened[j]) : Row(j, k) \notin Tried(j)}
  BY <1>1, LeftNumbers
<1>4. /\ \A r \in Tried(j) : \E k \in 1..n[j] : r \in UnitRows(j, k) /\ k # n[j]
      /\ \A k \in 1..n[j] : k # n[j] => UnitRows(j, k) \subseteq Tried(j)
  BY <1>1 DEF RowsInv, UnitsTried
<1>5. \A k, l : Row(j, k) = Row(j, l) => k = l
  <2>1. \A k : Row(j, k).key[2] = k
    BY DEF Row
  <2> QED
    BY <2>1
<1>6. CASE Scheme(j) = "jsonpath"
  <2>1. n[j] = 1
    BY <1>1, <1>6 DEF Units
  <2>2. Tried(j) = {}
    BY <1>4, <2>1
  <2>3. Loading!Numbers(j, opened[j]) = 1..opened[j].records
    BY <1>6 DEF Loading!Numbers, Loading!Scheme, Scheme
  <2>4. LoadLeft[j] = HandNumbers(j)
    BY <1>3, <1>6, <2>2, <2>3 DEF HandNumbers
  <2>5. Loading!Upcoming(j) = LoadLeft[j] /\ Loading!Unread(j) = {}
    BY <1>6 DEF Loading!Upcoming, Loading!Unread, Loading!Scheme, Scheme
  <2> QED
    BY <1>1, <1>2, <2>4, <2>5
<1>7. CASE Scheme(j) # "jsonpath"
  <2>1. \A k : UnitRows(j, k) = IF Skipped(j, k) THEN {} ELSE {Row(j, k)}
    BY <1>7 DEF UnitRows
  <2>2. Row(j, n[j]) \notin Tried(j)
    BY <1>4, <1>5, <2>1
  <2>3. n[j] \in Loading!Numbers(j, opened[j])
    <3>1. /\ opened[j].records \in Nat /\ SkipHeaders \in Nat
          /\ opened[j].parsed \in 0..opened[j].records
      BY <1>1, UnitsType
    <3>2. Loading!Numbers(j, opened[j]) =
             CASE Scheme(j) \in {"csv", "xlsx"} -> {k \in 1..opened[j].records : k > SkipHeaders}
               [] Scheme(j) = "json" -> {1}
               [] OTHER -> 1..opened[j].records
      BY DEF Loading!Numbers, Loading!Scheme, Scheme
    <3>3. CASE Scheme(j) \in {"csv", "xlsx"}
      BY <1>1, <3>1, <3>2, <3>3 DEF Units, Skipped
    <3>4. CASE Scheme(j) = "json"
      <4>1. Units(j) = 1 /\ Loading!Numbers(j, opened[j]) = {1}
        BY <3>2, <3>4 DEF Units
      <4> QED
        BY <1>1, <4>1
    <3>5. CASE Scheme(j) = "xml"
      <4>1. Units(j) = opened[j].records /\ Loading!Numbers(j, opened[j]) = 1..opened[j].records
        BY <3>2, <3>5 DEF Units
      <4> QED
        BY <1>1, <4>1
    <3> QED
      BY <1>1, <1>7, <3>3, <3>4, <3>5 DEF Schemes
  <2>4. n[j] \in LoadLeft[j]
    BY <1>3, <2>2, <2>3
  <2>5. ASSUME NEW l \in LoadLeft[j]
        PROVE  n[j] <= l
    <3>1. l \in Nat /\ l >= 1 /\ l \in Loading!Numbers(j, opened[j]) /\ Row(j, l) \notin Tried(j)
      BY <1>1, <1>3, <2>5, UnitsType DEF Loading!Numbers
    <3>2. ~Skipped(j, l)
      BY <1>1, <3>1 DEF Skipped, Loading!Numbers, Loading!Scheme, Scheme
    <3>3. l \notin 1..n[j] \/ l = n[j]
      BY <1>4, <2>1, <3>1, <3>2
    <3> QED
      BY <1>1, <3>1, <3>3
  <2>6. Loading!Upcoming(j) = {k \in LoadLeft[j] : \A l \in LoadLeft[j] : k <= l}
    BY <1>7 DEF Loading!Upcoming, Loading!Scheme, Scheme
  <2>7. LoadLeft[j] \subseteq Nat
    BY <1>1, <1>3, NumbersType
  <2>8. \A k \in LoadLeft[j] : k <= n[j] => k = n[j]
    BY <1>1, <2>5, <2>7
  <2>9. HandNumbers(j) = {n[j]}
    BY <1>7 DEF HandNumbers
  <2>10. n[j] \notin Loading!Unread(j)
    <3>1. Scheme(j) = "csv" => n[j] <= opened[j].parsed /\ opened[j].parsed \in Nat
      BY <1>1, UnitsType DEF Units
    <3> QED
      BY <1>1, <3>1 DEF Loading!Unread, Loading!Scheme, Scheme
  <2> QED
    BY <1>1, <1>2, <2>4, <2>5, <2>6, <2>8, <2>9, <2>10
<1> QED
  BY <1>6, <1>7

\* A step of one job leaves what FileLoad knows of the others.
LEMMA LoadAlone ==
    ASSUME NEW i \in Jobs, Alone(i)
    PROVE  LoadPhase'[i] = LoadPhase[i] /\ LoadLeft'[i] = LoadLeft[i]
<1>1. LoadPhase'[i] = LoadPhase[i]
  BY DEF Alone, Same, LoadPhase
<1>2. Due(i)' = Due(i) /\ Tried(i)' = Tried(i) /\ opened'[i] = opened[i]
  BY DEF Alone, Same, Due, Scheme
<1> QED
  BY <1>1, <1>2 DEF LoadLeft

LEMMA LoadOfOne ==
    ASSUME NEW j \in Jobs, \A i \in Jobs \ {j} : Alone(i)
    PROVE  /\ LoadPhase' = [LoadPhase EXCEPT ![j] = LoadPhase'[j]]
           /\ LoadLeft' = [LoadLeft EXCEPT ![j] = LoadLeft'[j]]
<1>1. \A i \in Jobs \ {j} : LoadPhase'[i] = LoadPhase[i] /\ LoadLeft'[i] = LoadLeft[i]
  BY LoadAlone
<1>2. /\ DOMAIN LoadPhase = Jobs /\ DOMAIN LoadPhase' = Jobs
      /\ DOMAIN LoadLeft = Jobs /\ DOMAIN LoadLeft' = Jobs
  BY DEF LoadPhase, LoadLeft
<1>3. /\ LoadPhase = [i \in Jobs |-> LoadPhase[i]] /\ LoadPhase' = [i \in Jobs |-> LoadPhase'[i]]
      /\ LoadLeft = [i \in Jobs |-> LoadLeft[i]] /\ LoadLeft' = [i \in Jobs |-> LoadLeft'[i]]
  BY DEF LoadPhase, LoadLeft
<1> QED
  BY <1>1, <1>2, <1>3

\* Nothing of the rows of any job changes.
TriesKept == UNCHANGED <<rows, refused, opened, scheme>>

LEMMA LeftKept == TriesKept => UNCHANGED <<LoadLeft, Keys(rows), Keys(refused)>>
BY DEF TriesKept, LoadLeft, Due, Tried, Scheme, Keys

\* Where nothing of the file is tried, or all of it.
LEMMA LeftAtEnds ==
    ASSUME Typed, RowsInv, NEW j \in Jobs
    PROVE  /\ n[j] = 0 => Tried(j) = {}
           /\ n[j] = 0 /\ opened[j] # NoFile => LoadLeft[j] = Loading!Numbers(j, opened[j])
           /\ (n[j] = Units(j) /\ ~InHand(j) /\ pc[j] # "dead") => LoadLeft[j] = Loading!Unread(j)
<1>1. n[j] = 0 => Tried(j) = {}
  BY DEF RowsInv, UnitsTried
<1>2. ASSUME n[j] = 0, opened[j] # NoFile PROVE LoadLeft[j] = Loading!Numbers(j, opened[j])
  BY <1>1, <1>2, LeftNumbers DEF Typed
<1>3. ASSUME n[j] = Units(j), ~InHand(j), pc[j] # "dead" PROVE LoadLeft[j] = Loading!Unread(j)
  <2>1. Tried(j) = Loadable(j)
    BY <1>3, TriedLoadable
  <2>2. CASE opened[j] = NoFile
    <3>1. LoadLeft[j] = {}
      BY <2>2 DEF LoadLeft
    <3>2. Scheme(j) = "csv" => Loading!Numbers(j, opened[j]) = {}
      BY <2>2 DEF Loading!Numbers, Loading!Scheme, Scheme, NoFile
    <3> QED
      BY <3>1, <3>2 DEF Loading!Unread, Loading!Scheme, Scheme
  <2>3. CASE opened[j] # NoFile
    <3>1. LoadLeft[j] = {k \in Loading!Numbers(j, opened[j]) : Row(j, k) \notin Loadable(j)}
      BY <2>1, <2>3, LeftNumbers DEF Typed
    <3>2. \A k : Row(j, k).key[2] = k
      BY DEF Row
    <3>3. \A k \in Loading!Numbers(j, opened[j]) :
             Row(j, k) \in Loadable(j) <=> (Scheme(j) = "csv" => k <= opened[j].parsed)
      BY <3>2, NumbersDue DEF Loadable, Typed
    <3>4. /\ \A k \in Loading!Numbers(j, opened[j]) : k \in Nat
          /\ opened[j].parsed \in Nat
      BY NumbersType, UnitsType DEF Typed
    <3>5. Loading!Unread(j) = {k \in Loading!Numbers(j, opened[j]) :
                                 Scheme(j) = "csv" /\ k > opened[j].parsed}
      BY DEF Loading!Unread, Loading!Scheme, Scheme
    <3> QED
      BY <3>1, <3>3, <3>4, <3>5
  <2> QED
    BY <2>2, <2>3
<1> QED
  BY <1>1, <1>2, <1>3

\* The unit in hand is tried: the first rows that are left.
LEMMA HandTried ==
    ASSUME Typed, RowsInv, NEW j \in Jobs, InHand(j),
           \A i \in Jobs \ {j} : Alone(i),
           UNCHANGED <<scheme, file, processed, opened>>, LoadPhase[j] = "loads",
           LoadPhase'[j] = "loads",
           \/ rows' = rows \cup Batch(j) /\ UNCHANGED refused
           \/ refused' = refused \cup Batch(j) /\ UNCHANGED rows
    PROVE  Loading!Try(j) \/ UNCHANGED Loading!vars
<1> DEFINE hand == HandNumbers(j)
<1>1. /\ opened[j] # NoFile /\ Batch(j) = {Row(j, k) : k \in hand}
      /\ hand \subseteq LoadLeft[j] \ Loading!Unread(j) /\ Loading!Upcoming(j) = hand
  BY HandNext
<1>2. Keys(Batch(j)) = {j} \X hand
  <2>1. \A k : Row(j, k).key = <<j, k>>
    BY DEF Row
  <2>2. Keys(Batch(j)) = {<<j, k>> : k \in hand}
    BY <1>1, <2>1 DEF Keys
  <2> HIDE DEF hand
  <2> QED
    BY <2>2
<1>3. n[j] # 0
  BY InHandBatch
<1>4. Tried(j)' = Tried(j) \cup Batch(j)
  <2>1. (rows \cup refused)' = (rows \cup refused) \cup Batch(j)
    OBVIOUS
  <2> QED
    BY <1>3, <2>1, TriedMore
<1>5. LoadLeft'[j] = LoadLeft[j] \ hand
  <2>1. LoadLeft[j] = {k \in Loading!Numbers(j, opened[j]) : Row(j, k) \notin Tried(j)}
    BY <1>1, LeftNumbers DEF Typed
  <2>2. LoadLeft'[j] = {r.key[2] : r \in Due(j) \ Tried(j)'}
    BY <1>1 DEF LoadLeft, Due, Scheme
  <2>3. Due(j) = {Row(j, k) : k \in Loading!Numbers(j, opened[j])} /\ \A k : Row(j, k).key[2] = k
    BY NumbersDue DEF Typed, Row
  <2>4. \A k, l : Row(j, k) = Row(j, l) => k = l
    <3>1. \A k : Row(j, k).key[2] = k
      BY DEF Row
    <3> QED
      BY <3>1
  <2> HIDE DEF hand
  <2>5. \A k : Row(j, k) \in Batch(j) <=> k \in hand
    BY <1>1, <2>4
  <2> QED
    BY <1>4, <2>1, <2>2, <2>3, <2>5
<1>6. LoadPhase' = LoadPhase
  <2>1. LoadPhase' = [LoadPhase EXCEPT ![j] = LoadPhase[j]]
    BY LoadOfOne
  <2> QED
    BY <2>1 DEF LoadPhase
<1>7. LoadLeft' = [LoadLeft EXCEPT ![j] = LoadLeft[j] \ hand]
  BY <1>5, LoadOfOne
<1>8. \A S, T : Keys(S \cup T) = Keys(S) \cup Keys(T)
  BY DEF Keys
<1>9. CASE hand = {}
  <2>1. Batch(j) = {} /\ LoadLeft'[j] = LoadLeft[j]
    BY <1>1, <1>5, <1>9
  <2>2. UNCHANGED <<rows, refused>>
    BY <2>1
  <2>3. LoadLeft' = LoadLeft
    <3>1. LoadLeft' = [LoadLeft EXCEPT ![j] = LoadLeft[j]]
      BY <2>1, LoadOfOne
    <3> QED
      BY <3>1 DEF LoadLeft
  <2> QED
    BY <1>6, <2>2, <2>3 DEF Loading!vars, Keys
<1>10. CASE hand # {}
  <2>1. LoadLeft[j] # Loading!Unread(j)
    BY <1>1, <1>10
  <2>2. \/ Keys(rows)' = Keys(rows) \cup {j} \X hand /\ UNCHANGED Keys(refused)
        \/ Keys(refused)' = Keys(refused) \cup {j} \X hand /\ UNCHANGED Keys(rows)
    <3>1. CASE rows' = rows \cup Batch(j) /\ UNCHANGED refused
      BY <1>2, <1>8, <3>1 DEF Keys
    <3>2. CASE refused' = refused \cup Batch(j) /\ UNCHANGED rows
      BY <1>2, <1>8, <3>2 DEF Keys
    <3> QED
      BY <3>1, <3>2
  <2> HIDE DEF hand
  <2> QED
    BY <1>1, <1>6, <1>7, <2>1, <2>2 DEF Loading!Try
<1> QED
  BY <1>9, <1>10

\* How a step that touches no row moves its job, as FileLoad sees it.
Passes(j) ==
    \/ LoadPhase'[j] = LoadPhase[j]
    \/ LoadPhase[j] = "waits" /\ LoadPhase'[j] = "over"
    \/ /\ LoadPhase[j] = "loads" /\ LoadPhase'[j] = "over"
       /\ LoadLeft[j] \in {Loading!Unread(j), Loading!Numbers(j, opened[j])}
    \/ LoadPhase[j] \in {"waits", "loads", "over"} /\ LoadPhase'[j] = "stopped"

LEMMA PassesLoad ==
    ASSUME NEW j \in Jobs, \A i \in Jobs \ {j} : Alone(i), Passes(j),
           TriesKept, UNCHANGED <<file, processed>>
    PROVE  Loading!Next \/ UNCHANGED Loading!vars
<1>1. /\ UNCHANGED <<scheme, file, processed, opened, LoadLeft, Keys(rows), Keys(refused)>>
      /\ LoadPhase' = [LoadPhase EXCEPT ![j] = LoadPhase'[j]]
  BY LeftKept, LoadOfOne DEF TriesKept
<1>2. CASE LoadPhase'[j] = LoadPhase[j]
  <2>1. LoadPhase' = LoadPhase
    BY <1>1, <1>2 DEF LoadPhase
  <2> QED
    BY <1>1, <2>1 DEF Loading!vars
<1>3. CASE LoadPhase[j] = "waits" /\ LoadPhase'[j] = "over"
  <2>1. Loading!TakeNone(j)
    BY <1>1, <1>3 DEF Loading!TakeNone, Loading!Pass
  <2> QED
    BY <2>1 DEF Loading!Next
<1>4. CASE /\ LoadPhase[j] = "loads" /\ LoadPhase'[j] = "over"
           /\ LoadLeft[j] \in {Loading!Unread(j), Loading!Numbers(j, opened[j])}
  <2>1. Loading!Finish(j)
    BY <1>1, <1>4 DEF Loading!Finish, Loading!Pass
  <2> QED
    BY <2>1 DEF Loading!Next
<1>5. CASE LoadPhase[j] \in {"waits", "loads", "over"} /\ LoadPhase'[j] = "stopped"
  <2>1. Loading!Stop(j)
    BY <1>1, <1>5 DEF Loading!Stop, Loading!Pass
  <2> QED
    BY <2>1 DEF Loading!Next
<1> QED
  BY <1>2, <1>3, <1>4, <1>5 DEF Passes

LEMMA MovesLoad ==
    ASSUME Typed, RowsInv, NEW j \in Jobs, Moves(j), \A i \in Jobs \ {j} : Alone(i)
    PROVE  Loading!Next \/ UNCHANGED Loading!vars
<1> USE DEF Goto, dbVars, diskVars
<1>0. pc \in [Jobs -> Labels] /\ Located(j)
  BY DEF Typed, TypeOK
<1>1. CASE Launch(j) \/ Register(j) \/ RegisterFails(j) \/ OpenFails(j)
  <2>1. Passes(j) /\ TriesKept /\ UNCHANGED <<file, processed>>
    BY <1>0, <1>1
       DEF Launch, Register, RegisterFails, OpenFails, Passes, TriesKept, LoadPhase
  <2> QED
    BY <2>1, PassesLoad
<1>2. CASE Kill(j)
  <2>1. Passes(j) /\ TriesKept /\ UNCHANGED <<file, processed>>
    BY <1>0, <1>2 DEF Kill, Passes, TriesKept, LoadPhase
  <2> QED
    BY <2>1, PassesLoad
<1>3. CASE TableCheck(j)
  <2>1. LoadLeft[j] = Loading!Numbers(j, opened[j])
    BY <1>0, <1>3, LeftAtEnds DEF TableCheck, Located, Before, Loads
  <2>2. Passes(j) /\ TriesKept /\ UNCHANGED <<file, processed>>
    BY <1>0, <1>3, <2>1 DEF TableCheck, Passes, TriesKept, LoadPhase
  <2> QED
    BY <2>2, PassesLoad
<1>4. CASE ReadRecord(j) \/ GetStats(j) \/ PutStats(j) \/ StatsFail(j)
           \/ GetMetric(j) \/ PutMetric(j) \/ MetricFails(j)
  <2>1. LoadPhase'[j] = LoadPhase[j] /\ TriesKept /\ UNCHANGED <<file, processed>>
    BY <1>0, <1>4
       DEF ReadRecord, GetStats, PutStats, StatsFail, GetMetric, PutMetric, MetricFails,
           TriesKept, LoadPhase
  <2> QED
    BY <2>1, PassesLoad DEF Passes
<1>5. CASE EndOfFile(j) \/ LogExtract(j)
  <2>1. pc'[j] = "getMetric" => LoadLeft[j] = Loading!Unread(j)
    BY <1>0, <1>5, LeftAtEnds DEF EndOfFile, LogExtract, Located, InHand
  <2>2. /\ pc'[j] \in {"log", "load", "getMetric"} /\ pc[j] \in {"read", "log"}
        /\ TriesKept /\ UNCHANGED <<file, processed>>
    BY <1>0, <1>5 DEF EndOfFile, LogExtract, TriesKept
  <2>3. Passes(j)
    BY <2>1, <2>2 DEF Passes, LoadPhase
  <2> QED
    BY <2>2, <2>3, PassesLoad
<1>6. CASE Load(j) \/ LoadFails(j)
  <2>1. /\ InHand(j) /\ LoadPhase[j] = "loads" /\ LoadPhase'[j] = "loads"
        /\ UNCHANGED <<scheme, file, processed, opened>>
    BY <1>0, <1>6 DEF Load, LoadFails, InHand, LoadPhase
  <2>2. \/ rows' = rows \cup Batch(j) /\ UNCHANGED refused
        \/ refused' = refused \cup Batch(j) /\ UNCHANGED rows
    BY <1>6 DEF Load, LoadFails, Insert
  <2>3. Loading!Try(j) \/ UNCHANGED Loading!vars
    BY <2>1, <2>2, HandTried
  <2> QED
    BY <2>3 DEF Loading!Next
<1>7. CASE Open(j)
  <2> DEFINE f == file[FileOf[j]]
  <2>1. /\ f # NoFile /\ opened' = [opened EXCEPT ![j] = f] /\ opened'[j] = f
        /\ UNCHANGED <<scheme, file, processed, rows, refused>>
        /\ LoadPhase[j] = "waits" /\ LoadPhase'[j] \in {"loads", "over"}
    BY <1>0, <1>7 DEF Open, LoadPhase, Typed, TypeOK
  <2>2. Tried(j)' = {}
    <3>1. n[j] = 0
      BY <1>0, <1>7 DEF Open, Located, Before
    <3>2. Tried(j)' = Tried(j)
      BY <2>1 DEF Tried
    <3> QED
      BY <3>1, <3>2, LeftAtEnds
  <2>3. Due(j)' = {Row(j, k) : k \in Loading!Numbers(j, f)}
    <3>1. Scheme(j) \in Schemes /\ f.records \in Nat
      <4>1. f \in Contents
        BY <2>1 DEF Typed, TypeOK
      <4> QED
        BY <4>1, UnitsType DEF Typed, Contents
    <3>2. opened'[j].records = f.records /\ scheme'[FileOf[j]] = Scheme(j)
      BY <2>1 DEF Scheme
    <3> QED
      BY <3>1, <3>2, RowNumbers DEF Due, Scheme, Loading!Numbers, Loading!Scheme
  <2>4. LoadLeft'[j] = Loading!Numbers(j, f)
    <3>1. LoadLeft'[j] = {r.key[2] : r \in Due(j)'}
      BY <2>1, <2>2 DEF LoadLeft
    <3>2. \A k : Row(j, k).key[2] = k
      BY DEF Row
    <3> HIDE DEF f
    <3> QED
      BY <2>3, <3>1, <3>2
  <2>5. /\ LoadPhase' = [LoadPhase EXCEPT ![j] = LoadPhase'[j]]
        /\ LoadLeft' = [LoadLeft EXCEPT ![j] = LoadLeft'[j]]
        /\ UNCHANGED <<Keys(rows), Keys(refused)>>
    BY <2>1, LoadOfOne DEF Keys
  <2>6. Loading!Take(j)
    BY <2>1, <2>4, <2>5 DEF Loading!Take, Loading!Pass
  <2> QED
    BY <2>6 DEF Loading!Next
<1>8. CASE RenameFile(j)
  <2>1. /\ TriesKept /\ LoadPhase[j] = "over" /\ LoadPhase'[j] = "marked"
        /\ \/ /\ file[FileOf[j]] # NoFile
              /\ processed' = [processed EXCEPT ![FileOf[j]] = file[FileOf[j]]]
              /\ file' = [file EXCEPT ![FileOf[j]] = NoFile]
           \/ UNCHANGED <<file, processed>>
    BY <1>0, <1>8 DEF RenameFile, TriesKept, LoadPhase
  <2>2. /\ LoadPhase' = [LoadPhase EXCEPT ![j] = LoadPhase'[j]]
        /\ UNCHANGED <<scheme, opened, LoadLeft, Keys(rows), Keys(refused)>>
    BY <2>1, LeftKept, LoadOfOne DEF TriesKept
  <2>3. Loading!Mark(j)
    BY <2>1, <2>2 DEF Loading!Mark, Loading!Pass
  <2> QED
    BY <2>3 DEF Loading!Next
<1> QED
  BY <1>1, <1>2, <1>3, <1>4, <1>5, <1>6, <1>7, <1>8 DEF Moves, Step

LEMMA StepLoads ==
    Typed /\ RowsInv /\ [Next]_vars => Loading!Next \/ UNCHANGED Loading!vars
<1> SUFFICES ASSUME Typed, RowsInv, [Next]_vars
             PROVE  Loading!Next \/ UNCHANGED Loading!vars
  OBVIOUS
<1>1. ASSUME NEW f \in Files, Upload(f)
      PROVE  Loading!Next
  <2>1. TriesKept /\ LoadPhase' = LoadPhase /\ processed' = processed
    BY <1>1 DEF Upload, TriesKept, LoadPhase, jobVars, dbVars
  <2>2. \E c \in Contents : file' = [file EXCEPT ![f] = c]
    BY <1>1 DEF Upload
  <2>3. UNCHANGED <<scheme, opened, LoadLeft, Keys(rows), Keys(refused)>>
    BY <2>1, LeftKept DEF TriesKept
  <2>4. Loading!Arrive(f)
    BY <2>1, <2>2, <2>3 DEF Loading!Arrive
  <2> QED
    BY <1>1, <2>4 DEF Loading!Next
<1>2. ASSUME NEW j \in Jobs, Moves(j)
      PROVE  Loading!Next \/ UNCHANGED Loading!vars
  <2>1. \A i \in Jobs \ {j} : Alone(i)
    BY <1>2, MovesAlone
  <2> QED
    BY <1>2, <2>1, MovesLoad
<1>3. CASE UNCHANGED vars
  <2>1. TriesKept /\ LoadPhase' = LoadPhase /\ UNCHANGED <<file, processed>>
    BY <1>3 DEF vars, dbVars, diskVars, jobVars, TriesKept, LoadPhase
  <2> QED
    BY <2>1, LeftKept DEF Loading!vars, TriesKept
<1> QED
  BY <1>1, <1>2, <1>3 DEF Next, Moves

\* With its statements on the log, the statistics and the metric in between,
\* any of which may fail, a job tries the rows of the one file it has taken in
\* their order, each once; it leaves rows untried only where it tries none, where
\* a record of a CSV file does not parse, or where its pod ends; and a file is
\* marked only by a job that is over.
THEOREM ImplementsFileLoad == Spec => LoadSpec
<1>1. Init => Loading!Init
  <2> SUFFICES ASSUME Init PROVE Loading!Init
    OBVIOUS
  <2>1. LoadPhase = [j \in Jobs |-> "waits"] /\ LoadLeft = [j \in Jobs |-> {}]
    BY DEF Init, LoadPhase, LoadLeft
  <2>2. Keys(rows) = {} /\ Keys(refused) = {}
    BY DEF Init, EmptyDatabase, Keys
  <2> QED
    BY <2>1, <2>2 DEF Init, Loading!Init, Schemes
<1>2. Init => Typed /\ RowsInv
  BY InitTyped, InitRows
<1>3. Typed /\ RowsInv /\ [Next]_vars => (Typed /\ RowsInv)'
  BY StepTyped, StepRows
<1> QED
  BY <1>1, <1>2, <1>3, StepLoads, PTL DEF Spec, LoadSpec, Loading!Spec

=============================================================================
