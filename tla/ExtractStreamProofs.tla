------------------------- MODULE ExtractStreamProofs -------------------------
(***************************************************************************)
(* Proofs about churro-extract on streams, for any number of ticks and     *)
(* posts, of rows in a message, and for both databases.                    *)
(***************************************************************************)
EXTENDS ExtractStream, FiniteSetTheorems, TLAPS

-----------------------------------------------------------------------------
(* Types.  What the goroutines hold has to be a row of their own kind, and *)
(* the counts are numbers because the sets that they count are finite.     *)

HandsTyped ==
    /\ \A t \in Ticks : batch[t] \in SUBSET ApiRows
    /\ \A p \in Posts : batch[p] \in SUBSET PostRows
    /\ \A p \in Posts : pc[p] = "share" \/ p = current => row[p] \in PostRows

\* Where a goroutine is, the shared variables have been written.
SharedWritten ==
    /\ \A t \in Ticks : pc[t] \in {"reset", "match", "append"} => message \in Ticks
    /\ \A t \in Ticks : pc[t] = "append" => made[t] < matches[t]
    /\ \A p \in Posts : pc[p] \in {"transform", "marshal"} => current \in Posts

AllFinite ==
    /\ IsFiniteSet(rows) /\ IsFiniteSet(records)
    /\ \A t \in Ticks : IsFiniteSet(view[t])
    /\ \A h \in Handlers : IsFiniteSet(batch[h])

Typed == TypeOK /\ HandsTyped /\ SharedWritten /\ AllFinite

USE StreamAssumption, DatabaseAssumption

LEMMA InitTyped == Init => Typed
<1> SUFFICES ASSUME Init PROVE Typed
  OBVIOUS
<1> USE DEF Init, EmptyDatabase
<1>1. TypeOK
  BY DEF TypeOK, Labels, NoRow, NoLog, Handlers
<1>2. HandsTyped /\ SharedWritten
  BY DEF HandsTyped, SharedWritten, Handlers
<1>3. AllFinite
  BY FS_EmptySet DEF AllFinite
<1> QED
  BY <1>1, <1>2, <1>3 DEF Typed

LEMMA StatsRead ==
    ASSUME NEW s \in StatsRows \cup {NoStats}
    PROVE  s.records \in Nat /\ s.counted \in SUBSET AllRows
<1>1. CASE s \in StatsRows
  BY <1>1 DEF StatsRows
<1>2. CASE s = NoStats
  BY <1>2 DEF NoStats
<1> QED
  BY <1>1, <1>2

LEMMA StepTyped == Typed /\ [Next]_vars => Typed'
<1> SUFFICES ASSUME Typed, [Next]_vars PROVE Typed'
  OBVIOUS
<1> USE DEF Typed, Handlers, Goto, GiveUp, vars, dbVars, podVars, apiVars, postVars, loadVars
<1>1. ASSUME NEW s \in LogIds, Start(s) PROVE Typed'
  <2>1. TypeOK'
    BY <1>1 DEF Start, CreateExtractLog, TypeOK
  <2>2. HandsTyped'
    BY <1>1 DEF Start, HandsTyped, TypeOK
  <2>3. SharedWritten'
    BY <1>1 DEF Start, SharedWritten, TypeOK
  <2>4. AllFinite'
    BY <1>1 DEF Start, AllFinite, TypeOK
  <2> QED
    BY <2>1, <2>2, <2>3, <2>4
<1>2. ASSUME NEW s \in LogIds, StartFails(s) PROVE Typed'
  <2>1. TypeOK'
    BY <1>2 DEF StartFails, CreateExtractLog, UpdatePipelineMetric, TypeOK
  <2>2. HandsTyped'
    BY <1>2 DEF StartFails, HandsTyped, TypeOK
  <2>3. SharedWritten'
    BY <1>2 DEF StartFails, SharedWritten, TypeOK
  <2>4. AllFinite'
    BY <1>2 DEF StartFails, AllFinite, TypeOK
  <2> QED
    BY <2>1, <2>2, <2>3, <2>4
<1>3. ASSUME NEW s \in LogIds, Stop(s) PROVE Typed'
  <2>1. TypeOK'
    BY <1>3 DEF Stop, TypeOK, Labels
  <2>2. HandsTyped'
    BY <1>3 DEF Stop, HandsTyped, TypeOK
  <2>3. SharedWritten'
    BY <1>3 DEF Stop, SharedWritten, TypeOK
  <2>4. AllFinite'
    BY <1>3 DEF Stop, AllFinite, TypeOK
  <2> QED
    BY <2>1, <2>2, <2>3, <2>4
<1>4. ASSUME NEW t \in Ticks, Fetch(t) PROVE Typed'
  <2>1. TypeOK'
    BY <1>4 DEF Fetch, TypeOK, Labels
  <2>2. HandsTyped'
    BY <1>4 DEF Fetch, HandsTyped, TypeOK
  <2>3. SharedWritten'
    BY <1>4 DEF Fetch, SharedWritten, TypeOK
  <2>4. AllFinite'
    BY <1>4 DEF Fetch, AllFinite, TypeOK
  <2> QED
    BY <2>1, <2>2, <2>3, <2>4
<1>5. ASSUME NEW t \in Ticks, FetchFails(t) PROVE Typed'
  <2>1. TypeOK'
    BY <1>5 DEF FetchFails, TypeOK, Labels
  <2>2. HandsTyped'
    BY <1>5 DEF FetchFails, HandsTyped, TypeOK
  <2>3. SharedWritten'
    BY <1>5 DEF FetchFails, SharedWritten, TypeOK
  <2>4. AllFinite'
    BY <1>5 DEF FetchFails, AllFinite, TypeOK
  <2> QED
    BY <2>1, <2>2, <2>3, <2>4
<1>6. ASSUME NEW t \in Ticks, ResetRecords(t) PROVE Typed'
  <2>1. TypeOK'
    BY <1>6 DEF ResetRecords, TypeOK, Labels
  <2>2. HandsTyped'
    BY <1>6 DEF ResetRecords, HandsTyped, TypeOK
  <2>3. SharedWritten'
    BY <1>6 DEF ResetRecords, SharedWritten, TypeOK
  <2>4. AllFinite'
    BY <1>6, FS_EmptySet DEF ResetRecords, AllFinite
  <2> QED
    BY <2>1, <2>2, <2>3, <2>4
<1>7. ASSUME NEW t \in Ticks, ViewRecords(t) PROVE Typed'
  <2>1. TypeOK'
    BY <1>7 DEF ViewRecords, TypeOK, Labels
  <2>2. HandsTyped'
    BY <1>7 DEF ViewRecords, HandsTyped, TypeOK
  <2>3. SharedWritten'
    BY <1>7 DEF ViewRecords, SharedWritten, TypeOK
  <2>4. AllFinite'
    BY <1>7 DEF ViewRecords, AllFinite, TypeOK
  <2> QED
    BY <2>1, <2>2, <2>3, <2>4
<1>8. ASSUME NEW t \in Ticks, AppendRecord(t) PROVE Typed'
  <2> DEFINE r == [key |-> <<t, made[t] + 1>>, from |-> t]
  <2>a. made'[t] \in 0..MaxMatches /\ made' = [made EXCEPT ![t] = @ + 1]
    BY <1>8 DEF AppendRecord, TypeOK, SharedWritten
  <2>b. r \in ApiRows
    BY <2>a DEF ApiRows, TypeOK
  <2>c. records' = view[t] \cup {r}
    BY <1>8 DEF AppendRecord, TypeOK
  <2> HIDE DEF r
  <2>1. TypeOK'
    BY <1>8, <2>a, <2>b, <2>c DEF AppendRecord, TypeOK, Labels
  <2>2. HandsTyped'
    BY <1>8 DEF AppendRecord, HandsTyped, TypeOK
  <2>3. SharedWritten'
    BY <1>8 DEF AppendRecord, SharedWritten, TypeOK
  <2>4. AllFinite'
    <3>1. IsFiniteSet(records')
      BY <2>c, FS_AddElement DEF AllFinite
    <3>2. IsFiniteSet({})
      BY FS_EmptySet
    <3> QED
      BY <1>8, <3>1, <3>2 DEF AppendRecord, AllFinite, TypeOK
  <2> QED
    BY <2>1, <2>2, <2>3, <2>4
<1>9. ASSUME NEW t \in Ticks, MarshalApi(t) PROVE Typed'
  <2>a. PICK b \in SUBSET ApiRows : batch' = [batch EXCEPT ![t] = b] /\ IsFiniteSet(b)
    <3>1. CASE records = {}
      <4> DEFINE b == {[key |-> <<t, 0>>, from |-> message]}
      <4>1. message \in Ticks
        BY <1>9 DEF MarshalApi, SharedWritten
      <4>2. [key |-> <<t, 0>>, from |-> message] \in ApiRows
        BY <4>1 DEF ApiRows
      <4>3. b \in SUBSET ApiRows /\ IsFiniteSet(b)
        BY <4>2, FS_Singleton
      <4> QED
        BY <1>9, <3>1, <4>3 DEF MarshalApi
    <3>2. CASE records # {}
      BY <1>9, <3>2 DEF MarshalApi, AllFinite, TypeOK
    <3> QED
      BY <3>1, <3>2
  <2>1. TypeOK'
    BY <1>9, <2>a DEF MarshalApi, TypeOK, AllRows, Labels
  <2>2. HandsTyped'
    BY <1>9, <2>a DEF MarshalApi, HandsTyped, TypeOK
  <2>3. SharedWritten'
    BY <1>9 DEF MarshalApi, SharedWritten, TypeOK
  <2>4. AllFinite'
    BY <1>9, <2>a DEF MarshalApi, AllFinite, TypeOK
  <2> QED
    BY <2>1, <2>2, <2>3, <2>4
<1>10. ASSUME NEW t \in Ticks, TableCheckFails(t) PROVE Typed'
  <2>1. TypeOK'
    BY <1>10 DEF TableCheckFails, TypeOK, Labels
  <2>2. HandsTyped'
    BY <1>10 DEF TableCheckFails, HandsTyped, TypeOK
  <2>3. SharedWritten'
    BY <1>10 DEF TableCheckFails, SharedWritten, TypeOK
  <2>4. AllFinite'
    BY <1>10 DEF TableCheckFails, AllFinite, TypeOK
  <2> QED
    BY <2>1, <2>2, <2>3, <2>4
<1>11. ASSUME NEW t \in Ticks, GetLog(t) PROVE Typed'
  <2>1. TypeOK'
    BY <1>11 DEF GetLog, TypeOK, Labels
  <2>2. HandsTyped'
    BY <1>11 DEF GetLog, HandsTyped, TypeOK
  <2>3. SharedWritten'
    BY <1>11 DEF GetLog, SharedWritten, TypeOK
  <2>4. AllFinite'
    BY <1>11 DEF GetLog, AllFinite, TypeOK
  <2> QED
    BY <2>1, <2>2, <2>3, <2>4
<1>12. ASSUME NEW t \in Ticks, PutLog(t) PROVE Typed'
  <2>a. Counted(t) \subseteq ApiRows /\ Cardinality(Counted(t)) \in Nat
    BY FS_Subset, FS_CardinalityType DEF Counted, HandsTyped, AllFinite
  <2>1. TypeOK'
    BY <1>12, <2>a DEF PutLog, UpdateExtractLog, NoLog, TypeOK, Labels
  <2>2. HandsTyped'
    BY <1>12 DEF PutLog, HandsTyped, TypeOK
  <2>3. SharedWritten'
    BY <1>12 DEF PutLog, SharedWritten, TypeOK
  <2>4. AllFinite'
    BY <1>12 DEF PutLog, AllFinite, TypeOK
  <2> QED
    BY <2>1, <2>2, <2>3, <2>4
<1>13. ASSUME NEW t \in Ticks, LogFails(t) PROVE Typed'
  <2>1. TypeOK'
    BY <1>13 DEF LogFails, TypeOK, Labels
  <2>2. HandsTyped'
    BY <1>13 DEF LogFails, HandsTyped, TypeOK
  <2>3. SharedWritten'
    BY <1>13 DEF LogFails, SharedWritten, TypeOK
  <2>4. AllFinite'
    BY <1>13 DEF LogFails, AllFinite, TypeOK
  <2> QED
    BY <2>1, <2>2, <2>3, <2>4
<1>14. ASSUME NEW p \in Posts, Receive(p) PROVE Typed'
  <2>a. [key |-> <<p, 1>>, from |-> p, transforms |-> 0] \in PostRows
    BY DEF PostRows
  <2>1. TypeOK'
    BY <1>14, <2>a DEF Receive, TypeOK, Labels
  <2>2. HandsTyped'
    BY <1>14, <2>a DEF Receive, HandsTyped, TypeOK
  <2>3. SharedWritten'
    BY <1>14 DEF Receive, SharedWritten, TypeOK
  <2>4. AllFinite'
    BY <1>14 DEF Receive, AllFinite, TypeOK
  <2> QED
    BY <2>1, <2>2, <2>3, <2>4
<1>15. ASSUME NEW p \in Posts, ReceiveRaw(p) PROVE Typed'
  <2>a. PICK b \in SUBSET PostRows : batch' = [batch EXCEPT ![p] = b] /\ IsFiniteSet(b)
    <3>1. [NoRow EXCEPT !.from = p] \in PostRows
      BY DEF NoRow, PostRows
    <3> QED
      <4> DEFINE b == {[NoRow EXCEPT !.from = p]}
      <4>1. b \in SUBSET PostRows /\ IsFiniteSet(b)
        BY <3>1, FS_Singleton
      <4>2. batch' = [batch EXCEPT ![p] = b]
        BY <1>15 DEF ReceiveRaw
      <4> QED
        BY <4>1, <4>2
  <2>1. TypeOK'
    BY <1>15, <2>a DEF ReceiveRaw, TypeOK, AllRows, Labels
  <2>2. HandsTyped'
    BY <1>15, <2>a DEF ReceiveRaw, HandsTyped, TypeOK
  <2>3. SharedWritten'
    BY <1>15 DEF ReceiveRaw, SharedWritten, TypeOK
  <2>4. AllFinite'
    BY <1>15, <2>a DEF ReceiveRaw, AllFinite, TypeOK
  <2> QED
    BY <2>1, <2>2, <2>3, <2>4
<1>16. ASSUME NEW p \in Posts, BadPost(p) PROVE Typed'
  <2>1. TypeOK'
    BY <1>16 DEF BadPost, TypeOK, Labels
  <2>2. HandsTyped'
    BY <1>16 DEF BadPost, HandsTyped, TypeOK
  <2>3. SharedWritten'
    BY <1>16 DEF BadPost, SharedWritten, TypeOK
  <2>4. AllFinite'
    BY <1>16 DEF BadPost, AllFinite, TypeOK
  <2> QED
    BY <2>1, <2>2, <2>3, <2>4
<1>17. ASSUME NEW p \in Posts, Share(p) PROVE Typed'
  <2>1. TypeOK'
    BY <1>17 DEF Share, TypeOK, Labels
  <2>2. HandsTyped'
    BY <1>17 DEF Share, HandsTyped, TypeOK
  <2>3. SharedWritten'
    BY <1>17 DEF Share, SharedWritten, TypeOK
  <2>4. AllFinite'
    BY <1>17 DEF Share, AllFinite, TypeOK
  <2> QED
    BY <2>1, <2>2, <2>3, <2>4
<1>18. ASSUME NEW p \in Posts, Transform(p) PROVE Typed'
  <2>a. PICK r \in PostRows : row' = [row EXCEPT ![current] = r]
    <3>1. current \in Posts /\ row[current] \in PostRows
      BY <1>18 DEF Transform, SharedWritten, HandsTyped
    <3>2. [row[current] EXCEPT !.transforms = @ + 1] \in PostRows
      BY <3>1 DEF PostRows
    <3>3. row' = [row EXCEPT ![current] = [row[current] EXCEPT !.transforms = @ + 1]]
      BY <1>18, <3>1 DEF Transform, TypeOK
    <3> QED
      BY <3>2, <3>3
  <2>1. TypeOK'
    <3>1. row' \in [Posts -> PostRows \cup {NoRow}]
      BY <2>a DEF TypeOK
    <3> QED
      BY <1>18, <3>1 DEF Transform, TypeOK, Labels
  <2>2. HandsTyped'
    BY <1>18, <2>a DEF Transform, HandsTyped, TypeOK
  <2>3. SharedWritten'
    BY <1>18 DEF Transform, SharedWritten, TypeOK
  <2>4. AllFinite'
    BY <1>18 DEF Transform, AllFinite, TypeOK
  <2> QED
    BY <2>1, <2>2, <2>3, <2>4
<1>19. ASSUME NEW p \in Posts, MarshalPost(p) PROVE Typed'
  <2>a. PICK b \in SUBSET PostRows : batch' = [batch EXCEPT ![p] = b] /\ IsFiniteSet(b)
    <3>1. row[current] \in PostRows
      BY <1>19 DEF MarshalPost, SharedWritten, HandsTyped
    <3> QED
      <4> DEFINE b == {row[current]}
      <4>1. b \in SUBSET PostRows /\ IsFiniteSet(b)
        BY <3>1, FS_Singleton
      <4>2. batch' = [batch EXCEPT ![p] = b]
        BY <1>19 DEF MarshalPost
      <4> QED
        BY <4>1, <4>2
  <2>1. TypeOK'
    BY <1>19, <2>a DEF MarshalPost, TypeOK, AllRows, Labels
  <2>2. HandsTyped'
    BY <1>19, <2>a DEF MarshalPost, HandsTyped, TypeOK
  <2>3. SharedWritten'
    BY <1>19 DEF MarshalPost, SharedWritten, TypeOK
  <2>4. AllFinite'
    BY <1>19, <2>a DEF MarshalPost, AllFinite, TypeOK
  <2> QED
    BY <2>1, <2>2, <2>3, <2>4
<1>20. ASSUME NEW h \in Handlers, Load(h) PROVE Typed'
  <2>1. TypeOK'
    BY <1>20 DEF Load, Insert, TypeOK, Labels
  <2>2. HandsTyped'
    BY <1>20 DEF Load, HandsTyped, TypeOK
  <2>3. SharedWritten'
    BY <1>20 DEF Load, SharedWritten, TypeOK
  <2>4. AllFinite'
    BY <1>20, FS_Union DEF Load, Insert, AllFinite
  <2> QED
    BY <2>1, <2>2, <2>3, <2>4
<1>21. ASSUME NEW h \in Handlers, Refused(h) PROVE Typed'
  <2>1. TypeOK'
    BY <1>21 DEF Refused, TypeOK, Labels
  <2>2. HandsTyped'
    BY <1>21 DEF Refused, HandsTyped, TypeOK
  <2>3. SharedWritten'
    BY <1>21 DEF Refused, SharedWritten, TypeOK
  <2>4. AllFinite'
    BY <1>21 DEF Refused, AllFinite, TypeOK
  <2> QED
    BY <2>1, <2>2, <2>3, <2>4
<1>22. ASSUME NEW h \in Handlers, LoadFails(h) PROVE Typed'
  <2>1. TypeOK'
    BY <1>22 DEF LoadFails, TypeOK, Labels
  <2>2. HandsTyped'
    BY <1>22 DEF LoadFails, HandsTyped, TypeOK
  <2>3. SharedWritten'
    BY <1>22 DEF LoadFails, SharedWritten, TypeOK
  <2>4. AllFinite'
    BY <1>22 DEF LoadFails, AllFinite, TypeOK
  <2> QED
    BY <2>1, <2>2, <2>3, <2>4
<1>23. ASSUME NEW h \in Handlers, GetStats(h) PROVE Typed'
  <2>1. TypeOK'
    BY <1>23 DEF GetStats, StatsOf, TypeOK, Labels
  <2>2. HandsTyped'
    BY <1>23 DEF GetStats, HandsTyped, TypeOK
  <2>3. SharedWritten'
    BY <1>23 DEF GetStats, SharedWritten, TypeOK
  <2>4. AllFinite'
    BY <1>23 DEF GetStats, AllFinite, TypeOK
  <2> QED
    BY <2>1, <2>2, <2>3, <2>4
<1>24. ASSUME NEW h \in Handlers, PutStats(h) PROVE Typed'
  <2>a. pipelineStats' \subseteq StatsRows
    <3>1. Source(h) \in LogIds
      BY DEF Source
    <3>2. /\ statsBase[h].records \in Nat
          /\ statsBase[h].counted \subseteq AllRows
          /\ batch[h] \subseteq AllRows
      <4>1. statsBase[h] \in StatsRows \cup {NoStats} /\ batch[h] \in SUBSET AllRows
        BY DEF TypeOK
      <4> QED
        BY <4>1, StatsRead
    <3>3. Cardinality(batch[h]) \in Nat
      BY FS_CardinalityType DEF AllFinite
    <3> QED
      BY <1>24, <3>1, <3>2, <3>3 DEF PutStats, WriteStats, StatsRows, TypeOK
  <2>1. TypeOK'
    BY <1>24, <2>a DEF PutStats, TypeOK, Labels
  <2>2. HandsTyped'
    BY <1>24 DEF PutStats, HandsTyped, TypeOK
  <2>3. SharedWritten'
    BY <1>24 DEF PutStats, SharedWritten, TypeOK
  <2>4. AllFinite'
    BY <1>24 DEF PutStats, AllFinite, TypeOK
  <2> QED
    BY <2>1, <2>2, <2>3, <2>4
<1>25. ASSUME NEW h \in Handlers, StatsFail(h) PROVE Typed'
  <2>1. TypeOK'
    BY <1>25 DEF StatsFail, TypeOK, Labels
  <2>2. HandsTyped'
    BY <1>25 DEF StatsFail, HandsTyped, TypeOK
  <2>3. SharedWritten'
    BY <1>25 DEF StatsFail, SharedWritten, TypeOK
  <2>4. AllFinite'
    BY <1>25 DEF StatsFail, AllFinite, TypeOK
  <2> QED
    BY <2>1, <2>2, <2>3, <2>4
<1>26. CASE UNCHANGED vars
  BY <1>26 DEF TypeOK, HandsTyped, SharedWritten, AllFinite
<1> QED
  BY <1>1, <1>2, <1>3, <1>4, <1>5, <1>6, <1>7, <1>8, <1>9, <1>10, <1>11, <1>12, <1>13, <1>14, <1>15, <1>16, <1>17, <1>18, <1>19, <1>20, <1>21, <1>22, <1>23, <1>24, <1>25, <1>26 DEF Next, Tick, Post, Loader


\* Type correctness of the streams: tables, pods, shared variables and what
\* each tick and each post holds.
THEOREM TypeCorrect == Spec => []TypeOK
<1>1. Typed /\ UNCHANGED vars => Typed'
  BY StepTyped
<1>2. Typed => TypeOK
  BY DEF Typed
<1> QED
  BY InitTyped, StepTyped, <1>2, PTL DEF Spec

-----------------------------------------------------------------------------
(* Rows that are loaded and still to be counted.  Two goroutines may have  *)
(* marshalled the same row; only the one whose insert came first gets here.*)

Loaded == {h \in Handlers : pc[h] \in {"getStats", "putStats", "getLog", "putLog"}}

LoadedOnce ==
    /\ \A h \in Loaded : batch[h] \subseteq rows
    /\ \A g, h \in Loaded : g # h => batch[g] \cap batch[h] = {}

(* The log entry.  Its value is the size of a set of rows, and so is what  *)
(* each tick has read of it; a row that a tick is going to add is in none  *)
(* of these sets.                                                          *)

Numbered ==
    /\ \A r \in records : r.key[2] # 0
    /\ \A t \in Ticks : \A r \in view[t] : r.key[2] # 0
    /\ \A t \in Ticks : \A r \in batch[t] : r.key = <<t, 0>> \/ r.key[2] # 0

Fresh(S) == \A u \in Loaded \cap Ticks : batch[u] \cap S = {}

LogInv ==
    /\ Numbered
    /\ IF extractlog["api"] = NoEntry THEN logged = {}
                                      ELSE extractlog["api"] = Cardinality(logged)
    /\ logged \subseteq rows /\ Fresh(logged)
    /\ \A r \in logged : r.key[2] # 0
    /\ \A t \in Ticks : pc[t] = "putLog" =>
           /\ extractlog["api"] # NoEntry
           /\ logBase[t].records = Cardinality(logBase[t].counted)
           /\ logBase[t].counted \subseteq rows /\ Fresh(logBase[t].counted)
           /\ \A r \in logBase[t].counted : r.key[2] # 0

(* The statistics, in the same way: each row of the table, and what each   *)
(* goroutine has read of it.                                               *)

Counting == {h \in Handlers : pc[h] \in {"getStats", "putStats"}}

CountsRows(s, f) ==
    /\ s.records = Cardinality(s.counted)
    /\ s.counted \subseteq rows
    /\ \A r \in s.counted : Source(r.from) = f
    /\ \A h \in Counting : batch[h] \cap s.counted = {}

StatsInv ==
    /\ \A s \in pipelineStats : CountsRows(s, s.file)
    /\ \A h \in Handlers : pc[h] = "putStats" => CountsRows(statsBase[h], Source(h))

(* The rows of posts.  A post has one key, whichever goroutine marshals it *)
(* and however often, and a key is in the table once.                      *)

KeyOf(p) == IF mode = "raw" THEN <<None, 0>> ELSE <<p, 1>>

PostInv ==
    /\ \A r, q \in rows : r.key = q.key => r = q
    /\ \A r \in rows : r.from \in Posts => r.key = KeyOf(r.from)
    /\ \A p \in Posts : \A r \in batch[p] : r.key = KeyOf(r.from)
    /\ \A p \in Posts : pc[p] = "share" \/ p = current =>
           row[p].from = p /\ row[p].key = KeyOf(p)

-----------------------------------------------------------------------------
(* Only an insert adds rows, and only its goroutine's batch to the loaded. *)

Kept ==
    /\ rows' = rows
    /\ Loaded' \subseteq Loaded /\ Counting' \subseteq Counting
    /\ \A h \in Loaded' : batch'[h] = batch[h]

Inserted(h) ==
    /\ rows' = rows \cup batch[h]
    /\ \A r \in batch[h], q \in rows : q.key # r.key
    /\ \A r, q \in batch[h] : q # r => q.key # r.key
    /\ Loaded' \subseteq Loaded \cup {h} /\ Counting' \subseteq Counting \cup {h}
    /\ batch' = batch

LEMMA RowsStep ==
    ASSUME Typed, [Next]_vars
    PROVE  Kept \/ \E h \in Handlers : Load(h) /\ Inserted(h)
<1> USE DEF Typed, TypeOK, Handlers, Goto, GiveUp, Kept, Loaded, Counting,
            vars, dbVars, podVars, apiVars, postVars, loadVars
<1>1. ASSUME NEW s \in LogIds, Start(s) \/ StartFails(s) \/ Stop(s) PROVE Kept
  BY <1>1 DEF Start, StartFails, Stop
<1>2. ASSUME NEW t \in Ticks,
             \/ Fetch(t) \/ FetchFails(t) \/ ResetRecords(t) \/ ViewRecords(t)
             \/ AppendRecord(t) \/ MarshalApi(t) \/ TableCheckFails(t)
      PROVE  Kept
  BY <1>2 DEF Fetch, FetchFails, ResetRecords, ViewRecords, AppendRecord, MarshalApi, TableCheckFails
<1>3. ASSUME NEW t \in Ticks, GetLog(t) \/ PutLog(t) \/ LogFails(t) PROVE Kept
  BY <1>3 DEF GetLog, PutLog, LogFails
<1>4. ASSUME NEW p \in Posts, Post(p) PROVE Kept
  BY <1>4 DEF Post, Receive, ReceiveRaw, BadPost, Share, Transform, MarshalPost
<1>5. ASSUME NEW h \in Handlers,
             Refused(h) \/ LoadFails(h) \/ GetStats(h) \/ PutStats(h) \/ StatsFail(h)
      PROVE  Kept
  BY <1>5 DEF Refused, LoadFails, GetStats, PutStats, StatsFail
<1>6. ASSUME NEW h \in Handlers, Load(h) PROVE Inserted(h)
  BY <1>6 DEF Load, Insert, Insertable, Inserted
<1>7. CASE UNCHANGED vars
  BY <1>7
<1> QED
  BY <1>1, <1>2, <1>3, <1>4, <1>5, <1>6, <1>7 DEF Next, Tick, Loader

LEMMA StepLoaded ==
    ASSUME Typed, LoadedOnce, [Next]_vars
    PROVE  LoadedOnce'
<1>1. CASE Kept
  BY <1>1 DEF Kept, LoadedOnce
<1>2. ASSUME NEW h \in Handlers, Inserted(h) PROVE LoadedOnce'
  <2>1. ASSUME NEW g \in Loaded', g # h
        PROVE  batch'[g] \subseteq rows /\ batch'[g] \cap batch[h] = {}
    BY <1>2, <2>1 DEF Inserted, LoadedOnce
  <2>2. ASSUME NEW f \in Loaded', NEW g \in Loaded', f # g, f # h, g # h
        PROVE  batch'[f] \cap batch'[g] = {}
    BY <1>2, <2>2 DEF Inserted, LoadedOnce
  <2> QED
    BY <1>2, <2>1, <2>2 DEF Inserted, LoadedOnce
<1> QED
  BY <1>1, <1>2, RowsStep

-----------------------------------------------------------------------------
(* The log entry. *)

LEMMA FreshStep ==
    ASSUME Typed, [Next]_vars
    PROVE  /\ rows \subseteq rows'
           /\ \A S \in SUBSET rows :
                  Fresh(S) => \A u \in Loaded' \cap Ticks : batch'[u] \cap S = {}
<1>1. CASE Kept
  BY <1>1 DEF Kept, Fresh
<1>2. ASSUME NEW h \in Handlers, Inserted(h)
      PROVE  /\ rows \subseteq rows'
             /\ \A S \in SUBSET rows :
                    Fresh(S) => \A u \in Loaded' \cap Ticks : batch'[u] \cap S = {}
  BY <1>2 DEF Inserted, Fresh
<1> QED
  BY <1>1, <1>2, RowsStep

LEMMA StepNumbered ==
    ASSUME Typed, Numbered, [Next]_vars
    PROVE  Numbered'
<1> USE DEF Typed, TypeOK, Handlers, Goto, GiveUp, Numbered,
            vars, dbVars, podVars, apiVars, postVars, loadVars
<1>1. ASSUME NEW s \in LogIds, Start(s) \/ StartFails(s) \/ Stop(s) PROVE Numbered'
  BY <1>1 DEF Start, StartFails, Stop
<1>2. ASSUME NEW t \in Ticks,
             \/ Fetch(t) \/ FetchFails(t) \/ ResetRecords(t) \/ ViewRecords(t)
             \/ TableCheckFails(t) \/ GetLog(t) \/ PutLog(t) \/ LogFails(t)
      PROVE  Numbered'
  BY <1>2 DEF Fetch, FetchFails, ResetRecords, ViewRecords, TableCheckFails, GetLog, PutLog, LogFails
<1>3. ASSUME NEW t \in Ticks, AppendRecord(t) PROVE Numbered'
  <2>1. made'[t] = made[t] + 1 /\ made[t] \in Nat
    BY <1>3 DEF AppendRecord
  <2>2. \A r \in records' : r.key[2] # 0
    BY <1>3, <2>1 DEF AppendRecord
  <2> QED
    BY <1>3, <2>2 DEF AppendRecord
<1>4. ASSUME NEW t \in Ticks, MarshalApi(t) PROVE Numbered'
  BY <1>4 DEF MarshalApi
<1>5. ASSUME NEW p \in Posts, Post(p) PROVE Numbered'
  BY <1>5 DEF Post, Receive, ReceiveRaw, BadPost, Share, Transform, MarshalPost
<1>6. ASSUME NEW h \in Handlers, Loader(h) PROVE Numbered'
  BY <1>6 DEF Loader, Load, Refused, LoadFails, GetStats, PutStats, StatsFail
<1>7. CASE UNCHANGED vars
  BY <1>7
<1> QED
  BY <1>1, <1>2, <1>3, <1>4, <1>5, <1>6, <1>7 DEF Next, Tick

\* What leaves the log and what has been read of it alone.
LogKept ==
    /\ UNCHANGED <<logged, logBase>> /\ extractlog'["api"] = extractlog["api"]
    /\ \A t \in Ticks : pc'[t] = "putLog" => pc[t] = "putLog"

LEMMA StepLog ==
    ASSUME Typed, LoadedOnce, LogInv, [Next]_vars
    PROVE  LogInv'
<1> USE DEF Typed, Handlers, Goto, GiveUp, vars, dbVars, podVars, apiVars, postVars, loadVars
<1>1. Numbered'
  BY StepNumbered DEF LogInv
<1>2. ASSUME LogKept PROVE LogInv'
  BY <1>1, <1>2, FreshStep DEF LogKept, LogInv, Fresh
<1>3. ASSUME NEW s \in LogIds, Start(s) \/ StartFails(s) \/ Stop(s) PROVE LogInv'
  <2>1. CASE Start(s) /\ s = "api" /\ extractlog["api"] = NoEntry
    <3>1. extractlog'["api"] = 0 /\ UNCHANGED <<logged, logBase, pc>>
      BY <2>1 DEF Start, CreateExtractLog, TypeOK
    <3>2. Cardinality(logged') = 0 /\ 0 # NoEntry
      <4>1. logged' = {}
        BY <2>1, <3>1 DEF LogInv
      <4> QED
        BY <4>1, FS_EmptySet
    <3> QED
      BY <1>1, <2>1, <3>1, <3>2, FreshStep DEF LogInv, Fresh
  <2>2. CASE ~(Start(s) /\ s = "api" /\ extractlog["api"] = NoEntry)
    BY <1>2, <1>3, <2>2 DEF Start, StartFails, Stop, CreateExtractLog, LogKept, TypeOK
  <2> QED
    BY <2>1, <2>2
<1>4. ASSUME NEW t \in Ticks, Tick(t), ~GetLog(t), ~PutLog(t) PROVE LogKept
  BY <1>4 DEF Tick, Fetch, FetchFails, ResetRecords, ViewRecords, AppendRecord, MarshalApi,
              TableCheckFails, LogFails, LogKept, TypeOK
<1>5. ASSUME NEW t \in Ticks, GetLog(t) PROVE LogInv'
  <2>1. /\ logBase' = [logBase EXCEPT ![t] = [records |-> extractlog["api"], counted |-> logged]]
        /\ UNCHANGED <<extractlog, logged>> /\ extractlog["api"] # NoEntry
        /\ \A u \in Ticks \ {t} : pc'[u] = pc[u]
    BY <1>5 DEF GetLog, TypeOK
  <2>2. \A u \in Ticks \ {t} : logBase'[u] = logBase[u]
    BY <2>1 DEF TypeOK
  <2>3. logBase'[t].records = extractlog["api"] /\ logBase'[t].counted = logged
    BY <2>1 DEF TypeOK
  <2> QED
    BY <1>1, <2>1, <2>2, <2>3, FreshStep DEF LogInv, Fresh
<1>6. ASSUME NEW t \in Ticks, PutLog(t) PROVE LogInv'
  <2> DEFINE old == logBase[t].counted
             new == Counted(t)
  <2>1. /\ logged' = old \cup new
        /\ extractlog'["api"] = logBase[t].records + Cardinality(new)
        /\ \A u \in Ticks : pc'[u] = "putLog" => u # t /\ pc[u] = "putLog"
        /\ \A u \in Ticks \ {t} : logBase'[u] = logBase[u]
        /\ UNCHANGED <<rows, batch>> /\ t \in Loaded /\ t \notin Loaded'
        /\ Loaded' \subseteq Loaded
    BY <1>6 DEF PutLog, UpdateExtractLog, LogInv, TypeOK, Loaded
  <2>2. new \subseteq rows /\ new \cap old = {} /\ IsFiniteSet(new) /\ IsFiniteSet(old)
    <3>1. old \subseteq rows /\ Fresh(old)
      BY <1>6 DEF PutLog, LogInv
    <3>2. new \subseteq batch[t] /\ batch[t] \subseteq rows
      BY <2>1 DEF Counted, LoadedOnce
    <3> QED
      BY <2>1, <3>1, <3>2, FS_Subset DEF Fresh, AllFinite
  <2>3. Cardinality(logged') = extractlog'["api"]
    <3>1. Cardinality(old \cup new) = Cardinality(old) + Cardinality(new) - Cardinality(old \cap new)
      BY <2>2, FS_Union
    <3>2. Cardinality(old \cap new) = 0
      BY <2>2, FS_EmptySet
    <3>3. logBase[t].records = Cardinality(old)
      BY <1>6 DEF PutLog, LogInv
    <3> QED
      BY <2>1, <2>2, <3>1, <3>2, <3>3, FS_CardinalityType
  <2>4. \A r \in logged' : r.key[2] # 0
    BY <1>6, <2>1 DEF PutLog, LogInv, Numbered, Counted
  <2>5. logged' \subseteq rows'
    BY <1>6, <2>1, <2>2 DEF PutLog, LogInv
  <2>6. Fresh(logged)'
    BY <1>6, <2>1, <2>2 DEF PutLog, LogInv, LoadedOnce, Fresh, Counted
  <2>7. extractlog'["api"] # NoEntry
    <3>1. IsFiniteSet(logged')
      BY <2>1, <2>2, FS_Union
    <3>2. Cardinality(logged') \in Nat
      BY <3>1, FS_CardinalityType
    <3> QED
      BY <2>3, <3>2
  <2>8. ASSUME NEW u \in Ticks, pc'[u] = "putLog"
        PROVE  /\ logBase'[u].records = Cardinality(logBase'[u].counted)
               /\ logBase'[u].counted \subseteq rows' /\ Fresh(logBase[u].counted)'
               /\ \A r \in logBase'[u].counted : r.key[2] # 0
    BY <2>1, <2>8 DEF LogInv, Fresh
  <2> QED
    BY <1>1, <2>3, <2>4, <2>5, <2>6, <2>7, <2>8 DEF LogInv
<1>7. ASSUME NEW p \in Posts, Post(p) PROVE LogKept
  BY <1>7 DEF Post, Receive, ReceiveRaw, BadPost, Share, Transform, MarshalPost, LogKept, TypeOK
<1>8. ASSUME NEW h \in Handlers, Loader(h) PROVE LogKept
  BY <1>8 DEF Loader, Load, Refused, LoadFails, GetStats, PutStats, StatsFail, LogKept, TypeOK
<1>9. CASE UNCHANGED vars
  BY <1>2, <1>9 DEF LogKept
<1> QED
  BY <1>2, <1>3, <1>4, <1>5, <1>6, <1>7, <1>8, <1>9 DEF Next

LEMMA InitLog == Init => LoadedOnce /\ LogInv
<1> SUFFICES ASSUME Init PROVE LoadedOnce /\ LogInv
  OBVIOUS
<1>1. LoadedOnce
  BY DEF Init, LoadedOnce, Loaded
<1>2. LogInv
  BY DEF Init, EmptyDatabase, LogInv, Numbered, Fresh, Loaded, Handlers
<1> QED
  BY <1>1, <1>2

\* The log entry of an API job never says more records than are stored,
\* whatever ticks overlap, fail, are refused or share their records.
THEOREM LogCorrect == Spec => []LogNotAhead
<1> DEFINE Inv == Typed /\ LoadedOnce /\ LogInv
<1>1. Init => Inv
  BY InitTyped, InitLog
<1>2. Inv /\ [Next]_vars => Inv'
  BY StepTyped, StepLoaded, StepLog
<1>3. Inv => LogNotAhead
  <2> SUFFICES ASSUME Inv, extractlog["api"] # NoEntry
               PROVE  extractlog["api"]
                        <= Cardinality({r \in rows : r.from \in Ticks /\ r.key # <<r.from, 0>>})
    BY DEF LogNotAhead
  <2> DEFINE S == {r \in rows : r.from \in Ticks /\ r.key # <<r.from, 0>>}
  <2>1. logged \subseteq S
    BY DEF LogInv, Typed, TypeOK, ApiRows
  <2>2. IsFiniteSet(S)
    BY FS_Subset DEF Typed, AllFinite
  <2>3. Cardinality(logged) <= Cardinality(S)
    BY <2>1, <2>2, FS_Subset
  <2> QED
    BY <2>3 DEF LogInv
<1> QED
  BY <1>1, <1>2, <1>3, PTL DEF Spec

-----------------------------------------------------------------------------
(* The statistics. *)

LEMMA CountsStep ==
    ASSUME Typed, [Next]_vars
    PROVE  \A s, f : CountsRows(s, f) => CountsRows(s, f)'
<1>1. CASE Kept
  BY <1>1 DEF Kept, CountsRows, Counting, Loaded
<1>2. ASSUME NEW h \in Handlers, Inserted(h)
      PROVE  \A s, f : CountsRows(s, f) => CountsRows(s, f)'
  BY <1>2 DEF Inserted, CountsRows
<1> QED
  BY <1>1, <1>2, RowsStep

\* What leaves the statistics and what has been read of them alone.
StatsKept ==
    /\ UNCHANGED pipelineStats
    /\ \A h \in Handlers : pc'[h] = "putStats" => pc[h] = "putStats" /\ statsBase'[h] = statsBase[h]

LEMMA StepStats ==
    ASSUME Typed, LoadedOnce, StatsInv, [Next]_vars
    PROVE  StatsInv'
<1> USE DEF Typed, Handlers, Goto, GiveUp, vars, dbVars, podVars, apiVars, postVars, loadVars
<1>1. ASSUME StatsKept PROVE StatsInv'
  BY <1>1, CountsStep DEF StatsKept, StatsInv
<1>2. ASSUME NEW s \in LogIds, Start(s) \/ StartFails(s) \/ Stop(s) PROVE StatsKept
  BY <1>2 DEF Start, StartFails, Stop, StatsKept, TypeOK
<1>3. ASSUME NEW t \in Ticks, Tick(t) PROVE StatsKept
  BY <1>3 DEF Tick, Fetch, FetchFails, ResetRecords, ViewRecords, AppendRecord, MarshalApi,
              TableCheckFails, GetLog, PutLog, LogFails, StatsKept, TypeOK
<1>4. ASSUME NEW p \in Posts, Post(p) PROVE StatsKept
  BY <1>4 DEF Post, Receive, ReceiveRaw, BadPost, Share, Transform, MarshalPost, StatsKept, TypeOK
<1>5. ASSUME NEW h \in Handlers, Load(h) \/ Refused(h) \/ LoadFails(h) \/ StatsFail(h)
      PROVE  StatsKept
  BY <1>5 DEF Load, Refused, LoadFails, StatsFail, StatsKept, TypeOK
<1>6. ASSUME NEW h \in Handlers, GetStats(h) PROVE StatsInv'
  <2>1. PICK s \in StatsOf(Source(h)) : statsBase' = [statsBase EXCEPT ![h] = s]
    BY <1>6 DEF GetStats
  <2>2. CountsRows(s, Source(h))
    <3>1. CASE s = NoStats
      BY <3>1, FS_EmptySet DEF CountsRows, NoStats
    <3>2. CASE s # NoStats
      BY <3>2 DEF StatsOf, StatsInv
    <3> QED
      BY <3>1, <3>2
  <2>3. /\ UNCHANGED pipelineStats /\ statsBase'[h] = s
        /\ \A g \in Handlers \ {h} : statsBase'[g] = statsBase[g] /\ pc'[g] = pc[g]
    BY <1>6, <2>1 DEF GetStats, TypeOK
  <2> QED
    BY <2>2, <2>3, CountsStep DEF StatsInv
<1>7. ASSUME NEW h \in Handlers, PutStats(h) PROVE StatsInv'
  <2> DEFINE old == statsBase[h].counted
             new == batch[h]
  <2>0. PICK s : s = [file    |-> Source(h),
                      records |-> statsBase[h].records + Cardinality(new),
                      counted |-> old \cup new]
    OBVIOUS
  <2>a. /\ s.file = Source(h) /\ s.counted = old \cup new
        /\ s.records = statsBase[h].records + Cardinality(new)
    BY <2>0
  <2>1. /\ pipelineStats' \subseteq pipelineStats \cup {s}
        /\ \A g \in Handlers : pc'[g] = "putStats" =>
               g # h /\ pc[g] = "putStats" /\ statsBase'[g] = statsBase[g]
        /\ h \notin Counting' /\ Counting' \subseteq Counting
        /\ h \in Counting /\ h \in Loaded /\ Counting \subseteq Loaded
        /\ UNCHANGED <<rows, batch>>
    BY <1>7, <2>0 DEF PutStats, WriteStats, Counting, Loaded, TypeOK
  <2>2. CountsRows(statsBase[h], Source(h))
    BY <1>7 DEF PutStats, StatsInv
  <2>3. IsFiniteSet(old) /\ IsFiniteSet(new) /\ new \subseteq rows /\ old \subseteq rows
    BY <2>1, <2>2, FS_Subset DEF CountsRows, LoadedOnce, AllFinite
  <2>4. s.records = Cardinality(s.counted)
    <3>1. Cardinality(old \cup new) = Cardinality(old) + Cardinality(new) - Cardinality(old \cap new)
      BY <2>3, FS_Union
    <3>2. old \cap new = {}
      BY <2>1, <2>2 DEF CountsRows
    <3>3. Cardinality(old \cap new) = 0
      BY <3>2, FS_EmptySet
    <3> QED
      BY <2>a, <2>2, <2>3, <3>1, <3>3, FS_CardinalityType DEF CountsRows
  <2>5. \A r \in s.counted : Source(r.from) = s.file
    <3>1. \A r \in new : Source(r.from) = Source(h)
      BY DEF HandsTyped, ApiRows, PostRows, Source
    <3> QED
      BY <2>a, <2>2, <3>1 DEF CountsRows
  <2>6. \A g \in Counting' : batch'[g] \cap s.counted = {}
    BY <2>a, <2>1, <2>2 DEF CountsRows, LoadedOnce
  <2>7. CountsRows(s, s.file)'
    BY <2>a, <2>1, <2>3, <2>4, <2>5, <2>6 DEF CountsRows
  <2> QED
    BY <2>1, <2>7, CountsStep DEF StatsInv
<1>8. CASE UNCHANGED vars
  BY <1>1, <1>8 DEF StatsKept
<1> QED
  BY <1>1, <1>2, <1>3, <1>4, <1>5, <1>6, <1>7, <1>8 DEF Next, Loader

\* No row of pipeline_stats says more records than were stored from its
\* source, whatever ticks and posts run at the same time.
THEOREM StatsCorrect == Spec => []StatsNotAhead
<1> DEFINE Inv == Typed /\ LoadedOnce /\ StatsInv
<1>1. Init => Inv
  <2>1. Init => StatsInv
    BY DEF Init, EmptyDatabase, StatsInv, Handlers
  <2> QED
    BY <2>1, InitTyped, InitLog
<1>2. Inv /\ [Next]_vars => Inv'
  BY StepTyped, StepLoaded, StepStats
<1>3. Inv => StatsNotAhead
  <2> SUFFICES ASSUME Inv, NEW s \in pipelineStats
               PROVE  s.records <= Cardinality({r \in rows : Source(r.from) = s.file})
    BY DEF StatsNotAhead
  <2> DEFINE S == {r \in rows : Source(r.from) = s.file}
  <2>1. s.counted \subseteq S /\ s.records = Cardinality(s.counted)
    BY DEF StatsInv, CountsRows
  <2>2. IsFiniteSet(S)
    BY FS_Subset DEF Typed, AllFinite
  <2> QED
    BY <2>1, <2>2, FS_Subset
<1> QED
  BY <1>1, <1>2, <1>3, PTL DEF Spec

-----------------------------------------------------------------------------
(* The rows of posts. *)

\* What neither stores a row nor makes one for a post.
PostKept ==
    /\ UNCHANGED <<rows, mode, current, row>>
    /\ \A p \in Posts : batch'[p] = batch[p]
    /\ \A p \in Posts : pc'[p] = "share" => pc[p] = "share"

LEMMA StepPost ==
    ASSUME Typed, PostInv, [Next]_vars
    PROVE  PostInv'
<1> USE DEF Typed, Handlers, Goto, GiveUp, vars, dbVars, podVars, apiVars, postVars, loadVars
<1>1. ASSUME PostKept PROVE PostInv'
  BY <1>1 DEF PostKept, PostInv, KeyOf
<1>2. ASSUME NEW s \in LogIds, Start(s) \/ StartFails(s) \/ Stop(s) PROVE PostKept
  BY <1>2 DEF Start, StartFails, Stop, PostKept, TypeOK
<1>3. ASSUME NEW t \in Ticks, Tick(t) PROVE PostKept
  BY <1>3 DEF Tick, Fetch, FetchFails, ResetRecords, ViewRecords, AppendRecord, MarshalApi,
              TableCheckFails, GetLog, PutLog, LogFails, PostKept, TypeOK
<1>4. ASSUME NEW p \in Posts, Receive(p) PROVE PostInv'
  <2>1. /\ mode # "raw" /\ UNCHANGED <<rows, mode, current, batch>>
        /\ \A q \in Posts \ {p} : row'[q] = row[q] /\ pc'[q] = pc[q]
        /\ row'[p].key = <<p, 1>> /\ row'[p].from = p
    BY <1>4 DEF Receive, TypeOK
  <2> QED
    BY <2>1 DEF PostInv, KeyOf
<1>5. ASSUME NEW p \in Posts, ReceiveRaw(p) PROVE PostInv'
  <2>1. /\ mode = "raw" /\ UNCHANGED <<rows, mode, current, row>>
        /\ \A q \in Posts \ {p} : batch'[q] = batch[q] /\ pc'[q] = pc[q]
        /\ batch'[p] = {[NoRow EXCEPT !.from = p]} /\ pc'[p] = "load"
    BY <1>5 DEF ReceiveRaw, TypeOK
  <2>2. \A r \in batch'[p] : r.key = <<None, 0>>
    BY <2>1 DEF NoRow
  <2> QED
    BY <2>1, <2>2 DEF PostInv, KeyOf
<1>6. ASSUME NEW p \in Posts, BadPost(p) PROVE PostKept
  BY <1>6 DEF BadPost, PostKept, TypeOK
<1>7. ASSUME NEW p \in Posts, Share(p) PROVE PostInv'
  <2>1. /\ UNCHANGED <<rows, mode, row, batch>> /\ current' = p
        /\ pc[p] = "share" /\ \A q \in Posts : pc'[q] = "share" => pc[q] = "share"
    BY <1>7 DEF Share, TypeOK
  <2> QED
    BY <2>1 DEF PostInv, KeyOf
<1>8. ASSUME NEW p \in Posts, Transform(p) PROVE PostInv'
  <2>1. /\ UNCHANGED <<rows, mode, current, batch>>
        /\ \A q \in Posts : pc'[q] = "share" => pc[q] = "share"
    BY <1>8 DEF Transform, TypeOK
  <2>2. current \in Posts /\ row[current] \in PostRows
    BY <1>8 DEF Transform, SharedWritten, HandsTyped
  <2>3. /\ row'[current].key = row[current].key /\ row'[current].from = row[current].from
        /\ \A q \in Posts \ {current} : row'[q] = row[q]
    BY <1>8, <2>2 DEF Transform, TypeOK, PostRows
  <2> QED
    BY <2>1, <2>2, <2>3 DEF PostInv, KeyOf
<1>9. ASSUME NEW p \in Posts, MarshalPost(p) PROVE PostInv'
  <2>1. /\ UNCHANGED <<rows, mode, current, row>>
        /\ \A q \in Posts : pc'[q] = "share" => pc[q] = "share"
        /\ \A q \in Posts \ {p} : batch'[q] = batch[q]
        /\ batch'[p] = {row[current]}
    BY <1>9 DEF MarshalPost, TypeOK
  <2>2. row[current].key = KeyOf(row[current].from)
    BY <1>9 DEF MarshalPost, SharedWritten, PostInv
  <2> QED
    BY <2>1, <2>2 DEF PostInv, KeyOf
<1>10. ASSUME NEW h \in Handlers, Load(h) PROVE PostInv'
  <2>1. /\ UNCHANGED <<mode, current, row, batch>> /\ rows' = rows \cup batch[h]
        /\ \A q \in Posts : pc'[q] = "share" => pc[q] = "share"
    BY <1>10 DEF Load, Insert, TypeOK
  <2>2. \A r, q \in rows' : r.key = q.key => r = q
    BY <1>10, <2>1 DEF Load, Insert, Insertable, PostInv
  <2>3. \A r \in batch[h] : r.from \in Posts => r.key = KeyOf(r.from)
    BY DEF HandsTyped, ApiRows, PostInv
  <2> QED
    BY <2>1, <2>2, <2>3 DEF PostInv, KeyOf
<1>11. ASSUME NEW h \in Handlers,
              Refused(h) \/ LoadFails(h) \/ GetStats(h) \/ PutStats(h) \/ StatsFail(h)
       PROVE  PostKept
  BY <1>11 DEF Refused, LoadFails, GetStats, PutStats, StatsFail, PostKept, TypeOK
<1>12. CASE UNCHANGED vars
  BY <1>1, <1>12 DEF PostKept
<1> QED
  BY <1>1, <1>2, <1>3, <1>4, <1>5, <1>6, <1>7, <1>8, <1>9, <1>10, <1>11, <1>12
     DEF Next, Post, Loader

\* A post is stored once at most, however many posts share the variable that
\* it is transformed and marshalled from.
THEOREM PostsStoredOnce == Spec => []PostStoredOnce
<1> DEFINE Inv == Typed /\ PostInv
<1>1. Init => Inv
  <2>1. Init => PostInv
    BY DEF Init, EmptyDatabase, PostInv, Handlers
  <2> QED
    BY <2>1, InitTyped
<1>2. Inv /\ [Next]_vars => Inv'
  BY StepTyped, StepPost
<1>3. Inv => PostStoredOnce
  <2> SUFFICES ASSUME Inv, NEW p \in Posts
               PROVE  Cardinality({r \in rows : r.from = p}) <= 1
    BY DEF PostStoredOnce
  <2> DEFINE S == {r \in rows : r.from = p}
  <2>1. S = {} \/ \E r : S = {r}
    BY DEF PostInv
  <2> HIDE DEF S
  <2>2. Cardinality(S) <= 1
    <3>1. Cardinality(S) \in {0, 1}
      BY <2>1, FS_EmptySet, FS_Singleton, Zenon
    <3> QED
      BY <3>1
  <2> QED
    BY <2>2 DEF S
<1> QED
  BY <1>1, <1>2, <1>3, PTL DEF Spec
=============================================================================
