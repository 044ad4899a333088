--------------------------- MODULE ExtractStream ----------------------------
(***************************************************************************)
(* churro-extract on streams: a pod that fetches messages from an API on a *)
(* cron schedule, and a pod that is an HTTP server and stores what is      *)
(* posted to it.  Both handle messages in goroutines of their own that run *)
(* at the same time (the cron library starts a tick whether or not the     *)
(* last one has returned), and both keep the message in hand in a variable *)
(* that all goroutines share and none locks.                               *)
(*                                                                         *)
(* A statement that reads and writes a shared slice is two steps; that     *)
(* two appends may write the same array element is not modelled.           *)
(* Primary keys are the nanosecond of the row's creation; two rows with    *)
(* the same one are covered by LoadFails.  Columns are not modelled.       *)
(***************************************************************************)
EXTENDS PipelineDatabase

CONSTANTS
    None,         \* no goroutine
    Deployed,     \* the sets of pods that a pipeline may have
    Ticks,        \* goroutines of the API job
    Posts,        \* goroutines of the HTTP server, one for each request
    MaxMatches,   \* bound on the rows that the rules find in a message
    PostModes     \* what the post source may be

ASSUME StreamAssumption ==
    /\ LogIds = {"api", "post"} /\ Deployed \subseteq SUBSET LogIds
    /\ Ticks \cap Posts = {} /\ None \notin Ticks \cup Posts
    /\ MaxMatches \in Nat
    /\ PostModes \subseteq {"form", "columns", "raw"}

Handlers == Ticks \cup Posts
Source(h) == IF h \in Ticks THEN "api" ELSE "post"

VARIABLES
    mode,       \* the post source's: "form", "columns" or "raw", by encoding and rules
    server,     \* state of each pod: "new", "serving" or "ended" (or not there)
    pc,         \* where each goroutine is
    message,    \* jsonStruct.Message: the tick that fetched it
    records,    \* jsonStruct.Records
    matches,    \* rows the rules find in the message of a tick
    made,       \* rows a tick has made of them
    view,       \* jsonStruct.Records as a tick has read it for append
    current,    \* CSVStruct.Records: the post whose row it holds
    row,        \* the row that a post has made
    batch,      \* the rows a goroutine has marshalled, to be inserted
    statsBase,  \* what UpdatePipelineStats has read
    logBase,    \* what GetExtractLogById has read
    logged,     \* history: the rows that are counted in the log entry
    failed      \* history: goroutines whose message or a call was bad

apiVars == <<message, records, matches, made, view>>
postVars == <<current, row>>
loadVars == <<batch, statsBase, logBase, logged, failed>>
podVars == <<mode, server>>
vars == <<dbVars, podVars, pc, apiVars, postVars, loadVars>>

NoLog == [records |-> 0, counted |-> {}]
NoRow == [key |-> <<None, 0>>, from |-> None, transforms |-> 0]

Init ==
    /\ EmptyDatabase
    /\ mode \in PostModes
    /\ \E d \in Deployed : server = [s \in LogIds |-> IF s \in d THEN "new" ELSE "ended"]
    /\ pc = [h \in Handlers |-> "idle"]
    /\ message = None /\ records = {}
    /\ matches = [t \in Ticks |-> 0]
    /\ made = [t \in Ticks |-> 0]
    /\ view = [t \in Ticks |-> {}]
    /\ current = None
    /\ row = [p \in Posts |-> NoRow]
    /\ batch = [h \in Handlers |-> {}]
    /\ statsBase = [h \in Handlers |-> NoStats]
    /\ logBase = [t \in Ticks |-> NoLog]
    /\ logged = {}
    /\ failed = {}

Goto(h, l) == pc' = [pc EXCEPT ![h] = l]

-----------------------------------------------------------------------------
(* The pods.  Each creates its log entry, with 0 records, and then serves  *)
(* until it is deleted; what ends it before that is in StartFails.         *)

Start(s) ==
    /\ server[s] = "new"
    /\ CreateExtractLog(s, 0)
    /\ server' = [server EXCEPT ![s] = "serving"]
    /\ UNCHANGED <<rows, pipelineStats, filesProcessed, mode, pc, apiVars, postVars, loadVars>>

\* The entry cannot be created; or, for posts, the Service or the table.  The
\* pod ends through bumpMetric, as one step here (ExtractJob has its two).
StartFails(s) ==
    /\ server[s] = "new"
    /\ \/ UNCHANGED extractlog
       \/ s = "post" /\ CreateExtractLog(s, 0)
    /\ server' = [server EXCEPT ![s] = "ended"]
    /\ UNCHANGED filesProcessed \/ UpdatePipelineMetric(filesProcessed + 1)
    /\ UNCHANGED <<rows, pipelineStats, mode, pc, apiVars, postVars, loadVars>>

\* The pod is deleted, by StopAPI or otherwise, with what its goroutines hold.
Stop(s) ==
    /\ server[s] = "serving"
    /\ server' = [server EXCEPT ![s] = "ended"]
    /\ pc' = [h \in Handlers |-> IF Source(h) = s /\ pc[h] # "idle" THEN "done" ELSE pc[h]]
    /\ failed' = failed \cup {h \in Handlers : Source(h) = s /\ pc[h] \notin {"idle", "done"}}
    /\ UNCHANGED <<dbVars, mode, apiVars, postVars, batch, statsBase, logBase, logged>>

\* A goroutine returns early.
GiveUp(h) ==
    /\ failed' = failed \cup {h}
    /\ Goto(h, "done")
    /\ UNCHANGED <<dbVars, podVars, apiVars, postVars, batch, statsBase, logBase, logged>>

-----------------------------------------------------------------------------
(* A tick of the API job, up to the message for the loader.  Without rules *)
(* a message has no matches.                                               *)

Fetch(t) ==
    /\ pc[t] = "idle" /\ server["api"] = "serving"
    /\ message' = t
    /\ \E k \in 0..MaxMatches : matches' = [matches EXCEPT ![t] = k]
    /\ Goto(t, "reset")
    /\ UNCHANGED <<dbVars, podVars, records, made, view, postVars, loadVars>>

FetchFails(t) ==
    /\ pc[t] = "idle" /\ server["api"] = "serving"
    /\ GiveUp(t)

ResetRecords(t) ==
    /\ pc[t] = "reset"
    /\ records' = {}
    /\ Goto(t, "match")
    /\ UNCHANGED <<dbVars, podVars, message, matches, made, view, postVars, loadVars>>

\* Mutant of ViewRecords: the loop runs to the number of matches, included.
ViewRecordsTooFar(t) ==
    /\ pc[t] = "match" /\ made[t] <= matches[t]
    /\ view' = [view EXCEPT ![t] = records]
    /\ Goto(t, "append")
    /\ UNCHANGED <<dbVars, podVars, message, records, matches, made, postVars, loadVars>>

\* The two halves of records = append(records, r).
ViewRecords(t) ==
    /\ pc[t] = "match" /\ made[t] < matches[t]
    /\ view' = [view EXCEPT ![t] = records]
    /\ Goto(t, "append")
    /\ UNCHANGED <<dbVars, podVars, message, records, matches, made, postVars, loadVars>>

AppendRecord(t) ==
    /\ pc[t] = "append"
    /\ made' = [made EXCEPT ![t] = @ + 1]
    /\ records' = view[t] \cup {[key |-> <<t, made'[t]>>, from |-> t]}
    /\ view' = [view EXCEPT ![t] = {}]
    /\ Goto(t, "match")
    /\ UNCHANGED <<dbVars, podVars, message, matches, postVars, loadVars>>

\* json.Marshal of the shared variable.  Without records the loader stores
\* the message itself, under a key of the tick.
MarshalApi(t) ==
    /\ pc[t] = "match" /\ made[t] = matches[t]
    /\ batch' = [batch EXCEPT ![t] =
                    IF records = {} THEN {[key |-> <<t, 0>>, from |-> message]} ELSE records]
    /\ Goto(t, "load")
    /\ UNCHANGED <<dbVars, podVars, apiVars, postVars, statsBase, logBase, logged, failed>>

TableCheckFails(t) ==
    /\ pc[t] = "match" /\ made[t] = matches[t]
    /\ GiveUp(t)

-----------------------------------------------------------------------------
(* A post.  Its row is made in a local variable and stored in the shared   *)
(* one, whose row is then transformed and marshalled.  A raw message is    *)
(* only local, and its LoaderMessage has no key.                           *)

Receive(p) ==
    /\ pc[p] = "idle" /\ server["post"] = "serving"
    /\ mode # "raw"
    /\ row' = [row EXCEPT ![p] = [key |-> <<p, 1>>, from |-> p, transforms |-> 0]]
    /\ Goto(p, "share")
    /\ UNCHANGED <<dbVars, podVars, apiVars, current, loadVars>>

ReceiveRaw(p) ==
    /\ pc[p] = "idle" /\ server["post"] = "serving"
    /\ mode = "raw"
    /\ batch' = [batch EXCEPT ![p] = {[NoRow EXCEPT !.from = p]}]
    /\ Goto(p, "load")
    /\ UNCHANGED <<dbVars, podVars, apiVars, postVars, statsBase, logBase, logged, failed>>

BadPost(p) ==
    /\ pc[p] = "idle" /\ server["post"] = "serving"
    /\ GiveUp(p)

Share(p) ==
    /\ pc[p] = "share"
    /\ current' = p
    /\ Goto(p, "transform")
    /\ UNCHANGED <<dbVars, podVars, apiVars, row, loadVars>>

\* RunRules on the shared row, whose ever it is by now.
Transform(p) ==
    /\ pc[p] = "transform"
    /\ row' = [row EXCEPT ![current].transforms = @ + 1]
    /\ Goto(p, "marshal")
    /\ UNCHANGED <<dbVars, podVars, apiVars, current, loadVars>>

\* Mutant of MarshalPost: the key is taken when the row is marshalled.
MarshalPostWithKey(p) ==
    /\ pc[p] = "marshal"
    /\ batch' = [batch EXCEPT ![p] = {[row[current] EXCEPT !.key = <<p, 1>>]}]
    /\ Goto(p, "load")
    /\ UNCHANGED <<dbVars, podVars, apiVars, postVars, statsBase, logBase, logged, failed>>

MarshalPost(p) ==
    /\ pc[p] = "marshal"
    /\ batch' = [batch EXCEPT ![p] = {row[current]}]
    /\ Goto(p, "load")
    /\ UNCHANGED <<dbVars, podVars, apiVars, postVars, statsBase, logBase, logged, failed>>

-----------------------------------------------------------------------------
(* The loader: processAPI, processHTTPPost, processJSONPath, processJSON.  *)
(* Posts create a log entry too, but in the admin database, which has no   *)
(* table extractlog, and ignore the error.                                 *)

Load(h) ==
    /\ pc[h] = "load"
    /\ Insert(batch[h])
    /\ Goto(h, IF h \in Posts /\ mode = "raw" THEN "done" ELSE "getStats")
    /\ UNCHANGED <<extractlog, pipelineStats, filesProcessed, podVars, apiVars, postVars, loadVars>>

\* Mutant of Refused: the error of the insert is ignored.
RefusedIgnored(h) ==
    /\ pc[h] = "load"
    /\ ~Insertable(batch[h])
    /\ Goto(h, "getStats")
    /\ UNCHANGED <<dbVars, podVars, apiVars, postVars, loadVars>>

\* A key is taken: the statement is refused, and the goroutine returns.
Refused(h) ==
    /\ pc[h] = "load"
    /\ ~Insertable(batch[h])
    /\ Goto(h, "done")
    /\ UNCHANGED <<dbVars, podVars, apiVars, postVars, loadVars>>

LoadFails(h) ==
    /\ pc[h] = "load"
    /\ GiveUp(h)

GetStats(h) ==
    /\ pc[h] = "getStats"
    /\ \E s \in StatsOf(Source(h)) : statsBase' = [statsBase EXCEPT ![h] = s]
    /\ Goto(h, "putStats")
    /\ UNCHANGED <<dbVars, podVars, apiVars, postVars, batch, logBase, logged, failed>>

\* Mutant of PutStats: the records are counted in the shared variable.
PutStatsShared(h) ==
    /\ pc[h] = "putStats"
    /\ WriteStats(Source(h), statsBase[h], IF h \in Ticks THEN records ELSE batch[h])
    /\ statsBase' = [statsBase EXCEPT ![h] = NoStats]
    /\ Goto(h, IF h \in Ticks THEN "getLog" ELSE "done")
    /\ UNCHANGED <<rows, extractlog, filesProcessed, podVars, apiVars, postVars,
                   batch, logBase, logged, failed>>

PutStats(h) ==
    /\ pc[h] = "putStats"
    /\ WriteStats(Source(h), statsBase[h], batch[h])
    /\ statsBase' = [statsBase EXCEPT ![h] = NoStats]
    /\ Goto(h, IF h \in Ticks THEN "getLog" ELSE "done")
    /\ UNCHANGED <<rows, extractlog, filesProcessed, podVars, apiVars, postVars,
                   batch, logBase, logged, failed>>

StatsFail(h) ==
    /\ pc[h] \in {"getStats", "putStats"}
    /\ GiveUp(h)

\* recCount: a message that is stored itself is not counted.
Counted(t) == {r \in batch[t] : r.key # <<t, 0>>}

GetLog(t) ==
    /\ pc[t] = "getLog"
    /\ extractlog["api"] # NoEntry
    /\ logBase' = [logBase EXCEPT ![t] = [records |-> extractlog["api"], counted |-> logged]]
    /\ Goto(t, "putLog")
    /\ UNCHANGED <<dbVars, podVars, apiVars, postVars, batch, statsBase, logged, failed>>

PutLog(t) ==
    /\ pc[t] = "putLog"
    /\ UpdateExtractLog("api", logBase[t].records + Cardinality(Counted(t)))
    /\ logged' = logBase[t].counted \cup Counted(t)
    /\ logBase' = [logBase EXCEPT ![t] = NoLog]
    /\ Goto(t, "done")
    /\ UNCHANGED <<rows, pipelineStats, filesProcessed, podVars, apiVars, postVars,
                   batch, statsBase, failed>>

LogFails(t) ==
    /\ pc[t] \in {"getLog", "putLog"}
    /\ GiveUp(t)

-----------------------------------------------------------------------------
Tick(t) ==
    \/ Fetch(t) \/ FetchFails(t) \/ ResetRecords(t)
    \/ ViewRecords(t) \/ AppendRecord(t)
    \/ MarshalApi(t) \/ TableCheckFails(t)
    \/ GetLog(t) \/ PutLog(t) \/ LogFails(t)

Post(p) ==
    \/ Receive(p) \/ ReceiveRaw(p) \/ BadPost(p)
    \/ Share(p) \/ Transform(p) \/ MarshalPost(p)

Loader(h) ==
    \/ Load(h) \/ Refused(h) \/ LoadFails(h)
    \/ GetStats(h) \/ PutStats(h) \/ StatsFail(h)

Next ==
    \/ \E s \in LogIds : Start(s) \/ StartFails(s) \/ Stop(s)
    \/ \E t \in Ticks : Tick(t)
    \/ \E p \in Posts : Post(p)
    \/ \E h \in Handlers : Loader(h)

Spec == Init /\ [][Next]_vars

-----------------------------------------------------------------------------
ApiRows == [key : Ticks \X (0..MaxMatches), from : Ticks]
PostRows == [key : (Posts \X {1}) \cup {<<None, 0>>}, from : Posts,
             transforms : Nat]
AllRows == ApiRows \cup PostRows
StatsRows == [file : LogIds, records : Nat, counted : SUBSET AllRows]

Labels == {"idle", "reset", "match", "append", "share", "transform", "marshal",
           "load", "getStats", "putStats", "getLog", "putLog", "done"}

\* Type invariant of the tables, the pods, the shared variables and the goroutines.
TypeOK ==
    /\ rows \subseteq AllRows
    /\ extractlog \in [LogIds -> Nat \cup {NoEntry}]
    /\ pipelineStats \subseteq StatsRows
    /\ filesProcessed \in Nat
    /\ mode \in PostModes
    /\ server \in [LogIds -> {"new", "serving", "ended"}]
    /\ pc \in [Handlers -> Labels]
    /\ message \in Ticks \cup {None}
    /\ records \subseteq ApiRows
    /\ matches \in [Ticks -> 0..MaxMatches]
    /\ made \in [Ticks -> 0..MaxMatches]
    /\ view \in [Ticks -> SUBSET ApiRows]
    /\ current \in Posts \cup {None}
    /\ row \in [Posts -> PostRows \cup {NoRow}]
    /\ batch \in [Handlers -> SUBSET AllRows]
    /\ statsBase \in [Handlers -> StatsRows \cup {NoStats}]
    /\ logBase \in [Ticks -> [records : Nat, counted : SUBSET ApiRows]]
    /\ logged \subseteq ApiRows
    /\ failed \subseteq Handlers

\* The log entry of an API job is read, added to and written by each tick in
\* separate statements, and the ticks marshal records of each other; still it
\* never says more records than are stored.
LogNotAhead ==
    extractlog["api"] # NoEntry =>
        extractlog["api"] <= Cardinality({r \in rows : r.from \in Ticks /\ r.key # <<r.from, 0>>})

\* No row of pipeline_stats says more records than were stored from its
\* source, although goroutines read, add and write in separate statements
\* and may have marshalled each other's rows.
StatsNotAhead ==
    \A s \in pipelineStats :
        s.records <= Cardinality({r \in rows : Source(r.from) = s.file})

\* A post is stored once at most, though its row can be marshalled by other
\* goroutines than its own, before and after it is transformed.
PostStoredOnce ==
    \A p \in Posts : Cardinality({r \in rows : r.from = p}) <= 1

\* Every post is stored, if it was well-formed and no call failed.
PostsStored ==
    \A p \in Posts : pc[p] = "done" /\ p \notin failed => \E r \in rows : r.from = p
============================================================================
