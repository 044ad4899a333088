------------------------ MODULE ExtractSourceServer ------------------------
(***************************************************************************)
(* The churro-extractsource service: one process per pipeline that watches *)
(* the directories of the pipeline's extract sources and starts one        *)
(* churro-extract pod for every file that is closed in, or moved into, one *)
(* of them (internal/extractsource/server.go, apilifecycle.go and          *)
(* harvester.go).                                                          *)
(*                                                                         *)
(* Goroutines.  One watcher per inotify instance: it offers its events,    *)
(* one at a time, on the unbuffered channel QueueOfFiles.  One consumer,   *)
(* the only receiver of that channel.  The gRPC handlers and the harvester *)
(* run beside them.  The churro-ctl handlers that change the list of       *)
(* extract sources are here as the client whose calls the service serves.  *)
(*                                                                         *)
(* Abstractions.                                                           *)
(*  - A file event is a number: its place in the order in which events     *)
(*    happened.  Events of files whose name does not match the regex of    *)
(*    the source have no effect in the code and are not events here.       *)
(*  - What the kernel holds for an inotify instance, what the watcher has  *)
(*    read into its buffer and the event it is blocked on sending are one  *)
(*    sequence, backlog[w]; its head is the one being sent.                *)
(*  - Every source has one definition; an update writes another source's   *)
(*    definition in its place of the list.                                 *)
(*  - A deleted pod is gone at once.                                       *)
(*  - The name of a pod ends in four random characters; a clash with an    *)
(*    existing pod is one of the reasons the API server refuses a pod.     *)
(***************************************************************************)
EXTENDS Integers, Sequences, FiniteSets, SequencesExt

CONSTANTS
    Paths,         \* directories an extract source may name
    FileSources,   \* sources with a file scheme (csv, xml, json, jsonpath, xlsx)
    ApiSources,    \* sources with the api or httppost scheme: never watched
    PathOf,        \* PathOf[s]: the directory of source s
    SchemeOf,      \* SchemeOf[s]: its scheme
    RegexOf,       \* RegexOf[p]: "anchored", "loose" or "invalid" (see Deliver)
    PathWithin,    \* <<d, p>> such that the cleaned form of d contains p
    MaxJobs,       \* Spec.MaxJobs, read once when the service starts
    MaxWatchers,   \* inotify instances the kernel lets the process have
    MaxEvents,     \* bound: file events of a behaviour
    MaxOps,        \* bound: ctl operations on the list of sources
    MaxApiStarts,  \* bound: StartAPI calls
    MaxCrashes,    \* bound: crashes of the service
    NoPath, NoSource, NoEntry

Sources == FileSources \cup ApiSources
Watchers == 1..MaxWatchers
EventIds == 1..MaxEvents

ASSUME ConstantsAssumption ==
    /\ FileSources \cap ApiSources = {}
    /\ PathOf \in [Sources -> Paths]
    /\ \A s \in FileSources, t \in ApiSources : SchemeOf[s] # SchemeOf[t]
    /\ RegexOf \in [Paths -> {"anchored", "loose", "invalid"}]
    /\ NoPath \notin Paths
    /\ NoSource \notin Sources
    /\ MaxJobs \in Nat
    /\ MaxWatchers \in Nat
    /\ MaxEvents \in Nat
    /\ MaxOps \in Nat
    /\ MaxApiStarts \in Nat
    /\ MaxCrashes \in Nat

\* An entry of QueueOfFiles; "from" and "id" are history, the code carries
\* the directory, the file path and the regex.
Entries == [from : Watchers, id : EventIds, path : Paths]
ASSUME NoEntryAssumption == NoEntry \notin Entries

Phases == {"Pending", "Running", "Ended", "Gone"}
QueuePods == [from : Watchers, id : EventIds, path : Paths, src : FileSources,
              phase : Phases, stale : BOOLEAN]
ApiPods == [src : ApiSources, phase : Phases]

VARIABLES
    cr,        \* Spec.Extractsources of the pipeline's custom resource, a list
    ctl,       \* the ctl operation in progress
    ops,       \* ctl operations begun
    removals,  \* ctl operations that took a definition out of the resource
    up,        \* the service is running
    crashes,   \* crashes so far
    starting,  \* starting[p]: watcher goroutines of p not yet watching
    watching,  \* watching[w]: the directory inotify instance w watches
    backlog,   \* backlog[w]: events of w that the consumer has not received
    events,    \* file events so far
    pc,        \* where the consumer goroutine is
    held,      \* the entry it has received
    chosen,    \* the source it is about to name in the pod's definition
    pods,      \* the pods the consumer created, in order
    apiPods    \* the pods StartAPI created, in order

ctlVars == <<cr, ctl, ops, removals>>
watchVars == <<starting, watching, backlog, events>>
consumerVars == <<pc, held, chosen>>
vars == <<ctlVars, up, crashes, watchVars, consumerVars, pods, apiPods>>

---------------------------------------------------------------------------
(* The state. *)

CtlIdle == [at |-> "idle", src |-> NoSource]

TypeOK ==
    /\ cr \in Seq(Sources)
    /\ ctl \in [at : {"idle", "trigger", "purge"}, src : Sources \cup {NoSource}]
    /\ ops \in 0..MaxOps
    /\ removals \in Nat
    /\ up \in BOOLEAN
    /\ crashes \in 0..MaxCrashes
    /\ starting \in [Paths -> Nat]
    /\ watching \in [Watchers -> Paths \cup {NoPath}]
    /\ backlog \in [Watchers -> Seq(EventIds)]
    /\ events \in 0..MaxEvents
    /\ pc \in {"receive", "count", "requeue", "fetch", "create"}
    /\ held \in Entries \cup {NoEntry}
    /\ chosen \in FileSources \cup {NoSource}
    /\ pods \in Seq(QueuePods)
    /\ apiPods \in Seq(ApiPods)

\* ctl refuses a source whose path another source has, whatever its scheme.
PathsUnique(list) ==
    \A i, k \in DOMAIN list : PathOf[list[i]] = PathOf[list[k]] => i = k

Init ==
    /\ \E m \in 0..Cardinality(Sources) : cr \in [1..m -> Sources]
    /\ PathsUnique(cr)
    /\ ctl = CtlIdle
    /\ ops = 0
    /\ removals = 0
    /\ up = FALSE
    /\ crashes = 0
    /\ starting = [p \in Paths |-> 0]
    /\ watching = [w \in Watchers |-> NoPath]
    /\ backlog = [w \in Watchers |-> <<>>]
    /\ events = 0
    /\ pc = "receive"
    /\ held = NoEntry
    /\ chosen = NoSource
    /\ pods = <<>>
    /\ apiPods = <<>>

---------------------------------------------------------------------------
(* Watchers. *)

WatchersOf(p) == {w \in Watchers : watching[w] = p}
FilePaths == {PathOf[s] : s \in ToSet(cr) \cap FileSources}

\* createExtractSources starts one goroutine for every file source of the
\* resource, whether or not its directory is watched already.  It skips the
\* directories it cannot create, and all of them when it cannot read the
\* resource.
CreateExtractSources ==
    \E usable \in SUBSET FilePaths :
        starting' = [p \in Paths |-> starting[p] + (IF p \in usable THEN 1 ELSE 0)]

\* A watcher goroutine gets its inotify instance: the lowest free descriptor.
AddWatch(w) ==
    /\ watching[w] = NoPath
    /\ \A v \in Watchers : v < w => watching[v] # NoPath
    /\ \E p \in Paths :
          /\ starting[p] > 0
          /\ starting' = [starting EXCEPT ![p] = @ - 1]
          /\ watching' = [watching EXCEPT ![w] = p]
    /\ UNCHANGED <<ctlVars, up, crashes, backlog, events, consumerVars, pods, apiPods>>

\* Mutant of WatchFails: a failure is reported for a watcher that never started.
WatchFailsTwice(p) ==
    /\ WatchersOf(NoPath) = {}
    /\ starting' = [starting EXCEPT ![p] = @ - 1]
    /\ UNCHANGED <<ctlVars, up, crashes, watching, backlog, events, consumerVars, pods, apiPods>>

\* inotify_init fails (always, once the process is out of instances) or the
\* directory cannot be watched: the goroutine logs the error and returns.
WatchFails(p) ==
    /\ starting[p] > 0
    /\ starting' = [starting EXCEPT ![p] = @ - 1]
    /\ UNCHANGED <<ctlVars, up, crashes, watching, backlog, events, consumerVars, pods, apiPods>>

\* A file event in directory p reaches every watcher of p, except one that has
\* unread events: for it the kernel may merge the event with an identical one
\* or drop it because the instance's queue is full.  A regex that does not
\* compile makes the watcher return at its first event.
Deliver(p) ==
    /\ events < MaxEvents
    /\ events' = events + 1
    /\ IF RegexOf[p] = "invalid"
       THEN /\ watching' = [w \in Watchers |-> IF watching[w] = p THEN NoPath ELSE watching[w]]
            /\ UNCHANGED backlog
       ELSE \E reached \in SUBSET WatchersOf(p) :
               /\ \A w \in WatchersOf(p) \ reached : backlog[w] # <<>>
               /\ backlog' = [w \in Watchers |-> IF w \in reached
                                                THEN Append(backlog[w], events')
                                                ELSE backlog[w]]
               /\ UNCHANGED watching

\* A user, the upload handler or another program closes a matching file in p
\* (IN_CLOSE_WRITE) or moves one there (IN_MOVED_TO).
FileArrives(p) ==
    /\ Deliver(p)
    /\ UNCHANGED <<ctlVars, up, crashes, starting, consumerVars, pods, apiPods>>

---------------------------------------------------------------------------
(* The consumer: startQueueConsumer. *)

Running(s) == Cardinality({i \in DOMAIN s : s[i].phase = "Running"})

\* getExtractCount: the extract pods whose phase is Running, those of StartAPI
\* included.  Pods that are still Pending do not count.
ExtractCount == Running(pods) + Running(apiPods)

\* The channel has no buffer: receiving takes the event a watcher is blocked on.
Receive(w) ==
    /\ pc = "receive"
    /\ backlog[w] # <<>>
    /\ held' = [from |-> w, id |-> Head(backlog[w]), path |-> watching[w]]
    /\ backlog' = [backlog EXCEPT ![w] = Tail(@)]
    /\ pc' = "count"
    /\ UNCHANGED <<ctlVars, up, crashes, starting, watching, events, chosen, pods, apiPods>>

\* The error of the pod list is logged and ignored, which leaves a count of 0.
\* At the limit the consumer sleeps and then sends the entry on QueueOfFiles:
\* there is no action that leaves "requeue", because a send on an unbuffered
\* channel waits for a receiver and the consumer is the only one.
CountJobs ==
    /\ pc = "count"
    /\ \E count \in {0, ExtractCount} :
          pc' = IF count >= MaxJobs THEN "requeue" ELSE "fetch"
    /\ UNCHANGED <<ctlVars, up, crashes, watchVars, held, chosen, pods, apiPods>>

\* Mutant of TableMatches: the table is looked up by scheme alone.
TableMatchesScheme(c) == {i \in DOMAIN cr : SchemeOf[cr[i]] = SchemeOf[c]}

\* getTable looks for the sources of the same scheme whose path is a substring of
\* the directory of the file, as filepath.Dir cleans it (a source whose path ends
\* in a slash does not match its own files).
TableMatches(c) ==
    {i \in DOMAIN cr :
        SchemeOf[cr[i]] = SchemeOf[c] /\ <<PathOf[c], PathOf[cr[i]]>> \in PathWithin}

\* Mutant of FetchSource: the list of sources is the one the watchers were
\* started from, not the one the resource has now.
FetchSourceCached ==
    /\ pc = "fetch"
    /\ \E c \in FileSources : PathOf[c] = held.path /\ chosen' = c
    /\ pc' = "create"
    /\ UNCHANGED <<ctlVars, up, crashes, watchVars, held, pods, apiPods>>

\* createExtractPodForNewFile reads the resource and finds the source that has
\* the directory; the pod is made for the first match of getTable in the list.
FetchSource ==
    /\ pc = "fetch"
    /\ \E c \in ToSet(cr) \cap FileSources :
          /\ PathOf[c] = held.path
          /\ \E i \in TableMatches(c) :
                /\ \A k \in TableMatches(c) : i <= k
                /\ chosen' = cr[i]
    /\ pc' = "create"
    /\ UNCHANGED <<ctlVars, up, crashes, watchVars, held, pods, apiPods>>

\* Mutant of DropEntry: an entry that cannot be handled is tried again.
DropEntryRetries ==
    /\ pc = "fetch"
    /\ pc' = "count"
    /\ UNCHANGED <<ctlVars, up, crashes, watchVars, held, chosen, pods, apiPods>>

\* No source has the directory any more, getTable finds none, or the resource
\* cannot be read: the entry is forgotten.
DropEntry ==
    /\ pc = "fetch"
    /\ pc' = "receive"
    /\ held' = NoEntry
    /\ UNCHANGED <<ctlVars, up, crashes, watchVars, chosen, pods, apiPods>>

\* Mutant of CreatePod: the entry stays held after its pod is made.
CreatePodKeepsEntry ==
    /\ pc = "create"
    /\ pods' = Append(pods, [from |-> held.from, id |-> held.id, path |-> held.path,
                             src |-> chosen, phase |-> "Pending", stale |-> chosen \notin ToSet(cr)])
    /\ pc' = "receive"
    /\ chosen' = NoSource
    /\ UNCHANGED <<ctlVars, up, crashes, watchVars, held, apiPods>>

\* "stale" is history: the source was deleted after the consumer read it.
CreatePod ==
    /\ pc = "create"
    /\ pods' = Append(pods, [from |-> held.from, id |-> held.id, path |-> held.path,
                             src |-> chosen, phase |-> "Pending", stale |-> chosen \notin ToSet(cr)])
    /\ pc' = "receive"
    /\ held' = NoEntry
    /\ chosen' = NoSource
    /\ UNCHANGED <<ctlVars, up, crashes, watchVars, apiPods>>

\* Mutant of CreatePodFails: the watcher sends a refused entry again, later.
CreatePodFailsRequeues ==
    /\ pc = "create"
    /\ pc' = "receive"
    /\ backlog' = [backlog EXCEPT ![held.from] = Append(@, held.id)]
    /\ held' = NoEntry
    /\ chosen' = NoSource
    /\ UNCHANGED <<ctlVars, up, crashes, starting, watching, events, pods, apiPods>>

\* The API server refuses the pod: the error is logged, the entry forgotten.
CreatePodFails ==
    /\ pc = "create"
    /\ pc' = "receive"
    /\ held' = NoEntry
    /\ chosen' = NoSource
    /\ UNCHANGED <<ctlVars, up, crashes, watchVars, pods, apiPods>>

---------------------------------------------------------------------------
(* The extract pods, run by Kubernetes. *)

PodStarts(i) ==
    /\ pods[i].phase = "Pending"
    /\ pods' = [pods EXCEPT ![i].phase = "Running"]
    /\ UNCHANGED <<ctlVars, up, crashes, watchVars, consumerVars, apiPods>>

\* The pod ends without an event the watchers take: it failed before the
\* rename, the rename failed, or the new name does not match the regex.
PodEnds(i) ==
    /\ pods[i].phase \in {"Pending", "Running"}
    /\ pods' = [pods EXCEPT ![i].phase = "Ended"]
    /\ UNCHANGED <<ctlVars, up, crashes, watchVars, consumerVars, apiPods>>

\* The extract program renames its file to <file>.churro-processed in the same
\* directory; a regex without a closing $ matches the new name as well.
PodRenames(i) ==
    /\ pods[i].phase = "Running"
    /\ RegexOf[pods[i].path] = "loose"
    /\ Deliver(pods[i].path)
    /\ pods' = [pods EXCEPT ![i].phase = "Ended"]
    /\ UNCHANGED <<ctlVars, up, crashes, starting, consumerVars, apiPods>>

ApiPodStarts(i) ==
    /\ apiPods[i].phase = "Pending"
    /\ apiPods' = [apiPods EXCEPT ![i].phase = "Running"]
    /\ UNCHANGED <<ctlVars, up, crashes, watchVars, consumerVars, pods>>

ApiPodEnds(i) ==
    /\ apiPods[i].phase \in {"Pending", "Running"}
    /\ apiPods' = [apiPods EXCEPT ![i].phase = "Ended"]
    /\ UNCHANGED <<ctlVars, up, crashes, watchVars, consumerVars, pods>>

---------------------------------------------------------------------------
(* The other gRPC handlers and the harvester. *)

\* Deleting pods: the indices in D of a sequence of pods are gone.
Delete(s, D) == [i \in DOMAIN s |-> IF i \in D THEN [s[i] EXCEPT !.phase = "Gone"] ELSE s[i]]
Listed(s, src) == {i \in DOMAIN s : s[i].src = src /\ s[i].phase # "Gone"}

\* StartAPI starts a pod for the source, whether or not one is running.
StartAPI(s) ==
    /\ up
    /\ s \in ToSet(cr)
    /\ Len(apiPods) < MaxApiStarts
    /\ apiPods' = Append(apiPods, [src |-> s, phase |-> "Pending"])
    /\ UNCHANGED <<ctlVars, up, crashes, watchVars, consumerVars, pods>>

\* StopAPI deletes the pod of the source if it lists exactly one, ended or not;
\* two or more are an error and none is a success without effect.
StopAPI(s) ==
    /\ up
    /\ s \in ToSet(cr)
    /\ Cardinality(Listed(apiPods, s)) = 1
    /\ apiPods' = Delete(apiPods, Listed(apiPods, s))
    /\ UNCHANGED <<ctlVars, up, crashes, watchVars, consumerVars, pods>>

Ended(s) == {i \in DOMAIN s : s[i].phase = "Ended"}

\* harvest deletes the ended pods that are old enough, up to the first error.
Harvest ==
    /\ up
    /\ \E D \in SUBSET Ended(pods), E \in SUBSET Ended(apiPods) :
          /\ D # {} \/ E # {}
          /\ pods' = Delete(pods, D)
          /\ apiPods' = Delete(apiPods, E)
    /\ UNCHANGED <<ctlVars, up, crashes, watchVars, consumerVars>>

---------------------------------------------------------------------------
(* The handlers of churro-ctl that change the list of sources.  A handler reads *)
(* the resource and writes it back with the resourceVersion it read: the API    *)
(* server refuses the write if another write came between, so the two are one  *)
(* step.                                                                       *)

CtlCreate(s) ==
    /\ ctl.at = "idle"
    /\ ops < MaxOps
    /\ \A c \in ToSet(cr) : PathOf[c] # PathOf[s]
    /\ cr' = Append(cr, s)
    /\ ctl' = [at |-> "trigger", src |-> NoSource]
    /\ ops' = ops + 1
    /\ UNCHANGED <<removals, up, crashes, watchVars, consumerVars, pods, apiPods>>

CtlDelete(s) ==
    /\ ctl.at = "idle"
    /\ ops < MaxOps
    /\ \E i \in DOMAIN cr : cr[i] = s /\ cr' = RemoveAt(cr, i)
    /\ ctl' = [at |-> "trigger", src |-> s]
    /\ ops' = ops + 1
    /\ removals' = removals + 1
    /\ UNCHANGED <<up, crashes, watchVars, consumerVars, pods, apiPods>>

\* UpdateExtractSource writes a new definition t over source s, on its path or on
\* a free one; t = s is an update of other fields, or of an unknown id.  No pod
\* of s is purged.
CtlUpdate(s, t) ==
    /\ ctl.at = "idle"
    /\ ops < MaxOps
    /\ PathOf[t] = PathOf[s] \/ \A c \in ToSet(cr) : PathOf[c] # PathOf[t]
    /\ \E i \in DOMAIN cr : cr[i] = s /\ cr' = [cr EXCEPT ![i] = t]
    /\ ctl' = [at |-> "trigger", src |-> NoSource]
    /\ ops' = ops + 1
    /\ removals' = removals + (IF s = t THEN 0 ELSE 1)
    /\ UNCHANGED <<up, crashes, watchVars, consumerVars, pods, apiPods>>

\* triggerExtractSourceUpdate calls the service's CreateExtractSource, after a
\* deletion or an update as well as after a creation.
CtlTrigger ==
    /\ ctl.at = "trigger"
    /\ up
    /\ CreateExtractSources
    /\ ctl' = IF ctl.src = NoSource THEN CtlIdle ELSE [ctl EXCEPT !.at = "purge"]
    /\ UNCHANGED <<cr, ops, removals, up, crashes, watching, backlog, events, consumerVars,
                   pods, apiPods>>

\* The call fails: the handler returns the error, the change of the resource
\* stays and the pods of a deleted source are not purged.
CtlTriggerFails ==
    /\ ctl.at = "trigger"
    /\ ctl' = CtlIdle
    /\ UNCHANGED <<cr, ops, removals, up, crashes, watchVars, consumerVars, pods, apiPods>>

\* deleteDataSourcePods: the pods of the deleted source, up to the first error.
CtlPurge ==
    /\ ctl.at = "purge"
    /\ ctl' = CtlIdle
    /\ \E D \in SUBSET Listed(pods, ctl.src), E \in SUBSET Listed(apiPods, ctl.src) :
          /\ pods' = Delete(pods, D)
          /\ apiPods' = Delete(apiPods, E)
    /\ UNCHANGED <<cr, ops, removals, up, crashes, watchVars, consumerVars>>

---------------------------------------------------------------------------
(* The process. *)

\* Mutant of Start: the watchers are started by the constructor and by main.
StartTwice ==
    /\ ~up
    /\ up' = TRUE
    /\ \E usable \in SUBSET FilePaths :
          starting' = [p \in Paths |-> IF p \in usable THEN 2 ELSE 0]
    /\ UNCHANGED <<ctlVars, crashes, watching, backlog, events, consumerVars, pods, apiPods>>

\* The new process reads the resource and starts its watchers.  It does not
\* look at the files that are in the directories already.
Start ==
    /\ ~up
    /\ up' = TRUE
    /\ CreateExtractSources
    /\ UNCHANGED <<ctlVars, crashes, watching, backlog, events, consumerVars, pods, apiPods>>

\* Everything the process knew is lost: its inotify queues, the entry it held.
Crash ==
    /\ up
    /\ crashes < MaxCrashes
    /\ up' = FALSE
    /\ crashes' = crashes + 1
    /\ starting' = [p \in Paths |-> 0]
    /\ watching' = [w \in Watchers |-> NoPath]
    /\ backlog' = [w \in Watchers |-> <<>>]
    /\ pc' = "receive"
    /\ held' = NoEntry
    /\ chosen' = NoSource
    /\ UNCHANGED <<ctlVars, events, pods, apiPods>>

Consume == CountJobs \/ FetchSource \/ DropEntry \/ CreatePod \/ CreatePodFails

Next ==
    \/ \E w \in Watchers : AddWatch(w)
    \/ \E p \in Paths : WatchFails(p)
    \/ \E p \in Paths : FileArrives(p)
    \/ \E w \in Watchers : Receive(w)
    \/ Consume
    \/ \E i \in DOMAIN pods : PodStarts(i)
    \/ \E i \in DOMAIN pods : PodEnds(i)
    \/ \E i \in DOMAIN pods : PodRenames(i)
    \/ \E i \in DOMAIN apiPods : ApiPodStarts(i)
    \/ \E i \in DOMAIN apiPods : ApiPodEnds(i)
    \/ \E s \in ApiSources : StartAPI(s)
    \/ \E s \in ApiSources : StopAPI(s)
    \/ Harvest
    \/ \E s \in Sources : CtlCreate(s)
    \/ \E s \in Sources : CtlDelete(s)
    \/ \E s, t \in Sources : CtlUpdate(s, t)
    \/ CtlTrigger
    \/ CtlTriggerFails
    \/ CtlPurge
    \/ Start
    \/ Crash

\* The Go scheduler runs every goroutine that can run, the channel serves its
\* blocked senders in the order in which they blocked, and every call of the
\* consumer to the API server returns.  Nothing is assumed of the users, of
\* the ctl calls or of crashes.
Fairness ==
    /\ \A w \in Watchers : SF_vars(Receive(w))
    /\ WF_vars(Consume)

\* Kubernetes runs the pods it has accepted and they end.
PodFairness == \A i \in 1..(MaxEvents * MaxWatchers) :
                  WF_vars(i \in DOMAIN pods /\ (PodStarts(i) \/ PodEnds(i)))

Spec == Init /\ [][Next]_vars /\ Fairness
SpecPodsEnd == Spec /\ PodFairness

---------------------------------------------------------------------------
(* Properties. *)

\* server.go hands the events of one inotify instance to the consumer one by
\* one and the consumer creates their pods one by one: the pods made for one
\* watcher are in the order of its events, and no event of it has two pods.
PodsInWatcherOrder ==
    \A i, j \in DOMAIN pods :
        i < j /\ pods[i].from = pods[j].from => pods[i].id < pods[j].id

\* No directory's path is contained in another's.
PathsIndependent == \A d, p \in Paths : <<d, p>> \in PathWithin => d = p

\* "match the extractsource using the dirpath which is unique": the pod of a
\* file carries the name and the table of the source of the file's directory.
PodFromItsSource == \A i \in DOMAIN pods : PathOf[pods[i].src] = pods[i].path

\* A pod can be made for a definition that was deleted or replaced, in the window
\* between the consumer's read of the resource and its call to create the pod.
\* Each removal opens that window once: it leaks at most one such pod, and the
\* watchers it leaves behind leak none.
StalePodsBounded == Cardinality({i \in DOMAIN pods : pods[i].stale}) <= removals

\* Every operation on the list of sources starts the watchers of all file
\* sources again, and a start of the service does so once: these are the only
\* reasons for a file to be extracted more than once.
DuplicatesBounded ==
    \A id \in EventIds : Cardinality({i \in DOMAIN pods : pods[i].id = id}) <= 1 + ops

InBacklog(w, id) ==
    \/ \E k \in DOMAIN backlog[w] : backlog[w][k] = id
    \/ held # NoEntry /\ held.from = w /\ held.id = id

\* Every event a watcher has seen is handled (a pod is made for it or it is
\* forgotten), unless the consumer reaches the job limit.
BacklogDrains ==
    \A w \in Watchers, id \in EventIds :
        InBacklog(w, id) ~> (~InBacklog(w, id) \/ pc = "requeue")

\* "sleep a bit if the max jobs is reached, then requeue the original file name
\* to retry" (server.go:501): a requeued entry is tried again.
RequeueRetries == (pc = "requeue") ~> (pc # "requeue")

\* "Maximum concurrent extract jobs." (pages/pipeline-create.html:49)
RunningWithinMaxJobs == ExtractCount <= MaxJobs

\* "set up a file watcher for all non-API extract sources" (server.go:329): a
\* source has one watcher, so that a file of it is extracted once.
OneWatcherPerSource == \A s \in FileSources : Cardinality(WatchersOf(PathOf[s])) <= 1

---------------------------------------------------------------------------
(* Refinement. *)

\* The queue of a watcher is the entry the consumer holds, if it came from that
\* watcher, followed by the backlog; the jobs started are the pods.
IntakeQueue ==
    [w \in Watchers |-> (IF held # NoEntry /\ held.from = w THEN <<held.id>> ELSE <<>>)
                          \o backlog[w]]
IntakeStarted == [i \in DOMAIN pods |-> [from |-> pods[i].from, id |-> pods[i].id]]

Intake == INSTANCE FileIntake WITH
    seen <- events, queue <- IntakeQueue, started <- IntakeStarted

\* Receiving, counting jobs, looking up the source and creating the pod are, seen
\* from outside, one step that handles the oldest event of one watcher.
IntakeSpec == Intake!Spec

---------------------------------------------------------------------------
(* The inductive invariant behind PodsInWatcherOrder and PodFromItsSource.  *)

\* The consumer holds an entry exactly where it works on one, and only a
\* watcher of a directory with a regex that compiles has events.
EntryHeld ==
    /\ pc = "receive" <=> held = NoEntry
    /\ pc = "create" => chosen \in FileSources
BacklogWatched ==
    \A w \in Watchers : backlog[w] # <<>> =>
        watching[w] \in Paths /\ RegexOf[watching[w]] # "invalid"

\* Numbers grow from the pods of a watcher over the entry held to its backlog.
BacklogInOrder ==
    \A w \in Watchers : \A k, l \in DOMAIN backlog[w] : k < l => backlog[w][k] < backlog[w][l]
BacklogSeen ==
    \A w \in Watchers : \A k \in DOMAIN backlog[w] : backlog[w][k] <= events
HeldBeforeBacklog ==
    held # NoEntry => /\ held.id <= events
                      /\ \A k \in DOMAIN backlog[held.from] : held.id < backlog[held.from][k]
PodsBeforeHeld ==
    \A i \in DOMAIN pods : held # NoEntry /\ held.from = pods[i].from => pods[i].id < held.id
PodsBeforeBacklog ==
    \A i \in DOMAIN pods :
        /\ pods[i].id <= events
        /\ \A k \in DOMAIN backlog[pods[i].from] : pods[i].id < backlog[pods[i].from][k]

TypeInv == TypeOK /\ EntryHeld /\ BacklogWatched
OrderInv ==
    /\ BacklogInOrder
    /\ BacklogSeen
    /\ HeldBeforeBacklog
    /\ PodsBeforeHeld
    /\ PodsBeforeBacklog
    /\ PodsInWatcherOrder
SourceInv ==
    /\ pc = "create" => PathOf[chosen] = held.path
    /\ PodFromItsSource
============================================================================
