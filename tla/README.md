# churro: a verification development

churro is a Kubernetes application that extracts files and API data into a database. This directory
holds TLA+ models of its parts, the TLC runs that check them and TLAPS proofs about them. Sources are
named by their path in the repository; `server.go` without a directory is
`internal/extractsource/server.go`.

## 1. Inventory

### Parts, state, operations

| Part | Keeps | Operations |
|---|---|---|
| **Pipeline resource** (`api/v1alpha1`, `pkg/pipeline.go`) | one custom resource per pipeline: sources, rules, extensions, functions, `MaxJobs`, credentials | Get, Update with the version that was read, Create, Delete |
| **churro-extractsource** (`internal/extractsource`) | inotify instances, one goroutine each; the unbuffered channel `QueueOfFiles`; the consumer goroutine; a cron harvester | `CreateExtractSource` (watch all sources), StartAPI, StopAPI, uploads |
| **churro-extract** (`internal/extract`, `internal/transform`, `internal/dataprov`) | one pod per file or API source: its rows, the extract log, statistics, metrics, the name of the file | ExtractCSV, XML, XLS, JSON, JSONPath, API, HTTPPost; transforms; extensions |
| **churro-ctl** (`internal/ctl`) | nothing of its own: it reads and writes the resource, the databases and pods | create, update, delete and read of sources, rules, extensions, functions; status; job logs |
| **database layer** (`internal/db`) | per pipeline: data tables, `dataprov`, `extractlog`, `pipeline_stats`; admin: metrics, users and grants | three backends (mysql, cockroachdb, singlestore) |
| **operator** (`internal/operator`) | children of the resource: secrets, RBAC, volumes, services, stateful set, pods; namespaces | reconcile loops for Pipeline and ChurroUI |
| **UI** (`ui`, `internal/handlers`, `internal/authorization`) | sessions, users, grants | pages; pipeline creation and deletion |

### How they interact

- ctl changes the list of sources in the resource, then calls the extractsource service by gRPC
  (`triggerExtractSourceUpdate`), then, after a deletion, deletes the source's pods. The three steps
  are separate calls; each may fail after the one before it succeeded.
- A watcher goroutine offers each matching file on `QueueOfFiles`. The consumer counts the running
  extract pods, reads the resource, looks the source up and creates a pod.
- The pod runs churro-extract, which reads the resource again, loads the file into the source's table,
  updates log, statistics and metrics, and renames the file in the watched directory, which the
  watcher sees.
- The harvester deletes old pods; ctl's status page joins pods and extract log.
- The operator creates everything a pipeline runs on from the resource, and is started again by every
  change of it or of its children.

### What is hard

Goroutines that share an unbuffered channel; the resource read by one process and written by another;
operations of several calls that stop half way; the job limit; a process that is killed with files
queued; read-modify-write of metrics and log entries by concurrent pods; reconcile steps on a stale
cache. `PROJECT.json` lists every such place under `hazards` with its line and the property that
covers it.

### What makes each part correct

- extractsource: every file event of a watcher is handled once, in order; a pod belongs to the source
  of its file; at most `MaxJobs` jobs; one pod per file.
- extract job: the log says what was loaded; a file marked processed was loaded; metrics count files.
- ctl: the list keeps unique paths; rules and extensions refer to sources that exist; no handler's
  change is lost.
- operator: the children come to exist once, with the credentials of the resource; the database is
  initialised once; a late event does not delete the namespace of a live pipeline.
- authorization: a user acts on a pipeline only with a grant that holds now.

## 2. Plan

1. `ExtractSourceServer`, `FileIntake`, `ExtractSourceServerProofs`, `ExtractSourceBoundsProofs` (done):
   the intake of files, the centre of the program.
2. `PipelineDatabase`, `ExtractJob`, `FileLoad`, `ExtractStream` and their proofs (done): extract pods that
   share a database.
3. `PipelineOperator`, `PipelineOperatorProofs`, `PipelineSecretsProofs` (done): reconcile on a cached
   resource, with failed calls and restarts of the operator, the garbage collector and the deletion of
   namespaces; safety and liveness.
4. `PipelineResource`, `PipelineStore`, `UIHandlers`, `AdminDatabase`, composed by `ControlPlane`, with
   `ControlPlaneProofs` and `RequestsProofs` (done): the requests of users through churro-ui and
   churro-ctl, authorization and grants; each call of churro-ctl refines one step of an atomic store.
5. Next: columns and transforms of a row; what churro-ctl's reads answer, with the list of jobs. Every
   invariant and every refinement of a run has its theorem.

Twelve runs exist. No module that is proved about uses a RECURSIVE operator.

## 3. The extractsource service

### Modules

- `ExtractSourceServer.tla`: the service, with ctl's handlers and the extract pods as its environment.
- `FileIntake.tla`: the contract. Every watcher has a queue; the oldest event of a queue is handled by
  starting one job or by forgetting it; a crash empties the queues.
- `MCExtractSourceServer.tla`: a pipeline with up to two file sources and an API source. Directory
  `dLoose` has a regex that also matches the name of a processed file, `dAnch` has one that does not.
- `ExtractSourceServerProofs.tla`, `ExtractSourceBoundsProofs.tla`: the theorems.

### State

| Variable | Code |
|---|---|
| `cr` | `Spec.Extractsources` of the Pipeline resource |
| `ctl` | where the ctl handler in progress is: it has written the resource (`trigger`), it has called the service and is to delete pods (`purge`) |
| `starting`, `watching`, `backlog` | goroutines of `watchEventsFor` before and after `InotifyAddWatch`, and what each has not yet handed over (kernel queue, `buff`, the blocked send) |
| `pc`, `held`, `chosen` | the program counter and locals of `startQueueConsumer` |
| `pods`, `apiPods` | pods labelled `service=churro-extract`, made by the consumer and by StartAPI |
| `up`, `crashes` | the process |
| `ops`, `removals`, `events` | history and bounds |

Event numbers, `from`, `id` and `stale` are history: the code does not keep them.

### Actions

One action per step between which another goroutine or process can act. The consumer's loop is
`Receive` (the channel receive), `CountJobs` (the list of pods), `FetchSource` or `DropEntry` (the read
of the resource and `getTable`), `CreatePod` or `CreatePodFails`. At the job limit `CountJobs` leads
to `requeue`, which no action leaves: the code sends on an unbuffered channel whose only receiver it
is. `AddWatch`, `WatchFails` and `Deliver` are `watchEventsFor`; `Deliver` may leave an event out for a
watcher with unread events, as the kernel may merge it with an identical one or overflow. `CtlCreate`,
`CtlDelete`, `CtlUpdate`, `CtlTrigger`, `CtlTriggerFails` and `CtlPurge` are ctl's handlers: reading
the resource and writing it back is one step, because the write carries the `resourceVersion` that was
read. Only one ctl operation is in progress at a time; its calls interleave with everything else.
`Start` and `Crash` are the process: a restart loses `backlog` and `held`, and starts watchers without
a look at the files that are there.

The list of sources is kept in its order: a creation appends, an update writes another definition in
place of the old one, and `getTable` takes the first match. `PathWithin` is its substring relation.

### Runs and bounds

| Run | Expect | Checks |
|---|---|---|
| `ess_queue` | pass | `TypeOK`, `PodFromItsSource`, `StalePodsBounded`, `DuplicatesBounded`: two file sources, two inotify instances, two files, two ctl operations |
| `ess_service` | pass | `PodsInWatcherOrder`, `IntakeSpec`, `BacklogDrains`: two file sources and an API source, one StartAPI call, one crash and restart, no ctl operations |
| `ess_requeue` | violation | `RequeueRetries` |
| `ess_maxjobs` | violation | `RunningWithinMaxJobs` |
| `ess_duplicates` | violation | `OneWatcherPerSource` |
| `ess_nested` | violation | `PodFromItsSource`, with one path contained in the other and either source first in the list |

Two watchers are the least with which two of them compete for the consumer, or a directory has two;
two events are the least for an order, and for a first pod to reach the job limit (`MaxJobs = 1`)
that the second meets; two ctl operations allow a deletion and a creation around one entry in
progress; one crash separates two lives of the service. `ess_queue` leaves crashes out and
`ess_service` ctl operations, to stay small; the proofs have both. Deadlock is not checked: users
may stop sending files, and the bounds end every behaviour.

### What holds

- `PodsInWatcherOrder`, `IntakeSpec`: although an entry is handled in four steps, each of which can
  fail, with other watchers in between, the service hands out jobs as if each event were handled in
  one step, oldest first, at most once per watcher.
- `PodFromItsSource`: the pod of a file carries the source of the file's directory, if no path is
  contained in another's.
- `StalePodsBounded`: a pod for a source that was removed meanwhile is possible, at most one per
  removal; the watchers it leaves behind make none.
- `DuplicatesBounded`: a file has at most one pod more than there were ctl operations.
- `BacklogDrains`: every event is handled, unless the consumer reaches `requeue`. Fairness: weak for
  the consumer's own steps (its calls to the API server return) and strong for the receive from each
  watcher (Go serves blocked senders of a channel in the order in which they blocked). Nothing is
  assumed of files, users, ctl, pods or crashes.

### What does not hold

- `RequeueRetries` (server.go:506): the requeue blocks for ever; fairness includes that pods end
  (`PodFairness`), so the limit is no longer reached and still nothing runs.
- `RunningWithinMaxJobs` (server.go:528): Pending pods are not counted.
- `OneWatcherPerSource` (server.go:362): an operation on one source starts watchers of all.
- `PodFromItsSource` with nested paths (server.go:102): `getTable` matches a substring and takes the first
  match, so a file of the longer path goes to the source of the shorter one, if that was created first. In
  the other order the pod is right.

`findings` in `PROJECT.json` quotes the comment or page that each contradicts.

## 4. The extract job

### Modules

- `PipelineDatabase.tla`: the tables that the jobs of a pipeline share (data rows, `extractlog`,
  `pipeline_stats`, the value "Files Processed") and the statements of `internal/db` on them, each one
  transaction. The code never spans two statements with one.
- `ExtractJob.tla`: pods that load files (CSV, XLSX, JSON, JSONPath, XML), next to users who put files
  under the same names and a cluster that kills pods.
- `ExtractStream.tla`: the pod that polls an API and the pod that serves HTTP posts; their goroutines
  overlap and share `jsonStruct` or `CSVStruct` without a lock.
- `FileLoad.tla`: what a job promises of its rows. It takes the file that has its name at one moment, tries
  the rows in their order, each once, gives up only before the first, at a CSV record that does not parse or
  when the pod ends, and the file is marked by a job that is over.
- `MCExtractJob.tla`, `MCExtractStream.tla`; `ExtractJobProofs.tla`, `ExtractStreamProofs.tla`.

### State and actions

A file is a number of records and how many of them parse. The extraction of CSV parses as it goes, and
returns at the first record that does not (csv.go:89); the others parse a file whole before they load any
of it. Either way the caller logs the error, counts the file and renames it. `ExtractJob` keeps the watched
directory (`file`, `processed`), and per pod the program counter, the file it opened, the record it is
at and what it has read of statistics and metric. The actions follow a pod through
`internal/extract`: `Register` (`dataprov`), `Open` (`ExtractCSV` and so on up to the parsed
document), `TableCheck`, the loop `ReadRecord`, `LogExtract`, `Load`, `GetStats`, `PutStats`, then
`bumpMetric` as `GetMetric` and `PutMetric`, and `RenameFile`. Each statement that can fail has a
failure next to it that does what the code does: mostly log it and go on. The schemes differ in the
order, as in the code: CSV, JSON and JSONPath write the log entry before the row, XLSX at the end; JSON
writes no statistics; JSONPath loads all rows in one statement; a CSV job creates an entry for each row
and only the first succeeds. XML jobs and posts insert their entry in the admin database, which has no
such table, and ignore the error, so they change no log here.

`ExtractStream` splits a tick at each access to the shared variable: `Fetch`, `ResetRecords`,
`ViewRecords` and `AppendRecord` (the read and the write of `append`), `MarshalApi`; a post likewise:
`Receive`, `Share`, `Transform`, `MarshalPost`. `batch` is what a goroutine has marshalled for the
loader. API ticks add to the log entry in two statements (`GetLog`, `PutLog`). An insert that is
refused for its key (`Refused`) is told from one that fails for another reason (`LoadFails`).

History variables: `refused`, `logged`, `failed`, the `counted` rows of a statistic, and the `from` and
`transforms` of rows.

### Runs and bounds

| Run | Expect | Checks |
|---|---|---|
| `job_files` | pass | `TypeOK`, `RowsOfTheFile`, `LogNotAhead`, `StatsNotAhead`, `MetricNotAhead`, `MarkedUnopened`, `LoadSpec`: two pods, one file name, every scheme, two uploads, one header, cockroachdb |
| `stream` | pass | `TypeOK`, `LogNotAhead`, `StatsNotAhead`, `PostStoredOnce`: two ticks with up to two matches each, or three posts as form, JSON with rules or raw JSON |
| `stream_raw` | violation | `PostsStored`: raw posts only |

Two pods on one name are a file that was queued twice or two files of a name; two uploads are the
least for a file that is replaced under a pod that has it open. `Sizes` gives the files: two
records, of which a CSV or XLSX job skips one and an XML job can have the first refused before the second;
three of which the last does not parse, so that a CSV job stops after it loaded a row; one that does not
parse; none. Longer files are left to the proofs. With two ticks one can reset, append to and marshal the
other's records; with three posts a third can meet a row that two others are in the middle of. The initial
state chooses the scheme, and the pods that a pipeline has. No fairness is assumed, all properties being
safety. Deadlock is not checked: jobs end. mysql, whose `UPDATE` of `pipeline_stats` never finds a row, is
covered by the proofs only.

### What holds

- `RowsOfTheFile`: in all five schemes a job tries rows of the file it opened only, and none is left out
  because another was refused or a statement on log or statistics failed. The exception is the code's: the
  rows of a CSV file behind a record that does not parse.
- `LoadSpec`: more than that, in order. `RowsOfTheFile` says which rows are tried; `FileLoad` says that each
  step tries the first rows that are left, as a whole, that none is tried again after it was refused, that
  a loading job gives up with rows left only where it tried none or at such a CSV record, and
  that the directory changes only by arrivals and by jobs that are over. The statements on log, statistics
  and metric, and their failures, do not show.
- `LogNotAhead`: an entry never says more than was read (files) or stored (API), although ticks add to
  it in separate statements and marshal each other's records. For an XLSX job the entry is there only
  when every row was tried.
- `StatsNotAhead`: jobs lose each other's updates of `pipeline_stats`, and reads take any of several
  rows of a file; none says more records than were loaded. The reason is that a row is counted only by
  the goroutine that inserted it, and a refused insert is not counted.
- `MetricNotAhead`: "Files Processed" loses increments and may go back, and is never more than the
  jobs that ended.
- `MarkedUnopened`: the rename is by name and comes whatever the extraction returned. A file can be marked
  as processed although no job has opened it, but only where a job of the name has ended that had opened
  an earlier file of the name, or none at all. The second may be the job that was started for the file:
  nothing keeps a job whose open fails from marking its own file.
- `PostStoredOnce`: posts may marshal each other's rows; the primary key keeps each from being stored
  twice. (That the other's row is lost then is not a property: nothing promises it.)

### What does not hold

- `PostsStored` for raw JSON (httppost.go:207): the message for the loader has no key, all raw posts
  get the primary key 0, and the second is refused without an error to the client.

Read off the model, without a promise in the repository that it contradicts: lost updates of metric,
statistics and API log; the log entry of a CSV job says the number of its first row; a file that could
not be opened or parsed, whose table check failed, or of which a CSV job read a part, is counted and renamed
to `.churro-processed` all the same; XML jobs and posts have no log count.

### Abstractions

Columns, rules, transforms and extensions are left out. What they can do to the flow is kept: an
insert that fails for a value (`LoadFails`), a pod that a panic or `os.Exit` ends (`Kill`). Two appends
of overlapping ticks may also write one array element; the model has the lost append, not the shared
element. The grants of the pipeline's database user decide whether a statement fails: both outcomes
are there (`LogExtract`, `StatsFail`, `LogFails`). `bumpMetric` of a stream that cannot start is one
step. A file arrives complete.

## 5. The operator

### Modules

- `PipelineOperator.tla`: the two reconcilers of `internal/operator`, with `internal/pipeline` (creation
  and deletion of a pipeline), the garbage collector and the namespace as environment.
- `PipelineOperatorProofs.tla`: its theorems (section 7).
- `MCPipelineOperator.tla`: the kinds of resource and the portions in which the collector works.

### State

| Variable | Code |
|---|---|
| `kind`, `pull` | `DatabaseType` of the pipeline, or a Churroui resource; is there a secret `CHURRO_PULL_SECRET_NAME` to copy |
| `ns`, `cr` | the pipeline's namespace, and its resource in the API server: the number of its making (`uid`), has it an id, the generation of its credentials, its version |
| `client`, `made` | where `CreatePipeline` is: it makes the namespace, then the resource |
| `child`, `bundle` | the objects that the reconciler makes: by which making, and of which credentials a secret was made |
| `inited` | has the database run `cockroach init` |
| `feed`, `cached` | the versions that the informer has yet to see, and the one in the cache |
| `pending`, `dirty` | is the name queued; is an event of a child to come |
| `op` | the goroutine of `Reconcile`: the step of `processPipeline`, the place in it, the copies it has read |
| `inits`, `orphaned`, `late`, `disturbed` | history and bounds |

### Actions

`Program` is `processPipeline` (for each kind of database) and `processChurroui`, step by step. `Start`
and `ProcessDeleted` are `ProcessCR`: a name that the cache does not have is taken for deleted, and the
namespace is deleted, again and again as long as that fails. `ProcessId`, `GenerateCreds` and
`UpdateCreds` write the resource; `EnsureGroup` is a step that lists its children and makes the missing
ones, up to the first error; `LookSecrets`, `LookMysql` and `CreateChild` are the two steps in which the
order matters; `AwaitRunning`, `CreateMarker`, `ExecInit` and `AwaitReady` are `initStatefulSet`, with
the marker secret and the remote command. Which errors end a reconcile and which are only logged is as
in the code (`Returning`). A list may be answered from a cache that is behind (`Views`); `Restart` loses
`op`, and queues what there is then.

### Runs and bounds

| Run | Expect | Checks |
|---|---|---|
| `operator` | pass | `TypeOK`, `InitOncePerPipeline`, `NoEmptySecret`, `SecretsMatchResource`, `WorkedOnIsSafe`: a cockroachdb pipeline or a Churroui resource, made twice, two generations of credentials, one disturbance |
| `operator_live` | pass | `ComesUp`, `NamespaceGoes`: every kind, made once |

Two makings let the operator meet the children, the cache entry and the namespace of an earlier
pipeline of the name; two generations let credentials be replaced; a disturbance is a crash, a failed
call, a stale list or an edit by another, and one is the least at every place of the program.
cockroachdb has the longest program and every kind of step but that of mysql's two objects, which
`operator_live` has. The collector takes everything or one secret first, between two reconciles.
`FairSpec` assumes that the informer, the collector, the end of a namespace and the operator's next step
go on (weak fairness: each stays possible until it happens); nothing of users, and no end to crashes but
their bound. Deadlock is not checked: users may leave a pipeline as it is.

### What holds

- `InitOncePerPipeline`: `cockroach init` is run at most once for a pipeline. The list of the marker may
  be stale and the operator may restart anywhere; it is the API server's refusal of a second marker that
  keeps it.
- `NoEmptySecret`: the first pipeline of a name has no secret made of empty credentials, though the
  error of `doDBCreds` is ignored. A pipeline that is made again can have one, by the children that the
  reconcile of the earlier one still makes.
- `SecretsMatchResource`: as long as no reconcile began on a cache that was behind, the secrets hold the
  credentials of the resource. With one that did, `processCreds` may replace credentials that secrets
  were made from, and the two differ for good.
- `WorkedOnIsSafe`: a late event of a deleted pipeline does not take the namespace of a pipeline that has
  an id.
- `ComesUp`: a pipeline comes up to its churro-ctl pod, with two exceptions that the code has. The
  operator ends, or the command fails, between the marker and `cockroach init`: no later reconcile runs
  it (`Lost`). No pull secret is named: `processSecrets` makes nothing, and the database pods wait for
  ever (`Unsecured`).
- `NamespaceGoes`: the namespace of a deleted pipeline is deleted, unless the operator was down until its
  children were collected too: then nothing queues the name again (`orphaned`).

Read off the model, without a promise in the repository that it contradicts: after a mysql secret that
was made without its cluster, no later reconcile makes the cluster; a reconcile that is under way when
its pipeline is deleted goes on to make children, and may run init in a pipeline that is gone; most
errors are logged and wait for the next event.

## 6. The control plane

### Modules

- `PipelineResource.tla`: churro-ctl's twelve writing handlers as operators on the content of the
  resource: what each refuses (`Refuses`), leaves (`Effect`), and whether it writes (`Writes`).
- `AdminDatabase.tla`: the statements on profiles and grants for three databases, and `Authorizes`.
- `UIHandlers.tla`: each of churro-ui's handlers as the sequence of its calls, and what it requires of
  the user (`Needs`).
- `PipelineStore.tla`: what churro-ctl promises. A call is applied at one moment between request and
  answer, or not at all; "ok" means that it was, an error that it was not, or, after the write, "unsure".
- `ControlPlane.tla`: composes them. Requests run at the same time, each a goroutine of churro-ui that
  takes the steps of its handler; a call of churro-ctl reads the resource and decides (`Edit`), and writes
  what it made of its copy (`Put`).
- `MCControlPlane.tla`: the scenes; `ControlPlaneProofs.tla`, `RequestsProofs.tla`.

### State

| Variable | Code |
|---|---|
| `cr`, `rev` | the Pipeline resource with sources, rules, extensions and functions; the API server's version counter |
| `ctl` | the making whose churro-ctl process runs |
| `profiles`, `grants` | tables `userprofile` and `userpipelineaccess` |
| `current`, `sessions` | `u.UserEmail` and the map of tokens |
| `req` | the goroutines: the call, the steps left, what was looked up and read |
| `made`, `asked`, `disturbed`, `scene` | bounds, and what users do |

`applied` and `crossed` of a request are history.

### Actions

`Request` begins a handler with a form that was filled in from the resource of that moment. The other
actions are one per kind of step: `LooksForProfile` and `LooksForGrant` (authorization), `Lookup`
(`getPipelineCR`, by id; what follows goes by name), `CreatePipeline`, `DeletePipeline`, `Rewrite`,
`Edit`, `Put`, `Rpc` and `Pass`, `LogIn`, `LogOut`, and the statements `FindsProfile`, `WritesProfile`,
`ChangesGrant`, `DeletesGrants`, `GrantsUser`. `StepFails` fails any step. `OperatorNames` and
`OperatorWrites` are the operator's writes of the resource; `CtlEnds`, `CtlStarts`, `UIRestarts` the
processes. `GetExtractRule` and `GetPipelineStatus` can end churro-ctl by a nil pointer, with all the
calls it is working on, before or after their write.

### Run and bounds

| Run | Expect | Checks |
|---|---|---|
| `requests` | pass | `TypeOK`, `PathsUnique`, `SavedUsers`, `StoreSpec`, `RulesFitWhenWritten`, `LookedUpOnly` |

Two requests run at a time, in two symmetric slots. A scene is a group of operations that share what
they write, with one to three requests in all: three where a third can meet what two others left
(sources; deleted and made again pipelines), two elsewhere, one for pages, which only read. Grants are
played with all three databases. The pipeline is made twice, and one disturbance happens at any place.
All properties are safety, and no fairness is assumed. Deadlock is not checked: users may stop.

### What holds

- `StoreSpec`: the calls of churro-ctl are atomic, whatever runs at the same time, because the API server
  refuses a copy that is late and the handlers do not retry; so an answer "ok" can be believed, and an
  error unless it comes from what follows the write.
- `PathsUnique`, `RulesFitWhenWritten`: the checks of `CreateExtractSource`, `UpdateExtractSource` and
  `validateRulePath` are made on a copy, and hold of the resource that is written. A later change of a
  source's scheme does not look at its rules, so a rule need not go on to fit.
- `LookedUpOnly`: a request that found its pipeline by id changes another of the name only if that was
  made after the lookup.
- `SavedUsers`: a save of a pipeline's users that is answered without error, with no other writer of
  grants meanwhile, leaves exactly the selected users. Two saves at once can leave both selections; an
  error in between leaves a part; for mysql and singlestore the property leaves failing statements out,
  whose errors the code drops.

Read off the models, without a promise in the repository that it contradicts: an update of a rule by the
page drops its transform function; an update or deletion of an item that is gone is answered with
success; the values of the form of `UpdatePipelineDetail` do not reach the resource; `UploadSchema` never
finds its source; in mysql a user has one grant in all, as the user alone is the key.

## 7. Proofs

`ExtractSourceServerProofs.tla`, for every number of sources, directories, watchers, events,
operations and crashes, from `ConstantsAssumption` and `NoEntryAssumption`:

- `TypeCorrect`: `Spec => []TypeOK`. `TypeOK` alone is not inductive: that `held` is an entry where the
  consumer uses it (`EntryHeld`) and that a watcher with a backlog has a directory (`BacklogWatched`)
  are needed for the entry that `Receive` builds and the pod that `CreatePod` builds.
- `WatcherOrder`: `Spec => []PodsInWatcherOrder`. The numbers of a watcher's events grow from its pods
  over the held entry to its backlog; `OrderInv` says so pairwise (`PodsBeforeHeld`,
  `PodsBeforeBacklog`, `HeldBeforeBacklog`, `BacklogInOrder`, `BacklogSeen`). `Receive` moves a number
  along this chain, `CreatePod` too, and a new event is larger than all.
- `RightSource`: with `PathsIndependent`, `Spec => []PodFromItsSource`. The strengthening says that the
  source chosen has the directory of the entry until the pod is made; ctl may change the list meanwhile.
- `ImplementsIntake`: `Spec => Intake!Spec`. The queue of a watcher is mapped to the held entry, if it
  is its own, followed by the backlog. `DropEntry`, `CreatePod` and `CreatePodFails` are `Handle`;
  `Deliver` is `Arrive`, for the watchers it reaches; `Crash` is `Lose`; every other action a stutter.

`ExtractSourceBoundsProofs.tla` proves the two bounds, from the same assumptions. Each relates the size of
a set to a counter of ctl's operations, by the steps between the two:

- `StaleBounded`: `Spec => []StalePodsBounded`, from `StaleInv`: the stale pods, and the pod that the
  consumer is about to make for a source that is gone, are together at most the removals. Without the
  second term a removal while the consumer is at `create` breaks the invariant one step later.
- `DuplicatesAtMost`: `Spec => []DuplicatesBounded`. `WatchersBounded` bounds the watchers of a directory,
  those that are starting included: one for the process that serves, one for each operation, less the one
  of an operation that has not called the service yet. The watchers that have an event, in
  a backlog, in the consumer's hand or as a pod (`Holders`), are therefore at most one more than the
  operations (`HoldersBounded`), and a watcher has no event twice (`OrderInv`): one pod to a holder.

`ExtractJobProofs.tla`, for any number of jobs, files, records, headers and uploads, any sizes, and both
databases, from `JobsAssumption` and `DatabaseAssumption`:

- `TypeCorrect`: `Spec => []TypeOK`, with `Located`, which says what the locals of a job hold at each
  place: nothing is open before `Open`, the record in hand is no header, a job that is through has read
  every unit. All other proofs use it.
- `RowsCorrect`: `Spec => []RowsOfTheFile`, from `UnitsTried`: exactly the units read so far have been
  tried, apart from the one in hand. The rows of all units are the `Loadable` ones (`LoadableUnits`): for a
  CSV file those before the first record that does not parse. A job touches only its own rows
  (`StepAlone`), so each job is looked at alone.
- `ImplementsFileLoad`: `Spec => LoadSpec`. What is left of a file is mapped to the rows due and not tried.
  `UnitsTried` makes the unit in hand the first of them (`HandNext`), so `Load` and `LoadFails` are `Try`;
  `Open` is `Take`, also where the parser fails; `TableCheck` that fails is `Finish` with nothing tried, the
  ends of the loops are `Finish` with nothing left but the rows behind a CSV record that does not parse
  (`LeftAtEnds`); `RenameFile` is `Mark`; the other steps are stutters.
- `LogCorrect`: `Spec => []LogNotAhead`, from `Logged`, which adds that the entry of an XLSX job comes
  after the loop. It needs `RowsInv` for the rows that are tried by then.
- `StatsCorrect`: `Spec => []StatsNotAhead`. A statistic, and what a job has read of one, is the
  cardinality of stored rows that it counts; a batch that is being counted is stored and in no
  statistic yet (`CountsRows`). Adding a batch therefore adds its cardinality.
- `MetricCorrect`: `Spec => []MetricNotAhead`. The value read was at most the number of jobs through,
  which only grows, and the job that writes it back, plus one, becomes one more.
- `MarksUnopened`: `Spec => []MarkedUnopened`. What a job has opened is the file that is there or an
  earlier one; so what it renames and has not opened is newer, or it has opened none.

`ExtractStreamProofs.tla`, for any number of ticks and posts, of matches, any modes and both databases,
from `StreamAssumption` and `DatabaseAssumption`:

- `TypeCorrect`: with `HandsTyped` and `SharedWritten`, since a goroutine reads the shared variables
  only after some goroutine has written them, and `AllFinite`.
- `LogCorrect`, `StatsCorrect`: as above, on `LoadedOnce` (the batches of goroutines past their insert
  are stored and disjoint), which holds because the insert is refused when a key is taken: this is what
  makes the shared slice harmless to the counts.
- `PostsStoredOnce`: a post has one key, whichever goroutine marshals it, and a key is stored once.

`ControlPlaneProofs.tla`, for any number of slots, requests, makings and disturbances, and any scenes,
paths, schemes and texts, from `FormsAssumption` and `BoundsAssumption`:

- `Invariance`: `Spec => []IInv`. A request that writes has its write before it until it made it or
  failed, and reads before it writes (`Shaped`); a copy that churro-ctl holds is the resource itself as
  long as their numbers agree, and the call is not refused on it (`Fresh`); what was looked up in the
  making of now has its id (`Known`).
- `KeepsPromise`: `Spec => StoreSpec`. `Put`, and an `Edit` that has nothing to write, is `Apply`, by
  `Fresh`: the effect on the copy is the effect on the resource. `Request` is `Submit`; creation and
  deletion of the resource are `Remake`; every other step is `Settle`, or a stutter.
- `WritesLookedUp`: `Spec => LookedUpOnly`. Only the creation changes a resource that is not there, and a
  request that creates one has looked none up.

`RequestsProofs.tla` builds on it:

- `PathsStayUnique`: `Spec => []PathsUnique`, and `RulesWrittenFit`: `Spec => RulesFitWhenWritten`. By
  the refinement the lists change only by the effect of a call that is not refused on the resource as
  it is. That is not enough: an update by id changes every source of the id, and an update of a rule is
  checked with the source that its form names. `Identified` adds that ids are not used twice: one
  source and one rule to an id, the id of a call that is not yet applied is nobody's, and an update
  names the source of its rule.
- `UsersSaved`: `Spec => []SavedUsers`, from `SavesGoWell`. A save deletes the pipeline's rows and then
  takes the users it has left one by one; as long as no other writer crossed it and no error was ignored,
  all users are left before the deletion, and afterwards the rows are those of the users not left. The
  step that inserts takes its user off what is left, so at the end the rows are those of all of them.
- `TypeCorrect`: `Spec => []TypeOK`, from `Typed`. A request has a number greater than the first ids and
  no other's (`CallIds`), and a new item or profile takes it as its id: the lists have one item to an id,
  and none with the number of a request that is still to write (`ItemsNumbered`, `ProfilesNumbered`). A
  handler of pipelines works on one that was made, and a login has an account (`CallsFit`), so what they
  write fits (`GrantsFit`, `AccountsFit`).

`PipelineOperatorProofs.tla`, for any kinds of resource and any bounds, from `OperatorAssumption`:

- `TypeCorrect`: `Spec => []TypeOK`. `Busy` (a reconciler that is not idle works on a resource) and `Room`
  are added: a reconcile that began without credentials leaves room for the bundle it may make, until
  the step after `processCreds`, and a request that may create the resource has a uid left. That `creds`
  is the second step of every program is `ProgramFits`.
- `WorkedOnSafe`: `Spec => WorkedOnIsSafe`. An id is written only by `processId`, in a copy that the cache
  had. `Followed` says that the cache goes through the versions of the feed in order (`InOrder`), so once
  it has shown this making of the resource it shows it until it is deleted, and that a copy of this
  making which the reconciler holds, and an id, came through the cache (`Caught`). `ProcessDeleted` needs
  a cache that shows no resource, so the one that is there has no id.
- `InitOnce`: `Spec => []InitOncePerPipeline`. Where init was run for a pipeline that is there, its marker is
  there (`Marked`), so a second creation of the marker is refused; and a reconcile about to run init holds
  the marker of a pipeline for which it was not run (`Taken`). Only `CreateMarker` makes the marker, which is
  in no group of children (`MarkerApart`), and the collector spares what the resource owns.

`PipelineSecretsProofs.tla` builds on it and follows the credentials from the resource to the secrets:

- `SecretsMatch`: `Spec => []SecretsMatchResource`. The last event to come is the resource, or the cache is,
  if none is to come (`Latest`); so a reconcile that began with none to come has the credentials of the
  resource up to its second step, and only `UpdateCreds` changes credentials, where there were none.
  `Timely` says that until a reconcile begins late, the secrets that are there are of this resource and
  its credentials, and what is about to be made of them is too.
- `SecretsNotEmpty`: `Spec => []NoEmptySecret`. A copy is an earlier version of the resource or the same
  (`Versions`), so the write of credentials is refused on a late copy, and the reconcile ends there;
  `First` adds that the first pipeline has no secret before its credentials are written. Copies of an
  earlier pipeline are what breaks this for a second one.

Only model-checked: `BacklogDrains`, `ComesUp` and `NamespaceGoes`. They are liveness properties under
fairness, which is out of the prover's reach, as are ENABLED and what recursive operators compute, which
no module here uses. The runs check them on their instances.

## 8. Not modelled

- extractsource: file contents and names, the `CREATE`, `DELETE` and `MOVED_FROM` events (logged only),
  the ready directory, upload streams, logging, `testDatabase` (not called). `ExtractSourceServer` has
  one ctl operation at a time (`ControlPlane` has several, without files), and one regex per directory.
- extract job: see the abstractions above, the scheme `finnhub-stocks`, and the singlestore backend.
- operator: the contents of certificates, templates and roles, leader election (off by default), the
  flags. An error while the services' certificates are made ends the process, which is `Restart`; one
  while clients' certificates are made is overwritten and leaves a partial bundle, which is not in the
  model. Nothing calls `cockroachdbrbac.go` and `singlestorerbac.go`.
- churro-ctl: a call that a churro-ctl of an earlier making has received already, and that reads the
  resource of the next making; what its reads answer, `GetExtractData` among them, the job logs, and the
  attempts of `NewCtlServer` to reach the database.
- churro-ui: the fields of forms and their checks, pages, passwords, cookies; the rest of
  `uploadscheme.go`, which no request reaches. The map of tokens and `u.UserEmail` are shared by
  goroutines without a lock; the model takes each access as one step.
- authenticated users and the mock backend of `internal/db`, which nothing calls; configuration, which is
  read once; generated code, manifests, images, pages and the manual test program.
