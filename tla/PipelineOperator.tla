-------------------------- MODULE PipelineOperator --------------------------
(***************************************************************************)
(* churro-operator: the reconciler that turns one Pipeline resource, or    *)
(* one Churroui resource, into the objects it needs.  The code is          *)
(* internal/operator, with internal/pipeline (the requests that create and *)
(* delete a pipeline) as its environment.                                  *)
(*                                                                         *)
(* A pipeline has a namespace of its own, of its own name.  The resource   *)
(* can be deleted and made again under the same name: each making has its  *)
(* own uid.  The reconciler is one goroutine that runs when an event is    *)
(* queued for the name.  It reads the resource and lists its children in a *)
(* cache that follows the API server late, and writes to the API server,   *)
(* which refuses a second object of a name and an update of an old version.*)
(* The process may end between any two of its steps.                       *)
(*                                                                         *)
(* Names of objects, templates, certificates and the rules of roles are    *)
(* left out: an object is the uid of the resource that owns it, a bundle   *)
(* of credentials the number of its generation.                            *)
(***************************************************************************)
EXTENDS Naturals, Sequences, SequencesExt

CONSTANTS
    Kinds,            \* DatabaseType of the pipeline, or "churroui"
    MaxUid,           \* bound on the times the resource is made
    MaxGenerations,   \* bound on the bundles of credentials of one making
    MaxDisturbances,  \* bound on crashes, failed calls, stale lists, edits
    Sweeps,           \* portions in which the garbage collector works,
    SweepSteps,       \* and the steps of the reconciler it works in
    MaxLag            \* bound on the versions the cache is behind for a request

ASSUME OperatorAssumption ==
    /\ Kinds \subseteq {"cockroachdb", "mysql", "singlestore", "other", "churroui"}
    /\ MaxUid \in Nat \ {0}
    /\ MaxGenerations \in Nat \ {0}
    /\ MaxDisturbances \in Nat

(***************************************************************************)
(* The children each step of the reconciler makes, in the order in which   *)
(* it makes them.                                                          *)
(***************************************************************************)
Roles == <<"role.churro", "role.cockroachdb">>
RoleBindings == <<"binding.churro", "binding.cockroachdb">>
ServiceAccounts == <<"sa.churro", "sa.cockroachdb">>
Services == <<"svc.churro-ctl", "svc.churro-extractsource",
              "svc.cockroachdb", "svc.cockroachdb-public">>
PVCs == <<"pvc.churrodata">>
Secrets == <<"cockroachdb.client.root", "cockroachdb.node",
             "churro.client.root", "pull-secret">>
PDBs == <<"cockroachdb-budget">>
StatefulSet == <<"cockroachdb">>
CockroachClient == <<"cockroachdb-client-secure">>
Mysql == <<"mysql-secret", "mysql-cluster">>
Singlestore == <<"memsql-cluster">>
SinglestoreClient == <<"memsql-studio", "svc.memsql-studio">>
ExtractSource == <<"churro-extractsource">>
Ctl == <<"churro-ctl">>

UIServiceAccounts == <<"sa.churro-ui">>
UIClusterRoles == <<"clusterrole.churro-ui">>
UIClusterRoleBindings == <<"clusterrolebinding.churro-ui">>
UIService == <<"svc.churro-ui">>
UIPVCs == <<"pvc.churro-admindb">>
UIDeployment == <<"churro-ui">>

Marker == "init-marker"   \* the secret of the pipeline's name

Group == [roles |-> Roles, roleBindings |-> RoleBindings,
          serviceAccounts |-> ServiceAccounts, services |-> Services,
          pvcs |-> PVCs, secrets |-> Secrets, pdbs |-> PDBs,
          statefulSet |-> StatefulSet, cockroachClient |-> CockroachClient,
          mysql |-> Mysql, singlestore |-> Singlestore,
          singlestoreClient |-> SinglestoreClient,
          extractSource |-> ExtractSource, ctl |-> Ctl,
          uiServiceAccounts |-> UIServiceAccounts,
          uiClusterRoles |-> UIClusterRoles,
          uiClusterRoleBindings |-> UIClusterRoleBindings,
          uiService |-> UIService, uiPVCs |-> UIPVCs,
          uiDeployment |-> UIDeployment]

Names(g) == ToSet(Group[g])
Made == UNION {Names(g) : g \in DOMAIN Group}
Bundled == ToSet(Secrets) \ {"pull-secret"}   \* made from the credentials
ClusterScoped == ToSet(UIClusterRoles) \cup ToSet(UIClusterRoleBindings)
Unowned == ClusterScoped \cup ToSet(Singlestore)  \* no controller reference

(***************************************************************************)
(* processPipeline and processChurroui: the steps, in order.               *)
(***************************************************************************)
Common == <<"id", "creds", "roles", "roleBindings", "serviceAccounts",
            "services", "pvcs", "secrets", "pdbs">>
Program ==
    [cockroachdb |-> Common \o <<"statefulSet", "init", "cockroachClient",
                                 "extractSource", "ctl">>,
     mysql |-> Common \o <<"mysql", "extractSource", "ctl">>,
     singlestore |-> Common \o <<"singlestore", "singlestoreClient",
                                 "extractSource", "ctl">>,
     other |-> Common \o <<"unsupported">>,
     churroui |-> <<"uiServiceAccounts", "uiClusterRoles",
                    "uiClusterRoleBindings", "uiService", "uiPVCs",
                    "uiDeployment">>]

\* The children of a kind of resource, and of all kinds.
ChildrenOf == [k \in DOMAIN Program |->
    {Marker} \cup UNION {Names(g) : g \in ToSet(Program[k]) \cap DOMAIN Group}]
Children == {Marker} \cup Made

\* The steps whose error ends the reconcile and is returned to the queue;
\* the error of any other step is logged, and the next step follows.
Returning == {"statefulSet", "init", "cockroachClient", "unsupported", "ctl"}

VARIABLES
    kind,       \* what the resource asks for
    pull,       \* is there an image pull secret to copy
    ns,         \* the namespace
    cr,         \* the resource in the API server
    client,     \* where a request to create the pipeline is
    made,       \* makings so far
    child,      \* the owner of each child, 0 when there is none
    bundle,     \* owner and generation of the credentials in each secret
    inited,     \* has the database run its init
    feed,       \* versions of the resource that the cache has not seen
    cached,     \* the resource in the cache
    pending,    \* is the name queued
    dirty,      \* is an event of a child still to come
    op,         \* the reconciler
    inits,      \* history: executions of init for each uid, while it lived
    orphaned,   \* history: the process ended with nothing left to report
    late,       \* history: a reconcile began while its cache was behind, or the
                \* pipeline was made before the one before it was cleared away
    disturbed   \* disturbances so far

clusterVars == <<ns, cr, child, bundle, inited>>
clientVars == <<client, made>>
watchVars == <<feed, cached, pending, dirty>>
ghostVars == <<inits, orphaned, late>>
vars == <<kind, pull, clusterVars, clientVars, watchVars, op, ghostVars, disturbed>>

NoCR == [uid |-> 0, id |-> FALSE, creds |-> 0, rv |-> 0]
NoBundle == [of |-> 0, gen |-> 0]
Idle == [at |-> 0, phase |-> "idle", my |-> NoCR, got |-> NoCR, todo |-> {}]

Init ==
    /\ kind \in Kinds
    /\ pull \in BOOLEAN
    /\ ns = IF kind = "churroui" THEN "active" ELSE "absent"
    /\ cr = NoCR /\ client = "idle" /\ made = 0
    /\ child = [c \in ChildrenOf[kind] |-> 0]
    /\ bundle = [s \in Bundled |-> NoBundle]
    /\ inited = FALSE
    /\ feed = <<>> /\ cached = NoCR /\ pending = FALSE /\ dirty = FALSE
    /\ op = Idle
    /\ inits = [u \in 1..MaxUid |-> 0] /\ orphaned = FALSE /\ late = FALSE
    /\ disturbed = 0

Disturb == disturbed < MaxDisturbances /\ disturbed' = disturbed + 1
Calm == UNCHANGED disturbed

Step == IF op.at = 0 THEN "none" ELSE Program[kind][op.at]

-----------------------------------------------------------------------------
(***************************************************************************)
(* Requests of users: CreatePipeline and DeletePipeline, and any other     *)
(* update of the resource (churro-ctl makes them).                         *)
(***************************************************************************)
EnsureNamespace ==
    /\ client = "idle" /\ made < MaxUid /\ kind # "churroui"
    /\ ns' = IF ns = "absent" THEN "active" ELSE ns
    /\ client' = "create"
    /\ UNCHANGED <<kind, pull, cr, child, bundle, inited, made, watchVars, op,
                   ghostVars, disturbed>>

WriteCR(new) == cr' = new /\ feed' = Append(feed, new)

CreateCR ==
    /\ IF kind = "churroui" THEN made < MaxUid ELSE client = "create"
    /\ client' = "idle" /\ Len(feed) < MaxLag
    /\ IF ns = "active" /\ cr = NoCR
       THEN /\ WriteCR([uid |-> made + 1, id |-> FALSE, creds |-> 0, rv |-> 1])
            /\ made' = made + 1
            /\ orphaned' = FALSE
            /\ late' = \/ feed # <<>> \/ cached # NoCR \/ op # Idle
                       \/ \E c \in DOMAIN child \ Unowned : child[c] # 0
       ELSE UNCHANGED <<cr, feed, made, orphaned, late>>
    /\ UNCHANGED <<kind, pull, ns, child, bundle, inited, cached, pending, dirty,
                   op, inits, disturbed>>

DeleteCR ==
    /\ cr # NoCR /\ Len(feed) < MaxLag
    /\ WriteCR(NoCR)
    /\ UNCHANGED <<kind, pull, ns, child, bundle, inited, clientVars, cached,
                   pending, dirty, op, ghostVars, disturbed>>

EditCR ==
    /\ cr # NoCR
    /\ Disturb
    /\ WriteCR([cr EXCEPT !.rv = @ + 1])
    /\ UNCHANGED <<kind, pull, ns, child, bundle, inited, clientVars, cached,
                   pending, dirty, op, ghostVars>>

-----------------------------------------------------------------------------
(***************************************************************************)
(* The cluster: the garbage collector and the end of a namespace.          *)
(***************************************************************************)
Clear(cs) ==
    /\ child' = [c \in DOMAIN child |-> IF c \in cs THEN 0 ELSE child[c]]
    /\ bundle' = [s \in Bundled |-> IF s \in cs THEN NoBundle ELSE bundle[s]]
    /\ dirty' = (dirty \/ \E c \in cs \ Unowned : child[c] # 0)

Dead == {c \in DOMAIN child \ Unowned : child[c] \notin {0, cr.uid}}

Collect(sweep) ==
    /\ sweep \cap Dead # {} /\ Step \in SweepSteps
    /\ Clear(sweep \cap Dead)
    /\ UNCHANGED <<kind, pull, ns, cr, inited, clientVars, feed, cached, pending,
                   op, ghostVars, disturbed>>

NamespaceGone ==
    /\ ns = "terminating"
    /\ ns' = "absent"
    /\ inited' = FALSE
    /\ Clear(DOMAIN child \ ClusterScoped)
    /\ IF cr = NoCR THEN UNCHANGED <<cr, feed>> ELSE WriteCR(NoCR)
    /\ UNCHANGED <<kind, pull, clientVars, cached, pending, op, ghostVars, disturbed>>

-----------------------------------------------------------------------------
(***************************************************************************)
(* SetupWithManager: the watches of the resource and of what it owns.      *)
(***************************************************************************)
Deliver ==
    /\ feed # <<>>
    /\ cached' = Head(feed) /\ feed' = Tail(feed)
    /\ pending' = TRUE
    /\ UNCHANGED <<kind, pull, clusterVars, clientVars, dirty, op, ghostVars,
                   disturbed>>

ChildEvent ==
    /\ dirty
    /\ dirty' = FALSE /\ pending' = TRUE
    /\ UNCHANGED <<kind, pull, clusterVars, clientVars, feed, cached, op,
                   ghostVars, disturbed>>

\* Not the code: the operator works before its cache is filled.
RestartUnfilled ==
    /\ Disturb
    /\ op' = Idle
    /\ cached' = NoCR /\ feed' = <<cr>> /\ dirty' = FALSE
    /\ pending' = TRUE
    /\ UNCHANGED <<kind, pull, clusterVars, clientVars, ghostVars>>

\* The process ends and starts again: its cache is filled before it works,
\* and what exists then is queued.
Restart ==
    /\ Disturb
    /\ op' = Idle
    /\ cached' = cr /\ feed' = <<>> /\ dirty' = FALSE
    /\ LET reported == cr # NoCR \/ \E c \in DOMAIN child \ Unowned : child[c] # 0
       IN  /\ pending' = reported
           /\ orphaned' = (orphaned \/ (made > 0 /\ ~reported))
    /\ UNCHANGED <<kind, pull, clusterVars, clientVars, inits, late>>

-----------------------------------------------------------------------------
(***************************************************************************)
(* The reconciler.                                                         *)
(***************************************************************************)
At(step, phase) == Step = step /\ op.phase = phase

Enter(i, my) == [at |-> i, phase |-> "look", my |-> my, got |-> NoCR, todo |-> {}]

\* Not the code: a step past the last, and the last step left out.
FollowingPastTheEnd == Enter(op.at + 1, op.my)
FollowingButTheLast ==
    IF op.at + 1 = Len(Program[kind]) THEN Idle ELSE Enter(op.at + 1, op.my)

Following == IF op.at = Len(Program[kind]) THEN Idle ELSE Enter(op.at + 1, op.my)
Advance == op' = Following /\ UNCHANGED pending

Fail ==
    IF Step \in Returning
    THEN op' = Idle /\ pending' = TRUE
    ELSE Advance

\* ProcessCR.  A resource that is not in the cache is taken for deleted, and
\* the namespace goes; a namespace that cannot be deleted is tried again.
Start ==
    /\ op = Idle /\ pending
    /\ cached.uid # 0
    /\ cached.creds = 0 => cr.creds < MaxGenerations
    /\ pending' = FALSE
    /\ op' = Enter(1, cached)
    /\ late' = (late \/ feed # <<>>)
    /\ UNCHANGED <<kind, pull, clusterVars, clientVars, feed, cached, dirty, inits,
                   orphaned, disturbed>>

\* Not the code: a resource that is not there is left at that.
ProcessDeletedIgnores ==
    /\ op = Idle /\ pending
    /\ cached.uid = 0
    /\ pending' = FALSE
    /\ UNCHANGED <<kind, pull, clusterVars, clientVars, feed, cached, dirty, op,
                   ghostVars, disturbed>>

ProcessDeleted ==
    /\ op = Idle /\ pending
    /\ cached.uid = 0
    /\ IF kind = "churroui"
       THEN pending' = FALSE /\ UNCHANGED ns
       ELSE /\ pending' = (ns # "active")
            /\ ns' = IF ns = "active" THEN "terminating" ELSE ns
    /\ UNCHANGED <<kind, pull, cr, child, bundle, inited, clientVars, feed, cached,
                   dirty, op, ghostVars, disturbed>>

\* processId: the cached copy, with an id, in place of the resource.
ProcessId ==
    /\ At("id", "look")
    /\ \/ /\ ~op.my.id
          /\ cr.uid = op.my.uid /\ cr.rv = op.my.rv
          /\ WriteCR([op.my EXCEPT !.id = TRUE, !.rv = @ + 1])
          /\ Calm
       \/ /\ (op.my.id \/ cr.uid # op.my.uid \/ cr.rv # op.my.rv)
          /\ UNCHANGED <<cr, feed>> /\ Calm
       \/ /\ ~op.my.id /\ Disturb
          /\ UNCHANGED <<cr, feed>>
    /\ Advance
    /\ UNCHANGED <<kind, pull, ns, child, bundle, inited, clientVars, cached, dirty,
                   ghostVars>>

\* Not the code: credentials are made in every reconcile.
AlwaysNeedCreds == cr.creds < MaxGenerations

\* processCreds: without credentials in the cached copy a bundle is made, the
\* resource is read again, and the bundle is put in it.
NeedCreds == op.my.creds = 0

\* GenerateChurroCreds: a certificate authority and, signed by it, the pairs of
\* the node, of root and of the pipeline, and the pair of the services.
NewBundle(old) == [old EXCEPT !.creds = @ + 1]

GenerateCreds ==
    /\ At("creds", "look")
    /\ \/ /\ NeedCreds /\ cr # NoCR
          /\ op' = [op EXCEPT !.phase = "update", !.got = cr]
          /\ Calm /\ UNCHANGED pending
       \/ ~NeedCreds /\ Advance /\ Calm
       \/ NeedCreds /\ cr = NoCR /\ Fail /\ Calm
       \/ NeedCreds /\ Fail /\ Disturb
    /\ UNCHANGED <<kind, pull, clusterVars, clientVars, feed, cached, dirty, ghostVars>>

UpdateCreds ==
    /\ At("creds", "update")
    /\ \/ /\ cr.uid = op.got.uid /\ cr.rv = op.got.rv
          /\ WriteCR([NewBundle(op.got) EXCEPT !.rv = @ + 1])
          /\ Calm
       \/ /\ cr.uid # op.got.uid \/ cr.rv # op.got.rv
          /\ UNCHANGED <<cr, feed>> /\ Calm
       \/ UNCHANGED <<cr, feed>> /\ Disturb
    /\ Advance
    /\ UNCHANGED <<kind, pull, ns, child, bundle, inited, clientVars, cached, dirty,
                   ghostVars>>

\* What a list of children by their owner may show, from the index that the
\* cache keeps: what is there, or, while an event is still to come, what was
\* there before.
Present(g) == {c \in Names(g) : child[c] # 0}
Views(g, lag) ==
    IF ~lag THEN {Present(g)} ELSE {{}} \cup (IF op.my.uid > 1 THEN {Names(g)} ELSE {})

Read(lag) == IF lag THEN Disturb ELSE Calm

\* A pod is refused while the service account it runs under is missing.
Account(c) ==
    CASE c \in {"churro-extractsource", "churro-ctl", "memsql-studio"} -> "sa.churro"
      [] c = "cockroachdb-client-secure" -> "sa.cockroachdb"
      [] OTHER -> c
Admitted(c) ==
    /\ ns = "active" /\ child[c] = 0
    /\ Account(c) # c => child[Account(c)] # 0

Make(cs, got, lag) ==
    /\ child' = [c \in DOMAIN child |-> IF c \in cs THEN op.my.uid ELSE child[c]]
    /\ bundle' = [s \in Bundled |-> IF s \in cs THEN [of |-> got.uid, gen |-> got.creds]
                                   ELSE bundle[s]]
    /\ dirty' = (dirty \/ lag \/ cs \ Unowned # {})
MakeNothing(lag) == Make({}, NoCR, lag)

(***************************************************************************)
(* A step that lists its children and creates the missing ones.  It ends   *)
(* with the first error, and a child that is already there is an error.    *)
(* The loop is one step here: it may stop after any child.                 *)
(***************************************************************************)
Plain == DOMAIN Group \ {"secrets", "mysql"}

EnsureGroup ==
    /\ Step \in Plain /\ op.phase = "look"
    /\ \E lag \in IF Step = "singlestore" THEN {FALSE} ELSE BOOLEAN :
       \E seen \in Views(Step, lag) :
       \E n \in 0..Len(Group[Step]) :
          LET new == {Group[Step][i] : i \in 1..n} \ seen
              next == Group[Step][n + 1] IN
          /\ \A c \in new : Admitted(c)
          /\ Make(new, NoCR, lag)
          /\ \/ n = Len(Group[Step]) /\ Advance /\ Read(lag)
             \/ /\ n < Len(Group[Step]) /\ next \notin seen
                /\ \/ ~Admitted(next) /\ Read(lag)
                   \/ Admitted(next) /\ ~lag /\ Disturb
                /\ Fail
    /\ UNCHANGED <<kind, pull, ns, cr, inited, clientVars, feed, cached, ghostVars>>

(***************************************************************************)
(* processSecrets and processMysql, call by call.                          *)
(***************************************************************************)
Create(todo, got) ==
    IF todo = {} THEN Advance
    ELSE /\ op' = [op EXCEPT !.phase = "create", !.todo = todo, !.got = got]
         /\ UNCHANGED pending

\* Not the code: empty credentials are not refused.
LookSecretsTrusting ==
    /\ At("secrets", "look")
    /\ \E lag \in BOOLEAN : \E seen \in Views("secrets", lag) :
          /\ Read(lag) /\ MakeNothing(lag)
          /\ IF cr = NoCR \/ ("pull-secret" \notin seen /\ ~pull)
             THEN Fail ELSE Create(Names("secrets") \ seen, cr)
    /\ UNCHANGED <<kind, pull, ns, cr, inited, clientVars, feed, cached, ghostVars>>

\* processSecrets: the credentials are those of the resource as it is now.
\* doDBNodeCreds and doServiceCreds refuse empty ones and end the step before
\* it makes anything; the error of doDBCreds is ignored.
LookSecrets ==
    /\ At("secrets", "look")
    /\ \E lag \in BOOLEAN : \E seen \in Views("secrets", lag) :
          LET refused == \/ cr = NoCR
                         \/ "pull-secret" \notin seen /\ ~pull
                         \/ /\ cr.creds = 0
                            /\ {"cockroachdb.node", "churro.client.root"} \ seen # {}
          IN  /\ Read(lag) /\ MakeNothing(lag)
              /\ IF refused THEN Fail ELSE Create(Names("secrets") \ seen, cr)
    /\ UNCHANGED <<kind, pull, ns, cr, inited, clientVars, feed, cached, ghostVars>>

\* processMysql looks for the cluster only, and makes the secret with it.
LookMysql ==
    /\ At("mysql", "look")
    /\ \E lag \in BOOLEAN : \E seen \in Views("mysql", lag) :
          /\ Read(lag) /\ MakeNothing(lag)
          /\ Create(IF "mysql-cluster" \in seen THEN {} ELSE Names("mysql"), NoCR)
    /\ UNCHANGED <<kind, pull, ns, cr, inited, clientVars, feed, cached, ghostVars>>

CreateChild ==
    /\ Step \in {"secrets", "mysql"} /\ op.phase = "create"
    /\ \E i \in 1..Len(Group[Step]) :
          LET c == Group[Step][i] IN
          /\ c \in op.todo /\ \A j \in 1..(i - 1) : Group[Step][j] \notin op.todo
          /\ \/ /\ Admitted(c)
                /\ Make({c}, op.got, FALSE)
                /\ IF op.todo = {c} THEN Advance
                   ELSE op' = [op EXCEPT !.todo = @ \ {c}] /\ UNCHANGED pending
                /\ Calm
             \/ ~Admitted(c) /\ Fail /\ MakeNothing(FALSE) /\ Calm
             \/ Admitted(c) /\ Fail /\ MakeNothing(FALSE) /\ Disturb
    /\ UNCHANGED <<kind, pull, ns, cr, inited, clientVars, feed, cached, ghostVars>>

Unsupported ==
    /\ At("unsupported", "look")
    /\ Fail
    /\ UNCHANGED <<kind, pull, clusterVars, clientVars, feed, cached, dirty, ghostVars,
                   disturbed>>

(***************************************************************************)
(* initStatefulSet: wait for the pod, take the marker, run init, wait for  *)
(* the pod to be ready.                                                    *)
(***************************************************************************)
PodCanRun == child["cockroachdb"] # 0 /\ child["cockroachdb.node"] # 0

InitTo(phase) == op' = [op EXCEPT !.phase = phase] /\ UNCHANGED pending

AwaitRunning ==
    /\ At("init", "look")
    /\ \/ ~PodCanRun /\ InitTo("ready") /\ Calm /\ UNCHANGED dirty
       \/ PodCanRun /\ InitTo("ready") /\ Disturb /\ UNCHANGED dirty
       \/ /\ PodCanRun
          /\ \E lag \in BOOLEAN :
                /\ Read(lag) /\ dirty' = (dirty \/ lag)
                /\ InitTo(IF ~lag /\ child[Marker] # 0 THEN "ready" ELSE "create")
    /\ UNCHANGED <<kind, pull, clusterVars, clientVars, feed, cached, ghostVars>>

\* Not the code: a marker that is already there is as good as a new one.
CreateMarkerAgain ==
    /\ At("init", "create")
    /\ \/ Admitted(Marker) /\ Make({Marker}, NoCR, FALSE) /\ InitTo("exec") /\ Calm
       \/ ~Admitted(Marker) /\ InitTo("exec") /\ MakeNothing(FALSE) /\ Calm
    /\ UNCHANGED <<kind, pull, ns, cr, inited, clientVars, feed, cached, ghostVars>>

CreateMarker ==
    /\ At("init", "create")
    /\ \/ Admitted(Marker) /\ Make({Marker}, NoCR, FALSE) /\ InitTo("exec") /\ Calm
       \/ ~Admitted(Marker) /\ Fail /\ MakeNothing(FALSE) /\ Calm
       \/ Admitted(Marker) /\ Fail /\ MakeNothing(FALSE) /\ Disturb
    /\ UNCHANGED <<kind, pull, ns, cr, inited, clientVars, feed, cached, ghostVars>>

ExecInit ==
    /\ At("init", "exec")
    /\ inits' = IF cr.uid = op.my.uid THEN [inits EXCEPT ![cr.uid] = @ + 1] ELSE inits
    /\ \/ PodCanRun /\ ~inited /\ inited' = TRUE /\ InitTo("ready") /\ Calm
       \/ (~PodCanRun \/ inited) /\ UNCHANGED inited /\ Fail /\ Calm
       \/ PodCanRun /\ ~inited /\ UNCHANGED inited /\ Fail /\ Disturb
    /\ UNCHANGED <<kind, pull, ns, cr, child, bundle, clientVars, feed, cached, dirty,
                   orphaned, late>>

AwaitReady ==
    /\ At("init", "ready")
    /\ \/ PodCanRun /\ inited /\ Advance /\ Calm
       \/ ~(PodCanRun /\ inited) /\ Fail /\ Calm
       \/ PodCanRun /\ inited /\ Fail /\ Disturb
    /\ UNCHANGED <<kind, pull, clusterVars, clientVars, feed, cached, dirty, ghostVars>>

Reconcile ==
    \/ Start \/ ProcessDeleted
    \/ ProcessId \/ GenerateCreds \/ UpdateCreds
    \/ EnsureGroup \/ LookSecrets \/ LookMysql \/ CreateChild \/ Unsupported
    \/ AwaitRunning \/ CreateMarker \/ ExecInit \/ AwaitReady

-----------------------------------------------------------------------------
Next ==
    \/ EnsureNamespace \/ CreateCR \/ DeleteCR \/ EditCR
    \/ \E sweep \in Sweeps : Collect(sweep)
    \/ NamespaceGone
    \/ Deliver \/ ChildEvent \/ Restart
    \/ Reconcile

Spec == Init /\ [][Next]_vars

\* The cluster and the operator go on; users owe nothing.
Fairness ==
    /\ WF_vars(NamespaceGone) /\ WF_vars(Deliver) /\ WF_vars(ChildEvent)
    /\ WF_vars(Reconcile)
    /\ WF_vars(\E sweep \in Sweeps : Collect(sweep))

FairSpec == Spec /\ Fairness

-----------------------------------------------------------------------------
CRs == [uid : 0..MaxUid, id : BOOLEAN, creds : 0..MaxGenerations, rv : Nat]

TypeOK ==
    /\ kind \in Kinds /\ pull \in BOOLEAN
    /\ ns \in {"absent", "active", "terminating"}
    /\ cr \in CRs /\ client \in {"idle", "create"} /\ made \in 0..MaxUid
    /\ child \in [ChildrenOf[kind] -> 0..MaxUid]
    /\ bundle \in [Bundled -> [of : 0..MaxUid, gen : 0..MaxGenerations]]
    /\ inited \in BOOLEAN
    /\ feed \in Seq(CRs) /\ cached \in CRs
    /\ pending \in BOOLEAN /\ dirty \in BOOLEAN
    /\ op \in [at : 0..Len(Program[kind]), my : CRs, got : CRs, todo : SUBSET Made,
               phase : {"idle", "look", "update", "create", "exec", "ready"}]
    /\ inits \in [1..MaxUid -> Nat]
    /\ orphaned \in BOOLEAN /\ late \in BOOLEAN
    /\ disturbed \in 0..MaxDisturbances

\* initStatefulSet: cockroach init is run at most once for a pipeline, whatever
\* crashes, retries and stale reads of the marker there are: the creation of the
\* marker is refused to the second.
InitOncePerPipeline == \A u \in 1..MaxUid : inits[u] <= 1

\* processSecrets: no secret of the first pipeline of a name is made of empty
\* credentials, though the error of
\* doDBCreds is ignored and the error of processCreds only logged.
NoEmptySecret ==
    \A s \in Bundled \cap DOMAIN child :
        cr.uid = 1 /\ child[s] = 1 => bundle[s].gen > 0

\* processCreds and processSecrets: the secrets of a pipeline hold the credentials
\* of its resource, as long as no reconcile began while its cache was behind.
SecretsMatchResource ==
    ~late => \A s \in Bundled \cap DOMAIN child :
                child[s] # 0 /\ child[s] = cr.uid
                => bundle[s] = [of |-> cr.uid, gen |-> cr.creds]

\* ProcessCR: a namespace is not deleted under a pipeline that the operator has
\* worked on (one with an id), however late the events of an earlier pipeline of
\* the name are.
WorkedOnIsSafe ==
    [][ns = "active" /\ ns' = "terminating" => cr = NoCR \/ ~cr.id]_vars

\* Reconcile: a pipeline comes up to its churro-ctl pod, unless it is deleted,
\* the operator ended between the marker and init, or there is no pull secret.
Lost(u) == child[Marker] = u /\ ~inited /\ op.phase # "exec"
Served(u) == "churro-ctl" \in DOMAIN child /\ child["churro-ctl"] = u
Unsecured == kind = "cockroachdb" /\ ~pull
ComesUp ==
    \A u \in 1..MaxUid :
        (cr.uid = u /\ kind \in {"cockroachdb", "mysql", "singlestore"})
        ~> (cr.uid # u \/ Served(u) \/ Lost(u) \/ Unsecured)

\* ProcessCR: the namespace of a deleted pipeline goes, unless the operator was
\* down until nothing was left to tell it.
NamespaceGoes ==
    (cr = NoCR /\ made > 0 /\ kind # "churroui")
    ~> (ns # "active" \/ cr # NoCR \/ orphaned \/ client = "create")
=============================================================================
