---------------------------- MODULE ControlPlane ----------------------------
(***************************************************************************)
(* The requests that users make to churro-ui, run at the same time: each   *)
(* is a goroutine that goes through the steps of its handler (UIHandlers), *)
(* on the tables of churro-ui's database (AdminDatabase), on the resource  *)
(* of the one pipeline the model has (pkg/pipeline.go and the API server), *)
(* and through the pipeline's churro-ctl, whose handlers read the resource *)
(* and write it back (PipelineResource).                                   *)
(*                                                                         *)
(* The API server numbers each write of the resource and refuses an update *)
(* made from a copy of another number.  A pipeline that is deleted can be  *)
(* made again under its name: uid is the number of the making, and stands  *)
(* for the id that the operator gives it.                                  *)
(*                                                                         *)
(* Bounds: the requests of a scene, MaxUid makings, and MaxDisturbances of *)
(* a call that fails, an answer that is lost, an end of churro-ui or       *)
(* churro-ctl, or one more write by the operator.                          *)
(***************************************************************************)
EXTENDS PipelineResource, AdminDatabase, Sequences

CONSTANTS Slots,                \* where requests run
          Paths, FormSchemes, FormTexts, Emails, FormAccesses,  \* what forms hold
          Scenes,               \* what users do, and with which database
          MaxUid, MaxDisturbances

UI == INSTANCE UIHandlers

ASSUME FormsAssumption ==
    /\ Paths # {}
    /\ \A played \in Scenes : played.ops \subseteq DOMAIN UI!Routes

ASSUME BoundsAssumption ==
    /\ MaxUid \in Nat \ {0} /\ MaxDisturbances \in Nat
    /\ FormAccesses \subseteq Accesses
    /\ \A played \in Scenes : played.most \in Nat /\ played.user \in Emails

VARIABLES scene,                \* the one that is played
          cr, rev,              \* the resource, and the number of the last write
          ctl,                  \* the making whose churro-ctl runs, or 0
          profiles, grants,     \* churro-ui's tables
          current, sessions,    \* u.UserEmail, and the users with a token
          made,                 \* makings of the pipeline so far
          req,                  \* the request of each slot
          asked, disturbed      \* counters of the bounds
tables == <<profiles, grants>>
accounts == <<current, sessions>>
vars == <<scene, cr, rev, ctl, tables, accounts, made, req, asked, disturbed>>

-----------------------------------------------------------------------------
(***************************************************************************)
(* The resource, requests, and the states to begin with.                   *)
(***************************************************************************)
Content(c) == [uid |-> c.uid, sources |-> c.sources, rules |-> c.rules,
               extensions |-> c.extensions, functions |-> c.functions]
NewCR(uid, number) ==
    [uid |-> uid, id |-> FALSE, rev |-> number, sources |-> {}, rules |-> {},
     extensions |-> {}, functions |-> {}]
NoCR == NewCR(0, 0)

\* Ids are numbers that are never used twice; those of requests follow these.
FirstUser == [id |-> 2, email |-> "user", access |-> "Write"]
FilledCR ==
    [NewCR(1, 1) EXCEPT
        !.id = TRUE, !.functions = {[id |-> 6, edit |-> 0]},
        !.sources = {[id |-> 3, path |-> CHOOSE p \in Paths : TRUE, scheme |-> "csv"]},
        !.rules = {[id |-> 4, source |-> 3, text |-> "column number", function |-> 6]},
        !.extensions = {[id |-> 5, source |-> 3, edit |-> 0]}]
LastFirstId == 6

NoCall == [op |-> "none", uid |-> 0, id |-> 0, item |-> 0, source |-> 0, path |-> 0,
           scheme |-> "csv", text |-> "column number", function |-> 0,
           email |-> "", access |-> "Read", user |-> 0, users |-> {}]

\* The steps that are left, the profile that authorization found, the makings
\* when the pipeline was looked up, the copies of the resource that churro-ui
\* (to rewrite it) and churro-ctl have read, the users not yet inserted.  Only to be observed: whether the
\* write was made, and whether another request wrote grants meanwhile.
Started(q) ==
    [call |-> q, status |-> "running", left |-> UI!Routes[q.op], failed |-> FALSE,
     profile |-> 0, found |-> 0, copy |-> NoCR, got |-> NoCR, todo |-> q.users,
     applied |-> FALSE, crossed |-> FALSE]
NoRequest ==
    [call |-> NoCall, status |-> "idle", left |-> <<>>, failed |-> FALSE,
     profile |-> 0, found |-> 0, copy |-> NoCR, got |-> NoCR, todo |-> {},
     applied |-> FALSE, crossed |-> FALSE]

\* A disturbed request "orphaned" runs on in churro-ctl when churro-ui has ended.
Live == {"running", "orphaned"}

Init ==
    /\ scene \in Scenes
    /\ cr = IF scene.filled THEN FilledCR ELSE [NewCR(1, 1) EXCEPT !.id = TRUE]
    /\ rev = 1 /\ made = 1 /\ ctl = 1
    /\ profiles = Bootstrap({FirstUser})
    /\ grants = IF scene.granted
                THEN {[by |-> 0, user |-> 2, pipeline |-> 1, access |-> "Write"]}
                ELSE {}
    /\ current = scene.user /\ sessions = {scene.user}
    /\ req = [s \in Slots |-> NoRequest]
    /\ asked = 0 /\ disturbed = 0

-----------------------------------------------------------------------------
(***************************************************************************)
(* A request.  Its form was filled from pages that show the pipeline of    *)
(* that moment; a page of an earlier making shows items that are no more,  *)
(* with id 0.                                                              *)
(***************************************************************************)
Ids(items, q) == IF cr.uid = q.uid THEN {x.id : x \in items} ELSE {0}
Users == {p.id : p \in profiles}

Calls(q) ==
    CASE q.op = "createExtractSource" ->
            {[q EXCEPT !.path = p, !.scheme = x] : p \in Paths, x \in FormSchemes}
      [] q.op = "updateExtractSource" ->
            {[q EXCEPT !.item = i, !.path = p, !.scheme = x] :
             i \in Ids(cr.sources, q), p \in Paths, x \in FormSchemes}
      [] q.op = "deleteExtractSource" -> {[q EXCEPT !.item = i] : i \in Ids(cr.sources, q)}
      [] q.op = "createExtractRule" ->
            {[q EXCEPT !.source = i, !.text = t, !.function = f] :
             i \in Ids(cr.sources, q), t \in FormTexts, f \in {0} \cup Ids(cr.functions, q)}
      [] q.op = "updateExtractRule" ->
            \* the form of a rule has its function, which the handler drops
            {[q EXCEPT !.item = x.id, !.source = x.source, !.text = t] :
             x \in {y \in cr.rules : cr.uid = q.uid}, t \in FormTexts}
      [] q.op \in {"deleteExtractRule", "extractRule"} ->
            {[q EXCEPT !.item = i] : i \in Ids(cr.rules, q)}
      [] q.op = "createExtension" -> {[q EXCEPT !.source = i] : i \in Ids(cr.sources, q)}
      [] q.op \in {"updateExtension", "deleteExtension"} ->
            {[q EXCEPT !.item = i] : i \in Ids(cr.extensions, q)}
      [] q.op \in {"updateTransformFunction", "deleteTransformFunction"} ->
            {[q EXCEPT !.item = i] : i \in Ids(cr.functions, q)}
      [] q.op = "login" -> {[q EXCEPT !.email = e] : e \in Emails}
      [] q.op \in {"profileUpdate", "userAdmin"} ->
            {[q EXCEPT !.email = e, !.access = a] : e \in Emails, a \in FormAccesses}
      [] q.op = "userAdminUpdate" ->
            {[q EXCEPT !.user = u, !.email = e, !.access = a] :
             u \in Users, e \in Emails, a \in FormAccesses}
      [] q.op \in {"userAdminDelete", "deletePipelineUser"} ->
            {[q EXCEPT !.user = u] : u \in Users}
      [] q.op = "updatePipelineUser" ->
            {[q EXCEPT !.user = u, !.access = a] : u \in Users, a \in FormAccesses}
      [] q.op = "updatePipelineUsers" ->
            {[q EXCEPT !.users = us, !.access = a] : us \in SUBSET Users, a \in FormAccesses}
      [] OTHER -> {q}

\* The requests that are about no pipeline.
OfNoPipeline == {"login", "logout", "profileUpdate", "userAdmin", "userAdminUpdate",
                 "userAdminDelete", "createPipelineDetail", "profile", "users",
                 "userAdminDetail", "pipelines", "showCreatePipeline"}

\* Middleware: a request needs a token, but to log in or out.
HasToken(op) == op \in {"login", "logout"} \/ sessions # {}

Request(s) ==
    /\ req[s].status \notin Live /\ asked < scene.most
    /\ asked' = asked + 1
    /\ \E op \in scene.ops : \E uid \in IF op \in OfNoPipeline THEN {0} ELSE 1..made :
          /\ HasToken(op)
          /\ \E q \in Calls([NoCall EXCEPT !.op = op, !.uid = uid,
                                           !.id = LastFirstId + asked + 1]) :
                req' = [req EXCEPT ![s] = Started(q)]
    /\ UNCHANGED <<scene, cr, rev, ctl, tables, accounts, made, disturbed>>

-----------------------------------------------------------------------------
(***************************************************************************)
(* The steps of a request, and how it ends.                                *)
(***************************************************************************)
At(s, steps) == req[s].status \in Live /\ req[s].left # <<>> /\ Head(req[s].left) \in steps

\* What is not looked at any more is cleared.
Ended(r, status) ==
    IF r.status = "orphaned" THEN NoRequest
    ELSE [r EXCEPT !.status = status, !.left = <<>>, !.profile = 0, !.found = 0,
                   !.copy = NoCR, !.got = NoCR, !.todo = {}]

Succeeded(r) ==
    IF Len(r.left) > 1 THEN [r EXCEPT !.left = Tail(@)]
    ELSE Ended(r, IF r.failed THEN "error" ELSE "ok")

CtlRuns == ctl # 0 /\ ctl = cr.uid

\* The page for a rule whose update failed is that of the rule.
Failed(r) ==
    IF /\ r.call.op = "updateExtractRule" /\ r.status = "running"
       /\ Head(r.left) \in {"edit", "put"}
    THEN [r EXCEPT !.left = UI!ExtractRule, !.failed = TRUE, !.got = NoCR, !.found = 0]
    ELSE Ended(r, "error")

\* The request goes on as r, and the others as they are.
Becomes(s, r) == req' = [req EXCEPT ![s] = r]
Goes(s) == Becomes(s, Succeeded(req[s]))
Fails(s) == Becomes(s, Failed(req[s]))
Disturb == disturbed < MaxDisturbances /\ disturbed' = disturbed + 1

OfResource == <<cr, rev, made>>
OfUI == <<tables, accounts>>
Bound == <<scene, asked>>

\* A call or a statement of the step fails, without effect.
StepFails(s) ==
    /\ req[s].status \in Live /\ Disturb
    /\ Fails(s)
    /\ UNCHANGED <<Bound, OfResource, ctl, OfUI>>

\* Steps that change nothing that is modelled.
Pass(s) ==
    /\ At(s, {"cluster", "read", "relay", "trigger", "purge"})
    /\ Goes(s)
    /\ UNCHANGED <<Bound, OfResource, ctl, OfUI, disturbed>>

Rpc(s) ==
    /\ At(s, {"rpc"})
    /\ IF CtlRuns THEN Goes(s) ELSE Fails(s)
    /\ UNCHANGED <<Bound, OfResource, ctl, OfUI, disturbed>>

-----------------------------------------------------------------------------
(***************************************************************************)
(* Authorization, and the lookup of the pipeline.                          *)
(***************************************************************************)
WithoutGrant(left) == IF Head(left) = "grant" THEN Tail(left) ELSE left

LooksForProfile(s) ==
    /\ At(s, {"profile"})
    /\ \/ \E p \in GetUserProfileByEmail(profiles, current) :
             IF p.access = "Admin"
             THEN Becomes(s, [req[s] EXCEPT !.left = WithoutGrant(Tail(@))])
             ELSE IF req[s].call.op = "createPipelineDetail" THEN Fails(s)
             ELSE Becomes(s, Succeeded([req[s] EXCEPT !.profile = p.id]))
       \/ GetUserProfileByEmail(profiles, current) = {} /\ Fails(s)
    /\ UNCHANGED <<Bound, OfResource, ctl, OfUI, disturbed>>

LooksForGrant(s) ==
    LET rows == GetUserPipelineAccess(grants, req[s].call.uid, req[s].profile) IN
    /\ At(s, {"grant"})
    /\ \/ \E g \in rows :
             IF Authorizes(g.access, UI!Needs[req[s].call.op]) THEN Goes(s) ELSE Fails(s)
       \/ rows = {} /\ Fails(s)
    /\ UNCHANGED <<Bound, OfResource, ctl, OfUI, disturbed>>

\* getPipelineCR.  Not the code: the first of the list, whatever its id.
HasAnyId(uid) == cr.uid # 0
HasId(uid) == cr.uid # 0 /\ cr.id /\ cr.uid = uid

\* Only a rewrite keeps more of the resource than its name.
LookedUp(s) == IF Len(req[s].left) > 1 /\ req[s].left[2] = "rewrite" THEN cr ELSE NoCR

Lookup(s) ==
    /\ At(s, {"lookup"})
    /\ IF HasId(req[s].call.uid)
       THEN Becomes(s, Succeeded([req[s] EXCEPT !.found = made, !.copy = LookedUp(s)]))
       ELSE Fails(s)
    /\ UNCHANGED <<Bound, OfResource, ctl, OfUI, disturbed>>

-----------------------------------------------------------------------------
(***************************************************************************)
(* The resource itself.  It is deleted by its name.  A rewrite writes the  *)
(* copy that was looked up, with none of the values of the form in it: it  *)
(* is refused when the resource was written since, and else changes        *)
(* nothing.                                                                *)
(***************************************************************************)
CreatePipeline(s) ==
    /\ At(s, {"create"}) /\ made < MaxUid
    /\ IF cr.uid = 0
       THEN /\ made' = made + 1 /\ rev' = rev + 1
            /\ cr' = NewCR(made + 1, rev + 1)
            /\ \/ Goes(s) /\ UNCHANGED disturbed
               \/ Fails(s) /\ Disturb
       ELSE Fails(s) /\ UNCHANGED <<OfResource, disturbed>>
    /\ UNCHANGED <<Bound, ctl, OfUI>>

DeletePipeline(s) ==
    /\ At(s, {"delete"})
    /\ IF cr.uid # 0
       THEN /\ cr' = NoCR /\ UNCHANGED <<rev, made>>
            /\ \/ Goes(s) /\ UNCHANGED disturbed
               \/ Fails(s) /\ Disturb
       ELSE Fails(s) /\ UNCHANGED <<OfResource, disturbed>>
    /\ UNCHANGED <<Bound, ctl, OfUI>>

Rewrite(s) ==
    /\ At(s, {"rewrite"})
    /\ IF cr.uid = req[s].copy.uid /\ cr.rev = req[s].copy.rev THEN Goes(s) ELSE Fails(s)
    /\ UNCHANGED <<Bound, OfResource, ctl, OfUI, disturbed>>

\* processId by the operator, and what it writes later: credentials, status.
OperatorNames ==
    /\ cr.uid # 0 /\ ~cr.id
    /\ rev' = rev + 1 /\ cr' = [cr EXCEPT !.id = TRUE, !.rev = rev + 1]
    /\ UNCHANGED <<Bound, made, ctl, OfUI, req, disturbed>>

OperatorWrites ==
    /\ cr.uid # 0 /\ Disturb
    /\ rev' = rev + 1 /\ cr' = [cr EXCEPT !.rev = rev + 1]
    /\ UNCHANGED <<Bound, made, ctl, OfUI, req>>

-----------------------------------------------------------------------------
(***************************************************************************)
(* A call of churro-ctl that writes the resource.  It is for the pipeline  *)
(* that has the name.  churro-ctl reads the resource and decides, and      *)
(* writes what it makes of its copy.                                       *)
(***************************************************************************)
Edit(s) ==
    LET r == req[s] IN
    /\ At(s, {"edit"})
    /\ \/ /\ CtlRuns /\ ~Refuses(cr, r.call)
          /\ Becomes(s, IF Writes(cr, r.call)
                        THEN Succeeded([r EXCEPT !.got = cr])
                        ELSE Succeeded([r EXCEPT !.left = Tail(@), !.applied = TRUE]))
       \/ (~CtlRuns \/ Refuses(cr, r.call)) /\ Fails(s)
    /\ UNCHANGED <<Bound, OfResource, ctl, OfUI, disturbed>>

\* Not the code: the API server does not compare the number.
IsThere(copy) == cr.uid # 0
IsCurrent(copy) == cr.uid # 0 /\ cr.uid = copy.uid /\ cr.rev = copy.rev

\* Update.  What is written over itself keeps its number.
Written(copy, q) ==
    LET new == Effect(copy, q) IN
    IF Content(new) = Content(cr) THEN cr ELSE [new EXCEPT !.rev = rev + 1]

Put(s) ==
    LET r == req[s] IN
    /\ At(s, {"put"})
    /\ IF IsCurrent(r.got)
       THEN /\ cr' = Written(r.got, r.call)
            /\ rev' = IF cr' = cr THEN rev ELSE rev + 1
            /\ LET done == [r EXCEPT !.applied = TRUE, !.got = NoCR] IN
               \/ Becomes(s, Succeeded(done)) /\ UNCHANGED disturbed
               \/ Becomes(s, Failed(done)) /\ Disturb
       ELSE Fails(s) /\ UNCHANGED <<cr, rev, disturbed>>
    /\ UNCHANGED <<Bound, made, ctl, OfUI>>

(***************************************************************************)
(* The process of churro-ctl.  It panics, and ends with all the calls that *)
(* it works on, in two of them: GetExtractRule has no error to report when *)
(* the rule is not there, and GetPipelineStatus takes the start of a pod   *)
(* that has not started.  The pods are not modelled here, and any of them  *)
(* may be such a one.                                                      *)
(***************************************************************************)
InCtl(s) == At(s, {"put", "trigger", "purge"})
CtlLost(asking) ==
    /\ ctl' = 0
    /\ req' = [s \in Slots |-> IF s \in asking \/ InCtl(s) THEN Failed(req[s]) ELSE req[s]]

GetExtractRule(s) ==
    /\ At(s, {"rule"})
    /\ IF CtlRuns /\ With(cr.rules, req[s].call.item) = {}
       THEN CtlLost({s})
       ELSE /\ IF CtlRuns THEN Goes(s) ELSE Fails(s)
            /\ UNCHANGED ctl
    /\ UNCHANGED <<Bound, OfResource, OfUI, disturbed>>

GetPipelineStatus(s) ==
    /\ At(s, {"jobs"})
    /\ \/ UNCHANGED ctl /\ IF CtlRuns THEN Goes(s) ELSE Fails(s)
       \/ CtlRuns /\ CtlLost({s})
    /\ UNCHANGED <<Bound, OfResource, OfUI, disturbed>>

CtlEnds ==
    /\ ctl # 0
    /\ \/ Disturb
       \/ ctl # cr.uid /\ UNCHANGED disturbed   \* its namespace goes
    /\ CtlLost({})
    /\ UNCHANGED <<Bound, OfResource, OfUI>>

\* NewCtlServer reads the resource, which has its id and credentials by then.
CtlStarts ==
    /\ ctl = 0 /\ cr.uid # 0 /\ cr.id
    /\ ctl' = cr.uid
    /\ UNCHANGED <<Bound, OfResource, OfUI, req, disturbed>>

-----------------------------------------------------------------------------
(***************************************************************************)
(* churro-ui's own state: the session tokens and its tables.               *)
(***************************************************************************)
LogIn(s) ==
    /\ At(s, {"login"})
    /\ sessions' = sessions \cup {req[s].call.email}
    /\ current' = req[s].call.email
    /\ Goes(s)
    /\ UNCHANGED <<Bound, OfResource, ctl, tables, disturbed>>

\* The token of the request's cookie, or of none.
LogOut(s) ==
    /\ At(s, {"logout"})
    /\ \E user \in sessions \cup {""} : sessions' = sessions \ {user}
    /\ Goes(s)
    /\ UNCHANGED <<Bound, OfResource, ctl, current, tables, disturbed>>

\* The row that an update is of: GetUserProfileByEmail, GetUserProfile.
FindsProfile(s) ==
    LET r == req[s]
        rows == IF Head(r.left) = "profileByEmail"
                THEN GetUserProfileByEmail(profiles, r.call.email)
                ELSE GetUserProfile(profiles, r.call.user) IN
    /\ At(s, {"profileByEmail", "profileById"})
    /\ \/ \E p \in rows : Becomes(s, Succeeded([r EXCEPT !.profile = p.id]))
       \/ rows = {} /\ Fails(s)
    /\ UNCHANGED <<Bound, OfResource, ctl, OfUI, disturbed>>

FormProfile(id, q) == [id |-> id, email |-> q.email, access |-> q.access]

WritesProfile(s) ==
    LET q == req[s].call IN
    /\ At(s, {"updateProfile", "createProfile", "deleteProfile"})
    /\ profiles' = CASE At(s, {"updateProfile"}) ->
                           UpdateUserProfile(profiles, FormProfile(req[s].profile, q))
                     [] At(s, {"createProfile"}) ->
                           CreateUserProfile(profiles, FormProfile(q.id, q))
                     [] At(s, {"deleteProfile"}) -> DeleteUserProfile(profiles, q.user)
    /\ Goes(s)
    /\ UNCHANGED <<Bound, OfResource, ctl, grants, accounts, disturbed>>

\* The grants become rows and the request r; a save of a pipeline's users
\* that another request writes grants in is crossed.
Grants(s, rows, r) ==
    /\ grants' = rows
    /\ req' = [t \in Slots |->
                 IF t = s THEN r
                 ELSE IF req[t].call.op = "updatePipelineUsers" /\ rows # grants
                      THEN [req[t] EXCEPT !.crossed = TRUE]
                      ELSE req[t]]

ChangesGrant(s) ==
    LET q == req[s].call IN
    /\ At(s, {"deleteGrant", "updateGrant"})
    /\ Grants(s, IF Head(req[s].left) = "deleteGrant"
                 THEN DeleteUserPipelineAccess(grants, q.uid, q.user)
                 ELSE UpdateUserPipelineAccess(grants, q.uid, q.user, q.access),
              Succeeded(req[s]))
    /\ UNCHANGED <<Bound, OfResource, ctl, profiles, accounts, disturbed>>

(***************************************************************************)
(* UpdatePipelineUsers: all grants of the pipeline are deleted, and those  *)
(* of the selected users inserted one by one, in the order of a map, each  *)
(* once the user's profile was found.                                      *)
(***************************************************************************)
DeletesGrants(s) ==
    /\ At(s, {"deleteGrants"})
    /\ \/ Grants(s, DeleteAllUserPipelineAccess(grants, req[s].call.uid), Succeeded(req[s]))
          /\ UNCHANGED disturbed
       \/ IgnoresDeleteError(scene.db) /\ Goes(s) /\ Disturb /\ UNCHANGED grants
    /\ UNCHANGED <<Bound, OfResource, ctl, profiles, accounts>>

GrantsUser(s) ==
    LET r == req[s]
        Row(user) == [by |-> r.call.id, user |-> user, pipeline |-> r.call.uid,
                      access |-> r.call.access] IN
    /\ At(s, {"grantUsers"})
    /\ \/ r.todo = {} /\ Goes(s) /\ UNCHANGED <<grants, disturbed>>
       \/ \E user \in r.todo :
             IF GetUserProfile(profiles, user) = {} \/ KeyRefuses(scene.db, grants, user)
             THEN Fails(s) /\ UNCHANGED <<grants, disturbed>>
             ELSE \/ /\ Grants(s, CreateUserPipelineAccess(grants, Row(user)),
                               [r EXCEPT !.todo = @ \ {user}])
                     /\ UNCHANGED disturbed
                  \/ /\ IgnoresInsertError(scene.db) /\ Disturb
                     /\ Becomes(s, [r EXCEPT !.todo = @ \ {user}])
                     /\ UNCHANGED grants
    /\ UNCHANGED <<Bound, OfResource, ctl, profiles, accounts>>

(***************************************************************************)
(* churro-ui ends and starts again, with no token and no user; its         *)
(* requests are gone but for what churro-ctl does of them.                 *)
(***************************************************************************)
UIRestarts ==
    /\ Disturb
    /\ sessions' = {} /\ current' = ""
    /\ profiles' = Bootstrap(profiles)
    /\ req' = [s \in Slots |-> IF InCtl(s) THEN [req[s] EXCEPT !.status = "orphaned"]
                               ELSE NoRequest]
    /\ UNCHANGED <<Bound, OfResource, ctl, grants>>

-----------------------------------------------------------------------------
Step(s) ==
    \/ StepFails(s) \/ Pass(s) \/ Rpc(s)
    \/ LooksForProfile(s) \/ LooksForGrant(s) \/ Lookup(s)
    \/ CreatePipeline(s) \/ DeletePipeline(s) \/ Rewrite(s)
    \/ Edit(s) \/ Put(s) \/ GetExtractRule(s) \/ GetPipelineStatus(s)
    \/ LogIn(s) \/ LogOut(s) \/ FindsProfile(s) \/ WritesProfile(s)
    \/ ChangesGrant(s) \/ DeletesGrants(s) \/ GrantsUser(s)

Next ==
    \/ \E s \in Slots : Request(s) \/ Step(s)
    \/ OperatorNames \/ OperatorWrites
    \/ CtlEnds \/ CtlStarts
    \/ UIRestarts

Spec == Init /\ [][Next]_vars

-----------------------------------------------------------------------------
(***************************************************************************)
(* The promise of churro-ctl.                                              *)
(***************************************************************************)
AskStatus(r) ==
    CASE r.status \in Live -> IF r.applied THEN "applied" ELSE "pending"
      [] r.status = "error" -> IF r.applied THEN "unsure" ELSE "refused"
      [] OTHER -> r.status
Ask(r) == IF r.call.op \in Edits THEN [call |-> r.call, status |-> AskStatus(r)]
          ELSE [call |-> NoCall, status |-> "idle"]

Store == INSTANCE PipelineStore
            WITH store <- Content(cr), ask <- [s \in Slots |-> Ask(req[s])]

(***************************************************************************)
(* The reads and writes of churro-ctl's handlers, of any number of calls   *)
(* at once, with deletions, makings and other writes of the resource       *)
(* between them, are each one step on the resource; an answer without      *)
(* error means that it was taken, and an error before the write that it    *)
(* was not (internal/ctl, pkg/pipeline.go).                                *)
(***************************************************************************)
StoreSpec == Store!Spec

(***************************************************************************)
(* Properties of the states and steps.                                     *)
(***************************************************************************)
\* The types of the variables, and that ids are never used twice.
TypeOK ==
    /\ scene \in Scenes
    /\ cr.uid \in 0 .. MaxUid /\ cr.id \in BOOLEAN /\ cr.rev \in 0 .. rev
    /\ ctl \in 0 .. made /\ made \in 1 .. MaxUid /\ cr.uid \in {0, made}
    /\ current \in Emails \cup {""} /\ sessions \subseteq Emails
    /\ \A items \in {cr.sources, cr.rules, cr.extensions, cr.functions, profiles} :
          \A x, y \in items :
             x.id \in 1 .. LastFirstId + asked /\ (x.id = y.id => x = y)
    /\ \A g \in grants : g.pipeline \in 1 .. made /\ g.access \in Accesses
    /\ \A s \in Slots :
          /\ req[s].status \in Live \cup {"idle", "ok", "error"}
          /\ req[s].status \in Live <=> req[s].left # <<>>
    /\ asked \in 0 .. scene.most /\ disturbed \in 0 .. MaxDisturbances

(***************************************************************************)
(* No two sources of a pipeline have one path ("path already taken"),      *)
(* though the check is made on a copy, and the sources are created and     *)
(* changed by requests at the same time (CreateExtractSource,              *)
(* UpdateExtractSource of internal/ctl/extractsource.go).                  *)
(***************************************************************************)
PathsUnique == \A x, y \in cr.sources : x.path = y.path => x = y

(***************************************************************************)
(* A rule that is written fits the scheme that its source has at that      *)
(* moment, though the source may be changed between the check and the      *)
(* write (validateRulePath).  A later change of the source's scheme does   *)
(* not look at its rules.                                                  *)
(***************************************************************************)
RulesFitWhenWritten == [][\A x \in cr'.rules \ cr.rules : RulePathFits(cr', x)]_vars

(***************************************************************************)
(* A request that found its pipeline by id changes or deletes another one  *)
(* of the same name only when the pipeline was deleted and made again      *)
(* after it was found (getPipelineCR, and what goes by the name then).     *)
(***************************************************************************)
LookedUpOnly ==
    [][\A s \in Slots :
          req[s].found # 0 /\ req'[s] # req[s] /\ cr' # cr
             => cr.uid = req[s].call.uid \/ made > req[s].found]_vars

(***************************************************************************)
(* When a save of a pipeline's users is answered without error and no      *)
(* other request changed grants meanwhile, the pipeline's grants are one   *)
(* for each selected user (UpdatePipelineUsers), but for the statements    *)
(* whose errors two of the databases ignore.                               *)
(***************************************************************************)
SavedUsers ==
    \A s \in Slots :
       LET q == req[s].call IN
       /\ q.op = "updatePipelineUsers" /\ req[s].status = "ok" /\ ~req[s].crossed
       /\ scene.db = "cockroachdb" \/ disturbed = 0
       => {g \in grants : g.pipeline = q.uid} =
             {[by |-> q.id, user |-> u, pipeline |-> q.uid, access |-> q.access] :
              u \in q.users}
=============================================================================
