--------------------------- MODULE RequestsProofs ---------------------------
(***************************************************************************)
(* Proofs about what requests that run at the same time leave behind, for  *)
(* any number of slots, requests, makings and disturbances: no two sources *)
(* of a pipeline get one path, a rule fits its source when it is written,  *)
(* a save of a pipeline's users leaves their grants, and ids stay unique.  *)
(*                                                                         *)
(* The handlers of churro-ctl check a copy of the resource; that they keep *)
(* the promise of PipelineStore (ControlPlaneProofs) makes the check one   *)
(* of the resource itself.                                                 *)
(***************************************************************************)
EXTENDS ControlPlaneProofs

\* A call that may still be applied.
Pending(r) == r.call.op \in Edits /\ r.status \in Live /\ ~r.applied

Bounded(id) == id \in Nat /\ id <= LastFirstId + asked

(***************************************************************************)
(* Ids are not used twice: an id names one source and one rule of one      *)
(* source, and a pending call's own id is in nobody's hands yet.           *)
(***************************************************************************)
SourceIds == \A x, y \in cr.sources : x.id = y.id => x = y
RuleIds == \A x, y \in cr.rules : x.id = y.id => x.source = y.source
BoundedIds ==
    /\ \A x \in cr.sources : Bounded(x.id)
    /\ \A x \in cr.rules : Bounded(x.id)
    /\ \A s \in Slots : Pending(req[s]) => Bounded(req[s].call.id)
NewIds ==
    \A s \in Slots : Pending(req[s]) =>
       /\ \A x \in cr.sources : x.id # req[s].call.id
       /\ \A x \in cr.rules : x.id # req[s].call.id
       /\ \A t \in Slots \ {s} : Pending(req[t]) => req[t].call.id # req[s].call.id

\* An update of a rule names the source of the rule, as long as that is there.
RuleUpdates ==
    \A s \in Slots : Pending(req[s]) /\ req[s].call.op = "updateExtractRule" =>
       /\ Bounded(req[s].call.item)
       /\ \A x \in cr.rules : x.id = req[s].call.item => x.source = req[s].call.source
       /\ \A t \in Slots : Pending(req[t]) => req[t].call.id # req[s].call.item

Identified == SourceIds /\ RuleIds /\ BoundedIds /\ NewIds /\ RuleUpdates /\ PathsUnique
Fit == \A x \in cr'.rules \ cr.rules : RulePathFits(cr', x)

-----------------------------------------------------------------------------
(* Only a new request is pending that was not.                             *)

Fields(r) ==
    r = [call |-> r.call, status |-> r.status, left |-> r.left, failed |-> r.failed,
         profile |-> r.profile, found |-> r.found, copy |-> r.copy, got |-> r.got,
         todo |-> r.todo, applied |-> r.applied, crossed |-> r.crossed]

GoesOn(a, b) ==
    /\ b.call \in {a.call, NoCall}
    /\ b.status \in Live => /\ a.status \in Live /\ b.call = a.call
                            /\ a.applied => b.applied

LEMMA EndsOrGoesOn ==
    ASSUME NEW a, a.status \in Live, NEW r, Fields(r), GoesOn(a, r)
    PROVE  GoesOn(a, Succeeded(r)) /\ GoesOn(a, Failed(r))
<1>1. ASSUME NEW status \in {"ok", "error"}
      PROVE  /\ Ended(r, status).status \notin Live
             /\ Ended(r, status).call \in {r.call, NoCall}
  BY DEF Ended, NoRequest, Live, Fields
<1>2. /\ [r EXCEPT !.left = Tail(@)].status = r.status
      /\ [r EXCEPT !.left = Tail(@)].call = r.call
      /\ [r EXCEPT !.left = Tail(@)].applied = r.applied
  BY DEF Fields
<1>3. GoesOn(a, Succeeded(r))
  BY <1>1, <1>2 DEF Succeeded, GoesOn
<1> DEFINE f == [r EXCEPT !.left = UI!ExtractRule, !.failed = TRUE, !.got = NoCR, !.found = 0]
<1>4. f.status = r.status /\ f.call = r.call /\ f.applied = r.applied
  BY DEF Fields
<1>5. Failed(r) = f \/ Failed(r) = Ended(r, "error")
  BY DEF Failed
<1>6. GoesOn(a, Failed(r))
  BY <1>1, <1>4, <1>5 DEF GoesOn
<1> QED
  BY <1>3, <1>6

LEMMA OneGoesOn ==
    ASSUME IInv, NEW s \in Slots, NEW b, GoesOn(req[s], b), Becomes(s, b), NEW t \in Slots
    PROVE  GoesOn(req[t], req'[t])
BY DEF Becomes, IInv, GoesOn

LEMMA HasFields ==
    ASSUME NEW r \in Requests
    PROVE  Fields(r) /\ GoesOn(r, r)
BY DEF Requests, Fields, GoesOn

\* A request with something noted, or read, or marked.
LEMMA NotesFields ==
    ASSUME NEW r, Fields(r), NEW x
    PROVE  \A m \in {[r EXCEPT !.profile = x], [r EXCEPT !.left = x], [r EXCEPT !.got = x],
                      [r EXCEPT !.todo = x], [r EXCEPT !.crossed = x]} :
              /\ Fields(m) /\ m.status = r.status /\ m.call = r.call
              /\ r.applied => m.applied
<1> SUFFICES ASSUME NEW m \in {[r EXCEPT !.profile = x], [r EXCEPT !.left = x],
                               [r EXCEPT !.got = x], [r EXCEPT !.todo = x],
                               [r EXCEPT !.crossed = x]}
             PROVE  /\ Fields(m) /\ m.status = r.status /\ m.call = r.call
                    /\ r.applied => m.applied
  OBVIOUS
<1> USE DEF Fields
<1>1. CASE m = [r EXCEPT !.profile = x]
  BY <1>1
<1>2. CASE m = [r EXCEPT !.left = x]
  BY <1>2
<1>3. CASE m = [r EXCEPT !.got = x]
  BY <1>3
<1>4. CASE m = [r EXCEPT !.todo = x]
  BY <1>4
<1>5. CASE m = [r EXCEPT !.crossed = x]
  BY <1>5
<1> QED
  BY <1>1, <1>2, <1>3, <1>4, <1>5

LEMMA MarksFields ==
    ASSUME NEW r \in Requests, r.left # <<>>, NEW n \in Nat, NEW c \in Resources
    PROVE  \A m \in {[r EXCEPT !.found = n, !.copy = c],
                      [r EXCEPT !.left = Tail(@), !.applied = TRUE],
                      [r EXCEPT !.applied = TRUE, !.got = c]} :
              /\ Fields(m) /\ m.status = r.status /\ m.call = r.call
              /\ r.applied => m.applied
<1> SUFFICES ASSUME NEW m \in {[r EXCEPT !.found = n, !.copy = c],
                               [r EXCEPT !.left = Tail(@), !.applied = TRUE],
                               [r EXCEPT !.applied = TRUE, !.got = c]}
             PROVE  /\ Fields(m) /\ m.status = r.status /\ m.call = r.call
                    /\ r.applied => m.applied
  OBVIOUS
<1>1. Tail(r.left) \in Seq(StepNames)
  BY DEF Requests
<1>2. CASE m = [r EXCEPT !.found = n, !.copy = c]
  BY <1>2, HasFields DEF Requests
<1>3. CASE m = [r EXCEPT !.left = Tail(@), !.applied = TRUE]
  BY <1>1, <1>3, HasFields DEF Requests
<1>4. CASE m = [r EXCEPT !.applied = TRUE, !.got = c]
  BY <1>4, HasFields DEF Requests
<1> QED
  BY <1>2, <1>3, <1>4

LEMMA StepGoesOn ==
    ASSUME IInv, NEW s \in Slots, Step(s), NEW t \in Slots
    PROVE  GoesOn(req[t], req'[t])
<1> DEFINE r == req[s]
<1>1. r.status \in Live
  BY DEF Step, StepFails, Pass, Rpc, LooksForProfile, LooksForGrant, Lookup,
     CreatePipeline, DeletePipeline, Rewrite, Edit, Put, GetExtractRule,
     GetPipelineStatus, LogIn, LogOut, FindsProfile, WritesProfile, ChangesGrant,
     DeletesGrants, GrantsUser, At
<1>2. Fields(r) /\ GoesOn(r, r)
  BY HasFields DEF IInv
<1>3. CASE Goes(s) \/ Fails(s)
  BY <1>1, <1>2, <1>3, EndsOrGoesOn, OneGoesOn DEF Goes, Fails
<1>4. ASSUME NEW m, Fields(m), m.status = r.status, m.call = r.call,
             r.applied => m.applied,
             Becomes(s, Succeeded(m)) \/ Becomes(s, Failed(m)) \/ Becomes(s, m)
      PROVE  GoesOn(req[t], req'[t])
  <2>1. GoesOn(r, m)
    BY <1>1, <1>4 DEF GoesOn
  <2>2. GoesOn(r, Succeeded(m)) /\ GoesOn(r, Failed(m))
    BY <1>1, <1>4, <2>1, EndsOrGoesOn
  <2> QED
    BY <1>4, <2>1, <2>2, OneGoesOn
<1>5. ASSUME NEW rows, NEW b, GoesOn(r, b), Grants(s, rows, b)
      PROVE  GoesOn(req[t], req'[t])
  <2> DEFINE c == [req[t] EXCEPT !.crossed = TRUE]
  <2>1. (req'[t] = b /\ t = s) \/ req'[t] = req[t] \/ req'[t] = c
    BY <1>5 DEF Grants
  <2>2. Fields(req[t]) /\ GoesOn(req[t], req[t])
    BY HasFields DEF IInv
  <2>3. c.status = req[t].status /\ c.call = req[t].call /\ c.applied = req[t].applied
    BY <2>2 DEF Fields
  <2> HIDE DEF c
  <2> QED
    BY <1>5, <2>1, <2>2, <2>3 DEF GoesOn, r
<1>6. ASSUME NEW asking \in SUBSET Slots, CtlLost(asking),
             \A u \in asking : req[u].status \in Live
      PROVE  GoesOn(req[t], req'[t])
  <2>1. req'[t] = req[t] \/ (req[t].status \in Live /\ req'[t] = Failed(req[t]))
    BY <1>6 DEF CtlLost, InCtl, At
  <2>2. Fields(req[t]) /\ GoesOn(req[t], req[t])
    BY HasFields DEF IInv
  <2> QED
    BY <2>1, <2>2, EndsOrGoesOn
<1> HIDE DEF r
<1>7. r \in Requests /\ r.left # <<>>
  BY <1>1 DEF IInv, Good, Shaped, r
<1>8. CASE LooksForProfile(s)
  <2>1. \/ Fails(s)
        \/ Becomes(s, [r EXCEPT !.left = WithoutGrant(Tail(@))])
        \/ \E p \in profiles : Becomes(s, Succeeded([r EXCEPT !.profile = p.id]))
    BY <1>8 DEF LooksForProfile, GetUserProfileByEmail, r
  <2> QED
    BY <1>2, <1>3, <1>4, <2>1, NotesFields
<1>9. CASE Lookup(s)
  <2> DEFINE m == [r EXCEPT !.found = made, !.copy = LookedUp(s)]
  <2>1. Fails(s) \/ Becomes(s, Succeeded(m))
    BY <1>9 DEF Lookup, r
  <2>2. made \in Nat /\ LookedUp(s) \in Resources
    BY NoRowsType DEF IInv, LookedUp
  <2>3. Fields(m) /\ m.status = r.status /\ m.call = r.call /\ (r.applied => m.applied)
    BY <1>7, <2>2, MarksFields
  <2> QED
    BY <1>3, <1>4, <2>1, <2>3
<1>10. CASE Edit(s)
  <2> DEFINE m == [r EXCEPT !.left = Tail(@), !.applied = TRUE]
  <2>1. \/ Fails(s) \/ Becomes(s, Succeeded([r EXCEPT !.got = cr])) \/ Becomes(s, Succeeded(m))
    BY <1>10 DEF Edit, r
  <2>2. Fields(m) /\ m.status = r.status /\ m.call = r.call /\ (r.applied => m.applied)
    BY <1>7, MarksFields, NoRowsType
  <2> HIDE DEF m
  <2> QED
    BY <1>2, <1>3, <1>4, <2>1, <2>2, NotesFields
<1>11. CASE Put(s)
  <2> DEFINE m == [r EXCEPT !.applied = TRUE, !.got = NoCR]
  <2>1. Fails(s) \/ Becomes(s, Succeeded(m)) \/ Becomes(s, Failed(m))
    BY <1>11 DEF Put, r
  <2>2. Fields(m) /\ m.status = r.status /\ m.call = r.call /\ (r.applied => m.applied)
    BY <1>7, MarksFields, NoRowsType
  <2> QED
    BY <1>3, <1>4, <2>1, <2>2
<1>12. CASE FindsProfile(s)
  <2>1. Fails(s) \/ \E p : Becomes(s, Succeeded([r EXCEPT !.profile = p.id]))
    BY <1>12 DEF FindsProfile, r
  <2> QED
    BY <1>2, <1>3, <1>4, <2>1, NotesFields
<1>13. CASE ChangesGrant(s) \/ DeletesGrants(s)
  <2>1. Goes(s) \/ \E rows : Grants(s, rows, Succeeded(r))
    BY <1>13 DEF ChangesGrant, DeletesGrants, r
  <2>2. GoesOn(r, Succeeded(r))
    BY <1>1, <1>2, EndsOrGoesOn
  <2> QED
    BY <1>3, <1>5, <2>1, <2>2
<1>14. CASE GrantsUser(s)
  <2>1. \/ Goes(s) \/ Fails(s)
        \/ \E user, rows : Grants(s, rows, [r EXCEPT !.todo = @ \ {user}])
        \/ \E user : Becomes(s, [r EXCEPT !.todo = @ \ {user}])
    BY <1>14 DEF GrantsUser, r
  <2>2. ASSUME NEW user
        PROVE  GoesOn(r, [r EXCEPT !.todo = @ \ {user}])
    BY <1>1, <1>2 DEF Fields, GoesOn
  <2> QED
    BY <1>3, <1>5, <2>1, <2>2, OneGoesOn DEF r
<1>15. CASE GetExtractRule(s) \/ GetPipelineStatus(s)
  <2>1. Goes(s) \/ Fails(s) \/ CtlLost({s})
    BY <1>15 DEF GetExtractRule, GetPipelineStatus
  <2> QED
    BY <1>1, <1>3, <1>6, <2>1 DEF r
<1>16. CASE \/ StepFails(s) \/ Pass(s) \/ Rpc(s) \/ LooksForGrant(s) \/ CreatePipeline(s)
            \/ DeletePipeline(s) \/ Rewrite(s) \/ LogIn(s) \/ LogOut(s) \/ WritesProfile(s)
  <2>1. Goes(s) \/ Fails(s)
    BY <1>16 DEF StepFails, Pass, Rpc, LooksForGrant, CreatePipeline, DeletePipeline,
       Rewrite, LogIn, LogOut, WritesProfile
  <2> QED
    BY <1>3, <2>1
<1> QED
  BY <1>8, <1>9, <1>10, <1>11, <1>12, <1>13, <1>14, <1>15, <1>16 DEF Step

LEMMA OthersGoOn ==
    ASSUME IInv, [Next]_vars, \A s \in Slots : ~Request(s)
    PROVE  asked' = asked /\ \A t \in Slots : GoesOn(req[t], req'[t])
<1>1. ASSUME NEW t \in Slots
      PROVE  GoesOn(req[t], req'[t])
  <2>1. Fields(req[t]) /\ GoesOn(req[t], req[t])
    BY HasFields DEF IInv
  <2>2. CASE UNCHANGED req
    BY <2>1, <2>2
  <2>3. CASE CtlEnds
    <3>1. req'[t] = req[t] \/ (req[t].status \in Live /\ req'[t] = Failed(req[t]))
      BY <2>3 DEF CtlEnds, CtlLost, InCtl, At
    <3> QED
      BY <2>1, <3>1, EndsOrGoesOn
  <2>4. CASE UIRestarts
    <3>1. \/ req'[t] = NoRequest
          \/ req[t].status \in Live /\ req'[t] = [req[t] EXCEPT !.status = "orphaned"]
      BY <2>4 DEF UIRestarts, InCtl, At
    <3>2. NoRequest.status \notin Live /\ NoRequest.call = NoCall
      BY DEF NoRequest, Live
    <3> QED
      BY <2>1, <3>1, <3>2 DEF GoesOn, Fields
  <2>5. CASE \E s \in Slots : Step(s)
    BY <2>5, StepGoesOn
  <2>6. OperatorNames \/ OperatorWrites \/ CtlStarts => UNCHANGED req
    BY DEF OperatorNames, OperatorWrites, CtlStarts
  <2> QED
    BY <2>2, <2>3, <2>4, <2>5, <2>6 DEF Next, vars
<1>2. asked' = asked
  BY DEF Next, vars, Step, StepFails, Pass, Rpc, LooksForProfile, LooksForGrant, Lookup,
     CreatePipeline, DeletePipeline, Rewrite, Edit, Put, GetExtractRule,
     GetPipelineStatus, LogIn, LogOut, FindsProfile, WritesProfile, ChangesGrant,
     DeletesGrants, GrantsUser, OperatorNames, OperatorWrites, CtlEnds, CtlStarts,
     UIRestarts, Bound
<1> QED
  BY <1>1, <1>2

-----------------------------------------------------------------------------
(* How the lists of the resource change.                                   *)

LEMMA PendingAsk ==
    ASSUME NEW r \in Requests, Shaped(r)
    PROVE  /\ Ask(r).status = "pending" <=> Pending(r)
           /\ Pending(r) => Ask(r).call = r.call
<1>1. r.status \in Live \cup {"idle", "ok", "error"} /\ (r.status = "idle" => r.call = NoCall)
  BY DEF Requests, Shaped
<1>2. Idle.status = "idle" /\ NoCall.op \notin Edits
  BY DEF Idle, Store!Idle, NoCall, Edits, SourceEdits, RuleEdits, ExtensionEdits,
     FunctionEdits
<1>3. CASE r.call.op \notin Edits
  BY <1>2, <1>3, AskOf DEF Pending
<1>4. CASE r.call.op \in Edits /\ r.status \in Live
  BY <1>4, AskOf DEF Pending
<1>5. CASE r.call.op \in Edits /\ r.status \notin Live
  BY <1>1, <1>2, <1>5, AskOf DEF Pending
<1> QED
  BY <1>3, <1>4, <1>5

\* The handler of a call that was pending is applied to the resource itself.
TakesEffect(s) ==
    /\ Pending(req[s]) /\ ~Pending(req'[s])
    /\ ~Refuses(cr, req[s].call)
    /\ cr'.sources = Effect(cr, req[s].call).sources
    /\ cr'.rules = Effect(cr, req[s].call).rules
    /\ cr'.extensions = Effect(cr, req[s].call).extensions
    /\ cr'.functions = Effect(cr, req[s].call).functions

SameLists == /\ cr'.sources = cr.sources /\ cr'.rules = cr.rules
             /\ cr'.extensions = cr.extensions /\ cr'.functions = cr.functions
NoLists == /\ cr'.sources = {} /\ cr'.rules = {}
           /\ cr'.extensions = {} /\ cr'.functions = {}

LEMMA Changes ==
    ASSUME IInv, [Next]_vars
    PROVE  \/ SameLists \/ NoLists
           \/ \E s \in Slots : TakesEffect(s)
<1> DEFINE c == Content(cr)
           ask == [s \in Slots |-> Ask(req[s])]
<1>1. IInv' /\ StoreStep
  BY NextIInv
<1>2. /\ c.sources = cr.sources /\ c.rules = cr.rules
      /\ c.extensions = cr.extensions /\ c.functions = cr.functions
      /\ c'.sources = cr'.sources /\ c'.rules = cr'.rules
      /\ c'.extensions = cr'.extensions /\ c'.functions = cr'.functions
  BY DEF Content
<1>3. CASE UNCHANGED c
  BY <1>2, <1>3 DEF SameLists
<1>4. CASE Store!Remake
  BY <1>2, <1>4 DEF Store!Remake, Store!Empty, NoLists
<1>5. ASSUME NEW s \in Slots, Store!Apply(s)
      PROVE  TakesEffect(s)
  <2>1. /\ ask[s].status = "pending" /\ ~Store!Refuses(c, ask[s].call)
        /\ c' = Store!Effect(c, ask[s].call)
        /\ \E to \in {"applied", "ok", "unsure", "idle"} :
              ask' = [ask EXCEPT ![s] = Store!Answered(s, to)]
    BY <1>5 DEF Store!Apply
  <2>2. req[s] \in Requests /\ Shaped(req[s]) /\ req'[s] \in Requests /\ Shaped(req'[s])
    BY <1>1 DEF IInv, Good
  <2>3. Pending(req[s]) /\ ask[s].call = req[s].call
    BY <2>1, <2>2, PendingAsk
  <2>4. ask'[s].status # "pending"
    <3>1. PICK to \in {"applied", "ok", "unsure", "idle"} : ask'[s] = Store!Answered(s, to)
      BY <2>1
    <3>2. Idle.status = "idle"
      BY DEF Idle, Store!Idle
    <3>3. ask[s] = [call |-> req[s].call, status |-> "pending"]
      BY <2>2, <2>3, AskOf DEF Pending
    <3>4. [ask[s] EXCEPT !.status = to].status = to
      BY <3>3
    <3> HIDE DEF ask
    <3> QED
      BY <3>1, <3>2, <3>4 DEF Store!Answered, Idle, ask
  <2>5. ~Pending(req'[s])
    BY <2>2, <2>4, PendingAsk
  <2>6. req[s].call \in CallRows /\ req[s].call.op \in Edits /\ cr \in Resources
    BY <2>2, <2>3 DEF Requests, Pending, IInv
  <2>7. ~Refuses(cr, req[s].call) /\ c' = Effect(c, req[s].call)
    BY <2>1, <2>3, <2>6, StoreHandlers, RefusesContent
  <2>8. c' = Content(Effect(cr, req[s].call))
    BY <2>6, <2>7, EffectContent
  <2> QED
    BY <1>2, <2>3, <2>5, <2>7, <2>8 DEF Content, TakesEffect
<1>6. \/ UNCHANGED c \/ Store!Remake \/ \E s \in Slots : Store!Apply(s)
  BY <1>1 DEF StoreStep, Store!Next, Store!vars, Store!Submit, Store!Settle
<1> QED
  BY <1>3, <1>4, <1>5, <1>6

\* What each handler does to the two lists.
LEMMA ListsAfter ==
    ASSUME NEW c \in Resources, NEW q \in CallRows, q.op \in Edits
    PROVE  LET after == Effect(c, q) IN
           /\ q.op = "createExtractSource" =>
                 after.sources = c.sources \cup
                                    {[id |-> q.id, path |-> q.path, scheme |-> q.scheme]}
           /\ q.op = "updateExtractSource" =>
                 after.sources = {IF s.id = q.item
                                  THEN [s EXCEPT !.path = q.path, !.scheme = q.scheme]
                                  ELSE s : s \in c.sources}
           /\ q.op \notin {"createExtractSource", "updateExtractSource"} =>
                 after.sources \subseteq c.sources
           /\ q.op = "createExtractRule" =>
                 after.rules = c.rules \cup
                                  {[id |-> q.id, source |-> q.source, text |-> q.text,
                                    function |-> q.function]}
           /\ q.op = "updateExtractRule" =>
                 after.rules = {IF x.id = q.item
                                THEN [x EXCEPT !.text = q.text, !.function = q.function]
                                ELSE x : x \in c.rules}
           /\ q.op \notin {"createExtractRule", "updateExtractRule"} =>
                 after.rules \subseteq c.rules
           /\ q.op \in {"createExtractRule", "updateExtractRule"} =>
                 after.sources = c.sources
<1> USE DEF Resources
<1>1. CASE q.op \in SourceEdits
  BY <1>1 DEF Effect, SourceEdits, CreateExtractSource, UpdateExtractSource,
     DeleteExtractSource, Without
<1>2. CASE q.op \in RuleEdits
  BY <1>2 DEF Effect, RuleEdits, CreateExtractRule, UpdateExtractRule,
     DeleteExtractRule, Without
<1>3. CASE q.op \in ExtensionEdits
  BY <1>3 DEF Effect, ExtensionEdits, CreateExtension, UpdateExtension,
     DeleteExtension
<1>4. CASE q.op \in FunctionEdits
  BY <1>4 DEF Effect, FunctionEdits, CreateTransformFunction,
     UpdateTransformFunction, DeleteTransformFunction
<1> QED
  BY <1>1, <1>2, <1>3, <1>4 DEF Edits

LEMMA SourcesAfter ==
    ASSUME NEW c \in Resources, NEW q \in CallRows, q.op \in Edits, ~Refuses(c, q),
           \A x, y \in c.sources : x.id = y.id => x = y,
           \A x, y \in c.sources : x.path = y.path => x = y,
           \A x \in c.sources : x.id # q.id
    PROVE  LET sources == Effect(c, q).sources IN
           /\ \A x, y \in sources : x.id = y.id => x = y
           /\ \A x, y \in sources : x.path = y.path => x = y
           /\ \A y \in sources : y.id = q.id \/ \E x \in c.sources : x.id = y.id
<1> DEFINE sources == Effect(c, q).sources
<1>1. \A x \in c.sources : x \in SourceRows
  BY DEF Resources
<1>2. CASE q.op = "createExtractSource"
  <2> DEFINE new == [id |-> q.id, path |-> q.path, scheme |-> q.scheme]
  <2>1. sources = c.sources \cup {new}
    BY <1>2, ListsAfter
  <2>2. \A x \in c.sources : x.path # q.path
    BY <1>2 DEF Refuses, RefusesSourceEdit, PathTaken, SourceEdits
  <2>3. new.id = q.id /\ new.path = q.path
    OBVIOUS
  <2> HIDE DEF new, sources
  <2> QED
    BY <2>1, <2>2, <2>3 DEF sources
<1>3. CASE q.op = "updateExtractSource"
  <2> DEFINE Updated(x) == IF x.id = q.item
                           THEN [x EXCEPT !.path = q.path, !.scheme = q.scheme] ELSE x
  <2>1. sources = {Updated(x) : x \in c.sources}
    BY <1>3, ListsAfter
  <2>2. \/ ~PathTaken(c, q.path)
        \/ PathTaken([sources |-> With(c.sources, q.item)], q.path)
    BY <1>3 DEF Refuses, RefusesSourceEdit, SourceEdits
  <2>3. ASSUME NEW x \in c.sources
        PROVE  /\ Updated(x).id = x.id
               /\ Updated(x).path = IF x.id = q.item THEN q.path ELSE x.path
    <3>1. x \in SourceRows
      BY <1>1
    <3> QED
      BY <3>1 DEF SourceRows
  <2>4. ASSUME NEW x \in c.sources, x.path = q.path
        PROVE  x.id = q.item
    BY <2>2, <2>4 DEF PathTaken, With
  <2>5. ASSUME NEW x \in c.sources, NEW y \in c.sources,
               Updated(x).id = Updated(y).id \/ Updated(x).path = Updated(y).path
        PROVE  x = y
    BY <2>3, <2>4, <2>5
  <2>6. \A u \in sources : \E x \in c.sources : u = Updated(x)
    BY <2>1
  <2> HIDE DEF Updated, sources
  <2> QED
    BY <2>3, <2>5, <2>6 DEF sources
<1>4. CASE q.op \notin {"createExtractSource", "updateExtractSource"}
  BY <1>4, ListsAfter
<1> QED
  BY <1>2, <1>3, <1>4

LEMMA RulesAfter ==
    ASSUME NEW c \in Resources, NEW q \in CallRows, q.op \in Edits, ~Refuses(c, q),
           \A x, y \in c.rules : x.id = y.id => x.source = y.source,
           \A x \in c.rules : x.id # q.id,
           q.op = "updateExtractRule" =>
              \A x \in c.rules : x.id = q.item => x.source = q.source
    PROVE  LET after == Effect(c, q) IN
           /\ \A x, y \in after.rules : x.id = y.id => x.source = y.source
           /\ \A y \in after.rules :
                 \/ y.id = q.id
                 \/ \E x \in c.rules : x.id = y.id /\ x.source = y.source
           /\ \A y \in after.rules \ c.rules : RulePathFits(after, y)
<1> DEFINE after == Effect(c, q)
<1>1. \A x \in c.rules : x \in RuleRows
  BY DEF Resources
<1>2. q.op \in {"createExtractRule", "updateExtractRule"} =>
         /\ RulePathFits(c, q) /\ after.sources = c.sources
  BY ListsAfter DEF Refuses, RefusesRuleEdit, RuleEdits
<1>3. CASE q.op = "createExtractRule"
  <2> DEFINE new == [id |-> q.id, source |-> q.source, text |-> q.text,
                     function |-> q.function]
  <2>1. after.rules = c.rules \cup {new}
    BY <1>3, ListsAfter
  <2>2. new.id = q.id /\ new.source = q.source /\ new.text = q.text
    OBVIOUS
  <2> HIDE DEF new, after
  <2>3. RulePathFits(after, new)
    BY <1>2, <1>3, <2>2 DEF RulePathFits
  <2> QED
    BY <2>1, <2>2, <2>3 DEF after
<1>4. CASE q.op = "updateExtractRule"
  <2> DEFINE Updated(x) == IF x.id = q.item
                           THEN [x EXCEPT !.text = q.text, !.function = q.function] ELSE x
  <2>1. after.rules = {Updated(x) : x \in c.rules}
    BY <1>4, ListsAfter
  <2>2. ASSUME NEW x \in c.rules
        PROVE  /\ Updated(x).id = x.id /\ Updated(x).source = x.source
               /\ x.id = q.item => Updated(x).text = q.text
               /\ x.id # q.item => Updated(x) = x
    <3>1. x \in RuleRows
      BY <1>1
    <3> QED
      BY <3>1 DEF RuleRows
  <2>3. \A u \in after.rules : \E x \in c.rules : u = Updated(x)
    BY <2>1
  <2> HIDE DEF Updated, after
  <2>4. ASSUME NEW y \in after.rules \ c.rules
        PROVE  RulePathFits(after, y)
    <3>1. PICK x \in c.rules : y = Updated(x)
      BY <2>3
    <3>2. y.source = q.source /\ y.text = q.text
      BY <1>4, <2>2, <2>4, <3>1
    <3> QED
      BY <1>2, <1>4, <3>2 DEF RulePathFits
  <2> QED
    BY <2>2, <2>3, <2>4 DEF after
<1>5. CASE q.op \notin {"createExtractRule", "updateExtractRule"}
  <2>1. after.rules \subseteq c.rules
    BY <1>5, ListsAfter
  <2> HIDE DEF after
  <2> QED
    BY <2>1 DEF after
<1> QED
  BY <1>3, <1>4, <1>5

-----------------------------------------------------------------------------
(* The invariant.                                                          *)

LEMMA InitIdentified == Init => Identified
<1> SUFFICES ASSUME Init
             PROVE  Identified
  OBVIOUS
<1> DEFINE path == CHOOSE p \in Paths : TRUE
           source == [id |-> 3, path |-> path, scheme |-> "csv"]
           rule == [id |-> 4, source |-> 3, text |-> "column number", function |-> 6]
<1>1. \A s \in Slots : ~Pending(req[s])
  BY DEF Init, Pending, NoRequest, Live
<1>2. cr.sources \in {{}, {source}} /\ cr.rules \in {{}, {rule}}
  <2> HIDE DEF path
  <2>1. FilledCR.sources = {source} /\ FilledCR.rules = {rule}
    BY DEF FilledCR, NewCR, path
  <2>2. [NewCR(1, 1) EXCEPT !.id = TRUE].sources = {}
    BY DEF NewCR
  <2>3. [NewCR(1, 1) EXCEPT !.id = TRUE].rules = {}
    BY DEF NewCR
  <2> HIDE DEF source, rule
  <2> QED
    BY <2>1, <2>2, <2>3 DEF Init
<1>3. source.id = 3 /\ rule.id = 4 /\ asked = 0
  BY DEF Init
<1>4. \A i \in {3, 4} : Bounded(i)
  BY <1>3 DEF Bounded, LastFirstId
<1> HIDE DEF source, rule
<1> QED
  BY <1>1, <1>2, <1>3, <1>4 DEF Identified, SourceIds, RuleIds, BoundedIds, NewIds,
     RuleUpdates, PathsUnique

\* The form of an update of a rule shows the rule with its source.
LEMMA RuleForm ==
    ASSUME NEW q0
    PROVE  IInv /\ q0 \in CallRows /\ q0.op \in UI!Ops =>
              \A q \in Calls(q0) :
                 q.op = "updateExtractRule" =>
                    \E x \in cr.rules : q.item = x.id /\ q.source = x.source
<1> DEFINE OldRule(x, t) == [q0 EXCEPT !.item = x.id, !.source = x.source, !.text = t]
<1>1. ASSUME q0.op = "updateExtractRule"
      PROVE  Calls(q0) = {OldRule(x, t) :
                          x \in {y \in cr.rules : cr.uid = q0.uid}, t \in FormTexts}
  BY SMTT(20), <1>1 DEF Calls
<1> SUFFICES ASSUME IInv, q0 \in CallRows, q0.op \in UI!Ops,
                    NEW q \in Calls(q0), q.op = "updateExtractRule"
             PROVE  \E x \in cr.rules : q.item = x.id /\ q.source = x.source
  OBVIOUS
<1>2. q0.op = "updateExtractRule"
  BY CallsKeep DEF Same
<1>3. ASSUME NEW x \in cr.rules, NEW t \in FormTexts
      PROVE  OldRule(x, t).item = x.id /\ OldRule(x, t).source = x.source
  BY DEF CallRows
<1> HIDE DEF OldRule
<1>4. \E x \in cr.rules, t \in FormTexts : q = OldRule(x, t)
  BY <1>1, <1>2
<1> QED
  BY <1>3, <1>4

LEMMA AskingKeeps ==
    ASSUME IInv, Identified, NEW s \in Slots, Request(s)
    PROVE  Identified' /\ cr' = cr
<1>1. asked' = asked + 1 /\ asked \in Nat /\ cr' = cr /\ cr \in Resources
  BY DEF Request, IInv, OfResource
<1>2. PICK op \in scene.ops, uid \in {0} \cup 1 .. made :
         \E q \in Calls([NoCall EXCEPT !.op = op, !.uid = uid,
                                      !.id = LastFirstId + asked + 1]) :
            Becomes(s, Started(q))
  BY DEF Request, Becomes
<1> DEFINE q0 == [NoCall EXCEPT !.op = op, !.uid = uid, !.id = LastFirstId + asked + 1]
<1>3. q0 \in CallRows /\ q0.op \in UI!Ops /\ q0.id = LastFirstId + asked + 1
  <2>1. DOMAIN UI!Routes = UI!Ops
    BY DEF UI!Ops
  <2>2. op \in UI!Ops
    BY <2>1, FormsAssumption DEF IInv
  <2>3. LastFirstId + asked + 1 \in Nat /\ uid \in Nat /\ op \in UI!Ops \cup {"none"}
    BY <1>1, <2>2 DEF LastFirstId, IInv
  <2> QED
    BY <2>2, <2>3, NoRowsType DEF CallRows
<1> HIDE DEF q0
<1>4. PICK q \in Calls(q0) : Becomes(s, Started(q))
  BY <1>2 DEF q0
<1>5. q \in CallRows /\ q.id = LastFirstId + asked + 1
  BY <1>3, CallsKeep DEF Same
<1>6. q.op = "updateExtractRule" =>
         \E x \in cr.rules : q.item = x.id /\ q.source = x.source
  BY <1>3, RuleForm
<1>7. req'[s].call = q /\ \A t \in Slots \ {s} : req'[t] = req[t]
  BY <1>4 DEF Becomes, IInv, Started
<1>8. ASSUME NEW id, Bounded(id)
      PROVE  Bounded(id)' /\ id # q.id
  BY <1>1, <1>5, <1>8 DEF Bounded, LastFirstId
<1>9. Bounded(q.id)'
  BY <1>1, <1>5 DEF Bounded, LastFirstId
<1>10. \A t \in Slots \ {s} : Pending(req'[t]) <=> Pending(req[t])
  BY <1>7
<1>11. SourceIds' /\ RuleIds' /\ PathsUnique'
  BY <1>1 DEF Identified, SourceIds, RuleIds, PathsUnique
<1>12. BoundedIds'
  BY <1>1, <1>7, <1>8, <1>9, <1>10 DEF Identified, BoundedIds
<1>13. NewIds'
  BY <1>1, <1>7, <1>8, <1>10 DEF Identified, BoundedIds, NewIds
<1>14. RuleUpdates'
  <2>1. ASSUME NEW u \in Slots, Pending(req'[u]), req'[u].call.op = "updateExtractRule"
        PROVE  /\ Bounded(req'[u].call.item)
               /\ \A x \in cr.rules : x.id = req'[u].call.item => x.source = req'[u].call.source
               /\ \A t \in Slots : Pending(req'[t]) => req'[t].call.id # req'[u].call.item
    <3>1. CASE u # s
      BY <1>7, <1>8, <1>10, <2>1, <3>1 DEF Identified, RuleUpdates
    <3>2. CASE u = s
      <4>1. PICK x \in cr.rules : q.item = x.id /\ q.source = x.source
        BY <1>6, <1>7, <2>1, <3>2
      <4>2. Bounded(q.item)
        BY <4>1 DEF Identified, BoundedIds
      <4>3. \A t \in Slots \ {s} : Pending(req'[t]) => req'[t].call.id # q.item
        BY <1>7, <1>10, <4>1 DEF Identified, NewIds
      <4>4. q.id # q.item
        BY <1>8, <4>2
      <4>5. \A y \in cr.rules : y.id = q.item => y.source = q.source
        BY <4>1 DEF Identified, RuleIds
      <4> QED
        BY <1>7, <3>2, <4>2, <4>3, <4>4, <4>5
    <3> QED
      BY <3>1, <3>2
  <2> QED
    BY <1>1, <1>8, <2>1 DEF RuleUpdates
<1> QED
  BY <1>1, <1>11, <1>12, <1>13, <1>14 DEF Identified

LEMMA OthersKeep ==
    ASSUME IInv, Identified, [Next]_vars, \A s \in Slots : ~Request(s)
    PROVE  Identified' /\ Fit
<1>1. asked' = asked /\ \A t \in Slots : GoesOn(req[t], req'[t])
  BY OthersGoOn
<1>2. \A id : Bounded(id)' <=> Bounded(id)
  BY <1>1 DEF Bounded
<1>3. ASSUME NEW t \in Slots, Pending(req'[t])
      PROVE  Pending(req[t]) /\ req'[t].call = req[t].call
  BY <1>1, <1>3 DEF GoesOn, Pending
<1>4. \A s \in Slots : Pending(req'[s]) => Bounded(req'[s].call.id)
  BY <1>3 DEF Identified, BoundedIds
\* What holds of the lists after the step is enough.
<1>5. ASSUME SourceIds', RuleIds', PathsUnique',
             \A x \in cr'.sources : /\ Bounded(x.id)
                                    /\ \A s \in Slots : Pending(req'[s]) => x.id # req'[s].call.id,
             \A x \in cr'.rules :
                /\ Bounded(x.id)
                /\ \A s \in Slots : Pending(req'[s]) =>
                      /\ x.id # req'[s].call.id
                      /\ req'[s].call.op = "updateExtractRule" /\ x.id = req'[s].call.item
                            => x.source = req'[s].call.source
      PROVE  Identified'
  <2>1. BoundedIds'
    BY <1>2, <1>4, <1>5 DEF BoundedIds
  <2>2. NewIds'
    BY <1>3, <1>5 DEF Identified, NewIds
  <2>3. RuleUpdates'
    BY <1>2, <1>3, <1>5 DEF Identified, RuleUpdates
  <2> QED
    BY <1>5, <2>1, <2>2, <2>3 DEF Identified
<1>6. CASE SameLists
  <2> USE <1>6 DEF SameLists
  <2>1. SourceIds' /\ RuleIds' /\ PathsUnique' /\ Fit
    BY <1>6 DEF Identified, SourceIds, RuleIds, PathsUnique, Fit
  <2>2. \A x \in cr'.sources :
           /\ Bounded(x.id)
           /\ \A s \in Slots : Pending(req'[s]) => x.id # req'[s].call.id
    BY <1>3, <1>6 DEF Identified, BoundedIds, NewIds
  <2>3. \A x \in cr'.rules :
           /\ Bounded(x.id)
           /\ \A s \in Slots : Pending(req'[s]) =>
                 /\ x.id # req'[s].call.id
                 /\ req'[s].call.op = "updateExtractRule" /\ x.id = req'[s].call.item
                       => x.source = req'[s].call.source
    BY <1>3, <1>6 DEF Identified, BoundedIds, NewIds, RuleUpdates
  <2> QED
    BY <1>5, <2>1, <2>2, <2>3
<1>7. CASE NoLists
  BY <1>5, <1>7 DEF NoLists, SourceIds, RuleIds, PathsUnique, Fit
<1>8. ASSUME NEW s \in Slots, TakesEffect(s)
      PROVE  Identified' /\ Fit
  <2> DEFINE q == req[s].call
             after == Effect(cr, q)
  <2>1. /\ cr \in Resources /\ q \in CallRows /\ q.op \in Edits /\ ~Refuses(cr, q)
        /\ Pending(req[s]) /\ ~Pending(req'[s])
        /\ cr'.sources = after.sources /\ cr'.rules = after.rules
    BY <1>8 DEF IInv, Requests, TakesEffect, Pending
  <2>2. /\ Bounded(q.id)
        /\ \A x \in cr.sources : x.id # q.id
        /\ \A x \in cr.rules : x.id # q.id
        /\ q.op = "updateExtractRule" =>
              \A x \in cr.rules : x.id = q.item => x.source = q.source
    BY <2>1 DEF Identified, BoundedIds, NewIds, RuleUpdates
  <2> HIDE DEF q
  <2>3. /\ \A x, y \in after.sources : x.id = y.id => x = y
        /\ \A x, y \in after.sources : x.path = y.path => x = y
        /\ \A y \in after.sources : y.id = q.id \/ \E x \in cr.sources : x.id = y.id
    BY <2>1, <2>2, SourcesAfter DEF Identified, SourceIds, PathsUnique
  <2>4. /\ \A x, y \in after.rules : x.id = y.id => x.source = y.source
        /\ \A y \in after.rules :
              \/ y.id = q.id
              \/ \E x \in cr.rules : x.id = y.id /\ x.source = y.source
        /\ \A y \in after.rules \ cr.rules : RulePathFits(after, y)
    BY <2>1, <2>2, RulesAfter DEF Identified, RuleIds
  <2> HIDE DEF after
  <2>5. ASSUME NEW t \in Slots, Pending(req'[t])
        PROVE  /\ t # s /\ Pending(req[t]) /\ req'[t].call = req[t].call
               /\ q.id # req[t].call.id
               /\ req[t].call.op = "updateExtractRule" => q.id # req[t].call.item
    <3>1. t # s /\ Pending(req[t]) /\ req'[t].call = req[t].call
      BY <1>3, <2>1, <2>5
    <3> QED
      BY <2>1, <3>1 DEF Identified, NewIds, RuleUpdates, q
  <2>6. SourceIds' /\ RuleIds' /\ PathsUnique'
    BY <2>1, <2>3, <2>4 DEF SourceIds, RuleIds, PathsUnique
  <2>7. \A x \in cr'.sources :
           /\ Bounded(x.id)
           /\ \A t \in Slots : Pending(req'[t]) => x.id # req'[t].call.id
    BY <2>1, <2>2, <2>3, <2>5 DEF Identified, BoundedIds, NewIds
  <2>8. \A x \in cr'.rules :
           /\ Bounded(x.id)
           /\ \A t \in Slots : Pending(req'[t]) =>
                 /\ x.id # req'[t].call.id
                 /\ req'[t].call.op = "updateExtractRule" /\ x.id = req'[t].call.item
                       => x.source = req'[t].call.source
    BY <2>1, <2>2, <2>4, <2>5 DEF Identified, BoundedIds, NewIds, RuleUpdates
  <2>9. Fit
    BY <2>1, <2>4 DEF Fit, RulePathFits
  <2> QED
    BY <1>5, <2>6, <2>7, <2>8, <2>9
<1> QED
  BY <1>6, <1>7, <1>8, Changes

LEMMA KeepsIdentified ==
    ASSUME IInv, Identified, [Next]_vars
    PROVE  Identified' /\ Fit
<1>1. CASE \E s \in Slots : Request(s)
  <2>1. Identified' /\ cr' = cr
    BY <1>1, AskingKeeps
  <2> QED
    BY <2>1 DEF Fit
<1> QED
  BY <1>1, OthersKeep

-----------------------------------------------------------------------------
(* The theorems on paths and rules.                                        *)

(***************************************************************************)
(* No two sources of a pipeline have one path: the check of                *)
(* CreateExtractSource and UpdateExtractSource on a copy holds of the      *)
(* resource that is written.                                               *)
(***************************************************************************)
THEOREM PathsStayUnique == Spec => []PathsUnique
<1>1. Init => Identified
  BY InitIdentified
<1>2. IInv /\ Identified /\ [Next]_vars => Identified'
  BY KeepsIdentified
<1>3. Identified => PathsUnique
  BY DEF Identified
<1> QED
  BY <1>1, <1>2, <1>3, Invariance, PTL DEF Spec

(***************************************************************************)
(* A rule that is written fits the scheme of its source: the check of      *)
(* validateRulePath on a copy holds of the resource that is written.       *)
(***************************************************************************)
THEOREM RulesWrittenFit == Spec => RulesFitWhenWritten
<1>1. Init => Identified
  BY InitIdentified
<1>2. IInv /\ Identified /\ [Next]_vars => Identified'
  BY KeepsIdentified
<1>3. IInv /\ Identified /\ [Next]_vars =>
         [\A x \in cr'.rules \ cr.rules : RulePathFits(cr', x)]_vars
  BY KeepsIdentified DEF Fit
<1> QED
  BY <1>1, <1>2, <1>3, Invariance, PTL DEF Spec, RulesFitWhenWritten

-----------------------------------------------------------------------------
(* Saves of a pipeline's users.  Before the grants are deleted all users   *)
(* are left to insert; after that the rows of the pipeline are those of    *)
(* the users that are not left, as long as no other request writes grants  *)
(* and no error is ignored.                                                *)

Deleting == <<"deleteGrants", "grantUsers">>
Inserting == <<"grantUsers">>

ErrorsCount == scene.db = "cockroachdb" \/ disturbed = 0
IsSave(r) == r.call.op = "updatePipelineUsers"
RowOf(q, user) == [by |-> q.id, user |-> user, pipeline |-> q.uid, access |-> q.access]
Inserted(rows, q, users) == {g \in rows : g.pipeline = q.uid} = {RowOf(q, u) : u \in users}

Begun(r) == r.status \in Live => /\ r.left \in {Deleting, Inserting}
                                 /\ r.left = Deleting => r.todo = r.call.users
Along(r, rows) ==
    /\ r.status \in Live /\ r.left = Inserting =>
          /\ r.todo \subseteq r.call.users
          /\ Inserted(rows, r.call, r.call.users \ r.todo)
    /\ r.status = "ok" => Inserted(rows, r.call, r.call.users)

SavesGoWell ==
    /\ disturbed \in Nat
    /\ \A s \in Slots : IsSave(req[s]) =>
          /\ Begun(req[s])
          /\ ErrorsCount /\ ~req[s].crossed => Along(req[s], grants)

LEMMA Disturbances ==
    ASSUME [Next]_vars
    PROVE  scene' = scene /\ disturbed' \in {disturbed, disturbed + 1}
<1>1. ASSUME NEW s \in Slots, Request(s) \/ Step(s)
      PROVE  scene' = scene /\ disturbed' \in {disturbed, disturbed + 1}
  BY <1>1 DEF Request, Step, StepFails, Pass, Rpc, LooksForProfile, LooksForGrant, Lookup,
     CreatePipeline, DeletePipeline, Rewrite, Edit, Put, GetExtractRule,
     GetPipelineStatus, LogIn, LogOut, FindsProfile, WritesProfile, ChangesGrant,
     DeletesGrants, GrantsUser, Bound, Disturb
<1>2. CASE OperatorNames \/ OperatorWrites \/ CtlEnds \/ CtlStarts \/ UIRestarts
  BY <1>2 DEF OperatorNames, OperatorWrites, CtlEnds, CtlStarts, UIRestarts, Bound, Disturb
<1> QED
  BY <1>1, <1>2 DEF Next, vars

LEMMA ErrorsStillCount ==
    ASSUME [Next]_vars, disturbed \in Nat
    PROVE  disturbed' \in Nat /\ (ErrorsCount' => ErrorsCount)
BY Disturbances DEF ErrorsCount

\* What a save is when it ends, and that it does only its own steps.
LEMMA SaveEnds ==
    ASSUME NEW r, Fields(r), IsSave(r), NEW status \in {"ok", "error"}, NEW n,
           n = Ended(r, status)
    PROVE  IsSave(n) => n.status = status /\ n.call = r.call /\ n.crossed = r.crossed
BY DEF Ended, NoRequest, NoCall, IsSave, Fields

LEMMA SaveSteps ==
    ASSUME NEW s \in Slots, IsSave(req[s]), Begun(req[s]), Step(s)
    PROVE  /\ req[s].status \in Live /\ req[s].left \in {Deleting, Inserting}
           /\ \/ StepFails(s)
              \/ req[s].left = Deleting /\ DeletesGrants(s)
              \/ req[s].left = Inserting /\ GrantsUser(s)
<1>1. req[s].status \in Live
  BY DEF Step, StepFails, Pass, Rpc, LooksForProfile, LooksForGrant, Lookup,
     CreatePipeline, DeletePipeline, Rewrite, Edit, Put, GetExtractRule,
     GetPipelineStatus, LogIn, LogOut, FindsProfile, WritesProfile, ChangesGrant,
     DeletesGrants, GrantsUser, At
<1>2. req[s].left \in {Deleting, Inserting}
  BY <1>1 DEF Begun
<1>3. /\ req[s].left = Deleting => Head(req[s].left) = "deleteGrants"
      /\ req[s].left = Inserting => Head(req[s].left) = "grantUsers"
  BY DEF Deleting, Inserting
<1>4. Head(req[s].left) \in {"deleteGrants", "grantUsers"}
  BY <1>2, <1>3
<1>5. CASE req[s].left = Deleting
  BY <1>1, <1>2, <1>3, <1>5 DEF Step, Pass, Rpc, LooksForProfile, LooksForGrant, Lookup,
     CreatePipeline, DeletePipeline, Rewrite, Edit, Put, GetExtractRule,
     GetPipelineStatus, LogIn, LogOut, FindsProfile, WritesProfile, ChangesGrant,
     GrantsUser, At
<1>6. CASE req[s].left = Inserting
  BY <1>1, <1>2, <1>3, <1>6 DEF Step, Pass, Rpc, LooksForProfile, LooksForGrant, Lookup,
     CreatePipeline, DeletePipeline, Rewrite, Edit, Put, GetExtractRule,
     GetPipelineStatus, LogIn, LogOut, FindsProfile, WritesProfile, ChangesGrant,
     DeletesGrants, At
<1> QED
  BY <1>1, <1>2, <1>5, <1>6

\* A save that another step finds is as it was, with the same grants, or crossed.
Left(t) == \/ req'[t] = req[t] /\ grants' = grants
           \/ req'[t] = [req[t] EXCEPT !.crossed = TRUE]

LEMMA NotInCtl ==
    ASSUME NEW t \in Slots, IsSave(req[t]), Begun(req[t])
    PROVE  ~InCtl(t)
<1>1. /\ req[t].left = Deleting => Head(req[t].left) = "deleteGrants"
      /\ req[t].left = Inserting => Head(req[t].left) = "grantUsers"
  BY DEF Deleting, Inserting
<1> QED
  BY <1>1 DEF InCtl, At, Begun

LEMMA OthersLeave ==
    ASSUME IInv, NEW s \in Slots, Step(s), NEW t \in Slots, t # s,
           IsSave(req[t]), Begun(req[t])
    PROVE  Left(t)
<1>1. ASSUME NEW b, Becomes(s, b)
      PROVE  req'[t] = req[t]
  BY <1>1 DEF Becomes, IInv
<1>2. ASSUME Goes(s) \/ Fails(s)
      PROVE  req'[t] = req[t]
  BY <1>1, <1>2 DEF Goes, Fails
<1>3. ASSUME NEW rows, NEW b, Grants(s, rows, b)
      PROVE  Left(t)
  BY <1>3 DEF Grants, Left, IsSave
<1>4. CtlLost({s}) => req'[t] = req[t]
  BY NotInCtl DEF CtlLost
<1>5. CASE ChangesGrant(s) \/ DeletesGrants(s) \/ GrantsUser(s)
  <2>1. \/ (Goes(s) \/ Fails(s)) /\ grants' = grants
        \/ \E rows, b : Grants(s, rows, b)
        \/ grants' = grants /\ \E b : Becomes(s, b)
    BY <1>5 DEF ChangesGrant, DeletesGrants, GrantsUser
  <2> QED
    BY <1>1, <1>2, <1>3, <2>1 DEF Left
<1>6. CASE ~(ChangesGrant(s) \/ DeletesGrants(s) \/ GrantsUser(s))
  <2>1. grants' = grants
    BY <1>6 DEF Step, StepFails, Pass, Rpc, LooksForProfile, LooksForGrant, Lookup,
       CreatePipeline, DeletePipeline, Rewrite, Edit, Put, GetExtractRule,
       GetPipelineStatus, LogIn, LogOut, FindsProfile, WritesProfile, OfUI, tables
  <2>2. \/ Goes(s) \/ Fails(s) \/ CtlLost({s}) \/ \E b : Becomes(s, b)
    BY <1>6 DEF Step, StepFails, Pass, Rpc, LooksForProfile, LooksForGrant, Lookup,
       CreatePipeline, DeletePipeline, Rewrite, Edit, Put, GetExtractRule,
       GetPipelineStatus, LogIn, LogOut, FindsProfile, WritesProfile
  <2> QED
    BY <1>1, <1>2, <1>4, <2>1, <2>2 DEF Left
<1> QED
  BY <1>5, <1>6

LEMMA LeftGoesWell ==
    ASSUME NEW t \in Slots, Fields(req[t]), IsSave(req[t]), Begun(req[t]), Left(t),
           ErrorsCount /\ ~req[t].crossed => Along(req[t], grants),
           ErrorsCount' => ErrorsCount
    PROVE  Begun(req'[t]) /\ (ErrorsCount' /\ ~req'[t].crossed => Along(req'[t], grants'))
<1>1. CASE req'[t] = req[t] /\ grants' = grants
  BY <1>1
<1>2. CASE req'[t] = [req[t] EXCEPT !.crossed = TRUE]
  <2>1. /\ req'[t].status = req[t].status /\ req'[t].left = req[t].left
        /\ req'[t].todo = req[t].todo /\ req'[t].call = req[t].call /\ req'[t].crossed
    BY <1>2 DEF Fields
  <2> QED
    BY <2>1 DEF Begun
<1> QED
  BY <1>1, <1>2 DEF Left

LEMMA SaveGoesWell ==
    ASSUME IInv, [Next]_vars, disturbed \in Nat,
           NEW s \in Slots, Step(s), IsSave(req[s]), Begun(req[s]),
           ErrorsCount /\ ~req[s].crossed => Along(req[s], grants), IsSave(req'[s])
    PROVE  Begun(req'[s]) /\ (ErrorsCount' /\ ~req'[s].crossed => Along(req'[s], grants'))
<1> DEFINE r == req[s]
           n == req'[s]
           q == r.call
<1>1. /\ r.status \in Live /\ r.left \in {Deleting, Inserting}
      /\ \/ StepFails(s)
         \/ r.left = Deleting /\ DeletesGrants(s)
         \/ r.left = Inserting /\ GrantsUser(s)
  BY SaveSteps
<1>2. Fields(r) /\ IsSave(r) /\ Begun(r)
  BY HasFields DEF IInv
<1>3. ErrorsCount' => ErrorsCount
  BY ErrorsStillCount
<1>4. ASSUME NEW b, Becomes(s, b)
      PROVE  n = b
  BY <1>4 DEF Becomes, IInv
<1>5. ASSUME NEW rows, NEW b, Grants(s, rows, b)
      PROVE  n = b /\ grants' = rows
  BY <1>5 DEF Grants
<1>6. Failed(r) = Ended(r, "error")
  BY <1>2 DEF Failed, IsSave
<1>7. CASE Fails(s)
  <2>1. n = Ended(r, "error")
    BY <1>4, <1>6, <1>7 DEF Fails
  <2>2. n.status = "error"
    BY <1>2, <2>1, SaveEnds
  <2> QED
    BY <2>2 DEF Begun, Along, Live
<1>8. ASSUME DeletesGrants(s), r.left = Deleting
      PROVE  Begun(n) /\ (ErrorsCount' /\ ~n.crossed => Along(n, grants'))
  <2>1. Len(r.left) = 2 /\ Tail(r.left) = Inserting /\ Inserting # Deleting
    BY <1>8 DEF Deleting, Inserting
  <2>2. Succeeded(r) = [r EXCEPT !.left = Inserting]
    <3>1. Succeeded(r) = [r EXCEPT !.left = Tail(@)]
      <4> HIDE DEF r
      <4> QED
        BY <2>1 DEF Succeeded
    <3> QED
      BY ONLY <2>1, <3>1
  <2>3. n = [r EXCEPT !.left = Inserting]
    BY <1>4, <1>5, <1>8, <2>2 DEF DeletesGrants, Goes
  <2>4. /\ n.left = Inserting /\ n.call = q /\ n.todo = q.users /\ n.status = r.status
    BY <1>1, <1>2, <1>8, <2>3 DEF Fields, Begun
  <2>5. Begun(n)
    BY <2>1, <2>4 DEF Begun
  <2>6. CASE grants' = DeleteAllUserPipelineAccess(grants, q.uid)
    <3>1. Inserted(grants', q, q.users \ n.todo)
      BY <2>4, <2>6 DEF Inserted, DeleteAllUserPipelineAccess
    <3>2. n.status # "ok"
      BY <1>1, <2>4 DEF Live
    <3> QED
      BY <2>4, <2>5, <3>1, <3>2 DEF Along
  <2>7. CASE IgnoresDeleteError(scene.db) /\ Disturb
    <3>1. ~ErrorsCount'
      BY <2>7, Disturbances DEF ErrorsCount, Disturb, IgnoresDeleteError
    <3> QED
      BY <2>5, <3>1
  <2> QED
    BY <1>5, <1>8, <2>6, <2>7 DEF DeletesGrants
<1>9. ASSUME GrantsUser(s), r.left = Inserting
      PROVE  Begun(n) /\ (ErrorsCount' /\ ~n.crossed => Along(n, grants'))
  <2>0. Inserting # Deleting /\ Len(r.left) = 1
    BY <1>9 DEF Inserting, Deleting
  <2>1. CASE r.todo = {} /\ Goes(s) /\ grants' = grants
    <3>1. PICK status \in {"ok", "error"} : n = Ended(r, status)
      BY <1>4, <2>0, <2>1 DEF Goes, Succeeded
    <3>2. n.status = status /\ n.call = q /\ n.crossed = r.crossed
      BY <1>2, <3>1, SaveEnds
    <3>3. Begun(n)
      BY <3>2 DEF Begun, Live
    <3>4. ASSUME ErrorsCount', ~n.crossed
          PROVE  Along(n, grants')
      <4>1. Inserted(grants, q, q.users \ r.todo)
        BY <1>1, <1>3, <1>9, <3>2, <3>4 DEF Along
      <4>2. q.users \ r.todo = q.users
        BY <2>1
      <4>3. Inserted(grants', q, q.users)
        BY <2>1, <4>1, <4>2
      <4> QED
        BY <3>2, <4>3 DEF Along, Live
    <3> QED
      BY <3>3, <3>4
  <2>2. ASSUME NEW user \in r.todo, n = [r EXCEPT !.todo = @ \ {user}]
        PROVE  /\ Begun(n) /\ n.status = r.status /\ n.left = r.left /\ n.call = q
               /\ n.crossed = r.crossed /\ n.todo = r.todo \ {user}
    <3>1. /\ n.status = r.status /\ n.left = r.left /\ n.call = q
          /\ n.crossed = r.crossed /\ n.todo = r.todo \ {user}
      BY <1>2, <2>2 DEF Fields
    <3> QED
      BY <1>9, <2>0, <3>1 DEF Begun
  <2>3. ASSUME NEW user \in r.todo,
               Grants(s, CreateUserPipelineAccess(grants, RowOf(q, user)),
                      [r EXCEPT !.todo = @ \ {user}])
        PROVE  Begun(n) /\ (ErrorsCount' /\ ~n.crossed => Along(n, grants'))
    <3>1. n = [r EXCEPT !.todo = @ \ {user}] /\ grants' = grants \cup {RowOf(q, user)}
      BY <1>5, <2>3 DEF CreateUserPipelineAccess
    <3>2. /\ Begun(n) /\ n.status = r.status /\ n.left = r.left /\ n.call = q
          /\ n.crossed = r.crossed /\ n.todo = r.todo \ {user}
      BY <2>2, <3>1
    <3>3. ASSUME ErrorsCount', ~n.crossed
          PROVE  Along(n, grants')
      <4>1. r.todo \subseteq q.users /\ Inserted(grants, q, q.users \ r.todo)
        BY <1>1, <1>3, <1>9, <3>2, <3>3 DEF Along
      <4>2. q.users \ n.todo = (q.users \ r.todo) \cup {user} /\ n.todo \subseteq q.users
        BY <2>3, <3>2, <4>1
      <4>3. {RowOf(q, u) : u \in (q.users \ r.todo) \cup {user}}
              = {RowOf(q, u) : u \in q.users \ r.todo} \cup {RowOf(q, user)}
        OBVIOUS
      <4>4. {g \in grants' : g.pipeline = q.uid}
              = {g \in grants : g.pipeline = q.uid} \cup {RowOf(q, user)}
        <5>1. RowOf(q, user).pipeline = q.uid
          BY DEF RowOf
        <5> QED
          BY <3>1, <5>1
      <4>5. Inserted(grants', q, q.users \ n.todo)
        BY <4>1, <4>2, <4>3, <4>4 DEF Inserted
      <4>6. n.status # "ok"
        BY <1>1, <3>2 DEF Live
      <4> QED
        BY <3>2, <4>2, <4>5, <4>6 DEF Along
    <3> QED
      BY <3>2, <3>3
  <2>4. ASSUME NEW user \in r.todo, Becomes(s, [r EXCEPT !.todo = @ \ {user}]),
               IgnoresInsertError(scene.db), Disturb
        PROVE  Begun(n) /\ (ErrorsCount' /\ ~n.crossed => Along(n, grants'))
    <3>1. Begun(n)
      BY <1>4, <2>2, <2>4
    <3>2. ~ErrorsCount'
      BY <2>4, Disturbances DEF ErrorsCount, Disturb, IgnoresInsertError
    <3> QED
      BY <3>1, <3>2
  <2>5. \/ r.todo = {} /\ Goes(s) /\ grants' = grants
        \/ Fails(s)
        \/ \E user \in r.todo : Grants(s, CreateUserPipelineAccess(grants, RowOf(q, user)),
                                       [r EXCEPT !.todo = @ \ {user}])
        \/ \E user \in r.todo : /\ Becomes(s, [r EXCEPT !.todo = @ \ {user}])
                                /\ IgnoresInsertError(scene.db) /\ Disturb
    BY <1>9 DEF GrantsUser, RowOf
  <2> HIDE DEF r, n, q
  <2> QED
    BY <1>7, <2>1, <2>3, <2>4, <2>5 DEF r, n, q
<1> HIDE DEF r, n, q
<1> QED
  BY <1>1, <1>7, <1>8, <1>9 DEF StepFails, r, n, q

LEMMA KeepsSaves ==
    ASSUME IInv, SavesGoWell, [Next]_vars
    PROVE  SavesGoWell'
<1>1. disturbed \in Nat /\ disturbed' \in Nat /\ (ErrorsCount' => ErrorsCount)
  BY ErrorsStillCount DEF SavesGoWell
<1>2. ASSUME NEW t \in Slots, IsSave(req'[t])
      PROVE  /\ Begun(req'[t])
             /\ ErrorsCount' /\ ~req'[t].crossed => Along(req'[t], grants')
  <2> DEFINE Well == /\ Begun(req'[t])
                     /\ ErrorsCount' /\ ~req'[t].crossed => Along(req'[t], grants')
  <2>1. ASSUME IsSave(req[t]), Left(t)
        PROVE  Well
    <3>1. /\ Fields(req[t]) /\ Begun(req[t])
          /\ ErrorsCount /\ ~req[t].crossed => Along(req[t], grants)
      BY <2>1, HasFields DEF IInv, SavesGoWell
    <3> QED
      BY <1>1, <2>1, <3>1, LeftGoesWell
  <2> HIDE DEF Well
  <2>2. ~IsSave(NoRequest)
    BY DEF IsSave, NoRequest, NoCall
  <2>3. ASSUME \A s \in Slots : ~Request(s)
        PROVE  IsSave(req[t]) /\ Begun(req[t])
    <3>1. req'[t].call \in {req[t].call, NoCall}
      BY <2>3, OthersGoOn DEF GoesOn
    <3>2. NoCall.op # "updatePipelineUsers"
      BY DEF NoCall
    <3> QED
      BY <1>2, <3>1, <3>2 DEF IsSave, SavesGoWell
  <2>4. CASE \E s \in Slots : Request(s)
    <3>1. PICK s \in Slots : Request(s)
      BY <2>4
    <3>2. CASE t # s
      BY <1>2, <2>1, <3>1, <3>2 DEF Request, IInv, Left, tables, Well
    <3>3. CASE t = s
      <4>1. PICK q : req'[t] = Started(q)
        BY <3>1, <3>3 DEF Request, IInv
      <4>2. /\ req'[t].call = q /\ req'[t].left = UI!Routes[q.op]
            /\ req'[t].todo = q.users /\ req'[t].status = "running"
        BY <4>1 DEF Started
      <4>3. q.op = "updatePipelineUsers"
        BY <1>2, <4>2 DEF IsSave
      <4>4. UI!Routes["updatePipelineUsers"] = Deleting
        BY DEF UI!Routes, UI!UpdatePipelineUsers, Deleting
      <4>5. Deleting # Inserting
        BY DEF Deleting, Inserting
      <4>6. Begun(req'[t]) /\ Along(req'[t], grants')
        BY <4>2, <4>3, <4>4, <4>5 DEF Begun, Along
      <4> QED
        BY <4>6 DEF Well
    <3> QED
      BY <3>2, <3>3
  <2>5. CASE \E s \in Slots : Step(s) /\ ~\E u \in Slots : Request(u)
    <3>1. PICK s \in Slots : Step(s) /\ \A u \in Slots : ~Request(u)
      BY <2>5
    <3>2. IsSave(req[t]) /\ Begun(req[t])
      BY <2>3, <3>1
    <3>3. CASE t # s
      BY <2>1, <3>1, <3>2, <3>3, OthersLeave DEF Well
    <3>4. CASE t = s
      <4>1. ErrorsCount /\ ~req[t].crossed => Along(req[t], grants)
        BY <3>2 DEF SavesGoWell
      <4> QED
        BY <1>1, <1>2, <3>1, <3>2, <3>4, <4>1, SaveGoesWell DEF Well
    <3> QED
      BY <3>3, <3>4
  <2>6. CASE /\ \A s \in Slots : ~Request(s)
             /\ \/ OperatorNames \/ OperatorWrites \/ CtlEnds \/ CtlStarts \/ UIRestarts
                \/ UNCHANGED vars
    <3>1. IsSave(req[t]) /\ ~InCtl(t)
      BY <2>3, <2>6, NotInCtl
    <3>2. req'[t] = req[t] \/ req'[t] = NoRequest
      BY <2>6, <3>1 DEF OperatorNames, OperatorWrites, CtlEnds, CtlStarts, UIRestarts,
         CtlLost, vars
    <3>3. grants' = grants
      BY <2>6 DEF OperatorNames, OperatorWrites, CtlEnds, CtlStarts, UIRestarts, OfUI,
         tables, vars
    <3> QED
      BY <1>2, <2>1, <2>2, <3>1, <3>2, <3>3 DEF Left, Well
  <2> QED
    BY <2>4, <2>5, <2>6 DEF Next, Well
<1> QED
  BY <1>1, <1>2 DEF SavesGoWell

(***************************************************************************)
(* A save of a pipeline's users that is answered without error has put one *)
(* grant for each selected user in the place of all others of the          *)
(* pipeline, when no other request changed grants meanwhile and no error   *)
(* was ignored (UpdatePipelineUsers).                                      *)
(***************************************************************************)
THEOREM UsersSaved == Spec => []SavedUsers
<1>1. Init => SavesGoWell
  <2> SUFFICES ASSUME Init
               PROVE  SavesGoWell
    OBVIOUS
  <2>1. \A s \in Slots : ~IsSave(req[s])
    BY DEF Init, NoRequest, NoCall, IsSave
  <2> QED
    BY <2>1 DEF Init, SavesGoWell
<1>2. IInv /\ SavesGoWell /\ [Next]_vars => SavesGoWell'
  BY KeepsSaves
<1>3. SavesGoWell => SavedUsers
  BY DEF SavesGoWell, SavedUsers, IsSave, ErrorsCount, Along, Inserted, RowOf
<1> QED
  BY <1>1, <1>2, <1>3, Invariance, PTL DEF Spec

-----------------------------------------------------------------------------
(* Types and ids.  The number of a request is greater than the first ids,  *)
(* and an item or a profile has the number of the request that made it.    *)

Later(id) == id \in LastFirstId + 1 .. LastFirstId + asked
Makes(r) == r.status \in Live /\ r.call.op = "userAdmin"
CallIds ==
    \A s \in Slots : req[s].status \in Live =>
       /\ Later(req[s].call.id)
       /\ \A t \in Slots \ {s} : req[t].status \in Live => req[t].call.id # req[s].call.id

OneEach(items) == \A x, y \in items : x.id = y.id => x = y
NoneHas(items, id) == \A x \in items : x.id # id
WithIds(items) == \A x \in items : x.id \in 1 .. LastFirstId + asked
NumberedItems(items) ==
    /\ OneEach(items) /\ WithIds(items)
    /\ \A s \in Slots : Pending(req[s]) => NoneHas(items, req[s].call.id)
ItemsNumbered ==
    /\ NumberedItems(cr.sources) /\ NumberedItems(cr.rules)
    /\ NumberedItems(cr.extensions) /\ NumberedItems(cr.functions)
ProfilesNumbered ==
    /\ OneEach(profiles) /\ WithIds(profiles)
    /\ \A s \in Slots : Makes(req[s]) => NoneHas(profiles, req[s].call.id)

CallsFit ==
    \A s \in Slots : req[s].status \in Live =>
       /\ req[s].call.op \notin OfNoPipeline => req[s].call.uid \in 1 .. made
       /\ req[s].call.op = "login" => req[s].call.email \in Emails
AccountsFit == current \in Emails \cup {""} /\ sessions \subseteq Emails
GrantRows == [by : Nat, user : Nat, pipeline : 1 .. made, access : Accesses]
GrantsFit == grants \subseteq GrantRows
WithinBounds ==
    /\ made \in 1 .. MaxUid /\ ctl \in 0 .. made
    /\ asked \in 0 .. scene.most /\ disturbed \in 0 .. MaxDisturbances

Typed == /\ CallIds /\ ItemsNumbered /\ ProfilesNumbered
         /\ CallsFit /\ AccountsFit /\ GrantsFit /\ WithinBounds


-----------------------------------------------------------------------------
(* Ids in a list that a handler, or an account request, has changed.       *)

\* What holds of the ids of a list after a step that may use id.
Follows(before, after, id) ==
    OneEach(before) /\ NoneHas(before, id) =>
       OneEach(after) /\ \A y \in after : y.id = id \/ \E x \in before : x.id = y.id

LEMMA AddedFollows ==
    ASSUME NEW before, NEW new, NEW after, after = before \cup {new}
    PROVE  Follows(before, after, new.id)
BY DEF Follows, OneEach, NoneHas

LEMMA ChangedFollows ==
    ASSUME NEW before, NEW f, NEW id, NEW after, after = {f[x] : x \in before},
           \A x \in before : f[x].id = x.id
    PROVE  Follows(before, after, id)
BY DEF Follows, OneEach, NoneHas

LEMMA KeptFollows ==
    ASSUME NEW before, NEW id, NEW after, after \subseteq before
    PROVE  Follows(before, after, id)
BY DEF Follows, OneEach, NoneHas

LEMMA SourcesFollow ==
    ASSUME NEW c \in Resources, NEW q \in CallRows, q.op \in Edits
    PROVE  Follows(c.sources, Effect(c, q).sources, q.id)
<1>1. CASE q.op = "createExtractSource"
  <2> DEFINE new == [id |-> q.id, path |-> q.path, scheme |-> q.scheme]
  <2>1. Effect(c, q).sources = c.sources \cup {new} /\ new.id = q.id
    BY <1>1, ListsAfter
  <2> HIDE DEF new
  <2> QED
    BY <2>1, AddedFollows
<1>2. CASE q.op = "updateExtractSource"
  <2> DEFINE Updated(x) == IF x.id = q.item
                           THEN [x EXCEPT !.path = q.path, !.scheme = q.scheme] ELSE x
             f == [x \in c.sources |-> Updated(x)]
  <2>0. Effect(c, q).sources = {Updated(x) : x \in c.sources}
    BY <1>2, ListsAfter
  <2>1. Effect(c, q).sources = {f[x] : x \in c.sources}
    <3> HIDE DEF Updated
    <3> QED
      BY <2>0
  <2>2. ASSUME NEW x \in c.sources
        PROVE  f[x].id = x.id
    <3>1. x \in SourceRows
      BY DEF Resources
    <3> QED
      BY <3>1 DEF SourceRows
  <2> HIDE DEF f, Updated
  <2> QED
    BY <2>1, <2>2, ChangedFollows
<1>3. CASE q.op \notin {"createExtractSource", "updateExtractSource"}
  BY <1>3, ListsAfter, KeptFollows
<1> QED
  BY <1>1, <1>2, <1>3

LEMMA RulesFollow ==
    ASSUME NEW c \in Resources, NEW q \in CallRows, q.op \in Edits
    PROVE  Follows(c.rules, Effect(c, q).rules, q.id)
<1>1. CASE q.op = "createExtractRule"
  <2> DEFINE new == [id |-> q.id, source |-> q.source, text |-> q.text,
                     function |-> q.function]
  <2>1. Effect(c, q).rules = c.rules \cup {new} /\ new.id = q.id
    BY <1>1, ListsAfter
  <2> HIDE DEF new
  <2> QED
    BY <2>1, AddedFollows
<1>2. CASE q.op = "updateExtractRule"
  <2> DEFINE Updated(x) == IF x.id = q.item
                           THEN [x EXCEPT !.text = q.text, !.function = q.function] ELSE x
             f == [x \in c.rules |-> Updated(x)]
  <2>0. Effect(c, q).rules = {Updated(x) : x \in c.rules}
    BY <1>2, ListsAfter
  <2>1. Effect(c, q).rules = {f[x] : x \in c.rules}
    <3> HIDE DEF Updated
    <3> QED
      BY <2>0
  <2>2. ASSUME NEW x \in c.rules
        PROVE  f[x].id = x.id
    <3>1. x \in RuleRows
      BY DEF Resources
    <3> QED
      BY <3>1 DEF RuleRows
  <2> HIDE DEF f, Updated
  <2> QED
    BY <2>1, <2>2, ChangedFollows
<1>3. CASE q.op \notin {"createExtractRule", "updateExtractRule"}
  BY <1>3, ListsAfter, KeptFollows
<1> QED
  BY <1>1, <1>2, <1>3

\* What the handlers of extensions and of functions do to the other two lists.
LEMMA OtherListsAfter ==
    ASSUME NEW c \in Resources, NEW q \in CallRows, q.op \in Edits
    PROVE  LET after == Effect(c, q) IN
           /\ q.op = "createExtension" =>
                 after.extensions = c.extensions \cup
                                       {[id |-> q.id, source |-> q.source, edit |-> 0]}
           /\ q.op = "updateExtension" =>
                 after.extensions = {IF x.id = q.item THEN [x EXCEPT !.edit = q.id] ELSE x :
                                     x \in c.extensions}
           /\ q.op \notin {"createExtension", "updateExtension"} =>
                 after.extensions \subseteq c.extensions
           /\ q.op = "createTransformFunction" =>
                 after.functions = c.functions \cup {[id |-> q.id, edit |-> 0]}
           /\ q.op = "updateTransformFunction" =>
                 after.functions = {IF x.id = q.item THEN [x EXCEPT !.edit = q.id] ELSE x :
                                    x \in c.functions}
           /\ q.op \notin {"createTransformFunction", "updateTransformFunction"} =>
                 after.functions \subseteq c.functions
<1> USE DEF Resources
<1>1. CASE q.op \in SourceEdits
  BY <1>1 DEF Effect, SourceEdits, CreateExtractSource, UpdateExtractSource,
     DeleteExtractSource
<1>2. CASE q.op \in RuleEdits
  BY <1>2 DEF Effect, RuleEdits, CreateExtractRule, UpdateExtractRule, DeleteExtractRule
<1>3. CASE q.op \in ExtensionEdits
  BY <1>3 DEF Effect, ExtensionEdits, CreateExtension, UpdateExtension,
     DeleteExtension, Without
<1>4. CASE q.op \in FunctionEdits
  BY <1>4 DEF Effect, FunctionEdits, CreateTransformFunction,
     UpdateTransformFunction, DeleteTransformFunction, Without
<1> QED
  BY <1>1, <1>2, <1>3, <1>4 DEF Edits

LEMMA ExtensionsFollow ==
    ASSUME NEW c \in Resources, NEW q \in CallRows, q.op \in Edits
    PROVE  Follows(c.extensions, Effect(c, q).extensions, q.id)
<1>1. CASE q.op = "createExtension"
  <2> DEFINE new == [id |-> q.id, source |-> q.source, edit |-> 0]
  <2>1. Effect(c, q).extensions = c.extensions \cup {new} /\ new.id = q.id
    BY <1>1, OtherListsAfter
  <2> HIDE DEF new
  <2> QED
    BY <2>1, AddedFollows
<1>2. CASE q.op = "updateExtension"
  <2> DEFINE Updated(x) == IF x.id = q.item
                           THEN [x EXCEPT !.edit = q.id] ELSE x
             f == [x \in c.extensions |-> Updated(x)]
  <2>0. Effect(c, q).extensions = {Updated(x) : x \in c.extensions}
    BY <1>2, OtherListsAfter
  <2>1. Effect(c, q).extensions = {f[x] : x \in c.extensions}
    <3> HIDE DEF Updated
    <3> QED
      BY <2>0
  <2>2. ASSUME NEW x \in c.extensions
        PROVE  f[x].id = x.id
    <3>1. x \in ExtensionRows
      BY DEF Resources
    <3> QED
      BY <3>1 DEF ExtensionRows
  <2> HIDE DEF f, Updated
  <2> QED
    BY <2>1, <2>2, ChangedFollows
<1>3. CASE q.op \notin {"createExtension", "updateExtension"}
  BY <1>3, OtherListsAfter, KeptFollows
<1> QED
  BY <1>1, <1>2, <1>3

LEMMA FunctionsFollow ==
    ASSUME NEW c \in Resources, NEW q \in CallRows, q.op \in Edits
    PROVE  Follows(c.functions, Effect(c, q).functions, q.id)
<1>1. CASE q.op = "createTransformFunction"
  <2> DEFINE new == [id |-> q.id, edit |-> 0]
  <2>1. Effect(c, q).functions = c.functions \cup {new} /\ new.id = q.id
    BY <1>1, OtherListsAfter
  <2> HIDE DEF new
  <2> QED
    BY <2>1, AddedFollows
<1>2. CASE q.op = "updateTransformFunction"
  <2> DEFINE Updated(x) == IF x.id = q.item
                           THEN [x EXCEPT !.edit = q.id] ELSE x
             f == [x \in c.functions |-> Updated(x)]
  <2>0. Effect(c, q).functions = {Updated(x) : x \in c.functions}
    BY <1>2, OtherListsAfter
  <2>1. Effect(c, q).functions = {f[x] : x \in c.functions}
    <3> HIDE DEF Updated
    <3> QED
      BY <2>0
  <2>2. ASSUME NEW x \in c.functions
        PROVE  f[x].id = x.id
    <3>1. x \in FunctionRows
      BY DEF Resources
    <3> QED
      BY <3>1 DEF FunctionRows
  <2> HIDE DEF f, Updated
  <2> QED
    BY <2>1, <2>2, ChangedFollows
<1>3. CASE q.op \notin {"createTransformFunction", "updateTransformFunction"}
  BY <1>3, OtherListsAfter, KeptFollows
<1> QED
  BY <1>1, <1>2, <1>3

-----------------------------------------------------------------------------
(* A new request.                                                          *)

\* Its number is the next one, and its form is of what is there.
LEMMA NewCall ==
    ASSUME IInv, NEW s \in Slots, Request(s)
    PROVE  \E q \in CallRows :
              /\ q.id = LastFirstId + asked + 1
              /\ q.op \notin OfNoPipeline => q.uid \in 1 .. made
              /\ q.op = "login" => q.email \in Emails
              /\ req' = [req EXCEPT ![s] = Started(q)]
<1>0. PICK op \in scene.ops :
         \E uid \in IF op \in OfNoPipeline THEN {0} ELSE 1 .. made :
            \E q \in Calls([NoCall EXCEPT !.op = op, !.uid = uid,
                                         !.id = LastFirstId + asked + 1]) :
               req' = [req EXCEPT ![s] = Started(q)]
  BY DEF Request
<1>1. PICK uid \in IF op \in OfNoPipeline THEN {0} ELSE 1 .. made :
         \E q \in Calls([NoCall EXCEPT !.op = op, !.uid = uid,
                                      !.id = LastFirstId + asked + 1]) :
            req' = [req EXCEPT ![s] = Started(q)]
  BY <1>0
<1> DEFINE q0 == [NoCall EXCEPT !.op = op, !.uid = uid, !.id = LastFirstId + asked + 1]
<1>2. /\ q0 \in CallRows /\ q0.op = op /\ q0.uid = uid /\ op \in UI!Ops
      /\ q0.id = LastFirstId + asked + 1
  <2>1. DOMAIN UI!Routes = UI!Ops
    BY DEF UI!Ops
  <2>2. op \in UI!Ops
    BY <2>1, FormsAssumption DEF IInv
  <2>3. LastFirstId + asked + 1 \in Nat /\ uid \in Nat /\ op \in UI!Ops \cup {"none"}
    BY <2>2 DEF LastFirstId, IInv
  <2> QED
    BY <2>2, <2>3, NoRowsType DEF CallRows
<1> HIDE DEF q0
<1>3. PICK q \in Calls(q0) : req' = [req EXCEPT ![s] = Started(q)]
  BY <1>1 DEF q0
<1>4. q \in CallRows /\ q.op = op /\ q.uid = uid /\ q.id = LastFirstId + asked + 1
  BY <1>2, CallsKeep DEF Same
<1>5. ASSUME op = "login"
      PROVE  q.email \in Emails
  <2> DEFINE OfEmail(e) == [q0 EXCEPT !.email = e]
  <2>1. Calls(q0) = {OfEmail(e) : e \in Emails}
    BY SMTT(20), <1>2, <1>5 DEF Calls
  <2>2. \A e \in Emails : OfEmail(e).email = e
    BY <1>2 DEF CallRows
  <2> HIDE DEF OfEmail
  <2> QED
    BY <2>1, <2>2
<1> QED
  BY <1>1, <1>3, <1>4, <1>5

LEMMA AskingTyped ==
    ASSUME IInv, Typed, NEW s \in Slots, Request(s)
    PROVE  Typed'
<1>1. PICK q \in CallRows :
         /\ q.id = LastFirstId + asked + 1
         /\ q.op \notin OfNoPipeline => q.uid \in 1 .. made
         /\ q.op = "login" => q.email \in Emails
         /\ req' = [req EXCEPT ![s] = Started(q)]
  BY NewCall
<1>2. /\ asked' = asked + 1 /\ asked \in Nat /\ asked < scene.most /\ scene \in Scenes
      /\ UNCHANGED <<scene, cr, ctl, profiles, grants, current, sessions, made, disturbed>>
  BY DEF Request, IInv, tables, accounts
<1>3. /\ req'[s].call = q /\ ~req'[s].applied
      /\ \A t \in Slots \ {s} : req'[t] = req[t]
  BY <1>1 DEF IInv, Started
<1>4. /\ Later(q.id)'
      /\ \A id : Later(id) => Later(id)' /\ id # q.id
      /\ \A id : id \in 1 .. LastFirstId + asked =>
                    id \in 1 .. LastFirstId + asked' /\ id # q.id
  BY <1>1, <1>2 DEF Later, LastFirstId
<1>5. CallIds'
  BY <1>3, <1>4 DEF Typed, CallIds
<1>6. ASSUME NEW items, NumberedItems(items)
      PROVE  /\ OneEach(items) /\ (\A x \in items : x.id \in 1 .. LastFirstId + asked')
             /\ \A t \in Slots : Pending(req'[t]) => NoneHas(items, req'[t].call.id)
  <2>1. \A x \in items : x.id \in 1 .. LastFirstId + asked' /\ x.id # q.id
    BY <1>4, <1>6 DEF NumberedItems, WithIds
  <2>2. NoneHas(items, q.id)
    BY <2>1 DEF NoneHas
  <2>3. ASSUME NEW t \in Slots \ {s}, Pending(req'[t])
        PROVE  NoneHas(items, req'[t].call.id)
    BY <1>3, <1>6, <2>3 DEF NumberedItems
  <2> QED
    BY <1>3, <1>6, <2>1, <2>2, <2>3 DEF NumberedItems
<1>7. ItemsNumbered'
  <2>1. /\ NumberedItems(cr.sources) /\ NumberedItems(cr.rules)
        /\ NumberedItems(cr.extensions) /\ NumberedItems(cr.functions) /\ cr' = cr
    BY <1>2 DEF Typed, ItemsNumbered
  <2>2. NumberedItems(cr.sources)' /\ NumberedItems(cr.rules)'
    BY <1>6, <2>1 DEF NumberedItems, OneEach, WithIds, NoneHas
  <2>3. NumberedItems(cr.extensions)' /\ NumberedItems(cr.functions)'
    BY <1>6, <2>1 DEF NumberedItems, OneEach, WithIds, NoneHas
  <2> QED
    BY <2>2, <2>3 DEF ItemsNumbered
<1>8. ProfilesNumbered'
  <2>1. \A x \in profiles : x.id \in 1 .. LastFirstId + asked' /\ x.id # q.id
    BY <1>4 DEF Typed, ProfilesNumbered, WithIds
  <2>2. ASSUME NEW t \in Slots, Makes(req'[t])
        PROVE  NoneHas(profiles, req'[t].call.id)
    <3>1. CASE t = s
      BY <1>3, <2>1, <3>1 DEF NoneHas
    <3>2. CASE t # s
      BY <1>3, <2>2, <3>2 DEF Typed, ProfilesNumbered
    <3> QED
      BY <3>1, <3>2
  <2> QED
    BY <1>2, <2>1, <2>2 DEF Typed, ProfilesNumbered, OneEach, WithIds, NoneHas, Makes
<1>9. CallsFit'
  BY <1>1, <1>2, <1>3 DEF Typed, CallsFit
<1>10. AccountsFit' /\ GrantsFit'
  BY <1>2 DEF Typed, AccountsFit, GrantsFit, GrantRows
<1>11. WithinBounds'
  BY <1>2, BoundsAssumption DEF Typed, WithinBounds
<1> QED
  BY <1>5, <1>7, <1>8, <1>9, <1>10, <1>11 DEF Typed

-----------------------------------------------------------------------------
(* The other steps.  First which of them writes which variable.            *)

LEMMA Writers ==
    ASSUME [Next]_vars, \A s \in Slots : ~Request(s)
    PROVE  /\ \/ made' = made
              \/ made < MaxUid /\ made' = made + 1
           /\ ctl' \in {ctl, 0} \/ (CtlStarts /\ ctl' = cr.uid)
           /\ disturbed' = disturbed \/ Disturb
           /\ profiles' = profiles \/ UIRestarts \/ \E s \in Slots : WritesProfile(s)
           /\ \/ UNCHANGED <<current, sessions>> \/ UIRestarts
              \/ \E s \in Slots : LogIn(s) \/ LogOut(s)
           /\ \/ grants' = grants
              \/ \E s \in Slots : ChangesGrant(s) \/ DeletesGrants(s) \/ GrantsUser(s)
<1> USE DEF OfUI, OfResource, tables, accounts, CtlLost
<1>1. ASSUME NEW s \in Slots, Step(s)
      PROVE  /\ made' = made \/ (made < MaxUid /\ made' = made + 1)
             /\ ctl' \in {ctl, 0}
             /\ disturbed' = disturbed \/ Disturb
  BY <1>1 DEF Step, StepFails, Pass, Rpc, LooksForProfile, LooksForGrant, Lookup,
     CreatePipeline, DeletePipeline, Rewrite, Edit, Put, GetExtractRule,
     GetPipelineStatus, LogIn, LogOut, FindsProfile, WritesProfile, ChangesGrant,
     DeletesGrants, GrantsUser
<1>2. ASSUME NEW s \in Slots, Step(s)
      PROVE  /\ profiles' = profiles \/ WritesProfile(s)
             /\ UNCHANGED <<current, sessions>> \/ LogIn(s) \/ LogOut(s)
             /\ grants' = grants \/ ChangesGrant(s) \/ DeletesGrants(s) \/ GrantsUser(s)
  BY <1>2 DEF Step, StepFails, Pass, Rpc, LooksForProfile, LooksForGrant, Lookup,
     CreatePipeline, DeletePipeline, Rewrite, Edit, Put, GetExtractRule,
     GetPipelineStatus, LogIn, LogOut, FindsProfile, WritesProfile, ChangesGrant,
     DeletesGrants, GrantsUser
<1>3. CASE OperatorNames \/ OperatorWrites \/ CtlEnds \/ CtlStarts
  BY <1>3 DEF OperatorNames, OperatorWrites, CtlEnds, CtlStarts
<1>4. CASE UIRestarts
  BY <1>4 DEF UIRestarts
<1>5. CASE UNCHANGED vars
  BY <1>5 DEF vars
<1> QED
  BY <1>1, <1>2, <1>3, <1>4, <1>5 DEF Next

LEMMA OthersWithinBounds ==
    ASSUME IInv, Typed, [Next]_vars, \A s \in Slots : ~Request(s)
    PROVE  WithinBounds' /\ made <= made'
<1>1. asked' = asked /\ scene' = scene
  BY OthersGoOn, Disturbances
<1>2. made' \in 1 .. MaxUid /\ made <= made'
  BY Writers, BoundsAssumption DEF Typed, WithinBounds
<1>3. ctl' \in 0 .. made'
  <2>1. cr.uid \in {0, made}
    BY DEF IInv
  <2> QED
    BY <1>2, <2>1, Writers DEF Typed, WithinBounds
<1>4. disturbed' \in 0 .. MaxDisturbances
  BY Writers, BoundsAssumption DEF Typed, WithinBounds, Disturb
<1> QED
  BY <1>1, <1>2, <1>3, <1>4 DEF Typed, WithinBounds

LEMMA OthersCalls ==
    ASSUME IInv, Typed, [Next]_vars, \A s \in Slots : ~Request(s)
    PROVE  CallIds' /\ CallsFit'
<1>1. asked' = asked /\ \A t \in Slots : GoesOn(req[t], req'[t])
  BY OthersGoOn
<1>2. made <= made' /\ made \in Nat /\ made' \in Nat
  BY OthersWithinBounds DEF Typed, WithinBounds
<1>3. ASSUME NEW t \in Slots, req'[t].status \in Live
      PROVE  req[t].status \in Live /\ req'[t].call = req[t].call
  BY <1>1, <1>3 DEF GoesOn
<1>4. CallIds'
  BY <1>1, <1>3 DEF Typed, CallIds, Later
<1>5. CallsFit'
  BY <1>2, <1>3 DEF Typed, CallsFit
<1> QED
  BY <1>4, <1>5

\* A list that follows, by the call of a request that is no longer pending.
LEMMA FollowsNumbered ==
    ASSUME IInv, Typed, [Next]_vars, \A s \in Slots : ~Request(s),
           NEW items, NumberedItems(items), NEW after,
           NEW s \in Slots, Pending(req[s]), ~Pending(req'[s]),
           Follows(items, after, req[s].call.id)
    PROVE  /\ OneEach(after) /\ \A x \in after : x.id \in 1 .. LastFirstId + asked'
           /\ \A t \in Slots : Pending(req'[t]) => NoneHas(after, req'[t].call.id)
<1>1. asked' = asked /\ \A t \in Slots : GoesOn(req[t], req'[t])
  BY OthersGoOn
<1>2. /\ OneEach(after)
      /\ \A y \in after : y.id = req[s].call.id \/ \E x \in items : x.id = y.id
  BY DEF NumberedItems, Follows
<1>3. req[s].call.id \in 1 .. LastFirstId + asked
  BY DEF Typed, CallIds, Later, Pending, LastFirstId, IInv
<1>4. \A x \in after : x.id \in 1 .. LastFirstId + asked'
  BY <1>1, <1>2, <1>3 DEF NumberedItems, WithIds
<1>5. ASSUME NEW t \in Slots, Pending(req'[t])
      PROVE  NoneHas(after, req'[t].call.id)
  <2>1. t # s /\ Pending(req[t]) /\ req'[t].call = req[t].call
    BY <1>1, <1>5 DEF GoesOn, Pending
  <2>2. req[t].call.id # req[s].call.id
    BY <2>1 DEF Typed, CallIds, Pending
  <2> QED
    BY <1>2, <2>1, <2>2 DEF NumberedItems, NoneHas
<1> QED
  BY <1>2, <1>4, <1>5

LEMMA OthersItems ==
    ASSUME IInv, Typed, [Next]_vars, \A s \in Slots : ~Request(s)
    PROVE  ItemsNumbered'
<1>1. asked' = asked /\ \A t \in Slots : GoesOn(req[t], req'[t])
  BY OthersGoOn
<1>2. \A t \in Slots : Pending(req'[t]) => Pending(req[t]) /\ req'[t].call = req[t].call
  BY <1>1 DEF GoesOn, Pending
<1>3. ItemsNumbered
  BY DEF Typed
<1>4. CASE SameLists
  <2>1. NumberedItems(cr.sources)' /\ NumberedItems(cr.rules)'
    BY <1>1, <1>2, <1>3, <1>4 DEF ItemsNumbered, NumberedItems, SameLists, OneEach, WithIds,
       NoneHas
  <2>2. NumberedItems(cr.extensions)' /\ NumberedItems(cr.functions)'
    BY <1>1, <1>2, <1>3, <1>4 DEF ItemsNumbered, NumberedItems, SameLists, OneEach, WithIds,
       NoneHas
  <2> QED
    BY <2>1, <2>2 DEF ItemsNumbered
<1>5. CASE NoLists
  BY <1>5 DEF ItemsNumbered, NumberedItems, NoLists, OneEach, WithIds, NoneHas
<1>6. ASSUME NEW s \in Slots, TakesEffect(s)
      PROVE  ItemsNumbered'
  <2> DEFINE q == req[s].call
             after == Effect(cr, q)
  <2>1. /\ cr \in Resources /\ q \in CallRows /\ q.op \in Edits
        /\ Pending(req[s]) /\ ~Pending(req'[s])
        /\ cr'.sources = after.sources /\ cr'.rules = after.rules
        /\ cr'.extensions = after.extensions /\ cr'.functions = after.functions
    BY <1>6 DEF TakesEffect, IInv, Requests, Pending
  <2>2. /\ Follows(cr.sources, cr'.sources, q.id) /\ Follows(cr.rules, cr'.rules, q.id)
        /\ Follows(cr.extensions, cr'.extensions, q.id)
        /\ Follows(cr.functions, cr'.functions, q.id)
    BY <2>1, SourcesFollow, RulesFollow, ExtensionsFollow, FunctionsFollow
  <2> HIDE DEF after
  <2>3. NumberedItems(cr.sources)'
    BY <1>3, <2>1, <2>2, FollowsNumbered DEF ItemsNumbered, NumberedItems, WithIds, OneEach,
       NoneHas
  <2>4. NumberedItems(cr.rules)'
    BY <1>3, <2>1, <2>2, FollowsNumbered DEF ItemsNumbered, NumberedItems, WithIds, OneEach,
       NoneHas
  <2>5. NumberedItems(cr.extensions)'
    BY <1>3, <2>1, <2>2, FollowsNumbered DEF ItemsNumbered, NumberedItems, WithIds, OneEach,
       NoneHas
  <2>6. NumberedItems(cr.functions)'
    BY <1>3, <2>1, <2>2, FollowsNumbered DEF ItemsNumbered, NumberedItems, WithIds, OneEach,
       NoneHas
  <2> QED
    BY <2>3, <2>4, <2>5, <2>6 DEF ItemsNumbered
<1> QED
  BY <1>4, <1>5, <1>6, Changes

LEMMA OthersProfiles ==
    ASSUME IInv, Typed, [Next]_vars, \A s \in Slots : ~Request(s)
    PROVE  ProfilesNumbered'
<1>1. asked' = asked /\ \A t \in Slots : GoesOn(req[t], req'[t])
  BY OthersGoOn
<1>2. \A t \in Slots : Makes(req'[t]) => Makes(req[t]) /\ req'[t].call = req[t].call
  BY <1>1 DEF GoesOn, Makes
<1>3. OneEach(profiles) /\ WithIds(profiles)
  BY DEF Typed, ProfilesNumbered
<1>4. ASSUME NEW t \in Slots, Makes(req[t])
      PROVE  /\ NoneHas(profiles, req[t].call.id) /\ Later(req[t].call.id)
             /\ req[t].call.id # 1
             /\ \A u \in Slots \ {t} : Makes(req[u]) => req[u].call.id # req[t].call.id
  <2>1. NoneHas(profiles, req[t].call.id) /\ Later(req[t].call.id)
    BY <1>4 DEF Typed, ProfilesNumbered, CallIds, Makes
  <2>2. req[t].call.id # 1
    BY <2>1 DEF Later, LastFirstId, IInv
  <2> QED
    BY <1>4, <2>1, <2>2 DEF Typed, CallIds, Makes
<1>5. ASSUME OneEach(profiles'), \A x \in profiles' : x.id \in 1 .. LastFirstId + asked,
             \A t \in Slots : Makes(req'[t]) => NoneHas(profiles', req[t].call.id)
      PROVE  ProfilesNumbered'
  BY <1>1, <1>2, <1>5 DEF ProfilesNumbered, OneEach, WithIds, NoneHas, Makes
<1>6. CASE profiles' = profiles
  BY <1>2, <1>3, <1>4, <1>5, <1>6 DEF WithIds
<1>7. CASE UIRestarts
  <2>1. Administrator.id = 1
    BY DEF Administrator
  <2>2. profiles' = profiles \/ (profiles' = profiles \cup {Administrator} /\ NoneHas(profiles, 1))
    BY <1>7 DEF UIRestarts, Bootstrap, NoneHas
  <2>3. 1 \in 1 .. LastFirstId + asked
    BY DEF LastFirstId, IInv
  <2>4. OneEach(profiles') /\ \A x \in profiles' : x.id \in 1 .. LastFirstId + asked
    BY <1>3, <2>1, <2>2, <2>3 DEF OneEach, WithIds, NoneHas
  <2>5. \A t \in Slots : Makes(req'[t]) => NoneHas(profiles', req[t].call.id)
    BY <1>2, <1>4, <2>1, <2>2 DEF NoneHas
  <2> QED
    BY <1>5, <2>4, <2>5
<1>8. ASSUME NEW s \in Slots, WritesProfile(s)
      PROVE  ProfilesNumbered'
  <2> DEFINE q == req[s].call
             P == FormProfile(req[s].profile, q)
             C == FormProfile(q.id, q)
  <2>1. P.id = req[s].profile /\ C.id = q.id
    BY DEF FormProfile
  <2> HIDE DEF P, C
  <2>2. \/ profiles' = UpdateUserProfile(profiles, P)
        \/ At(s, {"createProfile"}) /\ profiles' = CreateUserProfile(profiles, C)
        \/ profiles' = DeleteUserProfile(profiles, q.user)
    <3>1. Head(req[s].left) \in {"updateProfile", "createProfile", "deleteProfile"}
      BY <1>8 DEF WritesProfile, At
    <3> QED
      BY <1>8, <3>1 DEF WritesProfile, P, C, At
  <2>3. CASE profiles' = UpdateUserProfile(profiles, P)
    <3>1. \A y \in profiles' : \E x \in profiles : x.id = y.id /\ y = IF x.id = P.id THEN P ELSE x
      BY <2>3 DEF UpdateUserProfile
    <3>2. OneEach(profiles') /\ \A x \in profiles' : x.id \in 1 .. LastFirstId + asked
      BY <1>3, <3>1 DEF OneEach, WithIds
    <3>3. \A t \in Slots : Makes(req'[t]) => NoneHas(profiles', req[t].call.id)
      BY <1>2, <1>4, <3>1 DEF NoneHas
    <3> QED
      BY <1>5, <3>2, <3>3
  <2>4. CASE profiles' = DeleteUserProfile(profiles, q.user)
    <3>1. profiles' \subseteq profiles
      BY <2>4 DEF DeleteUserProfile
    <3> QED
      BY <1>2, <1>3, <1>4, <1>5, <3>1 DEF OneEach, WithIds, NoneHas
  <2>5. CASE At(s, {"createProfile"}) /\ profiles' = CreateUserProfile(profiles, C)
    <3>1. profiles' = profiles \cup {C}
      BY <2>5 DEF CreateUserProfile
    <3>2. /\ req[s] \in Requests /\ req[s].status \in Live /\ Shaped(req[s])
          /\ Has(req[s].left, "createProfile")
      BY <2>5, AtStep DEF Has
    <3>3. Makes(req[s]) /\ Len(req[s].left) = 1
      BY <3>2 DEF Makes, Shaped, Owned
    <3>4. ~Makes(req'[s])
      <4>1. \E status : req'[s] = Ended(req[s], status) /\ status \in {"ok", "error"}
        BY <1>8, <3>3 DEF WritesProfile, Goes, Becomes, Succeeded, IInv
      <4>2. req'[s].status \notin Live
        BY <3>2, <4>1, EndedShaped DEF Live, NoRequest
      <4> QED
        BY <4>2 DEF Makes
    <3>5. NoneHas(profiles, q.id) /\ q.id \in 1 .. LastFirstId + asked
      BY <1>4, <3>3 DEF Later, LastFirstId, IInv
    <3>6. OneEach(profiles') /\ \A x \in profiles' : x.id \in 1 .. LastFirstId + asked
      BY <1>3, <2>1, <3>1, <3>5 DEF OneEach, WithIds, NoneHas
    <3>7. ASSUME NEW t \in Slots, Makes(req'[t])
          PROVE  NoneHas(profiles', req[t].call.id)
      <4>1. t # s /\ Makes(req[t])
        BY <1>2, <3>4, <3>7
      <4>2. q.id # req[t].call.id /\ NoneHas(profiles, req[t].call.id)
        BY <1>4, <3>3, <4>1
      <4> QED
        BY <2>1, <3>1, <4>2 DEF NoneHas
    <3> QED
      BY <1>5, <3>6, <3>7
  <2> QED
    BY <2>2, <2>3, <2>4, <2>5
<1> QED
  BY <1>6, <1>7, <1>8, Writers

LEMMA OthersAccounts ==
    ASSUME IInv, Typed, [Next]_vars, \A s \in Slots : ~Request(s)
    PROVE  AccountsFit'
<1>1. current \in Emails \cup {""} /\ sessions \subseteq Emails
  BY DEF Typed, AccountsFit
<1>2. CASE UNCHANGED <<current, sessions>>
  BY <1>1, <1>2 DEF AccountsFit
<1>3. CASE UIRestarts
  BY <1>3 DEF UIRestarts, AccountsFit
<1>4. ASSUME NEW s \in Slots, LogIn(s)
      PROVE  AccountsFit'
  <2>1. req[s].status \in Live /\ Shaped(req[s]) /\ Has(req[s].left, "login")
    BY <1>4, AtStep DEF LogIn, Has
  <2>2. req[s].call.op = "login"
    BY <2>1 DEF Shaped, Owned
  <2>3. req[s].call.email \in Emails
    BY <2>1, <2>2 DEF Typed, CallsFit
  <2> QED
    BY <1>1, <1>4, <2>3 DEF LogIn, AccountsFit
<1>5. ASSUME NEW s \in Slots, LogOut(s)
      PROVE  AccountsFit'
  BY <1>1, <1>5 DEF LogOut, AccountsFit
<1> QED
  BY <1>2, <1>3, <1>4, <1>5, Writers

LEMMA OthersGrants ==
    ASSUME IInv, Typed, [Next]_vars, \A s \in Slots : ~Request(s)
    PROVE  GrantsFit'
<1>1. made <= made' /\ made \in Nat /\ made' \in Nat
  BY OthersWithinBounds DEF Typed, WithinBounds
<1>2. GrantRows \subseteq GrantRows'
  BY <1>1 DEF GrantRows
<1>3. grants \subseteq GrantRows
  BY DEF Typed, GrantsFit
<1>4. ASSUME NEW s \in Slots
      PROVE  /\ req[s].call.access \in Accesses /\ req[s].call.id \in Nat
             /\ req[s].todo \subseteq Nat
  <2>1. "Read" \in Accesses
    BY DEF Accesses
  <2> QED
    BY <2>1, BoundsAssumption DEF IInv, Requests, CallRows, AllAccesses
<1>5. CASE grants' = grants
  BY <1>2, <1>3, <1>5 DEF GrantsFit
<1>6. ASSUME NEW s \in Slots, ChangesGrant(s)
      PROVE  GrantsFit'
  <2> DEFINE q == req[s].call
  <2>1. \/ grants' = DeleteUserPipelineAccess(grants, q.uid, q.user)
        \/ grants' = UpdateUserPipelineAccess(grants, q.uid, q.user, q.access)
    BY <1>6 DEF ChangesGrant, Grants
  <2>2. CASE grants' = DeleteUserPipelineAccess(grants, q.uid, q.user)
    BY <1>2, <1>3, <2>2 DEF DeleteUserPipelineAccess, GrantsFit
  <2>3. CASE grants' = UpdateUserPipelineAccess(grants, q.uid, q.user, q.access)
    <3>1. q.access \in Accesses
      BY <1>4
    <3> HIDE DEF q
    <3>2. \A g \in grants : [g EXCEPT !.access = q.access] \in GrantRows
      BY <1>3, <3>1 DEF GrantRows
    <3>3. grants' \subseteq GrantRows
      BY <1>3, <2>3, <3>2 DEF UpdateUserPipelineAccess
    <3> QED
      BY <1>2, <3>3 DEF GrantsFit
  <2> QED
    BY <2>1, <2>2, <2>3
<1>7. ASSUME NEW s \in Slots, DeletesGrants(s)
      PROVE  GrantsFit'
  <2>1. grants' \subseteq grants
    BY <1>7 DEF DeletesGrants, Grants, DeleteAllUserPipelineAccess
  <2> QED
    BY <1>2, <1>3, <2>1 DEF GrantsFit
<1>8. ASSUME NEW s \in Slots, GrantsUser(s)
      PROVE  GrantsFit'
  <2> DEFINE q == req[s].call
  <2>1. req[s].status \in Live /\ Shaped(req[s]) /\ Has(req[s].left, "grantUsers")
    BY <1>8, AtStep DEF GrantsUser, Has
  <2>2. q.op = "updatePipelineUsers"
    BY <2>1 DEF Shaped, Owned
  <2>3. q.uid \in 1 .. made
    BY <2>1, <2>2 DEF Typed, CallsFit, OfNoPipeline
  <2>4. \/ grants' = grants
        \/ \E user \in req[s].todo : grants' = grants \cup {RowOf(q, user)}
    BY <1>8 DEF GrantsUser, Grants, CreateUserPipelineAccess, RowOf
  <2>5. \A user \in req[s].todo : RowOf(q, user) \in GrantRows
    BY <1>4, <2>3 DEF RowOf, GrantRows
  <2> HIDE DEF q
  <2> QED
    BY <1>2, <1>3, <2>4, <2>5 DEF GrantsFit
<1> QED
  BY <1>5, <1>6, <1>7, <1>8, Writers

LEMMA NextTyped ==
    ASSUME IInv, Typed, [Next]_vars
    PROVE  Typed'
<1>1. CASE \E s \in Slots : Request(s)
  BY <1>1, AskingTyped
<1>2. CASE \A s \in Slots : ~Request(s)
  BY <1>2, OthersCalls, OthersItems, OthersProfiles, OthersAccounts, OthersGrants,
     OthersWithinBounds DEF Typed
<1> QED
  BY <1>1, <1>2

LEMMA InitTyped == Init => Typed
<1> SUFFICES ASSUME Init
             PROVE  Typed
  OBVIOUS
<1>1. \A s \in Slots : req[s].status \notin Live
  BY DEF Init, NoRequest, Live
<1>2. CallIds /\ CallsFit
  BY <1>1 DEF CallIds, CallsFit
<1>3. asked = 0 /\ scene \in Scenes /\ LastFirstId = 6
  BY DEF Init, LastFirstId
<1>4. AccountsFit /\ WithinBounds
  <2>1. scene.user \in Emails /\ scene.most \in Nat /\ MaxUid \in Nat \ {0}
        /\ MaxDisturbances \in Nat
    BY <1>3, BoundsAssumption
  <2>2. /\ current = scene.user /\ sessions = {scene.user} /\ made = 1 /\ ctl = 1
        /\ asked = 0 /\ disturbed = 0
    BY DEF Init
  <2>3. AccountsFit
    BY <2>1, <2>2 DEF AccountsFit
  <2>4. WithinBounds
    BY <2>1, <2>2 DEF WithinBounds
  <2> QED
    BY <2>3, <2>4
<1>5. GrantsFit
  <2>1. [by |-> 0, user |-> 2, pipeline |-> 1, access |-> "Write"] \in GrantRows
    BY DEF GrantRows, Accesses, Init
  <2> QED
    BY <2>1 DEF Init, GrantsFit
<1>6. ASSUME NEW items, NEW x, x.id \in 1 .. 6, items = {} \/ items = {x}
      PROVE  NumberedItems(items)
  BY <1>1, <1>3, <1>6 DEF NumberedItems, OneEach, WithIds, Pending
<1>7. ItemsNumbered
  <2> DEFINE path == CHOOSE p \in Paths : TRUE
             source == [id |-> 3, path |-> path, scheme |-> "csv"]
             rule == [id |-> 4, source |-> 3, text |-> "column number", function |-> 6]
             extension == [id |-> 5, source |-> 3, edit |-> 0]
             function == [id |-> 6, edit |-> 0]
  <2> HIDE DEF path
  <2>1. /\ FilledCR.sources = {source} /\ FilledCR.rules = {rule}
        /\ FilledCR.extensions = {extension} /\ FilledCR.functions = {function}
    BY DEF FilledCR, NewCR, path
  <2>2. /\ [NewCR(1, 1) EXCEPT !.id = TRUE].sources = {}
        /\ [NewCR(1, 1) EXCEPT !.id = TRUE].rules = {}
        /\ [NewCR(1, 1) EXCEPT !.id = TRUE].extensions = {}
        /\ [NewCR(1, 1) EXCEPT !.id = TRUE].functions = {}
    BY DEF NewCR
  <2>3. /\ source.id \in 1 .. 6 /\ rule.id \in 1 .. 6 /\ extension.id \in 1 .. 6
        /\ function.id \in 1 .. 6
    OBVIOUS
  <2> HIDE DEF source, rule, extension, function
  <2>4. /\ cr.sources = {} \/ cr.sources = {source}
        /\ cr.rules = {} \/ cr.rules = {rule}
        /\ cr.extensions = {} \/ cr.extensions = {extension}
        /\ cr.functions = {} \/ cr.functions = {function}
    BY <2>1, <2>2 DEF Init
  <2> QED
    BY <1>6, <2>3, <2>4 DEF ItemsNumbered
<1>8. ProfilesNumbered
  <2>1. Administrator.id = 1 /\ FirstUser.id = 2
    BY DEF Administrator, FirstUser
  <2>2. profiles \subseteq {FirstUser, Administrator}
    BY DEF Init, Bootstrap
  <2> QED
    BY <1>1, <1>3, <2>1, <2>2 DEF ProfilesNumbered, OneEach, WithIds, Makes
<1> QED
  BY <1>2, <1>4, <1>5, <1>7, <1>8 DEF Typed

(***************************************************************************)
(* The types of the variables, and that an id names one source, one rule,  *)
(* one extension, one function or one profile: handlers make items from    *)
(* copies of the resource, at the same time, and the first profile is made *)
(* at every start.                                                         *)
(***************************************************************************)
THEOREM TypeCorrect == Spec => []TypeOK
<1>1. IInv /\ Typed => TypeOK
  <2> SUFFICES ASSUME IInv, Typed
               PROVE  TypeOK
    OBVIOUS
  <2>1. scene \in Scenes /\ cr.id \in BOOLEAN /\ cr.rev \in 0 .. rev /\ cr.uid \in {0, made}
    BY DEF IInv, Resources
  <2>2. cr.uid \in 0 .. MaxUid
    BY <2>1, BoundsAssumption DEF Typed, WithinBounds
  <2>3. \A items \in {cr.sources, cr.rules, cr.extensions, cr.functions, profiles} :
           \A x, y \in items : x.id \in 1 .. LastFirstId + asked /\ (x.id = y.id => x = y)
    BY DEF Typed, ItemsNumbered, ProfilesNumbered, NumberedItems, OneEach, WithIds
  <2>4. \A g \in grants : g.pipeline \in 1 .. made /\ g.access \in Accesses
    BY DEF Typed, GrantsFit, GrantRows
  <2>5. \A s \in Slots : /\ req[s].status \in Live \cup {"idle", "ok", "error"}
                         /\ req[s].status \in Live <=> req[s].left # <<>>
    BY DEF IInv, Good, Requests, Shaped
  <2> QED
    BY <2>1, <2>2, <2>3, <2>4, <2>5 DEF TypeOK, Typed, WithinBounds, AccountsFit
<1>2. Init => Typed
  BY InitTyped
<1>3. IInv /\ Typed /\ [Next]_vars => Typed'
  BY NextTyped
<1> QED
  BY <1>1, <1>2, <1>3, Invariance, PTL DEF Spec
=============================================================================
