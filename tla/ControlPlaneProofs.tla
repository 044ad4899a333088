------------------------- MODULE ControlPlaneProofs -------------------------
(***************************************************************************)
(* Proofs about the requests of churro-ui and churro-ctl, for any number   *)
(* of slots, requests, makings and disturbances, any scenes, paths,        *)
(* schemes and texts: what churro-ctl promises (PipelineStore) is kept,    *)
(* and only a pipeline made again is mistaken for the one that was looked  *)
(* up.                                                                     *)
(***************************************************************************)
EXTENDS ControlPlane, TLAPS

-----------------------------------------------------------------------------
(* Types.  The accounts and the tables matter to no theorem here; of them  *)
(* only that ids are numbers is kept.                                      *)

FormPaths == Paths \cup {0}
AllSchemes == FormSchemes \cup {"csv"}
AllTexts == FormTexts \cup {"column number"}
AllEmails == Emails \cup {""}
AllAccesses == FormAccesses \cup {"Read"}

SourceRows == [id : Nat, path : FormPaths, scheme : AllSchemes]
RuleRows == [id : Nat, source : Nat, text : AllTexts, function : Nat]
ExtensionRows == [id : Nat, source : Nat, edit : Nat]
FunctionRows == [id : Nat, edit : Nat]

Resources ==
    [uid : Nat, id : BOOLEAN, rev : Nat, sources : SUBSET SourceRows,
     rules : SUBSET RuleRows, extensions : SUBSET ExtensionRows,
     functions : SUBSET FunctionRows]

CallRows ==
    [op : UI!Ops \cup {"none"}, uid : Nat, id : Nat, item : Nat, source : Nat,
     path : FormPaths, scheme : AllSchemes, text : AllTexts, function : Nat,
     email : AllEmails, access : AllAccesses, user : Nat, users : SUBSET Nat]

-----------------------------------------------------------------------------
(* The handlers of churro-ctl on the whole resource and on its content.    *)

LEMMA EffectType ==
    ASSUME NEW c \in Resources, NEW q \in CallRows, q.op \in Edits
    PROVE  /\ Effect(c, q) \in Resources
           /\ Effect(c, q).uid = c.uid /\ Effect(c, q).id = c.id
           /\ Effect(c, q).rev = c.rev
<1> DEFINE Kept(d) == d \in Resources /\ d.uid = c.uid /\ d.id = c.id /\ d.rev = c.rev
<1>1. Kept(CreateExtractSource(c, q))
  BY DEF CreateExtractSource, Resources, CallRows, SourceRows
<1>2. Kept(UpdateExtractSource(c, q))
  <2> DEFINE S == {IF x.id = q.item THEN [x EXCEPT !.path = q.path, !.scheme = q.scheme]
                   ELSE x : x \in c.sources}
  <2>1. ASSUME NEW x \in c.sources
        PROVE  /\ x \in SourceRows
               /\ [x EXCEPT !.path = q.path, !.scheme = q.scheme] \in SourceRows
    <3>1. x \in SourceRows /\ q.path \in FormPaths /\ q.scheme \in AllSchemes
      BY DEF Resources, CallRows
    <3> QED
      BY <3>1 DEF SourceRows
  <2>2. S \subseteq SourceRows
    BY <2>1
  <2> QED
    BY <2>2 DEF UpdateExtractSource, Resources
<1>3. Kept(DeleteExtractSource(c, q))
  BY DEF DeleteExtractSource, Without, With, Resources
<1>4. Kept(CreateExtractRule(c, q))
  BY DEF CreateExtractRule, Resources, CallRows, RuleRows
<1>5. Kept(UpdateExtractRule(c, q))
  <2> DEFINE S == {IF x.id = q.item THEN [x EXCEPT !.text = q.text, !.function = q.function]
                   ELSE x : x \in c.rules}
  <2>1. ASSUME NEW x \in c.rules
        PROVE  /\ x \in RuleRows
               /\ [x EXCEPT !.text = q.text, !.function = q.function] \in RuleRows
    <3>1. x \in RuleRows /\ q.text \in AllTexts /\ q.function \in Nat
      BY DEF Resources, CallRows
    <3> QED
      BY <3>1 DEF RuleRows
  <2>2. S \subseteq RuleRows
    BY <2>1
  <2> QED
    BY <2>2 DEF UpdateExtractRule, Resources
<1>6. Kept(DeleteExtractRule(c, q))
  BY DEF DeleteExtractRule, Without, With, Resources
<1>7. Kept(CreateExtension(c, q))
  BY DEF CreateExtension, Resources, CallRows, ExtensionRows
<1>8. Kept(UpdateExtension(c, q))
  <2> DEFINE S == {IF x.id = q.item THEN [x EXCEPT !.edit = q.id] ELSE x :
                   x \in c.extensions}
  <2>1. S \subseteq ExtensionRows
    BY DEF Resources, CallRows, ExtensionRows
  <2> QED
    BY <2>1 DEF UpdateExtension, Resources
<1>9. Kept(DeleteExtension(c, q))
  BY DEF DeleteExtension, Without, With, Resources
<1>10. Kept(CreateTransformFunction(c, q))
  BY DEF CreateTransformFunction, Resources, CallRows, FunctionRows
<1>11. Kept(UpdateTransformFunction(c, q))
  <2> DEFINE S == {IF x.id = q.item THEN [x EXCEPT !.edit = q.id] ELSE x :
                   x \in c.functions}
  <2>1. S \subseteq FunctionRows
    BY DEF Resources, CallRows, FunctionRows
  <2> QED
    BY <2>1 DEF UpdateTransformFunction, Resources
<1>12. Kept(DeleteTransformFunction(c, q))
  BY DEF DeleteTransformFunction, Without, With, Resources
<1> HIDE DEF Kept
<1>13. Kept(Effect(c, q))
  BY <1>1, <1>2, <1>3, <1>4, <1>5, <1>6, <1>7, <1>8, <1>9, <1>10, <1>11, <1>12
     DEF Effect, Edits, SourceEdits, RuleEdits, ExtensionEdits, FunctionEdits
<1> QED
  BY <1>13 DEF Kept

LEMMA EffectContent ==
    ASSUME NEW c \in Resources, NEW q \in CallRows, q.op \in Edits
    PROVE  Content(Effect(c, q)) = Effect(Content(c), q)
<1> USE DEF Resources, Content
<1>1. CASE q.op \in SourceEdits
  BY <1>1 DEF Effect, SourceEdits, CreateExtractSource, UpdateExtractSource,
     DeleteExtractSource
<1>2. CASE q.op \in RuleEdits
  BY <1>2 DEF Effect, RuleEdits, CreateExtractRule, UpdateExtractRule,
     DeleteExtractRule
<1>3. CASE q.op \in ExtensionEdits
  BY <1>3 DEF Effect, ExtensionEdits, CreateExtension, UpdateExtension,
     DeleteExtension
<1>4. CASE q.op \in FunctionEdits
  BY <1>4 DEF Effect, FunctionEdits, CreateTransformFunction,
     UpdateTransformFunction, DeleteTransformFunction
<1> QED
  BY <1>1, <1>2, <1>3, <1>4 DEF Edits

LEMMA RefusesContent ==
    ASSUME NEW c \in Resources, NEW q
    PROVE  Refuses(Content(c), q) = Refuses(c, q)
<1>1. /\ RefusesSourceEdit(Content(c), q) = RefusesSourceEdit(c, q)
      /\ RefusesRuleEdit(Content(c), q) = RefusesRuleEdit(c, q)
      /\ RefusesExtensionEdit(Content(c), q) = RefusesExtensionEdit(c, q)
      /\ RefusesFunctionEdit(Content(c), q) = RefusesFunctionEdit(c, q)
  BY DEF Content, RefusesSourceEdit, RefusesRuleEdit, RefusesExtensionEdit,
     RefusesFunctionEdit, PathTaken, RulePathFits
<1> QED
  BY <1>1 DEF Refuses

\* PipelineStore has the same handlers.
LEMMA StoreHandlers ==
    ASSUME NEW c, NEW q
    PROVE  /\ Store!Refuses(c, q) = Refuses(c, q) /\ Store!Edits = Edits
           /\ q.op \in Edits => Store!Effect(c, q) = Effect(c, q)
<1>1. Store!Refuses(c, q) = Refuses(c, q)
  <2>1. /\ Store!RefusesSourceEdit(c, q) = RefusesSourceEdit(c, q)
        /\ Store!RefusesRuleEdit(c, q) = RefusesRuleEdit(c, q)
        /\ Store!RefusesExtensionEdit(c, q) = RefusesExtensionEdit(c, q)
        /\ Store!RefusesFunctionEdit(c, q) = RefusesFunctionEdit(c, q)
    BY DEF RefusesSourceEdit, RefusesRuleEdit, RefusesExtensionEdit, RefusesFunctionEdit,
       PathTaken, RulePathFits, ValidRulePath, With,
       Store!RefusesSourceEdit, Store!RefusesRuleEdit, Store!RefusesExtensionEdit,
       Store!RefusesFunctionEdit, Store!PathTaken, Store!RulePathFits,
       Store!ValidRulePath, Store!With
  <2> QED
    BY <2>1 DEF Refuses, SourceEdits, RuleEdits, ExtensionEdits, FunctionEdits,
       Store!Refuses, Store!SourceEdits, Store!RuleEdits, Store!ExtensionEdits,
       Store!FunctionEdits
<1>2. Store!Edits = Edits
  BY DEF Edits, SourceEdits, RuleEdits, ExtensionEdits, FunctionEdits, Store!Edits,
     Store!SourceEdits, Store!RuleEdits, Store!ExtensionEdits, Store!FunctionEdits
<1>3. /\ Store!CreateExtractSource(c, q) = CreateExtractSource(c, q)
      /\ Store!UpdateExtractSource(c, q) = UpdateExtractSource(c, q)
      /\ Store!DeleteExtractSource(c, q) = DeleteExtractSource(c, q)
  BY DEF CreateExtractSource, UpdateExtractSource, DeleteExtractSource, Without, With,
     Store!CreateExtractSource, Store!UpdateExtractSource, Store!DeleteExtractSource,
     Store!Without, Store!With
<1>4. /\ Store!CreateExtractRule(c, q) = CreateExtractRule(c, q)
      /\ Store!UpdateExtractRule(c, q) = UpdateExtractRule(c, q)
      /\ Store!DeleteExtractRule(c, q) = DeleteExtractRule(c, q)
  BY DEF CreateExtractRule, UpdateExtractRule, DeleteExtractRule, Without, With,
     Store!CreateExtractRule, Store!UpdateExtractRule, Store!DeleteExtractRule,
     Store!Without, Store!With
<1>5. /\ Store!CreateExtension(c, q) = CreateExtension(c, q)
      /\ Store!UpdateExtension(c, q) = UpdateExtension(c, q)
      /\ Store!DeleteExtension(c, q) = DeleteExtension(c, q)
  BY DEF CreateExtension, UpdateExtension, DeleteExtension, Without, With,
     Store!CreateExtension, Store!UpdateExtension, Store!DeleteExtension,
     Store!Without, Store!With
<1>6. /\ Store!CreateTransformFunction(c, q) = CreateTransformFunction(c, q)
      /\ Store!UpdateTransformFunction(c, q) = UpdateTransformFunction(c, q)
      /\ Store!DeleteTransformFunction(c, q) = DeleteTransformFunction(c, q)
  BY DEF CreateTransformFunction, UpdateTransformFunction, DeleteTransformFunction,
     Without, With, Store!CreateTransformFunction, Store!UpdateTransformFunction,
     Store!DeleteTransformFunction, Store!Without, Store!With
<1>7. ASSUME q.op \in Edits
      PROVE  Store!Effect(c, q) = Effect(c, q)
  BY <1>3, <1>4, <1>5, <1>6, <1>7
     DEF Effect, Store!Effect, Edits, SourceEdits, RuleEdits, ExtensionEdits, FunctionEdits
<1> QED
  BY <1>1, <1>2, <1>7

LEMMA NotWritten ==
    ASSUME NEW c \in Resources, NEW q \in CallRows, q.op \in Edits, ~Writes(c, q)
    PROVE  Content(Effect(c, q)) = Content(c)
<1> USE DEF Resources, Content, Writes, Effect, With
<1>1. CASE q.op = "updateExtractSource"
  BY <1>1 DEF UpdateExtractSource
<1>2. CASE q.op = "updateExtractRule"
  BY <1>2 DEF UpdateExtractRule
<1>3. CASE q.op = "updateExtension"
  BY <1>3 DEF UpdateExtension
<1>4. CASE q.op = "updateTransformFunction"
  BY <1>4 DEF UpdateTransformFunction
<1> QED
  BY <1>1, <1>2, <1>3, <1>4 DEF Writes

-----------------------------------------------------------------------------
(* The steps that a request has left: one read and then one write of       *)
(* churro-ctl, if any, and no creation of a pipeline that was looked up.   *)

StepNames ==
    {"profile", "grant", "lookup", "cluster", "rpc", "jobs", "rule", "edit", "put",
     "trigger", "purge", "relay", "create", "delete", "rewrite", "read", "login",
     "logout", "profileByEmail", "profileById", "updateProfile", "createProfile",
     "deleteProfile", "deleteGrants", "grantUsers", "deleteGrant", "updateGrant"}

Ordered(left) ==
    /\ left \in Seq(StepNames) /\ left # <<>>
    /\ \A i \in 1 .. Len(left) :
          left[i] = "edit" => i < Len(left) /\ left[i + 1] = "put"
    /\ \A i, j \in 1 .. Len(left) :
          left[i] = "put" /\ left[j] \in {"edit", "put"} => j <= i
    /\ \A i, j \in 1 .. Len(left) : left[i] = "create" => left[j] # "lookup"
    /\ \A i \in 1 .. Len(left) :
          left[i] = "profile" => /\ i < Len(left)
                                 /\ left[i + 1] = "grant" => i + 1 < Len(left)

Has(left, step) == \E i \in 1 .. Len(left) : left[i] = step

\* The steps that only one operation has; a profile is made in the last step.
Owned(left, op) ==
    /\ Has(left, "login") => op = "login"
    /\ Has(left, "createProfile") => op = "userAdmin" /\ Len(left) = 1
    /\ Has(left, "grantUsers") => op = "updatePipelineUsers"

Fits(left, op) ==
    /\ Ordered(left) /\ Owned(left, op)
    /\ op \in Edits =>
          Has(left, "put") /\ ~Has(left, "create") /\ ~Has(left, "delete")
    /\ op \notin Edits => ~Has(left, "put") /\ ~Has(left, "edit")

LEMMA RoutesFit ==
    ASSUME NEW op \in UI!Ops
    PROVE  Fits(UI!Routes[op], op)
<1> USE DEF Fits, Ordered, Owned, Has, StepNames, Edits, SourceEdits, RuleEdits, ExtensionEdits,
            FunctionEdits
<1>1. Fits(UI!Login, "login")
  BY DEF UI!Login
<1>2. Fits(UI!Logout, "logout")
  BY DEF UI!Logout
<1>3. Fits(UI!ProfileUpdate, "profileUpdate")
  BY DEF UI!ProfileUpdate
<1>4. Fits(UI!UserAdmin, "userAdmin")
  BY DEF UI!UserAdmin
<1>5. Fits(UI!UserAdminUpdate, "userAdminUpdate")
  BY DEF UI!UserAdminUpdate
<1>6. Fits(UI!UserAdminDelete, "userAdminDelete")
  BY DEF UI!UserAdminDelete
<1>7. Fits(UI!UpdatePipelineUsers, "updatePipelineUsers")
  BY DEF UI!UpdatePipelineUsers
<1>8. Fits(UI!UpdatePipelineUser, "updatePipelineUser")
  BY DEF UI!UpdatePipelineUser
<1>9. Fits(UI!DeletePipelineUser, "deletePipelineUser")
  BY DEF UI!DeletePipelineUser
<1>10. Fits(UI!CreatePipelineDetail, "createPipelineDetail")
  BY DEF UI!CreatePipelineDetail
<1>11. Fits(UI!UpdatePipelineDetail, "updatePipelineDetail")
  BY DEF UI!UpdatePipelineDetail, UI!Authorize
<1>12. Fits(UI!DeletePipelineDetail, "deletePipelineDetail")
  BY DEF UI!DeletePipelineDetail, UI!Authorize
<1>13. Fits(UI!DeletePipelines, "deletePipelines")
  BY DEF UI!DeletePipelines, UI!Authorize
<1>14. Fits(UI!CreateExtractSource, "createExtractSource")
  BY DEF UI!CreateExtractSource, UI!Edit
<1>15. Fits(UI!UpdateExtractSource, "updateExtractSource")
  BY DEF UI!UpdateExtractSource, UI!Edit
<1>16. Fits(UI!DeleteExtractSource, "deleteExtractSource")
  BY DEF UI!DeleteExtractSource, UI!Edit
<1>17. Fits(UI!CreateExtractRule, "createExtractRule")
  BY DEF UI!CreateExtractRule, UI!Edit
<1>18. Fits(UI!UpdateExtractRule, "updateExtractRule")
  BY DEF UI!UpdateExtractRule, UI!Edit
<1>19. Fits(UI!DeleteExtractRule, "deleteExtractRule")
  BY DEF UI!DeleteExtractRule, UI!Edit
<1>20. Fits(UI!CreateExtension, "createExtension")
  BY DEF UI!CreateExtension, UI!Edit
<1>21. Fits(UI!UpdateExtension, "updateExtension")
  BY DEF UI!UpdateExtension, UI!Edit
<1>22. Fits(UI!DeleteExtension, "deleteExtension")
  BY DEF UI!DeleteExtension, UI!Edit
<1>23. Fits(UI!CreateTransformFunction, "createTransformFunction")
  BY DEF UI!CreateTransformFunction, UI!Authorize, UI!Edit
<1>24. Fits(UI!UpdateTransformFunction, "updateTransformFunction")
  BY DEF UI!UpdateTransformFunction, UI!Authorize, UI!Edit
<1>25. Fits(UI!DeleteTransformFunction, "deleteTransformFunction")
  BY DEF UI!DeleteTransformFunction, UI!Authorize, UI!Edit
<1>26. Fits(UI!Profile, "profile")
  BY DEF UI!Profile
<1>27. Fits(UI!Users, "users")
  BY DEF UI!Users
<1>28. Fits(UI!UserAdminDetail, "userAdminDetail")
  BY DEF UI!UserAdminDetail
<1>29. Fits(UI!ShowPipelineUsers, "showPipelineUsers")
  BY DEF UI!ShowPipelineUsers
<1>30. Fits(UI!PipelineUser, "pipelineUser")
  BY DEF UI!PipelineUser
<1>31. Fits(UI!Pipelines, "pipelines")
  BY DEF UI!Pipelines
<1>32. Fits(UI!PipelineDetailHandler, "pipelineDetail")
  BY DEF UI!PipelineDetailHandler, UI!Authorize
<1>33. Fits(UI!ShowCreatePipeline, "showCreatePipeline")
  BY DEF UI!ShowCreatePipeline
<1>34. Fits(UI!PipelineDownloadFile, "pipelineDownloadFile")
  BY DEF UI!PipelineDownloadFile
<1>35. Fits(UI!PipelineStatusHandler, "pipelineStatus")
  BY DEF UI!PipelineStatusHandler, UI!Authorize
<1>36. Fits(UI!PipelineStatusJobLogHandler, "pipelineStatusJobLog")
  BY DEF UI!PipelineStatusJobLogHandler, UI!Authorize
<1>37. Fits(UI!DeleteJobs, "deleteJobs")
  BY DEF UI!DeleteJobs
<1>38. Fits(UI!DownloadExtract, "downloadExtract")
  BY DEF UI!DownloadExtract
<1>39. Fits(UI!ShowCreateExtractSource, "showCreateExtractSource")
  BY DEF UI!ShowCreateExtractSource
<1>40. Fits(UI!PipelineExtractSource, "pipelineExtractSource")
  BY DEF UI!PipelineExtractSource
<1>41. Fits(UI!UploadURLToExtractSource, "uploadURL")
  BY DEF UI!UploadURLToExtractSource
<1>42. Fits(UI!UploadToExtractSource, "upload")
  BY DEF UI!UploadToExtractSource
<1>43. Fits(UI!StartExtractSource, "startExtractSource")
  BY DEF UI!StartExtractSource
<1>44. Fits(UI!StopExtractSource, "stopExtractSource")
  BY DEF UI!StopExtractSource
<1>45. Fits(UI!UploadSchema, "uploadSchema")
  BY DEF UI!UploadSchema
<1>46. Fits(UI!ShowCreateExtractRule, "showCreateExtractRule")
  BY DEF UI!ShowCreateExtractRule
<1>47. Fits(UI!ExtractRule, "extractRule")
  BY DEF UI!ExtractRule
<1>48. Fits(UI!ShowCreateExtension, "showCreateExtension")
  BY DEF UI!ShowCreateExtension
<1>49. Fits(UI!Extension, "extension")
  BY DEF UI!Extension
<1>50. Fits(UI!ShowCreateTransformFunction, "showCreateTransformFunction")
  BY DEF UI!ShowCreateTransformFunction
<1>51. Fits(UI!TransformFunction, "transformFunction")
  BY DEF UI!TransformFunction
<1> HIDE DEF Fits
<1> QED
  BY <1>1, <1>2, <1>3, <1>4, <1>5, <1>6, <1>7, <1>8, <1>9, <1>10, <1>11, <1>12,
     <1>13, <1>14, <1>15, <1>16, <1>17, <1>18, <1>19, <1>20, <1>21, <1>22,
     <1>23, <1>24, <1>25, <1>26, <1>27, <1>28, <1>29, <1>30, <1>31, <1>32,
     <1>33, <1>34, <1>35, <1>36, <1>37, <1>38, <1>39, <1>40, <1>41, <1>42,
     <1>43, <1>44, <1>45, <1>46, <1>47, <1>48, <1>49, <1>50, <1>51
     DEF UI!Ops, UI!Routes

LEMMA TailOrdered ==
    ASSUME NEW left, Ordered(left), Len(left) > 1
    PROVE  /\ Ordered(Tail(left))
           /\ \A step : Has(Tail(left), step) => Has(left, step)
           /\ \A step : Has(left, step) /\ left[1] # step => Has(Tail(left), step)
           /\ left[1] = "put" => ~Has(Tail(left), "put") /\ ~Has(Tail(left), "edit")
           /\ \A op : Owned(left, op) => Owned(Tail(left), op)
<1>1. /\ Tail(left) \in Seq(StepNames) /\ Len(Tail(left)) = Len(left) - 1
      /\ \A i \in 1 .. Len(left) - 1 : Tail(left)[i] = left[i + 1]
      /\ Len(left) \in Nat
  BY DEF Ordered
<1>2. Tail(left) # <<>>
  <2>1. Len(Tail(left)) # 0
    BY <1>1
  <2>2. Len(<<>>) = 0
    OBVIOUS
  <2>3. Tail(left) = <<>> => Len(Tail(left)) = Len(<<>>)
    OBVIOUS
  <2> QED
    BY <2>1, <2>2, <2>3
<1>3. \A step : Has(left, step) /\ left[1] # step => Has(Tail(left), step)
  <2> SUFFICES ASSUME NEW step, NEW i \in 1 .. Len(left), left[i] = step, left[1] # step
               PROVE  Has(Tail(left), step)
    BY DEF Has
  <2>1. i - 1 \in 1 .. Len(left) - 1 /\ Tail(left)[i - 1] = step
    BY <1>1
  <2> QED
    BY <2>1, <1>1 DEF Has
<1>4. \A step : Has(Tail(left), step) => Has(left, step)
  BY <1>1 DEF Has
<1>5. Ordered(Tail(left))
  BY <1>1, <1>2 DEF Ordered
<1>6. \A op : Owned(left, op) => Owned(Tail(left), op)
  BY <1>4 DEF Owned
<1> QED
  BY <1>1, <1>3, <1>4, <1>5, <1>6 DEF Has, Ordered

-----------------------------------------------------------------------------
(* Requests, and what their callers see of them.                           *)

Requests ==
    [call : CallRows, status : Live \cup {"idle", "ok", "error"}, left : Seq(StepNames),
     failed : BOOLEAN, profile : Nat, found : Nat, copy : Resources, got : Resources,
     todo : SUBSET Nat, applied : BOOLEAN, crossed : BOOLEAN]

\* A request that writes is to come to its write until it was made or failed.
Shaped(r) ==
    /\ r.status = "idle" => r.call = NoCall
    /\ r.status \in Live <=> r.left # <<>>
    /\ r.status \in Live =>
          /\ Ordered(r.left) /\ Owned(r.left, r.call.op)
          /\ r.call.op \notin Edits => ~Has(r.left, "put") /\ ~Has(r.left, "edit")
          /\ r.applied => ~Has(r.left, "put") /\ ~Has(r.left, "edit")
          /\ r.call.op \in Edits /\ ~r.applied /\ ~r.failed => Has(r.left, "put")
          /\ r.call.op \in Edits => ~Has(r.left, "create") /\ ~Has(r.left, "delete")
          /\ r.found # 0 => ~Has(r.left, "create")

\* The same of a request that is about to leave its step.
Leaving(r) ==
    /\ r.status \in Live /\ Ordered(r.left) /\ Owned(r.left, r.call.op)
    /\ r.call.op \notin Edits => ~Has(r.left, "put") /\ ~Has(r.left, "edit")
    /\ r.applied => \A i \in 2 .. Len(r.left) : r.left[i] \notin {"put", "edit"}
    /\ r.call.op \in Edits /\ ~r.applied /\ ~r.failed =>
          \E i \in 2 .. Len(r.left) : r.left[i] = "put"
    /\ r.call.op \in Edits => ~Has(r.left, "create") /\ ~Has(r.left, "delete")
    /\ r.found # 0 => ~Has(r.left, "create")

Idle == Store!Idle

\* What a caller may come to see when the resource does not change, and when
\* its call is applied.
Quiet(a, b) ==
    \/ b = a \/ b = Idle
    \/ a.status = "pending" /\ b = [a EXCEPT !.status = "refused"]
    \/ a.status = "applied" /\ b = [a EXCEPT !.status = "ok"]
    \/ a.status = "applied" /\ b = [a EXCEPT !.status = "unsure"]
Taken(a, b) ==
    /\ a.status = "pending"
    /\ b = Idle \/ \E to \in {"applied", "ok", "unsure"} : b = [a EXCEPT !.status = to]

\* What b has of a lookup and of a read is what a has.
Keeps(a, b) ==
    /\ b.got # NoCR => b.got = a.got /\ b.call = a.call
    /\ b.found # 0 => b.found = a.found /\ b.call = a.call

LEMMA NoRowsType == NoCR \in Resources /\ NoCall \in CallRows
<1>1. NoCR \in Resources
  BY DEF NoCR, NewCR, Resources
<1>2. NoCall \in CallRows
  BY DEF NoCall, CallRows, FormPaths, AllSchemes, AllTexts, AllEmails, AllAccesses
<1> QED
  BY <1>1, <1>2

LEMMA NoRequestShaped ==
    NoRequest \in Requests /\ Shaped(NoRequest) /\ Ask(NoRequest) = Idle
<1>1. NoRequest \in Requests
  BY NoRowsType DEF NoRequest, Requests
<1>2. Shaped(NoRequest)
  BY DEF Shaped, NoRequest, Live
<1>3. Ask(NoRequest) = Idle
  BY DEF Ask, NoRequest, NoCall, Idle, Store!Idle, Edits, SourceEdits, RuleEdits,
     ExtensionEdits, FunctionEdits
<1> QED
  BY <1>1, <1>2, <1>3

LEMMA EndedShaped ==
    ASSUME NEW r \in Requests, r.status \in Live, NEW status \in {"ok", "error"}
    PROVE  /\ Ended(r, status) \in Requests /\ Shaped(Ended(r, status))
           /\ Ended(r, status).got = NoCR /\ Ended(r, status).found = 0
           /\ \/ Ended(r, status) = NoRequest
              \/ /\ Ended(r, status).call = r.call /\ Ended(r, status).applied = r.applied
                 /\ Ended(r, status).status = status
<1>1. CASE r.status = "orphaned"
  BY <1>1, NoRequestShaped DEF Ended, NoRequest
<1>2. CASE r.status # "orphaned"
  <2> DEFINE e == [r EXCEPT !.status = status, !.left = <<>>, !.profile = 0, !.found = 0,
                            !.copy = NoCR, !.got = NoCR, !.todo = {}]
  <2>1. Ended(r, status) = e
    BY <1>2 DEF Ended
  <2>2. e \in Requests
    <3>1. /\ status \in Live \cup {"idle", "ok", "error"} /\ <<>> \in Seq(StepNames)
          /\ 0 \in Nat /\ NoCR \in Resources /\ {} \in SUBSET Nat
      BY NoRowsType
    <3> QED
      BY <3>1 DEF Requests
  <2>3. /\ e.status = status /\ e.left = <<>> /\ e.got = NoCR /\ e.found = 0
        /\ e.call = r.call /\ e.applied = r.applied
    BY DEF Requests
  <2> HIDE DEF e
  <2> QED
    BY <2>1, <2>2, <2>3 DEF Shaped, Live
<1> QED
  BY <1>1, <1>2

LEMMA AskOf ==
    ASSUME NEW r \in Requests
    PROVE  /\ r.call.op \notin Edits => Ask(r) = Idle
           /\ r.call.op \in Edits =>
                 /\ r.status \in Live =>
                       Ask(r) = [call |-> r.call,
                                 status |-> IF r.applied THEN "applied" ELSE "pending"]
                 /\ r.status = "error" =>
                       Ask(r) = [call |-> r.call,
                                 status |-> IF r.applied THEN "unsure" ELSE "refused"]
                 /\ r.status = "ok" => Ask(r) = [call |-> r.call, status |-> "ok"]
           /\ r.call = NoCall => Ask(r) = Idle
<1>1. NoCall.op \notin Edits
  BY DEF NoCall, Edits, SourceEdits, RuleEdits, ExtensionEdits, FunctionEdits
<1>2. Idle = [call |-> NoCall, status |-> "idle"]
  BY DEF Idle, Store!Idle
<1> QED
  BY <1>1, <1>2 DEF Ask, AskStatus, Live

LEMMA EndedQuiet ==
    ASSUME NEW r \in Requests, r.status \in Live
    PROVE  /\ Quiet(Ask(r), Ask(Ended(r, "error")))
           /\ r.call.op \notin Edits \/ r.applied => Quiet(Ask(r), Ask(Ended(r, "ok")))
<1>1. ASSUME NEW status \in {"ok", "error"},
             status = "ok" => r.call.op \notin Edits \/ r.applied
      PROVE  Quiet(Ask(r), Ask(Ended(r, status)))
  <2> DEFINE e == Ended(r, status)
  <2>1. e \in Requests /\ \/ e = NoRequest
                          \/ e.call = r.call /\ e.applied = r.applied /\ e.status = status
    BY EndedShaped
  <2> HIDE DEF e
  <2>2. ASSUME e = NoRequest
        PROVE  Quiet(Ask(r), Ask(e))
    BY <2>2, NoRequestShaped DEF Quiet
  <2>3. ASSUME r.call.op \notin Edits, e.call = r.call
        PROVE  Quiet(Ask(r), Ask(e))
    BY <2>1, <2>3, AskOf DEF Quiet
  <2>4. ASSUME r.call.op \in Edits,
               e.call = r.call, e.applied = r.applied, e.status = status
        PROVE  Quiet(Ask(r), Ask(e))
    <3>1. Ask(r) = [call |-> r.call, status |-> IF r.applied THEN "applied" ELSE "pending"]
      BY <2>4, AskOf
    <3>2. Ask(e) = [call |-> r.call,
                    status |-> IF status = "ok" THEN "ok"
                               ELSE IF r.applied THEN "unsure" ELSE "refused"]
      BY <2>1, <2>4, AskOf
    <3> QED
      BY <3>1, <3>2, <1>1, <2>4 DEF Quiet
  <2>5. Quiet(Ask(r), Ask(e))
    BY <2>1, <2>2, <2>3, <2>4
  <2> QED
    BY <2>5 DEF e
<1> QED
  BY <1>1

LEMMA EndedLeaves ==
    ASSUME NEW r \in Requests, r.status \in Live, NEW status \in {"ok", "error"},
           status = "ok" => r.call.op \notin Edits \/ r.applied
    PROVE  /\ Ended(r, status) \in Requests /\ Shaped(Ended(r, status))
           /\ Quiet(Ask(r), Ask(Ended(r, status))) /\ Keeps(r, Ended(r, status))
<1>1. /\ Ended(r, status) \in Requests /\ Shaped(Ended(r, status))
      /\ Ended(r, status).got = NoCR /\ Ended(r, status).found = 0
  BY EndedShaped
<1>2. Keeps(r, Ended(r, status))
  BY <1>1 DEF Keeps
<1>3. Quiet(Ask(r), Ask(Ended(r, status)))
  <2>1. CASE status = "ok"
    BY <2>1, EndedQuiet
  <2>2. CASE status = "error"
    BY <2>2, EndedQuiet
  <2> QED
    BY <2>1, <2>2
<1> QED
  BY <1>1, <1>2, <1>3

LEMMA QuietTaken ==
    ASSUME NEW r \in Requests, NEW d \in Requests, NEW b,
           r.status \in Live, r.call.op \in Edits, ~r.applied,
           d.status = r.status, d.call = r.call, d.applied, Quiet(Ask(d), b)
    PROVE  Taken(Ask(r), b)
<1>1. Ask(r) = [call |-> r.call, status |-> "pending"]
  BY AskOf
<1>2. Ask(d) = [call |-> r.call, status |-> "applied"]
  BY AskOf
<1> QED
  BY <1>1, <1>2 DEF Quiet, Taken

-----------------------------------------------------------------------------
(* How a request leaves a step.                                            *)

LEMMA SucceededLeaves ==
    ASSUME NEW r \in Requests, Leaving(r)
    PROVE  /\ Succeeded(r) \in Requests /\ Shaped(Succeeded(r))
           /\ Quiet(Ask(r), Ask(Succeeded(r))) /\ Keeps(r, Succeeded(r))
<1>1. CASE Len(r.left) > 1
  <2> DEFINE n == [r EXCEPT !.left = Tail(@)]
  <2>1. /\ Ordered(Tail(r.left)) /\ Owned(Tail(r.left), r.call.op)
        /\ \A step : Has(Tail(r.left), step) => Has(r.left, step)
    BY <1>1, TailOrdered DEF Leaving
  <2>2. Len(r.left) \in Nat /\ \A i \in 2 .. Len(r.left) : Tail(r.left)[i - 1] = r.left[i]
    BY DEF Leaving, Ordered
  <2>3. /\ Len(Tail(r.left)) = Len(r.left) - 1
        /\ \A i \in 1 .. Len(r.left) - 1 : Tail(r.left)[i] = r.left[i + 1]
    BY <1>1 DEF Leaving, Ordered
  <2>4. r.applied => ~Has(Tail(r.left), "put") /\ ~Has(Tail(r.left), "edit")
    BY <2>2, <2>3 DEF Leaving, Has
  <2>5. r.call.op \in Edits /\ ~r.applied /\ ~r.failed => Has(Tail(r.left), "put")
    <3> SUFFICES ASSUME NEW i \in 2 .. Len(r.left), r.left[i] = "put"
                 PROVE  Has(Tail(r.left), "put")
      BY DEF Leaving
    <3>1. i - 1 \in 1 .. Len(Tail(r.left))
      BY <2>2, <2>3
    <3> QED
      BY <3>1, <2>2 DEF Has
  <2>6. Tail(r.left) \in Seq(StepNames) /\ Tail(r.left) # <<>>
    BY <2>1 DEF Ordered
  <2>7. /\ n \in Requests /\ n.left = Tail(r.left) /\ n.call = r.call
        /\ n.status = r.status /\ n.applied = r.applied /\ n.failed = r.failed
        /\ n.found = r.found /\ n.got = r.got
    BY <2>6 DEF Requests
  <2> HIDE DEF n
  <2>8. r.status \in Live /\ r.status # "idle"
    BY DEF Leaving, Live
  <2>9. Shaped(n)
    BY <2>1, <2>4, <2>5, <2>6, <2>7, <2>8 DEF Shaped, Leaving
  <2>10. Ask(n) = Ask(r)
    BY <2>7 DEF Ask, AskStatus
  <2>11. Quiet(Ask(r), Ask(n)) /\ Keeps(r, n)
    BY <2>7, <2>10 DEF Quiet, Keeps
  <2> QED
    BY <1>1, <2>7, <2>9, <2>11 DEF Succeeded, n
<1>2. CASE ~(Len(r.left) > 1)
  <2>1. r.failed \/ r.call.op \notin Edits \/ r.applied
    BY <1>2 DEF Leaving, Ordered
  <2>2. r.status \in Live /\ Succeeded(r) = Ended(r, IF r.failed THEN "error" ELSE "ok")
    BY <1>2 DEF Succeeded, Leaving
  <2>3. CASE r.failed
    BY <2>2, <2>3, EndedLeaves
  <2>4. CASE ~r.failed
    BY <2>1, <2>2, <2>4, EndedLeaves
  <2> QED
    BY <2>3, <2>4
<1> QED
  BY <1>1, <1>2

LEMMA FailedLeaves ==
    ASSUME NEW r \in Requests, r.status \in Live
    PROVE  /\ Failed(r) \in Requests /\ Shaped(Failed(r))
           /\ Quiet(Ask(r), Ask(Failed(r))) /\ Keeps(r, Failed(r))
<1> DEFINE ToPage == /\ r.call.op = "updateExtractRule" /\ r.status = "running"
                     /\ Head(r.left) \in {"edit", "put"}
<1>1. CASE ToPage
  <2> DEFINE n == [r EXCEPT !.left = UI!ExtractRule, !.failed = TRUE, !.got = NoCR,
                            !.found = 0]
  <2>1. Fits(UI!ExtractRule, "extractRule")
    <3>1. "extractRule" \in UI!Ops /\ UI!Routes["extractRule"] = UI!ExtractRule
      BY DEF UI!Ops, UI!Routes
    <3> QED
      BY <3>1, RoutesFit
  <2>2. /\ Ordered(UI!ExtractRule) /\ ~Has(UI!ExtractRule, "put")
        /\ ~Has(UI!ExtractRule, "edit") /\ ~Has(UI!ExtractRule, "create")
        /\ ~Has(UI!ExtractRule, "delete") /\ Owned(UI!ExtractRule, r.call.op)
    BY <2>1 DEF Owned, Has, UI!ExtractRule, Fits, Edits, SourceEdits, RuleEdits, ExtensionEdits,
       FunctionEdits
  <2>3. UI!ExtractRule \in Seq(StepNames) /\ UI!ExtractRule # <<>>
    BY <2>2 DEF Ordered
  <2>4. /\ n \in Requests /\ n.left = UI!ExtractRule /\ n.call = r.call
        /\ n.status = r.status /\ n.applied = r.applied /\ n.failed
        /\ n.found = 0 /\ n.got = NoCR
    BY <2>3, NoRowsType DEF Requests
  <2> HIDE DEF n
  <2>5. r.status # "idle"
    BY DEF Live
  <2>6. Shaped(n)
    BY <2>2, <2>3, <2>4, <2>5 DEF Shaped
  <2>7. Ask(n) = Ask(r)
    BY <2>4 DEF Ask, AskStatus
  <2>8. Quiet(Ask(r), Ask(n)) /\ Keeps(r, n)
    BY <2>4, <2>7 DEF Quiet, Keeps
  <2> QED
    BY <1>1, <2>4, <2>6, <2>8 DEF Failed, n
<1>2. CASE ~ToPage
  BY <1>2, EndedLeaves DEF Failed
<1> QED
  BY <1>1, <1>2

LEMMA ShapedLeaves ==
    ASSUME NEW r \in Requests, Shaped(r), r.status \in Live, r.left[1] # "put"
    PROVE  Leaving(r)
<1>1. Len(r.left) \in Nat
  BY DEF Requests
<1>2. r.applied => \A i \in 2 .. Len(r.left) : r.left[i] \notin {"put", "edit"}
  BY <1>1 DEF Shaped, Has
<1>3. r.call.op \in Edits /\ ~r.applied /\ ~r.failed =>
         \E i \in 2 .. Len(r.left) : r.left[i] = "put"
  BY <1>1 DEF Shaped, Has
<1> QED
  BY <1>2, <1>3 DEF Leaving, Shaped

\* A call that comes to its write, or finds that it need not write, is made.
LEMMA PutLeaves ==
    ASSUME NEW r \in Requests, Shaped(r), r.status \in Live, r.left[1] = "put"
    PROVE  LET d == [r EXCEPT !.applied = TRUE, !.got = NoCR] IN
           /\ d \in Requests /\ Leaving(d) /\ r.call.op \in Edits /\ ~r.applied
           /\ d.status = r.status /\ d.call = r.call /\ d.applied
           /\ d.found = r.found /\ d.got = NoCR
<1> DEFINE d == [r EXCEPT !.applied = TRUE, !.got = NoCR]
<1>1. /\ d \in Requests /\ d.left = r.left /\ d.status = r.status /\ d.call = r.call
      /\ d.applied /\ d.found = r.found /\ d.got = NoCR
  BY NoRowsType DEF Requests
<1>2. Ordered(r.left) /\ Len(r.left) \in Nat /\ Len(r.left) > 0
  BY DEF Shaped, Requests, Ordered
<1>3. Has(r.left, "put")
  BY <1>2 DEF Has
<1>4. r.call.op \in Edits /\ ~r.applied
  BY <1>3 DEF Shaped
<1>5. \A i \in 2 .. Len(r.left) : r.left[i] \notin {"put", "edit"}
  <2> SUFFICES ASSUME NEW i \in 2 .. Len(r.left), r.left[i] \in {"put", "edit"}
               PROVE  FALSE
    OBVIOUS
  <2>1. 1 \in 1 .. Len(r.left) /\ i \in 1 .. Len(r.left)
    BY <1>2
  <2> QED
    BY <2>1, <1>2 DEF Ordered
<1> HIDE DEF d
<1>6. Leaving(d)
  BY <1>1, <1>2, <1>4, <1>5 DEF Leaving, Shaped
<1> QED
  BY <1>1, <1>4, <1>6 DEF d

LEMMA EditLeaves ==
    ASSUME NEW r \in Requests, Shaped(r), r.status \in Live, r.left[1] = "edit"
    PROVE  LET d == [r EXCEPT !.left = Tail(@), !.applied = TRUE] IN
           /\ d \in Requests /\ Leaving(d) /\ r.call.op \in Edits /\ ~r.applied
           /\ d.status = r.status /\ d.call = r.call /\ d.applied
           /\ d.found = r.found /\ d.got = r.got
<1> DEFINE d == [r EXCEPT !.left = Tail(@), !.applied = TRUE]
<1>1. Ordered(r.left) /\ Len(r.left) \in Nat /\ 1 \in 1 .. Len(r.left)
  BY DEF Shaped, Requests, Ordered
<1>2. Len(r.left) > 1 /\ r.left[2] = "put"
  BY <1>1 DEF Ordered
<1>3. /\ Ordered(Tail(r.left)) /\ Owned(Tail(r.left), r.call.op)
      /\ \A step : Has(Tail(r.left), step) => Has(r.left, step)
  BY <1>1, <1>2, TailOrdered DEF Shaped
<1>4. r.call.op \in Edits /\ ~r.applied
  BY <1>1 DEF Shaped, Has
<1>5. /\ Tail(r.left) \in Seq(StepNames) /\ Len(Tail(r.left)) = Len(r.left) - 1
      /\ \A i \in 1 .. Len(r.left) - 1 : Tail(r.left)[i] = r.left[i + 1]
  BY <1>1, <1>2 DEF Ordered
<1>6. \A i \in 2 .. Len(Tail(r.left)) : Tail(r.left)[i] \notin {"put", "edit"}
  <2> SUFFICES ASSUME NEW i \in 2 .. Len(Tail(r.left)), Tail(r.left)[i] \in {"put", "edit"}
               PROVE  FALSE
    OBVIOUS
  <2>1. /\ 1 \in 1 .. Len(Tail(r.left)) /\ i \in 1 .. Len(Tail(r.left))
        /\ Tail(r.left)[1] = "put"
    BY <1>1, <1>2, <1>5
  <2>2. i <= 1
    BY <2>1, <1>3 DEF Ordered
  <2> QED
    BY <2>2, <1>5, <1>1
<1>7. /\ d \in Requests /\ d.left = Tail(r.left) /\ d.status = r.status /\ d.call = r.call
      /\ d.applied /\ d.found = r.found /\ d.got = r.got
  BY <1>5 DEF Requests
<1> HIDE DEF d
<1>8. Leaving(d)
  BY <1>3, <1>4, <1>6, <1>7 DEF Leaving, Shaped
<1> QED
  BY <1>4, <1>7, <1>8 DEF d

-----------------------------------------------------------------------------
(* The invariant.  A copy that a request is to write from is the resource  *)
(* itself as long as their numbers agree, and the call is not refused on   *)
(* it; a pipeline was found by its id in the making that was looked at.    *)

Fresh(r) ==
    r.got # NoCR =>
       /\ r.got.rev <= rev
       /\ cr.uid # 0 /\ r.got.uid = cr.uid /\ r.got.rev = cr.rev => r.got = cr
       /\ ~Refuses(r.got, r.call)
Known(r) ==
    r.found # 0 => /\ r.found <= made
                   /\ r.found = made => r.call.uid = made
Good(r) == r \in Requests /\ Shaped(r) /\ Fresh(r) /\ Known(r)

Numbered == \A p \in profiles : p.id \in Nat

IInv ==
    /\ scene \in Scenes /\ asked \in Nat /\ Numbered
    /\ cr \in Resources /\ rev \in Nat /\ made \in Nat
    /\ cr.uid \in {0, made} /\ cr.rev <= rev
    /\ req \in [Slots -> Requests] /\ \A s \in Slots : Good(req[s])

LEMMA KeepsGood ==
    ASSUME NEW a, Good(a), NEW b \in Requests, Shaped(b), Keeps(a, b)
    PROVE  Good(b)
<1>1. Fresh(b)
  BY DEF Good, Fresh, Keeps
<1>2. Known(b)
  BY DEF Good, Known, Keeps
<1> QED
  BY <1>1, <1>2 DEF Good

LEMMA QuietAnswer ==
    ASSUME NEW r \in Requests, Shaped(r), NEW b, Quiet(Ask(r), b)
    PROVE  /\ b.status \in Store!Statuses /\ b.status \in Store!Ends(Ask(r).status)
           /\ b = IF b.status = "idle" THEN Idle ELSE [Ask(r) EXCEPT !.status = b.status]
<1>1. Idle.status = "idle" /\ Idle \in [call : {NoCall}, status : Store!Statuses]
  BY DEF Idle, Store!Idle, Store!Statuses
<1>2. \/ Ask(r) = Idle
      \/ \E st \in {"pending", "applied", "unsure", "refused", "ok"} :
            Ask(r) = [call |-> r.call, status |-> st]
  <2>1. r.status \in Live \cup {"idle", "ok", "error"}
    BY DEF Requests
  <2>2. r.status = "idle" => r.call = NoCall
    BY DEF Shaped
  <2> QED
    BY <2>1, <2>2, AskOf
<1>3. CASE Ask(r) = Idle
  BY <1>1, <1>3 DEF Quiet, Store!Ends
<1>4. ASSUME NEW st \in {"pending", "applied", "unsure", "refused", "ok"},
             Ask(r) = [call |-> r.call, status |-> st]
      PROVE  /\ b.status \in Store!Statuses /\ b.status \in Store!Ends(Ask(r).status)
             /\ b = IF b.status = "idle" THEN Idle ELSE [Ask(r) EXCEPT !.status = b.status]
  BY <1>1, <1>4 DEF Quiet, Store!Ends, Store!Statuses
<1> QED
  BY <1>2, <1>3, <1>4

\* A step after which no copy is current that was not.
LEMMA InvStep ==
    ASSUME IInv, UNCHANGED scene, asked' \in Nat, Numbered',
           cr' \in Resources, rev' \in Nat, made' \in Nat, rev <= rev', made <= made',
           cr'.uid \in {0, made'}, cr'.rev <= rev',
           cr' = cr \/ cr'.uid = 0 \/ rev < cr'.rev,
           req' \in [Slots -> Requests], \A s \in Slots : Good(req'[s])
    PROVE  IInv'
<1>1. ASSUME NEW s \in Slots
      PROVE  Good(req[s])'
  <2> DEFINE r == req'[s]
  <2>1. r \in Requests /\ Shaped(r) /\ Fresh(r) /\ Known(r)
    BY DEF Good
  <2>2. r.got.rev \in Nat /\ r.found \in Nat
    BY <2>1 DEF Requests, Resources
  <2>3. /\ cr'.rev \in Nat /\ rev \in Nat /\ made \in Nat
    BY DEF IInv, Resources
  <2> HIDE DEF r
  <2>4. r.got # NoCR =>
           /\ r.got.rev <= rev'
           /\ cr'.uid # 0 /\ r.got.uid = cr'.uid /\ r.got.rev = cr'.rev => r.got = cr'
           /\ ~Refuses(r.got, r.call)
    BY <2>1, <2>2, <2>3 DEF Fresh
  <2>5. r.found # 0 => r.found <= made' /\ (r.found = made' => r.call.uid = made')
    BY <2>1, <2>2, <2>3 DEF Known
  <2> QED
    BY <2>1, <2>4, <2>5 DEF Good, Fresh, Known, r
<1> QED
  BY <1>1 DEF IInv

LEMMA QuietStep ==
    ASSUME IInv, UNCHANGED <<scene, cr, rev, made>>, asked' \in Nat, Numbered',
           req' \in [Slots -> Requests],
           \A s \in Slots : Good(req'[s]) /\ Quiet(Ask(req[s]), Ask(req'[s]))
    PROVE  IInv' /\ Store!Next
<1>1. IInv'
  BY InvStep DEF IInv, Resources
<1>2. Store!Settle
  <2> DEFINE to == [s \in Slots |-> Ask(req'[s]).status]
  <2>1. ASSUME NEW s \in Slots
        PROVE  /\ Ask(req'[s]).status \in Store!Statuses
               /\ Ask(req'[s]).status \in Store!Ends(Ask(req[s]).status)
               /\ Ask(req'[s]) = IF Ask(req'[s]).status = "idle" THEN Idle
                                 ELSE [Ask(req[s]) EXCEPT !.status = Ask(req'[s]).status]
    BY QuietAnswer DEF IInv, Good
  <2>2. to \in [Slots -> Store!Statuses]
    BY <2>1
  <2>3. \A s \in Slots : to[s] \in Store!Ends([t \in Slots |-> Ask(req[t])][s].status)
    BY <2>1
  <2>4. [s \in Slots |-> Ask(req[s])]' = [s \in Slots |-> Store!Answered(s, to[s])]
    BY <2>1 DEF Store!Answered, Idle
  <2>5. Content(cr)' = Content(cr)
    BY DEF Content
  <2> HIDE DEF to
  <2> QED
    BY <2>2, <2>3, <2>4, <2>5 DEF Store!Settle
<1> QED
  BY <1>1, <1>2 DEF Store!Next

LEMMA OneQuiet ==
    ASSUME IInv, NEW s \in Slots, NEW b, Good(b), Quiet(Ask(req[s]), Ask(b)),
           Becomes(s, b), UNCHANGED <<Bound, OfResource>>, Numbered'
    PROVE  IInv' /\ Store!Next
<1>1. req' \in [Slots -> Requests] /\ req'[s] = b /\ \A t \in Slots \ {s} : req'[t] = req[t]
  BY DEF Becomes, IInv, Good
<1>2. \A t \in Slots : Good(req'[t]) /\ Quiet(Ask(req[t]), Ask(req'[t]))
  BY <1>1 DEF IInv, Quiet
<1>3. UNCHANGED <<scene, cr, rev, made>> /\ asked' \in Nat
  BY DEF Bound, OfResource, IInv
<1> QED
  BY <1>1, <1>2, <1>3, QuietStep

LEMMA GoesGood ==
    ASSUME IInv, NEW s \in Slots, req[s].status \in Live, req[s].left[1] # "put"
    PROVE  Good(Succeeded(req[s])) /\ Quiet(Ask(req[s]), Ask(Succeeded(req[s])))
<1>1. req[s] \in Requests /\ Good(req[s]) /\ Leaving(req[s])
  BY ShapedLeaves DEF IInv, Good
<1> QED
  BY <1>1, SucceededLeaves, KeepsGood

LEMMA FailsGood ==
    ASSUME IInv, NEW s \in Slots, req[s].status \in Live
    PROVE  Good(Failed(req[s])) /\ Quiet(Ask(req[s]), Ask(Failed(req[s])))
<1>1. req[s] \in Requests /\ Good(req[s])
  BY DEF IInv, Good
<1> QED
  BY <1>1, FailedLeaves, KeepsGood

\* A step that moves one request on, or fails it.
LEMMA Moves ==
    ASSUME IInv, NEW s \in Slots, req[s].status \in Live, req[s].left[1] # "put",
           Goes(s) \/ Fails(s), UNCHANGED <<Bound, OfResource>>, Numbered'
    PROVE  IInv' /\ Store!Next
<1>1. CASE Goes(s)
  BY <1>1, GoesGood, OneQuiet DEF Goes
<1>2. CASE Fails(s)
  BY <1>2, FailsGood, OneQuiet DEF Fails
<1> QED
  BY <1>1, <1>2

\* So does one that also notes a profile, users to do, or a crossing.
LEMMA NotesLeaves ==
    ASSUME NEW r \in Requests, NEW id \in Nat, NEW users \in SUBSET Nat,
           NEW crossing \in BOOLEAN
    PROVE  LET n == [r EXCEPT !.profile = id]
               d == [r EXCEPT !.todo = users]
               c == [r EXCEPT !.crossed = crossing] IN
           \A m \in {n, d, c} :
              /\ m \in Requests /\ (Shaped(r) => Shaped(m))
              /\ (Leaving(r) => Leaving(m))
              /\ Ask(m) = Ask(r) /\ Keeps(r, m)
<1> SUFFICES ASSUME NEW m \in {[r EXCEPT !.profile = id], [r EXCEPT !.todo = users],
                               [r EXCEPT !.crossed = crossing]}
             PROVE  /\ m \in Requests /\ (Shaped(r) => Shaped(m))
                    /\ (Leaving(r) => Leaving(m)) /\ Ask(m) = Ask(r) /\ Keeps(r, m)
  OBVIOUS
<1>1. /\ m \in Requests /\ m.call = r.call /\ m.status = r.status /\ m.left = r.left
      /\ m.failed = r.failed /\ m.applied = r.applied /\ m.found = r.found /\ m.got = r.got
  BY DEF Requests
<1>2. Shaped(r) => Shaped(m)
  BY <1>1 DEF Shaped
<1>3. Leaving(r) => Leaving(m)
  BY <1>1 DEF Leaving
<1>4. Ask(m) = Ask(r) /\ Keeps(r, m)
  BY <1>1 DEF Ask, AskStatus, Keeps
<1> QED
  BY <1>1, <1>2, <1>3, <1>4

-----------------------------------------------------------------------------
(* The steps of a request that leave the resource as it is.                *)

StoreStep == [Store!Next]_(Store!vars)

LEMMA AtStep ==
    ASSUME IInv, NEW s \in Slots, NEW steps, At(s, steps)
    PROVE  /\ req[s] \in Requests /\ Good(req[s]) /\ Shaped(req[s]) /\ Ordered(req[s].left)
           /\ req[s].status \in Live /\ req[s].left[1] \in steps
           /\ Len(req[s].left) \in Nat /\ 1 \in 1 .. Len(req[s].left)
<1>1. req[s] \in Requests /\ Good(req[s]) /\ Shaped(req[s]) /\ req[s].status \in Live
  BY DEF IInv, Good, At
<1>2. Ordered(req[s].left) /\ req[s].left[1] \in steps
  BY <1>1 DEF At, Shaped, Ordered, Requests
<1>3. Len(req[s].left) \in Nat /\ Len(req[s].left) # 0
  <2>1. req[s].left \in Seq(StepNames) /\ req[s].left # <<>>
    BY <1>2 DEF Ordered
  <2> QED
    BY <2>1
<1> QED
  BY <1>1, <1>2, <1>3

LEMMA PassingSteps ==
    ASSUME IInv, NEW s \in Slots,
           \/ Pass(s) \/ Rpc(s) \/ LooksForGrant(s) \/ Rewrite(s)
           \/ LogIn(s) \/ LogOut(s)
    PROVE  IInv' /\ StoreStep
<1>1. At(s, {"cluster", "read", "relay", "trigger", "purge", "rpc", "grant", "rewrite",
             "login", "logout"})
  BY DEF Pass, Rpc, LooksForGrant, Rewrite, LogIn, LogOut, At
<1>2. req[s].status \in Live /\ req[s].left[1] # "put"
  BY <1>1, AtStep
<1>3. Goes(s) \/ Fails(s)
  BY DEF Pass, Rpc, LooksForGrant, Rewrite, LogIn, LogOut
<1>4. UNCHANGED <<Bound, OfResource, profiles>>
  BY DEF Pass, Rpc, LooksForGrant, Rewrite, LogIn, LogOut, OfUI, tables
<1>5. Numbered'
  BY <1>4 DEF IInv, Numbered
<1> QED
  BY <1>2, <1>3, <1>4, <1>5, Moves DEF StoreStep

LEMMA FailingStep ==
    ASSUME IInv, NEW s \in Slots, StepFails(s)
    PROVE  IInv' /\ StoreStep
<1>1. /\ req[s].status \in Live /\ Becomes(s, Failed(req[s]))
      /\ UNCHANGED <<Bound, OfResource, profiles>>
  BY DEF StepFails, Fails, OfUI, tables
<1>2. Numbered'
  BY <1>1 DEF IInv, Numbered
<1> QED
  BY <1>1, <1>2, FailsGood, OneQuiet DEF StoreStep

LEMMA ProfileWrites ==
    ASSUME IInv, NEW s \in Slots, WritesProfile(s)
    PROVE  IInv' /\ StoreStep
<1>1. /\ req[s] \in Requests /\ req[s].status \in Live /\ req[s].left[1] # "put"
      /\ Goes(s) /\ UNCHANGED <<Bound, OfResource>>
  BY AtStep DEF WritesProfile
<1>2. Numbered'
  <2>1. req[s].profile \in Nat /\ req[s].call.id \in Nat /\ Numbered
    BY <1>1 DEF Requests, CallRows, IInv
  <2> DEFINE q == req[s].call
             P == FormProfile(req[s].profile, q)
             C == FormProfile(q.id, q)
  <2>2. P.id \in Nat /\ C.id \in Nat
    BY <2>1 DEF FormProfile
  <2> HIDE DEF P, C
  <2>3. \/ profiles' = UpdateUserProfile(profiles, P)
        \/ profiles' = CreateUserProfile(profiles, C)
        \/ profiles' = DeleteUserProfile(profiles, q.user)
    <3>1. Head(req[s].left) \in {"updateProfile", "createProfile", "deleteProfile"}
      BY DEF WritesProfile, At
    <3> QED
      BY <3>1 DEF WritesProfile, P, C, At
  <2> HIDE DEF q
  <2> QED
    BY <2>1, <2>2, <2>3
       DEF Numbered, UpdateUserProfile, CreateUserProfile, DeleteUserProfile
<1> QED
  BY <1>1, <1>2, Moves DEF StoreStep

LEMMA NotedGood ==
    ASSUME IInv, NEW s \in Slots, req[s].status \in Live, req[s].left[1] # "put",
           NEW id \in Nat
    PROVE  LET b == Succeeded([req[s] EXCEPT !.profile = id]) IN
           Good(b) /\ Quiet(Ask(req[s]), Ask(b))
<1> DEFINE n == [req[s] EXCEPT !.profile = id]
<1>1. req[s] \in Requests /\ Good(req[s]) /\ Shaped(req[s]) /\ Leaving(req[s])
  BY ShapedLeaves DEF IInv, Good
<1>2. n \in Requests /\ Shaped(n) /\ Leaving(n) /\ Ask(n) = Ask(req[s]) /\ Keeps(req[s], n)
  BY <1>1, NotesLeaves
<1> HIDE DEF n
<1>3. Good(n)
  BY <1>1, <1>2, KeepsGood
<1>4. Good(Succeeded(n)) /\ Quiet(Ask(req[s]), Ask(Succeeded(n)))
  BY <1>2, <1>3, SucceededLeaves, KeepsGood
<1> QED
  BY <1>4 DEF n

LEMMA ProfileFinds ==
    ASSUME IInv, NEW s \in Slots, FindsProfile(s)
    PROVE  IInv' /\ StoreStep
<1>1. /\ req[s].status \in Live /\ req[s].left[1] # "put"
      /\ UNCHANGED <<Bound, OfResource, profiles>>
  BY AtStep DEF FindsProfile, OfUI, tables
<1>2. Numbered /\ Numbered'
  BY <1>1 DEF IInv, Numbered
<1>3. \/ \E p \in profiles : Becomes(s, Succeeded([req[s] EXCEPT !.profile = p.id]))
      \/ Fails(s)
  BY DEF FindsProfile, GetUserProfileByEmail, GetUserProfile
<1>4. CASE Fails(s)
  BY <1>1, <1>2, <1>4, Moves DEF StoreStep
<1>5. ASSUME NEW p \in profiles, Becomes(s, Succeeded([req[s] EXCEPT !.profile = p.id]))
      PROVE  IInv' /\ StoreStep
  <2>1. p.id \in Nat
    BY <1>2 DEF Numbered
  <2> QED
    BY <1>1, <1>2, <1>5, <2>1, NotedGood, OneQuiet DEF StoreStep
<1> QED
  BY <1>3, <1>4, <1>5

LEMMA ProfileLooks ==
    ASSUME IInv, NEW s \in Slots, LooksForProfile(s)
    PROVE  IInv' /\ StoreStep
<1> DEFINE skipped == [req[s] EXCEPT !.left = WithoutGrant(Tail(@))]
<1>1. /\ req[s] \in Requests /\ Good(req[s]) /\ Shaped(req[s]) /\ Ordered(req[s].left)
      /\ req[s].status \in Live /\ req[s].left[1] = "profile"
      /\ Len(req[s].left) \in Nat /\ 1 \in 1 .. Len(req[s].left)
      /\ UNCHANGED <<Bound, OfResource, profiles>>
  BY AtStep DEF LooksForProfile, OfUI, tables
<1>2. Numbered /\ Numbered'
  BY <1>1 DEF IInv, Numbered
<1>3. \/ Becomes(s, skipped)
      \/ \E p \in profiles : Becomes(s, Succeeded([req[s] EXCEPT !.profile = p.id]))
      \/ Fails(s)
  BY DEF LooksForProfile, GetUserProfileByEmail
<1>4. CASE Fails(s)
  BY <1>1, <1>2, <1>4, Moves DEF StoreStep
<1>5. ASSUME NEW p \in profiles, Becomes(s, Succeeded([req[s] EXCEPT !.profile = p.id]))
      PROVE  IInv' /\ StoreStep
  <2>1. p.id \in Nat
    BY <1>2 DEF Numbered
  <2> QED
    BY <1>1, <1>2, <1>5, <2>1, NotedGood, OneQuiet DEF StoreStep
<1>6. Good(skipped) /\ Quiet(Ask(req[s]), Ask(skipped))
  <2> DEFINE n == Succeeded(req[s])
  <2>1. Good(n) /\ Quiet(Ask(req[s]), Ask(n))
    BY <1>1, GoesGood
  <2>2. Len(req[s].left) > 1 /\ (req[s].left[2] = "grant" => Len(req[s].left) > 2)
    BY <1>1 DEF Ordered
  <2>3. n = [req[s] EXCEPT !.left = Tail(@)]
    BY <2>2 DEF Succeeded
  <2>4. /\ Tail(req[s].left) \in Seq(StepNames) /\ Len(Tail(req[s].left)) = Len(req[s].left) - 1
        /\ Tail(req[s].left)[1] = req[s].left[2]
    BY <1>1, <2>2 DEF Ordered
  <2>5. Head(Tail(req[s].left)) = req[s].left[2]
    BY <2>2, <2>4
  <2>6. CASE req[s].left[2] # "grant"
    BY <2>1, <2>3, <2>5, <2>6 DEF WithoutGrant
  <2>7. CASE req[s].left[2] = "grant"
    <3> HIDE DEF n
    <3>6. n \in Requests /\ Shaped(n)
      BY <2>1 DEF Good
    <3>7. /\ n.left = Tail(req[s].left) /\ n.status = req[s].status
          /\ n.call = req[s].call /\ n.applied = req[s].applied
      BY <1>1, <2>3, <2>4 DEF Requests
    <3>8. Ask(n) = Ask(req[s])
      BY <3>7 DEF Ask, AskStatus
    <3>1. /\ n.left = Tail(req[s].left) /\ n.status \in Live /\ n \in Requests
          /\ Ask(n) = Ask(req[s]) /\ Shaped(n) /\ Len(n.left) > 1 /\ n.left[1] # "put"
      BY <1>1, <2>2, <2>4, <2>7, <3>6, <3>7, <3>8
    <3>2. Good(Succeeded(n)) /\ Quiet(Ask(n), Ask(Succeeded(n)))
      BY <2>1, <3>1, ShapedLeaves, SucceededLeaves, KeepsGood
    <3>3. Succeeded(n) = [n EXCEPT !.left = Tail(@)]
      BY <3>1 DEF Succeeded
    <3>4. [n EXCEPT !.left = Tail(@)] = [req[s] EXCEPT !.left = Tail(Tail(@))]
      BY <1>1, <2>3 DEF Requests
    <3>5. skipped = Succeeded(n)
      BY <3>3, <3>4, <2>5, <2>7 DEF WithoutGrant
    <3> QED
      BY <3>1, <3>2, <3>5
  <2> QED
    BY <2>6, <2>7
<1> HIDE DEF skipped
<1>7. CASE Becomes(s, skipped)
  BY <1>1, <1>2, <1>6, <1>7, OneQuiet DEF StoreStep
<1> QED
  BY <1>3, <1>4, <1>5, <1>7

LEMMA LookupStep ==
    ASSUME IInv, NEW s \in Slots, Lookup(s)
    PROVE  IInv' /\ StoreStep
<1> DEFINE r == req[s]
           d == [r EXCEPT !.found = made, !.copy = LookedUp(s)]
<1>1. /\ r \in Requests /\ Good(r) /\ Shaped(r) /\ Ordered(r.left)
      /\ r.status \in Live /\ r.left[1] = "lookup"
      /\ Len(r.left) \in Nat /\ 1 \in 1 .. Len(r.left)
      /\ UNCHANGED <<Bound, OfResource, profiles>>
  BY AtStep DEF Lookup, OfUI, tables
<1>2. Numbered'
  BY <1>1 DEF IInv, Numbered
<1>3. CASE Fails(s)
  BY <1>1, <1>2, <1>3, Moves DEF StoreStep
<1>4. CASE HasId(r.call.uid) /\ Becomes(s, Succeeded(d))
  <2>1. made \in Nat /\ LookedUp(s) \in Resources /\ r.call.uid = made
    BY <1>4, NoRowsType DEF IInv, LookedUp, HasId
  <2>2. /\ d \in Requests /\ d.left = r.left /\ d.status = r.status /\ d.call = r.call
        /\ d.applied = r.applied /\ d.failed = r.failed /\ d.found = made /\ d.got = r.got
    BY <1>1, <2>1 DEF Requests
  <2>3. ~Has(r.left, "create")
    BY <1>1 DEF Ordered, Has
  <2>4. Leaving(r)
    BY <1>1, ShapedLeaves
  <2> HIDE DEF d, r
  <2>5. Leaving(d) /\ Shaped(d)
    BY <1>1, <2>2, <2>3, <2>4 DEF Leaving, Shaped
  <2>6. Ask(d) = Ask(r)
    BY <2>2 DEF Ask, AskStatus
  <2>7. Good(d)
    BY <1>1, <2>1, <2>2, <2>5 DEF Good, Fresh, Known
  <2>8. Good(Succeeded(d)) /\ Quiet(Ask(r), Ask(Succeeded(d)))
    BY <2>2, <2>5, <2>6, <2>7, SucceededLeaves, KeepsGood
  <2> QED
    BY <1>1, <1>2, <1>4, <2>8, OneQuiet DEF StoreStep, r
<1> QED
  BY <1>3, <1>4 DEF Lookup

\* Several requests change at once, each quietly.
LEMMA GrantsStep ==
    ASSUME IInv, NEW s \in Slots, NEW rows, NEW b, Good(b), Quiet(Ask(req[s]), Ask(b)),
           Grants(s, rows, b), UNCHANGED <<Bound, OfResource, profiles>>
    PROVE  IInv' /\ StoreStep
<1>1. req' \in [Slots -> Requests]
  <2>1. \A t \in Slots : req[t] \in Requests /\ [req[t] EXCEPT !.crossed = TRUE] \in Requests
    BY NotesLeaves DEF IInv
  <2> QED
    BY <2>1 DEF Grants, Good
<1>2. ASSUME NEW t \in Slots
      PROVE  Good(req'[t]) /\ Quiet(Ask(req[t]), Ask(req'[t]))
  <2> DEFINE c == [req[t] EXCEPT !.crossed = TRUE]
  <2>1. req[t] \in Requests /\ Good(req[t]) /\ Shaped(req[t])
    BY DEF IInv, Good
  <2>2. c \in Requests /\ Shaped(c) /\ Ask(c) = Ask(req[t]) /\ Keeps(req[t], c)
    BY <2>1, NotesLeaves
  <2>3. Good(c)
    BY <2>1, <2>2, KeepsGood
  <2>4. (req'[t] = b /\ t = s) \/ req'[t] = req[t] \/ req'[t] = c
    BY DEF Grants
  <2> QED
    BY <2>1, <2>2, <2>3, <2>4 DEF Quiet
<1>3. asked' \in Nat /\ UNCHANGED <<scene, cr, rev, made>> /\ Numbered'
  BY DEF Bound, OfResource, IInv, Numbered
<1> QED
  BY <1>1, <1>2, <1>3, QuietStep DEF StoreStep

LEMMA GrantWrites ==
    ASSUME IInv, NEW s \in Slots, ChangesGrant(s) \/ DeletesGrants(s)
    PROVE  IInv' /\ StoreStep
<1>1. /\ req[s].status \in Live /\ req[s].left[1] # "put"
      /\ UNCHANGED <<Bound, OfResource, profiles>>
  BY AtStep DEF ChangesGrant, DeletesGrants
<1>2. Numbered'
  BY <1>1 DEF IInv, Numbered
<1>3. Goes(s) \/ \E rows : Grants(s, rows, Succeeded(req[s]))
  BY DEF ChangesGrant, DeletesGrants
<1>4. CASE Goes(s)
  BY <1>1, <1>2, <1>4, Moves DEF StoreStep
<1>5. ASSUME NEW rows, Grants(s, rows, Succeeded(req[s]))
      PROVE  IInv' /\ StoreStep
  BY <1>1, <1>5, GoesGood, GrantsStep
<1> QED
  BY <1>3, <1>4, <1>5

LEMMA GrantInserts ==
    ASSUME IInv, NEW s \in Slots, GrantsUser(s)
    PROVE  IInv' /\ StoreStep
<1>1. /\ req[s] \in Requests /\ Good(req[s]) /\ Shaped(req[s])
      /\ req[s].status \in Live /\ req[s].left[1] # "put"
      /\ UNCHANGED <<Bound, OfResource, profiles>>
  BY AtStep DEF GrantsUser
<1>2. Numbered'
  BY <1>1 DEF IInv, Numbered
<1> DEFINE Rest(user) == [req[s] EXCEPT !.todo = @ \ {user}]
<1>3. ASSUME NEW user
      PROVE  Good(Rest(user)) /\ Quiet(Ask(req[s]), Ask(Rest(user)))
  <2>1. req[s].todo \ {user} \in SUBSET Nat
    BY <1>1 DEF Requests
  <2>2. /\ Rest(user) \in Requests /\ Shaped(Rest(user))
        /\ Ask(Rest(user)) = Ask(req[s]) /\ Keeps(req[s], Rest(user))
    BY <1>1, <2>1, NotesLeaves
  <2> HIDE DEF Rest
  <2> QED
    BY <1>1, <2>2, KeepsGood DEF Quiet
<1>4. \/ Goes(s) \/ Fails(s)
      \/ \E user, rows : Grants(s, rows, Rest(user))
      \/ \E user : Becomes(s, Rest(user))
  BY DEF GrantsUser
<1> HIDE DEF Rest
<1>5. CASE Goes(s) \/ Fails(s)
  BY <1>1, <1>2, <1>5, Moves DEF StoreStep
<1>6. ASSUME NEW user, NEW rows, Grants(s, rows, Rest(user))
      PROVE  IInv' /\ StoreStep
  BY <1>1, <1>3, <1>6, GrantsStep
<1>7. ASSUME NEW user, Becomes(s, Rest(user))
      PROVE  IInv' /\ StoreStep
  BY <1>1, <1>2, <1>3, <1>7, OneQuiet DEF StoreStep
<1> QED
  BY <1>4, <1>5, <1>6, <1>7

\* The end of a process: each request fails, is orphaned or forgotten, or goes on.
LEMMA ManyFail ==
    ASSUME IInv, UNCHANGED <<Bound, OfResource>>, Numbered',
           req' \in [Slots -> {Failed(req[s]) : s \in Slots} \cup Requests],
           \A s \in Slots :
              \/ req'[s] = req[s] \/ req'[s] = NoRequest
              \/ req[s].status \in Live /\ req'[s] = Failed(req[s])
              \/ /\ req[s].status \in Live
                 /\ req'[s] = [req[s] EXCEPT !.status = "orphaned"]
    PROVE  IInv' /\ StoreStep
<1>1. ASSUME NEW s \in Slots
      PROVE  Good(req'[s]) /\ Quiet(Ask(req[s]), Ask(req'[s]))
  <2>1. req[s] \in Requests /\ Good(req[s]) /\ Shaped(req[s])
    BY DEF IInv, Good
  <2>2. CASE req'[s] = req[s]
    BY <2>1, <2>2 DEF Quiet
  <2>3. CASE req'[s] = NoRequest
    <3>1. Good(NoRequest)
      BY NoRequestShaped DEF Good, Fresh, Known, NoRequest
    <3> QED
      BY <2>3, <3>1, NoRequestShaped DEF Quiet
  <2>4. CASE req[s].status \in Live /\ req'[s] = Failed(req[s])
    BY <2>4, FailsGood
  <2>5. CASE req[s].status \in Live /\ req'[s] = [req[s] EXCEPT !.status = "orphaned"]
    <3> DEFINE o == [req[s] EXCEPT !.status = "orphaned"]
    <3>1. /\ o \in Requests /\ o.call = req[s].call /\ o.status = "orphaned"
          /\ o.left = req[s].left /\ o.failed = req[s].failed
          /\ o.applied = req[s].applied /\ o.found = req[s].found /\ o.got = req[s].got
      BY <2>1 DEF Requests, Live
    <3> HIDE DEF o
    <3>2. Shaped(o)
      BY <2>1, <2>5, <3>1 DEF Shaped, Live
    <3>3. Ask(o) = Ask(req[s])
      BY <2>5, <3>1 DEF Ask, AskStatus, Live
    <3>4. Keeps(req[s], o)
      BY <3>1 DEF Keeps
    <3> QED
      BY <2>1, <2>5, <3>1, <3>2, <3>3, <3>4, KeepsGood DEF Quiet, o
  <2> QED
    BY <2>2, <2>3, <2>4, <2>5
<1>2. req' \in [Slots -> Requests]
  BY <1>1 DEF Good
<1>3. UNCHANGED <<scene, cr, rev, made>> /\ asked' \in Nat
  BY DEF Bound, OfResource, IInv
<1> QED
  BY <1>1, <1>2, <1>3, QuietStep DEF StoreStep

LEMMA CtlSteps ==
    ASSUME IInv, \/ \E s \in Slots : GetExtractRule(s) \/ GetPipelineStatus(s)
                 \/ CtlEnds \/ CtlStarts
    PROVE  IInv' /\ StoreStep
<1>1. UNCHANGED <<Bound, OfResource, profiles>>
  BY DEF GetExtractRule, GetPipelineStatus, CtlEnds, CtlStarts, OfUI, tables
<1>2. Numbered'
  BY <1>1 DEF IInv, Numbered
<1>3. ASSUME NEW asking \in SUBSET Slots, CtlLost(asking),
             \A s \in asking : req[s].status \in Live
      PROVE  IInv' /\ StoreStep
  <2>1. \A s \in Slots : s \in asking \/ InCtl(s) => req[s].status \in Live
    BY <1>3 DEF InCtl, At
  <2>2. \A s \in Slots : req[s] \in Requests
    BY DEF IInv
  <2> QED
    BY <1>1, <1>2, <1>3, <2>1, <2>2, ManyFail DEF CtlLost
<1>4. ASSUME NEW s \in Slots, GetExtractRule(s) \/ GetPipelineStatus(s)
      PROVE  IInv' /\ StoreStep
  <2>1. req[s].status \in Live /\ req[s].left[1] # "put"
    BY <1>4, AtStep DEF GetExtractRule, GetPipelineStatus
  <2>2. Goes(s) \/ Fails(s) \/ CtlLost({s})
    BY <1>4 DEF GetExtractRule, GetPipelineStatus
  <2>3. CASE Goes(s) \/ Fails(s)
    BY <1>1, <1>2, <2>1, <2>3, Moves DEF StoreStep
  <2>4. CASE CtlLost({s})
    BY <1>3, <2>1, <2>4
  <2> QED
    BY <2>2, <2>3, <2>4
<1>5. CASE CtlEnds
  BY <1>3, <1>5 DEF CtlEnds
<1>6. CASE CtlStarts
  <2>1. UNCHANGED req
    BY <1>6 DEF CtlStarts
  <2> QED
    BY <1>1, <1>2, <2>1, ManyFail DEF IInv
<1> QED
  BY <1>4, <1>5, <1>6

LEMMA UIStep ==
    ASSUME IInv, UIRestarts
    PROVE  IInv' /\ StoreStep
<1>1. UNCHANGED <<Bound, OfResource>>
  BY DEF UIRestarts
<1>2. Numbered'
  <2>1. Administrator.id \in Nat
    BY DEF Administrator
  <2>2. profiles' \subseteq profiles \cup {Administrator}
    BY DEF UIRestarts, Bootstrap
  <2> QED
    BY <2>1, <2>2 DEF IInv, Numbered
<1>3. \A s \in Slots :
         \/ req'[s] = NoRequest
         \/ req[s].status \in Live /\ req'[s] = [req[s] EXCEPT !.status = "orphaned"]
  BY DEF UIRestarts, InCtl, At
<1>4. req' \in [Slots -> Requests]
  <2>1. \A s \in Slots : req[s] \in Requests
    BY DEF IInv
  <2>2. \A s \in Slots : [req[s] EXCEPT !.status = "orphaned"] \in Requests
    BY <2>1 DEF Requests, Live
  <2> QED
    BY <2>2, NoRequestShaped DEF UIRestarts
<1> QED
  BY <1>1, <1>2, <1>3, <1>4, ManyFail

-----------------------------------------------------------------------------
(* The steps that write the resource.                                      *)

LEMMA SameAsk ==
    ASSUME IInv, NEW s \in Slots, NEW b, req[s].call.op \notin Edits,
           Quiet(Ask(req[s]), Ask(b)), Becomes(s, b)
    PROVE  [t \in Slots |-> Ask(req[t])]' = [t \in Slots |-> Ask(req[t])]
<1>1. Ask(req[s]) = Idle
  BY AskOf DEF IInv
<1>2. Ask(b) = Ask(req[s])
  BY <1>1 DEF Quiet, Idle, Store!Idle
<1>3. \A t \in Slots : req'[t] = IF t = s THEN b ELSE req[t]
  BY DEF Becomes, IInv
<1>4. \A t \in Slots : Ask(req'[t]) = Ask(req[t])
  BY <1>2, <1>3
<1> QED
  BY <1>4

LEMMA CreateStep ==
    ASSUME IInv, NEW s \in Slots, CreatePipeline(s)
    PROVE  IInv' /\ StoreStep
<1>1. /\ req[s] \in Requests /\ Good(req[s]) /\ Shaped(req[s])
      /\ req[s].status \in Live /\ req[s].left[1] = "create"
      /\ Len(req[s].left) \in Nat /\ 1 \in 1 .. Len(req[s].left)
      /\ UNCHANGED <<Bound, profiles>> /\ (Goes(s) \/ Fails(s))
  BY AtStep DEF CreatePipeline, OfUI, tables
<1>2. Numbered' /\ asked' \in Nat /\ UNCHANGED scene
  BY <1>1 DEF IInv, Numbered, Bound
<1>3. CASE UNCHANGED OfResource
  BY <1>1, <1>2, <1>3, Moves DEF StoreStep
<1>4. CASE ~UNCHANGED OfResource
  <2>1. /\ cr.uid = 0 /\ made' = made + 1 /\ rev' = rev + 1
        /\ cr' = NewCR(made + 1, rev + 1)
    BY <1>4 DEF CreatePipeline
  <2>2. /\ cr' \in Resources /\ cr'.uid = made' /\ cr'.rev = rev'
        /\ made' \in Nat /\ rev' \in Nat /\ made' > 0 /\ rev < rev' /\ made <= made'
    BY <2>1 DEF NewCR, Resources, IInv
  <2>3. req[s].call.op \notin Edits
    BY <1>1 DEF Shaped, Has
  <2>4. ASSUME NEW b, Good(b), Quiet(Ask(req[s]), Ask(b)), Becomes(s, b)
        PROVE  IInv' /\ StoreStep
    <3>1. req' \in [Slots -> Requests] /\ \A t \in Slots : Good(req'[t])
      BY <2>4 DEF Becomes, IInv, Good
    <3>4. /\ cr'.uid \in {0, made'} /\ cr'.rev <= rev' /\ rev < cr'.rev /\ rev <= rev'
      BY <2>2 DEF IInv
    <3>2. IInv'
      BY <1>2, <2>2, <3>1, <3>4, InvStep
    <3>3. Store!Remake
      <4>1. Content(cr)'.uid > Content(cr).uid /\ Store!Empty(Content(cr)')
        BY <2>1, <2>2 DEF Content, Store!Empty, NewCR
      <4>2. [t \in Slots |-> Ask(req[t])]' = [t \in Slots |-> Ask(req[t])]
        BY <2>3, <2>4, SameAsk
      <4> QED
        BY <4>1, <4>2 DEF Store!Remake
    <3> QED
      BY <3>2, <3>3 DEF StoreStep, Store!Next
  <2> QED
    BY <1>1, <2>4, GoesGood, FailsGood DEF Goes, Fails
<1> QED
  BY <1>3, <1>4

LEMMA DeleteStep ==
    ASSUME IInv, NEW s \in Slots, DeletePipeline(s)
    PROVE  IInv' /\ StoreStep
<1>1. /\ req[s] \in Requests /\ Good(req[s]) /\ Shaped(req[s])
      /\ req[s].status \in Live /\ req[s].left[1] = "delete"
      /\ Len(req[s].left) \in Nat /\ 1 \in 1 .. Len(req[s].left)
      /\ UNCHANGED <<Bound, profiles>> /\ (Goes(s) \/ Fails(s))
  BY AtStep DEF DeletePipeline, OfUI, tables
<1>2. Numbered' /\ asked' \in Nat /\ UNCHANGED scene
  BY <1>1 DEF IInv, Numbered, Bound
<1>3. CASE UNCHANGED OfResource
  BY <1>1, <1>2, <1>3, Moves DEF StoreStep
<1>4. CASE ~UNCHANGED OfResource
  <2>1. cr' = NoCR /\ UNCHANGED <<rev, made>>
    BY <1>4 DEF DeletePipeline
  <2>2. cr' \in Resources /\ cr'.uid = 0 /\ cr'.rev = 0
    BY <2>1, NoRowsType DEF NoCR, NewCR
  <2>3. req[s].call.op \notin Edits
    BY <1>1 DEF Shaped, Has
  <2>4. ASSUME NEW b, Good(b), Quiet(Ask(req[s]), Ask(b)), Becomes(s, b)
        PROVE  IInv' /\ StoreStep
    <3>1. req' \in [Slots -> Requests] /\ \A t \in Slots : Good(req'[t])
      BY <2>4 DEF Becomes, IInv, Good
    <3>2. IInv'
      BY <1>2, <2>1, <2>2, <3>1, InvStep DEF IInv
    <3>3. Store!Remake
      <4>1. Content(cr)'.uid = 0 /\ Store!Empty(Content(cr)')
        BY <2>1, <2>2 DEF Content, NoCR, NewCR, Store!Empty
      <4>2. [t \in Slots |-> Ask(req[t])]' = [t \in Slots |-> Ask(req[t])]
        BY <2>3, <2>4, SameAsk
      <4> QED
        BY <4>1, <4>2 DEF Store!Remake
    <3> QED
      BY <3>2, <3>3 DEF StoreStep, Store!Next
  <2> QED
    BY <1>1, <2>4, GoesGood, FailsGood DEF Goes, Fails
<1> QED
  BY <1>3, <1>4

LEMMA OperatorStep ==
    ASSUME IInv, OperatorNames \/ OperatorWrites
    PROVE  IInv' /\ StoreStep
<1>1. /\ UNCHANGED <<Bound, made, profiles, req>> /\ rev' = rev + 1
      /\ \/ cr' = [cr EXCEPT !.id = TRUE, !.rev = rev + 1]
         \/ cr' = [cr EXCEPT !.rev = rev + 1]
  BY DEF OperatorNames, OperatorWrites, OfUI, tables
<1>2. cr \in Resources /\ rev \in Nat
  BY DEF IInv
<1>3. /\ cr' \in Resources /\ cr'.rev = rev' /\ rev' \in Nat /\ rev < rev'
      /\ cr'.uid = cr.uid /\ Content(cr') = Content(cr)
  <2>1. CASE cr' = [cr EXCEPT !.id = TRUE, !.rev = rev + 1]
    <3> DEFINE m == [cr EXCEPT !.id = TRUE]
               n == [m EXCEPT !.rev = rev + 1]
    <3>3. /\ m \in Resources /\ m.uid = cr.uid
          /\ m.sources = cr.sources /\ m.rules = cr.rules
          /\ m.extensions = cr.extensions /\ m.functions = cr.functions
      BY <1>2 DEF Resources
    <3> HIDE DEF m
    <3>1. /\ n \in Resources /\ n.rev = rev + 1 /\ n.uid = cr.uid
          /\ n.sources = cr.sources /\ n.rules = cr.rules
          /\ n.extensions = cr.extensions /\ n.functions = cr.functions
      BY <1>2, <3>3 DEF Resources
    <3> HIDE DEF n
    <3>2. Content(n) = Content(cr)
      BY <3>1 DEF Content
    <3> QED
      BY <1>1, <1>2, <2>1, <3>1, <3>2 DEF m, n
  <2>2. CASE cr' = [cr EXCEPT !.rev = rev + 1]
    BY <1>1, <1>2, <2>2 DEF Resources, Content
  <2> QED
    BY <1>1, <2>1, <2>2
<1>4. IInv'
  BY <1>1, <1>3, InvStep DEF IInv, Numbered, Bound
<1>5. UNCHANGED Store!vars
  BY <1>1, <1>3 DEF Store!vars, Content
<1> QED
  BY <1>4, <1>5 DEF StoreStep

\* A call that is taken by what it is at that moment.
LEMMA TakenStep ==
    ASSUME IInv, NEW s \in Slots, NEW b, Taken(Ask(req[s]), Ask(b)), Becomes(s, b),
           cr.uid # 0, req[s].call.op \in Edits, ~Refuses(cr, req[s].call),
           Content(cr') = Content(Effect(cr, req[s].call))
    PROVE  StoreStep
<1> DEFINE ask == [t \in Slots |-> Ask(req[t])]
<1>1. /\ req[s] \in Requests /\ req[s].call \in CallRows /\ cr \in Resources
      /\ req \in [Slots -> Requests]
  BY DEF IInv, Requests
<1>2. Ask(req[s]).status = "pending" /\ Ask(req[s]).call = req[s].call
  BY <1>1, AskOf DEF Taken, Ask
<1>3. Content(cr') = Effect(Content(cr), req[s].call) /\ Content(cr).uid # 0
  BY <1>1, EffectContent DEF Content
<1>4. ~Refuses(Content(cr), req[s].call)
  BY <1>1, RefusesContent
<1>5. \E to \in {"applied", "ok", "unsure", "idle"} :
         Ask(b) = IF to = "idle" THEN Idle ELSE [Ask(req[s]) EXCEPT !.status = to]
  BY DEF Taken
<1>6. ask' = [ask EXCEPT ![s] = Ask(b)]
  <2>1. \A t \in Slots : req'[t] = IF t = s THEN b ELSE req[t]
    BY <1>1 DEF Becomes
  <2> QED
    BY <2>1
<1>7. ask[s] = Ask(req[s])
  OBVIOUS
<1> HIDE DEF ask
<1>8. \E to \in {"applied", "ok", "unsure", "idle"} :
         ask' = [ask EXCEPT ![s] = IF to = "idle" THEN Idle ELSE [ask[s] EXCEPT !.status = to]]
  BY <1>5, <1>6, <1>7
<1>9. Store!Apply(s)
  <2>1. ask[s].status = "pending" /\ ask[s].call = req[s].call
    BY <1>2, <1>7
  <2>2. Content(cr).uid # 0 /\ ~Refuses(Content(cr), ask[s].call)
    BY <1>3, <1>4, <2>1
  <2>3. Content(cr)' = Effect(Content(cr), ask[s].call)
    BY <1>3, <2>1
  <2>4. \E to \in {"applied", "ok", "unsure", "idle"} :
           ask' = [ask EXCEPT ![s] = IF to = "idle" THEN Store!Idle
                                     ELSE [ask[s] EXCEPT !.status = to]]
    BY <1>8 DEF Idle
  <2> QED
    <3>1. PICK to \in {"applied", "ok", "unsure", "idle"} :
             ask' = [ask EXCEPT ![s] = IF to = "idle" THEN Store!Idle
                                       ELSE [ask[s] EXCEPT !.status = to]]
      BY <2>4
    <3>2. [t \in Slots |-> Ask(req[t])]' =
             [[t \in Slots |-> Ask(req[t])] EXCEPT ![s] = Store!Answered(s, to)]
      BY <3>1 DEF Store!Answered, ask
    <3>3. /\ [t \in Slots |-> Ask(req[t])][s].status = "pending"
          /\ Content(cr).uid # 0
          /\ ~Store!Refuses(Content(cr), [t \in Slots |-> Ask(req[t])][s].call)
          /\ Content(cr)' =
                Store!Effect(Content(cr), [t \in Slots |-> Ask(req[t])][s].call)
      BY <2>1, <2>2, <2>3, StoreHandlers DEF ask
    <3> QED
      BY <3>2, <3>3 DEF Store!Apply
<1> QED
  BY <1>9 DEF StoreStep, Store!Next

LEMMA EditStep ==
    ASSUME IInv, NEW s \in Slots, Edit(s)
    PROVE  IInv' /\ StoreStep
<1> DEFINE r == req[s]
           w == [r EXCEPT !.got = cr]
           d == [r EXCEPT !.left = Tail(@), !.applied = TRUE]
<1>1. /\ r \in Requests /\ Good(r) /\ Shaped(r) /\ Leaving(r)
      /\ r.status \in Live /\ r.left[1] = "edit"
      /\ UNCHANGED <<Bound, OfResource, profiles>>
  BY AtStep, ShapedLeaves DEF Edit, OfUI, tables
<1>2. Numbered' /\ cr \in Resources /\ cr.rev <= rev
  BY <1>1 DEF IInv, Numbered
<1>3. CASE Fails(s)
  BY <1>1, <1>2, <1>3, Moves DEF StoreStep
<1>4. CASE ~Refuses(cr, r.call) /\ Becomes(s, Succeeded(w))
  <2>1. /\ w \in Requests /\ w.left = r.left /\ w.status = r.status /\ w.call = r.call
        /\ w.applied = r.applied /\ w.failed = r.failed /\ w.found = r.found /\ w.got = cr
    BY <1>1, <1>2 DEF Requests
  <2> HIDE DEF w, r
  <2>2. Leaving(w) /\ Shaped(w)
    BY <1>1, <2>1 DEF Leaving, Shaped
  <2>3. Ask(w) = Ask(r)
    BY <2>1 DEF Ask, AskStatus
  <2>4. Good(w)
    BY <1>1, <1>2, <1>4, <2>1, <2>2 DEF Good, Fresh, Known
  <2>5. Good(Succeeded(w)) /\ Quiet(Ask(r), Ask(Succeeded(w)))
    BY <2>1, <2>2, <2>3, <2>4, SucceededLeaves, KeepsGood
  <2> QED
    BY <1>1, <1>2, <1>4, <2>5, OneQuiet DEF StoreStep, r
<1>5. CASE /\ CtlRuns /\ ~Refuses(cr, r.call) /\ ~Writes(cr, r.call)
           /\ Becomes(s, Succeeded(d))
  <2>1. /\ d \in Requests /\ Leaving(d) /\ r.call.op \in Edits /\ ~r.applied
        /\ d.status = r.status /\ d.call = r.call /\ d.applied
        /\ d.found = r.found /\ d.got = r.got
    BY <1>1, EditLeaves
  <2>2. r.call \in CallRows
    BY <1>1 DEF Requests
  <2> HIDE DEF d
  <2>3. /\ Succeeded(d) \in Requests /\ Shaped(Succeeded(d))
        /\ Quiet(Ask(d), Ask(Succeeded(d))) /\ Keeps(d, Succeeded(d))
    BY <2>1, SucceededLeaves
  <2>4. Keeps(r, Succeeded(d))
    BY <2>1, <2>3 DEF Keeps
  <2>5. Good(Succeeded(d))
    BY <1>1, <2>3, <2>4, KeepsGood
  <2>6. Taken(Ask(r), Ask(Succeeded(d)))
    BY <1>1, <2>1, <2>3, QuietTaken
  <2>7. Content(cr') = Content(Effect(cr, r.call)) /\ cr.uid # 0
    BY <1>1, <1>2, <1>5, <2>1, <2>2, NotWritten DEF OfResource, CtlRuns
  <2>8. StoreStep
    BY <1>5, <2>1, <2>6, <2>7, TakenStep
  <2>9. req' \in [Slots -> Requests] /\ \A t \in Slots : Good(req'[t])
    BY <1>5, <2>5 DEF Becomes, IInv, Good
  <2>10. IInv'
    BY <1>1, <1>2, <2>9, InvStep DEF IInv, Resources, OfResource, Bound
  <2> QED
    BY <2>8, <2>10
<1> QED
  BY <1>3, <1>4, <1>5 DEF Edit

LEMMA PutStep ==
    ASSUME IInv, NEW s \in Slots, Put(s)
    PROVE  IInv' /\ StoreStep
<1> DEFINE r == req[s]
           d == [r EXCEPT !.applied = TRUE, !.got = NoCR]
           new == Effect(cr, r.call)
<1>1. /\ r \in Requests /\ Good(r) /\ Shaped(r) /\ r.status \in Live /\ r.left[1] = "put"
      /\ UNCHANGED <<Bound, made, profiles>>
  BY AtStep DEF Put, OfUI, tables
<1>2. /\ Numbered' /\ cr \in Resources /\ cr.rev <= rev /\ r.call \in CallRows
      /\ asked' \in Nat /\ UNCHANGED scene /\ rev \in Nat
  BY <1>1 DEF IInv, Numbered, Bound, Requests
<1>3. CASE Fails(s) /\ UNCHANGED <<cr, rev>>
  BY <1>1, <1>2, <1>3, FailsGood, OneQuiet DEF Fails, OfResource, StoreStep
<1>4. CASE /\ IsCurrent(r.got) /\ cr' = Written(r.got, r.call)
           /\ rev' = IF cr' = cr THEN rev ELSE rev + 1
           /\ Becomes(s, Succeeded(d)) \/ Becomes(s, Failed(d))
  <2>1. /\ d \in Requests /\ Leaving(d) /\ r.call.op \in Edits /\ ~r.applied
        /\ d.status = r.status /\ d.call = r.call /\ d.applied
        /\ d.found = r.found /\ d.got = NoCR
    BY <1>1, PutLeaves
  <2>2. r.got = cr /\ cr.uid # 0 /\ ~Refuses(cr, r.call)
    <3>1. NoCR.uid = 0
      BY DEF NoCR, NewCR
    <3>2. cr.uid # 0 /\ r.got.uid = cr.uid /\ r.got.rev = cr.rev /\ r.got # NoCR
      BY <1>4, <3>1 DEF IsCurrent
    <3> QED
      BY <1>1, <3>2 DEF Good, Fresh
  <2>3. new \in Resources /\ new.uid = cr.uid
    BY <1>2, <2>1, EffectType
  <2> HIDE DEF d, new
  <2>4. cr' = IF Content(new) = Content(cr) THEN cr ELSE [new EXCEPT !.rev = rev + 1]
    BY <1>4, <2>2 DEF Written, new
  <2>5. /\ cr' \in Resources /\ cr'.uid = cr.uid /\ Content(cr') = Content(new)
        /\ cr' = cr \/ cr'.rev = rev + 1
    BY <1>2, <2>3, <2>4 DEF Resources, Content
  <2>6. ASSUME NEW b \in Requests, Shaped(b), Quiet(Ask(d), Ask(b)), Keeps(d, b), Becomes(s, b)
        PROVE  IInv' /\ StoreStep
    <3>1. Keeps(r, b)
      BY <2>1, <2>6 DEF Keeps
    <3>2. Good(b)
      BY <1>1, <2>6, <3>1, KeepsGood
    <3>3. req' \in [Slots -> Requests] /\ \A t \in Slots : Good(req'[t])
      BY <2>6, <3>2 DEF Becomes, IInv, Good
    <3>4. rev' \in Nat /\ rev <= rev' /\ cr'.rev <= rev' /\ (cr' = cr \/ rev < cr'.rev)
      BY <1>2, <1>4, <2>5
    <3>5. IInv'
      BY <1>1, <1>2, <2>5, <3>3, <3>4, InvStep DEF IInv
    <3>6. Taken(Ask(r), Ask(b))
      BY <1>1, <2>1, <2>6, QuietTaken
    <3>7. StoreStep
      BY <2>1, <2>2, <2>5, <2>6, <3>6, TakenStep DEF new
    <3> QED
      BY <3>5, <3>7
  <2> QED
    BY <1>1, <1>4, <2>1, <2>6, SucceededLeaves, FailedLeaves
<1> QED
  BY <1>3, <1>4 DEF Put

-----------------------------------------------------------------------------
(* A request begins.                                                       *)

FormOps ==
    {"createExtractSource", "updateExtractSource", "deleteExtractSource",
     "createExtractRule", "updateExtractRule", "deleteExtractRule", "extractRule",
     "createExtension", "updateExtension", "deleteExtension",
     "updateTransformFunction", "deleteTransformFunction", "login", "profileUpdate",
     "userAdmin", "userAdminUpdate", "userAdminDelete", "deletePipelineUser",
     "updatePipelineUser", "updatePipelineUsers"}

LEMMA NoForm ==
    ASSUME NEW q, q.op \in UI!Ops \ FormOps
    PROVE  Calls(q) = {q}
<1>1. CASE q.op = "logout"
  BY <1>1 DEF Calls
<1>2. CASE q.op = "createPipelineDetail"
  BY <1>2 DEF Calls
<1>3. CASE q.op = "updatePipelineDetail"
  BY <1>3 DEF Calls
<1>4. CASE q.op = "deletePipelineDetail"
  BY <1>4 DEF Calls
<1>5. CASE q.op = "deletePipelines"
  BY <1>5 DEF Calls
<1>6. CASE q.op = "createTransformFunction"
  BY <1>6 DEF Calls
<1>7. CASE q.op = "profile"
  BY <1>7 DEF Calls
<1>8. CASE q.op = "users"
  BY <1>8 DEF Calls
<1>9. CASE q.op = "userAdminDetail"
  BY <1>9 DEF Calls
<1>10. CASE q.op = "showPipelineUsers"
  BY <1>10 DEF Calls
<1>11. CASE q.op = "pipelineUser"
  BY <1>11 DEF Calls
<1>12. CASE q.op = "pipelines"
  BY <1>12 DEF Calls
<1>13. CASE q.op = "pipelineDetail"
  BY <1>13 DEF Calls
<1>14. CASE q.op = "showCreatePipeline"
  BY <1>14 DEF Calls
<1>15. CASE q.op = "pipelineDownloadFile"
  BY <1>15 DEF Calls
<1>16. CASE q.op = "pipelineStatus"
  BY <1>16 DEF Calls
<1>17. CASE q.op = "pipelineStatusJobLog"
  BY <1>17 DEF Calls
<1>18. CASE q.op = "deleteJobs"
  BY <1>18 DEF Calls
<1>19. CASE q.op = "downloadExtract"
  BY <1>19 DEF Calls
<1>20. CASE q.op = "showCreateExtractSource"
  BY <1>20 DEF Calls
<1>21. CASE q.op = "pipelineExtractSource"
  BY <1>21 DEF Calls
<1>22. CASE q.op = "uploadURL"
  BY <1>22 DEF Calls
<1>23. CASE q.op = "upload"
  BY <1>23 DEF Calls
<1>24. CASE q.op = "startExtractSource"
  BY <1>24 DEF Calls
<1>25. CASE q.op = "stopExtractSource"
  BY <1>25 DEF Calls
<1>26. CASE q.op = "uploadSchema"
  BY <1>26 DEF Calls
<1>27. CASE q.op = "showCreateExtractRule"
  BY <1>27 DEF Calls
<1>28. CASE q.op = "showCreateExtension"
  BY <1>28 DEF Calls
<1>29. CASE q.op = "extension"
  BY <1>29 DEF Calls
<1>30. CASE q.op = "showCreateTransformFunction"
  BY <1>30 DEF Calls
<1>31. CASE q.op = "transformFunction"
  BY <1>31 DEF Calls
<1> QED
  BY <1>1, <1>2, <1>3, <1>4, <1>5, <1>6, <1>7, <1>8, <1>9, <1>10, <1>11, <1>12,
     <1>13, <1>14, <1>15, <1>16, <1>17, <1>18, <1>19, <1>20, <1>21, <1>22, <1>23,
     <1>24, <1>25, <1>26, <1>27, <1>28, <1>29, <1>30, <1>31
     DEF FormOps, UI!Ops, UI!Routes

\* What a form adds to a call.  First each case of Calls on its own.
Same(q) == {c \in CallRows : c.op = q.op /\ c.uid = q.uid /\ c.id = q.id}

LEMMA CallsKeep ==
    ASSUME NEW q
    PROVE  IInv /\ q \in CallRows /\ q.op \in UI!Ops => Calls(q) \subseteq Same(q)
<1> DEFINE NewSource(p, x) == [q EXCEPT !.path = p, !.scheme = x]
           OldSource(i, p, x) == [q EXCEPT !.item = i, !.path = p, !.scheme = x]
           OfItem(i) == [q EXCEPT !.item = i]
           NewRule(i, t, f) == [q EXCEPT !.source = i, !.text = t, !.function = f]
           OldRule(x, t) == [q EXCEPT !.item = x.id, !.source = x.source, !.text = t]
           OfSource(i) == [q EXCEPT !.source = i]
           OfEmail(e) == [q EXCEPT !.email = e]
           NewProfile(e, a) == [q EXCEPT !.email = e, !.access = a]
           OldProfile(u, e, a) == [q EXCEPT !.user = u, !.email = e, !.access = a]
           OfUser(u) == [q EXCEPT !.user = u]
           OfGrant(u, a) == [q EXCEPT !.user = u, !.access = a]
           OfUsers(us, a) == [q EXCEPT !.users = us, !.access = a]
<1>1. ASSUME q.op = "createExtractSource"
       PROVE  Calls(q) = {NewSource(p, x) : p \in Paths, x \in FormSchemes}
  BY SMTT(20), <1>1 DEF Calls
<1>2. ASSUME q.op = "updateExtractSource"
       PROVE  Calls(q) = {OldSource(i, p, x) :
                         i \in Ids(cr.sources, q), p \in Paths, x \in FormSchemes}
  BY SMTT(20), <1>2 DEF Calls
<1>3. ASSUME q.op = "deleteExtractSource"
       PROVE  Calls(q) = {OfItem(i) : i \in Ids(cr.sources, q)}
  BY SMTT(20), <1>3 DEF Calls
<1>4. ASSUME q.op = "createExtractRule"
       PROVE  Calls(q) = {NewRule(i, t, f) :
                         i \in Ids(cr.sources, q), t \in FormTexts,
                         f \in {0} \cup Ids(cr.functions, q)}
  BY SMTT(20), <1>4 DEF Calls
<1>5. ASSUME q.op = "updateExtractRule"
       PROVE  Calls(q) = {OldRule(x, t) :
                         x \in {y \in cr.rules : cr.uid = q.uid}, t \in FormTexts}
  BY SMTT(20), <1>5 DEF Calls
<1>6. ASSUME q.op = "deleteExtractRule"
       PROVE  Calls(q) = {OfItem(i) : i \in Ids(cr.rules, q)}
  BY SMTT(20), <1>6 DEF Calls
<1>7. ASSUME q.op = "extractRule"
       PROVE  Calls(q) = {OfItem(i) : i \in Ids(cr.rules, q)}
  BY SMTT(20), <1>7 DEF Calls
<1>8. ASSUME q.op = "createExtension"
       PROVE  Calls(q) = {OfSource(i) : i \in Ids(cr.sources, q)}
  BY SMTT(20), <1>8 DEF Calls
<1>9. ASSUME q.op = "updateExtension"
       PROVE  Calls(q) = {OfItem(i) : i \in Ids(cr.extensions, q)}
  BY SMTT(20), <1>9 DEF Calls
<1>10. ASSUME q.op = "deleteExtension"
       PROVE  Calls(q) = {OfItem(i) : i \in Ids(cr.extensions, q)}
  BY SMTT(20), <1>10 DEF Calls
<1>11. ASSUME q.op = "updateTransformFunction"
       PROVE  Calls(q) = {OfItem(i) : i \in Ids(cr.functions, q)}
  BY SMTT(20), <1>11 DEF Calls
<1>12. ASSUME q.op = "deleteTransformFunction"
       PROVE  Calls(q) = {OfItem(i) : i \in Ids(cr.functions, q)}
  BY SMTT(20), <1>12 DEF Calls
<1>13. ASSUME q.op = "login"
       PROVE  Calls(q) = {OfEmail(e) : e \in Emails}
  BY SMTT(20), <1>13 DEF Calls
<1>14. ASSUME q.op = "profileUpdate"
       PROVE  Calls(q) = {NewProfile(e, a) : e \in Emails, a \in FormAccesses}
  BY SMTT(20), <1>14 DEF Calls
<1>15. ASSUME q.op = "userAdmin"
       PROVE  Calls(q) = {NewProfile(e, a) : e \in Emails, a \in FormAccesses}
  BY SMTT(20), <1>15 DEF Calls
<1>16. ASSUME q.op = "userAdminUpdate"
       PROVE  Calls(q) = {OldProfile(u, e, a) :
                         u \in Users, e \in Emails, a \in FormAccesses}
  BY SMTT(20), <1>16 DEF Calls
<1>17. ASSUME q.op = "userAdminDelete"
       PROVE  Calls(q) = {OfUser(u) : u \in Users}
  BY SMTT(20), <1>17 DEF Calls
<1>18. ASSUME q.op = "deletePipelineUser"
       PROVE  Calls(q) = {OfUser(u) : u \in Users}
  BY SMTT(20), <1>18 DEF Calls
<1>19. ASSUME q.op = "updatePipelineUser"
       PROVE  Calls(q) = {OfGrant(u, a) : u \in Users, a \in FormAccesses}
  BY SMTT(20), <1>19 DEF Calls
<1>20. ASSUME q.op = "updatePipelineUsers"
       PROVE  Calls(q) = {OfUsers(us, a) : us \in SUBSET Users, a \in FormAccesses}
  BY SMTT(20), <1>20 DEF Calls
<1> SUFFICES ASSUME IInv, q \in CallRows, q.op \in UI!Ops
             PROVE  Calls(q) \subseteq Same(q)
  OBVIOUS
<1>21. /\ cr \in Resources /\ Users \subseteq Nat
       /\ Ids(cr.sources, q) \subseteq Nat /\ Ids(cr.rules, q) \subseteq Nat
       /\ Ids(cr.extensions, q) \subseteq Nat /\ Ids(cr.functions, q) \subseteq Nat
  BY DEF IInv, Numbered, Users, Ids, Resources, SourceRows, RuleRows, ExtensionRows,
     FunctionRows
<1>22. \A x \in cr.rules : x.id \in Nat /\ x.source \in Nat
  BY <1>21 DEF Resources, RuleRows
<1>23. /\ \A x \in Paths : x \in FormPaths
       /\ \A x \in FormSchemes : x \in AllSchemes
       /\ \A x \in FormTexts : x \in AllTexts
       /\ \A x \in Emails : x \in AllEmails
       /\ \A x \in FormAccesses : x \in AllAccesses
  BY DEF FormPaths, AllSchemes, AllTexts, AllEmails, AllAccesses
<1>24. \A p \in FormPaths, x \in AllSchemes, i \in Nat :
          NewSource(p, x) \in Same(q) /\ OldSource(i, p, x) \in Same(q)
  BY DEF CallRows, Same
<1>25. \A i \in Nat : OfItem(i) \in Same(q) /\ OfSource(i) \in Same(q)
  BY DEF CallRows, Same
<1>26. \A i, j \in Nat, t \in AllTexts :
          NewRule(i, t, j) \in Same(q)
  BY DEF CallRows, Same
<1>27. /\ \A e \in AllEmails : OfEmail(e) \in Same(q)
       /\ \A u \in Nat : OfUser(u) \in Same(q)
  BY DEF CallRows, Same
<1>28. \A e \in AllEmails, a \in AllAccesses, u \in Nat :
          NewProfile(e, a) \in Same(q) /\ OldProfile(u, e, a) \in Same(q)
  BY DEF CallRows, Same
<1>29. \A a \in AllAccesses, u \in Nat, us \in SUBSET Nat :
          OfGrant(u, a) \in Same(q) /\ OfUsers(us, a) \in Same(q)
  BY DEF CallRows, Same
<1>30. \A x \in cr.rules, t \in AllTexts : OldRule(x, t) \in Same(q)
  BY <1>22 DEF CallRows, Same
<1> HIDE DEF NewSource, OldSource, OfItem, NewRule, OldRule, OfSource, OfEmail,
             NewProfile, OldProfile, OfUser, OfGrant, OfUsers
<1>31. CASE q.op = "createExtractSource"
  BY <1>31, <1>1, <1>23, <1>24
<1>32. CASE q.op = "updateExtractSource"
  BY <1>32, <1>2, <1>21, <1>23, <1>24
<1>33. CASE q.op = "deleteExtractSource"
  BY <1>33, <1>3, <1>21, <1>25
<1>34. CASE q.op = "createExtractRule"
  BY <1>34, <1>4, <1>21, <1>23, <1>26
<1>35. CASE q.op = "updateExtractRule"
  BY <1>35, <1>5, <1>23, <1>30
<1>36. CASE q.op = "deleteExtractRule"
  BY <1>36, <1>6, <1>21, <1>25
<1>37. CASE q.op = "extractRule"
  BY <1>37, <1>7, <1>21, <1>25
<1>38. CASE q.op = "createExtension"
  BY <1>38, <1>8, <1>21, <1>25
<1>39. CASE q.op = "updateExtension"
  BY <1>39, <1>9, <1>21, <1>25
<1>40. CASE q.op = "deleteExtension"
  BY <1>40, <1>10, <1>21, <1>25
<1>41. CASE q.op = "updateTransformFunction"
  BY <1>41, <1>11, <1>21, <1>25
<1>42. CASE q.op = "deleteTransformFunction"
  BY <1>42, <1>12, <1>21, <1>25
<1>43. CASE q.op = "login"
  BY <1>43, <1>13, <1>23, <1>27
<1>44. CASE q.op = "profileUpdate"
  BY <1>44, <1>14, <1>23, <1>28
<1>45. CASE q.op = "userAdmin"
  BY <1>45, <1>15, <1>23, <1>28
<1>46. CASE q.op = "userAdminUpdate"
  BY <1>46, <1>16, <1>21, <1>23, <1>28
<1>47. CASE q.op = "userAdminDelete"
  BY <1>47, <1>17, <1>21, <1>27
<1>48. CASE q.op = "deletePipelineUser"
  BY <1>48, <1>18, <1>21, <1>27
<1>49. CASE q.op = "updatePipelineUser"
  BY <1>49, <1>19, <1>21, <1>23, <1>29
<1>50. CASE q.op = "updatePipelineUsers"
  BY <1>50, <1>20, <1>21, <1>23, <1>29
<1>51. CASE q.op \notin FormOps
  BY <1>51, NoForm DEF Same
<1> QED
  BY <1>31, <1>32, <1>33, <1>34, <1>35, <1>36, <1>37, <1>38, <1>39, <1>40, <1>41,
     <1>42, <1>43, <1>44, <1>45, <1>46, <1>47, <1>48, <1>49, <1>50, <1>51 DEF FormOps

LEMMA StartedGood ==
    ASSUME IInv, NEW q \in CallRows, q.op \in UI!Ops
    PROVE  /\ Good(Started(q))
           /\ q.op \in Edits => Ask(Started(q)) = [call |-> q, status |-> "pending"]
           /\ q.op \notin Edits => Ask(Started(q)) = Idle
<1> DEFINE n == Started(q)
<1>1. Fits(UI!Routes[q.op], q.op)
  BY RoutesFit
<1>2. UI!Routes[q.op] \in Seq(StepNames) /\ UI!Routes[q.op] # <<>>
  BY <1>1 DEF Fits, Ordered
<1>3. q.users \in SUBSET Nat
  BY DEF CallRows
<1>4. /\ n \in Requests /\ n.call = q /\ n.status = "running" /\ n.left = UI!Routes[q.op]
      /\ ~n.failed /\ ~n.applied /\ n.found = 0 /\ n.got = NoCR
  BY <1>2, <1>3, NoRowsType DEF Started, Requests, Live
<1> HIDE DEF n
<1>5. Shaped(n)
  BY <1>1, <1>2, <1>4 DEF Shaped, Fits, Live
<1>6. Good(n)
  BY <1>4, <1>5 DEF Good, Fresh, Known
<1>7. n.status \in Live
  BY <1>4 DEF Live
<1> QED
  BY <1>4, <1>6, <1>7, AskOf DEF n

LEMMA RequestStep ==
    ASSUME IInv, NEW s \in Slots, Request(s)
    PROVE  IInv' /\ StoreStep
<1>1. /\ req[s] \in Requests /\ Good(req[s]) /\ Shaped(req[s]) /\ req[s].status \notin Live
      /\ UNCHANGED <<scene, OfResource, profiles>> /\ asked' = asked + 1
      /\ asked \in Nat /\ made \in Nat
  BY DEF Request, IInv, Good, tables, OfResource
<1>2. Numbered' /\ asked' \in Nat
  BY <1>1 DEF IInv, Numbered
<1>3. PICK op \in scene.ops, uid \in {0} \cup 1 .. made :
         \E q \in Calls([NoCall EXCEPT !.op = op, !.uid = uid,
                                      !.id = LastFirstId + asked + 1]) :
            Becomes(s, Started(q))
  BY DEF Request, Becomes
<1> DEFINE q0 == [NoCall EXCEPT !.op = op, !.uid = uid, !.id = LastFirstId + asked + 1]
<1>4. op \in UI!Ops
  <2>1. DOMAIN UI!Routes = UI!Ops
    BY DEF UI!Ops
  <2> QED
    BY <2>1, FormsAssumption DEF IInv
<1>5. q0 \in CallRows /\ q0.op = op
  <2>1. LastFirstId + asked + 1 \in Nat /\ uid \in Nat /\ op \in UI!Ops \cup {"none"}
    BY <1>1, <1>4 DEF LastFirstId
  <2> QED
    BY <2>1, NoRowsType DEF CallRows
<1> HIDE DEF q0
<1>6. PICK q \in Calls(q0) : Becomes(s, Started(q))
  BY <1>3 DEF q0
<1>7. q \in CallRows /\ q.op \in UI!Ops
  BY <1>4, <1>5, CallsKeep DEF Same
<1>8. /\ Good(Started(q))
      /\ q.op \in Edits => Ask(Started(q)) = [call |-> q, status |-> "pending"]
      /\ q.op \notin Edits => Ask(Started(q)) = Idle
  BY <1>7, StartedGood
<1>9. req' \in [Slots -> Requests] /\ \A t \in Slots : Good(req'[t])
  BY <1>6, <1>8 DEF Becomes, IInv, Good
<1>10. IInv'
  BY <1>1, <1>2, <1>9, InvStep DEF IInv, Resources, OfResource
<1>11. StoreStep
  <2> DEFINE ask == [t \in Slots |-> Ask(req[t])]
  <2>1. ask' = [ask EXCEPT ![s] = Ask(Started(q))] /\ Content(cr)' = Content(cr)
    <3>1. \A t \in Slots : req'[t] = IF t = s THEN Started(q) ELSE req[t]
      BY <1>6 DEF Becomes, IInv
    <3> QED
      BY <1>1, <3>1 DEF OfResource, Content
  <2>2. CASE q.op \notin Edits
    <3>1. \A t \in Slots : Good(req'[t]) /\ Quiet(Ask(req[t]), Ask(req'[t]))
      BY <1>6, <1>8, <1>9, <2>2 DEF Becomes, IInv, Quiet
    <3> QED
      BY <1>1, <1>2, <1>9, <3>1, QuietStep DEF OfResource, StoreStep
  <2>3. CASE q.op \in Edits
    <3>1. ask[s].status \in Store!Resting
      <4>1. req[s].status \in {"idle", "ok", "error"} /\ (req[s].status = "idle" => req[s].call = NoCall)
        BY <1>1 DEF Requests, Shaped
      <4> QED
        BY <1>1, <4>1, AskOf DEF Store!Resting, Idle, Store!Idle
    <3>2. ask'[s] = [call |-> q, status |-> "pending"]
      BY <1>8, <2>1, <2>3
    <3>3. ask'[s].status = "pending" /\ ask'[s].call.op \in Store!Edits
      BY <2>3, <3>2, StoreHandlers
    <3>4. ask' = [ask EXCEPT ![s] = ask'[s]]
      BY <1>8, <2>1, <2>3, <3>2
    <3>5. Store!Submit(s)
      BY <2>1, <3>1, <3>3, <3>4 DEF Store!Submit
    <3> QED
      BY <3>5 DEF StoreStep, Store!Next
  <2> QED
    BY <2>2, <2>3
<1> QED
  BY <1>10, <1>11

-----------------------------------------------------------------------------
(* The theorems.                                                           *)

LEMMA InitIInv == Init => IInv /\ Store!Init
<1> SUFFICES ASSUME Init
             PROVE  IInv /\ Store!Init
  OBVIOUS
<1>1. (CHOOSE p \in Paths : TRUE) \in FormPaths
  BY FormsAssumption DEF FormPaths
<1>2. FilledCR \in Resources /\ FilledCR.uid = 1 /\ FilledCR.rev = 1
  <2> DEFINE path == CHOOSE p \in Paths : TRUE
             sources == {[id |-> 3, path |-> path, scheme |-> "csv"]}
             rules == {[id |-> 4, source |-> 3, text |-> "column number", function |-> 6]}
             extensions == {[id |-> 5, source |-> 3, edit |-> 0]}
             functions == {[id |-> 6, edit |-> 0]}
  <2>1. sources \in SUBSET SourceRows
    BY <1>1 DEF SourceRows, AllSchemes
  <2>2. rules \in SUBSET RuleRows
    BY DEF RuleRows, AllTexts
  <2>3. extensions \in SUBSET ExtensionRows /\ functions \in SUBSET FunctionRows
    BY DEF ExtensionRows, FunctionRows
  <2>4. FilledCR = [uid |-> 1, id |-> TRUE, rev |-> 1, sources |-> sources, rules |-> rules,
                    extensions |-> extensions, functions |-> functions]
    <3> HIDE DEF path
    <3>1. FilledCR = [NewCR(1, 1) EXCEPT
                         !.id = TRUE, !.functions = functions, !.sources = sources,
                         !.rules = rules, !.extensions = extensions]
      BY DEF FilledCR, path
    <3> HIDE DEF sources, rules, extensions, functions
    <3> QED
      BY <3>1 DEF NewCR
  <2> HIDE DEF sources, rules, extensions, functions
  <2> QED
    BY <2>1, <2>2, <2>3, <2>4 DEF Resources
<1>3. [NewCR(1, 1) EXCEPT !.id = TRUE] \in Resources
  BY DEF NewCR, Resources
<1>4. [NewCR(1, 1) EXCEPT !.id = TRUE].uid = 1 /\ [NewCR(1, 1) EXCEPT !.id = TRUE].rev = 1
  BY DEF NewCR
<1>5. cr \in Resources /\ cr.uid \in {0, made} /\ cr.rev <= rev
  BY <1>2, <1>3, <1>4 DEF Init
<1>6. Numbered
  BY DEF Init, Numbered, Bootstrap, FirstUser, Administrator
<1>7. Good(NoRequest)
  BY NoRequestShaped DEF Good, Fresh, Known, NoRequest
<1>8. IInv
  BY <1>5, <1>6, <1>7, NoRequestShaped DEF Init, IInv
<1>9. Store!Init
  BY NoRequestShaped DEF Init, Store!Init, Idle
<1> QED
  BY <1>8, <1>9

LEMMA NextIInv == IInv /\ [Next]_vars => IInv' /\ StoreStep
<1> SUFFICES ASSUME IInv, [Next]_vars
             PROVE  IInv' /\ StoreStep
  OBVIOUS
<1>1. CASE UNCHANGED vars
  <2>1. UNCHANGED <<scene, asked, profiles, cr, rev, made, req>>
    BY <1>1 DEF vars, tables
  <2>2. IInv'
    BY <2>1 DEF IInv, Numbered, Good, Fresh, Known
  <2> QED
    BY <2>1, <2>2 DEF StoreStep, Store!vars, Content
<1>2. ASSUME NEW s \in Slots, Request(s) \/ Step(s)
      PROVE  IInv' /\ StoreStep
  BY <1>2, RequestStep, FailingStep, PassingSteps, ProfileLooks, LookupStep, CreateStep,
     DeleteStep, EditStep, PutStep, CtlSteps, ProfileFinds, ProfileWrites, GrantWrites,
     GrantInserts
     DEF Step
<1>3. CASE OperatorNames \/ OperatorWrites
  BY <1>3, OperatorStep
<1>4. CASE CtlEnds \/ CtlStarts
  BY <1>4, CtlSteps
<1>5. CASE UIRestarts
  BY <1>5, UIStep
<1> QED
  BY <1>1, <1>2, <1>3, <1>4, <1>5 DEF Next

(***************************************************************************)
(* IInv holds in every state: a request that holds a copy of the resource  *)
(* holds the resource itself as long as their numbers agree.               *)
(***************************************************************************)
THEOREM Invariance == Spec => []IInv
<1>1. Init => IInv
  BY InitIInv
<1>2. IInv /\ [Next]_vars => IInv'
  BY NextIInv
<1> QED
  BY <1>1, <1>2, PTL DEF Spec

(***************************************************************************)
(* The handlers of churro-ctl keep the promise of PipelineStore: each call *)
(* is one step on the resource or none, and its answer tells which, but    *)
(* for the errors after the write.                                         *)
(***************************************************************************)
THEOREM KeepsPromise == Spec => StoreSpec
<1>1. Init => Store!Init
  BY InitIInv
<1>2. IInv /\ [Next]_vars => [Store!Next]_(Store!vars)
  BY NextIInv DEF StoreStep
<1> QED
  BY <1>1, <1>2, Invariance, PTL DEF Spec, StoreSpec, Store!Spec

LEMMA OnlyLookedUp ==
    ASSUME IInv, [Next]_vars, NEW s \in Slots,
           req[s].found # 0, req'[s] # req[s], cr' # cr
    PROVE  cr.uid = req[s].call.uid \/ made > req[s].found
<1>1. /\ req[s] \in Requests /\ Good(req[s]) /\ req \in [Slots -> Requests]
      /\ cr.uid \in {0, made} /\ made \in Nat /\ req[s].found \in Nat
  BY DEF IInv, Good, Requests
<1>2. /\ req[s].found <= made
      /\ req[s].found = made => req[s].call.uid = made
  BY <1>1 DEF Good, Known
<1>3. cr.uid # 0
  <2> SUFFICES ASSUME cr.uid = 0 PROVE FALSE
    OBVIOUS
  <2>1. PICK t \in Slots : CreatePipeline(t)
    BY DEF Next, vars, Request, Step, StepFails, Pass, Rpc, LooksForProfile, LooksForGrant,
       Lookup, DeletePipeline, Rewrite, Edit, Put, IsCurrent, GetExtractRule,
       GetPipelineStatus, LogIn, LogOut, FindsProfile, WritesProfile, ChangesGrant,
       DeletesGrants, GrantsUser, OperatorNames, OperatorWrites, CtlEnds, CtlStarts,
       UIRestarts, OfResource
  <2>2. t = s
    BY <1>1, <2>1 DEF CreatePipeline, Goes, Fails, Becomes
  <2>3. At(s, {"create"})
    BY <2>1, <2>2 DEF CreatePipeline
  <2>4. Has(req[s].left, "create") /\ Shaped(req[s]) /\ req[s].status \in Live
    BY <2>3, AtStep DEF Has
  <2> QED
    BY <2>4 DEF Shaped
<1> QED
  BY <1>1, <1>2, <1>3

(***************************************************************************)
(* A request that found its pipeline by id changes or deletes another one  *)
(* only when the pipeline was made again since.                            *)
(***************************************************************************)
THEOREM WritesLookedUp == Spec => LookedUpOnly
<1>1. IInv /\ [Next]_vars =>
         [\A s \in Slots :
            req[s].found # 0 /\ req'[s] # req[s] /\ cr' # cr
               => cr.uid = req[s].call.uid \/ made > req[s].found]_vars
  BY OnlyLookedUp
<1> QED
  BY <1>1, Invariance, PTL DEF Spec, LookedUpOnly
=============================================================================
