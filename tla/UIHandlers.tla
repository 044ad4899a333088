----------------------------- MODULE UIHandlers -----------------------------
(***************************************************************************)
(* churro-ui's request handlers, internal/handlers, each as the sequence   *)
(* of steps it takes outside its own process.  A handler goes on to the    *)
(* next step when the one before it succeeded, and shows an error page     *)
(* when not.  The steps are the actions of ControlPlane:                   *)
(*                                                                         *)
(*   profile, grant    authorization: the user's profile, then the grant   *)
(*   lookup            the pipeline's resource, found by its id            *)
(*   cluster           another read of the API server                      *)
(*   rpc               a call of churro-ctl that writes no resource        *)
(*   jobs, rule        such calls, that can end churro-ctl                 *)
(*   edit, put         a call of churro-ctl: read the resource and decide, *)
(*                     write it                                            *)
(*   trigger, purge    then: call the extractsource service, delete pods   *)
(*   relay             a call of the extractsource service                 *)
(*   create, delete,   the resource itself: CreatePipeline, DeletePipeline,*)
(*   rewrite           an update with the copy that was looked up          *)
(*   all others        a statement on the tables of churro-ui's database   *)
(*                                                                         *)
(* What a handler checks of a form's fields is left out, and the pages it  *)
(* shows; so are the reads for the page that reports an error, but for the *)
(* page of a rule (see ControlPlane).                                      *)
(***************************************************************************)
EXTENDS Sequences

Authorize == <<"profile", "grant">>
Edit == <<"edit", "put">>

-----------------------------------------------------------------------------
\* account.go
Login == <<"read", "login">>
Logout == <<"logout">>
Profile == <<"read">>
ProfileUpdate == <<"profileByEmail", "updateProfile">>

\* useradmin.go
Users == <<"read">>
UserAdmin == <<"createProfile">>
UserAdminDetail == <<"read">>
UserAdminUpdate == <<"profileById", "updateProfile">>
UserAdminDelete == <<"deleteProfile">>

\* pipelineuser.go
ShowPipelineUsers == <<"lookup", "read">>
\* Not the code: the selected users are inserted before the old ones go.
GrantsBeforeDelete == <<"grantUsers", "deleteGrants">>
UpdatePipelineUsers == <<"deleteGrants", "grantUsers">>
DeletePipelineUser == <<"lookup", "deleteGrant">>
PipelineUser == <<"lookup", "read", "read">>
UpdatePipelineUser == <<"updateGrant">>

\* pipelines.go, pipelinedetail.go
Pipelines == <<"cluster", "rpc">>
PipelineDetailHandler ==
    Authorize \o <<"read", "lookup", "rpc", "rpc", "rpc", "jobs">>
UpdatePipelineDetail == Authorize \o <<"lookup", "rewrite">>
CreatePipelineDetail == <<"profile", "create">>
DeletePipelineDetail == Authorize \o <<"lookup", "delete">>
DeletePipelines == <<"lookup">> \o Authorize \o <<"delete">>
PipelineDownloadFile == <<"lookup">>
ShowCreatePipeline == <<"cluster", "cluster">>

\* pipelinestatus.go, extractdata.go
PipelineStatusHandler == Authorize \o <<"lookup", "jobs">>
PipelineStatusJobLogHandler == Authorize \o <<"lookup", "rpc">>
DeleteJobs == <<"rpc">>
DownloadExtract == <<"rpc">>

\* extractsource.go, extractsourceapi.go
ShowCreateExtractSource == <<"lookup">>
PipelineExtractSource == <<"lookup", "rpc">>
CreateExtractSource == Edit \o <<"trigger">>
UpdateExtractSource == <<"rpc">> \o Edit \o <<"trigger">>
DeleteExtractSource == <<"lookup">> \o Edit \o <<"trigger", "purge">>
UploadURLToExtractSource == <<"lookup", "relay", "lookup", "rpc">>
UploadToExtractSource == <<"lookup", "relay", "lookup", "rpc">>
StartExtractSource == <<"lookup", "relay">>
StopExtractSource == <<"lookup", "relay">>

\* uploadscheme.go.  The route has no "wdid": the source asked for has the id
\* "", its scheme is "", and the handler ends with "scheme not supported yet".
UploadSchema == <<"lookup", "rpc", "lookup", "rpc">>

\* extractrule.go
ShowCreateExtractRule == <<"lookup", "rpc", "rpc">>
CreateExtractRule == <<"lookup">> \o Edit
UpdateExtractRule == <<"lookup">> \o Edit
DeleteExtractRule == <<"lookup">> \o Edit
ExtractRule == <<"lookup", "rpc", "rule", "rpc">>

\* extension.go
ShowCreateExtension == <<"lookup", "rpc">>
CreateExtension == <<"lookup">> \o Edit
UpdateExtension == <<"lookup">> \o Edit
DeleteExtension == <<"lookup">> \o Edit
Extension == <<"lookup", "rpc", "rpc">>

\* transformfunction.go
ShowCreateTransformFunction == <<"lookup">>
CreateTransformFunction == Authorize \o Edit
UpdateTransformFunction == Authorize \o Edit
DeleteTransformFunction == Authorize \o <<"lookup">> \o Edit
TransformFunction == <<"lookup", "rpc">>

-----------------------------------------------------------------------------
(***************************************************************************)
(* The routes of the server: a request that changes something, the pages   *)
(* that are shown, and calls that are passed on.                           *)
(***************************************************************************)
Routes ==
    [login |-> Login, logout |-> Logout, profileUpdate |-> ProfileUpdate,
     userAdmin |-> UserAdmin, userAdminUpdate |-> UserAdminUpdate,
     userAdminDelete |-> UserAdminDelete,
     updatePipelineUsers |-> UpdatePipelineUsers,
     updatePipelineUser |-> UpdatePipelineUser,
     deletePipelineUser |-> DeletePipelineUser,
     createPipelineDetail |-> CreatePipelineDetail,
     updatePipelineDetail |-> UpdatePipelineDetail,
     deletePipelineDetail |-> DeletePipelineDetail,
     deletePipelines |-> DeletePipelines,
     createExtractSource |-> CreateExtractSource,
     updateExtractSource |-> UpdateExtractSource,
     deleteExtractSource |-> DeleteExtractSource,
     createExtractRule |-> CreateExtractRule,
     updateExtractRule |-> UpdateExtractRule,
     deleteExtractRule |-> DeleteExtractRule,
     createExtension |-> CreateExtension,
     updateExtension |-> UpdateExtension,
     deleteExtension |-> DeleteExtension,
     createTransformFunction |-> CreateTransformFunction,
     updateTransformFunction |-> UpdateTransformFunction,
     deleteTransformFunction |-> DeleteTransformFunction,
     profile |-> Profile, users |-> Users, userAdminDetail |-> UserAdminDetail,
     showPipelineUsers |-> ShowPipelineUsers, pipelineUser |-> PipelineUser,
     pipelines |-> Pipelines, pipelineDetail |-> PipelineDetailHandler,
     showCreatePipeline |-> ShowCreatePipeline,
     pipelineDownloadFile |-> PipelineDownloadFile,
     pipelineStatus |-> PipelineStatusHandler,
     pipelineStatusJobLog |-> PipelineStatusJobLogHandler,
     deleteJobs |-> DeleteJobs, downloadExtract |-> DownloadExtract,
     showCreateExtractSource |-> ShowCreateExtractSource,
     pipelineExtractSource |-> PipelineExtractSource,
     uploadURL |-> UploadURLToExtractSource, upload |-> UploadToExtractSource,
     startExtractSource |-> StartExtractSource,
     stopExtractSource |-> StopExtractSource, uploadSchema |-> UploadSchema,
     showCreateExtractRule |-> ShowCreateExtractRule, extractRule |-> ExtractRule,
     showCreateExtension |-> ShowCreateExtension, extension |-> Extension,
     showCreateTransformFunction |-> ShowCreateTransformFunction,
     transformFunction |-> TransformFunction]

Ops == DOMAIN Routes

\* What authorization asks of the user.
Needs == [op \in Ops |->
    CASE op \in {"pipelineDetail", "pipelineStatus", "pipelineStatusJobLog"} -> "Read"
      [] op \in {"createPipelineDetail", "deletePipelineDetail", "deletePipelines"} -> "Admin"
      [] OTHER -> "Write"]
=============================================================================
