-------------------------- MODULE MCControlPlane --------------------------
(***************************************************************************)
(* An instance of ControlPlane: groups of requests that share what they    *)
(* write, each with its own number of requests, two of them at a time.     *)
(***************************************************************************)
EXTENDS ControlPlane, TLC

CONSTANTS r1, r2

Scene(ops, most) ==
    [ops |-> ops, most |-> most, db |-> "cockroachdb", user |-> "admin",
     filled |-> TRUE, granted |-> FALSE]

Saves == {"updatePipelineUsers", "updatePipelineUser", "deletePipelineUser",
          "userAdminDelete"}
Accounts == {"login", "logout", "profileUpdate", "userAdmin", "userAdminUpdate",
             "userAdminDelete", "createPipelineDetail", "users"}
Making == {"createPipelineDetail", "deletePipelineDetail", "deletePipelines",
           "updatePipelineDetail"}

AllScenes ==
    {Scene(SourceEdits, 3),
     Scene(RuleEdits \cup {"updateExtractSource", "extractRule"}, 2),
     Scene(ExtensionEdits \cup {"pipelineStatus"}, 2),
     Scene(FunctionEdits, 2),
     Scene(Making \cup {"createExtension", "createExtractSource"}, 3),
     [Scene(Accounts, 2) EXCEPT !.filled = FALSE],
     [Scene(UI!Ops \ (Saves \cup Accounts \cup Making \cup Edits), 1) EXCEPT !.user = "user"]}
    \cup {[Scene(FunctionEdits \cup {"deletePipelineDetail"}, 2) EXCEPT
              !.user = "user", !.granted = TRUE]}
    \cup {[Scene(Saves, 2) EXCEPT !.filled = FALSE, !.db = d, !.granted = g] :
          d \in Databases, g \in BOOLEAN}

AllSlots == {r1, r2}
SlotSymmetry == Permutations(AllSlots)
TwoSchemes == {"csv", "xml"}
TwoTexts == {"column number", "xpath"}
TwoEmails == {"admin", "user"}
TwoAccesses == {"Read", "Admin"}
TwoPaths == {1, 2}
============================================================================
