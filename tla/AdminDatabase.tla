--------------------------- MODULE AdminDatabase ---------------------------
(***************************************************************************)
(* The tables of churro-ui's database: the profiles of users, and what a   *)
(* user may do with a pipeline.  The code is internal/db/*/auth.go, which  *)
(* implements each operation for three databases, and the authorization    *)
(* made from it (internal/authorization).                                  *)
(*                                                                         *)
(* A profile is its id, email and access; a grant is a row of the table    *)
(* userpipelineaccess, told from other rows by the request that inserted   *)
(* it.  Passwords, which Authenticate does not look at, are left out.      *)
(***************************************************************************)
EXTENDS Naturals

Databases == {"cockroachdb", "mysql", "singlestore"}
Accesses == {"Read", "Write", "Admin"}

Administrator == [id |-> 1, email |-> "admin", access |-> "Admin"]

\* Bootstrap, at every start: the first profile, when its id is not there.
\* Not the code: it is inserted at every start.
BootstrapAlways(profiles) == profiles \cup {Administrator}
Bootstrap(profiles) ==
    IF \E p \in profiles : p.id = 1 THEN profiles ELSE profiles \cup {Administrator}

\* Any of the rows with the email: nothing keeps emails unique.
GetUserProfileByEmail(profiles, email) == {p \in profiles : p.email = email}
GetUserProfile(profiles, id) == {p \in profiles : p.id = id}

CreateUserProfile(profiles, p) == profiles \cup {p}
UpdateUserProfile(profiles, p) == {IF x.id = p.id THEN p ELSE x : x \in profiles}
DeleteUserProfile(profiles, id) == {x \in profiles : x.id # id}

GetUserPipelineAccess(grants, pipeline, user) ==
    {g \in grants : g.pipeline = pipeline /\ g.user = user}

DeleteAllUserPipelineAccess(grants, pipeline) == {g \in grants : g.pipeline # pipeline}
DeleteUserPipelineAccess(grants, pipeline, user) ==
    grants \ GetUserPipelineAccess(grants, pipeline, user)
UpdateUserPipelineAccess(grants, pipeline, user, access) ==
    {IF g.pipeline = pipeline /\ g.user = user THEN [g EXCEPT !.access = access] ELSE g :
     g \in grants}
CreateUserPipelineAccess(grants, row) == grants \cup {row}

\* CreateAuthObjects: in MySQL the user is the primary key of the grants, so a
\* user has one grant in all; the other databases have no key.
KeyRefuses(db, grants, user) == db = "mysql" /\ \E g \in grants : g.user = user

\* An error of the statement itself is not returned: for the deletion of all
\* grants by MySQL, for the insertion by Singlestore.
IgnoresDeleteError(db) == db = "mysql"
IgnoresInsertError(db) == db = "singlestore"

-----------------------------------------------------------------------------
(***************************************************************************)
(* Authorized and getAuthMap: Admin can do all, Write includes Read.       *)
(***************************************************************************)
Authorizes(access, action) ==
    \/ access = "Admin"
    \/ access = action
    \/ access = "Write" /\ action = "Read"
=============================================================================
