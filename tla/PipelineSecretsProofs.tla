----------------------- MODULE PipelineSecretsProofs -----------------------
(***************************************************************************)
(* Proofs about the secrets of a pipeline, for every set of kinds of       *)
(* resource and any bounds: they hold the credentials of its resource as   *)
(* long as no reconcile began while its cache was behind, and the secrets  *)
(* of the first pipeline of a name are not made of empty credentials.      *)
(***************************************************************************)
EXTENDS PipelineOperatorProofs

-----------------------------------------------------------------------------
(* Only the step of the secrets makes a secret from the credentials.       *)

LEMMA BundledApart ==
    \A g \in DOMAIN Group \ {"secrets"} : \A i \in 1..Len(Group[g]) :
       Group[g][i] \notin Bundled
<1>0. Bundled = {"cockroachdb.client.root", "cockroachdb.node", "churro.client.root"}
  <2>1. ToSet(Secrets) = {"cockroachdb.client.root", "cockroachdb.node",
                          "churro.client.root", "pull-secret"}
    BY DEF ToSet, Secrets
  <2> QED
    BY <2>1 DEF Bundled
<1>1. \A g \in Single : \A i \in 1..Len(Group[g]) : Group[g][i] \notin Bundled
  BY <1>0 DEF Single, Group, PVCs, PDBs, StatefulSet, CockroachClient, Singlestore,
     ExtractSource, Ctl
<1>2. \A g \in UISingle : \A i \in 1..Len(Group[g]) : Group[g][i] \notin Bundled
  BY <1>0 DEF UISingle, Group, UIServiceAccounts, UIClusterRoles,
     UIClusterRoleBindings, UIService, UIPVCs, UIDeployment
<1>3. \A g \in {"roles", "roleBindings", "serviceAccounts"} :
         \A i \in 1..Len(Group[g]) : Group[g][i] \notin Bundled
  BY <1>0 DEF Group, Roles, RoleBindings, ServiceAccounts
<1>4. \A i \in 1..Len(Group["services"]) : Group["services"][i] \notin Bundled
  BY <1>0 DEF Group, Services
<1>5. \A g \in {"mysql", "singlestoreClient"} :
         \A i \in 1..Len(Group[g]) : Group[g][i] \notin Bundled
  BY <1>0 DEF Group, Mysql, SinglestoreClient
<1> QED
  BY <1>1, <1>2, <1>3, <1>4, <1>5, GroupNames DEF Several

LEMMA BundledNames ==
    /\ Bundled \subseteq Names("secrets") /\ Bundled \cap Unowned = {}
    /\ {"cockroachdb.node", "churro.client.root"} \subseteq Bundled
    /\ Marker \notin Bundled
<1>1. /\ ToSet(Secrets) = {"cockroachdb.client.root", "cockroachdb.node",
                           "churro.client.root", "pull-secret"}
      /\ ToSet(UIClusterRoles) = {"clusterrole.churro-ui"}
      /\ ToSet(UIClusterRoleBindings) = {"clusterrolebinding.churro-ui"}
      /\ ToSet(Singlestore) = {"memsql-cluster"}
  BY DEF ToSet, Secrets, UIClusterRoles, UIClusterRoleBindings, Singlestore
<1>2. Names("secrets") = ToSet(Secrets)
  BY DEF Names, Group
<1> QED
  BY <1>1, <1>2 DEF Bundled, Unowned, ClusterScoped, Marker

-----------------------------------------------------------------------------
(***************************************************************************)
(* The cache ends at the resource: what it shows, or the last event that   *)
(* is to come.  A reconcile that began with nothing to come works on the   *)
(* credentials of the resource, which change only where it has none.       *)
(***************************************************************************)
Latest ==
    IF feed = <<>> THEN cached = cr ELSE feed[Len(feed)] = cr

Held(s) == [of |-> cr.uid, gen |-> cr.creds]
Secured ==
    \A s \in Bundled \cap DOMAIN child :
       /\ child[s] \in {0, cr.uid}
       /\ child[s] = cr.uid => cr.creds # 0 /\ bundle[s] = Held(s)
Working ==
    /\ op.phase # "idle" => op.my.uid = cr.uid
    /\ op.at \in {1, 2} => op.my.creds = cr.creds
    /\ op.phase = "update" => op.at = 2 /\ op.my.creds = 0
    /\ At("secrets", "create") =>
          op.got.uid = cr.uid /\ op.got.creds = cr.creds /\ cr.creds # 0
Timely == ~late /\ cr.uid # 0 => Secured /\ Working

(***************************************************************************)
(* A copy of the resource that is there is an earlier version of it, or    *)
(* the same.                                                               *)
(***************************************************************************)
Version(r) == r.uid = cr.uid /\ cr.uid # 0 =>
                 r.rv <= cr.rv /\ (r.rv = cr.rv => r = cr)
Versions ==
    /\ Version(cached) /\ Version(op.my) /\ Version(op.got)
    /\ \A i \in 1..Len(feed) : Version(feed[i])

First ==
    /\ cr.uid \in {0, made}
    /\ \A s \in Bundled \cap DOMAIN child : child[s] <= made
    /\ cr.uid = 1 =>
          /\ \A s \in Bundled \cap DOMAIN child :
                child[s] = 1 => cr.creds # 0 /\ bundle[s].gen # 0
          /\ At("secrets", "create") => cr.creds # 0 /\ op.got.creds # 0

-----------------------------------------------------------------------------
(* What the steps do to the resource and to the copies of it.              *)

\* The version that EditCR, ProcessId and UpdateCreds write.
LEMMA NextVersion ==
    ASSUME NEW r \in CRs
    PROVE  /\ [r EXCEPT !.rv = @ + 1].rv = r.rv + 1
           /\ [r EXCEPT !.id = TRUE, !.rv = @ + 1].rv = r.rv + 1
           /\ [NewBundle(r) EXCEPT !.rv = @ + 1].rv = r.rv + 1
           /\ [NewBundle(r) EXCEPT !.rv = @ + 1].creds = r.creds + 1
<1>1. /\ [r EXCEPT !.id = TRUE].rv = r.rv
      /\ [r EXCEPT !.id = TRUE, !.rv = @ + 1] =
            [[r EXCEPT !.id = TRUE] EXCEPT !.rv = @ + 1]
      /\ [r EXCEPT !.id = TRUE] \in CRs
  BY DEF CRs
<1>2. NewBundle(r).rv = r.rv /\ NewBundle(r).creds = r.creds + 1
      /\ DOMAIN NewBundle(r) = {"uid", "id", "creds", "rv"}
  BY DEF CRs, NewBundle
<1>3. [r EXCEPT !.rv = @ + 1].rv = r.rv + 1
  BY DEF CRs
<1>4. [r EXCEPT !.id = TRUE, !.rv = @ + 1].rv = r.rv + 1
  BY <1>1 DEF CRs
<1>5. /\ [NewBundle(r) EXCEPT !.rv = @ + 1].rv = r.rv + 1
      /\ [NewBundle(r) EXCEPT !.rv = @ + 1].creds = r.creds + 1
  BY <1>2
<1> QED
  BY <1>3, <1>4, <1>5

\* processId, processCreds and other requests write the next version of the
\* resource that is there.
Rewrites ==
    /\ cr' \in CRs /\ feed' = Append(feed, cr')
    /\ cr'.uid = cr.uid /\ cr'.rv = cr.rv + 1
Replaces == cr'.uid = 0 /\ (UNCHANGED <<cr, feed>> \/ feed' = Append(feed, cr'))
Creates ==
    /\ cr'.uid = made + 1 /\ made' = made + 1 /\ feed' = Append(feed, cr')
    /\ cr'.creds = 0

LEMMA IdWrites ==
    Typed /\ ProcessId =>
       /\ Leaves /\ op.at = 1 /\ op.phase # "idle"
       /\ UNCHANGED <<kind, child, bundle, made, late, cached>>
       /\ \/ UNCHANGED <<cr, feed>>
          \/ Rewrites /\ cr.uid = op.my.uid /\ cr.rv = op.my.rv /\ cr'.creds = op.my.creds
<1> SUFFICES ASSUME Typed, ProcessId
             PROVE  /\ Leaves /\ op.at = 1 /\ op.phase # "idle"
                    /\ UNCHANGED <<kind, child, bundle, made, late, cached>>
                    /\ \/ UNCHANGED <<cr, feed>>
                       \/ /\ Rewrites /\ cr.uid = op.my.uid /\ cr.rv = op.my.rv
                          /\ cr'.creds = op.my.creds
  OBVIOUS
<1>1. op.at = 1 /\ op.phase # "idle" /\ op.my \in CRs
  BY StepPlaces DEF ProcessId, At, Typed, TypeOK
<1>2. Leaves
  BY <1>1, Leaving DEF ProcessId
<1>3. UNCHANGED <<kind, child, bundle, made, late, cached>>
  BY DEF ProcessId, clientVars, ghostVars
<1> DEFINE new == [op.my EXCEPT !.id = TRUE, !.rv = @ + 1]
<1>4. new \in CRs /\ new.creds = op.my.creds /\ new.uid = op.my.uid /\ new.rv = op.my.rv + 1
  BY <1>1, WithId, NextVersion
<1>5. UNCHANGED <<cr, feed>> \/ (WriteCR(new) /\ cr.uid = op.my.uid /\ cr.rv = op.my.rv)
  BY DEF ProcessId
<1> HIDE DEF new
<1> QED
  BY <1>1, <1>2, <1>3, <1>4, <1>5 DEF WriteCR, Rewrites

LEMMA CredsReads ==
    Typed /\ GenerateCreds =>
       /\ op.at = 2 /\ op.phase # "idle"
       /\ UNCHANGED <<kind, child, bundle, made, late, cached, cr, feed>>
       /\ \/ Leaves
          \/ Moves /\ op'.at = 2 /\ op'.my.creds = 0 /\ op'.my = op.my
             /\ op'.phase = "update"
<1> SUFFICES ASSUME Typed, GenerateCreds
             PROVE  /\ op.at = 2 /\ op.phase # "idle"
                    /\ UNCHANGED <<kind, child, bundle, made, late, cached, cr, feed>>
                    /\ \/ Leaves
                       \/ /\ Moves /\ op'.at = 2 /\ op'.my.creds = 0 /\ op'.my = op.my
                          /\ op'.phase = "update"
  OBVIOUS
<1>1. op.at = 2 /\ op.phase # "idle"
  BY StepPlaces DEF GenerateCreds, At
<1>2. UNCHANGED <<kind, child, bundle, made, late, cached, cr, feed>>
  BY DEF GenerateCreds, clusterVars, clientVars, ghostVars
<1>3. CASE NeedCreds /\ op' = [op EXCEPT !.phase = "update", !.got = cr] /\ pending' = pending
  <2>1. op' = [op EXCEPT !.phase = "update", !.got = cr, !.todo = op.todo]
    BY <1>3 DEF Typed, TypeOK
  <2>2. Moves /\ op'.phase = "update" /\ op'.at = op.at
    BY <1>1, <1>3, <2>1, Staying DEF Typed, TypeOK
  <2>3. op'.my = op.my
    BY <1>3 DEF Typed, TypeOK
  <2> QED
    BY <1>1, <1>2, <1>3, <2>2, <2>3 DEF NeedCreds
<1> QED
  BY <1>1, <1>2, <1>3, Leaving DEF GenerateCreds

LEMMA CredsWrites ==
    Typed /\ UpdateCreds =>
       /\ Leaves /\ op.at = 2 /\ op.phase = "update"
       /\ UNCHANGED <<kind, child, bundle, made, late, cached>>
       /\ UNCHANGED <<cr, feed>> \/ (Rewrites /\ cr'.creds # 0)
<1> SUFFICES ASSUME Typed, UpdateCreds
             PROVE  /\ Leaves /\ op.at = 2 /\ op.phase = "update"
                    /\ UNCHANGED <<kind, child, bundle, made, late, cached>>
                    /\ UNCHANGED <<cr, feed>> \/ (Rewrites /\ cr'.creds # 0)
  OBVIOUS
<1>1. /\ op.at = 2 /\ op.phase = "update" /\ op.got \in CRs /\ op.got.creds \in Nat
      /\ op.got.creds < MaxGenerations
  <2>1. op.at = 2 /\ op.phase = "update" /\ op.got \in CRs
    BY StepPlaces DEF UpdateCreds, At, Typed, TypeOK
  <2>2. op.got.creds \in Nat
    BY <2>1, OperatorAssumption DEF CRs
  <2> QED
    BY <2>1, <2>2 DEF Typed, Room
<1>2. Leaves
  BY <1>1, Leaving DEF UpdateCreds
<1>3. UNCHANGED <<kind, child, bundle, made, late, cached>>
  BY DEF UpdateCreds, clientVars, ghostVars
<1> DEFINE new == [NewBundle(op.got) EXCEPT !.rv = @ + 1]
<1>4. new \in CRs /\ new.creds # 0 /\ new.uid = op.got.uid /\ new.rv = op.got.rv + 1
  <2>1. new \in CRs /\ new.uid = op.got.uid
    BY <1>1, WithBundle
  <2>2. new.creds = op.got.creds + 1 /\ new.rv = op.got.rv + 1
    BY <1>1, NextVersion
  <2> HIDE DEF new
  <2> QED
    BY <1>1, <2>1, <2>2
<1>5. UNCHANGED <<cr, feed>> \/ (WriteCR(new) /\ cr.uid = op.got.uid /\ cr.rv = op.got.rv)
  BY DEF UpdateCreds
<1> HIDE DEF new
<1> QED
  BY <1>1, <1>2, <1>3, <1>4, <1>5 DEF WriteCR, Rewrites

LEMMA MakesCR ==
    Typed /\ CreateCR =>
       /\ UNCHANGED <<kind, child, bundle, op, cached>>
       /\ \/ UNCHANGED <<cr, feed, made, late>>
          \/ /\ Creates /\ cr' \in CRs
             /\ ~late' => /\ op = Idle
                          /\ \A c \in DOMAIN child \ Unowned : child[c] = 0
<1> SUFFICES ASSUME Typed, CreateCR
             PROVE  /\ UNCHANGED <<kind, child, bundle, op, cached>>
                    /\ \/ UNCHANGED <<cr, feed, made, late>>
                       \/ /\ Creates /\ cr' \in CRs
                          /\ ~late' => /\ op = Idle
                                       /\ \A c \in DOMAIN child \ Unowned : child[c] = 0
  OBVIOUS
<1>1. cr' \in CRs
  BY TypedStep DEF Next, Typed, TypeOK
<1>2. UNCHANGED <<kind, child, bundle, op, cached>>
  BY DEF CreateCR
<1> DEFINE new == [uid |-> made + 1, id |-> FALSE, creds |-> 0, rv |-> 1]
<1>3. CASE UNCHANGED <<cr, feed, made, late>>
  BY <1>2, <1>3
<1>4. CASE ~UNCHANGED <<cr, feed, made, late>>
  <2>1. WriteCR(new) /\ made' = made + 1
    BY <1>4 DEF CreateCR
  <2>2. new.uid = made + 1 /\ new.creds = 0
    OBVIOUS
  <2> HIDE DEF new
  <2>3. ~late' => op = Idle /\ \A c \in DOMAIN child \ Unowned : child[c] = 0
    BY <1>4 DEF CreateCR
  <2> QED
    BY <1>1, <1>2, <2>1, <2>2, <2>3 DEF WriteCR, Creates
<1> QED
  BY <1>3, <1>4

LEMMA Edits ==
    Typed /\ EditCR =>
       /\ UNCHANGED <<kind, child, bundle, op, cached, made, late>>
       /\ Rewrites /\ cr'.creds = cr.creds
<1> SUFFICES ASSUME Typed, EditCR
             PROVE  /\ UNCHANGED <<kind, child, bundle, op, cached, made, late>>
                    /\ Rewrites /\ cr'.creds = cr.creds
  OBVIOUS
<1>1. WriteCR([cr EXCEPT !.rv = @ + 1])
  BY DEF EditCR
<1>2. UNCHANGED <<kind, child, bundle, op, cached, made, late>>
  BY DEF EditCR, clientVars, ghostVars
<1> QED
  BY <1>1, <1>2, Shapes, Rewritten, NextVersion DEF WriteCR, Rewrites

LEMMA Ends ==
    Typed /\ (DeleteCR \/ NamespaceGone) =>
       Replaces /\ UNCHANGED <<kind, op, cached, made, late>>
<1> SUFFICES ASSUME Typed, DeleteCR \/ NamespaceGone
             PROVE  Replaces /\ UNCHANGED <<kind, op, cached, made, late>>
  OBVIOUS
<1>1. CASE DeleteCR
  BY <1>1, NoCRTyped DEF DeleteCR, WriteCR, Replaces, clientVars, ghostVars
<1>2. CASE NamespaceGone
  BY <1>2, NoCRTyped DEF NamespaceGone, WriteCR, Replaces, clientVars, ghostVars
<1> QED
  BY <1>1, <1>2

\* A step that reads the resource and writes none.
Reads ==
    /\ UNCHANGED <<cr, feed, cached>>
    /\ made' = made
    /\ op' = op \/ Moves \/ Start

\* The traffic between the resource, the cache and the reconciler.
Traffic ==
    \/ Reads
    \/ Rewrites /\ UNCHANGED <<cached, made>> /\ (op' = op \/ Moves)
    \/ Creates /\ UNCHANGED <<cached, op>>
    \/ Replaces /\ UNCHANGED <<cached, made, op>>
    \/ Deliver \/ Restart

LEMMA StepTraffic == Typed /\ [Next]_vars => Traffic
<1> SUFFICES ASSUME Typed, [Next]_vars PROVE Traffic
  OBVIOUS
<1>1. CASE CreateCR
  BY <1>1, MakesCR DEF Traffic, Reads
<1>2. CASE EditCR
  BY <1>2, Edits DEF Traffic
<1>3. CASE DeleteCR \/ NamespaceGone
  BY <1>3, Ends DEF Traffic
<1>4. CASE EnsureNamespace \/ ChildEvent \/ UNCHANGED vars \/ \E sweep \in Sweeps : Collect(sweep)
  <2>1. UNCHANGED <<cr, feed, cached, made, op>>
    BY <1>4 DEF EnsureNamespace, ChildEvent, Collect, vars, clusterVars, clientVars, watchVars
  <2> QED
    BY <2>1 DEF Traffic, Reads
<1>5. CASE Reconcile
  <2>1. CASE Minor
    BY <2>1, MinorMoves DEF Traffic, Reads, clientVars
  <2>2. CASE CreateMarker
    <3>1. Moves
      BY <2>2, MarkerMoves
    <3> QED
      BY <2>2, <3>1 DEF CreateMarker, Traffic, Reads, clientVars
  <2>3. CASE ProcessDeleted \/ Start
    <3>1. UNCHANGED <<cr, feed, cached, made>> /\ (op' = op \/ Start)
      BY <2>3 DEF ProcessDeleted, Start, clusterVars, clientVars
    <3> QED
      BY <3>1 DEF Traffic, Reads
  <2>4. CASE ProcessId
    BY <2>4, IdWrites DEF Traffic, Reads, Leaves
  <2>5. CASE GenerateCreds
    BY <2>5, CredsReads DEF Traffic, Reads, Leaves
  <2>6. CASE UpdateCreds
    BY <2>6, CredsWrites DEF Traffic, Reads, Leaves
  <2> QED
    BY <1>5, <2>1, <2>2, <2>3, <2>4, <2>5, <2>6 DEF Reconcile, Minor
<1>6. CASE Deliver \/ Restart
  BY <1>6 DEF Traffic
<1> QED
  BY <1>1, <1>2, <1>3, <1>4, <1>5, <1>6 DEF Next

-----------------------------------------------------------------------------
(* The cache ends at the resource, and copies are of its past.             *)

LEMMA LatestInit == Init => Latest
BY DEF Init, Latest

LEMMA LatestStep == Typed /\ Latest /\ [Next]_vars => Latest'
<1> SUFFICES ASSUME Typed, Latest, [Next]_vars PROVE Latest'
  OBVIOUS
<1>1. Traffic /\ cr' \in CRs
  BY StepTraffic, TypedStep DEF Typed, TypeOK
<1>2. CASE UNCHANGED <<cr, feed, cached>>
  BY <1>2 DEF Latest
<1>3. CASE feed' = Append(feed, cr')
  <2>1. Len(feed') = Len(feed) + 1 /\ Len(feed) \in Nat /\ feed'[Len(feed) + 1] = cr'
    BY <1>1, <1>3, Appended
  <2>2. feed' # <<>>
    BY <2>1
  <2> QED
    BY <2>1, <2>2 DEF Latest
<1>4. CASE Deliver
  <2>1. /\ feed # <<>> /\ cached' = feed[1] /\ Len(feed') = Len(feed) - 1
        /\ Len(feed) \in Nat \ {0} /\ cr' = cr /\ feed' \in Seq(CRs)
        /\ \A i \in 1..Len(feed') : feed'[i] = feed[i + 1]
    BY <1>4, Shapes DEF Deliver, clusterVars
  <2>2. CASE feed' = <<>>
    <3>1. Len(feed') = 0
      BY <2>2
    <3>2. Len(feed) = 1
      BY <2>1, <3>1
    <3>3. feed[Len(feed)] = cr
      BY <2>1 DEF Latest
    <3> QED
      BY <2>1, <2>2, <3>2, <3>3 DEF Latest
  <2>3. CASE feed' # <<>>
    <3>1. Len(feed') \in 1..Len(feed')
      BY <2>1, <2>3
    <3> QED
      BY <2>1, <2>3, <3>1 DEF Latest
  <2> QED
    BY <2>2, <2>3
<1>5. CASE Restart
  BY <1>5 DEF Restart, Latest, clusterVars
<1> QED
  <2>1. CASE Replaces /\ UNCHANGED <<cached, made, op>>
    BY <1>2, <1>3, <2>1 DEF Replaces
  <2>2. CASE Reads
    BY <1>2, <2>2 DEF Reads
  <2>3. CASE Rewrites \/ Creates
    BY <1>3, <2>3 DEF Rewrites, Creates
  <2> QED
    BY <1>1, <1>4, <1>5, <2>1, <2>2, <2>3 DEF Traffic

LEMMA VersionsInit == Init => Versions
BY NoCRTyped DEF Init, Idle, Versions, Version

LEMMA VersionsStep == Typed /\ Followed /\ Versions /\ [Next]_vars => Versions'
<1> SUFFICES ASSUME Typed, Followed, Versions, [Next]_vars PROVE Versions'
  OBVIOUS
<1>1. Traffic /\ cr' \in CRs /\ Typed'
  BY StepTraffic, TypedStep DEF Typed, TypeOK
<1>2. /\ cr \in CRs /\ \A r \in CRs : r.rv \in Nat /\ r.uid \in Nat
      /\ cached \in CRs /\ op.my \in CRs /\ op.got \in CRs /\ feed \in Seq(CRs)
      /\ op'.my \in CRs /\ op'.got \in CRs
  <2>1. \A r \in CRs : r.rv \in Nat /\ r.uid \in Nat
    BY OperatorAssumption DEF CRs
  <2>2. /\ cr \in CRs /\ cached \in CRs /\ op.my \in CRs /\ op.got \in CRs
        /\ feed \in Seq(CRs)
    BY DEF Typed, TypeOK
  <2>3. op'.my \in CRs /\ op'.got \in CRs
    BY <1>1 DEF Typed, TypeOK
  <2> QED
    BY <2>1, <2>2, <2>3
<1>3. Version(cr) /\ Version(NoCR)
  BY <1>2, NoCRTyped DEF Version
<1>4. ASSUME op' = op \/ Moves
      PROVE  op'.my \in {op.my, NoCR} /\ op'.got \in {op.got, cr, NoCR}
  BY <1>4, IdleTyped DEF Moves, Typed, TypeOK
<1>5. CASE Reads
  <2>1. op'.my \in {op.my, cached, NoCR} /\ op'.got \in {op.got, cr, NoCR}
    BY <1>4, <1>5 DEF Reads, Start, Enter
  <2>2. UNCHANGED <<cr, feed, cached>>
    BY <1>5 DEF Reads
  <2> QED
    BY <1>3, <2>1, <2>2 DEF Versions, Version
<1>6. ASSUME NEW r \in CRs, Version(r), cr'.uid = cr.uid, cr'.rv = cr.rv + 1
      PROVE  r.uid = cr'.uid /\ cr'.uid # 0 => r.rv <= cr'.rv /\ (r.rv = cr'.rv => r = cr')
  BY <1>1, <1>2, <1>6 DEF Version
<1>7. CASE Rewrites /\ UNCHANGED <<cached, made>> /\ (op' = op \/ Moves)
  <2>1. /\ cr'.uid = cr.uid /\ cr'.rv = cr.rv + 1 /\ feed' = Append(feed, cr')
        /\ cached' = cached
    BY <1>7 DEF Rewrites
  <2>2. op'.my \in {op.my, NoCR} /\ op'.got \in {op.got, cr, NoCR}
    BY <1>4, <1>7
  <2>3. Version(op'.my) /\ Version(op'.got) /\ Version(cached)
    BY <1>3, <2>2 DEF Versions
  <2>4. \A i \in 1..Len(feed) : feed[i] \in CRs /\ Version(feed[i])
    BY <1>2 DEF Versions
  <2>5. \A i \in 1..Len(feed') :
           \/ i \in 1..Len(feed) /\ feed'[i] = feed[i]
           \/ feed'[i] = cr'
    BY <1>1, <2>1, Appended
  <2>6. \A i \in 1..Len(feed') : Version(feed[i])' 
    BY <1>1, <1>2, <1>6, <2>1, <2>4, <2>5 DEF Version
  <2>7. Version(cached)' /\ Version(op.my)' /\ Version(op.got)'
    BY <1>2, <1>6, <2>1, <2>3 DEF Version
  <2> QED
    BY <2>6, <2>7 DEF Versions
<1>8. CASE Creates /\ UNCHANGED <<cached, op>>
  <2>1. cr'.uid = made + 1 /\ feed' = Append(feed, cr') /\ made \in Nat
    BY <1>8, Shapes DEF Creates
  <2>2. /\ cached.uid <= made /\ op.my.uid <= made /\ op.got.uid <= made
        /\ \A i \in 1..Len(feed) : feed[i].uid <= made /\ feed[i].uid \in Nat
        /\ cached.uid \in Nat /\ op.my.uid \in Nat /\ op.got.uid \in Nat
    BY Shapes DEF Followed, Known
  <2>3. /\ cached.uid # cr'.uid /\ op.my.uid # cr'.uid /\ op.got.uid # cr'.uid
        /\ \A i \in 1..Len(feed) : feed[i].uid # cr'.uid
    BY <2>1, <2>2
  <2>4. \A i \in 1..Len(feed') :
           \/ i \in 1..Len(feed) /\ feed'[i] = feed[i]
           \/ feed'[i] = cr'
    BY <1>1, <2>1, Appended
  <2>5. \A i \in 1..Len(feed') : Version(feed[i])'
    <3>1. cr'.rv <= cr'.rv
      BY <1>1, <1>2
    <3> QED
      BY <2>3, <2>4, <3>1 DEF Version
  <2>6. UNCHANGED <<cached, op>>
    BY <1>8
  <2>7. Version(cached)' /\ Version(op.my)' /\ Version(op.got)'
    BY <2>3, <2>6 DEF Version
  <2> QED
    BY <2>5, <2>7 DEF Versions
<1>9. CASE Replaces
  BY <1>9 DEF Replaces, Versions, Version
<1>10. CASE Deliver
  <2>1. /\ cached' = feed[1] /\ 1 \in 1..Len(feed) /\ UNCHANGED <<cr, op>>
        /\ \A i \in 1..Len(feed') : feed'[i] = feed[i + 1] /\ i + 1 \in 1..Len(feed)
    BY <1>10, Shapes DEF Deliver, clusterVars
  <2> QED
    BY <2>1 DEF Versions, Version
<1>11. CASE Restart
  <2>1. /\ op'.my = NoCR /\ op'.got = NoCR /\ cached' = cr /\ Len(feed') = 0 /\ cr' = cr
    BY <1>11, IdleTyped DEF Restart, clusterVars, Typed, TypeOK
  <2> QED
    BY <1>3, <2>1 DEF Versions, Version
<1> QED
  BY <1>1, <1>5, <1>7, <1>8, <1>9, <1>10, <1>11 DEF Traffic

-----------------------------------------------------------------------------
(* What the steps that make children do to the secrets.                    *)

KeptSecret(s) == child'[s] = child[s] /\ bundle'[s] = bundle[s]
MadeSecret(s) ==
    child'[s] = op.my.uid /\ bundle'[s] = [of |-> op.got.uid, gen |-> op.got.creds]
SecretsStay ==
    DOMAIN child' = DOMAIN child /\ \A s \in Bundled \cap DOMAIN child : KeptSecret(s)
SecretsMade ==
    /\ DOMAIN child' = DOMAIN child
    /\ \A s \in Bundled \cap DOMAIN child : KeptSecret(s) \/ MadeSecret(s)

LEMMA MakingOthers ==
    ASSUME Typed, NEW cs, NEW got, NEW lag, Make(cs, got, lag),
           \A c \in cs : c \notin Bundled
    PROVE  SecretsStay
BY DEF Make, SecretsStay, KeptSecret

LEMMA MinorSecrets ==
    Typed /\ (Minor \/ CreateMarker) =>
       SecretsStay \/ (At("secrets", "create") /\ CreateChild /\ SecretsMade)
<1> SUFFICES ASSUME Typed, Minor \/ CreateMarker
             PROVE  SecretsStay \/ (At("secrets", "create") /\ CreateChild /\ SecretsMade)
  OBVIOUS
<1>1. CASE EnsureGroup
  <2>1. Step \in DOMAIN Group \ {"secrets"}
    BY <1>1 DEF EnsureGroup, Plain
  <2>2. PICK lag \in BOOLEAN : \E seen : \E n \in 0..Len(Group[Step]) :
           Make({Group[Step][i] : i \in 1..n} \ seen, NoCR, lag)
    BY <1>1 DEF EnsureGroup
  <2>3. PICK seen : \E n \in 0..Len(Group[Step]) :
           Make({Group[Step][i] : i \in 1..n} \ seen, NoCR, lag)
    BY <2>2
  <2>4. PICK n \in 0..Len(Group[Step]) :
           Make({Group[Step][i] : i \in 1..n} \ seen, NoCR, lag)
    BY <2>3
  <2>5. \A c \in {Group[Step][i] : i \in 1..n} \ seen : c \notin Bundled
    BY <2>1, BundledApart
  <2> QED
    BY <2>4, <2>5, MakingOthers
<1>2. CASE LookSecrets \/ LookMysql
  <2>1. \E lag : Make({}, NoCR, lag)
    BY <1>2 DEF LookSecrets, LookMysql, MakeNothing
  <2> QED
    BY <2>1, MakingOthers
<1>3. CASE CreateChild
  <2>1. PICK i \in 1..Len(Group[Step]) :
           Make({Group[Step][i]}, op.got, FALSE) \/ MakeNothing(FALSE)
    BY <1>3 DEF CreateChild
  <2>2. CASE MakeNothing(FALSE)
    <3>1. PICK cs : cs = {} /\ Make(cs, NoCR, FALSE)
      BY <2>2 DEF MakeNothing
    <3>2. \A c \in cs : c \notin Bundled
      BY <3>1
    <3> QED
      BY <3>1, <3>2, MakingOthers
  <2>3. CASE Step = "mysql" /\ Make({Group[Step][i]}, op.got, FALSE)
    <3>1. "mysql" \in DOMAIN Group \ {"secrets"}
      BY GroupNames DEF Several
    <3>2. PICK cs : cs = {Group[Step][i]} /\ Make(cs, op.got, FALSE)
      BY <2>3
    <3>3. \A c \in cs : c \notin Bundled
      BY <2>3, <3>1, <3>2, BundledApart
    <3> QED
      BY <3>2, <3>3, MakingOthers
  <2>4. CASE Step = "secrets" /\ Make({Group[Step][i]}, op.got, FALSE)
    <3>1. SecretsMade
      BY <2>4 DEF Make, SecretsMade, KeptSecret, MadeSecret
    <3> QED
      BY <1>3, <2>4, <3>1 DEF CreateChild, At
  <2> QED
    BY <1>3, <2>1, <2>2, <2>3, <2>4 DEF CreateChild
<1>4. CASE Unsupported \/ AwaitRunning \/ ExecInit \/ AwaitReady
  <2>1. UNCHANGED <<child, bundle>>
    BY <1>4 DEF Unsupported, AwaitRunning, ExecInit, AwaitReady, clusterVars
  <2> QED
    BY <2>1 DEF SecretsStay, KeptSecret
<1>5. CASE CreateMarker
  <2>1. PICK cs \in {{}, {Marker}} : Make(cs, NoCR, FALSE)
    BY <1>5 DEF CreateMarker, MakeNothing
  <2> QED
    BY <2>1, BundledNames, MakingOthers
<1> QED
  BY <1>1, <1>2, <1>3, <1>4, <1>5 DEF Minor

\* The reconciler goes to its next step, or to a phase of this one in which it
\* neither has credentials to write nor a resource to make secrets from.
Elsewhere ==
    /\ op.phase # "idle"
    /\ \/ Leaves
       \/ /\ op'.at = op.at /\ op'.my = op.my /\ op'.phase \notin {"idle", "update"}
          /\ Step = "secrets" => op'.phase # "create"

\* It begins to make secrets, from the resource as it is.
Begins ==
    /\ LookSecrets
    /\ op.phase = "look" /\ op'.phase = "create" /\ op'.at = op.at /\ op'.my = op.my
    /\ op'.got = cr
    /\ cr.creds = 0 =>
          "cockroachdb.node" \in DOMAIN child /\ child["cockroachdb.node"] # 0

\* It goes on making them.
Continues ==
    /\ At("secrets", "create") /\ op'.phase = "create"
    /\ op'.at = op.at /\ op'.my = op.my /\ op'.got = op.got

LEMMA SecretsAreChildren ==
    ASSUME Typed, Step = "secrets" PROVE Names("secrets") \subseteq DOMAIN child
<1>1. op.at \in 1..Len(Program[kind]) /\ Program[kind][op.at] = "secrets"
  <2>1. op.at # 0
    BY DEF Step
  <2>2. op.at \in 0..Len(Program[kind]) /\ Len(Program[kind]) \in Nat
    BY Kinded DEF Typed, TypeOK
  <2> QED
    BY <2>1, <2>2 DEF Step
<1>2. "secrets" \in ToSet(Program[kind])
  BY <1>1 DEF ToSet
<1>3. "secrets" \in DOMAIN Group /\ kind \in DOMAIN Program
  BY Kinded, GroupNames DEF Several, Typed, TypeOK
<1>4. Names("secrets") \subseteq ChildrenOf[kind]
  BY <1>2, <1>3 DEF ChildrenOf
<1> QED
  BY <1>4 DEF Typed, TypeOK

LEMMA SecretsBegin ==
    ASSUME Typed, LookSecrets PROVE Elsewhere \/ Begins
<1>1. op.phase = "look" /\ Step = "secrets"
  BY DEF LookSecrets, At
<1>2. CASE Advance \/ Fail
  BY <1>1, <1>2, Leaving DEF Elsewhere
<1>3. CASE ~Advance /\ ~Fail
  <2>1. PICK lag \in BOOLEAN : \E seen \in Views("secrets", lag) :
           /\ ~(cr.creds = 0 /\ {"cockroachdb.node", "churro.client.root"} \ seen # {})
           /\ Create(Names("secrets") \ seen, cr)
    BY <1>3 DEF LookSecrets
  <2>2. PICK seen \in Views("secrets", lag) :
           /\ ~(cr.creds = 0 /\ {"cockroachdb.node", "churro.client.root"} \ seen # {})
           /\ Create(Names("secrets") \ seen, cr)
    BY <2>1
  <2>3. /\ Names("secrets") \ seen # {}
        /\ op' = [op EXCEPT !.phase = "create", !.todo = Names("secrets") \ seen,
                           !.got = cr]
    BY <1>3, <2>2 DEF Create
  <2>4. /\ op'.phase = "create" /\ op'.at = op.at /\ op'.my = op.my /\ op'.got = cr
    BY <2>3 DEF Typed, TypeOK
  <2>5. cr.creds = 0 =>
           "cockroachdb.node" \in DOMAIN child /\ child["cockroachdb.node"] # 0
    <3> SUFFICES ASSUME cr.creds = 0
                 PROVE  "cockroachdb.node" \in DOMAIN child /\ child["cockroachdb.node"] # 0
      OBVIOUS
    <3>1. "cockroachdb.node" \in seen
      BY <2>2
    <3>2. seen = Present("secrets")
      BY <2>2, <2>3, <3>1 DEF Views
    <3> QED
      BY <1>1, <3>1, <3>2, SecretsAreChildren DEF Present
  <2> QED
    BY <1>1, <2>4, <2>5 DEF Begins
<1> QED
  BY <1>2, <1>3

LEMMA MinorOps ==
    Typed /\ (Minor \/ CreateMarker) =>
       /\ UNCHANGED <<kind, cr, made, late>>
       /\ Elsewhere \/ Begins \/ Continues
<1> SUFFICES ASSUME Typed, Minor \/ CreateMarker
             PROVE  /\ UNCHANGED <<kind, cr, made, late>>
                    /\ Elsewhere \/ Begins \/ Continues
  OBVIOUS
<1>0. UNCHANGED <<kind, cr, made, late>>
  BY MinorMoves DEF CreateMarker, clientVars, ghostVars
<1>1. ASSUME op.phase # "idle", Advance \/ Fail PROVE Elsewhere
  BY <1>1, Leaving DEF Elsewhere
<1>2. ASSUME op.phase # "idle", Step # "secrets", NEW phase \in {"ready", "create", "exec"},
             InitTo(phase)
      PROVE  Elsewhere
  BY <1>2, InitMoves DEF Elsewhere
<1>3. CASE EnsureGroup \/ Unsupported
  BY <1>0, <1>1, <1>3 DEF EnsureGroup, Unsupported, At
<1>4. CASE LookSecrets
  BY <1>0, <1>4, SecretsBegin
<1>5. CASE LookMysql
  <2>1. op.phase = "look" /\ Step = "mysql"
    BY <1>5 DEF LookMysql, At
  <2>2. \/ Advance
        \/ \E todo : op' = [op EXCEPT !.phase = "create", !.todo = todo, !.got = NoCR]
    BY <1>5 DEF LookMysql, Create
  <2>3. CASE \E todo : op' = [op EXCEPT !.phase = "create", !.todo = todo, !.got = NoCR]
    <3>1. op'.phase = "create" /\ op'.at = op.at /\ op'.my = op.my
      BY <2>3 DEF Typed, TypeOK
    <3> QED
      BY <1>0, <2>1, <3>1 DEF Elsewhere
  <2> QED
    BY <1>0, <1>1, <2>1, <2>2, <2>3
<1>6. CASE CreateChild
  <2>1. op.phase = "create" /\ Step \in {"secrets", "mysql"}
    BY <1>6 DEF CreateChild
  <2>2. \/ Advance \/ Fail
        \/ \E c : op' = [op EXCEPT !.todo = @ \ {c}]
    BY <1>6 DEF CreateChild
  <2>3. CASE \E c : op' = [op EXCEPT !.todo = @ \ {c}]
    <3>1. op'.phase = "create" /\ op'.at = op.at /\ op'.my = op.my /\ op'.got = op.got
      BY <2>1, <2>3 DEF Typed, TypeOK
    <3> QED
      BY <1>0, <2>1, <3>1 DEF Elsewhere, Continues, At
  <2> QED
    BY <1>0, <1>1, <2>1, <2>2, <2>3
<1>7. CASE AwaitRunning \/ ExecInit \/ AwaitReady \/ CreateMarker
  <2>1. op.phase # "idle" /\ Step = "init"
    BY <1>7 DEF AwaitRunning, ExecInit, AwaitReady, CreateMarker, At
  <2>2. Advance \/ Fail \/ \E phase \in {"ready", "create", "exec"} : InitTo(phase)
    BY <1>7 DEF AwaitRunning, ExecInit, AwaitReady, CreateMarker
  <2> QED
    BY <1>0, <1>1, <1>2, <2>1, <2>2
<1> QED
  BY <1>0, <1>3, <1>4, <1>5, <1>6, <1>7 DEF Minor

-----------------------------------------------------------------------------
(* Secrets and resource agree while the operator is in time.               *)

LEMMA TimelyInit == Init => Timely
BY NoCRTyped DEF Init, Timely

\* The reconciler goes on elsewhere, or comes to rest, and the credentials of
\* the resource are the same.
LEMMA WorkingKept ==
    ASSUME Typed, Working, Elsewhere \/ op' = Idle,
           kind' = kind, cr'.uid = cr.uid, cr'.creds = cr.creds
    PROVE  Working'
<1>1. CASE op' = Idle
  BY <1>1, IdleTyped DEF Typed, TypeOK, Working, At
<1>2. CASE Leaves /\ op' # Idle /\ op.phase # "idle"
  <2>1. op'.phase = "look" /\ op'.at = op.at + 1 /\ op'.my = op.my
    BY <1>2 DEF Leaves, Moves
  <2>2. op.at \in Nat /\ op.at # 0
    BY <1>2, Kinded DEF Typed, TypeOK, Busy
  <2>3. op'.at \in {1, 2} => op.at = 1
    BY <2>1, <2>2
  <2> QED
    BY <1>2, <2>1, <2>3 DEF Working, At
<1>3. CASE Elsewhere /\ ~Leaves
  <2>1. op.phase # "idle" /\ op'.at = op.at /\ op'.my = op.my /\ op'.phase # "update"
    BY <1>3 DEF Elsewhere
  <2>2. ~At("secrets", "create")'
    BY <1>3, <2>1 DEF Elsewhere, At, Step
  <2> QED
    BY <2>1, <2>2 DEF Working
<1> QED
  BY <1>1, <1>2, <1>3 DEF Elsewhere

LEMMA SecuredKept ==
    ASSUME Secured, SecretsStay, cr'.uid = cr.uid, cr'.creds = cr.creds
    PROVE  Secured'
BY DEF Secured, SecretsStay, KeptSecret, Held

LEMMA TimelyKept ==
    ASSUME Timely, UNCHANGED <<kind, child, bundle, op, late>>,
           cr'.uid # 0 => cr'.uid = cr.uid /\ cr'.creds = cr.creds
    PROVE  Timely'
BY DEF Timely, Secured, Held, Working, At, Step

LEMMA TimelyMinor == Typed /\ Timely /\ (Minor \/ CreateMarker) => Timely'
<1> SUFFICES ASSUME Typed, Timely, Minor \/ CreateMarker PROVE Timely'
  OBVIOUS
<1>1. UNCHANGED <<kind, cr, made, late>> /\ (Elsewhere \/ Begins \/ Continues)
  BY MinorOps
<1> SUFFICES ASSUME ~late, cr.uid # 0 PROVE Secured' /\ Working'
  BY <1>1 DEF Timely
<1>2. Secured /\ Working
  BY DEF Timely
<1>3. Secured'
  <2>1. CASE SecretsStay
    BY <1>1, <1>2, <2>1, SecuredKept
  <2>2. CASE At("secrets", "create") /\ SecretsMade
    <3>1. /\ op.got.uid = cr.uid /\ op.got.creds = cr.creds /\ cr.creds # 0
          /\ op.my.uid = cr.uid
      BY <1>2, <2>2 DEF Working, At
    <3> QED
      BY <1>1, <1>2, <2>2, <3>1 DEF Secured, SecretsMade, KeptSecret, MadeSecret, Held
  <2> QED
    BY <2>1, <2>2, MinorSecrets
<1>4. Working'
  <2>1. CASE Elsewhere
    BY <1>1, <1>2, <2>1, WorkingKept
  <2>2. CASE Begins
    <3>1. Step = "secrets" /\ op.phase = "look"
      BY <2>2 DEF Begins, LookSecrets, At
    <3>2. cr.creds # 0
      BY <1>2, <2>2, BundledNames DEF Begins, Secured
    <3>3. Step' = "secrets" /\ op'.phase = "create" /\ op'.at = op.at /\ op'.my = op.my
      BY <1>1, <2>2, <3>1 DEF Begins, Step
    <3> QED
      BY <1>1, <1>2, <2>2, <3>1, <3>2, <3>3 DEF Begins, Working, At
  <2>3. CASE Continues
    BY <1>1, <1>2, <2>3 DEF Continues, Working, At, Step
  <2> QED
    BY <1>1, <2>1, <2>2, <2>3
<1> QED
  BY <1>3, <1>4

LEMMA TimelyStep == Typed /\ Latest /\ Timely /\ [Next]_vars => Timely'
<1> SUFFICES ASSUME Typed, Latest, Timely, [Next]_vars PROVE Timely'
  OBVIOUS
<1>1. CASE EnsureNamespace \/ Deliver \/ ChildEvent \/ ProcessDeleted \/ UNCHANGED vars
  <2>1. UNCHANGED <<kind, cr, child, bundle, op, late>>
    BY <1>1 DEF EnsureNamespace, Deliver, ChildEvent, ProcessDeleted, vars, clusterVars,
       watchVars, ghostVars
  <2> QED
    BY <2>1, TimelyKept
<1>2. CASE CreateCR
  <2>1. UNCHANGED <<kind, child, bundle, op>>
    BY <1>2, MakesCR
  <2>2. CASE UNCHANGED <<cr, late>>
    BY <2>1, <2>2, TimelyKept
  <2>3. CASE Creates /\ ~late'
    <3>1. op = Idle /\ \A c \in DOMAIN child \ Unowned : child[c] = 0
      BY <1>2, <2>3, MakesCR DEF Creates
    <3>2. cr'.uid # 0
      BY <2>3, Shapes DEF Creates
    <3>3. Secured'
      BY <2>1, <3>1, <3>2, BundledNames DEF Secured
    <3>4. Working'
      BY <2>1, <3>1, IdleTyped DEF Working, At, Typed, TypeOK
    <3> QED
      BY <3>3, <3>4 DEF Timely
  <2> QED
    BY <1>2, <2>2, <2>3, MakesCR DEF Timely
<1>3. CASE EditCR
  BY <1>3, Edits, TimelyKept DEF Rewrites
<1>4. CASE DeleteCR \/ NamespaceGone
  BY <1>4, Ends DEF Replaces, Timely
<1>5. ASSUME NEW sweep \in Sweeps, Collect(sweep) PROVE Timely'
  <2>1. UNCHANGED <<kind, cr, op, late>> /\ Clear(sweep \cap Dead)
    BY <1>5 DEF Collect, ghostVars
  <2>2. DOMAIN child' = DOMAIN child
        /\ \A s \in Bundled \cap DOMAIN child : child'[s] = 0 \/ KeptSecret(s)
    BY <2>1 DEF Clear, KeptSecret
  <2>3. cr.uid # 0 /\ Secured => Secured'
    BY <2>1, <2>2 DEF Secured, KeptSecret, Held
  <2> QED
    BY <2>1, <2>3 DEF Timely, Working, At, Step
<1>6. CASE Restart
  <2>1. UNCHANGED <<kind, cr, child, bundle, late>> /\ op' = Idle
    BY <1>6 DEF Restart, clusterVars
  <2>2. SecretsStay
    BY <2>1 DEF SecretsStay, KeptSecret
  <2> QED
    BY <2>1, <2>2, WorkingKept, SecuredKept DEF Timely
<1>7. CASE Reconcile
  <2>1. CASE Minor \/ CreateMarker
    BY <2>1, TimelyMinor
  <2>2. CASE Start
    <3>1. /\ UNCHANGED <<kind, cr, child, bundle>>
          /\ op'.my = cached /\ op'.phase = "look" /\ (~late' => feed = <<>> /\ ~late)
      BY <2>2 DEF Start, Enter, clusterVars
    <3>2. ~late' => cached = cr
      BY <3>1 DEF Latest
    <3>3. SecretsStay
      BY <3>1 DEF SecretsStay, KeptSecret
    <3> QED
      BY <3>1, <3>2, <3>3, SecuredKept DEF Timely, Working, At
  <2>3. CASE ProcessId
    <3>1. /\ Leaves /\ op.at = 1 /\ op.phase # "idle"
          /\ UNCHANGED <<kind, child, bundle, late>>
          /\ cr' = cr \/ (cr'.uid = cr.uid /\ cr'.creds = op.my.creds)
      BY <2>3, IdWrites DEF Rewrites
    <3>2. SecretsStay
      BY <3>1 DEF SecretsStay, KeptSecret
    <3>3. ~late /\ cr.uid # 0 => cr'.creds = cr.creds /\ cr'.uid = cr.uid
      BY <3>1 DEF Timely, Working
    <3>4. Elsewhere
      BY <3>1 DEF Elsewhere
    <3> QED
      BY <3>1, <3>2, <3>3, <3>4, SecuredKept, WorkingKept DEF Timely
  <2>4. CASE GenerateCreds
    <3>1. /\ op.at = 2 /\ op.phase # "idle"
          /\ UNCHANGED <<kind, child, bundle, late, cr>>
          /\ \/ Leaves
             \/ /\ op'.at = 2 /\ op'.my.creds = 0 /\ op'.my = op.my
                /\ op'.phase = "update"
      BY <2>4, CredsReads
    <3>2. SecretsStay
      BY <3>1 DEF SecretsStay, KeptSecret
    <3>3. CASE Leaves
      BY <3>1, <3>2, <3>3, SecuredKept, WorkingKept DEF Timely, Elsewhere
    <3>4. CASE ~Leaves
      BY <3>1, <3>2, <3>4, SecuredKept DEF Timely, Working, At
    <3> QED
      BY <3>3, <3>4
  <2>5. CASE UpdateCreds
    <3>1. /\ Leaves /\ op.at = 2 /\ op.phase = "update"
          /\ UNCHANGED <<kind, child, bundle, late>>
          /\ cr' = cr \/ cr'.uid = cr.uid
      BY <2>5, CredsWrites DEF Rewrites
    <3> SUFFICES ASSUME ~late, cr.uid # 0 PROVE Secured' /\ Working'
      BY <3>1 DEF Timely
    <3>2. Secured /\ Working /\ cr.creds = 0
      BY <3>1 DEF Timely, Working
    <3>3. Secured'
      BY <3>1, <3>2 DEF Secured
    <3>4. Working'
      <4>1. CASE op' = Idle
        BY <4>1, IdleTyped DEF Typed, TypeOK, Working, At
      <4>2. CASE op' # Idle
        <5>1. op'.phase = "look" /\ op'.at = 3 /\ op'.my = op.my
          BY <3>1, <4>2 DEF Leaves, Moves
        <5> QED
          BY <3>1, <3>2, <5>1 DEF Working, At
      <4> QED
        BY <4>1, <4>2
    <3> QED
      BY <3>3, <3>4
  <2> QED
    BY <1>1, <1>7, <2>1, <2>2, <2>3, <2>4, <2>5 DEF Reconcile, Minor
<1> QED
  BY <1>1, <1>2, <1>3, <1>4, <1>5, <1>6, <1>7 DEF Next

\* processCreds and processSecrets: while no reconcile began with its cache behind,
\* the secrets of a pipeline hold the credentials of its resource, wherever the
\* process ends and whatever calls fail.
THEOREM SecretsMatch == Spec => []SecretsMatchResource
<1>1. Timely => SecretsMatchResource
  <2> SUFFICES ASSUME Timely, ~late, NEW s \in Bundled \cap DOMAIN child,
                      child[s] # 0, child[s] = cr.uid
               PROVE  bundle[s] = [of |-> cr.uid, gen |-> cr.creds]
    BY DEF SecretsMatchResource
  <2> QED
    BY DEF Timely, Secured, Held
<1> QED
  BY <1>1, TypedInit, TypedStep, LatestInit, LatestStep, TimelyInit, TimelyStep, PTL
  DEF Spec

-----------------------------------------------------------------------------
(* The secrets of the first pipeline of a name.                            *)

LEMMA FirstInit == Init => First
<1> SUFFICES ASSUME Init PROVE First
  OBVIOUS
<1>1. cr.uid = 0 /\ made = 0 /\ child = [c \in ChildrenOf[kind] |-> 0]
  BY NoCRTyped DEF Init
<1> QED
  BY <1>1 DEF First

\* The resource that is there has credentials where it had some.
LEMMA FirstKept ==
    ASSUME Typed, First, SecretsStay, made' = made,
           cr'.uid \in {0, cr.uid}, cr'.uid = 1 /\ cr.creds # 0 => cr'.creds # 0,
           At("secrets", "create")' => At("secrets", "create") /\ op'.got = op.got
    PROVE  First'
<1>1. cr'.uid \in {0, made'} /\ \A s \in Bundled \cap DOMAIN child' : child'[s] <= made'
  BY DEF First, SecretsStay, KeptSecret
<1>2. ASSUME cr'.uid = 1, NEW s \in Bundled \cap DOMAIN child', child'[s] = 1
      PROVE  cr'.creds # 0 /\ bundle'[s].gen # 0
  BY <1>2 DEF First, SecretsStay, KeptSecret
<1>3. cr'.uid = 1 /\ At("secrets", "create")' => cr'.creds # 0 /\ op'.got.creds # 0
  BY DEF First
<1> QED
  BY <1>1, <1>2, <1>3 DEF First

LEMMA Resting ==
    ASSUME Typed, Elsewhere \/ op' = Idle, kind' = kind
    PROVE  ~At("secrets", "create")'
BY IdleTyped DEF Elsewhere, Leaves, At, Step, Typed, TypeOK

LEMMA FirstMinor ==
    Typed /\ Followed /\ First /\ (Minor \/ CreateMarker) => First'
<1> SUFFICES ASSUME Typed, Followed, First, Minor \/ CreateMarker PROVE First'
  OBVIOUS
<1>1. UNCHANGED <<kind, cr, made, late>> /\ (Elsewhere \/ Begins \/ Continues)
  BY MinorOps
<1>2. DOMAIN child' = DOMAIN child /\ \A s \in Bundled \cap DOMAIN child :
         \/ KeptSecret(s)
         \/ At("secrets", "create") /\ MadeSecret(s)
  BY MinorSecrets DEF SecretsStay, SecretsMade
<1>3. \A s \in Bundled \cap DOMAIN child' : child'[s] <= made'
  BY <1>1, <1>2 DEF First, Followed, Known, KeptSecret, MadeSecret
<1>4. ASSUME cr.uid = 1, NEW s \in Bundled \cap DOMAIN child', child'[s] = 1
      PROVE  cr.creds # 0 /\ bundle'[s].gen # 0
  <2>1. CASE KeptSecret(s)
    BY <1>2, <1>4, <2>1 DEF First, KeptSecret
  <2>2. CASE At("secrets", "create") /\ MadeSecret(s)
    BY <1>2, <1>4, <2>2 DEF First, MadeSecret
  <2> QED
    BY <1>2, <2>1, <2>2
<1>5. ASSUME cr.uid = 1, At("secrets", "create")'
      PROVE  cr.creds # 0 /\ op'.got.creds # 0
  <2>1. CASE Elsewhere
    BY <1>1, <1>5, <2>1, Resting
  <2>2. CASE Begins
    <3>1. ASSUME cr.creds = 0 PROVE FALSE
      <4> DEFINE node == "cockroachdb.node"
      <4>1. node \in Bundled \cap DOMAIN child /\ child[node] # 0
        BY <2>2, <3>1, BundledNames DEF Begins
      <4>2. child[node] <= 1 /\ child[node] \in Nat
        <5>1. child[node] <= made /\ made = 1
          BY <1>5, <4>1 DEF First
        <5>2. child[node] \in Nat
          BY <4>1 DEF Typed, TypeOK
        <5> QED
          BY <5>1, <5>2
      <4> HIDE DEF node
      <4>3. child[node] = 1
        BY <4>1, <4>2
      <4> QED
        BY <1>5, <3>1, <4>1, <4>3 DEF First
    <3> QED
      BY <2>2, <3>1 DEF Begins
  <2>3. CASE Continues
    BY <1>5, <2>3 DEF Continues, First
  <2> QED
    BY <1>1, <2>1, <2>2, <2>3
<1> QED
  BY <1>1, <1>3, <1>4, <1>5 DEF First

LEMMA FirstStep ==
    Typed /\ Followed /\ Versions /\ First /\ [Next]_vars => First'
<1> SUFFICES ASSUME Typed, Followed, Versions, First, [Next]_vars PROVE First'
  OBVIOUS
<1>1. CASE EnsureNamespace \/ Deliver \/ ChildEvent \/ ProcessDeleted \/ UNCHANGED vars
  <2>1. UNCHANGED <<kind, cr, child, bundle, op, made>>
    BY <1>1 DEF EnsureNamespace, Deliver, ChildEvent, ProcessDeleted, vars, clusterVars,
       watchVars, clientVars
  <2>2. SecretsStay
    BY <2>1 DEF SecretsStay, KeptSecret
  <2> QED
    BY <2>1, <2>2, FirstKept DEF At, Step
<1>2. CASE CreateCR
  <2>1. UNCHANGED <<kind, child, bundle, op>>
    BY <1>2, MakesCR
  <2>2. SecretsStay
    BY <2>1 DEF SecretsStay, KeptSecret
  <2>3. CASE UNCHANGED <<cr, made>>
    BY <2>1, <2>2, <2>3, FirstKept DEF At, Step
  <2>4. CASE Creates
    <3>1. cr'.uid = made' /\ made' = made + 1 /\ made \in Nat
      BY <2>4, Shapes DEF Creates
    <3>2. \A s \in Bundled \cap DOMAIN child : child[s] <= made /\ child[s] \in Nat
      BY DEF First, Typed, TypeOK
    <3>3. \A s \in Bundled \cap DOMAIN child' : child'[s] <= made' /\ child'[s] # cr'.uid
      BY <2>1, <3>1, <3>2
    <3>4. cr'.uid = 1 => ~At("secrets", "create")'
      <4> SUFFICES ASSUME cr'.uid = 1, At("secrets", "create") PROVE FALSE
        BY <2>1 DEF At, Step
      <4>1. op.my.uid <= 0 /\ op.my.uid \in Nat
        BY <3>1, Shapes DEF Followed, Known
      <4> QED
        BY <4>1 DEF At, Typed, Busy
    <3> QED
      BY <3>1, <3>3, <3>4 DEF First
  <2> QED
    BY <1>2, <2>3, <2>4, MakesCR
<1>3. CASE EditCR
  <2>1. UNCHANGED <<kind, child, bundle, op, made>> /\ cr'.uid = cr.uid /\ cr'.creds = cr.creds
    BY <1>3, Edits DEF Rewrites
  <2>2. SecretsStay
    BY <2>1 DEF SecretsStay, KeptSecret
  <2> QED
    BY <2>1, <2>2, FirstKept DEF At, Step
<1>4. CASE DeleteCR \/ NamespaceGone
  <2>1. cr'.uid = 0 /\ made' = made
    BY <1>4, Ends DEF Replaces
  <2>2. /\ DOMAIN child' = DOMAIN child
        /\ \A s \in Bundled \cap DOMAIN child : child'[s] \in {0, child[s]}
    BY <1>4 DEF DeleteCR, NamespaceGone, Clear
  <2>3. \A s \in Bundled \cap DOMAIN child' : child'[s] <= made'
    BY <2>1, <2>2, Shapes DEF First
  <2> QED
    BY <2>1, <2>3 DEF First
<1>5. ASSUME NEW sweep \in Sweeps, Collect(sweep) PROVE First'
  <2>1. UNCHANGED <<kind, cr, op, made>> /\ Clear(sweep \cap Dead)
    BY <1>5 DEF Collect, clientVars
  <2>2. /\ DOMAIN child' = DOMAIN child
        /\ \A s \in Bundled \cap DOMAIN child : child'[s] = 0 \/ KeptSecret(s)
    BY <2>1 DEF Clear, KeptSecret
  <2>3. \A s \in Bundled \cap DOMAIN child' : child'[s] <= made'
    BY <2>1, <2>2, Shapes DEF First, KeptSecret
  <2> QED
    BY <2>1, <2>2, <2>3 DEF First, KeptSecret, At, Step
<1>6. CASE Restart
  <2>1. UNCHANGED <<kind, cr, child, bundle, made>> /\ op' = Idle
    BY <1>6 DEF Restart, clusterVars, clientVars
  <2>2. SecretsStay
    BY <2>1 DEF SecretsStay, KeptSecret
  <2> QED
    BY <2>1, <2>2, Resting, FirstKept
<1>7. CASE Reconcile
  <2>1. CASE Minor \/ CreateMarker
    BY <2>1, FirstMinor
  <2>2. CASE Start
    <3>1. UNCHANGED <<kind, cr, child, bundle, made>> /\ op'.phase = "look"
      BY <2>2 DEF Start, Enter, clusterVars, clientVars
    <3>2. SecretsStay
      BY <3>1 DEF SecretsStay, KeptSecret
    <3> QED
      BY <3>1, <3>2, FirstKept DEF At
  <2>3. CASE ProcessId \/ GenerateCreds \/ UpdateCreds
    <3>1. UNCHANGED <<kind, child, bundle, made>> /\ ~At("secrets", "create")'
      <4>1. op.phase # "idle" /\ UNCHANGED <<kind, child, bundle, made>>
            /\ (Leaves \/ op'.phase = "update")
        BY <2>3, IdWrites, CredsReads, CredsWrites
      <4> QED
        BY <4>1, Resting DEF Elsewhere, At
    <3>2. cr'.uid = cr.uid /\ (cr.uid # 0 /\ cr.creds # 0 => cr'.creds # 0)
      <4>1. CASE ProcessId
        <5>1. cr' = cr \/ (/\ cr'.uid = cr.uid /\ cr.uid = op.my.uid /\ cr.rv = op.my.rv
                           /\ cr'.creds = op.my.creds)
          BY <4>1, IdWrites DEF Rewrites
        <5> QED
          BY <5>1 DEF Versions, Version
      <4>2. CASE GenerateCreds \/ UpdateCreds
        BY <4>2, CredsReads, CredsWrites DEF Rewrites
      <4> QED
        BY <2>3, <4>1, <4>2
    <3>3. SecretsStay
      BY <3>1 DEF SecretsStay, KeptSecret
    <3> QED
      BY <3>1, <3>2, <3>3, FirstKept
  <2> QED
    BY <1>1, <1>7, <2>1, <2>2, <2>3 DEF Reconcile, Minor
<1> QED
  BY <1>1, <1>2, <1>3, <1>4, <1>5, <1>6, <1>7 DEF Next

\* processSecrets: no secret of the first pipeline of a name is made of empty
\* credentials, however late the cache is: they are read again from the resource,
\* which never loses the ones it has.
THEOREM SecretsNotEmpty == Spec => []NoEmptySecret
<1>1. Typed /\ First => NoEmptySecret
  <2> SUFFICES ASSUME Typed, First, NEW s \in Bundled \cap DOMAIN child,
                      cr.uid = 1, child[s] = 1
               PROVE  bundle[s].gen > 0
    BY DEF NoEmptySecret
  <2>1. bundle[s].gen # 0
    BY DEF First
  <2>2. bundle[s].gen \in Nat
    BY OperatorAssumption DEF Typed, TypeOK
  <2> QED
    BY <2>1, <2>2
<1> QED
  BY <1>1, TypedInit, TypedStep, FollowedInit, FollowedStep, VersionsInit, VersionsStep,
     FirstInit, FirstStep, PTL DEF Spec
=============================================================================
