----------------------- MODULE PipelineOperatorProofs -----------------------
(***************************************************************************)
(* Proofs about the operator, for every set of kinds of resource and any   *)
(* bounds: init is run once for a pipeline, and the namespace of a         *)
(* pipeline the operator has worked on is not deleted.                     *)
(***************************************************************************)
EXTENDS PipelineOperator, TLAPS, SequenceTheorems

-----------------------------------------------------------------------------
(* The program of a reconcile: an id is made first, then credentials.      *)

Labels ==
    {"id", "creds", "roles", "roleBindings", "serviceAccounts", "services", "pvcs",
     "secrets", "pdbs", "statefulSet", "init", "cockroachClient", "extractSource",
     "ctl", "mysql", "singlestore", "singlestoreClient", "unsupported",
     "uiServiceAccounts", "uiClusterRoles", "uiClusterRoleBindings", "uiService",
     "uiPVCs", "uiDeployment"}

StepsFit(p) ==
    /\ p \in Seq(Labels) /\ p # <<>>
    /\ \A i \in 1..Len(p) : (p[i] = "id" => i = 1) /\ (p[i] = "creds" => i = 2)

LEMMA CommonFits == StepsFit(Common) /\ Len(Common) = 9
<1>1. /\ Common \in Seq(Labels) /\ Len(Common) = 9 /\ Common # <<>>
      /\ \A i \in 1..9 : (Common[i] = "id" => i = 1) /\ (Common[i] = "creds" => i = 2)
  BY DEF Common, Labels
<1> QED
  BY <1>1 DEF StepsFit

LEMMA LongerFits ==
    ASSUME NEW t \in Seq(Labels \ {"id", "creds"})
    PROVE  StepsFit(Common \o t)
<1> DEFINE p == Common \o t
<1>1. Common \in Seq(Labels) /\ Len(Common) = 9 /\ t \in Seq(Labels) /\ Len(t) \in Nat
  BY CommonFits DEF StepsFit
<1>2. /\ p \in Seq(Labels) /\ Len(p) = Len(Common) + Len(t)
      /\ \A i \in 1..Len(Common) + Len(t) :
            p[i] = IF i <= Len(Common) THEN Common[i] ELSE t[i - Len(Common)]
  BY <1>1, ConcatProperties
<1>3. \A i \in 1..Len(t) : t[i] \in Labels \ {"id", "creds"}
  OBVIOUS
<1> HIDE DEF p
<1>4. ASSUME NEW i \in 1..Len(p)
      PROVE  (p[i] = "id" => i = 1) /\ (p[i] = "creds" => i = 2)
  <2>1. CASE i <= 9
    BY <1>1, <1>2, <2>1, CommonFits DEF StepsFit
  <2>2. CASE ~(i <= 9)
    <3>1. i - 9 \in 1..Len(t) /\ p[i] = t[i - 9]
      BY <1>1, <1>2, <2>2
    <3> QED
      BY <3>1, <1>3
  <2> QED
    BY <2>1, <2>2
<1>5. StepsFit(p)
  BY <1>1, <1>2, <1>4 DEF StepsFit
<1> QED
  BY <1>5 DEF p

LEMMA ProgramFits == \A k \in DOMAIN Program : StepsFit(Program[k])
<1>1. /\ <<"statefulSet", "init", "cockroachClient", "extractSource", "ctl">>
            \in Seq(Labels \ {"id", "creds"})
      /\ <<"mysql", "extractSource", "ctl">> \in Seq(Labels \ {"id", "creds"})
      /\ <<"singlestore", "singlestoreClient", "extractSource", "ctl">>
            \in Seq(Labels \ {"id", "creds"})
      /\ <<"unsupported">> \in Seq(Labels \ {"id", "creds"})
  BY DEF Labels
<1>2. StepsFit(Program.churroui)
  BY DEF StepsFit, Program, Labels
<1>3. /\ StepsFit(Program.cockroachdb) /\ StepsFit(Program.mysql)
      /\ StepsFit(Program.singlestore) /\ StepsFit(Program.other)
  BY <1>1, LongerFits DEF Program
<1>4. DOMAIN Program = {"cockroachdb", "mysql", "singlestore", "other", "churroui"}
  BY DEF Program
<1> QED
  BY <1>2, <1>3, <1>4

-----------------------------------------------------------------------------
(* The marker is in no group of children: only CreateMarker makes it.      *)

Single == {"pvcs", "pdbs", "statefulSet", "cockroachClient", "singlestore",
           "extractSource", "ctl"}
UISingle == {"uiServiceAccounts", "uiClusterRoles", "uiClusterRoleBindings",
             "uiService", "uiPVCs", "uiDeployment"}
Several == {"roles", "roleBindings", "serviceAccounts", "services", "secrets", "mysql",
            "singlestoreClient"}

LEMMA GroupNames == DOMAIN Group = Single \cup UISingle \cup Several
BY DEF Group, Single, UISingle, Several

LEMMA MarkerApart ==
    \A g \in DOMAIN Group : \A i \in 1..Len(Group[g]) :
       Group[g][i] # Marker /\ Group[g][i] \in Names(g)
<1>1. \A g \in DOMAIN Group : \A i \in 1..Len(Group[g]) : Group[g][i] \in Names(g)
  <2>1. \A g \in DOMAIN Group : Group[g] \in Seq(Names(g))
    BY DEF Names, ToSet, Group, Roles, RoleBindings, ServiceAccounts, Services, PVCs,
       Secrets, PDBs, StatefulSet, CockroachClient, Mysql, Singlestore,
       SinglestoreClient, ExtractSource, Ctl, UIServiceAccounts, UIClusterRoles,
       UIClusterRoleBindings, UIService, UIPVCs, UIDeployment
  <2> QED
    BY <2>1
<1>2. \A g \in Single : \A i \in 1..Len(Group[g]) : Group[g][i] # Marker
  BY DEF Single, Group, Marker, PVCs, PDBs, StatefulSet, CockroachClient, Singlestore,
     ExtractSource, Ctl
<1>3. \A g \in UISingle : \A i \in 1..Len(Group[g]) : Group[g][i] # Marker
  BY DEF UISingle, Group, Marker, UIServiceAccounts, UIClusterRoles,
     UIClusterRoleBindings, UIService, UIPVCs, UIDeployment
<1>4. \A g \in Several : \A i \in 1..Len(Group[g]) : Group[g][i] # Marker
  <2>1. \A g \in {"roles", "roleBindings", "serviceAccounts"} :
           \A i \in 1..Len(Group[g]) : Group[g][i] # Marker
    BY DEF Group, Marker, Roles, RoleBindings, ServiceAccounts
  <2>2. \A i \in 1..Len(Group["services"]) : Group["services"][i] # Marker
    BY DEF Group, Marker, Services
  <2>3. \A i \in 1..Len(Group["secrets"]) : Group["secrets"][i] # Marker
    BY DEF Group, Marker, Secrets
  <2>4. \A g \in {"mysql", "singlestoreClient"} :
           \A i \in 1..Len(Group[g]) : Group[g][i] # Marker
    BY DEF Group, Marker, Mysql, SinglestoreClient
  <2> QED
    BY <2>1, <2>2, <2>3, <2>4 DEF Several
<1> QED
  BY <1>1, <1>2, <1>3, <1>4, GroupNames

LEMMA GroupsMade == \A g \in DOMAIN Group : Names(g) \subseteq Made
BY DEF Made

-----------------------------------------------------------------------------
(* Type correctness needs the bound on the generations: a reconcile that   *)
(* began without credentials leaves room for the bundle it may make.       *)

Ops ==
    [at : 0..Len(Program[kind]), my : CRs, got : CRs, todo : SUBSET Made,
     phase : {"idle", "look", "update", "create", "exec", "ready"}]

Busy == IF op.phase = "idle" THEN op = Idle ELSE op.at # 0 /\ op.my.uid # 0
Room ==
    /\ client = "create" => made < MaxUid
    /\ op.at \in {1, 2} /\ op.my.creds = 0 => cr.creds < MaxGenerations
    /\ op.phase = "update" => op.got.creds < MaxGenerations
Typed == TypeOK /\ Busy /\ Room

\* The reconciler goes to another step, or to another phase of this one.
Moves ==
    /\ op' \in Ops /\ pending' \in BOOLEAN
    /\ \/ op' = Idle
       \/ /\ op'.phase # "idle" /\ op'.my = op.my
          /\ op'.at \in {op.at, op.at + 1}
          /\ op'.got \in {op.got, cr, NoCR}
Leaves ==
    /\ Moves
    /\ \/ op' = Idle
       \/ op'.phase = "look" /\ op'.at = op.at + 1 /\ op'.got = NoCR

LEMMA Kinded ==
    ASSUME kind \in Kinds
    PROVE  /\ kind \in DOMAIN Program /\ StepsFit(Program[kind])
           /\ Len(Program[kind]) \in Nat \ {0}
<1>1. kind \in DOMAIN Program
  BY OperatorAssumption DEF Program
<1>2. StepsFit(Program[kind])
  BY <1>1, ProgramFits
<1> QED
  BY <1>1, <1>2 DEF StepsFit

LEMMA NoCRTyped == NoCR \in CRs /\ NoCR.uid = 0 /\ ~NoCR.id
BY OperatorAssumption DEF NoCR, CRs

\* The copies that EditCR, ProcessId and UpdateCreds write.
LEMMA Rewritten ==
    ASSUME NEW r \in CRs
    PROVE  /\ [r EXCEPT !.rv = @ + 1] \in CRs
           /\ [r EXCEPT !.rv = @ + 1].creds = r.creds
           /\ [r EXCEPT !.rv = @ + 1].uid = r.uid
           /\ [r EXCEPT !.rv = @ + 1].id = r.id
BY DEF CRs

LEMMA WithId ==
    ASSUME NEW r \in CRs
    PROVE  /\ [r EXCEPT !.id = TRUE, !.rv = @ + 1] \in CRs
           /\ [r EXCEPT !.id = TRUE, !.rv = @ + 1].creds = r.creds
           /\ [r EXCEPT !.id = TRUE, !.rv = @ + 1].uid = r.uid
<1> DEFINE a == [r EXCEPT !.id = TRUE]
<1>1. a \in CRs /\ a.creds = r.creds /\ a.uid = r.uid
  BY DEF CRs
<1>2. [r EXCEPT !.id = TRUE, !.rv = @ + 1] = [a EXCEPT !.rv = @ + 1]
  BY DEF CRs
<1> HIDE DEF a
<1> QED
  BY <1>1, <1>2, Rewritten

LEMMA WithBundle ==
    ASSUME NEW r \in CRs, r.creds < MaxGenerations
    PROVE  /\ [NewBundle(r) EXCEPT !.rv = @ + 1] \in CRs
           /\ [NewBundle(r) EXCEPT !.rv = @ + 1].uid = r.uid
           /\ [NewBundle(r) EXCEPT !.rv = @ + 1].id = r.id
<1>1. /\ NewBundle(r) \in CRs /\ NewBundle(r).uid = r.uid /\ NewBundle(r).id = r.id
  BY OperatorAssumption DEF CRs, NewBundle
<1> QED
  BY <1>1, Rewritten

LEMMA IdleTyped ==
    ASSUME kind \in Kinds
    PROVE  /\ Idle \in Ops /\ Idle.phase = "idle" /\ Idle.at = 0
           /\ Idle.my = NoCR /\ Idle.got = NoCR
BY Kinded, NoCRTyped DEF Idle, Ops

LEMMA Leaving ==
    ASSUME Typed, op.phase # "idle", Advance \/ Fail
    PROVE  Leaves
<1>1. /\ kind \in Kinds /\ op \in Ops /\ pending \in BOOLEAN
      /\ op.at \in 1..Len(Program[kind]) /\ op.my \in CRs
      /\ Len(Program[kind]) \in Nat \ {0}
  BY Kinded DEF Typed, TypeOK, Busy, Ops
<1>2. op' = Following \/ op' = Idle
  BY DEF Advance, Fail
<1>3. pending' \in BOOLEAN
  BY <1>1 DEF Advance, Fail
<1>4. CASE op' = Idle
  BY <1>1, <1>3, <1>4, IdleTyped DEF Leaves, Moves
<1>5. CASE op' = Following /\ op' # Idle
  <2>1. op' = Enter(op.at + 1, op.my) /\ op.at # Len(Program[kind])
    BY <1>5 DEF Following
  <2> QED
    BY <1>1, <1>3, <2>1, NoCRTyped DEF Enter, Ops, Leaves, Moves
<1> QED
  BY <1>2, <1>4, <1>5

LEMMA StepPlaces ==
    ASSUME Typed
    PROVE  /\ Step = "id" => op.at = 1
           /\ Step = "creds" => op.at = 2
           /\ op.phase # "idle" => op.at \in 1..Len(Program[kind]) /\ Step \in Labels
BY Kinded DEF Typed, TypeOK, Busy, Step, StepsFit

LEMMA Making ==
    ASSUME Typed, NEW cs, NEW got \in CRs, NEW lag \in BOOLEAN, Make(cs, got, lag)
    PROVE  /\ child' \in [ChildrenOf[kind] -> 0..MaxUid]
           /\ bundle' \in [Bundled -> [of : 0..MaxUid, gen : 0..MaxGenerations]]
           /\ dirty' \in BOOLEAN
BY DEF Typed, TypeOK, Make, CRs

\* The reconciler stays at its step, in another phase.
LEMMA Staying ==
    ASSUME Typed, op.phase # "idle", pending' = pending,
           NEW phase \in {"look", "update", "create", "exec", "ready"},
           NEW got \in {op.got, cr, NoCR}, NEW todo \in SUBSET Made,
           op' = [op EXCEPT !.phase = phase, !.got = got, !.todo = todo]
    PROVE  Moves /\ op'.phase = phase /\ op'.at = op.at /\ op'.got = got /\ op' # Idle
<1>1. /\ op \in Ops /\ pending \in BOOLEAN /\ op.at # 0 /\ cr \in CRs /\ op.got \in CRs
  BY DEF Typed, TypeOK, Busy, Ops
<1> QED
  BY <1>1, NoCRTyped DEF Moves, Ops, Idle

\* What the type of a state says, but for the reconciler and the children.
TypedCluster ==
    /\ kind' = kind /\ pull' \in BOOLEAN
    /\ ns' \in {"absent", "active", "terminating"}
    /\ cr' \in CRs /\ client' \in {"idle", "create"} /\ made' \in 0..MaxUid
    /\ inited' \in BOOLEAN
    /\ feed' \in Seq(CRs) /\ cached' \in CRs
    /\ inits' \in [1..MaxUid -> Nat]
    /\ orphaned' \in BOOLEAN /\ late' \in BOOLEAN
    /\ disturbed' \in 0..MaxDisturbances
TypedChildren ==
    /\ child' \in [ChildrenOf[kind] -> 0..MaxUid]
    /\ bundle' \in [Bundled -> [of : 0..MaxUid, gen : 0..MaxGenerations]]
    /\ dirty' \in BOOLEAN
TypedOp == op' \in Ops /\ pending' \in BOOLEAN

LEMMA TypeParts ==
    ASSUME TypedCluster, TypedChildren, TypedOp, kind \in Kinds
    PROVE  TypeOK'
BY DEF TypedCluster, TypedChildren, TypedOp, TypeOK, Ops

LEMMA Reading ==
    ASSUME Typed, NEW lag \in BOOLEAN, Read(lag) \/ Calm \/ Disturb
    PROVE  disturbed' \in 0..MaxDisturbances
BY OperatorAssumption DEF Typed, TypeOK, Read, Calm, Disturb

\* A step of the reconciler that leaves the resource alone.
LEMMA OnlyMoves ==
    ASSUME Typed, op.phase # "idle", Leaves \/ (Moves /\ op'.phase # "update"),
           UNCHANGED <<kind, pull, ns, cr, clientVars, feed, cached, orphaned, late>>,
           TypedChildren, disturbed' \in 0..MaxDisturbances,
           inited' \in BOOLEAN, inits' \in [1..MaxUid -> Nat]
    PROVE  Typed'
<1>1. TypeOK'
  BY TypeParts DEF TypedCluster, TypedOp, Typed, TypeOK, clientVars, ghostVars,
     Leaves, Moves
<1>2. op' = Idle \/ op'.phase \in {"look", "update", "create", "exec", "ready"}
  BY DEF Leaves, Moves, Ops
<1> QED
  BY <1>1, IdleTyped DEF Typed, Busy, Room, Leaves, Moves, Ops, TypeOK, clientVars

LEMMA TypedInit == Init => Typed
<1> SUFFICES ASSUME Init PROVE Typed
  OBVIOUS
<1>1. /\ kind \in Kinds /\ cr = NoCR /\ op = Idle /\ cached = NoCR /\ made = 0
      /\ NoCR \in CRs /\ Idle \in Ops /\ Idle.phase = "idle" /\ Idle.at = 0
      /\ MaxUid \in Nat \ {0} /\ MaxGenerations \in Nat \ {0} /\ MaxDisturbances \in Nat
  BY NoCRTyped, IdleTyped, OperatorAssumption DEF Init
<1>2. /\ child \in [ChildrenOf[kind] -> 0..MaxUid]
      /\ bundle \in [Bundled -> [of : 0..MaxUid, gen : 0..MaxGenerations]]
  BY <1>1 DEF Init, NoBundle
<1>3. inits \in [1..MaxUid -> Nat]
  BY DEF Init
<1>4. /\ made \in 0..MaxUid /\ disturbed \in 0..MaxDisturbances
      /\ feed \in Seq(CRs) /\ ns \in {"absent", "active", "terminating"}
  BY <1>1 DEF Init
<1>5. TypeOK
  BY <1>1, <1>2, <1>3, <1>4 DEF Init, TypeOK, Ops
<1> QED
  BY <1>1, <1>5 DEF Init, Typed, Busy, Room, Idle

LEMMA Clearing ==
    ASSUME Typed, NEW cs, Clear(cs)
    PROVE  TypedChildren
<1>1. child' \in [ChildrenOf[kind] -> 0..MaxUid]
  BY OperatorAssumption DEF Typed, TypeOK, Clear
<1>2. bundle' \in [Bundled -> [of : 0..MaxUid, gen : 0..MaxGenerations]]
  BY OperatorAssumption DEF Typed, TypeOK, Clear, NoBundle
<1>3. dirty' \in BOOLEAN
  BY DEF Typed, TypeOK, Clear
<1> QED
  BY <1>1, <1>2, <1>3 DEF TypedChildren

LEMMA TypedStart == Typed /\ Start => Typed'
<1> SUFFICES ASSUME Typed, Start PROVE Typed'
  OBVIOUS
<1>1. /\ kind \in Kinds /\ cached \in CRs /\ Len(Program[kind]) \in Nat \ {0}
  BY Kinded DEF Typed, TypeOK
<1>2. op' = Enter(1, cached) /\ pending' = FALSE
  BY DEF Start
<1>3. /\ op' \in Ops /\ op'.my = cached /\ op'.at = 1 /\ op'.phase = "look"
  BY <1>1, <1>2, NoCRTyped DEF Enter, Ops
<1>4. UNCHANGED <<kind, pull, clusterVars, clientVars, feed, cached, dirty, inits,
                  orphaned, disturbed>>
  BY Zenon DEF Start
<1>5. late' \in BOOLEAN
  BY DEF Start, Typed, TypeOK
<1>6. TypeOK'
  BY <1>2, <1>3, <1>4, <1>5 DEF Typed, TypeOK, Ops, clusterVars, clientVars
<1>7. cached.uid # 0 /\ (cached.creds = 0 => cr.creds < MaxGenerations)
  BY DEF Start
<1> QED
  BY <1>3, <1>4, <1>6, <1>7 DEF Typed, Busy, Room, clusterVars, clientVars

LEMMA TypedId == Typed /\ ProcessId => Typed'
<1> SUFFICES ASSUME Typed, ProcessId PROVE Typed'
  OBVIOUS
<1>1. /\ cr \in CRs /\ op.my \in CRs /\ op.my.rv \in Nat /\ op.at = 1
      /\ feed \in Seq(CRs) /\ op.phase # "idle"
  BY StepPlaces DEF ProcessId, At, Typed, TypeOK, CRs
<1>2. Leaves
  BY <1>1, Leaving DEF ProcessId
<1>3. /\ cr' \in CRs /\ feed' \in Seq(CRs)
      /\ cr' = cr \/ cr'.creds = op.my.creds
  <2> DEFINE new == [op.my EXCEPT !.id = TRUE, !.rv = @ + 1]
  <2>1. new \in CRs /\ new.creds = op.my.creds
    BY <1>1, WithId
  <2>2. UNCHANGED <<cr, feed>> \/ WriteCR(new)
    BY DEF ProcessId
  <2> HIDE DEF new
  <2> QED
    BY <1>1, <2>1, <2>2 DEF WriteCR
<1>4. disturbed' \in 0..MaxDisturbances
  BY Reading DEF ProcessId
<1>5. UNCHANGED <<kind, pull, ns, child, bundle, inited, clientVars, cached, dirty,
                  ghostVars>>
  BY Zenon DEF ProcessId
<1>6. TypeOK'
  BY <1>2, <1>3, <1>4, <1>5 DEF Leaves, Moves, Typed, TypeOK, Ops, clientVars, ghostVars
<1>7. Room'
  <2>1. op' = Idle \/ (op'.phase = "look" /\ op'.at = 2 /\ op'.my = op.my)
    BY <1>1, <1>2 DEF Leaves, Moves
  <2>2. op.my.creds = 0 => cr.creds < MaxGenerations /\ cr'.creds < MaxGenerations
    BY <1>1, <1>3, OperatorAssumption DEF Typed, Room
  <2> QED
    BY <1>5, <2>1, <2>2, IdleTyped DEF Typed, TypeOK, Room, clientVars
<1>8. Busy'
  BY <1>1, <1>2, IdleTyped DEF Leaves, Moves, Typed, TypeOK, Busy
<1> QED
  BY <1>6, <1>7, <1>8 DEF Typed

LEMMA TypedCreds == Typed /\ (GenerateCreds \/ UpdateCreds) => Typed'
<1> SUFFICES ASSUME Typed, GenerateCreds \/ UpdateCreds PROVE Typed'
  OBVIOUS
<1>1. /\ cr \in CRs /\ op.my \in CRs /\ op.got \in CRs /\ op.at = 2
      /\ feed \in Seq(CRs) /\ op.phase # "idle" /\ op \in Ops
  BY StepPlaces DEF GenerateCreds, UpdateCreds, At, Typed, TypeOK, CRs, Ops
<1>2. disturbed' \in 0..MaxDisturbances
  BY Reading DEF GenerateCreds, UpdateCreds
<1>3. CASE GenerateCreds
  <2>1. UNCHANGED <<kind, pull, clusterVars, clientVars, feed, cached, dirty, ghostVars>>
    BY <1>3, Zenon DEF GenerateCreds
  <2>2. CASE Leaves
    <3>1. TypedChildren
      BY <2>1 DEF TypedChildren, clusterVars, Typed, TypeOK
    <3>2. inited' \in BOOLEAN /\ inits' \in [1..MaxUid -> Nat]
      BY <2>1 DEF clusterVars, ghostVars, Typed, TypeOK
    <3> QED
      BY <1>1, <1>2, <2>1, <2>2, <3>1, <3>2, OnlyMoves DEF clusterVars, ghostVars
  <2>3. CASE /\ NeedCreds /\ op' = [op EXCEPT !.phase = "update", !.got = cr]
             /\ pending' = pending
    <3>1. op' \in Ops /\ op'.phase = "update" /\ op'.got = cr /\ op'.at = op.at
          /\ op'.my = op.my
      BY <1>1, <2>3 DEF Ops
    <3>2. TypeOK'
      BY <1>2, <2>1, <2>3, <3>1 DEF Typed, TypeOK, Ops, clusterVars, clientVars, ghostVars
    <3> QED
      BY <1>1, <2>1, <2>3, <3>1, <3>2 DEF NeedCreds, Typed, Busy, Room, clusterVars, clientVars
  <2> QED
    BY <1>1, <1>3, <2>2, <2>3, Leaving DEF GenerateCreds
<1>4. CASE UpdateCreds
  <2>1. Leaves /\ op.got.creds < MaxGenerations
    BY <1>1, <1>4, Leaving DEF UpdateCreds, At, Typed, Room
  <2>2. cr' \in CRs /\ feed' \in Seq(CRs)
    <3> DEFINE new == [NewBundle(op.got) EXCEPT !.rv = @ + 1]
    <3>1. new \in CRs
      BY <1>1, <2>1, WithBundle
    <3>2. UNCHANGED <<cr, feed>> \/ WriteCR(new)
      BY <1>4 DEF UpdateCreds
    <3> HIDE DEF new
    <3> QED
      BY <1>1, <3>1, <3>2 DEF WriteCR
  <2>3. UNCHANGED <<kind, pull, ns, child, bundle, inited, clientVars, cached, dirty,
                    ghostVars>>
    BY <1>4, Zenon DEF UpdateCreds
  <2>4. TypeOK'
    BY <1>2, <2>1, <2>2, <2>3
    DEF Leaves, Moves, Typed, TypeOK, Ops, clientVars, ghostVars
  <2> QED
    BY <1>1, <2>1, <2>3, <2>4, IdleTyped
    DEF Leaves, Moves, Typed, TypeOK, Busy, Room, Ops, clientVars
<1> QED
  BY <1>3, <1>4

\* A step that makes children of the groups makes no marker.
Makes(cs, got) ==
    /\ Marker \notin cs /\ got \in {NoCR, op.got}
    /\ \E lag \in BOOLEAN : Make(cs, got, lag)

LEMMA MakingParts ==
    ASSUME Typed, NEW cs, NEW got, Makes(cs, got)
    PROVE  TypedChildren /\ child'[Marker] = child[Marker]
<1>1. PICK lag \in BOOLEAN : Make(cs, got, lag)
  BY DEF Makes
<1>2. got \in CRs
  BY NoCRTyped DEF Makes, Typed, TypeOK
<1>3. Marker \in DOMAIN child
  BY Kinded DEF Typed, TypeOK, ChildrenOf
<1> QED
  BY <1>1, <1>2, <1>3, Making DEF TypedChildren, Makes, Make

LEMMA GroupMakes == Typed /\ EnsureGroup => \E cs : Makes(cs, NoCR)
<1> SUFFICES ASSUME Typed, EnsureGroup PROVE \E cs : Makes(cs, NoCR)
  OBVIOUS
<1>1. PICK lag \in BOOLEAN : \E seen : \E n \in 0..Len(Group[Step]) :
         Make({Group[Step][i] : i \in 1..n} \ seen, NoCR, lag)
  BY DEF EnsureGroup
<1>4. PICK seen : \E n \in 0..Len(Group[Step]) :
         Make({Group[Step][i] : i \in 1..n} \ seen, NoCR, lag)
  BY <1>1
<1>5. PICK n \in 0..Len(Group[Step]) :
         Make({Group[Step][i] : i \in 1..n} \ seen, NoCR, lag)
  BY <1>4
<1>2. Step \in DOMAIN Group
  BY DEF EnsureGroup, Plain
<1>3. Marker \notin {Group[Step][i] : i \in 1..n}
  BY <1>2, MarkerApart
<1> QED
  BY <1>3, <1>5 DEF Makes

LEMMA ChildMakes == Typed /\ CreateChild => \E cs : Makes(cs, NoCR) \/ Makes(cs, op.got)
<1> SUFFICES ASSUME Typed, CreateChild
             PROVE  \E cs : Makes(cs, NoCR) \/ Makes(cs, op.got)
  OBVIOUS
<1>1. PICK i \in 1..Len(Group[Step]) :
         Make({Group[Step][i]}, op.got, FALSE) \/ MakeNothing(FALSE)
  BY DEF CreateChild
<1>2. Step \in DOMAIN Group
  BY GroupNames DEF CreateChild, Several
<1>3. Marker \notin {Group[Step][i]}
  BY <1>2, MarkerApart
<1> QED
  BY <1>1, <1>3 DEF Makes, MakeNothing

LEMMA LookMakes ==
    Typed /\ (LookSecrets \/ LookMysql) => Makes({}, NoCR)
BY DEF LookSecrets, LookMysql, MakeNothing, Makes

\* A step of the reconciler that leaves the resource alone and makes no marker.
Minor ==
    \/ EnsureGroup \/ LookSecrets \/ LookMysql \/ CreateChild \/ Unsupported
    \/ AwaitRunning \/ ExecInit \/ AwaitReady

LEMMA CreateMoves ==
    ASSUME Typed, op.phase # "idle", NEW todo \in SUBSET Made, NEW got \in {cr, NoCR},
           Create(todo, got)
    PROVE  Moves /\ op'.phase \notin {"update", "exec"}
<1>1. CASE Advance
  BY <1>1, Leaving, IdleTyped DEF Leaves, Typed, TypeOK
<1>2. CASE ~Advance
  BY <1>2, Staying DEF Create
<1> QED
  BY <1>1, <1>2

LEMMA InitMoves ==
    ASSUME Typed, op.phase # "idle",
           NEW phase \in {"look", "update", "create", "exec", "ready"}, InitTo(phase)
    PROVE  /\ Moves /\ op'.phase = phase /\ op'.at = op.at
           /\ op'.my = op.my /\ op'.got = op.got
<1>1. op \in Ops /\ op.at # 0 /\ pending \in BOOLEAN
  BY DEF Typed, TypeOK, Busy, Ops
<1> QED
  BY <1>1 DEF InitTo, Moves, Ops

LEMMA MinorMoves ==
    Typed /\ Minor => /\ Moves /\ op'.phase \notin {"update", "exec"}
                     /\ op.phase # "idle"
                     /\ UNCHANGED <<kind, pull, ns, cr, clientVars, feed, cached,
                                    orphaned, late>>
<1> SUFFICES ASSUME Typed, Minor
             PROVE  /\ Moves /\ op'.phase \notin {"update", "exec"}
                    /\ op.phase # "idle"
                    /\ UNCHANGED <<kind, pull, ns, cr, clientVars, feed, cached,
                                   orphaned, late>>
  OBVIOUS
<1>1. Leaves => Moves /\ op'.phase \notin {"update", "exec"}
  BY IdleTyped DEF Leaves, Typed, TypeOK
<1>2. CASE EnsureGroup
  BY <1>1, <1>2, Leaving DEF EnsureGroup, ghostVars
<1>3. CASE LookSecrets
  <2>1. \A seen : Names("secrets") \ seen \in SUBSET Made
    BY GroupNames, GroupsMade DEF Several
  <2>2. op.phase # "idle"
    BY <1>3 DEF LookSecrets, At
  <2> QED
    BY <1>1, <1>3, <2>1, <2>2, Leaving, CreateMoves DEF LookSecrets, ghostVars
<1>4. CASE LookMysql
  <2>1. Names("mysql") \in SUBSET Made
    BY GroupNames, GroupsMade DEF Several
  <2>2. op.phase # "idle"
    BY <1>4 DEF LookMysql, At
  <2> QED
    BY <1>4, <2>1, <2>2, CreateMoves DEF LookMysql, ghostVars
<1>5. CASE CreateChild
  <2>1. op.phase = "create"
    BY <1>5 DEF CreateChild
  <2>2. \/ Advance \/ Fail
        \/ \E c : op' = [op EXCEPT !.todo = @ \ {c}] /\ pending' = pending
    BY <1>5 DEF CreateChild
  <2>3. ASSUME NEW c, op' = [op EXCEPT !.todo = @ \ {c}], pending' = pending
        PROVE  Moves /\ op'.phase \notin {"update", "exec"}
    <3>1. op \in Ops /\ op.at # 0 /\ pending \in BOOLEAN
      BY <2>1 DEF Typed, TypeOK, Busy, Ops
    <3> QED
      BY <2>1, <2>3, <3>1 DEF Moves, Ops
  <2> QED
    BY <1>1, <1>5, <2>1, <2>2, <2>3, Leaving DEF CreateChild, ghostVars
<1>6. CASE Unsupported
  BY <1>1, <1>6, Leaving DEF Unsupported, At, clusterVars, ghostVars
<1>7. CASE AwaitRunning
  <2>1. \E phase \in {"ready", "create"} : InitTo(phase)
    BY <1>7 DEF AwaitRunning
  <2>2. op.phase # "idle"
    BY <1>7 DEF AwaitRunning, At
  <2>3. Moves /\ op'.phase \notin {"update", "exec"}
    BY <2>1, <2>2, InitMoves
  <2> QED
    BY <1>7, <2>2, <2>3 DEF AwaitRunning, At, clusterVars, ghostVars
<1>8. CASE ExecInit
  <2>1. op.phase # "idle" /\ (InitTo("ready") \/ Fail)
    BY <1>8 DEF ExecInit, At
  <2>2. Moves /\ op'.phase \notin {"update", "exec"}
    BY <1>1, <2>1, InitMoves, Leaving
  <2> QED
    BY <1>8, <2>1, <2>2 DEF ExecInit, At
<1>9. CASE AwaitReady
  BY <1>1, <1>9, Leaving DEF AwaitReady, At, clusterVars, ghostVars
<1> QED
  BY <1>2, <1>3, <1>4, <1>5, <1>6, <1>7, <1>8, <1>9 DEF Minor

LEMMA MinorChildren == Typed /\ Minor => TypedChildren /\ child'[Marker] = child[Marker]
<1> SUFFICES ASSUME Typed, Minor
             PROVE  TypedChildren /\ child'[Marker] = child[Marker]
  OBVIOUS
<1>1. CASE EnsureGroup \/ LookSecrets \/ LookMysql \/ CreateChild
  BY <1>1, GroupMakes, ChildMakes, LookMakes, MakingParts
<1>2. CASE Unsupported \/ AwaitRunning \/ ExecInit \/ AwaitReady
  <2>1. UNCHANGED <<child, bundle>>
    BY <1>2 DEF Unsupported, AwaitRunning, ExecInit, AwaitReady, clusterVars
  <2>2. dirty' \in BOOLEAN
    BY <1>2 DEF Unsupported, AwaitRunning, ExecInit, AwaitReady, Typed, TypeOK
  <2> QED
    BY <2>1, <2>2 DEF TypedChildren, Typed, TypeOK
<1> QED
  BY <1>1, <1>2 DEF Minor

LEMMA Counted ==
    ASSUME NEW f \in [1..MaxUid -> Nat], NEW u
    PROVE  [f EXCEPT ![u] = @ + 1] \in [1..MaxUid -> Nat]
<1> DEFINE g == [f EXCEPT ![u] = @ + 1]
<1>1. g = [x \in 1..MaxUid |-> IF x = u THEN f[u] + 1 ELSE f[x]]
  OBVIOUS
<1>2. \A x \in 1..MaxUid : (IF x = u THEN f[u] + 1 ELSE f[x]) \in Nat
  OBVIOUS
<1> HIDE DEF g
<1>3. g \in [1..MaxUid -> Nat]
  BY <1>1, <1>2
<1> QED
  BY <1>3 DEF g

LEMMA MinorHistory ==
    Typed /\ Minor => /\ inited' \in BOOLEAN /\ inits' \in [1..MaxUid -> Nat]
                     /\ disturbed' \in 0..MaxDisturbances
<1> SUFFICES ASSUME Typed, Minor
             PROVE  /\ inited' \in BOOLEAN /\ inits' \in [1..MaxUid -> Nat]
                    /\ disturbed' \in 0..MaxDisturbances
  OBVIOUS
<1>1. CASE ExecInit
  <2>1. inits' \in [1..MaxUid -> Nat]
    <3>1. inits' = inits \/ inits' = [inits EXCEPT ![cr.uid] = @ + 1]
      BY <1>1 DEF ExecInit
    <3>2. inits \in [1..MaxUid -> Nat]
      BY DEF Typed, TypeOK
    <3> QED
      BY <3>1, <3>2, Counted
  <2>2. inited' \in BOOLEAN
    BY <1>1 DEF ExecInit, Typed, TypeOK
  <2> QED
    BY <1>1, <2>1, <2>2, Reading DEF ExecInit
<1>2. CASE EnsureGroup \/ LookSecrets \/ LookMysql \/ CreateChild
  <2>1. UNCHANGED <<inited, inits>>
    BY <1>2 DEF EnsureGroup, LookSecrets, LookMysql, CreateChild, ghostVars
  <2>2. disturbed' \in 0..MaxDisturbances
    BY <1>2, Reading DEF EnsureGroup, LookSecrets, LookMysql, CreateChild
  <2> QED
    BY <2>1, <2>2 DEF Typed, TypeOK
<1>3. CASE Unsupported \/ AwaitRunning \/ AwaitReady
  <2>1. UNCHANGED <<inited, inits>>
    BY <1>3 DEF Unsupported, AwaitRunning, AwaitReady, ghostVars, clusterVars
  <2>2. disturbed' \in 0..MaxDisturbances
    BY <1>3, Reading DEF Unsupported, AwaitRunning, AwaitReady, Calm
  <2> QED
    BY <2>1, <2>2 DEF Typed, TypeOK
<1> QED
  BY <1>1, <1>2, <1>3 DEF Minor

LEMMA MarkerMoves ==
    Typed /\ CreateMarker =>
       /\ Moves /\ op'.phase # "update"
       /\ op'.phase = "exec" => op'.my = op.my
<1> SUFFICES ASSUME Typed, CreateMarker
             PROVE  /\ Moves /\ op'.phase # "update"
                    /\ op'.phase = "exec" => op'.my = op.my
  OBVIOUS
<1>1. op.phase = "create"
  BY DEF CreateMarker, At
<1>2. Leaves => op'.phase \notin {"update", "exec"}
  BY IdleTyped DEF Leaves, Typed, TypeOK
<1> QED
  BY <1>1, <1>2, Leaving, InitMoves DEF CreateMarker, Leaves

LEMMA TypedReconcile == Typed /\ Reconcile => Typed'
<1> SUFFICES ASSUME Typed, Reconcile PROVE Typed'
  OBVIOUS
<1>1. CASE Minor
  BY <1>1, MinorMoves, MinorChildren, MinorHistory, OnlyMoves
<1>2. CASE CreateMarker
  <2>1. op.phase = "create"
    BY <1>2 DEF CreateMarker, At
  <2>2. Moves /\ op'.phase # "update"
    BY <1>2, MarkerMoves
  <2>3. PICK cs \in {{}, {Marker}} : Make(cs, NoCR, FALSE)
    BY <1>2 DEF CreateMarker, MakeNothing
  <2>4. TypedChildren
    BY <2>3, NoCRTyped, Making DEF TypedChildren
  <2>5. disturbed' \in 0..MaxDisturbances
    BY <1>2, Reading DEF CreateMarker
  <2>6. inited' \in BOOLEAN /\ inits' \in [1..MaxUid -> Nat]
    BY <1>2 DEF CreateMarker, ghostVars, Typed, TypeOK
  <2> QED
    BY <1>2, <2>1, <2>2, <2>4, <2>5, <2>6, OnlyMoves DEF CreateMarker, ghostVars
<1>3. CASE ProcessDeleted
  <2>1. pending' \in BOOLEAN /\ ns' \in {"absent", "active", "terminating"}
    BY <1>3 DEF ProcessDeleted, Typed, TypeOK
  <2>2. UNCHANGED <<kind, pull, cr, child, bundle, inited, clientVars, feed, cached,
                   dirty, op, ghostVars, disturbed>>
    BY <1>3, Zenon DEF ProcessDeleted
  <2> QED
    BY <2>1, <2>2 DEF Typed, TypeOK, Busy, Room, clientVars, ghostVars
<1> QED
  BY <1>1, <1>2, <1>3, TypedStart, TypedId, TypedCreds DEF Reconcile, Minor

LEMMA TypedStep == Typed /\ [Next]_vars => Typed'
<1> SUFFICES ASSUME Typed, [Next]_vars PROVE Typed'
  OBVIOUS
<1>0. /\ kind \in Kinds /\ cr \in CRs /\ cached \in CRs /\ feed \in Seq(CRs)
      /\ op \in Ops /\ op.my \in CRs /\ op.got \in CRs /\ made \in 0..MaxUid
      /\ MaxUid \in Nat \ {0} /\ MaxGenerations \in Nat \ {0}
      /\ MaxDisturbances \in Nat
  BY OperatorAssumption DEF Typed, TypeOK, Ops
<1>1. CASE EnsureNamespace
  BY <1>1 DEF EnsureNamespace, Typed, TypeOK, Busy, Room, watchVars, ghostVars
<1>2. CASE CreateCR
  <2> DEFINE new == [uid |-> made + 1, id |-> FALSE, creds |-> 0, rv |-> 1]
  <2>1. CASE UNCHANGED <<cr, feed, made, orphaned, late>>
    BY <1>2, <2>1 DEF CreateCR, Typed, TypeOK, Busy, Room
  <2>2. CASE ~UNCHANGED <<cr, feed, made, orphaned, late>>
    <3>1. /\ cr' = new /\ feed' = Append(feed, new) /\ made' = made + 1
          /\ made < MaxUid
      BY <1>0, <1>2, <2>2 DEF CreateCR, WriteCR, Typed, Room
    <3>2. new \in CRs /\ new.creds = 0
      <4>1. made + 1 \in 0..MaxUid
        BY <1>0, <3>1
      <4> QED
        BY <4>1, OperatorAssumption DEF CRs
    <3>3. feed' \in Seq(CRs) /\ made' \in 0..MaxUid /\ cr' \in CRs /\ cr'.creds = 0
      BY <1>0, <3>1, <3>2
    <3>4. late' \in BOOLEAN /\ orphaned' \in BOOLEAN
      BY <1>2 DEF CreateCR, Typed, TypeOK
    <3>5. TypeOK'
      BY <1>2, <3>3, <3>4 DEF CreateCR, Typed, TypeOK
    <3> QED
      BY <1>0, <1>2, <3>3, <3>5 DEF CreateCR, Typed, Busy, Room
  <2> QED
    BY <2>1, <2>2
<1>3. CASE DeleteCR
  BY <1>0, <1>3, NoCRTyped DEF DeleteCR, WriteCR, Typed, TypeOK, Busy, Room, NoCR,
     clientVars, ghostVars
<1>4. CASE EditCR
  <2>1. cr' \in CRs /\ cr'.creds = cr.creds /\ feed' = Append(feed, cr')
    <3>1. cr' = [cr EXCEPT !.rv = @ + 1] /\ feed' = Append(feed, cr')
      BY <1>4 DEF EditCR, WriteCR
    <3> QED
      BY <1>0, <3>1, Rewritten
  <2> QED
    BY <1>0, <1>4, <2>1, Reading DEF EditCR, Typed, TypeOK, Busy, Room, clientVars,
       ghostVars
<1>5. ASSUME NEW sweep \in Sweeps, Collect(sweep) PROVE Typed'
  <2>1. TypedChildren
    BY <1>5, Clearing DEF Collect
  <2>2. TypeOK'
    BY <1>5, <2>1 DEF Collect, TypedChildren, Typed, TypeOK, clientVars, ghostVars
  <2> QED
    BY <1>5, <2>2 DEF Collect, Typed, Busy, Room, clientVars
<1>6. CASE NamespaceGone
  <2>1. cr' \in CRs /\ feed' \in Seq(CRs) /\ (cr' = cr \/ cr'.creds = 0)
    <3>1. CASE UNCHANGED <<cr, feed>>
      BY <1>0, <3>1
    <3>2. CASE WriteCR(NoCR)
      <4>1. NoCR.creds = 0
        BY DEF NoCR
      <4> QED
        BY <1>0, <3>2, <4>1, NoCRTyped DEF WriteCR
    <3> QED
      BY <1>6, <3>1, <3>2 DEF NamespaceGone
  <2>2. TypedChildren
    BY <1>6, Clearing DEF NamespaceGone
  <2>3. TypeOK'
    BY <1>6, <2>1, <2>2, TypeParts DEF NamespaceGone, TypedCluster, TypedOp, Typed,
       TypeOK, clientVars, ghostVars, Ops
  <2> QED
    BY <1>0, <1>6, <2>1, <2>3 DEF NamespaceGone, Typed, TypeOK, Busy, Room, clientVars
<1>7. CASE Deliver
  BY <1>0, <1>7 DEF Deliver, Typed, TypeOK, Busy, Room, clusterVars, clientVars, ghostVars
<1>8. CASE ChildEvent
  <2>1. TypeOK'
    BY <1>8 DEF ChildEvent, Typed, TypeOK, clusterVars, clientVars, ghostVars
  <2> QED
    BY <1>8, <2>1 DEF ChildEvent, Typed, Busy, Room, clusterVars, clientVars
<1>9. CASE Restart
  <2>1. TypedOp /\ disturbed' \in 0..MaxDisturbances /\ feed' = <<>>
    BY <1>0, <1>9, IdleTyped, Reading DEF Restart, TypedOp
  <2>2. orphaned' \in BOOLEAN
    BY <1>9 DEF Restart, Typed, TypeOK
  <2>3. TypeOK'
    <3>1. feed' = <<>> /\ cached' = cr /\ dirty' = FALSE
      BY <1>9 DEF Restart
    <3>2. feed' \in Seq(CRs) /\ cached' \in CRs
      BY <1>0, <3>1
    <3>3. UNCHANGED <<kind, pull, clusterVars, clientVars, inits, late>>
      BY <1>9, Zenon DEF Restart
    <3> QED
      BY <2>1, <2>2, <3>1, <3>2, <3>3 DEF TypedOp, Typed, TypeOK, clusterVars, clientVars, Ops
  <2> QED
    BY <1>0, <1>9, <2>3, IdleTyped, NoCRTyped DEF Restart, Typed, Busy, Room, clientVars
<1>10. CASE Reconcile
  BY <1>10, TypedReconcile
<1>11. CASE UNCHANGED vars
  BY <1>11 DEF vars, clusterVars, clientVars, watchVars, ghostVars, Typed, TypeOK, Busy,
     Room
<1> QED
  BY <1>1, <1>2, <1>3, <1>4, <1>5, <1>6, <1>7, <1>8, <1>9, <1>10, <1>11 DEF Next

\* Every variable has its type: no field of a written resource, event or child
\* leaves its range, and no reconcile exceeds the bound on the generations.
THEOREM TypeCorrect == Spec => []TypeOK
<1>1. Typed => TypeOK
  BY DEF Typed
<1> QED
  BY <1>1, TypedInit, TypedStep, PTL DEF Spec

-----------------------------------------------------------------------------
(***************************************************************************)
(* Uids are handed out in order, so a uid above made has no history.  The  *)
(* marker of a pipeline that is there stays, and init is run by the one    *)
(* that made it.                                                           *)
(***************************************************************************)
Known ==
    /\ cr.uid <= made /\ cached.uid <= made
    /\ op.my.uid <= made /\ op.got.uid <= made
    /\ \A i \in 1..Len(feed) : feed[i].uid <= made
Marked ==
    \A u \in 1..MaxUid :
       /\ inits[u] <= 1
       /\ inits[u] = 1 => u <= made
       /\ inits[u] = 1 /\ u = cr.uid => child[Marker] = u
Taken ==
    op.phase = "exec" /\ op.my.uid = cr.uid =>
       child[Marker] = cr.uid /\ inits[cr.uid] = 0
Once == Marked /\ Taken

(***************************************************************************)
(* The cache goes through the versions of the feed to the resource, and    *)
(* what was read of the resource that is there came through the cache.     *)
(***************************************************************************)
InOrder ==
    cr.uid # 0 =>
       /\ cached.uid = cr.uid => \A i \in 1..Len(feed) : feed[i].uid = cr.uid
       /\ \A i \in 1..Len(feed), j \in 1..Len(feed) :
             i < j /\ feed[i].uid = cr.uid => feed[j].uid = cr.uid
Caught ==
    /\ op.my.uid # 0 /\ op.my.uid = cr.uid => cached.uid = cr.uid
    /\ cr.id => cr.uid # 0 /\ cached.uid = cr.uid
    /\ op.got.id => /\ op.got.uid # 0
                    /\ op.got.uid = cr.uid => cached.uid = cr.uid
Followed == Known /\ InOrder /\ Caught

LEMMA FollowedInit == Init => Followed
BY NoCRTyped, OperatorAssumption DEF Init, Idle, Followed, Known, InOrder, Caught

LEMMA Shapes ==
    ASSUME Typed
    PROVE  /\ cr \in CRs /\ cr.uid \in Nat /\ cached.uid \in Nat /\ made \in Nat
           /\ op.my.uid \in Nat /\ op.got.uid \in Nat
           /\ feed \in Seq(CRs) /\ Len(feed) \in Nat
           /\ \A i \in 1..Len(feed) : feed[i].uid \in Nat
<1>1. /\ cr \in CRs /\ cached \in CRs /\ made \in Nat /\ op.my \in CRs /\ op.got \in CRs
      /\ feed \in Seq(CRs)
  BY OperatorAssumption DEF Typed, TypeOK
<1>2. \A r \in CRs : r.uid \in Nat
  BY OperatorAssumption DEF CRs
<1> QED
  BY <1>1, <1>2

\* A step of the reconciler that writes no resource.
LEMMA FollowedMoves ==
    ASSUME Typed, Followed, op' = op \/ Moves, UNCHANGED <<cr, feed, cached, made>>
    PROVE  Followed'
<1>1. /\ op'.my \in {op.my, NoCR} /\ op'.got \in {op.got, cr, NoCR}
  BY IdleTyped DEF Moves, Typed, TypeOK
<1>2. Known'
  BY <1>1, Shapes, NoCRTyped DEF Followed, Known
<1>3. InOrder'
  BY DEF Followed, InOrder
<1>4. Caught'
  BY <1>1, NoCRTyped DEF Followed, Caught
<1> QED
  BY <1>2, <1>3, <1>4 DEF Followed

\* An event that is appended to the feed.
LEMMA Appended ==
    ASSUME Typed, NEW r \in CRs, feed' = Append(feed, r)
    PROVE  /\ Len(feed') = Len(feed) + 1 /\ Len(feed) \in Nat
           /\ \A i \in 1..Len(feed) : feed'[i] = feed[i]
           /\ feed'[Len(feed) + 1] = r
           /\ \A i \in 1..Len(feed') : i \in 1..Len(feed) \/ i = Len(feed) + 1
BY Shapes

\* The resource is written in place of the one that is there.
LEMMA FollowedWrite ==
    ASSUME Typed, Followed, op' = op \/ Moves, UNCHANGED <<cached, made>>,
           cr' \in CRs, cr'.uid = cr.uid, feed' = Append(feed, cr'),
           cr'.id => \/ cr.id
                     \/ op.my.uid # 0 /\ op.my.uid = cr.uid
                     \/ op.got.id /\ op.got.uid = cr.uid
    PROVE  Followed'
<1>1. op'.my \in {op.my, NoCR} /\ op'.got \in {op.got, cr, NoCR}
  BY IdleTyped DEF Moves, Typed, TypeOK
<1>2. Known'
  BY <1>1, Shapes, NoCRTyped, Appended DEF Followed, Known
<1>3. InOrder'
  BY Shapes, Appended DEF Followed, InOrder
<1>4. Caught'
  BY <1>1, NoCRTyped DEF Followed, Caught
<1> QED
  BY <1>2, <1>3, <1>4 DEF Followed

LEMMA FollowedDelete ==
    ASSUME Typed, Followed, WriteCR(NoCR), UNCHANGED <<cached, made, op>>
    PROVE  Followed'
<1>1. Known'
  BY Shapes, NoCRTyped, Appended DEF Followed, Known, WriteCR
<1> QED
  BY <1>1, NoCRTyped DEF Followed, InOrder, Caught, WriteCR

LEMMA FollowedStep == Typed /\ Followed /\ [Next]_vars => Followed'
<1> SUFFICES ASSUME Typed, Followed, [Next]_vars PROVE Followed'
  OBVIOUS
<1>1. CASE EnsureNamespace
  BY <1>1, FollowedMoves DEF EnsureNamespace, watchVars
<1>2. CASE CreateCR
  <2>1. CASE UNCHANGED <<cr, feed, made>>
    BY <1>2, <2>1, FollowedMoves DEF CreateCR
  <2>2. CASE ~UNCHANGED <<cr, feed, made>>
    <3> DEFINE new == [uid |-> made + 1, id |-> FALSE, creds |-> 0, rv |-> 1]
    <3>1. cr' = new /\ feed' = Append(feed, new) /\ made' = made + 1
      BY <1>2, <2>2 DEF CreateCR, WriteCR
    <3>2. new.uid = made + 1 /\ new.id = FALSE
      OBVIOUS
    <3>3. new \in CRs
      BY <1>2, <3>1, TypedStep DEF Typed, TypeOK
    <3> HIDE DEF new
    <3>4. op' = op /\ cached' = cached
      BY <1>2 DEF CreateCR
    <3>5. Known'
      BY <3>1, <3>2, <3>3, <3>4, Shapes, Appended DEF Followed, Known
    <3>6. InOrder'
      BY <3>1, <3>2, <3>3, <3>4, Shapes, Appended DEF Followed, Known, InOrder
    <3>7. Caught'
      BY <3>1, <3>2, <3>4, Shapes DEF Followed, Known, Caught
    <3> QED
      BY <3>5, <3>6, <3>7 DEF Followed
  <2> QED
    BY <2>1, <2>2
<1>3. CASE DeleteCR
  BY <1>3, FollowedDelete DEF DeleteCR, clientVars
<1>4. CASE EditCR
  <2>1. /\ cr' \in CRs /\ cr'.uid = cr.uid /\ cr'.id = cr.id /\ feed' = Append(feed, cr')
    BY <1>4, Shapes, Rewritten DEF EditCR, WriteCR
  <2> QED
    BY <1>4, <2>1, FollowedWrite DEF EditCR, clientVars
<1>5. ASSUME NEW sweep \in Sweeps, Collect(sweep) PROVE Followed'
  BY <1>5, FollowedMoves DEF Collect, clientVars
<1>6. CASE NamespaceGone
  BY <1>6, FollowedMoves, FollowedDelete DEF NamespaceGone, clientVars
<1>7. CASE Deliver
  <2>1. /\ feed # <<>> /\ cached' = feed[1] /\ Len(feed') = Len(feed) - 1
        /\ 1 \in 1..Len(feed) /\ Len(feed) \in Nat
        /\ \A i \in 1..Len(feed') : feed'[i] = feed[i + 1] /\ i + 1 \in 1..Len(feed)
    BY <1>7, Shapes DEF Deliver
  <2>2. op' = op /\ cr' = cr /\ made' = made
    BY <1>7 DEF Deliver, clusterVars, clientVars
  <2>3. Known'
    BY <2>1, <2>2 DEF Followed, Known
  <2>4. InOrder'
    <3> SUFFICES ASSUME cr.uid # 0
                 PROVE  /\ cached'.uid = cr.uid =>
                              \A i \in 1..Len(feed') : feed'[i].uid = cr.uid
                        /\ \A i \in 1..Len(feed'), j \in 1..Len(feed') :
                              i < j /\ feed'[i].uid = cr.uid => feed'[j].uid = cr.uid
      BY <2>2 DEF InOrder
    <3>1. \A i \in 1..Len(feed), j \in 1..Len(feed) :
             i < j /\ feed[i].uid = cr.uid => feed[j].uid = cr.uid
      BY DEF Followed, InOrder
    <3>2. ASSUME NEW i \in 1..Len(feed'), feed[1].uid = cr.uid
          PROVE  feed'[i].uid = cr.uid
      <4>1. 1 < i + 1 /\ i + 1 \in 1..Len(feed) /\ feed'[i] = feed[i + 1]
        BY <2>1
      <4> QED
        BY <2>1, <3>1, <3>2, <4>1
    <3>3. ASSUME NEW i \in 1..Len(feed'), NEW j \in 1..Len(feed'), i < j,
                 feed'[i].uid = cr.uid
          PROVE  feed'[j].uid = cr.uid
      <4>1. /\ i + 1 < j + 1 /\ i + 1 \in 1..Len(feed) /\ j + 1 \in 1..Len(feed)
            /\ feed'[i] = feed[i + 1] /\ feed'[j] = feed[j + 1]
        BY <2>1, <3>3
      <4> QED
        BY <3>1, <3>3, <4>1
    <3> QED
      BY <2>1, <3>2, <3>3
  <2>5. cr.uid # 0 /\ cached.uid = cr.uid => cached'.uid = cr.uid
    BY <2>1 DEF Followed, InOrder
  <2>6. Caught'
    BY <2>2, <2>5 DEF Followed, Caught
  <2> QED
    BY <2>3, <2>4, <2>6 DEF Followed
<1>8. CASE ChildEvent
  BY <1>8, FollowedMoves DEF ChildEvent, clusterVars, clientVars
<1>9. CASE Restart
  <2>1. /\ op'.my = NoCR /\ op'.got = NoCR /\ cached' = cr /\ Len(feed') = 0
        /\ cr' = cr /\ made' = made
    BY <1>9, IdleTyped DEF Restart, clusterVars, clientVars, Typed, TypeOK
  <2> QED
    BY <2>1, Shapes, NoCRTyped DEF Followed, Known, InOrder, Caught
<1>10. CASE Reconcile
  <2>1. CASE Minor
    BY <2>1, MinorMoves, FollowedMoves DEF clientVars
  <2>2. CASE CreateMarker
    <3>1. op' = op \/ Moves
      BY <2>2, MarkerMoves
    <3> QED
      BY <2>2, <3>1, FollowedMoves DEF CreateMarker, clientVars
  <2>3. CASE ProcessDeleted
    BY <2>3, FollowedMoves DEF ProcessDeleted, clientVars
  <2>4. CASE Start
    <3>1. op'.my = cached /\ op'.got = NoCR
      BY <2>4 DEF Start, Enter
    <3>2. UNCHANGED <<cr, feed, cached, made>>
      BY <2>4 DEF Start, clusterVars, clientVars
    <3> QED
      BY <3>1, <3>2, Shapes, NoCRTyped DEF Followed, Known, InOrder, Caught
  <2>5. CASE ProcessId
    <3> DEFINE new == [op.my EXCEPT !.id = TRUE, !.rv = @ + 1]
    <3>1. op.phase # "idle" /\ op.my.uid # 0
      BY <2>5 DEF ProcessId, At, Typed, Busy
    <3>2. Moves /\ UNCHANGED <<cached, made>>
      BY <2>5, <3>1, Leaving DEF ProcessId, Leaves, clientVars
    <3>3. CASE UNCHANGED <<cr, feed>>
      BY <3>2, <3>3, FollowedMoves
    <3>4. CASE cr.uid = op.my.uid /\ WriteCR(new)
      <4>1. new \in CRs /\ new.uid = cr.uid
        BY <3>4, WithId DEF Typed, TypeOK
      <4> HIDE DEF new
      <4> QED
        BY <3>1, <3>2, <3>4, <4>1, FollowedWrite DEF WriteCR
    <3> QED
      BY <2>5, <3>3, <3>4 DEF ProcessId
  <2>6. CASE GenerateCreds
    <3>1. op.phase # "idle"
      BY <2>6 DEF GenerateCreds, At
    <3>2. UNCHANGED <<cr, feed, cached, made>>
      BY <2>6 DEF GenerateCreds, clusterVars, clientVars
    <3>3. CASE Leaves
      BY <3>2, <3>3, FollowedMoves DEF Leaves
    <3>4. CASE /\ op' = [op EXCEPT !.phase = "update", !.got = cr]
               /\ pending' = pending
      <4>1. op' = [op EXCEPT !.phase = "update", !.got = cr, !.todo = op.todo]
        BY <3>4 DEF Typed, TypeOK
      <4>2. Moves
        BY <3>1, <3>4, <4>1, Staying DEF Typed, TypeOK
      <4> QED
        BY <3>2, <4>2, FollowedMoves
    <3> QED
      BY <2>6, <3>1, <3>3, <3>4, Leaving DEF GenerateCreds
  <2>7. CASE UpdateCreds
    <3> DEFINE new == [NewBundle(op.got) EXCEPT !.rv = @ + 1]
    <3>1. op.phase = "update" /\ op.got.creds < MaxGenerations
      BY <2>7 DEF UpdateCreds, At, Typed, Room
    <3>2. Moves /\ UNCHANGED <<cached, made>>
      BY <2>7, <3>1, Leaving DEF UpdateCreds, Leaves, clientVars
    <3>3. CASE UNCHANGED <<cr, feed>>
      BY <3>2, <3>3, FollowedMoves
    <3>4. CASE cr.uid = op.got.uid /\ WriteCR(new)
      <4>1. new \in CRs /\ new.uid = cr.uid /\ new.id = op.got.id
        BY <3>1, <3>4, WithBundle DEF Typed, TypeOK
      <4> HIDE DEF new
      <4> QED
        BY <3>2, <3>4, <4>1, FollowedWrite DEF WriteCR
    <3> QED
      BY <2>7, <3>3, <3>4 DEF UpdateCreds
  <2> QED
    BY <1>10, <2>1, <2>2, <2>3, <2>4, <2>5, <2>6, <2>7 DEF Reconcile, Minor
<1>11. CASE UNCHANGED vars
  BY <1>11, FollowedMoves DEF vars, clusterVars, clientVars, watchVars
<1> QED
  BY <1>1, <1>2, <1>3, <1>4, <1>5, <1>6, <1>7, <1>8, <1>9, <1>10, <1>11 DEF Next

\* The namespace is deleted only when the cache shows no resource, and by then
\* the operator has not worked on the one that is there.
LEMMA WorkedOn ==
    Typed /\ Followed /\ [Next]_vars =>
       (ns = "active" /\ ns' = "terminating" => cr = NoCR \/ ~cr.id)
<1> SUFFICES ASSUME Typed, Followed, [Next]_vars, ns = "active", ns' = "terminating"
             PROVE  ~cr.id
  OBVIOUS
<1>1. CASE ProcessDeleted
  BY <1>1 DEF ProcessDeleted, Followed, Caught
<1>2. CASE ~ProcessDeleted
  <2>1. CASE Reconcile
    <3>1. CASE Minor
      BY <3>1, MinorMoves
    <3>2. CASE CreateMarker \/ ProcessId \/ GenerateCreds \/ UpdateCreds \/ Start
      BY <3>2 DEF CreateMarker, ProcessId, GenerateCreds, UpdateCreds, Start, clusterVars
    <3> QED
      BY <1>2, <2>1, <3>1, <3>2 DEF Reconcile, Minor
  <2>2. CASE EnsureNamespace \/ CreateCR \/ DeleteCR \/ EditCR
    BY <2>2 DEF EnsureNamespace, CreateCR, DeleteCR, EditCR
  <2>3. CASE (\E sweep \in Sweeps : Collect(sweep)) \/ NamespaceGone
    BY <2>3 DEF Collect, NamespaceGone
  <2>4. CASE Deliver \/ ChildEvent \/ Restart \/ UNCHANGED vars
    BY <2>4 DEF Deliver, ChildEvent, Restart, vars, clusterVars
  <2> QED
    BY <2>1, <2>2, <2>3, <2>4 DEF Next
<1> QED
  BY <1>1, <1>2

\* ProcessCR deletes no namespace under a pipeline that the operator has worked on,
\* however late the cache is and wherever the process ends.
THEOREM WorkedOnSafe == Spec => WorkedOnIsSafe
<1>1. Spec => [](Typed /\ Followed)
  BY TypedInit, TypedStep, FollowedInit, FollowedStep, PTL DEF Spec
<1> QED
  BY <1>1, WorkedOn, PTL DEF Spec, WorkedOnIsSafe

-----------------------------------------------------------------------------
LEMMA OnceInit == Init => Once
BY OperatorAssumption DEF Init, Idle, Once, Marked, Taken

\* A step that leaves the marker of the pipeline and the count alone.
LEMMA OnceKept ==
    ASSUME Typed, Once, made \in Nat, made' \in Nat, made <= made', inits' = inits,
           child'[Marker] = child[Marker] \/ cr'.uid = 0,
           cr'.uid = cr.uid \/ cr'.uid = 0,
           op'.phase = "exec" => op.phase = "exec" /\ op'.my = op.my,
           op'.phase = "exec" => op.my.uid # 0
    PROVE  Once'
<1>1. Marked'
  BY DEF Typed, TypeOK, Once, Marked
<1>2. Taken'
  BY DEF Once, Taken
<1> QED
  BY <1>1, <1>2 DEF Once

LEMMA MarkerChild == Typed => Marker \in DOMAIN child /\ Marker \notin Bundled
BY Kinded DEF Typed, TypeOK, ChildrenOf, Marker, Bundled, Secrets, ToSet

\* processId and processCreds write the resource in place of the one they read.
LEMMA CredsMove ==
    Typed /\ (ProcessId \/ GenerateCreds \/ UpdateCreds) =>
       op'.phase # "exec" /\ cr'.uid = cr.uid
<1> SUFFICES ASSUME Typed, ProcessId \/ GenerateCreds \/ UpdateCreds
             PROVE  op'.phase # "exec" /\ cr'.uid = cr.uid
  OBVIOUS
<1>1. op.phase # "idle" /\ op.phase # "exec"
  BY DEF ProcessId, GenerateCreds, UpdateCreds, At
<1>2. op'.phase # "exec"
  <2>1. Advance \/ Fail => op'.phase # "exec"
    BY <1>1, Leaving, IdleTyped DEF Leaves, Typed, TypeOK
  <2>2. CASE GenerateCreds /\ ~Advance /\ ~Fail
    BY <2>2 DEF GenerateCreds, Typed, TypeOK
  <2> QED
    BY <2>1, <2>2 DEF ProcessId, GenerateCreds, UpdateCreds
<1>3. CASE ProcessId
  <2> DEFINE new == [op.my EXCEPT !.id = TRUE, !.rv = @ + 1]
  <2>1. cr' = cr \/ (cr.uid = op.my.uid /\ cr' = new)
    BY <1>3 DEF ProcessId, WriteCR
  <2>2. new.uid = op.my.uid
    BY WithId DEF Typed, TypeOK
  <2> QED
    BY <1>2, <2>1, <2>2
<1>4. CASE GenerateCreds
  BY <1>2, <1>4 DEF GenerateCreds, clusterVars
<1>5. CASE UpdateCreds
  <2> DEFINE new == [NewBundle(op.got) EXCEPT !.rv = @ + 1]
  <2>1. cr' = cr \/ (cr.uid = op.got.uid /\ cr' = new)
    BY <1>5 DEF UpdateCreds, WriteCR
  <2>2. new.uid = op.got.uid
    BY <1>5, WithBundle DEF UpdateCreds, At, Typed, TypeOK, Room
  <2> QED
    BY <1>2, <2>1, <2>2
<1> QED
  BY <1>3, <1>4, <1>5

LEMMA OnceStep == Typed /\ Followed /\ Once /\ [Next]_vars => Once'
<1> SUFFICES ASSUME Typed, Followed, Once, [Next]_vars PROVE Once'
  OBVIOUS
<1>0. /\ made \in Nat /\ cr.uid \in Nat /\ cr.uid <= made /\ op.my.uid <= made
      /\ op.my.uid \in Nat /\ op.phase = "exec" => op.my.uid # 0
  BY Shapes DEF Followed, Known, Typed, Busy
<1>1. CASE EnsureNamespace
  BY <1>0, <1>1, OnceKept DEF EnsureNamespace, ghostVars
<1>2. CASE CreateCR
  <2>1. CASE UNCHANGED <<cr, made>>
    BY <1>0, <1>2, <2>1, OnceKept DEF CreateCR
  <2>2. CASE ~UNCHANGED <<cr, made>>
    <3>1. cr'.uid = made + 1 /\ made' = made + 1
      <4>1. /\ cr' = [uid |-> made + 1, id |-> FALSE, creds |-> 0, rv |-> 1]
            /\ made' = made + 1
        BY <1>2, <2>2 DEF CreateCR, WriteCR
      <4> QED
        BY <4>1
    <3>2. UNCHANGED <<child, op, inits>>
      BY <1>2 DEF CreateCR
    <3>3. Marked'
      BY <1>0, <3>1, <3>2 DEF Typed, TypeOK, Once, Marked
    <3> QED
      BY <1>0, <3>1, <3>2, <3>3 DEF Once, Taken
  <2> QED
    BY <2>1, <2>2
<1>3. CASE DeleteCR
  BY <1>0, <1>3, OnceKept, NoCRTyped DEF DeleteCR, WriteCR, clientVars, ghostVars
<1>4. CASE EditCR
  <2>1. cr'.uid = cr.uid
    BY <1>4, Shapes, Rewritten DEF EditCR, WriteCR
  <2> QED
    BY <1>0, <1>4, <2>1, OnceKept DEF EditCR, clientVars, ghostVars
<1>5. ASSUME NEW sweep \in Sweeps, Collect(sweep) PROVE Once'
  <2>1. child' = [c \in DOMAIN child |-> IF c \in sweep \cap Dead THEN 0 ELSE child[c]]
    BY <1>5 DEF Collect, Clear
  <2>2. UNCHANGED <<cr, made, op, inits>>
    BY <1>5 DEF Collect, clientVars, ghostVars
  <2>3. child[Marker] = cr.uid => child'[Marker] = cr.uid
    BY <2>1, MarkerChild DEF Dead
  <2> QED
    BY <2>2, <2>3 DEF Once, Marked, Taken
<1>6. CASE NamespaceGone
  <2>1. cr'.uid = 0
    BY <1>6, NoCRTyped DEF NamespaceGone, WriteCR
  <2> QED
    BY <1>0, <1>6, <2>1, OnceKept DEF NamespaceGone, clientVars, ghostVars
<1>7. CASE Deliver
  BY <1>0, <1>7, OnceKept DEF Deliver, clusterVars, clientVars, ghostVars
<1>8. CASE ChildEvent
  BY <1>0, <1>8, OnceKept DEF ChildEvent, clusterVars, clientVars, ghostVars
<1>9. CASE Restart
  <2>1. op'.phase = "idle"
    BY <1>9, IdleTyped DEF Restart, Typed, TypeOK
  <2> QED
    BY <1>0, <1>9, <2>1, OnceKept DEF Restart, clusterVars, clientVars
<1>10. CASE Reconcile
  <2>1. CASE ExecInit
    <3>1. /\ op.phase = "exec" /\ op'.phase # "exec" /\ child'[Marker] = child[Marker]
          /\ UNCHANGED <<cr, made>>
      BY <2>1, MinorMoves, MinorChildren DEF ExecInit, At, Minor, clientVars
    <3>2. CASE cr.uid # op.my.uid
      BY <1>0, <2>1, <3>1, <3>2, OnceKept DEF ExecInit
    <3>3. CASE cr.uid = op.my.uid
      <4>1. inits' = [inits EXCEPT ![cr.uid] = @ + 1]
        BY <2>1, <3>3 DEF ExecInit
      <4>2. child[Marker] = cr.uid /\ inits[cr.uid] = 0
        BY <3>1, <3>3 DEF Once, Taken
      <4>3. Marked'
        BY <1>0, <3>1, <4>1, <4>2 DEF Typed, TypeOK, Once, Marked
      <4> QED
        BY <3>1, <4>3 DEF Once, Taken
    <3> QED
      BY <3>2, <3>3
  <2>2. CASE Minor /\ ~ExecInit
    <3>1. inits' = inits
      BY <2>2 DEF Minor, EnsureGroup, LookSecrets, LookMysql, CreateChild, Unsupported,
         AwaitRunning, AwaitReady, ghostVars
    <3> QED
      BY <1>0, <2>2, <3>1, MinorMoves, MinorChildren, OnceKept DEF clientVars
  <2>3. CASE CreateMarker
    <3>1. /\ UNCHANGED <<cr, made, inits>>
          /\ op'.phase = "exec" => op'.my = op.my
      BY <2>3, MarkerMoves DEF CreateMarker, clientVars, ghostVars
    <3>2. CASE Admitted(Marker) /\ Make({Marker}, NoCR, FALSE)
      <4>1. child[Marker] = 0 /\ child'[Marker] = op.my.uid
        BY <3>2, MarkerChild DEF Admitted, Make
      <4>2. \A u \in 1..MaxUid : inits[u] = 1 => u # cr.uid
        BY <4>1 DEF Once, Marked
      <4>3. Marked'
        BY <3>1, <4>2 DEF Once, Marked
      <4>4. op.my.uid # 0 /\ cr.uid \in 0..MaxUid /\ inits \in [1..MaxUid -> Nat]
        BY <2>3 DEF CreateMarker, At, Typed, TypeOK, Busy, CRs
      <4>5. Taken'
        <5> SUFFICES ASSUME op.my.uid = cr.uid PROVE inits[cr.uid] = 0
          BY <3>1, <4>1 DEF Taken
        <5>1. cr.uid \in 1..MaxUid /\ inits[cr.uid] <= 1 /\ inits[cr.uid] \in Nat
          BY <4>4, OperatorAssumption DEF Once, Marked
        <5> QED
          BY <4>2, <5>1
      <4> QED
        BY <4>3, <4>5 DEF Once
    <3>3. CASE Fail /\ MakeNothing(FALSE)
      <4>1. child'[Marker] = child[Marker]
        BY <3>3, MarkerChild DEF MakeNothing, Make
      <4>2. op'.phase # "exec"
        BY <2>3, <3>3, Leaving, IdleTyped DEF CreateMarker, At, Leaves, Typed, TypeOK
      <4> QED
        BY <1>0, <3>1, <4>1, <4>2, OnceKept
    <3> QED
      BY <2>3, <3>2, <3>3 DEF CreateMarker
  <2>4. CASE ProcessDeleted
    BY <1>0, <2>4, OnceKept DEF ProcessDeleted, clientVars, ghostVars
  <2>5. CASE Start
    <3>1. op'.phase = "look" /\ UNCHANGED <<cr, child, made, inits>>
      BY <2>5 DEF Start, Enter, clusterVars, clientVars
    <3> QED
      BY <1>0, <3>1, OnceKept
  <2>6. CASE ProcessId \/ GenerateCreds \/ UpdateCreds
    <3>1. op.phase \in {"look", "update"} /\ UNCHANGED <<child, made, inits>>
      BY <2>6 DEF ProcessId, GenerateCreds, UpdateCreds, At, clusterVars, clientVars, ghostVars
    <3>2. op'.phase # "exec"
      BY <2>6, <3>1, CredsMove
    <3>3. cr'.uid = cr.uid
      BY <2>6, CredsMove
    <3> QED
      BY <1>0, <3>1, <3>2, <3>3, OnceKept
  <2> QED
    BY <1>10, <2>1, <2>2, <2>3, <2>4, <2>5, <2>6 DEF Reconcile, Minor
<1>11. CASE UNCHANGED vars
  BY <1>0, <1>11, OnceKept DEF vars, clusterVars, clientVars, ghostVars
<1> QED
  BY <1>1, <1>2, <1>3, <1>4, <1>5, <1>6, <1>7, <1>8, <1>9, <1>10, <1>11 DEF Next

\* initStatefulSet runs init at most once for a pipeline: the marker, which only one
\* reconcile can make, stays as long as the pipeline is there.
THEOREM InitOnce == Spec => []InitOncePerPipeline
<1>1. Once => InitOncePerPipeline
  BY DEF Once, Marked, InitOncePerPipeline
<1> QED
  BY <1>1, TypedInit, TypedStep, FollowedInit, FollowedStep, OnceInit, OnceStep, PTL
  DEF Spec
=============================================================================
