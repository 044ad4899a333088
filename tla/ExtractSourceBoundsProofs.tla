--------------------- MODULE ExtractSourceBoundsProofs ---------------------
(***************************************************************************)
(* Proofs of the two bounds on what the churro-extractsource service does  *)
(* besides its task: pods made for a source that is gone, and pods made    *)
(* more than once for a file.  Both count steps of other processes, so the *)
(* invariants relate the size of a set of the service's to the number of   *)
(* ctl operations begun.                                                   *)
(***************************************************************************)
EXTENDS ExtractSourceServerProofs, FiniteSetTheorems

---------------------------------------------------------------------------
(* Pods of removed sources. *)

StalePods == {i \in DOMAIN pods : pods[i].stale}

\* The consumer is about to make a pod for a source that is gone.
Leaking == IF pc = "create" /\ chosen \notin ToSet(cr) THEN 1 ELSE 0

StaleInv == Cardinality(StalePods) + Leaking <= removals

LEMMA StalePodsFinite ==
    ASSUME TypeInv
    PROVE  IsFiniteSet(StalePods) /\ Cardinality(StalePods) \in Nat
<1>1. IsFiniteSet(DOMAIN pods)
  <2>1. DOMAIN pods = 1..Len(pods) /\ Len(pods) \in Nat
    BY DEF TypeInv, TypeOK
  <2> QED
    BY <2>1, FS_Interval
<1>2. StalePods \in SUBSET DOMAIN pods
  BY DEF StalePods
<1> QED
  BY <1>1, <1>2, FS_Subset, FS_CardinalityType

LEMMA BoundKept ==
    ASSUME NEW n \in Int, NEW used \in Int, NEW bound \in Int, n + used <= bound,
           NEW less \in Int, less <= used
    PROVE  n + less <= bound
  OBVIOUS

LEMMA BoundRaised ==
    ASSUME NEW n \in Int, NEW used \in {0, 1}, NEW bound \in Int, n + used <= bound,
           NEW used1 \in {0, 1}
    PROVE  n + used1 <= bound + 1
  OBVIOUS

LEMMA StaleInit == Init => StaleInv
<1> SUFFICES ASSUME Init
             PROVE  StaleInv
  OBVIOUS
<1>1. StalePods = {}
  BY DEF Init, StalePods
<1>2. Leaking = 0 /\ removals = 0
  BY DEF Init, Leaking
<1> QED
  BY <1>1, <1>2, FS_EmptySet DEF StaleInv

LEMMA StaleStep == TypeInv /\ StaleInv /\ [Next]_vars => StaleInv'
<1> SUFFICES ASSUME TypeInv, StaleInv, [Next]_vars
             PROVE  StaleInv'
  OBVIOUS
<1>0. pods \in Seq(QueuePods) /\ SamePods(pods, pods)
  BY DEF TypeInv, TypeOK, SamePods
<1>1. /\ removals \in Int
      /\ Cardinality(StalePods) \in Int
      /\ IsFiniteSet(StalePods)
      /\ Cardinality(StalePods) + Leaking <= removals
  BY StalePodsFinite DEF TypeInv, TypeOK, StaleInv
<1>2. Leaking \in {0, 1} /\ Leaking' \in {0, 1} /\ Leaking \in Int /\ Leaking' \in Int
  BY DEF Leaking
<1>3. ASSUME SamePods(pods, pods'),
             (Leaking' <= Leaking /\ UNCHANGED removals) \/ removals' = removals + 1
      PROVE  StaleInv'
  <2>1. StalePods' = StalePods
    BY <1>3 DEF SamePods, StalePods
  <2>2. Cardinality(StalePods) + Leaking' <= removals'
    <3>1. CASE Leaking' <= Leaking /\ UNCHANGED removals
      BY <1>1, <1>2, <3>1, BoundKept
    <3>2. CASE removals' = removals + 1
      BY <1>1, <1>2, <3>2, BoundRaised
    <3> QED
      BY <1>3, <3>1, <3>2
  <2> QED
    BY <2>1, <2>2 DEF StaleInv
<1>4. ASSUME FetchSource
      PROVE  StaleInv'
  <2>1. chosen' \in ToSet(cr') /\ UNCHANGED <<pods, removals>>
    BY <1>4 DEF FetchSource, TableMatches, ToSet, ctlVars
  <2>2. Leaking' <= Leaking
    BY <2>1 DEF Leaking
  <2> QED
    BY <1>0, <1>3, <2>1, <2>2
<1>5. ASSUME CreatePod
      PROVE  StaleInv'
  <2>1. /\ DOMAIN pods' = 1..(Len(pods) + 1)
        /\ DOMAIN pods = 1..Len(pods)
        /\ \A i \in DOMAIN pods : pods'[i] = pods[i]
        /\ Len(pods) \in Nat
        /\ pods'[Len(pods) + 1] =
               [from |-> held.from, id |-> held.id, path |-> held.path, src |-> chosen,
                phase |-> "Pending", stale |-> chosen \notin ToSet(cr)]
    BY <1>0, <1>5 DEF CreatePod
  <2>2. pods'[Len(pods) + 1].stale = (chosen \notin ToSet(cr))
    BY <2>1
  <2>3. StalePods' = StalePods \cup {i \in {Len(pods) + 1} : chosen \notin ToSet(cr)}
    <3>1. \A i \in 1..Len(pods) : i # Len(pods) + 1 /\ pods'[i] = pods[i]
      BY <2>1
    <3>2. 1..(Len(pods) + 1) = 1..Len(pods) \cup {Len(pods) + 1}
      BY <2>1
    <3>3. StalePods' = {i \in 1..Len(pods) \cup {Len(pods) + 1} : pods'[i].stale}
      BY <2>1, <3>2 DEF StalePods
    <3>4. StalePods = {i \in 1..Len(pods) : pods[i].stale}
      BY <2>1 DEF StalePods
    <3> QED
      BY <2>2, <3>1, <3>3, <3>4, Zenon
  <2>4. Leaking' = 0 /\ UNCHANGED removals
    BY <1>5 DEF CreatePod, Leaking, ctlVars
  <2>5. CASE chosen \in ToSet(cr)
    <3>1. StalePods' = StalePods
      BY <2>5, <2>3
    <3>2. Leaking' <= Leaking
      BY <2>4 DEF Leaking
    <3>3. Cardinality(StalePods) + Leaking' <= removals
      BY <1>1, <1>2, <3>2, BoundKept
    <3> QED
      BY <2>4, <3>1, <3>3 DEF StaleInv
  <2>6. CASE chosen \notin ToSet(cr)
    <3>1. StalePods' = StalePods \cup {Len(pods) + 1}
      BY <2>6, <2>3
    <3>2. Len(pods) + 1 \notin StalePods
      BY <2>1 DEF StalePods
    <3>3. Cardinality(StalePods') = Cardinality(StalePods) + 1
      BY <1>1, <3>1, <3>2, FS_AddElement
    <3>4. Leaking = 1
      BY <1>5, <2>6 DEF CreatePod, Leaking
    <3>5. Cardinality(StalePods) + 1 + Leaking' <= removals
      BY <1>1, <2>4, <3>4
    <3> QED
      BY <2>4, <3>3, <3>5 DEF StaleInv
  <2> QED
    BY <2>5, <2>6
<1>6. ASSUME SamePods(pods, pods'), UNCHANGED removals,
             pc' # "create" \/ (UNCHANGED <<pc, chosen>> /\ ToSet(cr) \subseteq ToSet(cr'))
      PROVE  StaleInv'
  <2>1. Leaking' <= Leaking
    BY <1>6 DEF Leaking
  <2> QED
    BY <1>3, <1>6, <2>1
<1>7. ASSUME NEW i \in DOMAIN pods, PodStarts(i) \/ PodEnds(i) \/ PodRenames(i)
      PROVE  StaleInv'
  <2>1. SamePods(pods, pods')
    BY <1>0, <1>7, PhaseOfQueuePod DEF PodStarts, PodEnds, PodRenames, Phases
  <2>2. UNCHANGED <<pc, chosen, cr, removals>>
    BY <1>7 DEF PodStarts, PodEnds, PodRenames, ctlVars, consumerVars
  <2> QED
    BY <1>6, <2>1, <2>2
<1>8. ASSUME Harvest \/ CtlPurge
      PROVE  StaleInv'
  <2>1. SamePods(pods, pods')
    BY <1>0, <1>8, DeleteQueuePods DEF Harvest, CtlPurge
  <2>2. UNCHANGED <<pc, chosen, cr, removals>>
    BY <1>8 DEF Harvest, CtlPurge, ctlVars, consumerVars
  <2> QED
    BY <1>6, <2>1, <2>2
<1>9. ASSUME NEW s \in Sources, CtlDelete(s) \/ \E t \in Sources : s # t /\ CtlUpdate(s, t)
      PROVE  StaleInv'
  <2>1. UNCHANGED pods /\ removals' = removals + 1
    BY <1>9 DEF CtlDelete, CtlUpdate
  <2> QED
    BY <1>0, <1>3, <2>1
<1>10. ASSUME NEW s \in Sources, CtlCreate(s) \/ CtlUpdate(s, s)
       PROVE  StaleInv'
  <2>1. UNCHANGED <<pods, pc, chosen, removals>> /\ ToSet(cr) \subseteq ToSet(cr')
    <3>1. CASE CtlCreate(s)
      <4>1. cr' = Append(cr, s) /\ cr \in Seq(Sources)
        BY <3>1 DEF CtlCreate, TypeInv, TypeOK
      <4>2. ToSet(cr) \subseteq ToSet(cr')
        BY <4>1, AppendProperties DEF ToSet
      <4> QED
        BY <3>1, <4>2 DEF CtlCreate, consumerVars
    <3>2. CASE CtlUpdate(s, s)
      <4>1. cr' = cr /\ UNCHANGED <<pods, consumerVars>>
        BY <3>2 DEF CtlUpdate, TypeInv, TypeOK
      <4>2. removals' = removals
        BY <1>1, <3>2 DEF CtlUpdate
      <4> QED
        BY <4>1, <4>2 DEF consumerVars
    <3> QED
      BY <1>10, <3>1, <3>2
  <2> QED
    BY <1>0, <1>6, <2>1
<1>11. ASSUME \/ \E w \in Watchers : AddWatch(w) \/ Receive(w)
              \/ \E p \in Paths : WatchFails(p) \/ FileArrives(p)
              \/ CountJobs \/ DropEntry \/ CreatePodFails
              \/ \E i \in DOMAIN apiPods : ApiPodStarts(i) \/ ApiPodEnds(i)
              \/ \E s \in ApiSources : StartAPI(s) \/ StopAPI(s)
              \/ CtlTrigger \/ CtlTriggerFails \/ Start \/ Crash
              \/ UNCHANGED vars
       PROVE  StaleInv'
  <2>1. /\ UNCHANGED <<pods, removals>>
        /\ pc' # "create" \/ (UNCHANGED <<pc, chosen>> /\ cr' = cr)
    BY <1>11 DEF AddWatch, Receive, WatchFails, FileArrives, CountJobs, DropEntry, CreatePodFails,
                 ApiPodStarts, ApiPodEnds, StartAPI, StopAPI, CtlTrigger, CtlTriggerFails, Start,
                 Crash, vars, ctlVars, consumerVars
  <2>2. SamePods(pods, pods')
    BY <1>0, <2>1, Zenon
  <2> QED
    BY <1>6, <2>1, <2>2
<1> QED
  BY <1>4, <1>5, <1>7, <1>8, <1>9, <1>10, <1>11 DEF Next, Consume

\* createExtractPodForNewFile: a pod is made for a definition the resource no longer
\* has at most once for each removal of a definition, however many watchers it leaves.
THEOREM StaleBounded == Spec => []StalePodsBounded
<1>1. Init => TypeInv /\ StaleInv
  BY TypeInit, StaleInit
<1>2. TypeInv /\ StaleInv /\ [Next]_vars => (TypeInv /\ StaleInv)'
  BY TypeStep, StaleStep
<1>3. TypeInv /\ StaleInv => StalePodsBounded
  <2>1. TypeInv => Cardinality(StalePods) \in Nat /\ removals \in Nat /\ Leaking \in {0, 1}
    BY StalePodsFinite DEF TypeInv, TypeOK, Leaking
  <2> QED
    BY <2>1 DEF StaleInv, StalePodsBounded, StalePods
<1> QED
  BY <1>1, <1>2, <1>3, PTL DEF Spec

---------------------------------------------------------------------------
(* Watchers of a directory. *)

\* A start of the service and each operation on the list of sources start one
\* watcher of a directory; an operation that has not called the service yet owes it.
Serving == IF up THEN 1 ELSE 0
Triggering == IF ctl.at = "trigger" THEN 1 ELSE 0
WatchersBounded ==
    /\ Triggering <= ops
    /\ \A p \in Paths :
          starting[p] + Cardinality(WatchersOf(p)) <= Serving + ops - Triggering

LEMMA WatchersOfFinite ==
    ASSUME NEW p
    PROVE  /\ IsFiniteSet(WatchersOf(p)) /\ Cardinality(WatchersOf(p)) \in Int
           /\ Cardinality(WatchersOf(p)) \in Nat
           /\ IsFiniteSet(WatchersOf(p)')
           /\ Cardinality(WatchersOf(p)') \in Int /\ Cardinality(WatchersOf(p)') \in Nat
<1>1. IsFiniteSet(Watchers)
  BY FS_Interval, ConstantsAssumption DEF Watchers
<1>2. WatchersOf(p) \in SUBSET Watchers /\ WatchersOf(p)' \in SUBSET Watchers
  BY DEF WatchersOf
<1>3. IsFiniteSet(WatchersOf(p)) /\ IsFiniteSet(WatchersOf(p)')
  BY <1>1, <1>2, FS_Subset
<1> QED
  BY <1>3, FS_CardinalityType

\* The kinds of step that change the two sides of WatchersBounded: n watchers
\* starting, card watching, s, o and t the terms of the bound.
SumMove(n, card, s, o, t, n1, card1, s1, o1, t1) ==
    \/ n1 <= n /\ card1 <= card /\ s1 = s /\ o1 = o /\ t1 <= t
    \/ n1 <= n /\ card1 <= card /\ s1 = s /\ o1 = o + 1 /\ t1 = 1 /\ t = 0
    \/ n1 = n - 1 /\ card1 <= card + 1 /\ s1 = s /\ o1 = o /\ t1 = t
    \/ n1 <= n + 1 /\ card1 = card /\ s1 = s /\ o1 = o /\ t1 = 0 /\ t = 1
    \/ n1 <= n + 1 /\ card1 = card /\ s1 = 1 /\ s = 0 /\ o1 = o /\ t1 = t
    \/ n1 = 0 /\ card1 = 0 /\ s1 = 0 /\ o1 = o /\ t1 = t

LEMMA SumMoves ==
    ASSUME NEW n \in Int, NEW card \in Int, NEW s \in Int, NEW o \in Int, NEW t \in Int,
           n + card <= s + o - t, t <= o,
           NEW n1 \in Int, NEW card1 \in Int, NEW s1 \in Int, NEW o1 \in Int, NEW t1 \in Int,
           SumMove(n, card, s, o, t, n1, card1, s1, o1, t1)
    PROVE  n1 + card1 <= s1 + o1 - t1
  BY DEF SumMove

LEMMA CreateRaises ==
    ASSUME CreateExtractSources, starting \in [Paths -> Nat], NEW p \in Paths
    PROVE  starting'[p] \in Int /\ starting'[p] <= starting[p] + 1
<1>1. PICK usable \in SUBSET FilePaths :
          starting' = [q \in Paths |-> starting[q] + (IF q \in usable THEN 1 ELSE 0)]
  BY DEF CreateExtractSources
<1> QED
  BY <1>1

LEMMA WatchersInit == Init => WatchersBounded
<1> SUFFICES ASSUME Init
             PROVE  WatchersBounded
  OBVIOUS
<1>1. Serving = 0 /\ Triggering = 0 /\ ops = 0
  BY DEF Init, Serving, Triggering, CtlIdle
<1>2. ASSUME NEW p \in Paths
      PROVE  starting[p] = 0 /\ WatchersOf(p) = {}
  BY <1>2, ConstantsAssumption DEF Init, WatchersOf
<1> QED
  BY <1>1, <1>2, FS_EmptySet DEF WatchersBounded

\* Each step, seen from one directory.
WatcherMove(p) ==
    \/ /\ starting'[p] <= starting[p]
       /\ WatchersOf(p)' \subseteq WatchersOf(p)
       /\ up' = up
       /\ \/ ops' = ops /\ (ctl'.at = "trigger" => ctl.at = "trigger")
          \/ ops' = ops + 1 /\ ctl.at # "trigger" /\ ctl'.at = "trigger"
    \/ /\ starting'[p] = starting[p] - 1
       /\ \E w \in Watchers : WatchersOf(p)' \subseteq WatchersOf(p) \cup {w}
       /\ UNCHANGED <<up, ops, ctl>>
    \/ /\ starting'[p] <= starting[p] + 1
       /\ UNCHANGED <<ops, WatchersOf(p)>>
       /\ \/ up' = up /\ ctl.at = "trigger" /\ ctl'.at # "trigger"
          \/ ~up /\ up' /\ ctl' = ctl
    \/ starting'[p] = 0 /\ WatchersOf(p)' = {} /\ ~up' /\ ops' = ops /\ ctl' = ctl

LEMMA WatcherMoves ==
    ASSUME TypeInv, TypeInv', [Next]_vars, NEW p \in Paths
    PROVE  WatcherMove(p)
<1>0. /\ starting \in [Paths -> Nat]
      /\ watching \in [Watchers -> Paths \cup {NoPath}]
      /\ ctl \in [at : {"idle", "trigger", "purge"}, src : Sources \cup {NoSource}]
      /\ p # NoPath
      /\ starting[p] \in Nat
  BY ConstantsAssumption DEF TypeInv, TypeOK
<1>1. ASSUME UNCHANGED <<starting, watching, up, ops, ctl>>
      PROVE  WatcherMove(p)
  BY <1>0, <1>1 DEF WatcherMove, WatchersOf
<1>2. ASSUME NEW w \in Watchers, AddWatch(w)
      PROVE  WatcherMove(p)
  <2>1. PICK q \in Paths : /\ starting' = [starting EXCEPT ![q] = @ - 1]
                           /\ watching' = [watching EXCEPT ![w] = q]
    BY <1>2 DEF AddWatch
  <2>2. UNCHANGED <<up, ops, ctl>> /\ watching[w] = NoPath
    BY <1>2 DEF AddWatch, ctlVars
  <2>3. CASE p = q
    BY <1>0, <2>1, <2>2, <2>3 DEF WatcherMove, WatchersOf
  <2>4. CASE p # q
    BY <1>0, <2>1, <2>2, <2>4 DEF WatcherMove, WatchersOf
  <2> QED
    BY <2>3, <2>4
<1>3. ASSUME NEW q \in Paths, WatchFails(q)
      PROVE  WatcherMove(p)
  BY <1>0, <1>3 DEF WatchFails, WatcherMove, WatchersOf, ctlVars
<1>4. ASSUME NEW q \in Paths, Deliver(q), UNCHANGED <<starting, up, ops, ctl>>
      PROVE  WatcherMove(p)
  <2>1. WatchersOf(p)' \subseteq WatchersOf(p)
    BY <1>0, <1>4 DEF Deliver, WatchersOf
  <2> QED
    BY <1>0, <1>4, <2>1 DEF WatcherMove
<1>5. ASSUME NEW q \in Paths, FileArrives(q)
      PROVE  WatcherMove(p)
  BY <1>4, <1>5 DEF FileArrives, ctlVars
<1>6. ASSUME NEW i \in DOMAIN pods, PodRenames(i)
      PROVE  WatcherMove(p)
  <2>1. pods[i] \in QueuePods
    BY DEF TypeInv, TypeOK
  <2>2. pods[i].path \in Paths
    BY <2>1 DEF QueuePods
  <2> QED
    BY <1>4, <1>6, <2>2 DEF PodRenames, ctlVars
<1>7. ASSUME NEW s \in Sources, CtlCreate(s) \/ CtlDelete(s) \/ \E t \in Sources : CtlUpdate(s, t)
      PROVE  WatcherMove(p)
  BY <1>0, <1>7 DEF CtlCreate, CtlDelete, CtlUpdate, WatcherMove, WatchersOf, watchVars
<1>8. ASSUME CtlTrigger
      PROVE  WatcherMove(p)
  <2>1. starting'[p] <= starting[p] + 1
    BY <1>0, <1>8, CreateRaises DEF CtlTrigger
  <2>2. ctl.at = "trigger" /\ ctl'.at # "trigger"
    BY <1>0, <1>8 DEF CtlTrigger, CtlIdle
  <2> QED
    BY <1>8, <2>1, <2>2 DEF CtlTrigger, WatcherMove, WatchersOf
<1>9. ASSUME CtlTriggerFails \/ CtlPurge
      PROVE  WatcherMove(p)
  BY <1>0, <1>9 DEF CtlTriggerFails, CtlPurge, CtlIdle, WatcherMove, WatchersOf, watchVars
<1>10. ASSUME Start
       PROVE  WatcherMove(p)
  <2>1. starting'[p] <= starting[p] + 1
    BY <1>0, <1>10, CreateRaises DEF Start
  <2> QED
    BY <1>10, <2>1 DEF Start, WatcherMove, WatchersOf, ctlVars
<1>11. ASSUME Crash
       PROVE  WatcherMove(p)
  BY <1>0, <1>11 DEF Crash, WatcherMove, WatchersOf, ctlVars
<1>12. ASSUME \/ \E w \in Watchers : Receive(w)
              \/ CountJobs \/ FetchSource \/ DropEntry \/ CreatePod \/ CreatePodFails
              \/ \E i \in DOMAIN pods : PodStarts(i) \/ PodEnds(i)
              \/ \E i \in DOMAIN apiPods : ApiPodStarts(i) \/ ApiPodEnds(i)
              \/ \E s \in ApiSources : StartAPI(s) \/ StopAPI(s)
              \/ Harvest
              \/ UNCHANGED vars
       PROVE  WatcherMove(p)
  <2>1. UNCHANGED <<starting, watching, up, ops, ctl>>
    BY <1>12 DEF Receive, CountJobs, FetchSource, DropEntry, CreatePod, CreatePodFails, PodStarts,
                 PodEnds, ApiPodStarts, ApiPodEnds, StartAPI, StopAPI, Harvest, vars, ctlVars,
                 watchVars
  <2> QED
    BY <1>1, <2>1
<1> QED
  BY <1>2, <1>3, <1>5, <1>6, <1>7, <1>8, <1>9, <1>10, <1>11, <1>12 DEF Next, Consume

LEMMA OwedStep ==
    ASSUME TypeInv, Triggering <= ops, [Next]_vars
    PROVE  Triggering' <= ops' /\ ops' \in {ops, ops + 1}
<1>1. ops \in Nat /\ (ctl.at = "trigger" => 1 <= ops)
  BY ConstantsAssumption DEF TypeInv, TypeOK, Triggering
<1>2. /\ ops' \in {ops, ops + 1}
      /\ ops' \in Nat
      /\ ctl'.at = "trigger" => 1 <= ops'
  <2>1. CASE ops' = ops /\ (ctl'.at = "trigger" => ctl.at = "trigger")
    BY <1>1, <2>1
  <2>2. CASE ops' = ops + 1
    BY <1>1, <2>2
  <2>3. ASSUME NEW s \in Sources, CtlCreate(s) \/ CtlDelete(s) \/ \E t \in Sources : CtlUpdate(s, t)
        PROVE  ops' = ops + 1
    BY <2>3 DEF CtlCreate, CtlDelete, CtlUpdate
  <2>4. ASSUME CtlTrigger \/ CtlTriggerFails \/ CtlPurge
        PROVE  ops' = ops /\ ctl'.at # "trigger"
    BY <2>4 DEF CtlTrigger, CtlTriggerFails, CtlPurge, CtlIdle, TypeInv, TypeOK
  <2>5. ASSUME \/ \E w \in Watchers : AddWatch(w) \/ Receive(w)
               \/ \E p \in Paths : WatchFails(p) \/ FileArrives(p)
               \/ CountJobs \/ FetchSource \/ DropEntry \/ CreatePod \/ CreatePodFails
               \/ \E i \in DOMAIN pods : PodStarts(i) \/ PodEnds(i) \/ PodRenames(i)
               \/ \E i \in DOMAIN apiPods : ApiPodStarts(i) \/ ApiPodEnds(i)
               \/ \E s \in ApiSources : StartAPI(s) \/ StopAPI(s)
               \/ Harvest \/ Start \/ Crash
               \/ UNCHANGED vars
        PROVE  UNCHANGED <<ops, ctl>>
    BY <2>5 DEF AddWatch, Receive, WatchFails, FileArrives, CountJobs, FetchSource, DropEntry,
                CreatePod, CreatePodFails, PodStarts, PodEnds, PodRenames, ApiPodStarts, ApiPodEnds,
                StartAPI, StopAPI, Harvest, Start, Crash, vars, ctlVars
  <2> QED
    BY <2>1, <2>2, <2>3, <2>4, <2>5 DEF Next, Consume
<1> QED
  BY <1>2 DEF Triggering

LEMMA WatchersStep == TypeInv /\ WatchersBounded /\ [Next]_vars => WatchersBounded'
<1> SUFFICES ASSUME TypeInv, WatchersBounded, [Next]_vars
             PROVE  WatchersBounded'
  OBVIOUS
<1>1. TypeInv'
  BY TypeStep
<1>2. /\ ops \in Int /\ ops' \in Int
      /\ Serving \in Int /\ Serving' \in Int
      /\ Triggering \in Int /\ Triggering' \in Int
  BY <1>1, ConstantsAssumption DEF TypeInv, TypeOK, Serving, Triggering
<1>3. Triggering <= ops
  BY DEF WatchersBounded
<1>4. ASSUME NEW p \in Paths
      PROVE  starting'[p] + Cardinality(WatchersOf(p)') <= Serving' + ops' - Triggering'
  <2> DEFINE n == starting[p]
             n1 == starting'[p]
             card == Cardinality(WatchersOf(p))
             card1 == Cardinality(WatchersOf(p)')
             moved == SumMove(n, card, Serving, ops, Triggering, n1, card1, Serving', ops', Triggering')
  <2>1. n \in Int /\ n1 \in Int
    BY <1>1 DEF TypeInv, TypeOK
  <2>2. card \in Int /\ card1 \in Int /\ IsFiniteSet(WatchersOf(p))
    BY WatchersOfFinite
  <2>3. n + card <= Serving + ops - Triggering
    BY DEF WatchersBounded
  <2>4. WatcherMove(p)
    BY <1>1, WatcherMoves
  <2>5. ASSUME WatchersOf(p)' \subseteq WatchersOf(p)
        PROVE  card1 <= card
    BY <2>2, <2>5, FS_Subset
  <2>6. ASSUME NEW w \in Watchers, WatchersOf(p)' \subseteq WatchersOf(p) \cup {w}
        PROVE  card1 <= card + 1
    <3>1. /\ IsFiniteSet(WatchersOf(p) \cup {w})
          /\ Cardinality(WatchersOf(p) \cup {w}) \in {card, card + 1}
      BY <2>2, FS_AddElement
    <3>2. card1 <= Cardinality(WatchersOf(p) \cup {w})
      BY <2>6, <3>1, FS_Subset
    <3> QED
      BY <2>2, <3>1, <3>2
  <2>7. ASSUME /\ n1 <= n
               /\ WatchersOf(p)' \subseteq WatchersOf(p)
               /\ up' = up
               /\ \/ ops' = ops /\ (ctl'.at = "trigger" => ctl.at = "trigger")
                  \/ ops' = ops + 1 /\ ctl.at # "trigger" /\ ctl'.at = "trigger"
        PROVE  moved
    <3>1. Serving' = Serving /\ card1 <= card /\ n1 <= n
      BY <2>5, <2>7 DEF Serving
    <3>2. \/ ops' = ops /\ Triggering' <= Triggering
          \/ ops' = ops + 1 /\ Triggering' = 1 /\ Triggering = 0
      BY <2>7 DEF Triggering
    <3> HIDE DEF n, n1, card, card1
    <3> QED
      BY <3>1, <3>2 DEF SumMove
  <2>8. ASSUME /\ n1 = n - 1
               /\ \E w \in Watchers : WatchersOf(p)' \subseteq WatchersOf(p) \cup {w}
               /\ UNCHANGED <<up, ops, ctl>>
        PROVE  moved
    <3>1. Serving' = Serving /\ ops' = ops /\ Triggering' = Triggering
      BY <2>8 DEF Serving, Triggering
    <3>2. card1 <= card + 1
      BY <2>6, <2>8
    <3> HIDE DEF n, n1, card, card1
    <3> QED
      BY <2>8, <3>1, <3>2 DEF SumMove
  <2>9. ASSUME /\ n1 <= n + 1
               /\ UNCHANGED <<ops, WatchersOf(p)>>
               /\ \/ up' = up /\ ctl.at = "trigger" /\ ctl'.at # "trigger"
                  \/ ~up /\ up' /\ ctl' = ctl
        PROVE  moved
    <3>1. card1 = card /\ n1 <= n + 1 /\ ops' = ops
      BY <2>9
    <3>2. \/ Serving' = Serving /\ Triggering = 1 /\ Triggering' = 0
          \/ Serving = 0 /\ Serving' = 1 /\ Triggering' = Triggering
      BY <2>9 DEF Serving, Triggering
    <3> HIDE DEF n, n1, card, card1
    <3> QED
      BY <3>1, <3>2 DEF SumMove
  <2>10. ASSUME n1 = 0, WatchersOf(p)' = {}, ~up', ops' = ops, ctl' = ctl
         PROVE  moved
    <3>1. card1 = 0 /\ Serving' = 0 /\ Triggering' = Triggering
      BY <2>10, FS_EmptySet DEF Serving, Triggering
    <3> HIDE DEF n, n1, card, card1
    <3> QED
      BY <2>10, <3>1 DEF SumMove
  <2>11. moved
    BY <2>4, <2>7, <2>8, <2>9, <2>10 DEF WatcherMove
  <2> HIDE DEF n, n1, card, card1
  <2>12. n1 + card1 <= Serving' + ops' - Triggering'
    BY <1>2, <1>3, <2>1, <2>2, <2>3, <2>11, SumMoves
  <2> QED
    BY <2>12 DEF n1, card1
<1>5. Triggering' <= ops'
  BY <1>3, OwedStep
<1> QED
  BY <1>4, <1>5 DEF WatchersBounded

---------------------------------------------------------------------------
(* Pods of one event. *)

\* The watchers whose event id is still on its way, or has a pod.
Holders(id) ==
    {w \in Watchers : \/ InBacklog(w, id)
                      \/ \E i \in DOMAIN pods : pods[i].from = w /\ pods[i].id = id}
HoldersBounded == \A id \in EventIds : Cardinality(Holders(id)) <= 1 + ops

LEMMA HoldersInit == Init => HoldersBounded
<1> SUFFICES ASSUME Init, NEW id \in EventIds
             PROVE  Cardinality(Holders(id)) <= 1 + ops
  BY DEF HoldersBounded
<1>1. \A w \in Watchers : backlog[w] = <<>>
  BY DEF Init
<1>2. pods = <<>> /\ held = NoEntry /\ ops = 0
  BY DEF Init
<1>3. Holders(id) = {}
  BY <1>1, <1>2 DEF Holders, InBacklog
<1> QED
  BY <1>2, <1>3, FS_EmptySet

LEMMA DeliverHolders ==
    ASSUME TypeInv, OrderInv, NEW p \in Paths, Deliver(p), held' = held, SamePods(pods, pods'),
           NEW id \in EventIds
    PROVE  \/ Holders(id)' \subseteq Holders(id)
           \/ Holders(id)' \subseteq WatchersOf(p)
<1>1. events \in Nat /\ events' = events + 1
  BY DeliverAppends, ConstantsAssumption DEF TypeInv, TypeOK
<1>2. CASE id = events'
  <2>1. id \notin 0..events
    BY <1>1, <1>2
  <2>2. \A w \in Watchers : \A k \in DOMAIN backlog[w] : backlog[w][k] # id
    <3>1. \A w \in Watchers : \A k \in DOMAIN backlog[w] : backlog[w][k] \in EventIds
      BY DEF TypeInv, TypeOK
    <3> QED
      BY <1>1, <2>1, <3>1 DEF OrderInv, BacklogSeen, EventIds
  <2>3. held # NoEntry => held.id # id
    BY <1>1, <2>1, HeldType DEF OrderInv, HeldBeforeBacklog, EventIds
  <2>4. \A i \in DOMAIN pods : pods[i].id # id
    <3>1. \A i \in DOMAIN pods : pods[i] \in QueuePods
      BY DEF TypeInv, TypeOK
    <3>2. \A i \in DOMAIN pods : pods[i].id \in EventIds
      BY <3>1 DEF QueuePods
    <3> QED
      BY <1>1, <2>1, <3>2 DEF OrderInv, PodsBeforeBacklog, EventIds
  <2>5. ASSUME NEW w \in Holders(id)'
        PROVE  w \in WatchersOf(p)
    <3>1. PICK k \in DOMAIN backlog'[w] : backlog'[w][k] = id
      BY <2>3, <2>4 DEF Holders, InBacklog, SamePods
    <3>2. w \in Watchers /\ backlog'[w] # backlog[w]
      BY <2>2, <3>1 DEF Holders
    <3> QED
      BY <3>2 DEF Deliver, WatchersOf
  <2> QED
    BY <2>5
<1>3. CASE id # events'
  <2>1. ASSUME NEW w \in Watchers, NEW k \in DOMAIN backlog'[w], backlog'[w][k] = id
        PROVE  k \in DOMAIN backlog[w] /\ backlog[w][k] = id
    BY <1>3, <2>1, DeliverAppends
  <2>2. Holders(id)' \subseteq Holders(id)
    BY <2>1 DEF Holders, InBacklog, SamePods
  <2> QED
    BY <2>2
<1> QED
  BY <1>2, <1>3

LEMMA QuietHolders ==
    ASSUME UNCHANGED backlog \/ \A w \in Watchers : backlog'[w] = <<>>,
           held' \in {held, NoEntry}, SamePods(pods, pods'), NEW id
    PROVE  Holders(id)' \subseteq Holders(id)
  BY DEF Holders, InBacklog, SamePods

LEMMA ReceiveHolders ==
    ASSUME TypeInv, NEW w \in Watchers, Receive(w), NEW id
    PROVE  Holders(id)' \subseteq Holders(id)
<1>1. /\ backlog \in [Watchers -> Seq(EventIds)]
      /\ backlog[w] \in Seq(EventIds)
      /\ backlog[w] # <<>>
      /\ backlog' = [backlog EXCEPT ![w] = Tail(backlog[w])]
      /\ UNCHANGED pods
  BY DEF Receive, TypeInv, TypeOK
<1>2. held'.from = w /\ held'.id = backlog[w][1] /\ 1 \in DOMAIN backlog[w]
  BY <1>1 DEF Receive
<1>3. \A v \in Watchers : v # w => backlog'[v] = backlog[v]
  BY <1>1
<1>4. \A k \in DOMAIN backlog'[w] : k + 1 \in DOMAIN backlog[w] /\ backlog'[w][k] = backlog[w][k + 1]
  BY <1>1
<1> SUFFICES ASSUME NEW v \in Holders(id)'
             PROVE  v \in Holders(id)
  OBVIOUS
<1>5. v \in Watchers
  BY DEF Holders
<1>6. ASSUME NEW k \in DOMAIN backlog'[v], backlog'[v][k] = id
      PROVE  \E l \in DOMAIN backlog[v] : backlog[v][l] = id
  <2>1. CASE v = w
    BY <1>4, <1>6, <2>1
  <2>2. CASE v # w
    BY <1>3, <1>5, <1>6, <2>2
  <2> QED
    BY <2>1, <2>2
<1>7. ASSUME held'.from = v, held'.id = id
      PROVE  \E l \in DOMAIN backlog[v] : backlog[v][l] = id
  BY <1>2, <1>7
<1> QED
  BY <1>1, <1>5, <1>6, <1>7 DEF Holders, InBacklog

LEMMA CreatePodHolders ==
    ASSUME TypeInv, CreatePod, NEW id
    PROVE  Holders(id)' \subseteq Holders(id)
<1>1. /\ held # NoEntry
      /\ held' = NoEntry
      /\ UNCHANGED backlog
      /\ pods \in Seq(QueuePods)
  BY DEF CreatePod, TypeInv, TypeOK, EntryHeld, watchVars
<1>2. /\ DOMAIN pods' = 1..(Len(pods) + 1)
      /\ DOMAIN pods = 1..Len(pods)
      /\ Len(pods) \in Nat
      /\ \A i \in DOMAIN pods : pods'[i] = pods[i]
      /\ pods'[Len(pods) + 1].from = held.from
      /\ pods'[Len(pods) + 1].id = held.id
  BY <1>1 DEF CreatePod
<1>3. ASSUME NEW i \in DOMAIN pods'
      PROVE  i \in DOMAIN pods \/ i = Len(pods) + 1
  BY <1>2
<1> QED
  BY <1>1, <1>2, <1>3 DEF Holders, InBacklog

LEMMA HoldersMove ==
    ASSUME TypeInv, OrderInv, [Next]_vars, NEW id \in EventIds
    PROVE  \/ Holders(id)' \subseteq Holders(id)
           \/ \E p \in Paths : Holders(id)' \subseteq WatchersOf(p)
<1>0. pods \in Seq(QueuePods) /\ SamePods(pods, pods)
  BY DEF TypeInv, TypeOK, SamePods
<1>1. ASSUME NEW p \in Paths, FileArrives(p)
      PROVE  \/ Holders(id)' \subseteq Holders(id)
             \/ Holders(id)' \subseteq WatchersOf(p)
  BY <1>0, <1>1, DeliverHolders DEF FileArrives, consumerVars
<1>2. ASSUME NEW i \in DOMAIN pods, PodRenames(i)
      PROVE  \/ Holders(id)' \subseteq Holders(id)
             \/ \E p \in Paths : Holders(id)' \subseteq WatchersOf(p)
  <2>1. SamePods(pods, pods')
    BY <1>0, <1>2, PhaseOfQueuePod DEF PodRenames, Phases
  <2>2. pods[i] \in QueuePods
    BY <1>0
  <2>3. pods[i].path \in Paths /\ Deliver(pods[i].path)
    BY <1>2, <2>2 DEF PodRenames, QueuePods
  <2>4. held' = held
    BY <1>2 DEF PodRenames, consumerVars
  <2> QED
    BY <2>1, <2>3, <2>4, DeliverHolders
<1>3. ASSUME NEW w \in Watchers, Receive(w)
      PROVE  Holders(id)' \subseteq Holders(id)
  BY <1>3, ReceiveHolders
<1>4. ASSUME CreatePod
      PROVE  Holders(id)' \subseteq Holders(id)
  BY <1>4, CreatePodHolders
<1>5. ASSUME NEW i \in DOMAIN pods, PodStarts(i) \/ PodEnds(i)
      PROVE  Holders(id)' \subseteq Holders(id)
  <2>1. SamePods(pods, pods')
    BY <1>0, <1>5, PhaseOfQueuePod DEF PodStarts, PodEnds, Phases
  <2>2. UNCHANGED <<backlog, held>>
    BY <1>5 DEF PodStarts, PodEnds, watchVars, consumerVars
  <2> QED
    BY <2>1, <2>2, QuietHolders
<1>6. ASSUME Harvest \/ CtlPurge
      PROVE  Holders(id)' \subseteq Holders(id)
  <2>1. SamePods(pods, pods')
    BY <1>0, <1>6, DeleteQueuePods DEF Harvest, CtlPurge
  <2>2. UNCHANGED <<backlog, held>>
    BY <1>6 DEF Harvest, CtlPurge, watchVars, consumerVars
  <2> QED
    BY <2>1, <2>2, QuietHolders
<1>7. ASSUME Crash
      PROVE  Holders(id)' \subseteq Holders(id)
  <2>1. held' = NoEntry /\ pods' = pods /\ \A w \in Watchers : backlog'[w] = <<>>
    BY <1>7 DEF Crash
  <2>2. SamePods(pods, pods')
    BY <1>0, <2>1, Zenon
  <2> QED
    BY <2>1, <2>2, QuietHolders
<1>8. ASSUME \/ \E w \in Watchers : AddWatch(w)
             \/ \E p \in Paths : WatchFails(p)
             \/ CountJobs \/ FetchSource \/ DropEntry \/ CreatePodFails
             \/ \E i \in DOMAIN apiPods : ApiPodStarts(i) \/ ApiPodEnds(i)
             \/ \E s \in ApiSources : StartAPI(s) \/ StopAPI(s)
             \/ \E s \in Sources : CtlCreate(s) \/ CtlDelete(s)
             \/ \E s, t \in Sources : CtlUpdate(s, t)
             \/ CtlTrigger \/ CtlTriggerFails \/ Start
             \/ UNCHANGED vars
      PROVE  Holders(id)' \subseteq Holders(id)
  <2>1. UNCHANGED <<backlog, pods>> /\ held' \in {held, NoEntry}
    BY <1>8 DEF AddWatch, WatchFails, CountJobs, FetchSource, DropEntry, CreatePodFails,
                ApiPodStarts, ApiPodEnds, StartAPI, StopAPI, CtlCreate, CtlDelete, CtlUpdate,
                CtlTrigger, CtlTriggerFails, Start, vars, watchVars, consumerVars
  <2>2. SamePods(pods, pods')
    BY <1>0, <2>1, Zenon
  <2> QED
    BY <2>1, <2>2, QuietHolders
<1> QED
  BY <1>1, <1>2, <1>3, <1>4, <1>5, <1>6, <1>7, <1>8 DEF Next, Consume

LEMMA HoldersFinite ==
    ASSUME NEW id
    PROVE  IsFiniteSet(Holders(id)) /\ Cardinality(Holders(id)) \in Nat
<1>1. IsFiniteSet(Watchers)
  BY FS_Interval, ConstantsAssumption DEF Watchers
<1>2. Holders(id) \in SUBSET Watchers
  BY DEF Holders
<1> QED
  BY <1>1, <1>2, FS_Subset, FS_CardinalityType

LEMMA WatchersAtMost ==
    ASSUME TypeInv, WatchersBounded, NEW p \in Paths
    PROVE  Cardinality(WatchersOf(p)) <= 1 + ops
<1>1. starting[p] \in Nat /\ ops \in Nat /\ Serving \in {0, 1} /\ Triggering \in {0, 1}
  BY ConstantsAssumption DEF TypeInv, TypeOK, Serving, Triggering
<1>2. Cardinality(WatchersOf(p)) \in Nat
  BY WatchersOfFinite
<1> QED
  BY <1>1, <1>2 DEF WatchersBounded

LEMMA HoldersStep ==
    TypeInv /\ OrderInv /\ WatchersBounded /\ HoldersBounded /\ [Next]_vars => HoldersBounded'
<1> SUFFICES ASSUME TypeInv, OrderInv, WatchersBounded, HoldersBounded, [Next]_vars,
                    NEW id \in EventIds
             PROVE  Cardinality(Holders(id)') <= 1 + ops'
  BY DEF HoldersBounded
<1> DEFINE card1 == Cardinality(Holders(id)')
<1>1. IsFiniteSet(Holders(id)) /\ Cardinality(Holders(id)) \in Nat
  BY HoldersFinite
<1>2. Cardinality(Holders(id)) <= 1 + ops
  BY DEF HoldersBounded
<1>3. ops \in Nat /\ ops' \in {ops, ops + 1}
  BY OwedStep, ConstantsAssumption DEF TypeInv, TypeOK, WatchersBounded
<1>4. card1 \in Nat /\ card1 <= 1 + ops
  <2>1. CASE Holders(id)' \subseteq Holders(id)
    <3>1. IsFiniteSet(Holders(id)') /\ card1 <= Cardinality(Holders(id))
      BY <1>1, <2>1, FS_Subset
    <3>2. card1 \in Nat
      BY <3>1, FS_CardinalityType
    <3> HIDE DEF card1
    <3> QED
      BY <1>1, <1>2, <1>3, <3>1, <3>2
  <2>2. ASSUME NEW p \in Paths, Holders(id)' \subseteq WatchersOf(p)
        PROVE  card1 \in Nat /\ card1 <= 1 + ops
    <3>1. IsFiniteSet(WatchersOf(p)) /\ Cardinality(WatchersOf(p)) \in Nat
      BY WatchersOfFinite
    <3>2. IsFiniteSet(Holders(id)') /\ card1 <= Cardinality(WatchersOf(p))
      BY <2>2, <3>1, FS_Subset
    <3>3. card1 \in Nat
      BY <3>2, FS_CardinalityType
    <3>4. Cardinality(WatchersOf(p)) <= 1 + ops
      BY WatchersAtMost
    <3> HIDE DEF card1
    <3> QED
      BY <1>3, <3>1, <3>2, <3>3, <3>4
  <2> QED
    BY <2>1, <2>2, HoldersMove
<1> HIDE DEF card1
<1>5. card1 <= 1 + ops'
  <2>1. CASE ops' = ops
    BY <1>4, <2>1
  <2>2. CASE ops' = ops + 1
    BY <1>3, <1>4, <2>2
  <2> QED
    BY <1>3, <2>1, <2>2
<1> QED
  BY <1>5 DEF card1

\* Two pods of one event are of different watchers.
LEMMA PodsOfEvent ==
    ASSUME TypeInv, OrderInv, HoldersBounded, NEW id \in EventIds
    PROVE  Cardinality({i \in DOMAIN pods : pods[i].id = id}) <= 1 + ops
<1> DEFINE made == {i \in DOMAIN pods : pods[i].id = id}
           maker == [i \in made |-> pods[i].from]
<1>1. \A i \in DOMAIN pods : pods[i] \in QueuePods /\ i \in Nat
  BY DEF TypeInv, TypeOK
<1>2. \A i \in made : pods[i].from \in Holders(id)
  BY <1>1 DEF Holders, QueuePods
<1>3. \A i, j \in made : pods[i].from = pods[j].from => i = j
  <2> SUFFICES ASSUME NEW i \in made, NEW j \in made, pods[i].from = pods[j].from, i # j
               PROVE  FALSE
    OBVIOUS
  <2>1. i < j \/ j < i
    BY <1>1
  <2>2. id < id
    BY <2>1 DEF OrderInv, PodsInWatcherOrder
  <2> QED
    BY <2>2 DEF EventIds
<1>4. maker \in Injection(made, Holders(id))
  BY <1>2, <1>3 DEF Injection, IsInjective
<1>5. IsFiniteSet(Holders(id)) /\ Cardinality(Holders(id)) \in Nat
  BY HoldersFinite
<1> HIDE DEF made, maker
<1>6. IsFiniteSet(made) /\ Cardinality(made) <= Cardinality(Holders(id))
  BY <1>4, <1>5, FS_Injection
<1>7. Cardinality(made) \in Nat /\ ops \in Nat
  BY <1>6, FS_CardinalityType, ConstantsAssumption DEF TypeInv, TypeOK
<1>8. Cardinality(made) <= 1 + ops
  BY <1>5, <1>6, <1>7 DEF HoldersBounded
<1> QED
  BY <1>8 DEF made

\* createExtractSources: however often the watchers of all sources are started again,
\* by operations on the list or after crashes, a file event has at most one pod more
\* than there were operations; restarts of the service add none.
THEOREM DuplicatesAtMost == Spec => []DuplicatesBounded
<1> DEFINE Inv == TypeInv /\ OrderInv /\ WatchersBounded /\ HoldersBounded
<1>1. Init => Inv
  BY TypeInit, OrderInit, WatchersInit, HoldersInit
<1>2. Inv /\ [Next]_vars => Inv'
  BY TypeStep, OrderStep, WatchersStep, HoldersStep
<1>3. Inv => DuplicatesBounded
  BY PodsOfEvent DEF DuplicatesBounded
<1> HIDE DEF Inv
<1> QED
  BY <1>1, <1>2, <1>3, PTL DEF Spec

============================================================================
