--------------------- MODULE ExtractSourceServerProofs ---------------------
(***************************************************************************)
(* Proofs about the churro-extractsource service, for any number of        *)
(* directories, sources, watchers, events, operations and crashes.         *)
(***************************************************************************)
EXTENDS ExtractSourceServer, SequenceTheorems, TLAPS

---------------------------------------------------------------------------
(* Changing the phase of pods changes nothing else about them. *)

SamePods(s, t) ==
    /\ DOMAIN t = DOMAIN s
    /\ \A i \in DOMAIN s : /\ t[i].from = s[i].from
                           /\ t[i].id = s[i].id
                           /\ t[i].path = s[i].path
                           /\ t[i].src = s[i].src
                           /\ t[i].stale = s[i].stale

LEMMA PhaseOfQueuePod ==
    ASSUME NEW s \in Seq(QueuePods), NEW i \in DOMAIN s, NEW ph \in Phases
    PROVE  /\ [s EXCEPT ![i].phase = ph] \in Seq(QueuePods)
           /\ SamePods(s, [s EXCEPT ![i].phase = ph])
<1>1. s[i] \in QueuePods
  OBVIOUS
<1>2. [s[i] EXCEPT !.phase = ph] \in QueuePods
  BY <1>1 DEF QueuePods
<1>3. [s EXCEPT ![i].phase = ph] = [s EXCEPT ![i] = [s[i] EXCEPT !.phase = ph]]
  OBVIOUS
<1>4. [s EXCEPT ![i].phase = ph] \in Seq(QueuePods)
  BY <1>2, <1>3
<1>5. SamePods(s, [s EXCEPT ![i].phase = ph])
  BY <1>1, <1>3 DEF SamePods, QueuePods
<1> QED
  BY <1>4, <1>5

LEMMA PhaseOfApiPod ==
    ASSUME NEW s \in Seq(ApiPods), NEW i \in DOMAIN s, NEW ph \in Phases
    PROVE  [s EXCEPT ![i].phase = ph] \in Seq(ApiPods)
<1>1. s[i] \in ApiPods
  OBVIOUS
<1>2. [s[i] EXCEPT !.phase = ph] \in ApiPods
  BY <1>1 DEF ApiPods
<1> QED
  BY <1>2

LEMMA DeleteQueuePods ==
    ASSUME NEW s \in Seq(QueuePods), NEW D
    PROVE  Delete(s, D) \in Seq(QueuePods) /\ SamePods(s, Delete(s, D))
<1>1. \A i \in DOMAIN s : s[i] \in QueuePods
  OBVIOUS
<1>2. \A i \in DOMAIN s : Delete(s, D)[i] \in QueuePods
  BY <1>1 DEF Delete, QueuePods, Phases
<1>3. Delete(s, D) \in Seq(QueuePods)
  BY <1>2 DEF Delete
<1>4. SamePods(s, Delete(s, D))
  BY <1>1 DEF Delete, SamePods, QueuePods
<1> QED
  BY <1>3, <1>4

LEMMA DeleteApiPods ==
    ASSUME NEW s \in Seq(ApiPods), NEW D
    PROVE  Delete(s, D) \in Seq(ApiPods)
<1>1. \A i \in DOMAIN s : s[i] \in ApiPods
  OBVIOUS
<1>2. \A i \in DOMAIN s : Delete(s, D)[i] \in ApiPods
  BY <1>1 DEF Delete, ApiPods, Phases
<1> QED
  BY <1>2 DEF Delete

---------------------------------------------------------------------------
(* Type correctness. *)

LEMMA CreateExtractSourcesType ==
    ASSUME CreateExtractSources, starting \in [Paths -> Nat]
    PROVE  starting' \in [Paths -> Nat]
<1>1. PICK usable \in SUBSET FilePaths :
          starting' = [p \in Paths |-> starting[p] + (IF p \in usable THEN 1 ELSE 0)]
  BY DEF CreateExtractSources
<1>2. \A p \in Paths : starting[p] + (IF p \in usable THEN 1 ELSE 0) \in Nat
  OBVIOUS
<1> QED
  BY <1>1, <1>2

LEMMA DeliverType ==
    ASSUME TypeInv, NEW p \in Paths, Deliver(p)
    PROVE  /\ events' \in 0..MaxEvents
           /\ watching' \in [Watchers -> Paths \cup {NoPath}]
           /\ backlog' \in [Watchers -> Seq(EventIds)]
           /\ BacklogWatched'
<1> USE ConstantsAssumption
<1>1. events' \in 0..MaxEvents /\ events' \in EventIds
  BY DEF TypeInv, TypeOK, Deliver, EventIds
<1>2. CASE RegexOf[p] = "invalid"
  <2>1. /\ backlog' = backlog
        /\ watching' = [w \in Watchers |-> IF watching[w] = p THEN NoPath ELSE watching[w]]
    BY <1>2 DEF Deliver
  <2>2. watching' \in [Watchers -> Paths \cup {NoPath}]
    BY <2>1 DEF TypeInv, TypeOK
  <2>3. BacklogWatched'
    BY <1>2, <2>1 DEF TypeInv, BacklogWatched
  <2> QED
    BY <1>1, <2>1, <2>2, <2>3 DEF TypeInv, TypeOK
<1>3. CASE RegexOf[p] # "invalid"
  <2>1. PICK reached \in SUBSET WatchersOf(p) :
            /\ watching' = watching
            /\ backlog' = [w \in Watchers |-> IF w \in reached
                                             THEN Append(backlog[w], events')
                                             ELSE backlog[w]]
    BY <1>3 DEF Deliver
  <2>2. backlog' \in [Watchers -> Seq(EventIds)]
    BY <1>1, <2>1 DEF TypeInv, TypeOK
  <2>3. BacklogWatched'
    BY <1>3, <2>1 DEF TypeInv, BacklogWatched, WatchersOf
  <2> QED
    BY <1>1, <2>1, <2>2, <2>3 DEF TypeInv, TypeOK
<1> QED
  BY <1>2, <1>3

\* A list of sources without one of its elements.
LEMMA ListWithout ==
    ASSUME NEW list \in Seq(Sources), NEW i \in DOMAIN list
    PROVE  RemoveAt(list, i) \in Seq(Sources)
<1>1. i \in 1..Len(list) /\ Len(list) \in Nat
  OBVIOUS
<1>2. SubSeq(list, 1, i - 1) \in Seq(Sources)
  BY <1>1, SubSeqProperties
<1>3. SubSeq(list, i + 1, Len(list)) \in Seq(Sources)
  BY <1>1, SubSeqProperties
<1> QED
  BY <1>2, <1>3 DEF RemoveAt

\* And with another element in its place.
LEMMA ListWith ==
    ASSUME NEW list \in Seq(Sources), NEW i \in DOMAIN list, NEW t \in Sources
    PROVE  [list EXCEPT ![i] = t] \in Seq(Sources)
<1>1. i \in 1..Len(list)
  OBVIOUS
<1> QED
  BY <1>1, ExceptSeq

LEMMA TypeInit == Init => TypeInv
<1> SUFFICES ASSUME Init
             PROVE  TypeInv
  OBVIOUS
<1> USE ConstantsAssumption
<1>1. cr \in Seq(Sources)
  <2>1. PICK m \in 0..Cardinality(Sources) : cr \in [1..m -> Sources]
    BY DEF Init
  <2>2. m \in Nat
    BY <2>1
  <2> QED
    BY <2>1, <2>2
<1>2. pods \in Seq(QueuePods) /\ apiPods \in Seq(ApiPods)
  BY DEF Init
<1>3. /\ backlog \in [Watchers -> Seq(EventIds)]
      /\ watching \in [Watchers -> Paths \cup {NoPath}]
      /\ starting \in [Paths -> Nat]
  BY DEF Init
<1>4. TypeOK
  <2>1. ctl \in [at : {"idle", "trigger", "purge"}, src : Sources \cup {NoSource}]
    BY DEF Init, CtlIdle
  <2>2. /\ ops \in 0..MaxOps
        /\ crashes \in 0..MaxCrashes
        /\ events \in 0..MaxEvents
    BY DEF Init
  <2>3. /\ removals \in Nat
        /\ up \in BOOLEAN
        /\ pc \in {"receive", "count", "requeue", "fetch", "create"}
        /\ held \in Entries \cup {NoEntry}
        /\ chosen \in FileSources \cup {NoSource}
    BY DEF Init
  <2> QED
    BY <1>1, <1>2, <1>3, <2>1, <2>2, <2>3 DEF TypeOK
<1>5. EntryHeld /\ BacklogWatched
  BY DEF Init, EntryHeld, BacklogWatched
<1> QED
  BY <1>4, <1>5 DEF TypeInv

LEMMA TypeStep == TypeInv /\ [Next]_vars => TypeInv'
<1> SUFFICES ASSUME TypeInv, [Next]_vars
             PROVE  TypeInv'
  OBVIOUS
<1> USE ConstantsAssumption, NoEntryAssumption
<1> USE DEF TypeInv
<1>1. ASSUME NEW w \in Watchers, AddWatch(w)
      PROVE  TypeInv'
  <2>1. PICK p \in Paths : /\ starting[p] > 0
                           /\ starting' = [starting EXCEPT ![p] = @ - 1]
                           /\ watching' = [watching EXCEPT ![w] = p]
    BY <1>1 DEF AddWatch
  <2>2. TypeOK'
    BY <1>1, <2>1 DEF AddWatch, TypeOK, ctlVars, consumerVars
  <2>3. EntryHeld' /\ BacklogWatched'
    BY <1>1, <2>1 DEF AddWatch, TypeOK, EntryHeld, BacklogWatched, consumerVars
  <2> QED
    BY <2>2, <2>3
<1>2. ASSUME NEW p \in Paths, WatchFails(p)
      PROVE  TypeInv'
  BY <1>2 DEF WatchFails, TypeOK, EntryHeld, BacklogWatched, ctlVars, consumerVars
<1>3. ASSUME NEW p \in Paths, FileArrives(p)
      PROVE  TypeInv'
  <2>1. Deliver(p)
    BY <1>3 DEF FileArrives
  <2>2. TypeOK'
    BY <1>3, <2>1, DeliverType DEF FileArrives, TypeOK, ctlVars, consumerVars
  <2>3. EntryHeld' /\ BacklogWatched'
    BY <1>3, <2>1, DeliverType DEF FileArrives, EntryHeld, consumerVars
  <2> QED
    BY <2>2, <2>3
<1>4. ASSUME NEW w \in Watchers, Receive(w)
      PROVE  TypeInv'
  <2>1. backlog[w] \in Seq(EventIds) /\ backlog[w] # <<>>
    BY <1>4 DEF Receive, TypeOK
  <2>2. Head(backlog[w]) \in EventIds /\ Tail(backlog[w]) \in Seq(EventIds)
    BY <2>1
  <2>3. held' \in Entries
    BY <1>4, <2>1, <2>2 DEF Receive, Entries, BacklogWatched
  <2>4. TypeOK'
    BY <1>4, <2>2, <2>3 DEF Receive, TypeOK, ctlVars
  <2>5. EntryHeld' /\ BacklogWatched'
    BY <1>4, <2>1, <2>3 DEF Receive, TypeOK, EntryHeld, BacklogWatched
  <2> QED
    BY <2>4, <2>5
<1>5. ASSUME CountJobs
      PROVE  TypeInv'
  BY <1>5 DEF CountJobs, TypeOK, EntryHeld, BacklogWatched, ctlVars, watchVars
<1>6. ASSUME FetchSource
      PROVE  TypeInv'
  <2>1. chosen' \in FileSources
    <3>1. PICK c \in FileSources : \E i \in TableMatches(c) : chosen' = cr[i]
      BY <1>6 DEF FetchSource
    <3>2. chosen' \in Sources /\ SchemeOf[chosen'] = SchemeOf[c]
      BY <3>1 DEF TableMatches, TypeOK
    <3> QED
      BY <3>1, <3>2 DEF Sources
  <2> QED
    BY <1>6, <2>1 DEF FetchSource, TypeOK, EntryHeld, BacklogWatched, ctlVars, watchVars
<1>7. ASSUME DropEntry
      PROVE  TypeInv'
  BY <1>7 DEF DropEntry, TypeOK, EntryHeld, BacklogWatched, ctlVars, watchVars
<1>8. ASSUME CreatePod
      PROVE  TypeInv'
  <2>1. held \in Entries /\ chosen \in FileSources
    BY <1>8 DEF CreatePod, TypeOK, EntryHeld
  <2>2. [from |-> held.from, id |-> held.id, path |-> held.path, src |-> chosen,
         phase |-> "Pending", stale |-> chosen \notin ToSet(cr)] \in QueuePods
    BY <2>1 DEF Entries, QueuePods, Phases
  <2>3. pods' \in Seq(QueuePods)
    BY <1>8, <2>2 DEF CreatePod, TypeOK
  <2> QED
    BY <1>8, <2>3 DEF CreatePod, TypeOK, EntryHeld, BacklogWatched, ctlVars, watchVars
<1>9. ASSUME CreatePodFails
      PROVE  TypeInv'
  BY <1>9 DEF CreatePodFails, TypeOK, EntryHeld, BacklogWatched, ctlVars, watchVars
<1>10. ASSUME NEW i \in DOMAIN pods, PodStarts(i)
       PROVE  TypeInv'
  <2>1. pods' \in Seq(QueuePods)
    BY <1>10, PhaseOfQueuePod DEF PodStarts, TypeOK, Phases
  <2> QED
    BY <1>10, <2>1 DEF PodStarts, TypeOK, EntryHeld, BacklogWatched, ctlVars, watchVars,
                       consumerVars
<1>11. ASSUME NEW i \in DOMAIN pods, PodEnds(i)
       PROVE  TypeInv'
  <2>1. pods' \in Seq(QueuePods)
    BY <1>11, PhaseOfQueuePod DEF PodEnds, TypeOK, Phases
  <2> QED
    BY <1>11, <2>1 DEF PodEnds, TypeOK, EntryHeld, BacklogWatched, ctlVars, watchVars,
                       consumerVars
<1>12. ASSUME NEW i \in DOMAIN pods, PodRenames(i)
       PROVE  TypeInv'
  <2>1. pods' \in Seq(QueuePods)
    BY <1>12, PhaseOfQueuePod DEF PodRenames, TypeOK, Phases
  <2>2. pods[i].path \in Paths /\ Deliver(pods[i].path)
    <3>1. pods[i] \in QueuePods
      BY DEF TypeOK
    <3> QED
      BY <1>12, <3>1 DEF PodRenames, QueuePods
  <2>3. TypeOK'
    BY <1>12, <2>1, <2>2, DeliverType DEF PodRenames, TypeOK, ctlVars, consumerVars
  <2>4. EntryHeld' /\ BacklogWatched'
    BY <1>12, <2>2, DeliverType DEF PodRenames, EntryHeld, consumerVars
  <2> QED
    BY <2>3, <2>4
<1>13. ASSUME NEW i \in DOMAIN apiPods, ApiPodStarts(i)
       PROVE  TypeInv'
  <2>1. apiPods' \in Seq(ApiPods)
    BY <1>13, PhaseOfApiPod DEF ApiPodStarts, TypeOK, Phases
  <2> QED
    BY <1>13, <2>1 DEF ApiPodStarts, TypeOK, EntryHeld, BacklogWatched, ctlVars, watchVars,
                       consumerVars
<1>14. ASSUME NEW i \in DOMAIN apiPods, ApiPodEnds(i)
       PROVE  TypeInv'
  <2>1. apiPods' \in Seq(ApiPods)
    BY <1>14, PhaseOfApiPod DEF ApiPodEnds, TypeOK, Phases
  <2> QED
    BY <1>14, <2>1 DEF ApiPodEnds, TypeOK, EntryHeld, BacklogWatched, ctlVars, watchVars,
                       consumerVars
<1>15. ASSUME NEW s \in ApiSources, StartAPI(s)
       PROVE  TypeInv'
  <2>1. [src |-> s, phase |-> "Pending"] \in ApiPods
    BY DEF ApiPods, Phases
  <2>2. apiPods' \in Seq(ApiPods)
    BY <1>15, <2>1 DEF StartAPI, TypeOK
  <2> QED
    BY <1>15, <2>2 DEF StartAPI, TypeOK, EntryHeld, BacklogWatched, ctlVars, watchVars,
                       consumerVars
<1>16. ASSUME NEW s \in ApiSources, StopAPI(s)
       PROVE  TypeInv'
  <2>1. apiPods' \in Seq(ApiPods)
    BY <1>16, DeleteApiPods DEF StopAPI, TypeOK
  <2> QED
    BY <1>16, <2>1 DEF StopAPI, TypeOK, EntryHeld, BacklogWatched, ctlVars, watchVars,
                       consumerVars
<1>17. ASSUME Harvest
       PROVE  TypeInv'
  <2>1. pods' \in Seq(QueuePods) /\ apiPods' \in Seq(ApiPods)
    BY <1>17, DeleteQueuePods, DeleteApiPods DEF Harvest, TypeOK
  <2> QED
    BY <1>17, <2>1 DEF Harvest, TypeOK, EntryHeld, BacklogWatched, ctlVars, watchVars,
                       consumerVars
<1>18. ASSUME NEW s \in Sources, CtlCreate(s)
       PROVE  TypeInv'
  BY <1>18 DEF CtlCreate, TypeOK, EntryHeld, BacklogWatched, watchVars, consumerVars
<1>19. ASSUME NEW s \in Sources, CtlDelete(s)
       PROVE  TypeInv'
  <2>1. cr' \in Seq(Sources)
    BY <1>19, ListWithout DEF CtlDelete, TypeOK
  <2> QED
    BY <1>19, <2>1 DEF CtlDelete, TypeOK, EntryHeld, BacklogWatched, watchVars, consumerVars
<1>20. ASSUME CtlTrigger
       PROVE  TypeInv'
  <2>1. starting' \in [Paths -> Nat]
    BY <1>20, CreateExtractSourcesType DEF CtlTrigger, TypeOK
  <2>2. ctl' \in [at : {"idle", "trigger", "purge"}, src : Sources \cup {NoSource}]
    BY <1>20 DEF CtlTrigger, TypeOK, CtlIdle
  <2> QED
    BY <1>20, <2>1, <2>2 DEF CtlTrigger, TypeOK, EntryHeld, BacklogWatched, consumerVars
<1>21. ASSUME CtlTriggerFails
       PROVE  TypeInv'
  BY <1>21 DEF CtlTriggerFails, CtlIdle, TypeOK, EntryHeld, BacklogWatched, watchVars,
               consumerVars
<1>22. ASSUME CtlPurge
       PROVE  TypeInv'
  <2>1. pods' \in Seq(QueuePods) /\ apiPods' \in Seq(ApiPods)
    BY <1>22, DeleteQueuePods, DeleteApiPods DEF CtlPurge, TypeOK
  <2> QED
    BY <1>22, <2>1 DEF CtlPurge, CtlIdle, TypeOK, EntryHeld, BacklogWatched, watchVars,
                       consumerVars
<1>23. ASSUME Start
       PROVE  TypeInv'
  <2>1. starting' \in [Paths -> Nat]
    BY <1>23, CreateExtractSourcesType DEF Start, TypeOK
  <2> QED
    BY <1>23, <2>1 DEF Start, TypeOK, EntryHeld, BacklogWatched, ctlVars, consumerVars
<1>24. ASSUME Crash
       PROVE  TypeInv'
  <2>1. /\ backlog' \in [Watchers -> Seq(EventIds)]
        /\ watching' \in [Watchers -> Paths \cup {NoPath}]
        /\ starting' \in [Paths -> Nat]
    BY <1>24 DEF Crash
  <2>2. crashes' \in 0..MaxCrashes
    BY <1>24 DEF Crash, TypeOK
  <2>3. TypeOK'
    BY <1>24, <2>1, <2>2 DEF Crash, TypeOK, ctlVars
  <2>4. EntryHeld' /\ BacklogWatched'
    BY <1>24 DEF Crash, EntryHeld, BacklogWatched
  <2> QED
    BY <2>3, <2>4
<1>25. ASSUME UNCHANGED vars
       PROVE  TypeInv'
  BY <1>25 DEF vars, TypeOK, EntryHeld, BacklogWatched, ctlVars, watchVars, consumerVars
<1>26. ASSUME NEW s \in Sources, NEW t \in Sources, CtlUpdate(s, t)
       PROVE  TypeInv'
  <2>1. PICK i \in DOMAIN cr : cr' = [cr EXCEPT ![i] = t]
    BY <1>26 DEF CtlUpdate
  <2>2. cr' \in Seq(Sources)
    BY <2>1, ListWith DEF TypeOK
  <2>3. ops < MaxOps /\ ops' = ops + 1 /\ removals' \in {removals, removals + 1}
    BY <1>26 DEF CtlUpdate, TypeOK
  <2>4. ops' \in 0..MaxOps /\ removals' \in Nat
    BY <2>3 DEF TypeOK
  <2>5. ctl' \in [at : {"idle", "trigger", "purge"}, src : Sources \cup {NoSource}]
    BY <1>26 DEF CtlUpdate
  <2>6. UNCHANGED <<up, crashes, watchVars, consumerVars, pods, apiPods>>
    BY <1>26 DEF CtlUpdate
  <2> QED
    BY <2>2, <2>4, <2>5, <2>6
       DEF TypeOK, EntryHeld, BacklogWatched, watchVars, consumerVars
<1> QED
  BY <1>1, <1>2, <1>3, <1>4, <1>5, <1>6, <1>7, <1>8, <1>9, <1>10, <1>11, <1>12, <1>13, <1>14,
     <1>15, <1>16, <1>17, <1>18, <1>19, <1>20, <1>21, <1>22, <1>23, <1>24, <1>25, <1>26
     DEF Next, Consume

\* The variables keep the types and the ranges that TypeOK gives them; the
\* consumer never works on an entry it does not hold.
THEOREM TypeCorrect == Spec => []TypeOK
<1>1. Spec => []TypeInv
  BY TypeInit, TypeStep, PTL DEF Spec
<1>2. TypeInv => TypeOK
  BY DEF TypeInv
<1> QED
  BY <1>1, <1>2, PTL

---------------------------------------------------------------------------
(* The order of pods. *)

\* An event is appended to some backlogs and changes no entry of them.
LEMMA DeliverAppends ==
    ASSUME TypeInv, NEW p \in Paths, Deliver(p)
    PROVE  /\ events' = events + 1
           /\ \A w \in Watchers :
                 /\ DOMAIN backlog[w] \subseteq DOMAIN backlog'[w]
                 /\ \A k \in DOMAIN backlog[w] : backlog'[w][k] = backlog[w][k]
                 /\ \A k \in DOMAIN backlog'[w] \ DOMAIN backlog[w] :
                       k = Len(backlog[w]) + 1 /\ backlog'[w][k] = events'
<1>1. events' = events + 1
  BY DEF Deliver
<1>2. backlog \in [Watchers -> Seq(EventIds)]
  BY DEF TypeInv, TypeOK
<1>3. CASE backlog' = backlog
  BY <1>1, <1>3
<1>4. ASSUME NEW reached \in SUBSET WatchersOf(p),
             backlog' = [w \in Watchers |-> IF w \in reached
                                            THEN Append(backlog[w], events')
                                            ELSE backlog[w]],
             NEW w \in Watchers
      PROVE  /\ DOMAIN backlog[w] \subseteq DOMAIN backlog'[w]
             /\ \A k \in DOMAIN backlog[w] : backlog'[w][k] = backlog[w][k]
             /\ \A k \in DOMAIN backlog'[w] \ DOMAIN backlog[w] :
                   k = Len(backlog[w]) + 1 /\ backlog'[w][k] = events'
  <2>1. backlog[w] \in Seq(EventIds)
    BY <1>2
  <2>2. CASE w \in reached
    BY <1>4, <2>1, <2>2
  <2>3. CASE w \notin reached
    BY <1>4, <2>1, <2>3
  <2> QED
    BY <2>2, <2>3
<1> QED
  BY <1>1, <1>3, <1>4 DEF Deliver

LEMMA DeliverKeepsOrder ==
    ASSUME TypeInv, OrderInv, NEW p \in Paths, Deliver(p), held' = held, SamePods(pods, pods')
    PROVE  OrderInv'
<1> USE DEF OrderInv
<1>1. /\ events \in Nat
      /\ events' = events + 1
      /\ backlog \in [Watchers -> Seq(EventIds)]
      /\ \A w \in Watchers : backlog[w] \in Seq(EventIds)
  BY DeliverAppends, ConstantsAssumption DEF TypeInv, TypeOK
<1>2. \A w \in Watchers : \A k \in DOMAIN backlog[w] :
          k \in 1..Len(backlog[w]) /\ backlog[w][k] \in Nat /\ backlog[w][k] < events'
  <2> SUFFICES ASSUME NEW w \in Watchers, NEW k \in DOMAIN backlog[w]
               PROVE  k \in 1..Len(backlog[w]) /\ backlog[w][k] \in Nat /\ backlog[w][k] < events'
    OBVIOUS
  <2>1. backlog[w] \in Seq(EventIds)
    BY <1>1
  <2>2. k \in 1..Len(backlog[w]) /\ backlog[w][k] \in EventIds
    BY <2>1
  <2>3. backlog[w][k] \in Nat
    BY <2>2 DEF EventIds
  <2>4. backlog[w][k] <= events
    BY DEF BacklogSeen
  <2> QED
    BY <1>1, <2>2, <2>3, <2>4
<1>3. BacklogInOrder'
  <2> SUFFICES ASSUME NEW w \in Watchers,
                      NEW k \in DOMAIN backlog'[w], NEW l \in DOMAIN backlog'[w], k < l
               PROVE  backlog'[w][k] < backlog'[w][l]
    BY DEF BacklogInOrder
  <2>1. backlog[w] \in Seq(EventIds) /\ DOMAIN backlog[w] = 1..Len(backlog[w])
    BY <1>1
  <2>2. CASE l \in DOMAIN backlog[w] /\ k \in DOMAIN backlog[w]
    BY <2>2, DeliverAppends DEF BacklogInOrder
  <2>3. CASE l \notin DOMAIN backlog[w] /\ k \in DOMAIN backlog[w]
    BY <1>2, <2>3, DeliverAppends
  <2>4. CASE k \notin DOMAIN backlog[w]
    <3>1. k = Len(backlog[w]) + 1
      BY <2>4, DeliverAppends
    <3>2. l \in DOMAIN backlog[w] \/ l = Len(backlog[w]) + 1
      BY DeliverAppends
    <3> QED
      BY <2>1, <3>1, <3>2
  <2> QED
    BY <2>2, <2>3, <2>4
<1>4. BacklogSeen'
  BY <1>1, <1>2, DeliverAppends DEF BacklogSeen
<1>5. held # NoEntry => held.from \in Watchers /\ held.id \in Nat
  BY DEF TypeInv, TypeOK, Entries, EventIds
<1>6. HeldBeforeBacklog'
  BY <1>1, <1>5, DeliverAppends DEF HeldBeforeBacklog
<1>7. \A i \in DOMAIN pods : pods[i].from \in Watchers /\ pods[i].id \in Nat
  <2>1. \A i \in DOMAIN pods : pods[i] \in QueuePods
    BY DEF TypeInv, TypeOK
  <2> QED
    BY <2>1 DEF QueuePods, EventIds
<1>8. PodsBeforeHeld' /\ PodsInWatcherOrder'
  BY DEF PodsBeforeHeld, PodsInWatcherOrder, SamePods
<1>9. PodsBeforeBacklog'
  <2> SUFFICES ASSUME NEW i \in DOMAIN pods
               PROVE  /\ pods[i].id <= events'
                      /\ \A k \in DOMAIN backlog'[pods[i].from] :
                             pods[i].id < backlog'[pods[i].from][k]
    BY DEF PodsBeforeBacklog, SamePods
  <2>1. pods[i].from \in Watchers /\ pods[i].id \in Nat /\ pods[i].id <= events
    BY <1>7 DEF PodsBeforeBacklog
  <2>2. ASSUME NEW k \in DOMAIN backlog'[pods[i].from]
        PROVE  pods[i].id < backlog'[pods[i].from][k]
    <3>1. CASE k \in DOMAIN backlog[pods[i].from]
      BY <2>1, <3>1, DeliverAppends DEF PodsBeforeBacklog
    <3>2. CASE k \notin DOMAIN backlog[pods[i].from]
      BY <1>1, <2>1, <2>2, <3>2, DeliverAppends
    <3> QED
      BY <3>1, <3>2
  <2> QED
    BY <1>1, <2>1, <2>2
<1> QED
  BY <1>3, <1>4, <1>6, <1>8, <1>9

\* Steps that deliver and start nothing; they may forget the entry held.
LEMMA QuietStepKeepsOrder ==
    ASSUME OrderInv, UNCHANGED <<backlog, events>>, held' \in {held, NoEntry},
           SamePods(pods, pods')
    PROVE  OrderInv'
  BY DEF OrderInv, BacklogInOrder, BacklogSeen, HeldBeforeBacklog, PodsBeforeHeld,
         PodsBeforeBacklog, PodsInWatcherOrder, SamePods

LEMMA ReceiveKeepsOrder ==
    ASSUME TypeInv, OrderInv, NEW w \in Watchers, Receive(w)
    PROVE  OrderInv'
<1> USE DEF OrderInv
<1>1. /\ backlog \in [Watchers -> Seq(EventIds)]
      /\ backlog[w] \in Seq(EventIds)
      /\ backlog[w] # <<>>
      /\ backlog' = [backlog EXCEPT ![w] = Tail(backlog[w])]
      /\ UNCHANGED <<events, pods>>
  BY DEF Receive, TypeInv, TypeOK
<1>2. held' # NoEntry /\ held'.from = w /\ held'.id = backlog[w][1] /\ 1 \in DOMAIN backlog[w]
  BY <1>1, NoEntryAssumption DEF Receive, TypeInv, BacklogWatched, Entries
<1>3. \A v \in Watchers : v # w => backlog'[v] = backlog[v]
  BY <1>1
<1>4. /\ backlog'[w] = Tail(backlog[w])
      /\ \A k \in DOMAIN backlog'[w] : /\ k \in Nat
                                       /\ 1 < k + 1
                                       /\ k + 1 \in DOMAIN backlog[w]
                                       /\ backlog'[w][k] = backlog[w][k + 1]
  BY <1>1
<1>5. BacklogInOrder'
  <2>1. \A k, l \in DOMAIN backlog'[w] : k < l => backlog'[w][k] < backlog'[w][l]
    BY <1>4 DEF BacklogInOrder
  <2> QED
    BY <1>3, <2>1 DEF BacklogInOrder
<1>6. BacklogSeen'
  BY <1>1, <1>3, <1>4 DEF BacklogSeen
<1>7. HeldBeforeBacklog'
  BY <1>1, <1>2, <1>4 DEF HeldBeforeBacklog, BacklogInOrder, BacklogSeen
<1>8. PodsBeforeHeld'
  BY <1>1, <1>2 DEF PodsBeforeHeld, PodsBeforeBacklog
<1>9. PodsBeforeBacklog'
  <2>1. \A i \in DOMAIN pods : pods[i].from \in Watchers
    <3>1. \A i \in DOMAIN pods : pods[i] \in QueuePods
      BY DEF TypeInv, TypeOK
    <3> QED
      BY <3>1 DEF QueuePods
  <2> QED
    BY <1>1, <1>3, <1>4, <2>1 DEF PodsBeforeBacklog
<1>10. PodsInWatcherOrder'
  BY <1>1 DEF PodsInWatcherOrder
<1> QED
  BY <1>5, <1>6, <1>7, <1>8, <1>9, <1>10

LEMMA CreatePodKeepsOrder ==
    ASSUME TypeInv, OrderInv, CreatePod
    PROVE  OrderInv'
<1> USE DEF OrderInv
<1>1. /\ held # NoEntry
      /\ held' = NoEntry
      /\ UNCHANGED <<backlog, events>>
      /\ pods \in Seq(QueuePods)
  BY DEF CreatePod, TypeInv, TypeOK, EntryHeld, watchVars
<1>2. /\ DOMAIN pods' = 1..(Len(pods) + 1)
      /\ DOMAIN pods = 1..Len(pods)
      /\ \A i \in DOMAIN pods : pods'[i] = pods[i]
      /\ pods'[Len(pods) + 1].from = held.from
      /\ pods'[Len(pods) + 1].id = held.id
  BY <1>1 DEF CreatePod
<1>3. BacklogInOrder' /\ BacklogSeen' /\ HeldBeforeBacklog' /\ PodsBeforeHeld'
  BY <1>1 DEF BacklogInOrder, BacklogSeen, HeldBeforeBacklog, PodsBeforeHeld
<1>4. PodsBeforeBacklog'
  <2> SUFFICES ASSUME NEW i \in DOMAIN pods'
               PROVE  /\ pods'[i].id <= events
                      /\ \A k \in DOMAIN backlog[pods'[i].from] :
                             pods'[i].id < backlog[pods'[i].from][k]
    BY <1>1 DEF PodsBeforeBacklog
  <2>1. CASE i \in DOMAIN pods
    BY <1>2, <2>1 DEF PodsBeforeBacklog
  <2>2. CASE i = Len(pods) + 1
    BY <1>1, <1>2, <2>2 DEF HeldBeforeBacklog
  <2> QED
    BY <1>1, <1>2, <2>1, <2>2
<1>5. PodsInWatcherOrder'
  BY <1>1, <1>2 DEF PodsInWatcherOrder, PodsBeforeHeld
<1> QED
  BY <1>3, <1>4, <1>5

LEMMA OrderInit == Init => OrderInv
  BY DEF Init, OrderInv, BacklogInOrder, BacklogSeen, HeldBeforeBacklog, PodsBeforeHeld,
         PodsBeforeBacklog, PodsInWatcherOrder

LEMMA OrderStep == TypeInv /\ OrderInv /\ [Next]_vars => OrderInv'
<1> SUFFICES ASSUME TypeInv, OrderInv, [Next]_vars
             PROVE  OrderInv'
  OBVIOUS
<1>0. pods \in Seq(QueuePods) /\ SamePods(pods, pods)
  BY DEF TypeInv, TypeOK, SamePods
<1>1. ASSUME NEW p \in Paths, FileArrives(p)
      PROVE  OrderInv'
  BY <1>0, <1>1, DeliverKeepsOrder DEF FileArrives, consumerVars
<1>2. ASSUME NEW w \in Watchers, Receive(w)
      PROVE  OrderInv'
  BY <1>2, ReceiveKeepsOrder
<1>3. ASSUME CreatePod
      PROVE  OrderInv'
  BY <1>3, CreatePodKeepsOrder
<1>4. ASSUME NEW i \in DOMAIN pods, PodStarts(i) \/ PodEnds(i)
      PROVE  OrderInv'
  <2>1. SamePods(pods, pods')
    BY <1>0, <1>4, PhaseOfQueuePod DEF PodStarts, PodEnds, Phases
  <2> QED
    BY <1>4, <2>1, QuietStepKeepsOrder DEF PodStarts, PodEnds, watchVars, consumerVars
<1>5. ASSUME NEW i \in DOMAIN pods, PodRenames(i)
      PROVE  OrderInv'
  <2>1. SamePods(pods, pods')
    BY <1>0, <1>5, PhaseOfQueuePod DEF PodRenames, Phases
  <2>2. pods[i] \in QueuePods
    BY <1>0
  <2>3. pods[i].path \in Paths /\ Deliver(pods[i].path)
    BY <1>5, <2>2 DEF PodRenames, QueuePods
  <2> QED
    BY <1>5, <2>1, <2>3, DeliverKeepsOrder DEF PodRenames, consumerVars
<1>6. ASSUME Harvest \/ CtlPurge
      PROVE  OrderInv'
  <2>1. SamePods(pods, pods')
    BY <1>0, <1>6, DeleteQueuePods DEF Harvest, CtlPurge
  <2> QED
    BY <1>6, <2>1, QuietStepKeepsOrder DEF Harvest, CtlPurge, watchVars, consumerVars
<1>7. ASSUME Crash
      PROVE  OrderInv'
  <2>1. /\ held' = NoEntry
        /\ UNCHANGED <<events, pods>>
        /\ \A w \in Watchers : backlog'[w] = <<>>
    BY <1>7 DEF Crash
  <2>2. \A i \in DOMAIN pods : pods[i] \in QueuePods
    BY <1>0
  <2>3. \A i \in DOMAIN pods : pods[i].from \in Watchers
    BY <2>2 DEF QueuePods
  <2> QED
    BY <2>1, <2>3 DEF OrderInv, BacklogInOrder, BacklogSeen, HeldBeforeBacklog, PodsBeforeHeld,
                      PodsBeforeBacklog, PodsInWatcherOrder
<1>8. ASSUME \/ \E w \in Watchers : AddWatch(w)
             \/ \E p \in Paths : WatchFails(p)
             \/ CountJobs \/ FetchSource \/ DropEntry \/ CreatePodFails
             \/ \E i \in DOMAIN apiPods : ApiPodStarts(i) \/ ApiPodEnds(i)
             \/ \E s \in ApiSources : StartAPI(s) \/ StopAPI(s)
             \/ \E s \in Sources : CtlCreate(s) \/ CtlDelete(s)
             \/ \E s, t \in Sources : CtlUpdate(s, t)
             \/ CtlTrigger \/ CtlTriggerFails \/ Start
             \/ UNCHANGED vars
      PROVE  OrderInv'
  <2>1. UNCHANGED <<backlog, events, pods>> /\ held' \in {held, NoEntry}
    BY <1>8 DEF AddWatch, WatchFails, CountJobs, FetchSource, DropEntry, CreatePodFails,
                ApiPodStarts, ApiPodEnds, StartAPI, StopAPI, CtlCreate, CtlDelete, CtlUpdate,
                CtlTrigger, CtlTriggerFails, Start, vars, watchVars, consumerVars
  <2> QED
    BY <1>0, <2>1, QuietStepKeepsOrder
<1> QED
  BY <1>1, <1>2, <1>3, <1>4, <1>5, <1>6, <1>7, <1>8 DEF Next, Consume

\* server.go, watchEventsFor and startQueueConsumer: the pods made for the events
\* of one inotify instance are in the order of the events, one at most for each.
THEOREM WatcherOrder == Spec => []PodsInWatcherOrder
<1>1. Init => TypeInv /\ OrderInv
  BY TypeInit, OrderInit
<1>2. TypeInv /\ OrderInv /\ [Next]_vars => (TypeInv /\ OrderInv)'
  BY TypeStep, OrderStep
<1>3. OrderInv => PodsInWatcherOrder
  BY DEF OrderInv
<1> QED
  BY <1>1, <1>2, <1>3, PTL DEF Spec

---------------------------------------------------------------------------
(* The source a pod is made for. *)

LEMMA SourceInit == Init => SourceInv
  BY DEF Init, SourceInv, PodFromItsSource

LEMMA SourceStep ==
    ASSUME PathsIndependent
    PROVE  TypeInv /\ SourceInv /\ [Next]_vars => SourceInv'
<1> SUFFICES ASSUME TypeInv, SourceInv, [Next]_vars
             PROVE  SourceInv'
  OBVIOUS
<1>0. pods \in Seq(QueuePods) /\ SamePods(pods, pods)
  BY DEF TypeInv, TypeOK, SamePods
<1>1. ASSUME SamePods(pods, pods'), pc' # "create" \/ UNCHANGED consumerVars
      PROVE  SourceInv'
  BY <1>1 DEF SourceInv, PodFromItsSource, SamePods, consumerVars
<1>2. ASSUME FetchSource
      PROVE  SourceInv'
  <2>1. PICK c \in FileSources :
            PathOf[c] = held.path /\ \E i \in TableMatches(c) : chosen' = cr[i]
    BY <1>2 DEF FetchSource
  <2>2. PathOf[c] \in Paths /\ PathOf[chosen'] \in Paths
    BY <2>1, ConstantsAssumption DEF TypeInv, TypeOK, TableMatches, Sources
  <2>3. PathOf[chosen'] = held.path
    BY <2>1, <2>2, PathsIndependent DEF PathsIndependent, TableMatches
  <2> QED
    BY <1>2, <2>3 DEF FetchSource, SourceInv, PodFromItsSource
<1>3. ASSUME CreatePod
      PROVE  SourceInv'
  <2>1. /\ DOMAIN pods' = 1..(Len(pods) + 1)
        /\ DOMAIN pods = 1..Len(pods)
        /\ \A i \in DOMAIN pods : pods'[i] = pods[i]
        /\ pods'[Len(pods) + 1].path = held.path
        /\ pods'[Len(pods) + 1].src = chosen
    BY <1>0, <1>3 DEF CreatePod
  <2> QED
    BY <1>0, <1>3, <2>1 DEF CreatePod, SourceInv, PodFromItsSource
<1>4. ASSUME NEW i \in DOMAIN pods, PodStarts(i) \/ PodEnds(i) \/ PodRenames(i)
      PROVE  SourceInv'
  <2>1. SamePods(pods, pods')
    BY <1>0, <1>4, PhaseOfQueuePod DEF PodStarts, PodEnds, PodRenames, Phases
  <2> QED
    BY <1>1, <1>4, <2>1 DEF PodStarts, PodEnds, PodRenames
<1>5. ASSUME Harvest \/ CtlPurge
      PROVE  SourceInv'
  <2>1. SamePods(pods, pods')
    BY <1>0, <1>5, DeleteQueuePods DEF Harvest, CtlPurge
  <2> QED
    BY <1>1, <1>5, <2>1 DEF Harvest, CtlPurge
<1>6. ASSUME \/ \E w \in Watchers : AddWatch(w) \/ Receive(w)
             \/ \E p \in Paths : WatchFails(p) \/ FileArrives(p)
             \/ CountJobs \/ DropEntry \/ CreatePodFails
             \/ \E i \in DOMAIN apiPods : ApiPodStarts(i) \/ ApiPodEnds(i)
             \/ \E s \in ApiSources : StartAPI(s) \/ StopAPI(s)
             \/ \E s \in Sources : CtlCreate(s) \/ CtlDelete(s)
             \/ \E s, t \in Sources : CtlUpdate(s, t)
             \/ CtlTrigger \/ CtlTriggerFails \/ Start \/ Crash
             \/ UNCHANGED vars
      PROVE  SourceInv'
  <2>1. pods' = pods /\ (pc' # "create" \/ UNCHANGED consumerVars)
    BY <1>6 DEF AddWatch, Receive, WatchFails, FileArrives, CountJobs, DropEntry, CreatePodFails,
                ApiPodStarts, ApiPodEnds, StartAPI, StopAPI, CtlCreate, CtlDelete, CtlUpdate,
                CtlTrigger, CtlTriggerFails, Start, Crash, vars
  <2> QED
    BY <1>0, <1>1, <2>1
<1> QED
  BY <1>2, <1>3, <1>4, <1>5, <1>6 DEF Next, Consume

\* createExtractPodForNewFile and getTable: where no directory contains another
\* one, a pod is made for the source of the directory its file is in.
THEOREM RightSource ==
    ASSUME PathsIndependent
    PROVE  Spec => []PodFromItsSource
<1>1. Init => TypeInv /\ SourceInv
  BY TypeInit, SourceInit
<1>2. TypeInv /\ SourceInv /\ [Next]_vars => (TypeInv /\ SourceInv)'
  BY TypeStep, SourceStep, PathsIndependent
<1>3. SourceInv => PodFromItsSource
  BY DEF SourceInv
<1> QED
  BY <1>1, <1>2, <1>3, PTL DEF Spec

---------------------------------------------------------------------------
(* The service implements FileIntake. *)

LEMMA PushCommutes ==
    ASSUME NEW S, NEW a \in S, NEW e \in S, NEW b \in Seq(S)
    PROVE  /\ <<a>> \o Append(b, e) = Append(<<a>> \o b, e)
           /\ <<>> \o Append(b, e) = Append(<<>> \o b, e)
  OBVIOUS

LEMMA HeadOfPushed ==
    ASSUME NEW S, NEW a \in S, NEW b \in Seq(S)
    PROVE  /\ <<a>> \o b # <<>>
           /\ Head(<<a>> \o b) = a
           /\ Tail(<<a>> \o b) = b
           /\ <<>> \o b = b
           /\ b # <<>> => <<Head(b)>> \o Tail(b) = b
  OBVIOUS

LEMMA HeldType ==
    ASSUME TypeInv, held # NoEntry
    PROVE  held.from \in Watchers /\ held.id \in EventIds
  BY DEF TypeInv, TypeOK, Entries

LEMMA BacklogType ==
    ASSUME TypeInv
    PROVE  \A w \in Watchers : backlog[w] \in Seq(EventIds)
  BY DEF TypeInv, TypeOK

LEMMA SameStarted ==
    ASSUME SamePods(pods, pods')
    PROVE  IntakeStarted' = IntakeStarted
  BY DEF SamePods, IntakeStarted

LEMMA DeliverArrives ==
    ASSUME TypeInv, NEW p \in Paths, Deliver(p), held' = held, SamePods(pods, pods')
    PROVE  Intake!Next
<1>1. events' = events + 1 /\ events' \in EventIds
  BY ConstantsAssumption DEF Deliver, TypeInv, TypeOK, EventIds
<1>2. PICK reached \in SUBSET Watchers :
          \A w \in Watchers : backlog'[w] = IF w \in reached
                                            THEN Append(backlog[w], events')
                                            ELSE backlog[w]
  <2>1. CASE RegexOf[p] = "invalid"
    <3>1. \A w \in Watchers : backlog'[w] = IF w \in {}
                                            THEN Append(backlog[w], events')
                                            ELSE backlog[w]
      BY <2>1 DEF Deliver
    <3> WITNESS {} \in SUBSET Watchers
    <3> QED
      BY <3>1
  <2>2. CASE RegexOf[p] # "invalid"
    BY <2>2 DEF Deliver, WatchersOf
  <2> QED
    BY <2>1, <2>2
<1>3. IntakeQueue' = [w \in Watchers |-> IF w \in reached
                                         THEN Append(IntakeQueue[w], events')
                                         ELSE IntakeQueue[w]]
  <2> SUFFICES ASSUME NEW w \in Watchers
               PROVE  IntakeQueue'[w] = IF w \in reached
                                        THEN Append(IntakeQueue[w], events')
                                        ELSE IntakeQueue[w]
    BY DEF IntakeQueue
  <2>1. backlog[w] \in Seq(EventIds)
    BY BacklogType
  <2>2. CASE held # NoEntry /\ held.from = w
    <3>1. /\ IntakeQueue[w] = <<held.id>> \o backlog[w]
          /\ IntakeQueue'[w] = <<held.id>> \o backlog'[w]
      BY <2>2 DEF IntakeQueue
    <3>2. held.id \in EventIds
      BY <2>2, HeldType
    <3>3. <<held.id>> \o Append(backlog[w], events') = Append(<<held.id>> \o backlog[w], events')
      BY <1>1, <2>1, <3>2, PushCommutes
    <3> QED
      BY <1>2, <3>1, <3>3
  <2>3. CASE ~(held # NoEntry /\ held.from = w)
    BY <1>1, <1>2, <2>1, <2>3, PushCommutes DEF IntakeQueue
  <2> QED
    BY <2>2, <2>3
<1>4. Intake!Arrive(reached)
  BY <1>1, <1>3, SameStarted DEF Intake!Arrive
<1> QED
  BY <1>4 DEF Intake!Next

\* The end of an entry: the consumer's is the oldest of its watcher's queue.
LEMMA EntryHandled ==
    ASSUME TypeInv, held # NoEntry, held' = NoEntry, UNCHANGED <<backlog, events>>,
           \/ pods' = pods
           \/ pods \in Seq(QueuePods) /\ \E r : /\ pods' = Append(pods, r)
                                                /\ r.from = held.from
                                                /\ r.id = held.id
    PROVE  Intake!Next
<1> DEFINE w == held.from
<1>1. w \in Watchers /\ held.id \in EventIds /\ backlog[w] \in Seq(EventIds)
  BY HeldType, BacklogType
<1>2. IntakeQueue[w] = <<held.id>> \o backlog[w] /\ IntakeQueue'[w] = <<>> \o backlog[w]
  BY <1>1 DEF IntakeQueue
<1>3. /\ IntakeQueue[w] # <<>>
      /\ Head(IntakeQueue[w]) = held.id
      /\ IntakeQueue'[w] = Tail(IntakeQueue[w])
  BY <1>1, <1>2, HeadOfPushed
<1>4. \A v \in Watchers : v # w => IntakeQueue'[v] = IntakeQueue[v]
  BY DEF IntakeQueue
<1>5. IntakeQueue' = [IntakeQueue EXCEPT ![w] = Tail(IntakeQueue[w])]
  <2>1. /\ DOMAIN IntakeQueue' = Watchers
        /\ DOMAIN IntakeQueue = Watchers
        /\ IntakeQueue = [v \in Watchers |-> IntakeQueue[v]]
        /\ IntakeQueue' = [v \in Watchers |-> IntakeQueue'[v]]
    BY DEF IntakeQueue
  <2> HIDE DEF w
  <2> QED
    BY <1>1, <1>3, <1>4, <2>1
<1>6. IntakeStarted' \in {IntakeStarted, Append(IntakeStarted, [from |-> w, id |-> Head(IntakeQueue[w])])}
  <2>1. CASE pods' = pods
    BY <2>1 DEF IntakeStarted
  <2>2. ASSUME NEW r, pods \in Seq(QueuePods), pods' = Append(pods, r),
               r.from = held.from, r.id = held.id
        PROVE  IntakeStarted' = Append(IntakeStarted, [from |-> w, id |-> held.id])
    <3>1. /\ DOMAIN pods' = 1..(Len(pods) + 1)
          /\ DOMAIN pods = 1..Len(pods)
          /\ Len(pods) \in Nat
          /\ \A i \in 1..Len(pods) : pods'[i] = pods[i]
          /\ pods'[Len(pods) + 1] = r
      BY <2>2
    <3>2. \A i \in 1..Len(pods) : pods[i] \in QueuePods
      BY <2>2
    <3>3. IntakeStarted \in Seq([from : Watchers, id : EventIds]) /\ Len(IntakeStarted) = Len(pods)
      BY <3>1, <3>2 DEF IntakeStarted, QueuePods
    <3>4. /\ DOMAIN IntakeStarted' = 1..(Len(pods) + 1)
          /\ \A i \in 1..Len(pods) : IntakeStarted'[i] = IntakeStarted[i]
          /\ IntakeStarted'[Len(pods) + 1] = [from |-> w, id |-> held.id]
      <4>1. \A i \in DOMAIN pods' : IntakeStarted'[i] = [from |-> pods'[i].from, id |-> pods'[i].id]
        BY DEF IntakeStarted
      <4>2. /\ DOMAIN IntakeStarted' = DOMAIN pods'
            /\ \A i \in DOMAIN pods : IntakeStarted[i] = [from |-> pods[i].from, id |-> pods[i].id]
        BY DEF IntakeStarted
      <4>3. Len(pods) + 1 \in DOMAIN pods'
        BY <3>1
      <4>4. IntakeStarted'[Len(pods) + 1] = [from |-> w, id |-> held.id]
        BY <2>2, <3>1, <4>1, <4>3
      <4>5. ASSUME NEW i \in 1..Len(pods)
            PROVE  IntakeStarted'[i] = IntakeStarted[i]
        <5>1. i \in DOMAIN pods /\ i \in DOMAIN pods' /\ pods'[i] = pods[i]
          BY <3>1
        <5> QED
          BY <4>1, <4>2, <5>1
      <4> QED
        BY <3>1, <4>2, <4>4, <4>5
    <3>5. IntakeStarted' = [i \in 1..(Len(pods) + 1) |-> IntakeStarted'[i]]
      BY <3>1 DEF IntakeStarted
    <3> HIDE DEF w
    <3> QED
      BY <3>1, <3>3, <3>4, <3>5
  <2> QED
    BY <1>3, <2>1, <2>2
<1>7. Intake!Handle(w)
  BY <1>3, <1>5, <1>6 DEF Intake!Handle
<1> QED
  BY <1>1, <1>7 DEF Intake!Next

LEMMA IntakeInit == Init => Intake!Init
<1> SUFFICES ASSUME Init
             PROVE  Intake!Init
  OBVIOUS
<1>1. IntakeQueue = [w \in Watchers |-> <<>>]
  BY DEF Init, IntakeQueue
<1>2. IntakeStarted = <<>>
  BY DEF Init, IntakeStarted
<1> QED
  BY <1>1, <1>2 DEF Init, Intake!Init

LEMMA IntakeStep == TypeInv /\ [Next]_vars => [Intake!Next]_(Intake!vars)
<1> SUFFICES ASSUME TypeInv, [Next]_vars
             PROVE  Intake!Next \/ UNCHANGED <<events, IntakeQueue, IntakeStarted>>
  BY DEF Intake!vars
<1>0. pods \in Seq(QueuePods) /\ SamePods(pods, pods)
  BY DEF TypeInv, TypeOK, SamePods
<1>1. ASSUME NEW p \in Paths, FileArrives(p)
      PROVE  Intake!Next
  BY <1>0, <1>1, DeliverArrives DEF FileArrives, consumerVars
<1>2. ASSUME NEW i \in DOMAIN pods, PodRenames(i)
      PROVE  Intake!Next
  <2>1. SamePods(pods, pods')
    BY <1>0, <1>2, PhaseOfQueuePod DEF PodRenames, Phases
  <2>2. pods[i] \in QueuePods
    BY <1>0
  <2>3. pods[i].path \in Paths /\ Deliver(pods[i].path)
    BY <1>2, <2>2 DEF PodRenames, QueuePods
  <2> QED
    BY <1>2, <2>1, <2>3, DeliverArrives DEF PodRenames, consumerVars
<1>3. ASSUME NEW w \in Watchers, Receive(w)
      PROVE  UNCHANGED <<events, IntakeQueue, IntakeStarted>>
  <2>1. /\ held = NoEntry
        /\ backlog[w] \in Seq(EventIds)
        /\ backlog[w] # <<>>
        /\ backlog' = [backlog EXCEPT ![w] = Tail(backlog[w])]
        /\ held' = [from |-> w, id |-> Head(backlog[w]), path |-> watching[w]]
        /\ UNCHANGED <<events, pods>>
    BY <1>3, BacklogType DEF Receive, TypeInv, EntryHeld
  <2>2. /\ Head(backlog[w]) \in EventIds
        /\ held' # NoEntry
        /\ held'.from = w
        /\ held'.id = Head(backlog[w])
    BY <1>3, <2>1, NoEntryAssumption DEF TypeInv, BacklogWatched, Entries
  <2>3. backlog \in [Watchers -> Seq(EventIds)]
    BY DEF TypeInv, TypeOK
  <2>4. IntakeQueue'[w] = IntakeQueue[w]
    <3>1. IntakeQueue'[w] = <<Head(backlog[w])>> \o Tail(backlog[w])
      BY <2>1, <2>2, <2>3 DEF IntakeQueue
    <3>2. IntakeQueue[w] = <<>> \o backlog[w]
      BY <2>1 DEF IntakeQueue
    <3> QED
      BY <2>1, <2>2, <3>1, <3>2, HeadOfPushed
  <2>5. \A v \in Watchers : v # w => IntakeQueue'[v] = IntakeQueue[v]
    BY <2>1, <2>2, <2>3 DEF IntakeQueue
  <2> QED
    BY <2>1, <2>4, <2>5 DEF IntakeQueue, IntakeStarted
<1>4. ASSUME DropEntry \/ CreatePodFails \/ CreatePod
      PROVE  Intake!Next
  <2>1. held # NoEntry /\ held' = NoEntry /\ UNCHANGED <<backlog, events>>
    BY <1>4 DEF DropEntry, CreatePodFails, CreatePod, TypeInv, EntryHeld, watchVars
  <2>2. \/ pods' = pods
        \/ pods \in Seq(QueuePods) /\ \E r : /\ pods' = Append(pods, r)
                                             /\ r.from = held.from
                                             /\ r.id = held.id
    <3>1. CASE DropEntry \/ CreatePodFails
      BY <3>1 DEF DropEntry, CreatePodFails
    <3>2. CASE CreatePod
      BY <1>0, <3>2 DEF CreatePod
    <3> QED
      BY <1>4, <3>1, <3>2
  <2> QED
    BY <2>1, <2>2, EntryHandled
<1>5. ASSUME Crash
      PROVE  Intake!Next
  <2>1. IntakeQueue' = [w \in Watchers |-> <<>>]
    BY <1>5 DEF Crash, IntakeQueue
  <2>2. UNCHANGED <<events, IntakeStarted>>
    BY <1>5 DEF Crash, IntakeStarted
  <2>3. Intake!Lose
    BY <2>1, <2>2 DEF Intake!Lose
  <2> QED
    BY <2>3 DEF Intake!Next
<1>6. ASSUME NEW i \in DOMAIN pods, PodStarts(i) \/ PodEnds(i)
      PROVE  UNCHANGED <<events, IntakeQueue, IntakeStarted>>
  <2>1. SamePods(pods, pods')
    BY <1>0, <1>6, PhaseOfQueuePod DEF PodStarts, PodEnds, Phases
  <2> QED
    BY <1>6, <2>1, SameStarted DEF PodStarts, PodEnds, watchVars, consumerVars, IntakeQueue
<1>7. ASSUME Harvest \/ CtlPurge
      PROVE  UNCHANGED <<events, IntakeQueue, IntakeStarted>>
  <2>1. SamePods(pods, pods')
    BY <1>0, <1>7, DeleteQueuePods DEF Harvest, CtlPurge
  <2> QED
    BY <1>7, <2>1, SameStarted DEF Harvest, CtlPurge, watchVars, consumerVars, IntakeQueue
<1>8. ASSUME \/ \E w \in Watchers : AddWatch(w)
             \/ \E p \in Paths : WatchFails(p)
             \/ CountJobs \/ FetchSource
             \/ \E i \in DOMAIN apiPods : ApiPodStarts(i) \/ ApiPodEnds(i)
             \/ \E s \in ApiSources : StartAPI(s) \/ StopAPI(s)
             \/ \E s \in Sources : CtlCreate(s) \/ CtlDelete(s)
             \/ \E s, t \in Sources : CtlUpdate(s, t)
             \/ CtlTrigger \/ CtlTriggerFails \/ Start
             \/ UNCHANGED vars
      PROVE  UNCHANGED <<events, IntakeQueue, IntakeStarted>>
  <2>1. UNCHANGED <<backlog, events, pods, held>>
    BY <1>8 DEF AddWatch, WatchFails, CountJobs, FetchSource, ApiPodStarts, ApiPodEnds, StartAPI,
                StopAPI, CtlCreate, CtlDelete, CtlUpdate, CtlTrigger, CtlTriggerFails, Start, vars,
                watchVars, consumerVars
  <2> QED
    BY <2>1 DEF IntakeQueue, IntakeStarted
<1> QED
  BY <1>1, <1>2, <1>3, <1>4, <1>5, <1>6, <1>7, <1>8 DEF Next, Consume

\* The goroutines, the channel and the calls to Kubernetes implement the queues
\* of FileIntake: first in, first out, each event handled once, lost in a crash only.
THEOREM ImplementsIntake == Spec => IntakeSpec
<1>1. Spec => []TypeInv
  BY TypeInit, TypeStep, PTL DEF Spec
<1> QED
  BY <1>1, IntakeInit, IntakeStep, PTL DEF Spec, IntakeSpec, Intake!Spec

============================================================================
