---------------------------- MODULE AttachmentsProofs ----------------------------
(***************************************************************************)
(* For any number of launches, attached instances and Stop calls: attached *)
(* instances leave the managed ones what they are, and every attached      *)
(* bridge of the table is watched.                                         *)
(***************************************************************************)
EXTENDS AttachmentsProperties, OrchestratorProofs

----------------------------------------------------------------------------------
(* The managed instances.                                                  *)

LEMMA ManagedStep == [TableNext]_allVars => [Next]_vars
BY DEF TableNext, allVars

LEMMA ManagedInvariance == TableSpec => []IInv
<1>1. AttachedInit => IInv
  BY InitType, InitControl, InitRegistry DEF AttachedInit, IInv
<1>2. IInv /\ [TableNext]_allVars => IInv'
  BY ManagedStep, TypeStep, ControlStep, PortsStep, RegistryStep DEF IInv
<1> QED
  BY <1>1, <1>2, PTL DEF TableSpec

(* With attached instances in the same table, too, routing finds only the  *)
(* managed instances that are in it, but for markStopped's second step and *)
(* those sent SIGKILL.                                                     *)
THEOREM TableRegistration == TableSpec => []RegisteredIsTracked
<1>1. IInv => RegisteredIsTracked
  BY DEF IInv, Registry
<1> QED
  BY <1>1, ManagedInvariance, PTL

(* What attached instances do with the table neither takes ports nor hides *)
(* processes: every other invariant of managed instances holds, too.       *)
THEOREM TableSafety ==
  TableSpec => [](NoPortLost /\ PortsExclusive /\ NoOrphan /\ ExhaustionIsReal)
<1>1. IInv => NoPortLost /\ PortsExclusive /\ NoOrphan
  BY DEF IInv, Ports
<1> QED
  BY <1>1, ExhaustionFound, ManagedInvariance, PTL

(* With attached instances, too, no step undoes a Stop of a managed one.   *)
THEOREM TableStopHolds == TableSpec => StoppingOnlyEnds
BY StoppingStep, ManagedStep, ManagedInvariance, PTL DEF TableSpec, StoppingOnlyEnds, Ends

(* With attached instances, too, a managed instance lives the life its     *)
(* listeners rely on, although names taken by attached ones refuse it.     *)
THEOREM TableRefinement == TableSpec => ImplementsLifecycle
<1>1. AttachedInit => Paced /\ Lifecycle!LifecycleInit
  BY DEF AttachedInit, Init, Paced, Lifecycle!LifecycleInit
<1> QED
  BY <1>1, ManagedStep, LifecycleStep, PacedStep, ManagedInvariance, PTL
     DEF TableSpec, ImplementsLifecycle, Lifecycle!LifecycleSpec

----------------------------------------------------------------------------------
(* The attached bridges.                                                   *)

(* A call enters its own instance or updates another's, and enters it once.*)
EnteredOnce ==
  \A a \in Attachings :
    /\ a \in listed => attach[a] \in {"sync", "watch", "done"} /\ updated[a] = NoInstance
    /\ attach[a] \in {"idle", "enter"} => updated[a] = NoInstance

(* An entry that is being stopped will be removed by the Stop.             *)
StopsGoOn == \A a \in listed : condition[a] = "stopping" => Leaving(a)

BridgeInv == AttachedTypeOK /\ EnteredOnce /\ StopsGoOn /\ BridgesWatched

LEMMA InitBridges == AttachedInit => BridgeInv
BY AttachmentsAssumption, OrchestratorAssumption
DEF AttachedInit, BridgeInv, AttachedTypeOK, AttachTypeOK, EntryTypeOK, EnteredOnce, StopsGoOn,
    BridgesWatched, Attachings

LEMMA AttachedTypes == BridgeInv /\ [TableNext]_allVars => AttachedTypeOK'
<1> SUFFICES ASSUME BridgeInv, [TableNext]_allVars PROVE AttachedTypeOK'
  OBVIOUS
<1>0. AttachedTypeOK /\ NoInstance \notin Attachings
  BY AttachmentsAssumption DEF BridgeInv
<1> USE DEF AttachedTypeOK, AttachTypeOK, EntryTypeOK, attachVars, entryVars, watcherVars,
            detachVars, Attachings
<1>1. CASE UNCHANGED attachedVars
  BY <1>0, <1>1 DEF attachedVars
<1>2. ASSUME NEW a \in Attachings, NEW n \in Profiles, NEW u \in Origins,
             AttachNew(a, n, u) \/ AttachUpdate(a, n, u)
      PROVE  AttachedTypeOK'
  BY <1>0, <1>2 DEF AttachNew, AttachUpdate, AttachGoto, Holders
<1>3. ASSUME NEW a \in Attachings, NEW n \in Profiles, AttachRefused(a, n)
      PROVE  AttachedTypeOK'
  BY <1>0, <1>3 DEF AttachRefused, AttachGoto
<1>4. ASSUME NEW a \in Attachings, AttachEnter(a) \/ AttachSync(a)
      PROVE  AttachedTypeOK'
  BY <1>0, <1>4 DEF AttachEnter, AttachSync, AttachGoto
<1>5. ASSUME NEW a \in Attachings, AttachWatch(a)
      PROVE  AttachedTypeOK'
  BY <1>0, <1>5 DEF AttachWatch, AttachGoto
<1>6. ASSUME NEW b \in Bridges, WatcherStep(b)
      PROVE  AttachedTypeOK'
  BY <1>0, <1>6 DEF WatcherStep, ProbeBegin, ProbeHealthy, ProbeFails, WatcherRemoves,
                    WatcherForgets, Watch
<1>7. ASSUME NEW u \in Origins, OriginChanges(u)
      PROVE  AttachedTypeOK'
  BY <1>0, <1>7 DEF OriginChanges
<1>8. ASSUME NEW d \in Detachers, NEW a \in Attachings, DetachBegin(d, a) \/ ForceDetach(d, a)
      PROVE  AttachedTypeOK'
  BY <1>0, <1>8 DEF DetachBegin, ForceDetach, DetachGoto
<1>9. ASSUME NEW d \in Detachers, DetachStep(d)
      PROVE  AttachedTypeOK'
  BY <1>0, <1>9 DEF DetachStep, DetachAsked, DetachRemoves, DetachForgets, DetachGoto
<1> QED
  BY <1>1, <1>2, <1>3, <1>4, <1>5, <1>6, <1>7, <1>8, <1>9
     DEF TableNext, AttachedNext, AttachStep, Composed, allVars

LEMMA EnteredStep == BridgeInv /\ [TableNext]_allVars => EnteredOnce'
<1> SUFFICES ASSUME BridgeInv, [TableNext]_allVars PROVE EnteredOnce'
  OBVIOUS
<1>0. AttachedTypeOK /\ EnteredOnce /\ NoInstance \notin Attachings
  BY AttachmentsAssumption DEF BridgeInv
<1> USE DEF AttachedTypeOK, AttachTypeOK, EntryTypeOK, EnteredOnce, attachVars, entryVars,
            watcherVars, detachVars, Attachings
<1>1. CASE UNCHANGED attachedVars
  BY <1>0, <1>1 DEF attachedVars
<1>2. ASSUME NEW a \in Attachings, NEW n \in Profiles, NEW u \in Origins,
             AttachNew(a, n, u) \/ AttachUpdate(a, n, u)
      PROVE  EnteredOnce'
  BY <1>0, <1>2 DEF AttachNew, AttachUpdate, AttachGoto, Holders
<1>3. ASSUME NEW a \in Attachings, NEW n \in Profiles, AttachRefused(a, n)
      PROVE  EnteredOnce'
  BY <1>0, <1>3 DEF AttachRefused, AttachGoto
<1>4. ASSUME NEW a \in Attachings, AttachEnter(a) \/ AttachSync(a) \/ AttachWatch(a)
      PROVE  EnteredOnce'
  BY <1>0, <1>4 DEF AttachEnter, AttachSync, AttachWatch, AttachGoto
<1>5. ASSUME NEW b \in Bridges, WatcherStep(b)
      PROVE  EnteredOnce'
  BY <1>0, <1>5 DEF WatcherStep, ProbeBegin, ProbeHealthy, ProbeFails, WatcherRemoves,
                    WatcherForgets
<1>6. ASSUME NEW u \in Origins, OriginChanges(u)
      PROVE  EnteredOnce'
  BY <1>0, <1>6 DEF OriginChanges
<1>7. ASSUME NEW d \in Detachers, NEW a \in Attachings, DetachBegin(d, a) \/ ForceDetach(d, a)
      PROVE  EnteredOnce'
  BY <1>0, <1>7 DEF DetachBegin, ForceDetach
<1>8. ASSUME NEW d \in Detachers, DetachStep(d)
      PROVE  EnteredOnce'
  BY <1>0, <1>8 DEF DetachStep, DetachAsked, DetachRemoves, DetachForgets
<1> QED
  BY <1>1, <1>2, <1>3, <1>4, <1>5, <1>6, <1>7, <1>8
     DEF TableNext, AttachedNext, AttachStep, Composed, allVars

(* A Stop call that has an entry in hand keeps it until it has removed it. *)
LEMMA LeavingKept ==
  ASSUME AttachedTypeOK, [TableNext]_allVars, NEW a \in Attachings, Leaving(a)
  PROVE  Leaving(a)' \/ a \notin listed'
<1> PICK d \in Detachers : leaving[d] = a /\ detach[d] \in {"asking", "remove"}
  BY DEF Leaving
<1> USE DEF AttachedTypeOK, EntryTypeOK, Leaving
<1>1. CASE leaving' = leaving /\ detach' = detach
  BY <1>1
<1>2. ASSUME NEW c \in Detachers, NEW i \in Attachings, DetachBegin(c, i) \/ ForceDetach(c, i)
      PROVE  Leaving(a)' \/ a \notin listed'
  BY <1>2 DEF DetachBegin, ForceDetach, DetachGoto
<1>3. ASSUME NEW c \in Detachers, DetachStep(c)
      PROVE  Leaving(a)' \/ a \notin listed'
  BY <1>3 DEF DetachStep, DetachAsked, DetachRemoves, DetachForgets, DetachGoto
<1>4. ASSUME NEW i \in Attachings, NEW n \in Profiles, NEW u \in Origins,
             AttachNew(i, n, u) \/ AttachUpdate(i, n, u)
      PROVE  leaving' = leaving /\ detach' = detach
  BY <1>4 DEF AttachNew, AttachUpdate, detachVars
<1>5. ASSUME NEW i \in Attachings, NEW n \in Profiles, AttachRefused(i, n)
      PROVE  leaving' = leaving /\ detach' = detach
  BY <1>5 DEF AttachRefused, detachVars
<1>6. ASSUME NEW i \in Attachings, AttachStep(i)
      PROVE  leaving' = leaving /\ detach' = detach
  BY <1>6 DEF AttachStep, AttachEnter, AttachSync, AttachWatch, detachVars
<1>7. ASSUME NEW b \in Bridges, WatcherStep(b)
      PROVE  leaving' = leaving /\ detach' = detach
  BY <1>7 DEF WatcherStep, ProbeBegin, ProbeHealthy, ProbeFails, WatcherRemoves, WatcherForgets,
              detachVars
<1>8. ASSUME NEW u \in Origins, OriginChanges(u)
      PROVE  leaving' = leaving /\ detach' = detach
  BY <1>8 DEF OriginChanges, detachVars
<1>9. UNCHANGED attachedVars => leaving' = leaving /\ detach' = detach
  BY DEF attachedVars, detachVars
<1> QED
  BY <1>1, <1>2, <1>3, <1>4, <1>5, <1>6, <1>7, <1>8, <1>9
     DEF TableNext, AttachedNext, Composed, allVars

LEMMA StopsStep == BridgeInv /\ [TableNext]_allVars => StopsGoOn'
<1> SUFFICES ASSUME BridgeInv, [TableNext]_allVars PROVE StopsGoOn'
  OBVIOUS
<1>t. AttachedTypeOK'
  BY AttachedTypes
<1> SUFFICES ASSUME NEW a \in Attachings, a \in listed', condition'[a] = "stopping"
             PROVE  Leaving(a)'
  BY <1>t DEF StopsGoOn, AttachedTypeOK, EntryTypeOK
<1>0. AttachedTypeOK /\ StopsGoOn
  BY DEF BridgeInv
<1>1. CASE a \in listed /\ condition[a] = "stopping"
  BY <1>0, <1>1, LeavingKept DEF StopsGoOn
<1>2. CASE ~(a \in listed /\ condition[a] = "stopping")
  <2> DEFINE Stopping == a \in listed /\ condition[a] = "stopping"
  <2> USE DEF AttachedTypeOK, EntryTypeOK, attachVars, entryVars, watcherVars, detachVars
  <2>1. ASSUME NEW d \in Detachers, DetachBegin(d, a) PROVE Leaving(a)'
    BY <1>0, <2>1 DEF DetachBegin, DetachGoto, Leaving
  <2>2. ASSUME NEW d \in Detachers, NEW i \in Attachings, i # a, DetachBegin(d, i)
        PROVE  ~Stopping'
    BY <1>0, <1>2, <2>2 DEF DetachBegin
  <2>3. ASSUME NEW d \in Detachers, DetachStep(d) PROVE ~Stopping'
    BY <1>2, <2>3 DEF DetachStep, DetachAsked, DetachRemoves, DetachForgets
  <2>4. ASSUME NEW d \in Detachers, NEW i \in Attachings, ForceDetach(d, i) PROVE ~Stopping'
    BY <1>2, <2>4 DEF ForceDetach
  <2>5. ASSUME NEW i \in Attachings, NEW n \in Profiles, NEW u \in Origins,
               AttachNew(i, n, u) \/ AttachUpdate(i, n, u) \/ AttachRefused(i, n)
        PROVE  ~Stopping'
    <3>1. CASE AttachNew(i, n, u) \/ AttachRefused(i, n)
      BY <1>2, <3>1 DEF AttachNew, AttachRefused
    <3>2. CASE AttachUpdate(i, n, u)
      BY <1>0, <1>2, <3>2 DEF AttachUpdate, Holders
    <3> QED
      BY <2>5, <3>1, <3>2
  <2>6. ASSUME NEW i \in Attachings, AttachStep(i) PROVE ~Stopping'
    BY <1>0, <1>2, <2>6 DEF AttachStep, AttachEnter, AttachSync, AttachWatch
  <2>7. ASSUME NEW b \in Bridges, WatcherStep(b) PROVE ~Stopping'
    BY <1>2, <2>7 DEF WatcherStep, ProbeBegin, ProbeHealthy, ProbeFails, WatcherRemoves,
                      WatcherForgets
  <2>8. ASSUME NEW u \in Origins, OriginChanges(u) PROVE ~Stopping'
    BY <1>2, <2>8 DEF OriginChanges
  <2>9. UNCHANGED attachedVars => ~Stopping'
    BY <1>2 DEF attachedVars
  <2>10. Stopping'
    OBVIOUS
  <2> HIDE DEF Stopping
  <2>11. PICK u \in Origins : TRUE
    BY AttachmentsAssumption
  <2>12. \/ UNCHANGED attachedVars
         \/ AttachedNext
    BY DEF TableNext, Composed, allVars
  <2> QED
    BY <2>1, <2>2, <2>3, <2>4, <2>5, <2>6, <2>7, <2>8, <2>9, <2>10, <2>11, <2>12
       DEF AttachedNext
<1> QED
  BY <1>1, <1>2

LEMMA WatchedStep == BridgeInv /\ [TableNext]_allVars => BridgesWatched'
<1> SUFFICES ASSUME BridgeInv, [TableNext]_allVars, NEW b \in Bridges, b \in listed'
             PROVE  (HealthChecked(b) \/ Entering(b) \/ Leaving(b))'
  BY DEF BridgesWatched
<1> DEFINE Safe == HealthChecked(b) \/ Entering(b) \/ Leaving(b)
<1>0. AttachedTypeOK /\ EnteredOnce /\ StopsGoOn /\ b \in Attachings
  BY DEF BridgeInv, Attachings
<1>1. b \in listed => Safe
  BY DEF BridgeInv, BridgesWatched
<1>2. Leaving(b) => Leaving(b)'
  BY <1>0, LeavingKept
<1> USE DEF AttachedTypeOK, AttachTypeOK, EntryTypeOK, HealthChecked, Entering,
            attachVars, entryVars, watcherVars, detachVars
<1>3. CASE UNCHANGED attachedVars
  BY <1>1, <1>2, <1>3 DEF attachedVars
<1>4. ASSUME NEW a \in Attachings, NEW n \in Profiles, NEW u \in Origins,
             AttachNew(a, n, u) \/ AttachUpdate(a, n, u)
      PROVE  Safe'
  BY <1>0, <1>1, <1>2, <1>4 DEF AttachNew, AttachUpdate, AttachGoto, EnteredOnce
<1>5. ASSUME NEW a \in Attachings, NEW n \in Profiles, AttachRefused(a, n)
      PROVE  Safe'
  BY <1>0, <1>1, <1>2, <1>5 DEF AttachRefused, AttachGoto, EnteredOnce
<1>6. ASSUME NEW a \in Attachings, AttachStep(a)
      PROVE  Safe'
  BY <1>0, <1>1, <1>2, <1>6 DEF AttachStep, AttachEnter, AttachSync, AttachWatch, AttachGoto,
                                EnteredOnce
<1>7. ASSUME NEW a \in Bridges, WatcherStep(a)
      PROVE  Safe'
  BY <1>0, <1>1, <1>2, <1>7 DEF WatcherStep, ProbeBegin, ProbeHealthy, ProbeFails,
                                WatcherRemoves, WatcherForgets, Watch, StopsGoOn
<1>8. ASSUME NEW u \in Origins, OriginChanges(u)
      PROVE  Safe'
  BY <1>1, <1>2, <1>8 DEF OriginChanges
<1>9. ASSUME NEW d \in Detachers, NEW a \in Attachings, DetachBegin(d, a) \/ ForceDetach(d, a)
      PROVE  Safe'
  BY <1>1, <1>2, <1>9 DEF DetachBegin, ForceDetach
<1>10. ASSUME NEW d \in Detachers, DetachStep(d)
       PROVE  Safe'
  BY <1>1, <1>2, <1>10 DEF DetachStep, DetachAsked, DetachRemoves, DetachForgets
<1> QED
  BY <1>3, <1>4, <1>5, <1>6, <1>7, <1>8, <1>9, <1>10
     DEF TableNext, AttachedNext, Composed, allVars

LEMMA BridgeInvariance == TableSpec => []BridgeInv
<1>1. BridgeInv /\ [TableNext]_allVars => BridgeInv'
  BY AttachedTypes, EnteredStep, StopsStep, WatchedStep DEF BridgeInv
<1> QED
  BY <1>1, InitBridges, PTL DEF TableSpec

(* No attached bridge stays in the table unwatched, whatever AttachBridge  *)
(* calls, health checks, Stops and ForceShutdowns come between each other. *)
THEOREM Watching == TableSpec => []BridgesWatched
<1>1. BridgeInv => BridgesWatched
  BY DEF BridgeInv
<1> QED
  BY <1>1, BridgeInvariance, PTL

==================================================================================
