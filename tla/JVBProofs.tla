------------------------------ MODULE JVBProofs ------------------------------
(***************************************************************************)
(* Theorems about JVBController, for every value of its constants: types,  *)
(* versions and configurations in order, that it implements Follower, that *)
(* no event is lost, what the children are at rest for users who wait, how *)
(* long a pass of Reconcile is, and what stands at rest however the users  *)
(* write.                                                                  *)
(***************************************************************************)
EXTENDS JVBRefinement, CustomResourceProofs, FiniteSetTheorems

-----------------------------------------------------------------------------
(* Type correctness. *)

LEMMA SameType ==
  /\ CRTypeOK /\ UNCHANGED crVars => CRTypeOK'
  /\ WorkerTypeOK /\ UNCHANGED workerVars => WorkerTypeOK'
  /\ ChildTypeOK /\ UNCHANGED childVars => ChildTypeOK'
  /\ FaultTypeOK /\ UNCHANGED faultVars => FaultTypeOK'
<1>1. CRTypeOK /\ UNCHANGED crVars => CRTypeOK'
  BY DEF CRTypeOK, crVars
<1>2. WorkerTypeOK /\ UNCHANGED workerVars => WorkerTypeOK'
  BY DEF WorkerTypeOK, workerVars
<1>3. ChildTypeOK /\ UNCHANGED childVars => ChildTypeOK'
  BY DEF ChildTypeOK, childVars
<1>4. FaultTypeOK /\ UNCHANGED faultVars => FaultTypeOK'
  BY DEF FaultTypeOK, faultVars
<1> QED
  BY <1>1, <1>2, <1>3, <1>4

\* A replica in range names child objects that exist in the model.
LEMMA NamesAreObjects ==
  /\ \A r \in 1..MaxReplicas :
       /\ Instance(r) \in Objects /\ Service(r) \in Objects
       /\ Exporter(r) \in Objects /\ SIP(r) \in Objects
  /\ Shared \in Objects
  BY DEF Instance, Service, Exporter, SIP, Shared, Objects, Numbered

LEMMA InformerOfType ==
  ASSUME NEW o \in Objects
  PROVE  InformerOf(o) \in Informers
  BY DEF InformerOf, Informers

LEMMA NoticeType ==
  ASSUME ChildTypeOK, NEW o \in Objects, NEW p \in BOOLEAN, Notice(o, p)
  PROVE  /\ childCache' \subseteq Objects
         /\ lag' \in [Informers -> Seq([object : Objects, present : BOOLEAN])]
<1> DEFINE Change == [object : Objects, present : BOOLEAN]
           change == [object |-> o, present |-> p]
<1>1. InformerOf(o) \in Informers
  BY InformerOfType
<1>2. change \in Change
  OBVIOUS
<1>3. CASE InformerOf(o) \in Lagging
  <2>1. /\ lag' = [lag EXCEPT ![InformerOf(o)] = Append(@, change)]
        /\ childCache' = childCache
    BY <1>3 DEF Notice
  <2>2. lag[InformerOf(o)] \in Seq(Change)
    BY <1>1 DEF ChildTypeOK
  <2>3. Append(lag[InformerOf(o)], change) \in Seq(Change)
    BY <1>2, <2>2
  <2> QED
    BY <1>1, <2>1, <2>3 DEF ChildTypeOK
<1>4. CASE InformerOf(o) \notin Lagging
  BY <1>4 DEF Notice, CacheWith, ChildTypeOK
<1> QED
  BY <1>3, <1>4

LEMMA PutType ==
  ASSUME ChildTypeOK, NEW o \in Objects, NEW c \in Nat, Put(o, c)
  PROVE  ChildTypeOK'
<1>1. child' \in [Objects -> Nat]
  BY DEF Put, ChildTypeOK
<1>2. CASE child[o] = c
  BY <1>1, <1>2 DEF Put, ChildTypeOK
<1>3. CASE child[o] # c
  <2>1. Notice(o, c # 0)
    BY <1>3 DEF Put
  <2>2. (c # 0) \in BOOLEAN
    OBVIOUS
  <2> QED
    BY <1>1, <2>1, <2>2, NoticeType DEF ChildTypeOK
<1> QED
  BY <1>2, <1>3

LEMMA FaultType ==
  ASSUME FaultTypeOK, sameFaults, Fault \/ UNCHANGED faults
  PROVE  FaultTypeOK'
  BY FaultBoundsAssumption DEF FaultTypeOK, Fault, sameFaults

\* One call on one child object, whatever its outcome.
LEMMA TryType ==
  ASSUME ChildTypeOK, FaultTypeOK, sameFaults,
         NEW o \in Objects, NEW c \in Nat, Try(o, c)
  PROVE  ChildTypeOK' /\ FaultTypeOK'
<1>1. CASE Put(o, c) /\ UNCHANGED faults
  BY <1>1, PutType, FaultType
<1>2. CASE Fault /\ UNCHANGED childVars
  BY <1>2, SameType, FaultType
<1> QED
  BY <1>1, <1>2 DEF Try

LEMMA RenderedType ==
  ASSUME TypeOK, NEW o \in Objects, NEW reading
  PROVE  /\ AfterCreate(o) \in Nat /\ AfterUpdate(o, reading) \in Nat
         /\ obj.conf \in Nat /\ 0 \in Nat
  BY DEF TypeOK, ChildTypeOK, WorkerTypeOK, Version, AfterCreate, AfterUpdate

LEMMA GetType ==
  ASSUME NEW o
  PROVE  Get(o) \in Readings
  BY DEF Get, Readings

-----------------------------------------------------------------------------
(* The worker's control: every way to go on keeps the loops in range. *)

WorkerOK == WorkerTypeOK /\ LoopsInRange

LEMMA ReplicasOfVersion ==
  ASSUME WorkerTypeOK
  PROVE  obj.replicas \in 0..MaxReplicas /\ obj.status \in 0..MaxReplicas
  BY DEF WorkerTypeOK, Version

LEMMA GotoOK ==
  ASSUME WorkerOK, NEW step \in PerReplica, Goto(step), pc \in PerReplica
  PROVE  WorkerOK'
  BY DEF WorkerOK, WorkerTypeOK, LoopsInRange, Goto, PerReplica, Steps

LEMMA RoundType ==
  ASSUME WorkerTypeOK, NEW l \in {"none", "create", "scaleDown", "update", "delete"},
         NEW r \in 0..(MaxReplicas + 1), NEW step \in Steps, Round(l, r, step)
  PROVE  WorkerTypeOK'
  BY DEF WorkerTypeOK, Round, Readings

LEMMA CreateRoundOK ==
  ASSUME WorkerTypeOK, NEW r \in 1..(MaxReplicas + 1), Round("create", r, "create")
  PROVE  WorkerOK'
<1>1. r \in 0..(MaxReplicas + 1) /\ r >= 1
  BY ReplicasAssumption
<1>2. "create" \in Steps
  BY DEF Steps
<1>3. WorkerTypeOK'
  BY <1>1, <1>2, RoundType
<1>4. LoopsInRange'
  BY <1>1 DEF LoopsInRange, Round, PerReplica
<1> QED
  BY <1>3, <1>4 DEF WorkerOK

LEMMA DoneOK ==
  ASSUME WorkerTypeOK, NEW step \in Steps \ (PerReplica \cup {"create"}), Done(step)
  PROVE  WorkerOK'
<1>1. Round("none", 0, step) /\ 0 \in 0..(MaxReplicas + 1)
  BY ReplicasAssumption DEF Done
<1>2. WorkerTypeOK'
  BY <1>1, RoundType
<1>3. LoopsInRange'
  BY <1>1 DEF LoopsInRange, Round
<1> QED
  BY <1>2, <1>3 DEF WorkerOK

LEMMA ScaleDownFromOK ==
  ASSUME WorkerTypeOK, NEW r \in 1..MaxReplicas, r >= obj.replicas, ScaleDownFrom(r)
  PROVE  WorkerOK'
<1>1. CASE ScaledDown(r)
  BY <1>1, DoneOK DEF ScaleDownFrom, Steps, PerReplica
<1>2. CASE ~ScaledDown(r)
  <2>1. r \in 0..(MaxReplicas + 1) /\ r > 1 /\ r > obj.replicas
    BY <1>2, ReplicasAssumption, ReplicasOfVersion DEF ScaledDown
  <2>2. Round("scaleDown", r, "deleteService")
    BY <1>2 DEF ScaleDownFrom
  <2>3. WorkerTypeOK'
    BY <2>1, <2>2, RoundType DEF Steps
  <2>4. LoopsInRange'
    BY <2>1, <2>2 DEF LoopsInRange, Round
  <2> QED
    BY <2>3, <2>4 DEF WorkerOK
<1> QED
  BY <1>1, <1>2

LEMMA UpdateFromOK ==
  ASSUME WorkerTypeOK, NEW r \in 1..(MaxReplicas + 1), UpdateFrom(r)
  PROVE  WorkerOK'
<1>1. CASE r <= obj.replicas
  <2>1. r \in 0..(MaxReplicas + 1) /\ r \in 1..MaxReplicas
    BY <1>1, ReplicasAssumption, ReplicasOfVersion
  <2>2. Round("update", r, "update")
    BY <1>1 DEF UpdateFrom
  <2>3. WorkerTypeOK'
    BY <2>1, <2>2, RoundType DEF Steps
  <2>4. LoopsInRange'
    BY <2>1, <2>2 DEF LoopsInRange, Round
  <2> QED
    BY <2>3, <2>4 DEF WorkerOK
<1>2. CASE ~(r <= obj.replicas)
  BY <1>2, DoneOK DEF UpdateFrom, Steps, PerReplica
<1> QED
  BY <1>1, <1>2

LEMMA DeleteFromOK ==
  ASSUME WorkerTypeOK, NEW r \in 1..(MaxReplicas + 1), DeleteFrom(r)
  PROVE  WorkerOK'
<1>1. CASE r <= obj.replicas
  <2>1. r \in 0..(MaxReplicas + 1) /\ r \in 1..MaxReplicas
    BY <1>1, ReplicasAssumption, ReplicasOfVersion
  <2>2. Round("delete", r, "deleteService")
    BY <1>1 DEF DeleteFrom
  <2>3. WorkerTypeOK'
    BY <2>1, <2>2, RoundType DEF Steps
  <2>4. LoopsInRange'
    BY <2>1, <2>2 DEF LoopsInRange, Round
  <2> QED
    BY <2>3, <2>4 DEF WorkerOK
<1>2. CASE ~(r <= obj.replicas)
  BY <1>2, DoneOK DEF DeleteFrom, Steps, PerReplica
<1> QED
  BY <1>1, <1>2

LEMMA ReleaseOK ==
  ASSUME WorkerTypeOK, Release
  PROVE  WorkerOK'
<1>1. 0 \in 0..(MaxReplicas + 1)
  BY ReplicasAssumption
<1>2. WorkerTypeOK'
  BY <1>1, NoObjectIsVersion DEF WorkerTypeOK, Release, Steps, Readings
<1>3. LoopsInRange'
  BY DEF Release, LoopsInRange, PerReplica
<1> QED
  BY <1>2, <1>3 DEF WorkerOK

LEMMA SameWorkerOK ==
  ASSUME WorkerOK, UNCHANGED workerVars
  PROVE  WorkerOK'
  BY DEF WorkerOK, WorkerTypeOK, LoopsInRange, workerVars

-----------------------------------------------------------------------------
(* One lemma per action of the worker. *)

TypeInv == TypeOK /\ LoopsInRange

LEMMA TypeInvParts ==
  /\ TypeInv <=> CRTypeOK /\ WorkerOK /\ ChildTypeOK /\ FaultTypeOK
  /\ TypeInv' <=> CRTypeOK' /\ WorkerOK' /\ ChildTypeOK' /\ FaultTypeOK'
  BY DEF TypeInv, TypeOK, WorkerOK

LEMMA TakeType ==
  ASSUME TypeInv, Take
  PROVE  CRTypeOK' /\ ChildTypeOK' /\ FaultTypeOK'
<1>1. CRTypeOK'
  BY DEF TypeInv, TypeOK, CRTypeOK, Take
<1>2. UNCHANGED childVars /\ UNCHANGED faultVars
  BY DEF Take
<1> QED
  BY <1>1, <1>2, SameType, TypeInvParts

LEMMA ReconcileOK ==
  ASSUME TypeInv, ReconcileNotFound \/ Reconcile
  PROVE  TypeInv'
<1>1. CRTypeOK' /\ ChildTypeOK' /\ FaultTypeOK'
  BY TakeType DEF ReconcileNotFound, Reconcile
<1>2. CASE ReconcileNotFound
  BY <1>1, <1>2, SameWorkerOK, TypeInvParts DEF ReconcileNotFound
<1>3. CASE Reconcile
  <2>1. pc' \in {"removeFinalizer", "createConfigMaps", "addFinalizer"}
    BY <1>3 DEF Reconcile
  <2>2. obj' \in Version
    BY <1>3 DEF Reconcile, TypeInv, TypeOK, CRTypeOK
  <2>3. UNCHANGED <<loop, replica, service, instance, listed>>
    BY <1>3 DEF Reconcile
  <2>4. WorkerTypeOK'
    BY <2>1, <2>2, <2>3 DEF WorkerTypeOK, TypeInv, TypeOK, Steps
  <2>5. LoopsInRange'
    BY <2>1 DEF LoopsInRange, PerReplica
  <2> QED
    BY <1>1, <2>4, <2>5, TypeInvParts DEF WorkerOK
<1> QED
  BY <1>2, <1>3

LEMMA AddFinalizerCallOK ==
  ASSUME TypeInv, AddFinalizerCall
  PROVE  TypeInv'
<1>1. CRTypeOK /\ obj \in Version /\ WorkerTypeOK /\ ChildTypeOK /\ FaultTypeOK
  BY DEF TypeInv, TypeOK, WorkerTypeOK
<1>2. [obj EXCEPT !.fin = TRUE] \in Version
  BY <1>1 DEF Version
<1>3. CRWritten'
  <2>1. AddFinalizer(obj) \/ UNCHANGED <<cr, rv, watch>>
    BY DEF AddFinalizerCall
  <2> QED
    BY <1>1, <2>1, AddFinalizerType DEF CRWritten, CRTypeOK
<1>4. CRTypeOK'
  BY <1>1, <1>3 DEF AddFinalizerCall, CRTypeOK, CRWritten
<1>5. FaultTypeOK'
  BY <1>1, FaultType DEF AddFinalizerCall
<1>6. ChildTypeOK'
  BY <1>1, SameType DEF AddFinalizerCall
<1>7. obj' = cr' \/ obj' = [obj EXCEPT !.fin = TRUE]
  BY DEF AddFinalizerCall
<1>8. obj' \in Version
  BY <1>2, <1>3, <1>7 DEF CRWritten
<1>9. WorkerTypeOK'
  BY <1>1, <1>8 DEF AddFinalizerCall, WorkerTypeOK, Steps
<1>10. LoopsInRange'
  BY DEF AddFinalizerCall, LoopsInRange, PerReplica
<1> QED
  BY <1>4, <1>5, <1>6, <1>9, <1>10, TypeInvParts DEF WorkerOK

LEMMA InRange ==
  ASSUME TypeInv, pc \in PerReplica
  PROVE  /\ replica \in 1..MaxReplicas
         /\ replica + 1 \in 1..(MaxReplicas + 1)
         /\ Instance(replica) \in Objects /\ Service(replica) \in Objects
         /\ Exporter(replica) \in Objects /\ SIP(replica) \in Objects
<1>1. replica \in 1..MaxReplicas
  BY DEF TypeInv, LoopsInRange
<1>2. replica + 1 \in 1..(MaxReplicas + 1)
  BY <1>1, ReplicasAssumption
<1> QED
  BY <1>1, <1>2, NamesAreObjects

\* An action that makes at most one call on a child object and moves on.
LEMMA CallOK ==
  ASSUME TypeInv, sameCR, sameFaults, WorkerOK',
         NEW o \in Objects, NEW c \in Nat,
         Try(o, c) \/ UNCHANGED <<childVars, faults>>
  PROVE  TypeInv'
<1>1. CRTypeOK'
  BY SameType, TypeInvParts DEF sameCR
<1>2. CASE Try(o, c)
  BY <1>1, <1>2, TryType, TypeInvParts
<1>3. CASE UNCHANGED <<childVars, faults>>
  BY <1>1, <1>3, SameType, FaultType, TypeInvParts
<1> QED
  BY <1>2, <1>3

LEMMA CreateConfigMapsOK ==
  ASSUME TypeInv, CreateConfigMaps
  PROVE  TypeInv'
<1>1. 1 \in 1..(MaxReplicas + 1)
  BY ReplicasAssumption
<1>2. WorkerOK'
  BY <1>1, CreateRoundOK, TypeInvParts DEF CreateConfigMaps, WorkerOK
<1>3. AfterCreate(Shared) \in Nat /\ Shared \in Objects
  BY RenderedType, NamesAreObjects DEF TypeInv
<1> QED
  BY <1>2, <1>3, CallOK DEF CreateConfigMaps

LEMMA SkipExistingOK ==
  ASSUME TypeInv, SkipExisting
  PROVE  TypeInv'
<1>1. replica + 1 \in 1..(MaxReplicas + 1)
  <2>1. replica \in Nat /\ replica >= 1 /\ replica <= obj.replicas
    BY DEF TypeInv, TypeOK, WorkerTypeOK, LoopsInRange, SkipExisting
  <2> QED
    BY <2>1, ReplicasOfVersion, ReplicasAssumption DEF TypeInv, TypeOK
<1>2. WorkerOK'
  BY <1>1, CreateRoundOK, TypeInvParts DEF SkipExisting, WorkerOK
<1> QED
  BY <1>2, SameType, TypeInvParts DEF SkipExisting, sameCR

LEMMA GetServiceOK ==
  ASSUME TypeInv, GetService
  PROVE  TypeInv'
<1>1. replica \in 1..MaxReplicas
  <2>1. CASE pc = "getService"
    BY <2>1, InRange DEF PerReplica
  <2>2. CASE pc = "create" /\ replica <= obj.replicas
    <3>1. replica \in Nat /\ replica >= 1
      BY <2>2 DEF TypeInv, TypeOK, WorkerTypeOK, LoopsInRange
    <3> QED
      BY <2>2, <3>1, ReplicasOfVersion, ReplicasAssumption DEF TypeInv, TypeOK
  <2> QED
    BY <2>1, <2>2 DEF GetService
<1>2. loop = "scaleDown" => replica > 1 /\ replica > obj.replicas
  BY DEF GetService, TypeInv, LoopsInRange, PerReplica
<1>3. WorkerTypeOK'
  BY GetType DEF GetService, TypeInv, TypeOK, WorkerTypeOK, Steps
<1>4. LoopsInRange'
  BY <1>1, <1>2 DEF GetService, LoopsInRange, PerReplica
<1>5. AfterCreate(Exporter(replica)) \in Nat /\ Exporter(replica) \in Objects
  BY <1>1, NamesAreObjects, RenderedType DEF TypeInv
<1> QED
  BY <1>3, <1>4, <1>5, CallOK DEF GetService, WorkerOK

LEMMA CreateServiceOK ==
  ASSUME TypeInv, CreateService
  PROVE  TypeInv'
<1>1. pc \in PerReplica /\ Service(replica) \in Objects
  BY InRange DEF CreateService, PerReplica
<1>2. PICK step \in {"createSIP", "updateInstance"} : Goto(step)
  BY DEF CreateService
<1>3. WorkerOK'
  BY <1>1, <1>2, GotoOK, TypeInvParts DEF PerReplica
<1>4. PICK c \in Nat : Try(Service(replica), c)
  BY <1>1, RenderedType DEF CreateService, TypeInv
<1> QED
  BY <1>1, <1>3, <1>4, CallOK DEF CreateService

LEMMA CreateSIPOK ==
  ASSUME TypeInv, CreateSIP
  PROVE  TypeInv'
<1>1. pc \in PerReplica /\ SIP(replica) \in Objects
  BY InRange DEF CreateSIP, PerReplica
<1>2. WorkerOK'
  BY <1>1, GotoOK, TypeInvParts DEF CreateSIP, PerReplica
<1>3. AfterCreate(SIP(replica)) \in Nat
  BY <1>1, RenderedType DEF TypeInv
<1> QED
  BY <1>1, <1>2, <1>3, CallOK DEF CreateSIP

LEMMA CreateInstanceOK ==
  ASSUME TypeInv, CreateInstance
  PROVE  TypeInv'
<1>1. /\ Instance(replica) \in Objects
      /\ replica + 1 \in 1..(MaxReplicas + 1)
  BY InRange DEF CreateInstance, PerReplica
<1>2. WorkerOK'
  BY <1>1, CreateRoundOK, TypeInvParts DEF CreateInstance, WorkerOK
<1>3. AfterCreate(Instance(replica)) \in Nat
  BY <1>1, RenderedType DEF TypeInv
<1> QED
  BY <1>1, <1>2, <1>3, CallOK DEF CreateInstance

LEMMA StartUpdateOK ==
  ASSUME TypeInv, StartUpdate
  PROVE  TypeInv'
<1>1. WorkerTypeOK
  BY DEF TypeInv, TypeOK
<1>2. CASE obj.status > obj.replicas
  <2>1. obj.status \in 1..MaxReplicas /\ obj.status >= obj.replicas
    BY <1>1, <1>2, ReplicasOfVersion, ReplicasAssumption
  <2>2. ScaleDownFrom(obj.status)
    BY <1>2 DEF StartUpdate
  <2> QED
    BY <1>1, <2>1, <2>2, ScaleDownFromOK, SameType, TypeInvParts
       DEF StartUpdate, sameCR
<1>3. CASE ~(obj.status > obj.replicas)
  <2>1. Done("updateConfigMaps")
    BY <1>3 DEF StartUpdate
  <2> QED
    BY <1>1, <2>1, DoneOK, SameType, TypeInvParts
       DEF StartUpdate, sameCR, Steps, PerReplica
<1> QED
  BY <1>2, <1>3

LEMMA UpdateConfigMapsOK ==
  ASSUME TypeInv, UpdateConfigMaps
  PROVE  TypeInv'
<1>1. 1 \in 1..(MaxReplicas + 1)
  BY ReplicasAssumption
<1>2. WorkerOK'
  BY <1>1, UpdateFromOK, TypeInvParts DEF UpdateConfigMaps, WorkerOK
<1>3. obj.conf \in Nat /\ Shared \in Objects
  BY RenderedType, NamesAreObjects DEF TypeInv
<1> QED
  BY <1>2, <1>3, CallOK DEF UpdateConfigMaps

LEMMA UpdateSIPOK ==
  ASSUME TypeInv, UpdateSIP
  PROVE  TypeInv'
<1>1. /\ pc = "update" /\ SIP(replica) \in Objects /\ obj.conf \in Nat
      /\ Try(SIP(replica), obj.conf) /\ sameFaults
  BY InRange, NamesAreObjects, RenderedType DEF UpdateSIP, PerReplica, TypeInv
<1>2. ChildTypeOK' /\ FaultTypeOK'
  BY <1>1, TryType, TypeInvParts
<1>3. CASE Get(Instance(replica)) = "absent"
  <2>1. Release /\ queued' = TRUE
        /\ UNCHANGED <<cr, rv, crCache, watch, edits, relists>>
    BY <1>3 DEF UpdateSIP, Return
  <2>2. WorkerOK'
    BY <2>1, ReleaseOK, TypeInvParts DEF WorkerOK
  <2>3. CRTypeOK'
    BY <2>1 DEF TypeInv, TypeOK, CRTypeOK
  <2> QED
    BY <1>2, <2>2, <2>3, TypeInvParts
<1>4. CASE Get(Instance(replica)) # "absent"
  <2>1. /\ pc' = "getService" /\ instance' = Get(Instance(replica))
        /\ UNCHANGED <<loop, obj, replica, service, listed>> /\ sameCR
    BY <1>4 DEF UpdateSIP
  <2>2. WorkerTypeOK'
    BY <2>1, GetType DEF TypeInv, TypeOK, WorkerTypeOK, Steps
  <2>3. LoopsInRange'
    BY <1>1, <2>1 DEF TypeInv, LoopsInRange, PerReplica
  <2> QED
    BY <1>2, <2>1, <2>2, <2>3, SameType, TypeInvParts DEF WorkerOK, sameCR
<1> QED
  BY <1>3, <1>4

LEMMA UpdateInstanceOK ==
  ASSUME TypeInv, UpdateInstance
  PROVE  TypeInv'
<1>1. /\ Instance(replica) \in Objects
      /\ replica + 1 \in 1..(MaxReplicas + 1)
  BY InRange DEF UpdateInstance, PerReplica
<1>2. WorkerOK'
  BY <1>1, UpdateFromOK, TypeInvParts DEF UpdateInstance, WorkerOK
<1>3. AfterUpdate(Instance(replica), instance) \in Nat
  BY <1>1, RenderedType DEF TypeInv
<1> QED
  BY <1>1, <1>2, <1>3, CallOK DEF UpdateInstance

LEMMA ReturnOK ==
  ASSUME WorkerTypeOK, queued \in BOOLEAN, NEW err \in BOOLEAN, Return(err)
  PROVE  WorkerOK' /\ queued' \in BOOLEAN
<1>1. Release
  BY DEF Return
<1>2. queued' \in BOOLEAN
  BY DEF Return
<1> QED
  BY <1>1, <1>2, ReleaseOK

LEMMA UpdateStatusOK ==
  ASSUME TypeInv, UpdateStatus
  PROVE  TypeInv'
<1>1. CRTypeOK /\ obj \in Version /\ WorkerTypeOK /\ ChildTypeOK /\ FaultTypeOK
  BY DEF TypeInv, TypeOK, WorkerTypeOK
<1>2. obj.replicas \in 0..MaxReplicas
  BY <1>1, ReplicasOfVersion
<1>3. CRWritten'
  <2>1. WriteStatus(obj, obj.replicas) \/ UNCHANGED <<cr, rv, watch>>
    BY DEF UpdateStatus
  <2> QED
    BY <1>1, <1>2, <2>1, WriteStatusType DEF CRWritten, CRTypeOK
<1>4. PICK err \in BOOLEAN : Return(err)
  BY DEF UpdateStatus
<1>5. WorkerOK' /\ queued' \in BOOLEAN
  BY <1>1, <1>4, ReturnOK DEF CRTypeOK
<1>6. CRTypeOK'
  BY <1>1, <1>3, <1>5 DEF UpdateStatus, CRTypeOK, CRWritten
<1>7. FaultTypeOK' /\ ChildTypeOK'
  BY <1>1, FaultType, SameType DEF UpdateStatus
<1> QED
  BY <1>5, <1>6, <1>7, TypeInvParts

LEMMA RemoveFinalizerCallOK ==
  ASSUME TypeInv, RemoveFinalizerCall
  PROVE  TypeInv'
<1>1. CRTypeOK /\ obj \in Version /\ WorkerTypeOK /\ ChildTypeOK /\ FaultTypeOK
  BY DEF TypeInv, TypeOK, WorkerTypeOK
<1>2. CRWritten'
  <2>1. RemoveFinalizer(obj) \/ UNCHANGED <<cr, rv, watch>>
    BY DEF RemoveFinalizerCall
  <2> QED
    BY <1>1, <2>1, RemoveFinalizerType DEF CRWritten, CRTypeOK
<1>3. CRTypeOK'
  BY <1>1, <1>2 DEF RemoveFinalizerCall, CRTypeOK, CRWritten
<1>4. obj' \in Version
  <2>1. obj' = [obj EXCEPT !.fin = FALSE] \/ obj' = Defaulted([obj EXCEPT !.fin = FALSE])
    BY DEF RemoveFinalizerCall
  <2> QED
    BY <1>1, <2>1, FinalizedFields
<1>5. WorkerTypeOK'
  BY <1>1, <1>4 DEF RemoveFinalizerCall, WorkerTypeOK, Steps
<1>6. LoopsInRange'
  BY DEF RemoveFinalizerCall, LoopsInRange, PerReplica
<1>7. FaultTypeOK' /\ ChildTypeOK'
  BY <1>1, FaultType, SameType DEF RemoveFinalizerCall
<1> QED
  BY <1>3, <1>5, <1>6, <1>7, TypeInvParts DEF WorkerOK

LEMMA StartDeleteOK ==
  ASSUME TypeInv, StartDelete
  PROVE  TypeInv'
<1>1. 1 \in 1..(MaxReplicas + 1)
  BY ReplicasAssumption
<1>2. WorkerOK'
  BY <1>1, DeleteFromOK, TypeInvParts DEF StartDelete, WorkerOK
<1> QED
  BY <1>2, SameType, TypeInvParts DEF StartDelete, sameCR

LEMMA DeleteServiceOK ==
  ASSUME TypeInv, DeleteService
  PROVE  TypeInv'
<1>1. pc \in PerReplica /\ Service(replica) \in Objects /\ 0 \in Nat
  BY InRange DEF DeleteService, PerReplica
<1>2. PICK step \in {"deleteInstance", "deleteExporter"} : Goto(step)
  BY DEF DeleteService
<1>3. WorkerOK'
  BY <1>1, <1>2, GotoOK, TypeInvParts DEF PerReplica
<1>4. CASE Try(Service(replica), 0) \/ UNCHANGED <<childVars, faults>>
  BY <1>1, <1>3, <1>4, CallOK DEF DeleteService
<1>5. CASE Fault /\ Put(Service(replica), 0)
  BY <1>1, <1>3, <1>5, PutType, FaultType, SameType, TypeInvParts
     DEF DeleteService, sameCR
<1> QED
  BY <1>4, <1>5 DEF DeleteService, Try

LEMMA DeleteExporterOK ==
  ASSUME TypeInv, DeleteExporter
  PROVE  TypeInv'
<1>1. pc \in PerReplica /\ Exporter(replica) \in Objects /\ 0 \in Nat
  BY InRange DEF DeleteExporter, PerReplica
<1>2. WorkerOK'
  BY <1>1, GotoOK, TypeInvParts DEF DeleteExporter, PerReplica
<1>3. Try(Exporter(replica), 0) \/ UNCHANGED <<childVars, faults>>
  BY DEF DeleteExporter, DeleteCached
<1> QED
  BY <1>1, <1>2, <1>3, CallOK DEF DeleteExporter

LEMMA DeleteInstanceOK ==
  ASSUME TypeInv, DeleteInstance
  PROVE  TypeInv'
<1>1. /\ pc \in PerReplica /\ Instance(replica) \in Objects /\ 0 \in Nat
      /\ replica \in 1..MaxReplicas
      /\ replica + 1 \in 1..(MaxReplicas + 1) /\ WorkerTypeOK
  BY InRange DEF DeleteInstance, PerReplica, TypeInv, TypeOK
<1>2. WorkerOK'
  <2>1. CASE loop = "scaleDown"
    <3>1. replica > 1 /\ replica > obj.replicas
      BY <1>1, <2>1 DEF TypeInv, LoopsInRange
    <3>2. replica - 1 \in 1..MaxReplicas /\ replica - 1 >= obj.replicas
      BY <1>1, <3>1, ReplicasOfVersion, ReplicasAssumption
    <3>3. ScaleDownFrom(replica - 1)
      BY <2>1 DEF DeleteInstance
    <3> QED
      BY <1>1, <3>2, <3>3, ScaleDownFromOK
  <2>2. CASE loop # "scaleDown"
    BY <1>1, <2>2, DeleteFromOK DEF DeleteInstance
  <2> QED
    BY <2>1, <2>2
<1>3. Try(Instance(replica), 0) \/ UNCHANGED <<childVars, faults>>
  BY DEF DeleteInstance, DeleteCached
<1> QED
  BY <1>1, <1>2, <1>3, CallOK DEF DeleteInstance

LEMMA ConfigMapStepsOK ==
  ASSUME TypeInv, ListConfigMaps \/ DeleteConfigMap \/ FinishDelete
  PROVE  TypeInv'
<1>1. pc \in {"listCMs", "deleteCMs"} /\ WorkerTypeOK /\ 0 \in Nat
  BY DEF ListConfigMaps, DeleteConfigMap, FinishDelete, TypeInv, TypeOK
<1>2. CASE ListConfigMaps
  <2>1. WorkerTypeOK'
    BY <1>1, <1>2 DEF ListConfigMaps, WorkerTypeOK, Steps
  <2>2. LoopsInRange'
    BY <1>2 DEF ListConfigMaps, LoopsInRange, PerReplica
  <2> QED
    BY <1>2, <2>1, <2>2, SameType, TypeInvParts DEF ListConfigMaps, sameCR, WorkerOK
<1>3. CASE DeleteConfigMap
  <2>1. PICK o \in listed : Try(o, 0) /\ listed' = listed \ {o}
    BY <1>3 DEF DeleteConfigMap
  <2>2. o \in Objects
    BY <1>1, <2>1 DEF WorkerTypeOK, ConfigMaps
  <2>3. WorkerTypeOK'
    BY <1>1, <1>3, <2>1 DEF DeleteConfigMap, WorkerTypeOK
  <2>4. LoopsInRange'
    BY <1>3 DEF DeleteConfigMap, LoopsInRange, PerReplica
  <2> QED
    BY <1>1, <1>3, <2>1, <2>2, <2>3, <2>4, CallOK DEF DeleteConfigMap, WorkerOK
<1>4. CASE FinishDelete
  <2>1. WorkerOK' /\ queued' \in BOOLEAN
    BY <1>1, <1>4, ReturnOK DEF FinishDelete, TypeInv, TypeOK, CRTypeOK
  <2>2. CRTypeOK'
    BY <1>4, <2>1 DEF FinishDelete, TypeInv, TypeOK, CRTypeOK
  <2> QED
    BY <1>4, <2>1, <2>2, SameType, TypeInvParts DEF FinishDelete
<1> QED
  BY <1>2, <1>3, <1>4

-----------------------------------------------------------------------------
(* One lemma per action of the surroundings. *)

LEMMA DeliveryOK ==
  ASSUME TypeInv, ReceiveVersion \/ ReceiveList \/ PeriodicResync
  PROVE  TypeInv'
<1>1. CRTypeOK /\ UNCHANGED workerVars /\ UNCHANGED childVars /\ UNCHANGED faultVars
  BY DEF ReceiveVersion, ReceiveList, PeriodicResync, TypeInv, TypeOK
<1>2. CRTypeOK'
  <2>1. CASE ReceiveVersion
    <3>1. watch # <<>> /\ crCache' = Head(watch) /\ watch' = Tail(watch)
          /\ queued' \in BOOLEAN /\ UNCHANGED <<cr, rv, edits, relists>>
      BY <2>1 DEF ReceiveVersion, Deliver
    <3>2. Head(watch) \in Version /\ Tail(watch) \in Seq(Version)
      BY <1>1, <3>1 DEF CRTypeOK
    <3> QED
      BY <1>1, <3>1, <3>2 DEF CRTypeOK
  <2>2. CASE ReceiveList
    <3>1. relists < MaxRelists /\ relists' = relists + 1 /\ crCache' = cr
          /\ watch' = <<>> /\ queued' \in BOOLEAN /\ UNCHANGED <<cr, rv, edits>>
      BY <2>2 DEF ReceiveList, Relist
    <3>2. relists' \in 0..MaxRelists
      BY <1>1, <3>1, EditBoundsAssumption DEF CRTypeOK
    <3>3. <<>> \in Seq(Version)
      OBVIOUS
    <3> QED
      BY <1>1, <3>1, <3>2, <3>3 DEF CRTypeOK
  <2>3. CASE PeriodicResync
    BY <1>1, <2>3 DEF PeriodicResync, Resync, CRTypeOK
  <2> QED
    BY <2>1, <2>2, <2>3
<1> QED
  BY <1>1, <1>2, SameType, SameWorkerOK, TypeInvParts

LEMMA ReceiveChildOK ==
  ASSUME TypeInv, NEW i \in Informers, ReceiveChild(i)
  PROVE  TypeInv'
<1> DEFINE Change == [object : Objects, present : BOOLEAN]
<1>1. ChildTypeOK /\ UNCHANGED crVars /\ UNCHANGED workerVars /\ UNCHANGED faultVars
  BY DEF ReceiveChild, TypeInv, TypeOK
<1>2. lag[i] \in Seq(Change) /\ lag[i] # <<>>
  BY <1>1 DEF ReceiveChild, ChildTypeOK
<1>3. Head(lag[i]) \in Change /\ Tail(lag[i]) \in Seq(Change)
  BY <1>2, HeadTailProperties
<1>4. Head(lag[i]).object \in Objects
  BY <1>3
<1>5. childCache' \subseteq Objects
  BY <1>1, <1>4 DEF ReceiveChild, CacheWith, ChildTypeOK
<1>6. lag' \in [Informers -> Seq(Change)]
  BY <1>1, <1>3 DEF ReceiveChild, ChildTypeOK
<1>7. ChildTypeOK'
  BY <1>1, <1>5, <1>6 DEF ReceiveChild, ChildTypeOK
<1> QED
  BY <1>1, <1>7, SameType, SameWorkerOK, TypeInvParts

LEMMA TouchOK ==
  ASSUME TypeInv, NEW o \in Objects, Touch(o)
  PROVE  TypeInv'
<1>1. /\ ChildTypeOK /\ WorkerTypeOK /\ FaultTypeOK /\ LoopsInRange
      /\ UNCHANGED crVars /\ UNCHANGED <<pc, loop, obj, replica, listed, child>>
      /\ UNCHANGED <<faults, crashes>>
  BY DEF Touch, TypeInv, TypeOK
<1>2. ChildTypeOK'
  <2>1. Notice(o, TRUE)
    BY DEF Touch
  <2> QED
    BY <1>1, <2>1, NoticeType DEF ChildTypeOK
<1>3. FaultTypeOK'
  BY <1>1, FaultBoundsAssumption DEF Touch, FaultTypeOK
<1>4. service' \in Readings /\ instance' \in Readings
  BY <1>1 DEF Touch, WorkerTypeOK, Readings
<1>5. WorkerTypeOK'
  BY <1>1, <1>4 DEF WorkerTypeOK
<1>6. LoopsInRange'
  BY <1>1 DEF LoopsInRange
<1> QED
  BY <1>1, <1>2, <1>3, <1>5, <1>6, SameType, TypeInvParts DEF WorkerOK

LEMMA CrashOK ==
  ASSUME TypeInv, Crash
  PROVE  TypeInv'
<1>1. CRTypeOK /\ WorkerTypeOK /\ ChildTypeOK /\ FaultTypeOK
  BY DEF TypeInv, TypeOK
<1>2. CRTypeOK'
  <2>1. crCache' = cr /\ watch' = <<>> /\ queued' = Exists(cr)
        /\ UNCHANGED <<cr, rv, edits, relists>>
    BY DEF Crash, RestartInformer
  <2>2. Exists(cr) \in BOOLEAN /\ <<>> \in Seq(Version)
    BY DEF Exists
  <2> QED
    BY <1>1, <2>1, <2>2 DEF CRTypeOK
<1>3. WorkerOK'
  BY <1>1, ReleaseOK DEF Crash
<1>4. ChildTypeOK'
  <2>1. \A i \in Informers : <<>> \in Seq([object : Objects, present : BOOLEAN])
    OBVIOUS
  <2> QED
    BY <1>1, <2>1 DEF Crash, ChildTypeOK
<1>5. FaultTypeOK'
  BY <1>1, FaultBoundsAssumption DEF Crash, FaultTypeOK
<1> QED
  BY <1>2, <1>3, <1>4, <1>5, TypeInvParts

LEMMA UserWriteOK ==
  ASSUME TypeInv, UserWrite
  PROVE  TypeInv'
<1>1. User /\ UNCHANGED workerVars /\ UNCHANGED childVars /\ UNCHANGED faultVars
  BY DEF UserWrite
<1>2. CRTypeOK'
  BY <1>1, UserType, TypeInvParts
<1> QED
  BY <1>1, <1>2, SameType, SameWorkerOK, TypeInvParts

-----------------------------------------------------------------------------

LEMMA InitTypeInv == Init => TypeInv
<1> SUFFICES ASSUME Init PROVE TypeInv
  OBVIOUS
<1>1. CRTypeOK
  <2>1. <<>> \in Seq(Version) /\ 0 \in 0..MaxEdits /\ 0 \in 0..MaxRelists /\ 0 \in Nat
    BY EditBoundsAssumption
  <2> QED
    BY <2>1, NoObjectIsVersion DEF Init, CRInit, CRTypeOK
<1>2. 0 \in 0..(MaxReplicas + 1)
  BY ReplicasAssumption
<1>3. WorkerTypeOK
  BY <1>2, NoObjectIsVersion DEF Init, WorkerTypeOK, Steps, Readings
<1>4. ChildTypeOK
  <2>1. <<>> \in Seq([object : Objects, present : BOOLEAN]) /\ 0 \in Nat
    OBVIOUS
  <2> QED
    BY <2>1 DEF Init, ChildTypeOK
<1>5. FaultTypeOK
  BY FaultBoundsAssumption DEF Init, FaultTypeOK
<1>6. LoopsInRange
  BY DEF Init, LoopsInRange, PerReplica
<1> QED
  BY <1>1, <1>3, <1>4, <1>5, <1>6 DEF TypeInv, TypeOK

LEMMA StepTypeInv == TypeInv /\ [Next]_vars => TypeInv'
<1> SUFFICES ASSUME TypeInv, [Next]_vars PROVE TypeInv'
  OBVIOUS
<1>1. CASE Worker
  <2>1. CASE ReconcileNotFound \/ Reconcile
    BY <2>1, ReconcileOK
  <2>2. CASE AddFinalizerCall
    BY <2>2, AddFinalizerCallOK
  <2>3. CASE CreateConfigMaps
    BY <2>3, CreateConfigMapsOK
  <2>4. CASE SkipExisting
    BY <2>4, SkipExistingOK
  <2>5. CASE GetService
    BY <2>5, GetServiceOK
  <2>6. CASE CreateService
    BY <2>6, CreateServiceOK
  <2>7. CASE CreateSIP
    BY <2>7, CreateSIPOK
  <2>8. CASE CreateInstance
    BY <2>8, CreateInstanceOK
  <2>9. CASE StartUpdate
    BY <2>9, StartUpdateOK
  <2>10. CASE UpdateConfigMaps
    BY <2>10, UpdateConfigMapsOK
  <2>11. CASE UpdateSIP
    BY <2>11, UpdateSIPOK
  <2>12. CASE UpdateInstance
    BY <2>12, UpdateInstanceOK
  <2>13. CASE UpdateStatus
    BY <2>13, UpdateStatusOK
  <2>14. CASE RemoveFinalizerCall \/ StartDelete
    BY <2>14, RemoveFinalizerCallOK, StartDeleteOK
  <2>15. CASE DeleteService
    BY <2>15, DeleteServiceOK
  <2>16. CASE DeleteExporter
    BY <2>16, DeleteExporterOK
  <2>17. CASE DeleteInstance
    BY <2>17, DeleteInstanceOK
  <2>18. CASE ListConfigMaps \/ DeleteConfigMap \/ FinishDelete
    BY <2>18, ConfigMapStepsOK
  <2> QED
    BY <1>1, <2>1, <2>2, <2>3, <2>4, <2>5, <2>6, <2>7, <2>8, <2>9, <2>10,
       <2>11, <2>12, <2>13, <2>14, <2>15, <2>16, <2>17, <2>18 DEF Worker
<1>2. CASE ReceiveVersion \/ ReceiveList \/ PeriodicResync
  BY <1>2, DeliveryOK
<1>3. ASSUME NEW i \in Informers, ReceiveChild(i) PROVE TypeInv'
  BY <1>3, ReceiveChildOK
<1>4. ASSUME NEW o \in Objects, Touch(o) PROVE TypeInv'
  BY <1>4, TouchOK
<1>5. CASE Crash
  BY <1>5, CrashOK
<1>6. CASE UserWrite
  BY <1>6, UserWriteOK
<1>7. CASE UNCHANGED vars
  <2>1. UNCHANGED crVars /\ UNCHANGED workerVars /\ UNCHANGED childVars
        /\ UNCHANGED faultVars
    BY <1>7 DEF vars
  <2> QED
    BY <2>1, SameType, SameWorkerOK, TypeInvParts
<1> QED
  BY <1>1, <1>2, <1>3, <1>4, <1>5, <1>6, <1>7 DEF Next

\* Every variable keeps its type, for any number of replicas, users' writes,
\* faults and restarts, and whichever caches lag.
THEOREM TypeCorrect == Spec => []TypeOK
<1>1. TypeInv => TypeOK
  BY DEF TypeInv
<1> QED
  BY <1>1, InitTypeInv, StepTypeInv, PTL DEF Spec

\* The loops of Create, Update and Delete address only replicas in range, and a
\* scale-down addresses only surplus bridges and never the first.
THEOREM LoopsStayInRange == Spec => []LoopsInRange
<1>1. TypeInv => LoopsInRange
  BY DEF TypeInv
<1> QED
  BY <1>1, InitTypeInv, StepTypeInv, PTL DEF Spec

-----------------------------------------------------------------------------
(* The optimistic lock: every copy that carries the stored resourceVersion   *)
(* is a copy of the stored object.                                           *)

VersionsInv == TypeInv /\ VersionsAgree

\* What can happen to the stored object in a step.
CRWrite == \/ UNCHANGED <<cr, rv>>
           \/ Remove
           \/ \E w \in Version : Store(w)

LEMMA FitsLater ==
  ASSUME NEW v \in Version, NEW c \in Version, NEW n \in Nat, Fits(v, c, n)
  PROVE  /\ Fits(v, NoObject, n + 1)
         /\ \A d \in Version : d.rv = n + 1 => Fits(v, d, n + 1)
<1>1. v.rv \in Nat /\ v.rv <= n
  BY DEF Fits, Version
<1>2. v.rv <= n + 1 /\ v.rv # n + 1
  BY <1>1
<1>3. Fits(v, NoObject, n + 1)
  BY <1>2 DEF Fits, Exists, NoObject
<1> QED
  BY <1>2, <1>3 DEF Fits

LEMMA FitsItself ==
  ASSUME NEW d \in Version, NEW n \in Nat, d.rv <= n
  PROVE  Fits(d, d, n)
  BY DEF Fits, Agrees

LEMMA FitsNoObject ==
  ASSUME NEW c \in Version, NEW n \in Nat
  PROVE  Fits(NoObject, c, n)
<1>1. NoObject.rv = 0 /\ 0 <= n
  BY DEF NoObject
<1> QED
  BY <1>1 DEF Fits, Exists

LEMMA VersionsType ==
  ASSUME TypeInv
  PROVE  Versions \subseteq Version /\ cr \in Version /\ rv \in Nat
<1>1. cr \in Version /\ obj \in Version /\ crCache \in Version /\ rv \in Nat
      /\ watch \in Seq(Version)
  BY DEF TypeInv, TypeOK, CRTypeOK, WorkerTypeOK
<1>2. \A k \in DOMAIN watch : watch[k] \in Version
  BY <1>1
<1> QED
  BY <1>1, <1>2 DEF Versions, Announced

LEMMA OldVersionsFit ==
  ASSUME VersionsInv, CRWrite, NEW v \in Versions
  PROVE  Fits(v, cr', rv')
<1>1. v \in Version /\ cr \in Version /\ rv \in Nat /\ Fits(v, cr, rv)
  BY VersionsType DEF VersionsInv, VersionsAgree
<1>2. CASE UNCHANGED <<cr, rv>>
  BY <1>1, <1>2
<1>3. CASE Remove
  BY <1>1, <1>3, FitsLater DEF Remove
<1>4. ASSUME NEW w \in Version, Store(w) PROVE Fits(v, cr', rv')
  <2>1. Stored(w) \in Version /\ cr' = Stored(w) /\ rv' = rv + 1
    BY <1>1, <1>4, StoreType DEF VersionsInv, TypeInv, TypeOK, CRWritten, Store
  <2>2. Stored(w).rv = rv + 1
    BY DEF Stored, Version
  <2> QED
    BY <1>1, <2>1, <2>2, FitsLater
<1> QED
  BY <1>2, <1>3, <1>4 DEF CRWrite

LEMMA NewVersionFits ==
  ASSUME VersionsInv, TypeInv', CRWrite
  PROVE  Fits(cr', cr', rv') /\ Fits(NoObject, cr', rv')
<1>1. cr \in Version /\ rv \in Nat /\ cr' \in Version /\ rv' \in Nat
  BY DEF VersionsInv, TypeInv, TypeOK, CRTypeOK
<1>2. cr'.rv <= rv'
  <2>1. CASE UNCHANGED <<cr, rv>>
    <3>1. cr \in Versions
      BY DEF Versions
    <3> QED
      BY <2>1, <3>1 DEF VersionsInv, VersionsAgree, Fits
  <2>2. CASE Remove
    BY <1>1, <2>2 DEF Remove, NoObject
  <2>3. ASSUME NEW w \in Version, Store(w) PROVE cr'.rv <= rv'
    BY <1>1, <2>3 DEF Store, Stored, Version
  <2> QED
    BY <2>1, <2>2, <2>3 DEF CRWrite
<1> QED
  BY <1>1, <1>2, FitsItself, FitsNoObject

\* A step keeps the invariant if every version it brings into circulation is
\* one that was there, the new stored one, none, or the held one with its
\* finalizer changed - or the last answer for an object that is gone.
LEMMA CirculationKeepsVersions ==
  ASSUME VersionsInv, TypeInv', CRWrite,
         \/ obj' \in Versions \cup {cr', NoObject}
         \/ \E b \in BOOLEAN : obj' = [obj EXCEPT !.fin = b]
         \/ Remove /\ obj'.rv = obj.rv,
         crCache' \in Versions \cup {cr'},
         Announced' \subseteq Versions \cup {cr'}
  PROVE  VersionsInv'
<1>1. \A v \in Versions \cup {cr', NoObject} : Fits(v, cr', rv')
  BY OldVersionsFit, NewVersionFits
<1>2. obj \in Version /\ Fits(obj, cr', rv')
  <2>1. obj \in Versions
    BY DEF Versions
  <2> QED
    BY <1>1, <2>1, VersionsType DEF VersionsInv
<1>3. \A b \in BOOLEAN : Fits([obj EXCEPT !.fin = b], cr', rv')
  <2> SUFFICES ASSUME NEW b \in BOOLEAN PROVE Fits([obj EXCEPT !.fin = b], cr', rv')
    OBVIOUS
  <2> DEFINE w == [obj EXCEPT !.fin = b]
  <2>1. /\ w.rv = obj.rv /\ w.replicas = obj.replicas /\ w.conf = obj.conf
        /\ w.status = obj.status /\ w.del = obj.del
    BY <1>2 DEF Version
  <2> HIDE DEF w
  <2>2. Fits(w, cr', rv')
    BY <1>2, <2>1 DEF Fits, Agrees
  <2> QED
    BY <2>2 DEF w
<1>4. Remove /\ obj'.rv = obj.rv => Fits(obj', cr', rv')
  BY <1>2 DEF Remove, Fits, Exists, NoObject
<1>5. Fits(obj', cr', rv')
  BY <1>1, <1>3, <1>4
<1>6. Versions' \subseteq Versions \cup {cr', obj'}
  BY DEF Versions
<1>7. \A v \in Versions' : Fits(v, cr', rv')
  BY <1>1, <1>5, <1>6
<1> QED
  BY <1>7 DEF VersionsInv, VersionsAgree

\* Announcing a stored version adds it, and nothing else.
LEMMA WriteAnnounces ==
  ASSUME TypeInv, CRWrite, UNCHANGED <<cr, rv>> => UNCHANGED watch
  PROVE  Announced' \subseteq Versions \cup {cr'}
<1>1. watch \in Seq(Version) /\ CRTypeOK
  BY DEF TypeInv, TypeOK, CRTypeOK
<1>2. CASE UNCHANGED <<cr, rv>>
  BY <1>2 DEF Announced, Versions
<1>3. ASSUME NEW v \in Version, watch' = Append(watch, v), cr' = v
      PROVE  Announced' \subseteq Versions \cup {cr'}
  BY <1>1, <1>3, AnnouncedAppend DEF Announced, Versions
<1>4. CASE Remove
  BY <1>3, <1>4, NoObjectIsVersion DEF Remove
<1>5. ASSUME NEW w \in Version, Store(w) PROVE Announced' \subseteq Versions \cup {cr'}
  <2>1. Stored(w) \in Version
    BY <1>1, <1>5, StoreType DEF CRWritten, Store
  <2> QED
    BY <1>3, <1>5, <2>1 DEF Store
<1> QED
  BY <1>2, <1>4, <1>5 DEF CRWrite

\* The worker's steps that write nothing of the resource.
LEMMA LocalSteps ==
  ASSUME Worker, ~AddFinalizerCall, ~UpdateStatus, ~RemoveFinalizerCall
  PROVE  /\ UNCHANGED <<cr, rv, crCache, watch, edits>>
         /\ obj' \in {obj, NoObject, crCache}
<1> USE DEF sameCR, crVars, Round, Goto, Done, Return, Release
<1>1. CASE ReconcileNotFound \/ Reconcile
  BY <1>1 DEF ReconcileNotFound, Reconcile, Take, workerVars
<1>2. CASE CreateConfigMaps \/ SkipExisting \/ GetService \/ CreateService
           \/ CreateSIP \/ CreateInstance
  BY <1>2 DEF CreateConfigMaps, SkipExisting, GetService, CreateService,
              CreateSIP, CreateInstance
<1>3. CASE StartUpdate \/ UpdateConfigMaps \/ UpdateInstance
  BY <1>3 DEF StartUpdate, UpdateConfigMaps, UpdateInstance, ScaleDownFrom,
              UpdateFrom
<1>4. CASE UpdateSIP
  BY <1>4 DEF UpdateSIP
<1>5. CASE StartDelete \/ DeleteService \/ DeleteExporter \/ DeleteInstance
  BY <1>5 DEF StartDelete, DeleteService, DeleteExporter, DeleteInstance,
              ScaleDownFrom, DeleteFrom
<1>6. CASE ListConfigMaps \/ DeleteConfigMap \/ FinishDelete
  BY <1>6 DEF ListConfigMaps, DeleteConfigMap, FinishDelete
<1> QED
  BY <1>1, <1>2, <1>3, <1>4, <1>5, <1>6 DEF Worker

\* The finalizer helpers and the status write store a version, drop the object,
\* or change nothing.
LEMMA ResourceWrites ==
  ASSUME TypeInv, AddFinalizerCall \/ UpdateStatus \/ RemoveFinalizerCall
  PROVE  /\ CRWrite /\ (UNCHANGED <<cr, rv>> => UNCHANGED watch)
         /\ \/ obj' \in {obj, cr', NoObject}
            \/ \E b \in BOOLEAN : obj' = [obj EXCEPT !.fin = b]
            \/ Remove /\ obj'.rv = obj.rv
         /\ UNCHANGED <<crCache, edits>>
<1>1. obj \in Version /\ cr \in Version /\ rv \in Nat /\ obj.replicas \in 0..MaxReplicas
  BY ReplicasOfVersion DEF TypeInv, TypeOK, CRTypeOK, WorkerTypeOK
<1> DEFINE Quietly == CRWrite /\ (UNCHANGED <<cr, rv>> => UNCHANGED watch)
<1>2. UNCHANGED <<cr, rv, watch>> => Quietly
  BY DEF CRWrite
<1>3. ASSUME NEW w \in Version, Store(w) PROVE Quietly
  <2>1. rv' # rv
    BY <1>1, <1>3 DEF Store
  <2> QED
    BY <1>3, <2>1 DEF CRWrite
<1>4. Remove => Quietly
  <2>1. Remove => rv' # rv
    BY <1>1 DEF Remove
  <2> QED
    BY <2>1 DEF CRWrite
<1>5. CASE AddFinalizerCall
  <2>1. [obj EXCEPT !.fin = TRUE] \in Version
    BY <1>1 DEF Version
  <2>2. AddFinalizer(obj) => Quietly
    BY <1>3, <2>1, DefaultedType DEF AddFinalizer
  <2> QED
    BY <1>2, <1>5, <2>2 DEF AddFinalizerCall
<1>6. CASE UpdateStatus
  <2>1. [cr EXCEPT !.status = obj.replicas] \in Version
    BY <1>1 DEF Version
  <2>2. WriteStatus(obj, obj.replicas) => Quietly
    BY <1>2, <1>3, <2>1 DEF WriteStatus
  <2> QED
    BY <1>2, <1>6, <2>2 DEF UpdateStatus, Return, Release
<1>7. CASE RemoveFinalizerCall
  <2>1. Defaulted([obj EXCEPT !.fin = FALSE]).rv = obj.rv
    BY <1>1, FinalizedFields
  <2>2. RemoveFinalizer(obj) => Remove /\ Quietly
    BY <1>4 DEF RemoveFinalizer
  <2>3. Quietly /\ UNCHANGED <<crCache, edits>>
    BY <1>2, <1>7, <2>2 DEF RemoveFinalizerCall
  <2> QED
    BY <1>7, <2>1, <2>2, <2>3 DEF RemoveFinalizerCall
<1> QED
  BY <1>5, <1>6, <1>7

LEMMA UserWrites ==
  ASSUME TypeInv, UserWrite
  PROVE  CRWrite /\ UNCHANGED <<obj, crCache>> /\ rv' # rv
<1>1. User /\ UNCHANGED obj
  BY DEF UserWrite, workerVars
<1>2. cr \in Version /\ rv \in Nat /\ edits + 1 \in Nat /\ ReplicaCounts \subseteq 0..MaxReplicas
  BY EditBoundsAssumption, ReplicasAssumption DEF TypeInv, TypeOK, CRTypeOK
<1>3. UNCHANGED crCache
  BY <1>1 DEF User, UserCreate, UserScale, UserReconfigure, UserDelete, UserStep
<1>4. Remove \/ \E w \in Version : Store(w)
  <2>1. ASSUME NEW n \in ReplicaCounts, UserCreate(n) \/ UserScale(n)
        PROVE  \E w \in Version : Store(w)
    <3>1. /\ [NoObject EXCEPT !.replicas = n, !.conf = edits + 1] \in Version
          /\ [cr EXCEPT !.replicas = n] \in Version
      BY <1>2, NoObjectIsVersion DEF Version
    <3> QED
      BY <2>1, <3>1 DEF UserCreate, UserScale
  <2>2. CASE UserReconfigure
    <3>1. [cr EXCEPT !.conf = edits + 1] \in Version
      BY <1>2 DEF Version
    <3> QED
      BY <2>2, <3>1 DEF UserReconfigure
  <2>3. CASE UserDelete
    <3>1. [cr EXCEPT !.del = TRUE] \in Version
      BY <1>2 DEF Version
    <3> QED
      BY <2>3, <3>1 DEF UserDelete
  <2> QED
    BY <1>1, <2>1, <2>2, <2>3 DEF User
<1>5. rv' # rv
  BY <1>2, <1>4 DEF Remove, Store
<1> QED
  BY <1>1, <1>3, <1>4, <1>5 DEF CRWrite

\* The informer moves along the announced versions, or to the stored one.
LEMMA DeliverySteps ==
  ASSUME TypeInv, ReceiveVersion \/ ReceiveList \/ PeriodicResync \/ Crash
  PROVE  /\ UNCHANGED <<cr, rv, edits>> /\ obj' \in {obj, NoObject}
         /\ crCache' \in Versions /\ Announced' \subseteq Announced
<1>1. watch \in Seq(Version) /\ cr \in Versions /\ crCache \in Versions
  BY DEF TypeInv, TypeOK, CRTypeOK, Versions
<1>2. CASE ReceiveVersion
  <2>1. /\ UNCHANGED <<cr, rv, edits, obj>> /\ watch # <<>>
        /\ crCache' = Head(watch) /\ watch' = Tail(watch)
    BY <1>2 DEF ReceiveVersion, Deliver, workerVars
  <2>2. Head(watch) \in Announced /\ Announced' \subseteq Announced
    BY <1>1, <2>1, AnnouncedTail DEF Announced
  <2> QED
    BY <2>1, <2>2 DEF Versions
<1>3. CASE ReceiveList \/ Crash
  <2>1. /\ UNCHANGED <<cr, rv, edits>> /\ obj' \in {obj, NoObject}
        /\ crCache' = cr /\ watch' = <<>>
    BY <1>3 DEF ReceiveList, Relist, Crash, RestartInformer, Release, workerVars
  <2> QED
    BY <1>1, <2>1 DEF Announced
<1>4. CASE PeriodicResync
  BY <1>1, <1>4 DEF PeriodicResync, Resync, workerVars, Announced
<1> QED
  BY <1>2, <1>3, <1>4

\* What is left: the child objects' caches, other controllers, no step at all.
LEMMA OtherSteps ==
  ASSUME \/ \E i \in Informers : ReceiveChild(i)
         \/ \E o \in Objects : Touch(o)
         \/ UNCHANGED vars
  PROVE  UNCHANGED <<crVars, pc, obj, child>>
<1>1. ASSUME NEW i \in Informers, ReceiveChild(i)
      PROVE  UNCHANGED <<crVars, pc, obj, child>>
  BY <1>1 DEF ReceiveChild, workerVars
<1>2. ASSUME NEW o \in Objects, Touch(o)
      PROVE  UNCHANGED <<crVars, pc, obj, child>>
  BY <1>2 DEF Touch
<1>3. CASE UNCHANGED vars
  BY <1>3 DEF vars, workerVars, childVars
<1> QED
  BY <1>1, <1>2, <1>3

LEMMA InitVersions == Init => VersionsInv
<1> SUFFICES ASSUME Init PROVE VersionsInv
  OBVIOUS
<1>1. Versions = {NoObject} /\ cr = NoObject /\ rv = 0
  BY DEF Init, CRInit, Versions, Announced
<1>2. Fits(NoObject, NoObject, 0)
  BY NoObjectIsVersion, FitsNoObject
<1> QED
  BY <1>1, <1>2, InitTypeInv DEF VersionsInv, VersionsAgree

LEMMA StepVersions == VersionsInv /\ [Next]_vars => VersionsInv'
<1> SUFFICES ASSUME VersionsInv, [Next]_vars PROVE VersionsInv'
  OBVIOUS
<1>1. TypeInv /\ TypeInv'
  BY StepTypeInv DEF VersionsInv
<1>2. {cr, obj, crCache} \cup Announced = Versions
  BY DEF Versions
<1>3. CASE AddFinalizerCall \/ UpdateStatus \/ RemoveFinalizerCall
  BY <1>1, <1>2, <1>3, ResourceWrites, WriteAnnounces, CirculationKeepsVersions
<1>4. CASE Worker /\ ~(AddFinalizerCall \/ UpdateStatus \/ RemoveFinalizerCall)
  <2>1. /\ UNCHANGED <<cr, rv, crCache, watch, edits>>
        /\ obj' \in {obj, NoObject, crCache}
    BY <1>4, LocalSteps
  <2>2. Announced' = Announced
    BY <2>1 DEF Announced
  <2> QED
    BY <1>1, <1>2, <2>1, <2>2, CirculationKeepsVersions DEF CRWrite
<1>5. CASE UserWrite
  BY <1>1, <1>2, <1>5, UserWrites, WriteAnnounces, CirculationKeepsVersions
<1>6. CASE ReceiveVersion \/ ReceiveList \/ PeriodicResync \/ Crash
  BY <1>1, <1>2, <1>6, DeliverySteps, CirculationKeepsVersions DEF CRWrite
<1>7. CASE \/ \E i \in Informers : ReceiveChild(i)
           \/ \E o \in Objects : Touch(o)
           \/ UNCHANGED vars
  <2>1. UNCHANGED <<cr, rv, crCache, watch, obj>>
    BY <1>7, OtherSteps DEF crVars
  <2>2. Announced' = Announced
    BY <2>1 DEF Announced
  <2> QED
    BY <1>1, <1>2, <2>1, <2>2, CirculationKeepsVersions DEF CRWrite
<1> QED
  BY <1>3, <1>4, <1>5, <1>6, <1>7 DEF Next

\* No copy of the resource lies about the resourceVersion it carries.
THEOREM CopiesAgree == Spec => []VersionsAgree
<1>1. VersionsInv => VersionsAgree
  BY DEF VersionsInv
<1> QED
  BY <1>1, InitVersions, StepVersions, PTL DEF Spec

\* The status is only ever set to the replica count of the version it is stored
\* with, however users, caches, faults and restarts interleave.
THEOREM StatusAlwaysMatches == Spec => StatusMatchesSpec
<1> DEFINE Matches == Exists(cr) /\ Exists(cr') /\ cr'.status # cr.status
                        => cr'.status = cr'.replicas
<1>1. ASSUME VersionsInv, [Next]_vars PROVE Matches
  <2>1. TypeInv /\ cr \in Version /\ rv \in Nat /\ obj \in Versions /\ obj \in Version
    BY <1>1, VersionsType DEF VersionsInv, Versions
  <2>2. Current(obj) => Agrees(obj, cr)
    BY <1>1, <2>1 DEF VersionsInv, VersionsAgree, Fits, Current
  <2>3. CASE UpdateStatus
    <3>1. obj.replicas \in 0..MaxReplicas
      BY <2>1 DEF Version
    <3>2. CASE UNCHANGED cr
      BY <3>2
    <3>3. CASE Current(obj) /\ Store([cr EXCEPT !.status = obj.replicas])
      BY <2>1, <2>2, <3>1, <3>3 DEF Store, Stored, Version, Agrees
    <3> QED
      BY <2>3, <3>2, <3>3 DEF UpdateStatus, WriteStatus
  <2>4. ASSUME NEW v \in Version, Store(v), v.status = cr.status PROVE Matches
    BY <2>4, StoredFields DEF Store
  <2>5. Remove => Matches
    BY DEF Remove, NoObject, Exists
  <2>6. CASE AddFinalizerCall \/ RemoveFinalizerCall
    <3>1. \/ UNCHANGED cr \/ Remove
          \/ Current(obj) /\ \E b \in BOOLEAN : Store(Defaulted([obj EXCEPT !.fin = b]))
      BY <2>6 DEF AddFinalizerCall, AddFinalizer, RemoveFinalizerCall, RemoveFinalizer
    <3> QED
      BY <2>1, <2>2, <2>4, <2>5, <3>1, FinalizedFields DEF Agrees
  <2>7. CASE UserWrite
    <3>1. edits + 1 \in Nat /\ ReplicaCounts \subseteq 0..MaxReplicas
      BY <2>1, EditBoundsAssumption, ReplicasAssumption DEF TypeInv, TypeOK, CRTypeOK
    <3>2. \A n \in ReplicaCounts : /\ [cr EXCEPT !.replicas = n] \in Version
                                   /\ [cr EXCEPT !.replicas = n].status = cr.status
      BY <2>1, <3>1 DEF Version
    <3>3. /\ [cr EXCEPT !.conf = edits + 1] \in Version
          /\ [cr EXCEPT !.conf = edits + 1].status = cr.status
      BY <2>1, <3>1 DEF Version
    <3>4. /\ [cr EXCEPT !.del = TRUE] \in Version
          /\ [cr EXCEPT !.del = TRUE].status = cr.status
      BY <2>1 DEF Version
    <3> QED
      BY <2>4, <2>5, <2>7, <3>2, <3>3, <3>4
         DEF UserWrite, User, UserCreate, UserScale, UserReconfigure, UserDelete
  <2>8. CASE UNCHANGED cr
    BY <2>8
  <2> QED
    BY <1>1, <2>1, <2>3, <2>6, <2>7, <2>8, LocalSteps, DeliverySteps,
       OtherSteps DEF Next, crVars
<1>2. VersionsInv /\ [Next]_vars => [Matches]_vars
  BY <1>1
<1> QED
  BY <1>2, InitVersions, StepVersions, PTL DEF Spec, StatusMatchesSpec

-----------------------------------------------------------------------------
(* No child object is rendered again from an older configuration.            *)

OrderInv == VersionsInv /\ ConfigurationsInOrder

\* What the worker writes is the configuration it holds, nothing, or what is
\* there.
LEMMA WorkerWrites ==
  ASSUME TypeInv, Worker
  PROVE  /\ \A o \in Objects : child'[o] \in {child[o], 0, obj.conf}
         /\ pc = "idle" => child' = child
<1> DEFINE Good == \A o \in Objects : child'[o] \in {child[o], 0, obj.conf}
<1>1. ChildTypeOK
  BY DEF TypeInv, TypeOK
<1>2. child' = child => Good
  OBVIOUS
<1>3. ASSUME NEW o \in Objects, NEW c \in {child[o], 0, obj.conf},
             Try(o, c) \/ Put(o, c)
      PROVE  Good
  <2>1. child[o] \in Nat /\ obj.conf \in Nat /\ 0 \in Nat
    BY <1>1, RenderedType DEF TypeInv, ChildTypeOK
  <2>2. c \in Nat
    BY <2>1
  <2>3. child' = child \/ child' = [child EXCEPT ![o] = c]
    BY <1>3 DEF Try, Put, childVars
  <2> QED
    BY <1>1, <2>3 DEF ChildTypeOK
<1>4. \A o, reading : /\ AfterCreate(o) \in {child[o], 0, obj.conf}
                       /\ AfterUpdate(o, reading) \in {child[o], 0, obj.conf}
  BY DEF AfterCreate, AfterUpdate
<1>5. Shared \in Objects
  BY NamesAreObjects
<1>6. pc \in PerReplica => /\ Instance(replica) \in Objects
                           /\ Service(replica) \in Objects
                           /\ Exporter(replica) \in Objects
                           /\ SIP(replica) \in Objects
  BY InRange
<1>7. CASE \/ ReconcileNotFound \/ Reconcile \/ AddFinalizerCall \/ SkipExisting
           \/ StartUpdate \/ UpdateStatus \/ RemoveFinalizerCall \/ StartDelete
           \/ ListConfigMaps \/ FinishDelete
  BY <1>2, <1>7 DEF ReconcileNotFound, Reconcile, Take, AddFinalizerCall,
     SkipExisting, StartUpdate, UpdateStatus, RemoveFinalizerCall,
     StartDelete, ListConfigMaps, FinishDelete, childVars
<1>8. CASE CreateConfigMaps \/ UpdateConfigMaps
  BY <1>3, <1>4, <1>5, <1>8 DEF CreateConfigMaps, UpdateConfigMaps
<1>9. CASE GetService
  <2>1. replica \in 1..MaxReplicas
    <3>1. CASE pc = "getService"
      BY <3>1, InRange DEF PerReplica
    <3>2. CASE pc = "create" /\ replica <= obj.replicas
      <4>1. replica \in Nat /\ replica >= 1
        BY <3>2 DEF TypeInv, TypeOK, WorkerTypeOK, LoopsInRange
      <4> QED
        BY <3>2, <4>1, ReplicasOfVersion, ReplicasAssumption DEF TypeInv, TypeOK
    <3> QED
      BY <1>9, <3>1, <3>2 DEF GetService
  <2>2. Exporter(replica) \in Objects
    BY <2>1, NamesAreObjects
  <2>3. Good
    BY <1>3, <1>4, <1>9, <2>2 DEF GetService
  <2> QED
    BY <1>9, <2>3 DEF GetService
<1>10. CASE CreateService \/ CreateSIP \/ CreateInstance \/ UpdateSIP \/ UpdateInstance
  <2>1. pc \in PerReplica
    BY <1>10 DEF CreateService, CreateSIP, CreateInstance, UpdateSIP,
       UpdateInstance, PerReplica
  <2>2. Good
    BY <1>3, <1>4, <1>6, <1>10, <2>1 DEF CreateService, CreateSIP, CreateInstance,
       UpdateSIP, UpdateInstance
  <2> QED
    BY <2>1, <2>2 DEF PerReplica
<1>11. CASE DeleteService \/ DeleteExporter \/ DeleteInstance
  <2>1. pc \in PerReplica
    BY <1>11 DEF DeleteService, DeleteExporter, DeleteInstance, PerReplica
  <2>2. Good
    BY <1>2, <1>3, <1>6, <1>11, <2>1
       DEF DeleteService, DeleteExporter, DeleteInstance, DeleteCached, childVars
  <2> QED
    BY <2>1, <2>2 DEF PerReplica
<1>12. CASE DeleteConfigMap
  <2>1. listed \subseteq Objects
    BY DEF TypeInv, TypeOK, WorkerTypeOK, ConfigMaps
  <2> QED
    BY <1>3, <1>12, <2>1 DEF DeleteConfigMap
<1> QED
  BY <1>7, <1>8, <1>9, <1>10, <1>11, <1>12
     DEF Worker, ReconcileNotFound, Reconcile, Take, AddFinalizerCall,
         SkipExisting, StartUpdate, UpdateStatus, RemoveFinalizerCall,
         StartDelete, ListConfigMaps, FinishDelete, CreateConfigMaps, UpdateConfigMaps,
         GetService, DeleteConfigMap, childVars

\* The held object is let go, or keeps its configuration while the worker runs.
Holds == \/ pc' = "idle" /\ obj' = NoObject
         \/ obj' = obj /\ pc' = pc
         \/ Exists(obj') /\ Exists(obj) /\ obj'.conf = obj.conf /\ pc # "idle"
         \/ pc = "idle" /\ crCache' = crCache /\ obj' = crCache /\ Exists(crCache)

LEMMA OrderFacts ==
  ASSUME OrderInv
  PROVE  /\ cr \in Version /\ obj \in Version /\ crCache \in Version
         /\ watch \in Seq(Version) /\ edits \in Nat
         /\ \A k \in DOMAIN watch : watch[k] \in Version /\ watch[k] \in Announced
         /\ \A o \in Objects : child[o] \in Nat
         /\ NoObject.conf = 0 /\ ~Exists(NoObject)
<1>1. watch \in Seq(Version) /\ edits \in Nat
  BY EditBoundsAssumption DEF OrderInv, VersionsInv, TypeInv, TypeOK, CRTypeOK
<1>2. \A k \in DOMAIN watch : watch[k] \in Version /\ watch[k] \in Announced
  BY <1>1 DEF Announced
<1> QED
  BY <1>1, <1>2 DEF OrderInv, VersionsInv, TypeInv, TypeOK, CRTypeOK, WorkerTypeOK,
     ChildTypeOK, NoObject, Exists

LEMMA WorkerHolds ==
  ASSUME OrderInv, Worker
  PROVE  Holds
<1>1. TypeInv /\ obj \in Version /\ (pc # "idle" => Exists(obj))
  BY DEF OrderInv, VersionsInv, TypeInv, TypeOK, WorkerTypeOK, ConfigurationsInOrder
<1> USE DEF Holds, Round, Goto, Done, Return, Release, sameCR, crVars
<1>2. CASE ReconcileNotFound \/ Reconcile
  BY <1>2 DEF ReconcileNotFound, Reconcile, Take, workerVars
<1>3. CASE AddFinalizerCall
  <2>1. pc = "addFinalizer" /\ Exists(obj)
    BY <1>1, <1>3 DEF AddFinalizerCall
  <2>2. CASE obj' = [obj EXCEPT !.fin = TRUE]
    <3>1. [obj EXCEPT !.fin = TRUE].rv = obj.rv /\ [obj EXCEPT !.fin = TRUE].conf = obj.conf
      BY <1>1 DEF Version
    <3> QED
      BY <2>1, <2>2, <3>1 DEF Exists
  <2>3. CASE AddFinalizer(obj) /\ obj' = cr'
    <3>1. cr' = Stored(Defaulted([obj EXCEPT !.fin = TRUE]))
      BY <2>3 DEF AddFinalizer, Store
    <3>2. cr'.conf = obj.conf /\ cr'.rv = rv + 1
      BY <1>1, <3>1, FinalizedFields, StoredFields
    <3>3. rv + 1 > 0
      BY <1>1 DEF TypeInv, TypeOK, CRTypeOK
    <3> QED
      BY <2>1, <2>3, <3>2, <3>3 DEF Exists
  <2> QED
    BY <1>3, <2>2, <2>3 DEF AddFinalizerCall
<1>4. CASE CreateConfigMaps \/ SkipExisting \/ GetService \/ CreateService
           \/ CreateSIP \/ CreateInstance
  BY <1>1, <1>4 DEF CreateConfigMaps, SkipExisting, GetService, CreateService,
              CreateSIP, CreateInstance
<1>5. CASE StartUpdate \/ UpdateConfigMaps \/ UpdateInstance
  BY <1>1, <1>5 DEF StartUpdate, UpdateConfigMaps, UpdateInstance, ScaleDownFrom,
              UpdateFrom
<1>6. CASE UpdateSIP \/ UpdateStatus
  BY <1>1, <1>6 DEF UpdateSIP, UpdateStatus
<1>7. CASE StartDelete \/ DeleteService \/ DeleteExporter \/ DeleteInstance
  BY <1>1, <1>7 DEF StartDelete, DeleteService, DeleteExporter, DeleteInstance,
              ScaleDownFrom, DeleteFrom
<1>8. CASE RemoveFinalizerCall
  <2>1. pc # "idle" /\ Exists(obj) /\ obj'.conf = obj.conf /\ obj'.rv = obj.rv
    BY <1>1, <1>8, FinalizedFields DEF RemoveFinalizerCall
  <2> QED
    BY <2>1 DEF Exists
<1>9. CASE ListConfigMaps \/ DeleteConfigMap \/ FinishDelete
  BY <1>1, <1>9 DEF ListConfigMaps, DeleteConfigMap, FinishDelete
<1> QED
  BY <1>2, <1>3, <1>4, <1>5, <1>6, <1>7, <1>8, <1>9 DEF Worker

\* The configuration a step leaves with the worker is no newer than any version
\* the worker has yet to see, and no older than any child object.
LEMMA HeldInOrder ==
  ASSUME OrderInv, Holds
  PROVE  /\ pc' # "idle" => Exists(obj')
         /\ obj'.conf <= edits
         /\ Before(obj', cr) /\ Before(obj', crCache)
         /\ \A v \in Announced : Before(obj', v)
         /\ \A o \in Objects : Exists(obj') => child[o] <= obj'.conf
         /\ obj'.conf \in Nat
<1>1. /\ pc # "idle" => Exists(obj)
      /\ \A v \in Versions : v.conf <= edits /\ Before(v, cr)
      /\ \A v \in Announced : Before(crCache, v) /\ Before(obj, v)
      /\ Before(obj, crCache)
      /\ \A o \in Objects, v \in Versions : Exists(v) => child[o] <= v.conf
  BY DEF OrderInv, ConfigurationsInOrder
<1>2. {cr, obj, crCache} \subseteq Versions
  BY DEF Versions
<1>3. /\ obj.conf \in Nat /\ crCache.conf \in Nat /\ edits \in Nat
      /\ NoObject.conf = 0 /\ ~Exists(NoObject)
  BY OrderFacts DEF Version
<1>4. CASE pc' = "idle" /\ obj' = NoObject
  BY <1>3, <1>4 DEF Before
<1>5. CASE obj' = obj /\ pc' = pc
  BY <1>1, <1>2, <1>3, <1>5
<1>6. CASE Exists(obj') /\ Exists(obj) /\ obj'.conf = obj.conf
  BY <1>1, <1>2, <1>3, <1>6 DEF Before
<1>7. CASE obj' = crCache /\ Exists(crCache)
  BY <1>1, <1>2, <1>3, <1>7 DEF Before
<1> QED
  BY <1>4, <1>5, <1>6, <1>7 DEF Holds

\* A step that leaves the resource alone keeps the order, whatever the worker
\* writes.
LEMMA LocalOrder ==
  ASSUME OrderInv, VersionsInv', Holds, UNCHANGED <<cr, crCache, watch, edits>>,
         \A o \in Objects : child'[o] \in {child[o], 0, obj.conf},
         pc = "idle" => child' = child
  PROVE  OrderInv'
<1>1. /\ \A v \in Versions : v.conf <= edits /\ Before(v, cr)
      /\ \A v \in Announced : Before(crCache, v) /\ Before(obj, v)
      /\ Before(obj, crCache) /\ (pc # "idle" => Exists(obj))
      /\ \A k, l \in DOMAIN watch : k <= l => Before(watch[k], watch[l])
      /\ \A o \in Objects : child[o] <= edits
      /\ \A o \in Objects, v \in Versions : Exists(v) => child[o] <= v.conf
  BY DEF OrderInv, ConfigurationsInOrder
<1>2. Announced' = Announced /\ Versions' = {cr, obj', crCache} \cup Announced
  BY DEF Announced, Versions
<1>3. {cr, obj, crCache} \cup Announced = Versions
  BY DEF Versions
<1>4. pc # "idle" => obj.conf <= edits /\ \A v \in Versions : Exists(v) => obj.conf <= v.conf
  <2>1. obj \in Versions /\ obj.conf \in Nat
    BY <1>3, OrderFacts DEF Version
  <2>2. Before(obj, cr) /\ Before(obj, crCache) /\ \A v \in Announced : Before(obj, v)
    BY <1>1, <2>1
  <2>3. \A v \in Versions : Before(obj, v)
    <3>1. Before(obj, obj)
      BY <2>1 DEF Before
    <3> QED
      BY <1>3, <2>2, <3>1
  <2> QED
    BY <1>1, <2>1, <2>3 DEF Before
<1>5. \A o \in Objects, v \in Versions : Exists(v) => child'[o] <= v.conf
  <2>1. \A v \in Versions : v.conf \in Nat
    BY VersionsType DEF OrderInv, VersionsInv, Version
  <2> QED
    BY <1>1, <1>4, <2>1
<1>6. \A o \in Objects : child'[o] <= edits
  BY <1>1, <1>4, OrderFacts
<1>7. \A o \in Objects : Exists(obj') => child'[o] <= obj'.conf
  <2>1. CASE child' = child
    BY <2>1, HeldInOrder
  <2>2. CASE pc # "idle"
    <3>1. Exists(obj') => obj'.conf = obj.conf
      BY <2>2, OrderFacts DEF Holds
    <3> QED
      BY <1>4, <1>5, <2>2, <3>1, <1>1, <1>3
  <2> QED
    BY <2>1, <2>2
<1>8. ConfigurationsInOrder'
  BY <1>1, <1>2, <1>3, <1>5, <1>6, <1>7, HeldInOrder
     DEF ConfigurationsInOrder
<1> QED
  BY <1>8 DEF OrderInv

\* Announcing a version that is in order with all others keeps the order.
LEMMA AppendOrder ==
  ASSUME OrderInv, VersionsInv', Holds, UNCHANGED <<crCache, child>>,
         edits' >= edits, edits' \in Nat,
         NEW n \in Version, cr' = n, watch' = Append(watch, n),
         n.conf <= edits',
         \A v \in Versions : Before(v, n),
         \A o \in Objects : Exists(n) => child[o] <= n.conf
  PROVE  OrderInv'
<1>1. /\ \A v \in Versions : v.conf <= edits /\ Before(v, cr)
      /\ \A v \in Announced : Before(crCache, v)
      /\ \A k, l \in DOMAIN watch : k <= l => Before(watch[k], watch[l])
      /\ \A o \in Objects : child[o] <= edits
      /\ \A o \in Objects, v \in Versions : Exists(v) => child[o] <= v.conf
  BY DEF OrderInv, ConfigurationsInOrder
<1>2. {cr, obj, crCache} \cup Announced = Versions
  BY DEF Versions
<1>3. n.conf \in Nat /\ edits \in Nat /\ watch \in Seq(Version)
      /\ Len(watch) \in Nat /\ DOMAIN watch = 1..Len(watch)
  BY OrderFacts DEF Version
<1>4. \A k \in DOMAIN watch' :
        \/ k \in DOMAIN watch /\ watch'[k] = watch[k]
        \/ k = Len(watch) + 1 /\ watch'[k] = n
  BY <1>3, AnnouncedAppend
<1>5. Announced' \subseteq Announced \cup {n}
  BY <1>4 DEF Announced
<1>6. Versions' \subseteq Versions \cup {n, obj'}
  BY <1>2, <1>5 DEF Versions
<1>7. Before(n, n)
  BY <1>3 DEF Before
<1>8. Before(obj', n)
  <2>1. CASE pc' = "idle" /\ obj' = NoObject
    BY <2>1, OrderFacts DEF Before
  <2>2. CASE obj' = obj \/ obj' = crCache
    BY <1>2, <2>2
  <2>3. CASE Exists(obj') /\ Exists(obj) /\ obj'.conf = obj.conf
    <3>1. Before(obj, n)
      BY <1>2
    <3> QED
      BY <2>3, <3>1 DEF Before
  <2> QED
    BY <2>1, <2>2, <2>3 DEF Holds
<1>9. /\ pc' # "idle" => Exists(obj')
      /\ obj'.conf <= edits'
      /\ Before(obj', crCache)
      /\ \A v \in Announced : Before(obj', v)
      /\ \A o \in Objects : Exists(obj') => child[o] <= obj'.conf
  BY <1>3, HeldInOrder
<1>10. \A v \in Versions' : v.conf <= edits' /\ Before(v, n)
  <2>1. \A v \in Versions : v.conf <= edits'
    <3>1. \A v \in Versions : v.conf \in Nat
      BY VersionsType DEF OrderInv, VersionsInv, Version
    <3> QED
      BY <1>1, <1>3, <3>1
  <2> QED
    BY <1>6, <1>7, <1>8, <1>9, <2>1
<1>11. \A v \in Announced' : Before(crCache, v) /\ Before(obj', v)
  BY <1>1, <1>2, <1>5, <1>8, <1>9
<1>12. \A k, l \in DOMAIN watch' : k <= l => Before(watch'[k], watch'[l])
  <2> SUFFICES ASSUME NEW k \in DOMAIN watch', NEW l \in DOMAIN watch', k <= l
               PROVE  Before(watch'[k], watch'[l])
    OBVIOUS
  <2>1. CASE watch'[l] = n
    <3>1. CASE k \in DOMAIN watch /\ watch'[k] = watch[k]
      <4>1. watch[k] \in Versions
        BY <1>2, <3>1 DEF Announced
      <4> QED
        BY <2>1, <3>1, <4>1
    <3> QED
      BY <1>4, <1>7, <2>1, <3>1
  <2>2. CASE l \in DOMAIN watch /\ watch'[l] = watch[l]
    <3>1. k \in DOMAIN watch /\ watch'[k] = watch[k]
      BY <1>3, <1>4, <2>2
    <3> QED
      BY <1>1, <2>2, <3>1
  <2> QED
    BY <1>4, <2>1, <2>2
<1>13. \A o \in Objects : /\ child[o] <= edits'
                          /\ \A v \in Versions' : Exists(v) => child[o] <= v.conf
  BY <1>1, <1>3, <1>6, <1>9, OrderFacts
<1>14. ConfigurationsInOrder'
  BY <1>9, <1>10, <1>11, <1>12, <1>13 DEF ConfigurationsInOrder
<1> QED
  BY <1>14 DEF OrderInv

\* A write of the resource whose configuration is the stored one or brand new.
LEMMA WriteOrder ==
  ASSUME OrderInv, VersionsInv', Holds, UNCHANGED <<crCache, child>>,
         edits' \in {edits, edits + 1},
         \/ Remove
         \/ \E w \in Version : /\ Store(w) /\ w.conf <= edits'
                               /\ \/ Exists(cr) /\ w.conf >= cr.conf
                                  \/ w.conf >= edits
  PROVE  OrderInv'
<1>1. edits \in Nat /\ edits' >= edits /\ edits' \in Nat
  BY OrderFacts
<1>2. CASE Remove
  <2>1. NoObject.conf <= edits' /\ ~Exists(NoObject)
    BY <1>1, OrderFacts
  <2>2. \A v \in Versions : Before(v, NoObject)
    BY <2>1 DEF Before
  <2> QED
    BY <1>1, <1>2, <2>1, <2>2, NoObjectIsVersion, AppendOrder DEF Remove
<1>3. ASSUME NEW w \in Version, Store(w), w.conf <= edits',
             (Exists(cr) /\ w.conf >= cr.conf) \/ w.conf >= edits
      PROVE  OrderInv'
  <2>1. /\ \A v \in Versions : v.conf <= edits /\ Before(v, cr)
        /\ \A o \in Objects : child[o] <= edits
        /\ \A o \in Objects, v \in Versions : Exists(v) => child[o] <= v.conf
    BY DEF OrderInv, ConfigurationsInOrder
  <2>2. Stored(w) \in Version /\ Stored(w).conf = w.conf
    BY <1>3, StoreType, StoredFields
       DEF OrderInv, VersionsInv, TypeInv, TypeOK, CRWritten, Store
  <2>3. w.conf \in Nat /\ cr \in Versions /\ cr.conf \in Nat
    BY OrderFacts DEF Version, Versions
  <2>4. \A v \in Versions : v.conf \in Nat
    BY VersionsType DEF OrderInv, VersionsInv, Version
  <2>5. \A v \in Versions : Exists(v) => v.conf <= w.conf
    BY <1>1, <1>3, <2>1, <2>3, <2>4 DEF Before
  <2>6. \A o \in Objects : child[o] <= w.conf
    BY <1>1, <1>3, <2>1, <2>3, OrderFacts
  <2>7. \A v \in Versions : Before(v, Stored(w))
    BY <2>2, <2>5 DEF Before
  <2> HIDE DEF Stored
  <2> QED
    BY <1>1, <1>3, <2>2, <2>6, <2>7, AppendOrder DEF Store
<1> QED
  BY <1>2, <1>3

\* The operator's own writes of the resource carry the configuration they found.
LEMMA ResourceOrder ==
  ASSUME OrderInv, VersionsInv', AddFinalizerCall \/ UpdateStatus \/ RemoveFinalizerCall
  PROVE  OrderInv'
<1>1. Worker /\ UNCHANGED <<crCache, edits, child>>
  BY DEF Worker, AddFinalizerCall, UpdateStatus, RemoveFinalizerCall, childVars
<1>2. Holds /\ obj \in Version /\ cr \in Version /\ edits \in Nat
  BY <1>1, WorkerHolds, OrderFacts
<1>3. Current(obj) => Exists(cr) /\ obj.conf = cr.conf
  <2>1. obj \in Versions
    BY DEF Versions
  <2> QED
    BY <2>1 DEF OrderInv, VersionsInv, VersionsAgree, Fits, Agrees, Current
<1>4. cr.conf <= edits /\ cr.conf \in Nat /\ obj.replicas \in 0..MaxReplicas
  <2>1. cr \in Versions
    BY DEF Versions
  <2> QED
    BY <1>2, <2>1 DEF OrderInv, ConfigurationsInOrder, Version
<1>5. \/ UNCHANGED <<cr, watch>>
      \/ Remove
      \/ \E w \in Version : Store(w) /\ Exists(cr) /\ w.conf = cr.conf
  <2>1. ASSUME NEW b \in BOOLEAN, Current(obj), Store(Defaulted([obj EXCEPT !.fin = b]))
        PROVE  \E w \in Version : Store(w) /\ Exists(cr) /\ w.conf = cr.conf
    BY <1>2, <1>3, <2>1, FinalizedFields
  <2>2. CASE AddFinalizerCall
    BY <2>1, <2>2 DEF AddFinalizerCall, AddFinalizer
  <2>3. CASE RemoveFinalizerCall
    BY <2>3 DEF RemoveFinalizerCall, RemoveFinalizer
  <2>4. CASE UpdateStatus
    <3>1. /\ [cr EXCEPT !.status = obj.replicas] \in Version
          /\ [cr EXCEPT !.status = obj.replicas].conf = cr.conf
      BY <1>2, <1>4 DEF Version
    <3> QED
      BY <1>3, <2>4, <3>1 DEF UpdateStatus, WriteStatus
  <2> QED
    BY <2>2, <2>3, <2>4
<1>6. CASE UNCHANGED <<cr, watch>>
  BY <1>1, <1>2, <1>6, LocalOrder
<1>7. CASE Remove
  BY <1>1, <1>2, <1>7, WriteOrder
<1>8. ASSUME NEW w \in Version, Store(w), Exists(cr), w.conf = cr.conf
      PROVE  OrderInv'
  <2>1. w.conf <= edits' /\ w.conf >= cr.conf /\ edits' \in {edits, edits + 1}
    BY <1>1, <1>2, <1>4, <1>8
  <2> QED
    BY <1>1, <1>2, <1>8, <2>1, WriteOrder
<1> QED
  BY <1>5, <1>6, <1>7, <1>8

\* A user's write keeps the stored configuration or brings a new one.
LEMMA UserOrder ==
  ASSUME OrderInv, VersionsInv', UserWrite
  PROVE  OrderInv'
<1>1. User /\ UNCHANGED <<pc, obj, child, crCache>> /\ edits' = edits + 1
  BY DEF UserWrite, workerVars, childVars, User, UserCreate, UserScale,
     UserReconfigure, UserDelete, UserStep
<1>2. Holds /\ cr \in Version /\ edits \in Nat /\ edits + 1 \in Nat
  BY <1>1, OrderFacts DEF Holds
<1>3. cr.conf <= edits /\ cr.conf \in Nat /\ ReplicaCounts \subseteq 0..MaxReplicas
  <2>1. cr \in Versions
    BY DEF Versions
  <2> QED
    BY <1>2, <2>1, ReplicasAssumption DEF OrderInv, ConfigurationsInOrder, Version
<1>4. ASSUME NEW w \in Version, Store(w),
             w.conf = edits + 1 \/ (Exists(cr) /\ w.conf = cr.conf)
      PROVE  OrderInv'
  <2>1. /\ w.conf <= edits' /\ edits' \in {edits, edits + 1}
        /\ (Exists(cr) /\ w.conf >= cr.conf) \/ w.conf >= edits
    BY <1>1, <1>2, <1>3, <1>4
  <2> QED
    BY <1>1, <1>2, <1>4, <2>1, WriteOrder
<1>5. CASE Remove
  BY <1>1, <1>2, <1>5, WriteOrder
<1>6. ASSUME NEW n \in ReplicaCounts, UserCreate(n) PROVE OrderInv'
  <2> DEFINE w == [NoObject EXCEPT !.replicas = n, !.conf = edits + 1]
  <2>1. w \in Version /\ w.conf = edits + 1
    BY <1>2, <1>3, NoObjectIsVersion DEF Version
  <2>2. Store(w)
    BY <1>6 DEF UserCreate
  <2> HIDE DEF w
  <2> QED
    BY <1>4, <2>1, <2>2
<1>7. ASSUME NEW n \in ReplicaCounts, UserScale(n) PROVE OrderInv'
  <2> DEFINE w == [cr EXCEPT !.replicas = n]
  <2>1. w \in Version /\ w.conf = cr.conf
    BY <1>2, <1>3 DEF Version
  <2>2. Store(w) /\ Exists(cr)
    BY <1>7 DEF UserScale
  <2> HIDE DEF w
  <2> QED
    BY <1>4, <2>1, <2>2
<1>8. CASE UserReconfigure
  <2> DEFINE w == [cr EXCEPT !.conf = edits + 1]
  <2>1. w \in Version /\ w.conf = edits + 1
    BY <1>2 DEF Version
  <2>2. Store(w)
    BY <1>8 DEF UserReconfigure
  <2> HIDE DEF w
  <2> QED
    BY <1>4, <2>1, <2>2
<1>9. CASE UserDelete
  <2> DEFINE w == [cr EXCEPT !.del = TRUE]
  <2>1. w \in Version /\ w.conf = cr.conf
    BY <1>2 DEF Version
  <2>2. Exists(cr) /\ (Store(w) \/ Remove)
    BY <1>9 DEF UserDelete
  <2> HIDE DEF w
  <2> QED
    BY <1>4, <1>5, <2>1, <2>2
<1> QED
  BY <1>1, <1>6, <1>7, <1>8, <1>9 DEF User

\* The informer moves forward along the announced versions.
LEMMA DeliveryOrder ==
  ASSUME OrderInv, VersionsInv',
         ReceiveVersion \/ ReceiveList \/ PeriodicResync \/ Crash
  PROVE  OrderInv'
<1>1. /\ \A v \in Versions : v.conf <= edits /\ Before(v, cr)
      /\ \A v \in Announced : Before(crCache, v) /\ Before(obj, v)
      /\ Before(obj, crCache) /\ (pc # "idle" => Exists(obj))
      /\ \A k, l \in DOMAIN watch : k <= l => Before(watch[k], watch[l])
      /\ \A o \in Objects : child[o] <= edits
      /\ \A o \in Objects, v \in Versions : Exists(v) => child[o] <= v.conf
  BY DEF OrderInv, ConfigurationsInOrder
<1>2. /\ UNCHANGED <<cr, edits, child>>
      /\ crCache' \in Versions /\ Announced' \subseteq Announced
      /\ (obj' = obj /\ pc' = pc) \/ (obj' = NoObject /\ pc' = "idle")
  <2>1. UNCHANGED <<cr, rv, edits>> /\ crCache' \in Versions /\ Announced' \subseteq Announced
    BY DeliverySteps DEF OrderInv, VersionsInv
  <2> QED
    BY <2>1 DEF ReceiveVersion, ReceiveList, PeriodicResync, Crash, Release,
       workerVars, childVars
<1>3. /\ ~Exists(NoObject) /\ NoObject.conf = 0 /\ cr.conf \in Nat
      /\ watch \in Seq(Version) /\ edits \in Nat
  BY OrderFacts DEF Version
<1>4. {cr, obj, crCache} \cup Announced = Versions
      /\ Versions' = {cr, obj', crCache'} \cup Announced'
  BY <1>2 DEF Versions
<1>5. Versions' \subseteq Versions \cup {NoObject}
  BY <1>2, <1>4
<1>6. \A v \in Versions' : v.conf <= edits /\ Before(v, cr)
  <2>1. NoObject.conf <= edits /\ Before(NoObject, cr)
    BY <1>3 DEF Before
  <2> QED
    BY <1>1, <1>5, <2>1
<1>7. \A o \in Objects, v \in Versions' : Exists(v) => child[o] <= v.conf
  BY <1>1, <1>3, <1>5
<1>8. \A v \in Announced' \cup {crCache'} : Before(obj', v)
  <2>1. Before(obj, cr) /\ Before(obj, obj)
    <3>1. obj.conf \in Nat /\ obj \in Versions
      BY <1>4, OrderFacts DEF Version
    <3> QED
      BY <1>1, <3>1 DEF Before
  <2>2. \A v \in Versions : Before(obj, v)
    BY <1>1, <1>4, <2>1
  <2>3. \A v \in Announced' \cup {crCache'} : v \in Versions
    BY <1>2, <1>4
  <2> QED
    BY <1>2, <1>3, <2>2, <2>3 DEF Before
<1>9. /\ \A v \in Announced' : Before(crCache', v)
      /\ \A k, l \in DOMAIN watch' : k <= l => Before(watch'[k], watch'[l])
  <2>1. CASE ReceiveVersion
    <3>1. watch # <<>> /\ crCache' = Head(watch) /\ watch' = Tail(watch)
      BY <2>1 DEF ReceiveVersion, Deliver
    <3>2. /\ 1 \in DOMAIN watch /\ crCache' = watch[1]
          /\ \A k \in DOMAIN watch' : k + 1 \in DOMAIN watch /\ watch'[k] = watch[k + 1]
                                      /\ k \in Nat
      <4>1. DOMAIN watch' \subseteq Nat
        BY <1>3, <3>1
      <4> QED
        BY <1>3, <3>1, <4>1, AnnouncedTail
    <3>3. \A k \in DOMAIN watch' : Before(crCache', watch'[k])
      <4>1. \A k \in DOMAIN watch' : 1 <= k + 1
        BY <3>2
      <4> QED
        BY <1>1, <3>2, <4>1
    <3>4. ASSUME NEW k \in DOMAIN watch', NEW l \in DOMAIN watch', k <= l
          PROVE  Before(watch'[k], watch'[l])
      <4>1. k + 1 <= l + 1
        BY <3>2, <3>4
      <4> QED
        BY <1>1, <3>2, <4>1
    <3> QED
      BY <3>3, <3>4 DEF Announced
  <2>2. CASE ReceiveList \/ Crash
    BY <2>2 DEF ReceiveList, Relist, Crash, RestartInformer, Announced
  <2>3. CASE PeriodicResync
    BY <1>1, <2>3 DEF PeriodicResync, Resync, Announced
  <2> QED
    BY <2>1, <2>2, <2>3
<1>10. ConfigurationsInOrder'
  BY <1>1, <1>2, <1>6, <1>7, <1>8, <1>9 DEF ConfigurationsInOrder
<1> QED
  BY <1>10 DEF OrderInv

LEMMA InitOrder == Init => OrderInv
<1> SUFFICES ASSUME Init PROVE OrderInv
  OBVIOUS
<1>1. Versions = {NoObject} /\ Announced = {} /\ watch = <<>> /\ edits = 0
      /\ pc = "idle" /\ \A o \in Objects : child[o] = 0
  BY DEF Init, CRInit, Versions, Announced
<1>2. /\ ~Exists(NoObject) /\ NoObject.conf = 0
      /\ cr = NoObject /\ obj = NoObject /\ crCache = NoObject
  BY DEF Exists, NoObject, Init, CRInit
<1>3. ConfigurationsInOrder
  BY <1>1, <1>2 DEF ConfigurationsInOrder, Before
<1> QED
  BY <1>3, InitVersions DEF OrderInv

LEMMA StepOrder == OrderInv /\ [Next]_vars => OrderInv'
<1> SUFFICES ASSUME OrderInv, [Next]_vars PROVE OrderInv'
  OBVIOUS
<1>1. VersionsInv' /\ TypeInv
  BY StepVersions DEF OrderInv, VersionsInv
<1>2. CASE AddFinalizerCall \/ UpdateStatus \/ RemoveFinalizerCall
  BY <1>1, <1>2, ResourceOrder
<1>3. CASE Worker /\ ~(AddFinalizerCall \/ UpdateStatus \/ RemoveFinalizerCall)
  <2>1. UNCHANGED <<cr, crCache, watch, edits>>
    BY <1>3, LocalSteps
  <2> QED
    BY <1>1, <1>3, <2>1, WorkerHolds, WorkerWrites, LocalOrder
<1>4. CASE UserWrite
  BY <1>1, <1>4, UserOrder
<1>5. CASE ReceiveVersion \/ ReceiveList \/ PeriodicResync \/ Crash
  BY <1>1, <1>5, DeliveryOrder
<1>6. CASE \/ \E i \in Informers : ReceiveChild(i)
           \/ \E o \in Objects : Touch(o)
           \/ UNCHANGED vars
  <2>1. UNCHANGED <<cr, crCache, watch, edits, pc, obj, child>>
    BY <1>6, OtherSteps DEF crVars
  <2>2. Holds
    BY <2>1 DEF Holds
  <2> QED
    BY <1>1, <2>1, <2>2, LocalOrder
<1> QED
  BY <1>2, <1>3, <1>4, <1>5, <1>6 DEF Next

\* Versions reach the worker in the order they were written, and nothing it has
\* rendered is ahead of what it has yet to see.
THEOREM ConfigurationsStayInOrder == Spec => []ConfigurationsInOrder
<1>1. OrderInv => ConfigurationsInOrder
  BY DEF OrderInv
<1> QED
  BY <1>1, InitOrder, StepOrder, PTL DEF Spec

\* No child object is rendered again from an older configuration, although the
\* worker renders from a cache that lags, across faults and restarts.
THEOREM NothingRolledBack == Spec => NeverRolledBack
<1> DEFINE Forward == \A o \in Objects : Stands(o) /\ Stands(o)' => child'[o] >= child[o]
<1>1. ASSUME OrderInv, [Next]_vars PROVE Forward
  <2>1. TypeInv /\ \A o \in Objects : child[o] \in Nat
    BY <1>1, OrderFacts DEF OrderInv, VersionsInv
  <2>2. child' = child => Forward
    BY <2>1
  <2>3. CASE Worker
    <3>1. /\ \A o \in Objects : child'[o] \in {child[o], 0, obj.conf}
          /\ pc = "idle" => child' = child
      BY <2>1, <2>3, WorkerWrites
    <3>2. pc # "idle" => \A o \in Objects : child[o] <= obj.conf
      BY <1>1 DEF OrderInv, ConfigurationsInOrder, Versions
    <3>3. CASE pc # "idle"
      BY <2>1, <3>1, <3>2, <3>3 DEF Stands
    <3> QED
      BY <2>2, <3>1, <3>3
  <2>4. CASE ReceiveVersion \/ ReceiveList \/ PeriodicResync \/ Crash \/ UserWrite
    BY <2>2, <2>4 DEF ReceiveVersion, ReceiveList, PeriodicResync, Crash,
       UserWrite, childVars
  <2>5. CASE \/ \E i \in Informers : ReceiveChild(i)
             \/ \E o \in Objects : Touch(o)
             \/ UNCHANGED vars
    BY <2>2, <2>5, OtherSteps
  <2> QED
    BY <1>1, <2>3, <2>4, <2>5 DEF Next
<1>2. OrderInv /\ [Next]_vars => [Forward]_vars
  BY <1>1
<1> QED
  BY <1>2, InitOrder, StepOrder, PTL DEF Spec, NeverRolledBack

(***************************************************************************)
(* The controller implements Follower, and loses no event of its resource. *)
(***************************************************************************)

-----------------------------------------------------------------------------
(* Which of its handlers the worker is in, and whether the version it holds *)
(* is under deletion.                                                       *)

Renders == {"createService", "createSIP", "createInstance", "update",
            "getService", "updateInstance"}
Removes == {"deleteService", "deleteExporter", "deleteInstance"}
Deletes == {"removeFinalizer", "delete", "listCMs", "deleteCMs"}
Prepares == {"addFinalizer", "createConfigMaps", "create", "updateConfigMaps",
             "updateStatus"}

StageOK ==
  /\ pc \in Renders => replica <= obj.replicas /\ ~obj.del
  /\ pc \in Removes => loop \in {"scaleDown", "delete"} /\ (obj.del <=> loop = "delete")
  /\ pc \in Deletes => obj.del
  /\ pc \in Prepares => ~obj.del

LEMMA StageOfObject ==
  ASSUME OrderInv, AddFinalizerCall \/ RemoveFinalizerCall
  PROVE  obj'.del = obj.del
<1>1. obj \in Version
  BY OrderFacts
<1>2. \A b \in BOOLEAN : \A v \in {[obj EXCEPT !.fin = b], Defaulted([obj EXCEPT !.fin = b]),
                                   Stored(Defaulted([obj EXCEPT !.fin = b]))} :
        v.del = obj.del
  BY <1>1 DEF Version, Defaulted, Stored
<1>3. \E b \in BOOLEAN : obj' \in {[obj EXCEPT !.fin = b], Defaulted([obj EXCEPT !.fin = b]),
                                   Stored(Defaulted([obj EXCEPT !.fin = b]))}
  <2>1. CASE AddFinalizerCall
    BY <2>1 DEF AddFinalizerCall, AddFinalizer, Store
  <2>2. CASE RemoveFinalizerCall
    BY <2>2 DEF RemoveFinalizerCall
  <2> QED
    BY <2>1, <2>2
<1> QED
  BY <1>2, <1>3

LEMMA StepStage ==
  ASSUME OrderInv, StageOK, [Next]_vars
  PROVE  StageOK'
<1> USE DEF StageOK, Renders, Removes, Deletes, Prepares
<1>1. CASE ReconcileNotFound
  BY <1>1 DEF ReconcileNotFound, workerVars
<1>2. CASE Reconcile
  BY <1>2 DEF Reconcile
<1>3. CASE AddFinalizerCall
  BY <1>3, StageOfObject DEF AddFinalizerCall
<1>4. CASE RemoveFinalizerCall
  BY <1>4, StageOfObject DEF RemoveFinalizerCall
<1>5. CASE CreateConfigMaps \/ SkipExisting \/ CreateInstance
  BY <1>5 DEF CreateConfigMaps, SkipExisting, CreateInstance, Round
<1>6. CASE GetService
  BY <1>6 DEF GetService
<1>7. CASE CreateService \/ CreateSIP
  BY <1>7 DEF CreateService, CreateSIP, Goto
<1>8. CASE StartUpdate
  <2>1. obj' = obj /\ ~obj.del
    BY <1>8 DEF StartUpdate, ScaleDownFrom, Done, Round
  <2>2. pc' = "updateConfigMaps" \/ (pc' = "deleteService" /\ loop' = "scaleDown")
    BY <1>8 DEF StartUpdate, ScaleDownFrom, Done, Round
  <2> QED
    BY <2>1, <2>2
<1>9. CASE UpdateConfigMaps \/ UpdateInstance
  BY <1>9 DEF UpdateConfigMaps, UpdateInstance, UpdateFrom, Done, Round
<1>10. CASE UpdateSIP
  BY <1>10 DEF UpdateSIP, Return, Release
<1>11. CASE UpdateStatus
  BY <1>11 DEF UpdateStatus, Return, Release
<1>12. CASE StartDelete
  BY <1>12 DEF StartDelete, DeleteFrom, Done, Round
<1>13. CASE DeleteService \/ DeleteExporter
  BY <1>13 DEF DeleteService, DeleteExporter, Goto
<1>14. CASE DeleteInstance
  BY <1>14 DEF DeleteInstance, ScaleDownFrom, DeleteFrom, Done, Round
<1>15. CASE ListConfigMaps \/ DeleteConfigMap \/ FinishDelete
  BY <1>15 DEF ListConfigMaps, DeleteConfigMap, FinishDelete, Return, Release
<1>16. CASE ReceiveVersion \/ ReceiveList \/ PeriodicResync \/ UserWrite \/ UNCHANGED vars
  BY <1>16 DEF ReceiveVersion, ReceiveList, PeriodicResync, UserWrite, vars, workerVars
<1>17. CASE Crash
  BY <1>17 DEF Crash, Release
<1>18. CASE \E i \in Informers : ReceiveChild(i)
  BY <1>18 DEF ReceiveChild, workerVars
<1>19. CASE \E o \in Objects : Touch(o)
  BY <1>19 DEF Touch
<1> QED
  BY <1>1, <1>2, <1>3, <1>4, <1>5, <1>6, <1>7, <1>8, <1>9, <1>10, <1>11, <1>12,
     <1>13, <1>14, <1>15, <1>16, <1>17, <1>18, <1>19 DEF Next, Worker

-----------------------------------------------------------------------------
(* The views and wishes of the worker. *)

LEMMA WishAndViewType ==
  ASSUME OrderInv
  PROVE  WishOf \in Pool!Wishes /\ ViewOf \in Pool!Views
<1>1. cr.conf \in Nat /\ obj.conf \in Nat /\ edits \in Nat
  BY OrderFacts DEF Version
<1>2. ThingsOf(cr) \in SUBSET Objects /\ ThingsOf(obj) \in SUBSET Objects
  BY DEF ThingsOf
<1> QED
  BY <1>1, <1>2 DEF WishOf, ViewOf, Pool!Wishes, Pool!Views

LEMMA IdleView ==
  /\ pc = "idle" => ViewOf = Pool!Idle
  /\ pc' = "idle" => ViewOf' = Pool!Idle
  BY DEF ViewOf, Pool!Idle

LEMMA SameView ==
  ASSUME pc # "idle", pc' # "idle", obj' = obj
  PROVE  ViewOf' = ViewOf
  BY DEF ViewOf, ThingsOf, Exists

LEMMA SameWish ==
  ASSUME UNCHANGED <<cr, edits>>
  PROVE  WishOf' = WishOf
  BY DEF WishOf, ThingsOf, Exists

LEMMA TryMakes ==
  ASSUME NEW o, NEW c, Try(o, c) \/ Put(o, c) \/ UNCHANGED childVars
  PROVE  child' \in {child, [child EXCEPT ![o] = c]}
  BY DEF Try, Put, childVars

\* A step that makes or removes nothing is a stutter or the end of a round.
LEMMA QuietStep ==
  ASSUME WishOf' = WishOf, child' = child, ViewOf' \in {ViewOf, Pool!Idle}
  PROVE  [Pool!Next]_Pool!state
  BY DEF Pool!Next, Pool!End, Pool!state

\* A call makes a thing of the version held from it, or removes another.
LEMMA ActStep ==
  ASSUME OrderInv, pc # "idle", WishOf' = WishOf, ViewOf' \in {ViewOf, Pool!Idle},
         NEW o \in Objects, NEW c, child' \in {child, [child EXCEPT ![o] = c]},
         \/ c = child[o]
         \/ o \in ThingsOf(obj) /\ c = obj.conf
         \/ o \notin ThingsOf(obj) /\ c = 0
  PROVE  [Pool!Next]_Pool!state
<1>1. child \in [Objects -> Nat]
  BY DEF OrderInv, VersionsInv, TypeInv, TypeOK, ChildTypeOK
<1>2. CASE child' = child
  BY <1>2, QuietStep
<1>3. CASE child' = [child EXCEPT ![o] = c] /\ c = child[o]
  <2>1. child' = child
    BY <1>1, <1>3
  <2> QED
    BY <2>1, QuietStep
<1>4. CASE child' = [child EXCEPT ![o] = c] /\ c # child[o]
  <2>1. ViewOf.acting /\ ViewOf.conf = obj.conf /\ ViewOf.things = ThingsOf(obj)
    BY DEF ViewOf
  <2>2. Pool!Act
    BY <1>4, <2>1 DEF Pool!Act
  <2> QED
    BY <2>2 DEF Pool!Next
<1> QED
  BY <1>2, <1>3, <1>4

\* The objects of the loops: those of a bridge that is rendered are things of
\* the version held, those of a bridge that is removed are not.
LEMMA LoopThings ==
  ASSUME OrderInv, StageOK, pc # "idle"
  PROVE  /\ pc \in Prepares => Shared \in ThingsOf(obj)
         /\ \A r \in 1..MaxReplicas :
              \A o \in {Instance(r), Service(r), Exporter(r), SIP(r)} :
                /\ ~obj.del /\ r <= obj.replicas => o \in ThingsOf(obj)
                /\ obj.del \/ r > obj.replicas => o \notin ThingsOf(obj)
         /\ obj.del => ThingsOf(obj) = {}
<1>1. Exists(obj) /\ obj.replicas \in 0..MaxReplicas
  BY OrderFacts DEF OrderInv, ConfigurationsInOrder, Version
<1>2. Shared[2] = 0
  BY DEF Shared
<1>3. ASSUME NEW r \in 1..MaxReplicas,
             NEW o \in {Instance(r), Service(r), Exporter(r), SIP(r)}
      PROVE  o \in Objects /\ o[2] = r
  <2>1. o \in Objects
    BY <1>3, NamesAreObjects
  <2>2. o[2] = r
    BY <1>3 DEF Instance, Service, Exporter, SIP
  <2> QED
    BY <2>1, <2>2
<1>4. pc \in Prepares => Shared \in ThingsOf(obj)
  <2>1. 0 <= obj.replicas
    BY <1>1
  <2> QED
    BY <1>1, <1>2, <2>1, NamesAreObjects DEF ThingsOf, StageOK
<1>5. ASSUME NEW r \in 1..MaxReplicas,
             NEW o \in {Instance(r), Service(r), Exporter(r), SIP(r)}
      PROVE  /\ ~obj.del /\ r <= obj.replicas => o \in ThingsOf(obj)
             /\ obj.del \/ r > obj.replicas => o \notin ThingsOf(obj)
  BY <1>1, <1>3 DEF ThingsOf
<1> QED
  BY <1>4, <1>5 DEF ThingsOf

-----------------------------------------------------------------------------
(* One lemma per group of actions. *)

Refined == [Pool!Next]_Pool!state

LEMMA RenderSteps ==
  ASSUME OrderInv, StageOK,
         \/ CreateConfigMaps \/ GetService \/ CreateService \/ CreateSIP
         \/ CreateInstance \/ UpdateConfigMaps \/ UpdateSIP \/ UpdateInstance
  PROVE  Refined
<1> USE DEF sameCR, crVars
<1>1. /\ pc \in Renders \cup Prepares
      /\ pc \in {"createConfigMaps", "updateConfigMaps"} \/ 
         /\ replica <= obj.replicas /\ pc \in PerReplica \cup {"create"}
  BY DEF CreateConfigMaps, GetService, CreateService, CreateSIP, CreateInstance,
     UpdateConfigMaps, UpdateSIP, UpdateInstance, Renders, Prepares, StageOK, PerReplica
<1>2. pc # "idle" /\ ~obj.del
  BY <1>1 DEF StageOK, Renders, Prepares
<1>3. WishOf' = WishOf
  <2>1. UNCHANGED <<cr, edits>>
    BY DEF CreateConfigMaps, GetService, CreateService, CreateSIP, CreateInstance,
       UpdateConfigMaps, UpdateSIP, UpdateInstance
  <2> QED
    BY <2>1, SameWish
<1>4. ViewOf' \in {ViewOf, Pool!Idle}
  <2>1. pc' = "idle" \/ obj' = obj
    BY DEF CreateConfigMaps, GetService, CreateService, CreateSIP, CreateInstance,
       UpdateConfigMaps, UpdateSIP, UpdateInstance, Round, Goto, UpdateFrom, Done,
       Return, Release
  <2> QED
    BY <1>2, <2>1, IdleView, SameView
<1>5. ASSUME NEW o \in ThingsOf(obj), NEW c \in {child[o], obj.conf}, Try(o, c)
      PROVE  Refined
  <2>1. o \in Objects
    BY DEF ThingsOf
  <2>2. child' \in {child, [child EXCEPT ![o] = c]}
    BY <1>5, TryMakes
  <2> QED
    BY <1>2, <1>3, <1>4, <1>5, <2>1, <2>2, ActStep DEF Refined
<1>6. \A o, reading : /\ AfterCreate(o) \in {child[o], obj.conf}
                       /\ AfterUpdate(o, reading) \in {child[o], obj.conf}
  BY DEF AfterCreate, AfterUpdate
<1>7. CASE CreateConfigMaps \/ UpdateConfigMaps
  <2>1. Shared \in ThingsOf(obj)
    BY <1>2, <1>7, LoopThings DEF CreateConfigMaps, UpdateConfigMaps, Prepares
  <2> QED
    BY <1>5, <1>6, <1>7, <2>1 DEF CreateConfigMaps, UpdateConfigMaps
<1>8. CASE GetService \/ CreateService \/ CreateSIP \/ CreateInstance \/ UpdateSIP
           \/ UpdateInstance
  <2>1. pc \in PerReplica \cup {"create"} /\ replica <= obj.replicas
    BY <1>1, <1>8 DEF GetService, CreateService, CreateSIP, CreateInstance,
       UpdateSIP, UpdateInstance
  <2>2. replica \in 1..MaxReplicas
    <3>1. CASE pc \in PerReplica
      BY <3>1, InRange DEF OrderInv, VersionsInv
    <3>2. CASE pc = "create"
      <4>1. replica \in Nat /\ replica >= 1
        BY <3>2 DEF OrderInv, VersionsInv, TypeInv, TypeOK, WorkerTypeOK, LoopsInRange
      <4> QED
        BY <2>1, <4>1, ReplicasOfVersion, ReplicasAssumption
           DEF OrderInv, VersionsInv, TypeInv, TypeOK
    <3> QED
      BY <2>1, <3>1, <3>2
  <2>3. {Instance(replica), Service(replica), Exporter(replica), SIP(replica)}
          \subseteq ThingsOf(obj)
    BY <1>2, <2>1, <2>2, LoopThings
  <2> QED
    BY <1>5, <1>6, <1>8, <2>3
       DEF GetService, CreateService, CreateSIP, CreateInstance, UpdateSIP, UpdateInstance
<1> QED
  BY <1>7, <1>8

LEMMA RemovalSteps ==
  ASSUME OrderInv, StageOK,
         DeleteService \/ DeleteExporter \/ DeleteInstance \/ DeleteConfigMap
  PROVE  Refined
<1> USE DEF sameCR, crVars
<1>1. pc # "idle" /\ pc \in Removes \cup Deletes
  BY DEF DeleteService, DeleteExporter, DeleteInstance, DeleteConfigMap, Removes, Deletes
<1>2. WishOf' = WishOf
  <2>1. UNCHANGED <<cr, edits>>
    BY DEF DeleteService, DeleteExporter, DeleteInstance, DeleteConfigMap
  <2> QED
    BY <2>1, SameWish
<1>3. ViewOf' \in {ViewOf, Pool!Idle}
  <2>1. pc' = "idle" \/ obj' = obj
    BY DEF DeleteService, DeleteExporter, DeleteInstance, DeleteConfigMap, Goto, Round,
       Done, ScaleDownFrom, DeleteFrom
  <2> QED
    BY <1>1, <2>1, IdleView, SameView
<1>4. ASSUME NEW o \in Objects, o \notin ThingsOf(obj),
             Try(o, 0) \/ Put(o, 0) \/ UNCHANGED childVars
      PROVE  Refined
  BY <1>1, <1>2, <1>3, <1>4, ActStep, TryMakes DEF Refined
<1>5. CASE DeleteConfigMap
  <2>1. listed \subseteq Objects
    BY DEF OrderInv, VersionsInv, TypeInv, TypeOK, WorkerTypeOK, ConfigMaps
  <2>2. ThingsOf(obj) = {}
    BY <1>1, <1>5, LoopThings DEF StageOK, Deletes, DeleteConfigMap
  <2> QED
    BY <1>4, <1>5, <2>1, <2>2 DEF DeleteConfigMap
<1>6. CASE DeleteService \/ DeleteExporter \/ DeleteInstance
  <2>1. pc \in Removes /\ pc \in PerReplica
    BY <1>6 DEF DeleteService, DeleteExporter, DeleteInstance, Removes, PerReplica
  <2>2. replica \in 1..MaxReplicas
    BY <2>1, InRange DEF OrderInv, VersionsInv
  <2>3. obj.del \/ replica > obj.replicas
    BY <2>1 DEF StageOK, OrderInv, VersionsInv, TypeInv, LoopsInRange
  <2>4. \A o \in {Instance(replica), Service(replica), Exporter(replica)} :
          o \in Objects /\ o \notin ThingsOf(obj)
    BY <1>1, <2>2, <2>3, LoopThings, NamesAreObjects
  <2> QED
    BY <1>4, <1>6, <2>4
       DEF DeleteService, DeleteExporter, DeleteInstance, DeleteCached, childVars
<1> QED
  BY <1>5, <1>6

LEMMA ControlSteps ==
  ASSUME OrderInv,
         \/ ReconcileNotFound \/ SkipExisting \/ StartUpdate \/ StartDelete
         \/ ListConfigMaps \/ FinishDelete
  PROVE  Refined
<1> USE DEF sameCR, crVars
<1>1. UNCHANGED <<cr, edits, child>>
  BY DEF ReconcileNotFound, Take, SkipExisting, StartUpdate, StartDelete,
     ListConfigMaps, FinishDelete, childVars
<1>2. \/ pc' = "idle"
      \/ pc # "idle" /\ pc' # "idle" /\ obj' = obj
  <2>1. CASE ReconcileNotFound
    BY <2>1 DEF ReconcileNotFound, Take, workerVars
  <2>2. CASE ~ReconcileNotFound
    BY <2>2 DEF SkipExisting, StartUpdate, StartDelete, ListConfigMaps, FinishDelete,
       Round, Done, ScaleDownFrom, DeleteFrom, Return, Release
  <2> QED
    BY <2>1, <2>2
<1>3. ViewOf' \in {ViewOf, Pool!Idle}
  BY <1>2, IdleView, SameView
<1> QED
  BY <1>1, <1>3, SameWish, QuietStep DEF Refined

\* The versions in circulation, seen from the wish.
LEMMA WishFacts ==
  ASSUME OrderInv
  PROVE  /\ WishOf.conf \in Nat /\ cr.conf \in Nat /\ edits \in Nat
         /\ cr.conf <= WishOf.conf /\ WishOf.conf <= edits
         /\ \A v \in Versions : Exists(v) => v.conf <= WishOf.conf
<1>1. cr.conf \in Nat /\ edits \in Nat /\ cr \in Versions
  BY OrderFacts DEF Version, Versions
<1>2. \A v \in Versions : v.conf <= edits /\ Before(v, cr)
  BY DEF OrderInv, ConfigurationsInOrder
<1> QED
  BY <1>1, <1>2 DEF WishOf, Before

LEMMA BeginSteps ==
  ASSUME OrderInv, Reconcile
  PROVE  Refined
<1>1. /\ pc = "idle" /\ pc' # "idle" /\ obj' = crCache /\ Exists(crCache)
      /\ UNCHANGED <<cr, edits, child>>
  BY DEF Reconcile, Take, childVars
<1>2. ViewOf = Pool!Idle /\ WishOf' = WishOf
  BY <1>1, IdleView, SameWish
<1>3. ViewOf' = [acting |-> TRUE, conf |-> crCache.conf, things |-> ThingsOf(crCache)]
  BY <1>1 DEF ViewOf, ThingsOf, Exists
<1>4. ViewOf' \in Pool!Views
  <2>1. ThingsOf(crCache) \in SUBSET Objects
    BY DEF ThingsOf
  <2>2. crCache.conf \in Nat
    BY OrderFacts DEF Version
  <2> QED
    BY <1>3, <2>1, <2>2 DEF Pool!Views
<1>5. crCache \in Versions
  BY DEF Versions
<1>6. crCache.conf <= WishOf.conf /\ \A o \in Objects : child[o] <= crCache.conf
  BY <1>1, <1>5, WishFacts DEF OrderInv, ConfigurationsInOrder
<1>7. ViewOf'.acting /\ ViewOf'.conf = crCache.conf
  BY <1>3
<1>8. Pool!Begin
  BY <1>1, <1>2, <1>4, <1>6, <1>7 DEF Pool!Begin
<1> QED
  BY <1>8 DEF Refined, Pool!Next

\* A wish of the users, or of the operator's own write.
LEMMA WishStep ==
  ASSUME OrderInv, OrderInv', WishOf.conf <= WishOf'.conf, ViewOf' = ViewOf, child' = child
  PROVE  Refined
<1>1. WishOf' \in Pool!Wishes
  <2>1. cr'.conf \in Nat /\ edits' \in Nat
    <3>1. cr' \in Version /\ edits' \in Nat
      BY EditBoundsAssumption DEF OrderInv, VersionsInv, TypeInv, TypeOK, CRTypeOK
    <3> QED
      BY <3>1 DEF Version
  <2>2. ThingsOf(cr') \in SUBSET Objects
    BY DEF ThingsOf
  <2>3. WishOf' = [conf |-> IF Exists(cr') THEN cr'.conf ELSE edits',
                   things |-> ThingsOf(cr')]
    BY DEF WishOf, ThingsOf, Exists
  <2> QED
    BY <2>1, <2>2, <2>3 DEF Pool!Wishes
<1>2. WishOf'.conf >= WishOf.conf
  <2>1. WishOf'.conf \in Nat /\ WishOf.conf \in Nat
    BY <1>1, WishFacts DEF Pool!Wishes
  <2> QED
    BY <2>1
<1> QED
  BY <1>1, <1>2 DEF Refined, Pool!Next, Pool!Wish

LEMMA UserSteps ==
  ASSUME OrderInv, OrderInv', UserWrite
  PROVE  Refined
<1>1. UNCHANGED <<pc, obj, child>> /\ User
  BY DEF UserWrite, workerVars, childVars
<1>2. ViewOf' = ViewOf
  BY <1>1 DEF ViewOf, ThingsOf, Exists
<1>3. /\ cr \in Version /\ rv \in Nat /\ edits \in Nat /\ edits' = edits + 1
      /\ edits + 1 \in Nat
  <2>1. cr \in Version /\ rv \in Nat /\ edits \in Nat
    BY EditBoundsAssumption DEF OrderInv, VersionsInv, TypeInv, TypeOK, CRTypeOK
  <2>2. edits' = edits + 1
    BY <1>1 DEF User, UserCreate, UserScale, UserReconfigure, UserDelete, UserStep
  <2> QED
    BY <2>1, <2>2
<1>4. cr.conf <= edits /\ (Exists(cr) => WishOf.conf = cr.conf)
      /\ (~Exists(cr) => WishOf.conf = edits)
  BY <1>3, WishFacts DEF WishOf
<1>5. WishOf'.conf = IF Exists(cr') THEN cr'.conf ELSE edits'
  BY DEF WishOf, ThingsOf, Exists
<1>6. ASSUME NEW w \in Version, Store(w),
             w.conf = edits + 1 \/ (Exists(cr) /\ w.conf = cr.conf)
      PROVE  WishOf.conf <= WishOf'.conf
  <2>1. cr' = Stored(w) /\ Stored(w).conf = w.conf /\ Stored(w).rv = rv + 1
    BY <1>6, StoredFields DEF Store
  <2>2. Exists(cr') /\ cr'.conf = w.conf
    BY <1>3, <2>1 DEF Exists
  <2>3. cr.conf \in Nat
    BY <1>3 DEF Version
  <2> QED
    BY <1>3, <1>4, <1>5, <1>6, <2>2, <2>3
<1>7. ASSUME NEW n \in ReplicaCounts, UserCreate(n) PROVE WishOf.conf <= WishOf'.conf
  <2> DEFINE w == [NoObject EXCEPT !.replicas = n, !.conf = edits + 1]
  <2>1. n \in 0..MaxReplicas
    BY ReplicasAssumption
  <2>2. w \in Version /\ w.conf = edits + 1
    BY <1>3, <2>1, NoObjectIsVersion DEF Version
  <2>3. Store(w)
    BY <1>7 DEF UserCreate
  <2> HIDE DEF w
  <2> QED
    BY <1>6, <2>2, <2>3
<1>8. ASSUME NEW n \in ReplicaCounts, UserScale(n) PROVE WishOf.conf <= WishOf'.conf
  <2> DEFINE w == [cr EXCEPT !.replicas = n]
  <2>1. n \in 0..MaxReplicas
    BY ReplicasAssumption
  <2>2. w \in Version /\ w.conf = cr.conf
    BY <1>3, <2>1 DEF Version
  <2>3. Store(w) /\ Exists(cr)
    BY <1>8 DEF UserScale
  <2> HIDE DEF w
  <2> QED
    BY <1>6, <2>2, <2>3
<1>9. ASSUME UserReconfigure PROVE WishOf.conf <= WishOf'.conf
  <2> DEFINE w == [cr EXCEPT !.conf = edits + 1]
  <2>1. w \in Version /\ w.conf = edits + 1
    BY <1>3 DEF Version
  <2>2. Store(w)
    BY <1>9 DEF UserReconfigure
  <2> HIDE DEF w
  <2> QED
    BY <1>6, <2>1, <2>2
<1>10. ASSUME UserDelete PROVE WishOf.conf <= WishOf'.conf
  <2> DEFINE w == [cr EXCEPT !.del = TRUE]
  <2>1. w \in Version /\ w.conf = cr.conf
    BY <1>3 DEF Version
  <2>2. Exists(cr) /\ (Store(w) \/ Remove)
    BY <1>10 DEF UserDelete
  <2>3. Remove => WishOf.conf <= WishOf'.conf
    <3>1. Remove => ~Exists(cr')
      BY DEF Remove, Exists, NoObject
    <3>2. cr.conf \in Nat
      BY <1>3 DEF Version
    <3> QED
      BY <1>3, <1>4, <1>5, <2>2, <3>1, <3>2
  <2> HIDE DEF w
  <2> QED
    BY <1>6, <2>1, <2>2, <2>3
<1> QED
  BY <1>1, <1>2, <1>7, <1>8, <1>9, <1>10, WishStep DEF User

\* UpdateStatus stores the wish it finds, with another status, and ends the round.
LEMMA StatusSteps ==
  ASSUME OrderInv, UpdateStatus
  PROVE  Refined
<1>1. pc' = "idle" /\ child' = child /\ edits' = edits
  BY DEF UpdateStatus, Return, Release, childVars
<1>2. cr \in Version /\ rv \in Nat
  BY DEF OrderInv, VersionsInv, TypeInv, TypeOK, CRTypeOK
<1>3. WishOf' = WishOf
  <2> DEFINE w == [cr EXCEPT !.status = obj.replicas]
  <2>1. cr' = cr \/ (Exists(cr) /\ cr' = Stored(w))
    BY DEF UpdateStatus, WriteStatus, Store, Current
  <2>2. /\ Stored(w).conf = cr.conf /\ Stored(w).replicas = cr.replicas
        /\ Stored(w).del = cr.del /\ Stored(w).rv = rv + 1
    BY <1>2 DEF Stored, Version
  <2>3. rv + 1 > 0
    BY <1>2
  <2> HIDE DEF w
  <2>4. CASE cr' = cr
    BY <1>1, <2>4, SameWish
  <2>5. CASE Exists(cr) /\ cr' = Stored(w)
    <3>1. Exists(cr') /\ ThingsOf(cr') = ThingsOf(cr) /\ cr'.conf = cr.conf
      BY <2>2, <2>3, <2>5 DEF ThingsOf, Exists
    <3>2. WishOf' = [conf |-> IF Exists(cr') THEN cr'.conf ELSE edits',
                     things |-> ThingsOf(cr')]
      BY DEF WishOf, ThingsOf, Exists
    <3> QED
      BY <2>5, <3>1, <3>2 DEF WishOf
  <2> QED
    BY <2>1, <2>4, <2>5
<1> QED
  BY <1>1, <1>3, IdleView, QuietStep DEF Refined

\* AddFinalizer writes the copy in memory back: the same configuration, under
\* the optimistic lock, perhaps with the default replica count.
LEMMA FinalizerSteps ==
  ASSUME OrderInv, OrderInv', StageOK, AddFinalizerCall
  PROVE  Refined
<1> DEFINE sent == [obj EXCEPT !.fin = TRUE]
           full == Defaulted(sent)
<1>1. /\ pc = "addFinalizer" /\ pc' = "createConfigMaps"
      /\ child' = child /\ edits' = edits /\ Exists(obj)
  BY DEF AddFinalizerCall, childVars, OrderInv, ConfigurationsInOrder
<1>2. obj \in Version /\ cr \in Version /\ rv \in Nat
  BY OrderFacts DEF OrderInv, VersionsInv, TypeInv, TypeOK, CRTypeOK
<1>3. /\ sent.rv = obj.rv /\ sent.conf = obj.conf
      /\ sent.replicas = obj.replicas /\ sent.del = obj.del
      /\ Stored(full).rv = rv + 1 /\ Stored(full).conf = obj.conf
  BY <1>2 DEF Version, Stored, Defaulted
<1>4. AddFinalizer(obj) => cr' = Stored(full) /\ Exists(cr) /\ cr.conf = obj.conf
  <2>1. AddFinalizer(obj) => Exists(cr) /\ cr.rv = obj.rv /\ cr' = Stored(full)
    BY DEF AddFinalizer, Current, Store
  <2>2. obj \in Versions /\ \A v \in Versions : Fits(v, cr, rv)
    BY DEF Versions, OrderInv, VersionsInv, VersionsAgree
  <2>3. Exists(cr) /\ cr.rv = obj.rv => cr.conf = obj.conf
    BY <2>2 DEF Fits, Agrees
  <2> QED
    BY <2>1, <2>3
<1>5. WishOf' = [conf |-> IF Exists(cr') THEN cr'.conf ELSE edits',
                 things |-> ThingsOf(cr')]
  BY DEF WishOf, ThingsOf, Exists
<1>6. ViewOf' = [acting |-> TRUE, conf |-> obj'.conf, things |-> ThingsOf(obj')]
  BY <1>1 DEF ViewOf, ThingsOf, Exists
<1>7. ViewOf = [acting |-> TRUE, conf |-> obj.conf, things |-> ThingsOf(obj)]
  BY <1>1 DEF ViewOf
<1>8. rv + 1 > 0
  BY <1>2
<1>9. AddFinalizer(obj) => WishOf.conf = obj.conf /\ WishOf'.conf = obj.conf /\ Exists(cr')
  BY <1>3, <1>4, <1>5, <1>8 DEF WishOf, Exists
<1>10. obj' = sent => ViewOf' = ViewOf
  BY <1>3, <1>6, <1>7 DEF ThingsOf, Exists
<1> HIDE DEF sent, full
<1>11. CASE AddFinalizer(obj) /\ obj' = cr'
  <2>1. WishOf' \in Pool!Wishes
    <3>1. ThingsOf(cr') \in SUBSET Objects
      BY DEF ThingsOf
    <3>2. obj.conf \in Nat
      BY <1>2 DEF Version
    <3>3. WishOf' = [conf |-> obj.conf, things |-> ThingsOf(cr')]
      BY <1>3, <1>4, <1>5, <1>9, <1>11
    <3> QED
      BY <3>1, <3>2, <3>3 DEF Pool!Wishes
  <2>2. ViewOf' = [acting |-> TRUE, conf |-> WishOf.conf, things |-> WishOf'.things]
    <3>1. obj'.conf = obj.conf /\ ThingsOf(obj') = ThingsOf(cr')
      BY <1>3, <1>4, <1>11
    <3>2. WishOf'.things = ThingsOf(cr')
      BY <1>5
    <3> QED
      BY <1>6, <1>9, <1>11, <3>1, <3>2
  <2>3. Pool!Complete
    BY <1>1, <1>7, <1>9, <1>11, <2>1, <2>2 DEF Pool!Complete
  <2> QED
    BY <2>3 DEF Refined, Pool!Next
<1>12. CASE cr' = cr /\ obj' = sent
  BY <1>1, <1>10, <1>12, SameWish, QuietStep DEF Refined
<1>13. CASE AddFinalizer(obj) /\ obj' = sent
  <2>1. WishOf.conf <= WishOf'.conf
    BY <1>2, <1>9, <1>13 DEF Version
  <2> QED
    BY <1>1, <1>10, <1>13, <2>1, WishStep
<1> QED
  BY <1>11, <1>12, <1>13 DEF AddFinalizerCall, sent

\* RemoveFinalizer may drop the resource; the view is empty either way.
LEMMA DropSteps ==
  ASSUME OrderInv, OrderInv', StageOK, RemoveFinalizerCall
  PROVE  Refined
<1>1. /\ pc = "removeFinalizer" /\ pc' = "delete"
      /\ child' = child /\ edits' = edits /\ obj.del
  BY DEF RemoveFinalizerCall, childVars, StageOK, Deletes
<1>2. ViewOf' = ViewOf
  <2>1. obj'.conf = obj.conf
    <3>1. obj \in Version
      BY OrderFacts
    <3> QED
      BY <3>1, FinalizedFields DEF RemoveFinalizerCall
  <2>2. ThingsOf(obj) = {} /\ ThingsOf(obj') = {}
    BY <1>1, StageOfObject DEF ThingsOf
  <2> QED
    BY <1>1, <2>1, <2>2 DEF ViewOf, ThingsOf, Exists
<1>3. cr' = cr \/ cr' = NoObject
  BY DEF RemoveFinalizerCall, RemoveFinalizer, Remove
<1>4. CASE cr' = cr
  BY <1>1, <1>2, <1>4, SameWish, QuietStep DEF Refined
<1>5. CASE cr' = NoObject
  <2>1. WishOf'.conf = edits
    BY <1>1, <1>5, OrderFacts DEF WishOf, ThingsOf, Exists
  <2> QED
    BY <1>1, <1>2, <2>1, WishFacts, WishStep
<1> QED
  BY <1>3, <1>4, <1>5

-----------------------------------------------------------------------------
LEMMA InitRefined == Init => Pool!Init
<1> SUFFICES ASSUME Init PROVE Pool!Init
  OBVIOUS
<1>1. ~Exists(cr) /\ edits = 0 /\ pc = "idle" /\ child = [o \in Objects |-> 0]
  BY DEF Init, CRInit, Exists, NoObject
<1> QED
  BY <1>1 DEF Pool!Init, Pool!Idle, WishOf, ViewOf, ThingsOf

LEMMA StepRefined ==
  ASSUME OrderInv, OrderInv', StageOK, [Next]_vars
  PROVE  Refined
<1>1. CASE \/ CreateConfigMaps \/ GetService \/ CreateService \/ CreateSIP
           \/ CreateInstance \/ UpdateConfigMaps \/ UpdateSIP \/ UpdateInstance
  BY <1>1, RenderSteps
<1>2. CASE DeleteService \/ DeleteExporter \/ DeleteInstance \/ DeleteConfigMap
  BY <1>2, RemovalSteps
<1>3. CASE \/ ReconcileNotFound \/ SkipExisting \/ StartUpdate \/ StartDelete
           \/ ListConfigMaps \/ FinishDelete
  BY <1>3, ControlSteps
<1>4. CASE Reconcile
  BY <1>4, BeginSteps
<1>5. CASE UpdateStatus
  BY <1>5, StatusSteps
<1>6. CASE AddFinalizerCall
  BY <1>6, FinalizerSteps
<1>7. CASE RemoveFinalizerCall
  BY <1>7, DropSteps
<1>8. CASE UserWrite
  BY <1>8, UserSteps
<1>9. CASE ReceiveVersion \/ ReceiveList \/ PeriodicResync \/ Crash
  <2>1. UNCHANGED <<cr, edits, child>>
    BY <1>9 DEF ReceiveVersion, Deliver, ReceiveList, Relist, PeriodicResync, Resync,
       Crash, RestartInformer, childVars
  <2>2. (UNCHANGED <<pc, obj>>) \/ pc' = "idle"
    BY <1>9 DEF ReceiveVersion, ReceiveList, PeriodicResync, Crash, Release, workerVars
  <2>3. ViewOf' \in {ViewOf, Pool!Idle}
    BY <2>2, IdleView, SameView
  <2> QED
    BY <2>1, <2>3, SameWish, QuietStep DEF Refined
<1>10. CASE \/ \E i \in Informers : ReceiveChild(i)
            \/ \E o \in Objects : Touch(o)
            \/ UNCHANGED vars
  <2>1. UNCHANGED <<cr, edits, child, pc, obj>>
    BY <1>10, OtherSteps DEF crVars
  <2>2. ViewOf' \in {ViewOf, Pool!Idle}
    BY <2>1, IdleView, SameView
  <2> QED
    BY <2>1, <2>2, SameWish, QuietStep DEF Refined
<1> QED
  BY <1>1, <1>2, <1>3, <1>4, <1>5, <1>6, <1>7, <1>8, <1>9, <1>10 DEF Next, Worker

\* The JVB controller implements the follower: whatever users, caches, faults
\* and restarts do, each of its calls acts on the one version it holds.
THEOREM JVBFollows == Spec => FollowsOneVersion
<1>1. Init => StageOK
  BY DEF Init, StageOK, Renders, Removes, Deletes, Prepares
<1>2. OrderInv /\ StageOK /\ [Next]_vars => OrderInv' /\ StageOK'
  BY StepOrder, StepStage
<1>3. OrderInv /\ OrderInv' /\ StageOK /\ [Next]_vars => [Pool!Next]_Pool!state
  BY StepRefined DEF Refined
<1> QED
  BY <1>1, <1>2, <1>3, InitOrder, InitRefined, PTL DEF Spec, FollowsOneVersion, Pool!Spec

\* What every follower keeps, the JVB controller keeps: no child object is made
\* again from an older configuration.
THEOREM JVBGoesForward == Spec => Pool!NeverGoesBack
  BY JVBFollows, Pool!FollowersGoForward DEF FollowsOneVersion

-----------------------------------------------------------------------------
(* No event is lost.  The informer's copy and the announced versions are one *)
(* stream, c followed by w; a step of it that passes the event filter puts   *)
(* the key into the queue when it is delivered.                              *)

At(c, w, i) == IF i = 0 THEN c ELSE w[i]
Passes(c, w, k) ==
  Exists(At(c, w, k - 1)) /\ Exists(w[k]) => isSpecUpdated(At(c, w, k - 1), w[k])
Due(c, w, i) == \E k \in DOMAIN w : k > i /\ Passes(c, w, k)

\* Version v asks for other bridges than the stored version s.  The API server
\* makes a count of 0 a count of 1 when the finalizer is written.
Effective(v) == IF v.replicas = 0 THEN 1 ELSE v.replicas
AsksElse(v, s) ==
  ~Exists(v) \/ (v.del /\ v.rv # s.rv) \/ Effective(v) # Effective(s)

\* The stream ends in the stored version, and a version that asks for something
\* else is followed by a step that passes the filter.
StreamOK(c, w, s) ==
  /\ At(c, w, Len(w)) = s
  /\ Exists(s) => \A i \in 0..Len(w) : AsksElse(At(c, w, i), s) => Due(c, w, i)

Coming == queued \/ Due(crCache, watch, 0)
Unreconciled == IF cr.del THEN faults = 0 ELSE cr.status # cr.replicas

\* A worker that acts on a version that asks for something else will be called
\* again; so it will as long as the stored version is not reconciled, unless it
\* is at it.
NothingLost ==
  relists = 0 =>
    /\ StreamOK(crCache, watch, cr)
    /\ Exists(cr) =>
         /\ pc # "idle" /\ AsksElse(obj, cr) => Coming
         /\ Unreconciled => \/ Coming
                            \/ pc # "idle" /\ ~obj.del
                            \/ pc = "removeFinalizer" /\ obj.rv = cr.rv

LEMMA AppendDue ==
  ASSUME NEW c, NEW w \in Seq(Version), NEW v \in Version
  PROVE  /\ Len(Append(w, v)) = Len(w) + 1 /\ Len(w) \in Nat
         /\ \A i \in 0..Len(w) :
              /\ At(c, Append(w, v), i) = At(c, w, i)
              /\ Due(c, w, i) => Due(c, Append(w, v), i)
         /\ At(c, Append(w, v), Len(w) + 1) = v
         /\ (Exists(At(c, w, Len(w))) /\ Exists(v) => isSpecUpdated(At(c, w, Len(w)), v))
              => \A i \in 0..Len(w) : Due(c, Append(w, v), i)
<1> DEFINE x == Append(w, v)
<1>1. /\ Len(w) \in Nat /\ DOMAIN w = 1..Len(w)
      /\ Len(x) = Len(w) + 1 /\ DOMAIN x = 1..(Len(w) + 1)
      /\ x[Len(w) + 1] = v /\ \A k \in 1..Len(w) : x[k] = w[k]
  BY AppendProperties
<1> HIDE DEF x
<1>2. \A i \in 0..Len(w) : At(c, x, i) = At(c, w, i)
  BY <1>1 DEF At
<1>3. At(c, x, Len(w) + 1) = v
  BY <1>1 DEF At
<1>4. \A k \in 1..Len(w) : Passes(c, w, k) => Passes(c, x, k)
  <2> TAKE k \in 1..Len(w)
  <2>1. k - 1 \in 0..Len(w) /\ x[k] = w[k]
    BY <1>1
  <2> QED
    BY <1>2, <2>1 DEF Passes
<1>5. \A i \in 0..Len(w) : Due(c, w, i) => Due(c, x, i)
  BY <1>1, <1>4 DEF Due
<1>6. ASSUME Exists(At(c, w, Len(w))) /\ Exists(v) => isSpecUpdated(At(c, w, Len(w)), v)
      PROVE  \A i \in 0..Len(w) : Due(c, x, i)
  <2>1. (Len(w) + 1) - 1 = Len(w) /\ Len(w) \in 0..Len(w)
    BY <1>1
  <2>2. At(c, x, Len(w)) = At(c, w, Len(w)) /\ x[Len(w) + 1] = v
    BY <1>1, <1>2, <2>1
  <2>3. Passes(c, x, Len(w) + 1)
    BY <1>6, <2>1, <2>2 DEF Passes
  <2> QED
    BY <1>1, <2>3 DEF Due
<1> QED
  BY <1>1, <1>2, <1>3, <1>5, <1>6 DEF x

\* A write that passes the filter, drops the object, or leaves what it asks for
\* as it was.
LEMMA AppendStream ==
  ASSUME NEW c, NEW w \in Seq(Version), NEW s \in Version, NEW v \in Version,
         StreamOK(c, w, s),
         \/ ~Exists(v)
         \/ Exists(s) /\ Exists(v) => isSpecUpdated(s, v)
         \/ /\ Exists(s) /\ Effective(v) = Effective(s) /\ ~s.del /\ v.rv # s.rv
            /\ \A i \in 0..Len(w) : At(c, w, i).rv = s.rv => ~At(c, w, i).del
  PROVE  /\ StreamOK(c, Append(w, v), v)
         /\ Due(c, w, 0) => Due(c, Append(w, v), 0)
         /\ (Exists(s) /\ Exists(v) => isSpecUpdated(s, v)) => Due(c, Append(w, v), 0)
<1> DEFINE x == Append(w, v)
<1>1. /\ Len(x) = Len(w) + 1 /\ Len(w) \in Nat /\ 0 \in 0..Len(w)
      /\ \A i \in 0..Len(w) : At(c, x, i) = At(c, w, i) /\ (Due(c, w, i) => Due(c, x, i))
      /\ At(c, x, Len(w) + 1) = v
  BY AppendDue
<1>2. At(c, w, Len(w)) = s
  BY DEF StreamOK
<1>3. (Exists(s) /\ Exists(v) => isSpecUpdated(s, v)) => \A i \in 0..Len(w) : Due(c, x, i)
  BY <1>2, AppendDue
<1> HIDE DEF x
<1>4. ASSUME Exists(v), NEW i \in 0..Len(x), AsksElse(At(c, x, i), v)
      PROVE  Due(c, x, i)
  <2>1. i \in 0..Len(w)
    <3>1. ~AsksElse(v, v)
      BY <1>4 DEF AsksElse
    <3> QED
      BY <1>1, <1>4, <3>1
  <2>2. CASE Exists(s) /\ Exists(v) => isSpecUpdated(s, v)
    BY <1>3, <2>1, <2>2
  <2>3. CASE /\ Exists(s) /\ Effective(v) = Effective(s) /\ ~s.del /\ v.rv # s.rv
             /\ \A j \in 0..Len(w) : At(c, w, j).rv = s.rv => ~At(c, w, j).del
    <3>1. AsksElse(At(c, w, i), s)
      BY <1>1, <1>4, <2>1, <2>3 DEF AsksElse
    <3> QED
      BY <1>1, <2>1, <2>3, <3>1 DEF StreamOK
  <2> QED
    BY <1>4, <2>2, <2>3
<1> QED
  BY <1>1, <1>3, <1>4 DEF StreamOK, x

LEMMA TailStream ==
  ASSUME NEW c, NEW w \in Seq(Version), NEW s, w # <<>>, StreamOK(c, w, s)
  PROVE  /\ StreamOK(Head(w), Tail(w), s)
         /\ Due(c, w, 0) => Passes(c, w, 1) \/ Due(Head(w), Tail(w), 0)
<1> DEFINE x == Tail(w)
<1>1. /\ Len(w) \in Nat /\ Len(w) > 0 /\ DOMAIN w = 1..Len(w)
      /\ Len(x) = Len(w) - 1 /\ DOMAIN x = 1..(Len(w) - 1)
      /\ Head(w) = w[1] /\ \A k \in 1..(Len(w) - 1) : x[k] = w[k + 1]
  BY HeadTailProperties, EmptySeq
<1> HIDE DEF x
<1>2. \A i \in 0..(Len(w) - 1) : At(Head(w), x, i) = At(c, w, i + 1)
  BY <1>1 DEF At
<1>3. \A k \in 1..(Len(w) - 1) : Passes(c, w, k + 1) => Passes(Head(w), x, k)
  <2> TAKE k \in 1..(Len(w) - 1)
  <2>1. /\ k - 1 \in 0..(Len(w) - 1) /\ (k - 1) + 1 = k /\ (k + 1) - 1 = k
        /\ x[k] = w[k + 1]
    BY <1>1
  <2>2. At(Head(w), x, k - 1) = At(c, w, k)
    BY <1>2, <2>1
  <2> QED
    BY <2>1, <2>2 DEF Passes
<1>4. \A i \in 0..(Len(w) - 1) : Due(c, w, i + 1) => Due(Head(w), x, i)
  <2> SUFFICES ASSUME NEW i \in 0..(Len(w) - 1), NEW k \in 1..Len(w), k > i + 1,
                      Passes(c, w, k)
               PROVE  Due(Head(w), x, i)
    BY <1>1 DEF Due
  <2>1. k - 1 \in 1..(Len(w) - 1) /\ k - 1 > i /\ (k - 1) + 1 = k
    BY <1>1
  <2>2. Passes(Head(w), x, k - 1)
    BY <1>3, <2>1
  <2> QED
    BY <1>1, <2>1, <2>2 DEF Due
<1>5. Due(c, w, 0) => Passes(c, w, 1) \/ Due(Head(w), x, 0)
  <2>1. Due(c, w, 0) => Passes(c, w, 1) \/ Due(c, w, 1)
    BY <1>1 DEF Due
  <2>2. Due(c, w, 0 + 1) => Due(Head(w), x, 0)
    BY <1>1, <1>4
  <2> QED
    BY <2>1, <2>2
<1>6. At(Head(w), x, Len(x)) = s
  BY <1>1, <1>2 DEF StreamOK
<1>7. ASSUME Exists(s), NEW i \in 0..Len(x), AsksElse(At(Head(w), x, i), s)
      PROVE  Due(Head(w), x, i)
  <2>1. i \in 0..(Len(w) - 1) /\ i + 1 \in 0..Len(w)
    BY <1>1
  <2>2. Due(c, w, i + 1)
    BY <1>2, <1>7, <2>1 DEF StreamOK
  <2> QED
    BY <1>4, <2>1, <2>2
<1> QED
  BY <1>5, <1>6, <1>7 DEF StreamOK, x

LEMMA ListedStream ==
  ASSUME NEW s
  PROVE  StreamOK(s, <<>>, s)
<1>1. Len(<<>>) = 0 /\ 0..0 = {0}
  OBVIOUS
<1> QED
  BY <1>1 DEF StreamOK, At, AsksElse
-----------------------------------------------------------------------------
(* Steps that lose no event. *)

LEMMA StreamFacts ==
  ASSUME OrderInv
  PROVE  /\ cr \in Version /\ crCache \in Version /\ obj \in Version
         /\ watch \in Seq(Version) /\ rv \in Nat /\ faults \in Nat
         /\ \A v \in Versions : Exists(cr) /\ v.rv = cr.rv => Agrees(v, cr)
         /\ cr.rv <= rv
         /\ obj \in Versions
         /\ \A i \in 0..Len(watch) : At(crCache, watch, i) \in Versions
<1>1. TypeInv /\ VersionsAgree
  BY DEF OrderInv, VersionsInv
<1>2. /\ cr \in Version /\ crCache \in Version /\ obj \in Version
      /\ watch \in Seq(Version) /\ rv \in Nat
  BY <1>1 DEF TypeInv, TypeOK, CRTypeOK, WorkerTypeOK
<1>3. faults \in Nat
  <2>1. faults \in 0..MaxFaults
    BY <1>1 DEF TypeInv, TypeOK, FaultTypeOK
  <2> QED
    BY <2>1
<1>4. cr \in Versions /\ obj \in Versions /\ crCache \in Versions
  BY DEF Versions
<1>5. \A v \in Versions : Fits(v, cr, rv)
  BY <1>1 DEF VersionsAgree
<1>6. \A i \in 0..Len(watch) : At(crCache, watch, i) \in Versions
  <2>1. \A i \in 1..Len(watch) : watch[i] \in Versions
    BY <1>2 DEF Versions, Announced
  <2> QED
    BY <1>2, <1>4, <2>1 DEF At
<1> QED
  BY <1>2, <1>3, <1>4, <1>5, <1>6 DEF Fits

\* A call that writes nothing of the resource.
LEMMA CallLosesNothing ==
  ASSUME NothingLost, pc \notin {"idle", "removeFinalizer"}, pc' # "idle", obj' = obj,
         UNCHANGED <<cr, crCache, watch, queued, relists>>, faults' = 0 => faults = 0
  PROVE  NothingLost'
<1>1. Unreconciled' => Unreconciled
  BY DEF Unreconciled
<1>2. Coming' <=> Coming
  BY DEF Coming
<1> QED
  BY <1>1, <1>2 DEF NothingLost

\* A return with the key queued, or with something announced that will queue it.
LEMMA ReturnLosesNothing ==
  ASSUME NothingLost, pc' = "idle", UNCHANGED <<cr, crCache, watch, relists>>,
         Coming => Coming', Unreconciled' => Unreconciled,
         Exists(cr) /\ Unreconciled /\ relists = 0 => Coming'
  PROVE  NothingLost'
  BY DEF NothingLost

LEMMA TryFaults ==
  ASSUME OrderInv, NEW o, NEW c, Try(o, c)
  PROVE  faults' = 0 => faults = 0
<1>1. faults \in Nat
  BY StreamFacts
<1> QED
  BY <1>1 DEF Try, Fault

LEMMA CallSteps ==
  ASSUME OrderInv, NothingLost,
         \/ CreateConfigMaps \/ SkipExisting \/ GetService \/ CreateService \/ CreateSIP
         \/ CreateInstance \/ StartUpdate \/ UpdateConfigMaps \/ UpdateInstance
         \/ (UpdateSIP /\ pc' # "idle")
         \/ StartDelete \/ DeleteService \/ DeleteExporter \/ DeleteInstance
         \/ ListConfigMaps \/ DeleteConfigMap
  PROVE  NothingLost'
<1> USE DEF sameCR, crVars, Round, Goto, Done
<1>1. /\ pc \notin {"idle", "removeFinalizer"} /\ pc' # "idle" /\ obj' = obj
      /\ UNCHANGED <<cr, crCache, watch, queued, relists>>
  <2>1. CASE \/ CreateConfigMaps \/ SkipExisting \/ GetService \/ CreateService \/ CreateSIP
             \/ CreateInstance
    BY <2>1 DEF CreateConfigMaps, SkipExisting, GetService, CreateService, CreateSIP,
       CreateInstance
  <2>2. CASE StartUpdate \/ UpdateConfigMaps \/ UpdateInstance
    BY <2>2 DEF StartUpdate, UpdateConfigMaps, UpdateInstance, ScaleDownFrom, UpdateFrom
  <2>3. CASE UpdateSIP /\ pc' # "idle"
    BY <2>3 DEF UpdateSIP, Return, Release
  <2>4. CASE StartDelete \/ DeleteService \/ DeleteExporter \/ DeleteInstance
    BY <2>4 DEF StartDelete, DeleteService, DeleteExporter, DeleteInstance, ScaleDownFrom,
       DeleteFrom
  <2>5. CASE ListConfigMaps \/ DeleteConfigMap
    BY <2>5 DEF ListConfigMaps, DeleteConfigMap
  <2> QED
    BY <2>1, <2>2, <2>3, <2>4, <2>5
<1>2. faults' = 0 => faults = 0
  <2>1. \/ \E o, c : Try(o, c)
        \/ UNCHANGED faults
        \/ Fault
    BY DEF CreateConfigMaps, SkipExisting, GetService, CreateService, CreateSIP,
       CreateInstance, StartUpdate, UpdateConfigMaps, UpdateInstance, UpdateSIP,
       StartDelete, DeleteService, DeleteExporter, DeleteCached, DeleteInstance,
       ListConfigMaps, DeleteConfigMap, faultVars
  <2>2. Fault => faults' # 0
    BY StreamFacts DEF Fault
  <2> QED
    BY <2>1, <2>2, TryFaults
<1> QED
  BY <1>1, <1>2, CallLosesNothing

LEMMA ReturnSteps ==
  ASSUME OrderInv, StageOK, NothingLost, (UpdateSIP /\ pc' = "idle") \/ FinishDelete
  PROVE  NothingLost'
<1>1. CASE UpdateSIP /\ pc' = "idle"
  <2>1. queued' = TRUE /\ UNCHANGED <<cr, crCache, watch, relists>>
    BY <1>1 DEF UpdateSIP, Return
  <2>2. faults' = 0 => faults = 0
    BY <1>1, TryFaults DEF UpdateSIP
  <2>3. Unreconciled' => Unreconciled
    BY <2>1, <2>2 DEF Unreconciled
  <2>4. Coming'
    BY <2>1 DEF Coming
  <2> QED
    BY <1>1, <2>1, <2>3, <2>4, ReturnLosesNothing
<1>2. CASE FinishDelete
  <2>1. /\ pc = "deleteCMs" /\ pc' = "idle"
        /\ UNCHANGED <<cr, crCache, watch, relists, faults>>
    BY <1>2 DEF FinishDelete, Return, Release, faultVars
  <2>2. queued' = queued
    BY <1>2, OrderFacts DEF FinishDelete, Return, OrderInv, VersionsInv, TypeInv, TypeOK,
       CRTypeOK
  <2>3. Coming' <=> Coming
    BY <2>1, <2>2 DEF Coming
  <2>4. Unreconciled' => Unreconciled
    BY <2>1 DEF Unreconciled
  <2>5. obj.del
    BY <2>1 DEF StageOK, Deletes
  <2>6. Exists(cr) /\ Unreconciled /\ relists = 0 => Coming
    BY <2>1, <2>5 DEF NothingLost
  <2> QED
    BY <2>1, <2>3, <2>4, <2>6, ReturnLosesNothing
<1> QED
  BY <1>1, <1>2

\* A version taken from the cache that is not the stored one is followed by a
\* step that passes the filter, unless it asks for the same.
LEMMA TakeSteps ==
  ASSUME OrderInv, NothingLost, ReconcileNotFound \/ Reconcile
  PROVE  NothingLost'
<1>1. /\ UNCHANGED <<cr, crCache, watch, relists>> /\ pc = "idle"
      /\ Unreconciled' = Unreconciled
  BY DEF ReconcileNotFound, Reconcile, Take, faultVars, Unreconciled
<1> SUFFICES ASSUME relists = 0, Exists(cr)
             PROVE  /\ pc' # "idle" /\ AsksElse(obj', cr) => Coming'
                    /\ Unreconciled' => \/ Coming'
                                        \/ pc' # "idle" /\ ~obj'.del
                                        \/ pc' = "removeFinalizer" /\ obj'.rv = cr.rv
  BY <1>1 DEF NothingLost, Exists
<1>2. AsksElse(crCache, cr) => Due(crCache, watch, 0)
  <2>1. 0 \in 0..Len(watch) /\ At(crCache, watch, 0) = crCache
    BY StreamFacts DEF At
  <2> QED
    BY <2>1 DEF NothingLost, StreamOK
<1>3. Due(crCache, watch, 0) => Coming'
  BY <1>1 DEF Coming
<1>4. CASE ReconcileNotFound
  <2>1. pc' = "idle" /\ ~Exists(crCache)
    BY <1>1, <1>4 DEF ReconcileNotFound, workerVars
  <2> QED
    BY <1>2, <1>3, <2>1 DEF AsksElse
<1>5. CASE Reconcile
  <2>1. obj' = crCache /\ (crCache.del => pc' = "removeFinalizer") /\ pc' # "idle"
    BY <1>5 DEF Reconcile
  <2> QED
    BY <1>2, <1>3, <2>1 DEF AsksElse
<1> QED
  BY <1>4, <1>5

\* A write that leaves what the resource asks for as it was.
LEMMA SilentWrite ==
  ASSUME OrderInv, StreamOK(crCache, watch, cr), Exists(cr), ~cr.del,
         NEW v \in Version, v.rv = rv + 1, Effective(v) = Effective(cr)
  PROVE  /\ StreamOK(crCache, Append(watch, v), v)
         /\ Due(crCache, watch, 0) => Due(crCache, Append(watch, v), 0)
<1>1. v.rv # cr.rv
  BY StreamFacts DEF Version
<1>2. \A i \in 0..Len(watch) : At(crCache, watch, i).rv = cr.rv => ~At(crCache, watch, i).del
  BY StreamFacts DEF Agrees
<1> QED
  BY <1>1, <1>2, StreamFacts, AppendStream

LEMMA AddFinalizerStep ==
  ASSUME OrderInv, StageOK, NothingLost, AddFinalizerCall
  PROVE  NothingLost'
<1> DEFINE sent == [obj EXCEPT !.fin = TRUE]
           full == Defaulted(sent)
<1>1. /\ pc = "addFinalizer" /\ pc' = "createConfigMaps" /\ ~obj.del
      /\ UNCHANGED <<crCache, queued, relists>>
  BY DEF AddFinalizerCall, StageOK, Prepares
<1>2. obj \in Version /\ cr \in Version /\ rv \in Nat /\ full \in Version
  BY StreamFacts, FinalizedFields
<1>3. Exists(obj)
  BY <1>1 DEF OrderInv, ConfigurationsInOrder
<1>4. Exists(sent) /\ sent.del = obj.del /\ sent.replicas = obj.replicas /\ sent.rv = obj.rv
  BY <1>2, <1>3 DEF Version, Exists
<1>5. full.del = sent.del /\ Effective(full) = Effective(sent)
  <2>1. sent \in Version
    BY <1>2 DEF Version
  <2> HIDE DEF sent
  <2> QED
    BY <2>1 DEF Defaulted, Effective, Version
<1>6. /\ Stored(full) \in Version /\ Stored(full).rv = rv + 1 /\ Stored(full).del = full.del
      /\ Effective(Stored(full)) = Effective(full) /\ Exists(Stored(full))
  <2> HIDE DEF full
  <2> QED
    BY <1>2 DEF Stored, Version, Effective, Exists
<1>7. Effective(sent) = Effective(obj)
  BY <1>4 DEF Effective
<1> SUFFICES ASSUME relists = 0 PROVE NothingLost'
  BY <1>1 DEF NothingLost
<1>8. StreamOK(crCache, watch, cr)
  BY DEF NothingLost
<1>9. CASE AddFinalizer(obj) /\ obj' \in {cr', sent}
  <2>1. /\ Exists(cr) /\ cr.rv = obj.rv /\ cr' = Stored(full)
        /\ watch' = Append(watch, Stored(full))
    BY <1>9 DEF AddFinalizer, Current, Store
  <2>2. ~cr.del /\ Effective(obj) = Effective(cr)
    BY <1>1, <2>1, StreamFacts DEF Agrees, Effective
  <2> HIDE DEF sent, full
  <2>3. StreamOK(crCache, Append(watch, Stored(full)), Stored(full))
    BY <1>5, <1>6, <1>7, <1>8, <2>1, <2>2, SilentWrite
  <2>4. Exists(obj') /\ ~obj'.del /\ Effective(obj') = Effective(cr')
    BY <1>1, <1>4, <1>5, <1>6, <1>9, <2>1
  <2> QED
    BY <1>1, <2>1, <2>3, <2>4 DEF NothingLost, AsksElse
<1>10. CASE UNCHANGED <<cr, watch>> /\ obj' = sent
  <2>1. Coming' <=> Coming
    BY <1>1, <1>10 DEF Coming
  <2> HIDE DEF sent, full
  <2>2. AsksElse(obj', cr') <=> AsksElse(obj, cr)
    BY <1>3, <1>4, <1>7, <1>10 DEF AsksElse
  <2> QED
    BY <1>1, <1>4, <1>10, <2>1, <2>2 DEF NothingLost
<1> QED
  BY <1>9, <1>10 DEF AddFinalizerCall

LEMMA StatusStep ==
  ASSUME OrderInv, StageOK, NothingLost, UpdateStatus
  PROVE  NothingLost'
<1> DEFINE w == Stored([cr EXCEPT !.status = obj.replicas])
<1>1. /\ pc = "updateStatus" /\ pc' = "idle" /\ ~obj.del
      /\ UNCHANGED <<crCache, relists>>
  BY DEF UpdateStatus, Return, Release, StageOK, Prepares
<1>2. obj \in Version /\ cr \in Version /\ rv \in Nat /\ obj.replicas \in 0..MaxReplicas
  BY StreamFacts DEF Version
<1>3. /\ w \in Version /\ w.rv = rv + 1 /\ w.del = cr.del /\ w.replicas = cr.replicas
      /\ w.status = obj.replicas /\ Exists(w)
  <2> DEFINE x == [cr EXCEPT !.status = obj.replicas]
  <2>1. /\ x \in Version /\ x.del = cr.del /\ x.replicas = cr.replicas
        /\ x.status = obj.replicas
    BY <1>2 DEF Version
  <2> HIDE DEF x
  <2>2. /\ Stored(x) \in Version /\ Stored(x).rv = rv + 1 /\ Stored(x).del = x.del
        /\ Stored(x).replicas = x.replicas /\ Stored(x).status = x.status
        /\ Exists(Stored(x))
    BY <1>2, <2>1 DEF Stored, Version, Exists
  <2> QED
    BY <2>1, <2>2 DEF x
<1> HIDE DEF w
<1>4. Effective(w) = Effective(cr)
  BY <1>3 DEF Effective
<1> SUFFICES ASSUME relists = 0 PROVE NothingLost'
  BY <1>1 DEF NothingLost
<1>5. StreamOK(crCache, watch, cr)
  BY DEF NothingLost
<1>6. CASE WriteStatus(obj, obj.replicas)
  <2>1. Exists(cr) /\ cr.rv = obj.rv
    BY <1>6 DEF WriteStatus, Current
  <2>2. ~cr.del /\ obj.replicas = cr.replicas
    BY <1>1, <2>1, StreamFacts DEF Agrees
  <2>3. CASE cr.status = obj.replicas /\ UNCHANGED <<cr, watch>>
    <3>1. ~Unreconciled'
      BY <2>2, <2>3 DEF Unreconciled
    <3> QED
      BY <1>1, <1>5, <2>3, <3>1 DEF NothingLost
  <2>4. CASE cr' = w /\ watch' = Append(watch, w)
    <3>1. ~Unreconciled'
      BY <1>3, <2>2, <2>4 DEF Unreconciled
    <3>2. StreamOK(crCache, Append(watch, w), w)
      BY <1>3, <1>4, <1>5, <2>1, <2>2, SilentWrite
    <3> QED
      BY <1>1, <2>4, <3>1, <3>2 DEF NothingLost
  <2> QED
    BY <1>6, <2>3, <2>4 DEF WriteStatus, Store, w
<1>7. CASE UNCHANGED <<cr, watch>> /\ queued'
  BY <1>1, <1>5, <1>7 DEF NothingLost, Coming
<1> QED
  <2>1. Return(TRUE) => queued'
    BY DEF Return
  <2> QED
    BY <1>6, <1>7, <2>1 DEF UpdateStatus

LEMMA DropStep ==
  ASSUME OrderInv, StageOK, NothingLost, RemoveFinalizerCall
  PROVE  NothingLost'
<1> DEFINE sent == [obj EXCEPT !.fin = FALSE]
<1>1. /\ pc = "removeFinalizer" /\ pc' = "delete" /\ obj.del
      /\ UNCHANGED <<crCache, queued, relists>>
  BY DEF RemoveFinalizerCall, StageOK, Deletes
<1>2. obj \in Version /\ Exists(obj)
  BY <1>1, StreamFacts DEF OrderInv, ConfigurationsInOrder
<1>3. Exists(sent) /\ sent.del = obj.del /\ sent.replicas = obj.replicas /\ sent.rv = obj.rv
  BY <1>2 DEF Version, Exists
<1> SUFFICES ASSUME relists = 0 PROVE NothingLost'
  BY <1>1 DEF NothingLost
<1>4. StreamOK(crCache, watch, cr)
  BY DEF NothingLost
<1>5. CASE RemoveFinalizer(obj)
  <2>1. cr' = NoObject /\ watch' = Append(watch, NoObject) /\ ~Exists(NoObject)
    BY <1>5 DEF RemoveFinalizer, Remove, NoObject, Exists
  <2>2. StreamOK(crCache, Append(watch, NoObject), NoObject)
    BY <1>4, <2>1, AppendStream, NoObjectIsVersion, StreamFacts
  <2> QED
    BY <1>1, <2>1, <2>2 DEF NothingLost
<1>6. CASE /\ UNCHANGED <<cr, watch>> /\ obj' = sent
           /\ ((~Current(obj) /\ faults' = faults) \/ Fault)
  <2>1. Coming' <=> Coming
    BY <1>1, <1>6 DEF Coming
  <2> HIDE DEF sent
  <2>2. AsksElse(obj', cr') <=> AsksElse(obj, cr)
    BY <1>2, <1>3, <1>6 DEF AsksElse, Effective
  <2>3. Exists(cr) /\ Unreconciled' => Coming
    <3> SUFFICES ASSUME Exists(cr), Unreconciled' PROVE Coming
      OBVIOUS
    <3>1. CASE ~Current(obj) /\ faults' = faults
      <4>1. Unreconciled /\ obj.rv # cr.rv
        BY <1>6, <3>1 DEF Unreconciled, Current
      <4> QED
        BY <1>1, <4>1 DEF NothingLost
    <3>2. CASE Fault
      <4>1. ~cr.del /\ Unreconciled
        BY <1>6, <3>2, StreamFacts DEF Fault, Unreconciled
      <4>2. obj.rv # cr.rv
        BY <1>1, <4>1, StreamFacts DEF Agrees
      <4> QED
        BY <1>1, <4>1, <4>2 DEF NothingLost
    <3> QED
      BY <1>6, <3>1, <3>2
  <2> QED
    BY <1>1, <1>6, <2>1, <2>2, <2>3 DEF NothingLost
<1> QED
  BY <1>5, <1>6 DEF RemoveFinalizerCall

\* What users write passes the filter, unless the object is gone with it.
LEMMA UserAsks ==
  ASSUME OrderInv, UserWrite
  PROVE  /\ UNCHANGED <<crCache, queued, relists, pc, obj>>
         /\ watch' = Append(watch, cr')
         /\ \/ cr' = NoObject
            \/ cr' \in Version /\ (Exists(cr) => isSpecUpdated(cr, cr'))
<1>1. /\ UNCHANGED <<crCache, queued, relists, pc, obj>> /\ User
  BY DEF UserWrite, User, UserCreate, UserScale, UserReconfigure, UserDelete, UserStep,
     workerVars
<1>2. cr \in Version /\ rv \in Nat
  BY StreamFacts
<1> DEFINE Asks == /\ watch' = Append(watch, cr')
                  /\ \/ cr' = NoObject
                     \/ cr' \in Version /\ (Exists(cr) => isSpecUpdated(cr, cr'))
<1> SUFFICES Asks
  BY <1>1
<1>3. CASE Remove
  BY <1>3 DEF Remove
<1>4. ASSUME NEW v \in Version, Store(v), Exists(cr) => isSpecUpdated(cr, v)
      PROVE  Asks
  <2>1. Stored(v) \in Version /\ Stored(v).fin = v.fin /\ Stored(v).status = v.status
    BY <1>2 DEF Stored, Version
  <2>2. Exists(cr) => isSpecUpdated(cr, Stored(v))
    BY <1>4, <2>1 DEF isSpecUpdated
  <2> QED
    BY <1>4, <2>1, <2>2 DEF Store
<1>5. CASE \E n \in ReplicaCounts : UserCreate(n)
  <2>1. PICK n \in ReplicaCounts : UserCreate(n)
    BY <1>5
  <2>2. [NoObject EXCEPT !.replicas = n, !.conf = edits + 1] \in Version
    <3> DEFINE v == [NoObject EXCEPT !.replicas = n]
    <3>1. n \in 0..MaxReplicas /\ edits \in Nat
      BY ReplicasAssumption, OrderFacts
    <3>2. v \in Version
      BY <3>1, NoObjectIsVersion DEF Version
    <3> HIDE DEF v
    <3>3. [v EXCEPT !.conf = edits + 1] \in Version
      BY <3>1, <3>2 DEF Version
    <3> QED
      BY <3>3 DEF v
  <2> QED
    BY <1>4, <2>1, <2>2 DEF UserCreate
<1>6. CASE \E n \in ReplicaCounts : UserScale(n)
  <2>1. PICK n \in ReplicaCounts : UserScale(n)
    BY <1>6
  <2> DEFINE v == [cr EXCEPT !.replicas = n]
  <2>2. n \in 0..MaxReplicas
    BY ReplicasAssumption
  <2>3. v \in Version /\ v.fin = cr.fin /\ v.status = cr.status
    BY <1>2, <2>2 DEF Version
  <2>4. Store(v)
    BY <2>1 DEF UserScale
  <2> HIDE DEF v
  <2> QED
    BY <1>4, <2>3, <2>4, <1>2 DEF isSpecUpdated, Version
<1>7. CASE UserReconfigure
  <2> DEFINE v == [cr EXCEPT !.conf = edits + 1]
  <2>1. edits \in Nat
    BY OrderFacts
  <2>2. v \in Version /\ v.fin = cr.fin /\ v.status = cr.status
    BY <1>2, <2>1 DEF Version
  <2>3. Store(v)
    BY <1>7 DEF UserReconfigure
  <2> HIDE DEF v
  <2> QED
    BY <1>4, <2>2, <2>3, <1>2 DEF isSpecUpdated, Version
<1>8. CASE UserDelete
  <2> DEFINE v == [cr EXCEPT !.del = TRUE]
  <2>1. v \in Version /\ v.fin = cr.fin /\ v.status = cr.status
    BY <1>2 DEF Version
  <2>2. Store(v) \/ Remove
    BY <1>8 DEF UserDelete
  <2> HIDE DEF v
  <2> QED
    BY <1>3, <1>4, <2>1, <2>2, <1>2 DEF isSpecUpdated, Version
<1> QED
  BY <1>1, <1>5, <1>6, <1>7, <1>8 DEF User

LEMMA UserStepLosesNothing ==
  ASSUME OrderInv, NothingLost, UserWrite
  PROVE  NothingLost' /\ (relists = 0 /\ Exists(cr') => Coming')
<1>1. /\ UNCHANGED <<crCache, queued, relists, pc, obj>> /\ watch' = Append(watch, cr')
      /\ \/ cr' = NoObject
         \/ cr' \in Version /\ (Exists(cr) => isSpecUpdated(cr, cr'))
  BY UserAsks
<1> SUFFICES ASSUME relists = 0 PROVE NothingLost' /\ (Exists(cr') => Coming')
  BY <1>1 DEF NothingLost
<1>2. StreamOK(crCache, watch, cr) /\ watch \in Seq(Version) /\ cr \in Version
  BY StreamFacts DEF NothingLost
<1>3. ~Exists(NoObject) /\ NoObject \in Version
  BY NoObjectIsVersion DEF NoObject, Exists
<1>4. StreamOK(crCache, watch', cr') /\ (Exists(cr') => Due(crCache, watch', 0))
  <2>1. cr' \in Version
    BY <1>1, <1>3
  <2>2. CASE cr' = NoObject
    BY <1>1, <1>2, <1>3, <2>1, <2>2, AppendStream
  <2>3. CASE Exists(cr) => isSpecUpdated(cr, cr')
    BY <1>1, <1>2, <2>1, <2>3, AppendStream
  <2> QED
    BY <1>1, <2>2, <2>3
<1> QED
  BY <1>1, <1>4 DEF NothingLost, Coming

\* What is delivered is in the queue if it was the step that had to come.
LEMMA DeliveryComes ==
  ASSUME OrderInv, NothingLost, ReceiveVersion
  PROVE  relists = 0 => StreamOK(crCache', watch', cr) /\ (Coming => Coming')
<1>1. /\ watch # <<>> /\ crCache' = Head(watch) /\ watch' = Tail(watch)
      /\ queued' = (queued \/ Filter(Head(watch)))
  BY DEF ReceiveVersion, Deliver
<1>2. Passes(crCache, watch, 1) <=> Filter(Head(watch))
  <2>1. Head(watch) = watch[1] /\ 1 - 1 = 0
    BY <1>1, StreamFacts, HeadTailProperties
  <2> QED
    BY <2>1 DEF Passes, At, Filter
<1> QED
  BY <1>1, <1>2, StreamFacts, TailStream DEF NothingLost, Coming

LEMMA SurroundingSteps ==
  ASSUME OrderInv, NothingLost,
         \/ ReceiveVersion \/ ReceiveList \/ PeriodicResync \/ Crash
         \/ (\E i \in Informers : ReceiveChild(i)) \/ (\E o \in Objects : Touch(o))
         \/ UNCHANGED vars
  PROVE  NothingLost'
<1>1. CASE ReceiveVersion
  <2>1. UNCHANGED <<cr, relists, pc, obj, faults>>
    BY <1>1 DEF ReceiveVersion, Deliver, workerVars, faultVars
  <2>2. relists = 0 => StreamOK(crCache', watch', cr) /\ (Coming => Coming')
    BY <1>1, DeliveryComes
  <2>3. Unreconciled' <=> Unreconciled
    BY <2>1 DEF Unreconciled
  <2> QED
    BY <2>1, <2>2, <2>3 DEF NothingLost
<1>2. CASE ReceiveList
  <2>1. relists' = relists + 1 /\ relists \in 0..MaxRelists
    BY <1>2 DEF ReceiveList, Relist, OrderInv, VersionsInv, TypeInv, TypeOK, CRTypeOK
  <2>2. relists' # 0
    BY <2>1
  <2> QED
    BY <2>2 DEF NothingLost
<1>3. CASE PeriodicResync
  BY <1>3 DEF PeriodicResync, Resync, NothingLost, Coming, workerVars
<1>4. CASE Crash
  <2>1. /\ crCache' = cr /\ cr' = cr /\ watch' = <<>> /\ pc' = "idle"
        /\ queued' = Exists(cr)
    BY <1>4 DEF Crash, RestartInformer, Release
  <2> QED
    BY <2>1, ListedStream DEF NothingLost, Coming
<1>5. CASE (\E i \in Informers : ReceiveChild(i)) \/ (\E o \in Objects : Touch(o))
           \/ UNCHANGED vars
  <2>1. UNCHANGED <<cr, crCache, watch, queued, relists, pc, obj, faults>>
    BY <1>5 DEF ReceiveChild, Touch, vars, crVars, workerVars, faultVars
  <2> QED
    BY <2>1 DEF NothingLost, Coming, Unreconciled
<1> QED
  BY <1>1, <1>2, <1>3, <1>4, <1>5

LEMMA InitLosesNothing ==
  ASSUME Init
  PROVE  NothingLost
<1>1. cr = crCache /\ watch = <<>> /\ ~Exists(cr)
  BY DEF Init, CRInit, NoObject, Exists
<1> QED
  BY <1>1, ListedStream DEF NothingLost

LEMMA StepLosesNothing ==
  ASSUME OrderInv, StageOK, NothingLost, [Next]_vars
  PROVE  NothingLost'
<1>1. CASE ReconcileNotFound \/ Reconcile
  BY <1>1, TakeSteps
<1>2. CASE \/ CreateConfigMaps \/ SkipExisting \/ GetService \/ CreateService \/ CreateSIP
           \/ CreateInstance \/ StartUpdate \/ UpdateConfigMaps \/ UpdateInstance
           \/ StartDelete \/ DeleteService \/ DeleteExporter \/ DeleteInstance
           \/ ListConfigMaps \/ DeleteConfigMap
  BY <1>2, CallSteps
<1>3. CASE UpdateSIP \/ FinishDelete
  BY <1>3, CallSteps, ReturnSteps
<1>4. CASE AddFinalizerCall \/ UpdateStatus \/ RemoveFinalizerCall
  BY <1>4, AddFinalizerStep, StatusStep, DropStep
<1>5. CASE UserWrite
  BY <1>5, UserStepLosesNothing
<1>6. CASE \/ ReceiveVersion \/ ReceiveList \/ PeriodicResync \/ Crash
           \/ (\E i \in Informers : ReceiveChild(i)) \/ (\E o \in Objects : Touch(o))
           \/ UNCHANGED vars
  BY <1>6, SurroundingSteps
<1> QED
  BY <1>1, <1>2, <1>3, <1>4, <1>5, <1>6 DEF Next, Worker

\* Nothing the event filter drops, and no key that was queued already, keeps
\* the last version of the resource from being reconciled (QuietMeansReconciled).
THEOREM NoEventLost == Spec => []QuietMeansReconciled
<1>1. Init => StageOK
  BY DEF Init, StageOK, Renders, Removes, Deletes, Prepares
<1>2. OrderInv /\ StageOK /\ NothingLost /\ [Next]_vars
        => OrderInv' /\ StageOK' /\ NothingLost'
  BY StepOrder, StepStage, StepLosesNothing
<1>3. ASSUME NothingLost, faults \in Nat PROVE QuietMeansReconciled
  <2> SUFFICES ASSUME Quiet, Exists(cr), relists = 0
               PROVE  IF cr.del THEN faults > 0 ELSE cr.status = cr.replicas
    BY DEF QuietMeansReconciled
  <2>1. ~Coming
    BY DEF Quiet, Coming, Due
  <2>2. ~Unreconciled
    BY <1>3, <2>1 DEF NothingLost, Quiet
  <2> QED
    BY <1>3, <2>2 DEF Unreconciled
<1>4. OrderInv => faults \in Nat
  BY StreamFacts
<1> QED
  BY <1>1, <1>2, <1>3, <1>4, InitOrder, InitLosesNothing, PTL DEF Spec

\* Only the deletion of the resource and a scale-down take a bridge down, and a
\* scale-down stops at the first.
LEMMA TakesDown ==
  ASSUME OrderInv, StageOK, [Next]_vars, NEW r \in Bridges,
         Stands(Instance(r)), ~Stands(Instance(r))'
  PROVE  pc # "idle" /\ (obj.del \/ (r > 1 /\ r > obj.replicas))
<1> DEFINE o == Instance(r)
<1>1. o \in Objects /\ child \in [Objects -> Nat] /\ child[o] # 0 /\ child'[o] = 0
  BY NamesAreObjects DEF Bridges, Stands, OrderInv, VersionsInv, TypeInv, TypeOK, ChildTypeOK
<1>2. Exists(obj) => obj.conf # 0
  <2>1. obj \in Versions /\ obj.conf \in Nat /\ child[o] \in Nat
    BY <1>1, StreamFacts DEF Version
  <2>2. Exists(obj) => child[o] <= obj.conf
    BY <1>1, <2>1 DEF OrderInv, ConfigurationsInOrder
  <2> QED
    BY <1>1, <2>1, <2>2
<1>3. ASSUME NEW x, NEW c, Try(x, c) \/ Put(x, c) \/ UNCHANGED childVars
      PROVE  x = o /\ c = 0
  <2>1. child' \in {child, [child EXCEPT ![x] = c]}
    BY <1>3, TryMakes
  <2> QED
    BY <1>1, <2>1
<1>4. \/ CreateConfigMaps \/ GetService \/ CreateService \/ CreateSIP \/ CreateInstance
      \/ UpdateConfigMaps \/ UpdateSIP \/ UpdateInstance
      => FALSE
  <2> SUFFICES ASSUME \/ CreateConfigMaps \/ GetService \/ CreateService \/ CreateSIP
                      \/ CreateInstance \/ UpdateConfigMaps \/ UpdateSIP \/ UpdateInstance
               PROVE  FALSE
    OBVIOUS
  <2>1. pc # "idle"
    BY DEF CreateConfigMaps, GetService, CreateService, CreateSIP, CreateInstance,
       UpdateConfigMaps, UpdateSIP, UpdateInstance
  <2>2. obj.conf # 0
    BY <1>2, <2>1 DEF OrderInv, ConfigurationsInOrder
  <2>3. PICK x, c : Try(x, c) /\ c \in {child[x], obj.conf}
    BY DEF CreateConfigMaps, GetService, CreateService, CreateSIP, CreateInstance,
       UpdateConfigMaps, UpdateSIP, UpdateInstance, AfterCreate, AfterUpdate
  <2> QED
    BY <1>1, <1>3, <2>2, <2>3
<1>5. CASE DeleteService \/ DeleteExporter
  <2>1. \E x \in {Service(replica), Exporter(replica)} :
          Try(x, 0) \/ Put(x, 0) \/ UNCHANGED childVars
    BY <1>5 DEF DeleteService, DeleteExporter, DeleteCached, childVars
  <2> QED
    BY <1>3, <2>1 DEF Instance, Service, Exporter
<1>6. CASE DeleteInstance
  <2>1. Try(Instance(replica), 0) \/ UNCHANGED childVars
    BY <1>6 DEF DeleteInstance, DeleteCached, childVars
  <2>2. r = replica
    BY <1>3, <2>1 DEF Instance
  <2>3. pc = "deleteInstance"
    BY <1>6 DEF DeleteInstance
  <2> QED
    BY <2>2, <2>3 DEF StageOK, Removes, OrderInv, VersionsInv, TypeInv, LoopsInRange,
       PerReplica
<1>7. CASE DeleteConfigMap
  BY <1>7 DEF DeleteConfigMap, StageOK, Deletes
<1>8. child' # child
  BY <1>1
<1> QED
  BY <1>4, <1>5, <1>6, <1>7, <1>8
     DEF Next, Worker, ReconcileNotFound, Reconcile, Take, AddFinalizerCall, SkipExisting,
         StartUpdate, UpdateStatus, RemoveFinalizerCall, StartDelete, ListConfigMaps,
         FinishDelete, ReceiveVersion, ReceiveList, PeriodicResync, ReceiveChild, Touch,
         Crash, UserWrite, vars, childVars

\* A bridge that is still wanted is taken down only if the version that wants it
\* is on its way (RemovalIsRepaired).
THEOREM RemovalsRepaired == Spec => RemovalIsRepaired
<1> DEFINE Repaired == \A r \in Bridges :
              Stands(Instance(r)) /\ ~Stands(Instance(r))' /\ Wanted1(r) /\ relists = 0
                => watch # <<>> \/ queued
<1>1. Init => StageOK
  BY DEF Init, StageOK, Renders, Removes, Deletes, Prepares
<1>2. OrderInv /\ StageOK /\ NothingLost /\ [Next]_vars
        => OrderInv' /\ StageOK' /\ NothingLost'
  BY StepOrder, StepStage, StepLosesNothing
<1>3. OrderInv /\ StageOK /\ NothingLost /\ [Next]_vars => Repaired
  <2> SUFFICES ASSUME OrderInv, StageOK, NothingLost, [Next]_vars, NEW r \in Bridges,
                      Stands(Instance(r)), ~Stands(Instance(r))', Wanted1(r), relists = 0
               PROVE  watch # <<>> \/ queued
    OBVIOUS
  <2>1. pc # "idle" /\ (obj.del \/ (r > 1 /\ r > obj.replicas))
    BY TakesDown
  <2>2. Exists(cr) /\ ~cr.del /\ r <= cr.replicas
    BY DEF Wanted1, Live
  <2>3. AsksElse(obj, cr)
    <3>1. CASE obj.del
      BY <2>2, <3>1, StreamFacts DEF Agrees, AsksElse
    <3>2. CASE r > 1 /\ r > obj.replicas
      <4>1. r \in Nat /\ obj.replicas \in Nat /\ cr.replicas \in Nat
        BY StreamFacts, ReplicasAssumption DEF Version, Bridges
      <4> QED
        BY <2>2, <3>2, <4>1 DEF AsksElse, Effective
    <3> QED
      BY <2>1, <3>1, <3>2
  <2>4. Coming
    BY <2>1, <2>2, <2>3 DEF NothingLost
  <2> QED
    BY <2>4 DEF Coming, Due
<1>4. OrderInv /\ StageOK /\ NothingLost /\ [Next]_vars => [Repaired]_vars
  BY <1>3
<1> QED
  <2>1. Spec => [][Repaired]_vars
    BY <1>1, <1>2, <1>4, InitOrder, InitLosesNothing, PTL DEF Spec
  <2> QED
    BY <2>1 DEF RemovalIsRepaired

-----------------------------------------------------------------------------
(* Users who wait, no faults, restarts or other writers: what has settled is *)
(* provisioned, or gone.                                                     *)

Calm == faults = 0 /\ crashes = 0 /\ touches = 0

\* A bridge of which something stands; one that stands whole, from c.
Any(r) == Stands(Instance(r)) \/ Stands(Service(r)) \/ Stands(Exporter(r))
Whole(r, c) == /\ child[Instance(r)] = c /\ child[Service(r)] = c
               /\ child[SIP(r)] = c /\ Stands(Exporter(r))

Provisioned(v) == /\ child[Shared] = v.conf
                  /\ \A r \in 1..v.replicas : Whole(r, v.conf)
NoSurplus(n) == \A r \in Bridges : r > n /\ r > 1 => ~Any(r)
NothingStands == \A o \in Objects : ~Stands(o)
NoLag == \A i \in Informers : lag[i] = <<>>

\* An exporter's service stands next to its bridge's: deleteService reaches it
\* only if the bridge's service is there.
Reachable(r) == Stands(Exporter(r)) => Stands(Service(r))
AllReachable ==
  \A r \in Bridges :
    Reachable(r) \/ (replica = r /\ pc \in {"createService", "deleteExporter"})

\* The children of v, with nothing under way.
AtRest(v) ==
  /\ NoLag
  /\ v.conf > 0 /\ v.status = v.replicas
  /\ Provisioned(v) /\ NoSurplus(v.replicas)
  /\ \A r \in Bridges : Reachable(r)

\* The bridge that updateReplicaCount spares, config maps, what the spec asks for.
Kept(o) == o \in ConfigMaps \/ o[2] <= cr.replicas \/ o[2] = 1

\* What a cache has not seen yet is the present state of the object.
Routed == \A i \in Informers : \A k \in DOMAIN lag[i] : InformerOf(lag[i][k].object) = i
CachesFollow ==
  /\ Routed
  /\ \A o \in Objects :
       /\ \A k \in DOMAIN lag[InformerOf(o)] :
            lag[InformerOf(o)][k].object = o
              => (lag[InformerOf(o)][k].present <=> Stands(o))
       /\ ~Pending(o) => (o \in childCache <=> Stands(o))

LEMMA SameChildren ==
  ASSUME UNCHANGED child
  PROVE  /\ \A o : Stands(o)' <=> Stands(o)
         /\ \A r : Any(r)' <=> Any(r)
         /\ \A r, c : Whole(r, c)' <=> Whole(r, c)
         /\ \A r : Reachable(r)' <=> Reachable(r)
         /\ NothingStands' <=> NothingStands
  BY DEF Stands, Any, Whole, Reachable, NothingStands, Instance, Service, Exporter, SIP

LEMMA SameLag ==
  ASSUME UNCHANGED lag
  PROVE  (NoLag' <=> NoLag) /\ \A o : Pending(o)' <=> Pending(o)
  BY DEF NoLag, Pending, InformerOf

LEMMA SameCaches ==
  ASSUME CachesFollow, UNCHANGED childVars
  PROVE  CachesFollow'
<1>1. child' = child /\ lag' = lag /\ childCache' = childCache
  BY DEF childVars
<1>2. \A o : (Stands(o)' <=> Stands(o)) /\ (Pending(o)' <=> Pending(o))
  BY <1>1, SameChildren, SameLag
<1>3. \A o : InformerOf(o)' = InformerOf(o)
  BY DEF InformerOf
<1>4. Routed'
  BY <1>1 DEF CachesFollow, Routed, InformerOf
<1> QED
  BY <1>1, <1>2, <1>3, <1>4 DEF CachesFollow

LEMMA NothingPending ==
  ASSUME NoLag
  PROVE  \A o \in Objects : ~Pending(o)
<1> SUFFICES ASSUME NEW o \in Objects PROVE ~Pending(o)
  OBVIOUS
<1>1. lag[InformerOf(o)] = <<>>
  BY InformerOfType DEF NoLag
<1>2. DOMAIN lag[InformerOf(o)] = {}
  BY <1>1
<1> QED
  BY <1>2 DEF Pending

\* Storing what is stored already.
LEMMA PutSame ==
  ASSUME TypeInv, NEW o \in Objects, NEW c, Put(o, c), child[o] = c
  PROVE  UNCHANGED childVars
<1>1. child \in [Objects -> Nat]
  BY DEF TypeInv, TypeOK, ChildTypeOK
<1>2. child' = child
  BY <1>1 DEF Put
<1> QED
  BY <1>2 DEF Put, childVars

LEMMA PutChild ==
  ASSUME TypeInv, NEW o \in Objects, NEW c \in Nat, Put(o, c)
  PROVE  /\ child' = [child EXCEPT ![o] = c]
         /\ child'[o] = c
         /\ \A p \in Objects : p # o => child'[p] = child[p]
<1>1. child \in [Objects -> Nat]
  BY DEF TypeInv, TypeOK, ChildTypeOK
<1>2. child' = [child EXCEPT ![o] = c]
  BY DEF Put
<1>3. child'[o] = c /\ \A p \in Objects : p # o => child'[p] = child[p]
  BY <1>1, <1>2
<1> QED
  BY <1>2, <1>3

\* A call on a child object keeps the caches in step, unless it turns over an
\* object whose last change is still on its way.
LEMMA PutCaches ==
  ASSUME TypeInv, CachesFollow, NEW o \in Objects, NEW c \in Nat, Put(o, c),
         Pending(o) => (Stands(o) <=> c # 0)
  PROVE  /\ CachesFollow'
         /\ \A p \in Objects : p # o \/ child[o] = c => (Pending(p)' <=> Pending(p))
<1>1. CASE child[o] = c
  <2>1. UNCHANGED childVars
    BY <1>1, PutSame
  <2> QED
    BY <2>1, SameCaches, SameLag DEF childVars
<1>2. CASE child[o] # c
  <2> DEFINE i == InformerOf(o)
             change == [object |-> o, present |-> c # 0]
             old == lag[i]
  <2>1. Notice(o, c # 0)
    BY <1>2 DEF Put
  <2>2. /\ Stands(o)' <=> c # 0
        /\ \A p \in Objects : p # o => (Stands(p)' <=> Stands(p))
    BY PutChild DEF Stands
  <2>3. i \in Informers /\ lag \in [Informers -> Seq([object : Objects, present : BOOLEAN])]
    BY InformerOfType DEF TypeInv, TypeOK, ChildTypeOK
  <2>4. CASE i \in Lagging
    <3>1. lag' = [lag EXCEPT ![i] = Append(old, change)] /\ childCache' = childCache
      BY <2>1, <2>4 DEF Notice
    <3>2. lag'[i] = Append(old, change) /\ \A j \in Informers : j # i => lag'[j] = lag[j]
      BY <2>3, <3>1
    <3>3. old \in Seq([object : Objects, present : BOOLEAN])
      BY <2>3
    <3> DEFINE n == Len(old)
    <3>4. /\ n \in Nat /\ DOMAIN old = 1..n /\ DOMAIN lag'[i] = 1..(n + 1)
          /\ lag'[i][n + 1] = change
          /\ \A k \in 1..n : lag'[i][k] = old[k]
      BY <3>2, <3>3
    <3>5. change.object = o /\ (change.present <=> c # 0)
      OBVIOUS
    <3> HIDE DEF n, change
    <3>6. \A k : k \in 1..(n + 1) <=> k \in 1..n \/ k = n + 1
      BY <3>4
    <3>7. Pending(o)'
      <4>1. lag'[InformerOf(o)][n + 1].object = o /\ (n + 1) \in DOMAIN lag'[InformerOf(o)]
        BY <3>4, <3>5, <3>6
      <4>2. InformerOf(o)' = InformerOf(o)
        BY DEF InformerOf
      <4> QED
        BY <4>1, <4>2 DEF Pending
    <3>8. ASSUME NEW p \in Objects, p # o PROVE Pending(p)' <=> Pending(p)
      <4>1. InformerOf(p) \in Informers /\ InformerOf(p)' = InformerOf(p)
        BY InformerOfType DEF InformerOf
      <4>2. CASE InformerOf(p) = i
        BY <3>4, <3>5, <3>6, <3>8, <4>1, <4>2 DEF Pending
      <4>3. CASE InformerOf(p) # i
        BY <3>2, <4>1, <4>3 DEF Pending
      <4> QED
        BY <4>2, <4>3
    <3>9. ASSUME NEW p \in Objects, NEW k \in DOMAIN lag'[InformerOf(p)],
                 lag'[InformerOf(p)][k].object = p
          PROVE  lag'[InformerOf(p)][k].present <=> Stands(p)'
      <4>1. InformerOf(p) \in Informers
        BY InformerOfType
      <4>2. CASE InformerOf(p) # i
        <5>1. p # o /\ lag'[InformerOf(p)] = lag[InformerOf(p)]
          BY <3>2, <4>1, <4>2
        <5> QED
          BY <2>2, <3>9, <5>1 DEF CachesFollow
      <4>3. CASE InformerOf(p) = i /\ k \in 1..n
        <5>1. /\ lag'[InformerOf(p)][k] = lag[InformerOf(p)][k]
              /\ k \in DOMAIN lag[InformerOf(p)]
          BY <3>4, <4>3
        <5>2. lag[InformerOf(p)][k].present <=> Stands(p)
          BY <3>9, <5>1 DEF CachesFollow
        <5>3. p = o => Pending(o)
          BY <3>9, <4>3, <5>1 DEF Pending
        <5>4. p = o => (Stands(o)' <=> Stands(o))
          BY <2>2, <5>3
        <5> QED
          BY <2>2, <5>1, <5>2, <5>4
      <4>4. CASE InformerOf(p) = i /\ k = n + 1
        BY <2>2, <3>4, <3>5, <3>9, <4>4
      <4> QED
        BY <3>4, <3>6, <3>9, <4>2, <4>3, <4>4
    <3>10. \A p \in Objects : ~Pending(p)' => (p \in childCache' <=> Stands(p)')
      BY <2>2, <3>1, <3>7, <3>8 DEF CachesFollow
    <3>11. \A p : InformerOf(p)' = InformerOf(p)
      BY DEF InformerOf
    <3>12. Routed'
      <4> SUFFICES ASSUME NEW j \in Informers, NEW k \in DOMAIN lag'[j]
                   PROVE  InformerOf(lag'[j][k].object) = j
        BY DEF Routed, InformerOf
      <4>1. CASE j # i \/ k # n + 1
        BY <3>2, <3>4, <3>6, <4>1 DEF CachesFollow, Routed
      <4>2. CASE j = i /\ k = n + 1
        BY <3>4, <3>5, <4>2
      <4> QED
        BY <4>1, <4>2
    <3>13. CachesFollow'
      BY <3>9, <3>10, <3>11, <3>12 DEF CachesFollow
    <3> QED
      BY <1>2, <3>8, <3>13
  <2>5. CASE i \notin Lagging
    <3>1. childCache' = CacheWith(o, c # 0) /\ lag' = lag
      BY <2>1, <2>5 DEF Notice
    <3>2. \A p \in Objects : Pending(p)' <=> Pending(p)
      BY <3>1, SameLag
    <3>3. /\ o \in childCache' <=> c # 0
          /\ \A p \in Objects : p # o => (p \in childCache' <=> p \in childCache)
      BY <3>1 DEF CacheWith
    <3>4. ASSUME NEW p \in Objects, NEW k \in DOMAIN lag[InformerOf(p)],
                 lag[InformerOf(p)][k].object = p
          PROVE  lag[InformerOf(p)][k].present <=> Stands(p)'
      <4>1. Pending(p) /\ (lag[InformerOf(p)][k].present <=> Stands(p))
        BY <3>4 DEF CachesFollow, Pending
      <4> QED
        BY <2>2, <4>1
    <3>5. \A p \in Objects : ~Pending(p)' => (p \in childCache' <=> Stands(p)')
      BY <2>2, <3>2, <3>3 DEF CachesFollow
    <3>6. \A p : InformerOf(p)' = InformerOf(p)
      BY DEF InformerOf
    <3>7. Routed'
      BY <3>1 DEF CachesFollow, Routed, InformerOf
    <3>8. CachesFollow'
      BY <3>1, <3>4, <3>5, <3>6, <3>7 DEF CachesFollow
    <3> QED
      BY <3>2, <3>8
  <2> QED
    BY <2>4, <2>5
<1> QED
  BY <1>1, <1>2

\* A cache sees one change.
LEMMA CacheSees ==
  ASSUME TypeInv, CachesFollow, NEW i \in Informers, ReceiveChild(i)
  PROVE  /\ CachesFollow'
         /\ \A p \in Objects : Pending(p)' => Pending(p)
<1> DEFINE old == lag[i]
           m == Head(old)
<1>1. /\ old # <<>> /\ lag' = [lag EXCEPT ![i] = Tail(old)]
      /\ childCache' = CacheWith(m.object, m.present) /\ child' = child
  BY DEF ReceiveChild, crVars
<1> DEFINE Change == [object : Objects, present : BOOLEAN]
<1>2. lag \in [Informers -> Seq(Change)]
  BY DEF TypeInv, TypeOK, ChildTypeOK
<1> DEFINE n == Len(old)
<1> HIDE DEF Change
<1>3. /\ lag'[i] = Tail(old) /\ \A j \in Informers : j # i => lag'[j] = lag[j]
      /\ old \in Seq(Change)
  BY <1>1, <1>2
<1>4. /\ n \in Nat /\ n > 0 /\ DOMAIN old = 1..n /\ DOMAIN lag'[i] = 1..(n - 1)
      /\ m = old[1] /\ \A k \in 1..(n - 1) : lag'[i][k] = old[k + 1]
  <2> HIDE DEF old
  <2>1. /\ n \in Nat /\ n > 0 /\ DOMAIN old = 1..n /\ Len(Tail(old)) = n - 1
        /\ Tail(old) \in Seq(Change)
        /\ m = old[1] /\ \A k \in 1..(n - 1) : Tail(old)[k] = old[k + 1]
    BY <1>1, <1>3, HeadTailProperties
  <2>2. DOMAIN Tail(old) = 1..(n - 1)
    BY <2>1
  <2> QED
    BY <1>3, <2>1, <2>2
<1>5. /\ 1 \in DOMAIN old
      /\ \A k \in 1..(n - 1) : k + 1 \in DOMAIN old
      /\ \A k \in DOMAIN old : k = 1 \/ (k - 1 \in 1..(n - 1) /\ (k - 1) + 1 = k)
  BY <1>4
<1> HIDE DEF n
<1>6. m \in Change
  BY <1>3, <1>4, <1>5
<1> HIDE DEF m
<1>7. \A p : InformerOf(p)' = InformerOf(p) /\ (Stands(p)' <=> Stands(p))
  BY <1>1 DEF InformerOf, Stands
<1>8. ASSUME NEW p \in Objects
      PROVE  /\ Pending(p)' => Pending(p)
             /\ Pending(p) => Pending(p)' \/ (p = m.object /\ InformerOf(p) = i)
  <2>1. InformerOf(p) \in Informers
    BY InformerOfType
  <2>2. CASE InformerOf(p) # i
    BY <1>3, <1>7, <2>1, <2>2 DEF Pending
  <2>3. CASE InformerOf(p) = i
    <3>1. Pending(p) <=> \E k \in DOMAIN old : old[k].object = p
      BY <2>3 DEF Pending
    <3>2. Pending(p)' <=> \E k \in 1..(n - 1) : old[k + 1].object = p
      BY <1>4, <1>7, <2>3 DEF Pending
    <3> QED
      BY <1>4, <1>5, <2>3, <3>1, <3>2
  <2> QED
    BY <2>2, <2>3
<1>9. ASSUME NEW p \in Objects, NEW k \in DOMAIN lag'[InformerOf(p)],
             lag'[InformerOf(p)][k].object = p
      PROVE  lag'[InformerOf(p)][k].present <=> Stands(p)
  <2>1. InformerOf(p) \in Informers
    BY InformerOfType
  <2>2. CASE InformerOf(p) # i
    BY <1>3, <1>9, <2>1, <2>2 DEF CachesFollow
  <2>3. CASE InformerOf(p) = i
    BY <1>4, <1>5, <1>9, <2>3 DEF CachesFollow
  <2> QED
    BY <2>2, <2>3
\* An informer carries changes of its own objects only as far as Pending tells.
<1>10. ASSUME NEW p \in Objects, ~Pending(p)' PROVE p \in childCache' <=> Stands(p)
  <2>1. CASE p # m.object
    <3>1. ~Pending(p)
      BY <1>8, <1>10, <2>1
    <3>2. p \in childCache' <=> p \in childCache
      BY <1>1, <2>1 DEF CacheWith
    <3> QED
      BY <3>1, <3>2 DEF CachesFollow
  <2>2. CASE p = m.object /\ InformerOf(p) = i
    <3>1. m.present <=> Stands(p)
      BY <1>4, <1>5, <2>2 DEF CachesFollow
    <3>2. p \in childCache' <=> m.present
      BY <1>1, <2>2 DEF CacheWith
    <3> QED
      BY <3>1, <3>2
  <2>3. m.object = p => InformerOf(p) = i
    BY <1>4, <1>5 DEF CachesFollow, Routed
  <2> QED
    BY <2>1, <2>2, <2>3
<1>11. Routed'
  <2> SUFFICES ASSUME NEW j \in Informers, NEW k \in DOMAIN lag'[j]
               PROVE  InformerOf(lag'[j][k].object) = j
    BY DEF Routed, InformerOf
  <2>1. CASE j # i
    BY <1>3, <2>1 DEF CachesFollow, Routed
  <2>2. CASE j = i
    BY <1>4, <1>5, <2>2 DEF CachesFollow, Routed
  <2> QED
    BY <2>1, <2>2
<1>12. CachesFollow'
  BY <1>7, <1>9, <1>10, <1>11 DEF CachesFollow
<1> QED
  BY <1>8, <1>12

-----------------------------------------------------------------------------
(* The ages a calm resource of patient users goes through.                   *)

\* The stored version is the one users wrote over v, which had settled.
Replaced(v) ==
  /\ Exists(cr) /\ v.rv # cr.rv
  /\ v.fin /\ ~v.del /\ cr.fin
  /\ cr.status = v.status /\ cr.conf > 0
  /\ cr.del => cr.conf = v.conf /\ cr.replicas = v.replicas

\* The worker goes once more over what it has provisioned already.
Replaying ==
  pc \in Renders \cup {"createConfigMaps", "create", "updateConfigMaps", "updateStatus"}

\* A resource just created: no finalizer, no children.
Fresh == /\ Exists(cr) /\ ~cr.fin /\ ~cr.del /\ cr.status = 0 /\ cr.conf > 0
         /\ NoLag /\ NothingStands

\* The users' write is announced; the worker may replay the version before it.
WriteAnnounced ==
  /\ watch = <<cr>> /\ Exists(crCache)
  /\ AtRest(crCache) /\ Replaced(crCache)
  /\ pc = "idle" \/ (obj = crCache /\ Replaying)
CreationAnnounced == watch = <<cr>> /\ ~Exists(crCache) /\ Fresh /\ pc = "idle" /\ ~queued

\* The write was delivered while the worker replays the version before it.
WriteOverheard ==
  /\ watch = <<>> /\ crCache = cr /\ queued
  /\ Replaying /\ AtRest(obj) /\ Replaced(obj)

\* It is the worker's turn.
Doomed ==
  /\ watch = <<>> /\ crCache = cr
  /\ Exists(cr) /\ cr.fin /\ cr.del /\ AtRest(cr)
  /\ (pc = "idle" /\ queued) \/ (pc = "removeFinalizer" /\ obj = cr)
Unfinalized ==
  /\ watch = <<>> /\ crCache = cr /\ Fresh
  /\ (pc = "idle" /\ queued) \/ (pc = "addFinalizer" /\ obj = cr)

\* A version of what users want now: the worker's own writes add the finalizer,
\* with the default of a count users left out, and the status.
Unset(v) == v.replicas = 0 /\ v.status = 0
Kin(v) ==
  /\ Exists(v) /\ ~v.del /\ v.conf = cr.conf
  /\ v.replicas = cr.replicas \/ (~v.fin /\ Unset(v))
  /\ ~v.fin => v.rv # cr.rv
Told ==
  /\ Kin(crCache) /\ \A k \in DOMAIN watch : Kin(watch[k])
  /\ watch = <<>> => crCache = cr
  /\ watch # <<>> => watch[Len(watch)] = cr
Copy(v) == ~v.del /\ v.conf = cr.conf /\ (v.replicas = cr.replicas \/ Unset(v))

InUpdate == \/ pc \in {"update", "getService", "updateInstance"}
            \/ pc = "createService" /\ loop = "update"

\* What a reading still tells of o.
StillTrue(o, reading) ==
  /\ reading = "absent" => child[o] \in {0, cr.conf}
  /\ reading = "stale" => child[o] = cr.conf
  /\ reading = "current" => Stands(o)

\* How far the worker is with the stored version.
ScaledSoFar ==
  /\ InUpdate \/ pc \in {"updateConfigMaps", "updateStatus"} => NoSurplus(cr.replicas)
  /\ pc \in Removes => \A r \in Bridges : Any(r) => r <= replica
RemovedSoFar ==
  /\ pc \in {"deleteExporter", "deleteInstance"} => ~Stands(Service(replica))
  /\ pc = "deleteInstance" => ~Stands(Exporter(replica))
UpdatedSoFar ==
  /\ InUpdate => child[Shared] = cr.conf /\ \A r \in 1..(replica - 1) : Whole(r, cr.conf)
  /\ InUpdate /\ pc # "update" => /\ child[SIP(replica)] = cr.conf
                                  /\ instance # "absent"
                                  /\ StillTrue(Instance(replica), instance)
  /\ InUpdate /\ pc \in {"createService", "updateInstance"} => Stands(Exporter(replica))
  /\ InUpdate /\ pc = "createService" => StillTrue(Service(replica), service)
  /\ pc = "updateInstance" => child[Service(replica)] = cr.conf
  /\ pc = "updateStatus" => Provisioned(cr)
OnCourse == ScaledSoFar /\ UpdatedSoFar

AtWork ==
  /\ pc \notin Deletes
  /\ Copy(obj)
  /\ pc = "addFinalizer" => ~Current(obj)
  /\ pc \in Removes => loop = "scaleDown" /\ obj.replicas = cr.replicas
  /\ pc \in {"update", "getService", "updateInstance"} => loop = "update"
  /\ pc = "createService" => loop \in {"create", "update"}
  /\ pc = "createService" /\ service # "absent" => Stands(Service(replica))
  /\ RemovedSoFar
  /\ Current(obj) => OnCourse

\* What the deletions of the children still have to reach.
SurplusKnown == \A r \in Bridges : Any(r) => r <= 1 \/ r <= cr.replicas \/ r <= cr.status
NewsOfNow == \A o \in Objects : Pending(o) =>
               IF Stands(o) THEN Kept(o) /\ child[o] = cr.conf ELSE ~Kept(o)

Served == cr.status = cr.replicas /\ Provisioned(cr) /\ NoSurplus(cr.replicas)

BeingProvisioned ==
  /\ Live /\ cr.fin /\ cr.conf > 0 /\ Told
  /\ SurplusKnown /\ AllReachable /\ NewsOfNow
  /\ IF pc = "idle" THEN queued \/ Served ELSE AtWork

\* The resource is gone, or was never there; its children go.
Deleting ==
  /\ pc \in {"delete", "listCMs", "deleteCMs"} \cup Removes
  /\ pc \in Removes => loop = "delete"
  /\ pc = "delete" => \A r \in Bridges : Any(r) => r <= obj.replicas
  /\ pc \in Removes => \A r \in Bridges : Any(r) => replica <= r /\ r <= obj.replicas
  /\ RemovedSoFar
  /\ pc \in {"listCMs", "deleteCMs"} => \A r \in Bridges : ~Any(r)
  /\ pc = "deleteCMs" => \A o \in Objects : Stands(o) => o \in listed

Gone ==
  /\ ~Exists(cr)
  /\ \/ watch = <<NoObject>> /\ Exists(crCache) /\ crCache.del
     \/ watch = <<>> /\ ~Exists(crCache)
  /\ \A o \in Objects : Pending(o) => ~Stands(o)
  /\ AllReachable
  /\ (pc \in {"idle", "removeFinalizer"} /\ NothingStands) \/ Deleting

Ages == \/ WriteAnnounced \/ CreationAnnounced \/ WriteOverheard
        \/ Doomed \/ Unfinalized \/ BeingProvisioned \/ Gone

SettledInv == Calm => CachesFollow /\ Ages
Known == OrderInv /\ StageOK

-----------------------------------------------------------------------------
LEMMA NoFaults ==
  ASSUME TypeInv, Calm'
  PROVE  /\ ~Fault
         /\ crashes' # crashes + 1 /\ touches' # touches + 1
         /\ \A o, c : Try(o, c) <=> Put(o, c) /\ UNCHANGED faults
<1>1. faults \in Nat /\ crashes \in Nat /\ touches \in Nat
  BY FaultBoundsAssumption DEF TypeInv, TypeOK, FaultTypeOK
<1>2. faults' = 0 /\ crashes' = 0 /\ touches' = 0
  BY DEF Calm
<1>3. ~Fault /\ crashes' # crashes + 1 /\ touches' # touches + 1
  BY <1>1, <1>2 DEF Fault
<1> QED
  BY <1>3 DEF Try

LEMMA KnownTypes ==
  ASSUME Known
  PROVE  /\ TypeInv /\ OrderInv /\ StageOK
         /\ cr \in Version /\ obj \in Version /\ crCache \in Version
         /\ watch \in Seq(Version) /\ rv \in Nat
         /\ queued \in BOOLEAN
         /\ child \in [Objects -> Nat]
  BY OrderFacts DEF Known, OrderInv, VersionsInv, TypeInv, TypeOK, CRTypeOK, ChildTypeOK

-----------------------------------------------------------------------------
(* Replays. *)

LEMMA ReplayPuts ==
  ASSUME Known, AtRest(obj), pc \in Renders
  PROVE  /\ Whole(replica, obj.conf) /\ obj.conf # 0
         /\ \A o \in {Instance(replica), Service(replica), Exporter(replica), SIP(replica)} :
              /\ o \in Objects /\ Stands(o)
              /\ AfterCreate(o) = child[o]
         /\ \A o \in {Instance(replica), Service(replica)} : \A g :
              AfterUpdate(o, g) = child[o]
         /\ child[SIP(replica)] = obj.conf
<1>1. pc \in PerReplica /\ replica <= obj.replicas /\ obj \in Version
  BY KnownTypes DEF Known, StageOK, Renders, PerReplica
<1>2. /\ replica \in 1..MaxReplicas
      /\ Instance(replica) \in Objects /\ Service(replica) \in Objects
      /\ Exporter(replica) \in Objects /\ SIP(replica) \in Objects
  BY <1>1, InRange, KnownTypes
<1>3. replica \in 1..obj.replicas
  BY <1>1, <1>2 DEF Version
<1>4. Whole(replica, obj.conf) /\ obj.conf > 0
  BY <1>3 DEF AtRest, Provisioned
<1>5. obj.conf # 0
  BY <1>1, <1>4 DEF Version
<1> QED
  BY <1>2, <1>4, <1>5 DEF Whole, Stands, AfterCreate, AfterUpdate

LEMMA ReplayStep ==
  ASSUME Known, AtRest(obj), Replaying, obj.fin, ~obj.del, ~Current(obj), Worker, Calm'
  PROVE  /\ UNCHANGED childVars
         /\ UNCHANGED <<cr, rv, crCache, watch, edits, relists>>
         /\ \/ pc' = "idle" /\ queued'
            \/ Replaying' /\ obj' = obj /\ queued' = queued
<1> USE NoFaults, KnownTypes
<1>1. pc \notin {"idle", "addFinalizer"} \cup Removes \cup Deletes
  BY DEF Replaying, Renders, Removes, Deletes
<1>2. CASE CreateConfigMaps
  <2>1. AfterCreate(Shared) = child[Shared] /\ Shared \in Objects
    BY NamesAreObjects, KnownTypes DEF AtRest, Provisioned, AfterCreate, Version
  <2>2. Put(Shared, AfterCreate(Shared))
    BY <1>2 DEF CreateConfigMaps
  <2>3. UNCHANGED childVars
    BY <2>1, <2>2, PutSame
  <2> QED
    BY <1>2, <2>3 DEF CreateConfigMaps, Round, Replaying, sameCR, crVars
<1>3. CASE SkipExisting
  BY <1>3 DEF SkipExisting, Round, Replaying, sameCR, crVars
<1>4. CASE GetService
  <2>1. Put(Exporter(replica), AfterCreate(Exporter(replica)))
    BY <1>4 DEF GetService
  <2>2. /\ AfterCreate(Exporter(replica)) = child[Exporter(replica)]
        /\ Exporter(replica) \in Objects
    <3>1. CASE pc = "getService"
      BY <3>1, ReplayPuts DEF Renders
    <3>2. CASE pc = "create" /\ replica <= obj.replicas
      <4>1. replica \in 1..obj.replicas /\ replica \in 1..MaxReplicas
        BY <3>2, ReplicasAssumption
           DEF TypeInv, TypeOK, WorkerTypeOK, LoopsInRange, Version
      <4>2. Stands(Exporter(replica)) /\ Exporter(replica) \in Objects
        BY <4>1, NamesAreObjects DEF AtRest, Provisioned, Whole
      <4> QED
        BY <4>2 DEF AfterCreate, Stands
    <3> QED
      BY <1>4, <3>1, <3>2 DEF GetService
  <2>3. UNCHANGED childVars
    BY <2>1, <2>2, PutSame
  <2> QED
    BY <1>4, <2>3 DEF GetService, Renders, Replaying, sameCR, crVars
<1>5. CASE CreateService
  <2>1. pc \in Renders
    BY <1>5 DEF CreateService, Renders
  <2>2. \E c \in {AfterCreate(Service(replica)), AfterUpdate(Service(replica), service)} :
          Put(Service(replica), c)
    BY <1>5 DEF CreateService
  <2>3. UNCHANGED childVars
    BY <2>1, <2>2, ReplayPuts, PutSame
  <2> QED
    BY <1>5, <2>3 DEF CreateService, Goto, Renders, Replaying, sameCR, crVars
<1>6. CASE CreateSIP
  <2>1. pc \in Renders /\ Put(SIP(replica), AfterCreate(SIP(replica)))
    BY <1>6 DEF CreateSIP, Renders
  <2>2. UNCHANGED childVars
    BY <2>1, ReplayPuts, PutSame
  <2> QED
    BY <1>6, <2>2 DEF CreateSIP, Goto, Renders, Replaying, sameCR, crVars
<1>7. CASE CreateInstance
  <2>1. pc \in Renders /\ Put(Instance(replica), AfterCreate(Instance(replica)))
    BY <1>7 DEF CreateInstance, Renders
  <2>2. UNCHANGED childVars
    BY <2>1, ReplayPuts, PutSame
  <2> QED
    BY <1>7, <2>2 DEF CreateInstance, Round, Replaying, sameCR, crVars
<1>8. CASE StartUpdate
  <2>1. ~(obj.status > obj.replicas)
    BY DEF AtRest, Version
  <2>2. UNCHANGED childVars /\ Done("updateConfigMaps")
    BY <1>8, <2>1 DEF StartUpdate, childVars
  <2> QED
    BY <1>8, <2>2 DEF StartUpdate, Done, Round, Replaying, sameCR, crVars
<1>9. CASE UpdateConfigMaps
  <2>1. Put(Shared, obj.conf) /\ child[Shared] = obj.conf /\ Shared \in Objects
    BY <1>9, NamesAreObjects DEF UpdateConfigMaps, AtRest, Provisioned
  <2>2. UNCHANGED childVars
    BY <2>1, PutSame
  <2> QED
    BY <1>9, <2>2 DEF UpdateConfigMaps, UpdateFrom, Done, Round, Renders, Replaying,
                     sameCR, crVars
<1>10. CASE UpdateSIP
  <2>1. pc \in Renders /\ Put(SIP(replica), obj.conf)
    BY <1>10 DEF UpdateSIP, Renders
  <2>2. UNCHANGED childVars
    BY <2>1, ReplayPuts, PutSame
  <2> QED
    BY <1>10, <2>2 DEF UpdateSIP, Return, Release, Renders, Replaying, sameCR, crVars
<1>11. CASE UpdateInstance
  <2>1. pc \in Renders /\ Put(Instance(replica), AfterUpdate(Instance(replica), instance))
    BY <1>11 DEF UpdateInstance, Renders
  <2>2. UNCHANGED childVars
    BY <2>1, ReplayPuts, PutSame
  <2> QED
    BY <1>11, <2>2 DEF UpdateInstance, UpdateFrom, Done, Round, Renders, Replaying,
                      sameCR, crVars
<1>12. CASE UpdateStatus
  <2>1. UNCHANGED <<cr, rv, watch, faults>> /\ Return(TRUE)
    BY <1>12 DEF UpdateStatus, WriteStatus
  <2> QED
    BY <1>12, <2>1 DEF UpdateStatus, Return, Release, childVars
<1>13. ~(\/ ReconcileNotFound \/ Reconcile \/ AddFinalizerCall
         \/ RemoveFinalizerCall \/ StartDelete
         \/ DeleteService \/ DeleteExporter \/ DeleteInstance
         \/ ListConfigMaps \/ DeleteConfigMap \/ FinishDelete)
  BY <1>1 DEF ReconcileNotFound, Reconcile, Take, AddFinalizerCall, RemoveFinalizerCall,
     StartDelete, DeleteService, DeleteExporter, DeleteInstance, ListConfigMaps,
     DeleteConfigMap, FinishDelete, Removes, Deletes
<1> QED
  BY <1>2, <1>3, <1>4, <1>5, <1>6, <1>7, <1>8, <1>9, <1>10, <1>11, <1>12, <1>13 DEF Worker

\* What depends on the children alone.
LEMMA SameRest ==
  ASSUME UNCHANGED <<child, lag>>
  PROVE  /\ obj' = obj /\ AtRest(obj) => AtRest(obj)'
         /\ crCache' = crCache /\ AtRest(crCache) => AtRest(crCache)'
         /\ crCache' = obj /\ AtRest(obj) => AtRest(crCache)'
         /\ obj' = crCache /\ AtRest(crCache) => AtRest(obj)'
         /\ cr' = cr /\ AtRest(cr) => AtRest(cr)'
<1> USE DEF AtRest, NoLag, Provisioned, NoSurplus, Reachable, Any, Whole, Stands
<1> QED
  OBVIOUS

LEMMA SameFresh ==
  ASSUME UNCHANGED <<cr, child, lag>>, Fresh
  PROVE  Fresh'
  BY DEF Fresh, NoLag, NothingStands, Stands, Exists

LEMMA SameWork ==
  ASSUME UNCHANGED <<cr, child>>, UNCHANGED workerVars, AtWork
  PROVE  AtWork'
<1>1. UNCHANGED <<pc, loop, obj, replica, service, instance>>
  BY DEF workerVars
<1>2. Copy(obj)' <=> Copy(obj)
  BY <1>1 DEF Copy, Unset
<1>3. Current(obj)' <=> Current(obj)
  BY <1>1 DEF Current, Exists
<1>4. ScaledSoFar => ScaledSoFar'
  BY <1>1 DEF ScaledSoFar, InUpdate, NoSurplus, Any, Stands
<1>5. RemovedSoFar => RemovedSoFar'
  BY <1>1 DEF RemovedSoFar, Stands, Service, Exporter
<1>6. UpdatedSoFar => UpdatedSoFar'
  <2>1. InUpdate' <=> InUpdate
    BY <1>1 DEF InUpdate
  <2>2. /\ StillTrue(Instance(replica), instance) => StillTrue(Instance(replica), instance)'
        /\ StillTrue(Service(replica), service) => StillTrue(Service(replica), service)'
    BY <1>1 DEF StillTrue, Stands, Instance, Service
  <2>3. \A r \in 1..(replica - 1) : Whole(r, cr.conf) => Whole(r, cr.conf)'
    BY DEF Whole, Stands
  <2>4. Provisioned(cr) => Provisioned(cr)'
    BY DEF Provisioned, Whole, Stands
  <2> QED
    BY <1>1, <2>1, <2>2, <2>3, <2>4 DEF UpdatedSoFar, Stands, Service, Exporter, SIP, Shared
<1> QED
  BY <1>1, <1>2, <1>3, <1>4, <1>5, <1>6 DEF AtWork, OnCourse, Stands, Service

LEMMA SameServed ==
  ASSUME UNCHANGED <<cr, child>>, Served
  PROVE  Served'
  BY DEF Served, Provisioned, Whole, NoSurplus, Any, Stands

LEMMA SameDeleting ==
  ASSUME UNCHANGED child, UNCHANGED workerVars, Deleting
  PROVE  Deleting'
<1>1. UNCHANGED <<pc, loop, obj, replica, listed>>
  BY DEF workerVars
<1>2. \A r : Any(r)' <=> Any(r)
  BY SameChildren
<1>3. RemovedSoFar => RemovedSoFar'
  BY <1>1 DEF RemovedSoFar, Stands, Service, Exporter
<1> QED
  BY <1>1, <1>2, <1>3 DEF Deleting, Stands

LEMMA SameNews ==
  /\ UNCHANGED <<cr, watch, crCache>> /\ Told => Told'
  /\ UNCHANGED <<cr, child>> /\ (\A o \in Objects : Pending(o)' => Pending(o)) /\ NewsOfNow
       => NewsOfNow'
  /\ UNCHANGED <<cr, child>> /\ SurplusKnown => SurplusKnown'
  /\ UNCHANGED <<child, replica, pc>> /\ AllReachable => AllReachable'
<1>1. UNCHANGED <<cr, watch, crCache>> /\ Told => Told'
  BY DEF Told, Kin, Exists, Unset
<1>2. UNCHANGED <<cr, child>> /\ (\A o \in Objects : Pending(o)' => Pending(o)) /\ NewsOfNow
       => NewsOfNow'
  BY DEF NewsOfNow, Kept, Stands
<1>3. UNCHANGED <<cr, child>> /\ SurplusKnown => SurplusKnown'
  BY DEF SurplusKnown, Any, Stands
<1>4. UNCHANGED <<child, replica, pc>> /\ AllReachable => AllReachable'
  BY DEF AllReachable, Reachable, Stands
<1> QED
  BY <1>1, <1>2, <1>3, <1>4

\* Steps of the surroundings that tell the worker nothing.
LEMMA SameAges ==
  ASSUME Ages, UNCHANGED <<cr, watch, crCache, child>>, UNCHANGED workerVars,
         queued => queued', queued' => queued \/ Exists(crCache),
         \/ UNCHANGED lag
         \/ ~NoLag /\ \A o \in Objects : Pending(o)' => Pending(o)
  PROVE  Ages'
<1>1. UNCHANGED <<pc, loop, obj, replica, service, instance, listed>>
  BY DEF workerVars
<1>2. CASE WriteAnnounced
  <2>1. UNCHANGED lag
    BY <1>2 DEF WriteAnnounced, AtRest
  <2>2. AtRest(crCache)'
    BY <1>2, <2>1, SameRest DEF WriteAnnounced
  <2>3. Replaced(crCache)'
    BY <1>2 DEF WriteAnnounced, Replaced, Exists
  <2>4. WriteAnnounced'
    BY <1>1, <1>2, <2>2, <2>3 DEF WriteAnnounced, Exists, Replaying
  <2> QED
    BY <2>4 DEF Ages
<1>3. CASE CreationAnnounced
  <2>1. UNCHANGED lag /\ ~queued'
    BY <1>3 DEF CreationAnnounced, Fresh
  <2>2. CreationAnnounced'
    BY <1>1, <1>3, <2>1, SameFresh DEF CreationAnnounced, Exists
  <2> QED
    BY <2>2 DEF Ages
<1>4. CASE WriteOverheard
  <2>1. UNCHANGED lag
    BY <1>4 DEF WriteOverheard, AtRest
  <2>2. AtRest(obj)'
    BY <1>1, <1>4, <2>1, SameRest DEF WriteOverheard
  <2>3. Replaced(obj)'
    BY <1>1, <1>4 DEF WriteOverheard, Replaced, Exists
  <2>4. WriteOverheard'
    BY <1>1, <1>4, <2>2, <2>3 DEF WriteOverheard, Replaying
  <2> QED
    BY <2>4 DEF Ages
<1>5. CASE Doomed
  <2>1. UNCHANGED lag
    BY <1>5 DEF Doomed, AtRest
  <2>2. AtRest(cr)'
    BY <1>5, <2>1, SameRest DEF Doomed
  <2>3. Doomed'
    BY <1>1, <1>5, <2>2 DEF Doomed, Exists
  <2> QED
    BY <2>3 DEF Ages
<1>6. CASE Unfinalized
  <2>1. UNCHANGED lag
    BY <1>6 DEF Unfinalized, Fresh
  <2>2. Unfinalized'
    BY <1>1, <1>6, <2>1, SameFresh DEF Unfinalized
  <2> QED
    BY <2>2 DEF Ages
<1>7. \A o \in Objects : Pending(o)' => Pending(o)
  BY SameLag
<1>8. CASE BeingProvisioned
  <2>1. Live' /\ cr'.fin /\ cr'.conf > 0
    BY <1>8 DEF BeingProvisioned, Live, Exists
  <2>2. Told' /\ SurplusKnown' /\ AllReachable' /\ NewsOfNow'
    BY <1>1, <1>7, <1>8, SameNews DEF BeingProvisioned
  <2>3. pc' = "idle" => queued' \/ Served'
    BY <1>1, <1>8, SameServed DEF BeingProvisioned
  <2>4. pc' # "idle" => AtWork'
    BY <1>1, <1>8, SameWork DEF BeingProvisioned
  <2>5. BeingProvisioned'
    BY <2>1, <2>2, <2>3, <2>4 DEF BeingProvisioned
  <2> QED
    BY <2>5 DEF Ages
<1>9. CASE Gone
  <2>1. \A o \in Objects : Pending(o)' => ~Stands(o)'
    BY <1>7, <1>9 DEF Gone, Stands
  <2>2. AllReachable'
    BY <1>1, <1>9, SameNews DEF Gone
  <2>3. (pc' \in {"idle", "removeFinalizer"} /\ NothingStands') \/ Deleting'
    BY <1>1, <1>9, SameDeleting, SameChildren DEF Gone
  <2>4. Gone'
    BY <1>9, <2>1, <2>2, <2>3 DEF Gone, Exists
  <2> QED
    BY <2>4 DEF Ages
<1> QED
  BY <1>2, <1>3, <1>4, <1>5, <1>6, <1>8, <1>9 DEF Ages

\* What users find at rest, and write over, is the start of the next round.
LEMMA NextRound ==
  ASSUME Known, NEW v \in Version, AtRest(v), Replaced(v)
  PROVE  /\ cr.del => AtRest(cr)
         /\ ~cr.del => Live /\ SurplusKnown /\ NewsOfNow /\ AllReachable
<1>1. cr \in Version /\ cr.status = v.replicas
  BY KnownTypes DEF AtRest, Replaced
<1>2. cr.del => AtRest(cr)
  BY DEF AtRest, Replaced, Provisioned
<1>3. ~cr.del => Live
  BY DEF Live, Replaced
<1>4. ASSUME NEW r \in Bridges, Any(r) PROVE r <= 1 \/ r <= cr.status
  <2>1. ~(r > v.replicas /\ r > 1)
    BY <1>4 DEF AtRest, NoSurplus
  <2>2. r \in Nat /\ v.replicas \in Nat
    BY DEF Bridges, Version
  <2> QED
    BY <1>1, <2>1, <2>2
<1>5. SurplusKnown
  BY <1>4 DEF SurplusKnown
<1>6. NewsOfNow
  BY NothingPending DEF NewsOfNow, AtRest
<1>7. AllReachable
  BY DEF AtRest, AllReachable
<1> QED
  BY <1>2, <1>3, <1>5, <1>6, <1>7

LEMMA OneAnnounced ==
  ASSUME NEW v, NEW w, w = <<v>>
  PROVE  /\ Head(w) = v /\ Tail(w) = <<>> /\ w # <<>> /\ Len(w) = 1 /\ w[1] = v
         /\ DOMAIN w = {1}
<1>1. Head(<<v>>) = v /\ Tail(<<v>>) = <<>> /\ <<v>> # <<>> /\ Len(<<v>>) = 1
  BY HeadTailProperties, EmptySeq
<1> QED
  BY <1>1

\* A copy of the stored version has heard all there is.
LEMMA ToldStored ==
  ASSUME Live, cr.fin
  PROVE  Kin(cr)
  BY DEF Live, Kin

LEMMA DeliveryTells ==
  ASSUME Known, Told, Live, cr.fin, UNCHANGED cr,
         \/ watch # <<>> /\ crCache' = Head(watch) /\ watch' = Tail(watch)
         \/ crCache' = cr /\ watch' = <<>>
  PROVE  Told'
<1>1. \A v : Kin(v)' <=> Kin(v)
  BY DEF Kin, Exists, Unset
<1>2. CASE crCache' = cr /\ watch' = <<>>
  <2>1. Kin(crCache')
    BY <1>2, ToldStored
  <2>2. Kin(crCache)'
    BY <2>1 DEF Kin, Exists, Unset
  <2> QED
    BY <1>2, <2>2 DEF Told
<1>3. CASE watch # <<>> /\ crCache' = Head(watch) /\ watch' = Tail(watch)
  <2>1. watch \in Seq(Version)
    BY KnownTypes
  <2> DEFINE n == Len(watch)
  <2>2. /\ n \in Nat /\ n > 0 /\ DOMAIN watch = 1..n /\ Len(Tail(watch)) = n - 1
        /\ Tail(watch) \in Seq(Version)
        /\ Head(watch) = watch[1] /\ \A k \in 1..(n - 1) : Tail(watch)[k] = watch[k + 1]
    BY <1>3, <2>1, HeadTailProperties
  <2>3. DOMAIN Tail(watch) = 1..(n - 1) /\ 1 \in 1..n /\ \A k \in 1..(n - 1) : k + 1 \in 1..n
    BY <2>2
  <2> HIDE DEF n
  <2>4. Kin(crCache') /\ \A k \in DOMAIN watch' : Kin(watch'[k])
    BY <1>3, <2>2, <2>3 DEF Told
  <2>5. Kin(crCache)' /\ \A k \in DOMAIN watch' : Kin(watch[k])'
    BY <2>4 DEF Kin, Exists, Unset
  <2>6. watch[n] = cr
    BY <1>3 DEF Told, n
  <2>7. watch' = <<>> => crCache' = cr
    <3>1. watch' = <<>> => n = 1
      BY <1>3, <2>2
    <3> QED
      BY <1>3, <2>2, <2>6, <3>1
  <2>8. watch' # <<>> => watch'[Len(watch')] = cr
    <3>1. watch' # <<>> => n - 1 # 0
      BY <1>3, <2>2
    <3>2. watch' # <<>> => n - 1 \in 1..(n - 1) /\ (n - 1) + 1 = n
      BY <2>2, <3>1
    <3> QED
      BY <1>3, <2>2, <2>6, <3>2
  <2> QED
    BY <2>5, <2>7, <2>8 DEF Told
<1> QED
  BY <1>2, <1>3

LEMMA DeliveryAges ==
  ASSUME Known, Ages, ReceiveVersion \/ ReceiveList
  PROVE  Ages'
<1>1. /\ watch # <<>> /\ UNCHANGED <<cr, child, lag>>
      /\ UNCHANGED <<pc, loop, obj, replica, service, instance, listed>>
      /\ UNCHANGED workerVars
      /\ queued => queued'
  BY DEF ReceiveVersion, ReceiveList, Deliver, Relist, workerVars, childVars
<1>2. \/ crCache' = Head(watch) /\ watch' = Tail(watch)
      \/ crCache' = cr /\ watch' = <<>>
  BY DEF ReceiveVersion, ReceiveList, Deliver, Relist
<1>3. watch = <<cr>> /\ Filter(cr) /\ crCache # cr
        => crCache' = cr /\ watch' = <<>> /\ queued'
  <2> SUFFICES ASSUME watch = <<cr>>, Filter(cr), crCache # cr
               PROVE  crCache' = cr /\ watch' = <<>> /\ queued'
    OBVIOUS
  <2>1. Head(watch) = cr /\ Tail(watch) = <<>>
    BY OneAnnounced
  <2> QED
    BY <2>1 DEF ReceiveVersion, ReceiveList, Deliver, Relist
<1>4. CASE WriteAnnounced
  <2>1. Filter(cr) /\ crCache # cr
    BY <1>4 DEF WriteAnnounced, Replaced, Filter, isSpecUpdated
  <2>2. crCache' = cr /\ watch' = <<>> /\ queued'
    BY <1>3, <1>4, <2>1 DEF WriteAnnounced
  <2>3. /\ cr.del => AtRest(cr)
        /\ ~cr.del => Live /\ SurplusKnown /\ NewsOfNow /\ AllReachable
    BY <1>4, NextRound, KnownTypes DEF WriteAnnounced
  <2>4. Exists(cr) /\ cr.fin /\ cr.conf > 0
    BY <1>4 DEF WriteAnnounced, Replaced
  <2>5. CASE pc = "idle" /\ cr.del
    <3>1. AtRest(cr)'
      BY <1>1, <2>3, <2>5, SameRest
    <3>2. Doomed'
      BY <1>1, <2>2, <2>4, <2>5, <3>1 DEF Doomed, Exists
    <3> QED
      BY <3>2 DEF Ages
  <2>6. CASE pc = "idle" /\ ~cr.del
    <3>1. SurplusKnown' /\ AllReachable'
      BY <1>1, <2>3, <2>6, SameNews
    <3>2. NewsOfNow'
      BY <1>1, <2>3, <2>6, SameNews, SameLag
    <3>3. Kin(crCache')
      BY <2>2, <2>3, <2>4, <2>6, ToldStored
    <3>4. Told'
      BY <1>1, <2>2, <3>3 DEF Told, Kin, Exists, Unset
    <3>5. BeingProvisioned'
      BY <1>1, <2>2, <2>4, <2>6, <3>1, <3>2, <3>4 DEF BeingProvisioned, Live, Exists
    <3> QED
      BY <3>5 DEF Ages
  <2>7. CASE pc # "idle"
    <3>1. obj = crCache /\ Replaying
      BY <1>4, <2>7 DEF WriteAnnounced
    <3>2. AtRest(obj)'
      BY <1>1, <1>4, <3>1, SameRest DEF WriteAnnounced
    <3>3. Replaced(obj)'
      BY <1>1, <1>4, <3>1 DEF WriteAnnounced, Replaced, Exists
    <3>4. WriteOverheard'
      BY <1>1, <2>2, <3>1, <3>2, <3>3 DEF WriteOverheard, Replaying
    <3> QED
      BY <3>4 DEF Ages
  <2> QED
    BY <2>5, <2>6, <2>7
<1>5. CASE CreationAnnounced
  <2>1. Filter(cr) /\ crCache # cr
    BY <1>5 DEF CreationAnnounced, Fresh, Filter, Exists
  <2>2. crCache' = cr /\ watch' = <<>> /\ queued'
    BY <1>3, <1>5, <2>1 DEF CreationAnnounced
  <2>3. Unfinalized'
    BY <1>1, <1>5, <2>2, SameFresh DEF CreationAnnounced, Unfinalized
  <2> QED
    BY <2>3 DEF Ages
<1>6. CASE BeingProvisioned
  <2>1. Told'
    BY <1>1, <1>2, <1>6, DeliveryTells DEF BeingProvisioned
  <2>2. SurplusKnown' /\ AllReachable'
    BY <1>1, <1>6, SameNews DEF BeingProvisioned
  <2>3. NewsOfNow'
    BY <1>1, <1>6, SameNews, SameLag DEF BeingProvisioned
  <2>4. pc' = "idle" => queued' \/ Served'
    BY <1>1, <1>6, SameServed DEF BeingProvisioned
  <2>5. pc' # "idle" => AtWork'
    BY <1>1, <1>6, SameWork DEF BeingProvisioned
  <2>6. BeingProvisioned'
    BY <1>1, <1>6, <2>1, <2>2, <2>3, <2>4, <2>5 DEF BeingProvisioned, Live, Exists
  <2> QED
    BY <2>6 DEF Ages
<1>7. CASE Gone
  <2>1. watch = <<NoObject>> /\ ~Exists(cr)
    BY <1>1, <1>7 DEF Gone
  <2>2. watch' = <<>> /\ ~Exists(crCache')
    <3>1. Head(watch) = NoObject /\ Tail(watch) = <<>> /\ ~Exists(NoObject)
      BY <2>1, OneAnnounced DEF Exists, NoObject
    <3> QED
      BY <1>2, <2>1, <3>1
  <2>3. \A o \in Objects : Pending(o)' => ~Stands(o)'
    BY <1>1, <1>7, SameLag DEF Gone, Stands
  <2>4. AllReachable'
    BY <1>1, <1>7, SameNews DEF Gone
  <2>5. (pc' \in {"idle", "removeFinalizer"} /\ NothingStands') \/ Deleting'
    BY <1>1, <1>7, SameDeleting, SameChildren DEF Gone
  <2>6. Gone'
    BY <1>1, <2>1, <2>2, <2>3, <2>4, <2>5 DEF Gone, Exists
  <2> QED
    BY <2>6 DEF Ages
<1>8. ~WriteOverheard /\ ~Doomed /\ ~Unfinalized
  BY <1>1 DEF WriteOverheard, Doomed, Unfinalized
<1> QED
  BY <1>4, <1>5, <1>6, <1>7, <1>8 DEF Ages

LEMMA RvsHandedOut ==
  ASSUME Known
  PROVE  cr.rv <= rv /\ crCache.rv <= rv /\ obj.rv <= rv
<1>1. cr \in Versions /\ crCache \in Versions /\ obj \in Versions
  BY DEF Versions
<1> QED
  BY <1>1 DEF Known, OrderInv, VersionsInv, VersionsAgree, Fits

\* A version stored is Store's argument but for its resourceVersion.
LEMMA StoredVersion ==
  ASSUME Known, NEW w \in Version, Store(w)
  PROVE  /\ cr' \in Version /\ Exists(cr') /\ cr'.rv = rv + 1 /\ cr' = Stored(w)
         /\ cr'.replicas = w.replicas /\ cr'.conf = w.conf /\ cr'.status = w.status
         /\ cr'.fin = w.fin /\ cr'.del = w.del
         /\ watch' = Append(watch, cr')
         /\ crCache.rv # cr'.rv /\ obj.rv # cr'.rv /\ cr.rv # cr'.rv
<1>1. /\ rv \in Nat /\ cr.rv \in Nat /\ crCache.rv \in Nat /\ obj.rv \in Nat
      /\ cr.rv <= rv /\ crCache.rv <= rv /\ obj.rv <= rv
  BY RvsHandedOut, KnownTypes DEF Version
<1>2. cr' = Stored(w) /\ watch' = Append(watch, cr')
  BY DEF Store
<1>3. /\ Stored(w) \in Version /\ Stored(w).rv = rv + 1
      /\ Stored(w).replicas = w.replicas /\ Stored(w).conf = w.conf
      /\ Stored(w).status = w.status /\ Stored(w).fin = w.fin /\ Stored(w).del = w.del
  BY <1>1 DEF Stored, Version
<1> QED
  BY <1>1, <1>2, <1>3 DEF Exists

LEMMA FirstAnnounced ==
  ASSUME NEW v, watch = <<>>, watch' = Append(watch, v)
  PROVE  watch' = <<v>>
  OBVIOUS

\* At rest, what users write is announced over what has settled.
LEMMA SettledAges ==
  ASSUME Known, Ages, Settled
  PROVE  \/ Live /\ cr.fin /\ crCache = cr /\ AtRest(cr) /\ Served
         \/ ~Exists(cr) /\ ~Exists(crCache) /\ NoLag /\ NothingStands
<1>1. pc = "idle" /\ ~queued /\ watch = <<>> /\ NoLag
  BY DEF Settled, Quiet, NoLag
<1>2. ~WriteAnnounced /\ ~CreationAnnounced
  BY <1>1, OneAnnounced DEF WriteAnnounced, CreationAnnounced
<1>3. ~WriteOverheard /\ ~Doomed /\ ~Unfinalized
  BY <1>1 DEF WriteOverheard, Doomed, Unfinalized
<1>4. CASE BeingProvisioned
  <2>1. Served /\ AllReachable /\ crCache = cr /\ Live /\ cr.fin /\ cr.conf > 0
    BY <1>1, <1>4 DEF BeingProvisioned, Told
  <2>2. AtRest(cr)
    BY <1>1, <2>1 DEF AtRest, Served, AllReachable
  <2> QED
    BY <2>1, <2>2
<1>5. CASE Gone
  <2>1. watch # <<NoObject>>
    BY <1>1, OneAnnounced
  <2>2. ~Deleting
    BY <1>1 DEF Deleting, Removes
  <2> QED
    BY <1>1, <1>5, <2>1, <2>2 DEF Gone
<1> QED
  BY <1>2, <1>3, <1>4, <1>5 DEF Ages

LEMMA WriteOverRest ==
  ASSUME Known, Settled, Live, cr.fin, crCache = cr, AtRest(cr),
         UNCHANGED <<crCache, pc, child, lag>>, NEW w \in Version, Store(w),
         w.fin = cr.fin, w.status = cr.status, w.conf > 0,
         w.del => w.conf = cr.conf /\ w.replicas = cr.replicas
  PROVE  WriteAnnounced'
<1>1. pc = "idle" /\ watch = <<>> /\ cr \in Version
  BY KnownTypes DEF Settled, Quiet
<1>2. /\ Exists(cr') /\ cr'.fin /\ cr'.status = cr.status /\ cr'.conf > 0
      /\ cr'.del => cr'.conf = cr.conf /\ cr'.replicas = cr.replicas
      /\ crCache.rv # cr'.rv /\ watch' = Append(watch, cr')
  BY StoredVersion
<1>3. watch' = <<cr'>>
  BY <1>1, <1>2, FirstAnnounced
<1>4. Replaced(crCache)'
  BY <1>2 DEF Replaced, Live
<1>5. AtRest(crCache)'
  BY SameRest
<1>6. Exists(crCache)'
  BY DEF Exists, Live
<1> QED
  BY <1>1, <1>3, <1>4, <1>5, <1>6 DEF WriteAnnounced

LEMMA UserAges ==
  ASSUME Known, Ages, Patient, UserWrite
  PROVE  Ages'
<1>1. Settled /\ User /\ UNCHANGED <<crCache, queued>> /\ UNCHANGED <<pc, child, lag>>
  BY DEF UserWrite, User, UserCreate, UserScale, UserReconfigure, UserDelete, UserStep,
     workerVars, childVars
<1>2. cr \in Version /\ edits \in Nat /\ edits + 1 \in Nat /\ edits + 1 > 0
  BY OrderFacts DEF Known, OrderInv
<1>3. CASE Live /\ cr.fin /\ crCache = cr /\ AtRest(cr)
  <2>1. cr.conf > 0 /\ ~cr.del /\ Exists(cr)
    BY <1>3 DEF AtRest, Live
  <2>2. ASSUME NEW n \in ReplicaCounts, UserScale(n) PROVE WriteAnnounced'
    <3> DEFINE w == [cr EXCEPT !.replicas = n]
    <3>1. n \in 0..MaxReplicas
      BY ReplicasAssumption
    <3>2. w \in Version /\ w.fin = cr.fin /\ w.status = cr.status /\ w.conf = cr.conf
          /\ w.del = cr.del
      BY <1>2, <3>1 DEF Version
    <3>3. Store(w)
      BY <2>2 DEF UserScale
    <3> HIDE DEF w
    <3> QED
      BY <1>1, <1>3, <2>1, <3>2, <3>3, WriteOverRest
  <2>3. ASSUME UserReconfigure PROVE WriteAnnounced'
    <3> DEFINE w == [cr EXCEPT !.conf = edits + 1]
    <3>1. w \in Version /\ w.fin = cr.fin /\ w.status = cr.status /\ w.conf = edits + 1
          /\ w.del = cr.del
      BY <1>2 DEF Version
    <3>2. Store(w)
      BY <2>3 DEF UserReconfigure
    <3> HIDE DEF w
    <3> QED
      BY <1>1, <1>2, <1>3, <2>1, <3>1, <3>2, WriteOverRest
  <2>4. ASSUME UserDelete PROVE WriteAnnounced'
    <3> DEFINE w == [cr EXCEPT !.del = TRUE]
    <3>1. w \in Version /\ w.fin = cr.fin /\ w.status = cr.status /\ w.conf = cr.conf
          /\ w.replicas = cr.replicas
      BY <1>2 DEF Version
    <3>2. Store(w)
      BY <1>3, <2>4 DEF UserDelete
    <3> HIDE DEF w
    <3> QED
      BY <1>1, <1>3, <2>1, <3>1, <3>2, WriteOverRest
  <2>5. \A n : ~UserCreate(n)
    BY <2>1 DEF UserCreate
  <2> QED
    BY <1>1, <2>2, <2>3, <2>4, <2>5 DEF User, Ages
<1>4. CASE ~Exists(cr) /\ ~Exists(crCache) /\ NoLag /\ NothingStands
  <2>1. PICK n \in ReplicaCounts : UserCreate(n)
    BY <1>1, <1>4 DEF User, UserScale, UserReconfigure, UserDelete
  <2> DEFINE w == [NoObject EXCEPT !.replicas = n, !.conf = edits + 1]
  <2>2. n \in 0..MaxReplicas
    BY ReplicasAssumption
  <2>3. w \in Version /\ w.fin = FALSE /\ w.status = 0 /\ w.conf = edits + 1 /\ w.del = FALSE
    BY <1>2, <2>2, NoObjectIsVersion DEF Version, NoObject
  <2>4. Store(w)
    BY <2>1 DEF UserCreate
  <2> HIDE DEF w
  <2>5. /\ Exists(cr') /\ ~cr'.fin /\ cr'.status = 0 /\ cr'.conf > 0 /\ ~cr'.del
        /\ watch' = Append(watch, cr')
    BY <1>2, <2>3, <2>4, StoredVersion
  <2>6. watch' = <<cr'>> /\ pc' = "idle" /\ ~queued'
    BY <1>1, <2>5, FirstAnnounced DEF Settled, Quiet
  <2>7. NoLag' /\ NothingStands'
    BY <1>1, <1>4, SameChildren, SameLag
  <2>8. Fresh'
    BY <2>5, <2>7 DEF Fresh
  <2>9. CreationAnnounced'
    BY <1>1, <1>4, <2>6, <2>8 DEF CreationAnnounced, Exists
  <2> QED
    BY <2>9 DEF Ages
<1> QED
  BY <1>1, <1>3, <1>4, SettledAges DEF UserWrite

LEMMA WorkerAt ==
  ASSUME Worker
  PROVE  /\ pc = "idle" => Reconcile \/ ReconcileNotFound
         /\ pc = "addFinalizer" => AddFinalizerCall
         /\ pc = "removeFinalizer" => RemoveFinalizerCall
         /\ pc \in Removes => DeleteService \/ DeleteExporter \/ DeleteInstance
         /\ pc \in {"delete", "listCMs", "deleteCMs"} =>
              StartDelete \/ ListConfigMaps \/ DeleteConfigMap \/ FinishDelete
<1> USE DEF Removes
<1>1. CASE ReconcileNotFound \/ Reconcile \/ AddFinalizerCall \/ RemoveFinalizerCall
  BY <1>1 DEF ReconcileNotFound, Reconcile, Take, AddFinalizerCall, RemoveFinalizerCall
<1>2. CASE CreateConfigMaps \/ SkipExisting \/ GetService \/ CreateService
           \/ CreateSIP \/ CreateInstance
  BY <1>2 DEF CreateConfigMaps, SkipExisting, GetService, CreateService,
              CreateSIP, CreateInstance
<1>3. CASE StartUpdate \/ UpdateConfigMaps \/ UpdateSIP \/ UpdateInstance \/ UpdateStatus
  BY <1>3 DEF StartUpdate, UpdateConfigMaps, UpdateSIP, UpdateInstance, UpdateStatus
<1>4. CASE StartDelete \/ DeleteService \/ DeleteExporter \/ DeleteInstance
           \/ ListConfigMaps \/ DeleteConfigMap \/ FinishDelete
  BY <1>4 DEF StartDelete, DeleteService, DeleteExporter, DeleteInstance,
              ListConfigMaps, DeleteConfigMap, FinishDelete
<1> QED
  BY <1>1, <1>2, <1>3, <1>4 DEF Worker

LEMMA TakesUp ==
  ASSUME Worker, pc = "idle", Exists(crCache)
  PROVE  /\ queued /\ obj' = crCache
         /\ pc' = IF crCache.del THEN "removeFinalizer"
                  ELSE IF crCache.fin THEN "createConfigMaps" ELSE "addFinalizer"
         /\ UNCHANGED <<cr, rv, crCache, watch, replica, loop, service>>
         /\ UNCHANGED childVars /\ UNCHANGED <<child, lag>>
<1>1. Reconcile
  BY WorkerAt DEF ReconcileNotFound
<1> QED
  BY <1>1 DEF Reconcile, Take, childVars

LEMMA WriteAnnouncedSteps ==
  ASSUME Known, WriteAnnounced, Worker, Calm'
  PROVE  UNCHANGED childVars /\ WriteAnnounced'
<1>1. Exists(crCache) /\ AtRest(crCache) /\ Replaced(crCache) /\ watch = <<cr>>
  BY DEF WriteAnnounced
<1>2. CASE pc = "idle"
  <2>1. UNCHANGED <<cr, crCache, watch>> /\ UNCHANGED <<child, lag>> /\ UNCHANGED childVars
        /\ obj' = crCache /\ pc' = "createConfigMaps"
    BY <1>1, <1>2, TakesUp DEF Replaced
  <2>2. AtRest(crCache)'
    BY <1>1, <2>1, SameRest
  <2>3. Replaced(crCache)'
    BY <1>1, <2>1 DEF Replaced, Exists
  <2> QED
    BY <1>1, <2>1, <2>2, <2>3 DEF WriteAnnounced, Exists, Replaying
<1>3. CASE pc # "idle"
  <2>1. obj = crCache /\ Replaying
    BY <1>3 DEF WriteAnnounced
  <2>2. AtRest(obj) /\ obj.fin /\ ~obj.del /\ ~Current(obj)
    BY <1>1, <2>1 DEF Replaced, Current
  <2>3. /\ UNCHANGED childVars /\ UNCHANGED <<cr, rv, crCache, watch, edits, relists>>
        /\ pc' = "idle" \/ (Replaying' /\ obj' = obj)
    BY <2>1, <2>2, ReplayStep
  <2>4. AtRest(crCache)'
    BY <1>1, <2>3, SameRest DEF childVars
  <2>5. Replaced(crCache)'
    BY <1>1, <2>3 DEF Replaced, Exists
  <2> QED
    BY <1>1, <2>1, <2>3, <2>4, <2>5 DEF WriteAnnounced, Exists
<1> QED
  BY <1>2, <1>3

LEMMA WriteOverheardSteps ==
  ASSUME Known, WriteOverheard, Worker, Calm'
  PROVE  UNCHANGED childVars /\ Ages'
<1>1. Replaying /\ AtRest(obj) /\ Replaced(obj) /\ watch = <<>> /\ crCache = cr /\ queued
  BY DEF WriteOverheard
<1>2. obj.fin /\ ~obj.del /\ ~Current(obj)
  BY <1>1 DEF Replaced, Current
<1>3. /\ UNCHANGED childVars /\ UNCHANGED <<cr, rv, crCache, watch, edits, relists>>
      /\ (pc' = "idle" /\ queued') \/ (Replaying' /\ obj' = obj /\ queued' = queued)
  BY <1>1, <1>2, ReplayStep
<1>4. UNCHANGED <<child, lag>>
  BY <1>3 DEF childVars
<1>5. CASE Replaying' /\ obj' = obj /\ queued' = queued
  <2>1. AtRest(obj)'
    BY <1>1, <1>4, <1>5, SameRest
  <2>2. Replaced(obj)'
    BY <1>1, <1>3, <1>5 DEF Replaced, Exists
  <2>3. WriteOverheard'
    BY <1>1, <1>3, <1>5, <2>1, <2>2 DEF WriteOverheard
  <2> QED
    BY <1>3, <2>3 DEF Ages
<1>6. CASE pc' = "idle" /\ queued'
  <2>1. /\ cr.del => AtRest(cr)
        /\ ~cr.del => Live /\ SurplusKnown /\ NewsOfNow
    BY <1>1, NextRound, KnownTypes
  <2>2. Exists(cr) /\ cr.fin /\ cr.conf > 0
    BY <1>1 DEF Replaced
  <2>3. CASE cr.del
    <3>1. AtRest(cr)'
      BY <1>3, <1>4, <2>1, <2>3, SameRest
    <3>2. Doomed'
      BY <1>1, <1>3, <1>6, <2>2, <2>3, <3>1 DEF Doomed, Exists
    <3> QED
      BY <1>3, <3>2 DEF Ages
  <2>4. CASE ~cr.del
    <3>1. SurplusKnown' /\ NewsOfNow'
      BY <1>3, <1>4, <2>1, <2>4, SameNews, SameLag
    <3>2. AllReachable'
      BY <1>1, <1>4 DEF AtRest, AllReachable, Reachable, Stands
    <3>3. Kin(crCache)
      BY <1>1, <2>1, <2>2, <2>4, ToldStored
    <3>4. Told'
      BY <1>1, <1>3, <3>3 DEF Told, Kin, Exists, Unset
    <3>5. BeingProvisioned'
      BY <1>3, <1>6, <2>1, <2>2, <2>4, <3>1, <3>2, <3>4 DEF BeingProvisioned, Live, Exists
    <3> QED
      BY <1>3, <3>5 DEF Ages
  <2> QED
    BY <2>3, <2>4
<1> QED
  BY <1>3, <1>5, <1>6

LEMMA DoomedSteps ==
  ASSUME Known, Doomed, Worker, Calm'
  PROVE  UNCHANGED childVars /\ Ages'
<1>1. watch = <<>> /\ crCache = cr /\ Exists(cr) /\ cr.fin /\ cr.del /\ AtRest(cr)
  BY DEF Doomed
<1>2. CASE pc = "idle"
  <2>1. UNCHANGED <<cr, crCache, watch>> /\ UNCHANGED <<child, lag>> /\ UNCHANGED childVars
        /\ obj' = crCache /\ pc' = "removeFinalizer"
    BY <1>1, <1>2, TakesUp
  <2>2. AtRest(cr)'
    BY <1>1, <2>1, SameRest
  <2>3. Doomed'
    BY <1>1, <2>1, <2>2 DEF Doomed, Exists
  <2> QED
    BY <2>1, <2>3 DEF Ages
<1>3. CASE pc # "idle"
  <2>1. pc = "removeFinalizer" /\ obj = cr /\ RemoveFinalizerCall
    BY <1>3, WorkerAt DEF Doomed
  <2> DEFINE sent == [obj EXCEPT !.fin = FALSE]
  <2>2. /\ Remove /\ obj' = Defaulted(sent) /\ pc' = "delete"
        /\ UNCHANGED crCache /\ UNCHANGED childVars
    <3>1. Current(obj) /\ ~Fault
      BY <1>1, <2>1, NoFaults, KnownTypes DEF Current
    <3> QED
      BY <2>1, <3>1 DEF RemoveFinalizerCall, RemoveFinalizer
  <2>3. cr' = NoObject /\ ~Exists(cr') /\ watch' = <<NoObject>>
    BY <1>1, <2>2, FirstAnnounced DEF Remove, Exists, NoObject
  <2>4. /\ sent \in Version /\ sent.replicas = cr.replicas
        /\ obj'.replicas = IF cr.replicas = 0 THEN 1 ELSE cr.replicas
    BY <2>1, <2>2, KnownTypes DEF Version, Defaulted
  <2>5. ASSUME NEW r \in Bridges, Any(r) PROVE r <= obj'.replicas
    <3>1. ~(r > cr.replicas /\ r > 1)
      BY <1>1, <2>5 DEF AtRest, NoSurplus
    <3>2. r \in Nat /\ cr.replicas \in Nat
      BY KnownTypes DEF Bridges, Version
    <3> QED
      BY <2>4, <3>1, <3>2
  <2>6. Deleting'
    <3>1. \A r \in Bridges : Any(r)' => r <= obj'.replicas
      BY <2>2, <2>5, SameChildren DEF childVars
    <3> QED
      BY <2>2, <3>1 DEF Deleting, RemovedSoFar, Removes
  <2>7. AllReachable'
    BY <1>1, <2>2 DEF AtRest, AllReachable, Reachable, Stands, childVars
  <2>8. \A o \in Objects : ~Pending(o)'
    BY <1>1, <2>2, NothingPending, SameLag DEF AtRest, childVars
  <2>9. Gone'
    BY <1>1, <2>2, <2>3, <2>6, <2>7, <2>8 DEF Gone, Exists
  <2> QED
    BY <2>2, <2>9 DEF Ages
<1> QED
  BY <1>2, <1>3

LEMMA NothingAtAll ==
  ASSUME NothingStands
  PROVE  \A r \in Bridges : ~Any(r) /\ Reachable(r)
  BY NamesAreObjects DEF NothingStands, Bridges, Any, Reachable

LEMMA UnfinalizedSteps ==
  ASSUME Known, Unfinalized, Worker, Calm'
  PROVE  UNCHANGED childVars /\ Ages'
<1>1. watch = <<>> /\ crCache = cr /\ Fresh /\ Exists(cr)
  BY DEF Unfinalized, Fresh
<1>2. CASE pc = "idle"
  <2>1. UNCHANGED <<cr, crCache, watch>> /\ UNCHANGED <<child, lag>> /\ UNCHANGED childVars
        /\ obj' = crCache /\ pc' = "addFinalizer"
    BY <1>1, <1>2, TakesUp DEF Fresh
  <2>2. Unfinalized'
    BY <1>1, <2>1, SameFresh DEF Unfinalized
  <2> QED
    BY <2>1, <2>2 DEF Ages
<1>3. CASE pc # "idle"
  <2>1. pc = "addFinalizer" /\ obj = cr /\ AddFinalizerCall
    BY <1>3, WorkerAt DEF Unfinalized
  <2> DEFINE sent == [obj EXCEPT !.fin = TRUE]
             w == Defaulted(sent)
  <2>2. /\ Store(w) /\ obj' = cr' /\ pc' = "createConfigMaps"
        /\ UNCHANGED crCache /\ UNCHANGED childVars /\ UNCHANGED <<child, lag>>
    <3>1. Current(obj) /\ ~Fault
      BY <1>1, <2>1, NoFaults, KnownTypes DEF Current
    <3> QED
      BY <2>1, <3>1 DEF AddFinalizerCall, AddFinalizer, childVars
  <2>3. /\ w \in Version /\ w.conf = cr.conf /\ w.status = 0 /\ ~w.del /\ w.fin
        /\ w.replicas = IF cr.replicas = 0 THEN 1 ELSE cr.replicas
    <3>1. /\ sent \in Version /\ sent.replicas = cr.replicas /\ sent.conf = cr.conf
          /\ sent.status = 0 /\ ~sent.del /\ sent.fin
      BY <1>1, <2>1, KnownTypes DEF Version, Fresh
    <3>2. w \in Version
      BY <3>1, DefaultedType
    <3> HIDE DEF sent
    <3> QED
      BY <3>1, <3>2 DEF Defaulted, Version
  <2> HIDE DEF w
  <2>4. /\ Exists(cr') /\ cr'.conf = cr.conf /\ cr'.status = 0 /\ ~cr'.del /\ cr'.fin
        /\ cr'.replicas = IF cr.replicas = 0 THEN 1 ELSE cr.replicas
        /\ watch' = Append(watch, cr') /\ crCache.rv # cr'.rv
    BY <2>2, <2>3, StoredVersion
  <2>5. watch' = <<cr'>>
    BY <1>1, <2>4, FirstAnnounced
  <2>6. Live' /\ cr'.fin /\ cr'.conf > 0
    BY <1>1, <2>4 DEF Fresh, Live
  <2>7. Kin(crCache)'
    BY <1>1, <2>2, <2>4 DEF Kin, Exists, Unset, Fresh
  <2>8. Kin(cr)'
    BY <2>4 DEF Kin
  <2>9. Told'
    <3>1. DOMAIN watch' = {1} /\ watch'[1] = cr' /\ Len(watch') = 1 /\ watch' # <<>>
      BY <2>5, OneAnnounced
    <3>2. \A k \in DOMAIN watch' : Kin(watch[k])'
      BY <2>8, <3>1 DEF Kin, Exists, Unset
    <3> QED
      BY <2>7, <3>1, <3>2 DEF Told
  <2>10. \A r \in Bridges : ~Any(r)' /\ Reachable(r)'
    BY <1>1, <2>2, NothingAtAll, SameChildren DEF Fresh
  <2>11. \A o \in Objects : ~Pending(o)'
    BY <1>1, <2>2, NothingPending, SameLag DEF Fresh
  <2>12. SurplusKnown' /\ AllReachable' /\ NewsOfNow'
    BY <2>10, <2>11 DEF SurplusKnown, AllReachable, NewsOfNow
  <2>13. AtWork'
    <3>1. Copy(obj)'
      BY <2>2, <2>4 DEF Copy
    <3>2. OnCourse'
      BY <2>2 DEF OnCourse, ScaledSoFar, UpdatedSoFar, InUpdate, Removes
    <3> QED
      BY <2>2, <3>1, <3>2 DEF AtWork, RemovedSoFar, Removes, Deletes
  <2>14. BeingProvisioned'
    BY <2>2, <2>6, <2>9, <2>12, <2>13 DEF BeingProvisioned
  <2> QED
    BY <2>2, <2>14 DEF Ages
<1> QED
  BY <1>2, <1>3

LEMMA NoWorkerYet ==
  ASSUME CreationAnnounced, Worker
  PROVE  FALSE
  BY WorkerAt DEF CreationAnnounced, Reconcile, ReconcileNotFound, Take

-----------------------------------------------------------------------------
(* Deletions, which the scale-down and Delete share. *)

Parts(r) == {Instance(r), Service(r), Exporter(r)}

LEMMA PartsAreObjects ==
  ASSUME NEW r \in Bridges
  PROVE  /\ Parts(r) \subseteq Objects
         /\ Instance(r) # Service(r) /\ Instance(r) # Exporter(r) /\ Service(r) # Exporter(r)
         /\ \A q \in Bridges : q # r => Parts(q) \cap Parts(r) = {}
         /\ \A o \in Parts(r) : o \notin ConfigMaps /\ o[2] = r
  BY NamesAreObjects DEF Parts, Bridges, Instance, Service, Exporter, ConfigMaps

\* What deleting o leaves: o does not stand, everything else is as it was.
Drops(o) ==
  /\ child'[o] = 0
  /\ \A p \in Objects : p # o => child'[p] = child[p] /\ (Pending(p)' <=> Pending(p))

LEMMA PutDrops ==
  ASSUME Known, CachesFollow, NEW o \in Objects, Put(o, 0), Pending(o) => ~Stands(o)
  PROVE  CachesFollow' /\ Drops(o)
<1>1. 0 \in Nat /\ (Pending(o) => (Stands(o) <=> 0 # 0))
  OBVIOUS
<1>2. CachesFollow' /\ \A p \in Objects : p # o => (Pending(p)' <=> Pending(p))
  BY <1>1, PutCaches, KnownTypes
<1>3. child'[o] = 0 /\ \A p \in Objects : p # o => child'[p] = child[p]
  BY <1>1, PutChild, KnownTypes
<1> QED
  BY <1>2, <1>3 DEF Drops

LEMMA AbsentStands ==
  ASSUME CachesFollow, NEW o \in Objects, Pending(o) => ~Stands(o)
  PROVE  Get(o) = "absent" => ~Stands(o)
  BY DEF CachesFollow, Get

LEMMA CachedDrops ==
  ASSUME Known, CachesFollow, Calm', NEW o \in Objects, DeleteCached(o),
         Pending(o) => ~Stands(o)
  PROVE  CachesFollow' /\ Drops(o)
<1>1. CASE Get(o) = "absent"
  <2>1. UNCHANGED childVars /\ ~Stands(o)
    BY <1>1, AbsentStands DEF DeleteCached
  <2>2. UNCHANGED <<child, lag>>
    BY <2>1 DEF childVars
  <2>3. CachesFollow' /\ child'[o] = 0
    BY <2>1, <2>2, SameCaches DEF Stands
  <2> QED
    BY <2>2, <2>3, SameLag DEF Drops
<1>2. CASE Get(o) # "absent"
  <2>1. Put(o, 0)
    BY <1>2, NoFaults, KnownTypes DEF DeleteCached
  <2> QED
    BY <2>1, PutDrops
<1> QED
  BY <1>1, <1>2

\* One call of the deletion of a bridge.
LEMMA RemovalStep ==
  ASSUME Known, CachesFollow, Calm', NEW n, n = replica,
         DeleteService \/ DeleteExporter \/ DeleteInstance,
         AllReachable, RemovedSoFar,
         \A o \in Parts(n) : Pending(o) => ~Stands(o)
  PROVE  /\ CachesFollow' /\ n \in Bridges
         /\ \A p \in Objects \ Parts(n) :
              child'[p] = child[p] /\ (Pending(p)' <=> Pending(p))
         /\ \A p \in Parts(n) : child'[p] \in {0, child[p]} /\ (Pending(p)' => ~Stands(p)')
         /\ \A r \in Bridges : Any(r)' => Any(r)
         /\ pc = "deleteInstance" => DeleteInstance /\ ~Any(n)'
         /\ \A r \in Bridges : r # n => Reachable(r)'
         /\ pc # "deleteInstance" =>
              /\ AllReachable' /\ RemovedSoFar'
              /\ pc' \in {"deleteExporter", "deleteInstance"}
              /\ UNCHANGED <<loop, obj, replica>>
<1>1. pc \in {"deleteService", "deleteExporter", "deleteInstance"}
  BY DEF DeleteService, DeleteExporter, DeleteInstance
<1>2. n \in Bridges
  BY <1>1, InRange, KnownTypes DEF PerReplica, Bridges
<1>3. /\ Parts(n) \subseteq Objects
      /\ Instance(n) # Service(n) /\ Instance(n) # Exporter(n) /\ Service(n) # Exporter(n)
      /\ \A q \in Bridges : q # n => Parts(q) \cap Parts(n) = {}
  BY <1>2, PartsAreObjects
<1>4. Service(n) \in Parts(n) /\ Exporter(n) \in Parts(n) /\ Instance(n) \in Parts(n)
  BY DEF Parts
<1>5. \A r \in Bridges : Parts(r) \subseteq Objects
  BY PartsAreObjects
\* Whatever was dropped was a part of this bridge.
<1>6. ASSUME NEW o \in Parts(n), Drops(o)
      PROVE  /\ \A p \in Objects \ Parts(n) :
                  child'[p] = child[p] /\ (Pending(p)' <=> Pending(p))
             /\ \A p \in Parts(n) : child'[p] \in {0, child[p]} /\ (Pending(p)' => ~Stands(p)')
             /\ \A r \in Bridges : Any(r)' => Any(r)
             /\ \A r \in Bridges : r # n => Reachable(r)'
  <2>1. \A p \in Objects \ Parts(n) : child'[p] = child[p] /\ (Pending(p)' <=> Pending(p))
    BY <1>6 DEF Drops
  <2>2. \A p \in Objects : child'[p] \in {0, child[p]}
    BY <1>3, <1>6 DEF Drops, Stands
  <2>3. \A p \in Parts(n) : Pending(p)' => ~Stands(p)'
    <3> SUFFICES ASSUME NEW p \in Parts(n), Pending(p)' PROVE ~Stands(p)'
      OBVIOUS
    <3>1. CASE p = o
      BY <1>6, <3>1 DEF Drops, Stands
    <3>2. CASE p # o
      <4>1. Pending(p) /\ child'[p] = child[p]
        BY <1>3, <1>6, <3>2 DEF Drops
      <4> QED
        BY <4>1 DEF Stands
    <3> QED
      BY <3>1, <3>2
  <2>4. \A p \in Objects : Stands(p)' => Stands(p)
    BY <2>2 DEF Stands
  <2>5. \A r \in Bridges : Any(r)' => Any(r)
    BY <1>5, <2>4 DEF Any, Parts
  <2>6. ASSUME NEW r \in Bridges, r # n PROVE Reachable(r)'
    <3>1. Parts(r) \subseteq Objects \ Parts(n)
      BY <1>3, <1>5, <2>6
    <3>2. child'[Service(r)] = child[Service(r)] /\ child'[Exporter(r)] = child[Exporter(r)]
      BY <2>1, <3>1 DEF Parts
    <3>3. Reachable(r)
      BY <2>6 DEF AllReachable
    <3> QED
      BY <3>2, <3>3 DEF Reachable, Stands
  <2> QED
    BY <1>3, <2>1, <2>2, <2>3, <2>5, <2>6
<1>7. CASE DeleteService
  <2>1. pc = "deleteService" /\ UNCHANGED <<loop, obj, replica>>
    BY <1>7 DEF DeleteService, Goto
  <2>2. CASE /\ Get(Service(n)) = "absent" \/ child[Service(n)] = 0
             /\ Goto("deleteInstance") /\ UNCHANGED <<childVars, faults>>
    <3>1. ~Stands(Service(n))
      BY <1>3, <1>4, <2>2, AbsentStands DEF Stands
    <3>2. ~Stands(Exporter(n))
      BY <1>2, <2>1, <3>1 DEF AllReachable, Reachable
    <3>3. UNCHANGED childVars /\ UNCHANGED <<child, lag>> /\ pc' = "deleteInstance"
      BY <2>2 DEF childVars, Goto
    <3>4. Drops(Service(n))
      BY <3>1, <3>3, SameLag DEF Drops, Stands, Service
    <3>5. CachesFollow'
      BY <3>3, SameCaches
    <3>6. ~Stands(Service(n))' /\ ~Stands(Exporter(n))'
      BY <2>1, <3>1, <3>2, <3>3 DEF Stands, Service, Exporter
    <3>7. RemovedSoFar' /\ Reachable(n)'
      BY <2>1, <3>6 DEF RemovedSoFar, Reachable, Stands, Service, Exporter
    <3>8. AllReachable'
      BY <1>4, <1>6, <3>4, <3>7, <2>1 DEF AllReachable, Reachable, Stands
    <3> QED
      BY <1>2, <1>4, <1>6, <2>1, <3>3, <3>4, <3>5, <3>7, <3>8
  <2>3. CASE Put(Service(n), 0) /\ Goto("deleteExporter")
    <3>1. CachesFollow' /\ Drops(Service(n))
      BY <1>3, <1>4, <2>3, PutDrops
    <3>2. pc' = "deleteExporter"
      BY <2>3 DEF Goto
    <3>3. ~Stands(Service(n))'
      BY <3>1 DEF Drops, Stands, Service
    <3>4. RemovedSoFar'
      BY <2>1, <3>2, <3>3 DEF RemovedSoFar, Stands, Service, Exporter
    <3>5. AllReachable'
      BY <1>4, <1>6, <3>1, <3>2, <2>1 DEF AllReachable
    <3> QED
      BY <1>2, <1>4, <1>6, <2>1, <3>1, <3>2, <3>4, <3>5
  <2> QED
    BY <1>7, <2>2, <2>3, NoFaults, KnownTypes DEF DeleteService
<1>8. CASE DeleteExporter
  <2>1. /\ pc = "deleteExporter" /\ UNCHANGED <<loop, obj, replica>>
        /\ pc' = "deleteInstance" /\ DeleteCached(Exporter(n))
    BY <1>8 DEF DeleteExporter, Goto
  <2>2. CachesFollow' /\ Drops(Exporter(n))
    BY <1>3, <1>4, <2>1, CachedDrops
  <2>3. ~Stands(Service(n))
    BY <2>1 DEF RemovedSoFar
  <2>4. ~Stands(Service(n))' /\ ~Stands(Exporter(n))'
    <3>1. child'[Service(n)] = child[Service(n)]
      BY <1>3, <1>4, <2>2 DEF Drops
    <3> QED
      BY <2>1, <2>2, <2>3, <3>1 DEF Drops, Stands, Service
  <2>5. RemovedSoFar' /\ Reachable(n)'
    BY <2>1, <2>4 DEF RemovedSoFar, Reachable, Stands, Service, Exporter
  <2>6. AllReachable'
    BY <1>4, <1>6, <2>2, <2>5, <2>1 DEF AllReachable, Reachable, Stands
  <2> QED
    BY <1>2, <1>4, <1>6, <2>1, <2>2, <2>5, <2>6
<1>9. CASE DeleteInstance
  <2>1. pc = "deleteInstance" /\ DeleteCached(Instance(n))
    BY <1>9 DEF DeleteInstance
  <2>2. CachesFollow' /\ Drops(Instance(n))
    BY <1>3, <1>4, <2>1, CachedDrops
  <2>3. ~Stands(Service(n)) /\ ~Stands(Exporter(n))
    BY <2>1 DEF RemovedSoFar
  <2>5. /\ child'[Service(n)] = child[Service(n)] /\ child'[Exporter(n)] = child[Exporter(n)]
        /\ child'[Instance(n)] = 0
    BY <1>3, <1>4, <2>2 DEF Drops, Stands
  <2>6. ~Any(n)'
    BY <2>3, <2>5 DEF Any, Stands
  <2> QED
    BY <1>2, <1>4, <1>6, <1>9, <2>1, <2>2, <2>6
<1> QED
  BY <1>7, <1>8, <1>9

-----------------------------------------------------------------------------
(* The resource is gone. *)

LEMMA GoneCaches ==
  ASSUME CachesFollow, Gone
  PROVE  \A o \in Objects : Stands(o) => o \in childCache
  BY DEF CachesFollow, Gone

\* The steps of Delete that end where they started: nothing of the resource is
\* left to announce.
LEMMA GoneFrame ==
  ASSUME Gone, UNCHANGED <<cr, watch, crCache>>,
         \A o \in Objects : Pending(o)' => ~Stands(o)',
         AllReachable',
         (pc' \in {"idle", "removeFinalizer"} /\ NothingStands') \/ Deleting'
  PROVE  Gone'
  BY DEF Gone, Exists

LEMMA GoneRemovals ==
  ASSUME Known, CachesFollow, Calm', Gone, Deleting, Worker, pc \in Removes
  PROVE  CachesFollow' /\ Gone'
<1> DEFINE D == DeleteService \/ DeleteExporter \/ DeleteInstance
<1>1. D /\ loop = "delete" /\ RemovedSoFar /\ AllReachable
  BY WorkerAt DEF Gone, Deleting
<1>2. UNCHANGED <<cr, watch, crCache, obj>>
  BY <1>1 DEF DeleteService, DeleteExporter, DeleteInstance, sameCR, crVars, Goto,
     ScaleDownFrom, DeleteFrom, Done, Round
<1>3. replica \in 1..MaxReplicas
  BY InRange, KnownTypes DEF Removes, PerReplica
<1>4. PICK n \in Bridges : n = replica
  BY <1>3 DEF Bridges
<1>5. \A o \in Parts(n) : o \in Objects /\ (Pending(o) => ~Stands(o))
  BY PartsAreObjects DEF Gone
<1>6. \A r \in Bridges : Any(r) => n <= r /\ r <= obj.replicas
  BY <1>4 DEF Deleting
<1>7. /\ CachesFollow'
      /\ \A p \in Objects \ Parts(n) : child'[p] = child[p] /\ (Pending(p)' <=> Pending(p))
      /\ \A p \in Parts(n) : Pending(p)' => ~Stands(p)'
      /\ \A r \in Bridges : Any(r)' => Any(r)
      /\ pc = "deleteInstance" => DeleteInstance /\ ~Any(n)'
      /\ \A r \in Bridges : r # n => Reachable(r)'
      /\ pc # "deleteInstance" => /\ AllReachable' /\ RemovedSoFar'
                                  /\ pc' \in {"deleteExporter", "deleteInstance"}
                                  /\ UNCHANGED <<loop, obj, replica>>
  BY <1>1, <1>4, <1>5, RemovalStep
<1>8. \A o \in Objects : Pending(o)' => ~Stands(o)'
  BY <1>7 DEF Gone, Stands
<1>9. CASE pc # "deleteInstance"
  <2>1. \A r \in Bridges : Any(r)' => replica' <= r /\ r <= obj'.replicas
    BY <1>4, <1>6, <1>7, <1>9
  <2>2. Deleting'
    BY <1>1, <1>7, <1>9, <2>1 DEF Deleting, Removes
  <2> QED
    BY <1>2, <1>7, <1>8, <1>9, <2>2, GoneFrame
<1>10. CASE pc = "deleteInstance"
  <2>1. DeleteInstance /\ DeleteFrom(replica + 1)
    BY <1>1, <1>7, <1>10 DEF DeleteInstance
  <2>2. \A r \in Bridges : Any(r)' => n + 1 <= r /\ r <= obj.replicas
    <3> SUFFICES ASSUME NEW r \in Bridges, Any(r)' PROVE n + 1 <= r /\ r <= obj.replicas
      OBVIOUS
    <3>1. r # n /\ n <= r /\ r <= obj.replicas
      BY <1>6, <1>7, <1>10
    <3> QED
      BY <3>1 DEF Bridges
  <2>3. AllReachable'
    <3>1. Reachable(n)'
      BY <1>7, <1>10 DEF Reachable, Any
    <3> QED
      BY <1>7, <3>1 DEF AllReachable
  <2>4. CASE n + 1 <= obj.replicas
    <3>1. pc' = "deleteService" /\ loop' = "delete" /\ replica' = n + 1 /\ obj' = obj
      BY <1>4, <2>1, <2>4 DEF DeleteFrom, Round
    <3>2. Deleting'
      BY <2>2, <3>1 DEF Deleting, RemovedSoFar, Removes
    <3> QED
      BY <1>2, <1>7, <1>8, <2>3, <3>2, GoneFrame
  <2>5. CASE ~(n + 1 <= obj.replicas)
    <3>1. pc' = "listCMs"
      BY <1>4, <2>1, <2>5 DEF DeleteFrom, Done, Round
    <3>2. \A r \in Bridges : ~Any(r)'
      <4>1. obj.replicas \in Nat
        BY KnownTypes DEF Version
      <4> QED
        BY <2>2, <2>5, <4>1 DEF Bridges
    <3>3. Deleting'
      BY <3>1, <3>2 DEF Deleting, RemovedSoFar, Removes
    <3> QED
      BY <1>2, <1>7, <1>8, <2>3, <3>3, GoneFrame
  <2> QED
    BY <2>4, <2>5
<1> QED
  BY <1>7, <1>9, <1>10

LEMMA GoneBegins ==
  ASSUME Known, CachesFollow, Calm', Gone, Worker,
         pc \in {"idle", "removeFinalizer"}, NothingStands
  PROVE  UNCHANGED childVars /\ Gone'
<1>1. /\ \A r \in Bridges : ~Any(r) /\ Reachable(r)
      /\ \A o \in Objects : Pending(o) => ~Stands(o)
  BY NothingAtAll DEF Gone
<1>2. ASSUME UNCHANGED <<child, lag>>
      PROVE  /\ \A r \in Bridges : ~Any(r)'
             /\ NothingStands' /\ AllReachable'
             /\ \A o \in Objects : Pending(o)' => ~Stands(o)'
  <2>1. (\A r \in Bridges : ~Any(r)' /\ Reachable(r)') /\ NothingStands'
        /\ \A o \in Objects : Pending(o)' => ~Stands(o)'
    BY <1>1, <1>2, SameChildren, SameLag
  <2> QED
    BY <2>1 DEF AllReachable
<1>3. CASE pc = "idle"
  <2>1. /\ cr' = cr /\ watch' = watch /\ crCache' = crCache
        /\ UNCHANGED childVars /\ UNCHANGED <<child, lag>>
        /\ pc' \in {"idle", "removeFinalizer"}
    <3>1. CASE Reconcile
      <4>1. crCache.del
        <5>1. Exists(crCache)
          BY <3>1 DEF Reconcile
        <5> QED
          BY <5>1 DEF Gone
      <4> QED
        BY <3>1, <4>1 DEF Reconcile, Take, childVars
    <3>2. CASE ReconcileNotFound
      BY <1>3, <3>2 DEF ReconcileNotFound, Take, childVars, workerVars
    <3> QED
      BY <1>3, <3>1, <3>2, WorkerAt
  <2> QED
    BY <1>2, <2>1, GoneFrame
<1>4. CASE pc = "removeFinalizer"
  <2>1. RemoveFinalizerCall /\ ~Current(obj) /\ ~Fault
    BY <1>4, WorkerAt, NoFaults, KnownTypes DEF Gone, Current
  <2>2. UNCHANGED <<cr, watch, crCache>> /\ UNCHANGED childVars /\ UNCHANGED <<child, lag>>
        /\ pc' = "delete"
    BY <2>1 DEF RemoveFinalizerCall, RemoveFinalizer, childVars
  <2>3. Deleting'
    BY <1>2, <2>2 DEF Deleting, RemovedSoFar, Removes
  <2> QED
    BY <1>2, <2>2, <2>3, GoneFrame
<1> QED
  BY <1>3, <1>4

LEMMA GoneConfigMaps ==
  ASSUME Known, CachesFollow, Calm', Gone, Deleting, Worker,
         pc \in {"delete", "listCMs", "deleteCMs"}
  PROVE  CachesFollow' /\ Gone'
<1>1. AllReachable /\ \A o \in Objects : Pending(o) => ~Stands(o)
  BY DEF Gone
<1>2. ASSUME UNCHANGED <<child, lag>>
      PROVE  /\ \A r : Any(r)' <=> Any(r)
             /\ AllReachable'
             /\ \A o \in Objects : Pending(o)' => ~Stands(o)'
  <2>1. \A r \in Bridges : Reachable(r)
    BY <1>1 DEF AllReachable
  <2>2. \A r \in Bridges : Reachable(r)'
    BY <1>2, <2>1, SameChildren
  <2> QED
    BY <1>1, <1>2, <2>2, SameChildren, SameLag DEF AllReachable
<1>3. CASE StartDelete
  <2>1. /\ UNCHANGED <<cr, watch, crCache, obj>> /\ UNCHANGED childVars
        /\ UNCHANGED <<child, lag>> /\ DeleteFrom(1) /\ pc = "delete"
    BY <1>3 DEF StartDelete, sameCR, crVars, childVars, DeleteFrom, Round, Done
  <2>2. \A r \in Bridges : Any(r)' => 1 <= r /\ r <= obj.replicas
    BY <1>2, <2>1 DEF Deleting, Bridges
  <2>3. Deleting'
    <3>1. CASE 1 <= obj.replicas
      <4>1. pc' = "deleteService" /\ loop' = "delete" /\ replica' = 1 /\ obj' = obj
        BY <2>1, <3>1 DEF DeleteFrom, Round
      <4> QED
        BY <2>2, <4>1 DEF Deleting, RemovedSoFar, Removes
    <3>2. CASE ~(1 <= obj.replicas)
      <4>1. pc' = "listCMs"
        BY <2>1, <3>2 DEF DeleteFrom, Done, Round
      <4>2. \A r \in Bridges : ~Any(r)'
        <5>1. obj.replicas \in Nat
          BY KnownTypes DEF Version
        <5> QED
          BY <2>2, <3>2, <5>1 DEF Bridges
      <4> QED
        BY <4>1, <4>2 DEF Deleting, RemovedSoFar, Removes
    <3> QED
      BY <3>1, <3>2
  <2> QED
    BY <1>2, <2>1, <2>3, SameCaches, GoneFrame
<1>4. CASE ListConfigMaps
  <2>1. /\ UNCHANGED <<cr, watch, crCache>> /\ UNCHANGED childVars
        /\ UNCHANGED <<child, lag>> /\ pc = "listCMs" /\ pc' = "deleteCMs"
        /\ listed' = childCache \cap ConfigMaps
    BY <1>4 DEF ListConfigMaps, sameCR, crVars, childVars
  <2>2. \A r \in Bridges : ~Any(r)
    BY <2>1 DEF Deleting
  <2>3. ASSUME NEW o \in Objects, Stands(o) PROVE o \in ConfigMaps
    <3>1. CASE o = Shared
      BY <3>1 DEF Shared, ConfigMaps, Objects
    <3>2. ASSUME NEW k \in {"instance", "service", "exporter", "sip"}, NEW r \in Bridges,
                 o = <<k, r>>
          PROVE  o \in ConfigMaps
      BY <2>2, <2>3, <3>2 DEF Any, Instance, Service, Exporter, ConfigMaps
    <3> QED
      BY <3>1, <3>2 DEF Objects, Numbered, Bridges
  <2>4. \A o \in Objects : Stands(o)' => o \in listed'
    BY <2>1, <2>3, GoneCaches DEF Stands
  <2>5. Deleting'
    BY <1>2, <2>1, <2>2, <2>4 DEF Deleting, RemovedSoFar, Removes
  <2> QED
    BY <1>2, <2>1, <2>5, SameCaches, GoneFrame
<1>5. CASE DeleteConfigMap
  <2>1. PICK o \in listed : Try(o, 0) /\ listed' = listed \ {o}
    BY <1>5 DEF DeleteConfigMap
  <2>2. UNCHANGED <<cr, watch, crCache>> /\ pc = "deleteCMs" /\ pc' = "deleteCMs"
    BY <1>5 DEF DeleteConfigMap, sameCR, crVars
  <2>3. o \in Objects
    BY KnownTypes DEF TypeInv, TypeOK, WorkerTypeOK, ConfigMaps
  <2>4. CachesFollow' /\ Drops(o)
    BY <1>1, <2>1, <2>3, PutDrops, NoFaults, KnownTypes
  <2>5. \A p \in Objects : (Stands(p)' => Stands(p)) /\ (p = o => ~Stands(p)')
    BY <2>4 DEF Drops, Stands
  <2>6. \A r \in Bridges : ~Any(r)
    BY <2>2 DEF Deleting
  <2>7. \A r \in Bridges : ~Any(r)'
    BY <2>5, <2>6, NamesAreObjects DEF Any, Bridges
  <2>8. \A p \in Objects : Stands(p)' => p \in listed'
    BY <2>1, <2>2, <2>5 DEF Deleting
  <2>9. Deleting'
    BY <2>2, <2>7, <2>8 DEF Deleting, RemovedSoFar, Removes
  <2>10. AllReachable'
    BY <2>7 DEF AllReachable, Reachable, Any
  <2>11. \A p \in Objects : Pending(p)' => ~Stands(p)'
    BY <1>1, <2>4, <2>5 DEF Drops
  <2> QED
    BY <2>2, <2>4, <2>9, <2>10, <2>11, GoneFrame
<1>6. CASE FinishDelete
  <2>1. /\ UNCHANGED <<cr, watch, crCache>> /\ UNCHANGED childVars /\ UNCHANGED <<child, lag>>
        /\ pc = "deleteCMs" /\ listed = {} /\ pc' = "idle"
    BY <1>6 DEF FinishDelete, Return, Release, childVars
  <2>2. NothingStands
    BY <2>1 DEF Deleting, NothingStands
  <2>3. NothingStands'
    BY <2>1, <2>2, SameChildren
  <2> QED
    BY <1>2, <2>1, <2>3, SameCaches, GoneFrame
<1> QED
  BY <1>3, <1>4, <1>5, <1>6, WorkerAt

LEMMA GoneSteps ==
  ASSUME Known, CachesFollow, Calm', Gone, Worker
  PROVE  CachesFollow' /\ Gone'
<1>1. CASE pc \in {"idle", "removeFinalizer"} /\ NothingStands
  BY <1>1, GoneBegins, SameCaches
<1>2. CASE Deleting
  <2>1. pc \in Removes \cup {"delete", "listCMs", "deleteCMs"}
    BY <1>2 DEF Deleting
  <2> QED
    BY <1>2, <2>1, GoneRemovals, GoneConfigMaps
<1> QED
  BY <1>1, <1>2 DEF Gone

-----------------------------------------------------------------------------
(* The children are being provisioned. *)

\* A step that leaves the resource alone.
LEMMA ProvisioningFrame ==
  ASSUME BeingProvisioned, UNCHANGED <<cr, watch, crCache>>,
         SurplusKnown', AllReachable', NewsOfNow',
         pc' = "idle" => queued' \/ Served',
         pc' # "idle" => AtWork'
  PROVE  BeingProvisioned'
<1>1. Told'
  BY SameNews DEF BeingProvisioned
<1>2. Live' /\ cr'.fin /\ cr'.conf > 0
  BY DEF BeingProvisioned, Live, Exists
<1> QED
  BY <1>1, <1>2 DEF BeingProvisioned

\* What a call that renders o from the stored configuration leaves behind:
\* nothing that stood falls, nothing that is up to date ages.
Rises(o) ==
  \A p \in Objects :
    /\ p # o => child'[p] = child[p]
    /\ child[p] = cr.conf => child'[p] = cr.conf
    /\ Stands(p) => child'[p] # 0
    /\ child[p] \in {0, cr.conf} => child'[p] \in {0, cr.conf}

LEMMA ConfIsSome ==
  ASSUME Known, BeingProvisioned
  PROVE  cr.conf \in Nat /\ cr.conf # 0
  BY KnownTypes DEF BeingProvisioned, Version

LEMMA PutRises ==
  ASSUME Known, CachesFollow, BeingProvisioned, UNCHANGED cr,
         NEW o \in Objects, NEW c \in {cr.conf, child[o]}, Kept(o), Put(o, c)
  PROVE  /\ CachesFollow' /\ NewsOfNow' /\ SurplusKnown'
         /\ Rises(o) /\ child'[o] = c
         /\ NoSurplus(cr.replicas) => NoSurplus(cr.replicas)'
<1>1. cr.conf \in Nat /\ cr.conf # 0 /\ child[o] \in Nat /\ c \in Nat
  BY ConfIsSome, KnownTypes
<1>2. Pending(o) => (Stands(o) <=> c # 0)
  BY <1>1 DEF BeingProvisioned, NewsOfNow, Stands
<1>3. /\ CachesFollow'
      /\ \A p \in Objects : p # o \/ child[o] = c => (Pending(p)' <=> Pending(p))
  BY <1>1, <1>2, PutCaches, KnownTypes
<1>4. child'[o] = c /\ \A p \in Objects : p # o => child'[p] = child[p]
  BY <1>1, PutChild, KnownTypes
<1>5. Rises(o)
  BY <1>1, <1>4 DEF Rises, Stands
<1>6. NewsOfNow'
  <2> SUFFICES ASSUME NEW p \in Objects, Pending(p)'
               PROVE  IF Stands(p)' THEN Kept(p)' /\ child'[p] = cr'.conf ELSE ~Kept(p)'
    BY DEF NewsOfNow
  <2>1. Kept(p)' <=> Kept(p)
    BY DEF Kept
  <2>2. CASE child'[p] = child[p]
    <3>1. CASE Pending(p)
      BY <2>1, <2>2, <3>1 DEF BeingProvisioned, NewsOfNow, Stands
    <3>2. CASE ~Pending(p)
      <4>1. p = o /\ child[o] # c
        BY <1>3, <3>2
      <4> QED
        BY <1>4, <2>2, <4>1
    <3> QED
      BY <3>1, <3>2
  <2>3. CASE child'[p] # child[p]
    <3>1. p = o /\ child'[p] = cr.conf
      BY <1>4, <2>3
    <3> QED
      BY <1>1, <2>1, <3>1 DEF Stands
  <2> QED
    BY <2>2, <2>3
<1>7. ASSUME NEW r \in Bridges, Any(r)', ~Any(r) PROVE r <= 1 \/ r <= cr.replicas
  <2>1. o \in Parts(r)
    <3>1. Parts(r) \subseteq Objects
      BY PartsAreObjects
    <3> QED
      BY <1>4, <1>7, <3>1 DEF Any, Parts, Stands
  <2>2. o \notin ConfigMaps /\ o[2] = r
    BY <2>1, PartsAreObjects
  <2> QED
    BY <2>2 DEF Kept, Bridges
<1>8. SurplusKnown'
  BY <1>7 DEF BeingProvisioned, SurplusKnown
<1>9. NoSurplus(cr.replicas) => NoSurplus(cr.replicas)'
  <2> SUFFICES ASSUME NoSurplus(cr.replicas), NEW r \in Bridges, r > cr.replicas, r > 1
               PROVE  ~Any(r)'
    BY DEF NoSurplus
  <2>1. r \in Nat /\ cr.replicas \in Nat
    BY KnownTypes DEF Bridges, Version
  <2> QED
    BY <1>7, <2>1 DEF NoSurplus
<1> QED
  BY <1>3, <1>4, <1>5, <1>6, <1>8, <1>9

LEMMA ReadingTrue ==
  ASSUME CachesFollow, BeingProvisioned, NEW o \in Objects, Kept(o)
  PROVE  StillTrue(o, Get(o)) /\ (Get(o) # "absent" => Stands(o))
<1>1. ~Pending(o) => (o \in childCache <=> Stands(o))
  BY DEF CachesFollow
<1>2. Pending(o) => Stands(o) /\ child[o] = cr.conf
  BY DEF BeingProvisioned, NewsOfNow
<1>3. CASE o \notin childCache
  BY <1>1, <1>2, <1>3 DEF Get, StillTrue, Stands
<1>4. CASE o \in childCache /\ Pending(o)
  BY <1>2, <1>4 DEF Get, StillTrue, Stands
<1>5. CASE o \in childCache /\ ~Pending(o)
  BY <1>1, <1>5 DEF Get, StillTrue, Stands
<1> QED
  BY <1>3, <1>4, <1>5

\* The worker renders the children of the replicas asked for, as asked for.
LEMMA RenderFacts ==
  ASSUME Known, BeingProvisioned, NEW n, n = replica, n <= obj.replicas,
         pc \in Renders \cup {"create"}
  PROVE  /\ n \in Bridges /\ n \in 1..cr.replicas
         /\ obj.replicas = cr.replicas /\ obj.conf = cr.conf
         /\ \A o \in {Instance(n), Service(n), Exporter(n), SIP(n)} : o \in Objects /\ Kept(o)
<1>1. AtWork /\ cr \in Version /\ obj \in Version
  BY KnownTypes DEF BeingProvisioned, Renders
<1>2. n \in Nat /\ n >= 1
  <2>1. replica \in 0..(MaxReplicas + 1) /\ (pc \in PerReplica => replica \in 1..MaxReplicas)
        /\ (pc = "create" => replica >= 1)
    BY KnownTypes DEF TypeInv, TypeOK, WorkerTypeOK, LoopsInRange
  <2> QED
    BY <2>1 DEF Renders, PerReplica
<1>3. obj.replicas = cr.replicas /\ obj.conf = cr.conf /\ cr.replicas \in 0..MaxReplicas
  <2>1. obj.replicas \in 0..MaxReplicas /\ obj.replicas # 0
    BY <1>1, <1>2 DEF Version
  <2> QED
    BY <1>1, <2>1 DEF AtWork, Copy, Unset, Version
<1>4. n \in Bridges /\ n \in 1..cr.replicas
  BY <1>2, <1>3, ReplicasAssumption DEF Bridges
<1>5. \A o \in {Instance(n), Service(n), Exporter(n), SIP(n)} : o \in Objects /\ o[2] = n
  <2>1. Instance(n) \in Objects /\ Service(n) \in Objects /\ Exporter(n) \in Objects
        /\ SIP(n) \in Objects
    BY <1>4, NamesAreObjects DEF Bridges
  <2>2. Instance(n)[2] = n /\ Service(n)[2] = n /\ Exporter(n)[2] = n /\ SIP(n)[2] = n
    BY DEF Instance, Service, Exporter, SIP
  <2> QED
    BY <2>1, <2>2
<1> QED
  BY <1>3, <1>4, <1>5 DEF Kept

LEMMA Rendered ==
  ASSUME Known, BeingProvisioned, pc # "idle", NEW o, NEW g
  PROVE  /\ obj.conf = cr.conf
         /\ AfterCreate(o) \in {cr.conf, child[o]}
         /\ AfterUpdate(o, g) \in {cr.conf, child[o]}
         /\ AfterCreate(o) # 0
  BY ConfIsSome DEF BeingProvisioned, AtWork, Copy, AfterCreate, AfterUpdate

\* What a call of the worker that keeps its copy can rely on.
LEMMA WorkFrame ==
  ASSUME Known, BeingProvisioned, pc # "idle", UNCHANGED <<cr, obj>>
  PROVE  /\ AtWork /\ Copy(obj)' /\ obj.conf = cr.conf
         /\ Current(obj)' <=> Current(obj)
         /\ Current(obj) => OnCourse /\ obj.replicas = cr.replicas /\ obj.status = cr.status
<1>1. AtWork
  BY DEF BeingProvisioned
<1>2. Copy(obj)' /\ (Current(obj)' <=> Current(obj)) /\ obj.conf = cr.conf
  BY <1>1 DEF AtWork, Copy, Unset, Current, Exists
<1>3. Current(obj) => obj.replicas = cr.replicas /\ obj.status = cr.status
  <2>1. obj \in Versions
    BY DEF Versions
  <2> QED
    BY <2>1 DEF Known, OrderInv, VersionsInv, VersionsAgree, Fits, Agrees, Current
<1> QED
  BY <1>1, <1>2, <1>3 DEF AtWork

\* Before the update there is nothing to show yet.
LEMMA GoesOn ==
  ASSUME Known, BeingProvisioned, pc # "idle", UNCHANGED <<cr, obj>>,
         pc' \in {"create", "createSIP", "createInstance"}
  PROVE  AtWork'
  BY WorkFrame DEF AtWork, OnCourse, ScaledSoFar, RemovedSoFar, UpdatedSoFar, InUpdate,
     Removes, Deletes

LEMMA SharedIsKept ==
  Shared \in Objects /\ Kept(Shared) /\ \A r : Shared # Exporter(r)
  BY NamesAreObjects DEF Kept, ConfigMaps, Shared, Exporter

\* Reachability suffers only from a new exporter's service.
LEMMA StillReachable ==
  ASSUME AllReachable, pc \notin {"createService", "deleteExporter"}, NEW o, Rises(o),
         \A r : o # Exporter(r)
  PROVE  (\A r \in Bridges : Reachable(r)') /\ AllReachable'
<1>1. ASSUME NEW r \in Bridges PROVE Reachable(r)'
  <2>1. Service(r) \in Objects /\ Exporter(r) \in Objects
    BY NamesAreObjects DEF Bridges
  <2>2. child'[Exporter(r)] = child[Exporter(r)]
    BY <2>1 DEF Rises
  <2>3. Stands(Service(r)) => child'[Service(r)] # 0
    BY <2>1 DEF Rises
  <2>4. Reachable(r)
    BY DEF AllReachable
  <2> QED
    BY <2>2, <2>3, <2>4 DEF Reachable, Stands
<1> QED
  BY <1>1 DEF AllReachable

LEMMA CreateConfigMapsKeeps ==
  ASSUME Known, CachesFollow, Calm', BeingProvisioned, CreateConfigMaps
  PROVE  CachesFollow' /\ BeingProvisioned'
<1>1. /\ pc = "createConfigMaps" /\ pc' = "create"
      /\ UNCHANGED <<cr, watch, crCache, obj>> /\ UNCHANGED cr
  BY DEF CreateConfigMaps, Round, sameCR, crVars
<1>2. Put(Shared, AfterCreate(Shared))
  BY NoFaults, KnownTypes DEF CreateConfigMaps
<1>3. CachesFollow' /\ NewsOfNow' /\ SurplusKnown' /\ Rises(Shared)
  BY <1>1, <1>2, Rendered, SharedIsKept, PutRises
<1>4. AllReachable'
  BY <1>1, <1>3, SharedIsKept, StillReachable DEF BeingProvisioned
<1>5. AtWork'
  BY <1>1, GoesOn
<1> QED
  BY <1>1, <1>3, <1>4, <1>5, ProvisioningFrame

LEMMA SkipExistingKeeps ==
  ASSUME Known, CachesFollow, Calm', BeingProvisioned, SkipExisting
  PROVE  CachesFollow' /\ BeingProvisioned'
<1>1. /\ pc = "create" /\ pc' = "create" /\ UNCHANGED childVars
      /\ UNCHANGED <<cr, watch, crCache, obj>> /\ UNCHANGED cr
      /\ UNCHANGED <<child, lag>>
  BY DEF SkipExisting, Round, sameCR, crVars, childVars
<1>2. CachesFollow' /\ NewsOfNow' /\ SurplusKnown'
  BY <1>1, SameCaches, SameNews, SameLag DEF BeingProvisioned
<1>3. AllReachable'
  BY <1>1 DEF BeingProvisioned, AllReachable, Reachable, Stands
<1>4. AtWork'
  BY <1>1, GoesOn
<1> QED
  BY <1>1, <1>2, <1>3, <1>4, ProvisioningFrame

LEMMA CreateSIPKeeps ==
  ASSUME Known, CachesFollow, Calm', BeingProvisioned, CreateSIP \/ CreateInstance
  PROVE  CachesFollow' /\ BeingProvisioned'
<1>1. /\ pc \in {"createSIP", "createInstance"} /\ pc' \in {"createInstance", "create"}
      /\ UNCHANGED <<cr, watch, crCache, obj>> /\ UNCHANGED cr
  BY DEF CreateSIP, CreateInstance, Round, Goto, sameCR, crVars
<1>2. PICK n : n = replica
  OBVIOUS
<1>3. n <= obj.replicas /\ pc \in Renders
  BY <1>1, <1>2, KnownTypes DEF StageOK, Renders
<1>4. PICK o \in {SIP(n), Instance(n)} : Put(o, AfterCreate(o))
  BY <1>2, NoFaults, KnownTypes DEF CreateSIP, CreateInstance
<1>5. o \in Objects /\ Kept(o)
  BY <1>2, <1>3, RenderFacts
<1>6. CachesFollow' /\ NewsOfNow' /\ SurplusKnown' /\ Rises(o)
  BY <1>1, <1>4, <1>5, Rendered, PutRises
<1>7. \A r : o # Exporter(r)
  BY <1>4 DEF SIP, Instance, Exporter
<1>8. AllReachable'
  BY <1>1, <1>6, <1>7, StillReachable DEF BeingProvisioned
<1>9. AtWork'
  BY <1>1, GoesOn
<1> QED
  BY <1>1, <1>6, <1>8, <1>9, ProvisioningFrame

-----------------------------------------------------------------------------
(* The rounds of the update. *)

\* What a call that renders from the stored configuration leaves true.
LEMMA RisesWhole ==
  ASSUME Known, UNCHANGED cr, NEW o, Rises(o)
  PROVE  /\ \A r \in Bridges : Whole(r, cr.conf) => Whole(r, cr.conf)'
         /\ child[Shared] = cr.conf => child'[Shared] = cr'.conf
         /\ \A p \in Objects : \A g : StillTrue(p, g) => StillTrue(p, g)'
         /\ \A p \in Objects : /\ child[p] = cr.conf => child'[p] = cr.conf
                               /\ Stands(p) => Stands(p)'
<1>1. \A p \in Objects : /\ child[p] = cr.conf => child'[p] = cr.conf
                         /\ Stands(p) => Stands(p)'
                         /\ child[p] \in {0, cr.conf} => child'[p] \in {0, cr.conf}
  BY DEF Rises, Stands
<1>2. \A p \in Objects : \A g : StillTrue(p, g) => StillTrue(p, g)'
  BY <1>1 DEF StillTrue
<1>3. \A r \in Bridges : Whole(r, cr.conf) => Whole(r, cr.conf)'
  BY <1>1, NamesAreObjects DEF Whole, Bridges
<1> QED
  BY <1>1, <1>2, <1>3, NamesAreObjects

\* What the update has shown so far, whatever renders next.
LEMMA UpdateGoesOn ==
  ASSUME Known, BeingProvisioned, UNCHANGED <<cr, instance>>, NEW n \in Bridges,
         n = replica, replica' = replica, NEW o, Rises(o),
         NoSurplus(cr.replicas) => NoSurplus(cr.replicas)',
         OnCourse, InUpdate
  PROVE  /\ NoSurplus(cr.replicas)' /\ child'[Shared] = cr'.conf
         /\ \A r \in 1..(replica' - 1) : Whole(r, cr.conf)'
         /\ pc # "update" =>
              /\ child'[SIP(n)] = cr'.conf
              /\ instance' # "absent" /\ StillTrue(Instance(n), instance)'
         /\ pc \in {"createService", "updateInstance"} => child'[Exporter(n)] # 0
<1>1. /\ NoSurplus(cr.replicas) /\ child[Shared] = cr.conf
      /\ \A r \in 1..(n - 1) : Whole(r, cr.conf)
      /\ pc # "update" => /\ child[SIP(n)] = cr.conf /\ instance # "absent"
                          /\ StillTrue(Instance(n), instance)
      /\ pc \in {"createService", "updateInstance"} => Stands(Exporter(n))
  <2>1. ScaledSoFar /\ UpdatedSoFar
    BY DEF OnCourse
  <2>2. NoSurplus(cr.replicas)
    BY <2>1 DEF ScaledSoFar
  <2>3. child[Shared] = cr.conf /\ \A r \in 1..(replica - 1) : Whole(r, cr.conf)
    BY <2>1 DEF UpdatedSoFar
  <2>4. pc # "update" => /\ child[SIP(replica)] = cr.conf /\ instance # "absent"
                          /\ StillTrue(Instance(replica), instance)
    BY <2>1 DEF UpdatedSoFar
  <2>5. ASSUME pc \in {"createService", "updateInstance"} PROVE Stands(Exporter(replica))
    BY <2>1, <2>5 DEF UpdatedSoFar
  <2> QED
    BY <2>2, <2>3, <2>4, <2>5
<1>2. \A r \in 1..(n - 1) : r \in Bridges
  <2>1. n \in Nat /\ n <= MaxReplicas /\ MaxReplicas \in Nat
    BY ReplicasAssumption DEF Bridges
  <2> QED
    BY <2>1 DEF Bridges
<1>3. \A r \in 1..(replica' - 1) : Whole(r, cr.conf)'
  <2>1. \A r \in 1..(n - 1) : Whole(r, cr.conf)'
    BY <1>1, <1>2, RisesWhole
  <2> QED
    BY <2>1
<1>4. SIP(n) \in Objects /\ Instance(n) \in Objects /\ Exporter(n) \in Objects
  BY NamesAreObjects DEF Bridges
<1>5. child'[Shared] = cr'.conf
  BY <1>1, RisesWhole
<1>6. pc # "update" => child'[SIP(n)] = cr'.conf
  BY <1>1, <1>4, RisesWhole
<1>7. pc # "update" => instance' # "absent"
  BY <1>1
<1>8. pc # "update" => StillTrue(Instance(n), instance)'
  <2>1. PICK g : g = instance
    OBVIOUS
  <2>2. pc # "update" => StillTrue(Instance(n), g)'
    BY <1>1, <1>4, <2>1, RisesWhole
  <2> QED
    BY <2>1, <2>2 DEF StillTrue
<1>9. pc \in {"createService", "updateInstance"} => child'[Exporter(n)] # 0
  BY <1>1, <1>4, RisesWhole DEF Stands
<1> QED
  BY <1>1, <1>3, <1>5, <1>6, <1>7, <1>8, <1>9

LEMMA GetServiceKeeps ==
  ASSUME Known, CachesFollow, Calm', BeingProvisioned, GetService
  PROVE  CachesFollow' /\ BeingProvisioned'
<1>1. /\ pc \in {"create", "getService"} /\ pc' = "createService"
      /\ UNCHANGED <<cr, watch, crCache, obj>> /\ UNCHANGED cr
      /\ UNCHANGED <<cr, instance>> /\ UNCHANGED <<cr, obj>>
      /\ UNCHANGED <<replica, loop>>
  BY DEF GetService, sameCR, crVars
<1>2. PICK n : n = replica
  OBVIOUS
<1>3. n <= obj.replicas /\ pc \in Renders \cup {"create"}
  BY <1>1, <1>2, KnownTypes DEF GetService, StageOK, Renders
<1>4. /\ n \in Bridges
      /\ \A o \in {Service(n), Exporter(n)} : o \in Objects /\ Kept(o)
  BY <1>2, <1>3, RenderFacts
<1>5. Put(Exporter(n), AfterCreate(Exporter(n))) /\ service' = Get(Service(n))
  BY <1>2, NoFaults, KnownTypes DEF GetService
<1>6. /\ CachesFollow' /\ NewsOfNow' /\ SurplusKnown' /\ Rises(Exporter(n))
      /\ child'[Exporter(n)] # 0
      /\ NoSurplus(cr.replicas) => NoSurplus(cr.replicas)'
  BY <1>1, <1>4, <1>5, Rendered, PutRises
<1>7. PICK g : g = service'
  OBVIOUS
<1>8. StillTrue(Service(n), g)' /\ (g # "absent" => child'[Service(n)] # 0)
  <2>1. StillTrue(Service(n), g) /\ (g # "absent" => Stands(Service(n)))
    BY <1>4, <1>5, <1>7, ReadingTrue
  <2> QED
    BY <1>1, <1>4, <1>6, <2>1, RisesWhole DEF Stands
<1>9. AllReachable'
  <2>1. ASSUME NEW r \in Bridges, r # n PROVE Reachable(r)'
    <3>1. Service(r) \in Objects /\ Exporter(r) \in Objects
          /\ Service(r) # Exporter(n) /\ Exporter(r) # Exporter(n)
      BY <2>1, NamesAreObjects DEF Bridges, Service, Exporter
    <3>2. child'[Service(r)] = child[Service(r)] /\ child'[Exporter(r)] = child[Exporter(r)]
      BY <1>6, <3>1 DEF Rises
    <3>3. Reachable(r)
      BY <1>1, <2>1 DEF BeingProvisioned, AllReachable
    <3> QED
      BY <3>2, <3>3 DEF Reachable, Stands
  <2> QED
    BY <1>1, <1>2, <2>1 DEF AllReachable
<1>10. AtWork'
  <2>1. /\ AtWork /\ Copy(obj)' /\ (Current(obj)' <=> Current(obj))
        /\ Current(obj) => OnCourse
    BY <1>1, WorkFrame
  <2>2. loop' \in {"create", "update"} /\ (loop' = "update" => InUpdate)
    <3>1. pc = "create" => loop = "create"
      BY KnownTypes DEF TypeInv, LoopsInRange
    <3>2. pc = "getService" => loop = "update" /\ InUpdate
      BY <2>1 DEF AtWork, InUpdate
    <3> QED
      BY <1>1, <3>1, <3>2
  <2>3. ASSUME Current(obj)' PROVE OnCourse'
    <3>1. CASE loop' # "update"
      BY <1>1, <3>1 DEF OnCourse, ScaledSoFar, UpdatedSoFar, InUpdate, Removes
    <3>2. CASE loop' = "update"
      <4>1. OnCourse /\ InUpdate /\ pc # "update"
        BY <1>1, <2>1, <2>2, <2>3, <3>2
      <4>2. /\ NoSurplus(cr.replicas)' /\ child'[Shared] = cr'.conf
            /\ \A r \in 1..(replica' - 1) : Whole(r, cr.conf)'
            /\ child'[SIP(n)] = cr'.conf
            /\ instance' # "absent" /\ StillTrue(Instance(n), instance)'
        BY <1>1, <1>2, <1>4, <1>6, <4>1, UpdateGoesOn
      <4>3. ScaledSoFar'
        BY <1>1, <4>2 DEF ScaledSoFar, Removes
      <4>4. StillTrue(Service(replica), service)' /\ Stands(Exporter(replica))'
        BY <1>1, <1>2, <1>6, <1>7, <1>8 DEF StillTrue, Stands, Service, Exporter
      <4>5. child'[SIP(replica')] = cr'.conf /\ StillTrue(Instance(replica), instance)'
        BY <1>1, <1>2, <4>2 DEF StillTrue, Stands, Instance
      <4>6. UpdatedSoFar'
        BY <1>1, <4>2, <4>4, <4>5 DEF UpdatedSoFar, SIP, Shared
      <4> QED
        BY <4>3, <4>6 DEF OnCourse
    <3> QED
      BY <3>1, <3>2
  <2>4. service' # "absent" => Stands(Service(replica))'
    BY <1>1, <1>2, <1>7, <1>8 DEF Stands, Service
  <2> QED
    BY <1>1, <2>1, <2>2, <2>3, <2>4 DEF AtWork, RemovedSoFar, Removes, Deletes
<1> QED
  BY <1>1, <1>6, <1>9, <1>10, ProvisioningFrame

LEMMA CreateServiceKeeps ==
  ASSUME Known, CachesFollow, Calm', BeingProvisioned, CreateService
  PROVE  CachesFollow' /\ BeingProvisioned'
<1>1. /\ pc = "createService"
      /\ pc' = IF loop = "create" THEN "createSIP" ELSE "updateInstance"
      /\ UNCHANGED <<cr, watch, crCache, obj>> /\ UNCHANGED cr
      /\ UNCHANGED <<cr, instance>> /\ UNCHANGED <<cr, obj>>
      /\ UNCHANGED <<replica, loop>>
  BY DEF CreateService, Goto, sameCR, crVars
<1>2. PICK n : n = replica
  OBVIOUS
<1>3. n <= obj.replicas /\ pc \in Renders
  BY <1>1, <1>2, KnownTypes DEF StageOK, Renders
<1>4. /\ n \in Bridges
      /\ \A o \in {Service(n), Exporter(n)} : o \in Objects /\ Kept(o)
  BY <1>2, <1>3, RenderFacts
<1>5. PICK c : /\ c = IF service = "absent" THEN AfterCreate(Service(n))
                                            ELSE AfterUpdate(Service(n), service)
               /\ Put(Service(n), c)
  BY <1>2, NoFaults, KnownTypes DEF CreateService
<1>6. /\ AtWork /\ obj.conf = cr.conf /\ (Current(obj)' <=> Current(obj)) /\ Copy(obj)'
      /\ Current(obj) => OnCourse
  BY <1>1, WorkFrame
<1>7. c \in {cr.conf, child[Service(n)]} /\ c # 0
  <2>1. service # "absent" => child[Service(n)] # 0
    BY <1>1, <1>2, <1>6 DEF AtWork, Stands
  <2>2. cr.conf # 0
    BY ConfIsSome
  <2> QED
    BY <1>1, <1>5, <1>6, <2>1, <2>2 DEF AfterCreate, AfterUpdate
<1>8. /\ CachesFollow' /\ NewsOfNow' /\ SurplusKnown' /\ Rises(Service(n))
      /\ child'[Service(n)] = c
      /\ NoSurplus(cr.replicas) => NoSurplus(cr.replicas)'
  BY <1>1, <1>4, <1>5, <1>7, PutRises
<1>9. AllReachable'
  <2>1. ASSUME NEW r \in Bridges, r # n PROVE Reachable(r)'
    <3>1. Service(r) \in Objects /\ Exporter(r) \in Objects
          /\ Service(r) # Service(n) /\ Exporter(r) # Service(n)
      BY <2>1, NamesAreObjects DEF Bridges, Service, Exporter
    <3>2. child'[Service(r)] = child[Service(r)] /\ child'[Exporter(r)] = child[Exporter(r)]
      BY <1>8, <3>1 DEF Rises
    <3>3. Reachable(r)
      BY <1>2, <2>1 DEF BeingProvisioned, AllReachable
    <3> QED
      BY <3>2, <3>3 DEF Reachable, Stands
  <2>2. Reachable(n)'
    BY <1>7, <1>8 DEF Reachable, Stands
  <2> QED
    BY <2>1, <2>2 DEF AllReachable
<1>10. AtWork'
  <2>1. CASE loop = "create"
    <3>1. pc' = "createSIP"
      BY <1>1, <2>1
    <3> QED
      BY <1>1, <3>1, GoesOn
  <2>2. CASE loop # "create"
    <3>1. loop = "update" /\ pc' = "updateInstance"
      BY <1>1, <1>6, <2>2 DEF AtWork
    <3>2. ASSUME Current(obj)' PROVE OnCourse'
      <4>1. OnCourse /\ InUpdate
        BY <1>1, <1>6, <3>1, <3>2 DEF InUpdate
      <4>2. /\ NoSurplus(cr.replicas)' /\ child'[Shared] = cr'.conf
            /\ \A r \in 1..(replica' - 1) : Whole(r, cr.conf)'
            /\ child'[SIP(n)] = cr'.conf
            /\ instance' # "absent" /\ StillTrue(Instance(n), instance)'
            /\ child'[Exporter(n)] # 0
        BY <1>1, <1>2, <1>4, <1>8, <4>1, UpdateGoesOn
      <4>3. ScaledSoFar'
        BY <3>1, <4>2 DEF ScaledSoFar, Removes
      <4>4. child'[Service(n)] = cr'.conf
        <5>1. StillTrue(Service(n), service)
          BY <1>1, <1>2, <4>1 DEF OnCourse, UpdatedSoFar
        <5>2. service \in Readings
          BY KnownTypes DEF TypeInv, TypeOK, WorkerTypeOK
        <5>3. CASE service = "absent"
          BY <1>1, <1>5, <1>6, <1>8, <5>1, <5>3 DEF StillTrue, AfterCreate
        <5>4. CASE service = "stale"
          BY <1>1, <1>5, <1>6, <1>8, <5>1, <5>4 DEF StillTrue, AfterUpdate
        <5>5. CASE service = "current"
          BY <1>1, <1>5, <1>6, <1>8, <5>5 DEF AfterUpdate
        <5> QED
          BY <5>2, <5>3, <5>4, <5>5 DEF Readings
      <4>5. child'[SIP(replica')] = cr'.conf /\ StillTrue(Instance(replica), instance)'
        BY <1>1, <1>2, <4>2 DEF StillTrue, Stands, Instance
      <4>6. Stands(Exporter(replica))' /\ child'[Service(replica')] = cr'.conf
        BY <1>1, <1>2, <4>2, <4>4 DEF Stands, Exporter
      <4>7. UpdatedSoFar'
        BY <3>1, <4>2, <4>5, <4>6 DEF UpdatedSoFar, SIP, Shared, Service, InUpdate
      <4> QED
        BY <4>3, <4>7 DEF OnCourse
    <3> QED
      BY <1>1, <1>6, <3>1, <3>2 DEF AtWork, RemovedSoFar, Removes, Deletes
  <2> QED
    BY <2>1, <2>2
<1> QED
  BY <1>1, <1>8, <1>9, <1>10, ProvisioningFrame

\* The next round of the update, or its end.
LEMMA NextUpdate ==
  ASSUME Known, BeingProvisioned, pc # "idle", UNCHANGED <<cr, obj>>,
         NEW n \in Nat, n > 0, UpdateFrom(n),
         Current(obj) => /\ NoSurplus(cr.replicas)' /\ child'[Shared] = cr'.conf
                         /\ \A r \in 1..(n - 1) : Whole(r, cr.conf)'
  PROVE  AtWork'
<1>1. /\ Copy(obj)' /\ (Current(obj)' <=> Current(obj))
      /\ Current(obj) => obj.replicas = cr.replicas
  BY WorkFrame
<1>2. CASE n <= obj.replicas
  <2>1. pc' = "update" /\ loop' = "update" /\ replica' = n
    BY <1>2 DEF UpdateFrom, Round
  <2>2. ASSUME Current(obj)' PROVE OnCourse'
    BY <1>1, <2>1, <2>2 DEF OnCourse, ScaledSoFar, UpdatedSoFar, InUpdate,
       Removes
  <2> QED
    BY <1>1, <2>1, <2>2 DEF AtWork, RemovedSoFar, Removes, Deletes
<1>3. CASE ~(n <= obj.replicas)
  <2>1. pc' = "updateStatus"
    BY <1>3 DEF UpdateFrom, Done, Round
  <2>2. ASSUME Current(obj)' PROVE OnCourse'
    <3>1. cr.replicas \in Nat /\ cr' = cr /\ cr.replicas < n
      BY <1>1, <1>3, <2>2, KnownTypes DEF Version
    <3>2. Provisioned(cr)'
      <4>1. \A r \in 1..cr.replicas : r \in 1..(n - 1)
        BY <3>1
      <4>2. \A r \in 1..cr'.replicas : Whole(r, cr.conf)'
        BY <1>1, <2>2, <3>1, <4>1
      <4> QED
        BY <1>1, <2>2, <4>2 DEF Provisioned, Shared
    <3> QED
      BY <1>1, <2>1, <2>2, <3>2 DEF OnCourse, ScaledSoFar, UpdatedSoFar,
         InUpdate, Removes
  <2> QED
    BY <1>1, <2>1, <2>2 DEF AtWork, RemovedSoFar, Removes, Deletes
<1> QED
  BY <1>2, <1>3

LEMMA UpdateConfigMapsKeeps ==
  ASSUME Known, CachesFollow, Calm', BeingProvisioned, UpdateConfigMaps
  PROVE  CachesFollow' /\ BeingProvisioned'
<1>1. /\ pc = "updateConfigMaps" /\ pc' \in {"update", "updateStatus"} /\ UpdateFrom(1)
      /\ UNCHANGED <<cr, watch, crCache, obj>> /\ UNCHANGED cr /\ UNCHANGED <<cr, obj>>
  BY DEF UpdateConfigMaps, UpdateFrom, Done, Round, sameCR, crVars
<1>2. Put(Shared, obj.conf)
  BY NoFaults, KnownTypes DEF UpdateConfigMaps
<1>3. /\ AtWork /\ obj.conf = cr.conf /\ (Current(obj) => OnCourse)
  BY <1>1, WorkFrame
<1>4. /\ CachesFollow' /\ NewsOfNow' /\ SurplusKnown' /\ Rises(Shared)
      /\ child'[Shared] = obj.conf
      /\ NoSurplus(cr.replicas) => NoSurplus(cr.replicas)'
  BY <1>1, <1>2, <1>3, SharedIsKept, PutRises
<1>5. AllReachable'
  BY <1>1, <1>4, SharedIsKept, StillReachable DEF BeingProvisioned
<1>6. AtWork'
  <2>1. Current(obj) => NoSurplus(cr.replicas)' /\ child'[Shared] = cr'.conf
    BY <1>1, <1>3, <1>4 DEF OnCourse, ScaledSoFar
  <2>2. \A r \in 1..(1 - 1) : FALSE
    OBVIOUS
  <2> QED
    BY <1>1, <2>1, <2>2, NextUpdate
<1> QED
  BY <1>1, <1>4, <1>5, <1>6, ProvisioningFrame

LEMMA UpdateSIPKeeps ==
  ASSUME Known, CachesFollow, Calm', BeingProvisioned, UpdateSIP
  PROVE  CachesFollow' /\ BeingProvisioned'
<1>1. /\ pc = "update" /\ UNCHANGED <<cr, watch, crCache>> /\ UNCHANGED cr
  BY DEF UpdateSIP, sameCR, crVars
<1>2. PICK n : n = replica
  OBVIOUS
<1>3. n <= obj.replicas /\ pc \in Renders
  BY <1>1, <1>2, KnownTypes DEF StageOK, Renders
<1>4. /\ n \in Bridges
      /\ \A o \in {SIP(n), Instance(n)} : o \in Objects /\ Kept(o)
  BY <1>2, <1>3, RenderFacts
<1>5. Put(SIP(n), obj.conf)
  BY <1>2, NoFaults, KnownTypes DEF UpdateSIP
<1>6. obj.conf = cr.conf
  BY <1>1 DEF BeingProvisioned, AtWork, Copy
<1>7. /\ CachesFollow' /\ NewsOfNow' /\ SurplusKnown' /\ Rises(SIP(n))
      /\ child'[SIP(n)] = cr.conf
      /\ NoSurplus(cr.replicas) => NoSurplus(cr.replicas)'
  BY <1>1, <1>4, <1>5, <1>6, PutRises
<1>8. AllReachable'
  <2>1. \A r : SIP(n) # Exporter(r)
    BY DEF SIP, Exporter
  <2> QED
    BY <1>1, <1>7, <2>1, StillReachable DEF BeingProvisioned
<1>9. CASE Get(Instance(n)) = "absent"
  <2>1. pc' = "idle" /\ queued'
    BY <1>2, <1>9 DEF UpdateSIP, Return, Release
  <2> QED
    BY <1>1, <1>7, <1>8, <2>1, ProvisioningFrame
<1>10. CASE Get(Instance(n)) # "absent"
  <2>1. /\ pc' = "getService" /\ instance' = Get(Instance(n))
        /\ UNCHANGED <<loop, replica>> /\ UNCHANGED <<cr, obj>>
    BY <1>1, <1>2, <1>10 DEF UpdateSIP
  <2>2. /\ AtWork /\ Copy(obj)' /\ (Current(obj)' <=> Current(obj))
        /\ Current(obj) => OnCourse
    BY <1>1, <2>1, WorkFrame
  <2>3. PICK g : g = instance'
    OBVIOUS
  <2>4. StillTrue(Instance(n), g)'
    <3>1. StillTrue(Instance(n), g)
      BY <1>4, <2>1, <2>3, ReadingTrue
    <3> QED
      BY <1>1, <1>4, <1>7, <3>1, RisesWhole
  <2>5. ASSUME Current(obj)' PROVE OnCourse'
    <3>1. /\ NoSurplus(cr.replicas)' /\ child'[Shared] = cr'.conf
          /\ \A r \in 1..(replica' - 1) : Whole(r, cr.conf)'
      <4>1. ScaledSoFar /\ UpdatedSoFar /\ InUpdate
        BY <1>1, <2>2, <2>5 DEF OnCourse, InUpdate
      <4>2. NoSurplus(cr.replicas)
        BY <4>1 DEF ScaledSoFar
      <4>3. child[Shared] = cr.conf /\ \A r \in 1..(n - 1) : Whole(r, cr.conf)
        BY <1>2, <4>1 DEF UpdatedSoFar
      <4>4. \A r \in 1..(n - 1) : r \in Bridges
        <5>1. n \in Nat /\ n <= MaxReplicas /\ MaxReplicas \in Nat
          BY <1>4, ReplicasAssumption DEF Bridges
        <5> QED
          BY <5>1 DEF Bridges
      <4>5. \A r \in 1..(n - 1) : Whole(r, cr.conf)'
        BY <1>1, <1>7, <4>3, <4>4, RisesWhole
      <4>6. child'[Shared] = cr'.conf
        BY <1>1, <1>7, <4>3, RisesWhole
      <4> QED
        BY <1>2, <1>7, <2>1, <4>2, <4>5, <4>6
    <3>2. ScaledSoFar'
      BY <2>1, <3>1 DEF ScaledSoFar, Removes
    <3>3. child'[SIP(replica')] = cr'.conf /\ StillTrue(Instance(replica), instance)'
      BY <1>1, <1>2, <1>7, <2>1, <2>3, <2>4 DEF StillTrue, Stands, Instance
    <3>4. UpdatedSoFar'
      BY <1>10, <2>1, <3>1, <3>3 DEF UpdatedSoFar, SIP, Shared
    <3> QED
      BY <3>2, <3>4 DEF OnCourse
  <2>6. AtWork'
    <3>1. loop = "update"
      BY <1>1, <2>2 DEF AtWork
    <3> QED
      BY <2>1, <2>2, <2>5, <3>1 DEF AtWork, RemovedSoFar, Removes, Deletes
  <2> QED
    BY <1>1, <1>7, <1>8, <2>1, <2>6, ProvisioningFrame
<1> QED
  BY <1>9, <1>10

LEMMA UpdateInstanceKeeps ==
  ASSUME Known, CachesFollow, Calm', BeingProvisioned, UpdateInstance
  PROVE  CachesFollow' /\ BeingProvisioned'
<1>1. PICK n : n = replica
  OBVIOUS
<1>2. /\ pc = "updateInstance" /\ pc' \in {"update", "updateStatus"} /\ UpdateFrom(n + 1)
      /\ UNCHANGED <<cr, watch, crCache, obj>> /\ UNCHANGED cr /\ UNCHANGED <<cr, obj>>
  BY <1>1 DEF UpdateInstance, UpdateFrom, Done, Round, sameCR, crVars
<1>3. n <= obj.replicas /\ pc \in Renders
  BY <1>1, <1>2, KnownTypes DEF StageOK, Renders
<1>4. n \in Bridges /\ Instance(n) \in Objects /\ Kept(Instance(n))
  BY <1>1, <1>3, RenderFacts
<1>5. n \in Nat /\ n <= MaxReplicas /\ MaxReplicas \in Nat /\ n > 0
  BY <1>4, ReplicasAssumption DEF Bridges
<1>6. PICK c : c = AfterUpdate(Instance(n), instance) /\ Put(Instance(n), c)
  BY <1>1, NoFaults, KnownTypes DEF UpdateInstance
<1>7. AtWork /\ obj.conf = cr.conf /\ (Current(obj) => OnCourse)
  BY <1>2, WorkFrame
<1>8. c \in {cr.conf, child[Instance(n)]}
  BY <1>6, <1>7 DEF AfterUpdate
<1>9. /\ CachesFollow' /\ NewsOfNow' /\ SurplusKnown' /\ Rises(Instance(n))
      /\ child'[Instance(n)] = c
      /\ NoSurplus(cr.replicas) => NoSurplus(cr.replicas)'
  BY <1>2, <1>4, <1>6, <1>8, PutRises
<1>10. AllReachable'
  <2>1. \A r : Instance(n) # Exporter(r)
    BY DEF Instance, Exporter
  <2> QED
    BY <1>2, <1>9, <2>1, StillReachable DEF BeingProvisioned
<1>11. ASSUME Current(obj)
       PROVE  /\ NoSurplus(cr.replicas)' /\ child'[Shared] = cr'.conf
              /\ \A r \in 1..n : Whole(r, cr.conf)'
  <2>1. ScaledSoFar /\ UpdatedSoFar /\ InUpdate
    BY <1>2, <1>7, <1>11 DEF OnCourse, InUpdate
  <2>2. NoSurplus(cr.replicas)
    BY <2>1 DEF ScaledSoFar
  <2>3. child[Shared] = cr.conf /\ \A r \in 1..(n - 1) : Whole(r, cr.conf)
    BY <1>1, <2>1 DEF UpdatedSoFar
  <2>4. \A r \in 1..(n - 1) : Whole(r, cr.conf)'
    <3>1. \A r \in 1..(n - 1) : r \in Bridges
      BY <1>5 DEF Bridges
    <3> QED
      BY <1>2, <1>9, <2>3, <3>1, RisesWhole
  <2>5. /\ child[SIP(n)] = cr.conf /\ child[Service(n)] = cr.conf
        /\ Stands(Exporter(n)) /\ instance # "absent" /\ StillTrue(Instance(n), instance)
    BY <1>1, <1>2, <2>1 DEF UpdatedSoFar
  <2>6. c = cr.conf
    <3>1. instance \in Readings
      BY KnownTypes DEF TypeInv, TypeOK, WorkerTypeOK
    <3>2. CASE instance = "stale"
      BY <1>6, <2>5, <3>2 DEF StillTrue, AfterUpdate
    <3>3. CASE instance = "current"
      BY <1>6, <1>7, <3>3 DEF AfterUpdate
    <3> QED
      BY <2>5, <3>1, <3>2, <3>3 DEF Readings
  <2>7. Whole(n, cr.conf)'
    <3>1. SIP(n) \in Objects /\ Service(n) \in Objects /\ Exporter(n) \in Objects
      BY <1>4, NamesAreObjects DEF Bridges
    <3>2. child'[SIP(n)] = cr.conf /\ child'[Service(n)] = cr.conf /\ child'[Exporter(n)] # 0
      BY <1>9, <2>5, <3>1 DEF Rises
    <3> QED
      BY <1>2, <1>9, <2>6, <3>2 DEF Whole, Stands
  <2>8. child'[Shared] = cr'.conf
    BY <1>2, <1>9, <2>3, RisesWhole
  <2>9. \A r \in 1..n : r = n \/ r \in 1..(n - 1)
    BY <1>5
  <2> QED
    BY <1>9, <2>2, <2>4, <2>7, <2>8, <2>9
<1>12. AtWork'
  <2>1. n + 1 \in Nat /\ n + 1 > 0 /\ 1..((n + 1) - 1) = 1..n
    BY <1>5
  <2> QED
    BY <1>2, <1>11, <2>1, NextUpdate
<1> QED
  BY <1>2, <1>9, <1>10, <1>12, ProvisioningFrame

LEMMA StartUpdateKeeps ==
  ASSUME Known, CachesFollow, Calm', BeingProvisioned, StartUpdate
  PROVE  CachesFollow' /\ BeingProvisioned'
<1>1. /\ pc = "create" /\ pc' \in {"updateConfigMaps", "deleteService"}
      /\ UNCHANGED childVars /\ UNCHANGED <<child, lag>>
      /\ UNCHANGED <<cr, watch, crCache, obj>> /\ UNCHANGED <<cr, obj>>
  BY DEF StartUpdate, ScaleDownFrom, Done, Round, sameCR, crVars, childVars
<1>2. CachesFollow' /\ NewsOfNow' /\ SurplusKnown'
  BY <1>1, SameCaches, SameNews, SameLag DEF BeingProvisioned
<1>3. AllReachable'
  BY <1>1 DEF BeingProvisioned, AllReachable, Reachable, Stands
<1>4. /\ AtWork /\ Copy(obj)' /\ Copy(obj) /\ (Current(obj)' <=> Current(obj))
      /\ Current(obj) => obj.replicas = cr.replicas /\ obj.status = cr.status
  BY <1>1, WorkFrame DEF AtWork
<1>5. obj.status \in Nat /\ obj.replicas \in Nat
  BY KnownTypes DEF Version
<1>6. ASSUME NEW r \in Bridges, Any(r)', Current(obj)
      PROVE  r \in Nat /\ (r <= 1 \/ r <= obj.replicas \/ r <= obj.status)
  <2>1. Any(r)
    BY <1>1, <1>6, SameChildren
  <2> QED
    BY <1>4, <1>6, <2>1 DEF BeingProvisioned, SurplusKnown, Bridges
<1>7. CASE obj.status > obj.replicas /\ ~ScaledDown(obj.status)
  <2>1. pc' = "deleteService" /\ loop' = "scaleDown" /\ replica' = obj.status
    BY <1>7 DEF StartUpdate, ScaleDownFrom, Round
  <2>2. obj.replicas = cr.replicas
    BY <1>4, <1>5, <1>7 DEF Copy, Unset
  <2>3. ASSUME Current(obj)' PROVE OnCourse'
    <3>1. \A r \in Bridges : Any(r)' => r <= replica'
      <4>1. obj.status >= 1
        BY <1>5, <1>7
      <4> QED
        BY <1>4, <1>5, <1>6, <1>7, <2>1, <2>3, <4>1
    <3> QED
      BY <2>1, <3>1 DEF OnCourse, ScaledSoFar, UpdatedSoFar, InUpdate
  <2>4. AtWork'
    BY <1>1, <1>4, <2>1, <2>2, <2>3 DEF AtWork, RemovedSoFar, Removes, Deletes
  <2> QED
    BY <1>1, <1>2, <1>3, <2>4, ProvisioningFrame
<1>8. CASE ~(obj.status > obj.replicas /\ ~ScaledDown(obj.status))
  <2>1. obj.status <= obj.replicas \/ obj.status = 1
    BY <1>5, <1>8 DEF StartUpdate, ScaleDownFrom, ScaledDown, Done, Round
  <2>2. pc' = "updateConfigMaps"
    BY <1>8 DEF StartUpdate, ScaleDownFrom, Done, Round
  <2>3. ASSUME Current(obj)' PROVE OnCourse'
    <3>1. NoSurplus(cr.replicas)'
      <4> SUFFICES ASSUME NEW r \in Bridges, r > cr.replicas, r > 1 PROVE ~Any(r)'
        BY <1>1 DEF NoSurplus
      <4> QED
        BY <1>4, <1>5, <1>6, <2>1, <2>3
    <3> QED
      BY <2>2, <3>1 DEF OnCourse, ScaledSoFar, UpdatedSoFar, InUpdate, Removes
  <2>4. AtWork'
    BY <1>4, <2>2, <2>3 DEF AtWork, RemovedSoFar, Removes, Deletes
  <2> QED
    BY <1>1, <1>2, <1>3, <2>2, <2>4, ProvisioningFrame
<1> QED
  BY <1>7, <1>8

LEMMA ScaleDownKeeps ==
  ASSUME Known, CachesFollow, Calm', BeingProvisioned, Worker, pc \in Removes
  PROVE  CachesFollow' /\ BeingProvisioned'
<1> DEFINE D == DeleteService \/ DeleteExporter \/ DeleteInstance
<1>1. D /\ AtWork /\ AllReachable /\ pc # "idle"
  BY WorkerAt DEF BeingProvisioned, Removes
<1>2. loop = "scaleDown" /\ obj.replicas = cr.replicas /\ RemovedSoFar
  BY <1>1 DEF AtWork
<1>3. UNCHANGED <<cr, watch, crCache>> /\ UNCHANGED <<cr, obj>>
  BY <1>1 DEF DeleteService, DeleteExporter, DeleteInstance, sameCR, crVars, Goto,
     ScaleDownFrom, DeleteFrom, Done, Round
<1>4. replica \in 1..MaxReplicas /\ replica > 1 /\ replica > cr.replicas
  BY <1>2, KnownTypes DEF Removes, PerReplica, TypeInv, LoopsInRange
<1>5. PICK n \in Bridges : n = replica
  BY <1>4 DEF Bridges
<1>6. n \in Nat /\ n > 1 /\ n > cr.replicas /\ cr.replicas \in Nat
  BY <1>4, <1>5, KnownTypes DEF Version
<1>7. \A o \in Parts(n) : o \in Objects /\ ~Kept(o)
  <2>1. \A o \in Parts(n) : o \in Objects /\ o \notin ConfigMaps /\ o[2] = n
    BY PartsAreObjects
  <2>2. ~(n <= cr.replicas \/ n = 1)
    BY <1>6
  <2> QED
    BY <2>1, <2>2 DEF Kept
<1>8. \A o \in Parts(n) : Pending(o) => ~Stands(o)
  BY <1>7 DEF BeingProvisioned, NewsOfNow
<1>9. /\ CachesFollow'
      /\ \A p \in Objects \ Parts(n) : child'[p] = child[p] /\ (Pending(p)' <=> Pending(p))
      /\ \A p \in Parts(n) : Pending(p)' => ~Stands(p)'
      /\ \A r \in Bridges : Any(r)' => Any(r)
      /\ pc = "deleteInstance" => DeleteInstance /\ ~Any(n)'
      /\ \A r \in Bridges : r # n => Reachable(r)'
      /\ pc # "deleteInstance" => /\ AllReachable' /\ RemovedSoFar'
                                  /\ pc' \in {"deleteExporter", "deleteInstance"}
                                  /\ UNCHANGED <<loop, obj, replica>>
  BY <1>1, <1>2, <1>5, <1>8, RemovalStep
<1>10. SurplusKnown'
  BY <1>3, <1>9 DEF BeingProvisioned, SurplusKnown
<1>11. NewsOfNow'
  <2> SUFFICES ASSUME NEW p \in Objects, Pending(p)'
               PROVE  IF Stands(p)' THEN Kept(p)' /\ child'[p] = cr'.conf ELSE ~Kept(p)'
    BY DEF NewsOfNow
  <2>1. Kept(p)' <=> Kept(p)
    BY <1>3 DEF Kept
  <2>2. CASE p \in Parts(n)
    BY <1>7, <1>9, <2>1, <2>2
  <2>3. CASE p \notin Parts(n)
    BY <1>3, <1>9, <2>1, <2>3 DEF BeingProvisioned, NewsOfNow, Stands
  <2> QED
    BY <2>2, <2>3
<1>12. /\ Copy(obj)' /\ (Current(obj)' <=> Current(obj))
       /\ Current(obj) => \A r \in Bridges : Any(r) => r <= n
  <2>1. Current(obj) => ScaledSoFar
    BY <1>1 DEF AtWork, OnCourse
  <2> QED
    BY <1>1, <1>3, <1>5, <2>1, WorkFrame DEF ScaledSoFar
<1>13. CASE pc # "deleteInstance"
  <2>1. Current(obj)' => OnCourse'
    <3>1. Current(obj)' => \A r \in Bridges : Any(r)' => r <= replica'
      BY <1>5, <1>9, <1>12, <1>13
    <3> QED
      BY <1>9, <1>13, <3>1 DEF OnCourse, ScaledSoFar, UpdatedSoFar, InUpdate
  <2>2. AtWork'
    BY <1>2, <1>3, <1>9, <1>12, <1>13, <2>1 DEF AtWork, Removes, Deletes
  <2> QED
    BY <1>3, <1>9, <1>10, <1>11, <1>13, <2>2, ProvisioningFrame
<1>14. CASE pc = "deleteInstance"
  <2>1. ScaleDownFrom(n - 1)
    BY <1>2, <1>5, <1>9, <1>14 DEF DeleteInstance
  <2>2. AllReachable'
    <3>1. Reachable(n)'
      BY <1>9, <1>14 DEF Reachable, Any
    <3> QED
      BY <1>9, <3>1 DEF AllReachable
  <2>3. ASSUME Current(obj), NEW r \in Bridges, Any(r)' PROVE r \in Nat /\ r <= n - 1
    <3>1. r # n /\ r <= n
      BY <1>9, <1>12, <1>14, <2>3
    <3> QED
      BY <1>6, <3>1 DEF Bridges
  <2>4. CASE ScaledDown(n - 1)
    <3>1. pc' = "updateConfigMaps"
      BY <2>1, <2>4 DEF ScaleDownFrom, Done, Round
    <3>2. n - 1 = cr.replicas \/ n - 1 = 1
      BY <1>2, <2>4 DEF ScaledDown
    <3>3. Current(obj)' => NoSurplus(cr.replicas)'
      <4> SUFFICES ASSUME Current(obj), NEW r \in Bridges, r > cr.replicas, r > 1
                   PROVE  ~Any(r)'
        BY <1>3, <1>12 DEF NoSurplus
      <4> QED
        BY <1>6, <2>3, <3>2
    <3>4. Current(obj)' => OnCourse'
      BY <3>1, <3>3 DEF OnCourse, ScaledSoFar, UpdatedSoFar, InUpdate, Removes
    <3>5. AtWork'
      BY <1>12, <3>1, <3>4 DEF AtWork, RemovedSoFar, Removes, Deletes
    <3> QED
      BY <1>3, <1>9, <1>10, <1>11, <2>2, <3>1, <3>5, ProvisioningFrame
  <2>5. CASE ~ScaledDown(n - 1)
    <3>1. pc' = "deleteService" /\ loop' = "scaleDown" /\ replica' = n - 1
      BY <2>1, <2>5 DEF ScaleDownFrom, Round
    <3>2. Current(obj)' => OnCourse'
      BY <1>12, <2>3, <3>1 DEF OnCourse, ScaledSoFar, UpdatedSoFar, InUpdate, Removes
    <3>3. AtWork'
      BY <1>2, <1>3, <1>12, <3>1, <3>2 DEF AtWork, RemovedSoFar, Removes, Deletes
    <3> QED
      BY <1>3, <1>9, <1>10, <1>11, <2>2, <3>1, <3>3, ProvisioningFrame
  <2> QED
    BY <2>4, <2>5
<1> QED
  BY <1>13, <1>14

\* The worker takes the resource up, and puts the finalizer on the copy it holds.
LEMMA TakeUpKeeps ==
  ASSUME Known, CachesFollow, Calm', BeingProvisioned, Worker, pc \in {"idle", "addFinalizer"}
  PROVE  CachesFollow' /\ BeingProvisioned'
<1>1. /\ UNCHANGED <<cr, watch, crCache>> /\ UNCHANGED childVars /\ UNCHANGED <<child, lag>>
      /\ Copy(obj)' /\ (pc' = "addFinalizer" => ~Current(obj)')
      /\ pc' \in {"addFinalizer", "createConfigMaps"}
  <2>1. CASE pc = "idle"
    <3>1. Kin(crCache)
      BY DEF BeingProvisioned, Told
    <3>2. /\ obj' = crCache /\ UNCHANGED <<cr, watch, crCache>>
          /\ UNCHANGED childVars /\ UNCHANGED <<child, lag>>
          /\ pc' = IF crCache.fin THEN "createConfigMaps" ELSE "addFinalizer"
      BY <2>1, <3>1, TakesUp DEF Kin
    <3> QED
      BY <3>1, <3>2 DEF Kin, Copy, Unset, Current
  <2>2. CASE pc = "addFinalizer"
    <3>1. AddFinalizerCall /\ Copy(obj) /\ ~Current(obj) /\ ~Fault
      BY <2>2, WorkerAt, NoFaults, KnownTypes DEF BeingProvisioned, AtWork
    <3>2. /\ obj' = [obj EXCEPT !.fin = TRUE] /\ UNCHANGED <<cr, watch, crCache>>
          /\ UNCHANGED childVars /\ pc' = "createConfigMaps"
      BY <3>1 DEF AddFinalizerCall, AddFinalizer, childVars
    <3>3. obj' \in Version /\ obj'.replicas = obj.replicas /\ obj'.status = obj.status
          /\ obj'.conf = obj.conf /\ obj'.del = obj.del
      BY <3>2, KnownTypes DEF Version
    <3> QED
      BY <3>1, <3>2, <3>3 DEF Copy, Unset, childVars
  <2> QED
    BY <2>1, <2>2
<1>2. CachesFollow' /\ NewsOfNow' /\ SurplusKnown'
  BY <1>1, SameCaches, SameNews, SameLag DEF BeingProvisioned
<1>3. AllReachable'
  BY <1>1 DEF BeingProvisioned, AllReachable, Reachable, Stands
<1>4. AtWork'
  BY <1>1 DEF AtWork, RemovedSoFar, OnCourse, ScaledSoFar, UpdatedSoFar, InUpdate,
     Removes, Deletes
<1> QED
  BY <1>1, <1>2, <1>3, <1>4, ProvisioningFrame

\* The status is written over a version everyone has heard of, or will.
LEMMA StatusTold ==
  ASSUME Known, BeingProvisioned, UNCHANGED crCache, NEW n \in 0..MaxReplicas,
         Store([cr EXCEPT !.status = n])
  PROVE  /\ Told' /\ Live' /\ cr'.status = n
         /\ cr'.fin /\ cr'.conf = cr.conf /\ cr'.replicas = cr.replicas
<1> DEFINE w == [cr EXCEPT !.status = n]
<1>1. /\ w \in Version /\ w.status = n /\ w.fin = cr.fin /\ w.conf = cr.conf
      /\ w.replicas = cr.replicas /\ w.del = cr.del /\ Store(w)
  BY KnownTypes DEF Version
<1> HIDE DEF w
<1>2. /\ Exists(cr') /\ cr'.status = n /\ cr'.fin /\ cr'.conf = cr.conf
      /\ cr'.replicas = cr.replicas /\ ~cr'.del /\ cr'.rv = rv + 1
      /\ watch' = Append(watch, cr')
  BY <1>1, StoredVersion DEF BeingProvisioned, Live
<1>3. Kin(cr)'
  BY <1>2 DEF Kin
<1>4. \A v \in Version : Kin(v) /\ v.rv <= rv => Kin(v)'
  <2> SUFFICES ASSUME NEW v \in Version, Kin(v), v.rv <= rv PROVE Kin(v)'
    OBVIOUS
  <2>1. v.rv # rv + 1
    <3>1. v.rv \in Nat /\ rv \in Nat
      BY KnownTypes DEF Version
    <3> QED
      BY <3>1
  <2> QED
    BY <1>2, <2>1 DEF Kin, Exists, Unset
<1>5. Kin(crCache)'
  <2>1. Kin(crCache) /\ crCache \in Version /\ crCache.rv <= rv
    BY KnownTypes, RvsHandedOut DEF BeingProvisioned, Told
  <2> QED
    BY <1>2, <1>4, <2>1 DEF Kin, Exists, Unset
<1> DEFINE m == Len(watch)
<1>6. watch \in Seq(Version) /\ m \in Nat /\ DOMAIN watch = 1..m
  BY KnownTypes
<1>7. /\ DOMAIN watch' = 1..(m + 1) /\ Len(watch') = m + 1
      /\ watch'[m + 1] = cr' /\ \A k \in 1..m : watch'[k] = watch[k]
  BY <1>2, <1>6
<1>8. \A k \in 1..m : watch[k] \in Version /\ Kin(watch[k]) /\ watch[k].rv <= rv
  <2> SUFFICES ASSUME NEW k \in 1..m
               PROVE  watch[k] \in Version /\ Kin(watch[k]) /\ watch[k].rv <= rv
    OBVIOUS
  <2>1. watch[k] \in Versions
    BY <1>6 DEF Versions, Announced
  <2> QED
    BY <1>6, <2>1 DEF BeingProvisioned, Told, Known, OrderInv, VersionsInv, VersionsAgree,
       Fits
<1>9. \A k \in DOMAIN watch' : Kin(watch[k])'
  <2> SUFFICES ASSUME NEW k \in DOMAIN watch' PROVE Kin(watch[k])'
    OBVIOUS
  <2>1. k = m + 1 \/ k \in 1..m
    BY <1>6, <1>7
  <2>2. CASE k = m + 1
    BY <1>3, <1>7, <2>2 DEF Kin, Exists, Unset
  <2>3. CASE k \in 1..m
    <3>1. watch'[k] = watch[k] /\ watch[k] \in Version /\ Kin(watch[k]) /\ watch[k].rv <= rv
      BY <1>7, <1>8, <2>3
    <3>2. PICK v : v = watch[k]
      OBVIOUS
    <3>3. Kin(v)'
      BY <1>4, <3>1, <3>2
    <3> QED
      BY <3>1, <3>2, <3>3 DEF Kin, Exists, Unset
  <2> QED
    BY <2>1, <2>2, <2>3
<1>10. watch' # <<>>
  BY <1>6, <1>7
<1>11. Told'
  BY <1>5, <1>7, <1>9, <1>10 DEF Told
<1> QED
  BY <1>2, <1>11 DEF Live

LEMMA UpdateStatusKeeps ==
  ASSUME Known, CachesFollow, Calm', BeingProvisioned, UpdateStatus
  PROVE  CachesFollow' /\ BeingProvisioned'
<1>1. /\ pc = "updateStatus" /\ pc' = "idle" /\ UNCHANGED crCache
      /\ UNCHANGED childVars /\ UNCHANGED <<child, lag>>
      /\ AtWork /\ ~Fault
  BY NoFaults, KnownTypes DEF UpdateStatus, Return, Release, childVars, BeingProvisioned
<1>2. AllReachable'
  BY <1>1 DEF BeingProvisioned, AllReachable, Reachable, Stands
<1>3. CASE ~Current(obj)
  <2>1. UNCHANGED <<cr, watch, crCache>> /\ queued'
    BY <1>1, <1>3 DEF UpdateStatus, WriteStatus, Return
  <2>2. CachesFollow' /\ NewsOfNow' /\ SurplusKnown'
    BY <1>1, <2>1, SameCaches, SameNews, SameLag DEF BeingProvisioned
  <2> QED
    BY <1>1, <1>2, <2>1, <2>2, ProvisioningFrame
<1>4. CASE Current(obj)
  <2>1. PICK n \in 0..MaxReplicas : n = cr.replicas
    BY KnownTypes DEF Version
  <2>2. obj.replicas = n /\ Provisioned(cr) /\ NoSurplus(n)
    <3>1. obj.replicas = cr.replicas /\ OnCourse
      <4>1. obj \in Versions
        BY DEF Versions
      <4>2. obj.replicas = cr.replicas
        BY <1>4, <4>1 DEF Known, OrderInv, VersionsInv, VersionsAgree, Fits, Agrees, Current
      <4> QED
        BY <1>1, <1>4, <4>2 DEF AtWork
    <3> QED
      BY <1>1, <2>1, <3>1 DEF OnCourse, ScaledSoFar, UpdatedSoFar
  <2>3. \/ cr.status = n /\ UNCHANGED <<cr, watch>>
        \/ Store([cr EXCEPT !.status = n])
    BY <1>1, <1>4, <2>2 DEF UpdateStatus, WriteStatus
  <2>4. /\ Told' /\ Live' /\ cr'.status = n
        /\ cr'.fin /\ cr'.conf = cr.conf /\ cr'.replicas = cr.replicas
    <3>1. CASE cr.status = n /\ UNCHANGED <<cr, watch>>
      BY <1>1, <3>1, SameNews DEF BeingProvisioned, Live, Exists
    <3>2. CASE Store([cr EXCEPT !.status = n])
      BY <1>1, <3>2, StatusTold
    <3> QED
      BY <2>3, <3>1, <3>2
  <2>5. Served'
    <3>1. Provisioned(cr)'
      BY <1>1, <2>2, <2>4 DEF Provisioned, Whole, Stands
    <3>2. NoSurplus(cr.replicas)'
      BY <1>1, <2>1, <2>2, <2>4 DEF NoSurplus, Any, Stands
    <3> QED
      BY <2>1, <2>4, <3>1, <3>2 DEF Served
  <2>6. SurplusKnown'
    <3> SUFFICES ASSUME NEW r \in Bridges, Any(r) PROVE r <= 1 \/ r <= n
      BY <1>1, <2>1, <2>4, SameChildren DEF SurplusKnown
    <3>1. ~(r > n /\ r > 1) /\ r \in Nat
      BY <2>2 DEF NoSurplus, Bridges
    <3> QED
      BY <3>1
  <2>7. NewsOfNow'
    BY <1>1, <2>4, SameLag DEF BeingProvisioned, NewsOfNow, Kept, Stands
  <2>8. CachesFollow'
    BY <1>1, SameCaches
  <2>9. cr'.conf > 0
    BY <2>4 DEF BeingProvisioned
  <2> QED
    BY <1>1, <1>2, <2>4, <2>5, <2>6, <2>7, <2>8, <2>9 DEF BeingProvisioned
<1> QED
  BY <1>3, <1>4

LEMMA ProvisioningSteps ==
  ASSUME Known, CachesFollow, Calm', BeingProvisioned, Worker
  PROVE  CachesFollow' /\ BeingProvisioned'
<1>1. pc \notin Deletes
  BY DEF BeingProvisioned, AtWork, Deletes
<1>2. CASE pc \in {"idle", "addFinalizer"} \cup Removes
  BY <1>2, TakeUpKeeps, ScaleDownKeeps
<1>3. CASE pc \notin {"idle", "addFinalizer"} \cup Removes
  <2>1. ~(\/ ReconcileNotFound \/ Reconcile \/ AddFinalizerCall
          \/ RemoveFinalizerCall \/ StartDelete
          \/ DeleteService \/ DeleteExporter \/ DeleteInstance
          \/ ListConfigMaps \/ DeleteConfigMap \/ FinishDelete)
    BY <1>1, <1>3 DEF ReconcileNotFound, Reconcile, Take, AddFinalizerCall,
       RemoveFinalizerCall, StartDelete, DeleteService, DeleteExporter, DeleteInstance,
       ListConfigMaps, DeleteConfigMap, FinishDelete, Removes, Deletes
  <2>2. \/ CreateConfigMaps \/ SkipExisting \/ GetService \/ CreateService
        \/ CreateSIP \/ CreateInstance
        \/ StartUpdate \/ UpdateConfigMaps \/ UpdateSIP \/ UpdateInstance \/ UpdateStatus
    BY <2>1 DEF Worker
  <2> QED
    BY <2>2, CreateConfigMapsKeeps, SkipExistingKeeps, GetServiceKeeps, CreateServiceKeeps,
       CreateSIPKeeps, StartUpdateKeeps, UpdateConfigMapsKeeps, UpdateSIPKeeps,
       UpdateInstanceKeeps, UpdateStatusKeeps
<1> QED
  BY <1>2, <1>3

-----------------------------------------------------------------------------
(* All steps together. *)

LEMMA WorkerSettles ==
  ASSUME Known, Calm', CachesFollow, Ages, Worker
  PROVE  CachesFollow' /\ Ages'
<1>1. CASE WriteAnnounced \/ WriteOverheard \/ Doomed \/ Unfinalized
  BY <1>1, WriteAnnouncedSteps, WriteOverheardSteps, DoomedSteps, UnfinalizedSteps,
     SameCaches DEF Ages
<1>2. CASE CreationAnnounced
  BY <1>2, NoWorkerYet
<1>3. CASE BeingProvisioned
  BY <1>3, ProvisioningSteps DEF Ages
<1>4. CASE Gone
  BY <1>4, GoneSteps DEF Ages
<1> QED
  BY <1>1, <1>2, <1>3, <1>4 DEF Ages

LEMMA InitSettled == Init => SettledInv
<1> SUFFICES ASSUME Init PROVE CachesFollow /\ Gone
  BY DEF SettledInv, Ages
<1>1. /\ \A o \in Objects : child[o] = 0
      /\ \A i \in Informers : lag[i] = <<>>
      /\ childCache = {} /\ pc = "idle" /\ watch = <<>>
      /\ ~Exists(cr) /\ ~Exists(crCache)
  BY DEF Init, CRInit, Exists, NoObject
<1>2. NoLag /\ NothingStands
  BY <1>1 DEF NoLag, NothingStands, Stands
<1>3. \A o \in Objects : ~Pending(o) /\ ~Stands(o)
  BY <1>2, NothingPending DEF NothingStands
<1>4. \A i \in Informers : DOMAIN lag[i] = {}
  BY <1>1
<1>5. CachesFollow
  BY <1>1, <1>3, <1>4, InformerOfType DEF CachesFollow, Routed
<1>6. AllReachable
  BY <1>2, NothingAtAll DEF AllReachable
<1> QED
  BY <1>1, <1>2, <1>3, <1>5, <1>6 DEF Gone

LEMMA StepSettled ==
  ASSUME Patient, Known, SettledInv, [Next]_vars
  PROVE  SettledInv'
<1> SUFFICES ASSUME Calm' PROVE CachesFollow' /\ Ages'
  BY DEF SettledInv
<1>1. faults \in Nat /\ crashes \in Nat /\ touches \in Nat /\ TypeInv
  BY FaultBoundsAssumption, KnownTypes DEF TypeInv, TypeOK, FaultTypeOK
<1>2. CASE Worker
  <2>1. UNCHANGED <<crashes, touches>> /\ (faults' = faults \/ faults' = faults + 1)
    BY <1>2 DEF Worker, ReconcileNotFound, Reconcile, AddFinalizerCall,
       CreateConfigMaps, SkipExisting, GetService, CreateService, CreateSIP,
       CreateInstance, StartUpdate, UpdateConfigMaps, UpdateSIP, UpdateInstance,
       UpdateStatus, RemoveFinalizerCall, StartDelete, DeleteService, DeleteExporter,
       DeleteInstance, ListConfigMaps, DeleteConfigMap, FinishDelete, Take, Try, Fault,
       DeleteCached, sameFaults, faultVars
  <2>2. Calm
    BY <1>1, <2>1 DEF Calm
  <2> QED
    BY <1>1, <1>2, <2>2, WorkerSettles DEF SettledInv
<1>3. CASE ReceiveVersion \/ ReceiveList
  <2>1. Calm /\ UNCHANGED childVars
    BY <1>3 DEF ReceiveVersion, ReceiveList, faultVars, Calm
  <2> QED
    BY <1>3, <2>1, DeliveryAges, SameCaches DEF SettledInv
<1>4. CASE PeriodicResync
  <2>1. /\ Calm /\ UNCHANGED childVars /\ UNCHANGED workerVars
        /\ UNCHANGED <<cr, watch, crCache, child>> /\ UNCHANGED lag
        /\ Exists(crCache) /\ queued'
    BY <1>4 DEF PeriodicResync, Resync, faultVars, childVars, Calm
  <2> QED
    BY <2>1, SameAges, SameCaches DEF SettledInv
<1>5. ASSUME NEW i \in Informers, ReceiveChild(i) PROVE CachesFollow' /\ Ages'
  <2>1. /\ Calm /\ UNCHANGED workerVars /\ UNCHANGED queued /\ ~NoLag
        /\ UNCHANGED <<cr, watch, crCache, child>>
    BY <1>5 DEF ReceiveChild, faultVars, crVars, Calm, NoLag
  <2>2. CachesFollow' /\ \A o \in Objects : Pending(o)' => Pending(o)
    BY <1>1, <1>5, <2>1, CacheSees DEF SettledInv
  <2> QED
    BY <2>1, <2>2, SameAges DEF SettledInv
<1>6. ASSUME NEW o \in Objects, Touch(o) PROVE FALSE
  BY <1>1, <1>6, NoFaults DEF Touch
<1>7. CASE Crash
  BY <1>1, <1>7, NoFaults DEF Crash
<1>8. CASE UserWrite
  <2>1. Calm /\ UNCHANGED childVars
    BY <1>8 DEF UserWrite, faultVars, Calm
  <2> QED
    BY <1>8, <2>1, UserAges, SameCaches DEF SettledInv
<1>9. CASE UNCHANGED vars
  <2>1. /\ Calm /\ UNCHANGED childVars /\ UNCHANGED workerVars /\ UNCHANGED queued
        /\ UNCHANGED <<cr, watch, crCache, child>> /\ UNCHANGED lag
    BY <1>9 DEF vars, faultVars, crVars, childVars, Calm
  <2> QED
    BY <2>1, SameAges, SameCaches DEF SettledInv
<1> QED
  BY <1>2, <1>3, <1>4, <1>5, <1>6, <1>7, <1>8, <1>9 DEF Next

LEMMA PatientSettles ==
  ASSUME Patient
  PROVE  Spec => [](Known /\ SettledInv)
<1>1. Init => Known /\ SettledInv
  BY InitOrder, InitSettled DEF Known, Init, StageOK, Renders, Removes, Deletes, Prepares
<1>2. Known /\ SettledInv /\ [Next]_vars => (Known /\ SettledInv)'
  BY StepOrder, StepStage, StepSettled DEF Known
<1> QED
  BY <1>1, <1>2, PTL DEF Spec

\* With users who wait, and until a call fails, another controller writes a
\* child or the manager restarts, every bridge of the spec stands whole when all
\* is at rest, rendered from the present configuration, and none beyond it but
\* the first: caches that lag, refused updates, the status write that retries
\* itself and the updates the event filter drops cost nothing (Reconcile, Create,
\* Update, updateReplicaCount, isSpecUpdated).
THEOREM BridgesSettleProvisioned ==
  ASSUME Patient
  PROVE  Spec => [](Calm => SettledMeansProvisioned)
<1>1. Known /\ SettledInv => (Calm => SettledMeansProvisioned)
  <2> SUFFICES ASSUME Known, SettledInv, Calm, Settled, Live PROVE SettledMeansProvisioned
    BY DEF SettledMeansProvisioned
  <2>1. Provisioned(cr) /\ NoSurplus(cr.replicas)
    BY SettledAges DEF SettledInv, Live, Served
  <2> QED
    BY <2>1 DEF SettledMeansProvisioned, Provisioned, NoSurplus, Whole, Any
<1> QED
  BY <1>1, PatientSettles, PTL

\* Under the same conditions the deletion of a resource leaves no child behind,
\* although the caches it is driven by lag, and the finalizer goes first (Delete,
\* deleteService, deleteCMs).
THEOREM BridgesSettleGone ==
  ASSUME Patient
  PROVE  Spec => [](Calm => SettledMeansGone)
<1>1. Known /\ SettledInv => (Calm => SettledMeansGone)
  BY SettledAges DEF SettledInv, SettledMeansGone, NothingStands, Live
<1> QED
  BY <1>1, PatientSettles, PTL

-----------------------------------------------------------------------------
(* The length of a pass. *)

\* A pass is a run of Reconcile.  What is left of it is counted from its end:
\* the rounds to come, as if there were MaxReplicas bridges, and the calls of
\* the present one.  p: the next call, l and r: the loop and its counter, n: the
\* config maps still listed.
Rounds(r) == MaxReplicas - r
UpdatePass == 4 * MaxReplicas + 1
ScaleDownPass == UpdatePass + 1 + 3 * MaxReplicas
DeletePass == MaxReplicas + 3

CallsAt(p, l, r, n) ==
  CASE p = "idle" -> 0
    [] p = "addFinalizer" -> ScaleDownPass + 4 * MaxReplicas + 3
    [] p = "createConfigMaps" -> ScaleDownPass + 4 * MaxReplicas + 2
    [] p = "create" -> ScaleDownPass + 4 * Rounds(r) + 5
    [] p = "createService" /\ l = "create" -> ScaleDownPass + 4 * Rounds(r) + 4
    [] p = "createSIP" -> ScaleDownPass + 4 * Rounds(r) + 3
    [] p = "createInstance" -> ScaleDownPass + 4 * Rounds(r) + 2
    [] p = "deleteService" /\ l = "scaleDown" -> UpdatePass + 3 * r + 1
    [] p = "deleteExporter" /\ l = "scaleDown" -> UpdatePass + 3 * r
    [] p = "deleteInstance" /\ l = "scaleDown" -> UpdatePass + 3 * r - 1
    [] p = "updateConfigMaps" -> UpdatePass + 1
    [] p = "update" -> 4 * Rounds(r) + 5
    [] p = "getService" -> 4 * Rounds(r) + 4
    [] p = "createService" /\ l # "create" -> 4 * Rounds(r) + 3
    [] p = "updateInstance" -> 4 * Rounds(r) + 2
    [] p = "updateStatus" -> 1
    [] p = "removeFinalizer" -> DeletePass + 3 * MaxReplicas + 2
    [] p = "delete" -> DeletePass + 3 * MaxReplicas + 1
    [] p = "deleteService" /\ l # "scaleDown" -> DeletePass + 3 * Rounds(r) + 3
    [] p = "deleteExporter" /\ l # "scaleDown" -> DeletePass + 3 * Rounds(r) + 2
    [] p = "deleteInstance" /\ l # "scaleDown" -> DeletePass + 3 * Rounds(r) + 1
    [] p = "listCMs" -> DeletePass
    [] p = "deleteCMs" -> n + 1
CallsLeft == CallsAt(pc, loop, replica, Cardinality(listed))
LongestPass == 11 * MaxReplicas + 5

\* The rounds of Update know that they are.
UpdateRounds == pc \in {"update", "getService"} => loop = "update"

LEMMA CallsOfCreate == \A l, r, n :
  /\ CallsAt("idle", l, r, n) = 0
  /\ CallsAt("addFinalizer", l, r, n) = ScaleDownPass + 4 * MaxReplicas + 3
  /\ CallsAt("createConfigMaps", l, r, n) = ScaleDownPass + 4 * MaxReplicas + 2
  /\ CallsAt("create", l, r, n) = ScaleDownPass + 4 * Rounds(r) + 5
  /\ CallsAt("createService", "create", r, n) = ScaleDownPass + 4 * Rounds(r) + 4
  /\ CallsAt("createSIP", l, r, n) = ScaleDownPass + 4 * Rounds(r) + 3
  /\ CallsAt("createInstance", l, r, n) = ScaleDownPass + 4 * Rounds(r) + 2
  BY DEF CallsAt

LEMMA CallsOfUpdate == \A l, r, n :
  /\ CallsAt("deleteService", "scaleDown", r, n) = UpdatePass + 3 * r + 1
  /\ CallsAt("deleteExporter", "scaleDown", r, n) = UpdatePass + 3 * r
  /\ CallsAt("deleteInstance", "scaleDown", r, n) = UpdatePass + 3 * r - 1
  /\ CallsAt("updateConfigMaps", l, r, n) = UpdatePass + 1
  /\ CallsAt("update", l, r, n) = 4 * Rounds(r) + 5
  /\ CallsAt("getService", l, r, n) = 4 * Rounds(r) + 4
  /\ l # "create" => CallsAt("createService", l, r, n) = 4 * Rounds(r) + 3
  /\ CallsAt("updateInstance", l, r, n) = 4 * Rounds(r) + 2
  /\ CallsAt("updateStatus", l, r, n) = 1
  BY DEF CallsAt

LEMMA CallsOfDelete == \A l, r, n :
  /\ CallsAt("removeFinalizer", l, r, n) = DeletePass + 3 * MaxReplicas + 2
  /\ CallsAt("delete", l, r, n) = DeletePass + 3 * MaxReplicas + 1
  /\ l # "scaleDown" =>
       /\ CallsAt("deleteService", l, r, n) = DeletePass + 3 * Rounds(r) + 3
       /\ CallsAt("deleteExporter", l, r, n) = DeletePass + 3 * Rounds(r) + 2
       /\ CallsAt("deleteInstance", l, r, n) = DeletePass + 3 * Rounds(r) + 1
  /\ CallsAt("listCMs", l, r, n) = DeletePass
  /\ CallsAt("deleteCMs", l, r, n) = n + 1
  BY DEF CallsAt

\* Where the operators that go on leave the worker.
LEMMA WaysOn ==
  /\ \A step : Goto(step) =>
       /\ CallsLeft' = CallsAt(step, loop, replica, Cardinality(listed))
       /\ pc' = step /\ loop' = loop
  /\ \A l, r, step : Round(l, r, step) =>
       /\ CallsLeft' = CallsAt(step, l, r, Cardinality(listed))
       /\ pc' = step /\ loop' = l
  /\ \A step : Done(step) =>
       /\ CallsLeft' = CallsAt(step, "none", 0, Cardinality(listed))
       /\ pc' = step /\ loop' = "none"
  /\ Release => CallsLeft' = 0 /\ pc' = "idle"
<1>1. \A step : Goto(step) =>
       /\ CallsLeft' = CallsAt(step, loop, replica, Cardinality(listed))
       /\ pc' = step /\ loop' = loop
  BY DEF Goto, CallsLeft
<1>2. \A l, r, step : Round(l, r, step) =>
       /\ CallsLeft' = CallsAt(step, l, r, Cardinality(listed))
       /\ pc' = step /\ loop' = l
  BY DEF Round, CallsLeft
<1>3. \A step : Done(step) =>
       /\ CallsLeft' = CallsAt(step, "none", 0, Cardinality(listed))
       /\ pc' = step /\ loop' = "none"
  BY <1>2 DEF Done
<1>4. Release => CallsLeft' = 0 /\ pc' = "idle"
  BY CallsOfCreate DEF Release, CallsLeft
<1> QED
  BY <1>1, <1>2, <1>3, <1>4

LEMMA ConfigMapsCounted ==
  IsFiniteSet(ConfigMaps) /\ Cardinality(ConfigMaps) <= MaxReplicas + 1
<1> DEFINE named == [r \in 0..MaxReplicas |-> IF r = 0 THEN Shared ELSE SIP(r)]
<1>1. MaxReplicas \in Nat /\ 0 \in Int /\ MaxReplicas \in Int /\ ~(0 > MaxReplicas)
  BY ReplicasAssumption
<1>2. IsFiniteSet(0..MaxReplicas) /\ Cardinality(0..MaxReplicas) = MaxReplicas + 1
  BY <1>1, FS_Interval
<1>3. \A o \in ConfigMaps : \E r \in 0..MaxReplicas : named[r] = o
  <2> SUFFICES ASSUME NEW o \in ConfigMaps PROVE \E r \in 0..MaxReplicas : named[r] = o
    OBVIOUS
  <2>1. CASE o = Shared
    <3>1. 0 \in 0..MaxReplicas
      BY <1>1
    <3> QED
      BY <2>1, <3>1
  <2>2. CASE o # Shared
    <3>1. o \in Numbered /\ o[1] = "sip"
      BY <2>2 DEF ConfigMaps, Objects, Numbered
    <3>2. o = SIP(o[2]) /\ o[2] \in 1..MaxReplicas
      BY <3>1 DEF Numbered, SIP
    <3>3. o[2] \in 0..MaxReplicas /\ o[2] # 0
      BY <1>1, <3>2
    <3> QED
      BY <3>2, <3>3
  <2> QED
    BY <2>1, <2>2
<1>4. \A r \in 0..MaxReplicas : named[r] \in ConfigMaps
  <2>1. Shared \in ConfigMaps
    BY DEF ConfigMaps, Objects, Shared
  <2>2. \A r \in 1..MaxReplicas : SIP(r) \in ConfigMaps
    BY DEF ConfigMaps, Objects, Numbered, SIP
  <2>3. \A r \in 0..MaxReplicas : r # 0 => r \in 1..MaxReplicas
    BY <1>1
  <2> QED
    BY <2>1, <2>2, <2>3
<1>5. named \in Surjection(0..MaxReplicas, ConfigMaps)
  BY <1>3, <1>4 DEF Surjection
<1> QED
  BY <1>2, <1>5, FS_Surjection

LEMMA ListedCounted ==
  ASSUME TypeInv
  PROVE  /\ IsFiniteSet(listed) /\ Cardinality(listed) \in 0..(MaxReplicas + 1)
         /\ IsFiniteSet(childCache \cap ConfigMaps)
         /\ Cardinality(childCache \cap ConfigMaps) \in 0..(MaxReplicas + 1)
<1>1. ASSUME NEW S \in SUBSET ConfigMaps
      PROVE  IsFiniteSet(S) /\ Cardinality(S) \in 0..(MaxReplicas + 1)
  <2>1. IsFiniteSet(S) /\ Cardinality(S) <= Cardinality(ConfigMaps)
    BY ConfigMapsCounted, FS_Subset
  <2>2. Cardinality(S) \in Nat /\ Cardinality(ConfigMaps) \in Nat /\ MaxReplicas \in Nat
    BY <2>1, ConfigMapsCounted, FS_CardinalityType, ReplicasAssumption
  <2> QED
    BY <2>1, <2>2, ConfigMapsCounted
<1>2. listed \in SUBSET ConfigMaps /\ childCache \cap ConfigMaps \in SUBSET ConfigMaps
  BY DEF TypeInv, TypeOK, WorkerTypeOK
<1> QED
  BY <1>1, <1>2

-----------------------------------------------------------------------------
Descends == CallsLeft' < CallsLeft /\ UpdateRounds'

LEMMA PassNumbers ==
  ASSUME TypeInv
  PROVE  /\ MaxReplicas \in Nat /\ MaxReplicas >= 1
         /\ replica \in Nat /\ replica <= MaxReplicas + 1
         /\ obj.replicas \in Nat /\ obj.replicas <= MaxReplicas
         /\ obj.status \in Nat /\ obj.status <= MaxReplicas
         /\ pc = "create" => replica >= 1
         /\ pc \in PerReplica => replica >= 1 /\ replica <= MaxReplicas
         /\ pc \in PerReplica /\ loop = "scaleDown" => replica > 1
<1>1. MaxReplicas \in Nat /\ MaxReplicas >= 1
  BY ReplicasAssumption
<1>2. replica \in 0..(MaxReplicas + 1)
  BY DEF TypeInv, TypeOK, WorkerTypeOK
<1>3. obj.replicas \in 0..MaxReplicas /\ obj.status \in 0..MaxReplicas
  BY ReplicasOfVersion DEF TypeInv, TypeOK
<1>4. pc \in PerReplica => replica \in 1..MaxReplicas
  BY DEF TypeInv, LoopsInRange
<1>5. /\ pc = "create" => replica >= 1
      /\ pc \in PerReplica /\ loop = "scaleDown" => replica > 1
  BY DEF TypeInv, LoopsInRange
<1> QED
  BY <1>1, <1>2, <1>3, <1>4, <1>5

LEMMA PrepareDescends ==
  ASSUME TypeInv, AddFinalizerCall \/ CreateConfigMaps \/ RemoveFinalizerCall
  PROVE  Descends
<1> USE DEF Descends, UpdateRounds
<1>1. MaxReplicas \in Nat /\ MaxReplicas >= 1
  BY PassNumbers
<1>2. CASE AddFinalizerCall
  <2>1. pc = "addFinalizer" /\ pc' = "createConfigMaps"
    BY <1>2 DEF AddFinalizerCall
  <2>2. /\ CallsLeft = ScaleDownPass + 4 * MaxReplicas + 3
        /\ CallsLeft' = ScaleDownPass + 4 * MaxReplicas + 2
    BY <2>1, CallsOfCreate DEF CallsLeft
  <2> QED
    BY <1>1, <2>1, <2>2 DEF ScaleDownPass, UpdatePass
<1>3. CASE CreateConfigMaps
  <2>1. pc = "createConfigMaps" /\ Round("create", 1, "create")
    BY <1>3 DEF CreateConfigMaps
  <2>2. /\ CallsLeft = ScaleDownPass + 4 * MaxReplicas + 2
        /\ CallsLeft' = ScaleDownPass + 4 * Rounds(1) + 5 /\ pc' = "create"
    BY <2>1, WaysOn, CallsOfCreate DEF CallsLeft
  <2> QED
    BY <1>1, <2>2 DEF ScaleDownPass, UpdatePass, Rounds
<1>4. CASE RemoveFinalizerCall
  <2>1. pc = "removeFinalizer" /\ pc' = "delete"
    BY <1>4 DEF RemoveFinalizerCall
  <2>2. /\ CallsLeft = DeletePass + 3 * MaxReplicas + 2
        /\ CallsLeft' = DeletePass + 3 * MaxReplicas + 1
    BY <2>1, CallsOfDelete DEF CallsLeft
  <2> QED
    BY <1>1, <2>1, <2>2 DEF DeletePass
<1> QED
  BY <1>2, <1>3, <1>4

LEMMA CreateDescends ==
  ASSUME TypeInv, UpdateRounds,
         SkipExisting \/ GetService \/ CreateService \/ CreateSIP \/ CreateInstance
  PROVE  Descends
<1> USE DEF Descends, UpdateRounds
<1>1. MaxReplicas \in Nat /\ replica \in Nat
  BY PassNumbers
<1>2. CASE SkipExisting
  <2>1. pc = "create" /\ Round("create", replica + 1, "create")
    BY <1>2 DEF SkipExisting
  <2>2. /\ CallsLeft = ScaleDownPass + 4 * Rounds(replica) + 5
        /\ CallsLeft' = ScaleDownPass + 4 * Rounds(replica + 1) + 5 /\ pc' = "create"
    BY <2>1, WaysOn, CallsOfCreate DEF CallsLeft
  <2> QED
    BY <1>1, <2>2 DEF ScaleDownPass, UpdatePass, Rounds
<1>3. CASE GetService
  <2>1. pc' = "createService" /\ loop' = loop /\ replica' = replica
    BY <1>3 DEF GetService
  <2>2. CASE pc = "create"
    <3>1. loop = "create"
      BY <2>2 DEF TypeInv, LoopsInRange
    <3>2. /\ CallsLeft = ScaleDownPass + 4 * Rounds(replica) + 5
          /\ CallsLeft' = ScaleDownPass + 4 * Rounds(replica) + 4
      BY <2>1, <2>2, <3>1, CallsOfCreate DEF CallsLeft
    <3> QED
      BY <1>1, <2>1, <3>2 DEF ScaleDownPass, UpdatePass, Rounds
  <2>3. CASE pc = "getService"
    <3>1. /\ CallsLeft = 4 * Rounds(replica) + 4
          /\ CallsLeft' = 4 * Rounds(replica) + 3
      BY <2>1, <2>3, CallsOfUpdate DEF CallsLeft
    <3> QED
      BY <1>1, <2>1, <3>1 DEF Rounds
  <2> QED
    BY <1>3, <2>2, <2>3 DEF GetService
<1>4. CASE CreateService
  <2>1. pc = "createService"
    BY <1>4 DEF CreateService
  <2>2. CASE loop = "create"
    <3>1. Goto("createSIP")
      BY <1>4, <2>2 DEF CreateService
    <3>2. /\ CallsLeft = ScaleDownPass + 4 * Rounds(replica) + 4
          /\ CallsLeft' = ScaleDownPass + 4 * Rounds(replica) + 3 /\ pc' = "createSIP"
      BY <2>1, <2>2, <3>1, WaysOn, CallsOfCreate DEF CallsLeft
    <3> QED
      BY <1>1, <3>2 DEF ScaleDownPass, UpdatePass, Rounds
  <2>3. CASE loop # "create"
    <3>1. Goto("updateInstance")
      BY <1>4, <2>3 DEF CreateService
    <3>2. /\ CallsLeft = 4 * Rounds(replica) + 3
          /\ CallsLeft' = 4 * Rounds(replica) + 2 /\ pc' = "updateInstance"
      BY <2>1, <2>3, <3>1, WaysOn, CallsOfUpdate DEF CallsLeft
    <3> QED
      BY <1>1, <3>2 DEF Rounds
  <2> QED
    BY <2>2, <2>3
<1>5. CASE CreateSIP
  <2>1. pc = "createSIP" /\ Goto("createInstance")
    BY <1>5 DEF CreateSIP
  <2>2. /\ CallsLeft = ScaleDownPass + 4 * Rounds(replica) + 3
        /\ CallsLeft' = ScaleDownPass + 4 * Rounds(replica) + 2 /\ pc' = "createInstance"
    BY <2>1, WaysOn, CallsOfCreate DEF CallsLeft
  <2> QED
    BY <1>1, <2>2 DEF ScaleDownPass, UpdatePass, Rounds
<1>6. CASE CreateInstance
  <2>1. pc = "createInstance" /\ Round("create", replica + 1, "create")
    BY <1>6 DEF CreateInstance
  <2>2. /\ CallsLeft = ScaleDownPass + 4 * Rounds(replica) + 2
        /\ CallsLeft' = ScaleDownPass + 4 * Rounds(replica + 1) + 5 /\ pc' = "create"
    BY <2>1, WaysOn, CallsOfCreate DEF CallsLeft
  <2> QED
    BY <1>1, <2>2 DEF ScaleDownPass, UpdatePass, Rounds
<1> QED
  BY <1>2, <1>3, <1>4, <1>5, <1>6

\* The rounds of the other loops, and where they end.
LEMMA ScaleDownNext ==
  ASSUME TypeInv, NEW r \in Nat, ScaleDownFrom(r)
  PROVE  /\ UpdateRounds'
         /\ CallsLeft' \in {UpdatePass + 1, UpdatePass + 3 * r + 1}
<1>1. MaxReplicas \in Nat
  BY PassNumbers
<1>2. CASE ScaledDown(r)
  <2>1. Done("updateConfigMaps")
    BY <1>2 DEF ScaleDownFrom
  <2>2. CallsLeft' = UpdatePass + 1 /\ pc' = "updateConfigMaps"
    BY <2>1, WaysOn, CallsOfUpdate
  <2> QED
    BY <1>1, <2>2 DEF UpdatePass, UpdateRounds
<1>3. CASE ~ScaledDown(r)
  <2>1. Round("scaleDown", r, "deleteService")
    BY <1>3 DEF ScaleDownFrom
  <2>2. CallsLeft' = UpdatePass + 3 * r + 1 /\ pc' = "deleteService"
    BY <2>1, WaysOn, CallsOfUpdate
  <2> QED
    BY <1>1, <2>2 DEF UpdatePass, UpdateRounds
<1> QED
  BY <1>2, <1>3

LEMMA UpdateNext ==
  ASSUME TypeInv, NEW r \in Nat, UpdateFrom(r)
  PROVE  /\ UpdateRounds'
         /\ \/ CallsLeft' = 1
            \/ r <= MaxReplicas /\ CallsLeft' = 4 * Rounds(r) + 5
<1>1. CASE r <= obj.replicas
  <2>1. Round("update", r, "update")
    BY <1>1 DEF UpdateFrom
  <2>2. CallsLeft' = 4 * Rounds(r) + 5 /\ loop' = "update"
    BY <2>1, WaysOn, CallsOfUpdate
  <2>3. r <= MaxReplicas
    BY <1>1, PassNumbers
  <2> QED
    BY <2>2, <2>3 DEF UpdateRounds
<1>2. CASE ~(r <= obj.replicas)
  <2>1. Done("updateStatus")
    BY <1>2 DEF UpdateFrom
  <2>2. CallsLeft' = 1 /\ pc' = "updateStatus"
    BY <2>1, WaysOn, CallsOfUpdate
  <2> QED
    BY <2>2 DEF UpdateRounds
<1> QED
  BY <1>1, <1>2

LEMMA DeleteNext ==
  ASSUME TypeInv, NEW r \in Nat, DeleteFrom(r)
  PROVE  /\ UpdateRounds'
         /\ \/ CallsLeft' = DeletePass
            \/ r <= MaxReplicas /\ CallsLeft' = DeletePass + 3 * Rounds(r) + 3
<1>1. CASE r <= obj.replicas
  <2>1. Round("delete", r, "deleteService")
    BY <1>1 DEF DeleteFrom
  <2>2. CallsLeft' = DeletePass + 3 * Rounds(r) + 3 /\ pc' = "deleteService"
    BY <2>1, WaysOn, CallsOfDelete
  <2>3. r <= MaxReplicas
    BY <1>1, PassNumbers
  <2> QED
    BY <2>2, <2>3 DEF UpdateRounds
<1>2. CASE ~(r <= obj.replicas)
  <2>1. Done("listCMs")
    BY <1>2 DEF DeleteFrom
  <2>2. CallsLeft' = DeletePass /\ pc' = "listCMs"
    BY <2>1, WaysOn, CallsOfDelete
  <2> QED
    BY <2>2 DEF UpdateRounds
<1> QED
  BY <1>1, <1>2

LEMMA UpdateDescends ==
  ASSUME TypeInv, UpdateRounds,
         StartUpdate \/ UpdateConfigMaps \/ UpdateSIP \/ UpdateInstance \/ UpdateStatus
  PROVE  Descends
<1> USE DEF Descends
<1>1. MaxReplicas \in Nat /\ MaxReplicas >= 1 /\ replica \in Nat
  BY PassNumbers
<1>2. CASE StartUpdate
  <2>1. pc = "create" /\ replica <= MaxReplicas + 1
    BY <1>2, PassNumbers DEF StartUpdate
  <2>2. CallsLeft = ScaleDownPass + 4 * Rounds(replica) + 5
    BY <2>1, CallsOfCreate DEF CallsLeft
  <2>3. CASE obj.status > obj.replicas
    <3>1. obj.status \in Nat /\ obj.status <= MaxReplicas
      BY PassNumbers
    <3>2. PICK r \in Nat : r = obj.status
      BY <3>1
    <3>3. UpdateRounds' /\ CallsLeft' \in {UpdatePass + 1, UpdatePass + 3 * r + 1}
      BY <1>2, <2>3, <3>2, ScaleDownNext DEF StartUpdate
    <3> QED
      BY <1>1, <2>1, <2>2, <3>1, <3>2, <3>3 DEF ScaleDownPass, UpdatePass, Rounds
  <2>4. CASE ~(obj.status > obj.replicas)
    <3>1. Done("updateConfigMaps")
      BY <1>2, <2>4 DEF StartUpdate
    <3>2. CallsLeft' = UpdatePass + 1 /\ pc' = "updateConfigMaps"
      BY <3>1, WaysOn, CallsOfUpdate
    <3> QED
      BY <1>1, <2>1, <2>2, <3>2 DEF ScaleDownPass, UpdatePass, Rounds, UpdateRounds
  <2> QED
    BY <2>3, <2>4
<1>3. CASE UpdateConfigMaps
  <2>1. pc = "updateConfigMaps" /\ UpdateFrom(1)
    BY <1>3 DEF UpdateConfigMaps
  <2>2. CallsLeft = UpdatePass + 1
    BY <2>1, CallsOfUpdate DEF CallsLeft
  <2>3. UpdateRounds' /\ (CallsLeft' = 1 \/ CallsLeft' = 4 * Rounds(1) + 5)
    BY <2>1, UpdateNext
  <2> QED
    BY <1>1, <2>2, <2>3 DEF UpdatePass, Rounds
<1>4. CASE UpdateSIP
  <2>1. pc = "update" /\ replica <= MaxReplicas /\ loop = "update"
    BY <1>4, PassNumbers DEF UpdateSIP, PerReplica, UpdateRounds
  <2>2. CallsLeft = 4 * Rounds(replica) + 5
    BY <2>1, CallsOfUpdate DEF CallsLeft
  <2>3. CASE Get(Instance(replica)) = "absent"
    <3>1. Release
      BY <1>4, <2>3 DEF UpdateSIP, Return
    <3>2. CallsLeft' = 0 /\ pc' = "idle"
      BY <3>1, WaysOn
    <3> QED
      BY <1>1, <2>1, <2>2, <3>2 DEF Rounds, UpdateRounds
  <2>4. CASE Get(Instance(replica)) # "absent"
    <3>1. pc' = "getService" /\ loop' = "update" /\ replica' = replica
      BY <1>4, <2>1, <2>4 DEF UpdateSIP
    <3>2. CallsLeft' = 4 * Rounds(replica) + 4
      BY <3>1, CallsOfUpdate DEF CallsLeft
    <3> QED
      BY <1>1, <2>2, <3>1, <3>2 DEF Rounds, UpdateRounds
  <2> QED
    BY <2>3, <2>4
<1>5. CASE UpdateInstance
  <2>1. pc = "updateInstance" /\ replica <= MaxReplicas /\ UpdateFrom(replica + 1)
    BY <1>5, PassNumbers DEF UpdateInstance, PerReplica
  <2>2. CallsLeft = 4 * Rounds(replica) + 2
    BY <2>1, CallsOfUpdate DEF CallsLeft
  <2>3. PICK r \in Nat : r = replica + 1
    BY <1>1
  <2>4. UpdateRounds' /\ (CallsLeft' = 1 \/ CallsLeft' = 4 * Rounds(r) + 5)
    BY <2>1, <2>3, UpdateNext
  <2> QED
    BY <1>1, <2>1, <2>2, <2>3, <2>4 DEF Rounds
<1>6. CASE UpdateStatus
  <2>1. pc = "updateStatus" /\ Release
    BY <1>6 DEF UpdateStatus, Return
  <2>2. CallsLeft = 1 /\ CallsLeft' = 0 /\ pc' = "idle"
    BY <2>1, WaysOn, CallsOfUpdate DEF CallsLeft
  <2> QED
    BY <2>2 DEF UpdateRounds
<1> QED
  BY <1>2, <1>3, <1>4, <1>5, <1>6

LEMMA RemoveDescends ==
  ASSUME TypeInv,
         StartDelete \/ DeleteService \/ DeleteExporter \/ DeleteInstance
  PROVE  Descends
<1> USE DEF Descends
<1>1. MaxReplicas \in Nat /\ MaxReplicas >= 1 /\ replica \in Nat
  BY PassNumbers
<1>2. CASE StartDelete
  <2>1. pc = "delete" /\ DeleteFrom(1)
    BY <1>2 DEF StartDelete
  <2>2. CallsLeft = DeletePass + 3 * MaxReplicas + 1
    BY <2>1, CallsOfDelete DEF CallsLeft
  <2>3. UpdateRounds' /\ (CallsLeft' = DeletePass \/ CallsLeft' = DeletePass + 3 * Rounds(1) + 3)
    BY <2>1, DeleteNext
  <2> QED
    BY <1>1, <2>2, <2>3 DEF DeletePass, Rounds
<1>3. CASE DeleteService
  <2>1. PICK s \in {"deleteExporter", "deleteInstance"} : Goto(s)
    BY <1>3 DEF DeleteService
  <2>2. pc = "deleteService" /\ pc' = s /\ CallsLeft' = CallsAt(s, loop, replica, Cardinality(listed))
    BY <1>3, <2>1, WaysOn DEF DeleteService
  <2>3. CASE loop = "scaleDown"
    <3>1. /\ CallsLeft = UpdatePass + 3 * replica + 1
          /\ CallsLeft' \in {UpdatePass + 3 * replica, UpdatePass + 3 * replica - 1}
      BY <2>2, <2>3, CallsOfUpdate DEF CallsLeft
    <3> QED
      BY <1>1, <2>2, <3>1 DEF UpdatePass, UpdateRounds
  <2>4. CASE loop # "scaleDown"
    <3>1. /\ CallsLeft = DeletePass + 3 * Rounds(replica) + 3
          /\ CallsLeft' \in {DeletePass + 3 * Rounds(replica) + 2,
                              DeletePass + 3 * Rounds(replica) + 1}
      BY <2>2, <2>4, CallsOfDelete DEF CallsLeft
    <3> QED
      BY <1>1, <2>2, <3>1 DEF DeletePass, Rounds, UpdateRounds
  <2> QED
    BY <2>3, <2>4
<1>5. CASE DeleteExporter
  <2>1. pc = "deleteExporter" /\ Goto("deleteInstance")
    BY <1>5 DEF DeleteExporter
  <2>2. pc' = "deleteInstance"
        /\ CallsLeft' = CallsAt("deleteInstance", loop, replica, Cardinality(listed))
    BY <2>1, WaysOn
  <2>3. CASE loop = "scaleDown"
    <3>1. /\ CallsLeft = UpdatePass + 3 * replica
          /\ CallsLeft' = UpdatePass + 3 * replica - 1
      BY <2>1, <2>2, <2>3, CallsOfUpdate DEF CallsLeft
    <3> QED
      BY <1>1, <2>2, <3>1 DEF UpdatePass, UpdateRounds
  <2>4. CASE loop # "scaleDown"
    <3>1. /\ CallsLeft = DeletePass + 3 * Rounds(replica) + 2
          /\ CallsLeft' = DeletePass + 3 * Rounds(replica) + 1
      BY <2>1, <2>2, <2>4, CallsOfDelete DEF CallsLeft
    <3> QED
      BY <1>1, <2>2, <3>1 DEF DeletePass, Rounds, UpdateRounds
  <2> QED
    BY <2>3, <2>4
<1>4. CASE DeleteInstance
  <2>1. pc = "deleteInstance" /\ replica >= 1 /\ replica <= MaxReplicas
    BY <1>4, PassNumbers DEF DeleteInstance, PerReplica
  <2>2. CASE loop = "scaleDown"
    <3>1. ScaleDownFrom(replica - 1)
      BY <1>4, <2>2 DEF DeleteInstance
    <3>2. PICK r \in Nat : r = replica - 1
      BY <1>1, <2>1
    <3>3. UpdateRounds' /\ CallsLeft' \in {UpdatePass + 1, UpdatePass + 3 * r + 1}
      BY <3>1, <3>2, ScaleDownNext
    <3>4. CallsLeft = UpdatePass + 3 * replica - 1
      BY <2>1, <2>2, CallsOfUpdate DEF CallsLeft
    <3> QED
      BY <1>1, <2>1, <3>2, <3>3, <3>4 DEF UpdatePass
  <2>3. CASE loop # "scaleDown"
    <3>1. DeleteFrom(replica + 1)
      BY <1>4, <2>3 DEF DeleteInstance
    <3>2. PICK r \in Nat : r = replica + 1
      BY <1>1
    <3>3. UpdateRounds' /\ (CallsLeft' = DeletePass \/ CallsLeft' = DeletePass + 3 * Rounds(r) + 3)
      BY <3>1, <3>2, DeleteNext
    <3>4. CallsLeft = DeletePass + 3 * Rounds(replica) + 1
      BY <2>1, <2>3, CallsOfDelete DEF CallsLeft
    <3> QED
      BY <1>1, <2>1, <3>2, <3>3, <3>4 DEF DeletePass, Rounds
  <2> QED
    BY <2>2, <2>3
<1> QED
  BY <1>2, <1>3, <1>4, <1>5

LEMMA ListDescends ==
  ASSUME TypeInv, ListConfigMaps \/ DeleteConfigMap \/ FinishDelete
  PROVE  Descends
<1> USE DEF Descends, UpdateRounds
<1>1. MaxReplicas \in Nat
  BY PassNumbers
<1>2. CASE ListConfigMaps
  <2>1. pc = "listCMs" /\ pc' = "deleteCMs" /\ listed' = childCache \cap ConfigMaps
    BY <1>2 DEF ListConfigMaps
  <2>2. CallsLeft = DeletePass
    BY <2>1, CallsOfDelete DEF CallsLeft
  <2>3. CallsLeft' = Cardinality(childCache \cap ConfigMaps) + 1
    BY <2>1, CallsOfDelete DEF CallsLeft
  <2>4. Cardinality(childCache \cap ConfigMaps) \in 0..(MaxReplicas + 1)
    BY ListedCounted
  <2> QED
    BY <1>1, <2>1, <2>2, <2>3, <2>4 DEF DeletePass
<1>3. CASE DeleteConfigMap
  <2>1. PICK o \in listed : listed' = listed \ {o}
    BY <1>3 DEF DeleteConfigMap
  <2>2. pc = "deleteCMs" /\ pc' = "deleteCMs"
    BY <1>3 DEF DeleteConfigMap
  <2>3. CallsLeft = Cardinality(listed) + 1
    BY <2>2, CallsOfDelete DEF CallsLeft
  <2>4. CallsLeft' = Cardinality(listed \ {o}) + 1
    BY <2>1, <2>2, CallsOfDelete DEF CallsLeft
  <2>5. Cardinality(listed \ {o}) = Cardinality(listed) - 1 /\ Cardinality(listed) \in Nat
    BY <2>1, ListedCounted, FS_RemoveElement, FS_CardinalityType
  <2> QED
    BY <2>2, <2>3, <2>4, <2>5
<1>4. CASE FinishDelete
  <2>1. pc = "deleteCMs" /\ Release
    BY <1>4 DEF FinishDelete, Return
  <2>2. CallsLeft = Cardinality(listed) + 1 /\ CallsLeft' = 0 /\ pc' = "idle"
    BY <2>1, WaysOn, CallsOfDelete DEF CallsLeft
  <2>3. Cardinality(listed) \in Nat
    BY ListedCounted
  <2> QED
    BY <2>2, <2>3
<1> QED
  BY <1>2, <1>3, <1>4
-----------------------------------------------------------------------------
\* Reconcile begins a pass; each of its calls brings the end nearer.
LEMMA WorkerDescends ==
  ASSUME TypeInv, UpdateRounds, Worker
  PROVE  UpdateRounds' /\ (pc # "idle" => CallsLeft' < CallsLeft)
<1>1. CASE ReconcileNotFound \/ Reconcile
  <2>1. pc = "idle"
    BY <1>1 DEF ReconcileNotFound, Reconcile, Take
  <2>2. pc' \notin {"update", "getService"}
    BY <1>1, <2>1 DEF ReconcileNotFound, Reconcile, workerVars
  <2> QED
    BY <2>1, <2>2 DEF UpdateRounds
<1>2. CASE ~(ReconcileNotFound \/ Reconcile)
  <2>1. Descends
    BY <1>2, PrepareDescends, CreateDescends, UpdateDescends, RemoveDescends,
       ListDescends DEF Worker
  <2> QED
    BY <2>1 DEF Descends
<1> QED
  BY <1>1, <1>2

\* Nobody else takes part: all a restart does is to end the pass.
LEMMA OthersKeepCalls ==
  ASSUME TypeInv, UpdateRounds, [Next]_vars, ~Worker
  PROVE  UpdateRounds' /\ CallsLeft' \in {CallsLeft, 0}
<1>1. CASE Crash
  BY <1>1, WaysOn DEF Crash, UpdateRounds, Release
<1>2. CASE ~Crash
  <2>1. UNCHANGED <<pc, loop, replica, listed>>
    BY <1>2 DEF Next, ReceiveVersion, ReceiveList, PeriodicResync, ReceiveChild, Touch,
       UserWrite, vars, workerVars
  <2> QED
    BY <2>1 DEF CallsLeft, UpdateRounds
<1> QED
  BY <1>1, <1>2

\* How far a pass can be from its end.
LEMMA CallsBounded ==
  ASSUME TypeInv
  PROVE  CallsLeft \in 0..LongestPass /\ (CallsLeft = 0 <=> pc = "idle")
<1>1. /\ MaxReplicas \in Nat /\ MaxReplicas >= 1
      /\ replica \in Nat /\ replica <= MaxReplicas + 1
  BY PassNumbers
<1>2. pc \in Steps
  BY DEF TypeInv, TypeOK, WorkerTypeOK
<1>3. ASSUME pc # "idle"
      PROVE  CallsLeft \in 1..LongestPass
  <2>1. CASE pc \in {"addFinalizer", "createConfigMaps", "updateConfigMaps", "updateStatus",
                     "removeFinalizer", "delete", "listCMs"}
    <3>1. CallsLeft \in {ScaleDownPass + 4 * MaxReplicas + 3, ScaleDownPass + 4 * MaxReplicas + 2,
                         UpdatePass + 1, 1, DeletePass + 3 * MaxReplicas + 2,
                         DeletePass + 3 * MaxReplicas + 1, DeletePass}
      BY <2>1, CallsOfCreate, CallsOfUpdate, CallsOfDelete DEF CallsLeft
    <3> QED
      BY <1>1, <3>1 DEF ScaleDownPass, UpdatePass, DeletePass, LongestPass
  <2>2. CASE pc = "deleteCMs"
    <3>1. CallsLeft = Cardinality(listed) + 1
      BY <2>2, CallsOfDelete DEF CallsLeft
    <3> QED
      BY <1>1, <3>1, ListedCounted DEF LongestPass
  <2>3. CASE pc = "create"
    <3>1. CallsLeft = ScaleDownPass + 4 * Rounds(replica) + 5 /\ replica >= 1
      BY <2>3, CallsOfCreate, PassNumbers DEF CallsLeft
    <3> QED
      BY <1>1, <3>1 DEF ScaleDownPass, UpdatePass, LongestPass, Rounds
  <2>4. CASE pc \in PerReplica
    <3>1. replica >= 1 /\ replica <= MaxReplicas
      BY <2>4, PassNumbers
    <3>2. CASE pc \in {"createService", "createSIP", "createInstance"} 
      <4>1. \/ CallsLeft = ScaleDownPass + 4 * Rounds(replica) + 4
            \/ CallsLeft = ScaleDownPass + 4 * Rounds(replica) + 3
            \/ CallsLeft = ScaleDownPass + 4 * Rounds(replica) + 2
            \/ CallsLeft = 4 * Rounds(replica) + 3
        BY <3>2, CallsOfCreate, CallsOfUpdate DEF CallsLeft
      <4> QED
        BY <1>1, <3>1, <4>1 DEF ScaleDownPass, UpdatePass, LongestPass, Rounds
    <3>3. CASE pc \in {"update", "getService", "updateInstance"}
      <4>1. \/ CallsLeft = 4 * Rounds(replica) + 5
            \/ CallsLeft = 4 * Rounds(replica) + 4
            \/ CallsLeft = 4 * Rounds(replica) + 2
        BY <3>3, CallsOfUpdate DEF CallsLeft
      <4> QED
        BY <1>1, <3>1, <4>1 DEF LongestPass, Rounds
    <3>4. CASE pc \in {"deleteService", "deleteExporter", "deleteInstance"}
      <4>1. \/ CallsLeft = UpdatePass + 3 * replica + 1
            \/ CallsLeft = UpdatePass + 3 * replica
            \/ CallsLeft = UpdatePass + 3 * replica - 1
            \/ CallsLeft = DeletePass + 3 * Rounds(replica) + 3
            \/ CallsLeft = DeletePass + 3 * Rounds(replica) + 2
            \/ CallsLeft = DeletePass + 3 * Rounds(replica) + 1
        BY <3>4, CallsOfUpdate, CallsOfDelete DEF CallsLeft
      <4> QED
        BY <1>1, <3>1, <4>1 DEF UpdatePass, DeletePass, LongestPass, Rounds
    <3> QED
      BY <2>4, <3>2, <3>3, <3>4 DEF PerReplica
  <2> QED
    BY <1>2, <1>3, <2>1, <2>2, <2>3, <2>4 DEF Steps, PerReplica
<1>4. pc = "idle" => CallsLeft = 0 /\ 0 \in 0..LongestPass
  BY <1>1, CallsOfCreate DEF CallsLeft, LongestPass
<1> QED
  BY <1>3, <1>4

\* The calls left are counted down from no more than LongestPass.
WithinPass == CallsLeft \in 0..LongestPass /\ (CallsLeft = 0 <=> pc = "idle")
NearsEnd ==
  pc # "idle" => CallsLeft' <= CallsLeft /\ (Worker => CallsLeft' < CallsLeft)
PassesEnd == []WithinPass /\ [][NearsEnd]_vars

\* A pass of Reconcile makes at most LongestPass calls: each call of the worker,
\* one that fails or is refused too, brings its end nearer, and nothing that users,
\* caches, other controllers and restarts do puts it off.  None of the loops of
\* Create, Update, updateReplicaCount, Delete and deleteCMs turns for ever.
THEOREM BridgesPassesEnd == Spec => PassesEnd
<1>1. Init => UpdateRounds
  BY DEF Init, UpdateRounds
<1>2. TypeInv => WithinPass
  BY CallsBounded DEF WithinPass
<1>3. TypeInv' => WithinPass'
  BY <1>2, PTL
<1>4. TypeInv /\ TypeInv' /\ UpdateRounds /\ [Next]_vars => UpdateRounds' /\ [NearsEnd]_vars
  <2> SUFFICES ASSUME TypeInv, TypeInv', UpdateRounds, [Next]_vars
               PROVE  UpdateRounds' /\ NearsEnd
    OBVIOUS
  <2>1. LongestPass \in Nat
    BY PassNumbers DEF LongestPass
  <2>2. CallsLeft \in Nat /\ CallsLeft' \in Nat /\ (CallsLeft = 0 <=> pc = "idle")
    BY <1>2, <1>3, <2>1 DEF WithinPass
  <2>3. CASE Worker
    BY <2>2, <2>3, WorkerDescends DEF NearsEnd
  <2>4. CASE ~Worker
    BY <2>2, <2>4, OthersKeepCalls DEF NearsEnd
  <2> QED
    BY <2>3, <2>4
<1> QED
  BY <1>1, <1>2, <1>4, InitTypeInv, StepTypeInv, PTL DEF Spec, PassesEnd

-----------------------------------------------------------------------------
(* Users who write at any time: every bridge asked for, at rest.             *)

\* The caches of an informer that does not lag show what stands.
Shown ==
  /\ Routed
  /\ \A i \in Informers \ Lagging : lag[i] = <<>>
  /\ \A o \in Objects : InformerOf(o) \notin Lagging => (o \in childCache <=> Stands(o))

\* No configuration is numbered 0.
Configured == \A v \in Versions : Exists(v) => v.conf > 0

\* The steps of Update, and what it has brought about up to each.
Updating == \/ pc \in {"update", "getService", "updateInstance"}
            \/ pc = "createService" /\ loop # "create"
BroughtAbout ==
  /\ Updating => /\ child[Shared] = obj.conf
                 /\ \A r \in 1..(replica - 1) : Whole(r, obj.conf)
  /\ Updating /\ pc # "update" =>
       child[SIP(replica)] = obj.conf /\ instance = "current"
  /\ Updating /\ pc \in {"createService", "updateInstance"} => Stands(Exporter(replica))
  /\ Updating /\ pc = "createService" =>
       IF service = "absent" THEN child[Service(replica)] = 0 ELSE service = "current"
  /\ pc = "updateInstance" => child[Service(replica)] = obj.conf
  /\ pc = "updateStatus" => Provisioned(obj)

\* No call has failed, and nobody else has written a child.
Undisturbed == faults = 0 /\ touches = 0

\* An idle worker with nothing to come has served the stored version.
IdleServed == pc = "idle" /\ Live /\ ~Coming => Provisioned(cr)
AmidInv ==
  /\ Shown /\ Configured
  /\ Undisturbed => BroughtAbout /\ (relists = 0 => IdleServed)

\* With nothing queued, announced or running, all bridges of the spec stand whole,
\* rendered from the stored configuration (Update, UpdateStatus).
QuietMeansServed ==
  Quiet /\ Live /\ Undisturbed /\ relists = 0 => Provisioned(cr)

-----------------------------------------------------------------------------
(* The caches. *)

LEMMA NoticeShows ==
  ASSUME TypeInv, Shown, NEW o \in Objects, NEW p \in BOOLEAN, Notice(o, p),
         Stands(o)' <=> p, \A q \in Objects : q # o => (Stands(q)' <=> Stands(q))
  PROVE  Shown'
<1> DEFINE i == InformerOf(o)
           change == [object |-> o, present |-> p]
<1>1. \A q : InformerOf(q)' = InformerOf(q)
  BY DEF InformerOf
<1>2. i \in Informers /\ lag \in [Informers -> Seq([object : Objects, present : BOOLEAN])]
  BY InformerOfType DEF TypeInv, TypeOK, ChildTypeOK
<1>3. CASE i \in Lagging
  <2>1. lag' = [lag EXCEPT ![i] = Append(lag[i], change)] /\ childCache' = childCache
    BY <1>3 DEF Notice
  <2>2. lag'[i] = Append(lag[i], change) /\ \A j \in Informers : j # i => lag'[j] = lag[j]
    BY <1>2, <2>1
  <2> DEFINE n == Len(lag[i])
  <2>3. /\ n \in Nat /\ DOMAIN lag[i] = 1..n /\ DOMAIN lag'[i] = 1..(n + 1)
        /\ lag'[i][n + 1] = change
        /\ \A k \in 1..n : lag'[i][k] = lag[i][k]
    BY <1>2, <2>2
  <2>4. change.object = o
    OBVIOUS
  <2> HIDE DEF n, change
  <2>5. \A k : k \in 1..(n + 1) <=> k \in 1..n \/ k = n + 1
    BY <2>3
  <2>6. ASSUME NEW j \in Informers, NEW k \in DOMAIN lag'[j]
        PROVE  InformerOf(lag'[j][k].object) = j
    <3>1. CASE j # i
      BY <2>2, <2>6, <3>1 DEF Shown, Routed
    <3>2. CASE j = i /\ k \in 1..n
      BY <2>3, <3>2 DEF Shown, Routed
    <3>3. CASE j = i /\ k = n + 1
      BY <2>3, <2>4, <3>3
    <3> QED
      BY <2>3, <2>5, <2>6, <3>1, <3>2, <3>3
  <2>7. \A j \in Informers \ Lagging : lag'[j] = <<>>
    BY <1>3, <2>2 DEF Shown, Routed
  <2>8. \A q \in Objects : InformerOf(q) \notin Lagging => (q \in childCache' <=> Stands(q)')
    BY <1>3, <2>1 DEF Shown, Routed
  <2> QED
    BY <1>1, <2>6, <2>7, <2>8 DEF Shown, Routed
<1>4. CASE i \notin Lagging
  <2>1. childCache' = CacheWith(o, p) /\ lag' = lag
    BY <1>4 DEF Notice
  <2>2. \A q \in Objects : InformerOf(q) \notin Lagging => (q \in childCache' <=> Stands(q)')
    BY <2>1 DEF Shown, Routed, CacheWith
  <2> QED
    BY <1>1, <2>1, <2>2 DEF Shown, Routed
<1> QED
  BY <1>3, <1>4

LEMMA PutShows ==
  ASSUME TypeInv, Shown, NEW o \in Objects, NEW c \in Nat, Put(o, c)
  PROVE  Shown'
<1>1. CASE child[o] = c
  <2>1. UNCHANGED childVars
    BY <1>1, PutSame
  <2> QED
    BY <2>1 DEF Shown, Routed, childVars, Stands, InformerOf
<1>2. CASE child[o] # c
  <2>1. Notice(o, c # 0) /\ (c # 0) \in BOOLEAN
    BY <1>2 DEF Put
  <2>2. (Stands(o)' <=> c # 0) /\ \A q \in Objects : q # o => (Stands(q)' <=> Stands(q))
    BY PutChild DEF Stands
  <2> QED
    BY <2>1, <2>2, NoticeShows
<1> QED
  BY <1>1, <1>2

\* A call of the worker writes one object, or none.
LEMMA WorkerPuts ==
  ASSUME TypeInv, Worker
  PROVE  UNCHANGED childVars \/ \E o \in Objects : \E c \in Nat : Put(o, c)
<1> DEFINE Good == UNCHANGED childVars \/ \E o \in Objects : \E c \in Nat : Put(o, c)
<1>1. ASSUME NEW o \in Objects, NEW c \in Nat,
             Try(o, c) \/ Put(o, c) \/ UNCHANGED childVars
      PROVE  Good
  BY <1>1 DEF Try
<1>2. \A o \in Objects : \A g : /\ AfterCreate(o) \in Nat /\ AfterUpdate(o, g) \in Nat
                                /\ obj.conf \in Nat /\ 0 \in Nat
  BY RenderedType DEF TypeInv
<1>3. Shared \in Objects
  BY NamesAreObjects
<1>4. CASE \/ ReconcileNotFound \/ Reconcile \/ AddFinalizerCall \/ SkipExisting
           \/ StartUpdate \/ UpdateStatus \/ RemoveFinalizerCall \/ StartDelete
           \/ ListConfigMaps \/ FinishDelete
  BY <1>4 DEF ReconcileNotFound, Reconcile, Take, AddFinalizerCall, SkipExisting, StartUpdate,
     UpdateStatus, RemoveFinalizerCall, StartDelete, ListConfigMaps, FinishDelete, childVars
<1>5. CASE CreateConfigMaps \/ UpdateConfigMaps
  BY <1>1, <1>2, <1>3, <1>5 DEF CreateConfigMaps, UpdateConfigMaps
<1>6. CASE GetService
  <2>1. replica \in 1..MaxReplicas
    <3>1. CASE pc = "getService"
      BY <3>1, InRange DEF PerReplica
    <3>2. CASE pc = "create" /\ replica <= obj.replicas
      <4>1. replica \in Nat /\ replica >= 1
        BY <3>2 DEF TypeInv, TypeOK, WorkerTypeOK, LoopsInRange
      <4> QED
        BY <3>2, <4>1, ReplicasOfVersion, ReplicasAssumption DEF TypeInv, TypeOK
    <3> QED
      BY <1>6, <3>1, <3>2 DEF GetService
  <2>2. Exporter(replica) \in Objects
    BY <2>1, NamesAreObjects
  <2> QED
    BY <1>1, <1>2, <1>6, <2>2 DEF GetService
<1>7. CASE \/ CreateService \/ CreateSIP \/ CreateInstance \/ UpdateSIP \/ UpdateInstance
           \/ DeleteService \/ DeleteExporter \/ DeleteInstance
  <2>1. pc \in PerReplica
    BY <1>7 DEF CreateService, CreateSIP, CreateInstance, UpdateSIP, UpdateInstance,
       DeleteService, DeleteExporter, DeleteInstance, PerReplica
  <2>2. /\ Instance(replica) \in Objects /\ Service(replica) \in Objects
        /\ Exporter(replica) \in Objects /\ SIP(replica) \in Objects
    BY <2>1, InRange
  <2>3. CASE CreateService \/ CreateSIP \/ CreateInstance
    BY <1>1, <1>2, <2>2, <2>3 DEF CreateService, CreateSIP, CreateInstance
  <2>4. CASE UpdateSIP \/ UpdateInstance
    BY <1>1, <1>2, <2>2, <2>4 DEF UpdateSIP, UpdateInstance
  <2>5. CASE DeleteService \/ DeleteExporter \/ DeleteInstance
    BY <1>1, <1>2, <2>2, <2>5 DEF DeleteService, DeleteExporter, DeleteInstance, DeleteCached,
       childVars
  <2> QED
    BY <1>7, <2>3, <2>4, <2>5
<1>8. CASE DeleteConfigMap
  <2>1. listed \subseteq Objects
    BY DEF TypeInv, TypeOK, WorkerTypeOK, ConfigMaps
  <2> QED
    BY <1>1, <1>2, <1>8, <2>1 DEF DeleteConfigMap
<1> QED
  BY <1>4, <1>5, <1>6, <1>7, <1>8 DEF Worker

LEMMA StepShows ==
  ASSUME TypeInv, Shown, [Next]_vars
  PROVE  Shown'
<1>1. UNCHANGED childVars => Shown'
  BY DEF Shown, Routed, childVars, Stands, InformerOf
<1>2. \A q : InformerOf(q)' = InformerOf(q)
  BY DEF InformerOf
<1>3. CASE Worker
  BY <1>1, <1>3, WorkerPuts, PutShows
<1>4. ASSUME NEW i \in Informers, ReceiveChild(i) PROVE Shown'
  <2> DEFINE old == lag[i]
             m == Head(old)
             Change == [object : Objects, present : BOOLEAN]
  <2>1. /\ old # <<>> /\ lag' = [lag EXCEPT ![i] = Tail(old)]
        /\ childCache' = CacheWith(m.object, m.present) /\ child' = child
    BY <1>4 DEF ReceiveChild, crVars
  <2>2. lag \in [Informers -> Seq(Change)]
    BY DEF TypeInv, TypeOK, ChildTypeOK
  <2> HIDE DEF Change
  <2>3. /\ lag'[i] = Tail(old) /\ \A j \in Informers : j # i => lag'[j] = lag[j]
        /\ old \in Seq(Change)
    BY <2>1, <2>2
  <2>4. i \in Lagging
    BY <2>1 DEF Shown, Routed
  <2> DEFINE n == Len(old)
  <2>5. /\ n \in Nat /\ n > 0 /\ DOMAIN old = 1..n /\ DOMAIN lag'[i] = 1..(n - 1)
        /\ m = old[1] /\ \A k \in 1..(n - 1) : lag'[i][k] = old[k + 1]
    <3> HIDE DEF old
    <3>1. /\ n \in Nat /\ n > 0 /\ DOMAIN old = 1..n /\ Len(Tail(old)) = n - 1
          /\ Tail(old) \in Seq(Change)
          /\ m = old[1] /\ \A k \in 1..(n - 1) : Tail(old)[k] = old[k + 1]
      BY <2>1, <2>3, HeadTailProperties
    <3>2. DOMAIN Tail(old) = 1..(n - 1)
      BY <3>1
    <3> QED
      BY <2>3, <3>1, <3>2
  <2>6. 1 \in DOMAIN old /\ \A k \in 1..(n - 1) : k + 1 \in DOMAIN old
    BY <2>5
  <2> HIDE DEF n
  <2>7. InformerOf(m.object) = i
    BY <2>5, <2>6 DEF Shown, Routed
  <2>8. ASSUME NEW j \in Informers, NEW k \in DOMAIN lag'[j]
        PROVE  InformerOf(lag'[j][k].object) = j
    <3>1. CASE j # i
      BY <2>3, <2>8, <3>1 DEF Shown, Routed
    <3>2. CASE j = i
      BY <2>5, <2>6, <2>8, <3>2 DEF Shown, Routed
    <3> QED
      BY <3>1, <3>2
  <2>9. \A j \in Informers \ Lagging : lag'[j] = <<>>
    BY <2>3, <2>4 DEF Shown, Routed
  <2>10. \A q \in Objects : InformerOf(q) \notin Lagging => (q \in childCache' <=> Stands(q)')
    <3> HIDE DEF m
    <3> TAKE q \in Objects
    <3> HAVE InformerOf(q) \notin Lagging
    <3>1. q # m.object
      BY <2>4, <2>7
    <3>2. q \in childCache' <=> q \in childCache
      BY <2>1, <3>1 DEF CacheWith
    <3> QED
      BY <2>1, <3>2 DEF Shown, Routed, Stands
  <2> QED
    BY <1>2, <2>8, <2>9, <2>10 DEF Shown, Routed
<1>5. ASSUME NEW o \in Objects, Touch(o) PROVE Shown'
  <2>1. child[o] # 0 /\ child' = child /\ Notice(o, TRUE)
    BY <1>5 DEF Touch
  <2>2. (Stands(o)' <=> TRUE) /\ \A q \in Objects : q # o => (Stands(q)' <=> Stands(q))
    BY <2>1 DEF Stands
  <2> QED
    BY <2>1, <2>2, NoticeShows
<1>6. CASE Crash
  <2>1. /\ childCache' = {o \in Objects : child[o] # 0} /\ child' = child
        /\ lag' = [i \in Informers |-> <<>>]
    BY <1>6 DEF Crash
  <2>2. \A i \in Informers : lag'[i] = <<>> /\ DOMAIN lag'[i] = {}
    BY <2>1
  <2> QED
    BY <2>1, <2>2 DEF Shown, Routed, Stands
<1>7. CASE ReceiveVersion \/ ReceiveList \/ PeriodicResync \/ UserWrite \/ UNCHANGED vars
  BY <1>1, <1>7 DEF ReceiveVersion, ReceiveList, PeriodicResync, UserWrite, vars
<1> QED
  BY <1>3, <1>4, <1>5, <1>6, <1>7 DEF Next

-----------------------------------------------------------------------------
(* The configurations in circulation. *)

\* A write stores a configuration that was there, or the next one.
LEMMA ConfigurationsWritten ==
  ASSUME OrderInv, [Next]_vars, Exists(cr')
  PROVE  \/ cr' = cr
         \/ Exists(cr) /\ cr'.conf = cr.conf
         \/ Exists(obj) /\ cr'.conf = obj.conf
         \/ cr'.conf = edits + 1
<1>1. /\ TypeInv /\ obj \in Version /\ cr \in Version /\ edits \in Nat /\ rv \in Nat
      /\ (pc # "idle" => Exists(obj))
  BY OrderFacts, StreamFacts DEF OrderInv, VersionsInv, ConfigurationsInOrder
<1>2. ASSUME NEW v, Store(v) PROVE cr' = Stored(v)
  BY <1>2 DEF Store
<1>3. \A v \in Version : Stored(v).conf = v.conf
  BY StoredFields
<1>4. Remove => ~Exists(cr')
  BY DEF Remove, NoObject, Exists
<1>5. CASE AddFinalizerCall
  <2>1. pc = "addFinalizer" /\ (cr' = cr \/ AddFinalizer(obj))
    BY <1>5 DEF AddFinalizerCall
  <2>2. CASE AddFinalizer(obj)
    <3>1. cr' = Stored(Defaulted([obj EXCEPT !.fin = TRUE]))
      BY <2>2 DEF AddFinalizer, Store
    <3>2. cr'.conf = obj.conf
      BY <1>1, <3>1, FinalizedFields, StoredFields
    <3> QED
      BY <1>1, <2>1, <3>2
  <2> QED
    BY <2>1, <2>2
<1>6. CASE UpdateStatus
  <2>1. cr' = cr \/ WriteStatus(obj, obj.replicas)
    BY <1>6 DEF UpdateStatus
  <2>2. /\ [cr EXCEPT !.status = obj.replicas] \in Version
        /\ [cr EXCEPT !.status = obj.replicas].conf = cr.conf
    BY <1>1 DEF Version
  <2>3. CASE WriteStatus(obj, obj.replicas)
    <3>1. Exists(cr) /\ (cr' = cr \/ Store([cr EXCEPT !.status = obj.replicas]))
      BY <2>3 DEF WriteStatus, Current
    <3> QED
      BY <1>2, <1>3, <2>2, <3>1
  <2> QED
    BY <2>1, <2>3
<1>7. CASE RemoveFinalizerCall
  BY <1>4, <1>7 DEF RemoveFinalizerCall, RemoveFinalizer
<1>8. CASE Worker /\ ~(AddFinalizerCall \/ UpdateStatus \/ RemoveFinalizerCall)
  BY <1>8, LocalSteps
<1>9. CASE UserWrite
  <2>1. User
    BY <1>9 DEF UserWrite
  <2>2. CASE \E n \in ReplicaCounts : UserCreate(n)
    <3>1. PICK n \in ReplicaCounts : UserCreate(n)
      BY <2>2
    <3> DEFINE v == [NoObject EXCEPT !.replicas = n]
               w == [v EXCEPT !.conf = edits + 1]
    <3>2. v \in Version
      BY ReplicasAssumption, NoObjectIsVersion DEF Version
    <3> HIDE DEF v
    <3>3. w \in Version /\ w.conf = edits + 1
      BY <1>1, <3>2 DEF Version
    <3>4. Store(w)
      BY <3>1 DEF UserCreate, v
    <3> HIDE DEF w
    <3> QED
      BY <1>2, <1>3, <3>3, <3>4
  <2>3. CASE \E n \in ReplicaCounts : UserScale(n)
    <3>1. PICK n \in ReplicaCounts : UserScale(n)
      BY <2>3
    <3> DEFINE v == [cr EXCEPT !.replicas = n]
    <3>2. v \in Version /\ v.conf = cr.conf
      BY <1>1, ReplicasAssumption DEF Version
    <3>3. Store(v) /\ Exists(cr)
      BY <3>1 DEF UserScale
    <3> HIDE DEF v
    <3> QED
      BY <1>2, <1>3, <3>2, <3>3
  <2>4. CASE UserReconfigure
    <3> DEFINE v == [cr EXCEPT !.conf = edits + 1]
    <3>1. v \in Version /\ v.conf = edits + 1
      BY <1>1 DEF Version
    <3>2. Store(v)
      BY <2>4 DEF UserReconfigure
    <3> HIDE DEF v
    <3> QED
      BY <1>2, <1>3, <3>1, <3>2
  <2>5. CASE UserDelete
    <3> DEFINE v == [cr EXCEPT !.del = TRUE]
    <3>1. v \in Version /\ v.conf = cr.conf
      BY <1>1 DEF Version
    <3>2. Exists(cr) /\ (Store(v) \/ Remove)
      BY <2>5 DEF UserDelete
    <3> HIDE DEF v
    <3> QED
      BY <1>2, <1>3, <1>4, <3>1, <3>2
  <2> QED
    BY <2>1, <2>2, <2>3, <2>4, <2>5 DEF User
<1>10. CASE ReceiveVersion \/ ReceiveList \/ PeriodicResync \/ Crash
  BY <1>1, <1>10, DeliverySteps
<1>11. CASE \/ \E i \in Informers : ReceiveChild(i)
            \/ \E o \in Objects : Touch(o)
            \/ UNCHANGED vars
  BY <1>11, OtherSteps DEF crVars
<1> QED
  BY <1>5, <1>6, <1>7, <1>8, <1>9, <1>10, <1>11 DEF Next

LEMMA StepConfigured ==
  ASSUME OrderInv, Configured, [Next]_vars
  PROVE  Configured'
<1>1. TypeInv /\ edits \in Nat /\ obj \in Versions /\ cr \in Versions /\ crCache \in Versions
  BY OrderFacts DEF OrderInv, VersionsInv, Versions
<1>2. Exists(cr') => cr'.conf > 0
  <2>1. Exists(obj) => obj.conf > 0
    BY <1>1 DEF Configured
  <2>2. Exists(cr) => cr.conf > 0
    BY <1>1 DEF Configured
  <2>3. edits + 1 > 0
    BY <1>1
  <2> QED
    BY <2>1, <2>2, <2>3, ConfigurationsWritten
<1>3. /\ crCache' \in Versions \cup {cr'} /\ Announced' \subseteq Versions \cup {cr'}
      /\ Holds \/ obj' \in {obj, NoObject}
  <2>1. CASE AddFinalizerCall \/ UpdateStatus \/ RemoveFinalizerCall
    <3>1. Worker
      BY <2>1 DEF Worker
    <3> QED
      BY <1>1, <2>1, <3>1, ResourceWrites, WriteAnnounces, WorkerHolds
  <2>2. CASE Worker /\ ~(AddFinalizerCall \/ UpdateStatus \/ RemoveFinalizerCall)
    <3>1. UNCHANGED <<cr, rv, crCache, watch, edits>>
      BY <2>2, LocalSteps
    <3>2. Announced' = Announced
      BY <3>1 DEF Announced
    <3> QED
      BY <1>1, <2>2, <3>1, <3>2, WorkerHolds DEF Versions
  <2>3. CASE UserWrite
    BY <1>1, <2>3, UserWrites, WriteAnnounces
  <2>4. CASE ReceiveVersion \/ ReceiveList \/ PeriodicResync \/ Crash
    BY <1>1, <2>4, DeliverySteps DEF Versions
  <2>5. CASE \/ \E i \in Informers : ReceiveChild(i)
             \/ \E o \in Objects : Touch(o)
             \/ UNCHANGED vars
    <3>1. UNCHANGED <<cr, rv, crCache, watch, obj>>
      BY <2>5, OtherSteps DEF crVars
    <3>2. Announced' = Announced
      BY <3>1 DEF Announced
    <3> QED
      BY <1>1, <3>1, <3>2 DEF Versions
  <2> QED
    BY <2>1, <2>2, <2>3, <2>4, <2>5 DEF Next
<1>4. \A v \in Versions \cup {cr'} : Exists(v) => v.conf > 0
  BY <1>2 DEF Configured
<1>5. Exists(obj') => obj'.conf > 0
  <2>1. ~Exists(NoObject)
    BY DEF NoObject, Exists
  <2>2. CASE Holds
    BY <1>1, <1>4, <2>1, <2>2 DEF Holds
  <2>3. CASE obj' \in {obj, NoObject}
    BY <1>1, <1>4, <2>1, <2>3
  <2> QED
    BY <1>3, <2>2, <2>3
<1>6. Versions' \subseteq Versions \cup {cr', obj'}
  BY <1>3 DEF Versions
<1>7. \A v \in Versions' : v.rv > 0 => v.conf > 0
  BY <1>4, <1>5, <1>6 DEF Exists
<1> QED
  BY <1>7 DEF Configured, Exists

-----------------------------------------------------------------------------
(* What an update has brought about. *)

LEMMA NothingFails ==
  ASSUME TypeInv, Undisturbed', [Next]_vars
  PROVE  /\ Undisturbed
         /\ ~Fault /\ touches' # touches + 1
         /\ \A o, c : Try(o, c) <=> Put(o, c) /\ UNCHANGED faults
<1>1. faults \in Nat /\ touches \in Nat
  BY FaultBoundsAssumption DEF TypeInv, TypeOK, FaultTypeOK
<1>2. faults' = 0 /\ touches' = 0
  BY DEF Undisturbed
<1>3. ~Fault /\ touches' # touches + 1
  BY <1>1, <1>2 DEF Fault
<1>4. faults' = faults
  BY <1>3 DEF Next, Worker, ReconcileNotFound, Reconcile, Take, AddFinalizerCall,
     CreateConfigMaps, SkipExisting, GetService, CreateService, CreateSIP, CreateInstance,
     StartUpdate, UpdateConfigMaps, UpdateSIP, UpdateInstance, UpdateStatus,
     RemoveFinalizerCall, StartDelete, DeleteService, DeleteExporter, DeleteCached,
     DeleteInstance, ListConfigMaps, DeleteConfigMap, FinishDelete, Try, ReceiveVersion,
     ReceiveList, PeriodicResync, ReceiveChild, Touch, Crash, UserWrite, vars, faultVars
<1>5. touches' = touches
  BY <1>3 DEF Next, Worker, ReconcileNotFound, Reconcile, Take, AddFinalizerCall,
     CreateConfigMaps, SkipExisting, GetService, CreateService, CreateSIP, CreateInstance,
     StartUpdate, UpdateConfigMaps, UpdateSIP, UpdateInstance, UpdateStatus,
     RemoveFinalizerCall, StartDelete, DeleteService, DeleteExporter,
     DeleteInstance, ListConfigMaps, DeleteConfigMap, FinishDelete, ReceiveVersion,
     ReceiveList, PeriodicResync, ReceiveChild, Touch, Crash, UserWrite, vars, faultVars,
     sameFaults
<1>6. Undisturbed
  BY <1>2, <1>4, <1>5 DEF Undisturbed
<1> QED
  BY <1>3, <1>4, <1>6 DEF Try

\* A cache of Deployments or Services that does not lag is read as it is.
LEMMA ReadsCurrent ==
  ASSUME TypeInv, Shown, Lagging \subseteq {"configmaps"}, NEW r \in 1..MaxReplicas,
         NEW o \in {Instance(r), Service(r)}
  PROVE  IF Get(o) = "absent" THEN child[o] = 0 ELSE Get(o) = "current"
<1>1. o \in Objects
  BY NamesAreObjects
<1>2. InformerOf(o) \in Informers /\ InformerOf(o) \notin Lagging
  BY DEF InformerOf, Instance, Service, Informers
<1>3. lag[InformerOf(o)] = <<>> /\ (o \in childCache <=> child[o] # 0)
  BY <1>1, <1>2 DEF Shown, Routed, Stands
<1>4. ~Pending(o)
  BY <1>3 DEF Pending
<1> QED
  BY <1>3, <1>4 DEF Get

\* One object is written: bridges of other numbers are as they were, and so is
\* what else belongs to the bridge.
LEMMA OneWritten ==
  ASSUME TypeInv, NEW r \in 1..MaxReplicas, NEW c \in Nat,
         NEW o \in {Instance(r), Service(r), Exporter(r), SIP(r)}, Put(o, c)
  PROVE  /\ child'[o] = c
         /\ child'[Shared] = child[Shared]
         /\ \A p \in {Instance(r), Service(r), Exporter(r), SIP(r)} :
              p # o => child'[p] = child[p]
         /\ \A q \in Bridges : \A d : q # r => (Whole(q, d)' <=> Whole(q, d))
<1>1. /\ o \in Objects /\ Shared \in Objects
      /\ \A q \in Bridges : /\ Instance(q) \in Objects /\ Service(q) \in Objects
                            /\ Exporter(q) \in Objects /\ SIP(q) \in Objects
  BY NamesAreObjects DEF Bridges
<1>2. child'[o] = c /\ \A p \in Objects : p # o => child'[p] = child[p]
  BY <1>1, PutChild
<1>3. o # Shared
  BY DEF Instance, Service, Exporter, SIP, Shared
<1>4. ASSUME NEW q \in Bridges, q # r
      PROVE  o # Instance(q) /\ o # Service(q) /\ o # Exporter(q) /\ o # SIP(q)
  BY <1>4 DEF Instance, Service, Exporter, SIP
<1>5. ASSUME NEW q \in Bridges, NEW d, q # r PROVE Whole(q, d)' <=> Whole(q, d)
  <2>1. /\ child'[Instance(q)] = child[Instance(q)] /\ child'[Service(q)] = child[Service(q)]
        /\ child'[Exporter(q)] = child[Exporter(q)] /\ child'[SIP(q)] = child[SIP(q)]
    BY <1>1, <1>2, <1>4, <1>5
  <2> QED
    BY <2>1 DEF Whole, Stands, Instance, Service, Exporter, SIP
<1>6. r \in Bridges
  BY DEF Bridges
<1> QED
  BY <1>1, <1>2, <1>3, <1>5, <1>6

LEMMA NamesDiffer == \A r :
  /\ Instance(r) # Service(r) /\ Instance(r) # Exporter(r) /\ Instance(r) # SIP(r)
  /\ Service(r) # Exporter(r) /\ Service(r) # SIP(r) /\ Exporter(r) # SIP(r)
  BY DEF Instance, Service, Exporter, SIP

\* The steps that do not lead into an update or on in it.
Elsewhere == ~Updating /\ pc # "updateStatus"

LEMMA ElsewhereSteps ==
  ASSUME TypeInv, Worker,
         ~(UpdateConfigMaps \/ UpdateSIP \/ UpdateInstance),
         ~(GetService /\ pc = "getService"), ~(CreateService /\ loop # "create")
  PROVE  Elsewhere'
<1> USE DEF Elsewhere, Updating, Round, Goto, Done, Return, Release
<1>1. CASE ReconcileNotFound \/ Reconcile
  BY <1>1 DEF ReconcileNotFound, Reconcile, Take, workerVars
<1>2. CASE AddFinalizerCall \/ CreateConfigMaps \/ SkipExisting \/ CreateSIP \/ CreateInstance
  BY <1>2 DEF AddFinalizerCall, CreateConfigMaps, SkipExisting, CreateSIP, CreateInstance
<1>3. CASE GetService
  BY <1>3 DEF GetService, TypeInv, LoopsInRange
<1>4. CASE CreateService
  BY <1>4 DEF CreateService
<1>5. CASE StartUpdate \/ UpdateStatus
  BY <1>5 DEF StartUpdate, UpdateStatus, ScaleDownFrom
<1>6. CASE \/ RemoveFinalizerCall \/ StartDelete \/ DeleteService \/ DeleteExporter
           \/ DeleteInstance \/ ListConfigMaps \/ DeleteConfigMap \/ FinishDelete
  BY <1>6 DEF RemoveFinalizerCall, StartDelete, DeleteService, DeleteExporter, DeleteInstance,
     ScaleDownFrom, DeleteFrom, ListConfigMaps, DeleteConfigMap, FinishDelete
<1> QED
  BY <1>1, <1>2, <1>3, <1>4, <1>5, <1>6 DEF Worker

LEMMA ElsewhereFree ==
  ASSUME Elsewhere'
  PROVE  BroughtAbout'
  BY DEF Elsewhere, BroughtAbout, Updating

LEMMA UpdateFacts ==
  ASSUME OrderInv, Configured
  PROVE  /\ TypeInv /\ obj \in Version /\ obj.conf \in Nat /\ obj.replicas \in 0..MaxReplicas
         /\ pc # "idle" => obj.conf # 0
         /\ Updating => /\ replica \in 1..MaxReplicas /\ pc \in PerReplica
                        /\ \A r \in 1..(replica - 1) : r \in Bridges /\ r # replica
<1>1. TypeInv /\ obj \in Version /\ obj.conf \in Nat /\ obj.replicas \in 0..MaxReplicas
  BY OrderFacts DEF OrderInv, VersionsInv, Version
<1>2. pc # "idle" => obj.conf # 0
  <2>1. pc # "idle" => Exists(obj)
    BY DEF OrderInv, ConfigurationsInOrder
  <2>2. Exists(obj) => obj.conf > 0
    BY DEF Configured, Versions
  <2> QED
    BY <1>1, <2>1, <2>2
<1>3. Updating => pc \in PerReplica
  BY DEF Updating, PerReplica
<1>4. pc \in PerReplica => replica \in 1..MaxReplicas
  BY <1>1 DEF TypeInv, LoopsInRange
<1>5. ASSUME replica \in 1..MaxReplicas, NEW r \in 1..(replica - 1)
      PROVE  r \in Bridges /\ r # replica
  BY <1>5, ReplicasAssumption DEF Bridges
<1> QED
  BY <1>1, <1>2, <1>3, <1>4, <1>5

\* One more bridge has been updated, or none yet.
LEMMA RoundGoesOn ==
  ASSUME NEW r \in Nat, r > 0, UpdateFrom(r), obj \in Version,
         child'[Shared] = obj.conf, \A q \in 1..(r - 1) : Whole(q, obj.conf)'
  PROVE  BroughtAbout'
<1>1. obj' = obj /\ obj.replicas \in Nat
  BY DEF UpdateFrom, Done, Round, Version
<1>2. CASE r <= obj.replicas
  <2>1. Round("update", r, "update")
    BY <1>2 DEF UpdateFrom
  <2>2. pc' = "update" /\ replica' = r
    BY <2>1 DEF Round
  <2>3. \A q \in 1..(replica' - 1) : Whole(q, obj.conf)'
    BY <2>2
  <2>4. (\A q \in 1..(replica - 1) : Whole(q, obj.conf))'
    BY <1>1, <2>3 DEF Whole, Stands
  <2> QED
    BY <1>1, <2>2, <2>4 DEF BroughtAbout, Updating, Shared
<1>3. CASE ~(r <= obj.replicas)
  <2>1. pc' = "updateStatus"
    BY <1>3 DEF UpdateFrom, Done, Round
  <2>2. \A q \in 1..obj.replicas : q \in 1..(r - 1)
    BY <1>1, <1>3
  <2>3. \A q \in 1..obj.replicas : Whole(q, obj.conf)'
    BY <2>2
  <2>4. Provisioned(obj)'
    BY <1>1, <2>3 DEF Provisioned, Whole, Stands, Shared
  <2> QED
    BY <2>1, <2>4 DEF BroughtAbout, Updating
<1> QED
  BY <1>2, <1>3

LEMMA StepBringsAbout ==
  ASSUME OrderInv, Configured, Shown, Lagging \subseteq {"configmaps"}, BroughtAbout,
         Undisturbed', [Next]_vars
  PROVE  BroughtAbout'
<1> USE NothingFails, UpdateFacts
<1> DEFINE Lower == child[Shared] = obj.conf /\ \A r \in 1..(replica - 1) : Whole(r, obj.conf)
<1>1. CASE UpdateConfigMaps
  <2>1. Put(Shared, obj.conf) /\ UpdateFrom(1) /\ Shared \in Objects
    BY <1>1, NamesAreObjects DEF UpdateConfigMaps
  <2>2. child'[Shared] = obj.conf
    BY <2>1, PutChild
  <2>3. 1 \in Nat /\ 1 > 0 /\ 1..(1 - 1) = {}
    OBVIOUS
  <2> QED
    BY <2>1, <2>2, <2>3, RoundGoesOn
\* The four calls of a round write one object of the bridge.
<1>2. ASSUME Updating,
             NEW o \in {Instance(replica), Service(replica), Exporter(replica), SIP(replica)},
             NEW c \in Nat, Put(o, c), obj' = obj
      PROVE  /\ child'[o] = c /\ child'[Shared] = obj.conf
             /\ \A p \in {Instance(replica), Service(replica), Exporter(replica), SIP(replica)} :
                  p # o => child'[p] = child[p]
             /\ \A r \in 1..(replica - 1) : Whole(r, obj.conf)'
  <2>1. replica \in 1..MaxReplicas /\ Lower
    BY <1>2 DEF BroughtAbout
  <2>2. PICK n : n = replica
    OBVIOUS
  <2>3. \A q \in Bridges : \A d : q # n => (Whole(q, d)' <=> Whole(q, d))
    BY <1>2, <2>1, <2>2, OneWritten
  <2>4. \A r \in 1..(replica - 1) : r \in Bridges /\ r # n
    BY <1>2, <2>2
  <2>5. \A r \in 1..(replica - 1) : Whole(r, obj.conf)'
    <3>1. PICK d : d = obj.conf
      OBVIOUS
    <3>2. \A r \in 1..(replica - 1) : Whole(r, d)'
      BY <2>1, <2>3, <2>4, <3>1
    <3> QED
      BY <1>2, <3>1, <3>2 DEF Whole
  <2> QED
    BY <1>2, <2>1, <2>5, OneWritten
\* The round goes on at the same bridge.
<1>3. ASSUME obj' = obj, replica' = replica, child'[Shared] = obj.conf,
             \A r \in 1..(replica - 1) : Whole(r, obj.conf)'
      PROVE  child'[Shared] = obj'.conf /\ (\A r \in 1..(replica - 1) : Whole(r, obj.conf))'
  BY <1>3 DEF Whole, Stands
<1>4. CASE UpdateSIP
  <2>1. pc = "update" /\ Updating /\ Put(SIP(replica), obj.conf)
    BY <1>4 DEF UpdateSIP, Updating
  <2>2. CASE pc' = "idle"
    BY <2>2, ElsewhereFree DEF Elsewhere, Updating
  <2>3. CASE pc' # "idle"
    <3>1. /\ pc' = "getService" /\ instance' = Get(Instance(replica))
          /\ Get(Instance(replica)) # "absent" /\ obj' = obj /\ replica' = replica
      BY <1>4, <2>3 DEF UpdateSIP, Return, Release
    <3>2. instance' = "current"
      BY <2>1, <3>1, ReadsCurrent
    <3>3. /\ child'[SIP(replica)] = obj.conf /\ child'[Shared] = obj.conf
          /\ \A r \in 1..(replica - 1) : Whole(r, obj.conf)'
      BY <1>2, <2>1, <3>1
    <3>4. child'[SIP(replica)'] = obj'.conf
      BY <3>1, <3>3 DEF SIP
    <3> QED
      BY <1>3, <3>1, <3>2, <3>3, <3>4 DEF BroughtAbout, Updating, Shared
  <2> QED
    BY <2>2, <2>3
<1>5. CASE GetService /\ pc = "getService"
  <2>1. /\ Updating /\ Put(Exporter(replica), AfterCreate(Exporter(replica)))
        /\ pc' = "createService" /\ service' = Get(Service(replica))
        /\ UNCHANGED <<loop, obj, replica, instance>>
    BY <1>5 DEF GetService, Updating
  <2>2. /\ AfterCreate(Exporter(replica)) # 0 /\ AfterCreate(Exporter(replica)) \in Nat
    <3>1. Exporter(replica) \in Objects
      BY <2>1, InRange
    <3>2. AfterCreate(Exporter(replica)) \in Nat
      BY <3>1, RenderedType DEF TypeInv
    <3>3. obj.conf # 0
      BY <1>5
    <3> QED
      BY <3>2, <3>3 DEF AfterCreate
  <2>3. /\ child'[Exporter(replica)] # 0 /\ child'[Shared] = obj.conf
        /\ child'[SIP(replica)] = child[SIP(replica)]
        /\ child'[Service(replica)] = child[Service(replica)]
        /\ \A r \in 1..(replica - 1) : Whole(r, obj.conf)'
    BY <1>2, <2>1, <2>2, NamesDiffer
  <2>4. child[SIP(replica)] = obj.conf /\ instance = "current"
    BY <1>5, <2>1 DEF BroughtAbout
  <2>5. IF service' = "absent" THEN child[Service(replica)] = 0 ELSE service' = "current"
    BY <2>1, ReadsCurrent
  <2>6. /\ child'[SIP(replica)'] = obj'.conf /\ child'[Exporter(replica)'] # 0
        /\ IF service' = "absent" THEN child'[Service(replica)'] = 0 ELSE service' = "current"
    BY <2>1, <2>3, <2>4, <2>5 DEF SIP, Exporter, Service
  <2> QED
    BY <1>3, <2>1, <2>3, <2>4, <2>6 DEF BroughtAbout, Updating, Stands, Shared
<1>6. CASE CreateService /\ loop # "create"
  <2> DEFINE o == Service(replica)
             c == IF service = "absent" THEN AfterCreate(o) ELSE AfterUpdate(o, service)
  <2>1. /\ Updating /\ pc = "createService" /\ Put(o, c)
        /\ pc' = "updateInstance" /\ UNCHANGED <<obj, replica, instance>>
    BY <1>6 DEF CreateService, Updating, Goto
  <2>2. c = obj.conf
    BY <2>1 DEF BroughtAbout, AfterCreate, AfterUpdate
  <2>3. /\ child[SIP(replica)] = obj.conf /\ instance = "current" /\ child[Exporter(replica)] # 0
    BY <2>1 DEF BroughtAbout, Stands
  <2>4. /\ child'[o] = obj.conf /\ child'[Shared] = obj.conf
        /\ child'[SIP(replica)] = obj.conf /\ child'[Exporter(replica)] # 0
        /\ \A r \in 1..(replica - 1) : Whole(r, obj.conf)'
    <3> HIDE DEF c
    <3> QED
      BY <1>2, <2>1, <2>2, <2>3, NamesDiffer
  <2>5. /\ child'[SIP(replica)'] = obj'.conf /\ child'[Exporter(replica)'] # 0
        /\ child'[Service(replica)'] = obj'.conf
    BY <2>1, <2>4 DEF SIP, Exporter, Service
  <2> QED
    BY <1>3, <2>1, <2>3, <2>4, <2>5 DEF BroughtAbout, Updating, Stands, Shared
<1>7. CASE UpdateInstance
  <2>1. /\ Updating /\ pc = "updateInstance" /\ UpdateFrom(replica + 1) /\ obj' = obj
        /\ Put(Instance(replica), AfterUpdate(Instance(replica), instance))
    BY <1>7 DEF UpdateInstance, Updating, UpdateFrom, Done, Round
  <2>2. /\ child[SIP(replica)] = obj.conf /\ instance = "current"
        /\ child[Exporter(replica)] # 0 /\ child[Service(replica)] = obj.conf
    BY <2>1 DEF BroughtAbout, Stands
  <2>3. AfterUpdate(Instance(replica), instance) = obj.conf
    BY <2>2 DEF AfterUpdate
  <2>4. /\ child'[Instance(replica)] = obj.conf /\ child'[Shared] = obj.conf
        /\ child'[SIP(replica)] = obj.conf /\ child'[Exporter(replica)] # 0
        /\ child'[Service(replica)] = obj.conf
        /\ \A r \in 1..(replica - 1) : Whole(r, obj.conf)'
    BY <1>2, <2>1, <2>2, <2>3, NamesDiffer
  <2>5. PICK n : n = replica
    OBVIOUS
  <2>6. Whole(n, obj.conf)'
    BY <2>1, <2>4, <2>5 DEF Whole, Stands, Instance, Service, Exporter, SIP
  <2>7. replica \in Nat /\ replica > 0
    BY <2>1, ReplicasAssumption
  <2>8. \A q \in 1..((n + 1) - 1) : q \in 1..(n - 1) \/ q = n
    BY <2>5, <2>7
  <2>9. \A q \in 1..((n + 1) - 1) : Whole(q, obj.conf)'
    BY <2>4, <2>5, <2>6, <2>8
  <2>10. n + 1 \in Nat /\ n + 1 > 0
    BY <2>5, <2>7
  <2> QED
    BY <2>1, <2>4, <2>5, <2>9, <2>10, RoundGoesOn
<1>8. CASE \/ Worker /\ ~(UpdateConfigMaps \/ UpdateSIP \/ UpdateInstance)
              /\ ~(GetService /\ pc = "getService") /\ ~(CreateService /\ loop # "create")
           \/ Crash
  <2>1. Crash => Elsewhere'
    BY DEF Crash, Release, Elsewhere, Updating
  <2> QED
    BY <1>8, <2>1, ElsewhereSteps, ElsewhereFree
<1>9. CASE \/ ReceiveVersion \/ ReceiveList \/ PeriodicResync \/ UserWrite \/ UNCHANGED vars
           \/ \E i \in Informers : ReceiveChild(i)
  <2>1. UNCHANGED workerVars /\ child' = child
    BY <1>9 DEF ReceiveVersion, ReceiveList, PeriodicResync, UserWrite, ReceiveChild, vars,
       childVars
  <2>2. UNCHANGED <<pc, loop, obj, replica, service, instance>>
    BY <2>1 DEF workerVars
  <2> QED
    BY <2>1, <2>2 DEF BroughtAbout, Updating, Provisioned, Whole, Stands, Instance, Service,
       Exporter, SIP, Shared
<1>10. ~\E o \in Objects : Touch(o)
  BY DEF Touch
<1> QED
  BY <1>1, <1>4, <1>5, <1>6, <1>7, <1>8, <1>9, <1>10 DEF Next

-----------------------------------------------------------------------------
(* A worker that has become idle. *)

LEMMA IdleSteps ==
  ASSUME OrderInv, StageOK, NothingLost, BroughtAbout, IdleServed, relists = 0,
         Undisturbed', Worker, pc' = "idle"
  PROVE  IdleServed'
<1>1. ~Fault
  BY NothingFails DEF OrderInv, VersionsInv, Next
<1> SUFFICES ASSUME Live', ~Coming' PROVE Provisioned(cr)'
  BY DEF IdleServed
<1>2. CASE ReconcileNotFound
  <2>1. ~Exists(crCache) /\ UNCHANGED <<cr, crCache, watch>>
    BY <1>2 DEF ReconcileNotFound, Take
  <2>2. Exists(cr) /\ AsksElse(crCache, cr)
    BY <2>1 DEF Live, Exists, AsksElse
  <2>3. 0 \in 0..Len(watch) /\ At(crCache, watch, 0) = crCache
    BY StreamFacts DEF At
  <2>4. Due(crCache, watch, 0)
    BY <2>2, <2>3 DEF NothingLost, StreamOK
  <2>5. Coming'
    BY <2>1, <2>4 DEF Coming
  <2> QED
    BY <2>5
<1>3. CASE UpdateSIP
  <2>1. queued'
    BY <1>3 DEF UpdateSIP, Return
  <2> QED
    BY <2>1 DEF Coming
<1>4. CASE UpdateStatus
  <2>1. pc = "updateStatus" /\ child' = child
    BY <1>4 DEF UpdateStatus, childVars
  <2>2. Return(TRUE) => queued'
    BY DEF Return
  <2>3. WriteStatus(obj, obj.replicas)
    BY <1>1, <1>4, <2>2 DEF UpdateStatus, Coming
  <2>4. Provisioned(obj)
    BY <2>1 DEF BroughtAbout
  <2>5. obj.conf = cr.conf /\ obj.replicas = cr.replicas /\ cr \in Version /\ obj \in Version
    BY <2>3, StreamFacts DEF WriteStatus, Current, Agrees
  <2> DEFINE v == [cr EXCEPT !.status = obj.replicas]
  <2>6. v \in Version /\ v.conf = cr.conf /\ v.replicas = cr.replicas
    BY <2>5 DEF Version
  <2>7. cr' = cr \/ cr' = Stored(v)
    BY <2>3 DEF WriteStatus, Store
  <2>8. cr'.conf = obj.conf /\ cr'.replicas = obj.replicas
    <3> HIDE DEF v
    <3> QED
      BY <2>5, <2>6, <2>7, StoredFields
  <2> QED
    BY <2>1, <2>4, <2>8 DEF Provisioned, Whole, Stands, Instance, Service, Exporter, SIP, Shared
<1>5. CASE FinishDelete
  <2>1. pc = "deleteCMs" /\ UNCHANGED <<cr, crCache, watch>> /\ queued' = (queued \/ FALSE)
    BY <1>5 DEF FinishDelete, Return
  <2>2. obj.del /\ Exists(cr) /\ ~cr.del
    BY <2>1 DEF StageOK, Deletes, Live, Exists
  <2>3. obj.rv # cr.rv
    BY <2>2, StreamFacts DEF Agrees
  <2>4. Coming
    BY <2>1, <2>2, <2>3 DEF NothingLost, AsksElse
  <2>5. queued \in BOOLEAN
    BY DEF OrderInv, VersionsInv, TypeInv, TypeOK, CRTypeOK
  <2>6. Coming'
    BY <2>1, <2>4, <2>5 DEF Coming
  <2> QED
    BY <2>6
<1>6. ~(\/ Reconcile \/ AddFinalizerCall \/ CreateConfigMaps \/ SkipExisting \/ GetService
        \/ CreateService \/ CreateSIP \/ CreateInstance \/ StartUpdate \/ UpdateConfigMaps
        \/ UpdateInstance \/ RemoveFinalizerCall \/ StartDelete \/ DeleteService
        \/ DeleteExporter \/ DeleteInstance \/ ListConfigMaps \/ DeleteConfigMap)
  BY DEF Reconcile, AddFinalizerCall, CreateConfigMaps, SkipExisting, GetService,
     CreateService, CreateSIP, CreateInstance, StartUpdate, UpdateConfigMaps, UpdateInstance,
     RemoveFinalizerCall, StartDelete, DeleteService, DeleteExporter, DeleteInstance,
     ListConfigMaps, DeleteConfigMap, Round, Goto, Done, ScaleDownFrom, UpdateFrom, DeleteFrom
<1> QED
  BY <1>2, <1>3, <1>4, <1>5, <1>6 DEF Worker

LEMMA StepIdleServed ==
  ASSUME OrderInv, StageOK, NothingLost, BroughtAbout, IdleServed, relists = 0, relists' = 0,
         Undisturbed', [Next]_vars
  PROVE  IdleServed'
<1> SUFFICES ASSUME pc' = "idle", Live', ~Coming' PROVE Provisioned(cr)'
  BY DEF IdleServed
<1>1. CASE Worker
  BY <1>1, IdleSteps DEF IdleServed
<1>2. CASE UserWrite
  BY <1>2, UserStepLosesNothing DEF Live, Exists
<1>3. CASE Crash
  <2>1. cr' = cr /\ queued' = Exists(cr)
    BY <1>3 DEF Crash, RestartInformer
  <2> QED
    BY <2>1 DEF Live, Exists, Coming
<1>4. ~ReceiveList
  BY DEF ReceiveList, Relist
<1>5. CASE PeriodicResync
  BY <1>5 DEF PeriodicResync, Resync, Coming
<1>6. CASE \/ ReceiveVersion \/ (\E i \in Informers : ReceiveChild(i))
           \/ (\E o \in Objects : Touch(o)) \/ UNCHANGED vars
  <2>1. UNCHANGED <<cr, pc, child>>
    BY <1>6 DEF ReceiveVersion, Deliver, ReceiveChild, Touch, vars, workerVars, childVars, crVars
  <2>2. ~Coming
    <3>1. CASE ReceiveVersion
      BY <3>1, DeliveryComes
    <3>2. CASE ~ReceiveVersion
      <4>1. UNCHANGED <<crCache, watch, queued>>
        BY <1>6, <3>2 DEF ReceiveChild, Touch, vars, crVars
      <4> QED
        BY <4>1 DEF Coming
    <3> QED
      BY <3>1, <3>2
  <2>3. Provisioned(cr)
    BY <2>1, <2>2 DEF IdleServed, Live, Exists
  <2> QED
    BY <2>1, <2>3 DEF Provisioned, Whole, Stands, Instance, Service, Exporter, SIP, Shared
<1> QED
  BY <1>1, <1>2, <1>3, <1>4, <1>5, <1>6 DEF Next

LEMMA InitAmid == Init => AmidInv
<1> SUFFICES ASSUME Init PROVE AmidInv
  OBVIOUS
<1>1. /\ pc = "idle" /\ cr = NoObject /\ ~Exists(NoObject)
      /\ childCache = {} /\ child = [o \in Objects |-> 0]
      /\ lag = [i \in Informers |-> <<>>]
  BY DEF Init, CRInit, NoObject, Exists
<1>2. \A i \in Informers : lag[i] = <<>> /\ DOMAIN lag[i] = {}
  BY <1>1
<1>3. Shown
  BY <1>1, <1>2 DEF Shown, Routed, Stands
<1>4. Versions = {NoObject}
  BY DEF Init, CRInit, Versions, Announced
<1> QED
  BY <1>1, <1>3, <1>4 DEF AmidInv, Configured, BroughtAbout, Updating, IdleServed, Live

LEMMA StepAmid ==
  ASSUME Lagging \subseteq {"configmaps"}, OrderInv, StageOK, NothingLost, AmidInv, [Next]_vars
  PROVE  AmidInv'
<1>1. TypeInv /\ Shown /\ Configured
  BY DEF AmidInv, OrderInv, VersionsInv
<1>2. Shown' /\ Configured'
  BY <1>1, StepShows, StepConfigured
<1>3. ASSUME Undisturbed' PROVE BroughtAbout' /\ (relists' = 0 => IdleServed')
  <2>1. BroughtAbout /\ (relists = 0 => IdleServed)
    BY <1>1, <1>3, NothingFails DEF AmidInv
  <2>2. BroughtAbout'
    BY <1>1, <1>3, <2>1, StepBringsAbout
  <2>3. relists' = 0 => relists = 0
    <3>1. relists \in Nat /\ (relists' = relists \/ ReceiveList)
      <4>1. relists \in Nat
        BY <1>1, EditBoundsAssumption DEF TypeInv, TypeOK, CRTypeOK
      <4>2. CASE Worker
        BY <4>1, <4>2 DEF Worker, ReconcileNotFound, Reconcile, Take, AddFinalizerCall,
           CreateConfigMaps, SkipExisting, GetService, CreateService, CreateSIP,
           CreateInstance, StartUpdate, UpdateConfigMaps, UpdateSIP, UpdateInstance,
           UpdateStatus, RemoveFinalizerCall, StartDelete, DeleteService, DeleteExporter,
           DeleteInstance, ListConfigMaps, DeleteConfigMap, FinishDelete, sameCR, crVars
      <4>3. CASE UserWrite
        BY <4>1, <4>3, UserAsks
      <4>4. CASE ~Worker /\ ~UserWrite
        BY <4>1, <4>4 DEF Next, ReceiveVersion, Deliver, PeriodicResync, Resync,
           ReceiveChild, Touch, Crash, RestartInformer, vars, crVars
      <4> QED
        BY <4>2, <4>3, <4>4
    <3> QED
      BY <3>1 DEF ReceiveList, Relist
  <2> QED
    BY <1>3, <2>1, <2>2, <2>3, StepIdleServed
<1> QED
  BY <1>2, <1>3 DEF AmidInv

\* However the users write and whenever the manager restarts: when nothing is
\* queued, announced or running, every bridge asked for stands, rendered from the
\* present configuration.  Only config maps may be late, and nothing else may have
\* written a Deployment or Service: an Update that meets a Conflict is logged and
\* leaves the bridge as it was (Update, UpdateStatus).  Surplus bridges may be left
\* (StatusIsObserved).
THEOREM BridgesServedAmidWrites ==
  ASSUME Lagging \subseteq {"configmaps"}
  PROVE  Spec => []QuietMeansServed
<1>1. Init => StageOK
  BY DEF Init, StageOK, Renders, Removes, Deletes, Prepares
<1>2. OrderInv /\ StageOK /\ NothingLost /\ AmidInv /\ [Next]_vars
        => OrderInv' /\ StageOK' /\ NothingLost' /\ AmidInv'
  BY StepOrder, StepStage, StepLosesNothing, StepAmid
<1>3. AmidInv => QuietMeansServed
  <2> SUFFICES ASSUME AmidInv, Quiet, Live, Undisturbed, relists = 0 PROVE Provisioned(cr)
    BY DEF QuietMeansServed
  <2>1. ~Coming
    BY DEF Quiet, Coming, Due
  <2> QED
    BY <2>1 DEF AmidInv, IdleServed, Quiet
<1> QED
  BY <1>1, <1>2, <1>3, InitOrder, InitLosesNothing, InitAmid, PTL DEF Spec
=============================================================================
