---------------------------- MODULE JVBController ----------------------------
(***************************************************************************)
(* The controller of the JVB resource (internal/jitsi/jvb): one worker     *)
(* that reconciles the resource into numbered child objects - Deployment   *)
(* "jvb-N", Service "jvb-N", Service "exporter-jvb-N", ConfigMap           *)
(* "jvb-N-custom-sip" - and two config maps they share.                    *)
(*                                                                         *)
(* One action per call the worker makes to the API server, with the reads  *)
(* around it.  Reads come from the informer caches, which lag behind the   *)
(* server; writes go to the server, may be refused by the optimistic lock, *)
(* may fail, and may take effect although the caller sees a failure.  The  *)
(* process may stop between any two calls.                                 *)
(***************************************************************************)
EXTENDS CustomResource

CONSTANTS MaxFaults,    \* bound: API calls that fail
          MaxCrashes,   \* bound: restarts of the manager
          MaxTouches,   \* bound: writes of other controllers to child objects
          Lagging,      \* bound: the child informers whose caches may lag
          Patient       \* users write only when everything has settled

ASSUME FaultBoundsAssumption ==
  MaxFaults \in Nat /\ MaxCrashes \in Nat /\ MaxTouches \in Nat
ASSUME PatientAssumption == Patient \in BOOLEAN

Informers == {"deployments", "services", "configmaps"}
ASSUME LaggingAssumption == Lagging \subseteq Informers

VARIABLES
  pc,         \* the next call of the worker, or "idle"
  loop,       \* the loop that call belongs to
  obj,        \* the *v1beta1.JVB the worker holds
  replica,    \* j.replica, the loop counter
  service,    \* what the last getService returned
  instance,   \* what the last getInstance returned
  listed,     \* config maps deleteCMs still has to delete
  child,      \* the stored child objects: the configuration each was
              \* rendered from, 0 if it does not exist
  childCache, \* the child objects in the informer caches
  lag,        \* per informer, the changes its cache has not seen yet
  faults, crashes, touches

workerVars == <<pc, loop, obj, replica, service, instance, listed>>
childVars  == <<child, childCache, lag>>
faultVars  == <<faults, crashes, touches>>
vars == <<crVars, workerVars, childVars, faultVars>>

-----------------------------------------------------------------------------
(* Child objects. *)

Instance(r) == <<"instance", r>>
Service(r)  == <<"service", r>>
Exporter(r) == <<"exporter", r>>
SIP(r)      == <<"sip", r>>
\* jvb-graceful-shutdown and jvb-custom-logging go through the same calls in
\* the same places and stand here for one object.
Shared      == <<"shared", 0>>

Numbered   == {"instance", "service", "exporter", "sip"} \X (1..MaxReplicas)
Objects    == Numbered \cup {Shared}
ConfigMaps == {o \in Objects : o[1] \in {"sip", "shared"}}

InformerOf(o) ==
  CASE o[1] = "instance" -> "deployments"
    [] o[1] \in {"service", "exporter"} -> "services"
    [] OTHER -> "configmaps"

\* What a Get from a cache hands back: nothing, an object whose
\* resourceVersion the server has moved past, or the current object.
Readings == {"absent", "stale", "current"}

Pending(o) == \E k \in DOMAIN lag[InformerOf(o)] :
                lag[InformerOf(o)][k].object = o

Get(o) == IF o \notin childCache THEN "absent"
          ELSE IF Pending(o) THEN "stale" ELSE "current"

CacheWith(o, present) == IF present THEN childCache \cup {o}
                         ELSE childCache \ {o}

\* The server announces that o was written, or deleted.
Notice(o, present) ==
  IF InformerOf(o) \in Lagging
  THEN /\ lag' = [lag EXCEPT ![InformerOf(o)] =
                     Append(@, [object |-> o, present |-> present])]
       /\ UNCHANGED childCache
  ELSE /\ childCache' = CacheWith(o, present)
       /\ UNCHANGED lag

\* Make configuration c the stored state of o; storing what is stored already
\* is no write.
Put(o, c) ==
  /\ child' = [child EXCEPT ![o] = c]
  /\ IF child[o] = c THEN UNCHANGED <<childCache, lag>> ELSE Notice(o, c # 0)

Fault == faults < MaxFaults /\ faults' = faults + 1

\* A call on a child object whose error is logged and dropped by its caller.
Try(o, c) ==
  \/ Put(o, c) /\ UNCHANGED faults
  \/ Fault /\ UNCHANGED childVars

\* Create refuses an object that exists; every caller tolerates or logs that.
AfterCreate(o) == IF child[o] = 0 THEN obj.conf ELSE child[o]
\* Mutant: Update sends back what it read, without the new pod template.
AfterUpdateUnchanged(o, reading) == child[o]
\* Update sends the resourceVersion read before: Conflict unless it is current.
AfterUpdate(o, reading) == IF reading = "current" THEN obj.conf ELSE child[o]

-----------------------------------------------------------------------------
Steps == {"idle", "addFinalizer", "createConfigMaps", "create", "createSIP",
          "createInstance", "createService", "deleteService", "deleteExporter",
          "deleteInstance", "updateConfigMaps", "update", "getService",
          "updateInstance", "updateStatus", "removeFinalizer", "delete",
          "listCMs", "deleteCMs"}

WorkerTypeOK ==
  /\ pc \in Steps
  /\ loop \in {"none", "create", "scaleDown", "update", "delete"}
  /\ obj \in Version
  /\ replica \in 0..(MaxReplicas + 1)
  /\ service \in Readings /\ instance \in Readings
  /\ listed \subseteq ConfigMaps

ChildTypeOK ==
  /\ child \in [Objects -> Nat]
  /\ childCache \subseteq Objects
  /\ lag \in [Informers -> Seq([object : Objects, present : BOOLEAN])]

FaultTypeOK ==
  faults \in 0..MaxFaults /\ crashes \in 0..MaxCrashes /\ touches \in 0..MaxTouches

TypeOK == CRTypeOK /\ WorkerTypeOK /\ ChildTypeOK /\ FaultTypeOK

Init ==
  /\ CRInit
  /\ pc = "idle" /\ loop = "none"
  /\ obj = NoObject
  /\ replica = 0
  /\ service = "absent" /\ instance = "absent"
  /\ listed = {}
  /\ child = [o \in Objects |-> 0]
  /\ childCache = {}
  /\ lag = [i \in Informers |-> <<>>]
  /\ faults = 0 /\ crashes = 0 /\ touches = 0

-----------------------------------------------------------------------------
(* Control of the worker. *)

Goto(step) == pc' = step /\ UNCHANGED <<loop, obj, replica, service, instance, listed>>

\* The next round of a loop, at its first call.
Round(l, r, step) ==
  /\ loop' = l /\ replica' = r /\ pc' = step
  /\ service' = "absent" /\ instance' = "absent"
  /\ UNCHANGED <<obj, listed>>

Done(step) == Round("none", 0, step)

\* The worker lets go of the object; idle workers hold nothing.
Release ==
  /\ pc' = "idle" /\ loop' = "none"
  /\ obj' = NoObject /\ replica' = 0
  /\ service' = "absent" /\ instance' = "absent" /\ listed' = {}

\* Mutant: Reconcile logs the error of Update instead of returning it.
ReturnNil(err) == Release /\ UNCHANGED queued
\* Reconcile returns: nil, or an error that puts the key back on the queue.
Return(err) ==
  /\ Release
  /\ queued' = (queued \/ err)

sameCR == UNCHANGED crVars
sameFaults == UNCHANGED <<crashes, touches>>

\* The queue gives the key to the worker only when the worker is idle, and the
\* worker reads its object from the cache.  controller.go:57-95.
Take ==
  /\ pc = "idle" /\ queued
  /\ queued' = FALSE
  /\ UNCHANGED <<cr, rv, crCache, watch, edits, relists, childVars, faultVars>>

ReconcileNotFound == Take /\ ~Exists(crCache) /\ UNCHANGED workerVars

Reconcile ==
  /\ Take
  /\ Exists(crCache)
  /\ obj' = crCache
  /\ pc' = IF crCache.del THEN "removeFinalizer"
           ELSE IF crCache.fin THEN "createConfigMaps" ELSE "addFinalizer"
  /\ UNCHANGED <<loop, replica, service, instance, listed>>

\* utils.AddFinalizer, whose error is logged: the object in memory carries the
\* finalizer either way, and the stored one's answer replaces it on success.
AddFinalizerCall ==
  /\ pc = "addFinalizer"
  /\ pc' = "createConfigMaps"
  /\ UNCHANGED <<crCache, queued, edits, relists, loop, replica, service,
                 instance, listed, childVars>>
  /\ sameFaults
  /\ \/ AddFinalizer(obj) /\ obj' = cr' /\ UNCHANGED faults
     \/ /\ ~Current(obj)
        /\ obj' = [obj EXCEPT !.fin = TRUE]
        /\ UNCHANGED <<cr, rv, watch, faults>>
     \/ /\ Fault
        /\ obj' = [obj EXCEPT !.fin = TRUE]
        /\ AddFinalizer(obj) \/ UNCHANGED <<cr, rv, watch>>

-----------------------------------------------------------------------------
(* Create, deployment.go:49-84. *)

CreateConfigMaps ==
  /\ pc = "createConfigMaps"
  /\ Try(Shared, AfterCreate(Shared))
  /\ Round("create", 1, "create")
  /\ sameCR /\ sameFaults

SkipExisting ==
  /\ pc = "create" /\ replica <= obj.replicas
  /\ Get(Instance(replica)) # "absent"
  /\ Round("create", replica + 1, "create")
  /\ sameCR /\ UNCHANGED <<childVars, faultVars>>

\* servicePerInstance, deployment.go:163-180: getService, then create the
\* exporter's service, then create or update the bridge's.  It never updates
\* the exporter's service, and skips it if an exporter type is set, which is
\* the simpler case and not modelled.
GetService ==
  /\ \/ pc = "create" /\ replica <= obj.replicas
                      /\ Get(Instance(replica)) = "absent"
     \/ pc = "getService"
  /\ service' = Get(Service(replica))
  /\ Try(Exporter(replica), AfterCreate(Exporter(replica)))
  /\ pc' = "createService"
  /\ UNCHANGED <<loop, obj, replica, instance, listed>>
  /\ sameCR /\ sameFaults

CreateService ==
  /\ pc = "createService"
  /\ Try(Service(replica),
         IF service = "absent" THEN AfterCreate(Service(replica))
                               ELSE AfterUpdate(Service(replica), service))
  /\ Goto(IF loop = "create" THEN "createSIP" ELSE "updateInstance")
  /\ sameCR /\ sameFaults

CreateSIP ==
  /\ pc = "createSIP"
  /\ Try(SIP(replica), AfterCreate(SIP(replica)))
  /\ Goto("createInstance")
  /\ sameCR /\ sameFaults

CreateInstance ==
  /\ pc = "createInstance"
  /\ Try(Instance(replica), AfterCreate(Instance(replica)))
  /\ Round("create", replica + 1, "create")
  /\ sameCR /\ sameFaults

-----------------------------------------------------------------------------
(* Update, deployment.go:453-546. *)

\* Mutant: without the stop at the first bridge.
ScaledDownToSpec(r) == r = obj.replicas
\* updateReplicaCount counts down from the status, and never past 1.
ScaledDown(r) == r = obj.replicas \/ r = 1
ScaleDownFrom(r) == IF ScaledDown(r) THEN Done("updateConfigMaps")
                    ELSE Round("scaleDown", r, "deleteService")

StartUpdate ==
  /\ pc = "create" /\ replica > obj.replicas
  /\ IF obj.status > obj.replicas THEN ScaleDownFrom(obj.status)
                                   ELSE Done("updateConfigMaps")
  /\ sameCR /\ UNCHANGED <<childVars, faultVars>>

UpdateFrom(r) == IF r <= obj.replicas THEN Round("update", r, "update")
                 ELSE Done("updateStatus")

\* The config maps are updated without a resourceVersion, and created if the
\* server does not know them.
UpdateConfigMaps ==
  /\ pc = "updateConfigMaps"
  /\ Try(Shared, obj.conf)
  /\ UpdateFrom(1)
  /\ sameCR /\ sameFaults

\* One round: the SIP config map, then getInstance, whose NotFound is the one
\* error Update returns.
UpdateSIP ==
  /\ pc = "update"
  /\ Try(SIP(replica), obj.conf)
  /\ IF Get(Instance(replica)) = "absent"
     THEN Return(TRUE) /\ UNCHANGED <<cr, rv, crCache, watch, edits, relists>>
     ELSE /\ instance' = Get(Instance(replica))
          /\ pc' = "getService"
          /\ UNCHANGED <<loop, obj, replica, service, listed>>
          /\ sameCR
  /\ sameFaults

UpdateInstance ==
  /\ pc = "updateInstance"
  /\ Try(Instance(replica), AfterUpdate(Instance(replica), instance))
  /\ UpdateFrom(replica + 1)
  /\ sameCR /\ sameFaults

\* UpdateStatus: the only write of the resource whose error Reconcile returns.
UpdateStatus ==
  /\ pc = "updateStatus"
  /\ UNCHANGED <<crCache, edits, relists, childVars>>
  /\ sameFaults
  /\ \/ WriteStatus(obj, obj.replicas) /\ Return(FALSE) /\ UNCHANGED faults
     \/ /\ ~Current(obj)
        /\ UNCHANGED <<cr, rv, watch, faults>>
        /\ Return(TRUE)
     \/ /\ Fault
        /\ WriteStatus(obj, obj.replicas) \/ UNCHANGED <<cr, rv, watch>>
        /\ Return(TRUE)

-----------------------------------------------------------------------------
(* Delete, deployment.go:548-629, and the deletions it shares with the      *)
(* scale-down.                                                              *)

\* Mutant: the loop stops one replica short.
DeleteBefore(r) == IF r < obj.replicas THEN Round("delete", r, "deleteService")
                   ELSE Done("listCMs")
DeleteFrom(r) == IF r <= obj.replicas THEN Round("delete", r, "deleteService")
                 ELSE Done("listCMs")

\* The finalizer goes first; a refusal or a failure is logged.  On success the
\* server's answer, defaults filled in, replaces the object in memory, and the
\* loop counts to the replicas of the answer.
RemoveFinalizerCall ==
  /\ pc = "removeFinalizer"
  /\ pc' = "delete"
  /\ UNCHANGED <<crCache, queued, edits, relists, loop, replica, service,
                 instance, listed, childVars>>
  /\ sameFaults
  /\ LET sent == [obj EXCEPT !.fin = FALSE] IN
     \/ RemoveFinalizer(obj) /\ obj' = Defaulted(sent) /\ UNCHANGED faults
     \/ ~Current(obj) /\ obj' = sent /\ UNCHANGED <<cr, rv, watch, faults>>
     \/ /\ Fault /\ obj' = sent
        /\ RemoveFinalizer(obj) \/ UNCHANGED <<cr, rv, watch>>

StartDelete ==
  /\ pc = "delete" /\ DeleteFrom(1)
  /\ sameCR /\ UNCHANGED <<childVars, faultVars>>

\* deleteService returns before the exporter's service if the cache or the
\* server does not know the bridge's, or if deleting that seems to fail.
DeleteService ==
  /\ pc = "deleteService"
  /\ \/ /\ Get(Service(replica)) = "absent" \/ child[Service(replica)] = 0
        /\ Goto("deleteInstance") /\ UNCHANGED <<childVars, faults>>
     \/ /\ Get(Service(replica)) # "absent" /\ child[Service(replica)] # 0
        /\ Put(Service(replica), 0)
        /\ Goto("deleteExporter") /\ UNCHANGED faults
     \/ /\ Get(Service(replica)) # "absent"
        /\ Fault
        /\ Put(Service(replica), 0) \/ UNCHANGED childVars
        /\ Goto("deleteInstance")
  /\ sameCR /\ sameFaults

\* Get from the cache, then Delete: an object the cache lacks is not deleted.
DeleteCached(o) ==
  IF Get(o) = "absent" THEN UNCHANGED <<childVars, faults>> ELSE Try(o, 0)

DeleteExporter ==
  /\ pc = "deleteExporter"
  /\ DeleteCached(Exporter(replica))
  /\ Goto("deleteInstance")
  /\ sameCR /\ sameFaults

DeleteInstance ==
  /\ pc = "deleteInstance"
  /\ DeleteCached(Instance(replica))
  /\ IF loop = "scaleDown" THEN ScaleDownFrom(replica - 1)
                           ELSE DeleteFrom(replica + 1)
  /\ sameCR /\ sameFaults

\* deleteCMs lists the cached config maps that carry the label app=jvb.
ListConfigMaps ==
  /\ pc = "listCMs"
  /\ listed' = childCache \cap ConfigMaps
  /\ pc' = "deleteCMs"
  /\ UNCHANGED <<loop, obj, replica, service, instance, childVars, faultVars>>
  /\ sameCR

DeleteConfigMap ==
  /\ pc = "deleteCMs"
  /\ \E o \in listed : Try(o, 0) /\ listed' = listed \ {o}
  /\ UNCHANGED <<pc, loop, obj, replica, service, instance>>
  /\ sameCR /\ sameFaults

FinishDelete ==
  /\ pc = "deleteCMs" /\ listed = {}
  /\ Return(FALSE)
  /\ UNCHANGED <<cr, rv, crCache, watch, edits, relists, childVars, faultVars>>

-----------------------------------------------------------------------------
(* The surroundings. *)

\* Mutant: only a new configuration counts as an update of the spec.
isConfUpdated(old, new) == old.conf # new.conf

\* The event filter, controller.go:109-122: an update that adds the first
\* finalizer or changes the status is not reconciled.
isSpecUpdated(old, new) == (old.fin \/ ~new.fin) /\ old.status = new.status

\* Creations and deletions pass.
Filter(new) == Exists(crCache) /\ Exists(new) => isSpecUpdated(crCache, new)

ReceiveVersion ==
  /\ watch # <<>> /\ Deliver(Filter(Head(watch)))
  /\ UNCHANGED <<workerVars, childVars, faultVars>>

ReceiveList == Relist(Filter(cr)) /\ UNCHANGED <<workerVars, childVars, faultVars>>

PeriodicResync == Resync /\ UNCHANGED <<workerVars, childVars, faultVars>>

ReceiveChild(i) ==
  /\ lag[i] # <<>>
  /\ lag' = [lag EXCEPT ![i] = Tail(@)]
  /\ childCache' = CacheWith(Head(lag[i]).object, Head(lag[i]).present)
  /\ UNCHANGED <<crVars, workerVars, child, faultVars>>

\* Another controller writes a child object - a Deployment's status, a load
\* balancer's address - and so gives it a new resourceVersion.
Touch(o) ==
  /\ touches < MaxTouches /\ touches' = touches + 1
  /\ child[o] # 0
  /\ Notice(o, TRUE)
  /\ service' = IF o = Service(replica) /\ service = "current"
                THEN "stale" ELSE service
  /\ instance' = IF o = Instance(replica) /\ instance = "current"
                 THEN "stale" ELSE instance
  /\ UNCHANGED <<crVars, pc, loop, obj, replica, listed, child, faults,
                 crashes>>

\* The manager stops at any point and starts again with fresh caches.
Crash ==
  /\ crashes < MaxCrashes /\ crashes' = crashes + 1
  /\ RestartInformer
  /\ Release
  /\ childCache' = {o \in Objects : child[o] # 0}
  /\ lag' = [i \in Informers |-> <<>>]
  /\ UNCHANGED <<child, faults, touches>>

\* Nothing of the resource is under way.
Quiet == pc = "idle" /\ ~queued /\ watch = <<>>
\* Nor is anything of its child objects.
Settled == Quiet /\ \A i \in Informers : lag[i] = <<>>

UserWrite ==
  /\ Patient => Settled
  /\ User
  /\ UNCHANGED <<workerVars, childVars, faultVars>>

Worker ==
  \/ ReconcileNotFound \/ Reconcile \/ AddFinalizerCall
  \/ CreateConfigMaps \/ SkipExisting \/ GetService \/ CreateService
  \/ CreateSIP \/ CreateInstance
  \/ StartUpdate \/ UpdateConfigMaps \/ UpdateSIP \/ UpdateInstance
  \/ UpdateStatus
  \/ RemoveFinalizerCall \/ StartDelete
  \/ DeleteService \/ DeleteExporter \/ DeleteInstance
  \/ ListConfigMaps \/ DeleteConfigMap \/ FinishDelete

Next ==
  \/ Worker
  \/ ReceiveVersion \/ ReceiveList \/ PeriodicResync
  \/ \E i \in Informers : ReceiveChild(i)
  \/ \E o \in Objects : o[1] \in {"instance", "service"} /\ Touch(o)
  \/ Crash
  \/ UserWrite

Spec == Init /\ [][Next]_vars
=============================================================================
