--------------------------- MODULE JVBRequirements ---------------------------
(***************************************************************************)
(* What the JVB controller must never do, what it must have done when it   *)
(* comes to rest, and what it must eventually do.                          *)
(***************************************************************************)
EXTENDS JVBController

Live == Exists(cr) /\ ~cr.del
Bridges == 1..MaxReplicas
Stands(o) == child[o] # 0
Wanted1(r) == Live /\ r <= cr.replicas

-----------------------------------------------------------------------------
(* Safety under every interleaving, fault and restart. *)

\* The versions in circulation: stored, held, cached and announced.
Announced == {watch[k] : k \in DOMAIN watch}
Versions == {cr, obj, crCache} \cup Announced

\* No version carries a resourceVersion the server has yet to hand out, and
\* every copy that still carries the stored object's resourceVersion agrees
\* with it on everything the operator writes from; only the finalizer of the
\* copy in memory may differ, when the write of it failed.  This is what
\* makes the optimistic lock of UpdateStatus and of the finalizer helpers a
\* guard against the stale cache.
Agrees(v, w) == /\ v.replicas = w.replicas /\ v.conf = w.conf
                /\ v.status = w.status /\ v.del = w.del
Fits(v, stored, last) ==
  /\ v.rv <= last
  /\ Exists(stored) /\ v.rv = stored.rv => Agrees(v, stored)
VersionsAgree == \A v \in Versions : Fits(v, cr, rv)

\* Versions that reach the worker later carry no older configuration, and no
\* child object is ahead of a version still to be reconciled: the informer
\* delivers in order, and there is one worker.
Before(v, w) == Exists(v) /\ Exists(w) => v.conf <= w.conf
ConfigurationsInOrder ==
  /\ pc # "idle" => Exists(obj)
  /\ \A v \in Versions : v.conf <= edits /\ Before(v, cr)
  /\ \A v \in Announced : Before(crCache, v) /\ Before(obj, v)
  /\ Before(obj, crCache)
  /\ \A k, l \in DOMAIN watch : k <= l => Before(watch[k], watch[l])
  /\ \A o \in Objects :
       child[o] <= edits /\ \A v \in Versions : Exists(v) => child[o] <= v.conf

\* The loops address only replicas that have a name in range.  The scale-down
\* takes down nothing but surplus over the spec the worker holds, and never the
\* first bridge (updateReplicaCount, deployment.go:485-499).
PerReplica == {"createService", "createSIP", "createInstance", "update",
               "getService", "updateInstance", "deleteService",
               "deleteExporter", "deleteInstance"}
LoopsInRange ==
  /\ pc = "create" => replica >= 1 /\ loop = "create"
  /\ pc \in PerReplica => replica \in 1..MaxReplicas
  /\ pc \in PerReplica /\ loop = "scaleDown" => replica > 1 /\ replica > obj.replicas

\* A new status is the replica count of the very version that carries it,
\* whoever scaled while the controller was at work (UpdateStatus,
\* deployment.go:543-546).
StatusMatchesSpec ==
  [][Exists(cr) /\ Exists(cr') /\ cr'.status # cr.status
       => cr'.status = cr'.replicas]_vars

\* A child object is never rendered again from an older configuration than the
\* one it carries, although the worker renders from a cached copy
\* (servicePerInstance, Update, updateOrRecreateConfigMaps).
NeverRolledBack ==
  [][\A o \in Objects : Stands(o) /\ Stands(o)' => child'[o] >= child[o]]_vars

\* A bridge the stored resource asks for is taken down only on the strength of
\* a version that users have replaced, and then the replacement is still to be
\* reconciled: it is in the watch or the key is queued (updateReplicaCount,
\* Delete, isSpecUpdated).  A broken watch may have folded it into an update the
\* filter drops.
RemovalIsRepaired ==
  [][\A r \in Bridges :
       Stands(Instance(r)) /\ ~Stands(Instance(r))' /\ Wanted1(r) /\ relists = 0
         => watch # <<>> \/ queued]_vars

\* When nothing is queued, announced or running, the last version of the
\* resource was reconciled to the end: no event filter, de-duplicated key or
\* dropped error has swallowed it.  A resource under deletion can be left
\* behind only by a failed call, whose error Delete drops.  Nothing of the kind
\* holds once a broken watch has folded two versions into one update.
QuietMeansReconciled ==
  Quiet /\ Exists(cr) /\ relists = 0 => IF cr.del THEN faults > 0 ELSE cr.status = cr.replicas

-----------------------------------------------------------------------------
(* Users who wait for the operator, caches that lag, no faults. *)

\* Every replica stands, rendered from the present configuration, and nothing
\* but the bridge that updateReplicaCount spares and config maps stands beside.
SettledMeansProvisioned ==
  Settled /\ Live =>
    /\ child[Shared] = cr.conf
    /\ \A r \in 1..cr.replicas :
         /\ child[Instance(r)] = cr.conf
         /\ child[Service(r)] = cr.conf
         /\ child[SIP(r)] = cr.conf
         /\ Stands(Exporter(r))
    /\ \A r \in Bridges : r > cr.replicas /\ r > 1 =>
         ~Stands(Instance(r)) /\ ~Stands(Service(r)) /\ ~Stands(Exporter(r))

\* The deletion of the resource leaves nothing behind.
SettledMeansGone ==
  Settled /\ ~Exists(cr) => \A o \in Objects : ~Stands(o)

-----------------------------------------------------------------------------
(* Liveness.  controller-runtime starts a worker for every queued key and    *)
(* runs it to the end, retries failed reconciliations, keeps its watches     *)
(* alive and resyncs every ten hours; users, faults and restarts are         *)
(* bounded, so they stop.                                                    *)

Fairness ==
  /\ WF_vars(Worker)
  /\ WF_vars(ReceiveVersion)
  /\ \A i \in Informers : WF_vars(ReceiveChild(i))
  /\ WF_vars(PeriodicResync)

FairSpec == Spec /\ Fairness

\* Once users and faults stop, every replica asked for stands for good and is
\* rendered from the present configuration, whatever was dropped before.
EventuallyProvisioned ==
  <>[](Live => \A r \in 1..cr.replicas :
                 /\ child[Instance(r)] = cr.conf
                 /\ child[Service(r)] = cr.conf
                 /\ child[SIP(r)] = cr.conf)

\* A deleted resource does not hang on its finalizer.
DeletionCompletes == (Exists(cr) /\ cr.del) ~> ~(Exists(cr) /\ cr.del)

-----------------------------------------------------------------------------
\* apis/jitsi/v1beta1/jvb_types.go:21, "JVBStatus defines the observed state of
\* JVBSpec": at rest, no bridge stands beyond the observed number.  The code
\* writes the wish into the status instead, and finds surplus bridges by it.
StatusIsObserved ==
  Settled /\ Live =>
    \A r \in Bridges : Stands(Instance(r)) /\ r > 1 => r <= cr.status
=============================================================================
