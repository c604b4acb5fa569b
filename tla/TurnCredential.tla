--------------------------- MODULE TurnCredential ---------------------------
(***************************************************************************)
(* The TURN credential of Prosody (internal/jitsi/prosody): the controller *)
(* reads it from the variable TURNCREDENTIALS_SECRET of the resource, or   *)
(* from the Secret that names, and renders it into the config map          *)
(* prosody-turn-config.  A Secret is read through the cache, and nobody    *)
(* watches it; what cannot be read is rendered as "".  A pod of Prosody    *)
(* mounts the config map by SubPath: it has what the config map holds when *)
(* it starts, and no change of the config map starts it again.             *)
(*                                                                         *)
(* AppController has the finalizers, the deletion and the copies of the    *)
(* resource, and all child objects; here is what their contents are.       *)
(***************************************************************************)
EXTENDS Naturals

CONSTANTS Absent,      \* there is no such Secret, key or config map
          MaxWrites,   \* bound: writes of users, and the credentials they write
          MaxFaults,   \* bound: API calls that fail
          MaxLosses,   \* bound: config maps deleted by others
          MaxCrashes   \* bound: restarts of the manager

ASSUME TurnBoundsAssumption ==
  MaxWrites \in Nat /\ MaxFaults \in Nat /\ MaxLosses \in Nat /\ MaxCrashes \in Nat
ASSUME AbsentAssumption == Absent \notin Nat

\* Each write of a credential is a new one; 0 is "".
Blank == 0
Credential == 0..MaxWrites

\* How the variable gets its value; "other" is a field of the pod, or that
\* there is no such variable.
Sources == {"value", "secret", "configmap", "other"}

\* The resource: conf is the serial number of what users wrote last.
Resource == [conf : 0..(MaxWrites + 1), source : Sources, value : Credential]

VARIABLES
  prosody,    \* the stored resource
  secret,     \* the key of the Secret
  secretSeen, \* as the informer cache shows it
  queued, pc,
  obj,        \* the copy the worker holds
  handler,    \* Create or Update
  credential, \* what it renders
  turnCM,     \* the credential in the stored config map
  deployment, \* conf of the stored Deployment, 0 if there is none
  pod,        \* the pod that runs: the conf of its template, its credential
  writes, faults, losses, crashes

secretVars == <<secret, secretSeen>>
workerVars == <<pc, obj, handler, credential>>
childVars  == <<turnCM, deployment>>
vars ==
  <<prosody, secretVars, queued, workerVars, childVars, pod, writes, faults, losses, crashes>>

Nobody == [conf |-> 0, source |-> "other", value |-> Blank]

Pod == [conf : 0..(MaxWrites + 1), credential : Credential]
NoPod == [conf |-> 0, credential |-> Blank]

TypeOK ==
  /\ prosody \in Resource /\ obj \in Resource
  /\ secret \in Credential \cup {Absent} /\ secretSeen \in Credential \cup {Absent}
  /\ queued \in BOOLEAN
  /\ pc \in {"idle", "service", "render", "configMap", "deployment"}
  /\ handler \in {"none", "create", "update", "recreate"}
  /\ credential \in Credential
  /\ turnCM \in Credential \cup {Absent}
  /\ deployment \in 0..(MaxWrites + 1)
  /\ pod \in Pod
  /\ writes \in 0..MaxWrites /\ faults \in 0..MaxFaults
  /\ losses \in 0..MaxLosses /\ crashes \in 0..MaxCrashes

Init ==
  /\ prosody \in [conf : {1}, source : Sources, value : {Blank}]
  /\ secret = Absent /\ secretSeen = Absent
  /\ queued = TRUE
  /\ pc = "idle" /\ obj = Nobody /\ handler = "none" /\ credential = Blank
  /\ turnCM = Absent /\ deployment = 0 /\ pod = NoPod
  /\ writes = 0 /\ faults = 0 /\ losses = 0 /\ crashes = 0

-----------------------------------------------------------------------------
Fault == faults < MaxFaults /\ faults' = faults + 1
sameSurroundings == UNCHANGED <<prosody, secretVars, pod, writes, losses, crashes>>

Release == pc' = "idle" /\ obj' = Nobody /\ handler' = "none" /\ credential' = Blank
Return(err) == Release /\ queued' = (queued \/ err)

Reconcile ==
  /\ pc = "idle" /\ queued
  /\ queued' = FALSE
  /\ obj' = prosody /\ pc' = "service"
  /\ handler' = IF deployment = 0 THEN "create" ELSE "update"
  /\ UNCHANGED <<credential, childVars, faults>> /\ sameSurroundings

\* Both handlers begin with the Service, and end with its error.
ServiceCall ==
  /\ pc = "service"
  /\ \/ pc' = "render" /\ UNCHANGED <<obj, handler, credential, queued, faults>>
     \/ Fault /\ Return(TRUE)
  /\ UNCHANGED childVars /\ sameSurroundings

\* Mutant: a missing key is not noticed.
FromSecretUnchecked(v) == v
\* A Secret or a key that is not there is logged.
FromSecret(v) == IF v = Absent THEN Blank ELSE v

\* getTurnCredential takes the name and the key of a ConfigMap from
\* SecretKeyRef, which is nil then; the manager recovers the panic and makes it
\* the error of Reconcile.
Panics(source) == source = "configmap"

RenderPanics ==
  /\ pc = "render" /\ Panics(obj.source)
  /\ Return(TRUE)
  /\ UNCHANGED <<childVars, faults>> /\ sameSurroundings

RenderCredential ==
  /\ pc = "render" /\ ~Panics(obj.source)
  /\ pc' = "configMap"
  /\ \/ /\ credential' = CASE obj.source = "value" -> obj.value
                           [] obj.source = "secret" -> FromSecret(secretSeen)
                           [] OTHER -> Blank
        /\ UNCHANGED faults
     \/ obj.source = "secret" /\ Fault /\ credential' = Blank
  /\ UNCHANGED <<obj, handler, queued, childVars>> /\ sameSurroundings

\* Mutant: Update only makes a config map that is missing.
UpdatedIfMissing(c) == turnCM
Updated(c) == c

\* createTurnCM tolerates a config map that exists; updateTurnCM falls back on
\* it, and renders once more, if there is none.  Errors are logged.
WriteConfigMap ==
  /\ pc = "configMap"
  /\ \/ /\ handler = "update" /\ turnCM = Absent
        /\ pc' = "render" /\ handler' = "recreate"
        /\ UNCHANGED <<turnCM, faults>>
     \/ /\ handler = "update" /\ turnCM # Absent
        /\ turnCM' = Updated(credential)
        /\ pc' = "deployment" /\ UNCHANGED <<handler, faults>>
     \/ /\ handler \in {"create", "recreate"}
        /\ turnCM' = IF turnCM = Absent THEN credential ELSE turnCM
        /\ pc' = "deployment" /\ UNCHANGED <<handler, faults>>
     \/ Fault /\ pc' = "deployment" /\ UNCHANGED <<turnCM, handler>>
  /\ UNCHANGED <<obj, credential, queued, deployment>> /\ sameSurroundings

WriteDeployment ==
  /\ pc = "deployment"
  /\ \/ deployment' = obj.conf /\ Return(FALSE) /\ UNCHANGED faults
     \/ Fault /\ Return(TRUE) /\ UNCHANGED deployment
  /\ UNCHANGED turnCM /\ sameSurroundings

Worker ==
  \/ Reconcile \/ ServiceCall \/ RenderPanics \/ RenderCredential
  \/ WriteConfigMap \/ WriteDeployment

-----------------------------------------------------------------------------
sameWorker == UNCHANGED <<workerVars, childVars, pod, faults, crashes>>
UserWrites == writes < MaxWrites /\ writes' = writes + 1 /\ UNCHANGED losses /\ sameWorker

UserEdits ==
  /\ UserWrites
  /\ \E s \in Sources :
       prosody' = [conf |-> prosody.conf + 1, source |-> s,
                   value |-> IF s = "value" THEN writes' ELSE Blank]
  /\ queued' = TRUE
  /\ UNCHANGED secretVars

\* A Secret is written, or deleted: no event of a Prosody resource.
UserRotates ==
  /\ UserWrites
  /\ secret' \in {writes', Absent} \ {secret}
  /\ UNCHANGED <<prosody, queued, secretSeen>>

ReceiveSecret ==
  /\ secretSeen # secret /\ secretSeen' = secret
  /\ UNCHANGED <<prosody, secret, queued, writes, losses>> /\ sameWorker

\* The deletion of a Prosody resource elsewhere takes the config map along.
\* deployment.go:235-249.
ConfigMapLost ==
  /\ turnCM # Absent /\ losses < MaxLosses /\ losses' = losses + 1
  /\ turnCM' = Absent
  /\ UNCHANGED <<prosody, secretVars, queued, workerVars, deployment, pod, writes, faults,
                 crashes>>

Resync ==
  /\ ~queued /\ queued' = TRUE
  /\ UNCHANGED <<prosody, secretVars, writes, losses>> /\ sameWorker

Crash ==
  /\ crashes < MaxCrashes /\ crashes' = crashes + 1
  /\ Release /\ queued' = TRUE
  /\ secretSeen' = secret
  /\ UNCHANGED <<prosody, secret, childVars, pod, writes, faults, losses>>

samePods == UNCHANGED <<prosody, secretVars, queued, workerVars, childVars, writes, faults,
                        losses, crashes>>

\* The Deployment controller starts a pod of a new template, or one in place of a
\* pod that has ended; without the config map the pod does not start.
StartPod ==
  /\ pod.conf # deployment /\ turnCM # Absent
  /\ pod' = [conf |-> deployment, credential |-> turnCM]
  /\ samePods

\* It fails, or is moved to another node.
PodEnds == pod # NoPod /\ pod' = NoPod /\ samePods

Next ==
  \/ Worker \/ UserEdits \/ UserRotates \/ ReceiveSecret \/ ConfigMapLost
  \/ Resync \/ Crash
  \/ StartPod \/ PodEnds

Spec == Init /\ [][Next]_vars

-----------------------------------------------------------------------------
FairSpec ==
  Spec /\ WF_vars(Worker) /\ WF_vars(Resync) /\ WF_vars(ReceiveSecret) /\ WF_vars(StartPod)

\* The credential users mean.
Meant == CASE prosody.source = "value" -> prosody.value
           [] prosody.source = "secret" -> FromSecret(secret)
           [] OTHER -> Blank

\* A Secret nobody watches, a read that failed and blanked the credential, a
\* config map taken away and attempts that panicked notwithstanding, in the end
\* the config map has the credential users mean and Prosody runs the template they
\* wrote, unless the resource goes on naming a ConfigMap; and the pods have the
\* credential too if they go on ending.  A pod that runs on keeps the one it
\* started with: a rotation changes no template (prepareDeploymentSpec).
CredentialArrives ==
  <>[](prosody.source # "configmap") =>
    /\ <>[](turnCM = Meant /\ deployment = prosody.conf)
    /\ []<>(pod.conf = prosody.conf)
    /\ []<><<PodEnds>>_vars => <>[](pod # NoPod => pod.credential = Meant)

\* A credential written in the resource itself changes the template, and the pod
\* that this starts has it, as the config map is written before the Deployment
\* (Create, Update).  A write of the config map that failed is not made up for,
\* nor one left to a later Create by a restart: the pod has started by then.
ValueReachesPod ==
  faults = 0 /\ crashes = 0 /\ prosody.source = "value" /\ pod.conf = prosody.conf
    => pod.credential = prosody.value
=============================================================================
