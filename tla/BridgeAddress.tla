--------------------------- MODULE BridgeAddress ---------------------------
(***************************************************************************)
(* How the bridges learn where clients reach them: the ports and the       *)
(* external address that the JVB controller puts into the environment of   *)
(* each bridge (internal/jitsi/jvb/deployment.go, additionalEnvironments   *)
(* and getExternalIP), and the service it renders beside it.               *)
(*                                                                         *)
(* The environment is a field of the reconciliation, j.envs: it starts as  *)
(* the users' list, the first bridge rendered adds to it, and those        *)
(* rendered later find it there.  To learn the address the worker looks at *)
(* the bridge's service every fifteen seconds, at most for three hundred.  *)
(*                                                                         *)
(* JVBController has the other calls of the worker and the copies of the   *)
(* resource; here the worker reads the stored resource.                    *)
(***************************************************************************)
EXTENDS Naturals, Sequences

CONSTANTS MaxReplicas,   \* bound: bridges wanted
          Ports,         \* bound: values of spec.port.port, 0 if omitted
          DefaultPort,   \* 10000
          Addresses,     \* bound: addresses of the cloud and of the users
          Blank,         \* the value ""
          Pending,       \* no address was assigned yet
          Lists,         \* bound: lists of variables users write
          Specs,         \* bound: resources users write
          Patience,      \* ticks until getExternalIP gives up
          MaxEdits,      \* bound: writes of users
          MaxFaults      \* bound: API calls that fail, and restarts of the manager

Variable == {"DOCKER_HOST_ADDRESS", "JVB_PORT", "JVB_TCP_PORT"}
PortNumber == {30300, DefaultPort} \cup {p + r : p \in Ports \cup {DefaultPort},
                                                r \in 0..MaxReplicas}
Environment == [name : Variable, value : Addresses \cup {Blank} \cup PortNumber]

\* No variable is there twice.
NamedOnce(e) == \A i, k \in DOMAIN e : e[i].name = e[k].name => i = k

ASSUME AddressBoundsAssumption ==
  /\ MaxReplicas \in Nat \ {0} /\ Patience \in Nat \ {0}
  /\ MaxEdits \in Nat /\ MaxFaults \in Nat
ASSUME PortAssumption == Ports \subseteq Nat /\ DefaultPort \in Nat \ {0}
ASSUME ListAssumption ==
  \A e \in Lists : e \in Seq(Environment) /\ NamedOnce(e)
ASSUME BlankAssumption == Blank \notin Addresses /\ Pending \notin Addresses \cup {Blank}

Replicas == 1..MaxReplicas
ServiceTypes == {"ClusterIP", "LoadBalancer"}
Protocols == {"UDP", "TCP", "unset"}

\* The fields of JVBSpec that matter here.
JVBSpec == [replicas : Replicas, port : Ports, protocol : Protocols, type : ServiceTypes,
          environments : Lists]

ASSUME SpecsAssumption == Specs \subseteq JVBSpec

\* A service jvb-N: its type, the port it forwards to the same port of the
\* pod, and the first ingress IP of its status (or spec.loadBalancerIP).
\* The IP of a load balancer that is known by name is "".
NoService == [type |-> "none", port |-> 0, ip |-> Pending]
Service == [type : ServiceTypes, port : PortNumber, ip : Addresses \cup {Blank, Pending}]

\* A Deployment jvb-N: the port its container declares, which opens none, and its
\* environment, which tells the process the port it binds.
NoBridge == [port |-> 0, environments |-> <<>>]
Bridge == [port : PortNumber, environments : Seq(Environment)]

\* An idle worker holds nothing.
NoSpec == [replicas |-> 0, port |-> 0, protocol |-> "unset", type |-> "ClusterIP",
           environments |-> <<>>]

VARIABLES
  spec,     \* the stored resource
  fresh,    \* it has not changed since the worker read it
  status,   \* its status.replicas
  queued,   \* the work queue holds its key
  pc,       \* the next step of the worker, or "idle"
  loop,     \* the loop that step belongs to
  obj,      \* the spec the worker holds
  envs,     \* j.envs
  replica,  \* j.replica, the loop counter
  ticks,    \* looks of the present call of getExternalIP
  asked,    \* history: calls of getExternalIP in this reconciliation
  service,  \* the stored services
  seen,     \* those of the informer cache
  behind,   \* the services whose cached version is not the stored one
  bridge,   \* the stored Deployments
  known,    \* the Deployments the informer cache shows
  edits, faults

workerVars  == <<pc, loop, obj, envs, replica, ticks, asked>>
serviceVars == <<service, seen, behind>>
bridgeVars  == <<bridge, known>>
boundVars   == <<edits, faults>>
userVars    == <<spec, fresh, status>>
vars == <<userVars, queued, workerVars, serviceVars, bridgeVars, boundVars>>

Steps == {"idle", "create", "update", "service", "render", "wait", "put", "scaleDown"}

TypeOK ==
  /\ spec \in JVBSpec /\ obj \in JVBSpec \cup {NoSpec}
  /\ fresh \in BOOLEAN /\ queued \in BOOLEAN
  /\ status \in 0..MaxReplicas
  /\ pc \in Steps /\ loop \in {"none", "create", "update"}
  /\ envs \in Seq(Environment)
  /\ replica \in 0..(MaxReplicas + 1)
  /\ ticks \in 0..Patience /\ asked \in Nat
  /\ service \in [Replicas -> Service \cup {NoService}]
  /\ seen \in [Replicas -> Service \cup {NoService}]
  /\ behind \subseteq Replicas
  /\ bridge \in [Replicas -> Bridge \cup {NoBridge}]
  /\ known \subseteq Replicas
  /\ edits \in 0..MaxEdits /\ faults \in 0..MaxFaults

\* Users have just created the resource.
Init ==
  /\ spec \in Specs /\ obj = NoSpec
  /\ fresh = FALSE /\ status = 0 /\ queued = TRUE
  /\ pc = "idle" /\ loop = "none" /\ envs = <<>> /\ replica = 0 /\ ticks = 0 /\ asked = 0
  /\ service = [r \in Replicas |-> NoService] /\ seen = service /\ behind = {}
  /\ bridge = [r \in Replicas |-> NoBridge] /\ known = {}
  /\ edits = 0 /\ faults = 0

-----------------------------------------------------------------------------
(* The environment of one bridge. *)

Has(e, n) == \E i \in DOMAIN e : e[i].name = n
EnvVar(n, v) == [name |-> n, value |-> v]

\* controller.go:83-86.
jvbExternalPort == IF obj.port # 0 THEN obj.port ELSE DefaultPort
PortOf(r) == jvbExternalPort + r

\* Mutant: the list is not searched.
isNeverThere(e) == FALSE
isEnvAlreadyExist(e) == Has(e, "JVB_PORT")
isHostAddressExist(e) == Has(e, "DOCKER_HOST_ADDRESS")

\* The list gets a port, and an address unless it has one.
NeedsPort == obj.protocol \in {"TCP", "UDP"} /\ ~isEnvAlreadyExist(envs)
NeedsAddress == NeedsPort /\ ~isHostAddressExist(envs)

WithAddress(e, a) ==
  IF isHostAddressExist(e) THEN e ELSE Append(e, EnvVar("DOCKER_HOST_ADDRESS", a))

\* The four variables of a TCP harvester have the same value and stand here
\* for one.
WithPort(e, r) ==
  IF obj.protocol = "TCP"
  THEN Append(Append(e, EnvVar("JVB_PORT", 30300)), EnvVar("JVB_TCP_PORT", PortOf(r)))
  ELSE Append(e, EnvVar("JVB_PORT", PortOf(r)))

\* Mutant: what is added is not kept for the next bridge.
KeepNothing(e) == obj.environments
\* j.envs = append(j.envs, additionalEnvs...)
Keep(e) == e

\* The values of a variable in the environment of a bridge.
ValueOf(b, n) == {b.environments[i].value : i \in {k \in DOMAIN b.environments :
                                                    b.environments[k].name = n}}

\* The template of the bridge's sip-communicator.properties allows a shutdown
\* over REST inside {{ if .Env.DOCKER_HOST_ADDRESS }}.  cm.go:165-170.
AcceptsShutdown(b) == \E a \in ValueOf(b, "DOCKER_HOST_ADDRESS") : a # Blank

-----------------------------------------------------------------------------
(* Calls. *)

Fault == faults < MaxFaults /\ faults' = faults + 1
sameResource == UNCHANGED <<userVars, queued>>

\* The server stores s for service r, or removes it; the cache has yet to see it.
PutService(r, s) ==
  /\ service' = [service EXCEPT ![r] = s]
  /\ behind' = behind \cup {r}
  /\ UNCHANGED seen

\* Mutant: an update of a service leaves its ports as they are.
UpdatedKeepingPorts(s, r) == [s EXCEPT !.type = obj.type]
Updated(s, r) == [s EXCEPT !.type = obj.type, !.port = PortOf(r)]

Goto(step) == pc' = step /\ UNCHANGED <<loop, obj, envs, replica, ticks, asked>>

Round(l, r) ==
  /\ pc' = l /\ loop' = l /\ replica' = r /\ ticks' = 0
  /\ UNCHANGED <<obj, asked>>

-----------------------------------------------------------------------------
(* One reconciliation. *)

\* newInstance: a new object, with the users' list.
Reconcile ==
  /\ pc = "idle" /\ queued
  /\ queued' = FALSE /\ fresh' = TRUE
  /\ obj' = spec /\ envs' = spec.environments
  /\ pc' = "create" /\ loop' = "create" /\ replica' = 1 /\ ticks' = 0 /\ asked' = 0
  /\ UNCHANGED <<spec, status, serviceVars, bridgeVars, boundVars>>

\* Nothing of a reconciliation outlives it.
Release ==
  /\ pc' = "idle" /\ loop' = "none" /\ obj' = NoSpec /\ envs' = <<>>
  /\ replica' = 0 /\ ticks' = 0 /\ asked' = 0

Return(err) ==
  /\ Release
  /\ queued' = (queued \/ err)

\* Create goes on to the bridges the cache does not show.
SkipExisting ==
  /\ pc = "create" /\ replica <= obj.replicas /\ replica \in known
  /\ Round("create", replica + 1) /\ UNCHANGED envs
  /\ sameResource /\ UNCHANGED <<serviceVars, bridgeVars, boundVars>>

CreateNext ==
  /\ pc = "create" /\ replica <= obj.replicas /\ replica \notin known
  /\ Goto("service")
  /\ sameResource /\ UNCHANGED <<serviceVars, bridgeVars, boundVars>>

StartUpdate ==
  /\ pc = "create" /\ replica > obj.replicas
  /\ IF status > obj.replicas
     THEN /\ pc' = "scaleDown" /\ loop' = "none" /\ replica' = status /\ ticks' = 0
          /\ UNCHANGED <<obj, asked>>
     ELSE Round("update", 1)
  /\ UNCHANGED envs
  /\ sameResource /\ UNCHANGED <<serviceVars, bridgeVars, boundVars>>

\* A bridge above the wanted count goes, with its service, as far as the caches
\* show them.  That these calls fail, and counts of 0, are left to JVBController.
ScaleDown ==
  /\ pc = "scaleDown"
  /\ IF seen[replica] = NoService THEN UNCHANGED serviceVars
     ELSE PutService(replica, NoService)
  /\ bridge' = [bridge EXCEPT ![replica] = IF replica \in known THEN NoBridge ELSE @]
  /\ UNCHANGED known
  /\ IF replica - 1 = obj.replicas
     THEN Round("update", 1)
     ELSE /\ replica' = replica - 1 /\ UNCHANGED <<pc, loop, obj, ticks, asked>>
  /\ UNCHANGED envs
  /\ sameResource /\ UNCHANGED boundVars

\* getInstance in Update: NotFound ends the reconciliation.
GetInstance ==
  /\ pc = "update" /\ replica <= obj.replicas
  /\ IF replica \in known THEN Goto("service") /\ UNCHANGED queued ELSE Return(TRUE)
  /\ UNCHANGED <<userVars, serviceVars, bridgeVars, boundVars>>

\* servicePerInstance: a service the cache does not show is created, if the
\* server does not have it; any other is updated, if the cached version is the
\* stored one.  Errors are logged.
ServicePerInstance ==
  /\ pc = "service"
  /\ Goto("render")
  /\ \/ /\ CASE seen[replica] = NoService /\ service[replica] = NoService ->
                  PutService(replica, [type |-> obj.type, port |-> PortOf(replica),
                                       ip |-> Pending])
             [] seen[replica] # NoService /\ replica \notin behind /\
                Updated(service[replica], replica) # service[replica] ->
                  PutService(replica, Updated(service[replica], replica))
             [] OTHER -> UNCHANGED serviceVars
        /\ UNCHANGED faults
     \/ Fault /\ UNCHANGED serviceVars
  /\ sameResource /\ UNCHANGED edits /\ UNCHANGED bridgeVars

\* additionalEnvironments: without a load balancer the address is "".
Render ==
  /\ pc = "render"
  /\ UNCHANGED <<loop, obj, replica, ticks>>
  /\ IF NeedsAddress /\ obj.type = "LoadBalancer"
     THEN pc' = "wait" /\ asked' = asked + 1 /\ UNCHANGED envs
     ELSE /\ pc' = "put" /\ UNCHANGED asked
          /\ envs' = IF NeedsPort THEN WithPort(WithAddress(envs, Blank), replica) ELSE envs
  /\ sameResource /\ UNCHANGED <<serviceVars, bridgeVars, boundVars>>

GotAddress(a) == pc' = "put" /\ envs' = WithPort(WithAddress(envs, a), replica)

\* Mutant: nobody counts the ticks.
LookForEver ==
  /\ pc = "wait"
  /\ ticks' = ticks + 1
  /\ UNCHANGED <<pc, envs, loop, obj, replica, asked>>
  /\ sameResource /\ UNCHANGED <<serviceVars, bridgeVars, boundVars>>
\* getExternalIP, at a tick.  The cached service may be one of another type.
Look ==
  /\ pc = "wait" /\ ticks < Patience
  /\ ticks' = ticks + 1
  /\ CASE seen[replica].type # "LoadBalancer" -> GotAddress(Blank)
       [] seen[replica].type = "LoadBalancer" /\ seen[replica].ip # Pending ->
            GotAddress(seen[replica].ip)
       [] OTHER -> UNCHANGED <<pc, envs>>
  /\ UNCHANGED <<loop, obj, replica, asked>>
  /\ sameResource /\ UNCHANGED <<serviceVars, bridgeVars, boundVars>>

\* Mutant: the timeout does not wait for the ticks.
TimeOutAtOnce ==
  /\ pc = "wait"
  /\ GotAddress(Blank)
  /\ UNCHANGED <<loop, obj, replica, ticks, asked>>
  /\ sameResource /\ UNCHANGED <<serviceVars, bridgeVars, boundVars>>
\* The last tick and the timeout come at the same time, in either order.
TimeOut ==
  /\ pc = "wait" /\ ticks + 1 >= Patience
  /\ GotAddress(Blank)
  /\ UNCHANGED <<loop, obj, replica, ticks, asked>>
  /\ sameResource /\ UNCHANGED <<serviceVars, bridgeVars, boundVars>>

\* Mutant: Update sends back the instance it read.
InstanceAsRead(r) ==
  IF loop = "create" THEN [port |-> PortOf(r), environments |-> envs] ELSE bridge[r]
Instance(r) == [port |-> PortOf(r), environments |-> envs]

\* createInstance, or the update of the instance read; errors, and among them
\* that it exists already or not any more, and the conflict with one written
\* meanwhile, are logged.
PutInstance ==
  /\ pc = "put"
  /\ \/ /\ bridge' = IF (loop = "create") = (bridge[replica] = NoBridge)
                     THEN [bridge EXCEPT ![replica] = Instance(replica)]
                     ELSE bridge
        /\ UNCHANGED <<known, faults>>
     \/ Fault /\ UNCHANGED bridgeVars
  /\ Round(loop, replica + 1) /\ envs' = Keep(envs)
  /\ sameResource /\ UNCHANGED edits /\ UNCHANGED serviceVars

\* After the last bridge.  A status written over a resource that has changed is
\* refused.
UpdateStatus ==
  /\ pc = "update" /\ replica > obj.replicas
  /\ \/ /\ fresh /\ status' = obj.replicas /\ Return(FALSE) /\ UNCHANGED faults
     \/ ~fresh /\ Return(TRUE) /\ UNCHANGED <<status, faults>>
     \/ Fault /\ Return(TRUE) /\ UNCHANGED status
  /\ UNCHANGED <<spec, fresh, serviceVars, bridgeVars, edits>>

Worker ==
  \/ Reconcile \/ SkipExisting \/ CreateNext \/ StartUpdate \/ ScaleDown \/ GetInstance
  \/ ServicePerInstance \/ Render \/ Look \/ TimeOut \/ PutInstance
  \/ UpdateStatus

-----------------------------------------------------------------------------
(* The surroundings. *)

\* Only the resource is watched: what becomes of its services queues nothing.
UserEdit ==
  /\ edits < MaxEdits /\ edits' = edits + 1
  /\ spec' \in Specs \ {spec}
  /\ fresh' = FALSE /\ queued' = TRUE
  /\ UNCHANGED <<status, workerVars, serviceVars, bridgeVars, faults>>

\* The cloud gives a load balancer an address of its own, once for all or until
\* the service is no load balancer any more.
AssignAddress(r) ==
  /\ service[r].type = "LoadBalancer" /\ service[r].ip = Pending
  /\ \E a \in (Addresses \cup {Blank}) \ {service[q].ip : q \in Replicas} :
       PutService(r, [service[r] EXCEPT !.ip = a])
  /\ sameResource /\ UNCHANGED <<workerVars, bridgeVars, boundVars>>

ReleaseAddress(r) ==
  /\ service[r].type = "ClusterIP" /\ service[r].ip # Pending
  /\ PutService(r, [service[r] EXCEPT !.ip = Pending])
  /\ sameResource /\ UNCHANGED <<workerVars, bridgeVars, boundVars>>

ReceiveService(r) ==
  /\ r \in behind
  /\ seen' = [seen EXCEPT ![r] = service[r]] /\ behind' = behind \ {r}
  /\ UNCHANGED service
  /\ sameResource /\ UNCHANGED <<workerVars, bridgeVars, boundVars>>

ReceiveBridge(r) ==
  /\ (r \in known) # (bridge[r] # NoBridge)
  /\ known' = IF bridge[r] = NoBridge THEN known \ {r} ELSE known \cup {r}
  /\ UNCHANGED bridge
  /\ sameResource /\ UNCHANGED <<workerVars, serviceVars, boundVars>>

Resync ==
  /\ ~queued /\ queued' = TRUE
  /\ UNCHANGED <<userVars, workerVars, serviceVars, bridgeVars, boundVars>>

Crash ==
  /\ Fault
  /\ Release
  /\ queued' = TRUE
  /\ seen' = service /\ behind' = {}
  /\ known' = {r \in Replicas : bridge[r] # NoBridge}
  /\ UNCHANGED <<userVars, service, bridge, edits>>

Next ==
  \/ Worker
  \/ UserEdit
  \/ \E r \in Replicas : AssignAddress(r) \/ ReleaseAddress(r)
                         \/ ReceiveService(r) \/ ReceiveBridge(r)
  \/ Resync \/ Crash

Spec == Init /\ [][Next]_vars
=============================================================================
