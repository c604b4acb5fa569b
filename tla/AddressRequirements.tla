------------------------ MODULE AddressRequirements ------------------------
(***************************************************************************)
(* What clients, users and the worker may rely on in the environments of   *)
(* the bridges.                                                            *)
(***************************************************************************)
EXTENDS BridgeAddress

\* The list names neither the address nor the port of a bridge twice.
ToldOnce(e) ==
  \A i, k \in DOMAIN e : e[i].name = e[k].name /\ e[i].name # "JVB_TCP_PORT" => i = k

\* Neither the list handed from bridge to bridge nor the environment of a
\* Deployment tells the address or the port twice: Kubernetes would take the
\* last, so the second would silently win over the first, or over the users'.
\* The ports of a TCP harvester are not looked for: users who set those without
\* JVB_PORT have them twice.
NothingNamedTwice ==
  /\ ToldOnce(envs)
  /\ \A r \in Replicas : ToldOnce(bridge[r].environments)

\* However many bridges it renders, one reconciliation - and with it the only
\* worker of the controller - waits for an address no longer than getExternalIP
\* does once.
WaitsOnce == asked <= 1

-----------------------------------------------------------------------------
Wanted == 1..spec.replicas

\* The address is the operator's to find.
Automatic ==
  /\ spec.type = "LoadBalancer" /\ spec.protocol = "UDP"
  /\ ~Has(spec.environments, "JVB_PORT")
  /\ ~Has(spec.environments, "DOCKER_HOST_ADDRESS")

\* Clients told what bridge r is told reach its service.
Reachable(r) ==
  /\ ValueOf(bridge[r], "JVB_PORT") = {service[r].port}
  /\ ValueOf(bridge[r], "DOCKER_HOST_ADDRESS") = {service[r].ip}

Fairness ==
  /\ WF_vars(Worker) /\ WF_vars(Resync)
  /\ \A r \in Replicas : WF_vars(ReceiveService(r)) /\ WF_vars(ReceiveBridge(r))

FairSpec == Spec /\ Fairness

\* Conflicts and failures are only logged, and no service is watched; still the
\* first bridge comes to advertise the address and port of its service, once
\* that has an address for good.  A load balancer known by name only has none.
FirstBridgeReachable ==
  <>[](Automatic /\ service[1].ip \in Addresses) => <>[]Reachable(1)

\* The port is the operator's to choose, and those the process of bridge r binds.
PortLeft ==
  /\ spec.protocol \in {"UDP", "TCP"}
  /\ \A n \in {"JVB_PORT", "JVB_TCP_PORT"} : ~Has(spec.environments, n)
Bound(r) == ValueOf(bridge[r], IF spec.protocol = "TCP" THEN "JVB_TCP_PORT" ELSE "JVB_PORT")

\* Each wanted bridge ends up with a service of the wanted type, and the service of
\* the first forwards to the port that the process behind it binds
\* (servicePerInstance, additionalEnvironments).  A reconciliation that makes a
\* later bridge gives the first the port of that one; the next puts it right.  Of
\* the later bridges this is not true: they are told the port of the first.
Forwarded ==
  <>[](\A r \in Wanted : /\ bridge[r] # NoBridge
                         /\ service[r].type = spec.type
                         /\ r = 1 /\ PortLeft => Bound(r) = {service[r].port})

\* Another environment restarts a bridge and ends its conferences: when nothing
\* changes any more, the resyncs leave the Deployments as they are.
BridgesStay == <>[][FALSE]_bridge

-----------------------------------------------------------------------------
\* Nothing is under way.
Settled ==
  /\ pc = "idle" /\ ~queued /\ behind = {}
  /\ known = {r \in Replicas : bridge[r] # NoBridge}

\* config/samples/_v1beta1_jitsi_jvb.yaml:66, "by default operator get ip from
\* "type: LoadBalancer" service": each bridge that is told an address is told
\* the one of its service.
EachBridgeReachable ==
  Settled /\ Automatic =>
    \A r \in Wanted : AcceptsShutdown(bridge[r]) => Reachable(r)
=============================================================================
