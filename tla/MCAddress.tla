----------------------------- MODULE MCAddress -----------------------------
(* Instances of BridgeAddress for TLC. *)
EXTENDS AddressRequirements

CONSTANTS a1, a2

MCAddresses == {a1, a2}
OneAddress == {a1}

\* Users leave it to the operator, set the address, or set the port.
AnyList == {<<>>, <<EnvVar("DOCKER_HOST_ADDRESS", a1)>>, <<EnvVar("JVB_PORT", 30300)>>}

Wish(n, port, protocol, type, list) ==
  [replicas |-> n, port |-> port, protocol |-> protocol, type |-> type, environments |-> list]

\* Pools of two sizes behind load balancers, or two bridges inside the cluster.
Automatically == {Wish(n, 0, "UDP", "LoadBalancer", <<>>) : n \in {1, 2}}
                 \cup {Wish(2, 7, "UDP", "ClusterIP", <<>>)}

\* Two bridges behind load balancers, or one inside the cluster, over TCP,
\* whose users have set the address.
Mixed == {Wish(2, 0, "UDP", "LoadBalancer", <<>>),
          Wish(1, 7, "TCP", "ClusterIP", <<EnvVar("DOCKER_HOST_ADDRESS", a1)>>)}
=============================================================================
