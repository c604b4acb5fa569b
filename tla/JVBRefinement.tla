---------------------------- MODULE JVBRefinement ----------------------------
(***************************************************************************)
(* The JVB controller as a follower of its resource: the things are the    *)
(* child objects, the wish is the stored resource, the view is the copy    *)
(* the worker holds.                                                       *)
(***************************************************************************)
EXTENDS JVBRequirements

\* The child objects a version asks for.
ThingsOf(v) == IF Exists(v) /\ ~v.del THEN {o \in Objects : o[2] <= v.replicas} ELSE {}

\* Once the resource is gone, the next one will have a new configuration.
WishOf == [conf |-> IF Exists(cr) THEN cr.conf ELSE edits, things |-> ThingsOf(cr)]
ViewOf == IF pc = "idle" THEN [acting |-> FALSE, conf |-> 0, things |-> {}]
          ELSE [acting |-> TRUE, conf |-> obj.conf, things |-> ThingsOf(obj)]

Pool == INSTANCE Follower WITH
  Things <- Objects, wish <- WishOf, view <- ViewOf, made <- child

\* One call after the other, from a lagging cache, with faults and restarts,
\* the controller makes and removes objects only on the strength of the one
\* version it holds (Reconcile, Create, Update, Delete).
FollowsOneVersion == Pool!Spec
=============================================================================
