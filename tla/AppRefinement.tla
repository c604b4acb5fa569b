---------------------------- MODULE AppRefinement ----------------------------
(***************************************************************************)
(* The controllers of one application each as followers of their resource. *)
(***************************************************************************)
EXTENDS AppRequirements

\* The child objects a version asks for, or leaves to the controller.
ThingsOf(v) == IF Exists(v) /\ ~v.del THEN Objects ELSE {}

WishOf == [conf |-> IF Exists(cr) THEN cr.conf ELSE edits, things |-> ThingsOf(cr)]
ViewOf == IF pc = "idle" THEN [acting |-> FALSE, conf |-> 0, things |-> {}]
          ELSE [acting |-> TRUE, conf |-> obj.conf, things |-> ThingsOf(obj)]

Pool == INSTANCE Follower WITH
  Things <- Objects, wish <- WishOf, view <- ViewOf, made <- child

\* Whatever the plan of a handler and its errors, the controller makes and
\* removes objects only on the strength of the one version it holds (Create,
\* Update and Delete of the seven controllers).  The PUTs without a
\* resourceVersion, which no lock refuses (Update of Jicofo, Etherpad and
\* Whiteboard), thereby never bring an older configuration back.
FollowsOneVersion == Pool!Spec
=============================================================================
