---------------------------- MODULE MCNeighbours ----------------------------
(* Instances of Neighbours for TLC: two resources share a namespace, a third *)
(* has its own.                                                              *)
EXTENDS Neighbours

CONSTANTS x1, x2, x3, shared, own

MCResources == {x1, x2, x3}
MCNamespaces == {shared, own}
MCNamespaceOf == [x \in MCResources |-> IF x = x3 THEN own ELSE shared]
=============================================================================
