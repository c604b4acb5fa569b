------------------------------ MODULE MCTurn ------------------------------
(* Instances of TurnCredential for TLC. *)
EXTENDS TurnCredential
=============================================================================
