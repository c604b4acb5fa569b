----------------------------- MODULE MCShutdown -----------------------------
(* Instances of GracefulShutdown for TLC. *)
EXTENDS ShutdownRequirements
=============================================================================
