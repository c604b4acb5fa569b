-------------------------------- MODULE MCJVB --------------------------------
(***************************************************************************)
(* Instances of the JVB controller for TLC.  The bounds are in the .cfg    *)
(* files; the choices of lagging informers have names here.                *)
(***************************************************************************)
EXTENDS JVBRefinement

NoCacheLags    == {}
DeploymentsLag == {"deployments"}
AllCachesLag   == Informers
=============================================================================
