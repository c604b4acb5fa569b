----------------------------- MODULE MCAutoScaler -----------------------------
(***************************************************************************)
(* Instances of the AutoScaler for TLC.                                    *)
(***************************************************************************)
EXTENDS AutoScalerRequirements

Scaler1(kind, token, target, min, max, repeats) ==
  [kind |-> kind, token |-> token, target |-> target, min |-> min, max |-> max,
   repeats |-> repeats]

\* Ordinary specs of both kinds, one without a target, and three that end the
\* rounds: an unknown kind, no token, no interval.
AllSpecs ==
  {Scaler1("prometheus", FALSE, 2, 1, 3, TRUE),
   Scaler1("influxdb", TRUE, 2, 2, 3, TRUE),
   Scaler1("prometheus", FALSE, 0, 0, 3, FALSE),
   Scaler1("influxdb", FALSE, 2, 1, 3, TRUE),
   Scaler1("unknown", FALSE, 2, 1, 3, TRUE)}

\* No series; one too young; one and a half times the target; two, of which the
\* last counts, with a product that overflows for three bridges.
AllLoads == {<<>>, <<3, NoValue>>, <<3>>, <<9, 60000>>}
=============================================================================
