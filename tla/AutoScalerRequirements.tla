----------------------- MODULE AutoScalerRequirements -----------------------
(***************************************************************************)
(* What the AutoScaler may and may not do to the JVB resource it shares    *)
(* with the users and the JVB controller.                                  *)
(***************************************************************************)
EXTENDS AutoScaler

Int32 == MinInt..MaxInt

ScaledVersion == [rv : Nat, replicas : Int32, conf : Nat, status : Int32,
                  fin : BOOLEAN, del : BOOLEAN]

\* Every copy of the JVB resource fits its Go type, whatever the load and the
\* conversions of floating-point numbers make of the count.
TypeOK ==
  /\ {cr, crCache, jitsi, held} \cup {watch[k] : k \in DOMAIN watch} \subseteq ScaledVersion
  /\ {jas, spec} \subseteq Specs \cup {NoScaler}
  /\ due \in BOOLEAN
  /\ spc \in {"idle", "query", "scale", "update"}
  /\ avg \in Nat \X Nat
  /\ respecs \in 0..MaxRespecs /\ scalings \in 0..MaxScalings
  /\ faults \in 0..MaxFaults /\ crashes \in 0..MaxCrashes

-----------------------------------------------------------------------------
\* The AutoScaler stores a new version of the JVB resource.
Scales == spc = "update" /\ spc' = "idle" /\ cr' # cr

\* The PUT of a whole object read from a lagging cache changes nothing but the
\* count: no configuration, deletion, finalizer or status written meanwhile is
\* undone (scaleUp, scaleDown).
OnlyReplicasChange ==
  [][Scales => cr' = [cr EXCEPT !.rv = rv + 1, !.replicas = cr'.replicas]]_vars

\* A count that rests on a number, for a target and limits that make sense, is
\* within the limits, unless its product with the load overflows into the negative;
\* only a count that was below the minimum already may stay below it, since
\* scaleUp does not look at the minimum.
Sensible(s) == s.target > 0 /\ 1 <= s.min /\ s.min <= s.max
Ratio == RoundToEven(avg[1], avg[2] * spec.target)
Fits(count) == count \in Nat /\ count * Ratio <= MaxInt
WithinLimits ==
  [][Scales /\ Sensible(spec) /\ avg # NaN =>
       /\ cr'.replicas <= spec.max
       /\ Fits(cr.replicas) =>
            cr'.replicas >= spec.min \/ cr'.replicas >= cr.replicas]_vars

\* No failed query, panic, refused write, restart or change of the spec ends
\* the periodic rounds of a usable AutoScaler (Reconcile, Repeat).
StaysDue == spc = "idle" /\ Usable(jas) /\ jas.repeats => due

-----------------------------------------------------------------------------
(* controller-runtime serves the queue and its timers, client-go keeps the   *)
(* watch.  Nobody else needs to act.                                         *)
FairSpec == Spec /\ WF_vars(Scaler) /\ WF_vars(ReceiveVersion)

\* From some time on every answer is one and a half times the target or more, but
\* not so much that the maximum times it overflows, and the queries do not panic
\* for ever.
Overload ==
  spc = "scale" =>
    /\ avg[2] > 0 /\ 2 * avg[1] >= 3 * spec.target * avg[2]
    /\ spec.target > 0 => Fits(spec.max)
Answered == []<>(spc = "query") => []<>(spc = "scale")

\* Under a lasting overload the count reaches the maximum, however often the
\* JVB controller or the users get in between; behaviours that use up the bound
\* on stored counts are left out.
OverloadReachesMax ==
  <>[](Overload /\ scalings < MaxScalings) /\ Answered =>
    <>[](Exists(cr) /\ Usable(jas) /\ jas.repeats => cr.replicas = jas.max)
=============================================================================
