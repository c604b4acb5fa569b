------------------------------ MODULE AutoScaler ------------------------------
(***************************************************************************)
(* The controller of the AutoScaler resource (internal/jitsiautoscaler):   *)
(* every `repeat` it asks Prometheus or InfluxDB for the load of the       *)
(* bridges, computes a replica count in int32 arithmetic, and writes it    *)
(* into the JVB resource it targets - a read from the cache and a PUT of   *)
(* the whole object, beside the users and the JVB controller, who write    *)
(* the same object.                                                        *)
(***************************************************************************)
EXTENDS CustomResource, Integers

CONSTANTS MaxInt,      \* the greatest int32; TLC needs less than its own 32 bits
          Specs,       \* the AutoScaler specs users give
          Loads,       \* the answers of the monitoring, as sequences of samples
          MaxRespecs,  \* bound: changes of the AutoScaler resource
          MaxScalings, \* bound: replica counts the controller stores
          MaxFaults,   \* bound: API calls and queries that fail
          MaxCrashes   \* bound: restarts of the manager

Kinds == {"prometheus", "influxdb", "unknown"}

\* An AutoScaler spec.  token: the annotation InfluxDB needs is there;
\* repeats: the interval is positive or none is given.
ScalerSpec == [kind : Kinds, token : BOOLEAN, target : 0..MaxInt, min : 0..MaxInt,
               max : 0..MaxInt, repeats : BOOLEAN]

\* A series without the second sample the code indexes (Prometheus), or a
\* record whose value is no float (InfluxDB).
NoValue == -1

ASSUME WordAssumption ==
  MaxInt \in Nat /\ (\E w \in 1..31 : MaxInt = 2^w - 1) /\ MaxReplicas <= MaxInt
ASSUME SpecsAssumption == Specs \subseteq ScalerSpec
ASSUME LoadsAssumption == Loads \subseteq Seq(Nat \cup {NoValue})
ASSUME ScalerBoundsAssumption ==
  {MaxRespecs, MaxScalings, MaxFaults, MaxCrashes} \subseteq Nat

-----------------------------------------------------------------------------
(* Numbers.  A float64 average is a fraction <<n, d>>; <<0, 0>> is NaN. *)

MinInt == -MaxInt - 1
\* Mutant: arithmetic that does not wrap around.
NoWrap(n) == n
Wrap(n) == ((n - MinInt) % (2 * (MaxInt + 1))) + MinInt

NaN == <<0, 0>>

\* Mutant: the conversion to int32 alone, which cuts the fraction off.
RoundDown(n, d) == n \div d
\* math.RoundToEven(n / d).
RoundToEven(n, d) ==
  LET q == n \div d
      r == n % d
  IN  IF 2 * r < d \/ (2 * r = d /\ q % 2 = 0) THEN q ELSE q + 1

\* int32(math.RoundToEven(avg / target)).  What does not fit into an int32 is
\* converted as the platform likes: the least value on amd64; the nearest
\* value, and 0 for NaN, on arm64.
DesiredReplicas(avg, target) ==
  LET n == avg[1]
      d == avg[2] * target
  IN  CASE n = 0 /\ d = 0 -> {MinInt, 0}
        [] d = 0 /\ n > 0 -> {MinInt, MaxInt}
        [] OTHER -> IF RoundToEven(n, d) > MaxInt THEN {MinInt, MaxInt}
                    ELSE {RoundToEven(n, d)}

\* target > avg, false if avg is NaN.
Exceeds(target, avg) == avg # NaN /\ target * avg[2] > avg[1]

\* `sum = +value` keeps the last value, and the number of samples divides it.
LastValue(load) ==
  LET values == {k \in DOMAIN load : load[k] # NoValue}
  IN  IF values = {} THEN 0
      ELSE load[CHOOSE k \in values : \A l \in values : l <= k]
CountAvgValue(load) == <<LastValue(load), Len(load)>>

\* Mutant: no check against the maximum.
ScaleUpUncapped(replicas, desired, max) == Wrap(replicas * desired)
ScaleUp(replicas, desired, max) ==
  LET n == Wrap(replicas * desired) IN IF n > max THEN max ELSE n

ScaleDown(desired, min) == IF desired < min THEN min ELSE desired

-----------------------------------------------------------------------------
VARIABLES
  jas,     \* the AutoScaler resource as its informer shows it, or NoScaler
  due,     \* its key is queued, or will be after the interval
  spc,     \* the next call of the controller, or "idle"
  spec,    \* the spec it works with
  avg,     \* the average it was told
  jitsi,   \* the *v1beta1.JVB it holds, with the new replica count
  held,    \* the *v1beta1.JVB the JVB controller holds
  respecs, scalings, faults, crashes

scalerVars == <<due, spc, spec, avg, jitsi>>
countVars  == <<respecs, scalings, faults, crashes>>
vars == <<crVars, jas, scalerVars, held, countVars>>

NoScaler == [kind |-> "none", token |-> FALSE, target |-> 0, min |-> 0, max |-> 0,
             repeats |-> FALSE]

\* The specs whose interval brings the controller back by itself.
Usable(s) == s.kind \in {"prometheus", "influxdb"} /\ (s.kind = "influxdb" => s.token)

Init ==
  /\ CRInit
  /\ jas = NoScaler /\ due = FALSE
  /\ spc = "idle" /\ spec = NoScaler /\ avg = NaN /\ jitsi = NoObject
  /\ held = NoObject
  /\ respecs = 0 /\ scalings = 0 /\ faults = 0 /\ crashes = 0

Fault == faults < MaxFaults /\ faults' = faults + 1

\* Reconcile ends; again: the key comes back, by RequeueAfter or as an error.
Finish(again) ==
  /\ spc' = "idle" /\ spec' = NoScaler /\ avg' = NaN /\ jitsi' = NoObject
  /\ due' = (due \/ again)

\* Mutant: only a round that has stored a count asks for the next one.
FinishStored == Finish(spec.repeats /\ cr' # cr)
FinishScale == Finish(spec.repeats)

-----------------------------------------------------------------------------
(* Reconcile, newInstance. *)

Begin == spc = "idle" /\ due /\ scalings < MaxScalings

\* NotFound and an unknown kind of monitoring end the matter; a missing token is
\* an error, which is retried, and stands for a malformed host as well.
ReconcileNothing ==
  /\ Begin /\ ~Usable(jas)
  /\ due' = (jas.kind = "influxdb")
  /\ UNCHANGED <<crVars, jas, spc, spec, avg, jitsi, held, countVars>>

ReconcileScaler ==
  /\ Begin /\ Usable(jas)
  /\ due' = FALSE /\ spc' = "query" /\ spec' = jas
  /\ UNCHANGED <<crVars, jas, avg, jitsi, held, countVars>>

\* getAvgValueForMetric, countAvgValueByRequest.  A failed query is an average
\* of 1 with Prometheus and of 0 with InfluxDB; an unknown metric, an average of
\* 0 without a query, is not told apart from an answer of 0.
Told(a) == avg' = a /\ spc' = "scale" /\ UNCHANGED <<due, spec, jitsi>>

QueryFails ==
  /\ spc = "query" /\ Fault
  /\ Told(IF spec.kind = "prometheus" THEN <<1, 1>> ELSE <<0, 1>>)
  /\ UNCHANGED <<crVars, jas, held, respecs, scalings, crashes>>

\* Values[1] of a series with one sample panics.  controller-runtime recovers
\* and treats it as an error.
Panics(load) ==
  spec.kind = "prometheus" /\ \E k \in DOMAIN load : load[k] = NoValue

QueryAnswered ==
  /\ spc = "query"
  /\ \E load \in Loads : IF Panics(load) THEN Finish(TRUE) ELSE Told(CountAvgValue(load))
  /\ UNCHANGED <<crVars, jas, held, countVars>>

\* scaleUp, scaleDown up to the write: the JVB is read from the cache.
ScaleNothing ==
  /\ spc = "scale" /\ ~Exists(crCache)
  /\ UNCHANGED <<crVars, jas, held, countVars>>
  /\ FinishScale

Scale ==
  /\ spc = "scale" /\ Exists(crCache)
  /\ \E desired \in DesiredReplicas(avg, spec.target) :
       jitsi' = [crCache EXCEPT !.replicas =
                    IF Exceeds(spec.target, avg) THEN ScaleDown(desired, spec.min)
                                                 ELSE ScaleUp(@, desired, spec.max)]
  /\ spc' = "update"
  /\ UNCHANGED <<crVars, jas, due, spec, avg, held, countVars>>

\* Mutant: the PUT carries no resourceVersion.
PutUnlocked(v) ==
  /\ Exists(cr)
  /\ IF Stored(Defaulted(v)) = Stored(cr) THEN UNCHANGED <<cr, rv, watch>>
     ELSE Store(Defaulted(v))

\* A PUT of the whole object; storing what is stored already is no write.
PutJVB(v) ==
  /\ Current(v)
  /\ IF Defaulted(v) = cr THEN UNCHANGED <<cr, rv, watch>> ELSE Store(Defaulted(v))

Counted == scalings' = IF cr' = cr THEN scalings ELSE scalings + 1

\* Whatever becomes of the write, its error is logged.
UpdateJVB ==
  /\ spc = "update"
  /\ UNCHANGED <<crCache, queued, edits, relists, jas, held, respecs, crashes>>
  /\ \/ PutJVB(jitsi) /\ UNCHANGED faults
     \/ ~Current(jitsi) /\ UNCHANGED <<cr, rv, watch, faults>>
     \/ Fault /\ (PutJVB(jitsi) \/ UNCHANGED <<cr, rv, watch>>)
  /\ Counted
  /\ FinishScale

-----------------------------------------------------------------------------
(* The JVB controller, as far as the JVB resource shows it: it reads the     *)
(* resource from the same cache and later writes a finalizer or the status.  *)

ReadJVB ==
  /\ Exists(crCache) /\ held # crCache
  /\ held' = crCache
  /\ UNCHANGED <<crVars, jas, scalerVars, countVars>>

WriteJVB ==
  /\ \/ ~held.del /\ ~held.fin /\ AddFinalizer(held)
     \/ ~held.del /\ held.fin /\ WriteStatus(held, held.replicas)
     \/ held.del /\ RemoveFinalizer(held)
  /\ held' = cr'
  /\ UNCHANGED <<crCache, queued, edits, relists, jas, scalerVars, countVars>>

-----------------------------------------------------------------------------
(* Users, informers, restarts. *)

UserWrite == User /\ UNCHANGED <<jas, scalerVars, held, countVars>>

\* There is no event filter: every change of the AutoScaler queues its key.
Respec ==
  /\ respecs < MaxRespecs /\ respecs' = respecs + 1
  /\ \E s \in Specs \cup {NoScaler} : jas' = s /\ s # jas
  /\ due' = TRUE
  /\ UNCHANGED <<crVars, spc, spec, avg, jitsi, held, scalings, faults, crashes>>

ReceiveVersion ==
  Deliver(FALSE) /\ UNCHANGED <<jas, scalerVars, held, countVars>>

Crash ==
  /\ crashes < MaxCrashes /\ crashes' = crashes + 1
  /\ RestartInformer
  /\ spc' = "idle" /\ spec' = NoScaler /\ avg' = NaN /\ jitsi' = NoObject
  /\ held' = NoObject
  /\ due' = (jas # NoScaler)
  /\ UNCHANGED <<jas, respecs, scalings, faults>>

Scaler ==
  \/ ReconcileNothing \/ ReconcileScaler \/ QueryFails \/ QueryAnswered
  \/ ScaleNothing \/ Scale \/ UpdateJVB

Next ==
  \/ Scaler
  \/ ReadJVB \/ WriteJVB
  \/ UserWrite \/ Respec
  \/ ReceiveVersion
  \/ Crash

Spec == Init /\ [][Next]_vars
=============================================================================
