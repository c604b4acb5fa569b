--------------------------- MODULE AutoScalerProofs ---------------------------
(***************************************************************************)
(* Theorems about AutoScaler, for every value of its constants.            *)
(***************************************************************************)
EXTENDS AutoScalerRequirements, SequenceTheorems, FiniteSetTheorems, WellFoundedInduction,
        TLAPS

-----------------------------------------------------------------------------
(* The rounds go on. *)

\* While a round is at work on a spec that is no longer the stored one, the
\* change of it has queued the key.
RoundsInv ==
  /\ StaysDue
  /\ spc # "idle" => due \/ spec = jas

LEMMA NoScalerIsUseless == ~Usable(NoScaler)
<1>1. NoScaler.kind = "none"
  BY DEF NoScaler
<1> QED
  BY <1>1 DEF Usable

LEMMA FinishGoesOn ==
  ASSUME RoundsInv, spc # "idle", NEW again, spec.repeats => again, Finish(again),
         jas' = jas
  PROVE  RoundsInv'
  BY DEF RoundsInv, StaysDue, Finish, Usable

LEMMA StepGoesOn ==
  ASSUME RoundsInv, [Next]_vars
  PROVE  RoundsInv'
<1> USE DEF RoundsInv, StaysDue
<1>1. CASE ReconcileNothing \/ ReconcileScaler
  BY <1>1 DEF ReconcileNothing, ReconcileScaler, Begin, Usable
<1>2. CASE QueryFails
  BY <1>2 DEF QueryFails, Told
<1>3. CASE QueryAnswered
  <2>1. spc = "query" /\ jas' = jas
    BY <1>3 DEF QueryAnswered
  <2>2. Finish(TRUE) \/ \E a : Told(a)
    BY <1>3 DEF QueryAnswered
  <2>3. CASE Finish(TRUE)
    BY <2>1, <2>3, FinishGoesOn
  <2>4. CASE \E a : Told(a)
    BY <2>1, <2>4 DEF Told
  <2> QED
    BY <2>2, <2>3, <2>4
<1>4. CASE ScaleNothing \/ UpdateJVB
  <2>1. spc # "idle" /\ jas' = jas /\ Finish(spec.repeats)
    BY <1>4 DEF ScaleNothing, UpdateJVB, FinishScale
  <2> QED
    BY <2>1, FinishGoesOn
<1>5. CASE Scale
  BY <1>5 DEF Scale
<1>6. CASE ReadJVB \/ WriteJVB \/ UserWrite \/ ReceiveVersion \/ UNCHANGED vars
  BY <1>6 DEF ReadJVB, WriteJVB, UserWrite, ReceiveVersion, vars, scalerVars, Usable
<1>7. CASE Respec
  BY <1>7 DEF Respec
<1>8. CASE Crash
  <2>1. spc' = "idle" /\ jas' = jas /\ due' = (jas # NoScaler)
    BY <1>8 DEF Crash
  <2> QED
    BY <2>1, NoScalerIsUseless DEF Usable
<1> QED
  BY <1>1, <1>2, <1>3, <1>4, <1>5, <1>6, <1>7, <1>8 DEF Next, Scaler

\* No panic, failed query, refused write or restart ends the rounds of an
\* AutoScaler that repeats (Reconcile, Repeat).
THEOREM RoundsGoOn == Spec => []StaysDue
<1>1. Init => RoundsInv
  BY NoScalerIsUseless DEF Init, RoundsInv, StaysDue
<1>2. RoundsInv => StaysDue
  BY DEF RoundsInv
<1> QED
  BY <1>1, <1>2, StepGoesOn, PTL DEF Spec
-----------------------------------------------------------------------------
(* The PUT of the whole object. *)

\* A version, whatever the range of its counts.
IsVersion(v) ==
  /\ v = [rv |-> v.rv, replicas |-> v.replicas, conf |-> v.conf,
          status |-> v.status, fin |-> v.fin, del |-> v.del]
  /\ v.rv \in Nat

Streams == \E S : watch \in Seq(S)
Announced == {watch[k] : k \in DOMAIN watch}
Copies == {crCache, held} \cup Announced

\* A copy that carries the resourceVersion w carries is w.
Copy(v, w, last) == v.rv <= last /\ (Exists(w) /\ v.rv = w.rv => v = w)

\* What the AutoScaler holds is a copy of the resource but for the count.
CopiesInv ==
  /\ rv \in Nat /\ Streams
  /\ \A v \in {cr, jitsi} \cup Copies : IsVersion(v)
  /\ \A v \in {cr} \cup Copies : Copy(v, cr, rv)
  /\ Copy([jitsi EXCEPT !.replicas = cr.replicas], cr, rv)

\* The fields of a version that was rewritten.
LEMMA VersionFields ==
  ASSUME NEW v, IsVersion(v), NEW n, NEW b
  PROVE  /\ IsVersion([v EXCEPT !.replicas = n]) /\ [v EXCEPT !.replicas = n].rv = v.rv
         /\ IsVersion([v EXCEPT !.status = n]) /\ [v EXCEPT !.status = n].rv = v.rv
         /\ IsVersion([v EXCEPT !.conf = n]) /\ [v EXCEPT !.conf = n].rv = v.rv
         /\ IsVersion([v EXCEPT !.fin = b]) /\ [v EXCEPT !.fin = b].rv = v.rv
         /\ IsVersion([v EXCEPT !.del = b]) /\ [v EXCEPT !.del = b].rv = v.rv
         /\ n \in Nat => IsVersion([v EXCEPT !.rv = n]) /\ [v EXCEPT !.rv = n].rv = n
  BY DEF IsVersion

LEMMA NoObjectIsVersion == IsVersion(NoObject) /\ ~Exists(NoObject)
  BY DEF NoObject, IsVersion, Exists

LEMMA DefaultedIsVersion ==
  ASSUME NEW v, IsVersion(v)
  PROVE  IsVersion(Defaulted(v))
<1>1. PICK n : Defaulted(v) = [v EXCEPT !.replicas = n]
  BY DEF Defaulted
<1>2. IsVersion([v EXCEPT !.replicas = n])
  BY VersionFields
<1> QED
  BY <1>1, <1>2

\* A write of the resource, and what the copies in circulation are after it.
Writes ==
  \/ UNCHANGED <<cr, rv, watch>>
  \/ \E v : IsVersion(v) /\ Store(v)
  \/ Remove

LEMMA AppendAnnounces ==
  ASSUME Streams, NEW v, watch' = Append(watch, v)
  PROVE  Streams' /\ Announced' \subseteq Announced \cup {v}
<1>1. PICK S : watch \in Seq(S)
  BY DEF Streams
<1>2. watch \in Seq(S \cup {v}) /\ DOMAIN watch = 1..Len(watch) /\ Len(watch) \in Nat
  BY <1>1
<1>3. watch' \in Seq(S \cup {v}) /\ Len(watch') = Len(watch) + 1
  BY <1>2, AppendProperties
<1>4. DOMAIN watch' = 1..(Len(watch) + 1)
  BY <1>2, <1>3
<1>5. \A k \in DOMAIN watch' : watch'[k] = v \/ (k \in DOMAIN watch /\ watch'[k] = watch[k])
  BY <1>2, <1>4, AppendProperties
<1> QED
  BY <1>3, <1>5 DEF Streams, Announced

LEMMA TailAnnounces ==
  ASSUME Streams, watch # <<>>, watch' = Tail(watch)
  PROVE  Streams' /\ Announced' \subseteq Announced /\ Head(watch) \in Announced
<1>1. PICK S : watch \in Seq(S)
  BY DEF Streams
<1>2. DOMAIN watch = 1..Len(watch) /\ Len(watch) \in Nat /\ Len(watch) > 0
  BY <1>1
<1>3. watch' \in Seq(S) /\ DOMAIN watch' = 1..(Len(watch) - 1)
  BY <1>1, <1>2, HeadTailProperties
<1>4. \A k \in DOMAIN watch' : k + 1 \in DOMAIN watch /\ watch'[k] = watch[k + 1]
  BY <1>1, <1>2, <1>3, HeadTailProperties
<1>5. 1 \in DOMAIN watch /\ Head(watch) = watch[1]
  BY <1>1, <1>2
<1> QED
  BY <1>3, <1>4, <1>5 DEF Streams, Announced

LEMMA WriteKeepsCopies ==
  ASSUME CopiesInv, Writes, UNCHANGED crCache,
         held' \in {held, cr'}, jitsi' \in {jitsi, NoObject}
  PROVE  CopiesInv'
<1>1. /\ rv \in Nat /\ Streams
      /\ \A v \in {cr, jitsi} \cup Copies : IsVersion(v)
      /\ \A v \in {cr} \cup Copies : Copy(v, cr, rv)
      /\ Copy([jitsi EXCEPT !.replicas = cr.replicas], cr, rv)
  BY DEF CopiesInv
<1>2. CASE UNCHANGED <<cr, rv, watch>>
  <2>1. Streams' /\ Copies' \subseteq Copies \cup {cr}
    BY <1>1, <1>2 DEF Streams, Announced, Copies
  <2>2. Copy([NoObject EXCEPT !.replicas = cr.replicas], cr, rv)
    <3>1. [NoObject EXCEPT !.replicas = cr.replicas].rv = 0
      BY DEF NoObject
    <3> QED
      BY <1>1, <3>1 DEF Copy, Exists
  <2> QED
    BY <1>1, <1>2, <2>1, <2>2, NoObjectIsVersion DEF CopiesInv
<1>3. ASSUME NEW w, IsVersion(w), w.rv = 0 \/ w.rv = rv + 1,
             cr' = w, rv' = rv + 1, watch' = Append(watch, w)
      PROVE  CopiesInv'
  <2>1. Streams' /\ Announced' \subseteq Announced \cup {w}
    BY <1>1, <1>3, AppendAnnounces
  <2>2. Copies' \subseteq Copies \cup {w}
    BY <1>3, <2>1 DEF Copies
  <2>3. \A v : IsVersion(v) /\ v.rv <= rv => Copy(v, w, rv + 1)
    BY <1>1, <1>3 DEF Copy, Exists, IsVersion
  <2>4. Copy(w, w, rv + 1)
    BY <1>1, <1>3 DEF Copy
  <2>5. \A v \in {cr} \cup Copies : Copy(v, w, rv + 1)
    BY <1>1, <2>3 DEF Copy
  <2>6. Copy([jitsi' EXCEPT !.replicas = w.replicas], w, rv + 1)
    <3>1. jitsi.rv <= rv
      <4>1. [jitsi EXCEPT !.replicas = cr.replicas].rv = jitsi.rv
        BY <1>1, VersionFields
      <4> QED
        BY <1>1, <4>1 DEF Copy
    <3>2. IsVersion(jitsi') /\ jitsi'.rv <= rv
      <4>1. NoObject.rv = 0 /\ 0 <= rv
        BY <1>1 DEF NoObject
      <4> QED
        BY <1>1, <3>1, <4>1, NoObjectIsVersion
    <3>3. /\ IsVersion([jitsi' EXCEPT !.replicas = w.replicas])
          /\ [jitsi' EXCEPT !.replicas = w.replicas].rv = jitsi'.rv
      BY <3>2, VersionFields
    <3> QED
      BY <2>3, <3>2, <3>3
  <2>7. IsVersion(jitsi') /\ rv + 1 \in Nat
    BY <1>1, NoObjectIsVersion
  <2> QED
    BY <1>1, <1>3, <2>1, <2>2, <2>4, <2>5, <2>6, <2>7 DEF CopiesInv
<1>4. CASE Remove
  <2>1. NoObject.rv = 0
    BY DEF NoObject
  <2> QED
    BY <1>3, <1>4, <2>1, NoObjectIsVersion DEF Remove
<1>5. ASSUME NEW v, IsVersion(v), Store(v) PROVE CopiesInv'
  <2>1. IsVersion(Stored(v)) /\ Stored(v).rv = rv + 1
    <3>1. rv + 1 \in Nat
      BY <1>1
    <3> QED
      BY <1>5, <3>1 DEF Stored, IsVersion
  <2> QED
    BY <1>3, <1>5, <2>1 DEF Store
<1> QED
  BY <1>2, <1>4, <1>5 DEF Writes

\* Reads and deliveries, and counts the AutoScaler puts into its copy.
LEMMA ReadKeepsCopies ==
  ASSUME CopiesInv, UNCHANGED <<cr, rv>>,
         \/ UNCHANGED <<crCache, watch>>
         \/ watch # <<>> /\ crCache' = Head(watch) /\ watch' = Tail(watch)
         \/ crCache' = cr /\ watch' = <<>>,
         held' \in {held, crCache, NoObject},
         \/ jitsi' \in {jitsi, NoObject}
         \/ \E n : jitsi' = [crCache EXCEPT !.replicas = n]
  PROVE  CopiesInv'
<1>1. /\ rv \in Nat /\ Streams
      /\ \A v \in {cr, jitsi} \cup Copies : IsVersion(v)
      /\ \A v \in {cr} \cup Copies : Copy(v, cr, rv)
      /\ Copy([jitsi EXCEPT !.replicas = cr.replicas], cr, rv)
  BY DEF CopiesInv
<1>2. /\ Streams' /\ Announced' \subseteq Announced
      /\ crCache' \in {cr, crCache} \cup Announced
  <2>1. CASE UNCHANGED <<crCache, watch>>
    BY <1>1, <2>1 DEF Announced, Streams
  <2>2. CASE watch # <<>> /\ crCache' = Head(watch) /\ watch' = Tail(watch)
    BY <1>1, <2>2, TailAnnounces
  <2>3. CASE crCache' = cr /\ watch' = <<>>
    <3>1. <<>> \in Seq({}) /\ DOMAIN watch' = {}
      BY <2>3
    <3> QED
      BY <2>3, <3>1 DEF Announced, Streams
  <2> QED
    BY <2>1, <2>2, <2>3
<1>3. Copies' \subseteq {cr, NoObject} \cup Copies
  BY <1>2 DEF Copies
<1>4. Copy(NoObject, cr, rv) /\ Copy([NoObject EXCEPT !.replicas = cr.replicas], cr, rv)
  <2>1. NoObject.rv = 0 /\ [NoObject EXCEPT !.replicas = cr.replicas].rv = 0
    BY DEF NoObject
  <2> QED
    BY <1>1, <2>1 DEF Copy, Exists
<1>5. /\ IsVersion(jitsi')
      /\ Copy([jitsi' EXCEPT !.replicas = cr.replicas], cr, rv)
  <2>1. CASE jitsi' \in {jitsi, NoObject}
    BY <1>1, <1>4, <2>1, NoObjectIsVersion
  <2>2. ASSUME NEW n, jitsi' = [crCache EXCEPT !.replicas = n]
        PROVE  /\ IsVersion(jitsi')
               /\ Copy([jitsi' EXCEPT !.replicas = cr.replicas], cr, rv)
    <3>1. IsVersion(crCache) /\ Copy(crCache, cr, rv)
      BY <1>1 DEF Copies
    <3>2. [jitsi' EXCEPT !.replicas = cr.replicas] = [crCache EXCEPT !.replicas = cr.replicas]
      BY <2>2, <3>1 DEF IsVersion
    <3>3. IsVersion(jitsi') /\ [crCache EXCEPT !.replicas = cr.replicas].rv = crCache.rv
      BY <2>2, <3>1, VersionFields
    <3>4. crCache = cr => [crCache EXCEPT !.replicas = cr.replicas] = cr
      BY <3>1 DEF IsVersion
    <3> QED
      BY <3>1, <3>2, <3>3, <3>4 DEF Copy
  <2> QED
    BY <2>1, <2>2
<1> QED
  BY <1>1, <1>2, <1>3, <1>4, <1>5, NoObjectIsVersion DEF CopiesInv
LEMMA InitCopies == Init => CopiesInv
<1> SUFFICES ASSUME Init PROVE CopiesInv
  OBVIOUS
<1>1. cr = NoObject /\ crCache = NoObject /\ jitsi = NoObject /\ held = NoObject
      /\ rv = 0 /\ watch = <<>>
  BY DEF Init, CRInit
<1>2. <<>> \in Seq({}) /\ Announced = {}
  BY <1>1 DEF Announced
<1>3. NoObject.rv = 0 /\ [NoObject EXCEPT !.replicas = NoObject.replicas] = NoObject
  BY DEF NoObject
<1> QED
  BY <1>1, <1>2, <1>3, NoObjectIsVersion DEF CopiesInv, Copies, Copy, Streams

\* The PUT changes the count alone, since what it sends is a copy but for it.
LEMMA PutChangesCount ==
  ASSUME CopiesInv, PutJVB(jitsi)
  PROVE  /\ Writes
         /\ cr' # cr => cr' = [cr EXCEPT !.rv = rv + 1, !.replicas = cr'.replicas]
<1>1. IsVersion(cr) /\ IsVersion(jitsi) /\ rv + 1 \in Nat
  BY DEF CopiesInv
<1>2. [jitsi EXCEPT !.replicas = cr.replicas] = cr
  <2>1. Exists(cr) /\ cr.rv = [jitsi EXCEPT !.replicas = cr.replicas].rv
    BY <1>1, VersionFields DEF PutJVB, Current
  <2> QED
    BY <2>1 DEF CopiesInv, Copy
<1>3. IsVersion(Defaulted(jitsi))
  BY <1>1, DefaultedIsVersion
<1>4. CASE Store(Defaulted(jitsi))
  <2>1. cr' = [Defaulted(jitsi) EXCEPT !.rv = rv + 1]
    BY <1>4 DEF Store, Stored
  <2>2. PICK n : Defaulted(jitsi) = [jitsi EXCEPT !.replicas = n]
    BY DEF Defaulted
  <2>3. /\ jitsi.conf = cr.conf /\ jitsi.status = cr.status
        /\ jitsi.fin = cr.fin /\ jitsi.del = cr.del
    BY <1>1, <1>2 DEF IsVersion
  <2>4. cr' = [cr EXCEPT !.rv = rv + 1, !.replicas = cr'.replicas]
    <3> DEFINE w == [rv |-> rv + 1, replicas |-> n, conf |-> cr.conf,
                     status |-> cr.status, fin |-> cr.fin, del |-> cr.del]
    <3>1. cr' = w
      BY <1>1, <2>1, <2>2, <2>3 DEF IsVersion
    <3>2. [cr EXCEPT !.rv = rv + 1, !.replicas = n] = w
      <4> DEFINE u == [cr EXCEPT !.rv = rv + 1]
      <4>1. u = [rv |-> rv + 1, replicas |-> cr.replicas, conf |-> cr.conf,
                 status |-> cr.status, fin |-> cr.fin, del |-> cr.del]
        BY <1>1 DEF IsVersion
      <4>2. [u EXCEPT !.replicas = n] = w
        <5> HIDE DEF u
        <5> QED
          BY <4>1
      <4> QED
        BY <4>2
    <3>3. w.replicas = n
      OBVIOUS
    <3> QED
      BY <3>1, <3>2, <3>3
  <2> QED
    BY <1>3, <1>4, <2>4 DEF Writes
<1>5. CASE UNCHANGED <<cr, rv, watch>>
  BY <1>5 DEF Writes
<1> QED
  BY <1>4, <1>5 DEF PutJVB

LEMMA HeldWrites ==
  ASSUME CopiesInv, WriteJVB
  PROVE  Writes
<1>1. IsVersion(cr) /\ IsVersion(held)
  BY DEF CopiesInv, Copies
<1>2. CASE AddFinalizer(held)
  <2>1. IsVersion(Defaulted([held EXCEPT !.fin = TRUE]))
    BY <1>1, VersionFields, DefaultedIsVersion
  <2> QED
    BY <1>2, <2>1 DEF AddFinalizer, Writes
<1>3. CASE WriteStatus(held, held.replicas)
  <2>1. IsVersion([cr EXCEPT !.status = held.replicas])
    BY <1>1, VersionFields
  <2> QED
    BY <1>3, <2>1 DEF WriteStatus, Writes
<1>4. CASE RemoveFinalizer(held)
  BY <1>4 DEF RemoveFinalizer, Writes
<1> QED
  BY <1>2, <1>3, <1>4 DEF WriteJVB

LEMMA UserWrites ==
  ASSUME CopiesInv, User
  PROVE  Writes
<1>1. IsVersion(cr)
  BY DEF CopiesInv
<1>2. ASSUME NEW n, UserCreate(n) PROVE Writes
  <2>1. IsVersion([NoObject EXCEPT !.replicas = n, !.conf = edits + 1])
    <3>1. IsVersion([[NoObject EXCEPT !.replicas = n] EXCEPT !.conf = edits + 1])
      BY NoObjectIsVersion, VersionFields
    <3>2. [NoObject EXCEPT !.replicas = n, !.conf = edits + 1]
            = [[NoObject EXCEPT !.replicas = n] EXCEPT !.conf = edits + 1]
      BY DEF NoObject
    <3> QED
      BY <3>1, <3>2
  <2> QED
    BY <1>2, <2>1 DEF UserCreate, Writes
<1>3. ASSUME NEW n, UserScale(n) PROVE Writes
  BY <1>1, <1>3, VersionFields DEF UserScale, Writes
<1>4. CASE UserReconfigure
  BY <1>1, <1>4, VersionFields DEF UserReconfigure, Writes
<1>5. CASE UserDelete
  BY <1>1, <1>5, VersionFields DEF UserDelete, Writes
<1> QED
  BY <1>2, <1>3, <1>4, <1>5 DEF User

OneField == Scales => cr' = [cr EXCEPT !.rv = rv + 1, !.replicas = cr'.replicas]

LEMMA StepCopies ==
  ASSUME CopiesInv, [Next]_vars
  PROVE  CopiesInv' /\ OneField
<1>1. CASE UpdateJVB
  <2>1. PutJVB(jitsi) \/ UNCHANGED <<cr, rv, watch>>
    BY <1>1 DEF UpdateJVB
  <2>2. Writes /\ OneField
    BY <2>1, PutChangesCount DEF Writes, OneField, Scales
  <2>3. crCache' = crCache /\ held' = held /\ jitsi' = NoObject
    BY <1>1 DEF UpdateJVB, FinishScale, Finish
  <2> QED
    BY <2>2, <2>3, WriteKeepsCopies
<1>2. CASE WriteJVB
  <2>1. UNCHANGED <<crCache, jitsi, spc>> /\ held' = cr'
    BY <1>2 DEF WriteJVB, scalerVars
  <2> QED
    BY <1>2, <2>1, HeldWrites, WriteKeepsCopies DEF OneField, Scales
<1>3. CASE UserWrite
  <2>1. UNCHANGED <<crCache, held, jitsi, spc>> /\ User
    BY <1>3 DEF UserWrite, scalerVars, User, UserCreate, UserScale, UserReconfigure,
       UserDelete, UserStep
  <2> QED
    BY <2>1, UserWrites, WriteKeepsCopies DEF OneField, Scales
<1>4. CASE ~UpdateJVB /\ ~WriteJVB /\ ~UserWrite
  <2>1. UNCHANGED <<cr, rv>>
    BY <1>4 DEF Next, Scaler, ReconcileNothing, ReconcileScaler, QueryFails,
       QueryAnswered, ScaleNothing, Scale, ReadJVB, Respec, ReceiveVersion, Deliver,
       Crash, RestartInformer, vars, crVars
  <2>2. CASE Scaler \/ Respec \/ UNCHANGED vars
    <3>1. UNCHANGED <<crCache, watch, held>>
      BY <1>4, <2>2 DEF Scaler, ReconcileNothing, ReconcileScaler, QueryFails,
         QueryAnswered, ScaleNothing, Scale, Respec, vars, crVars
    <3>2. \/ jitsi' \in {jitsi, NoObject}
          \/ \E n : jitsi' = [crCache EXCEPT !.replicas = n]
      <4>1. CASE Scale
        <5>1. PICK d : jitsi' = [crCache EXCEPT !.replicas =
                 IF Exceeds(spec.target, avg) THEN ScaleDown(d, spec.min)
                                              ELSE ScaleUp(@, d, spec.max)]
          BY <4>1 DEF Scale
        <5> QED
          BY <5>1
      <4> QED
        BY <1>4, <2>2, <4>1 DEF Scaler, ReconcileNothing, ReconcileScaler, QueryFails,
           QueryAnswered, ScaleNothing, Respec, vars, scalerVars, Told, FinishScale, Finish
    <3> QED
      BY <2>1, <3>1, <3>2, ReadKeepsCopies DEF OneField, Scales
  <2>3. CASE ReadJVB
    BY <2>1, <2>3, ReadKeepsCopies DEF ReadJVB, OneField, Scales, scalerVars, crVars
  <2>4. CASE ReceiveVersion
    BY <2>1, <2>4, ReadKeepsCopies DEF ReceiveVersion, Deliver, OneField, Scales, scalerVars
  <2>5. CASE Crash
    BY <2>1, <2>5, ReadKeepsCopies DEF Crash, RestartInformer, OneField, Scales
  <2> QED
    BY <1>4, <2>2, <2>3, <2>4, <2>5 DEF Next
<1> QED
  BY <1>1, <1>2, <1>3, <1>4

\* The PUT of a whole object undoes nobody's write: of all that users and the JVB
\* controller store meanwhile it changes the replica count alone (scaleUp,
\* scaleDown).
THEOREM NothingUndone == Spec => OnlyReplicasChange
<1>1. CopiesInv /\ [Next]_vars => CopiesInv' /\ [OneField]_vars
  BY StepCopies
<1> QED
  BY <1>1, InitCopies, PTL DEF Spec, OnlyReplicasChange, OneField

-----------------------------------------------------------------------------
(* Numbers. *)

LEMMA IntFacts ==
  /\ MaxInt \in Nat /\ MaxInt >= 1 /\ MinInt \in Int /\ MinInt = -MaxInt - 1
  /\ 0 \in Int32 /\ 1 \in Int32
<1>1. MaxInt \in Nat /\ MaxInt >= 1
  BY WordAssumption, ReplicasAssumption
<1> QED
  BY <1>1 DEF MinInt, Int32

\* int32 arithmetic stays in range, and changes no number that is.
LEMMA WrapInt ==
  ASSUME NEW n \in Int
  PROVE  Wrap(n) \in Int32 /\ (n \in Int32 => Wrap(n) = n)
<1> DEFINE m == MaxInt + 1
<1>1. m \in Nat /\ m > 0 /\ MinInt = -m /\ Int32 = (-m)..(m - 1)
  BY IntFacts DEF Int32
<1>2. Wrap(n) = ((n + m) % (2 * m)) - m
  BY <1>1, IntFacts DEF Wrap
<1> HIDE DEF m
<1>3. (n + m) % (2 * m) \in 0..(2 * m - 1)
  BY <1>1
<1>4. n \in (-m)..(m - 1) => (n + m) % (2 * m) = n + m
  BY <1>1
<1> QED
  BY <1>1, <1>2, <1>3, <1>4

LEMMA RoundNat ==
  ASSUME NEW n \in Nat, NEW d \in Nat, d > 0
  PROVE  /\ RoundToEven(n, d) \in Nat
         /\ n < d => RoundToEven(n, d) <= 1
         /\ n >= d => RoundToEven(n, d) >= 1
<1>1. n \div d \in Nat /\ (n < d => n \div d = 0) /\ (n >= d => n \div d >= 1)
  OBVIOUS
<1>2. RoundToEven(n, d) \in {n \div d, n \div d + 1}
  BY DEF RoundToEven
<1> QED
  BY <1>1, <1>2

LEMMA DesiredFits ==
  ASSUME NEW a \in Nat \X Nat, NEW target \in Nat,
         NEW desired \in DesiredReplicas(a, target)
  PROVE  /\ desired \in Int32
         /\ a[2] * target > 0 /\ RoundToEven(a[1], a[2] * target) <= MaxInt
              => desired = RoundToEven(a[1], a[2] * target)
<1> DEFINE n == a[1]
           d == a[2] * target
<1>1. n \in Nat /\ d \in Nat
  OBVIOUS
<1>2. \/ d = 0 /\ desired \in {MinInt, 0, MaxInt}
      \/ /\ d > 0
         /\ desired \in IF RoundToEven(n, d) > MaxInt THEN {MinInt, MaxInt}
                        ELSE {RoundToEven(n, d)}
  <2>1. DesiredReplicas(a, target) =
          CASE n = 0 /\ d = 0 -> {MinInt, 0}
            [] d = 0 /\ n > 0 -> {MinInt, MaxInt}
            [] OTHER -> IF RoundToEven(n, d) > MaxInt THEN {MinInt, MaxInt}
                        ELSE {RoundToEven(n, d)}
    BY DEF DesiredReplicas
  <2> HIDE DEF n, d
  <2> QED
    BY <1>1, <2>1
<1> HIDE DEF n, d
<1>3. d > 0 => RoundToEven(n, d) \in Nat
  BY <1>1, RoundNat
<1>4. MinInt \in Int32 /\ MaxInt \in Int32 /\ 0 \in Int32
  BY IntFacts DEF Int32
<1>5. desired \in Int32
  BY <1>1, <1>2, <1>3, <1>4, IntFacts DEF Int32
<1>6. d > 0 /\ RoundToEven(n, d) <= MaxInt => desired = RoundToEven(n, d)
  BY <1>1, <1>2, <1>3, IntFacts
<1> QED
  BY <1>5, <1>6 DEF n, d

\* A set of natural numbers with an upper bound has a greatest one.
LEMMA Greatest ==
  ASSUME NEW n \in Nat, NEW T \in SUBSET (1..n), T # {}
  PROVE  \E k \in T : \A l \in T : l <= k
<1> DEFINE Above(k) == {l \in T : l > k}
           Family == {Above(k) : k \in T}
<1>1. IsFiniteSet(T)
  <2>1. IsFiniteSet(1..n)
    <3>1. 1 \in Int /\ n \in Int
      OBVIOUS
    <3> QED
      BY <3>1, FS_Interval
  <2> QED
    BY <2>1, FS_Subset
<1>2. /\ \A k, l, j \in T : l > k /\ j > l => j > k
      /\ \A k, l \in T : l > k \/ l <= k
      /\ \A k \in T : ~(k > k)
  <2>1. T \subseteq Nat
    OBVIOUS
  <2> QED
    BY <2>1
<1>3. ASSUME NEW k \in T PROVE Above(k) \in FiniteSubsetsOf(T)
  <2>1. Above(k) \in SUBSET T
    OBVIOUS
  <2> HIDE DEF Above
  <2>2. IsFiniteSet(Above(k))
    BY <1>1, <2>1, FS_Subset
  <2> QED
    BY <2>1, <2>2 DEF FiniteSubsetsOf
<1>4. Family \in SUBSET FiniteSubsetsOf(T) /\ Family # {}
  BY <1>3
<1>5. PICK U \in Family : \A V \in Family : ~(<<V, U>> \in StrictSubsetOrdering(T))
  BY <1>4, FS_StrictSubsetOrderingWellFounded, WFMin
<1>6. PICK k \in T : U = Above(k)
  OBVIOUS
<1>7. ASSUME NEW l \in T, l > k PROVE FALSE
  <2>1. Above(l) \in Family
    OBVIOUS
  <2>2. Above(l) \subseteq Above(k) /\ l \in Above(k) /\ l \notin Above(l)
    BY <1>2, <1>7
  <2>3. Above(l) \subseteq T /\ Above(k) \subseteq T
    OBVIOUS
  <2> HIDE DEF Above, Family
  <2>4. <<Above(l), U>> \in StrictSubsetOrdering(T)
    BY <1>6, <2>2, <2>3 DEF StrictSubsetOrdering
  <2> QED
    BY <1>5, <2>1, <2>4
<1> QED
  BY <1>2, <1>7

LEMMA LastValueNat ==
  ASSUME NEW load \in Loads
  PROVE  /\ CountAvgValue(load) \in Nat \X Nat
         /\ CountAvgValue(load)[2] = 0 => CountAvgValue(load) = NaN
<1> DEFINE values == {k \in DOMAIN load : load[k] # NoValue}
           last == CHOOSE k \in values : \A l \in values : l <= k
<1>1. /\ load \in Seq(Nat \cup {NoValue}) /\ Len(load) \in Nat
      /\ DOMAIN load = 1..Len(load)
  BY LoadsAssumption
<1>2. values # {} => last \in values
  BY <1>1, Greatest
<1>3. LastValue(load) = IF values = {} THEN 0 ELSE load[last]
  BY DEF LastValue
<1>4. LastValue(load) \in Nat /\ (Len(load) = 0 => LastValue(load) = 0)
  BY <1>1, <1>2, <1>3
<1> QED
  BY <1>1, <1>4 DEF CountAvgValue, NaN

LEMMA ScaleType ==
  ASSUME NEW n \in Int32, NEW desired \in Int32, NEW m \in 0..MaxInt
  PROVE  ScaleUp(n, desired, m) \in Int32 /\ ScaleDown(desired, m) \in Int32
<1>1. n * desired \in Int /\ m \in Int32
  BY IntFacts DEF Int32
<1>2. Wrap(n * desired) \in Int32
  BY <1>1, WrapInt
<1> QED
  BY <1>1, <1>2 DEF ScaleUp, ScaleDown

-----------------------------------------------------------------------------
(* Types. *)

\* The versions on their way are of the type, too, and numbers are handed out; a
\* round at work may still store a count.
TypesInv ==
  /\ TypeOK /\ rv \in Nat /\ edits \in Nat /\ watch \in Seq(ScaledVersion)
  /\ spc # "idle" => scalings < MaxScalings

\* What a write of the resource touches.
Resource ==
  cr \in ScaledVersion /\ rv \in Nat /\ watch \in Seq(ScaledVersion)

Worker ==
  /\ {crCache, jitsi, held} \subseteq ScaledVersion
  /\ {jas, spec} \subseteq Specs \cup {NoScaler}
  /\ due \in BOOLEAN
  /\ spc \in {"idle", "query", "scale", "update"}
  /\ avg \in Nat \X Nat
  /\ edits \in Nat
  /\ respecs \in 0..MaxRespecs /\ scalings \in 0..MaxScalings
  /\ faults \in 0..MaxFaults /\ crashes \in 0..MaxCrashes
  /\ spc # "idle" => scalings < MaxScalings

LEMMA TypesParts == TypesInv <=> Resource /\ Worker
<1>1. watch \in Seq(ScaledVersion) => {watch[k] : k \in DOMAIN watch} \subseteq ScaledVersion
  OBVIOUS
<1> QED
  BY <1>1 DEF TypesInv, TypeOK, Resource, Worker

LEMMA NoObjectFits == NoObject \in ScaledVersion
  BY IntFacts DEF NoObject, ScaledVersion

LEMMA NoScalerFits == NoScaler.min \in 0..MaxInt /\ NoScaler.max \in 0..MaxInt
                      /\ NoScaler.target \in Nat
  BY IntFacts DEF NoScaler

LEMMA SpecFits ==
  ASSUME NEW s \in Specs \cup {NoScaler}
  PROVE  s.min \in 0..MaxInt /\ s.max \in 0..MaxInt /\ s.target \in Nat
<1>1. CASE s \in Specs
  BY <1>1, SpecsAssumption, IntFacts DEF ScalerSpec
<1> QED
  BY <1>1, NoScalerFits

LEMMA ScaledFields ==
  ASSUME NEW v \in ScaledVersion
  PROVE  /\ \A n \in Int32 : /\ [v EXCEPT !.replicas = n] \in ScaledVersion
                             /\ [v EXCEPT !.replicas = n].replicas = n
         /\ \A n \in Int32 : [v EXCEPT !.status = n] \in ScaledVersion
         /\ \A n \in Nat : [v EXCEPT !.conf = n] \in ScaledVersion
         /\ \A n \in Nat : [v EXCEPT !.rv = n] \in ScaledVersion
         /\ \A b \in BOOLEAN : [v EXCEPT !.fin = b] \in ScaledVersion
         /\ [v EXCEPT !.del = TRUE] \in ScaledVersion
         /\ v.replicas \in Int32 /\ v.rv \in Nat
         /\ Defaulted(v) \in ScaledVersion
<1>1. [v EXCEPT !.replicas = IF @ = 0 THEN 1 ELSE @] \in ScaledVersion
  BY IntFacts DEF ScaledVersion
<1> QED
  BY <1>1 DEF ScaledVersion, Defaulted

LEMMA StoreFits ==
  ASSUME Resource, NEW v \in ScaledVersion, Store(v)
  PROVE  Resource'
<1>1. rv + 1 \in Nat
  BY DEF Resource
<1>2. Stored(v) \in ScaledVersion
  BY <1>1, ScaledFields DEF Stored
<1> QED
  BY <1>1, <1>2 DEF Store, Resource

LEMMA RemoveFits ==
  ASSUME Resource, Remove
  PROVE  Resource'
  BY NoObjectFits DEF Remove, Resource

LEMMA UserFits ==
  ASSUME Resource, Worker, User
  PROVE  Resource' /\ edits' \in Nat
<1>1. edits' = edits + 1 /\ edits + 1 \in Nat
  <2>1. UserStep
    BY DEF User, UserCreate, UserScale, UserReconfigure, UserDelete
  <2> QED
    BY <2>1 DEF UserStep, Worker
<1>2. ReplicaCounts \subseteq Int32
  BY ReplicasAssumption, WordAssumption, IntFacts DEF Int32
<1>3. cr \in ScaledVersion
  BY DEF Resource
<1>4. ASSUME NEW n \in ReplicaCounts, UserCreate(n) PROVE Resource'
  <2> DEFINE u == [NoObject EXCEPT !.replicas = n]
  <2>1. u \in ScaledVersion
    BY <1>2, NoObjectFits, ScaledFields
  <2>2. [u EXCEPT !.conf = edits + 1] \in ScaledVersion
    <3> HIDE DEF u
    <3> QED
      BY <1>1, <2>1, ScaledFields
  <2>3. [NoObject EXCEPT !.replicas = n, !.conf = edits + 1] = [u EXCEPT !.conf = edits + 1]
    BY DEF NoObject
  <2> QED
    BY <1>4, <2>2, <2>3, StoreFits DEF UserCreate
<1>5. ASSUME NEW n \in ReplicaCounts, UserScale(n) PROVE Resource'
  BY <1>2, <1>3, <1>5, ScaledFields, StoreFits DEF UserScale
<1>6. CASE UserReconfigure
  <2>1. [cr EXCEPT !.conf = edits + 1] \in ScaledVersion
    BY <1>1, <1>3, ScaledFields
  <2>2. Store([cr EXCEPT !.conf = edits + 1])
    BY <1>6 DEF UserReconfigure
  <2> QED
    BY <1>1, <2>1, <2>2, StoreFits
<1>7. CASE UserDelete
  <2>1. [cr EXCEPT !.del = TRUE] \in ScaledVersion
    BY <1>3, ScaledFields
  <2>2. Store([cr EXCEPT !.del = TRUE]) \/ Remove
    BY <1>7 DEF UserDelete
  <2> QED
    BY <1>1, <2>1, <2>2, StoreFits, RemoveFits
<1> QED
  BY <1>1, <1>4, <1>5, <1>6, <1>7 DEF User

LEMMA HeldFits ==
  ASSUME Resource, Worker, WriteJVB
  PROVE  Resource' /\ cr' \in ScaledVersion
<1>1. cr \in ScaledVersion /\ held \in ScaledVersion /\ held.replicas \in Int32
  BY ScaledFields DEF Resource, Worker
<1>2. CASE AddFinalizer(held)
  <2>1. [held EXCEPT !.fin = TRUE] \in ScaledVersion
    BY <1>1, ScaledFields
  <2>2. Defaulted([held EXCEPT !.fin = TRUE]) \in ScaledVersion
    BY <2>1, ScaledFields
  <2> QED
    BY <1>2, <2>2, StoreFits DEF AddFinalizer, Resource
<1>3. CASE WriteStatus(held, held.replicas)
  <2>1. [cr EXCEPT !.status = held.replicas] \in ScaledVersion
    BY <1>1, ScaledFields
  <2>2. Resource'
    BY <1>3, <2>1, StoreFits DEF WriteStatus, Resource
  <2> QED
    BY <2>2 DEF Resource
<1>4. CASE RemoveFinalizer(held)
  <2>1. Resource'
    BY <1>4, RemoveFits DEF RemoveFinalizer
  <2> QED
    BY <2>1 DEF Resource
<1> QED
  BY <1>2, <1>3, <1>4 DEF WriteJVB

LEMMA PutFits ==
  ASSUME Resource, Worker, PutJVB(jitsi)
  PROVE  Resource'
<1>1. Defaulted(jitsi) \in ScaledVersion
  BY ScaledFields DEF Worker
<1> QED
  BY <1>1, StoreFits DEF PutJVB, Resource

LEMMA FinishFits ==
  ASSUME Worker, NEW again \in BOOLEAN, Finish(again)
  PROVE  /\ spc' = "idle" /\ spec' \in Specs \cup {NoScaler} /\ avg' \in Nat \X Nat
         /\ jitsi' \in ScaledVersion /\ due' \in BOOLEAN
<1>1. avg' \in Nat \X Nat
  BY DEF Finish, NaN
<1> QED
  BY <1>1, NoObjectFits DEF Finish, Worker

LEMMA RepeatsBoolean ==
  ASSUME NEW s \in Specs \cup {NoScaler}
  PROVE  s.repeats \in BOOLEAN
<1>1. CASE s \in Specs
  BY <1>1, SpecsAssumption DEF ScalerSpec
<1>2. CASE s = NoScaler
  BY <1>2 DEF NoScaler
<1> QED
  BY <1>1, <1>2

LEMMA ScaleFits ==
  ASSUME Worker, Scale
  PROVE  jitsi' \in ScaledVersion
<1>1. crCache \in ScaledVersion /\ crCache.replicas \in Int32 /\ avg \in Nat \X Nat
      /\ spec \in Specs \cup {NoScaler}
  BY ScaledFields DEF Worker
<1>2. PICK d \in DesiredReplicas(avg, spec.target) :
         jitsi' = [crCache EXCEPT !.replicas =
                     IF Exceeds(spec.target, avg) THEN ScaleDown(d, spec.min)
                                                  ELSE ScaleUp(@, d, spec.max)]
  BY DEF Scale
<1>3. d \in Int32
  BY <1>1, DesiredFits, SpecFits
<1>4. ScaleDown(d, spec.min) \in Int32 /\ ScaleUp(crCache.replicas, d, spec.max) \in Int32
  BY <1>1, <1>3, ScaleType, SpecFits
<1> QED
  BY <1>1, <1>2, <1>4, ScaledFields

LEMMA BoundsFit ==
  ASSUME Worker
  PROVE  /\ Fault => faults' \in 0..MaxFaults
         /\ scalings < MaxScalings => scalings + 1 \in 0..MaxScalings
         /\ respecs < MaxRespecs => respecs + 1 \in 0..MaxRespecs
         /\ crashes < MaxCrashes => crashes + 1 \in 0..MaxCrashes
  BY ScalerBoundsAssumption DEF Worker, Fault

LEMMA StepTypes ==
  ASSUME TypesInv, [Next]_vars
  PROVE  TypesInv'
<1>1. Resource /\ Worker
  BY TypesParts
<1>2. SUFFICES Resource' /\ Worker'
  BY TypesParts, PTL
<1>3. spec \in Specs \cup {NoScaler} /\ jas \in Specs \cup {NoScaler}
  BY <1>1 DEF Worker
<1>4. CASE ReconcileNothing \/ ReconcileScaler
  BY <1>1, <1>4 DEF ReconcileNothing, ReconcileScaler, Begin, Resource, Worker,
     crVars, countVars
<1>5. CASE QueryFails
  <2>1. faults' \in 0..MaxFaults
    BY <1>1, <1>5, BoundsFit DEF QueryFails
  <2>2. avg' \in Nat \X Nat
    BY <1>5 DEF QueryFails, Told
  <2> QED
    BY <1>1, <1>5, <2>1, <2>2 DEF QueryFails, Told, Resource, Worker, crVars
<1>6. CASE QueryAnswered
  <2>1. spc = "query" /\ UNCHANGED <<crVars, jas, held, countVars>>
    BY <1>6 DEF QueryAnswered
  <2>2. CASE Finish(TRUE)
    BY <1>1, <2>1, <2>2, FinishFits DEF Resource, Worker, crVars, countVars
  <2>3. ASSUME NEW load \in Loads, Told(CountAvgValue(load)) PROVE Resource' /\ Worker'
    BY <1>1, <2>1, <2>3, LastValueNat DEF Told, Resource, Worker, crVars, countVars
  <2> QED
    BY <1>6, <2>2, <2>3 DEF QueryAnswered
<1>7. CASE ScaleNothing
  <2>1. Finish(spec.repeats) /\ spec.repeats \in BOOLEAN
    BY <1>3, <1>7, RepeatsBoolean DEF ScaleNothing, FinishScale
  <2> QED
    BY <1>1, <1>7, <2>1, FinishFits DEF ScaleNothing, Resource, Worker, crVars, countVars
<1>8. CASE Scale
  <2>1. jitsi' \in ScaledVersion
    BY <1>1, <1>8, ScaleFits
  <2> QED
    BY <1>1, <1>8, <2>1 DEF Scale, Resource, Worker, crVars, countVars
<1>9. CASE UpdateJVB
  <2>1. Finish(spec.repeats) /\ spec.repeats \in BOOLEAN
    BY <1>3, <1>9, RepeatsBoolean DEF UpdateJVB, FinishScale
  <2>2. Resource'
    <3>1. PutJVB(jitsi) \/ UNCHANGED <<cr, rv, watch>>
      BY <1>9 DEF UpdateJVB
    <3> QED
      BY <1>1, <3>1, PutFits DEF Resource
  <2>3. faults' \in 0..MaxFaults
    <3>1. UNCHANGED faults \/ Fault
      BY <1>9 DEF UpdateJVB
    <3> QED
      BY <1>1, <3>1, BoundsFit DEF Worker
  <2>4. scalings' \in 0..MaxScalings
    <3>1. scalings' = IF cr' = cr THEN scalings ELSE scalings + 1
      BY <1>9 DEF UpdateJVB, Counted
    <3>2. spc = "update"
      BY <1>9 DEF UpdateJVB
    <3> QED
      BY <1>1, <3>1, <3>2, BoundsFit DEF Worker
  <2> QED
    BY <1>1, <1>9, <2>1, <2>2, <2>3, <2>4, FinishFits DEF UpdateJVB, Worker
<1>10. CASE ReadJVB
  BY <1>1, <1>10 DEF ReadJVB, Resource, Worker, crVars, scalerVars, countVars
<1>11. CASE WriteJVB
  <2>1. Resource' /\ held' \in ScaledVersion
    BY <1>1, <1>11, HeldFits DEF WriteJVB
  <2> QED
    BY <1>1, <1>11, <2>1 DEF WriteJVB, Worker, scalerVars, countVars
<1>12. CASE UserWrite
  <2>1. Resource' /\ edits' \in Nat
    BY <1>1, <1>12, UserFits DEF UserWrite
  <2>2. crCache' = crCache
    BY <1>12 DEF UserWrite, User, UserCreate, UserScale, UserReconfigure, UserDelete, UserStep
  <2> QED
    BY <1>1, <1>12, <2>1, <2>2 DEF UserWrite, Worker, scalerVars, countVars
<1>13. CASE Respec
  <2>1. respecs' \in 0..MaxRespecs
    BY <1>1, <1>13, BoundsFit DEF Respec
  <2> QED
    BY <1>1, <1>13, <2>1 DEF Respec, Resource, Worker, crVars
<1>14. CASE ReceiveVersion
  <2>1. Deliver(FALSE)
    BY <1>14 DEF ReceiveVersion
  <2>2. Head(watch) \in ScaledVersion /\ Tail(watch) \in Seq(ScaledVersion)
    BY <1>1, <2>1 DEF Deliver, Resource
  <2> QED
    BY <1>1, <1>14, <2>1, <2>2 DEF ReceiveVersion, Deliver, Resource, Worker, scalerVars,
       countVars
<1>15. CASE Crash
  <2>1. crashes' \in 0..MaxCrashes
    BY <1>1, <1>15, BoundsFit DEF Crash
  <2>2. NaN \in Nat \X Nat /\ <<>> \in Seq(ScaledVersion)
    BY DEF NaN
  <2> QED
    BY <1>1, <1>15, <2>1, <2>2, NoObjectFits DEF Crash, RestartInformer, Resource, Worker
<1>16. CASE UNCHANGED vars
  BY <1>1, <1>16 DEF vars, Resource, Worker, crVars, scalerVars, countVars
<1> QED
  BY <1>4, <1>5, <1>6, <1>7, <1>8, <1>9, <1>10, <1>11, <1>12, <1>13, <1>14, <1>15, <1>16
  DEF Next, Scaler

LEMMA InitTypes == Init => TypesInv
<1> SUFFICES ASSUME Init PROVE TypesInv
  OBVIOUS
<1>1. <<>> \in Seq(ScaledVersion) /\ NaN \in Nat \X Nat
  BY DEF NaN
<1>2. /\ 0 \in 0..MaxRespecs /\ 0 \in 0..MaxScalings
      /\ 0 \in 0..MaxFaults /\ 0 \in 0..MaxCrashes
  BY ScalerBoundsAssumption
<1>3. Resource
  BY <1>1, NoObjectFits DEF Init, CRInit, Resource
<1>4. Worker
  BY <1>1, <1>2, NoObjectFits DEF Init, CRInit, Worker
<1> QED
  BY <1>3, <1>4, TypesParts

\* Whatever the load, the conversions of floating-point numbers and the products in
\* int32 arithmetic make of a count: every copy of the JVB resource fits its Go
\* type, and so does all that the AutoScaler keeps in memory (scaleUp, scaleDown).
THEOREM ScalerTypeCorrect == Spec => []TypeOK
<1>1. TypesInv => TypeOK
  BY DEF TypesInv
<1> QED
  BY <1>1, InitTypes, StepTypes, PTL DEF Spec

-----------------------------------------------------------------------------
(* Limits. *)

\* What scaleUp and scaleDown make of a count n.
Scaled(n, desired, a, s) ==
  IF Exceeds(s.target, a) THEN ScaleDown(desired, s.min) ELSE ScaleUp(n, desired, s.max)

LEMMA ScaledLimits ==
  ASSUME NEW a \in Nat \X Nat, a[2] # 0, NEW s \in Specs \cup {NoScaler}, Sensible(s),
         NEW n \in Int32, NEW desired \in DesiredReplicas(a, s.target)
  PROVE  /\ Scaled(n, desired, a, s) <= s.max
         /\ n \in Nat /\ n * RoundToEven(a[1], a[2] * s.target) <= MaxInt
              => Scaled(n, desired, a, s) >= s.min \/ Scaled(n, desired, a, s) >= n
<1> DEFINE d == a[2] * s.target
           ratio == RoundToEven(a[1], d)
           m == Scaled(n, desired, a, s)
<1>1. /\ s.target \in Nat /\ s.target > 0 /\ s.min \in Nat /\ s.max \in Nat
      /\ 1 <= s.min /\ s.min <= s.max
  BY SpecFits, IntFacts DEF Sensible
<1>2. a[1] \in Nat /\ a[2] \in Nat /\ a[2] > 0
  OBVIOUS
<1>3. d \in Nat /\ d > 0 /\ s.target * a[2] = d
  BY <1>1, <1>2
<1>4. a # NaN
  BY <1>2 DEF NaN
<1>5. desired \in Int32 /\ (ratio <= MaxInt => desired = ratio)
  BY <1>1, <1>3, DesiredFits
<1>6. Exceeds(s.target, a) <=> d > a[1]
  BY <1>3, <1>4 DEF Exceeds
<1>7. m = IF d > a[1] THEN ScaleDown(desired, s.min) ELSE ScaleUp(n, desired, s.max)
  BY <1>6 DEF Scaled
<1> HIDE DEF d, m
<1>8. ratio \in Nat /\ (a[1] < d => ratio <= 1) /\ (a[1] >= d => ratio >= 1)
  BY <1>2, <1>3, RoundNat
<1> HIDE DEF ratio
<1>9. CASE d > a[1]
  <2>1. desired = ratio
    BY <1>2, <1>3, <1>5, <1>8, <1>9, IntFacts
  <2>2. m = IF ratio < s.min THEN s.min ELSE ratio
    BY <1>7, <1>9, <2>1 DEF ScaleDown
  <2> QED
    BY <1>1, <1>2, <1>3, <1>8, <1>9, <2>2 DEF m, d, ratio
<1>10. CASE ~(d > a[1])
  <2> DEFINE p == n * desired
  <2>1. p \in Int /\ n \in Int /\ desired \in Int
    BY <1>5, IntFacts DEF Int32
  <2>2. m = IF Wrap(p) > s.max THEN s.max ELSE Wrap(p)
    BY <1>7, <1>10 DEF ScaleUp
  <2>3. Wrap(p) \in Int32 /\ (p \in Int32 => Wrap(p) = p)
    BY <2>1, WrapInt
  <2>4. m <= s.max
    BY <1>1, <2>2, <2>3, IntFacts DEF Int32
  <2>5. ASSUME n \in Nat, n * ratio <= MaxInt PROVE m >= s.min \/ m >= n
    <3>1. p \in Int32 /\ p >= n
      <4>1. CASE n = 0
        <5>1. p = 0
          BY <2>1, <4>1
        <5> QED
          BY <4>1, <5>1, IntFacts
      <4>2. CASE n > 0
        <5>1. ratio >= 1 /\ n * ratio >= ratio /\ n * ratio >= n
          BY <1>2, <1>3, <1>8, <1>10, <2>5, <4>2
        <5>2. n * ratio \in Int
          BY <1>8, <2>5
        <5>3. desired = ratio
          BY <1>5, <1>8, <2>5, <5>1, <5>2, IntFacts
        <5> HIDE DEF p
        <5>4. p = n * ratio
          BY <5>3 DEF p
        <5> QED
          BY <2>1, <2>5, <5>1, <5>4, IntFacts DEF Int32
      <4> QED
        BY <2>5, <4>1, <4>2
    <3> HIDE DEF p
    <3> QED
      BY <1>1, <2>1, <2>2, <2>3, <2>5, <3>1
  <2> QED
    BY <2>4, <2>5 DEF m, d, ratio
<1> QED
  BY <1>9, <1>10

\* The count a round is about to store is within the limits of its spec, as long
\* as what it was made from is the stored version.
LimitsInv ==
  /\ avg[2] = 0 => avg = NaN
  /\ spc = "update" /\ Sensible(spec) /\ avg # NaN =>
       /\ jitsi.replicas <= spec.max
       /\ Current(jitsi) /\ Fits(cr.replicas) =>
            jitsi.replicas >= spec.min \/ jitsi.replicas >= cr.replicas

ScalesWithin ==
  Scales /\ Sensible(spec) /\ avg # NaN =>
    /\ cr'.replicas <= spec.max
    /\ Fits(cr.replicas) => cr'.replicas >= spec.min \/ cr'.replicas >= cr.replicas

\* A write by others leaves the AutoScaler with an outdated copy.
LEMMA WriteOutdates ==
  ASSUME CopiesInv, Writes
  PROVE  UNCHANGED <<cr, rv>> \/ ~(Exists(cr') /\ cr'.rv = jitsi.rv)
<1>1. rv \in Nat /\ IsVersion(jitsi) /\ IsVersion(cr)
      /\ [jitsi EXCEPT !.replicas = cr.replicas].rv <= rv
  BY DEF CopiesInv, Copy
<1>2. jitsi.rv <= rv /\ jitsi.rv \in Nat
  BY <1>1, VersionFields DEF IsVersion
<1>3. ASSUME NEW v, IsVersion(v), Store(v) PROVE cr'.rv = rv + 1
  BY <1>1, <1>3 DEF Store, Stored, IsVersion
<1>4. CASE Remove
  <2>1. cr'.rv = 0
    BY <1>4 DEF Remove, NoObject
  <2> QED
    BY <2>1 DEF Exists
<1> QED
  BY <1>1, <1>2, <1>3, <1>4 DEF Writes

LEMMA PutWithin ==
  ASSUME TypesInv, LimitsInv, spc = "update", PutJVB(jitsi)
  PROVE  ScalesWithin
<1> SUFFICES ASSUME cr' # cr, Sensible(spec), avg # NaN PROVE ScalesWithin
  BY DEF ScalesWithin, Scales
<1>1. Current(jitsi) /\ Store(Defaulted(jitsi))
  BY DEF PutJVB
<1>2. jitsi \in ScaledVersion /\ cr \in ScaledVersion /\ spec \in Specs \cup {NoScaler}
  BY TypesParts DEF Worker, Resource
<1>3. cr'.replicas = Defaulted(jitsi).replicas
  <2>1. Defaulted(jitsi) \in ScaledVersion
    BY <1>2, ScaledFields
  <2> QED
    BY <1>1, <2>1 DEF Store, Stored, ScaledVersion
<1>4. Defaulted(jitsi).replicas = IF jitsi.replicas = 0 THEN 1 ELSE jitsi.replicas
  BY <1>2 DEF Defaulted, ScaledVersion
<1>5. jitsi.replicas \in Int /\ cr.replicas \in Int /\ spec.min \in Int /\ spec.max \in Int
      /\ 1 <= spec.min /\ spec.min <= spec.max
  <2>1. jitsi.replicas \in Int32 /\ cr.replicas \in Int32
    BY <1>2, ScaledFields
  <2>2. spec.min \in 0..MaxInt /\ spec.max \in 0..MaxInt
    BY <1>2, SpecFits
  <2> QED
    BY <2>1, <2>2, IntFacts DEF Int32, Sensible
<1>6. /\ jitsi.replicas <= spec.max
      /\ Fits(cr.replicas) => jitsi.replicas >= spec.min \/ jitsi.replicas >= cr.replicas
  BY <1>1 DEF LimitsInv
<1>7. cr'.replicas <= spec.max
  BY <1>3, <1>4, <1>5, <1>6
<1>8. ASSUME Fits(cr.replicas)
      PROVE  cr'.replicas >= spec.min \/ cr'.replicas >= cr.replicas
  <2>1. jitsi.replicas >= spec.min \/ jitsi.replicas >= cr.replicas
    BY <1>6, <1>8
  <2> QED
    BY <1>3, <1>4, <1>5, <2>1
<1> QED
  BY <1>7, <1>8 DEF ScalesWithin

LEMMA StepWithin ==
  ASSUME TypesInv, CopiesInv, LimitsInv, [Next]_vars
  PROVE  LimitsInv' /\ ScalesWithin
<1>1. CASE Scale
  <2>1. /\ avg \in Nat \X Nat /\ spec \in Specs \cup {NoScaler}
        /\ crCache \in ScaledVersion /\ crCache.replicas \in Int32
    BY TypesParts, ScaledFields DEF Worker
  <2>2. PICK d \in DesiredReplicas(avg, spec.target) :
           jitsi' = [crCache EXCEPT !.replicas = Scaled(crCache.replicas, d, avg, spec)]
    BY <1>1 DEF Scale, Scaled
  <2>3. UNCHANGED <<cr, spec, avg>> /\ spc = "scale" /\ spc' = "update"
    BY <1>1 DEF Scale, crVars
  <2>4. jitsi'.replicas = Scaled(crCache.replicas, d, avg, spec) /\ jitsi'.rv = crCache.rv
    BY <2>1, <2>2 DEF ScaledVersion
  <2>5. Current(jitsi)' => crCache = cr
    <3>1. Copy(crCache, cr, rv)
      BY DEF CopiesInv, Copies
    <3> QED
      BY <2>3, <2>4, <3>1 DEF Copy, Current
  <2>6. ASSUME Sensible(spec), avg # NaN
        PROVE  /\ jitsi'.replicas <= spec.max
               /\ Fits(crCache.replicas) =>
                    jitsi'.replicas >= spec.min \/ jitsi'.replicas >= crCache.replicas
    <3>1. avg[2] # 0
      BY <2>6 DEF LimitsInv
    <3> QED
      BY <2>1, <2>4, <2>6, <3>1, ScaledLimits DEF Fits, Ratio
  <2> QED
    BY <2>3, <2>5, <2>6 DEF LimitsInv, ScalesWithin, Scales, Fits, Ratio
<1>2. CASE UpdateJVB
  <2>1. spc = "update" /\ spc' = "idle" /\ avg' = NaN
    BY <1>2 DEF UpdateJVB, FinishScale, Finish
  <2>2. PutJVB(jitsi) \/ cr' = cr
    BY <1>2 DEF UpdateJVB
  <2> QED
    BY <2>1, <2>2, PutWithin DEF LimitsInv, ScalesWithin, Scales
<1>3. CASE QueryFails \/ QueryAnswered
  <2>1. spc' # "update" /\ spc = "query"
    BY <1>3 DEF QueryFails, QueryAnswered, Finish, Told
  <2>2. avg'[2] = 0 => avg' = NaN
    <3>1. CASE QueryFails
      BY <3>1 DEF QueryFails, Told, NaN
    <3>2. CASE QueryAnswered
      BY <3>2, LastValueNat DEF QueryAnswered, Finish, Told
    <3> QED
      BY <1>3, <3>1, <3>2
  <2> QED
    BY <2>1, <2>2 DEF LimitsInv, ScalesWithin, Scales
<1>4. CASE ScaleNothing \/ Crash
  <2>1. spc' = "idle" /\ avg' = NaN /\ (spc = "update" => cr' = cr)
    BY <1>4 DEF ScaleNothing, Crash, FinishScale, Finish, RestartInformer
  <2> QED
    BY <2>1 DEF LimitsInv, ScalesWithin, Scales
<1>5. CASE ReconcileNothing \/ ReconcileScaler
  <2>1. spc' # "update" /\ spc # "update" /\ avg' = avg
    BY <1>5 DEF ReconcileNothing, ReconcileScaler, Begin
  <2> QED
    BY <2>1 DEF LimitsInv, ScalesWithin, Scales
<1>6. CASE ReadJVB \/ WriteJVB \/ UserWrite \/ Respec \/ ReceiveVersion \/ UNCHANGED vars
  <2>1. UNCHANGED <<spc, spec, avg, jitsi>>
    BY <1>6 DEF ReadJVB, WriteJVB, UserWrite, Respec, ReceiveVersion, vars, scalerVars
  <2>2. UNCHANGED <<cr, rv>> \/ Writes
    <3>1. UNCHANGED <<cr, rv>> \/ WriteJVB \/ User
      BY <1>6 DEF ReadJVB, UserWrite, Respec, ReceiveVersion, Deliver, vars, crVars
    <3> QED
      BY <3>1, HeldWrites, UserWrites
  <2>3. UNCHANGED <<cr, rv>> \/ ~Current(jitsi)'
    BY <2>1, <2>2, WriteOutdates DEF Current
  <2> QED
    BY <2>1, <2>3 DEF LimitsInv, ScalesWithin, Scales, Fits, Ratio, Current
<1> QED
  BY <1>1, <1>2, <1>3, <1>4, <1>5, <1>6 DEF Next, Scaler

\* A count that rests on a number stays within the limits of a sensible spec: never
\* above the maximum, and below the minimum only where it was before or where its
\* product with the load overflows, although the count, the spec and the load of a
\* round are read at different times (scaleUp, scaleDown).
THEOREM ScaledWithinLimits == Spec => WithinLimits
<1>1. Init => TypesInv /\ CopiesInv /\ LimitsInv
  <2>1. Init => LimitsInv
    BY DEF Init, LimitsInv
  <2> QED
    BY <2>1, InitTypes, InitCopies
<1>2. /\ TypesInv /\ CopiesInv /\ LimitsInv /\ [Next]_vars
           => (TypesInv /\ CopiesInv /\ LimitsInv)'
      /\ TypesInv /\ CopiesInv /\ LimitsInv /\ [Next]_vars => [ScalesWithin]_vars
  BY StepTypes, StepCopies, StepWithin
<1> QED
  BY <1>1, <1>2, PTL DEF Spec, WithinLimits, ScalesWithin
=============================================================================
