--------------------------- MODULE NeighboursProofs ---------------------------
(***************************************************************************)
(* Theorems about Neighbours, for every set of resources and namespaces.   *)
(***************************************************************************)
EXTENDS Neighbours, SequenceTheorems, TLAPS

-----------------------------------------------------------------------------
(* The work queue. *)

Queued(q, x) == \E k \in DOMAIN q : q[k] = x
Once(q) == \A k, l \in DOMAIN q : q[k] = q[l] => k = l
IsQueue(q) == q \in Seq(Resources) /\ Once(q)

\* Adding a key queues it, and nothing twice.
LEMMA AddQueues ==
  ASSUME IsQueue(queue), NEW x \in Resources
  PROVE  /\ IsQueue(Add(x))
         /\ \A y : Queued(Add(x), y) <=> Queued(queue, y) \/ y = x
<1>1. /\ queue \in Seq(Resources) /\ Len(queue) \in Nat
      /\ DOMAIN queue = 1..Len(queue)
  BY DEF IsQueue
<1>2. Contains(queue, x) <=> Queued(queue, x)
  BY <1>1 DEF Contains, Queued
<1>3. CASE Queued(queue, x)
  <2>1. Add(x) = queue
    BY <1>2, <1>3 DEF Add
  <2> QED
    BY <1>3, <2>1
<1>4. CASE ~Queued(queue, x)
  <2>1. Add(x) = Append(queue, x)
    BY <1>2, <1>4 DEF Add
  <2>2. /\ Append(queue, x) \in Seq(Resources)
        /\ DOMAIN Append(queue, x) = 1..(Len(queue) + 1)
        /\ \A k \in 1..Len(queue) : Append(queue, x)[k] = queue[k]
        /\ Append(queue, x)[Len(queue) + 1] = x
    BY <1>1, AppendProperties
  <2> DEFINE q == Append(queue, x)
  <2>3. \A k \in DOMAIN q : \/ k \in DOMAIN queue /\ q[k] = queue[k]
                            \/ k = Len(queue) + 1 /\ q[k] = x
    BY <1>1, <2>2
  <2>4. \A y : Queued(q, y) <=> Queued(queue, y) \/ y = x
    <3>1. \A k \in DOMAIN queue : k \in DOMAIN q
      BY <1>1, <2>2
    <3>2. Len(queue) + 1 \in DOMAIN q
      BY <1>1, <2>2
    <3> HIDE DEF q
    <3> QED
      BY <2>3, <3>1, <3>2, <1>1, <2>2 DEF Queued, q
  <2>5. Once(q)
    <3> SUFFICES ASSUME NEW k \in DOMAIN q, NEW l \in DOMAIN q, q[k] = q[l] PROVE k = l
      BY DEF Once
    <3> HIDE DEF q
    <3> QED
      BY <1>4, <2>3 DEF IsQueue, Once, Queued
  <2> QED
    BY <2>1, <2>2, <2>4, <2>5 DEF IsQueue
<1> QED
  BY <1>3, <1>4

\* Taking the first key leaves all others, and not it.
LEMMA TakeQueues ==
  ASSUME IsQueue(queue), queue # <<>>
  PROVE  /\ IsQueue(Tail(queue)) /\ Head(queue) \in Resources
         /\ \A y : Queued(queue, y) <=> Queued(Tail(queue), y) \/ y = Head(queue)
         /\ ~Queued(Tail(queue), Head(queue))
<1> DEFINE t == Tail(queue)
<1>1. /\ queue \in Seq(Resources) /\ Len(queue) \in Nat /\ Len(queue) > 0
      /\ DOMAIN queue = 1..Len(queue)
  BY DEF IsQueue
<1>2. t \in Seq(Resources) /\ DOMAIN t = 1..(Len(queue) - 1)
      /\ \A k \in DOMAIN t : k + 1 \in DOMAIN queue /\ t[k] = queue[k + 1]
  BY <1>1, HeadTailProperties
<1>3. Head(queue) = queue[1] /\ 1 \in DOMAIN queue
  BY <1>1
<1> HIDE DEF t
<1>4. Once(t) /\ ~Queued(t, Head(queue))
  <2>1. \A k \in DOMAIN t : k + 1 # 1
    BY <1>1, <1>2
  <2>2. \A k, l \in DOMAIN t : k + 1 = l + 1 => k = l
    BY <1>1, <1>2
  <2> QED
    BY <1>2, <1>3, <2>1, <2>2 DEF IsQueue, Once, Queued
<1>5. \A y : Queued(queue, y) <=> Queued(t, y) \/ y = Head(queue)
  <2>1. \A k \in DOMAIN queue : k = 1 \/ (k - 1 \in DOMAIN t /\ (k - 1) + 1 = k)
    BY <1>1, <1>2
  <2> QED
    BY <1>2, <1>3, <2>1 DEF Queued
<1> QED
  BY <1>1, <1>2, <1>3, <1>4, <1>5 DEF IsQueue, t

-----------------------------------------------------------------------------
(* Types. *)

TypesInv ==
  /\ TypeOK
  /\ \A x \in Resources : jvb[x].conf <= edits
  /\ obj.conf <= edits
  /\ pc = "scaleDown" => replica \in 1..MaxReplicas

LEMMA TypeFacts ==
  ASSUME TypesInv
  PROVE  /\ IsQueue(queue)
         /\ me \in Resources /\ obj \in JVB /\ jvb \in [Resources -> JVB]
         /\ obj.replicas \in 0..MaxReplicas /\ obj.status \in 0..MaxReplicas
         /\ obj.conf \in 0..MaxEdits /\ obj.state \in {"none", "present", "deleted"}
         /\ edits \in Nat /\ MaxReplicas \in Nat /\ MaxEdits \in Nat /\ edits <= MaxEdits
  BY NeighbourBoundsAssumption DEF TypesInv, TypeOK, IsQueue, Once, JVB

LEMMA NoJVBType == NoJVB \in JVB /\ NoJVB.conf = 0 /\ NoJVB.state = "none"
  BY NeighbourBoundsAssumption DEF NoJVB, JVB

LEMMA ChildType ==
  ASSUME TypesInv, NEW O, Render(O) \/ Clear(O) \/ UNCHANGED child
  PROVE  /\ child' \in [Objects -> 0..MaxEdits]
         /\ \A o \in Objects \ O : child'[o] = child[o]
<1>1. child \in [Objects -> 0..MaxEdits] /\ obj.conf \in 0..MaxEdits /\ 0 \in 0..MaxEdits
  BY TypeFacts DEF TypesInv, TypeOK
<1> QED
  BY <1>1 DEF Render, Clear

\* Where the worker goes, and what becomes of its counter.
LEMMA RoundTypes ==
  ASSUME TypesInv, UNCHANGED <<jvb, queue, edits>>,
         child' \in [Objects -> 0..MaxEdits],
         \/ /\ UNCHANGED <<me, obj>> /\ pc' \in Rounds /\ replica' \in 0..(MaxReplicas + 1)
            /\ pc' = "scaleDown" => replica' \in 1..MaxReplicas
         \/ Release
  PROVE  TypesInv'
<1>1. CASE Release
  BY <1>1, TypeFacts, NoJVBType DEF TypesInv, TypeOK, Release, Rounds
<1>2. CASE ~Release
  BY <1>2, TypeFacts DEF TypesInv, TypeOK
<1> QED
  BY <1>1, <1>2

LEMMA StepTypes ==
  ASSUME TypesInv, [Next]_vars
  PROVE  TypesInv'
<1> USE TypeFacts
<1>1. replica \in 0..(MaxReplicas + 1) /\ edits \in 0..MaxEdits
      /\ child \in [Objects -> 0..MaxEdits] /\ pc \in Rounds
  BY DEF TypesInv, TypeOK
<1>2. CASE Reconcile
  <2>1. /\ IsQueue(queue') /\ me' \in Resources
    BY <1>2, TakeQueues DEF Reconcile
  <2>2. jvb[me'] \in JVB /\ jvb[me'].conf <= edits
    BY <2>1 DEF TypesInv
  <2>3. obj' \in JVB /\ obj'.conf <= edits
    BY <1>2, <2>2, NoJVBType DEF Reconcile
  <2>4. jvb' \in [Resources -> JVB] /\ \A x \in Resources : jvb'[x].conf <= edits
    <3>1. \A x \in Resources : jvb'[x] \in {jvb[x], NoJVB}
      BY <1>2, <2>1 DEF Reconcile
    <3>2. jvb' \in [Resources -> JVB]
      BY <1>2, <2>1, NoJVBType DEF Reconcile
    <3> QED
      BY <3>1, <3>2, NoJVBType DEF TypesInv
  <2>5. pc' \in Rounds /\ pc' # "scaleDown" /\ replica' = 1 /\ UNCHANGED <<child, edits>>
    BY <1>2 DEF Reconcile, Rounds
  <2> QED
    BY <1>1, <2>1, <2>3, <2>4, <2>5, NeighbourBoundsAssumption
    DEF TypesInv, TypeOK, IsQueue, Once
<1>3. CASE CreateConfigMaps \/ UpdateConfigMaps
  BY <1>1, <1>3, ChildType, RoundTypes, NeighbourBoundsAssumption
  DEF CreateConfigMaps, UpdateConfigMaps, Round, Rounds
<1>4. CASE CreateReplica
  <2>1. child' \in [Objects -> 0..MaxEdits]
    BY <1>4, ChildType DEF CreateReplica
  <2> QED
    BY <1>1, <1>4, <2>1, RoundTypes DEF CreateReplica, Round, Rounds
<1>5. CASE StartUpdate
  BY <1>1, <1>5, RoundTypes, NeighbourBoundsAssumption DEF StartUpdate, Round, Rounds
<1>6. CASE ScaleDown
  <2>1. child' \in [Objects -> 0..MaxEdits]
    BY <1>1, <1>6, ChildType DEF ScaleDown
  <2>2. replica \in 1..MaxReplicas
    BY <1>6 DEF ScaleDown, TypesInv
  <2> QED
    BY <1>6, <2>1, <2>2, RoundTypes DEF ScaleDown, Round, Rounds
<1>7. CASE UpdateReplica \/ DeleteReplica
  <2>1. child' \in [Objects -> 0..MaxEdits]
    BY <1>7, ChildType DEF UpdateReplica, DeleteReplica
  <2> QED
    BY <1>1, <1>7, <2>1, RoundTypes DEF UpdateReplica, DeleteReplica, Round, Rounds
<1>8. CASE UpdateStatus
  <2>1. CASE jvb[me] = obj
    <3>1. [jvb[me] EXCEPT !.status = obj.replicas] \in JVB
          /\ [jvb[me] EXCEPT !.status = obj.replicas].conf = jvb[me].conf
      BY DEF JVB
    <3>2. jvb' = [jvb EXCEPT ![me] = [jvb[me] EXCEPT !.status = obj.replicas]]
          /\ UNCHANGED <<queue, child, edits, me>> /\ Release
      BY <1>8, <2>1 DEF UpdateStatus, Release
    <3>3. jvb' \in [Resources -> JVB] /\ \A x \in Resources : jvb'[x].conf = jvb[x].conf
      BY <3>1, <3>2
    <3> QED
      BY <1>1, <3>2, <3>3, NoJVBType DEF TypesInv, TypeOK, Release, Rounds
  <2>2. CASE jvb[me] # obj
    <3>1. IsQueue(queue') /\ UNCHANGED <<jvb, child, edits>> /\ Release
      BY <1>8, <2>2, AddQueues DEF UpdateStatus
    <3> QED
      BY <1>1, <3>1, NoJVBType DEF TypesInv, TypeOK, Release, Rounds, IsQueue, Once
  <2> QED
    BY <2>1, <2>2
<1>9. CASE DeleteConfigMaps
  <2>1. child' \in [Objects -> 0..MaxEdits]
    BY <1>9, ChildType DEF DeleteConfigMaps
  <2> QED
    BY <1>9, <2>1, RoundTypes DEF DeleteConfigMaps
<1>10. ASSUME NEW x \in Resources, NEW v \in JVB, v.conf <= edits + 1, Write(x, v)
       PROVE  TypesInv'
  <2>1. IsQueue(queue') /\ UNCHANGED <<workerVars, child>>
    BY <1>10, AddQueues DEF Write
  <2>2. edits' = edits + 1 /\ edits' \in 0..MaxEdits
    BY <1>10 DEF Write
  <2>3. jvb' \in [Resources -> JVB] /\ \A y \in Resources : jvb'[y] \in {jvb[y], v}
    BY <1>10 DEF Write
  <2>4. \A y \in Resources : jvb'[y].conf <= edits'
    <3> SUFFICES ASSUME NEW y \in Resources PROVE jvb'[y].conf <= edits'
      OBVIOUS
    <3>1. jvb[y].conf <= edits /\ jvb[y].conf \in Nat /\ v.conf \in Nat
      BY DEF TypesInv, JVB
    <3> QED
      BY <1>10, <2>2, <2>3, <3>1
  <2> QED
    BY <1>1, <2>1, <2>2, <2>3, <2>4 DEF TypesInv, TypeOK, IsQueue, Once, workerVars
<1>11. ASSUME NEW x \in Resources, UserApply(x) PROVE TypesInv'
  <2>1. PICK n \in Replicas :
           Write(x, [state |-> "present", replicas |-> n, status |-> jvb[x].status,
                     conf |-> edits + 1])
    BY <1>11 DEF UserApply
  <2>2. n \in 0..MaxReplicas /\ jvb[x].status \in 0..MaxReplicas /\ edits + 1 \in Nat
    BY DEF Replicas, JVB
  <2> QED
    BY <1>10, <2>1, <2>2 DEF JVB
<1>12. ASSUME NEW x \in Resources, UserDelete(x) PROVE TypesInv'
  <2>1. [jvb[x] EXCEPT !.state = "deleted"] \in JVB
        /\ [jvb[x] EXCEPT !.state = "deleted"].conf = jvb[x].conf
    BY DEF JVB
  <2>2. jvb[x].conf <= edits + 1
    BY DEF TypesInv, JVB
  <2> QED
    BY <1>10, <1>12, <2>1, <2>2 DEF UserDelete
<1>13. ASSUME NEW x \in Resources, Resync(x) PROVE TypesInv'
  <2>1. IsQueue(queue') /\ UNCHANGED <<jvb, workerVars, child, edits>>
    BY <1>13, AddQueues DEF Resync
  <2> QED
    BY <1>1, <2>1 DEF TypesInv, TypeOK, IsQueue, Once, workerVars
<1>14. CASE UNCHANGED vars
  BY <1>14 DEF vars, workerVars, TypesInv, TypeOK
<1> QED
  BY <1>2, <1>3, <1>4, <1>5, <1>6, <1>7, <1>8, <1>9, <1>11, <1>12, <1>13, <1>14
  DEF Next, Worker

LEMMA InitTypes == Init => TypesInv
<1> SUFFICES ASSUME Init PROVE TypesInv
  OBVIOUS
<1>1. /\ 0 \in 0..MaxEdits /\ 0 \in 0..(MaxReplicas + 1)
      /\ <<>> \in Seq(Resources) /\ DOMAIN <<>> = {}
  BY NeighbourBoundsAssumption
<1>2. \A x \in Resources : jvb[x] = NoJVB
  BY DEF Init
<1> QED
  BY <1>1, <1>2, NoJVBType DEF Init, TypesInv, TypeOK, Rounds

\* No key is queued twice, no round runs past its last bridge, and no child object
\* carries a configuration nobody wrote, for any number of resources in any
\* namespaces (Reconcile, Create, Update, Delete).
THEOREM NeighboursTypeCorrect == Spec => []TypeOK
<1>1. TypesInv => TypeOK
  BY DEF TypesInv
<1> QED
  BY <1>1, InitTypes, StepTypes, PTL DEF Spec

-----------------------------------------------------------------------------
(* A resource that is alone in its namespace. *)

\* The worker holds the stored version, unless users have written since and their
\* key is queued.
HeldInv ==
  pc # "idle" /\ ~Queued(queue, me) =>
    IF pc = "delete" THEN jvb[me].state = "none"
    ELSE jvb[me] = obj /\ obj.state = "present"

Own(x, r) == child[Bridge(NamespaceOf[x], r)]

\* At rest its bridges are current; in the loop of Update, those of the rounds past.
CurrentBridges(x) ==
  IF pc # "idle" /\ me = x
  THEN pc = "update" => \A r \in 1..obj.replicas : r < replica => Own(x, r) = obj.conf
  ELSE \A r \in 1..jvb[x].replicas : Own(x, r) = jvb[x].conf

AloneInv ==
  /\ HeldInv
  /\ \A x \in Resources :
       jvb[x].state = "present" /\ Alone(x) /\ ~Queued(queue, x) => CurrentBridges(x)

LEMMA BridgeIsObject ==
  ASSUME NEW x \in Resources, NEW r \in 1..MaxReplicas
  PROVE  /\ Bridge(NamespaceOf[x], r) \in Objects
         /\ Bridge(NamespaceOf[x], r) \notin ConfigMaps
         /\ \A y \in Resources : \A q : Bridge(NamespaceOf[y], q) = Bridge(NamespaceOf[x], r)
              => NamespaceOf[y] = NamespaceOf[x] /\ q = r
         /\ \A ns, q : Bridge(NamespaceOf[x], r) # SIP(ns, q)
         /\ \A ns : Bridge(NamespaceOf[x], r) # Shared(ns)
  BY NamespaceAssumption DEF Bridge, SIP, Shared, Objects, ConfigMaps, Kinds, Replicas

\* A call of a round touches no bridge of a resource elsewhere.
LEMMA Elsewhere ==
  ASSUME TypesInv, Worker, ~Reconcile, NEW x \in Resources, Alone(x), me # x,
         NEW r \in 1..MaxReplicas
  PROVE  Own(x, r)' = Own(x, r)
<1> DEFINE b == Bridge(NamespaceOf[x], r)
<1>1. b \in Objects /\ b \notin ConfigMaps
      /\ (\A q : b # Bridge(Here, q)) /\ (\A q : b # SIP(Here, q)) /\ b # Shared(Here)
  <2>1. NamespaceOf[me] # NamespaceOf[x]
    BY TypeFacts DEF Alone
  <2>2. b \in Objects /\ b \notin ConfigMaps
    BY BridgeIsObject
  <2>3. \A q : b # Bridge(Here, q)
    <3>1. \A y \in Resources : \A q : Bridge(NamespaceOf[y], q) = b => NamespaceOf[y] = NamespaceOf[x]
      BY BridgeIsObject
    <3>2. me \in Resources
      BY TypeFacts
    <3> HIDE DEF b
    <3> QED
      BY <2>1, <3>1, <3>2 DEF Here
  <2>4. (\A q : b # SIP(Here, q)) /\ b # Shared(Here)
    BY BridgeIsObject
  <2> QED
    BY <2>2, <2>3, <2>4
<1> HIDE DEF b
<1>2. \A O : b \notin O /\ (Render(O) \/ Clear(O) \/ UNCHANGED child) => child'[b] = child[b]
  BY <1>1, ChildType
<1>3. \E O : b \notin O /\ (Render(O) \/ Clear(O) \/ UNCHANGED child)
  <2>1. CASE CreateConfigMaps \/ UpdateConfigMaps
    BY <1>1, <2>1 DEF CreateConfigMaps, UpdateConfigMaps, Missing
  <2>2. CASE CreateReplica
    BY <1>1, <2>2 DEF CreateReplica, Missing
  <2>3. CASE ScaleDown
    BY <1>1, <2>3 DEF ScaleDown
  <2>4. CASE UpdateReplica
    BY <1>1, <2>4 DEF UpdateReplica, Recreated
  <2>5. CASE DeleteReplica \/ DeleteConfigMaps
    BY <1>1, <2>5 DEF DeleteReplica, DeleteConfigMaps, BridgesToDelete
  <2>6. CASE StartUpdate \/ UpdateStatus
    BY <1>1, <2>6 DEF StartUpdate, UpdateStatus
  <2> QED
    BY <2>1, <2>2, <2>3, <2>4, <2>5, <2>6 DEF Worker
<1> QED
  BY <1>2, <1>3 DEF Own, b

LEMMA ReconcileAlone ==
  ASSUME TypesInv, AloneInv, Reconcile
  PROVE  AloneInv'
<1>1. /\ me' = Head(queue) /\ me' \in Resources /\ queue' = Tail(queue) /\ pc = "idle"
      /\ ~Queued(queue', me') /\ UNCHANGED child
      /\ \A y : Queued(queue, y) <=> Queued(queue', y) \/ y = me'
  BY TypeFacts, TakeQueues DEF Reconcile
<1>2. /\ pc' = "delete" <=> jvb[me'].state = "deleted"
      /\ pc' = "shared" /\ obj' = jvb[me'] <=> jvb[me'].state = "present"
      /\ pc' \in {"idle", "shared", "delete"}
      /\ pc' = "idle" <=> jvb[me'].state = "none"
  BY <1>1, TypeFacts DEF Reconcile, JVB
<1>3. /\ jvb[me'].state = "deleted" => jvb'[me'].state = "none"
      /\ jvb[me'].state # "deleted" => jvb'[me'] = jvb[me']
      /\ \A x \in Resources : x # me' => jvb'[x] = jvb[x]
  <2>1. jvb' = [jvb EXCEPT ![me'] = IF jvb[me'].state = "deleted" THEN NoJVB ELSE jvb[me']]
    BY DEF Reconcile
  <2>2. jvb \in [Resources -> JVB]
    BY TypeFacts
  <2> QED
    BY <1>1, <2>1, <2>2, NoJVBType
<1>4. HeldInv'
  <2>1. CASE pc' = "delete"
    BY <1>2, <1>3, <2>1 DEF HeldInv
  <2>2. CASE pc' = "shared"
    <3>1. jvb[me'].state = "present" /\ obj' = jvb[me']
      BY <1>1, <2>2, TypeFacts DEF Reconcile, JVB
    <3>2. jvb'[me'] = obj'
      BY <1>3, <3>1
    <3> QED
      BY <2>2, <3>1, <3>2 DEF HeldInv
  <2>3. CASE pc' = "idle"
    BY <2>3 DEF HeldInv
  <2> QED
    BY <1>2, <2>1, <2>2, <2>3
<1>5. ASSUME NEW x \in Resources, jvb'[x].state = "present", Alone(x), ~Queued(queue', x)
      PROVE  CurrentBridges(x)'
  <2>1. CASE x = me'
    BY <1>2, <1>3, <1>5, <2>1 DEF CurrentBridges
  <2>2. CASE x # me'
    <3>1. CurrentBridges(x) /\ jvb'[x] = jvb[x]
      BY <1>1, <1>3, <1>5, <2>2 DEF AloneInv
    <3> QED
      BY <1>1, <2>2, <3>1 DEF CurrentBridges, Own
  <2> QED
    BY <2>1, <2>2
<1> QED
  BY <1>4, <1>5 DEF AloneInv, Alone

\* A round of the worker that does not release the object.
LEMMA RoundAlone ==
  ASSUME TypesInv, AloneInv, Worker, ~Reconcile, ~UpdateStatus, ~DeleteConfigMaps
  PROVE  AloneInv'
<1>1. /\ UNCHANGED <<jvb, queue, me, obj>> /\ pc # "idle" /\ pc' # "idle"
      /\ pc' = "delete" <=> pc = "delete"
  BY DEF Worker, CreateConfigMaps, CreateReplica, StartUpdate, ScaleDown, UpdateConfigMaps,
     UpdateReplica, DeleteReplica, Round
<1>2. HeldInv'
  BY <1>1 DEF AloneInv, HeldInv
<1>3. ASSUME NEW x \in Resources, jvb[x].state = "present", Alone(x), ~Queued(queue, x)
      PROVE  CurrentBridges(x)'
  <2>1. CurrentBridges(x)
    BY <1>3 DEF AloneInv
  <2>2. CASE x # me
    <3>1. \A r \in 1..jvb[x].replicas : r \in 1..MaxReplicas
      BY TypeFacts DEF JVB
    <3> QED
      BY <1>1, <1>3, <2>1, <2>2, <3>1, Elsewhere DEF CurrentBridges
  <2>3. CASE x = me /\ UpdateReplica
    <3>1. /\ pc = "update" /\ pc' = "update" /\ replica' = replica + 1
          /\ Render({Bridge(Here, replica)} \cup Recreated({SIP(Here, replica)}))
      BY <2>3 DEF UpdateReplica, Round
    <3>2. ASSUME NEW r \in 1..obj.replicas, r < replica + 1 PROVE Own(x, r)' = obj.conf
      <4>1. r \in 1..MaxReplicas /\ Bridge(NamespaceOf[x], r) \in Objects
        <5>1. r \in 1..MaxReplicas
          BY TypeFacts
        <5> QED
          BY <5>1, BridgeIsObject
      <4>2. r < replica \/ r = replica
        BY <3>2, TypeFacts DEF TypesInv, TypeOK
      <4>3. r < replica => child[Bridge(NamespaceOf[x], r)] = obj.conf
        BY <1>1, <2>1, <2>3, <3>1 DEF CurrentBridges, Own
      <4>4. r = replica => Bridge(NamespaceOf[x], r) \in {Bridge(Here, replica)}
        BY <2>3 DEF Here
      <4> QED
        BY <3>1, <4>1, <4>2, <4>3, <4>4 DEF Own, Render
    <3> QED
      BY <1>1, <2>3, <3>1, <3>2 DEF CurrentBridges
  <2>4. CASE x = me /\ ~UpdateReplica
    <3>1. pc' = "update" => replica' = 1
      BY <2>4 DEF Worker, CreateConfigMaps, CreateReplica, StartUpdate, ScaleDown,
         UpdateConfigMaps, DeleteReplica, Round
    <3>2. \A r \in 1..obj.replicas : ~(r < 1)
      BY TypeFacts
    <3> QED
      BY <1>1, <2>4, <3>1, <3>2 DEF CurrentBridges
  <2> QED
    BY <2>2, <2>3, <2>4
<1> QED
  BY <1>1, <1>2, <1>3 DEF AloneInv, Alone

LEMMA ReleaseAlone ==
  ASSUME TypesInv, AloneInv, UpdateStatus \/ DeleteConfigMaps
  PROVE  AloneInv'
<1>1. pc # "idle" /\ pc' = "idle" /\ me' = me /\ Worker /\ ~Reconcile
  BY DEF UpdateStatus, DeleteConfigMaps, Release, Worker, Reconcile
<1>2. /\ \A y : Queued(queue, y) => Queued(queue', y)
      /\ UpdateStatus => Queued(queue', me) \/ jvb[me] = obj
  <2>1. CASE UpdateStatus /\ jvb[me] # obj
    BY <2>1, TypeFacts, AddQueues DEF UpdateStatus
  <2>2. CASE ~(UpdateStatus /\ jvb[me] # obj)
    BY <2>2 DEF UpdateStatus, DeleteConfigMaps
  <2> QED
    BY <2>1, <2>2
<1>3. \A x \in Resources : /\ jvb'[x].state = jvb[x].state /\ jvb'[x].conf = jvb[x].conf
                            /\ jvb'[x].replicas = jvb[x].replicas
  BY TypeFacts DEF UpdateStatus, DeleteConfigMaps, JVB
<1>4. HeldInv'
  BY <1>1 DEF HeldInv
<1>5. ASSUME NEW x \in Resources, jvb[x].state = "present", Alone(x), ~Queued(queue', x)
      PROVE  CurrentBridges(x)'
  <2>1. CurrentBridges(x) /\ ~Queued(queue, x)
    BY <1>2, <1>5 DEF AloneInv
  <2>2. CASE x # me
    <3>1. \A r \in 1..jvb[x].replicas : r \in 1..MaxReplicas
      BY TypeFacts DEF JVB
    <3> QED
      BY <1>1, <1>3, <1>5, <2>1, <2>2, <3>1, Elsewhere DEF CurrentBridges
  <2>3. CASE x = me /\ UpdateStatus
    <3>1. jvb[x] = obj /\ pc = "update" /\ replica > obj.replicas /\ UNCHANGED child
      BY <1>2, <1>5, <2>3 DEF UpdateStatus
    <3>2. \A r \in 1..obj.replicas : r < replica
      BY <3>1, TypeFacts DEF TypesInv, TypeOK
    <3>3. \A r \in 1..obj.replicas : Own(x, r)' = obj.conf
      BY <1>1, <2>1, <2>3, <3>1, <3>2 DEF CurrentBridges, Own
    <3> QED
      BY <1>1, <1>3, <3>1, <3>3 DEF CurrentBridges
  <2>4. CASE x = me /\ DeleteConfigMaps
    <3>1. pc = "delete"
      BY <2>4 DEF DeleteConfigMaps
    <3>2. jvb[x].state = "none"
      BY <1>1, <2>1, <2>4, <3>1 DEF AloneInv, HeldInv
    <3> QED
      BY <1>5, <3>2
  <2> QED
    BY <2>2, <2>3, <2>4
<1> QED
  BY <1>3, <1>4, <1>5 DEF AloneInv, Alone

LEMMA WriteAlone ==
  ASSUME TypesInv, AloneInv, NEW x \in Resources, queue' = Add(x),
         UNCHANGED <<workerVars, child>>, \A y \in Resources : y # x => jvb'[y] = jvb[y]
  PROVE  AloneInv'
<1>1. \A y : Queued(queue', y) <=> Queued(queue, y) \/ y = x
  BY TypeFacts, AddQueues
<1>2. UNCHANGED <<pc, me, obj, replica, child>>
  BY DEF workerVars
<1>3. HeldInv'
  BY <1>1, <1>2, TypeFacts DEF AloneInv, HeldInv
<1>4. ASSUME NEW y \in Resources, jvb'[y].state = "present", Alone(y), ~Queued(queue', y)
      PROVE  CurrentBridges(y)'
  <2>1. jvb'[y] = jvb[y] /\ CurrentBridges(y)
    BY <1>1, <1>4 DEF AloneInv
  <2> QED
    BY <1>2, <2>1 DEF CurrentBridges, Own
<1> QED
  BY <1>3, <1>4 DEF AloneInv, Alone

LEMMA StepAlone ==
  ASSUME TypesInv, AloneInv, [Next]_vars
  PROVE  AloneInv'
<1>1. ASSUME NEW x \in Resources, UserApply(x) \/ UserDelete(x) \/ Resync(x)
      PROVE  AloneInv'
  <2>1. /\ queue' = Add(x) /\ UNCHANGED <<workerVars, child>>
        /\ \A y \in Resources : y # x => jvb'[y] = jvb[y]
    BY <1>1, TypeFacts DEF UserApply, UserDelete, Resync, Write
  <2> QED
    BY <2>1, WriteAlone
<1>2. CASE UNCHANGED vars
  BY <1>2 DEF vars, workerVars, AloneInv, HeldInv, CurrentBridges, Own, Alone, Queued
<1> QED
  BY <1>1, <1>2, ReconcileAlone, RoundAlone, ReleaseAlone DEF Next, Worker

\* Whatever resources of other namespaces do with bridges of the same names, at
\* rest a resource alone in its namespace has every bridge, at the configuration
\* its users wrote last (Create, Update, updateReplicaCount, Delete).
THEOREM AloneUndisturbed == Spec => []AloneMeansUndisturbed
<1>1. Init => AloneInv
  BY NoJVBType DEF Init, AloneInv, HeldInv
<1>2. TypesInv /\ AloneInv => AloneMeansUndisturbed
  BY DEF AloneInv, CurrentBridges, Own, AloneMeansUndisturbed, Settled, Queued
<1> QED
  BY <1>1, <1>2, InitTypes, StepTypes, StepAlone, PTL DEF Spec
=============================================================================
