--------------------------- MODULE AddressProofs ---------------------------
(***************************************************************************)
(* The environments of the bridges, for any number of replicas, any lists  *)
(* and wishes of users, ports, addresses, faults and restarts.             *)
(*                                                                         *)
(* The worker waits for an address only while it has no port to give, and  *)
(* once it has waited the list it keeps has the port (Waited); so a second *)
(* bridge finds the port there, and nothing is added or waited for again.  *)
(***************************************************************************)
EXTENDS AddressRequirements, TLAPS

-----------------------------------------------------------------------------
(* The operators on environments. *)

LEMMA PortType ==
  ASSUME obj \in JVBSpec, NEW r \in Replicas
  PROVE  PortOf(r) \in PortNumber
<1>1. jvbExternalPort \in Ports \cup {DefaultPort}
  BY DEF JVBSpec, jvbExternalPort
<1>2. r \in 0..MaxReplicas
  BY AddressBoundsAssumption DEF Replicas
<1> QED
  BY <1>1, <1>2 DEF PortOf, PortNumber

LEMMA EnvVarType ==
  ASSUME NEW n \in Variable, NEW v \in Addresses \cup {Blank} \cup PortNumber
  PROVE  EnvVar(n, v) \in Environment
  BY DEF EnvVar, Environment

LEMMA WithAddressType ==
  ASSUME NEW e \in Seq(Environment), NEW a \in Addresses \cup {Blank}
  PROVE  WithAddress(e, a) \in Seq(Environment)
<1>1. EnvVar("DOCKER_HOST_ADDRESS", a) \in Environment
  BY EnvVarType DEF Variable
<1> QED
  BY <1>1 DEF WithAddress

LEMMA WithPortType ==
  ASSUME NEW e \in Seq(Environment), NEW r \in Replicas, obj \in JVBSpec
  PROVE  WithPort(e, r) \in Seq(Environment)
<1>1. {EnvVar("JVB_PORT", 30300), EnvVar("JVB_TCP_PORT", PortOf(r)),
       EnvVar("JVB_PORT", PortOf(r))} \subseteq Environment
  BY EnvVarType, PortType DEF Variable, PortNumber
<1> QED
  BY <1>1 DEF WithPort

\* A variable that is not there yet is there once afterwards, the others as
\* often as before.
LEMMA AppendOnce ==
  ASSUME NEW e \in Seq(Environment), NEW x \in Environment, ToldOnce(e),
         Has(e, x.name) => x.name = "JVB_TCP_PORT"
  PROVE  ToldOnce(Append(e, x)) /\ Has(Append(e, x), x.name)
<1> DEFINE f == Append(e, x)
<1>1. /\ DOMAIN e = 1..Len(e) /\ DOMAIN f = 1..(Len(e) + 1) /\ Len(e) \in Nat
      /\ \A i \in 1..Len(e) : f[i] = e[i]
      /\ f[Len(e) + 1] = x
  OBVIOUS
<1> HIDE DEF f
<1>2. ASSUME NEW i \in DOMAIN f, NEW k \in DOMAIN f, i < k,
             f[i].name = f[k].name, f[i].name # "JVB_TCP_PORT"
      PROVE  FALSE
  <2>1. i \in DOMAIN e /\ f[i] = e[i]
    BY <1>1, <1>2
  <2>2. CASE k = Len(e) + 1
    BY <1>1, <1>2, <2>1, <2>2 DEF Has
  <2>3. CASE k # Len(e) + 1
    BY <1>1, <1>2, <2>1, <2>3 DEF ToldOnce
  <2> QED
    BY <2>2, <2>3
<1>3. ToldOnce(f)
  <2> SUFFICES ASSUME NEW i \in DOMAIN f, NEW k \in DOMAIN f,
                      f[i].name = f[k].name, f[i].name # "JVB_TCP_PORT"
               PROVE  i = k
    BY Zenon DEF ToldOnce
  <2>1. i \in Nat /\ k \in Nat
    BY <1>1
  <2> QED
    BY <1>2, <2>1
<1>4. Has(f, x.name)
  BY <1>1 DEF Has
<1> QED
  BY <1>3, <1>4 DEF f

LEMMA AppendHas ==
  ASSUME NEW e \in Seq(Environment), NEW x \in Environment, NEW n
  PROVE  Has(Append(e, x), n) <=> Has(e, n) \/ x.name = n
<1> DEFINE f == Append(e, x)
<1>1. /\ DOMAIN e = 1..Len(e) /\ DOMAIN f = 1..(Len(e) + 1) /\ Len(e) \in Nat
      /\ \A i \in 1..Len(e) : f[i] = e[i]
      /\ f[Len(e) + 1] = x
  OBVIOUS
<1> HIDE DEF f
<1>2. Has(f, n) => Has(e, n) \/ x.name = n
  BY <1>1 DEF Has
<1>3. Has(e, n) \/ x.name = n => Has(f, n)
  BY <1>1 DEF Has
<1> QED
  BY <1>2, <1>3 DEF f

LEMMA EnvVarName == ASSUME NEW n, NEW v PROVE EnvVar(n, v).name = n
  BY DEF EnvVar

LEMMA WithAddressOnce ==
  ASSUME NEW e \in Seq(Environment), NEW a \in Addresses \cup {Blank}, ToldOnce(e)
  PROVE  /\ ToldOnce(WithAddress(e, a))
         /\ Has(WithAddress(e, a), "JVB_PORT") <=> Has(e, "JVB_PORT")
<1> DEFINE x == EnvVar("DOCKER_HOST_ADDRESS", a)
<1>1. x \in Environment /\ x.name = "DOCKER_HOST_ADDRESS"
  BY EnvVarType, EnvVarName DEF Variable
<1>2. CASE Has(e, "DOCKER_HOST_ADDRESS")
  BY <1>2 DEF WithAddress, isHostAddressExist
<1>3. CASE ~Has(e, "DOCKER_HOST_ADDRESS")
  <2> HIDE DEF x
  <2>1. ToldOnce(Append(e, x)) /\ (Has(Append(e, x), "JVB_PORT") <=> Has(e, "JVB_PORT"))
    BY <1>1, <1>3, AppendOnce, AppendHas
  <2> QED
    BY <1>3, <2>1 DEF WithAddress, isHostAddressExist, x
<1> QED
  BY <1>2, <1>3

LEMMA WithPortOnce ==
  ASSUME NEW e \in Seq(Environment), NEW r \in Replicas, obj \in JVBSpec,
         ToldOnce(e), ~Has(e, "JVB_PORT")
  PROVE  ToldOnce(WithPort(e, r)) /\ Has(WithPort(e, r), "JVB_PORT")
<1> DEFINE x == EnvVar("JVB_PORT", 30300)
           y == EnvVar("JVB_TCP_PORT", PortOf(r))
           z == EnvVar("JVB_PORT", PortOf(r))
<1>1. /\ {x, y, z} \subseteq Environment
      /\ x.name = "JVB_PORT" /\ y.name = "JVB_TCP_PORT" /\ z.name = "JVB_PORT"
  BY EnvVarType, EnvVarName, PortType DEF Variable, PortNumber
<1>2. WithPort(e, r) = IF obj.protocol = "TCP" THEN Append(Append(e, x), y) ELSE Append(e, z)
  BY DEF WithPort
<1> HIDE DEF x, y, z
<1>3. ToldOnce(Append(e, z)) /\ Has(Append(e, z), "JVB_PORT")
  BY <1>1, AppendOnce
<1>4. ToldOnce(Append(e, x)) /\ Has(Append(e, x), "JVB_PORT")
  BY <1>1, AppendOnce
<1>5. Append(e, x) \in Seq(Environment)
  BY <1>1
<1>6. ToldOnce(Append(Append(e, x), y)) /\ Has(Append(Append(e, x), y), "JVB_PORT")
  BY <1>1, <1>4, <1>5, AppendOnce, AppendHas
<1> QED
  BY <1>2, <1>3, <1>6

-----------------------------------------------------------------------------
(* The invariant. *)

UsersOK ==
  /\ spec \in JVBSpec /\ fresh \in BOOLEAN /\ queued \in BOOLEAN
  /\ status \in 0..MaxReplicas

ServicesOK ==
  /\ service \in [Replicas -> Service \cup {NoService}]
  /\ seen \in [Replicas -> Service \cup {NoService}]
  /\ behind \subseteq Replicas

BridgesOK == bridge \in [Replicas -> Bridge \cup {NoBridge}] /\ known \subseteq Replicas

BoundsOK == edits \in 0..MaxEdits /\ faults \in 0..MaxFaults

\* The worker, with the range of its loop counter at each step.
WorkerOK ==
  /\ pc \in Steps /\ loop \in {"none", "create", "update"}
  /\ obj \in JVBSpec \cup {NoSpec} /\ (pc # "idle" => obj \in JVBSpec)
  /\ replica \in 0..(MaxReplicas + 1)
  /\ ticks \in 0..Patience /\ asked \in Nat
  /\ pc = "create" \/ pc = "update" => replica \in 1..(obj.replicas + 1) /\ loop = pc
  /\ pc \in {"service", "render", "wait", "put"} =>
       replica \in 1..obj.replicas /\ loop \in {"create", "update"}
  /\ pc = "scaleDown" => replica \in Replicas /\ replica > obj.replicas

ListOK == envs \in Seq(Environment)

\* The worker has asked, at most once, only if the list has a port now.
Waited ==
  /\ pc = "wait" => NeedsAddress /\ asked = 1
  /\ pc # "wait" => asked <= 1 /\ (asked > 0 => Has(envs, "JVB_PORT"))

IInv == UsersOK /\ ServicesOK /\ BridgesOK /\ BoundsOK /\ WorkerOK /\ ListOK /\ Waited
        /\ NothingNamedTwice

LEMMA ReplicasOK ==
  ASSUME obj \in JVBSpec
  PROVE  /\ obj.replicas \in Replicas /\ obj.replicas \in Nat
         /\ obj.replicas \in 1..MaxReplicas /\ 1..obj.replicas \subseteq Replicas
  BY AddressBoundsAssumption DEF JVBSpec, Replicas

LEMMA ReplicasInNat == MaxReplicas \in Nat /\ MaxReplicas >= 1
  BY AddressBoundsAssumption

\* Nothing of a reconciliation outlives it.
LEMMA ReturnReleases == ASSUME NEW err, Return(err) PROVE Release
  BY Zenon DEF Return

LEMMA ReleasedList == ASSUME Release PROVE envs' \in Seq(Environment)
  BY DEF Release

LEMMA GotAddressOK ==
  ASSUME IInv, pc = "wait", NEW a \in Addresses \cup {Blank}, GotAddress(a)
  PROVE  /\ pc' = "put" /\ envs' \in Seq(Environment) /\ ToldOnce(envs')
         /\ Has(envs', "JVB_PORT")
<1>1. /\ envs \in Seq(Environment) /\ ToldOnce(envs) /\ ~Has(envs, "JVB_PORT")
      /\ obj \in JVBSpec /\ replica \in Replicas
  BY ReplicasOK DEF IInv, WorkerOK, ListOK, Waited, NeedsAddress, NeedsPort,
                    isEnvAlreadyExist,
                    NothingNamedTwice
<1> DEFINE e == WithAddress(envs, a)
<1>2. e \in Seq(Environment) /\ ToldOnce(e) /\ ~Has(e, "JVB_PORT")
  BY <1>1, WithAddressType, WithAddressOnce
<1>3. envs' = WithPort(e, replica) /\ pc' = "put"
  BY DEF GotAddress
<1> HIDE DEF e
<1> QED
  BY <1>1, <1>2, <1>3, WithPortType, WithPortOnce

LEMMA LookOK ==
  ASSUME IInv, Look
  PROVE  \/ pc' = "wait" /\ UNCHANGED envs
         \/ \E a \in Addresses \cup {Blank} : GotAddress(a)
<1>1. replica \in Replicas /\ seen[replica] \in Service \cup {NoService}
  BY ReplicasOK DEF IInv, Look, WorkerOK, ServicesOK
<1>2. seen[replica].type = "LoadBalancer" => seen[replica] \in Service
  BY <1>1 DEF NoService
<1>3. seen[replica].type = "LoadBalancer" /\ seen[replica].ip # Pending =>
        seen[replica].ip \in Addresses \cup {Blank}
  BY <1>2 DEF Service
<1> QED
  BY <1>3 DEF Look

LEMMA TimeOutOK ==
  ASSUME TimeOut
  PROVE  \E a \in Addresses \cup {Blank} : GotAddress(a)
  BY DEF TimeOut

LEMMA BoundsOKStep == IInv /\ [Next]_vars => BoundsOK'
<1> SUFFICES ASSUME IInv, [Next]_vars PROVE BoundsOK'
  OBVIOUS
<1> USE AddressBoundsAssumption, SpecsAssumption, ReplicasOK DEF IInv, BoundsOK
<1>1. CASE Reconcile
  BY <1>1 DEF Reconcile, serviceVars, bridgeVars, boundVars
<1>2. CASE SkipExisting
  BY <1>2 DEF SkipExisting, Round, sameResource, userVars, serviceVars, bridgeVars,
         boundVars
<1>3. CASE CreateNext
  BY <1>3 DEF CreateNext, Goto, sameResource, userVars, serviceVars, bridgeVars,
         boundVars
<1>4. CASE StartUpdate
  BY <1>4 DEF StartUpdate, Round, sameResource, userVars, serviceVars, bridgeVars,
         boundVars
<1>5. CASE ScaleDown
  BY <1>5 DEF ScaleDown, Round, PutService, sameResource, userVars, serviceVars,
         boundVars
<1>6. CASE GetInstance
  BY <1>6 DEF GetInstance, Goto, Return, Release, userVars, serviceVars, bridgeVars,
         boundVars
<1>7. CASE ServicePerInstance
  BY <1>7 DEF ServicePerInstance, Goto, PutService, Fault, sameResource, userVars,
         serviceVars, bridgeVars
<1>8. CASE Render
  BY <1>8 DEF Render, sameResource, userVars, serviceVars, bridgeVars, boundVars
<1>9. CASE Look
  BY <1>9 DEF Look, sameResource, userVars, serviceVars, bridgeVars, boundVars
<1>10. CASE TimeOut
  BY <1>10 DEF TimeOut, sameResource, userVars, serviceVars, bridgeVars, boundVars
<1>11. CASE PutInstance
  BY <1>11 DEF PutInstance, Round, Keep, Fault, sameResource, userVars, serviceVars,
         bridgeVars
<1>12. CASE UpdateStatus
  BY <1>12 DEF UpdateStatus, Return, Release, Fault, serviceVars, bridgeVars
<1>13. CASE UserEdit
  BY <1>13 DEF UserEdit, workerVars, serviceVars, bridgeVars
<1>14. CASE \E r \in Replicas : AssignAddress(r)
  BY <1>14 DEF PutService, sameResource, userVars, workerVars, bridgeVars, boundVars,
         AssignAddress
<1>15. CASE \E r \in Replicas : ReleaseAddress(r)
  BY <1>15 DEF PutService, sameResource, userVars, workerVars, bridgeVars, boundVars,
         ReleaseAddress
<1>16. CASE \E r \in Replicas : ReceiveService(r)
  BY <1>16 DEF sameResource, userVars, workerVars, bridgeVars, boundVars, ReceiveService
<1>17. CASE \E r \in Replicas : ReceiveBridge(r)
  BY <1>17 DEF sameResource, userVars, workerVars, serviceVars, boundVars, ReceiveBridge
<1>18. CASE Resync
  BY <1>18 DEF Resync, userVars, workerVars, serviceVars, bridgeVars, boundVars
<1>19. CASE Crash
  BY <1>19 DEF Crash, Release, Fault, userVars
<1>20. CASE UNCHANGED vars
  BY <1>20 DEF vars, userVars, workerVars, serviceVars, bridgeVars, boundVars
<1> QED
  BY <1>1, <1>2, <1>3, <1>4, <1>5, <1>6, <1>7, <1>8, <1>9, <1>10, <1>11, <1>12,
     <1>13, <1>14, <1>15, <1>16, <1>17, <1>18, <1>19, <1>20 DEF Next, Worker

LEMMA UsersOKStep == IInv /\ [Next]_vars => UsersOK'
<1> SUFFICES ASSUME IInv, [Next]_vars PROVE UsersOK'
  OBVIOUS
<1> USE AddressBoundsAssumption, SpecsAssumption, ReplicasOK
       DEF IInv, UsersOK, WorkerOK, JVBSpec, Replicas
<1>1. CASE Reconcile
  BY <1>1 DEF Reconcile, serviceVars, bridgeVars, boundVars
<1>2. CASE SkipExisting
  BY <1>2 DEF SkipExisting, Round, sameResource, userVars, serviceVars, bridgeVars,
         boundVars
<1>3. CASE CreateNext
  BY <1>3 DEF CreateNext, Goto, sameResource, userVars, serviceVars, bridgeVars,
         boundVars
<1>4. CASE StartUpdate
  BY <1>4 DEF StartUpdate, Round, sameResource, userVars, serviceVars, bridgeVars,
         boundVars
<1>5. CASE ScaleDown
  BY <1>5 DEF ScaleDown, Round, PutService, sameResource, userVars, serviceVars,
         boundVars
<1>6. CASE GetInstance
  BY <1>6 DEF GetInstance, Goto, Return, Release, userVars, serviceVars, bridgeVars,
         boundVars
<1>7. CASE ServicePerInstance
  BY <1>7 DEF ServicePerInstance, Goto, PutService, Fault, sameResource, userVars,
         serviceVars, bridgeVars
<1>8. CASE Render
  BY <1>8 DEF Render, sameResource, userVars, serviceVars, bridgeVars, boundVars
<1>9. CASE Look
  BY <1>9 DEF Look, sameResource, userVars, serviceVars, bridgeVars, boundVars
<1>10. CASE TimeOut
  BY <1>10 DEF TimeOut, sameResource, userVars, serviceVars, bridgeVars, boundVars
<1>11. CASE PutInstance
  BY <1>11 DEF PutInstance, Round, Keep, Fault, sameResource, userVars, serviceVars,
         bridgeVars
<1>12. CASE UpdateStatus
  <2>1. queued' \in BOOLEAN /\ UNCHANGED <<spec, fresh>>
    BY <1>12, Zenon DEF UpdateStatus, Return
  <2>2. obj \in JVBSpec
    BY <1>12 DEF UpdateStatus
  <2>3. obj.replicas \in 0..MaxReplicas
    BY <2>2, ReplicasOK, ReplicasInNat
  <2>4. status' = obj.replicas \/ status' = status
    BY <1>12, Zenon DEF UpdateStatus
  <2> QED
    BY <2>1, <2>3, <2>4
<1>13. CASE UserEdit
  BY <1>13 DEF UserEdit, workerVars, serviceVars, bridgeVars
<1>14. CASE \E r \in Replicas : AssignAddress(r)
  BY <1>14 DEF PutService, sameResource, userVars, workerVars, bridgeVars, boundVars,
         AssignAddress
<1>15. CASE \E r \in Replicas : ReleaseAddress(r)
  BY <1>15 DEF PutService, sameResource, userVars, workerVars, bridgeVars, boundVars,
         ReleaseAddress
<1>16. CASE \E r \in Replicas : ReceiveService(r)
  BY <1>16 DEF sameResource, userVars, workerVars, bridgeVars, boundVars, ReceiveService
<1>17. CASE \E r \in Replicas : ReceiveBridge(r)
  BY <1>17 DEF sameResource, userVars, workerVars, serviceVars, boundVars, ReceiveBridge
<1>18. CASE Resync
  BY <1>18 DEF Resync, userVars, workerVars, serviceVars, bridgeVars, boundVars
<1>19. CASE Crash
  BY <1>19 DEF Crash, Release, Fault, userVars
<1>20. CASE UNCHANGED vars
  BY <1>20 DEF vars, userVars, workerVars, serviceVars, bridgeVars, boundVars
<1> QED
  BY <1>1, <1>2, <1>3, <1>4, <1>5, <1>6, <1>7, <1>8, <1>9, <1>10, <1>11, <1>12,
     <1>13, <1>14, <1>15, <1>16, <1>17, <1>18, <1>19, <1>20 DEF Next, Worker

LEMMA RenderedService ==
  ASSUME obj \in JVBSpec, NEW r \in Replicas
  PROVE  [type |-> obj.type, port |-> PortOf(r), ip |-> Pending] \in Service
  BY PortType DEF Service, JVBSpec

LEMMA ServiceFields ==
  ASSUME NEW s \in Service \cup {NoService}, NEW x, NEW y
  PROVE  [s EXCEPT !.type = x, !.port = y] = [type |-> x, port |-> y, ip |-> s.ip]
<1>1. s = [type |-> s.type, port |-> s.port, ip |-> s.ip]
  BY DEF Service, NoService
<1>2. [s EXCEPT !.type = x] = [type |-> x, port |-> s.port, ip |-> s.ip]
  BY <1>1
<1>3. [[type |-> x, port |-> s.port, ip |-> s.ip] EXCEPT !.port = y]
        = [type |-> x, port |-> y, ip |-> s.ip]
  OBVIOUS
<1>4. [s EXCEPT !.type = x, !.port = y] = [[s EXCEPT !.type = x] EXCEPT !.port = y]
  BY <1>1
<1> QED
  BY <1>2, <1>3, <1>4

LEMMA UpdatedType ==
  ASSUME obj \in JVBSpec, NEW r \in Replicas, NEW s \in Service \cup {NoService}
  PROVE  Updated(s, r) \in Service
<1>1. Updated(s, r) = [type |-> obj.type, port |-> PortOf(r), ip |-> s.ip]
  BY ServiceFields DEF Updated
<1>2. s.ip \in Addresses \cup {Blank, Pending}
  BY DEF Service, NoService
<1> QED
  BY <1>1, <1>2, PortType DEF Service, JVBSpec

LEMMA PutServiceOK ==
  ASSUME ServicesOK, NEW r \in Replicas, NEW s \in Service \cup {NoService}, PutService(r, s)
  PROVE  ServicesOK'
  BY DEF ServicesOK, PutService

LEMMA ServicesOKStep == IInv /\ [Next]_vars => ServicesOK'
<1> SUFFICES ASSUME IInv, [Next]_vars PROVE ServicesOK'
  OBVIOUS
<1> USE AddressBoundsAssumption, SpecsAssumption, ReplicasOK DEF IInv, ServicesOK, WorkerOK
<1>1. CASE Reconcile
  BY <1>1 DEF Reconcile, serviceVars, bridgeVars, boundVars
<1>2. CASE SkipExisting
  BY <1>2 DEF SkipExisting, Round, sameResource, userVars, serviceVars, bridgeVars,
         boundVars
<1>3. CASE CreateNext
  BY <1>3 DEF CreateNext, Goto, sameResource, userVars, serviceVars, bridgeVars,
         boundVars
<1>4. CASE StartUpdate
  BY <1>4 DEF StartUpdate, Round, sameResource, userVars, serviceVars, bridgeVars,
         boundVars
<1>5. CASE ScaleDown
  BY <1>5 DEF ScaleDown, Round, PutService, sameResource, userVars, serviceVars,
         boundVars
<1>6. CASE GetInstance
  BY <1>6 DEF GetInstance, Goto, Return, Release, userVars, serviceVars, bridgeVars,
         boundVars
<1>7. CASE ServicePerInstance
  <2>1. /\ replica \in Replicas /\ obj \in JVBSpec
        /\ service[replica] \in Service \cup {NoService}
    BY <1>7 DEF ServicePerInstance
  <2>2. CASE PutService(replica, [type |-> obj.type, port |-> PortOf(replica),
                                  ip |-> Pending])
    BY <2>1, <2>2, RenderedService, PutServiceOK
  <2>3. CASE PutService(replica, Updated(service[replica], replica))
    BY <2>1, <2>3, UpdatedType, PutServiceOK
  <2>4. CASE UNCHANGED serviceVars
    BY <2>4 DEF serviceVars
  <2> QED
    BY <1>7, <2>2, <2>3, <2>4 DEF ServicePerInstance
<1>8. CASE Render
  BY <1>8 DEF Render, sameResource, userVars, serviceVars, bridgeVars, boundVars
<1>9. CASE Look
  BY <1>9 DEF Look, sameResource, userVars, serviceVars, bridgeVars, boundVars
<1>10. CASE TimeOut
  BY <1>10 DEF TimeOut, sameResource, userVars, serviceVars, bridgeVars, boundVars
<1>11. CASE PutInstance
  BY <1>11 DEF PutInstance, Round, Keep, Fault, sameResource, userVars, serviceVars,
         bridgeVars
<1>12. CASE UpdateStatus
  BY <1>12 DEF UpdateStatus, Return, Release, Fault, serviceVars, bridgeVars
<1>13. CASE UserEdit
  BY <1>13 DEF UserEdit, workerVars, serviceVars, bridgeVars
<1>14. CASE \E r \in Replicas : AssignAddress(r)
  <2>1. PICK r \in Replicas : AssignAddress(r)
    BY <1>14
  <2>2. PICK a \in Addresses \cup {Blank} : PutService(r, [service[r] EXCEPT !.ip = a])
    BY <2>1 DEF AssignAddress
  <2>3. service[r] \in Service
    BY <2>1 DEF AssignAddress, NoService
  <2>4. [service[r] EXCEPT !.ip = a] \in Service
    BY <2>3 DEF Service
  <2> QED
    BY <2>2, <2>4, PutServiceOK
<1>15. CASE \E r \in Replicas : ReleaseAddress(r)
  <2>1. PICK r \in Replicas : ReleaseAddress(r)
    BY <1>15
  <2>2. service[r] \in Service
    BY <2>1 DEF ReleaseAddress, NoService
  <2>3. [service[r] EXCEPT !.ip = Pending] \in Service
    BY <2>2 DEF Service
  <2> QED
    BY <2>1, <2>3, PutServiceOK DEF ReleaseAddress
<1>16. CASE \E r \in Replicas : ReceiveService(r)
  BY <1>16 DEF sameResource, userVars, workerVars, bridgeVars, boundVars, ReceiveService
<1>17. CASE \E r \in Replicas : ReceiveBridge(r)
  BY <1>17 DEF sameResource, userVars, workerVars, serviceVars, boundVars, ReceiveBridge
<1>18. CASE Resync
  BY <1>18 DEF Resync, userVars, workerVars, serviceVars, bridgeVars, boundVars
<1>19. CASE Crash
  BY <1>19 DEF Crash, Release, Fault, userVars
<1>20. CASE UNCHANGED vars
  BY <1>20 DEF vars, userVars, workerVars, serviceVars, bridgeVars, boundVars
<1> QED
  BY <1>1, <1>2, <1>3, <1>4, <1>5, <1>6, <1>7, <1>8, <1>9, <1>10, <1>11, <1>12,
     <1>13, <1>14, <1>15, <1>16, <1>17, <1>18, <1>19, <1>20 DEF Next, Worker

LEMMA BridgesOKStep == IInv /\ [Next]_vars => BridgesOK'
<1> SUFFICES ASSUME IInv, [Next]_vars PROVE BridgesOK'
  OBVIOUS
<1> USE AddressBoundsAssumption, SpecsAssumption, ReplicasOK DEF IInv, BridgesOK, WorkerOK
<1>1. CASE Reconcile
  BY <1>1 DEF Reconcile, serviceVars, bridgeVars, boundVars
<1>2. CASE SkipExisting
  BY <1>2 DEF SkipExisting, Round, sameResource, userVars, serviceVars, bridgeVars,
         boundVars
<1>3. CASE CreateNext
  BY <1>3 DEF CreateNext, Goto, sameResource, userVars, serviceVars, bridgeVars,
         boundVars
<1>4. CASE StartUpdate
  BY <1>4 DEF StartUpdate, Round, sameResource, userVars, serviceVars, bridgeVars,
         boundVars
<1>5. CASE ScaleDown
  BY <1>5 DEF ScaleDown, Round, PutService, sameResource, userVars, serviceVars,
         boundVars
<1>6. CASE GetInstance
  BY <1>6 DEF GetInstance, Goto, Return, Release, userVars, serviceVars, bridgeVars,
         boundVars
<1>7. CASE ServicePerInstance
  BY <1>7 DEF ServicePerInstance, Goto, PutService, Fault, sameResource, userVars,
         serviceVars, bridgeVars
<1>8. CASE Render
  BY <1>8 DEF Render, sameResource, userVars, serviceVars, bridgeVars, boundVars
<1>9. CASE Look
  BY <1>9 DEF Look, sameResource, userVars, serviceVars, bridgeVars, boundVars
<1>10. CASE TimeOut
  BY <1>10 DEF TimeOut, sameResource, userVars, serviceVars, bridgeVars, boundVars
<1>11. CASE PutInstance
  <2>1. replica \in Replicas /\ obj \in JVBSpec /\ envs \in Seq(Environment)
    BY <1>11 DEF PutInstance, ListOK
  <2>2. [port |-> PortOf(replica), environments |-> envs] \in Bridge
    BY <2>1, PortType DEF Bridge
  <2>3. bridge' = bridge \/ bridge' = [bridge EXCEPT ![replica] = Instance(replica)]
    BY <1>11, Zenon DEF PutInstance, bridgeVars
  <2>4. known' = known
    BY <1>11 DEF PutInstance, bridgeVars
  <2> QED
    BY <2>1, <2>2, <2>3, <2>4 DEF Instance
<1>12. CASE UpdateStatus
  BY <1>12 DEF UpdateStatus, Return, Release, Fault, serviceVars, bridgeVars
<1>13. CASE UserEdit
  BY <1>13 DEF UserEdit, workerVars, serviceVars, bridgeVars
<1>14. CASE \E r \in Replicas : AssignAddress(r)
  BY <1>14 DEF PutService, sameResource, userVars, workerVars, bridgeVars, boundVars,
         AssignAddress
<1>15. CASE \E r \in Replicas : ReleaseAddress(r)
  BY <1>15 DEF PutService, sameResource, userVars, workerVars, bridgeVars, boundVars,
         ReleaseAddress
<1>16. CASE \E r \in Replicas : ReceiveService(r)
  BY <1>16 DEF sameResource, userVars, workerVars, bridgeVars, boundVars, ReceiveService
<1>17. CASE \E r \in Replicas : ReceiveBridge(r)
  BY <1>17 DEF sameResource, userVars, workerVars, serviceVars, boundVars, ReceiveBridge
<1>18. CASE Resync
  BY <1>18 DEF Resync, userVars, workerVars, serviceVars, bridgeVars, boundVars
<1>19. CASE Crash
  BY <1>19 DEF Crash, Release, Fault, userVars
<1>20. CASE UNCHANGED vars
  BY <1>20 DEF vars, userVars, workerVars, serviceVars, bridgeVars, boundVars
<1> QED
  BY <1>1, <1>2, <1>3, <1>4, <1>5, <1>6, <1>7, <1>8, <1>9, <1>10, <1>11, <1>12,
     <1>13, <1>14, <1>15, <1>16, <1>17, <1>18, <1>19, <1>20 DEF Next, Worker

LEMMA WorkerOKStep == IInv /\ [Next]_vars => WorkerOK'
<1> SUFFICES ASSUME IInv, [Next]_vars PROVE WorkerOK'
  OBVIOUS
<1> USE AddressBoundsAssumption, SpecsAssumption, ReplicasOK
       DEF IInv, UsersOK, WorkerOK, Steps
<1>1. CASE Reconcile
  <2>1. obj' \in JVBSpec /\ obj'.replicas \in 1..MaxReplicas
    BY <1>1 DEF Reconcile, JVBSpec, Replicas
  <2> QED
    BY <1>1, <2>1, ReplicasInNat DEF Reconcile
<1>2. CASE SkipExisting
  <2>0. obj \in JVBSpec /\ replica \in Nat
    BY <1>2 DEF SkipExisting
  <2>1. obj.replicas \in 1..MaxReplicas
    BY <2>0, ReplicasOK
  <2> QED
    BY <1>2, <2>0, <2>1, ReplicasInNat DEF SkipExisting, Round
<1>3. CASE CreateNext
  <2>0. obj \in JVBSpec /\ replica \in Nat
    BY <1>3 DEF CreateNext
  <2>1. obj.replicas \in 1..MaxReplicas
    BY <2>0, ReplicasOK
  <2> QED
    BY <1>3, <2>0, <2>1, ReplicasInNat DEF CreateNext, Goto
<1>4. CASE StartUpdate
  <2>0. obj \in JVBSpec /\ replica \in Nat
    BY <1>4 DEF StartUpdate
  <2>1. obj.replicas \in 1..MaxReplicas
    BY <2>0, ReplicasOK
  <2>2. CASE status > obj.replicas
    <3>1. /\ pc' = "scaleDown" /\ loop' = "none" /\ replica' = status /\ ticks' = 0
          /\ UNCHANGED <<obj, asked>>
      BY <1>4, <2>2 DEF StartUpdate
    <3>2. status \in Replicas /\ status \in 0..(MaxReplicas + 1)
      BY <2>1, <2>2, ReplicasInNat DEF Replicas
    <3> QED
      BY <2>0, <2>2, <3>1, <3>2
  <2>3. CASE ~(status > obj.replicas)
    <3>1. Round("update", 1)
      BY <1>4, <2>3 DEF StartUpdate
    <3> QED
      BY <2>0, <2>1, <3>1, ReplicasInNat DEF Round
  <2> QED
    BY <2>2, <2>3
<1>5. CASE ScaleDown
  <2>0. obj \in JVBSpec /\ replica \in Nat
    BY <1>5 DEF ScaleDown
  <2>1. obj.replicas \in 1..MaxReplicas
    BY <2>0, ReplicasOK
  <2>2. replica \in 1..MaxReplicas /\ replica > obj.replicas /\ pc = "scaleDown"
    BY <1>5 DEF ScaleDown, Replicas
  <2>3. CASE replica - 1 = obj.replicas
    <3>1. Round("update", 1)
      BY <1>5, <2>3 DEF ScaleDown
    <3> QED
      BY <2>0, <2>1, <3>1, ReplicasInNat DEF Round
  <2>4. CASE replica - 1 # obj.replicas
    <3>1. replica' = replica - 1 /\ UNCHANGED <<pc, loop, obj, ticks, asked>>
      BY <1>5, <2>4 DEF ScaleDown
    <3>2. /\ replica - 1 \in Replicas /\ replica - 1 \in 0..(MaxReplicas + 1)
          /\ replica - 1 > obj.replicas
      BY <2>1, <2>2, <2>4, ReplicasInNat DEF Replicas
    <3> QED
      BY <2>0, <2>2, <3>1, <3>2
  <2> QED
    BY <2>3, <2>4
<1>6. CASE GetInstance
  BY <1>6 DEF GetInstance, Goto, Return, Release, userVars, serviceVars, bridgeVars,
         boundVars
<1>7. CASE ServicePerInstance
  BY <1>7 DEF ServicePerInstance, Goto, PutService, Fault, sameResource, userVars,
         serviceVars, bridgeVars
<1>8. CASE Render
  BY <1>8 DEF Render, sameResource, userVars, serviceVars, bridgeVars, boundVars
<1>9. CASE Look
  <2>1. pc' \in {"wait", "put"} /\ UNCHANGED <<loop, obj, replica>>
    BY <1>9 DEF Look, GotAddress
  <2>2. ticks' \in 0..Patience /\ asked' \in Nat
    BY <1>9 DEF Look
  <2>3. pc = "wait"
    BY <1>9 DEF Look
  <2> QED
    BY <2>1, <2>2, <2>3
<1>10. CASE TimeOut
  <2>1. pc' \in {"wait", "put"} /\ UNCHANGED <<loop, obj, replica>>
    BY <1>10 DEF TimeOut, GotAddress
  <2>2. ticks' \in 0..Patience /\ asked' \in Nat
    BY <1>10 DEF TimeOut
  <2>3. pc = "wait"
    BY <1>10 DEF TimeOut
  <2> QED
    BY <2>1, <2>2, <2>3
<1>11. CASE PutInstance
  <2>0. obj \in JVBSpec /\ replica \in Nat
    BY <1>11 DEF PutInstance
  <2>1. obj.replicas \in 1..MaxReplicas
    BY <2>0, ReplicasOK
  <2>2. 1..obj.replicas \subseteq 1..MaxReplicas /\ replica \in 1..obj.replicas
    BY <1>11, <2>0, <2>1, ReplicasInNat DEF PutInstance
  <2>3. replica + 1 \in 0..(MaxReplicas + 1) /\ replica + 1 \in 1..(obj.replicas + 1)
    BY <2>0, <2>1, <2>2, ReplicasInNat
  <2>4. /\ pc' = loop /\ loop' = loop /\ replica' = replica + 1 /\ ticks' = 0
        /\ UNCHANGED <<obj, asked>> /\ loop \in {"create", "update"}
    BY <1>11 DEF PutInstance, Round
  <2> QED
    BY <2>0, <2>3, <2>4
<1>12. CASE UpdateStatus
  BY <1>12 DEF UpdateStatus, Return, Release, Fault, serviceVars, bridgeVars
<1>13. CASE UserEdit
  BY <1>13 DEF UserEdit, workerVars, serviceVars, bridgeVars
<1>14. CASE \E r \in Replicas : AssignAddress(r)
  BY <1>14 DEF PutService, sameResource, userVars, workerVars, bridgeVars, boundVars,
         AssignAddress
<1>15. CASE \E r \in Replicas : ReleaseAddress(r)
  BY <1>15 DEF PutService, sameResource, userVars, workerVars, bridgeVars, boundVars,
         ReleaseAddress
<1>16. CASE \E r \in Replicas : ReceiveService(r)
  BY <1>16 DEF sameResource, userVars, workerVars, bridgeVars, boundVars, ReceiveService
<1>17. CASE \E r \in Replicas : ReceiveBridge(r)
  BY <1>17 DEF sameResource, userVars, workerVars, serviceVars, boundVars, ReceiveBridge
<1>18. CASE Resync
  BY <1>18 DEF Resync, userVars, workerVars, serviceVars, bridgeVars, boundVars
<1>19. CASE Crash
  BY <1>19 DEF Crash, Release, Fault, userVars
<1>20. CASE UNCHANGED vars
  BY <1>20 DEF vars, userVars, workerVars, serviceVars, bridgeVars, boundVars
<1> QED
  BY <1>1, <1>2, <1>3, <1>4, <1>5, <1>6, <1>7, <1>8, <1>9, <1>10, <1>11, <1>12,
     <1>13, <1>14, <1>15, <1>16, <1>17, <1>18, <1>19, <1>20 DEF Next, Worker

LEMMA ListOKStep == IInv /\ [Next]_vars => ListOK'
<1> SUFFICES ASSUME IInv, [Next]_vars PROVE ListOK'
  OBVIOUS
<1> USE AddressBoundsAssumption, SpecsAssumption, ReplicasOK DEF IInv, ListOK, WorkerOK
<1>1. CASE Reconcile
  <2> QED
    BY <1>1, ListAssumption DEF Reconcile, JVBSpec, UsersOK
<1>2. CASE SkipExisting
  BY <1>2 DEF SkipExisting, Round, sameResource, userVars, serviceVars, bridgeVars,
         boundVars
<1>3. CASE CreateNext
  BY <1>3 DEF CreateNext, Goto, sameResource, userVars, serviceVars, bridgeVars,
         boundVars
<1>4. CASE StartUpdate
  BY <1>4 DEF StartUpdate, Round, sameResource, userVars, serviceVars, bridgeVars,
         boundVars
<1>5. CASE ScaleDown
  BY <1>5 DEF ScaleDown, Round, PutService, sameResource, userVars, serviceVars,
         boundVars
<1>6. CASE GetInstance
  <2>1. UNCHANGED envs \/ Release
    BY <1>6, ReturnReleases DEF GetInstance, Goto
  <2> QED
    BY <2>1, ReleasedList
<1>7. CASE ServicePerInstance
  BY <1>7 DEF ServicePerInstance, Goto, PutService, Fault, sameResource, userVars,
         serviceVars, bridgeVars
<1>8. CASE Render
  <2>1. obj \in JVBSpec /\ replica \in Replicas
    BY <1>8 DEF Render
  <2>2. WithAddress(envs, Blank) \in Seq(Environment)
    BY WithAddressType
  <2>3. WithPort(WithAddress(envs, Blank), replica) \in Seq(Environment)
    BY <2>1, <2>2, WithPortType
  <2> QED
    BY <1>8, <2>3 DEF Render
<1>9. CASE Look
  <2>1. CASE UNCHANGED envs
    BY <2>1
  <2>2. CASE \E a \in Addresses \cup {Blank} : GotAddress(a)
    BY <1>9, <2>2, GotAddressOK DEF Look
  <2> QED
    BY <1>9, <2>1, <2>2, LookOK, TimeOutOK
<1>10. CASE TimeOut
  <2>1. CASE UNCHANGED envs
    BY <2>1
  <2>2. CASE \E a \in Addresses \cup {Blank} : GotAddress(a)
    BY <1>10, <2>2, GotAddressOK DEF TimeOut
  <2> QED
    BY <1>10, <2>1, <2>2, LookOK, TimeOutOK
<1>11. CASE PutInstance
  BY <1>11 DEF PutInstance, Round, Keep, Fault, sameResource, userVars, serviceVars,
         bridgeVars
<1>12. CASE UpdateStatus
  <2>1. Release
    BY <1>12, ReturnReleases DEF UpdateStatus
  <2> QED
    BY <2>1, ReleasedList
<1>13. CASE UserEdit
  BY <1>13 DEF UserEdit, workerVars, serviceVars, bridgeVars
<1>14. CASE \E r \in Replicas : AssignAddress(r)
  BY <1>14 DEF PutService, sameResource, userVars, workerVars, bridgeVars, boundVars,
         AssignAddress
<1>15. CASE \E r \in Replicas : ReleaseAddress(r)
  BY <1>15 DEF PutService, sameResource, userVars, workerVars, bridgeVars, boundVars,
         ReleaseAddress
<1>16. CASE \E r \in Replicas : ReceiveService(r)
  BY <1>16 DEF sameResource, userVars, workerVars, bridgeVars, boundVars, ReceiveService
<1>17. CASE \E r \in Replicas : ReceiveBridge(r)
  BY <1>17 DEF sameResource, userVars, workerVars, serviceVars, boundVars, ReceiveBridge
<1>18. CASE Resync
  BY <1>18 DEF Resync, userVars, workerVars, serviceVars, bridgeVars, boundVars
<1>19. CASE Crash
  BY <1>19 DEF Crash, Release, Fault, userVars
<1>20. CASE UNCHANGED vars
  BY <1>20 DEF vars, userVars, workerVars, serviceVars, bridgeVars, boundVars
<1> QED
  BY <1>1, <1>2, <1>3, <1>4, <1>5, <1>6, <1>7, <1>8, <1>9, <1>10, <1>11, <1>12,
     <1>13, <1>14, <1>15, <1>16, <1>17, <1>18, <1>19, <1>20 DEF Next, Worker

\* A port is there once it was added.
LEMMA RenderedOnce ==
  ASSUME NEW e \in Seq(Environment), ToldOnce(e), ~Has(e, "JVB_PORT"),
         NEW a \in Addresses \cup {Blank}, NEW r \in Replicas, obj \in JVBSpec
  PROVE  /\ ToldOnce(WithPort(WithAddress(e, a), r))
         /\ Has(WithPort(WithAddress(e, a), r), "JVB_PORT")
<1> DEFINE f == WithAddress(e, a)
<1>1. f \in Seq(Environment) /\ ToldOnce(f) /\ ~Has(f, "JVB_PORT")
  BY WithAddressType, WithAddressOnce
<1> HIDE DEF f
<1>2. ToldOnce(WithPort(f, r)) /\ Has(WithPort(f, r), "JVB_PORT")
  BY <1>1, WithPortOnce
<1> QED
  BY <1>2 DEF f

LEMMA KeptWaited ==
  ASSUME Waited, UNCHANGED <<obj, envs, asked>>, pc # "wait", pc' # "wait"
  PROVE  Waited'
  BY DEF Waited

LEMMA SameWaited ==
  ASSUME Waited, UNCHANGED <<pc, obj, envs, asked>>
  PROVE  Waited'
  BY DEF Waited, NeedsAddress, NeedsPort

LEMMA ReleasedWaited == ASSUME Release PROVE Waited'
  BY DEF Release, Waited

LEMMA WaitedStep == IInv /\ [Next]_vars => Waited'
<1> SUFFICES ASSUME IInv, [Next]_vars PROVE Waited'
  OBVIOUS
<1> USE AddressBoundsAssumption DEF IInv, Waited
<1>1. CASE Reconcile
  <2> QED
    BY <1>1 DEF Reconcile
<1>2. CASE SkipExisting
  <2>1. UNCHANGED <<obj, envs, asked>> /\ pc # "wait" /\ pc' # "wait"
    BY <1>2 DEF SkipExisting, Round
  <2> QED
    BY <2>1, KeptWaited
<1>3. CASE CreateNext
  <2>1. UNCHANGED <<obj, envs, asked>> /\ pc # "wait" /\ pc' # "wait"
    BY <1>3 DEF CreateNext, Goto
  <2> QED
    BY <2>1, KeptWaited
<1>4. CASE StartUpdate
  <2>1. UNCHANGED <<obj, envs, asked>> /\ pc # "wait"
    BY <1>4 DEF StartUpdate, Round
  <2>2. pc' # "wait"
    BY <1>4 DEF StartUpdate, Round
  <2> QED
    BY <2>1, <2>2, KeptWaited
<1>5. CASE ScaleDown
  <2>1. UNCHANGED <<obj, envs, asked>> /\ pc # "wait"
    BY <1>5 DEF ScaleDown, Round
  <2>2. pc' # "wait"
    BY <1>5 DEF ScaleDown, Round
  <2> QED
    BY <2>1, <2>2, KeptWaited
<1>6. CASE GetInstance
  <2>1. CASE Goto("service")
    BY <1>6, <2>1, KeptWaited DEF GetInstance, Goto
  <2>2. CASE Return(TRUE)
    BY <2>2, ReturnReleases, ReleasedWaited
  <2> QED
    BY <1>6, <2>1, <2>2 DEF GetInstance
<1>7. CASE ServicePerInstance
  <2>1. UNCHANGED <<obj, envs, asked>> /\ pc # "wait" /\ pc' # "wait"
    BY <1>7 DEF ServicePerInstance, Goto
  <2> QED
    BY <2>1, KeptWaited
<1>8. CASE Render
  <2>1. obj \in JVBSpec /\ replica \in Replicas /\ envs \in Seq(Environment) /\ ToldOnce(envs)
    BY <1>8, ReplicasOK DEF Render, WorkerOK, ListOK, NothingNamedTwice
  <2>2. pc # "wait" /\ asked \in Nat /\ asked <= 1 /\ (asked > 0 => Has(envs, "JVB_PORT"))
    BY <1>8 DEF Render, WorkerOK
  <2>3. CASE NeedsAddress /\ obj.type = "LoadBalancer"
    <3>1. UNCHANGED <<obj, envs>> /\ asked' = asked + 1 /\ pc' = "wait"
      BY <1>8, <2>3 DEF Render
    <3>2. asked = 0
      BY <2>2, <2>3 DEF NeedsAddress, NeedsPort, isEnvAlreadyExist
    <3>3. NeedsAddress'
      BY <2>3, <3>1 DEF NeedsAddress, NeedsPort
    <3> QED
      BY <3>1, <3>2, <3>3
  <2>4. CASE ~(NeedsAddress /\ obj.type = "LoadBalancer")
    <3>1. pc' = "put" /\ asked' = asked
          /\ envs' = IF NeedsPort THEN WithPort(WithAddress(envs, Blank), replica) ELSE envs
      BY <1>8, <2>4 DEF Render
    <3>2. NeedsPort => Has(envs', "JVB_PORT")
      BY <2>1, <3>1, RenderedOnce DEF NeedsPort, isEnvAlreadyExist
    <3> QED
      BY <2>2, <3>1, <3>2
  <2> QED
    BY <2>3, <2>4
<1>9. CASE Look
  <2>1. pc = "wait" /\ UNCHANGED <<obj, asked>>
    BY <1>9 DEF Look
  <2>2. CASE pc' = "wait" /\ UNCHANGED envs
    BY <2>1, <2>2 DEF NeedsAddress, NeedsPort
  <2>3. CASE \E a \in Addresses \cup {Blank} : GotAddress(a)
    BY <2>1, <2>3, GotAddressOK DEF IInv
  <2> QED
    BY <1>9, <2>2, <2>3, LookOK, TimeOutOK
<1>10. CASE TimeOut
  <2>1. pc = "wait" /\ UNCHANGED <<obj, asked>>
    BY <1>10 DEF TimeOut
  <2>2. CASE pc' = "wait" /\ UNCHANGED envs
    BY <2>1, <2>2 DEF NeedsAddress, NeedsPort
  <2>3. CASE \E a \in Addresses \cup {Blank} : GotAddress(a)
    BY <2>1, <2>3, GotAddressOK DEF IInv
  <2> QED
    BY <1>10, <2>2, <2>3, LookOK, TimeOutOK
<1>11. CASE PutInstance
  <2>1. /\ UNCHANGED <<obj, envs, asked>> /\ pc # "wait" /\ pc' = loop
        /\ loop \in {"create", "update"}
    BY <1>11 DEF PutInstance, Round, Keep, WorkerOK
  <2> QED
    BY <2>1, KeptWaited
<1>12. CASE UpdateStatus
  <2>1. Release
    BY <1>12, ReturnReleases DEF UpdateStatus
  <2> QED
    BY <2>1, ReleasedWaited
<1>13. CASE UserEdit
  <2>1. UNCHANGED <<pc, obj, envs, asked>>
    BY <1>13 DEF UserEdit, workerVars
  <2> QED
    BY <2>1, SameWaited
<1>14. CASE \E r \in Replicas : AssignAddress(r)
  <2>1. UNCHANGED <<pc, obj, envs, asked>>
    BY <1>14 DEF workerVars, AssignAddress
  <2> QED
    BY <2>1, SameWaited
<1>15. CASE \E r \in Replicas : ReleaseAddress(r)
  <2>1. UNCHANGED <<pc, obj, envs, asked>>
    BY <1>15 DEF workerVars, ReleaseAddress
  <2> QED
    BY <2>1, SameWaited
<1>16. CASE \E r \in Replicas : ReceiveService(r)
  <2>1. UNCHANGED <<pc, obj, envs, asked>>
    BY <1>16 DEF workerVars, ReceiveService
  <2> QED
    BY <2>1, SameWaited
<1>17. CASE \E r \in Replicas : ReceiveBridge(r)
  <2>1. UNCHANGED <<pc, obj, envs, asked>>
    BY <1>17 DEF workerVars, ReceiveBridge
  <2> QED
    BY <2>1, SameWaited
<1>18. CASE Resync
  <2>1. UNCHANGED <<pc, obj, envs, asked>>
    BY <1>18 DEF Resync, workerVars
  <2> QED
    BY <2>1, SameWaited
<1>19. CASE Crash
  <2> QED
    BY <1>19, ReleasedWaited DEF Crash
<1>20. CASE UNCHANGED vars
  <2>1. UNCHANGED <<pc, obj, envs, asked>>
    BY <1>20 DEF vars, workerVars
  <2> QED
    BY <2>1, SameWaited
<1> QED
  BY <1>1, <1>2, <1>3, <1>4, <1>5, <1>6, <1>7, <1>8, <1>9, <1>10, <1>11, <1>12,
     <1>13, <1>14, <1>15, <1>16, <1>17, <1>18, <1>19, <1>20 DEF Next, Worker

-----------------------------------------------------------------------------
(* Nothing is named twice. *)

ListOnce == ToldOnce(envs)
BridgesOnce == \A r \in Replicas : ToldOnce(bridge[r].environments)

LEMMA UsersListOnce == ASSUME NEW e \in Lists PROVE ToldOnce(e)
  BY ListAssumption DEF NamedOnce, ToldOnce

LEMMA NothingOnce == ToldOnce(<<>>)
  BY DEF ToldOnce

LEMMA ListOnceStep == IInv /\ [Next]_vars => ListOnce'
<1> SUFFICES ASSUME IInv, [Next]_vars PROVE ListOnce'
  OBVIOUS
<1> USE AddressBoundsAssumption DEF IInv, ListOnce, NothingNamedTwice
<1>1. CASE Reconcile
  <2>1. spec \in JVBSpec /\ envs' = spec.environments
    BY <1>1 DEF Reconcile, UsersOK
  <2> QED
    BY <2>1, UsersListOnce DEF JVBSpec
<1>2. CASE SkipExisting
  BY <1>2 DEF SkipExisting, Round
<1>3. CASE CreateNext
  BY <1>3 DEF CreateNext, Goto
<1>4. CASE StartUpdate
  BY <1>4 DEF StartUpdate, Round
<1>5. CASE ScaleDown
  BY <1>5 DEF ScaleDown, Round
<1>6. CASE GetInstance
  <2>1. envs' = envs \/ envs' = <<>>
    BY <1>6, ReturnReleases DEF GetInstance, Goto, Release
  <2> QED
    BY <2>1, NothingOnce
<1>7. CASE ServicePerInstance
  BY <1>7 DEF ServicePerInstance, Goto
<1>8. CASE Render
  <2>1. obj \in JVBSpec /\ replica \in Replicas /\ envs \in Seq(Environment)
    BY <1>8, ReplicasOK DEF Render, WorkerOK, ListOK
  <2>2. CASE NeedsPort /\ envs' = WithPort(WithAddress(envs, Blank), replica)
    BY <2>1, <2>2, RenderedOnce DEF NeedsPort, isEnvAlreadyExist
  <2>3. CASE envs' = envs
    BY <2>3
  <2> QED
    BY <1>8, <2>2, <2>3 DEF Render
<1>9. CASE Look
  <2>1. CASE UNCHANGED envs
    BY <2>1
  <2>2. CASE \E a \in Addresses \cup {Blank} : GotAddress(a)
    BY <1>9, <2>2, GotAddressOK DEF Look
  <2> QED
    BY <1>9, <2>1, <2>2, LookOK, TimeOutOK
<1>10. CASE TimeOut
  <2>1. CASE UNCHANGED envs
    BY <2>1
  <2>2. CASE \E a \in Addresses \cup {Blank} : GotAddress(a)
    BY <1>10, <2>2, GotAddressOK DEF TimeOut
  <2> QED
    BY <1>10, <2>1, <2>2, LookOK, TimeOutOK
<1>11. CASE PutInstance
  BY <1>11 DEF PutInstance, Round, Keep
<1>12. CASE UpdateStatus
  <2>1. envs' = <<>>
    BY <1>12, ReturnReleases DEF UpdateStatus, Release
  <2> QED
    BY <2>1, NothingOnce
<1>13. CASE UserEdit
  BY <1>13 DEF UserEdit, workerVars
<1>14. CASE \E r \in Replicas : AssignAddress(r)
  BY <1>14 DEF workerVars, AssignAddress
<1>15. CASE \E r \in Replicas : ReleaseAddress(r)
  BY <1>15 DEF workerVars, ReleaseAddress
<1>16. CASE \E r \in Replicas : ReceiveService(r)
  BY <1>16 DEF workerVars, ReceiveService
<1>17. CASE \E r \in Replicas : ReceiveBridge(r)
  BY <1>17 DEF workerVars, ReceiveBridge
<1>18. CASE Resync
  BY <1>18 DEF Resync, workerVars
<1>19. CASE Crash
  <2>1. envs' = <<>>
    BY <1>19 DEF Crash, Release
  <2> QED
    BY <2>1, NothingOnce
<1>20. CASE UNCHANGED vars
  BY <1>20 DEF vars, workerVars
<1> QED
  BY <1>1, <1>2, <1>3, <1>4, <1>5, <1>6, <1>7, <1>8, <1>9, <1>10, <1>11, <1>12,
     <1>13, <1>14, <1>15, <1>16, <1>17, <1>18, <1>19, <1>20 DEF Next, Worker

LEMMA BridgesOnceStep == IInv /\ [Next]_vars => BridgesOnce'
<1> SUFFICES ASSUME IInv, [Next]_vars PROVE BridgesOnce'
  OBVIOUS
<1> USE AddressBoundsAssumption DEF IInv, BridgesOnce, NothingNamedTwice
<1>1. CASE Reconcile
  BY <1>1 DEF Reconcile, bridgeVars
<1>2. CASE SkipExisting
  BY <1>2 DEF SkipExisting, bridgeVars
<1>3. CASE CreateNext
  BY <1>3 DEF CreateNext, bridgeVars
<1>4. CASE StartUpdate
  BY <1>4 DEF StartUpdate, bridgeVars
<1>5. CASE ScaleDown
  <2>1. \A r \in Replicas : bridge'[r] = bridge[r] \/ bridge'[r] = NoBridge
    BY <1>5 DEF ScaleDown, BridgesOK
  <2> QED
    BY <2>1, NothingOnce DEF NoBridge
<1>6. CASE GetInstance
  BY <1>6 DEF GetInstance, bridgeVars
<1>7. CASE ServicePerInstance
  BY <1>7 DEF ServicePerInstance, bridgeVars
<1>8. CASE Render
  BY <1>8 DEF Render, bridgeVars
<1>9. CASE Look
  BY <1>9 DEF Look, bridgeVars
<1>10. CASE TimeOut
  BY <1>10 DEF TimeOut, bridgeVars
<1>11. CASE PutInstance
  <2>1. bridge' = bridge \/ bridge' = [bridge EXCEPT ![replica] = Instance(replica)]
    BY <1>11, Zenon DEF PutInstance, bridgeVars
  <2>2. \A r \in Replicas : bridge'[r] = bridge[r] \/ bridge'[r].environments = envs
    BY <2>1 DEF BridgesOK, Instance
  <2> QED
    BY <2>2
<1>12. CASE UpdateStatus
  BY <1>12 DEF UpdateStatus, bridgeVars
<1>13. CASE UserEdit
  BY <1>13 DEF UserEdit, bridgeVars
<1>14. CASE \E r \in Replicas : AssignAddress(r)
  BY <1>14 DEF bridgeVars, AssignAddress
<1>15. CASE \E r \in Replicas : ReleaseAddress(r)
  BY <1>15 DEF bridgeVars, ReleaseAddress
<1>16. CASE \E r \in Replicas : ReceiveService(r)
  BY <1>16 DEF bridgeVars, ReceiveService
<1>17. CASE \E r \in Replicas : ReceiveBridge(r)
  BY <1>17 DEF ReceiveBridge
<1>18. CASE Resync
  BY <1>18 DEF Resync, bridgeVars
<1>19. CASE Crash
  BY <1>19 DEF Crash
<1>20. CASE UNCHANGED vars
  BY <1>20 DEF vars, bridgeVars
<1> QED
  BY <1>1, <1>2, <1>3, <1>4, <1>5, <1>6, <1>7, <1>8, <1>9, <1>10, <1>11, <1>12,
     <1>13, <1>14, <1>15, <1>16, <1>17, <1>18, <1>19, <1>20 DEF Next, Worker

-----------------------------------------------------------------------------
(* The theorems. *)

LEMMA InitOK == Init => IInv
<1> SUFFICES ASSUME Init PROVE IInv
  OBVIOUS
<1>1. UsersOK
  <2>1. spec \in JVBSpec /\ status \in 0..MaxReplicas
    BY SpecsAssumption, AddressBoundsAssumption DEF Init
  <2>2. fresh \in BOOLEAN /\ queued \in BOOLEAN
    BY DEF Init
  <2> QED
    BY <2>1, <2>2 DEF UsersOK
<1>2. ServicesOK /\ BridgesOK
  BY DEF Init, ServicesOK, BridgesOK
<1>3. BoundsOK
  BY AddressBoundsAssumption DEF Init, BoundsOK
<1>4. WorkerOK
  BY AddressBoundsAssumption DEF Init, WorkerOK, Steps
<1>5. ListOK /\ Waited
  BY DEF Init, ListOK, Waited
<1>6. NothingNamedTwice
  BY NothingOnce DEF Init, NothingNamedTwice, NoBridge
<1> QED
  BY <1>1, <1>2, <1>3, <1>4, <1>5, <1>6 DEF IInv

LEMMA StepOK == IInv /\ [Next]_vars => IInv'
<1> SUFFICES ASSUME IInv, [Next]_vars PROVE IInv'
  OBVIOUS
<1>1. NothingNamedTwice'
  BY ListOnceStep, BridgesOnceStep DEF NothingNamedTwice, ListOnce, BridgesOnce
<1> QED
  BY <1>1, UsersOKStep, ServicesOKStep, BridgesOKStep, BoundsOKStep, WorkerOKStep, ListOKStep,
     WaitedStep DEF IInv

LEMMA Inductive == Spec => []IInv
  BY InitOK, StepOK, PTL DEF Spec

\* The type invariant, whose worker part is WorkerOK.
THEOREM AddressTypeCorrect == Spec => []TypeOK
<1>1. IInv => TypeOK
  BY DEF IInv, UsersOK, ServicesOK, BridgesOK, BoundsOK, WorkerOK, ListOK, TypeOK
<1> QED
  BY <1>1, Inductive, PTL

\* No list of variables the controller makes tells the address or the port of a
\* bridge twice: additionalEnvironments looks for both before it appends to
\* j.envs, which the next bridge is given (deployment.go:330-380).
THEOREM TellsOnce == Spec => []NothingNamedTwice
<1>1. IInv => NothingNamedTwice
  BY DEF IInv
<1> QED
  BY <1>1, Inductive, PTL

\* One reconciliation calls getExternalIP, which sleeps for up to five minutes,
\* at most once, however many bridges are wanted.
THEOREM AsksOnce == Spec => []WaitsOnce
<1>1. IInv => WaitsOnce
  BY DEF IInv, Waited, WaitsOnce
<1> QED
  BY <1>1, Inductive, PTL
============================================================================
