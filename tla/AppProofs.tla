------------------------------- MODULE AppProofs -------------------------------
(***************************************************************************)
(* Theorems about AppController, for every value of its constants: types,  *)
(* that each of the seven controllers implements Follower, what the        *)
(* children are at rest for users who wait, how long a pass of Reconcile   *)
(* is, and what the children are at rest however the users write.          *)
(***************************************************************************)
EXTENDS AppRefinement, CustomResourceProofs

-----------------------------------------------------------------------------
(* The handlers: what their calls address, and where things are removed. *)

Handlers == {"get", "create", "update", "delete"}
Removals == {"delete", "deleteRead"}
Verbs == Removals \cup {"get", "create", "update", "updateRead", "put", "apply"}
Calls == [verb : Verbs, object : Objects, passed : SUBSET Outcomes]

IsHandler(s, removes) ==
  /\ s \in Seq(Calls) /\ Len(s) \in Nat \ {0}
  /\ \A k \in DOMAIN s : /\ s[k].object \in Objects
                         /\ s[k].verb \in Removals => removes
                         /\ removes => s[k].verb \in Removals \cup {"get"}

LEMMA SingleHandler ==
  ASSUME NEW c \in Calls, NEW removes \in BOOLEAN,
         c.verb \in Removals => removes, removes => c.verb \in Removals \cup {"get"}
  PROVE  IsHandler(<<c>>, removes)
<1>1. <<c>> \in Seq(Calls) /\ Len(<<c>>) = 1 /\ DOMAIN <<c>> = {1} /\ <<c>>[1] = c
  OBVIOUS
<1> QED
  BY <1>1 DEF IsHandler, Calls

LEMMA DoubleHandler ==
  ASSUME NEW c \in Calls, NEW d \in Calls, NEW removes \in BOOLEAN,
         \A b \in {c, d} : /\ b.verb \in Removals => removes
                           /\ removes => b.verb \in Removals \cup {"get"}
  PROVE  IsHandler(<<c, d>>, removes)
<1>1. /\ <<c, d>> \in Seq(Calls) /\ Len(<<c, d>>) = 2 /\ DOMAIN <<c, d>> = {1, 2}
      /\ <<c, d>>[1] = c /\ <<c, d>>[2] = d
  OBVIOUS
<1> QED
  BY <1>1 DEF IsHandler, Calls

LEMMA TripleHandler ==
  ASSUME NEW c \in Calls, NEW d \in Calls, NEW e \in Calls, NEW removes \in BOOLEAN,
         \A b \in {c, d, e} : /\ b.verb \in Removals => removes
                              /\ removes => b.verb \in Removals \cup {"get"}
  PROVE  IsHandler(<<c, d, e>>, removes)
<1>1. /\ <<c, d, e>> \in Seq(Calls) /\ Len(<<c, d, e>>) = 3
      /\ DOMAIN <<c, d, e>> = {1, 2, 3}
      /\ <<c, d, e>>[1] = c /\ <<c, d, e>>[2] = d /\ <<c, d, e>>[3] = e
  OBVIOUS
<1> QED
  BY <1>1 DEF IsHandler, Calls

LEMMA CallFields ==
  ASSUME NEW verb \in Verbs, NEW o \in Objects, NEW passed \in SUBSET Outcomes
  PROVE  Call(verb, o, passed) \in Calls /\ Call(verb, o, passed).verb = verb
  BY DEF Call, Calls

LEMMA HandlerCalls ==
  /\ "service" \in Objects /\ "config" \in Objects /\ "workload" \in Objects
  /\ {} \in SUBSET Outcomes /\ Outcomes \in SUBSET Outcomes
  /\ {"exists"} \in SUBSET Outcomes /\ {"notFound"} \in SUBSET Outcomes
  BY DEF Objects, Outcomes

LEMMA CreatesAreHandlers ==
  /\ IsHandler(WebCreate, FALSE) /\ IsHandler(ProsodyCreate, FALSE)
  /\ IsHandler(JigasiCreate, FALSE) /\ IsHandler(JibriCreate, FALSE)
  /\ IsHandler(JicofoCreate, FALSE) /\ IsHandler(EtherpadCreate, FALSE)
  /\ IsHandler(WhiteboardCreate, FALSE)
<1>1. \A o \in Objects, p \in SUBSET Outcomes :
        Call("create", o, p) \in Calls /\ Call("create", o, p).verb \notin Removals
  <2>1. "create" \in Verbs /\ "create" \notin Removals
    BY DEF Verbs, Removals
  <2> QED
    BY <2>1, CallFields
<1>2. CreateService = Call("create", "service", {"exists"})
  BY DEF CreateService
<1> QED
  BY <1>1, <1>2, HandlerCalls, SingleHandler, DoubleHandler, TripleHandler
     DEF WebCreate, ProsodyCreate, JigasiCreate, JibriCreate, JicofoCreate,
         EtherpadCreate, WhiteboardCreate

LEMMA UpdatesAreHandlers ==
  /\ IsHandler(WebUpdate, FALSE) /\ IsHandler(ProsodyUpdate, FALSE)
  /\ IsHandler(JigasiUpdate, FALSE) /\ IsHandler(JibriUpdate, FALSE)
  /\ IsHandler(JicofoUpdate, FALSE) /\ IsHandler(EtherpadUpdate, FALSE)
  /\ IsHandler(WhiteboardUpdate, FALSE)
<1>1. \A verb \in {"update", "apply", "updateRead", "put"} :
      \A o \in Objects, p \in SUBSET Outcomes :
        Call(verb, o, p) \in Calls /\ Call(verb, o, p).verb \notin Removals
  <2>1. \A verb \in {"update", "apply", "updateRead", "put"} :
          verb \in Verbs /\ verb \notin Removals
    BY DEF Verbs, Removals
  <2> QED
    BY <2>1, CallFields
<1>2. UpdateService = Call("update", "service", {})
  BY DEF UpdateService
<1> QED
  BY <1>1, <1>2, HandlerCalls, SingleHandler, DoubleHandler, TripleHandler
     DEF WebUpdate, ProsodyUpdate, JigasiUpdate, JibriUpdate, JicofoUpdate,
         EtherpadUpdate, WhiteboardUpdate

LEMMA DeletesAreHandlers ==
  /\ IsHandler(WebDelete, TRUE) /\ IsHandler(ProsodyDelete, TRUE)
  /\ IsHandler(JigasiDelete, TRUE) /\ IsHandler(JibriDelete, TRUE)
  /\ IsHandler(JicofoDelete, TRUE) /\ IsHandler(EtherpadDelete, TRUE)
  /\ IsHandler(WhiteboardDelete, TRUE)
  /\ IsHandler(<<Call("get", "workload", {})>>, FALSE)
<1>1. \A verb \in {"get", "delete", "deleteRead"} :
      \A o \in Objects, p \in SUBSET Outcomes :
        /\ Call(verb, o, p) \in Calls
        /\ Call(verb, o, p).verb \in Removals \cup {"get"}
        /\ verb = "get" => Call(verb, o, p).verb \notin Removals
  <2>1. \A verb \in {"get", "delete", "deleteRead"} :
          /\ verb \in Verbs /\ verb \in Removals \cup {"get"}
          /\ verb = "get" => verb \notin Removals
    BY DEF Verbs, Removals
  <2> QED
    BY <2>1, CallFields
<1>2. DeleteService = Call("delete", "service", {"absent"}) /\ {"absent"} \in SUBSET Outcomes
  BY DEF DeleteService, Outcomes
<1> QED
  BY <1>1, <1>2, HandlerCalls, SingleHandler, DoubleHandler, TripleHandler
     DEF WebDelete, ProsodyDelete, JigasiDelete, JibriDelete, JicofoDelete,
         EtherpadDelete, WhiteboardDelete

\* Every plan is a handler, and only the one named delete removes things.
LEMMA PlansAreHandlers ==
  ASSUME NEW a \in AllApps, NEW p \in Handlers
  PROVE  IF p = "delete" THEN IsHandler(Plans(a)[p], TRUE) ELSE IsHandler(Plans(a)[p], FALSE)
<1>1. /\ Plans(a)["get"] = <<Call("get", "workload", {})>>
      /\ Plans(a)["create"] \in {WebCreate, ProsodyCreate, JigasiCreate, JibriCreate,
                                 JicofoCreate, EtherpadCreate, WhiteboardCreate}
      /\ Plans(a)["update"] \in {WebUpdate, ProsodyUpdate, JigasiUpdate, JibriUpdate,
                                 JicofoUpdate, EtherpadUpdate, WhiteboardUpdate}
      /\ Plans(a)["delete"] \in {WebDelete, ProsodyDelete, JigasiDelete, JibriDelete,
                                 JicofoDelete, EtherpadDelete, WhiteboardDelete}
  BY DEF Plans, AllApps
<1>2. IsHandler(Plans(a)["get"], FALSE) /\ IsHandler(Plans(a)["create"], FALSE)
      /\ IsHandler(Plans(a)["update"], FALSE) /\ IsHandler(Plans(a)["delete"], TRUE)
  BY <1>1, CreatesAreHandlers, UpdatesAreHandlers, DeletesAreHandlers
<1> QED
  BY <1>2 DEF Handlers

LEMMA PlanFacts ==
  ASSUME app \in AllApps, NEW p \in Handlers
  PROVE  /\ Plans(app)[p] \in Seq(Calls) /\ Len(Plans(app)[p]) \in Nat \ {0}
         /\ DOMAIN Plans(app)[p] = 1..Len(Plans(app)[p])
         /\ \A k \in DOMAIN Plans(app)[p] :
              /\ Plans(app)[p][k].object \in Objects
              /\ Plans(app)[p][k].verb \in Removals => p = "delete"
              /\ p = "delete" => Plans(app)[p][k].verb \in Removals \cup {"get"}
<1>1. CASE p = "delete"
  <2>1. IsHandler(Plans(app)[p], TRUE)
    BY <1>1, PlansAreHandlers
  <2> QED
    BY <1>1, <2>1 DEF IsHandler
<1>2. CASE p # "delete"
  <2>1. IsHandler(Plans(app)[p], FALSE)
    BY <1>2, PlansAreHandlers
  <2> QED
    BY <1>2, <2>1 DEF IsHandler
<1> QED
  BY <1>1, <1>2

-----------------------------------------------------------------------------
(* Types, and the worker's place in its handlers. *)

\* The worker is at a call of a plan, and it removes things if and only if the
\* version it holds is under deletion.
WorkOK ==
  /\ pc # "idle" => Exists(obj)
  /\ pc = "call" => /\ plan \in Handlers /\ step \in DOMAIN Plans(app)[plan]
                    /\ plan = "delete" <=> obj.del
  /\ pc = "addFinalizer" => ~obj.del
  /\ pc = "removeFinalizer" => obj.del

TypeInv == TypeOK /\ WorkOK

Readings == {"absent", "stale", "current"}

LEMMA GetType == \A o : Get(o) \in Readings
  BY DEF Get, Readings

\* What a call leaves of the worker: it has let go, or goes on, by the same
\* version, in a plan of the same kind.
Goes ==
  /\ read' \in Readings /\ queued' \in BOOLEAN
  /\ \/ pc' = "idle" /\ plan' = "none" /\ obj' = NoObject
     \/ /\ pc' = "call" /\ obj' = obj /\ plan' \in Handlers
        /\ step' \in DOMAIN Plans(app)[plan'] /\ (plan' = "delete" <=> plan = "delete")

LEMMA CloseGoes ==
  ASSUME TypeInv, pc = "call", NEW outcome, NEW reading \in Readings,
         Close(outcome, reading)
  PROVE  Goes
<1>1. plan \in Handlers /\ queued \in BOOLEAN /\ app \in AllApps
  BY AppsAssumption DEF TypeInv, TypeOK, CRTypeOK, WorkOK
<1>2. \/ Then(plan, outcome) \in {"return", "retry"}
      \/ Then(plan, outcome) \in {"create", "update"} /\ plan # "delete"
  BY DEF Then, AfterGetOrCreate, AfterJicofo, AfterEtherpad, AfterWhiteboard, Otherwise
<1>3. CASE Then(plan, outcome) \in {"return", "retry"}
  <2>1. Return(TRUE) \/ Return(FALSE)
    BY <1>3 DEF Close
  <2> QED
    BY <1>1, <2>1 DEF Return, Release, Goes, Readings
<1>4. CASE Then(plan, outcome) \in {"create", "update"} /\ plan # "delete"
  <2>1. Begin(Then(plan, outcome)) /\ read' = reading /\ UNCHANGED <<obj, queued>>
    BY <1>4 DEF Close
  <2>2. plan' \in Handlers /\ plan' # "delete"
    BY <1>4, <2>1 DEF Begin, Handlers
  <2>3. 1 \in DOMAIN Plans(app)[plan']
    BY <1>1, <2>2, PlanFacts
  <2> QED
    BY <1>1, <1>4, <2>1, <2>2, <2>3 DEF Begin, Goes
<1> QED
  BY <1>2, <1>3, <1>4

LEMMA AdvanceGoes ==
  ASSUME TypeInv, pc = "call", NEW outcome, NEW reading \in Readings,
         Advance(outcome, reading)
  PROVE  Goes
<1>1. plan \in Handlers /\ step \in DOMAIN Plans(app)[plan] /\ queued \in BOOLEAN
      /\ app \in AllApps
  BY AppsAssumption DEF TypeInv, TypeOK, CRTypeOK, WorkOK
<1>2. CASE Close("ok", reading) \/ Close(outcome, reading)
  BY <1>2, CloseGoes
<1>3. CASE /\ step # Len(Plans(app)[plan])
           /\ step' = step + 1 /\ read' = reading /\ UNCHANGED <<pc, plan, obj, queued>>
  <2>1. step + 1 \in DOMAIN Plans(app)[plan]
    BY <1>1, <1>3, PlanFacts
  <2> QED
    BY <1>1, <1>3, <2>1 DEF Goes
<1> QED
  BY <1>2, <1>3 DEF Advance, Finished

LEMMA NoticeType ==
  ASSUME TypeOK, NEW o \in Objects, NEW b \in BOOLEAN, Notice(o, b)
  PROVE  shown' \in [Objects -> BOOLEAN] /\ lag' \in [Objects -> Seq(BOOLEAN)]
<1>1. shown \in [Objects -> BOOLEAN] /\ lag \in [Objects -> Seq(BOOLEAN)]
  BY DEF TypeOK
<1>2. Append(lag[o], b) \in Seq(BOOLEAN)
  BY <1>1
<1>3. lag' \in {lag, [lag EXCEPT ![o] = Append(lag[o], b)]}
      /\ shown' \in {shown, [shown EXCEPT ![o] = b]}
  BY DEF Notice
<1> QED
  BY <1>1, <1>2, <1>3

ChildTypeOK ==
  /\ child \in [Objects -> Nat]
  /\ shown \in [Objects -> BOOLEAN] /\ lag \in [Objects -> Seq(BOOLEAN)]

LEMMA PutType ==
  ASSUME TypeOK, NEW o \in Objects, NEW c \in Nat, Put(o, c)
  PROVE  ChildTypeOK'
<1>1. child' \in [Objects -> Nat]
  BY DEF TypeOK, Put
<1>2. CASE child[o] = c
  BY <1>1, <1>2 DEF TypeOK, Put, ChildTypeOK
<1>3. CASE child[o] # c
  <2>1. Notice(o, c # 0) /\ (c # 0) \in BOOLEAN
    BY <1>3 DEF Put
  <2> QED
    BY <1>1, <2>1, NoticeType DEF ChildTypeOK
<1> QED
  BY <1>2, <1>3

\* What a call writes: nothing, or the configuration of the version held; it
\* removes only in the plan of a deletion.
LEMMA CallWrites ==
  ASSUME TypeInv, pc = "call", NEW c, c = Plans(app)[plan][step]
  PROVE  /\ c.object \in Objects
         /\ \/ Written(c) = child[c.object]
            \/ Written(c) = 0 /\ obj.del
            \/ Written(c) = obj.conf /\ ~obj.del
<1>1. /\ plan \in Handlers /\ step \in DOMAIN Plans(app)[plan]
      /\ plan = "delete" <=> obj.del
      /\ app \in AllApps
  BY AppsAssumption DEF TypeInv, TypeOK, WorkOK
<1>2. /\ c.object \in Objects
      /\ c.verb \in Removals => plan = "delete"
      /\ plan = "delete" => c.verb \in Removals \cup {"get"}
  BY <1>1, PlanFacts
<1> QED
  BY <1>1, <1>2 DEF Written, Removals

FormOK == form \in [1..MaxEdits -> FormsOf(app)]
FaultTypeOK ==
  faults \in 0..MaxFaults /\ crashes \in 0..MaxCrashes /\ touches \in 0..MaxTouches

\* The parts of the invariant, for the steps that leave some of them alone.
LEMMA TypeParts ==
  /\ TypeInv => CRTypeOK /\ ChildTypeOK /\ FaultTypeOK /\ FormOK /\ app \in Apps
  /\ CRTypeOK /\ UNCHANGED crVars => CRTypeOK'
  /\ ChildTypeOK /\ UNCHANGED childVars => ChildTypeOK'
  /\ FaultTypeOK /\ UNCHANGED faultVars => FaultTypeOK'
  /\ TypeInv /\ CRTypeOK' /\ ChildTypeOK' /\ FaultTypeOK' /\ UNCHANGED <<app, form>>
       /\ UNCHANGED workerVars => TypeInv'
<1>1. TypeInv => CRTypeOK /\ ChildTypeOK /\ FaultTypeOK /\ FormOK /\ app \in Apps
  BY DEF TypeInv, TypeOK, ChildTypeOK, FaultTypeOK, FormOK
<1>2. CRTypeOK /\ UNCHANGED crVars => CRTypeOK'
  BY DEF CRTypeOK, crVars
<1>3. ChildTypeOK /\ UNCHANGED childVars => ChildTypeOK'
  BY DEF ChildTypeOK, childVars
<1>4. FaultTypeOK /\ UNCHANGED faultVars => FaultTypeOK'
  BY DEF FaultTypeOK, faultVars
<1>5. ASSUME TypeInv, CRTypeOK', ChildTypeOK', FaultTypeOK', UNCHANGED <<app, form>>,
             UNCHANGED workerVars
      PROVE  TypeInv'
  <2>1. TypeOK'
    BY <1>5 DEF TypeInv, TypeOK, workerVars, ChildTypeOK, FaultTypeOK, Plans, FormsOf
  <2>2. WorkOK'
    BY <1>5 DEF TypeInv, WorkOK, workerVars, Exists, Plans
  <2> QED
    BY <2>1, <2>2 DEF TypeInv
<1> QED
  BY <1>1, <1>2, <1>3, <1>4, <1>5

LEMMA FaultType ==
  ASSUME FaultTypeOK, Fault
  PROVE  faults' \in 0..MaxFaults
  BY AppBoundsAssumption DEF FaultTypeOK, Fault

LEMMA CallOK ==
  ASSUME TypeInv, CallServer \/ CallFails
  PROVE  TypeInv' /\ Goes /\ UNCHANGED <<cr, rv, crCache, watch, edits, app, form>>
<1> DEFINE c == Plans(app)[plan][step]
<1>1. /\ pc = "call" /\ UNCHANGED <<cr, rv, crCache, watch, edits, relists, app, form>>
      /\ UNCHANGED <<crashes, touches>>
      /\ Put(c.object, Written(c)) \/ UNCHANGED childVars
      /\ \E outcome : \E reading \in {read, Get(c.object)} : Advance(outcome, reading)
  <2>1. CASE CallServer
    BY <2>1 DEF CallServer, sameCR, faultVars
  <2>2. CASE CallFails
    BY <2>2 DEF CallFails, sameCR, sameFaults
  <2> QED
    BY <2>1, <2>2
<1>2. CRTypeOK /\ ChildTypeOK /\ FaultTypeOK /\ FormOK /\ app \in Apps /\ obj \in Version
      /\ read \in Readings
  BY TypeParts DEF TypeInv, TypeOK, Readings
<1>3. Goes
  <2>1. \E reading \in Readings : \E outcome : Advance(outcome, reading)
    BY <1>1, <1>2, GetType
  <2> QED
    BY <1>1, <2>1, AdvanceGoes
<1>4. ChildTypeOK'
  <2>1. c.object \in Objects /\ Written(c) \in Nat
    <3>1. obj.conf \in Nat /\ \A o \in Objects : child[o] \in Nat
      BY <1>2 DEF Version, ChildTypeOK
    <3> HIDE DEF c
    <3> QED
      BY <1>1, <3>1, CallWrites DEF c
  <2> HIDE DEF c
  <2> QED
    BY <1>1, <1>2, <2>1, PutType, TypeParts DEF TypeInv
<1>5. FaultTypeOK'
  <2>1. faults' \in 0..MaxFaults
    BY <1>2, FaultType DEF CallServer, CallFails, faultVars, FaultTypeOK
  <2> QED
    BY <1>1, <1>2, <2>1 DEF FaultTypeOK
<1>6. CRTypeOK'
  BY <1>1, <1>2, <1>3 DEF CRTypeOK, Goes
<1>7. WorkOK'
  BY <1>1, <1>3 DEF WorkOK, TypeInv, Goes, Exists, Plans
<1>8. TypeOK'
  <2>1. obj' \in Version
    BY <1>2, <1>3, NoObjectIsVersion DEF Goes
  <2>2. /\ pc' \in {"idle", "call"}
        /\ plan' \in {"none", "get", "create", "update", "delete"}
        /\ pc' = "call" => step' \in DOMAIN Plans(app')[plan']
        /\ read' \in {"absent", "stale", "current"}
    BY <1>1, <1>3 DEF Goes, Handlers, Readings
  <2> QED
    BY <1>1, <1>2, <1>4, <1>5, <1>6, <2>1, <2>2
       DEF TypeOK, ChildTypeOK, FaultTypeOK, FormOK, FormsOf
<1> QED
  BY <1>1, <1>3, <1>7, <1>8 DEF TypeInv

\* A call that is no use ends the pass and changes nothing else.
LEMMA StopOK ==
  ASSUME TypeInv, CallStops
  PROVE  /\ TypeInv' /\ pc = "call" /\ pc' = "idle" /\ obj' = NoObject /\ queued'
         /\ UNCHANGED <<cr, rv, crCache, watch, edits, relists, app, form, childVars, faultVars>>
<1>1. /\ UNCHANGED <<cr, rv, crCache, watch, edits, relists, app, form, childVars, faultVars>>
      /\ pc = "call" /\ pc' = "idle" /\ plan' = "none" /\ step' = 0
      /\ obj' = NoObject /\ read' = "absent" /\ queued' = TRUE
  BY DEF CallStops, sameCR, Return, Release
<1>2. CRTypeOK' /\ ChildTypeOK' /\ FaultTypeOK' /\ FormOK /\ app \in Apps
  BY <1>1, TypeParts DEF CRTypeOK
<1>3. TypeOK'
  BY <1>1, <1>2, NoObjectIsVersion DEF TypeOK, ChildTypeOK, FaultTypeOK, FormOK, FormsOf
<1>4. WorkOK'
  BY <1>1 DEF WorkOK
<1> QED
  BY <1>1, <1>3, <1>4 DEF TypeInv

LEMMA TakeOK ==
  ASSUME TypeInv, ReconcileNotFound \/ Reconcile
  PROVE  TypeInv'
<1>1. /\ CRTypeOK /\ ChildTypeOK /\ FaultTypeOK /\ FormOK /\ app \in Apps
      /\ UNCHANGED <<app, form>>
      /\ UNCHANGED <<cr, rv, crCache, watch, edits, relists>>
      /\ UNCHANGED childVars /\ UNCHANGED faultVars /\ queued' = FALSE
  BY TypeParts DEF ReconcileNotFound, Reconcile, Take
<1>2. CRTypeOK' /\ ChildTypeOK' /\ FaultTypeOK'
  BY <1>1, TypeParts DEF CRTypeOK
<1>3. CASE ReconcileNotFound
  BY <1>1, <1>2, <1>3, TypeParts DEF ReconcileNotFound
<1>4. CASE Reconcile
  <2>1. obj' = crCache /\ Exists(crCache) /\ read' = read /\ crCache \in Version
    BY <1>1, <1>4 DEF Reconcile, CRTypeOK
  <2>2. \/ pc' = "removeFinalizer" /\ obj'.del /\ plan' = plan
        \/ pc' = "addFinalizer" /\ ~obj'.del /\ plan' = plan
        \/ pc' = "call" /\ ~obj'.del /\ plan' = FirstPlan /\ step' = 1
    BY <1>4 DEF Reconcile, Begin
  <2>3. FirstPlan \in {"get", "create", "update"}
    BY DEF FirstPlan
  <2>4. FirstPlan \in Handlers /\ FirstPlan # "delete" /\ 1 \in DOMAIN Plans(app)[FirstPlan]
    <3>1. FirstPlan \in Handlers
      BY <2>3 DEF Handlers
    <3> QED
      BY <1>1, <2>3, <3>1, AppsAssumption, PlanFacts
  <2>5. WorkOK'
    <3>1. Exists(obj')
      BY <2>1
    <3>2. pc' = "call" => step' \in DOMAIN Plans(app')[plan'] /\ plan' \in Handlers
      BY <1>1, <2>2, <2>4
    <3> QED
      BY <2>2, <2>3, <3>1, <3>2 DEF WorkOK, Exists, Plans
  <2>6. TypeOK'
    <3>1. read' \in {"absent", "stale", "current"}
          /\ plan' \in {"none", "get", "create", "update", "delete"}
      BY <2>1, <2>2, <2>3 DEF TypeInv, TypeOK
    <3> QED
      BY <1>1, <1>2, <2>1, <2>2, <2>4, <3>1
         DEF TypeOK, ChildTypeOK, FaultTypeOK, FormOK, FormsOf
  <2> QED
    BY <2>5, <2>6 DEF TypeInv
<1> QED
  BY <1>3, <1>4

\* What the finalizer helpers send and leave in memory.
FinalizerFacts ==
  /\ obj' \in Version /\ obj'.del = obj.del /\ obj'.conf = obj.conf
  /\ Exists(obj) /\ Exists(obj')
  /\ \/ UNCHANGED <<cr, rv, watch>> /\ obj'.rv = obj.rv
     \/ Remove /\ obj'.rv = obj.rv /\ obj.del
     \/ /\ Current(obj) /\ ~obj.del /\ (obj' = cr' \/ obj'.rv = obj.rv)
        /\ \E v \in Version : /\ v.rv = rv + 1 /\ v.conf = obj.conf /\ v.del = obj.del
                              /\ cr' = v /\ rv' = rv + 1 /\ watch' = Append(watch, v)

LEMMA FinalizerWrites ==
  ASSUME TypeInv, AddFinalizerCall \/ RemoveFinalizerCall
  PROVE  FinalizerFacts
<1>1. obj \in Version /\ cr \in Version /\ rv \in Nat /\ Exists(obj) /\ CRTypeOK
  BY DEF TypeInv, TypeOK, CRTypeOK, WorkOK, AddFinalizerCall, RemoveFinalizerCall
<1>2. \A b \in BOOLEAN : /\ [obj EXCEPT !.fin = b] \in Version
                          /\ [obj EXCEPT !.fin = b].del = obj.del
                          /\ [obj EXCEPT !.fin = b].conf = obj.conf
                          /\ [obj EXCEPT !.fin = b].rv = obj.rv
  BY <1>1 DEF Version
<1>3. CASE RemoveFinalizerCall
  <2>1. /\ obj' = [obj EXCEPT !.fin = FALSE] /\ obj.del
        /\ UNCHANGED <<cr, rv, watch>> \/ Remove
    BY <1>3 DEF RemoveFinalizerCall, RemoveFinalizer, TypeInv, WorkOK
  <2> QED
    BY <1>1, <1>2, <2>1 DEF FinalizerFacts, Exists
<1>4. CASE AddFinalizerCall
  <2> DEFINE sent == [obj EXCEPT !.fin = TRUE]
             v == Stored(Defaulted(sent))
  <2>1. /\ v \in Version /\ v.rv = rv + 1 /\ v.conf = obj.conf /\ v.del = obj.del
    <3>1. sent \in Version /\ sent.del = obj.del /\ sent.conf = obj.conf
      BY <1>2
    <3> HIDE DEF sent
    <3>2. /\ Defaulted(sent) \in Version /\ Defaulted(sent).conf = sent.conf
          /\ Defaulted(sent).del = sent.del
      BY <3>1, DefaultedType DEF Defaulted, Version
    <3>3. rv + 1 \in Nat
      BY <1>1
    <3> QED
      BY <3>1, <3>2, <3>3 DEF Stored, Version
  <2>2. ~obj.del
    BY <1>4 DEF AddFinalizerCall, TypeInv, WorkOK
  <2>3. AddFinalizer(obj) =>
          Current(obj) /\ cr' = v /\ rv' = rv + 1 /\ watch' = Append(watch, v)
    BY DEF AddFinalizer, Store
  <2>4. \/ AddFinalizer(obj) /\ (obj' = cr' \/ obj' = sent)
        \/ UNCHANGED <<cr, rv, watch>> /\ obj' = sent
    BY <1>4 DEF AddFinalizerCall
  <2>5. Exists(sent) /\ Exists(v)
    BY <1>1, <1>2, <2>1 DEF Exists
  <2>6. sent \in Version /\ sent.del = obj.del /\ sent.conf = obj.conf /\ sent.rv = obj.rv
    BY <1>2
  <2> HIDE DEF sent, v
  <2> QED
    BY <1>1, <2>1, <2>2, <2>3, <2>4, <2>5, <2>6 DEF FinalizerFacts
<1> QED
  BY <1>3, <1>4

LEMMA FinalizerOK ==
  ASSUME TypeInv, AddFinalizerCall \/ RemoveFinalizerCall
  PROVE  TypeInv'
<1>1. /\ CRTypeOK /\ ChildTypeOK /\ FaultTypeOK /\ FormOK /\ app \in Apps
      /\ UNCHANGED <<app, form>>
      /\ UNCHANGED <<crCache, queued, edits, relists, read, crashes, touches>>
      /\ UNCHANGED childVars /\ pc' = "call" /\ step' = 1
  BY TypeParts DEF AddFinalizerCall, RemoveFinalizerCall, Begin, sameFaults
<1>2. obj \in Version /\ cr \in Version /\ rv \in Nat /\ watch \in Seq(Version)
      /\ FinalizerFacts
  BY <1>1, FinalizerWrites DEF CRTypeOK, TypeInv, TypeOK
<1>3. CRTypeOK'
  <2>1. cr' \in Version /\ rv' \in Nat /\ watch' \in Seq(Version)
    <3>1. ASSUME NEW v \in Version, cr' = v, rv' = rv + 1, watch' = Append(watch, v)
          PROVE  cr' \in Version /\ rv' \in Nat /\ watch' \in Seq(Version)
      BY <1>2, <3>1
    <3> QED
      BY <1>2, <3>1, NoObjectIsVersion DEF FinalizerFacts, Remove
  <2> QED
    BY <1>1, <2>1 DEF CRTypeOK
<1>4. ChildTypeOK' /\ FaultTypeOK'
  <2>1. faults' \in 0..MaxFaults
    <3>1. UNCHANGED faults \/ Fault
      BY DEF AddFinalizerCall, RemoveFinalizerCall
    <3> QED
      BY <1>1, <3>1, FaultType DEF FaultTypeOK
  <2> QED
    BY <1>1, <2>1, TypeParts DEF FaultTypeOK
<1>5. /\ plan' \in Handlers /\ (plan' = "delete" <=> obj'.del)
      /\ 1 \in DOMAIN Plans(app)[plan']
  <2>1. CASE AddFinalizerCall
    <3>1. plan' = FirstPlan /\ ~obj.del
      BY <2>1 DEF AddFinalizerCall, Begin, TypeInv, WorkOK
    <3>2. plan' \in Handlers /\ plan' # "delete"
      BY <3>1 DEF FirstPlan, Handlers
    <3> QED
      BY <1>1, <1>2, <3>1, <3>2, AppsAssumption, PlanFacts DEF FinalizerFacts
  <2>2. CASE RemoveFinalizerCall
    <3>1. plan' = "delete" /\ obj.del
      BY <2>2 DEF RemoveFinalizerCall, Begin, TypeInv, WorkOK
    <3>2. plan' \in Handlers
      BY <3>1 DEF Handlers
    <3> QED
      BY <1>1, <1>2, <3>1, <3>2, AppsAssumption, PlanFacts DEF FinalizerFacts
  <2> QED
    BY <2>1, <2>2
<1>6. step' \in DOMAIN Plans(app')[plan'] /\ Exists(obj')
  BY <1>1, <1>2, <1>5 DEF FinalizerFacts
<1>7. WorkOK'
  BY <1>1, <1>5, <1>6 DEF WorkOK, Exists, Plans
<1>8. TypeOK'
  <2>1. plan' \in {"none", "get", "create", "update", "delete"}
        /\ read' \in {"absent", "stale", "current"}
    BY <1>1, <1>5 DEF Handlers, TypeInv, TypeOK
  <2> QED
    BY <1>1, <1>2, <1>3, <1>4, <1>6, <2>1
       DEF TypeOK, ChildTypeOK, FaultTypeOK, FormOK, FormsOf, FinalizerFacts
<1> QED
  BY <1>7, <1>8 DEF TypeInv

LEMMA SurroundingsOK ==
  ASSUME TypeInv,
         \/ ReceiveVersion \/ ReceiveList \/ PeriodicResync \/ UserWrite
         \/ \E o \in Objects : ReceiveChild(o) \/ Touch(o)
         \/ Crash
  PROVE  TypeInv'
<1>1. CRTypeOK /\ ChildTypeOK /\ FaultTypeOK /\ FormOK /\ app \in Apps
  BY TypeParts
<1>2. CASE ReceiveVersion \/ ReceiveList \/ PeriodicResync \/ UserWrite
  <2>1. UNCHANGED <<app, form, workerVars, childVars, faultVars>>
    BY <1>2 DEF ReceiveVersion, ReceiveList, PeriodicResync, UserWrite
  <2>2. \A new : Wanted(new) \in BOOLEAN
    BY DEF Wanted
  <2>3. CRTypeOK'
    BY <1>1, <1>2, <2>2, InformerType, UserType
       DEF ReceiveVersion, ReceiveList, PeriodicResync, UserWrite
  <2> QED
    BY <1>1, <2>1, <2>3, TypeParts
<1>3. ASSUME NEW o \in Objects, ReceiveChild(o) PROVE TypeInv'
  <2>1. /\ UNCHANGED crVars /\ UNCHANGED workerVars /\ UNCHANGED faultVars
        /\ UNCHANGED <<app, form, child>>
        /\ lag[o] # <<>> /\ lag' = [lag EXCEPT ![o] = Tail(lag[o])]
        /\ shown' = [shown EXCEPT ![o] = Head(lag[o])]
    BY <1>3 DEF ReceiveChild
  <2>2. Head(lag[o]) \in BOOLEAN /\ Tail(lag[o]) \in Seq(BOOLEAN)
    BY <1>1, <2>1 DEF ChildTypeOK
  <2>3. ChildTypeOK'
    BY <1>1, <2>1, <2>2 DEF ChildTypeOK
  <2> QED
    BY <1>1, <2>1, <2>3, TypeParts
<1>4. ASSUME NEW o \in Objects, Touch(o) PROVE TypeInv'
  <2>1. /\ UNCHANGED crVars /\ UNCHANGED <<app, form, pc, plan, step, obj, child, faults, crashes>>
        /\ Notice(o, TRUE) /\ touches < MaxTouches /\ touches' = touches + 1
        /\ read' \in {read, "stale"}
    BY <1>4 DEF Touch
  <2>2. CRTypeOK' /\ ChildTypeOK' /\ FaultTypeOK'
    <3>1. touches' \in 0..MaxTouches
      BY <1>1, <2>1, AppBoundsAssumption DEF FaultTypeOK
    <3>2. ChildTypeOK'
      BY <1>1, <2>1, NoticeType DEF TypeInv, ChildTypeOK
    <3> QED
      BY <1>1, <2>1, <3>1, <3>2, TypeParts DEF FaultTypeOK
  <2>3. TypeOK'
    BY <2>1, <2>2 DEF TypeInv, TypeOK, ChildTypeOK, FaultTypeOK, Plans, FormsOf
  <2>4. WorkOK'
    BY <2>1 DEF TypeInv, WorkOK, Exists, Plans
  <2> QED
    BY <2>3, <2>4 DEF TypeInv
<1>5. CASE Crash
  <2>1. CRTypeOK'
    BY <1>1, <1>5, InformerType DEF Crash
  <2>2. crashes' \in 0..MaxCrashes
    BY <1>1, <1>5, AppBoundsAssumption DEF Crash, FaultTypeOK
  <2>3. ChildTypeOK'
    BY <1>1, <1>5 DEF Crash, ChildTypeOK
  <2> QED
    BY <1>1, <1>5, <2>1, <2>2, <2>3, NoObjectIsVersion
       DEF Crash, Release, TypeInv, TypeOK, WorkOK, ChildTypeOK, FaultTypeOK, FormsOf
<1> QED
  BY <1>2, <1>3, <1>4, <1>5

LEMMA InitTypeInv == Init => TypeInv
<1> SUFFICES ASSUME Init PROVE TypeInv
  OBVIOUS
<1>1. CRTypeOK
  <2>1. <<>> \in Seq(Version) /\ 0 \in 0..MaxEdits /\ 0 \in 0..MaxRelists
    BY EditBoundsAssumption
  <2> QED
    BY <2>1, NoObjectIsVersion DEF Init, CRInit, CRTypeOK
<1>2. /\ 0 \in 0..MaxFaults /\ 0 \in 0..MaxCrashes /\ 0 \in 0..MaxTouches
      /\ <<>> \in Seq(BOOLEAN)
  BY AppBoundsAssumption
<1>3. form \in [1..MaxEdits -> FormsOf(app)]
  BY DEF Init
<1> QED
  BY <1>1, <1>2, <1>3, NoObjectIsVersion DEF Init, TypeInv, TypeOK, WorkOK

LEMMA StepTypeInv == TypeInv /\ [Next]_vars => TypeInv'
<1> SUFFICES ASSUME TypeInv, [Next]_vars PROVE TypeInv'
  OBVIOUS
<1>1. CASE UNCHANGED vars
  BY <1>1, TypeParts DEF vars
<1> QED
  BY <1>1, TakeOK, FinalizerOK, CallOK, StopOK, SurroundingsOK DEF Next, Worker

\* Every variable stays of its type, and the worker at a call of its handler.
THEOREM AppTypeCorrect == Spec => []TypeOK
<1>1. TypeInv => TypeOK
  BY DEF TypeInv
<1> QED
  BY <1>1, InitTypeInv, StepTypeInv, PTL DEF Spec

-----------------------------------------------------------------------------
(* The order of the versions in circulation and of the child objects. *)

Made == {child[o] : o \in Objects}
Ordered == Circulation(obj, crCache, watch, cr, rv, edits, Made)
OrderInv == TypeInv /\ Ordered

LEMMA OrderFacts ==
  ASSUME OrderInv
  PROVE  /\ Ordered /\ TypeInv
         /\ cr \in Version /\ obj \in Version /\ crCache \in Version
         /\ rv \in Nat /\ edits \in Nat
         /\ cr.conf \in Nat /\ obj.conf \in Nat /\ cr.conf <= edits
         /\ Exists(cr) /\ obj.rv = cr.rv => obj.conf = cr.conf
BY DEF OrderInv, Ordered, Circulation, TypeInv, TypeOK, CRTypeOK, Version

LEMMA CallOrder ==
  ASSUME OrderInv, CallServer \/ CallFails
  PROVE  Ordered'
<1> DEFINE c == Plans(app)[plan][step]
<1>1. /\ pc = "call" /\ Exists(obj) /\ UNCHANGED <<cr, rv, crCache, watch, edits>>
      /\ obj' = obj \/ obj' = NoObject
      /\ Put(c.object, Written(c)) \/ UNCHANGED childVars
  BY CallOK DEF OrderInv, CallServer, CallFails, Goes, TypeInv, WorkOK
<1>2. Made' \subseteq Made \cup {0, obj.conf}
  <2>1. c.object \in Objects /\ Written(c) \in {child[c.object], 0, obj.conf}
    <3> HIDE DEF c
    <3> QED
      BY <1>1, CallWrites DEF c, OrderInv
  <2>2. child \in [Objects -> Nat]
    BY DEF OrderInv, TypeInv, TypeOK
  <2>3. child' \in {child, [child EXCEPT ![c.object] = Written(c)]}
    BY <1>1 DEF Put, childVars
  <2> HIDE DEF c
  <2> QED
    BY <2>1, <2>2, <2>3 DEF Made
<1>3. Circulation(obj, crCache, watch, cr, rv, edits, Made')
  BY <1>1, <1>2, OrderFacts, MakeCirculates DEF Ordered
<1>4. Circulation(obj', crCache, watch, cr, rv, edits, Made')
  BY <1>1, <1>3, HoldCirculates, NoObjectIsVersion
<1> QED
  BY <1>1, <1>4 DEF Ordered

LEMMA FinalizerOrder ==
  ASSUME OrderInv, AddFinalizerCall \/ RemoveFinalizerCall
  PROVE  Ordered'
<1>1. FinalizerFacts /\ UNCHANGED <<crCache, edits, child>>
  BY FinalizerWrites DEF OrderInv, AddFinalizerCall, RemoveFinalizerCall, childVars
<1>2. Made' = Made
  BY <1>1 DEF Made
<1>3. /\ obj' \in Version /\ obj'.conf = obj.conf /\ Exists(obj)
      /\ rv \in Nat /\ edits \in Nat /\ cr.conf \in Nat /\ cr.conf <= edits
      /\ Circulation(obj, crCache, watch, cr, rv, edits, Made)
      /\ Current(obj) => Exists(cr) /\ obj.conf = cr.conf
  BY <1>1, OrderFacts DEF FinalizerFacts, Ordered, Current
<1>4. CASE UNCHANGED <<cr, rv, watch>> /\ obj'.rv = obj.rv
  <2>1. Circulation(obj', crCache, watch, cr, rv, edits, Made)
    BY <1>3, <1>4, HoldCirculates
  <2> QED
    BY <1>1, <1>2, <1>4, <2>1 DEF Ordered
<1>5. CASE Remove /\ obj'.rv = obj.rv
  <2>1. NoObject \in Version /\ NoObject.conf = 0 /\ 0 <= edits
    BY <1>3, NoObjectIsVersion DEF NoObject
  <2>2. Circulation(obj, crCache, Append(watch, NoObject), NoObject, rv + 1, edits, Made)
    BY <1>3, <2>1, WriteCirculates
  <2>3. Circulation(obj', crCache, Append(watch, NoObject), NoObject, rv + 1, edits, Made)
    BY <1>3, <1>5, <2>2, HoldCirculates
  <2> QED
    BY <1>1, <1>2, <1>5, <2>3 DEF Ordered, Remove
<1>6. ASSUME Current(obj), obj' = cr' \/ obj'.rv = obj.rv, NEW v \in Version,
             v.rv = rv + 1, v.conf = obj.conf, cr' = v, rv' = rv + 1,
             watch' = Append(watch, v)
      PROVE  Ordered'
  <2>1. Circulation(obj, crCache, Append(watch, v), v, rv + 1, edits, Made)
    BY <1>3, <1>6, WriteCirculates
  <2>2. Exists(v)
    BY <1>3, <1>6 DEF Exists
  <2>3. Circulation(obj', crCache, Append(watch, v), v, rv + 1, edits, Made)
    BY <1>3, <1>6, <2>1, <2>2, HoldCirculates
  <2> QED
    BY <1>1, <1>2, <1>6, <2>3 DEF Ordered
<1> QED
  BY <1>1, <1>4, <1>5, <1>6 DEF FinalizerFacts

\* A user's write keeps the configuration or brings a new one.
LEMMA UserFacts ==
  ASSUME OrderInv, User
  PROVE  /\ edits' = edits + 1 /\ UNCHANGED <<crCache, queued, relists>>
         /\ \/ Remove
            \/ \E v \in Version : /\ v.rv = rv + 1 /\ v.conf <= edits'
                                  /\ (Exists(cr) /\ cr.conf <= v.conf) \/ edits <= v.conf
                                  /\ cr' = v /\ rv' = rv + 1 /\ watch' = Append(watch, v)
<1>1. /\ edits' = edits + 1 /\ UNCHANGED <<crCache, queued, relists>>
  BY DEF User, UserCreate, UserScale, UserReconfigure, UserDelete, UserStep
<1>2. /\ cr \in Version /\ rv \in Nat /\ edits \in Nat /\ cr.conf \in Nat
      /\ cr.conf <= edits /\ CRTypeOK /\ edits + 1 \in Nat
  BY OrderFacts DEF TypeInv, TypeOK
<1>3. ASSUME NEW w \in Version, Store(w), w.conf = edits + 1 \/ (Exists(cr) /\ w.conf = cr.conf)
      PROVE  \E v \in Version : /\ v.rv = rv + 1 /\ v.conf <= edits'
                                /\ (Exists(cr) /\ cr.conf <= v.conf) \/ edits <= v.conf
                                /\ cr' = v /\ rv' = rv + 1 /\ watch' = Append(watch, v)
  <2>1. Stored(w) \in Version
    BY <1>2, <1>3, StoreType DEF CRWritten, Store
  <2>2. Stored(w).conf = w.conf /\ Stored(w).rv = rv + 1
    BY StoredFields
  <2>3. w.conf <= edits' /\ ((Exists(cr) /\ cr.conf <= w.conf) \/ edits <= w.conf)
    BY <1>1, <1>2, <1>3
  <2> QED
    BY <1>3, <2>1, <2>2, <2>3 DEF Store
<1>4. ASSUME NEW n \in ReplicaCounts, UserCreate(n) \/ UserScale(n)
      PROVE  \E w \in Version : Store(w) /\ (w.conf = edits + 1 \/ (Exists(cr) /\ w.conf = cr.conf))
  <2>1. n \in 0..MaxReplicas
    BY ReplicasAssumption
  <2>2. CASE UserCreate(n)
    <3>1. /\ [NoObject EXCEPT !.replicas = n, !.conf = edits + 1] \in Version
          /\ [NoObject EXCEPT !.replicas = n, !.conf = edits + 1].conf = edits + 1
      BY <1>2, <2>1, NoObjectIsVersion DEF Version
    <3> QED
      BY <2>2, <3>1 DEF UserCreate
  <2>3. CASE UserScale(n)
    <3>1. [cr EXCEPT !.replicas = n] \in Version /\ [cr EXCEPT !.replicas = n].conf = cr.conf
      BY <1>2, <2>1 DEF Version
    <3> QED
      BY <2>3, <3>1 DEF UserScale
  <2> QED
    BY <1>4, <2>2, <2>3
<1>5. ASSUME UserReconfigure
      PROVE  \E w \in Version : Store(w) /\ w.conf = edits + 1
  <2>1. /\ [cr EXCEPT !.conf = edits + 1] \in Version
        /\ [cr EXCEPT !.conf = edits + 1].conf = edits + 1
    BY <1>2 DEF Version
  <2> QED
    BY <1>5, <2>1 DEF UserReconfigure
<1>6. ASSUME UserDelete
      PROVE  Remove \/ \E w \in Version : Store(w) /\ Exists(cr) /\ w.conf = cr.conf
  <2>1. [cr EXCEPT !.del = TRUE] \in Version /\ [cr EXCEPT !.del = TRUE].conf = cr.conf
    BY <1>2 DEF Version
  <2> QED
    BY <1>6, <2>1 DEF UserDelete
<1> QED
  BY <1>1, <1>3, <1>4, <1>5, <1>6 DEF User

LEMMA UserOrder ==
  ASSUME OrderInv, UserWrite
  PROVE  Ordered'
<1>1. User /\ UNCHANGED <<obj, child>>
  BY DEF UserWrite, workerVars, childVars
<1>2. Made' = Made
  BY <1>1 DEF Made
<1>3. /\ edits' = edits + 1 /\ edits \in Nat /\ rv \in Nat /\ crCache' = crCache
      /\ Circulation(obj, crCache, watch, cr, rv, edits, Made)
  BY <1>1, OrderFacts, UserFacts DEF Ordered
<1>4. edits' \in Nat /\ edits <= edits' /\ 0 <= edits'
  BY <1>3
<1>5. CASE Remove
  <2>1. NoObject \in Version /\ NoObject.conf = 0
    BY NoObjectIsVersion DEF NoObject
  <2>2. Circulation(obj, crCache, Append(watch, NoObject), NoObject, rv + 1, edits', Made)
    BY <1>3, <1>4, <2>1, WriteCirculates
  <2> QED
    BY <1>1, <1>2, <1>3, <1>5, <2>2 DEF Ordered, Remove
<1>6. ASSUME NEW v \in Version, v.rv = rv + 1, v.conf <= edits',
             (Exists(cr) /\ cr.conf <= v.conf) \/ edits <= v.conf,
             cr' = v, rv' = rv + 1, watch' = Append(watch, v)
      PROVE  Ordered'
  <2>1. Circulation(obj, crCache, Append(watch, v), v, rv + 1, edits', Made)
    BY <1>3, <1>4, <1>6, WriteCirculates
  <2> QED
    BY <1>1, <1>2, <1>3, <1>6, <2>1 DEF Ordered
<1> QED
  BY <1>1, <1>5, <1>6, UserFacts

LEMMA StepOrder == OrderInv /\ [Next]_vars => OrderInv'
<1> SUFFICES ASSUME OrderInv, [Next]_vars PROVE Ordered'
  BY StepTypeInv DEF OrderInv
<1>1. Circulation(obj, crCache, watch, cr, rv, edits, Made) /\ NoObject \in Version
      /\ crCache \in Version
  BY OrderFacts, NoObjectIsVersion DEF Ordered
<1>2. CASE ReconcileNotFound \/ Reconcile
  <2>1. /\ UNCHANGED <<crCache, watch, cr, rv, edits, child>>
        /\ obj' = obj \/ obj' = crCache
    BY <1>2 DEF ReconcileNotFound, Reconcile, Take, workerVars, childVars
  <2>2. Made' = Made
    BY <2>1 DEF Made
  <2> QED
    BY <1>1, <2>1, <2>2, HoldCirculates DEF Ordered
<1>3. CASE ReceiveVersion \/ ReceiveList \/ PeriodicResync
  <2>1. /\ UNCHANGED <<obj, cr, rv, edits, child>>
        /\ \/ UNCHANGED <<crCache, watch>>
           \/ watch # <<>> /\ crCache' = Head(watch) /\ watch' = Tail(watch)
           \/ crCache' = cr /\ watch' = <<>>
    BY <1>3 DEF ReceiveVersion, ReceiveList, PeriodicResync, Deliver, Relist, Resync,
       workerVars, childVars
  <2>2. Made' = Made
    BY <2>1 DEF Made
  <2>3. /\ watch # <<>> => Circulation(obj, Head(watch), Tail(watch), cr, rv, edits, Made)
        /\ Circulation(obj, cr, <<>>, cr, rv, edits, Made)
    BY <1>1, DeliveryCirculates
  <2> QED
    BY <1>1, <2>1, <2>2, <2>3 DEF Ordered
<1>4. CASE Crash
  <2>1. /\ UNCHANGED <<cr, rv, edits, child>> /\ obj' = NoObject
        /\ crCache' = cr /\ watch' = <<>>
    BY <1>4 DEF Crash, RestartInformer, Release
  <2>2. Made' = Made
    BY <2>1 DEF Made
  <2>3. Circulation(obj, cr, <<>>, cr, rv, edits, Made)
    BY <1>1, DeliveryCirculates
  <2>4. Circulation(NoObject, cr, <<>>, cr, rv, edits, Made)
    BY <1>1, <2>3, HoldCirculates
  <2> QED
    BY <2>1, <2>2, <2>4 DEF Ordered
<1>6. CASE CallStops
  <2>1. UNCHANGED <<crCache, watch, cr, rv, edits, child>> /\ obj' = NoObject
    BY <1>6, StopOK DEF OrderInv, childVars
  <2>2. Made' = Made
    BY <2>1 DEF Made
  <2> QED
    BY <1>1, <2>1, <2>2, HoldCirculates DEF Ordered
<1>5. CASE UNCHANGED vars \/ \E o \in Objects : ReceiveChild(o) \/ Touch(o)
  <2>1. UNCHANGED <<obj, crCache, watch, cr, rv, edits, child>>
    BY <1>5 DEF vars, ReceiveChild, Touch, crVars, workerVars, childVars
  <2> QED
    BY <1>1, <2>1 DEF Ordered, Made
<1> QED
  BY <1>2, <1>3, <1>4, <1>5, <1>6, CallOrder, FinalizerOrder, UserOrder DEF Next, Worker

LEMMA InitOrder == Init => OrderInv
<1> SUFFICES ASSUME Init PROVE Ordered
  BY InitTypeInv DEF OrderInv
<1>1. /\ obj = NoObject /\ crCache = NoObject /\ cr = NoObject /\ watch = <<>>
      /\ rv = 0 /\ edits = 0 /\ child = [o \in Objects |-> 0]
  BY DEF Init, CRInit
<1>2. Made \subseteq {0}
  BY <1>1 DEF Made
<1>3. NoObject.rv = 0 /\ NoObject.conf = 0 /\ ~Exists(NoObject)
  BY DEF NoObject, Exists
<1>4. <<>> \in Seq(Version) /\ DOMAIN <<>> = {}
  OBVIOUS
<1> QED
  BY <1>1, <1>2, <1>3, <1>4, NoObjectIsVersion DEF Ordered, Circulation, Older

-----------------------------------------------------------------------------
(* Refinement of Follower. *)

Refined == [Pool!Next]_Pool!state

LEMMA PrimedViews ==
  /\ WishOf' = [conf |-> IF Exists(cr') THEN cr'.conf ELSE edits',
                things |-> ThingsOf(cr')]
  /\ pc' = "idle" => ViewOf' = Pool!Idle
  /\ pc' # "idle" => ViewOf' = [acting |-> TRUE, conf |-> obj'.conf, things |-> ThingsOf(obj')]
  BY DEF WishOf, ViewOf, ThingsOf, Exists, Pool!Idle

LEMMA SameWish ==
  ASSUME UNCHANGED <<cr, edits>>
  PROVE  WishOf' = WishOf
  BY PrimedViews DEF WishOf

LEMMA SameView ==
  ASSUME pc # "idle", pc' # "idle", obj'.conf = obj.conf, obj'.del = obj.del,
         Exists(obj') <=> Exists(obj)
  PROVE  ViewOf' = ViewOf
  BY PrimedViews DEF ViewOf, ThingsOf

LEMMA QuietStep ==
  ASSUME WishOf' = WishOf, child' = child, ViewOf' \in {ViewOf, Pool!Idle}
  PROVE  Refined
  BY DEF Refined, Pool!Next, Pool!End, Pool!state

LEMMA WishStep ==
  ASSUME OrderInv, OrderInv', WishOf.conf <= WishOf'.conf, ViewOf' = ViewOf, child' = child
  PROVE  Refined
<1>1. cr'.conf \in Nat /\ edits' \in Nat /\ ThingsOf(cr') \in SUBSET Objects
  BY EditBoundsAssumption DEF OrderInv, TypeInv, TypeOK, CRTypeOK, Version, ThingsOf
<1>2. WishOf' \in Pool!Wishes /\ WishOf'.conf \in Nat
  BY <1>1, PrimedViews DEF Pool!Wishes
<1>3. WishOf.conf \in Nat
  BY OrderFacts DEF WishOf
<1>4. WishOf'.conf >= WishOf.conf
  BY <1>2, <1>3
<1> QED
  BY <1>2, <1>4 DEF Refined, Pool!Next, Pool!Wish

\* A round begins with the cached version.
LEMMA TakeSteps ==
  ASSUME OrderInv, ReconcileNotFound \/ Reconcile
  PROVE  Refined
<1>1. pc = "idle" /\ UNCHANGED <<cr, edits, child>>
  BY DEF ReconcileNotFound, Reconcile, Take, childVars
<1>2. WishOf' = WishOf /\ ViewOf = Pool!Idle
  BY <1>1, SameWish DEF ViewOf, Pool!Idle
<1>3. CASE ReconcileNotFound
  <2>1. pc' = "idle"
    BY <1>1, <1>3 DEF ReconcileNotFound, workerVars
  <2> QED
    BY <1>1, <1>2, <2>1, PrimedViews, QuietStep
<1>4. CASE Reconcile
  <2>1. pc' # "idle" /\ obj' = crCache /\ Exists(crCache) /\ crCache \in Version
    BY <1>4, OrderFacts DEF Reconcile, Begin
  <2>2. /\ crCache.conf <= edits /\ Older(crCache, cr)
        /\ \A o \in Objects : child[o] <= crCache.conf
    BY <2>1 DEF OrderInv, Ordered, Circulation, Made
  <2>3. crCache.conf <= WishOf.conf
    BY <2>1, <2>2 DEF WishOf, Older
  <2>4. crCache.conf \in Nat /\ ThingsOf(crCache) \in SUBSET Objects
    BY <2>1 DEF Version, ThingsOf
  <2>5. ViewOf' = [acting |-> TRUE, conf |-> crCache.conf, things |-> ThingsOf(crCache)]
    BY <2>1, PrimedViews
  <2>6. ViewOf' \in Pool!Views /\ ViewOf'.acting /\ ViewOf'.conf = crCache.conf
    BY <2>4, <2>5 DEF Pool!Views
  <2>7. Pool!Begin
    BY <1>1, <1>2, <2>2, <2>3, <2>6 DEF Pool!Begin
  <2> QED
    BY <2>7 DEF Refined, Pool!Next
<1> QED
  BY <1>3, <1>4

\* A call makes the object it addresses from the version held, or removes it.
LEMMA CallSteps ==
  ASSUME OrderInv, CallServer \/ CallFails
  PROVE  Refined
<1> DEFINE c == Plans(app)[plan][step]
           o == c.object
<1>1. /\ pc = "call" /\ Exists(obj) /\ Goes /\ UNCHANGED <<cr, edits>>
      /\ Put(o, Written(c)) \/ UNCHANGED childVars
  BY CallOK DEF OrderInv, CallServer, CallFails, TypeInv, WorkOK
<1>2. WishOf' = WishOf /\ ViewOf' \in {ViewOf, Pool!Idle}
  <2>1. pc' = "idle" \/ (pc' # "idle" /\ obj' = obj)
    BY <1>1 DEF Goes
  <2> QED
    BY <1>1, <2>1, SameWish, SameView, PrimedViews
<1>3. /\ o \in Objects
      /\ \/ Written(c) = child[o]
         \/ Written(c) = 0 /\ obj.del
         \/ Written(c) = obj.conf /\ ~obj.del
  BY <1>1, CallWrites DEF OrderInv
<1>4. child' \in {child, [child EXCEPT ![o] = Written(c)]} /\ child \in [Objects -> Nat]
  BY <1>1 DEF Put, childVars, OrderInv, TypeInv, TypeOK
<1>5. /\ ViewOf.acting /\ ViewOf.conf = obj.conf
      /\ ViewOf.things = IF obj.del THEN {} ELSE Objects
  BY <1>1 DEF ViewOf, ThingsOf
<1> HIDE DEF c, o
<1>6. CASE child' = child
  BY <1>2, <1>6, QuietStep
<1>7. CASE child' = [child EXCEPT ![o] = Written(c)] /\ Written(c) = child[o]
  <2>1. child' = child
    BY <1>3, <1>4, <1>7
  <2> QED
    BY <1>2, <2>1, QuietStep
<1>8. CASE child' = [child EXCEPT ![o] = Written(c)] /\ Written(c) # child[o]
  <2>1. \/ o \in ViewOf.things /\ child' = [child EXCEPT ![o] = ViewOf.conf]
        \/ o \notin ViewOf.things /\ child' = [child EXCEPT ![o] = 0]
    BY <1>3, <1>5, <1>8
  <2>2. Pool!Act
    BY <1>2, <1>3, <1>5, <2>1 DEF Pool!Act
  <2> QED
    BY <2>2 DEF Refined, Pool!Next
<1> QED
  BY <1>4, <1>6, <1>7, <1>8

\* The finalizer helpers store a copy that carries the present configuration.
LEMMA FinalizerSteps ==
  ASSUME OrderInv, OrderInv', AddFinalizerCall \/ RemoveFinalizerCall
  PROVE  Refined
<1>1. /\ FinalizerFacts /\ pc # "idle" /\ pc' # "idle" /\ UNCHANGED <<edits, child>>
  BY FinalizerWrites
     DEF OrderInv, AddFinalizerCall, RemoveFinalizerCall, Begin, childVars
<1>2. ViewOf' = ViewOf
  BY <1>1, SameView DEF FinalizerFacts
<1>3. cr.conf <= edits /\ edits \in Nat /\ cr.conf \in Nat /\ rv \in Nat
      /\ (Current(obj) => Exists(cr) /\ obj.conf = cr.conf)
  BY OrderFacts DEF Current
<1>4. CASE UNCHANGED <<cr, rv, watch>>
  BY <1>1, <1>2, <1>4, SameWish, QuietStep
<1>5. CASE Remove
  <2>1. WishOf'.conf = edits
    BY <1>1, <1>5, PrimedViews, NoObjectIsVersion DEF Remove, NoObject, Exists
  <2>2. WishOf.conf <= edits
    BY <1>3 DEF WishOf
  <2> QED
    BY <1>1, <1>2, <2>1, <2>2, WishStep
<1>6. ASSUME Current(obj), NEW v \in Version, v.rv = rv + 1, v.conf = obj.conf, cr' = v
      PROVE  Refined
  <2>1. Exists(cr') /\ cr'.conf = cr.conf /\ Exists(cr)
    BY <1>3, <1>6 DEF Exists
  <2>2. WishOf'.conf = cr.conf /\ WishOf.conf = cr.conf
    BY <2>1, PrimedViews DEF WishOf
  <2> QED
    BY <1>1, <1>2, <1>3, <2>2, WishStep
<1> QED
  BY <1>1, <1>4, <1>5, <1>6 DEF FinalizerFacts

LEMMA UserSteps ==
  ASSUME OrderInv, OrderInv', UserWrite
  PROVE  Refined
<1>1. User /\ UNCHANGED <<pc, obj, child>>
  BY DEF UserWrite, workerVars, childVars
<1>2. ViewOf' = ViewOf
  BY <1>1, PrimedViews DEF ViewOf, Pool!Idle
<1>3. cr.conf <= edits /\ edits \in Nat /\ cr.conf \in Nat /\ edits' = edits + 1
      /\ rv \in Nat
  BY <1>1, OrderFacts, UserFacts
<1>4. WishOf.conf <= WishOf'.conf
  <2>1. CASE Remove
    <3>1. WishOf'.conf = edits'
      BY <2>1, PrimedViews DEF Remove, NoObject, Exists
    <3> QED
      BY <1>3, <3>1 DEF WishOf
  <2>2. ASSUME NEW v \in Version, v.rv = rv + 1, cr' = v, v.conf <= edits',
               (Exists(cr) /\ cr.conf <= v.conf) \/ edits <= v.conf
        PROVE  WishOf.conf <= WishOf'.conf
    <3>1. WishOf'.conf = v.conf /\ v.conf \in Nat
      BY <1>3, <2>2, PrimedViews DEF Exists, Version
    <3> QED
      BY <1>3, <2>2, <3>1 DEF WishOf
  <2> QED
    BY <1>1, <2>1, <2>2, UserFacts
<1> QED
  BY <1>1, <1>2, <1>4, WishStep

LEMMA StepRefined ==
  ASSUME OrderInv, OrderInv', [Next]_vars
  PROVE  Refined
<1>1. CASE \/ ReceiveVersion \/ ReceiveList \/ PeriodicResync \/ Crash \/ UNCHANGED vars
           \/ CallStops
           \/ \E o \in Objects : ReceiveChild(o) \/ Touch(o)
  <2>1. /\ UNCHANGED <<cr, edits, child>>
        /\ UNCHANGED <<pc, obj>> \/ pc' = "idle"
    BY <1>1 DEF ReceiveVersion, ReceiveList, PeriodicResync, Deliver, Relist, Resync,
       Crash, RestartInformer, Release, ReceiveChild, Touch, vars, crVars, workerVars,
       childVars, CallStops, sameCR, Return
  <2>2. ViewOf' \in {ViewOf, Pool!Idle}
    BY <2>1, PrimedViews DEF ViewOf
  <2> QED
    BY <2>1, <2>2, SameWish, QuietStep
<1> QED
  BY <1>1, TakeSteps, CallSteps, FinalizerSteps, UserSteps DEF Next, Worker

LEMMA InitRefined == Init => Pool!Init
<1> SUFFICES ASSUME Init PROVE Pool!Init
  OBVIOUS
<1>1. ~Exists(cr) /\ edits = 0 /\ pc = "idle" /\ child = [o \in Objects |-> 0]
  BY DEF Init, CRInit, Exists, NoObject
<1> QED
  BY <1>1 DEF Pool!Init, Pool!Idle, WishOf, ViewOf, ThingsOf

\* Each of the seven controllers implements the follower, by the same argument:
\* its handlers act on the one version the worker holds, and only the handler
\* of a deletion removes anything.
THEOREM AppsFollow == Spec => FollowsOneVersion
<1>1. OrderInv /\ OrderInv' /\ [Next]_vars => [Pool!Next]_Pool!state
  BY StepRefined DEF Refined
<1> QED
  BY <1>1, StepOrder, InitOrder, InitRefined, PTL DEF Spec, FollowsOneVersion, Pool!Spec

\* No child object is made again from an older configuration, neither by the
\* PUTs under the optimistic lock nor by those without a resourceVersion
\* (Jicofo, Etherpad, Whiteboard: Update).
THEOREM AppsGoForward == Spec => Pool!NeverGoesBack
  BY AppsFollow, Pool!FollowersGoForward DEF FollowsOneVersion

-----------------------------------------------------------------------------
(* Toward rest: the shapes of the plans. *)

\* What the proof needs of the plans: Create makes each object of the
\* application once and the workload strictly and last; Update passes over the
\* errors of nothing but the PUTs that create what is absent; Delete removes each
\* object once and reads the workload first if it does.
IsCreation(s) ==
  /\ \A k \in DOMAIN s : s[k].verb = "create" /\ (s[k].object = "workload" <=> k = Len(s))
  /\ \A k, l \in DOMAIN s : s[k].object = s[l].object => k = l
  /\ s[Len(s)].passed = {}
IsUpdate(s, made) ==
  /\ \A k \in DOMAIN s : /\ s[k].verb \in {"update", "updateRead", "put", "apply"}
                         /\ s[k].passed = {} \/ s[k].verb = "apply"
                         /\ s[k].object \in made
  /\ \A o \in made : \E k \in DOMAIN s : s[k].object = o
IsDeletion(s, made) ==
  /\ \A k \in DOMAIN s : \/ s[k].verb \in Removals /\ s[k].object \in made
                         \/ k = 1 /\ s[k].verb = "get" /\ s[k].object = "workload"
  /\ \A k, l \in DOMAIN s :
       {s[k].verb, s[l].verb} \subseteq Removals /\ s[k].object = s[l].object => k = l
  /\ \A o \in made : \E k \in DOMAIN s : s[k].verb \in Removals /\ s[k].object = o

LEMMA CreationShapes ==
  /\ IsCreation(WebCreate) /\ IsCreation(ProsodyCreate) /\ IsCreation(JigasiCreate)
  /\ IsCreation(JibriCreate) /\ IsCreation(JicofoCreate) /\ IsCreation(EtherpadCreate)
  /\ IsCreation(WhiteboardCreate)
<1>1. IsCreation(WebCreate)
  BY DEF IsCreation, WebCreate, CreateService, Call
<1>2. IsCreation(ProsodyCreate)
  BY DEF IsCreation, ProsodyCreate, CreateService, Call
<1>3. IsCreation(JigasiCreate) /\ IsCreation(JibriCreate)
  BY DEF IsCreation, JigasiCreate, JibriCreate, Call
<1>4. IsCreation(JicofoCreate)
  BY DEF IsCreation, JicofoCreate, Call
<1>5. IsCreation(EtherpadCreate) /\ IsCreation(WhiteboardCreate)
  BY DEF IsCreation, EtherpadCreate, WhiteboardCreate, Call
<1> QED
  BY <1>1, <1>2, <1>3, <1>4, <1>5

MadeBy(s) == {s[k].object : k \in DOMAIN s}

LEMMA UpdateShapes ==
  /\ IsUpdate(WebUpdate, MadeBy(WebCreate)) /\ IsUpdate(ProsodyUpdate, MadeBy(ProsodyCreate))
  /\ IsUpdate(JigasiUpdate, MadeBy(JigasiCreate))
  /\ IsUpdate(JibriUpdate, MadeBy(JibriCreate))
  /\ IsUpdate(JicofoUpdate, MadeBy(JicofoCreate))
  /\ IsUpdate(EtherpadUpdate, MadeBy(EtherpadCreate))
  /\ IsUpdate(WhiteboardUpdate, {"workload"})
<1>1. IsUpdate(WebUpdate, MadeBy(WebCreate))
  BY DEF IsUpdate, MadeBy, WebUpdate, WebCreate, UpdateService, CreateService, Call
<1>2. IsUpdate(ProsodyUpdate, MadeBy(ProsodyCreate))
  BY DEF IsUpdate, MadeBy, ProsodyUpdate, ProsodyCreate, UpdateService, CreateService, Call
<1>3. /\ IsUpdate(JigasiUpdate, MadeBy(JigasiCreate))
      /\ IsUpdate(JibriUpdate, MadeBy(JibriCreate))
  BY DEF IsUpdate, MadeBy, JigasiUpdate, JigasiCreate, JibriUpdate, JibriCreate, Call
<1>4. IsUpdate(JicofoUpdate, MadeBy(JicofoCreate))
  BY DEF IsUpdate, MadeBy, JicofoUpdate, JicofoCreate, Call
<1>5. IsUpdate(EtherpadUpdate, MadeBy(EtherpadCreate))
  BY DEF IsUpdate, MadeBy, EtherpadUpdate, EtherpadCreate, UpdateService, Call
<1>6. IsUpdate(WhiteboardUpdate, {"workload"})
  BY DEF IsUpdate, MadeBy, WhiteboardUpdate, Call
<1> QED
  BY <1>1, <1>2, <1>3, <1>4, <1>5, <1>6

LEMMA DeletionShapes ==
  /\ IsDeletion(WebDelete, MadeBy(WebCreate))
  /\ IsDeletion(ProsodyDelete, MadeBy(ProsodyCreate))
  /\ IsDeletion(JigasiDelete, MadeBy(JigasiCreate))
  /\ IsDeletion(JibriDelete, MadeBy(JibriCreate))
  /\ IsDeletion(JicofoDelete, MadeBy(JicofoCreate))
  /\ IsDeletion(EtherpadDelete, MadeBy(EtherpadCreate))
  /\ IsDeletion(WhiteboardDelete, MadeBy(WhiteboardCreate))
<1> USE DEF Removals
<1>1. IsDeletion(WebDelete, MadeBy(WebCreate))
  BY DEF IsDeletion, MadeBy, WebDelete, WebCreate, DeleteService, CreateService, Call
<1>2. IsDeletion(ProsodyDelete, MadeBy(ProsodyCreate))
  BY DEF IsDeletion, MadeBy, ProsodyDelete, ProsodyCreate, DeleteService, CreateService, Call
<1>3. /\ IsDeletion(JigasiDelete, MadeBy(JigasiCreate))
      /\ IsDeletion(JibriDelete, MadeBy(JibriCreate))
  BY DEF IsDeletion, MadeBy, JigasiDelete, JigasiCreate, JibriDelete, JibriCreate, Call
<1>4. IsDeletion(JicofoDelete, MadeBy(JicofoCreate))
  BY DEF IsDeletion, MadeBy, JicofoDelete, JicofoCreate, Call
<1>5. IsDeletion(EtherpadDelete, MadeBy(EtherpadCreate))
  BY DEF IsDeletion, MadeBy, EtherpadDelete, EtherpadCreate, DeleteService, Call
<1>6. IsDeletion(WhiteboardDelete, MadeBy(WhiteboardCreate))
  BY DEF IsDeletion, MadeBy, WhiteboardDelete, WhiteboardCreate, DeleteService, Call
<1> QED
  BY <1>1, <1>2, <1>3, <1>4, <1>5, <1>6

LEMMA PlanShapes ==
  ASSUME app \in AllApps
  PROVE  /\ Needed = MadeBy(Plans(app)["create"])
         /\ Plans(app)["get"] = <<Call("get", "workload", {})>>
         /\ IsCreation(Plans(app)["create"])
         /\ IsUpdate(Plans(app)["update"], Needed \cap Updated)
         /\ IsDeletion(Plans(app)["delete"], Needed)
         /\ Needed \subseteq Objects /\ "workload" \in Needed
<1>1. Needed = MadeBy(Plans(app)["create"])
  BY DEF Needed, MadeBy, Plans
<1>2. Needed \subseteq Objects
  BY <1>1, PlanFacts DEF MadeBy, Handlers
<1>3. Plans(app)["get"] = <<Call("get", "workload", {})>>
  BY DEF Plans
<1>4. IsCreation(Plans(app)["create"])
  BY CreationShapes DEF Plans, AllApps
<1>5. "workload" \in Needed
  <2>1. "create" \in Handlers
    BY DEF Handlers
  <2>2. Len(Plans(app)["create"]) \in DOMAIN Plans(app)["create"]
    BY <2>1, PlanFacts
  <2> QED
    BY <1>1, <1>4, <2>2 DEF IsCreation, MadeBy
<1>6. IsDeletion(Plans(app)["delete"], Needed)
  <2>1. IsDeletion(Plans(app)["delete"], MadeBy(Plans(app)["create"]))
    BY DeletionShapes DEF Plans, AllApps
  <2> QED
    BY <1>1, <2>1
<1>7. IsUpdate(Plans(app)["update"], Needed \cap Updated)
  <2>1. CASE app = "whiteboard"
    <3>1. Plans(app)["update"] = WhiteboardUpdate /\ Needed \cap Updated = {"workload"}
      BY <1>5, <2>1 DEF Plans, Updated
    <3> QED
      BY <3>1, UpdateShapes
  <2>2. CASE app # "whiteboard"
    <3>1. IsUpdate(Plans(app)["update"], MadeBy(Plans(app)["create"]))
      BY <2>2, UpdateShapes DEF Plans, AllApps
    <3>2. Needed \cap Updated = Needed
      BY <1>2, <2>2 DEF Updated
    <3> QED
      BY <1>1, <3>1, <3>2
  <2> QED
    BY <2>1, <2>2
<1> QED
  BY <1>1, <1>2, <1>3, <1>4, <1>5, <1>6, <1>7

-----------------------------------------------------------------------------
(* What a worker has visited, and how far the children have come. *)

\* The objects that the calls of plan p before the k-th make, update or remove.
Visited(p, k) ==
  {Plans(app)[p][l].object : l \in {m \in 1..k - 1 : Plans(app)[p][m].verb # "get"}}

LEMMA VisitedGrows ==
  ASSUME app \in AllApps, NEW p \in Handlers, NEW k \in DOMAIN Plans(app)[p],
         NEW c, c = Plans(app)[p][k]
  PROVE  /\ Visited(p, 1) = {}
         /\ c.verb = "get" => Visited(p, k + 1) = Visited(p, k)
         /\ c.verb # "get" => Visited(p, k + 1) = Visited(p, k) \cup {c.object}
<1>1. k \in Nat /\ 1 <= k
  BY PlanFacts
<1>2. 1..(k + 1) - 1 = (1..k - 1) \cup {k} /\ 1..1 - 1 = {}
  BY <1>1
<1> QED
  BY <1>2 DEF Visited

LEMMA VisitedAll ==
  ASSUME app \in AllApps
  PROVE  /\ Visited("create", Len(Plans(app)["create"]) + 1) = Needed
         /\ Visited("update", Len(Plans(app)["update"]) + 1) = Needed \cap Updated
         /\ Visited("delete", Len(Plans(app)["delete"]) + 1) = Needed
<1>1. \A p \in {"create", "update", "delete"} :
        /\ p \in Handlers
        /\ DOMAIN Plans(app)[p] = 1..Len(Plans(app)[p])
        /\ Len(Plans(app)[p]) \in Nat
  BY PlanFacts DEF Handlers
<1>2. \A p \in {"create", "update", "delete"} :
        Visited(p, Len(Plans(app)[p]) + 1) =
          {Plans(app)[p][l].object :
             l \in {m \in DOMAIN Plans(app)[p] : Plans(app)[p][m].verb # "get"}}
  <2> SUFFICES ASSUME NEW p \in {"create", "update", "delete"}
               PROVE  1..(Len(Plans(app)[p]) + 1) - 1 = DOMAIN Plans(app)[p]
    BY DEF Visited
  <2> QED
    BY <1>1
<1>3. Visited("create", Len(Plans(app)["create"]) + 1) = Needed
  BY <1>2, PlanShapes DEF IsCreation, MadeBy
<1>4. Visited("update", Len(Plans(app)["update"]) + 1) = Needed \cap Updated
  BY <1>2, PlanShapes DEF IsUpdate
<1>5. Visited("delete", Len(Plans(app)["delete"]) + 1) = Needed
  <2> DEFINE s == Plans(app)["delete"]
  <2>1. /\ \A m \in DOMAIN s : s[m].verb # "get" => s[m].object \in Needed
        /\ \A o \in Needed : \E m \in DOMAIN s : s[m].verb # "get" /\ s[m].object = o
    BY PlanShapes DEF IsDeletion, Removals
  <2>2. Visited("delete", Len(s) + 1) =
          {s[l].object : l \in {m \in DOMAIN s : s[m].verb # "get"}}
    BY <1>2
  <2> HIDE DEF s
  <2>3. Visited("delete", Len(s) + 1) = Needed
    BY <2>1, <2>2
  <2> QED
    BY <2>3 DEF s
<1> QED
  BY <1>3, <1>4, <1>5

LEMMA VisitedOnce ==
  ASSUME app \in AllApps, NEW p \in {"create", "delete"}, NEW k \in DOMAIN Plans(app)[p],
         Plans(app)[p][k].verb # "get"
  PROVE  Plans(app)[p][k].object \notin Visited(p, k)
<1>1. k \in Nat /\ DOMAIN Plans(app)[p] = 1..Len(Plans(app)[p]) /\ Len(Plans(app)[p]) \in Nat
  BY PlanFacts DEF Handlers
<1>2. \A l \in 1..k - 1 : l \in DOMAIN Plans(app)[p] /\ l # k
  BY <1>1
<1>3. \A l \in DOMAIN Plans(app)[p] :
        /\ Plans(app)[p][l].verb # "get" /\ Plans(app)[p][l].object = Plans(app)[p][k].object
        => l = k
  <2>1. CASE p = "create"
    BY <2>1, PlanShapes DEF IsCreation
  <2>2. CASE p = "delete"
    <3>1. \A l \in DOMAIN Plans(app)[p] :
            Plans(app)[p][l].verb # "get" => Plans(app)[p][l].verb \in Removals
      BY <2>2, PlanShapes DEF IsDeletion
    <3> QED
      BY <2>2, <3>1, PlanShapes DEF IsDeletion
  <2> QED
    BY <2>1, <2>2
<1> QED
  BY <1>2, <1>3 DEF Visited

Full  == \A o \in Needed : Stands(o)
Empty == \A o \in Objects : ~Stands(o)
Building ==
  \A o \in Objects : child[o] = IF o \in Visited("create", step) THEN obj.conf ELSE 0
Clearing ==
  \A o \in Objects : Stands(o) <=> o \in Needed \ Visited("delete", step)

\* Update comes before Create: Etherpad and Whiteboard.
UpdatesFirst == app \in {"etherpad", "whiteboard"}

Doomed == Exists(cr) /\ cr.del

\* All children stand or none does, but for those that Create and Delete are at.
ChildrenInStep ==
  /\ \A o \in Objects : Stands(o) => o \in Needed
  /\ CASE pc = "call" /\ plan = "create" -> Full \/ (Live /\ Building)
       [] pc = "call" /\ plan = "update" -> Full \/ (UpdatesFirst /\ Empty)
       [] pc = "call" /\ plan = "delete" -> Empty \/ Clearing
       [] OTHER -> Full \/ Empty
  /\ Doomed => Full
  /\ ~Exists(cr) => Empty \/ (pc = "call" /\ plan = "delete")
  /\ pc = "call" /\ plan = "update" =>
       \A o \in Visited("update", step) : child[o] = obj.conf

\* A cache lags behind by the children's creation or by their removal, never by both.
CacheInStep(o) ==
  /\ o \notin Lagging => lag[o] = <<>>
  /\ lag[o] = <<>> => (shown[o] <=> Stands(o))
  /\ lag[o] # <<>> /\ ~Stands(o) => ~lag[o][Len(lag[o])]
  /\ Stands(o) => \A k \in DOMAIN lag[o] : lag[o][k]
  /\ Live /\ ~Stands(o) => lag[o] = <<>>
  /\ ~Live /\ Stands(o) => shown[o]
CachesInStep == \A o \in Objects : CacheInStep(o)

\* One version at most is announced: a user's, or the one of the finalizer.
NewsInStep ==
  /\ \A v \in {cr, crCache} : Exists(v) => v.conf > 0
  /\ ~Exists(cr) => cr = NoObject
  /\ \/ watch = <<>> /\ crCache = cr
     \/ /\ watch = <<cr>> /\ crCache.rv # cr.rv
        /\ CASE ~Exists(crCache) -> Live /\ ~cr.fin /\ pc = "idle" /\ ~queued
             [] Exists(crCache) /\ crCache.del -> ~Exists(cr)
             [] OTHER -> /\ Exists(cr) /\ cr.fin
                         /\ ~crCache.fin => Live /\ crCache.conf = cr.conf
  /\ Exists(cr) /\ ~cr.fin =>
       /\ Live /\ Empty
       /\ watch = <<>> => (pc = "idle" /\ queued) \/ (pc = "addFinalizer" /\ obj = cr)

\* What the worker's version and the stored one have in common.
WorkInStep ==
  /\ pc = "addFinalizer" =>
       /\ Live /\ obj.conf = cr.conf
       /\ IF cr.fin THEN obj.rv # cr.rv ELSE obj = cr /\ watch = <<>>
  /\ pc = "removeFinalizer" /\ Exists(cr) => obj = cr /\ watch = <<>>
  /\ pc = "call" => IF plan = "delete" THEN ~Exists(cr) ELSE Exists(cr) /\ cr.fin
  /\ pc # "idle" => obj.conf > 0
  /\ pc = "call" /\ plan = "get" => app \notin {"jicofo", "etherpad", "whiteboard"}

\* Nothing that asks for a reconciliation is queued or announced.
NoNews == ~queued /\ (watch = <<>> \/ (Exists(crCache) /\ ~crCache.fin))

\* Without news the worker is at the stored version or has brought it about.
NewsServed ==
  NoNews =>
    /\ Live => IF pc = "idle" THEN cr.fin /\ Provisioned(Updated)
                ELSE obj.conf = cr.conf /\ ~obj.del
    /\ Doomed => pc = "removeFinalizer"

RestInv == ChildrenInStep /\ CachesInStep /\ NewsInStep /\ WorkInStep /\ NewsServed

-----------------------------------------------------------------------------
(* The calls, one plan at a time. *)

Continues ==
  /\ step # Len(Plans(app)[plan]) /\ step' = step + 1
  /\ UNCHANGED <<pc, plan, obj, queued>>
Turns(p) == pc' = "call" /\ plan' = p /\ step' = 1 /\ UNCHANGED <<obj, queued>>
Last == step = Len(Plans(app)[plan])

RestTypes == OrderInv /\ RestInv

LEMMA AtCall ==
  ASSUME RestTypes, pc = "call", NEW c, c = Plans(app)[plan][step]
  PROVE  /\ app \in AllApps /\ plan \in Handlers /\ step \in DOMAIN Plans(app)[plan]
         /\ c.object \in Objects
         /\ child \in [Objects -> Nat] /\ obj.conf \in Nat \ {0}
         /\ lag \in [Objects -> Seq(BOOLEAN)] /\ shown \in [Objects -> BOOLEAN]
<1>1. app \in AllApps /\ plan \in Handlers /\ step \in DOMAIN Plans(app)[plan]
  BY AppsAssumption DEF RestTypes, OrderInv, TypeInv, TypeOK, WorkOK
<1>2. c.object \in Objects
  BY <1>1, PlanFacts
<1>3. child \in [Objects -> Nat] /\ obj \in Version
      /\ lag \in [Objects -> Seq(BOOLEAN)] /\ shown \in [Objects -> BOOLEAN]
  BY DEF RestTypes, OrderInv, TypeInv, TypeOK
<1>4. obj.conf \in Nat /\ obj.conf > 0
  BY <1>3 DEF RestTypes, RestInv, WorkInStep, Version
<1> QED
  BY <1>1, <1>2, <1>3, <1>4

LEMMA CloseCases ==
  ASSUME pc = "call", NEW outcome, NEW reading, Close(outcome, reading)
  PROVE  /\ Then(plan, outcome) = "return" => Return(FALSE)
         /\ Then(plan, outcome) = "retry" => Return(TRUE)
         /\ Then(plan, outcome) \notin {"return", "retry"} => Turns(Then(plan, outcome))
BY DEF Close, Turns, Begin

LEMMA AdvanceCases ==
  ASSUME NEW outcome, NEW reading, Advance(outcome, reading),
         NEW c, c = Plans(app)[plan][step]
  PROVE  /\ outcome \in c.passed \cup {"ok"} => Continues \/ (Last /\ Close("ok", reading))
         /\ outcome \notin c.passed \cup {"ok"} => Close(outcome, reading)
BY DEF Advance, Continues, Last, Finished

LEMMA SamePut ==
  ASSUME NEW o \in Objects, child \in [Objects -> Nat], Put(o, child[o])
  PROVE  UNCHANGED childVars
<1>1. child' = child
  BY DEF Put
<1> QED
  BY <1>1 DEF Put, childVars

LEMMA GetCalls ==
  ASSUME RestTypes, CallServer, plan = "get"
  PROVE  /\ UNCHANGED childVars
         /\ Turns("create") \/ (Turns("update") /\ Full)
<1> DEFINE c == Plans(app)[plan][step]
<1>1. pc = "call"
  BY DEF CallServer
<1>2. /\ app \in AllApps /\ step \in DOMAIN Plans(app)[plan] /\ c.object \in Objects
      /\ child \in [Objects -> Nat] /\ lag \in [Objects -> Seq(BOOLEAN)]
      /\ app \notin {"jicofo", "etherpad", "whiteboard"}
      /\ pc = "call"
  BY <1>1, AtCall DEF CallServer, RestTypes, RestInv, WorkInStep
<1>3. c = Call("get", "workload", {}) /\ Last
  <2>1. Plans(app)["get"] = <<Call("get", "workload", {})>>
    BY <1>2, PlanShapes
  <2>2. \A call : DOMAIN <<call>> = {1} /\ Len(<<call>>) = 1 /\ <<call>>[1] = call
    OBVIOUS
  <2> QED
    BY <1>2, <2>1, <2>2 DEF Last
<1>4. c.verb = "get" /\ c.object = "workload" /\ c.passed = {}
  BY <1>3 DEF Call
<1> HIDE DEF c
<1>5. UNCHANGED childVars
  <2>1. Put(c.object, Written(c))
    BY DEF CallServer, c
  <2>2. Written(c) = child[c.object]
    BY <1>4 DEF Written
  <2> QED
    BY <1>2, <2>1, <2>2, SamePut
<1>6. \E reading : Advance(Outcome(c), reading)
  BY DEF CallServer, c
<1>7. CASE Get(c.object) = "absent"
  <2>1. Outcome(c) = "absent"
    BY <1>4, <1>7 DEF Outcome
  <2>2. \E reading : Close("absent", reading)
    BY <1>4, <1>6, <2>1, AdvanceCases DEF c
  <2>3. Then(plan, "absent") = "create"
    BY <1>2 DEF Then, AfterGetOrCreate
  <2> QED
    BY <1>2, <1>5, <2>2, <2>3, CloseCases
<1>8. CASE Get(c.object) # "absent"
  <2>1. Outcome(c) = "ok"
    BY <1>4, <1>8 DEF Outcome
  <2>2. \E reading : Close("ok", reading)
    BY <1>3, <1>6, <2>1, AdvanceCases DEF c, Continues, Last
  <2>3. Then(plan, "ok") = "update"
    BY <1>2 DEF Then, AfterGetOrCreate
  <2>4. Full
    <3>1. Full \/ Empty
      BY <1>2 DEF RestTypes, RestInv, ChildrenInStep
    <3>2. ASSUME Empty PROVE FALSE
      <4>1. Live
        BY <1>2, <3>2, PlanShapes DEF RestTypes, RestInv, ChildrenInStep, WorkInStep, Doomed,
           Live, Full, Empty
      <4>2. ~Stands("workload") /\ CacheInStep("workload")
        BY <1>2, <1>4, <3>2 DEF Empty, RestTypes, RestInv, CachesInStep
      <4>3. lag["workload"] = <<>> /\ ~shown["workload"]
        BY <4>1, <4>2 DEF CacheInStep
      <4> QED
        BY <1>4, <1>8, <4>3 DEF Get
    <3> QED
      BY <3>1, <3>2
  <2> QED
    BY <1>2, <1>5, <2>2, <2>3, <2>4, CloseCases
<1> QED
  BY <1>7, <1>8

LEMMA CreateCalls ==
  ASSUME RestTypes, CallServer, plan = "create", NEW c, c = Plans(app)[plan][step]
  PROVE  \/ /\ Full /\ UNCHANGED childVars
            /\ Continues \/ Return(TRUE) \/ Turns("update")
         \/ /\ Live /\ Building /\ Put(c.object, obj.conf)
            /\ Continues \/ (Return(FALSE) /\ Last)
<1>1. /\ pc = "call" /\ Put(c.object, Written(c))
      /\ \E reading : Advance(Outcome(c), reading)
  BY DEF CallServer
<1>2. /\ app \in AllApps /\ step \in DOMAIN Plans(app)[plan] /\ c.object \in Objects
      /\ child \in [Objects -> Nat]
  BY <1>1, AtCall
<1>3. /\ c.verb = "create" /\ c.object \in Needed
      /\ Last => c.passed = {}
  BY <1>2, PlanShapes DEF IsCreation, Last, MadeBy
<1>4. Full \/ (Live /\ Building)
  BY <1>1 DEF RestTypes, RestInv, ChildrenInStep
<1>5. CASE Full
  <2>1. child[c.object] # 0
    BY <1>3, <1>5 DEF Full, Stands
  <2>2. Outcome(c) = "exists"
    BY <1>3, <2>1 DEF Outcome
  <2>3. UNCHANGED childVars
    <3>1. Written(c) = child[c.object]
      BY <2>2 DEF Written
    <3> QED
      BY <1>1, <1>2, <3>1, SamePut
  <2>4. Then(plan, "exists") \in {"retry", "update"}
    BY DEF Then, AfterGetOrCreate, AfterJicofo, AfterEtherpad, AfterWhiteboard, Otherwise,
       NotFound
  <2>5. Continues \/ \E reading : Close("exists", reading)
    <3>1. CASE "exists" \in c.passed
      BY <1>1, <1>3, <2>2, <3>1, AdvanceCases
    <3>2. CASE "exists" \notin c.passed
      BY <1>1, <2>2, <3>2, AdvanceCases
    <3> QED
      BY <3>1, <3>2
  <2> QED
    BY <1>1, <1>5, <2>3, <2>4, <2>5, CloseCases
<1>6. CASE Live /\ Building
  <2>1. child[c.object] = 0
    BY <1>2, <1>3, <1>6, VisitedOnce DEF Building
  <2>2. Outcome(c) = "ok"
    BY <1>3, <2>1 DEF Outcome
  <2>3. Written(c) = obj.conf
    BY <1>3, <2>2 DEF Written
  <2>4. Then(plan, "ok") = "return"
    BY DEF Then, AfterGetOrCreate, AfterJicofo, AfterEtherpad, AfterWhiteboard, Otherwise,
       NotFound
  <2>5. Continues \/ (Last /\ \E reading : Close("ok", reading))
    BY <1>1, <2>2, AdvanceCases
  <2> QED
    BY <1>1, <1>6, <2>3, <2>4, <2>5, CloseCases
<1> QED
  BY <1>4, <1>5, <1>6

\* The controllers that update first create nothing with a PUT.
LEMMA UpdatesFirstVerbs ==
  ASSUME UpdatesFirst, NEW k \in DOMAIN Plans(app)["update"]
  PROVE  /\ Plans(app)["update"][k].verb \in {"update", "put"}
         /\ app = "whiteboard" => Plans(app)["update"][k].verb = "put"
<1>1. CASE app = "etherpad"
  <2>1. Plans(app)["update"] = EtherpadUpdate
    BY <1>1 DEF Plans
  <2> QED
    BY <1>1, <2>1 DEF EtherpadUpdate, UpdateService, Call
<1>2. CASE app = "whiteboard"
  <2>1. Plans(app)["update"] = WhiteboardUpdate
    BY <1>2 DEF Plans
  <2> QED
    BY <1>2, <2>1 DEF WhiteboardUpdate, Call
<1> QED
  BY <1>1, <1>2 DEF UpdatesFirst

LEMMA UpdateCalls ==
  ASSUME RestTypes, CallServer, plan = "update", NEW c, c = Plans(app)[plan][step]
  PROVE  \/ UNCHANGED childVars /\ (Return(TRUE) \/ Turns("create"))
         \/ /\ Full /\ Put(c.object, obj.conf)
            /\ Continues \/ (Return(FALSE) /\ Last)
<1>1. /\ pc = "call" /\ Put(c.object, Written(c))
      /\ \E reading : Advance(Outcome(c), reading)
  BY DEF CallServer
<1>2. /\ app \in AllApps /\ step \in DOMAIN Plans(app)[plan] /\ c.object \in Objects
      /\ child \in [Objects -> Nat]
  BY <1>1, AtCall
<1>3. /\ c.verb \in {"update", "updateRead", "put", "apply"}
      /\ c.passed = {} \/ c.verb = "apply"
  BY <1>2, PlanShapes DEF IsUpdate
<1>4. /\ UpdatesFirst => c.verb \in {"update", "put"}
      /\ app = "whiteboard" => c.verb = "put"
  BY <1>2, UpdatesFirstVerbs DEF UpdatesFirst
<1>5. Full \/ (UpdatesFirst /\ Empty)
  BY <1>1 DEF RestTypes, RestInv, ChildrenInStep
<1>6. CASE Outcome(c) = "ok"
  <2>1. Full
    <3>1. ASSUME UpdatesFirst, Empty PROVE FALSE
      <4>1. child[c.object] = 0
        BY <1>2, <3>1 DEF Empty, Stands
      <4> QED
        BY <1>4, <1>6, <3>1, <4>1 DEF Outcome
    <3> QED
      BY <1>5, <3>1
  <2>2. Written(c) = obj.conf
    BY <1>3, <1>6 DEF Written
  <2>3. Then(plan, "ok") = "return"
    BY DEF Then, AfterGetOrCreate, AfterJicofo, AfterEtherpad, AfterWhiteboard, Otherwise,
       NotFound
  <2>4. Continues \/ (Last /\ \E reading : Close("ok", reading))
    BY <1>1, <1>6, AdvanceCases
  <2> QED
    BY <1>1, <2>1, <2>2, <2>3, <2>4, CloseCases
<1>7. CASE Outcome(c) # "ok"
  <2>1. UNCHANGED childVars
    <3>1. Written(c) = child[c.object]
      BY <1>7 DEF Written
    <3> QED
      BY <1>1, <1>2, <3>1, SamePut
  <2>2. c.verb # "apply" /\ c.passed = {}
    BY <1>3, <1>7 DEF Outcome
  <2>3. \E reading : Close(Outcome(c), reading)
    BY <1>1, <1>7, <2>2, AdvanceCases
  <2>4. Then(plan, Outcome(c)) \in {"retry", "create"}
    <3>1. CASE app = "whiteboard"
      <4>1. Outcome(c) = "notFound"
        BY <1>4, <1>7, <3>1 DEF Outcome
      <4> QED
        BY <3>1, <4>1 DEF Then, AfterWhiteboard, NotFound
    <3>2. CASE app # "whiteboard"
      BY <1>7, <3>2 DEF Then, AfterGetOrCreate, AfterJicofo, AfterEtherpad, Otherwise
    <3> QED
      BY <3>1, <3>2
  <2> QED
    BY <1>1, <2>1, <2>3, <2>4, CloseCases
<1> QED
  BY <1>6, <1>7

LEMMA DeleteCalls ==
  ASSUME RestTypes, CallServer, plan = "delete", NEW c, c = Plans(app)[plan][step]
  PROVE  \/ Empty /\ UNCHANGED childVars /\ (Continues \/ \E err \in BOOLEAN : Return(err))
         \/ /\ Clearing
            /\ IF c.verb = "get" THEN UNCHANGED childVars ELSE Put(c.object, 0)
            /\ Continues \/ (Return(FALSE) /\ Last)
<1>1. /\ pc = "call" /\ Put(c.object, Written(c))
      /\ \E reading : Advance(Outcome(c), reading)
  BY DEF CallServer
<1>2. /\ app \in AllApps /\ step \in DOMAIN Plans(app)[plan] /\ c.object \in Objects
      /\ child \in [Objects -> Nat]
  BY <1>1, AtCall
<1>3. \/ c.verb \in Removals /\ c.object \in Needed
      \/ step = 1 /\ c.verb = "get" /\ c.object = "workload"
  BY <1>2, PlanShapes DEF IsDeletion
<1>4. \A outcome : Then(plan, outcome) \in {"return", "retry"}
  BY DEF Then, AfterGetOrCreate, AfterJicofo, AfterEtherpad, AfterWhiteboard, Otherwise
<1>5. Then(plan, "ok") = "return"
  BY DEF Then, AfterGetOrCreate, AfterJicofo, AfterEtherpad, AfterWhiteboard, Otherwise,
     NotFound
<1>6. Empty \/ Clearing
  BY <1>1 DEF RestTypes, RestInv, ChildrenInStep
<1>7. CASE Empty
  <2>1. child[c.object] = 0
    BY <1>2, <1>7 DEF Empty, Stands
  <2>2. UNCHANGED childVars
    <3>1. Written(c) = child[c.object]
      BY <1>3, <2>1 DEF Written, Removals
    <3> QED
      BY <1>1, <1>2, <3>1, SamePut
  <2>3. Continues \/ \E outcome, reading : Close(outcome, reading)
    BY <1>1, AdvanceCases
  <2>4. Continues \/ Return(TRUE) \/ Return(FALSE)
    BY <1>1, <1>4, <2>3, CloseCases
  <2> QED
    BY <1>7, <2>2, <2>4
<1>8. CASE Clearing
  <2>1. Stands(c.object)
    <3>1. CASE c.verb \in Removals /\ c.object \in Needed
      <4>1. c.object \notin Visited("delete", step)
        BY <1>2, <3>1, VisitedOnce DEF Removals
      <4> QED
        BY <1>2, <1>8, <3>1, <4>1 DEF Clearing
    <3>2. CASE step = 1 /\ c.verb = "get" /\ c.object = "workload"
      <4>1. Visited("delete", 1) = {}
        BY <1>2, <3>2, VisitedGrows DEF Handlers
      <4> QED
        BY <1>2, <1>8, <3>2, <4>1, PlanShapes DEF Clearing
    <3> QED
      BY <1>3, <3>1, <3>2
  <2>2. shown[c.object]
    <3>1. ~Live
      BY <1>1 DEF RestTypes, RestInv, WorkInStep, Live
    <3>2. CacheInStep(c.object)
      BY <1>2 DEF RestTypes, RestInv, CachesInStep
    <3> QED
      BY <2>1, <3>1, <3>2 DEF CacheInStep
  <2>3. Outcome(c) = "ok"
    BY <1>3, <2>1, <2>2 DEF Outcome, Get, Stands, Removals
  <2>4. IF c.verb = "get" THEN UNCHANGED childVars ELSE Put(c.object, 0)
    <3>1. CASE c.verb = "get"
      <4>1. Written(c) = child[c.object]
        BY <3>1 DEF Written
      <4> QED
        BY <1>1, <1>2, <3>1, <4>1, SamePut
    <3>2. CASE c.verb # "get"
      <4>1. Written(c) = 0
        BY <1>3, <2>3, <3>2 DEF Written, Removals
      <4> QED
        BY <1>1, <3>2, <4>1
    <3> QED
      BY <3>1, <3>2
  <2>5. Continues \/ (Last /\ \E reading : Close("ok", reading))
    BY <1>1, <2>3, AdvanceCases
  <2>6. Continues \/ (Return(FALSE) /\ Last)
    BY <1>1, <1>5, <2>5, CloseCases
  <2> QED
    BY <1>8, <2>4, <2>6
<1> QED
  BY <1>6, <1>7, <1>8

-----------------------------------------------------------------------------
(* The caches of the child objects. *)

LEMMA NoticeCaches ==
  ASSUME CachesInStep, ChildTypeOK, NEW o \in Objects, NEW b \in BOOLEAN,
         Notice(o, b), cr' = cr,
         b <=> Stands(o)', \A x \in Objects \ {o} : child'[x] = child[x],
         b /\ ~Stands(o) => Live, ~b => Stands(o) /\ ~Live
  PROVE  CachesInStep'
<1>1. /\ shown \in [Objects -> BOOLEAN] /\ lag \in [Objects -> Seq(BOOLEAN)]
      /\ lag[o] \in Seq(BOOLEAN)
  BY DEF ChildTypeOK
<1>2. Live' = Live
  BY DEF Live, Exists
<1>3. ASSUME NEW x \in Objects, x # o PROVE CacheInStep(x)'
  <2>1. lag'[x] = lag[x] /\ shown'[x] = shown[x] /\ child'[x] = child[x]
    BY <1>1, <1>3 DEF Notice
  <2>2. CacheInStep(x)
    BY DEF CachesInStep
  <2> QED
    BY <1>2, <2>1, <2>2 DEF CacheInStep, Stands
<1>4. CacheInStep(o)'
  <2>1. CacheInStep(o)
    BY DEF CachesInStep
  <2>2. CASE o \notin Lagging
    <3>1. lag' = lag /\ shown'[o] = b /\ lag[o] = <<>>
      BY <1>1, <2>1, <2>2 DEF Notice, CacheInStep
    <3>2. lag'[o] = <<>> /\ DOMAIN <<>> = {}
      BY <3>1
    <3> QED
      BY <2>2, <3>1, <3>2 DEF CacheInStep
  <2>3. CASE o \in Lagging
    <3>1. lag'[o] = Append(lag[o], b) /\ shown' = shown
      BY <1>1, <2>3 DEF Notice
    <3>2. /\ lag'[o] # <<>> /\ lag'[o][Len(lag'[o])] = b
          /\ \A k \in DOMAIN lag'[o] :
               (k \in DOMAIN lag[o] /\ lag'[o][k] = lag[o][k]) \/ lag'[o][k] = b
      BY <1>1, <3>1
    <3>3. Stands(o)' => \A k \in DOMAIN lag'[o] : lag'[o][k]
      <4>1. ASSUME b, NEW k \in DOMAIN lag[o] PROVE lag[o][k]
        <5>1. lag[o] # <<>>
          BY <1>1, <4>1
        <5> QED
          BY <2>1, <4>1, <5>1 DEF CacheInStep
      <4> QED
        BY <3>2, <4>1
    <3>4. ~Live' /\ Stands(o)' => shown'[o]
      BY <1>2, <2>1, <3>1 DEF CacheInStep
    <3> QED
      BY <1>2, <2>3, <3>2, <3>3, <3>4 DEF CacheInStep
  <2> QED
    BY <2>2, <2>3
<1> QED
  BY <1>3, <1>4 DEF CachesInStep

LEMMA PutCaches ==
  ASSUME CachesInStep, ChildTypeOK, NEW o \in Objects, NEW c \in Nat, Put(o, c), cr' = cr,
         c # 0 /\ ~Stands(o) => Live, c = 0 /\ Stands(o) => ~Live
  PROVE  CachesInStep'
<1>1. child \in [Objects -> Nat] /\ child' = [child EXCEPT ![o] = c]
  BY DEF ChildTypeOK, Put
<1>2. Live' = Live
  BY DEF Live, Exists
<1>3. CASE child[o] = c
  BY <1>1, <1>2, <1>3 DEF Put, CachesInStep, CacheInStep, Stands
<1>4. CASE child[o] # c
  <2>1. Notice(o, c # 0)
    BY <1>4 DEF Put
  <2>2. (c # 0) <=> Stands(o)'
    BY <1>1 DEF Stands
  <2>3. \A x \in Objects \ {o} : child'[x] = child[x]
    BY <1>1
  <2>4. ~(c # 0) => Stands(o) /\ ~Live
    BY <1>4 DEF Stands
  <2> DEFINE b == c # 0
  <2>5. b \in BOOLEAN /\ Notice(o, b) /\ (b <=> Stands(o)')
        /\ (b /\ ~Stands(o) => Live) /\ (~b => Stands(o) /\ ~Live)
    BY <2>1, <2>2, <2>4
  <2> HIDE DEF b
  <2> QED
    BY <2>3, <2>5, NoticeCaches
<1> QED
  BY <1>3, <1>4

LEMMA ReceiveCaches ==
  ASSUME CachesInStep, ChildTypeOK, NEW o \in Objects, ReceiveChild(o)
  PROVE  CachesInStep'
<1>1. /\ shown \in [Objects -> BOOLEAN] /\ lag \in [Objects -> Seq(BOOLEAN)]
      /\ lag[o] \in Seq(BOOLEAN) /\ lag[o] # <<>>
      /\ lag' = [lag EXCEPT ![o] = Tail(lag[o])]
      /\ shown' = [shown EXCEPT ![o] = Head(lag[o])]
      /\ child' = child /\ cr' = cr
  BY DEF ChildTypeOK, ReceiveChild, crVars
<1>2. Live' = Live
  BY <1>1 DEF Live, Exists
<1>3. ASSUME NEW x \in Objects, x # o PROVE CacheInStep(x)'
  <2>1. lag'[x] = lag[x] /\ shown'[x] = shown[x] /\ child'[x] = child[x]
    BY <1>1, <1>3
  <2>2. CacheInStep(x)
    BY DEF CachesInStep
  <2> QED
    BY <1>2, <2>1, <2>2 DEF CacheInStep, Stands
<1>4. CacheInStep(o)'
  <2>1. CacheInStep(o)
    BY DEF CachesInStep
  <2> DEFINE s == lag[o]
  <2>2. s \in Seq(BOOLEAN) /\ s # <<>> /\ lag'[o] = Tail(s) /\ shown'[o] = s[1]
    BY <1>1
  <2>3. /\ Len(s) \in DOMAIN s /\ 1 \in DOMAIN s
        /\ Tail(s) = <<>> => Len(s) = 1
        /\ Tail(s) # <<>> => Tail(s)[Len(Tail(s))] = s[Len(s)]
        /\ \A k \in DOMAIN Tail(s) : k + 1 \in DOMAIN s /\ Tail(s)[k] = s[k + 1]
    <3> HIDE DEF s
    <3>1. /\ Len(s) \in Nat \ {0} /\ DOMAIN s = 1..Len(s)
          /\ Tail(s) \in Seq(BOOLEAN) /\ Len(Tail(s)) = Len(s) - 1
          /\ \A k \in 1..Len(s) - 1 : Tail(s)[k] = s[k + 1]
      BY <2>2
    <3>2. DOMAIN Tail(s) = 1..Len(s) - 1
      BY <3>1
    <3>3. Tail(s) = <<>> <=> Len(s) = 1
      <4>1. Tail(s) = <<>> <=> Len(Tail(s)) = 0
        BY <3>1, EmptySeq
      <4> QED
        BY <3>1, <4>1
    <3>4. Tail(s) # <<>> => Len(s) - 1 \in 1..Len(s) - 1
      BY <3>1, <3>3
    <3> QED
      BY <3>1, <3>2, <3>3, <3>4
  <2>4. Stands(o)' = Stands(o)
    BY <1>1 DEF Stands
  <2>5. /\ Stands(o) => \A k \in DOMAIN s : s[k]
        /\ ~Stands(o) => ~s[Len(s)] /\ ~Live
        /\ o \in Lagging
    BY <2>1, <2>2 DEF CacheInStep
  <2>6. CASE Stands(o)
    <3>1. shown'[o] /\ \A k \in DOMAIN lag'[o] : lag'[o][k]
      BY <2>2, <2>3, <2>5, <2>6
    <3> QED
      BY <2>4, <2>5, <2>6, <3>1 DEF CacheInStep
  <2>7. CASE ~Stands(o)
    <3>1. lag'[o] = <<>> => ~shown'[o]
      BY <2>2, <2>3, <2>5, <2>7
    <3>2. lag'[o] # <<>> => ~lag'[o][Len(lag'[o])]
      BY <2>2, <2>3, <2>5, <2>7
    <3> QED
      BY <1>2, <2>4, <2>5, <2>7, <3>1, <3>2 DEF CacheInStep
  <2> QED
    BY <2>6, <2>7
<1> QED
  BY <1>3, <1>4 DEF CachesInStep

LEMMA TouchCaches ==
  ASSUME CachesInStep, ChildTypeOK, NEW o \in Objects, Touch(o)
  PROVE  CachesInStep'
<1>1. Notice(o, TRUE) /\ child' = child /\ cr' = cr /\ child[o] # 0
  BY DEF Touch, crVars
<1> QED
  BY <1>1, NoticeCaches DEF Stands

-----------------------------------------------------------------------------
(* A call keeps the children in step. *)

LEMMA SamePlans ==
  ASSUME app' = app
  PROVE  /\ Needed' = Needed /\ Updated' = Updated /\ (UpdatesFirst' <=> UpdatesFirst)
         /\ \A p, k : Visited(p, k)' = Visited(p, k)
<1>1. Needed' = Needed
  BY DEF Needed
<1>2. Updated' = Updated
  BY DEF Updated
<1>3. UpdatesFirst' <=> UpdatesFirst
  BY DEF UpdatesFirst
<1>4. \A p, k : Visited(p, k)' = Visited(p, k)
  BY DEF Visited
<1> QED
  BY <1>1, <1>2, <1>3, <1>4

LEMMA EmptyOrFull ==
  ASSUME app \in AllApps
  PROVE  ~(Empty /\ Full)
BY PlanShapes DEF Empty, Full

LEMMA SameChildren ==
  ASSUME UNCHANGED <<child, cr, app>>
  PROVE  /\ Full' <=> Full
         /\ Empty' <=> Empty
         /\ Live' <=> Live
         /\ Doomed' <=> Doomed
         /\ \A o : Stands(o)' <=> Stands(o)
<1>1. Full' <=> Full
  BY SamePlans DEF Full, Stands
<1>2. Empty' <=> Empty
  BY DEF Empty, Stands
<1>3. (Live' <=> Live) /\ (Doomed' <=> Doomed)
  BY DEF Live, Doomed, Exists
<1>4. \A o : Stands(o)' <=> Stands(o)
  BY DEF Stands
<1> QED
  BY <1>1, <1>2, <1>3, <1>4

\* A plan begins with nothing visited.
LEMMA TurnsInStep ==
  ASSUME RestTypes, UNCHANGED <<child, cr, app>>,
         pc' = "call", step' = 1, plan' = "create" \/ plan' = "update",
         \A o \in Objects : Stands(o) => o \in Needed,
         Full \/ Empty, Exists(cr),
         plan' = "update" => Full \/ UpdatesFirst
  PROVE  ChildrenInStep'
<1>1. app \in AllApps /\ Live' = Live /\ Doomed' = Doomed /\ Exists(cr')
      /\ (Doomed => Full) /\ (Exists(cr) => Live \/ Doomed)
      /\ child \in [Objects -> Nat]
  BY AppsAssumption DEF RestTypes, RestInv, OrderInv, TypeInv, TypeOK, ChildrenInStep, Live,
     Doomed, Exists
<1>2. Visited("create", 1) = {} /\ Visited("update", 1) = {}
  BY DEF Visited
<1>3. /\ Visited("create", step)' = {} /\ Visited("update", step)' = {}
      /\ Needed' = Needed /\ (UpdatesFirst' <=> UpdatesFirst)
  BY <1>2, SamePlans
<1>4. Empty => Building'
  BY <1>3 DEF Empty, Building, Stands
<1>5. Empty => Live
  BY <1>1, EmptyOrFull
<1> QED
  BY <1>1, <1>3, <1>4, <1>5, SameChildren DEF ChildrenInStep

LEMMA GetChildren ==
  ASSUME RestTypes, CallServer, plan = "get"
  PROVE  ChildrenInStep'
<1>1. /\ pc = "call" /\ UNCHANGED <<cr, app>>
      /\ (\A o \in Objects : Stands(o) => o \in Needed) /\ (Full \/ Empty) /\ Exists(cr)
  BY DEF CallServer, sameCR, RestTypes, RestInv, ChildrenInStep, WorkInStep
<1>2. UNCHANGED childVars /\ (Turns("create") \/ (Turns("update") /\ Full))
  BY GetCalls
<1> QED
  BY <1>1, <1>2, TurnsInStep DEF Turns, childVars

LEMMA CreateChildren ==
  ASSUME RestTypes, CallServer, plan = "create"
  PROVE  ChildrenInStep'
<1> DEFINE c == Plans(app)[plan][step]
<1>1. /\ pc = "call" /\ UNCHANGED <<cr, app>> /\ Exists(cr)
      /\ \A o \in Objects : Stands(o) => o \in Needed
  BY DEF CallServer, sameCR, RestTypes, RestInv, ChildrenInStep, WorkInStep
<1>2. /\ app \in AllApps /\ step \in DOMAIN Plans(app)[plan] /\ c.object \in Objects
      /\ child \in [Objects -> Nat] /\ obj.conf \in Nat \ {0}
  BY <1>1, AtCall
<1>3. c.verb = "create" /\ c.object \in Needed
  BY <1>2, PlanShapes DEF IsCreation, MadeBy
<1>4. Visited("create", step + 1) = Visited("create", step) \cup {c.object}
  BY <1>2, <1>3, VisitedGrows DEF Handlers
<1>5. /\ Needed' = Needed /\ \A k : Visited("create", k)' = Visited("create", k)
      /\ Exists(cr') /\ (Live' <=> Live) /\ (Doomed' <=> Doomed)
  BY <1>1, SamePlans DEF Live, Doomed, Exists
<1>6. \/ Full /\ UNCHANGED childVars /\ (Continues \/ Return(TRUE) \/ Turns("update"))
      \/ /\ Live /\ Building /\ Put(c.object, obj.conf)
         /\ Continues \/ (Return(FALSE) /\ Last)
  BY CreateCalls
<1>7. Last => Visited("create", step + 1) = Needed
  BY <1>2, VisitedAll DEF Last
<1> HIDE DEF c
<1>8. CASE Full /\ UNCHANGED childVars /\ (Continues \/ Return(TRUE))
  <2>1. Full' /\ (\A o \in Objects : Stands(o)' => o \in Needed)
    BY <1>1, <1>8, SameChildren DEF childVars
  <2>2. \/ pc' = "call" /\ plan' = "create"
        \/ pc' = "idle"
    BY <1>1, <1>8 DEF Continues, Return, Release
  <2> QED
    BY <1>5, <2>1, <2>2 DEF ChildrenInStep
<1>9. CASE Full /\ UNCHANGED childVars /\ Turns("update")
  BY <1>1, <1>9, TurnsInStep DEF Turns, childVars
<1>10. CASE /\ Live /\ Building /\ Put(c.object, obj.conf)
            /\ Continues \/ (Return(FALSE) /\ Last)
  <2>1. child' = [child EXCEPT ![c.object] = obj.conf]
    BY <1>10 DEF Put
  <2>2. \A o \in Objects :
          child'[o] = IF o \in Visited("create", step + 1) THEN obj.conf ELSE 0
    BY <1>2, <1>4, <1>10, <2>1 DEF Building
  <2>3. \A o \in Objects : Stands(o)' => o \in Needed'
    BY <1>1, <1>2, <1>3, <1>5, <2>1 DEF Stands
  <2>4. ~Doomed
    BY <1>10 DEF Live, Doomed
  <2>5. CASE Continues
    <3>1. pc' = "call" /\ plan' = "create" /\ Building'
      BY <1>1, <1>5, <2>2, <2>5 DEF Continues, Building
    <3> QED
      BY <1>5, <1>10, <2>3, <2>4, <3>1 DEF ChildrenInStep
  <2>6. CASE Return(FALSE) /\ Last
    <3>1. pc' = "idle" /\ Full'
      <4>1. \A o \in Needed : child'[o] # 0
        BY <1>2, <1>7, <2>2, <2>6, PlanShapes
      <4> QED
        BY <1>5, <2>6, <4>1 DEF Return, Release, Full, Stands
    <3> QED
      BY <1>5, <2>3, <3>1 DEF ChildrenInStep
  <2> QED
    BY <1>10, <2>5, <2>6
<1> QED
  BY <1>6, <1>8, <1>9, <1>10

LEMMA UpdateChildren ==
  ASSUME RestTypes, CallServer, plan = "update"
  PROVE  ChildrenInStep'
<1> DEFINE c == Plans(app)[plan][step]
<1>1. /\ pc = "call" /\ UNCHANGED <<cr, app>> /\ Exists(cr)
      /\ \A o \in Objects : Stands(o) => o \in Needed
      /\ Full \/ Empty
      /\ \A o \in Visited("update", step) : child[o] = obj.conf
  BY DEF CallServer, sameCR, RestTypes, RestInv, ChildrenInStep, WorkInStep
<1>2. /\ app \in AllApps /\ step \in DOMAIN Plans(app)[plan] /\ c.object \in Objects
      /\ child \in [Objects -> Nat] /\ obj.conf \in Nat \ {0}
  BY <1>1, AtCall
<1>3. c.verb # "get" /\ c.object \in Needed
  BY <1>2, PlanShapes DEF IsUpdate
<1>4. Visited("update", step + 1) = Visited("update", step) \cup {c.object}
  BY <1>2, <1>3, VisitedGrows DEF Handlers
<1>5. /\ Needed' = Needed /\ \A k : Visited("update", k)' = Visited("update", k)
      /\ Exists(cr') /\ (Live' <=> Live) /\ (Doomed' <=> Doomed)
  BY <1>1, SamePlans DEF Live, Doomed, Exists
<1>6. \/ UNCHANGED childVars /\ (Return(TRUE) \/ Turns("create"))
      \/ Full /\ Put(c.object, obj.conf) /\ (Continues \/ (Return(FALSE) /\ Last))
  BY UpdateCalls
<1> HIDE DEF c
<1>7. CASE UNCHANGED childVars /\ Return(TRUE)
  <2>1. /\ pc' = "idle"
    BY <1>7 DEF Return, Release
  <2>2. Doomed => Full
    BY DEF RestTypes, RestInv, ChildrenInStep
  <2> QED
    BY <1>1, <1>5, <1>7, <2>1, <2>2, SameChildren DEF ChildrenInStep, childVars
<1>8. CASE UNCHANGED childVars /\ Turns("create")
  BY <1>1, <1>8, TurnsInStep DEF Turns, childVars
<1>9. CASE Full /\ Put(c.object, obj.conf) /\ (Continues \/ (Return(FALSE) /\ Last))
  <2>1. child' = [child EXCEPT ![c.object] = obj.conf]
    BY <1>9 DEF Put
  <2>2. Full'
    BY <1>2, <1>5, <1>9, <2>1, PlanShapes DEF Full, Stands
  <2>3. \A o \in Objects : Stands(o)' => o \in Needed'
    BY <1>1, <1>2, <1>3, <1>5, <2>1 DEF Stands
  <2>4. ASSUME Continues
        PROVE  \A o \in Visited("update", step)' : child'[o] = obj'.conf
    <3>1. Visited("update", step)' = Visited("update", step) \cup {c.object} /\ obj' = obj
      BY <1>4, <1>5, <2>4 DEF Continues
    <3> QED
      BY <1>1, <1>2, <2>1, <3>1
  <2>5. \/ Continues /\ pc' = "call" /\ plan' = "update"
        \/ pc' = "idle"
    BY <1>1, <1>9 DEF Continues, Return, Release
  <2> QED
    BY <1>5, <2>2, <2>3, <2>4, <2>5 DEF ChildrenInStep
<1> QED
  BY <1>6, <1>7, <1>8, <1>9

LEMMA DeleteChildren ==
  ASSUME RestTypes, CallServer, plan = "delete"
  PROVE  ChildrenInStep'
<1> DEFINE c == Plans(app)[plan][step]
<1>1. /\ pc = "call" /\ UNCHANGED <<cr, app>> /\ ~Exists(cr)
      /\ \A o \in Objects : Stands(o) => o \in Needed
  BY DEF CallServer, sameCR, RestTypes, RestInv, ChildrenInStep, WorkInStep
<1>2. /\ app \in AllApps /\ step \in DOMAIN Plans(app)[plan] /\ c.object \in Objects
      /\ child \in [Objects -> Nat]
  BY <1>1, AtCall
<1>4. Visited("delete", step + 1) =
        IF c.verb = "get" THEN Visited("delete", step)
        ELSE Visited("delete", step) \cup {c.object}
  BY <1>2, VisitedGrows DEF Handlers
<1>5. /\ Needed' = Needed /\ \A k : Visited("delete", k)' = Visited("delete", k)
      /\ ~Exists(cr') /\ ~Doomed'
  BY <1>1, SamePlans DEF Doomed, Exists
<1>6. \/ Empty /\ UNCHANGED childVars /\ (Continues \/ \E err \in BOOLEAN : Return(err))
      \/ /\ Clearing
         /\ IF c.verb = "get" THEN UNCHANGED childVars ELSE Put(c.object, 0)
         /\ Continues \/ (Return(FALSE) /\ Last)
  BY DeleteCalls
<1>7. Last => Visited("delete", step + 1) = Needed
  BY <1>2, VisitedAll DEF Last
<1> HIDE DEF c
<1>8. CASE Empty /\ UNCHANGED childVars /\ (Continues \/ \E err \in BOOLEAN : Return(err))
  <2>1. Empty' /\ (\A o \in Objects : Stands(o)' => o \in Needed')
    BY <1>1, <1>5, <1>8, SameChildren DEF childVars
  <2>2. \/ pc' = "call" /\ plan' = "delete"
        \/ pc' = "idle"
    BY <1>1, <1>8 DEF Continues, Return, Release
  <2> QED
    BY <1>5, <2>1, <2>2 DEF ChildrenInStep
<1>9. CASE /\ Clearing
           /\ IF c.verb = "get" THEN UNCHANGED childVars ELSE Put(c.object, 0)
           /\ Continues \/ (Return(FALSE) /\ Last)
  <2>1. IF c.verb = "get" THEN child' = child ELSE child' = [child EXCEPT ![c.object] = 0]
    BY <1>9 DEF Put, childVars
  <2>2. \A o \in Objects : Stands(o)' <=> o \in Needed \ Visited("delete", step + 1)
    <3>1. CASE c.verb = "get"
      BY <1>4, <1>9, <2>1, <3>1 DEF Clearing, Stands
    <3>2. CASE c.verb # "get"
      BY <1>2, <1>4, <1>9, <2>1, <3>2 DEF Clearing, Stands
    <3> QED
      BY <3>1, <3>2
  <2>3. \A o \in Objects : Stands(o)' => o \in Needed'
    BY <1>5, <2>2
  <2>5. CASE Continues
    <3>1. pc' = "call" /\ plan' = "delete" /\ Clearing'
      BY <1>1, <1>5, <2>2, <2>5 DEF Continues, Clearing
    <3> QED
      BY <1>5, <2>3, <3>1 DEF ChildrenInStep
  <2>6. CASE Return(FALSE) /\ Last
    <3>1. pc' = "idle" /\ Empty'
      BY <1>7, <2>2, <2>6 DEF Return, Release, Empty
    <3> QED
      BY <1>5, <2>3, <3>1 DEF ChildrenInStep
  <2> QED
    BY <1>9, <2>5, <2>6
<1> QED
  BY <1>6, <1>8, <1>9

LEMMA CallInStep ==
  ASSUME RestTypes, CallServer
  PROVE  RestInv'
<1> DEFINE c == Plans(app)[plan][step]
<1>1. /\ pc = "call" /\ UNCHANGED <<cr, rv, crCache, watch, app>>
      /\ CachesInStep /\ ChildTypeOK
      /\ NewsInStep /\ WorkInStep /\ NewsServed
      /\ plan \in Handlers /\ (plan = "delete" => ~Exists(cr))
      /\ plan # "delete" => Exists(cr) /\ cr.fin
  BY AtCall, TypeParts DEF CallServer, sameCR, RestTypes, RestInv, OrderInv, WorkInStep
<1>2. /\ c.object \in Objects /\ child \in [Objects -> Nat] /\ obj.conf \in Nat \ {0}
      /\ app \in AllApps /\ step \in DOMAIN Plans(app)[plan]
  BY <1>1, AtCall
<1>3. plan \in {"get", "create", "update", "delete"}
  BY <1>1 DEF Handlers
<1>4. ChildrenInStep'
  BY <1>3, GetChildren, CreateChildren, UpdateChildren, DeleteChildren
\* The worker goes on, by the same version, or lets go; what it leaves if it
\* returns without an error.
<1>5. /\ \/ Continues
         \/ plan # "delete" /\ (Turns("create") \/ Turns("update"))
         \/ Return(TRUE)
         \/ Return(FALSE) /\ (Live => \A o \in Needed :
                                 /\ child'[o] # 0
                                 /\ o \in Updated => child'[o] = obj.conf)
      /\ \/ UNCHANGED childVars
         \/ /\ Put(c.object, obj.conf) /\ plan # "delete"
            /\ Live \/ Stands(c.object)
         \/ Put(c.object, 0) /\ plan = "delete"
  <2>1. CASE plan = "get"
    BY <2>1, GetCalls
  <2>2. CASE plan = "create"
    <3>1. Last => Visited("create", step + 1) = Needed
      BY <1>2, <2>2, VisitedAll DEF Last
    <3>2. Visited("create", step + 1) = Visited("create", step) \cup {c.object}
      <4>1. c.verb # "get"
        BY <1>2, <2>2, PlanShapes DEF IsCreation
      <4> QED
        BY <1>2, <2>2, <4>1, VisitedGrows DEF Handlers
    <3>3. Building /\ Last /\ Put(c.object, obj.conf) =>
            \A o \in Needed : child'[o] = obj.conf
      BY <1>2, <3>1, <3>2, PlanShapes DEF Building, Put
    <3> HIDE DEF c
    <3>4. \/ Full /\ UNCHANGED childVars /\ (Continues \/ Return(TRUE) \/ Turns("update"))
          \/ /\ Live /\ Building /\ Put(c.object, obj.conf)
             /\ Continues \/ (Return(FALSE) /\ Last)
      BY <2>2, CreateCalls DEF c
    <3> QED
      BY <1>2, <2>2, <3>3, <3>4
  <2>3. CASE plan = "update"
    <3>1. Last => Visited("update", step + 1) = Needed \cap Updated
      BY <1>2, <2>3, VisitedAll DEF Last
    <3>2. Visited("update", step + 1) = Visited("update", step) \cup {c.object}
          /\ c.object \in Needed
      <4>1. c.verb # "get" /\ c.object \in Needed
        BY <1>2, <2>3, PlanShapes DEF IsUpdate
      <4> QED
        BY <1>2, <2>3, <4>1, VisitedGrows DEF Handlers
    <3>3. \A o \in Visited("update", step) : child[o] = obj.conf
      BY <1>1, <2>3 DEF RestTypes, RestInv, ChildrenInStep
    <3>4. Full /\ Last /\ Put(c.object, obj.conf) =>
            \A o \in Needed : child'[o] # 0 /\ (o \in Updated => child'[o] = obj.conf)
      BY <1>2, <3>1, <3>2, <3>3, PlanShapes DEF Full, Stands, Put
    <3> HIDE DEF c
    <3>5. \/ UNCHANGED childVars /\ (Return(TRUE) \/ Turns("create"))
          \/ Full /\ Put(c.object, obj.conf) /\ (Continues \/ (Return(FALSE) /\ Last))
      BY <2>3, UpdateCalls DEF c
    <3>6. Full => Stands(c.object)
      BY <3>2 DEF Full
    <3> QED
      BY <2>3, <3>4, <3>5, <3>6
  <2>4. CASE plan = "delete"
    <3>1. ~Live
      BY <1>1, <2>4 DEF Live
    <3> HIDE DEF c
    <3>2. \/ Empty /\ UNCHANGED childVars /\ (Continues \/ \E err \in BOOLEAN : Return(err))
          \/ /\ Clearing
             /\ IF c.verb = "get" THEN UNCHANGED childVars ELSE Put(c.object, 0)
             /\ Continues \/ (Return(FALSE) /\ Last)
      BY <2>4, DeleteCalls DEF c
    <3> QED
      BY <2>4, <3>1, <3>2
  <2> QED
    BY <1>3, <2>1, <2>2, <2>3, <2>4
<1> HIDE DEF c
<1>6. CachesInStep'
  <2>1. CASE UNCHANGED childVars
    BY <1>1, <2>1 DEF CachesInStep, CacheInStep, childVars, Stands, Live, Exists
  <2>2. CASE Put(c.object, obj.conf) /\ (Live \/ Stands(c.object))
    BY <1>1, <1>2, <2>2, PutCaches
  <2>3. CASE Put(c.object, 0) /\ plan = "delete"
    BY <1>1, <1>2, <2>3, PutCaches DEF Live
  <2> QED
    BY <1>5, <2>1, <2>2, <2>3
<1>7. \/ /\ pc' = "call" /\ obj' = obj /\ queued' = queued
         /\ plan' = plan \/ plan' \in {"create", "update"}
         /\ plan' = "delete" <=> plan = "delete"
      \/ pc' = "idle"
  BY <1>1, <1>5 DEF Continues, Turns, Return, Release
<1>8. NewsInStep'
  <2>1. Exists(cr) => cr.fin
    BY <1>1
  <2>2. ~(watch = <<cr>> /\ ~Exists(crCache)) \/ (watch = <<>> /\ crCache = cr)
    BY <1>1 DEF NewsInStep
  <2> QED
    BY <1>1, <2>1, <2>2 DEF NewsInStep, Live, Exists
<1>9. WorkInStep'
  BY <1>1, <1>7 DEF WorkInStep, Exists
<1>10. NewsServed'
  <2> SUFFICES ASSUME NoNews' PROVE
                 /\ Live' => IF pc' = "idle" THEN cr'.fin /\ Provisioned(Updated)'
                             ELSE obj'.conf = cr'.conf /\ ~obj'.del
                 /\ ~Doomed'
    BY DEF NewsServed
  <2>1. ~queued' /\ (watch = <<>> \/ (Exists(crCache) /\ ~crCache.fin))
    BY <1>1 DEF NoNews, Exists
  <2>2. ~Doomed /\ (Live => obj.conf = cr.conf /\ ~obj.del)
    <3>1. ~queued
      BY <1>5, <2>1, Zenon DEF Return, Continues, Turns
    <3>2. NoNews
      BY <2>1, <3>1 DEF NoNews
    <3> QED
      BY <1>1, <3>2 DEF NewsServed
  <2>3. (Live' <=> Live) /\ (Doomed' <=> Doomed) /\ Needed' = Needed /\ Updated' = Updated
    BY <1>1, SamePlans DEF Live, Doomed, Exists
  <2>4. ~Return(TRUE)
    BY <2>1 DEF Return
  <2>5. ASSUME Live PROVE IF pc' = "idle" THEN cr'.fin /\ Provisioned(Updated)'
                          ELSE obj'.conf = cr'.conf /\ ~obj'.del
    <3>1. CASE pc' = "idle"
      <4>1. \A o \in Needed : child'[o] # 0 /\ (o \in Updated => child'[o] = obj.conf)
        BY <1>1, <1>5, <2>4, <2>5, <3>1 DEF Continues, Turns
      <4>2. Provisioned(Updated)'
        BY <1>1, <2>2, <2>3, <2>5, <4>1 DEF Provisioned, Stands
      <4> QED
        BY <1>1, <2>5, <3>1, <4>2 DEF Live
    <3>2. CASE pc' # "idle"
      BY <1>1, <1>7, <2>2, <2>5, <3>2
    <3> QED
      BY <3>1, <3>2
  <2> QED
    BY <2>2, <2>3, <2>5
<1> QED
  BY <1>4, <1>6, <1>8, <1>9, <1>10 DEF RestInv

-----------------------------------------------------------------------------
(* The reconciliation begins. *)

LEMMA TakeInStep ==
  ASSUME RestTypes, ReconcileNotFound \/ Reconcile
  PROVE  RestInv'
<1>1. /\ pc = "idle" /\ queued /\ queued' = FALSE
      /\ UNCHANGED <<cr, rv, crCache, watch, app, child, shown, lag>>
      /\ ChildrenInStep /\ CachesInStep /\ NewsInStep /\ WorkInStep /\ app \in AllApps
  BY AppsAssumption DEF ReconcileNotFound, Reconcile, Take, childVars, RestTypes, RestInv,
     OrderInv, TypeInv, TypeOK
<1>2. /\ (Live' <=> Live) /\ (Doomed' <=> Doomed) /\ Needed' = Needed /\ Updated' = Updated
      /\ (Full' <=> Full) /\ (Empty' <=> Empty) /\ (UpdatesFirst' <=> UpdatesFirst)
      /\ \A o : Stands(o)' <=> Stands(o)
  BY <1>1, SamePlans, SameChildren DEF Live, Doomed, Exists
<1>3. /\ \A o \in Objects : Stands(o) => o \in Needed
      /\ Full \/ Empty
      /\ Doomed => Full
      /\ ~Exists(cr) => Empty
      /\ ~(Empty /\ Full)
  BY <1>1, EmptyOrFull DEF ChildrenInStep
<1>4. CachesInStep'
  BY <1>1 DEF CachesInStep, CacheInStep, Stands, Live, Exists
<1>5. CASE ReconcileNotFound
  <2>1. ~Exists(crCache) /\ UNCHANGED workerVars
    BY <1>5 DEF ReconcileNotFound
  <2>2. watch = <<>> /\ crCache = cr
    BY <1>1, <2>1 DEF NewsInStep
  <2>3. ChildrenInStep'
    BY <1>1, <1>2, <1>3, <2>1 DEF ChildrenInStep, workerVars, Exists
  <2>4. NewsInStep' /\ WorkInStep'
    BY <1>1, <2>1, <2>2 DEF NewsInStep, WorkInStep, Exists, workerVars
  <2>5. NewsServed'
    BY <1>1, <2>1, <2>2 DEF NewsServed, Live, Doomed, Exists
  <2> QED
    BY <1>4, <2>3, <2>4, <2>5 DEF RestInv
<1>6. CASE Reconcile
  <2>1. /\ Exists(crCache) /\ obj' = crCache
        /\ \/ pc' = "removeFinalizer" /\ crCache.del
           \/ pc' = "addFinalizer" /\ ~crCache.del /\ ~crCache.fin
           \/ pc' = "call" /\ plan' = FirstPlan /\ step' = 1 /\ ~crCache.del /\ crCache.fin
    BY <1>6 DEF Reconcile, Begin
  <2>2. crCache.conf > 0
    BY <1>1, <2>1 DEF NewsInStep
  <2>3. \/ watch = <<>> /\ crCache = cr
        \/ /\ watch = <<cr>> /\ crCache.rv # cr.rv
           /\ crCache.del => ~Exists(cr)
           /\ ~crCache.del => Exists(cr) /\ cr.fin
           /\ ~crCache.del /\ ~crCache.fin => Live /\ crCache.conf = cr.conf
    BY <1>1, <2>1 DEF NewsInStep
  <2>4. ChildrenInStep'
    <3>1. CASE pc' \in {"removeFinalizer", "addFinalizer"}
      BY <1>2, <1>3, <1>1, <3>1 DEF ChildrenInStep, Exists
    <3>2. CASE pc' = "call"
      <4>1. /\ plan' \in {"get", "create", "update"}
            /\ plan' = "update" => UpdatesFirst
        BY <2>1, <3>2 DEF FirstPlan, UpdatesFirst
      <4>2. Exists(cr)
        BY <2>1, <2>3, <3>2
      <4>3. CASE plan' = "get"
        BY <1>1, <1>2, <1>3, <3>2, <4>2, <4>3 DEF ChildrenInStep, Exists
      <4>4. CASE plan' = "create" \/ plan' = "update"
        BY <1>1, <1>3, <2>1, <3>2, <4>1, <4>2, <4>4, TurnsInStep
      <4> QED
        BY <4>1, <4>3, <4>4
    <3> QED
      BY <2>1, <3>1, <3>2
  <2>5. NewsInStep'
    <3>1. Exists(cr) /\ ~cr.fin /\ watch = <<>> => pc' = "addFinalizer" /\ obj' = cr
      BY <1>1, <2>1, <2>3 DEF NewsInStep, Live
    <3>2. UNCHANGED <<cr, crCache, watch>> /\ (Live' <=> Live) /\ (Empty' <=> Empty)
      BY <1>1, <1>2
    <3>3. Exists(crCache)
      BY <2>1
    <3>4. /\ \A v \in {cr, crCache} : Exists(v) => v.conf > 0
          /\ ~Exists(cr) => cr = NoObject
          /\ Exists(cr) /\ ~cr.fin => Live /\ Empty
          /\ \/ watch = <<>> /\ crCache = cr
             \/ /\ watch = <<cr>> /\ crCache.rv # cr.rv
                /\ CASE ~Exists(crCache) -> Live /\ ~cr.fin /\ pc' = "idle" /\ ~queued'
                     [] Exists(crCache) /\ crCache.del -> ~Exists(cr)
                     [] OTHER -> /\ Exists(cr) /\ cr.fin
                                 /\ ~crCache.fin => Live /\ crCache.conf = cr.conf
      BY <1>1, <2>3, <3>3 DEF NewsInStep
    <3> QED
      BY <3>1, <3>2, <3>4 DEF NewsInStep, Exists
  <2>6. WorkInStep'
    <3>1. pc' = "addFinalizer" =>
            /\ Live /\ obj'.conf = cr.conf
            /\ IF cr.fin THEN obj'.rv # cr.rv ELSE obj' = cr /\ watch = <<>>
      BY <1>1, <2>1, <2>3 DEF Live
    <3>2. pc' = "removeFinalizer" /\ Exists(cr) => obj' = cr /\ watch = <<>>
      BY <2>1, <2>3
    <3>3. pc' = "call" => /\ plan' # "delete" /\ Exists(cr) /\ cr.fin
                          /\ plan' = "get" => app \notin {"jicofo", "etherpad", "whiteboard"}
      BY <2>1, <2>3 DEF FirstPlan
    <3> QED
      BY <1>1, <1>2, <2>1, <2>2, <3>1, <3>2, <3>3 DEF WorkInStep, Exists
  <2>7. NewsServed'
    <3> SUFFICES ASSUME NoNews'
                 PROVE  /\ Live => obj'.conf = cr.conf /\ ~obj'.del
                        /\ Doomed => pc' = "removeFinalizer"
      BY <1>1, <1>2, <2>1 DEF NewsServed
    <3>1. watch = <<>> \/ (Exists(crCache) /\ ~crCache.fin)
      BY <1>1 DEF NoNews, Exists
    <3> QED
      BY <2>1, <2>3, <3>1 DEF Live, Doomed
  <2> QED
    BY <1>4, <2>4, <2>5, <2>6, <2>7 DEF RestInv
<1> QED
  BY <1>5, <1>6

-----------------------------------------------------------------------------
(* Steps that leave the children alone. *)

LEMMA ChildrenStay ==
  ASSUME ChildrenInStep, UNCHANGED <<cr, app, pc, plan, step, obj, child>>
  PROVE  ChildrenInStep'
<1>1. /\ (Full' <=> Full) /\ (Empty' <=> Empty) /\ (Live' <=> Live) /\ (Doomed' <=> Doomed)
      /\ Needed' = Needed /\ (UpdatesFirst' <=> UpdatesFirst)
      /\ \A p, k : Visited(p, k)' = Visited(p, k)
      /\ \A o : Stands(o)' <=> Stands(o)
  BY SamePlans, SameChildren
<1>2. Visited("create", step)' = Visited("create", step)
      /\ Visited("update", step)' = Visited("update", step)
      /\ Visited("delete", step)' = Visited("delete", step)
  BY <1>1 DEF Visited
<1>3. (Building' <=> Building) /\ (Clearing' <=> Clearing)
  BY <1>1, <1>2 DEF Building, Clearing
<1> QED
  BY <1>1, <1>2, <1>3 DEF ChildrenInStep, Exists

LEMMA SameRest ==
  ASSUME RestInv, CachesInStep',
         UNCHANGED <<cr, crCache, watch, queued, app, pc, plan, step, obj, child>>
  PROVE  RestInv'
<1>1. ChildrenInStep'
  BY ChildrenStay DEF RestInv
<1>2. /\ (Live' <=> Live) /\ (Doomed' <=> Doomed) /\ (Empty' <=> Empty)
      /\ Needed' = Needed /\ Updated' = Updated /\ \A o : Stands(o)' <=> Stands(o)
  BY SamePlans, SameChildren
<1>3. NewsInStep'
  BY <1>2 DEF RestInv, NewsInStep, Exists
<1>4. WorkInStep'
  BY <1>2 DEF RestInv, WorkInStep, Exists
<1>5. NewsServed'
  <2>1. Provisioned(Updated)' <=> Provisioned(Updated)
    BY <1>2 DEF Provisioned
  <2>2. NoNews' <=> NoNews
    BY DEF NoNews, Exists
  <2> QED
    BY <1>2, <2>1, <2>2 DEF RestInv, NewsServed
<1> QED
  BY <1>1, <1>3, <1>4, <1>5 DEF RestInv

LEMMA ChildNewsInStep ==
  ASSUME RestTypes, NEW o \in Objects, ReceiveChild(o) \/ Touch(o)
  PROVE  RestInv'
<1>1. CachesInStep /\ ChildTypeOK
  BY TypeParts DEF RestTypes, RestInv, OrderInv
<1>2. CachesInStep'
  BY <1>1, ReceiveCaches, TouchCaches
<1> QED
  BY <1>2, SameRest DEF RestTypes, ReceiveChild, Touch, crVars, workerVars

LEMMA NothingInStep ==
  ASSUME RestTypes, UNCHANGED vars
  PROVE  RestInv'
<1>1. CachesInStep'
  BY DEF RestTypes, RestInv, CachesInStep, CacheInStep, Stands, Live, Exists, vars, childVars,
     crVars
<1> QED
  BY <1>1, SameRest DEF RestTypes, vars, crVars, workerVars, childVars

LEMMA ResyncInStep ==
  ASSUME RestTypes, PeriodicResync
  PROVE  RestInv'
<1>1. /\ RestInv /\ Exists(crCache) /\ queued' = TRUE
      /\ UNCHANGED <<cr, crCache, watch, app, pc, plan, step, obj, child, shown, lag>>
  BY DEF RestTypes, PeriodicResync, Resync, workerVars, childVars
<1>2. ChildrenInStep'
  BY <1>1, ChildrenStay DEF RestInv
<1>3. /\ (Live' <=> Live) /\ (Empty' <=> Empty) /\ \A o : Stands(o)' <=> Stands(o)
  BY <1>1, SameChildren
<1>4. CachesInStep'
  BY <1>1, <1>3 DEF RestInv, CachesInStep, CacheInStep
<1>5. NewsInStep'
  BY <1>1, <1>3 DEF RestInv, NewsInStep, Exists
<1>6. WorkInStep'
  BY <1>1, <1>3 DEF RestInv, WorkInStep, Exists
<1>7. NewsServed'
  BY <1>1 DEF NewsServed, NoNews
<1> QED
  BY <1>2, <1>4, <1>5, <1>6, <1>7 DEF RestInv

\* What the informer is shown, alone or in a list, is the stored version.
LEMMA NewsArrives ==
  ASSUME RestTypes, ReceiveVersion \/ ReceiveList
  PROVE  RestInv'
<1>1. /\ RestInv /\ watch # <<>> /\ watch = <<cr>> /\ crCache.rv # cr.rv
      /\ UNCHANGED <<cr, app, pc, plan, step, obj, child, shown, lag>>
  BY DEF RestTypes, RestInv, NewsInStep, ReceiveVersion, ReceiveList, Deliver, Relist,
     workerVars, childVars
<1>2. crCache' = cr /\ watch' = <<>> /\ (queued' <=> queued \/ Wanted(cr))
  <2>1. Head(<<cr>>) = cr /\ Tail(<<cr>>) = <<>> /\ crCache # cr
    BY <1>1
  <2>2. CASE ReceiveVersion
    <3>1. Head(watch) = cr /\ Tail(watch) = <<>>
      BY <1>1, <2>1
    <3> QED
      BY <2>2, <3>1, Zenon DEF ReceiveVersion, Deliver
  <2>3. CASE ReceiveList
    BY <2>1, <2>3, Zenon DEF ReceiveList, Relist
  <2> QED
    BY <2>2, <2>3
<1>3. ChildrenInStep'
  BY <1>1, ChildrenStay DEF RestInv
<1>4. /\ (Live' <=> Live) /\ (Doomed' <=> Doomed) /\ (Empty' <=> Empty)
      /\ Needed' = Needed /\ Updated' = Updated /\ \A o : Stands(o)' <=> Stands(o)
  BY <1>1, SamePlans, SameChildren
<1>5. CachesInStep'
  BY <1>1, <1>4 DEF RestInv, CachesInStep, CacheInStep
<1>6. CASE ~Exists(crCache)
  <2>1. queued' /\ Live /\ ~cr.fin /\ pc = "idle"
    BY <1>1, <1>2, <1>6 DEF Wanted, RestInv, NewsInStep
  <2>2. NewsInStep'
    BY <1>1, <1>2, <1>4, <2>1 DEF RestInv, NewsInStep, Exists
  <2>3. WorkInStep'
    BY <1>1, <2>1 DEF WorkInStep
  <2>4. NewsServed'
    BY <2>1 DEF NewsServed, NoNews
  <2> QED
    BY <1>3, <1>5, <2>2, <2>3, <2>4 DEF RestInv
<1>7. CASE Exists(crCache)
  <2>1. /\ crCache.del => ~Exists(cr)
        /\ ~crCache.del => Exists(cr) /\ cr.fin
        /\ ~crCache.del /\ ~crCache.fin => Live
        /\ Exists(cr) => cr.fin
    BY <1>1, <1>7 DEF RestInv, NewsInStep
  <2>2. NewsInStep'
    BY <1>1, <1>2, <1>4, <2>1 DEF RestInv, NewsInStep, Exists
  <2>3. WorkInStep'
    BY <1>1, <1>2, <1>4, <2>1 DEF RestInv, WorkInStep, Exists
  <2>4. NewsServed'
    <3> SUFFICES ASSUME NoNews', Live \/ Doomed
                 PROVE  /\ Live => IF pc = "idle" THEN cr.fin /\ Provisioned(Updated)
                                   ELSE obj.conf = cr.conf /\ ~obj.del
                        /\ Doomed => pc = "removeFinalizer"
      <4>1. Provisioned(Updated)' <=> Provisioned(Updated)
        BY <1>1, <1>4 DEF Provisioned
      <4> QED
        BY <1>1, <1>4, <4>1 DEF NewsServed
    <3>1. ~queued /\ ~Wanted(cr)
      BY <1>2 DEF NoNews
    <3>2. Exists(cr) /\ ~crCache.del
      BY <2>1 DEF Live, Doomed
    <3>3. ~crCache.fin
      BY <3>1, <3>2 DEF Wanted, isSpecUpdated
    <3>4. NoNews
      BY <1>7, <3>1, <3>3 DEF NoNews
    <3> QED
      BY <1>1, <3>4 DEF RestInv, NewsServed
  <2> QED
    BY <1>3, <1>5, <2>2, <2>3, <2>4 DEF RestInv
<1> QED
  BY <1>6, <1>7

-----------------------------------------------------------------------------
(* The finalizer comes and goes. *)

LEMMA FirstPlanInStep ==
  ASSUME UNCHANGED <<child, app>>, Live', Begin(FirstPlan),
         \A o \in Objects : Stands(o) => o \in Needed, Full \/ Empty
  PROVE  ChildrenInStep'
<1>1. /\ pc' = "call" /\ step' = 1 /\ plan' \in {"get", "create", "update"}
      /\ plan' = "update" => UpdatesFirst
  BY DEF Begin, FirstPlan, UpdatesFirst
<1>2. Visited("create", 1) = {} /\ Visited("update", 1) = {}
  BY DEF Visited
<1>3. /\ Visited("create", step)' = {} /\ Visited("update", step)' = {}
      /\ Needed' = Needed /\ (UpdatesFirst' <=> UpdatesFirst)
  BY <1>1, <1>2, SamePlans
<1>4. \A o : Stands(o)' <=> Stands(o)
  BY DEF Stands
<1>5. (Full' <=> Full) /\ (Empty' <=> Empty)
  BY <1>3, <1>4 DEF Full, Empty
<1>6. Empty => Building'
  BY <1>3 DEF Empty, Building, Stands
<1>7. Exists(cr)' /\ ~Doomed'
  BY DEF Live, Doomed
<1> QED
  BY <1>1, <1>3, <1>4, <1>5, <1>6, <1>7 DEF ChildrenInStep

LEMMA AddFinalizerInStep ==
  ASSUME RestTypes, AddFinalizerCall, faults' = faults
  PROVE  RestInv'
<1>1. /\ pc = "addFinalizer" /\ Begin(FirstPlan) /\ RestInv
      /\ pc' = "call" /\ plan' = FirstPlan
      /\ UNCHANGED <<crCache, queued, app, child, shown, lag>>
  BY DEF AddFinalizerCall, Begin, RestTypes, childVars
<1>2. /\ cr \in Version /\ obj \in Version /\ rv \in Nat /\ cr.rv <= rv /\ faults \in Nat
      /\ cr.rv \in Nat /\ app \in AllApps
  BY OrderFacts, AppsAssumption, AppBoundsAssumption
     DEF RestTypes, Ordered, Circulation, TypeInv, TypeOK, Version
<1>3. /\ Live /\ obj.conf = cr.conf /\ obj.conf > 0
      /\ IF cr.fin THEN obj.rv # cr.rv ELSE obj = cr /\ watch = <<>>
      /\ \A o \in Objects : Stands(o) => o \in Needed
      /\ Full \/ Empty
  BY <1>1 DEF RestInv, WorkInStep, ChildrenInStep
<1>4. plan' \in {"get", "create", "update"}
      /\ (plan' = "get" => app \notin {"jicofo", "etherpad", "whiteboard"})
  BY <1>1 DEF FirstPlan
<1>5. CASE AddFinalizer(obj) /\ obj' = cr'
  <2>1. ~cr.fin /\ obj = cr /\ watch = <<>> /\ crCache = cr
    BY <1>1, <1>3, <1>5 DEF AddFinalizer, Current, RestInv, NewsInStep
  <2> DEFINE v == Stored(Defaulted([cr EXCEPT !.fin = TRUE]))
  <2>2. v.fin /\ ~v.del /\ v.conf = cr.conf /\ v.rv = rv + 1
    <3> DEFINE w == [cr EXCEPT !.fin = TRUE]
    <3>1. w \in Version /\ w.fin /\ ~w.del /\ w.conf = cr.conf
      BY <1>2, <1>3 DEF Version, Live
    <3> HIDE DEF w
    <3>2. Defaulted(w) \in Version
      BY <3>1, DefaultedType
    <3>3. Defaulted(w).fin /\ ~Defaulted(w).del /\ Defaulted(w).conf = cr.conf
      BY <3>1 DEF Defaulted, Version
    <3>4. \A x \in Version : Stored(x).fin = x.fin /\ Stored(x).del = x.del
      BY DEF Stored, Version
    <3> QED
      BY <3>2, <3>3, <3>4, StoredFields DEF w
  <2>3. cr' = v /\ watch' = <<cr'>>
    <3>1. Append(<<>>, v) = <<v>>
      OBVIOUS
    <3> QED
      BY <1>5, <2>1, <3>1 DEF AddFinalizer, Store
  <2> HIDE DEF v
  <2>4. /\ Exists(cr') /\ cr'.fin /\ ~cr'.del /\ cr'.conf = cr.conf /\ crCache'.rv # cr'.rv
        /\ Live' /\ ~Doomed'
    BY <1>1, <1>2, <2>1, <2>2, <2>3 DEF Exists, Live, Doomed
  <2>5. ChildrenInStep'
    BY <1>1, <1>3, <2>4, FirstPlanInStep
  <2>6. CachesInStep'
    BY <1>1, <1>3, <2>4 DEF RestInv, CachesInStep, CacheInStep, Stands
  <2>7. NewsInStep'
    <3>1. Exists(crCache) /\ ~crCache.del /\ ~crCache.fin /\ crCache.conf > 0
      BY <1>3, <2>1 DEF Live
    <3>2. cr'.conf > 0
      BY <1>3, <2>4
    <3> QED
      BY <1>1, <2>1, <2>3, <2>4, <3>1, <3>2 DEF NewsInStep, Exists
  <2>8. WorkInStep'
    BY <1>1, <1>3, <1>4, <1>5, <2>4 DEF WorkInStep
  <2>9. NewsServed'
    BY <1>1, <1>5, <2>4 DEF NewsServed
  <2> QED
    BY <2>5, <2>6, <2>7, <2>8, <2>9 DEF RestInv
<1>6. CASE /\ ~Current(obj) /\ obj' = [obj EXCEPT !.fin = TRUE]
           /\ UNCHANGED <<cr, rv, watch>>
  <2>1. Exists(cr) /\ ~cr.del /\ cr.fin
    BY <1>3, <1>6 DEF Current, Live
  <2>2. obj'.conf = obj.conf /\ obj'.del = obj.del
    BY <1>2, <1>6 DEF Version
  <2>3. /\ (Live' <=> Live) /\ (Doomed' <=> Doomed) /\ (Empty' <=> Empty)
        /\ \A o : Stands(o)' <=> Stands(o)
    BY <1>1, <1>6, SameChildren
  <2>4. ChildrenInStep'
    BY <1>1, <1>3, <2>3, FirstPlanInStep
  <2>5. CachesInStep'
    BY <1>1, <2>3 DEF RestInv, CachesInStep, CacheInStep
  <2>6. NewsInStep'
    <3>1. /\ \/ watch = <<>> /\ crCache = cr
             \/ /\ watch = <<cr>> /\ crCache.rv # cr.rv
                /\ Exists(crCache) /\ ~crCache.del
                /\ ~crCache.fin => Live /\ crCache.conf = cr.conf
          /\ \A v \in {cr, crCache} : Exists(v) => v.conf > 0
      BY <1>1, <2>1 DEF RestInv, NewsInStep
    <3>2. UNCHANGED <<cr, crCache, watch>>
      BY <1>1, <1>6
    <3> QED
      BY <2>1, <2>3, <3>1, <3>2 DEF NewsInStep, Exists
  <2>7. WorkInStep'
    BY <1>1, <1>3, <1>4, <1>6, <2>1, <2>2 DEF WorkInStep, Exists
  <2>8. NewsServed'
    <3> SUFFICES ASSUME NoNews'
                 PROVE  (Live => obj'.conf = cr.conf /\ ~obj'.del) /\ ~Doomed
      BY <1>1, <1>6, <2>3 DEF NewsServed
    <3>1. NoNews
      BY <1>1, <1>6 DEF NoNews, Exists
    <3> QED
      BY <1>1, <2>2, <3>1 DEF RestInv, NewsServed
  <2> QED
    BY <2>4, <2>5, <2>6, <2>7, <2>8 DEF RestInv
<1>7. ~Fault
  BY <1>2 DEF Fault
<1> QED
  BY <1>5, <1>6, <1>7 DEF AddFinalizerCall

LEMMA RemoveFinalizerInStep ==
  ASSUME RestTypes, RemoveFinalizerCall, faults' = faults
  PROVE  RestInv'
<1>1. /\ pc = "removeFinalizer" /\ pc' = "call" /\ plan' = "delete" /\ step' = 1 /\ RestInv
      /\ UNCHANGED <<crCache, queued, app, child, shown, lag>>
      /\ obj' = [obj EXCEPT !.fin = FALSE]
  BY DEF RemoveFinalizerCall, Begin, RestTypes, childVars
<1>2. obj \in Version /\ faults \in Nat /\ obj.del
  BY <1>1, OrderFacts, AppBoundsAssumption
     DEF RestTypes, TypeInv, TypeOK, Version, WorkOK
<1>3. obj'.conf = obj.conf /\ obj.conf > 0
  BY <1>1, <1>2 DEF RestInv, WorkInStep, Version
<1>4. /\ \A o \in Objects : Stands(o) => o \in Needed
      /\ Full \/ Empty
      /\ ~Exists(cr) => Empty
      /\ Doomed => Full
  BY <1>1 DEF RestInv, ChildrenInStep
<1>5. Visited("delete", step)' = {}
  BY <1>1 DEF Visited
<1>6. /\ Needed' = Needed /\ (\A o : Stands(o)' <=> Stands(o)) /\ (Empty' <=> Empty)
  BY <1>1, SamePlans DEF Stands, Empty
<1>7. Full => Clearing'
  BY <1>4, <1>5, <1>6 DEF Full, Clearing
\* Once the resource is gone; it was doomed or gone before.
<1>8. ASSUME ~Exists(cr'), ~Live, NewsInStep', Full \/ Empty PROVE RestInv'
  <2>1. ~Live' /\ ~Doomed'
    BY <1>8 DEF Live, Doomed
  <2>2. ChildrenInStep'
    BY <1>1, <1>4, <1>6, <1>7, <1>8, <2>1 DEF ChildrenInStep
  <2>3. CachesInStep'
    BY <1>1, <1>6, <1>8, <2>1 DEF RestInv, CachesInStep, CacheInStep
  <2>4. WorkInStep' /\ NewsServed'
    BY <1>1, <1>3, <1>8, <2>1 DEF WorkInStep, NewsServed
  <2> QED
    BY <1>8, <2>2, <2>3, <2>4 DEF RestInv
<1>9. CASE RemoveFinalizer(obj)
  <2>1. /\ Exists(cr) /\ obj = cr /\ watch = <<>> /\ crCache = cr /\ cr.del
        /\ cr' = NoObject /\ watch' = <<NoObject>>
    <3>1. Append(<<>>, NoObject) = <<NoObject>>
      OBVIOUS
    <3> QED
      BY <1>1, <1>2, <1>9, <3>1
         DEF RemoveFinalizer, Current, Remove, RestInv, WorkInStep, NewsInStep
  <2>2. ~Exists(cr') /\ ~Live /\ crCache'.rv # cr'.rv /\ NoObject.rv = 0
    BY <1>1, <2>1 DEF Exists, Live, NoObject
  <2>3. NewsInStep'
    BY <1>1, <2>1, <2>2 DEF RestInv, NewsInStep, Exists
  <2> QED
    BY <1>4, <1>8, <2>2, <2>3
<1>10. CASE ~Current(obj) /\ UNCHANGED <<cr, rv, watch>>
  <2>1. ~Exists(cr) /\ ~Exists(cr')
    BY <1>1, <1>10 DEF Current, RestInv, WorkInStep, Exists
  <2>2. NewsInStep'
    BY <1>1, <1>10, <2>1 DEF RestInv, NewsInStep, Exists, Live
  <2> QED
    BY <1>4, <1>8, <2>1, <2>2 DEF Live
<1>11. ~Fault
  BY <1>2 DEF Fault
<1> QED
  BY <1>9, <1>10, <1>11 DEF RemoveFinalizerCall

-----------------------------------------------------------------------------
(* The users. *)

LEMMA UserNews ==
  ASSUME OrderInv, User, Exists(cr) => cr.conf > 0 /\ ~cr.del /\ cr.fin
  PROVE  /\ watch' = Append(watch, cr') /\ UNCHANGED <<crCache, queued>>
         /\ Exists(cr') /\ cr'.conf > 0 /\ cr'.rv > rv
         /\ IF Exists(cr) THEN cr'.fin ELSE ~cr'.fin /\ ~cr'.del
<1>1. /\ cr \in Version /\ rv \in Nat /\ edits \in Nat
  BY OrderFacts
<1>2. UNCHANGED <<crCache, queued>>
  BY UserFacts
\* What is sent.
<1>3. \E v \in Version : /\ Store(v) /\ v.conf > 0
                         /\ IF Exists(cr) THEN v.fin ELSE ~v.fin /\ ~v.del
  <2>1. ASSUME NEW n \in ReplicaCounts, UserCreate(n)
        PROVE  \E v \in Version : Store(v) /\ v.conf > 0 /\ ~v.fin /\ ~v.del /\ ~Exists(cr)
    <3> DEFINE v == [NoObject EXCEPT !.replicas = n, !.conf = edits + 1]
    <3>1. n \in 0..MaxReplicas
      BY ReplicasAssumption
    <3>2. v \in Version /\ v.conf = edits + 1 /\ ~v.fin /\ ~v.del
      <4>1. NoObject.fin = FALSE /\ NoObject.del = FALSE
        BY DEF NoObject
      <4>2. \A w \in Version : [w EXCEPT !.replicas = n] \in Version
                              /\ [w EXCEPT !.replicas = n].fin = w.fin
                              /\ [w EXCEPT !.replicas = n].del = w.del
        BY <3>1 DEF Version
      <4>3. \A w \in Version : [w EXCEPT !.conf = edits + 1] \in Version
                              /\ [w EXCEPT !.conf = edits + 1].conf = edits + 1
                              /\ [w EXCEPT !.conf = edits + 1].fin = w.fin
                              /\ [w EXCEPT !.conf = edits + 1].del = w.del
        BY <1>1 DEF Version
      <4>4. v = [[NoObject EXCEPT !.replicas = n] EXCEPT !.conf = edits + 1]
        BY NoObjectIsVersion
      <4> QED
        BY <4>1, <4>2, <4>3, <4>4, NoObjectIsVersion
    <3>3. Store(v) /\ ~Exists(cr)
      BY <2>1 DEF UserCreate
    <3> HIDE DEF v
    <3> QED
      BY <1>1, <3>2, <3>3
  <2>2. ASSUME NEW n \in ReplicaCounts, UserScale(n)
        PROVE  \E v \in Version : Store(v) /\ v.conf > 0 /\ v.fin /\ Exists(cr)
    <3> DEFINE v == [cr EXCEPT !.replicas = n]
    <3>1. n \in 0..MaxReplicas
      BY ReplicasAssumption
    <3>2. v \in Version /\ v.conf = cr.conf /\ v.fin = cr.fin
      BY <1>1, <3>1 DEF Version
    <3>3. Store(v) /\ Exists(cr)
      BY <2>2 DEF UserScale
    <3> HIDE DEF v
    <3> QED
      BY <3>2, <3>3
  <2>3. ASSUME UserReconfigure
        PROVE  \E v \in Version : Store(v) /\ v.conf > 0 /\ v.fin /\ Exists(cr)
    <3> DEFINE v == [cr EXCEPT !.conf = edits + 1]
    <3>1. v \in Version /\ v.conf = edits + 1 /\ v.fin = cr.fin
      BY <1>1 DEF Version
    <3>2. Store(v) /\ Exists(cr)
      BY <2>3 DEF UserReconfigure
    <3> HIDE DEF v
    <3> QED
      BY <1>1, <3>1, <3>2
  <2>4. ASSUME UserDelete
        PROVE  \E v \in Version : Store(v) /\ v.conf > 0 /\ v.fin /\ Exists(cr)
    <3> DEFINE v == [cr EXCEPT !.del = TRUE]
    <3>1. v \in Version /\ v.conf = cr.conf /\ v.fin = cr.fin
      BY <1>1 DEF Version
    <3>2. Store(v) /\ Exists(cr)
      BY <2>4 DEF UserDelete
    <3> HIDE DEF v
    <3> QED
      BY <3>1, <3>2
  <2> QED
    BY <2>1, <2>2, <2>3, <2>4 DEF User
<1>4. PICK v \in Version : /\ Store(v) /\ v.conf > 0
                           /\ IF Exists(cr) THEN v.fin ELSE ~v.fin /\ ~v.del
  BY <1>3
<1>5. Stored(v).fin = v.fin /\ Stored(v).del = v.del
  BY DEF Stored, Version
<1>6. cr' = Stored(v) /\ watch' = Append(watch, cr')
  BY <1>4 DEF Store
<1> QED
  BY <1>1, <1>2, <1>4, <1>5, <1>6, StoredFields DEF Exists

LEMMA UserInStep ==
  ASSUME RestTypes, UserWrite, Patient
  PROVE  RestInv'
<1>1. /\ RestInv /\ pc = "idle" /\ ~queued /\ watch = <<>> /\ User
      /\ \A o \in Objects : lag[o] = <<>>
      /\ UNCHANGED <<app, pc, plan, step, obj, child, shown, lag>>
  BY DEF RestTypes, UserWrite, Settled, Quiet, workerVars, childVars
<1>2. /\ crCache = cr
      /\ ~Doomed
      /\ Live => cr.fin /\ Provisioned(Updated)
  BY <1>1 DEF RestInv, NewsServed, NoNews, NewsInStep
<1>3. /\ \A o \in Objects : Stands(o) => o \in Needed
      /\ Full \/ Empty
      /\ ~Exists(cr) => Empty
  BY <1>1 DEF RestInv, ChildrenInStep
<1>4. Exists(cr) => Live /\ Full /\ cr.conf > 0 /\ ~cr.del /\ cr.fin
  BY <1>1, <1>2 DEF Live, Doomed, Provisioned, Full, RestInv, NewsInStep
<1>5. /\ watch' = <<cr'>> /\ UNCHANGED <<crCache, queued>>
      /\ Exists(cr') /\ cr'.conf > 0 /\ cr'.rv > rv
      /\ IF Exists(cr) THEN cr'.fin ELSE ~cr'.fin /\ ~cr'.del
  <2>1. Append(<<>>, cr') = <<cr'>>
    OBVIOUS
  <2>2. OrderInv
    BY DEF RestTypes
  <2>3. watch' = Append(watch, cr') /\ UNCHANGED <<crCache, queued>>
        /\ Exists(cr') /\ cr'.conf > 0 /\ cr'.rv > rv
        /\ IF Exists(cr) THEN cr'.fin ELSE ~cr'.fin /\ ~cr'.del
    BY <1>1, <1>4, <2>2, UserNews
  <2> QED
    BY <1>1, <2>1, <2>3
<1>6. crCache'.rv # cr'.rv
  <2>1. cr.rv \in Nat /\ cr.rv <= rv /\ rv \in Nat /\ rv' \in Nat /\ cr' \in Version
    BY StepOrder, OrderFacts DEF RestTypes, Ordered, Circulation, Version, Next, OrderInv,
       TypeInv, TypeOK, CRTypeOK
  <2>2. cr'.rv \in Nat
    BY <2>1 DEF Version
  <2> QED
    BY <1>2, <1>5, <2>1, <2>2
<1>7. /\ Needed' = Needed /\ (\A o : Stands(o)' <=> Stands(o)) /\ (Full' <=> Full)
      /\ (Empty' <=> Empty)
  BY <1>1, SamePlans DEF Stands, Empty, Full
<1>8. ChildrenInStep'
  <2>1. Doomed' => Full
    BY <1>4, <1>5 DEF Doomed
  <2> QED
    BY <1>1, <1>3, <1>5, <1>7, <2>1 DEF ChildrenInStep
<1>9. CachesInStep'
  BY <1>1, <1>7 DEF RestInv, CachesInStep, CacheInStep
<1>10. NewsInStep'
  <2>1. CASE Exists(cr)
    BY <1>1, <1>2, <1>4, <1>5, <1>6, <2>1 DEF NewsInStep, Exists
  <2>2. CASE ~Exists(cr)
    <3>1. Live' /\ Empty' /\ ~Exists(crCache)
      BY <1>2, <1>3, <1>5, <1>7, <2>2 DEF Live
    <3> QED
      BY <1>1, <1>5, <1>6, <2>2, <3>1 DEF NewsInStep, Exists
  <2> QED
    BY <2>1, <2>2
<1>11. WorkInStep'
  BY <1>1 DEF WorkInStep
<1>12. NewsServed'
  <2>1. ~NoNews'
    <3>1. watch' # <<>>
      BY <1>5
    <3>2. Exists(crCache) => crCache.fin
      BY <1>2, <1>4
    <3> QED
      BY <1>5, <3>1, <3>2 DEF NoNews, Exists
  <2> QED
    BY <2>1 DEF NewsServed
<1> QED
  BY <1>8, <1>9, <1>10, <1>11, <1>12 DEF RestInv

-----------------------------------------------------------------------------
(* The children at rest. *)

\* No call has failed, the manager has not been restarted, and users have written
\* no configuration that panics.
Smooth == crashes = 0 /\ ~Stumbled
Calm == faults = 0 /\ Smooth
CalmInv == OrderInv /\ (Calm => RestInv)

LEMMA InitRest == Init => RestInv
<1> SUFFICES ASSUME Init PROVE RestInv
  OBVIOUS
<1>1. /\ cr = NoObject /\ crCache = NoObject /\ watch = <<>> /\ ~queued /\ pc = "idle"
      /\ child = [o \in Objects |-> 0] /\ shown = [o \in Objects |-> FALSE]
      /\ lag = [o \in Objects |-> <<>>]
  BY DEF Init, CRInit
<1>2. ~Exists(NoObject)
  BY DEF Exists, NoObject
<1>3. \A o \in Objects : ~Stands(o) /\ ~shown[o] /\ lag[o] = <<>>
  BY <1>1 DEF Stands
<1>4. Empty /\ ~Live /\ ~Doomed
  BY <1>1, <1>2, <1>3 DEF Empty, Live, Doomed
<1>5. ChildrenInStep
  BY <1>1, <1>3, <1>4 DEF ChildrenInStep
<1>6. CachesInStep
  BY <1>3, <1>4 DEF CachesInStep, CacheInStep
<1>7. NewsInStep /\ WorkInStep /\ NewsServed
  BY <1>1, <1>2, <1>4 DEF NewsInStep, WorkInStep, NewsServed
<1> QED
  BY <1>5, <1>6, <1>7 DEF RestInv

\* A configuration keeps its form, and users only add to those they have written.
LEMMA FormsStay ==
  ASSUME OrderInv, [Next]_vars
  PROVE  form' = form /\ app' = app /\ edits \in Nat /\ edits' \in Nat /\ edits <= edits'
<1>1. edits \in Nat
  BY OrderFacts
<1>2. CASE Worker
  <2>1. ReconcileNotFound \/ Reconcile => UNCHANGED <<edits, app, form>>
    BY DEF ReconcileNotFound, Reconcile, Take
  <2>2. AddFinalizerCall => UNCHANGED <<edits, app, form>>
    BY DEF AddFinalizerCall
  <2>3. RemoveFinalizerCall => UNCHANGED <<edits, app, form>>
    BY DEF RemoveFinalizerCall
  <2>4. CallServer \/ CallFails \/ CallStops => UNCHANGED <<edits, app, form>>
    BY DEF CallServer, CallFails, CallStops, sameCR
  <2>5. UNCHANGED <<edits, app, form>>
    BY <1>2, <2>1, <2>2, <2>3, <2>4 DEF Worker
  <2> QED
    BY <1>1, <2>5
<1>3. CASE ReceiveVersion \/ ReceiveList \/ PeriodicResync
  BY <1>1, <1>3 DEF ReceiveVersion, ReceiveList, PeriodicResync, Deliver, Relist, Resync
<1>4. CASE UserWrite
  BY <1>1, <1>4, UserFacts DEF UserWrite
<1>5. CASE \E o \in Objects : ReceiveChild(o) \/ Touch(o)
  <2>1. UNCHANGED <<edits, app, form>>
    BY <1>5 DEF ReceiveChild, Touch, crVars
  <2> QED
    BY <1>1, <2>1
<1>6. CASE Crash
  BY <1>1, <1>6 DEF Crash, RestartInformer
<1>7. CASE UNCHANGED vars
  BY <1>1, <1>7 DEF vars, crVars
<1> QED
  BY <1>2, <1>3, <1>4, <1>5, <1>6, <1>7 DEF Next

LEMMA StumbledStays ==
  ASSUME edits \in Nat, edits' \in Nat, edits <= edits', form' = form, Stumbled
  PROVE  Stumbled'
BY DEF Stumbled

LEMMA SmoothBefore ==
  ASSUME OrderInv, [Next]_vars
  PROVE  Smooth' => Smooth
<1>1. crashes \in Nat
  BY AppBoundsAssumption, OrderFacts DEF TypeInv, TypeOK
<1>2. crashes' = crashes \/ crashes' = crashes + 1
  <2>1. CASE Worker
    BY <2>1 DEF Worker, ReconcileNotFound, Reconcile, Take, AddFinalizerCall,
       RemoveFinalizerCall, CallServer, CallFails, CallStops, sameFaults, faultVars
  <2>2. CASE ~Worker
    BY <2>2 DEF Next, ReceiveVersion, ReceiveList, PeriodicResync, UserWrite, ReceiveChild,
       Touch, Crash, vars, faultVars
  <2> QED
    BY <2>1, <2>2
<1> QED
  BY <1>1, <1>2, FormsStay, StumbledStays DEF Smooth

\* The configuration the worker holds is one that users have written.
LEMMA NoPanic ==
  ASSUME OrderInv, ~Stumbled, obj.conf > 0
  PROVE  \A c : ~Panics(c)
<1>1. obj.conf \in 1..edits
  BY OrderFacts DEF Ordered, Circulation
<1> QED
  BY <1>1 DEF Panics, Stumbled

\* Only Update is refused: the worker tries again, and nothing has changed.
LEMMA StopInStep ==
  ASSUME RestTypes, CallStops, ~Stumbled
  PROVE  RestInv'
<1> DEFINE c == Plans(app)[plan][step]
<1>1. /\ pc = "call" /\ pc' = "idle" /\ queued'
      /\ UNCHANGED <<cr, crCache, watch, app, child, shown, lag>>
  BY StopOK DEF RestTypes, OrderInv, childVars
<1>2. /\ app \in AllApps /\ plan \in Handlers /\ step \in DOMAIN Plans(app)[plan]
      /\ obj.conf \in Nat /\ obj.conf > 0
  BY <1>1, AtCall
<1>3. c.verb = "updateRead" /\ app = "jibri"
  BY <1>2, NoPanic DEF CallStops, Refused, RestTypes
<1>4. plan = "update"
  <2>1. plan # "get"
    BY <1>2, <1>3, PlanShapes DEF Call
  <2>2. plan # "create"
    BY <1>2, <1>3, PlanShapes DEF IsCreation
  <2>3. plan # "delete"
    BY <1>2, <1>3, PlanFacts DEF Removals
  <2> QED
    BY <1>2, <2>1, <2>2, <2>3 DEF Handlers
<1>5. Full /\ Exists(cr) /\ cr.fin /\ \A o \in Objects : Stands(o) => o \in Needed
  BY <1>1, <1>3, <1>4 DEF RestTypes, RestInv, ChildrenInStep, WorkInStep, UpdatesFirst
<1>6. /\ Full' /\ (Live' <=> Live) /\ Needed' = Needed /\ Exists(cr)'
      /\ \A o : Stands(o)' <=> Stands(o)
  BY <1>1, <1>5, SamePlans, SameChildren DEF Exists
<1>7. ChildrenInStep'
  BY <1>1, <1>5, <1>6 DEF ChildrenInStep
<1>8. CachesInStep'
  BY <1>1, <1>6 DEF RestTypes, RestInv, CachesInStep, CacheInStep
<1>9. NewsInStep'
  BY <1>1, <1>5, <1>6 DEF RestTypes, RestInv, NewsInStep, Exists
<1>10. WorkInStep' /\ NewsServed'
  BY <1>1 DEF WorkInStep, NewsServed, NoNews
<1> QED
  BY <1>7, <1>8, <1>9, <1>10 DEF RestInv

LEMMA StepCalm ==
  ASSUME Patient, CalmInv, [Next]_vars
  PROVE  CalmInv'
<1>1. OrderInv'
  BY StepOrder DEF CalmInv
<1> SUFFICES ASSUME Calm' PROVE RestInv'
  BY <1>1 DEF CalmInv
<1>2. faults \in Nat /\ crashes \in Nat
  BY AppBoundsAssumption, OrderFacts DEF CalmInv, TypeInv, TypeOK
<1>3. ~Crash /\ ~CallFails
  BY <1>2 DEF Calm, Smooth, Crash, CallFails, Fault
<1>4. Calm /\ faults' = faults
  <2>1. crashes' = crashes /\ (faults' = faults \/ faults' = faults + 1)
    <3>1. CASE Worker
      BY <1>3, <3>1 DEF Worker, ReconcileNotFound, Reconcile, Take, AddFinalizerCall,
         RemoveFinalizerCall, CallServer, CallStops, Fault, sameFaults, faultVars
    <3>2. CASE ReceiveVersion \/ ReceiveList \/ PeriodicResync \/ UserWrite \/ UNCHANGED vars
      BY <3>2 DEF ReceiveVersion, ReceiveList, PeriodicResync, UserWrite, vars, faultVars
    <3>3. CASE \E o \in Objects : ReceiveChild(o) \/ Touch(o)
      BY <3>3 DEF ReceiveChild, Touch, faultVars
    <3> QED
      BY <1>3, <3>1, <3>2, <3>3 DEF Next
  <2>2. ~Stumbled
    BY FormsStay, StumbledStays DEF CalmInv, Calm, Smooth
  <2> QED
    BY <1>2, <2>1, <2>2 DEF Calm, Smooth
<1>5. RestTypes
  BY <1>4 DEF CalmInv, RestTypes
<1>6. CASE Worker
  BY <1>3, <1>4, <1>5, <1>6, TakeInStep, AddFinalizerInStep, RemoveFinalizerInStep,
     CallInStep, StopInStep DEF Worker, Calm, Smooth
<1>7. CASE \E o \in Objects : ReceiveChild(o) \/ Touch(o)
  BY <1>5, <1>7, ChildNewsInStep
<1>8. CASE ReceiveVersion \/ ReceiveList \/ PeriodicResync
  BY <1>5, <1>8, NewsArrives, ResyncInStep
<1>9. CASE UserWrite
  BY <1>5, <1>9, UserInStep
<1>10. CASE UNCHANGED vars
  BY <1>5, <1>10, NothingInStep
<1> QED
  BY <1>3, <1>6, <1>7, <1>8, <1>9, <1>10 DEF Next

LEMMA PatientCalm ==
  ASSUME Patient
  PROVE  Spec => []CalmInv
<1>1. Init => CalmInv
  BY InitOrder, InitRest DEF CalmInv
<1>2. CalmInv /\ [Next]_vars => CalmInv'
  BY StepCalm
<1> QED
  BY <1>1, <1>2, PTL DEF Spec

\* With users who wait, until a call fails, the manager restarts or users write a
\* configuration that panics, every child is there and rendered from the present
\* configuration when all is at rest: the errors the handlers pass over or drop,
\* the updates the event filters drop and caches of any delay cost nothing
\* (Reconcile, Create, Update, isSpecUpdated).
THEOREM AppsSettleProvisioned ==
  ASSUME Patient
  PROVE  Spec => [](Calm => SettledMeansProvisioned)
<1>1. CalmInv => (Calm => SettledMeansProvisioned)
  <2> SUFFICES ASSUME CalmInv, Calm, Settled, Live PROVE Provisioned(CurrentAtRest)
    BY DEF SettledMeansProvisioned
  <2>1. RestInv /\ pc = "idle" /\ ~queued /\ watch = <<>>
    BY DEF CalmInv, Settled, Quiet
  <2>2. Provisioned(Updated)
    BY <2>1 DEF RestInv, NewsServed, NoNews
  <2>3. CurrentAtRest = Updated
    BY DEF Calm, Smooth, CurrentAtRest
  <2> QED
    BY <2>2, <2>3
<1> QED
  BY <1>1, PatientCalm, PTL

\* Under the same conditions a resource that is gone has left no child behind
\* (Delete, RemoveFinalizer).
THEOREM AppsSettleGone ==
  ASSUME Patient
  PROVE  Spec => [](Calm => SettledMeansGone)
<1>1. CalmInv => (Calm => SettledMeansGone)
  BY DEF CalmInv, Calm, RestInv, ChildrenInStep, SettledMeansGone, Settled, Quiet, Empty
<1> QED
  BY <1>1, PatientCalm, PTL

-----------------------------------------------------------------------------
(* The length of a pass. *)

\* What is left of a pass is counted from its end: the calls of the plan that may
\* follow the present one, and those of the present one.
CallsAfter(p) ==
  CASE p = "create" /\ app = "jicofo" -> 2
    [] p = "update" /\ app \in {"etherpad", "whiteboard"} -> 2
    [] p = "get" /\ app \notin {"jicofo", "etherpad", "whiteboard"} -> 3
    [] OTHER -> 0
CallsLeft ==
  CASE pc = "idle" -> 0
    [] pc = "call" -> CallsAfter(plan) + Len(Plans(app)[plan]) + 1 - step
    [] OTHER -> 5

\* The calls left are counted down from no more than five.
WithinPass == CallsLeft \in 0..5 /\ (CallsLeft = 0 <=> pc = "idle")
NearsEnd ==
  pc # "idle" => CallsLeft' <= CallsLeft /\ (Worker => CallsLeft' < CallsLeft)
PassesEnd == []WithinPass /\ [][NearsEnd]_vars

\* Handlers are short, and so are those of the controllers that may need two.
LEMMA PlanSizes ==
  ASSUME NEW a \in AllApps, NEW p \in Handlers
  PROVE  /\ Len(Plans(a)[p]) \in {1, 2, 3}
         /\ p = "get" => Len(Plans(a)[p]) = 1
         /\ a \in {"jicofo", "etherpad", "whiteboard"} /\ p \in {"create", "update"}
              => Len(Plans(a)[p]) \in {1, 2}
<1>1. \A c, d, e : Len(<<c>>) = 1 /\ Len(<<c, d>>) = 2 /\ Len(<<c, d, e>>) = 3
  OBVIOUS
<1>2. CASE p = "get"
  <2>1. Plans(a)[p] = <<Call("get", "workload", {})>>
    BY <1>2 DEF Plans
  <2> QED
    BY <1>1, <1>2, <2>1
<1>3. CASE p = "create"
  <2>1. Plans(a)[p] \in {WebCreate, ProsodyCreate, JigasiCreate, JibriCreate, JicofoCreate,
                         EtherpadCreate, WhiteboardCreate}
    BY <1>3 DEF Plans, AllApps
  <2>2. a \in {"jicofo", "etherpad", "whiteboard"}
          => Plans(a)[p] \in {JicofoCreate, EtherpadCreate, WhiteboardCreate}
    BY <1>3 DEF Plans
  <2>3. /\ Len(WebCreate) = 2 /\ Len(ProsodyCreate) = 3 /\ Len(JigasiCreate) = 1
        /\ Len(JibriCreate) = 1 /\ Len(JicofoCreate) = 2 /\ Len(EtherpadCreate) = 2
        /\ Len(WhiteboardCreate) = 2
    BY <1>1 DEF WebCreate, ProsodyCreate, JigasiCreate, JibriCreate, JicofoCreate,
       EtherpadCreate, WhiteboardCreate
  <2>4. PICK s : s = Plans(a)[p]
    OBVIOUS
  <2>5. Len(s) \in {1, 2, 3}
    BY <2>1, <2>3, <2>4, Zenon
  <2>6. a \in {"jicofo", "etherpad", "whiteboard"} => Len(s) \in {1, 2}
    BY <2>2, <2>3, <2>4, Zenon
  <2> QED
    BY <1>3, <2>4, <2>5, <2>6, Zenon
<1>4. CASE p = "update"
  <2>1. Plans(a)[p] \in {WebUpdate, ProsodyUpdate, JigasiUpdate, JibriUpdate, JicofoUpdate,
                         EtherpadUpdate, WhiteboardUpdate}
    BY <1>4 DEF Plans, AllApps
  <2>2. a \in {"jicofo", "etherpad", "whiteboard"}
          => Plans(a)[p] \in {JicofoUpdate, EtherpadUpdate, WhiteboardUpdate}
    BY <1>4 DEF Plans
  <2>3. /\ Len(WebUpdate) = 2 /\ Len(ProsodyUpdate) = 3 /\ Len(JigasiUpdate) = 1
        /\ Len(JibriUpdate) = 1 /\ Len(JicofoUpdate) = 2 /\ Len(EtherpadUpdate) = 2
        /\ Len(WhiteboardUpdate) = 1
    BY <1>1 DEF WebUpdate, ProsodyUpdate, JigasiUpdate, JibriUpdate, JicofoUpdate,
       EtherpadUpdate, WhiteboardUpdate
  <2>4. PICK s : s = Plans(a)[p]
    OBVIOUS
  <2>5. Len(s) \in {1, 2, 3}
    BY <2>1, <2>3, <2>4, Zenon
  <2>6. a \in {"jicofo", "etherpad", "whiteboard"} => Len(s) \in {1, 2}
    BY <2>2, <2>3, <2>4, Zenon
  <2> QED
    BY <1>4, <2>4, <2>5, <2>6, Zenon
<1>5. CASE p = "delete"
  <2>1. Plans(a)[p] \in {WebDelete, ProsodyDelete, JigasiDelete, JibriDelete, JicofoDelete,
                         EtherpadDelete, WhiteboardDelete}
    BY <1>5 DEF Plans, AllApps
  <2>2. /\ Len(WebDelete) = 2 /\ Len(ProsodyDelete) = 3 /\ Len(JigasiDelete) = 1
        /\ Len(JibriDelete) = 1 /\ Len(JicofoDelete) = 2 /\ Len(EtherpadDelete) = 3
        /\ Len(WhiteboardDelete) = 3
    BY <1>1 DEF WebDelete, ProsodyDelete, JigasiDelete, JibriDelete, JicofoDelete,
       EtherpadDelete, WhiteboardDelete
  <2>3. PICK s : s = Plans(a)[p]
    OBVIOUS
  <2>4. Len(s) \in {1, 2, 3}
    BY <2>1, <2>2, <2>3, Zenon
  <2> QED
    BY <1>5, <2>3, <2>4, Zenon
<1> QED
  BY <1>2, <1>3, <1>4, <1>5 DEF Handlers

LEMMA PlanLengths ==
  ASSUME NEW a \in AllApps, NEW p \in Handlers
  PROVE  /\ Len(Plans(a)[p]) \in Nat /\ Len(Plans(a)[p]) <= 3
         /\ p = "get" => Len(Plans(a)[p]) = 1
         /\ a \in {"jicofo", "etherpad", "whiteboard"} /\ p \in {"create", "update"}
              => Len(Plans(a)[p]) <= 2
<1>1. PICK n : n = Len(Plans(a)[p])
  OBVIOUS
<1>2. n \in {1, 2, 3} /\ (p = "get" => n = 1)
      /\ (a \in {"jicofo", "etherpad", "whiteboard"} /\ p \in {"create", "update"} => n \in {1, 2})
  BY <1>1, PlanSizes, Zenon
<1>3. n \in Nat /\ n <= 3 /\ (n \in {1, 2} => n <= 2)
  BY <1>2
<1> QED
  BY <1>1, <1>2, <1>3, Zenon

\* What is left at a call of a plan, and at its first.
LEMMA CallsOfPlan ==
  ASSUME app \in AllApps, NEW p \in Handlers
  PROVE  /\ CallsAfter(p) \in Nat /\ Len(Plans(app)[p]) \in Nat
         /\ CallsAfter(p) + Len(Plans(app)[p]) <= 4
<1>1. Len(Plans(app)[p]) \in Nat
  BY PlanFacts
<1>2. CASE p = "create" /\ app = "jicofo"
  BY <1>1, <1>2, PlanLengths DEF CallsAfter
<1>3. CASE p = "update" /\ app \in {"etherpad", "whiteboard"}
  BY <1>1, <1>3, PlanLengths DEF CallsAfter
<1>4. CASE p = "get" /\ app \notin {"jicofo", "etherpad", "whiteboard"}
  <2>1. CallsAfter(p) = 3
    BY <1>4 DEF CallsAfter
  <2>2. Len(Plans(app)[p]) = 1
    BY <1>4, PlanLengths
  <2> QED
    BY <2>1, <2>2
<1>5. CASE /\ ~(p = "create" /\ app = "jicofo")
           /\ ~(p = "update" /\ app \in {"etherpad", "whiteboard"})
           /\ ~(p = "get" /\ app \notin {"jicofo", "etherpad", "whiteboard"})
  <2>1. CallsAfter(p) = 0
    BY <1>5 DEF CallsAfter
  <2> QED
    BY <1>1, <2>1, PlanLengths
<1> QED
  BY <1>2, <1>3, <1>4, <1>5

\* A plan is followed by one that none follows.
LEMMA PlanAfterPlan ==
  ASSUME app \in AllApps, NEW p \in Handlers, NEW outcome,
         Then(p, outcome) \notin {"return", "retry"}
  PROVE  /\ Then(p, outcome) \in Handlers
         /\ CallsAfter(Then(p, outcome)) = 0
         /\ Len(Plans(app)[Then(p, outcome)]) <= CallsAfter(p)
<1>1. CASE app = "jicofo"
  <2>1. p = "create" /\ Then(p, outcome) = "update"
    BY <1>1 DEF Then, AfterJicofo, Otherwise
  <2> QED
    BY <1>1, <2>1, PlanLengths DEF CallsAfter, Handlers
<1>2. CASE app \in {"etherpad", "whiteboard"}
  <2>1. p = "update" /\ Then(p, outcome) = "create"
    BY <1>2 DEF Then, AfterEtherpad, AfterWhiteboard, Otherwise
  <2> QED
    BY <1>2, <2>1, PlanLengths DEF CallsAfter, Handlers
<1>3. CASE app \notin {"jicofo", "etherpad", "whiteboard"}
  <2>1. p = "get" /\ Then(p, outcome) \in {"create", "update"}
    BY <1>3 DEF Then, AfterGetOrCreate, Otherwise
  <2>2. CallsAfter(p) = 3 /\ CallsAfter(Then(p, outcome)) = 0
    BY <1>3, <2>1 DEF CallsAfter
  <2>3. Then(p, outcome) \in Handlers
    BY <2>1 DEF Handlers
  <2> QED
    BY <2>2, <2>3, PlanLengths
<1> QED
  BY <1>1, <1>2, <1>3

LEMMA CallsBounded ==
  ASSUME TypeInv
  PROVE  WithinPass
<1>1. app \in AllApps /\ pc \in {"idle", "addFinalizer", "removeFinalizer", "call"}
  BY AppsAssumption DEF TypeInv, TypeOK
<1>2. CASE pc = "call"
  <2>1. plan \in Handlers /\ step \in DOMAIN Plans(app)[plan]
    BY <1>2 DEF TypeInv, WorkOK
  <2>2. step \in 1..Len(Plans(app)[plan])
    BY <1>1, <2>1, PlanFacts
  <2>3. CallsLeft = CallsAfter(plan) + Len(Plans(app)[plan]) + 1 - step
    BY <1>2 DEF CallsLeft
  <2>4. CallsLeft \in 1..4
    BY <1>1, <2>1, <2>2, <2>3, CallsOfPlan
  <2> QED
    BY <1>2, <2>4 DEF WithinPass
<1>3. CASE pc # "call"
  BY <1>1, <1>3 DEF CallsLeft, WithinPass
<1> QED
  BY <1>2, <1>3

LEMMA CloseDescends ==
  ASSUME TypeInv, pc = "call", app' = app, NEW outcome, NEW reading, Close(outcome, reading)
  PROVE  CallsLeft' <= CallsAfter(plan)
<1>1. app \in AllApps /\ plan \in Handlers
  BY AppsAssumption DEF TypeInv, TypeOK, WorkOK
<1>2. CASE Then(plan, outcome) \in {"return", "retry"}
  <2>1. pc' = "idle"
    BY <1>2 DEF Close, Return, Release
  <2>2. CallsLeft' = 0
    BY <2>1 DEF CallsLeft
  <2> QED
    BY <1>1, <2>2, CallsOfPlan
<1>3. CASE Then(plan, outcome) \notin {"return", "retry"}
  <2>1. PICK next : next = Then(plan, outcome)
    OBVIOUS
  <2>2. pc' = "call" /\ plan' = next /\ step' = 1
    BY <1>3, <2>1 DEF Close, Begin
  <2>3. next \in Handlers /\ CallsAfter(next) = 0 /\ Len(Plans(app)[next]) <= CallsAfter(plan)
    BY <1>1, <1>3, <2>1, PlanAfterPlan
  <2>4. CallsLeft' = CallsAfter(next)' + Len(Plans(app')[next]) + 1 - 1
    BY <2>2 DEF CallsLeft, CallsAfter, Plans
  <2>5. CallsAfter(next)' = CallsAfter(next)
    BY DEF CallsAfter
  <2>6. Len(Plans(app)[next]) \in Nat /\ CallsAfter(plan) \in Nat
    BY <1>1, <2>3, CallsOfPlan
  <2> QED
    BY <2>3, <2>4, <2>5, <2>6
<1> QED
  BY <1>2, <1>3

\* Each call brings the end of the pass nearer.
LEMMA WorkerDescends ==
  ASSUME TypeInv, WithinPass', Worker, pc # "idle"
  PROVE  CallsLeft' < CallsLeft
<1>1. app \in AllApps /\ app' = app
  BY AppsAssumption DEF Worker, ReconcileNotFound, Reconcile, Take, AddFinalizerCall,
     RemoveFinalizerCall, CallServer, CallFails, CallStops, sameCR, TypeInv, TypeOK
<1>2. CASE AddFinalizerCall \/ RemoveFinalizerCall
  <2>1. pc \in {"addFinalizer", "removeFinalizer"} /\ pc' = "call" /\ step' = 1
    BY <1>2 DEF AddFinalizerCall, RemoveFinalizerCall, Begin
  <2>2. PICK p \in {FirstPlan, "delete"} : plan' = p
    BY <1>2 DEF AddFinalizerCall, RemoveFinalizerCall, Begin
  <2>3. p \in Handlers
    BY <2>2 DEF FirstPlan, Handlers
  <2>4. CallsAfter(p) + Len(Plans(app)[p]) <= 4
    BY <1>1, <2>3, CallsOfPlan
  <2>5. CallsLeft = 5
    BY <2>1 DEF CallsLeft
  <2>6. CallsLeft' = CallsAfter(p) + Len(Plans(app)[p]) + 1 - 1
    BY <1>1, <2>1, <2>2 DEF CallsLeft, CallsAfter, Plans
  <2> QED
    BY <1>1, <2>3, <2>4, <2>5, <2>6, CallsOfPlan
<1>3. CASE CallServer \/ CallFails
  <2>1. pc = "call"
    BY <1>3 DEF CallServer, CallFails
  <2>2. PICK outcome, reading : Advance(outcome, reading)
    BY <1>3 DEF CallServer, CallFails
  <2>3. plan \in Handlers /\ step \in DOMAIN Plans(app)[plan]
    BY <2>1 DEF TypeInv, WorkOK
  <2>4. /\ step \in 1..Len(Plans(app)[plan])
        /\ CallsAfter(plan) \in Nat /\ Len(Plans(app)[plan]) \in Nat
    BY <1>1, <2>3, PlanFacts, CallsOfPlan
  <2>5. CallsLeft = CallsAfter(plan) + Len(Plans(app)[plan]) + 1 - step
    BY <2>1 DEF CallsLeft
  <2>6. CASE \E o, r : Close(o, r)
    <3>1. CallsLeft' <= CallsAfter(plan)
      BY <1>1, <2>1, <2>6, CloseDescends
    <3>2. CallsLeft' \in Nat
      BY DEF WithinPass
    <3> QED
      BY <2>4, <2>5, <3>1, <3>2
  <2>7. CASE step' = step + 1 /\ UNCHANGED <<pc, plan>>
    <3>1. CallsLeft' = CallsAfter(plan) + Len(Plans(app)[plan]) + 1 - (step + 1)
      BY <1>1, <2>1, <2>7 DEF CallsLeft, CallsAfter, Plans
    <3> QED
      BY <2>4, <2>5, <3>1
  <2> QED
    BY <2>2, <2>6, <2>7 DEF Advance
<1>4. CASE CallStops
  <2>1. CallsLeft \in 0..5 /\ CallsLeft # 0
    BY CallsBounded DEF WithinPass
  <2>2. CallsLeft' = 0
    BY <1>4, StopOK DEF CallsLeft
  <2> QED
    BY <2>1, <2>2
<1> QED
  BY <1>2, <1>3, <1>4 DEF Worker, ReconcileNotFound, Reconcile, Take

\* Nobody else takes part: all a restart does is to end the pass.
LEMMA OthersKeepCalls ==
  ASSUME [Next]_vars, ~Worker
  PROVE  CallsLeft' \in {CallsLeft, 0}
<1>1. CASE Crash
  BY <1>1 DEF Crash, Release, CallsLeft
<1>2. CASE ~Crash
  <2>1. UNCHANGED <<app, pc, plan, step>>
    BY <1>2 DEF Next, ReceiveVersion, ReceiveList, PeriodicResync, ReceiveChild, Touch,
       UserWrite, vars, workerVars
  <2> QED
    BY <2>1 DEF CallsLeft, CallsAfter, Plans
<1> QED
  BY <1>1, <1>2

\* A pass of Reconcile makes at most five calls, finalizer and plan that follows
\* another included: each call, one that fails or is refused too, brings its end
\* nearer, and nothing that users, caches, other controllers and restarts do puts
\* it off.  No controller goes to and fro between Create and Update (Reconcile,
\* newInstance).
THEOREM AppsPassesEnd == Spec => PassesEnd
<1>1. TypeInv => WithinPass
  BY CallsBounded
<1>2. TypeInv' => WithinPass'
  BY <1>1, PTL
<1>3. TypeInv /\ TypeInv' /\ [Next]_vars => [NearsEnd]_vars
  <2> SUFFICES ASSUME TypeInv, TypeInv', [Next]_vars
               PROVE  NearsEnd
    OBVIOUS
  <2>1. CallsLeft \in Nat /\ CallsLeft' \in Nat
    BY <1>1, <1>2 DEF WithinPass
  <2>2. CASE Worker
    BY <1>2, <2>1, <2>2, WorkerDescends DEF NearsEnd
  <2>3. CASE ~Worker
    BY <2>1, <2>3, OthersKeepCalls DEF NearsEnd
  <2> QED
    BY <2>2, <2>3
<1> QED
  BY <1>1, <1>3, InitTypeInv, StepTypeInv, PTL DEF Spec, PassesEnd

-----------------------------------------------------------------------------
(* Users at any time: the stream of versions, and what a handler has done.   *)

\* The informer's copy c and the announced versions w are one stream.  A step of it
\* that passes the filter of every controller puts the key into the queue.
At(c, w, i) == IF i = 0 THEN c ELSE w[i]
Passes(c, w, k) ==
  ~Exists(At(c, w, k - 1)) \/ (Exists(w[k]) /\ isSpecUpdated(At(c, w, k - 1), w[k]))
Due(c, w, i) == \E k \in DOMAIN w : k > i /\ Passes(c, w, k)

\* The stream ends in the stored version s, and if that is to be provided for, a
\* version that asks for something else is followed by a step that passes.
AsksElse(v, s) == ~Exists(v) \/ v.conf # s.conf \/ v.del
StreamOK(c, w, s) ==
  /\ At(c, w, Len(w)) = s
  /\ Exists(s) /\ ~s.del => \A i \in 0..Len(w) : AsksElse(At(c, w, i), s) => Due(c, w, i)

Coming == queued \/ Due(crCache, watch, 0)

\* The resourceVersion tells whether a version is under deletion.
Known == {obj, crCache} \cup {watch[k] : k \in DOMAIN watch}
KnownOK ==
  \A v \in Known \cup {cr} : /\ Exists(v) => v.conf > 0
                             /\ Exists(cr) /\ v.rv = cr.rv => v.del = cr.del

\* What a reconciliation that ends without an error leaves.
Best == Provisioned(CurrentAtRest) \/ (crashes > 0 /\ Half)

\* With nothing queued or coming the worker has provided for the stored version or
\* is at it.
Served ==
  relists = 0 =>
    /\ StreamOK(crCache, watch, cr)
    /\ Live /\ faults = 0 /\ ~Coming =>
         IF pc = "idle" THEN Best ELSE ~AsksElse(obj, cr)

\* The caches that do not lag.
Told == \A o \in Objects \ Lagging : lag[o] = <<>> /\ (shown[o] <=> Stands(o))

Handling(p) == pc = "call" /\ plan = p
Gone == \A o \in Needed : ~Stands(o)
Rising == \A o \in Needed : child[o] = IF o \in Visited("create", step) THEN obj.conf ELSE 0

\* What the calls of a handler have done so far; and, until a restart or a
\* configuration that panics, that what belongs to a workload comes before it and
\* goes before it.
Progress ==
  /\ Handling("get") => app \notin {"jicofo", "etherpad", "whiteboard"}
  /\ Handling("create") => \A o \in Visited("create", step) : Stands(o)
  /\ Handling("update") => \A o \in Visited("update", step) : child[o] = obj.conf
WorkloadKept ==
  /\ Stands("workload") \/ IF Handling("create") THEN Rising ELSE Gone
  /\ Handling("update") /\ app = "jicofo" => Stands("workload")
  /\ Handling("delete") => \A o \in Visited("delete", step) : ~Stands(o)
  /\ app = "whiteboard" /\ Stands("workload") =>
       Stands("service") \/ (Handling("delete") /\ "service" \in Visited("delete", step))
Kept == faults = 0 => Progress /\ (Smooth => WorkloadKept)

BusyInv == KnownOK /\ Served /\ Told /\ Kept

LEMMA StreamFacts ==
  ASSUME OrderInv
  PROVE  /\ cr \in Version /\ watch \in Seq(Version) /\ rv \in Nat /\ edits \in Nat
         /\ faults \in Nat /\ crashes \in Nat /\ relists \in Nat
         /\ \A v \in Known \cup {cr} : /\ v \in Version /\ v.conf \in Nat /\ v.rv \in Nat
                                       /\ v.rv <= rv
                                       /\ Exists(cr) /\ v.rv = cr.rv => v.conf = cr.conf
         /\ \A i \in 0..Len(watch) : At(crCache, watch, i) \in Known
<1>1. Circulation(obj, crCache, watch, cr, rv, edits, Made) /\ TypeInv
  BY DEF OrderInv, Ordered
<1>2. /\ cr \in Version /\ watch \in Seq(Version) /\ rv \in Nat /\ edits \in Nat
      /\ \A v \in Known \cup {cr} : /\ v \in Version /\ v.rv <= rv
                                    /\ Exists(cr) /\ v.rv = cr.rv => v.conf = cr.conf
  BY <1>1 DEF Circulation, Known
<1>3. \A v \in Version : v.conf \in Nat /\ v.rv \in Nat
  BY DEF Version
<1>4. faults \in Nat /\ crashes \in Nat /\ relists \in Nat
  BY <1>1, AppBoundsAssumption, EditBoundsAssumption DEF TypeInv, TypeOK, CRTypeOK
<1>5. \A i \in 0..Len(watch) : i = 0 \/ i \in DOMAIN watch
  BY <1>2
<1>6. \A i \in 0..Len(watch) : At(crCache, watch, i) \in Known
  BY <1>5 DEF At, Known
<1> QED
  BY <1>2, <1>3, <1>4, <1>6

LEMMA AppendDue ==
  ASSUME NEW c, NEW w \in Seq(Version), NEW v \in Version
  PROVE  /\ Len(Append(w, v)) = Len(w) + 1 /\ Len(w) \in Nat
         /\ At(c, Append(w, v), Len(w) + 1) = v
         /\ \A i \in 0..Len(w) : /\ At(c, Append(w, v), i) = At(c, w, i)
                                 /\ Due(c, w, i) => Due(c, Append(w, v), i)
         /\ ~Exists(At(c, w, Len(w))) \/ (Exists(v) /\ isSpecUpdated(At(c, w, Len(w)), v))
              => \A i \in 0..Len(w) : Due(c, Append(w, v), i)
<1> DEFINE x == Append(w, v)
<1>1. /\ Len(w) \in Nat /\ DOMAIN w = 1..Len(w)
      /\ Len(x) = Len(w) + 1 /\ DOMAIN x = 1..(Len(w) + 1)
      /\ x[Len(w) + 1] = v /\ \A k \in 1..Len(w) : x[k] = w[k]
  BY AppendProperties
<1> HIDE DEF x
<1>2. /\ \A i \in 0..Len(w) : At(c, x, i) = At(c, w, i)
      /\ At(c, x, Len(w) + 1) = v
  BY <1>1 DEF At
<1>3. \A k \in 1..Len(w) : Passes(c, w, k) => Passes(c, x, k)
  <2> TAKE k \in 1..Len(w)
  <2>1. k - 1 \in 0..Len(w) /\ x[k] = w[k]
    BY <1>1
  <2> QED
    BY <1>2, <2>1 DEF Passes
<1>4. \A i \in 0..Len(w) : Due(c, w, i) => Due(c, x, i)
  BY <1>1, <1>3 DEF Due
<1>5. ASSUME ~Exists(At(c, w, Len(w))) \/ (Exists(v) /\ isSpecUpdated(At(c, w, Len(w)), v))
      PROVE  \A i \in 0..Len(w) : Due(c, x, i)
  <2>1. (Len(w) + 1) - 1 = Len(w) /\ Len(w) \in 0..Len(w)
    BY <1>1
  <2>2. Passes(c, x, Len(w) + 1)
    BY <1>1, <1>2, <1>5, <2>1 DEF Passes
  <2> QED
    BY <1>1, <2>2 DEF Due
<1> QED
  BY <1>1, <1>2, <1>4, <1>5 DEF x

\* A write that drops the object or passes the filter, or one of the finalizer.
LEMMA AppendStream ==
  ASSUME NEW c, NEW w \in Seq(Version), NEW s, NEW v \in Version, StreamOK(c, w, s),
         \/ ~Exists(v)
         \/ ~Exists(s) \/ isSpecUpdated(s, v)
         \/ Exists(s) /\ ~s.del /\ v.conf = s.conf
  PROVE  /\ StreamOK(c, Append(w, v), v)
         /\ Due(c, w, 0) => Due(c, Append(w, v), 0)
         /\ Exists(v) /\ (~Exists(s) \/ isSpecUpdated(s, v)) => Due(c, Append(w, v), 0)
<1> DEFINE x == Append(w, v)
<1>1. /\ Len(x) = Len(w) + 1 /\ Len(w) \in Nat /\ 0 \in 0..Len(w)
      /\ \A i \in 0..Len(w) : At(c, x, i) = At(c, w, i) /\ (Due(c, w, i) => Due(c, x, i))
      /\ At(c, x, Len(w) + 1) = v
  BY AppendDue
<1>2. Exists(v) /\ (~Exists(s) \/ isSpecUpdated(s, v)) => \A i \in 0..Len(w) : Due(c, x, i)
  BY AppendDue DEF StreamOK
<1> HIDE DEF x
<1>3. ASSUME Exists(v), ~v.del, NEW i \in 0..Len(x), AsksElse(At(c, x, i), v)
      PROVE  Due(c, x, i)
  <2>1. i \in 0..Len(w)
    <3>1. ~AsksElse(v, v)
      BY <1>3 DEF AsksElse
    <3> QED
      BY <1>1, <1>3, <3>1
  <2>2. CASE ~Exists(s) \/ isSpecUpdated(s, v)
    BY <1>2, <1>3, <2>1, <2>2
  <2>3. CASE Exists(s) /\ ~s.del /\ v.conf = s.conf
    <3>1. AsksElse(At(c, w, i), s)
      BY <1>1, <1>3, <2>1, <2>3 DEF AsksElse
    <3> QED
      BY <1>1, <2>1, <2>3, <3>1 DEF StreamOK
  <2> QED
    BY <1>3, <2>2, <2>3
<1> QED
  BY <1>1, <1>2, <1>3 DEF StreamOK, x

LEMMA TailStream ==
  ASSUME NEW c, NEW w \in Seq(Version), NEW s, w # <<>>, StreamOK(c, w, s)
  PROVE  /\ StreamOK(Head(w), Tail(w), s)
         /\ Due(c, w, 0) => Passes(c, w, 1) \/ Due(Head(w), Tail(w), 0)
<1> DEFINE x == Tail(w)
<1>1. /\ Len(w) \in Nat /\ Len(w) > 0 /\ DOMAIN w = 1..Len(w)
      /\ Len(x) = Len(w) - 1 /\ DOMAIN x = 1..(Len(w) - 1)
      /\ Head(w) = w[1] /\ \A k \in 1..(Len(w) - 1) : x[k] = w[k + 1]
  BY HeadTailProperties, EmptySeq
<1> HIDE DEF x
<1>2. \A i \in 0..(Len(w) - 1) : At(Head(w), x, i) = At(c, w, i + 1)
  BY <1>1 DEF At
<1>3. \A k \in 1..(Len(w) - 1) : Passes(c, w, k + 1) => Passes(Head(w), x, k)
  <2> TAKE k \in 1..(Len(w) - 1)
  <2>1. /\ k - 1 \in 0..(Len(w) - 1) /\ (k - 1) + 1 = k /\ (k + 1) - 1 = k
        /\ x[k] = w[k + 1]
    BY <1>1
  <2>2. At(Head(w), x, k - 1) = At(c, w, k)
    BY <1>2, <2>1
  <2> QED
    BY <2>1, <2>2 DEF Passes
<1>4. \A i \in 0..(Len(w) - 1) : Due(c, w, i + 1) => Due(Head(w), x, i)
  <2> SUFFICES ASSUME NEW i \in 0..(Len(w) - 1), NEW k \in 1..Len(w), k > i + 1,
                      Passes(c, w, k)
               PROVE  Due(Head(w), x, i)
    BY <1>1 DEF Due
  <2>1. k - 1 \in 1..(Len(w) - 1) /\ k - 1 > i /\ (k - 1) + 1 = k
    BY <1>1
  <2>2. Passes(Head(w), x, k - 1)
    BY <1>3, <2>1
  <2> QED
    BY <1>1, <2>1, <2>2 DEF Due
<1>5. Due(c, w, 0) => Passes(c, w, 1) \/ Due(Head(w), x, 0)
  <2>1. Due(c, w, 0) => Passes(c, w, 1) \/ Due(c, w, 0 + 1)
    BY <1>1 DEF Due
  <2> QED
    BY <1>1, <1>4, <2>1
<1>6. At(Head(w), x, Len(x)) = s
  BY <1>1, <1>2 DEF StreamOK
<1>7. ASSUME Exists(s), ~s.del, NEW i \in 0..Len(x), AsksElse(At(Head(w), x, i), s)
      PROVE  Due(Head(w), x, i)
  <2>1. i \in 0..(Len(w) - 1) /\ i + 1 \in 0..Len(w)
    BY <1>1
  <2>2. Due(c, w, i + 1)
    BY <1>2, <1>7, <2>1 DEF StreamOK
  <2> QED
    BY <1>4, <2>1, <2>2
<1> QED
  BY <1>5, <1>6, <1>7 DEF StreamOK, x

LEMMA ListedStream ==
  ASSUME NEW s
  PROVE  StreamOK(s, <<>>, s)
<1>1. Len(<<>>) = 0 /\ 0..0 = {0}
  OBVIOUS
<1> QED
  BY <1>1 DEF StreamOK, At, AsksElse

-----------------------------------------------------------------------------
(* Users at any time: what is known of versions, and what is coming. *)

\* Storing a version: newer than all, or none.
LEMMA StoreKnown ==
  ASSUME OrderInv, KnownOK, NEW v \in Version, cr' = v, watch' = Append(watch, v),
         crCache' = crCache,
         v = NoObject \/ (v.rv = rv + 1 /\ v.conf > 0),
         \/ obj' = obj \/ obj' = v
         \/ obj'.rv = obj.rv /\ obj'.conf = obj.conf /\ obj'.del = obj.del
  PROVE  KnownOK'
<1>1. /\ watch \in Seq(Version) /\ rv \in Nat
      /\ \A u \in Known : u.rv \in Nat /\ u.rv <= rv /\ (Exists(u) => u.conf > 0)
  BY StreamFacts DEF KnownOK
<1>2. \A k \in DOMAIN Append(watch, v) :
        \/ k \in DOMAIN watch /\ Append(watch, v)[k] = watch[k]
        \/ Append(watch, v)[k] = v
  BY <1>1, AnnouncedAppend
<1>3. Exists(v) => v.conf > 0 /\ v.rv = rv + 1
  BY DEF NoObject, Exists
<1>4. \A u \in Known \cup {v} : /\ Exists(u) => u.conf > 0
                                /\ Exists(v) /\ u.rv = v.rv => u.del = v.del
  <2>1. \A u \in Known : Exists(v) => u.rv # v.rv
    BY <1>1, <1>3
  <2> QED
    BY <1>1, <1>3, <2>1
<1>5. \A u \in Known' \cup {v} :
        u \in Known \cup {v} \/ (u.rv = obj.rv /\ u.conf = obj.conf /\ u.del = obj.del)
  BY <1>2 DEF Known
<1>6. obj \in Known
  BY DEF Known
<1> QED
  BY <1>4, <1>5, <1>6 DEF KnownOK, Exists

\* Nobody writes: versions are taken over, delivered or let go.
LEMMA SameKnown ==
  ASSUME OrderInv, KnownOK, cr' = cr,
         crCache' \in Known \cup {cr},
         \A k \in DOMAIN watch' : watch'[k] \in Known,
         \/ obj' \in Known \cup {NoObject}
         \/ obj'.rv = obj.rv /\ obj'.conf = obj.conf /\ obj'.del = obj.del
  PROVE  KnownOK'
<1>1. \A u \in Known' \cup {cr} :
        \/ u \in Known \cup {cr, NoObject}
        \/ u.rv = obj.rv /\ u.conf = obj.conf /\ u.del = obj.del
  BY DEF Known
<1>2. obj \in Known
  BY DEF Known
<1>3. ~Exists(NoObject) /\ (Exists(cr) => NoObject.rv # cr.rv)
  BY DEF NoObject, Exists
<1> QED
  BY <1>1, <1>2, <1>3 DEF KnownOK, Exists

\* The writes of users: a creation, a change, which keeps the finalizer, or a
\* deletion.
LEMMA UserAsks ==
  ASSUME OrderInv, KnownOK, User
  PROVE  /\ UNCHANGED <<crCache, queued, relists>>
         /\ \/ Remove
            \/ \E v \in Version : /\ cr' = v /\ watch' = Append(watch, v)
                                  /\ v.rv = rv + 1 /\ v.conf > 0
                                  /\ ~Exists(cr) \/ isSpecUpdated(cr, v)
<1>1. UNCHANGED <<crCache, queued, relists>>
  BY UserFacts
<1>2. cr \in Version /\ rv \in Nat /\ edits \in Nat /\ edits + 1 \in Nat
      /\ (Exists(cr) => cr.conf > 0) /\ CRTypeOK
  BY StreamFacts, OrderFacts DEF KnownOK, TypeInv, TypeOK
<1>3. ASSUME NEW w \in Version, Store(w), w.conf > 0, ~Exists(cr) \/ w.fin = cr.fin
      PROVE  \E v \in Version : /\ cr' = v /\ watch' = Append(watch, v)
                                /\ v.rv = rv + 1 /\ v.conf > 0
                                /\ ~Exists(cr) \/ isSpecUpdated(cr, v)
  <2>1. Stored(w) \in Version
    BY <1>2, <1>3, StoreType DEF CRWritten, Store
  <2>2. Stored(w).rv = rv + 1 /\ Stored(w).conf = w.conf /\ Stored(w).fin = w.fin
    BY <1>3 DEF Stored, Version
  <2>3. ~Exists(cr) \/ isSpecUpdated(cr, Stored(w))
    BY <1>2, <1>3, <2>1, <2>2 DEF isSpecUpdated, Version
  <2> QED
    BY <1>3, <2>1, <2>2, <2>3 DEF Store
<1>4. CASE \E n \in ReplicaCounts : UserCreate(n) \/ UserScale(n)
  <2>1. PICK n \in ReplicaCounts : UserCreate(n) \/ UserScale(n)
    BY <1>4
  <2>2. n \in 0..MaxReplicas
    BY ReplicasAssumption
  <2>3. CASE UserCreate(n)
    <3> DEFINE w == [NoObject EXCEPT !.replicas = n, !.conf = edits + 1]
    <3>1. w \in Version /\ w.conf = edits + 1
      BY <1>2, <2>2, NoObjectIsVersion DEF Version
    <3>2. Store(w) /\ ~Exists(cr) /\ w.conf > 0
      BY <1>2, <2>3, <3>1 DEF UserCreate
    <3> QED
      BY <1>3, <3>1, <3>2, <1>1
  <2>4. CASE UserScale(n)
    <3> DEFINE w == [cr EXCEPT !.replicas = n]
    <3>1. w \in Version /\ w.conf = cr.conf /\ w.fin = cr.fin
      BY <1>2, <2>2 DEF Version
    <3>2. Store(w) /\ w.conf > 0
      BY <1>2, <2>4, <3>1 DEF UserScale
    <3> QED
      BY <1>3, <3>1, <3>2, <1>1
  <2> QED
    BY <2>1, <2>3, <2>4
<1>5. CASE UserReconfigure
  <2> DEFINE w == [cr EXCEPT !.conf = edits + 1]
  <2>1. w \in Version /\ w.conf = edits + 1 /\ w.fin = cr.fin /\ edits + 1 > 0
    BY <1>2 DEF Version
  <2>2. Store(w)
    BY <1>5 DEF UserReconfigure
  <2> QED
    BY <1>3, <2>1, <2>2, <1>1
<1>6. CASE UserDelete
  <2> DEFINE w == [cr EXCEPT !.del = TRUE]
  <2>1. w \in Version /\ w.conf = cr.conf /\ w.fin = cr.fin
    BY <1>2 DEF Version
  <2>2. Remove \/ (Store(w) /\ w.conf > 0)
    BY <1>2, <1>6, <2>1 DEF UserDelete
  <2> QED
    BY <1>3, <2>1, <2>2, <1>1
<1> QED
  BY <1>4, <1>5, <1>6 DEF User

LEMMA UserServed ==
  ASSUME OrderInv, KnownOK, Served, UserWrite
  PROVE  KnownOK' /\ Served'
<1>1. User /\ obj' = obj
  BY DEF UserWrite, workerVars
<1>2. watch \in Seq(Version) /\ cr \in Version /\ crCache' = crCache /\ relists' = relists
  BY <1>1, StreamFacts, UserAsks
<1>3. CASE Remove
  <2>1. cr' = NoObject /\ watch' = Append(watch, NoObject)
    BY <1>3 DEF Remove
  <2>2. KnownOK'
    BY <1>1, <1>2, <2>1, StoreKnown, NoObjectIsVersion
  <2>3. ~Exists(NoObject)
    BY DEF Exists, NoObject
  <2>4. relists = 0 => StreamOK(crCache, Append(watch, NoObject), NoObject)
    BY <1>2, <2>3, AppendStream, NoObjectIsVersion DEF Served
  <2>5. ~Live'
    BY <2>1, <2>3 DEF Live, Exists
  <2> QED
    BY <1>2, <2>1, <2>2, <2>4, <2>5 DEF Served
<1>4. ASSUME NEW v \in Version, cr' = v, watch' = Append(watch, v),
             v.rv = rv + 1, v.conf > 0, ~Exists(cr) \/ isSpecUpdated(cr, v)
      PROVE  KnownOK' /\ Served'
  <2>1. KnownOK'
    BY <1>1, <1>2, <1>4, StoreKnown
  <2>2. Exists(v)
    BY <1>4, StreamFacts DEF Exists
  <2>3. relists = 0 => /\ StreamOK(crCache, Append(watch, v), v)
                       /\ Due(crCache, Append(watch, v), 0)
    BY <1>2, <1>4, <2>2, AppendStream DEF Served
  <2>4. relists' = 0 => StreamOK(crCache', watch', cr') /\ Coming'
    BY <1>2, <1>4, <2>3 DEF Coming
  <2> QED
    BY <2>1, <2>4 DEF Served
<1> QED
  BY <1>1, <1>3, <1>4, UserAsks

\* What passes the filter as the stream goes on is what each controller wants.
LEMMA PassesWanted ==
  ASSUME watch \in Seq(Version), watch # <<>>, Passes(crCache, watch, 1)
  PROVE  Wanted(Head(watch))
<1>1. Head(watch) = watch[1] /\ At(crCache, watch, 1 - 1) = crCache
  BY DEF At
<1> QED
  BY <1>1 DEF Passes, Wanted

LEMMA DeliveryServed ==
  ASSUME OrderInv, KnownOK, Served, ReceiveVersion
  PROVE  KnownOK' /\ Served'
<1>1. /\ UNCHANGED <<cr, relists, faults, crashes, pc, plan, step, obj, app, child, edits, form>>
      /\ watch # <<>> /\ crCache' = Head(watch) /\ watch' = Tail(watch)
      /\ queued' = (queued \/ Wanted(Head(watch)))
  BY DEF ReceiveVersion, Deliver, workerVars, faultVars, childVars
<1>2. watch \in Seq(Version) /\ obj \in Known
  BY StreamFacts DEF Known
<1>3. /\ 1 \in DOMAIN watch /\ Head(watch) = watch[1]
      /\ \A k \in DOMAIN Tail(watch) : k + 1 \in DOMAIN watch /\ Tail(watch)[k] = watch[k + 1]
  BY <1>1, <1>2, AnnouncedTail
<1>4. KnownOK'
  BY <1>1, <1>2, <1>3, SameKnown DEF Known
<1>5. relists = 0 => /\ StreamOK(Head(watch), Tail(watch), cr)
                     /\ Due(crCache, watch, 0) =>
                          Passes(crCache, watch, 1) \/ Due(Head(watch), Tail(watch), 0)
  BY <1>1, <1>2, TailStream DEF Served
<1>6. relists = 0 /\ Coming => Coming'
  BY <1>1, <1>2, <1>5, PassesWanted DEF Coming
<1>7. (Best' <=> Best) /\ (Live' <=> Live)
  BY <1>1, SamePlans DEF Best, Provisioned, CurrentAtRest, Stumbled, Half, Stands, Live, Exists
<1> QED
  BY <1>1, <1>4, <1>5, <1>6, <1>7 DEF Served

LEMMA TakeServed ==
  ASSUME OrderInv, KnownOK, Served, ReconcileNotFound \/ Reconcile
  PROVE  KnownOK' /\ Served'
<1>1. /\ UNCHANGED <<cr, crCache, watch, relists, faults, crashes, app, child>>
      /\ queued' = FALSE
      /\ \/ ~Exists(crCache) /\ pc' = pc /\ pc = "idle" /\ obj' = obj
         \/ pc' # "idle" /\ obj' = crCache
  BY DEF ReconcileNotFound, Reconcile, Take, workerVars, faultVars, childVars, Begin
<1>2. KnownOK'
  BY <1>1, SameKnown DEF Known
<1>3. relists = 0 => /\ StreamOK(crCache, watch, cr)
                     /\ Live /\ AsksElse(crCache, cr) => Due(crCache, watch, 0)
  <2>1. 0 \in 0..Len(watch) /\ At(crCache, watch, 0) = crCache
    BY StreamFacts DEF At
  <2> QED
    BY <2>1 DEF Served, StreamOK, Live
<1>4. relists = 0 /\ Live /\ ~Coming' => ~AsksElse(crCache, cr)
  BY <1>1, <1>3 DEF Coming
<1>5. Live' <=> Live
  BY <1>1 DEF Live, Exists
<1> QED
  BY <1>1, <1>2, <1>3, <1>4, <1>5 DEF Served, AsksElse

LEMMA FinalizerServed ==
  ASSUME OrderInv, KnownOK, Served, AddFinalizerCall \/ RemoveFinalizerCall
  PROVE  KnownOK' /\ Served'
<1>1. /\ FinalizerFacts /\ UNCHANGED <<crCache, queued, relists>>
      /\ pc # "idle" /\ pc' # "idle" /\ (faults' = 0 => faults = 0)
  <2>1. faults' = faults \/ faults' = faults + 1
    BY DEF AddFinalizerCall, RemoveFinalizerCall, Fault
  <2>2. faults' = 0 => faults = 0
    BY <2>1, StreamFacts
  <2> QED
    BY <2>2, FinalizerWrites DEF OrderInv, AddFinalizerCall, RemoveFinalizerCall, Begin
<1>2. /\ watch \in Seq(Version) /\ rv \in Nat /\ obj \in Known
      /\ Exists(obj) /\ obj.conf > 0 /\ obj.conf \in Nat
      /\ Current(obj) => Exists(cr) /\ obj.conf = cr.conf /\ obj.del = cr.del
  BY <1>1, StreamFacts DEF Known, KnownOK, FinalizerFacts, Current
<1>3. CASE UNCHANGED <<cr, rv, watch>> /\ obj'.rv = obj.rv
  <2>1. /\ KnownOK' /\ (AsksElse(obj', cr) <=> AsksElse(obj, cr))
        /\ (Live' <=> Live) /\ (Coming' <=> Coming)
    <3>1. KnownOK'
      BY <1>1, <1>3, SameKnown DEF Known, FinalizerFacts
    <3>2. AsksElse(obj', cr) <=> AsksElse(obj, cr)
      BY <1>1 DEF FinalizerFacts, AsksElse
    <3> QED
      BY <1>1, <1>3, <3>1, <3>2 DEF Live, Exists, Coming
  <2> QED
    BY <1>1, <1>3, <2>1 DEF Served
<1>4. CASE Remove /\ obj'.rv = obj.rv
  <2>1. cr' = NoObject /\ watch' = Append(watch, NoObject) /\ ~Exists(NoObject)
    BY <1>4 DEF Remove, Exists, NoObject
  <2>2. KnownOK'
    BY <1>1, <1>4, <2>1, StoreKnown, NoObjectIsVersion DEF FinalizerFacts
  <2>3. relists = 0 => StreamOK(crCache, Append(watch, NoObject), NoObject)
    BY <1>2, <2>1, AppendStream, NoObjectIsVersion DEF Served
  <2>4. ~Live'
    BY <2>1 DEF Live, Exists
  <2> QED
    BY <1>1, <2>1, <2>2, <2>3, <2>4 DEF Served
<1>5. ASSUME Current(obj), ~obj.del, obj' = cr' \/ obj'.rv = obj.rv, NEW v \in Version,
             v.rv = rv + 1, v.conf = obj.conf, v.del = obj.del, cr' = v,
             watch' = Append(watch, v)
      PROVE  KnownOK' /\ Served'
  <2>1. KnownOK'
    BY <1>1, <1>2, <1>5, StoreKnown DEF FinalizerFacts
  <2>2. relists = 0 => StreamOK(crCache, Append(watch, v), v)
    BY <1>2, <1>5, AppendStream DEF Served
  <2>3. ~AsksElse(obj', v)
    BY <1>1, <1>5 DEF FinalizerFacts, AsksElse
  <2> QED
    BY <1>1, <1>5, <2>1, <2>2, <2>3 DEF Served
<1> QED
  BY <1>1, <1>3, <1>4, <1>5 DEF FinalizerFacts

\* What leaves the resource, the worker and the children alone.
LEMMA IdleServed ==
  ASSUME OrderInv, KnownOK, Served,
         \/ PeriodicResync \/ UNCHANGED vars \/ Crash \/ ReceiveList
         \/ \E o \in Objects : ReceiveChild(o) \/ Touch(o)
  PROVE  KnownOK' /\ Served'
<1>1. CASE PeriodicResync \/ UNCHANGED vars \/ \E o \in Objects : ReceiveChild(o) \/ Touch(o)
  <2>1. /\ UNCHANGED <<cr, crCache, watch, relists, faults, crashes, pc, obj, app, child>>
        /\ queued' = queued \/ queued'
    BY <1>1 DEF PeriodicResync, Resync, vars, ReceiveChild, Touch, crVars, workerVars,
       faultVars, childVars
  <2>2. KnownOK'
    BY <2>1, SameKnown DEF Known
  <2>3. (Best' <=> Best) /\ (Live' <=> Live)
    <3>1. UNCHANGED <<edits, form>>
      BY <1>1 DEF PeriodicResync, Resync, vars, ReceiveChild, Touch, crVars
    <3> QED
      BY <2>1, <3>1, SamePlans
         DEF Best, Provisioned, CurrentAtRest, Stumbled, Half, Stands, Live, Exists
  <2>4. Coming => Coming'
    BY <2>1 DEF Coming
  <2> QED
    BY <2>1, <2>2, <2>3, <2>4 DEF Served
<1>2. CASE Crash
  <2>1. /\ cr' = cr /\ crCache' = cr /\ watch' = <<>> /\ queued' = Exists(cr)
        /\ obj' = NoObject /\ DOMAIN <<>> = {}
    BY <1>2 DEF Crash, RestartInformer, Release
  <2>2. KnownOK'
    BY <2>1, SameKnown
  <2>3. StreamOK(cr, <<>>, cr)
    BY ListedStream
  <2>4. Live' => Coming'
    BY <2>1 DEF Live, Exists, Coming
  <2> QED
    BY <2>1, <2>2, <2>3, <2>4 DEF Served
<1>3. CASE ReceiveList
  <2>1. /\ cr' = cr /\ crCache' = cr /\ watch' = <<>> /\ relists' = relists + 1
        /\ obj' = obj /\ DOMAIN <<>> = {}
    BY <1>3 DEF ReceiveList, Relist, workerVars
  <2>2. KnownOK'
    BY <2>1, SameKnown DEF Known
  <2>3. relists' # 0
    BY <2>1, StreamFacts
  <2> QED
    BY <2>2, <2>3 DEF Served
<1> QED
  BY <1>1, <1>2, <1>3

-----------------------------------------------------------------------------
(* Users at any time: the children. *)

\* Caches that do not lag show a child as it is.
LEMMA ToldPut ==
  ASSUME Told, ChildTypeOK, NEW o \in Objects, NEW c, Put(o, c)
  PROVE  Told'
<1>1. child' = [child EXCEPT ![o] = c] /\ child \in [Objects -> Nat]
      /\ shown \in [Objects -> BOOLEAN] /\ lag \in [Objects -> Seq(BOOLEAN)]
  BY DEF Put, ChildTypeOK
<1>2. CASE child[o] = c
  BY <1>1, <1>2 DEF Put, Told, Stands
<1>3. CASE child[o] # c /\ o \in Lagging
  <2>1. shown' = shown /\ lag' = [lag EXCEPT ![o] = Append(@, c # 0)]
    BY <1>3 DEF Put, Notice
  <2>2. \A x \in Objects \ Lagging :
          lag'[x] = lag[x] /\ shown'[x] = shown[x] /\ child'[x] = child[x]
    BY <1>1, <1>3, <2>1
  <2> QED
    BY <2>2 DEF Told, Stands
<1>4. CASE child[o] # c /\ o \notin Lagging
  <2>1. lag' = lag /\ shown' = [shown EXCEPT ![o] = (c # 0)]
    BY <1>4 DEF Put, Notice
  <2>2. \A x \in Objects \ {o} : shown'[x] = shown[x] /\ child'[x] = child[x]
    BY <1>1, <2>1
  <2>3. (shown'[o] <=> c # 0) /\ child'[o] = c
    BY <1>1, <2>1
  <2> QED
    BY <2>1, <2>2, <2>3 DEF Told, Stands
<1> QED
  BY <1>2, <1>3, <1>4

LEMMA StepTold ==
  ASSUME OrderInv, Told, [Next]_vars
  PROVE  Told'
<1>1. ChildTypeOK /\ TypeInv
  BY TypeParts DEF OrderInv
<1>2. CASE UNCHANGED childVars
  BY <1>2 DEF Told, childVars, Stands
<1>3. CASE \E o \in Objects : \E c : Put(o, c)
  BY <1>1, <1>3, ToldPut
<1>4. CASE Crash
  <2>1. /\ child' = child /\ shown' = [o \in Objects |-> child[o] # 0]
        /\ lag' = [o \in Objects |-> <<>>]
    BY <1>4 DEF Crash
  <2> QED
    BY <2>1 DEF Told, Stands
<1>5. ASSUME NEW o \in Objects, ReceiveChild(o) \/ Touch(o) PROVE Told'
  <2>1. child' = child /\ child \in [Objects -> Nat]
        /\ shown \in [Objects -> BOOLEAN] /\ lag \in [Objects -> Seq(BOOLEAN)]
    BY <1>1, <1>5 DEF ReceiveChild, Touch, ChildTypeOK
  <2>2. CASE ReceiveChild(o)
    <3>1. o \in Lagging
      BY <2>2 DEF ReceiveChild, Told
    <3>2. \A x \in Objects \ Lagging : lag'[x] = lag[x] /\ shown'[x] = shown[x]
      BY <2>1, <2>2, <3>1 DEF ReceiveChild
    <3> QED
      BY <2>1, <3>2 DEF Told, Stands
  <2>3. CASE Touch(o)
    <3>1. child[o] # 0 /\ Notice(o, TRUE)
      BY <2>3 DEF Touch
    <3>2. \A x \in Objects \ Lagging :
            lag'[x] = lag[x] /\ (shown'[x] = shown[x] \/ (x = o /\ shown'[x]))
      BY <2>1, <3>1 DEF Notice
    <3> QED
      BY <2>1, <3>1, <3>2 DEF Told, Stands
  <2> QED
    BY <1>5, <2>2, <2>3
<1>6. CASE CallServer \/ CallFails
  <2>1. pc = "call"
    BY <1>6 DEF CallServer, CallFails
  <2>2. Plans(app)[plan][step].object \in Objects
    BY <1>1, <2>1, CallWrites
  <2> QED
    BY <1>2, <1>3, <1>6, <2>2 DEF CallServer, CallFails
<1> QED
  BY <1>2, <1>4, <1>5, <1>6 DEF Next, Worker, vars, ReconcileNotFound, Reconcile, Take,
     AddFinalizerCall, RemoveFinalizerCall, CallStops, ReceiveVersion, ReceiveList,
     PeriodicResync, UserWrite

-----------------------------------------------------------------------------
(* Users at any time: the calls of the handlers. *)

\* A call that succeeds is no restart and no write of the users.
LEMMA SmoothCall ==
  ASSUME CallServer
  PROVE  (Smooth' <=> Smooth) /\ (Stumbled' <=> Stumbled)
<1>1. UNCHANGED <<edits, form, crashes>>
  BY DEF CallServer, sameCR, faultVars
<1> QED
  BY <1>1 DEF Smooth, Stumbled

LEMMA WhiteboardRuns ==
  ASSUME OrderInv, app = "whiteboard"
  PROVE  ~Stumbled
<1>1. form \in [1..MaxEdits -> {"plain"}] /\ edits \in 0..MaxEdits
  BY DEF OrderInv, TypeInv, TypeOK, CRTypeOK, FormsOf
<1> QED
  BY <1>1, EditBoundsAssumption DEF Stumbled

\* Nobody but the worker changes what Kept is about.
LEMMA SameKept ==
  ASSUME Kept, Smooth' => Smooth, UNCHANGED <<app, pc, plan, step, obj, child, faults>>
  PROVE  Kept'
<1>1. /\ Needed' = Needed /\ \A p, k : Visited(p, k)' = Visited(p, k)
      /\ \A o : Stands(o)' <=> Stands(o)
  BY SamePlans DEF Stands
<1>2. (\A p : Handling(p)' <=> Handling(p)) /\ (Gone' <=> Gone) /\ (Rising' <=> Rising)
  BY <1>1 DEF Handling, Gone, Rising
<1>3. (Progress' <=> Progress) /\ (WorkloadKept' <=> WorkloadKept)
  BY <1>1, <1>2 DEF Progress, WorkloadKept
<1> QED
  BY <1>3 DEF Kept

\* A handler has ended or begins: it has visited nothing.
LEMMA FreshKept ==
  ASSUME Smooth' => Smooth, UNCHANGED <<app, child>>, pc' # "call" \/ step' = 1,
         pc' = "call" /\ plan' = "get" => app \notin {"jicofo", "etherpad", "whiteboard"},
         Smooth =>
           /\ Stands("workload") \/ Gone
           /\ pc' = "call" /\ plan' = "update" /\ app = "jicofo" => Stands("workload")
           /\ app = "whiteboard" /\ Stands("workload") => Stands("service")
  PROVE  Kept'
<1>1. /\ Needed' = Needed /\ \A p, k : Visited(p, k)' = Visited(p, k)
      /\ \A o : Stands(o)' <=> Stands(o)
  BY SamePlans DEF Stands
<1>2. \A p : Visited(p, 1) = {}
  BY DEF Visited
<1>3. pc' = "call" => \A p : Visited(p, step)' = {}
  BY <1>1, <1>2
<1>4. (Gone' <=> Gone) /\ (Gone /\ pc' = "call" => Rising')
  BY <1>1, <1>3 DEF Gone, Rising, Stands
<1>5. Progress'
  BY <1>3 DEF Progress, Handling
<1>6. Smooth' => WorkloadKept'
  BY <1>1, <1>3, <1>4 DEF WorkloadKept, Handling
<1> QED
  BY <1>5, <1>6 DEF Kept

LEMMA InCall ==
  ASSUME OrderInv, KnownOK, pc = "call", NEW c, c = Plans(app)[plan][step]
  PROVE  /\ app \in AllApps /\ plan \in Handlers /\ step \in DOMAIN Plans(app)[plan]
         /\ c.object \in Objects
         /\ child \in [Objects -> Nat] /\ obj.conf \in Nat \ {0}
         /\ plan = "delete" <=> obj.del
<1>1. /\ app \in AllApps /\ plan \in Handlers /\ step \in DOMAIN Plans(app)[plan]
      /\ Exists(obj) /\ (plan = "delete" <=> obj.del)
  BY AppsAssumption DEF OrderInv, TypeInv, TypeOK, WorkOK
<1>2. c.object \in Objects
  BY <1>1, PlanFacts
<1>3. child \in [Objects -> Nat]
  BY DEF OrderInv, TypeInv, TypeOK
<1>4. obj.conf \in Nat /\ obj.conf > 0
  BY <1>1, StreamFacts DEF Known, KnownOK
<1> QED
  BY <1>1, <1>2, <1>3, <1>4

\* What a handler leaves that has ended without an error.
Provides == ~obj.del /\ obj.conf = cr.conf /\ pc' = "idle" => queued' \/ Best'

LEMMA GetKept ==
  ASSUME OrderInv, KnownOK, Kept, faults = 0, CallServer, plan = "get"
  PROVE  Kept' /\ Provides
<1> DEFINE c == Plans(app)[plan][step]
<1>1. /\ pc = "call" /\ Put(c.object, Written(c)) /\ UNCHANGED app
      /\ (Smooth' <=> Smooth) /\ \E reading : Advance(Outcome(c), reading)
  BY SmoothCall DEF CallServer, sameCR
<1>2. /\ app \in AllApps /\ step \in DOMAIN Plans(app)[plan] /\ c.object \in Objects
      /\ child \in [Objects -> Nat]
  BY <1>1, InCall
<1>3. app \notin {"jicofo", "etherpad", "whiteboard"}
      /\ (Smooth => Stands("workload") \/ Gone)
  BY <1>1 DEF Kept, Progress, WorkloadKept, Handling
<1>4. c = Call("get", "workload", {}) /\ Last
  <2>1. Plans(app)["get"] = <<Call("get", "workload", {})>>
    BY <1>2, PlanShapes
  <2>2. \A call : DOMAIN <<call>> = {1} /\ Len(<<call>>) = 1 /\ <<call>>[1] = call
    OBVIOUS
  <2> QED
    BY <1>2, <2>1, <2>2 DEF Last
<1>5. c.verb = "get" /\ c.passed = {}
  BY <1>4 DEF Call
<1>6. Outcome(c) \in {"ok", "absent"} /\ Written(c) = child[c.object]
  BY <1>5 DEF Outcome, Written
<1>7. child' = child
  BY <1>1, <1>2, <1>6, SamePut DEF childVars
<1>8. \E reading : Close(Outcome(c), reading)
  BY <1>1, <1>4, <1>5, <1>6, AdvanceCases DEF Continues, Last
<1>9. Then(plan, Outcome(c)) \in {"create", "update"}
  BY <1>3, <1>6 DEF Then, AfterGetOrCreate
<1>10. Turns("create") \/ Turns("update")
  BY <1>1, <1>8, <1>9, CloseCases
<1> QED
  BY <1>1, <1>3, <1>7, <1>10, FreshKept DEF Turns, Provides

LEMMA CreateKept ==
  ASSUME OrderInv, KnownOK, Kept, faults = 0, CallServer, plan = "create"
  PROVE  Kept' /\ Provides
<1> DEFINE c == Plans(app)[plan][step]
<1>1. /\ pc = "call" /\ Put(c.object, Written(c)) /\ UNCHANGED <<app, cr, faults, crashes>>
      /\ (Smooth' <=> Smooth) /\ \E reading : Advance(Outcome(c), reading)
  BY SmoothCall DEF CallServer, sameCR, faultVars
<1>2. /\ app \in AllApps /\ step \in DOMAIN Plans(app)[plan] /\ c.object \in Objects
      /\ child \in [Objects -> Nat] /\ obj.conf \in Nat \ {0}
  BY <1>1, InCall
<1>3. /\ c.verb = "create" /\ c.object \in Needed
      /\ Last => c.passed = {}
      /\ Last <=> c.object = "workload"
  BY <1>2, PlanShapes DEF IsCreation, Last, MadeBy
<1>4. /\ Visited("create", step + 1) = Visited("create", step) \cup {c.object}
      /\ Last => Visited("create", step + 1) = Needed
      /\ c.object \notin Visited("create", step)
      /\ "workload" \in Needed /\ Needed \subseteq Objects
  BY <1>2, <1>3, VisitedGrows, VisitedAll, VisitedOnce, PlanShapes DEF Handlers, Last
<1>5. /\ \A o \in Visited("create", step) : Stands(o)
      /\ Smooth =>
           /\ Stands("workload") \/ Rising
           /\ app = "whiteboard" /\ Stands("workload") => Stands("service")
  BY <1>1 DEF Kept, Progress, WorkloadKept, Handling
<1>6. Needed' = Needed /\ Updated' = Updated /\ \A p, k : Visited(p, k)' = Visited(p, k)
  BY <1>1, SamePlans
<1> HIDE DEF c
<1>7. CASE child[c.object] # 0
  <2>1. Outcome(c) = "exists" /\ Written(c) = child[c.object]
    BY <1>3, <1>7 DEF Outcome, Written
  <2>2. child' = child
    BY <1>1, <1>2, <2>1, SamePut DEF childVars
  <2>3. Smooth => Stands("workload")
    BY <1>3, <1>4, <1>5, <1>7 DEF Rising
  <2>4. Continues \/ \E reading : Close("exists", reading)
    <3>1. Last => "exists" \notin c.passed
      BY <1>3
    <3> QED
      BY <1>1, <2>1, <3>1, AdvanceCases DEF c
  <2>5. Then(plan, "exists") \in {"retry", "update"}
    BY DEF Then, AfterGetOrCreate, AfterJicofo, AfterEtherpad, AfterWhiteboard, Otherwise,
       NotFound
  <2>6. Continues \/ Return(TRUE) \/ Turns("update")
    BY <1>1, <2>4, <2>5, CloseCases
  <2>7. CASE Continues
    <3>1. pc' = "call" /\ plan' = "create" /\ step' = step + 1
      BY <1>1, <2>7 DEF Continues
    <3>2. \A o : Stands(o)' <=> Stands(o)
      BY <2>2 DEF Stands
    <3>3. Visited("create", step)' = Visited("create", step + 1)
      BY <1>6, <3>1
    <3>4. Progress'
      BY <1>4, <1>5, <1>7, <3>1, <3>2, <3>3 DEF Progress, Handling, Stands
    <3>5. Smooth => WorkloadKept'
      BY <1>1, <1>5, <2>3, <3>1, <3>2 DEF WorkloadKept, Handling
    <3> QED
      BY <1>1, <3>1, <3>4, <3>5 DEF Kept, Provides
  <2>8. CASE Return(TRUE)
    <3>1. pc' = "idle" /\ queued'
      BY <2>8 DEF Return, Release
    <3> QED
      BY <1>1, <1>5, <2>2, <2>3, <3>1, FreshKept DEF Provides
  <2>9. CASE Turns("update")
    <3>1. pc' = "call" /\ plan' = "update" /\ step' = 1
      BY <2>9 DEF Turns
    <3> QED
      BY <1>1, <1>5, <2>2, <2>3, <3>1, FreshKept DEF Provides
  <2> QED
    BY <2>6, <2>7, <2>8, <2>9
<1>8. CASE child[c.object] = 0
  <2>1. Outcome(c) = "ok"
    BY <1>3, <1>8 DEF Outcome
  <2>2. Written(c) = obj.conf
    BY <1>3, <2>1 DEF Written
  <2>3. child' = [child EXCEPT ![c.object] = obj.conf]
    BY <1>1, <2>2 DEF Put
  <2>4. Then(plan, "ok") = "return"
    BY DEF Then, AfterGetOrCreate, AfterJicofo, AfterEtherpad, AfterWhiteboard, Otherwise,
       NotFound
  <2>5. Continues \/ (Return(FALSE) /\ Last)
    BY <1>1, <2>1, <2>4, AdvanceCases, CloseCases DEF c
  <2>6. /\ \A o \in Visited("create", step + 1) : child'[o] # 0
        /\ \A o \in Objects : child[o] # 0 => child'[o] # 0
    <3>1. \A o \in Visited("create", step) : child[o] # 0
      BY <1>5 DEF Stands
    <3>2. Visited("create", step) \subseteq Objects
      BY <1>2, PlanFacts DEF Visited, Handlers
    <3> QED
      BY <1>2, <1>4, <2>3, <3>1, <3>2
  <2>7. Smooth /\ Rising =>
          \A o \in Needed : child'[o] = IF o \in Visited("create", step + 1) THEN obj.conf ELSE 0
    BY <1>2, <1>4, <2>3 DEF Rising
  <2>8. CASE Continues
    <3>1. pc' = "call" /\ plan' = "create" /\ step' = step + 1 /\ obj' = obj
      BY <1>1, <2>8 DEF Continues
    <3>2. c.object # "workload"
      BY <1>3, <2>8 DEF Continues, Last
    <3>3. /\ Stands("workload")' <=> Stands("workload")
          /\ Stands("service") => Stands("service")'
      BY <1>2, <1>4, <2>3, <2>6, <3>2 DEF Stands, Objects
    <3>4. Visited("create", step)' = Visited("create", step + 1)
      BY <1>6, <3>1
    <3>5. Progress'
      BY <2>6, <3>1, <3>4 DEF Progress, Handling, Stands
    <3>6. Smooth /\ Rising => Rising'
      BY <1>6, <2>7, <3>1, <3>4 DEF Rising
    <3>7. Smooth => WorkloadKept'
      BY <1>1, <1>5, <3>1, <3>3, <3>6 DEF WorkloadKept, Handling
    <3> QED
      BY <1>1, <3>1, <3>5, <3>7 DEF Kept, Provides
  <2>9. CASE Return(FALSE) /\ Last
    <3>1. pc' = "idle" /\ c.object = "workload"
      BY <1>3, <2>9 DEF Return, Release
    <3>2. \A o \in Needed : Stands(o)'
      BY <1>4, <2>6, <2>9 DEF Stands
    <3>3. app = "whiteboard" => "service" \in Needed
      BY DEF Needed, Plans, WhiteboardCreate, Call
    <3>4. Smooth => WorkloadKept'
      BY <1>1, <1>4, <3>1, <3>2, <3>3 DEF WorkloadKept, Handling
    <3>5. Progress'
      BY <3>1 DEF Progress, Handling
    <3>6. obj.conf = cr.conf => Best'
      <4>1. child'["workload"] = obj.conf
        BY <1>2, <2>3, <3>1
      <4>2. Smooth => \A o \in Needed : child'[o] = obj.conf
        <5>1. Smooth => Rising
          BY <1>5, <1>8, <3>1 DEF Stands
        <5> QED
          BY <1>4, <2>7, <2>9, <5>1
      <4>3. Smooth \/ CurrentAtRest' = {"workload"}
        <5>1. crashes \in Nat /\ crashes' = crashes /\ (Stumbled' <=> Stumbled)
          BY <1>1, StreamFacts, SmoothCall
        <5> QED
          BY <5>1 DEF CurrentAtRest, Smooth
      <4>4. ASSUME obj.conf = cr.conf PROVE Provisioned(CurrentAtRest)'
        <5>1. \A o \in Needed : Stands(o)' /\ (o \in CurrentAtRest' => child'[o] = cr.conf)
          BY <3>2, <4>1, <4>2, <4>3, <4>4
        <5> QED
          BY <1>1, <1>6, <5>1 DEF Provisioned
      <4> QED
        BY <4>4 DEF Best
    <3> QED
      BY <1>1, <3>4, <3>5, <3>6 DEF Kept, Provides
  <2> QED
    BY <2>5, <2>8, <2>9
<1> QED
  BY <1>7, <1>8

\* A PUT that creates what is absent comes first in Jicofo's Update, and after the
\* Service in Prosody's.
LEMMA UpdateApplies ==
  ASSUME app \in AllApps, NEW k \in DOMAIN Plans(app)["update"],
         Plans(app)["update"][k].verb = "apply"
  PROVE  app = "jicofo" \/ "service" \in Visited("update", k) \cap Needed
<1>1. CASE app = "prosody"
  <2>1. Plans(app)["update"] = ProsodyUpdate /\ Plans(app)["create"] = ProsodyCreate
    BY <1>1 DEF Plans
  <2>2. k = 2
    BY <2>1 DEF ProsodyUpdate, UpdateService, Call
  <2>3. /\ ProsodyUpdate[1].object = "service" /\ ProsodyUpdate[1].verb # "get"
        /\ ProsodyCreate[1].object = "service" /\ 1 \in DOMAIN ProsodyCreate
    BY DEF ProsodyUpdate, ProsodyCreate, UpdateService, CreateService, Call
  <2>4. 1 \in {m \in 1..k - 1 : ProsodyUpdate[m].verb # "get"}
    BY <2>2, <2>3
  <2>5. "service" \in Visited("update", k)
    BY <2>1, <2>3, <2>4 DEF Visited
  <2>6. "service" \in Needed
    BY <1>1, <2>1, <2>3, PlanShapes DEF MadeBy
  <2> QED
    BY <2>5, <2>6
<1>2. ASSUME app \notin {"prosody", "jicofo"} PROVE FALSE
  <2>1. CASE app = "web"
    BY <2>1 DEF Plans, WebUpdate, UpdateService, Call
  <2>2. CASE app = "jigasi"
    BY <2>2 DEF Plans, JigasiUpdate, Call
  <2>3. CASE app = "jibri"
    BY <2>3 DEF Plans, JibriUpdate, Call
  <2>4. CASE app \in {"etherpad", "whiteboard"}
    BY <2>4, UpdatesFirstVerbs DEF UpdatesFirst
  <2> QED
    BY <1>2, <2>1, <2>2, <2>3, <2>4 DEF AllApps
<1> QED
  BY <1>1, <1>2

LEMMA UpdateKept ==
  ASSUME OrderInv, KnownOK, Kept, faults = 0, CallServer, plan = "update"
  PROVE  Kept' /\ Provides
<1> DEFINE c == Plans(app)[plan][step]
<1>1. /\ pc = "call" /\ Put(c.object, Written(c)) /\ UNCHANGED <<app, cr, faults, crashes>>
      /\ (Smooth' <=> Smooth) /\ \E reading : Advance(Outcome(c), reading)
  BY SmoothCall DEF CallServer, sameCR, faultVars
<1>2. /\ app \in AllApps /\ step \in DOMAIN Plans(app)[plan] /\ c.object \in Objects
      /\ child \in [Objects -> Nat] /\ obj.conf \in Nat \ {0}
  BY <1>1, InCall
<1>3. /\ c.verb \in {"update", "updateRead", "put", "apply"}
      /\ c.passed = {} \/ c.verb = "apply"
      /\ c.object \in Needed \cap Updated
      /\ app = "whiteboard" => c.verb = "put"
      /\ c.verb = "apply" => app = "jicofo" \/ "service" \in Visited("update", step) \cap Needed
  <2>1. app = "whiteboard" => c.verb = "put"
    BY <1>2, UpdatesFirstVerbs DEF UpdatesFirst
  <2>2. c.verb = "apply" => app = "jicofo" \/ "service" \in Visited("update", step) \cap Needed
    BY <1>2, UpdateApplies
  <2> QED
    BY <1>2, <2>1, <2>2, PlanShapes DEF IsUpdate
<1>4. /\ Visited("update", step + 1) = Visited("update", step) \cup {c.object}
      /\ Last => Visited("update", step + 1) = Needed \cap Updated
      /\ "workload" \in Needed /\ Needed \subseteq Objects
  BY <1>2, <1>3, VisitedGrows, VisitedAll, PlanShapes DEF Handlers, Last
<1>5. /\ \A o \in Visited("update", step) : child[o] = obj.conf
      /\ Smooth =>
           /\ Stands("workload") \/ Gone
           /\ app = "jicofo" => Stands("workload")
           /\ app = "whiteboard" /\ Stands("workload") => Stands("service")
  BY <1>1 DEF Kept, Progress, WorkloadKept, Handling
<1>6. Needed' = Needed /\ Updated' = Updated /\ \A p, k : Visited(p, k)' = Visited(p, k)
  BY <1>1, SamePlans
<1> HIDE DEF c
<1>7. CASE Outcome(c) = "ok"
  <2>1. child' = [child EXCEPT ![c.object] = obj.conf]
    <3>1. Written(c) = obj.conf
      BY <1>3, <1>7 DEF Written
    <3> QED
      BY <1>1, <3>1 DEF Put
  <2>2. Smooth => Stands("workload")
    <3>1. CASE c.verb = "apply"
      BY <1>2, <1>3, <1>5, <3>1 DEF Gone, Stands
    <3>2. CASE c.verb # "apply"
      <4>1. Stands(c.object)
        BY <1>3, <1>7, <3>2 DEF Outcome, Stands
      <4> QED
        BY <1>3, <1>5, <4>1 DEF Gone
    <3> QED
      BY <3>1, <3>2
  <2>3. /\ \A o \in Visited("update", step + 1) : child'[o] = obj.conf
        /\ \A o \in Objects : Stands(o) => Stands(o)'
    <3>1. Visited("update", step) \subseteq Objects
      BY <1>2, PlanFacts DEF Visited, Handlers
    <3> QED
      BY <1>2, <1>4, <1>5, <2>1, <3>1 DEF Stands
  <2>4. Then(plan, "ok") = "return"
    BY DEF Then, AfterGetOrCreate, AfterJicofo, AfterEtherpad, AfterWhiteboard, Otherwise,
       NotFound
  <2>5. Continues \/ (Return(FALSE) /\ Last)
    BY <1>1, <1>7, <2>4, AdvanceCases, CloseCases DEF c
  <2>6. Smooth => Stands("workload")' /\ (app = "whiteboard" => Stands("service")')
    BY <1>5, <2>2, <2>3 DEF Objects
  <2>7. CASE Continues
    <3>1. pc' = "call" /\ plan' = "update" /\ step' = step + 1 /\ obj' = obj
      BY <1>1, <2>7 DEF Continues
    <3>2. Visited("update", step)' = Visited("update", step + 1)
      BY <1>6, <3>1
    <3>3. Progress'
      BY <2>3, <3>1, <3>2 DEF Progress, Handling
    <3>4. Smooth => WorkloadKept'
      BY <1>1, <2>6, <3>1 DEF WorkloadKept, Handling
    <3> QED
      BY <1>1, <3>1, <3>3, <3>4 DEF Kept, Provides
  <2>8. CASE Return(FALSE) /\ Last
    <3>1. pc' = "idle"
      BY <2>8 DEF Return, Release
    <3>2. Progress'
      BY <3>1 DEF Progress, Handling
    <3>3. Smooth => WorkloadKept'
      BY <1>1, <2>6, <3>1 DEF WorkloadKept, Handling
    <3>4. \A o \in Needed \cap Updated : child'[o] = obj.conf
      BY <1>4, <2>3, <2>8
    <3>5. ASSUME obj.conf = cr.conf PROVE Best'
      <4>1. CASE app # "whiteboard"
        <5>1. Needed \cap Updated = Needed
          BY <1>4, <4>1 DEF Updated
        <5>2. \A o \in Needed : Stands(o)' /\ child'[o] = cr.conf
          BY <1>2, <3>4, <3>5, <5>1 DEF Stands
        <5>3. Provisioned(CurrentAtRest)'
          BY <1>1, <1>6, <5>2 DEF Provisioned
        <5> QED
          BY <5>3 DEF Best
      <4>2. CASE app = "whiteboard"
        <5>1. Stands("workload")' /\ child'["workload"] = cr.conf
          BY <1>2, <1>4, <3>4, <3>5, <4>2 DEF Updated, Stands
        <5>2. Needed \subseteq {"service", "workload"}
          BY <1>2, <4>2, PlanShapes DEF MadeBy, Plans, WhiteboardCreate, Call
        <5>3. CurrentAtRest' = {"workload"}
          BY <1>1, <4>2 DEF CurrentAtRest, Updated
        <5>4. CASE Stands("service")'
          <6>1. \A o \in Needed : Stands(o)' /\ (o \in CurrentAtRest' => child'[o] = cr.conf)
            BY <5>1, <5>2, <5>3, <5>4
          <6>2. Provisioned(CurrentAtRest)'
            BY <1>1, <1>6, <6>1 DEF Provisioned
          <6> QED
            BY <6>2 DEF Best
        <5>5. CASE ~Stands("service")'
          <6>1. crashes \in Nat /\ crashes # 0 /\ crashes' = crashes
            BY <1>1, <2>6, <4>2, <5>5, StreamFacts, WhiteboardRuns DEF Smooth
          <6>2. crashes' > 0
            BY <6>1
          <6>3. Half'
            BY <1>1, <4>2, <5>1, <5>5 DEF Half
          <6> QED
            BY <6>2, <6>3 DEF Best
        <5> QED
          BY <5>4, <5>5
      <4> QED
        BY <4>1, <4>2
    <3> QED
      BY <1>1, <3>2, <3>3, <3>5 DEF Kept, Provides
  <2> QED
    BY <2>5, <2>7, <2>8
<1>8. CASE Outcome(c) # "ok"
  <2>1. child' = child
    <3>1. Written(c) = child[c.object]
      BY <1>8 DEF Written
    <3> QED
      BY <1>1, <1>2, <3>1, SamePut DEF childVars
  <2>2. c.verb # "apply" /\ c.passed = {}
    BY <1>3, <1>8 DEF Outcome
  <2>3. \E reading : Close(Outcome(c), reading)
    BY <1>1, <1>8, <2>2, AdvanceCases DEF c
  <2>4. Then(plan, Outcome(c)) \in {"retry", "create"}
    <3>1. CASE app = "whiteboard"
      <4>1. Outcome(c) = "notFound"
        BY <1>3, <1>8, <3>1 DEF Outcome
      <4> QED
        BY <3>1, <4>1 DEF Then, AfterWhiteboard, NotFound
    <3>2. CASE app # "whiteboard"
      BY <1>8, <3>2 DEF Then, AfterGetOrCreate, AfterJicofo, AfterEtherpad, Otherwise
    <3> QED
      BY <3>1, <3>2
  <2>5. Return(TRUE) \/ Turns("create")
    BY <1>1, <2>3, <2>4, CloseCases
  <2>6. CASE Return(TRUE)
    <3>1. pc' = "idle" /\ queued'
      BY <2>6 DEF Return, Release
    <3> QED
      BY <1>1, <1>5, <2>1, <3>1, FreshKept DEF Provides
  <2>7. CASE Turns("create")
    <3>1. pc' = "call" /\ plan' = "create" /\ step' = 1
      BY <2>7 DEF Turns
    <3> QED
      BY <1>1, <1>5, <2>1, <3>1, FreshKept DEF Provides
  <2> QED
    BY <2>5, <2>6, <2>7
<1> QED
  BY <1>7, <1>8

\* Delete removes the workload last, and passes over what the cache does not show of
\* the rest.  Whiteboard deletes the workload that it has read.
OrderedDeletion(s) ==
  \A k \in DOMAIN s :
    /\ k < Len(s) => s[k].verb = "get" \/ (s[k].verb = "delete" /\ "absent" \in s[k].passed
                                           /\ s[k].object # "workload")
    /\ k = Len(s) => s[k].verb \in Removals /\ s[k].object = "workload"

LEMMA DeletionOrder ==
  ASSUME app \in AllApps
  PROVE  /\ OrderedDeletion(Plans(app)["delete"])
         /\ app = "whiteboard" =>
              Plans(app)["delete"][Len(Plans(app)["delete"])].verb = "deleteRead"
<1> USE DEF OrderedDeletion, Removals, Outcomes
<1>1. OrderedDeletion(WebDelete)
  BY DEF WebDelete, DeleteService, Call
<1>2. OrderedDeletion(ProsodyDelete)
  BY DEF ProsodyDelete, DeleteService, Call
<1>3. OrderedDeletion(JigasiDelete) /\ OrderedDeletion(JibriDelete)
  BY DEF JigasiDelete, JibriDelete, Call
<1>4. OrderedDeletion(JicofoDelete)
  BY DEF JicofoDelete, Call
<1>5. OrderedDeletion(EtherpadDelete)
  BY DEF EtherpadDelete, DeleteService, Call
<1>6. OrderedDeletion(WhiteboardDelete)
  BY DEF WhiteboardDelete, DeleteService, Call
<1>7. WhiteboardDelete[Len(WhiteboardDelete)].verb = "deleteRead"
  BY DEF WhiteboardDelete, DeleteService, Call
<1> HIDE DEF OrderedDeletion, Removals, Outcomes
<1> QED
  BY <1>1, <1>2, <1>3, <1>4, <1>5, <1>6, <1>7 DEF Plans, AllApps

LEMMA DeleteKept ==
  ASSUME OrderInv, KnownOK, Told, Kept, Lagging \subseteq {"workload"}, faults = 0,
         CallServer, plan = "delete"
  PROVE  Kept' /\ Provides
<1> DEFINE c == Plans(app)[plan][step]
<1>1. /\ pc = "call" /\ Put(c.object, Written(c)) /\ UNCHANGED <<app, cr, faults, crashes>>
      /\ (Smooth' <=> Smooth) /\ \E reading : Advance(Outcome(c), reading)
  BY SmoothCall DEF CallServer, sameCR, faultVars
<1>2. /\ app \in AllApps /\ step \in DOMAIN Plans(app)[plan] /\ c.object \in Objects
      /\ child \in [Objects -> Nat] /\ obj.del
  BY <1>1, InCall
<1>3. Provides
  BY <1>2 DEF Provides
<1>4. \/ Last /\ c.verb \in Removals /\ c.object = "workload"
         /\ (app = "whiteboard" => c.verb = "deleteRead")
      \/ ~Last /\ c.verb = "delete" /\ "absent" \in c.passed /\ c.object # "workload"
      \/ c.verb = "get" /\ step = 1
  <2>1. step < Len(Plans(app)[plan]) \/ Last
    BY <1>2, PlanFacts DEF Last, Handlers
  <2>2. c.verb = "get" => step = 1
    BY <1>2, PlanShapes DEF IsDeletion, Removals
  <2>3. step < Len(Plans(app)[plan]) => ~Last
    BY <1>2, PlanFacts DEF Last, Handlers
  <2>4. /\ step < Len(Plans(app)[plan]) =>
             c.verb = "get" \/ (c.verb = "delete" /\ "absent" \in c.passed
                                /\ c.object # "workload")
        /\ Last => c.verb \in Removals /\ c.object = "workload"
    BY <1>2, DeletionOrder DEF OrderedDeletion, Last
  <2>5. Last /\ app = "whiteboard" => c.verb = "deleteRead"
    BY <1>2, DeletionOrder DEF Last
  <2> QED
    BY <2>1, <2>2, <2>3, <2>4, <2>5
<1>5. /\ Visited("delete", 1) = {}
      /\ c.verb = "get" => Visited("delete", step + 1) = Visited("delete", step)
      /\ c.verb # "get" => Visited("delete", step + 1) = Visited("delete", step) \cup {c.object}
      /\ Last => Visited("delete", step + 1) = Needed
      /\ "workload" \in Needed /\ Needed \subseteq Objects
  BY <1>2, VisitedGrows, VisitedAll, PlanShapes DEF Handlers, Last
<1>6. Needed' = Needed /\ \A p, k : Visited(p, k)' = Visited(p, k)
  BY <1>1, SamePlans
<1>7. Continues \/ \E err \in BOOLEAN : Return(err)
  <2>1. \A outcome : Then(plan, outcome) \in {"return", "retry"}
    BY DEF Then, AfterGetOrCreate, AfterJicofo, AfterEtherpad, AfterWhiteboard, Otherwise
  <2>2. Continues \/ \E outcome, reading : Close(outcome, reading)
    BY <1>1, AdvanceCases
  <2> QED
    BY <1>1, <2>1, <2>2, CloseCases
<1>8. Progress'
  <2>1. CASE Continues
    BY <2>1 DEF Continues, Progress, Handling
  <2>2. CASE \E err \in BOOLEAN : Return(err)
    BY <2>2 DEF Return, Release, Progress, Handling
  <2> QED
    BY <1>7, <2>1, <2>2
<1> HIDE DEF c
<1>9. ASSUME Smooth PROVE WorkloadKept'
  <2>1. /\ Stands("workload") \/ Gone
        /\ \A o \in Visited("delete", step) : ~Stands(o)
        /\ app = "whiteboard" /\ Stands("workload") =>
             Stands("service") \/ "service" \in Visited("delete", step)
    BY <1>1, <1>9 DEF Kept, WorkloadKept, Handling
  <2>2. Continues => Visited("delete", step)' = Visited("delete", step + 1)
    BY <1>6 DEF Continues
  <2>3. /\ Continues => pc' = "call" /\ plan' = "delete"
        /\ (\E err \in BOOLEAN : Return(err)) => pc' = "idle"
    BY <1>1 DEF Continues, Return, Release
  <2>4. CASE c.verb = "get" /\ step = 1
    <3>1. child' = child
      <4>1. Written(c) = child[c.object]
        BY <2>4 DEF Written
      <4> QED
        BY <1>1, <1>2, <4>1, SamePut DEF childVars
    <3>2. (\A o : Stands(o)' <=> Stands(o)) /\ (Gone' <=> Gone)
      BY <1>6, <3>1 DEF Stands, Gone
    <3> QED
      BY <1>1, <1>5, <1>7, <2>1, <2>2, <2>3, <2>4, <3>2 DEF WorkloadKept, Handling
  <2>5. CASE ~Last /\ c.verb = "delete" /\ "absent" \in c.passed /\ c.object # "workload"
    <3>1. shown[c.object] <=> Stands(c.object)
      BY <1>2, <2>5 DEF Told
    <3>2. Outcome(c) = IF Stands(c.object) THEN "ok" ELSE "absent"
      <4>1. lag[c.object] = <<>>
        BY <1>2, <2>5 DEF Told
      <4> QED
        BY <2>5, <3>1, <4>1 DEF Outcome, Get, Stands
    <3>3. Written(c) = 0
      BY <1>2, <2>5, <3>2 DEF Written, Stands
    <3>4. child' = [child EXCEPT ![c.object] = 0]
      BY <1>1, <3>3 DEF Put
    <3>5. Continues
      BY <1>1, <2>5, <3>2, AdvanceCases DEF c
    <3>6. \A o \in Objects : Stands(o)' <=> Stands(o) /\ o # c.object
      BY <1>2, <3>4 DEF Stands
    <3>7. Visited("delete", step + 1) \subseteq Objects
      BY <1>2, PlanFacts DEF Visited, Handlers
    <3>8. \A o \in Visited("delete", step)' : ~Stands(o)'
      BY <1>2, <1>5, <2>1, <2>2, <2>5, <3>5, <3>6, <3>7
    <3>9. (Gone => Gone') /\ (Stands("workload") => Stands("workload")')
      BY <1>5, <1>6, <2>5, <3>6 DEF Gone, Objects
    <3>10. app = "whiteboard" /\ Stands("workload")' =>
             Stands("service")' \/ "service" \in Visited("delete", step)'
      BY <1>5, <2>1, <2>2, <2>5, <3>5, <3>6 DEF Objects
    <3> QED
      BY <1>1, <2>1, <2>3, <3>5, <3>8, <3>9, <3>10 DEF WorkloadKept, Handling
  <2>6. CASE Last /\ c.verb \in Removals /\ c.object = "workload"
             /\ (app = "whiteboard" => c.verb = "deleteRead")
    <3>1. pc' = "idle"
      BY <1>7, <2>3, <2>6 DEF Continues, Last
    <3>2. child' = [child EXCEPT !["workload"] = Written(c)]
      BY <1>1, <2>6 DEF Put
    <3>3. \A o \in Needed \ {"workload"} : ~Stands(o)'
      <4>1. \A o \in Needed \ {"workload"} : o \in Visited("delete", step) /\ o \in Objects
        BY <1>5, <2>6 DEF Removals
      <4> QED
        BY <1>2, <2>1, <3>2, <4>1 DEF Stands
    <3>4. Stands("workload")' \/ Gone'
      BY <1>6, <3>3 DEF Gone
    <3>5. app = "whiteboard" => ~Stands("workload")'
      <4>1. ASSUME app = "whiteboard" PROVE Written(c) = 0
        <5>1. c.verb = "deleteRead"
          BY <2>6, <4>1
        <5> QED
          BY <2>6, <5>1 DEF Written, Outcome
      <4> QED
        BY <1>2, <2>6, <3>2, <4>1 DEF Stands
    <3> QED
      BY <1>1, <3>1, <3>4, <3>5 DEF WorkloadKept, Handling
  <2> QED
    BY <1>4, <2>4, <2>5, <2>6
<1> QED
  BY <1>1, <1>3, <1>8, <1>9 DEF Kept

-----------------------------------------------------------------------------
(* Users at any time: every step. *)

LEMMA CallKept ==
  ASSUME OrderInv, KnownOK, Told, Kept, Lagging \subseteq {"workload"}, faults = 0, CallServer
  PROVE  Kept' /\ Provides
<1>1. plan \in Handlers
  BY DEF OrderInv, TypeInv, WorkOK, CallServer
<1> QED
  BY <1>1, GetKept, CreateKept, UpdateKept, DeleteKept DEF Handlers

LEMMA CallServed ==
  ASSUME OrderInv, BusyInv, Lagging \subseteq {"workload"}, CallServer \/ CallFails
  PROVE  KnownOK' /\ Served' /\ Kept'
<1>1. /\ UNCHANGED <<cr, rv, crCache, watch, edits, relists, app, crashes>> /\ pc = "call"
      /\ Goes
  BY CallOK DEF CallServer, CallFails, sameCR, faultVars, sameFaults, OrderInv
<1>2. KnownOK'
  BY <1>1, SameKnown DEF BusyInv, Goes, Known
<1>3. relists' = 0 => StreamOK(crCache, watch, cr)'
  BY <1>1 DEF BusyInv, Served
<1>4. faults \in Nat /\ (faults' = faults \/ faults' = faults + 1)
  BY StreamFacts DEF CallServer, CallFails, faultVars, Fault
<1>5. CASE faults' # 0
  BY <1>2, <1>3, <1>5 DEF Served, Kept
<1>6. CASE faults' = 0
  <2>1. faults = 0 /\ CallServer
    <3>1. faults = 0 /\ faults' = faults
      BY <1>4, <1>6
    <3> QED
      BY <3>1 DEF CallFails, Fault
  <2>2. Kept' /\ Provides
    BY <2>1, CallKept DEF BusyInv
  <2>3. queued => queued'
    <3>1. \E outcome, reading : Advance(outcome, reading)
      BY <2>1 DEF CallServer
    <3>2. Continues \/ \E outcome, reading : Close(outcome, reading)
      BY <3>1, AdvanceCases
    <3>3. \/ Continues \/ Return(FALSE) \/ Return(TRUE)
          \/ \E p : Turns(p)
      BY <1>1, <3>2, CloseCases
    <3> QED
      BY <3>3 DEF Continues, Return, Turns
  <2>4. Coming => Coming'
    BY <1>1, <2>3 DEF Coming
  <2>5. Live' <=> Live
    BY <1>1 DEF Live, Exists
  <2>6. ASSUME relists' = 0, Live', ~Coming'
        PROVE  IF pc' = "idle" THEN Best' ELSE ~AsksElse(obj, cr)'
    <3>1. ~AsksElse(obj, cr)
      BY <1>1, <2>1, <2>4, <2>5, <2>6 DEF BusyInv, Served
    <3>2. CASE pc' = "idle"
      BY <2>2, <2>6, <3>1, <3>2 DEF Provides, AsksElse, Coming
    <3>3. CASE pc' # "idle"
      BY <1>1, <3>1, <3>3 DEF Goes
    <3> QED
      BY <3>2, <3>3
  <2> QED
    BY <1>2, <1>3, <2>2, <2>6 DEF Served
<1> QED
  BY <1>5, <1>6

LEMMA BeginningKept ==
  ASSUME OrderInv, Kept,
         ReconcileNotFound \/ Reconcile \/ AddFinalizerCall \/ RemoveFinalizerCall
  PROVE  Kept'
<1>1. /\ UNCHANGED <<app, child>> /\ pc # "call"
      /\ \/ pc' # "call"
         \/ pc' = "call" /\ plan' \in {FirstPlan, "delete"} /\ step' = 1
  <2>1. CASE ReconcileNotFound \/ Reconcile
    BY <2>1 DEF ReconcileNotFound, Reconcile, Take, workerVars, childVars, faultVars, Begin
  <2>2. CASE AddFinalizerCall \/ RemoveFinalizerCall
    BY <2>2 DEF AddFinalizerCall, RemoveFinalizerCall, childVars, sameFaults, Begin
  <2> QED
    BY <2>1, <2>2
<1>2. faults' = 0 => faults = 0
  <2>1. faults' = faults \/ faults' = faults + 1
    BY DEF ReconcileNotFound, Reconcile, Take, faultVars, AddFinalizerCall,
       RemoveFinalizerCall, Fault
  <2> QED
    BY <2>1, StreamFacts
<1>3. /\ app = "jicofo" => FirstPlan = "create"
      /\ app \in {"etherpad", "whiteboard"} => FirstPlan = "update"
  BY DEF FirstPlan
<1>4. Smooth' => Smooth
  BY SmoothBefore DEF Next, Worker
<1>5. CASE faults' = 0
  <2>1. Smooth =>
          /\ Stands("workload") \/ Gone
          /\ app = "whiteboard" /\ Stands("workload") => Stands("service")
    BY <1>1, <1>2, <1>5 DEF Kept, WorkloadKept, Handling
  <2>2. /\ pc' # "call" \/ step' = 1
        /\ pc' = "call" /\ plan' = "get" => app \notin {"jicofo", "etherpad", "whiteboard"}
        /\ ~(pc' = "call" /\ plan' = "update" /\ app = "jicofo")
    BY <1>1, <1>3
  <2> QED
    BY <1>1, <1>4, <2>1, <2>2, FreshKept
<1> QED
  BY <1>5 DEF Kept

\* Only Update of Jibri is refused, which has read its workload.
LEMMA StopBusy ==
  ASSUME OrderInv, BusyInv, CallStops
  PROVE  KnownOK' /\ Served' /\ Kept'
<1> DEFINE c == Plans(app)[plan][step]
<1>1. /\ pc = "call" /\ pc' = "idle" /\ obj' = NoObject /\ queued'
      /\ UNCHANGED <<cr, rv, crCache, watch, relists, app, child>>
  BY StopOK DEF OrderInv, childVars
<1>2. KnownOK'
  BY <1>1, SameKnown DEF BusyInv, Known
<1>3. Served'
  BY <1>1 DEF BusyInv, Served, Coming
<1>4. (Smooth' => Smooth) /\ UNCHANGED faults
  BY SmoothBefore DEF Next, Worker, CallStops, faultVars
<1>5. Smooth => Stands("workload") /\ app = "jibri"
  <2>1. obj.conf > 0
    BY <1>1, InCall DEF BusyInv
  <2> QED
    BY <2>1, NoPanic DEF Smooth, CallStops, Refused, Stands
<1>6. Kept'
  BY <1>1, <1>4, <1>5, FreshKept
<1> QED
  BY <1>2, <1>3, <1>6

LEMMA CrashKept ==
  ASSUME OrderInv, Crash
  PROVE  Kept'
<1>1. pc' = "idle" /\ crashes' = crashes + 1 /\ crashes \in Nat
  BY StreamFacts DEF Crash, Release
<1>2. crashes' # 0
  BY <1>1
<1> QED
  BY <1>1, <1>2 DEF Kept, Smooth, Progress, Handling

LEMMA InitBusy == Init => BusyInv
<1> SUFFICES ASSUME Init PROVE BusyInv
  OBVIOUS
<1>1. /\ cr = NoObject /\ crCache = NoObject /\ watch = <<>> /\ obj = NoObject
      /\ pc = "idle" /\ ~Exists(NoObject)
  BY DEF Init, CRInit, Exists, NoObject
<1>2. \A o \in Objects : child[o] = 0 /\ ~shown[o] /\ lag[o] = <<>>
  BY DEF Init
<1>3. KnownOK
  BY <1>1 DEF KnownOK, Known
<1>4. Served
  BY <1>1, ListedStream DEF Served, Live
<1>5. Told
  BY <1>2 DEF Told, Stands
<1>6. app \in AllApps
  BY AppsAssumption DEF Init
<1>7. Gone /\ ~Stands("workload")
  BY <1>2, <1>6, PlanShapes DEF Gone, Stands, Objects
<1>8. Kept
  BY <1>1, <1>7 DEF Kept, Progress, WorkloadKept, Handling
<1> QED
  BY <1>3, <1>4, <1>5, <1>8 DEF BusyInv

LEMMA StepBusy ==
  ASSUME Lagging \subseteq {"workload"}, OrderInv, BusyInv, [Next]_vars
  PROVE  BusyInv'
<1>1. Told'
  BY StepTold DEF BusyInv
<1>2. CASE CallServer \/ CallFails
  BY <1>1, <1>2, CallServed DEF BusyInv
<1>3. CASE ReconcileNotFound \/ Reconcile
  BY <1>1, <1>3, TakeServed, BeginningKept DEF BusyInv
<1>4. CASE AddFinalizerCall \/ RemoveFinalizerCall
  BY <1>1, <1>4, FinalizerServed, BeginningKept DEF BusyInv
<1>5. CASE Crash
  BY <1>1, <1>5, IdleServed, CrashKept DEF BusyInv
<1>6. CASE UserWrite \/ ReceiveVersion \/ ReceiveList \/ PeriodicResync \/ UNCHANGED vars
           \/ \E o \in Objects : ReceiveChild(o) \/ Touch(o)
  <2>1. UNCHANGED <<app, pc, plan, step, obj, child, faults>>
    BY <1>6 DEF UserWrite, ReceiveVersion, ReceiveList, PeriodicResync, vars, ReceiveChild,
       Touch, workerVars, childVars, faultVars
  <2>2. Kept'
    BY <2>1, SameKept, SmoothBefore DEF BusyInv
  <2>3. KnownOK' /\ Served'
    BY <1>6, UserServed, DeliveryServed, IdleServed DEF BusyInv
  <2> QED
    BY <1>1, <2>2, <2>3 DEF BusyInv
<1>7. CASE CallStops
  BY <1>1, <1>7, StopBusy DEF BusyInv
<1> QED
  BY <1>2, <1>3, <1>4, <1>5, <1>6, <1>7 DEF Next, Worker

\* At rest nothing is coming.
LEMMA BusyAtRest == BusyInv => SettledMeansProvisioned
<1> SUFFICES ASSUME BusyInv, Settled, Live, faults = 0, relists = 0
             PROVE  Best
  BY DEF SettledMeansProvisioned, Best
<1>1. pc = "idle" /\ ~queued /\ DOMAIN watch = {}
  BY DEF Settled, Quiet
<1>2. ~Coming
  BY <1>1 DEF Coming, Due
<1> QED
  BY <1>1, <1>2 DEF BusyInv, Served

\* However the users write, whatever restarts or panics and whoever touches the
\* children: at rest the children are those of the present configuration - after a
\* restart or a panic the workload is, and the others stand - or a restart has left
\* one of the pairs that no reconciliation completes.  Only the workload's cache may
\* lag: a Delete told by a late cache that there is no Service or ConfigMap passes
\* on, and leaves it to the next resource of that name.
THEOREM AppsSettleAmidWrites ==
  ASSUME Lagging \subseteq {"workload"}
  PROVE  Spec => []SettledMeansProvisioned
<1>1. Init => OrderInv /\ BusyInv
  BY InitOrder, InitBusy
<1>2. OrderInv /\ BusyInv /\ [Next]_vars => (OrderInv /\ BusyInv)'
  BY StepOrder, StepBusy
<1>3. OrderInv /\ BusyInv => SettledMeansProvisioned
  BY BusyAtRest
<1> QED
  BY <1>1, <1>2, <1>3, PTL DEF Spec
=============================================================================
