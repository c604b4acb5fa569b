---------------------------- MODULE AppController ----------------------------
(***************************************************************************)
(* The seven controllers that keep one application each: Web, Prosody,     *)
(* Jigasi, Jibri and Jicofo (internal/jitsi), Etherpad (internal/etherpad) *)
(* and Whiteboard (internal/whiteboard).  Each keeps a workload - a        *)
(* Deployment or a StatefulSet - and some a Service or a ConfigMap.        *)
(*                                                                         *)
(* Their handlers are straight sequences of calls to the Kubernetes API    *)
(* that differ in the calls, in the errors they pass over, and in what     *)
(* Reconcile makes of an error.  So each handler is a plan, a sequence of  *)
(* calls, and one worker carries the plans out, one call a step.           *)
(***************************************************************************)
EXTENDS CustomResource

CONSTANTS Apps,       \* the controllers of a run, one per behaviour
          MaxFaults,  \* bound: API calls that fail
          MaxCrashes, \* bound: restarts of the manager
          MaxTouches, \* bound: writes of other controllers to child objects
          Lagging,    \* bound: the child objects whose caches may lag
          Patient,    \* users write only when everything has settled
          Histories   \* bound: the forms of the configurations users write, in order

AllApps == {"web", "prosody", "jigasi", "jibri", "jicofo", "etherpad", "whiteboard"}
Objects == {"service", "config", "workload"}

\* The forms of a configuration that decide whether a call can succeed.
\*   panics  rendering it dereferences a nil pointer: Prosody with a TURN
\*           credential from a ConfigMap, Jibri with a storage that has neither
\*           a requested size nor an empty directory;
\*   claims  the storage of Jibri is a volume claim, always of the same size,
\*           which its StatefulSet keeps.
AllForms == {"plain", "panics", "claims"}
FormsOf(a) == IF a = "jibri" THEN AllForms
              ELSE IF a = "prosody" THEN {"plain", "panics"} ELSE {"plain"}

ASSUME AppsAssumption == Apps \subseteq AllApps
ASSUME AppBoundsAssumption == {MaxFaults, MaxCrashes, MaxTouches} \subseteq Nat
ASSUME AppChoicesAssumption ==
  /\ Lagging \subseteq Objects
  /\ Patient \in BOOLEAN
  /\ Histories \subseteq [1..MaxEdits -> AllForms]

VARIABLES
  app,    \* the controller
  form,   \* the form of each configuration, by its serial number
  pc,     \* "idle", a finalizer's PUT, or "call"
  plan,   \* the handler at work
  step,   \* its next call
  obj,    \* the custom resource the worker holds
  read,   \* how current the workload is that the handler has read
  child,  \* the configuration each stored child was rendered from, 0 if none
  shown,  \* the children in the informer caches
  lag,    \* per child, the changes its cache has not seen: it is there or not
  faults, crashes, touches

workerVars == <<pc, plan, step, obj, read>>
childVars  == <<child, shown, lag>>
faultVars  == <<faults, crashes, touches>>
vars == <<crVars, app, form, workerVars, childVars, faultVars>>

-----------------------------------------------------------------------------
(* Calls and their outcomes. *)

Outcomes == {"ok", "exists", "absent", "notFound", "conflict", "failed"}
NotFound == {"absent", "notFound"}  \* told by the cache, told by the server

\* A call of a handler, and the outcomes besides "ok" after which it goes on.
\*   get     read the workload from the cache;
\*   create  make the object;
\*   put     overwrite it without a resourceVersion;
\*   apply   put, and create it if the server does not know it;
\*   update, delete          read it from the cache, then write or delete it;
\*   updateRead, deleteRead  write or delete the workload read before.
Call(verb, object, passed) == [verb |-> verb, object |-> object, passed |-> passed]

\* internal/jitsi/service.go.
CreateService == Call("create", "service", {"exists"})
UpdateService == Call("update", "service", {})
DeleteService == Call("delete", "service", {"absent"})

-----------------------------------------------------------------------------
(* The handlers.  A plan is named after its method; "get" is the read with   *)
(* which the get-or-create controllers begin.                                *)

\* Mutant: a Service that is there already is an error.
WebCreateStrict == <<Call("create", "service", {}), Call("create", "workload", {})>>
WebCreate == <<CreateService, Call("create", "workload", {})>>
WebUpdate == <<UpdateService, Call("updateRead", "workload", {})>>
\* Mutant: the Service is forgotten.
WebDeleteWorkload == <<Call("delete", "workload", {"notFound"})>>
WebDelete == <<DeleteService, Call("delete", "workload", {"notFound"})>>

ProsodyCreate == <<CreateService, Call("create", "config", Outcomes),
                   Call("create", "workload", {})>>
ProsodyUpdate == <<UpdateService, Call("apply", "config", Outcomes),
                   Call("updateRead", "workload", {})>>
ProsodyDelete == <<DeleteService, Call("delete", "config", Outcomes),
                   Call("delete", "workload", {})>>

JigasiCreate == <<Call("create", "workload", {})>>
JigasiUpdate == <<Call("updateRead", "workload", {})>>
JigasiDelete == <<Call("delete", "workload", {"notFound"})>>

JibriCreate == <<Call("create", "workload", {})>>
JibriUpdate == <<Call("updateRead", "workload", {})>>
JibriDelete == <<Call("delete", "workload", {})>>

JicofoCreate == <<Call("create", "config", Outcomes), Call("create", "workload", {})>>
JicofoUpdate == <<Call("apply", "config", Outcomes), Call("put", "workload", {})>>
JicofoDelete == <<Call("delete", "config", Outcomes), Call("delete", "workload", {})>>

\* Etherpad and Whiteboard have a Service of their own, created strictly.
EtherpadCreate == <<Call("create", "service", {}), Call("create", "workload", {})>>
EtherpadUpdate == <<UpdateService, Call("put", "workload", {})>>
EtherpadDelete == <<Call("get", "workload", {}), DeleteService,
                    Call("deleteRead", "workload", {})>>

WhiteboardCreate == <<Call("create", "service", {}), Call("create", "workload", {})>>
WhiteboardUpdate == <<Call("put", "workload", {})>>
WhiteboardDelete == <<Call("get", "workload", {}), DeleteService,
                      Call("deleteRead", "workload", {})>>

Plans(a) ==
  [get    |-> <<Call("get", "workload", {})>>,
   create |-> CASE a = "web" -> WebCreate
                [] a = "prosody" -> ProsodyCreate
                [] a = "jigasi" -> JigasiCreate
                [] a = "jibri" -> JibriCreate
                [] a = "jicofo" -> JicofoCreate
                [] a = "etherpad" -> EtherpadCreate
                [] a = "whiteboard" -> WhiteboardCreate,
   update |-> CASE a = "web" -> WebUpdate
                [] a = "prosody" -> ProsodyUpdate
                [] a = "jigasi" -> JigasiUpdate
                [] a = "jibri" -> JibriUpdate
                [] a = "jicofo" -> JicofoUpdate
                [] a = "etherpad" -> EtherpadUpdate
                [] a = "whiteboard" -> WhiteboardUpdate,
   delete |-> CASE a = "web" -> WebDelete
                [] a = "prosody" -> ProsodyDelete
                [] a = "jigasi" -> JigasiDelete
                [] a = "jibri" -> JibriDelete
                [] a = "jicofo" -> JicofoDelete
                [] a = "etherpad" -> EtherpadDelete
                [] a = "whiteboard" -> WhiteboardDelete]

-----------------------------------------------------------------------------
(* What the Reconcile methods make of the end of a handler: the next plan,   *)
(* "return" for nil, "retry" for an error.                                   *)

Otherwise(outcome) == IF outcome = "ok" THEN "return" ELSE "retry"

\* Web, Prosody, Jigasi, Jibri.
AfterGetOrCreate(p, outcome) ==
  CASE p = "get" /\ outcome = "ok" -> "update"
    [] p = "get" /\ outcome = "absent" -> "create"
    [] OTHER -> Otherwise(outcome)

AfterJicofo(p, outcome) ==
  IF p = "create" /\ outcome = "exists" THEN "update" ELSE Otherwise(outcome)

AfterEtherpad(p, outcome) ==
  CASE p = "update" /\ outcome \in NotFound -> "create"
    [] p = "delete" /\ outcome \in NotFound -> "return"
    [] OTHER -> Otherwise(outcome)

\* Any other error of Update is dropped.
AfterWhiteboard(p, outcome) ==
  IF p = "update" THEN IF outcome \in NotFound THEN "create" ELSE "return"
  ELSE Otherwise(outcome)

Then(p, outcome) ==
  CASE app = "jicofo" -> AfterJicofo(p, outcome)
    [] app = "etherpad" -> AfterEtherpad(p, outcome)
    [] app = "whiteboard" -> AfterWhiteboard(p, outcome)
    [] OTHER -> AfterGetOrCreate(p, outcome)

FirstPlan == CASE app = "jicofo" -> "create"
               [] app \in {"etherpad", "whiteboard"} -> "update"
               [] OTHER -> "get"

-----------------------------------------------------------------------------
(* Child objects. *)

Get(o) == IF ~shown[o] THEN "absent" ELSE IF lag[o] # <<>> THEN "stale" ELSE "current"

Notice(o, present) ==
  IF o \in Lagging THEN lag' = [lag EXCEPT ![o] = Append(@, present)] /\ UNCHANGED shown
  ELSE shown' = [shown EXCEPT ![o] = present] /\ UNCHANGED lag

Put(o, c) ==
  /\ child' = [child EXCEPT ![o] = c]
  /\ IF child[o] = c THEN UNCHANGED <<shown, lag>> ELSE Notice(o, c # 0)

Fault == faults < MaxFaults /\ faults' = faults + 1

Outcome(c) ==
  LET o == c.object
      reading == IF c.verb = "updateRead" THEN read ELSE Get(o)
  IN  IF c.verb = "create" /\ child[o] # 0 THEN "exists"
      ELSE IF c.verb \in {"get", "update", "delete"} /\ reading = "absent" THEN "absent"
      ELSE IF c.verb \notin {"create", "apply", "get"} /\ child[o] = 0 THEN "notFound"
      ELSE IF c.verb \in {"update", "updateRead"} /\ reading = "stale" THEN "conflict"
      ELSE "ok"

\* Mutant: Update leaves the pod template as it was read.
WrittenUnchanged(c) ==
  IF Outcome(c) # "ok" \/ c.verb \in {"get", "updateRead"} THEN child[c.object]
  ELSE IF c.verb \in {"delete", "deleteRead"} THEN 0 ELSE obj.conf
\* What the object is after the call.
Written(c) ==
  IF Outcome(c) # "ok" \/ c.verb = "get" THEN child[c.object]
  ELSE IF c.verb \in {"delete", "deleteRead"} THEN 0 ELSE obj.conf

\* Mutant: setPV looks at the empty directory before it looks for a claim.
PanicsForClaims(c) ==
  /\ form[obj.conf] # "plain"
  /\ c.verb \notin {"get", "delete", "deleteRead"}
  /\ c.object = IF app = "prosody" THEN "config" ELSE "workload"
\* Rendering the object of a call panics (getTurnCredential, setPV); Create and
\* Update render it alike.
Panics(c) ==
  /\ form[obj.conf] = "panics"
  /\ c.verb \notin {"get", "delete", "deleteRead"}
  /\ c.object = IF app = "prosody" THEN "config" ELSE "workload"

\* Update replaces the claim templates of the StatefulSet, which are immutable.
Refused(c) ==
  /\ c.verb = "updateRead" /\ app = "jibri"
  /\ child["workload"] # 0
  /\ form[child["workload"]] # form[obj.conf]

-----------------------------------------------------------------------------
Init ==
  /\ CRInit
  /\ app \in Apps
  /\ form \in Histories \cap [1..MaxEdits -> FormsOf(app)]
  /\ pc = "idle" /\ plan = "none" /\ step = 0 /\ obj = NoObject /\ read = "absent"
  /\ child = [o \in Objects |-> 0]
  /\ shown = [o \in Objects |-> FALSE]
  /\ lag = [o \in Objects |-> <<>>]
  /\ faults = 0 /\ crashes = 0 /\ touches = 0

sameFaults == UNCHANGED <<crashes, touches>>

Begin(p) == pc' = "call" /\ plan' = p /\ step' = 1

\* The worker lets go of the object; err puts the key back on the queue.
Release ==
  /\ pc' = "idle" /\ plan' = "none" /\ step' = 0
  /\ obj' = NoObject /\ read' = "absent"
Return(err) == Release /\ queued' = (queued \/ err)

Close(outcome, reading) ==
  LET next == Then(plan, outcome)
  IN  CASE next = "return" -> Return(FALSE)
        [] next = "retry" -> Return(TRUE)
        [] OTHER -> Begin(next) /\ read' = reading /\ UNCHANGED <<obj, queued>>

\* Mutant: one call too many.
FinishedLate(calls) == step > Len(calls)
Finished(calls) == step = Len(calls)

\* The handler goes on after a call, or ends with its outcome.  reading: what
\* it knows of the workload from now on.
Advance(outcome, reading) ==
  LET calls == Plans(app)[plan] IN
  IF outcome \in calls[step].passed \cup {"ok"}
  THEN IF Finished(calls)
       THEN Close("ok", reading)
       ELSE /\ step' = step + 1 /\ read' = reading
            /\ UNCHANGED <<pc, plan, obj, queued>>
  ELSE Close(outcome, reading)

-----------------------------------------------------------------------------
(* Reconcile, newInstance. *)

Take ==
  /\ pc = "idle" /\ queued
  /\ UNCHANGED <<cr, rv, crCache, watch, edits, relists, app, form, childVars, faultVars>>

ReconcileNotFound ==
  /\ Take /\ ~Exists(crCache)
  /\ queued' = FALSE
  /\ UNCHANGED workerVars

Reconcile ==
  /\ Take /\ Exists(crCache)
  /\ queued' = FALSE
  /\ obj' = crCache /\ UNCHANGED read
  /\ IF crCache.del THEN pc' = "removeFinalizer" /\ UNCHANGED <<plan, step>>
     ELSE IF crCache.fin THEN Begin(FirstPlan)
     ELSE pc' = "addFinalizer" /\ UNCHANGED <<plan, step>>

\* The errors of both finalizer helpers are logged; the object in memory has
\* changed either way.
AddFinalizerCall ==
  /\ pc = "addFinalizer"
  /\ Begin(FirstPlan)
  /\ UNCHANGED <<crCache, queued, edits, relists, app, form, read, childVars>>
  /\ sameFaults
  /\ \/ AddFinalizer(obj) /\ obj' = cr' /\ UNCHANGED faults
     \/ /\ ~Current(obj)
        /\ obj' = [obj EXCEPT !.fin = TRUE]
        /\ UNCHANGED <<cr, rv, watch, faults>>
     \/ /\ Fault
        /\ obj' = [obj EXCEPT !.fin = TRUE]
        /\ AddFinalizer(obj) \/ UNCHANGED <<cr, rv, watch>>

RemoveFinalizerCall ==
  /\ pc = "removeFinalizer"
  /\ Begin("delete")
  /\ obj' = [obj EXCEPT !.fin = FALSE]
  /\ UNCHANGED <<crCache, queued, edits, relists, app, form, read, childVars>>
  /\ sameFaults
  /\ \/ RemoveFinalizer(obj) /\ UNCHANGED faults
     \/ ~Current(obj) /\ UNCHANGED <<cr, rv, watch, faults>>
     \/ Fault /\ (RemoveFinalizer(obj) \/ UNCHANGED <<cr, rv, watch>>)

-----------------------------------------------------------------------------
(* One call of the handler. *)

sameCR == UNCHANGED <<cr, rv, crCache, watch, edits, relists, app, form>>

CallServer ==
  /\ pc = "call"
  /\ LET c == Plans(app)[plan][step] IN
     /\ ~Panics(c) /\ ~Refused(c)
     /\ Put(c.object, Written(c))
     /\ Advance(Outcome(c), IF c.verb = "get" THEN Get(c.object) ELSE read)
  /\ sameCR /\ UNCHANGED faultVars

\* The server does not answer, before or after the call took effect.
CallFails ==
  /\ pc = "call" /\ Fault
  /\ LET c == Plans(app)[plan][step] IN
     /\ ~Panics(c) /\ ~Refused(c)
     /\ c.verb # "get" /\ Outcome(c) # "absent"
     /\ Put(c.object, Written(c)) \/ UNCHANGED childVars
     /\ Advance("failed", read)
  /\ sameCR /\ sameFaults

\* Mutant: the panic is recovered and forgotten, the refusal only logged.
CallStopsSilently ==
  /\ pc = "call"
  /\ LET c == Plans(app)[plan][step] IN Panics(c) \/ Refused(c)
  /\ Return(FALSE)
  /\ sameCR /\ UNCHANGED <<childVars, faultVars>>
\* A panic, which controller-runtime makes an error of Reconcile, or an answer
\* that a second try cannot change.
CallStops ==
  /\ pc = "call"
  /\ LET c == Plans(app)[plan][step] IN Panics(c) \/ Refused(c)
  /\ Return(TRUE)
  /\ sameCR /\ UNCHANGED <<childVars, faultVars>>

-----------------------------------------------------------------------------
(* The surroundings. *)

\* Mutant: the event filter lets creations and deletions pass only.
isNeverUpdated(old, new) == FALSE
\* The event filter of the jitsi controllers; Etherpad and Whiteboard have none.
isSpecUpdated(old, new) == old.fin \/ ~new.fin

Wanted(new) ==
  \/ app \in {"etherpad", "whiteboard"}
  \/ ~Exists(crCache)
  \/ Exists(new) /\ isSpecUpdated(crCache, new)

ReceiveVersion ==
  /\ watch # <<>> /\ Deliver(Wanted(Head(watch)))
  /\ UNCHANGED <<app, form, workerVars, childVars, faultVars>>

ReceiveList == Relist(Wanted(cr)) /\ UNCHANGED <<app, form, workerVars, childVars, faultVars>>

PeriodicResync == Resync /\ UNCHANGED <<app, form, workerVars, childVars, faultVars>>

ReceiveChild(o) ==
  /\ lag[o] # <<>>
  /\ lag' = [lag EXCEPT ![o] = Tail(@)]
  /\ shown' = [shown EXCEPT ![o] = Head(lag[o])]
  /\ UNCHANGED <<crVars, app, form, workerVars, child, faultVars>>

\* Another controller writes a child, as the status of a Deployment.
Touch(o) ==
  /\ touches < MaxTouches /\ touches' = touches + 1
  /\ child[o] # 0
  /\ Notice(o, TRUE)
  /\ read' = IF o = "workload" /\ read = "current" THEN "stale" ELSE read
  /\ UNCHANGED <<crVars, app, form, pc, plan, step, obj, child, faults, crashes>>

Crash ==
  /\ crashes < MaxCrashes /\ crashes' = crashes + 1
  /\ RestartInformer
  /\ Release
  /\ shown' = [o \in Objects |-> child[o] # 0]
  /\ lag' = [o \in Objects |-> <<>>]
  /\ UNCHANGED <<app, form, child, faults, touches>>

Quiet == pc = "idle" /\ ~queued /\ watch = <<>>
Settled == Quiet /\ \A o \in Objects : lag[o] = <<>>

UserWrite ==
  /\ Patient => Settled
  /\ User
  /\ UNCHANGED <<app, form, workerVars, childVars, faultVars>>

Worker ==
  \/ ReconcileNotFound \/ Reconcile \/ AddFinalizerCall \/ RemoveFinalizerCall
  \/ CallServer \/ CallFails \/ CallStops

Next ==
  \/ Worker
  \/ ReceiveVersion \/ ReceiveList \/ PeriodicResync
  \/ \E o \in Objects : ReceiveChild(o) \/ Touch(o)
  \/ Crash
  \/ UserWrite

Spec == Init /\ [][Next]_vars
=============================================================================
