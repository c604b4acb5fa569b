----------------------------- MODULE Neighbours -----------------------------
(***************************************************************************)
(* Several JVB resources under one controller.  Their child objects are    *)
(* named by number alone - two resources of a namespace render the same    *)
(* ones - and the config maps a deletion takes along are found by a label, *)
(* in all namespaces (internal/jitsi/jvb/deployment.go).                   *)
(*                                                                         *)
(* One action per round of a loop, one worker, a queue of keys.  The calls *)
(* of a round, their failures, lagging caches, restarts and the finalizer  *)
(* before the first reconciliation are in JVBController; here every call   *)
(* succeeds, so that what goes wrong is the neighbours' doing.             *)
(***************************************************************************)
EXTENDS Naturals, Sequences, SequencesExt

CONSTANTS Resources,    \* JVB resources
          Namespaces,
          NamespaceOf,  \* the namespace of each resource
          MaxReplicas,  \* bound: bridges wanted
          MaxEdits      \* bound: writes of users

ASSUME NamespaceAssumption == NamespaceOf \in [Resources -> Namespaces]
ASSUME NeighbourBoundsAssumption == MaxReplicas \in Nat \ {0} /\ MaxEdits \in Nat

Replicas == 1..MaxReplicas

\* "bridge" stands for the Deployment jvb-N and its two Services, "shared" for
\* the config maps of the script and of the logging.
Kinds == {"bridge", "sip"}
Objects == Namespaces \X ((Kinds \X Replicas) \cup {<<"shared", 0>>})
Bridge(ns, r) == <<ns, <<"bridge", r>>>>
SIP(ns, r) == <<ns, <<"sip", r>>>>
Shared(ns) == <<ns, <<"shared", 0>>>>
ConfigMaps == {o \in Objects : o[2][1] \in {"sip", "shared"}}

\* A JVB resource; conf is the serial number of what users wrote last.
JVB == [state : {"none", "present", "deleted"}, replicas : 0..MaxReplicas,
        status : 0..MaxReplicas, conf : Nat]
NoJVB == [state |-> "none", replicas |-> 0, status |-> 0, conf |-> 0]

VARIABLES
  jvb,      \* the stored resources
  queue,    \* the work queue
  pc,       \* the round the worker is in, or "idle"
  me, obj,  \* the key and the copy it works on
  replica,
  child,    \* the stored child objects: conf of the rendering, 0 for none
  edits

workerVars == <<pc, me, obj, replica>>
vars == <<jvb, queue, workerVars, child, edits>>

Rounds == {"idle", "shared", "create", "scaleDown", "updateShared", "update", "status",
           "delete", "deleteCMs"}

TypeOK ==
  /\ jvb \in [Resources -> JVB]
  /\ queue \in Seq(Resources)
  /\ \A k, l \in DOMAIN queue : queue[k] = queue[l] => k = l
  /\ pc \in Rounds /\ me \in Resources /\ obj \in JVB
  /\ replica \in 0..(MaxReplicas + 1)
  /\ child \in [Objects -> 0..MaxEdits]
  /\ edits \in 0..MaxEdits

Init ==
  /\ jvb = [x \in Resources |-> NoJVB]
  /\ queue = <<>>
  /\ pc = "idle" /\ me \in Resources /\ obj = NoJVB /\ replica = 0
  /\ child = [o \in Objects |-> 0]
  /\ edits = 0

-----------------------------------------------------------------------------
\* Mutant: the queue does not look for the key.
AddAlways(x) == Append(queue, x)
Add(x) == IF Contains(queue, x) THEN queue ELSE Append(queue, x)

Here == NamespaceOf[me]

Round(next, r) == pc' = next /\ replica' = r /\ UNCHANGED <<me, obj>>
Release == pc' = "idle" /\ replica' = 0 /\ obj' = NoJVB /\ UNCHANGED me

\* Store the objects of O as rendered from obj.
Render(O) == child' = [o \in Objects |-> IF o \in O THEN obj.conf ELSE child[o]]
Clear(O) == child' = [o \in Objects |-> IF o \in O THEN 0 ELSE child[o]]
Missing(O) == {o \in O : child[o] = 0}

Reconcile ==
  /\ pc = "idle" /\ queue # <<>>
  /\ queue' = Tail(queue)
  /\ me' = Head(queue) /\ replica' = 1
  /\ CASE jvb[me'].state = "none" -> pc' = "idle" /\ obj' = NoJVB
       [] jvb[me'].state = "present" -> pc' = "shared" /\ obj' = jvb[me']
       [] OTHER -> pc' = "delete" /\ obj' = jvb[me']
  /\ jvb' = [jvb EXCEPT ![me'] = IF @.state = "deleted" THEN NoJVB ELSE @]
  /\ UNCHANGED <<child, edits>>

CreateConfigMaps ==
  /\ pc = "shared" /\ Round("create", 1)
  /\ Render(Missing({Shared(Here)}))
  /\ UNCHANGED <<jvb, queue, edits>>

\* A bridge that stands, whoever rendered it, is left to Update.
CreateReplica ==
  /\ pc = "create" /\ replica <= obj.replicas /\ Round("create", replica + 1)
  /\ IF child[Bridge(Here, replica)] # 0 THEN UNCHANGED child
     ELSE Render({Bridge(Here, replica)} \cup Missing({SIP(Here, replica)}))
  /\ UNCHANGED <<jvb, queue, edits>>

StartUpdate ==
  /\ pc = "create" /\ replica > obj.replicas
  /\ IF obj.status > obj.replicas THEN Round("scaleDown", obj.status)
                                  ELSE Round("updateShared", 1)
  /\ UNCHANGED <<jvb, queue, child, edits>>

ScaleDown ==
  /\ pc = "scaleDown"
  /\ IF replica = obj.replicas \/ replica = 1
     THEN Round("updateShared", 1) /\ UNCHANGED child
     ELSE Round("scaleDown", replica - 1) /\ Clear({Bridge(Here, replica)})
  /\ UNCHANGED <<jvb, queue, edits>>

UpdateConfigMaps ==
  /\ pc = "updateShared" /\ Round("update", 1)
  /\ Render({Shared(Here)})
  /\ UNCHANGED <<jvb, queue, edits>>

\* Mutant: a config map that is gone stays so.
WithoutMissing(O) == O \ Missing(O)
\* An update that finds no config map is followed by a creation.
Recreated(O) == O

\* With one worker, a bridge seen by Create is still there.
UpdateReplica ==
  /\ pc = "update" /\ replica <= obj.replicas /\ Round("update", replica + 1)
  /\ Render({Bridge(Here, replica)} \cup Recreated({SIP(Here, replica)}))
  /\ UNCHANGED <<jvb, queue, edits>>

\* Refused, and tried again, if the resource has changed.
UpdateStatus ==
  /\ pc = "update" /\ replica > obj.replicas
  /\ Release
  /\ IF jvb[me] = obj
     THEN jvb' = [jvb EXCEPT ![me].status = obj.replicas] /\ UNCHANGED queue
     ELSE queue' = Add(me) /\ UNCHANGED jvb
  /\ UNCHANGED <<child, edits>>

\* Mutant: by name, in all namespaces.
BridgesNumbered(r) == {Bridge(ns, r) : ns \in Namespaces}
\* deleteService, deleteInstance.
BridgesToDelete(r) == {Bridge(Here, r)}

DeleteReplica ==
  /\ pc = "delete" /\ replica <= obj.replicas /\ Round("delete", replica + 1)
  /\ Clear(BridgesToDelete(replica))
  /\ UNCHANGED <<jvb, queue, edits>>

\* deleteCMs: List has a label selector and no namespace.
DeleteConfigMaps ==
  /\ pc = "delete" /\ replica > obj.replicas
  /\ Release
  /\ Clear(ConfigMaps)
  /\ UNCHANGED <<jvb, queue, edits>>

Worker ==
  \/ Reconcile \/ CreateConfigMaps \/ CreateReplica \/ StartUpdate \/ ScaleDown
  \/ UpdateConfigMaps \/ UpdateReplica \/ UpdateStatus \/ DeleteReplica \/ DeleteConfigMaps

-----------------------------------------------------------------------------
Write(x, resource) ==
  /\ edits < MaxEdits /\ edits' = edits + 1
  /\ jvb' = [jvb EXCEPT ![x] = resource]
  /\ queue' = Add(x)
  /\ UNCHANGED <<workerVars, child>>

UserApply(x) ==
  /\ jvb[x].state # "deleted"
  /\ \E n \in Replicas :
       Write(x, [state |-> "present", replicas |-> n, status |-> jvb[x].status,
                 conf |-> edits + 1])

UserDelete(x) ==
  /\ jvb[x].state = "present"
  /\ Write(x, [jvb[x] EXCEPT !.state = "deleted"])

Resync(x) ==
  /\ jvb[x].state # "none" /\ ~Contains(queue, x)
  /\ queue' = Add(x)
  /\ UNCHANGED <<jvb, workerVars, child, edits>>

Next ==
  \/ Worker
  \/ \E x \in Resources : UserApply(x) \/ UserDelete(x) \/ Resync(x)

Spec == Init /\ [][Next]_vars

-----------------------------------------------------------------------------
Alone(x) == \A y \in Resources \ {x} : NamespaceOf[y] # NamespaceOf[x]
Settled == pc = "idle" /\ queue = <<>>

\* A resource that has its namespace for itself keeps its bridges, at their
\* present configuration, through the creation, scaling and deletion of
\* resources elsewhere, although all bridges bear the same names.
AloneMeansUndisturbed ==
  Settled => \A x \in Resources : jvb[x].state = "present" /\ Alone(x) =>
    \A r \in 1..jvb[x].replicas : child[Bridge(NamespaceOf[x], r)] = jvb[x].conf

ObjectsOf(x) ==
  {Shared(NamespaceOf[x])}
  \cup {<<NamespaceOf[x], <<k, r>>>> : k \in Kinds, r \in 1..jvb[x].replicas}

FairSpec == Spec /\ WF_vars(Worker) /\ \A x \in Resources : WF_vars(Resync(x))

\* What a neighbour takes away - by the label the config maps of all
\* namespaces, in one namespace also bridges - the resyncs bring back: at last
\* every resource has all its child objects, whoever rendered them.
EventuallyWhole ==
  <>[](\A x \in Resources : jvb[x].state = "present" =>
         \A o \in ObjectsOf(x) : child[o] # 0)
=============================================================================
