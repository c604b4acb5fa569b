--------------------------- MODULE AppRequirements ---------------------------
(***************************************************************************)
(* What the controllers of one application each promise.                   *)
(***************************************************************************)
EXTENDS AppController

TypeOK ==
  /\ CRTypeOK
  /\ app \in Apps
  /\ form \in [1..MaxEdits -> FormsOf(app)]
  /\ pc \in {"idle", "addFinalizer", "removeFinalizer", "call"}
  /\ plan \in {"none", "get", "create", "update", "delete"}
  /\ pc = "call" => step \in DOMAIN Plans(app)[plan]
  /\ obj \in Version
  /\ read \in {"absent", "stale", "current"}
  /\ child \in [Objects -> Nat]
  /\ shown \in [Objects -> BOOLEAN]
  /\ lag \in [Objects -> Seq(BOOLEAN)]
  /\ faults \in 0..MaxFaults /\ crashes \in 0..MaxCrashes /\ touches \in 0..MaxTouches

-----------------------------------------------------------------------------
Live == Exists(cr) /\ ~cr.del
Stands(o) == child[o] # 0
Needed == {Plans(app).create[k].object : k \in DOMAIN Plans(app).create}

Provisioned(current) == \A o \in Needed : Stands(o) /\ (o \in current => child[o] = cr.conf)

\* A configuration that panics may be among those users have written.
Stumbled == \E c \in 1..edits : form[c] = "panics"

\* Whiteboard never updates its Service.  Create passes over a Service or a
\* ConfigMap that stands, so after a restart or a panic in the middle of Create
\* these two stay as they were until the next Update.
Updated == IF app = "whiteboard" THEN {"workload"} ELSE Objects
CurrentAtRest == IF crashes > 0 \/ Stumbled THEN {"workload"} ELSE Updated

\* The pairs of children no reconciliation completes: Update of Web and Prosody
\* fails for ever without the Service, Create of Etherpad and Whiteboard fails
\* for ever with it, and Whiteboard does not miss a Service.
Half ==
  \/ app \in {"web", "prosody", "whiteboard"} /\ Stands("workload") /\ ~Stands("service")
  \/ app \in {"etherpad", "whiteboard"} /\ Stands("service") /\ ~Stands("workload")

\* The configurations no reconciliation can bring about: one that panics, and one
\* whose claim differs from the one the StatefulSet of Jibri was made with.
Stopped ==
  \/ form[cr.conf] = "panics"
  \/ app = "jibri" /\ Stands("workload") /\ form[child["workload"]] # form[cr.conf]

\* A handler that has dropped or passed over an error is not the last word: at
\* rest the children are those of the present configuration, unless a call has
\* failed, or a restart in the middle of Delete has left one of the pairs above
\* (Reconcile).  A broken watch may fold a user's write into the update that
\* shows the finalizer, which the filters drop: that waits for the resync.
SettledMeansProvisioned ==
  Settled /\ Live /\ faults = 0 /\ relists = 0 =>
    Provisioned(CurrentAtRest) \/ (crashes > 0 /\ Half)

\* With users who wait, a deletion leaves no child behind (Delete).
SettledMeansGone ==
  Settled /\ ~Exists(cr) => \A o \in Objects : ~Stands(o)

-----------------------------------------------------------------------------
(* Fairness as for the JVB controller: a worker for every queued key, watches *)
(* that are kept, the resync of the informers.                                *)
FairSpec ==
  /\ Spec
  /\ WF_vars(Worker)
  /\ WF_vars(ReceiveVersion)
  /\ \A o \in Objects : WF_vars(ReceiveChild(o))
  /\ WF_vars(PeriodicResync)

\* Whatever fails, the controller comes to the present configuration, or is
\* stuck before one of those pairs or of those configurations (Reconcile, Update,
\* getTurnCredential, setPV), if the API server accepts the configuration in a new
\* object; nothing else stops it.
EventuallyProvisioned ==
  \/ <>[](Live => Provisioned(Updated))
  \/ <>[](Live => Half)
  \/ <>[](Live => Stopped)

\* A deleted resource does not hang on its finalizer.
DeletionCompletes == (Exists(cr) /\ cr.del) ~> ~(Exists(cr) /\ cr.del)
=============================================================================
