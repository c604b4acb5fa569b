--------------------------- MODULE CustomResource ---------------------------
(***************************************************************************)
(* One custom resource as the operator meets it: the object the API server *)
(* stores, the users who write it, the informer copy every client.Get of   *)
(* the operator reads, the watch that carries stored versions to that copy *)
(* in order, and the single, de-duplicated work queue key of the resource. *)
(*                                                                         *)
(* None of this is code of the repository.  It is what the code under      *)
(* internal/ calls: the Kubernetes API (optimistic locking, the status     *)
(* subresource, finalizers, the default of an omitted field) and           *)
(* controller-runtime (cache, event filter, queue, resync).  It is         *)
(* modelled from how main.go sets the manager up - no cache or sync-period *)
(* options, one worker per controller - and from the calls the controllers *)
(* make.  Only the AddFinalizer and RemoveFinalizer helpers are the        *)
(* repository's own (internal/utils/finalizers.go).                        *)
(***************************************************************************)
EXTENDS Naturals, Sequences

CONSTANTS MaxReplicas,    \* bound: the largest replica count
          ReplicaCounts,  \* the values of spec.replicas users ask for
          MaxEdits,       \* bound: writes the users make in a behaviour
          MaxRelists      \* bound: watch connections that break and relist

ASSUME ReplicasAssumption ==
  MaxReplicas \in Nat \ {0} /\ ReplicaCounts \subseteq 0..MaxReplicas
ASSUME EditBoundsAssumption == MaxEdits \in Nat /\ MaxRelists \in Nat

VARIABLES
  cr,       \* the stored object, or NoObject
  rv,       \* the last resourceVersion the API server handed out
  crCache,  \* the informer's copy
  watch,    \* the stored versions the informer has not seen yet, oldest first
  queued,   \* the resource's key is in the work queue
  edits,    \* user writes so far; also the serial number of a configuration
  relists   \* relists so far

crVars == <<cr, rv, crCache, watch, queued, edits, relists>>

\* A version of the object.  replicas and conf stand for the spec: conf is
\* everything but the replica count that ends up in a child object, as the
\* serial number of the user's write that set it.  fin: the operator's
\* finalizer is on the object; del: the object has a deletion timestamp.
Version == [rv : Nat, replicas : 0..MaxReplicas, conf : Nat,
            status : 0..MaxReplicas, fin : BOOLEAN, del : BOOLEAN]

\* No object: the only version numbered 0.
NoObject == [rv |-> 0, replicas |-> 0, conf |-> 0, status |-> 0,
             fin |-> FALSE, del |-> FALSE]

Exists(v) == v.rv > 0

CRTypeOK ==
  /\ cr \in Version
  /\ rv \in Nat
  /\ crCache \in Version
  /\ watch \in Seq(Version)
  /\ queued \in BOOLEAN
  /\ edits \in 0..MaxEdits
  /\ relists \in 0..MaxRelists

CRInit ==
  /\ cr = NoObject
  /\ rv = 0
  /\ crCache = NoObject
  /\ watch = <<>>
  /\ queued = FALSE
  /\ edits = 0
  /\ relists = 0

-----------------------------------------------------------------------------
(* The API server. *)

\* A write sent with version v is accepted only if v is still the stored one.
Current(v) == Exists(cr) /\ cr.rv = v.rv

\* Writing v stores it under a new resourceVersion and announces it.
Stored(v) == [v EXCEPT !.rv = rv + 1]
Store(v) ==
  /\ cr' = Stored(v)
  /\ rv' = rv + 1
  /\ watch' = Append(watch, Stored(v))

Remove ==
  /\ cr' = NoObject
  /\ rv' = rv + 1
  /\ watch' = Append(watch, NoObject)

\* replicas has `omitempty` and a default of 1: a Go client that sends 0
\* sends nothing, and the API server fills in 1.
Defaulted(v) == [v EXCEPT !.replicas = IF @ = 0 THEN 1 ELSE @]

-----------------------------------------------------------------------------
(* internal/utils/finalizers.go: a PUT of the whole object read before, with *)
(* the finalizer added or removed.  Both are enabled only if the lock holds. *)

\* Mutant: the PUT carries no resourceVersion and overwrites what is stored.
AddFinalizerUnlocked(v) ==
  /\ Exists(cr)
  /\ Store(Defaulted([v EXCEPT !.fin = TRUE]))

AddFinalizer(v) ==
  /\ Current(v)
  /\ Store(Defaulted([v EXCEPT !.fin = TRUE]))

\* Mutant: it takes off a finalizer of another name, and the server changes nothing.
RemoveFinalizerOfOthers(v) == Current(v) /\ UNCHANGED <<cr, rv, watch>>

\* Called for objects under deletion only.  Those still carry the finalizer, it
\* is their last, and the API server drops an object that loses its last one.
RemoveFinalizer(v) == Current(v) /\ Remove

\* Mutants: the status write ignores the lock; it keeps the resourceVersion; it
\* stores the counter of the loop that has just ended.
WriteStatusUnlocked(v, n) ==
  /\ Exists(cr)
  /\ IF cr.status = n THEN UNCHANGED <<cr, rv, watch>>
     ELSE Store([cr EXCEPT !.status = n])
WriteStatusInPlace(v, n) ==
  /\ Current(v)
  /\ cr' = [cr EXCEPT !.status = n]
  /\ UNCHANGED <<rv, watch>>
WriteStatusCounter(v, n) ==
  /\ Current(v)
  /\ Store([cr EXCEPT !.status = n + 1])

\* A write to the status subresource changes nothing but the status, and
\* writing what is stored already is no write.
WriteStatus(v, n) ==
  /\ Current(v)
  /\ IF cr.status = n THEN UNCHANGED <<cr, rv, watch>>
     ELSE Store([cr EXCEPT !.status = n])

-----------------------------------------------------------------------------
(* The users: kubectl, or another controller that owns the spec. *)

UserStep ==
  /\ edits < MaxEdits
  /\ edits' = edits + 1
  /\ UNCHANGED <<crCache, queued, relists>>

UserCreate(n) ==
  /\ UserStep
  /\ ~Exists(cr)
  /\ Store([NoObject EXCEPT !.replicas = n, !.conf = edits + 1])

UserScale(n) ==
  /\ UserStep
  /\ Exists(cr) /\ cr.replicas # n
  /\ Store([cr EXCEPT !.replicas = n])

UserReconfigure ==
  /\ UserStep
  /\ Exists(cr)
  /\ Store([cr EXCEPT !.conf = edits + 1])

\* Deleting an object that carries a finalizer only marks it.
UserDelete ==
  /\ UserStep
  /\ Exists(cr) /\ ~cr.del
  /\ IF cr.fin THEN Store([cr EXCEPT !.del = TRUE]) ELSE Remove

User ==
  \/ \E n \in ReplicaCounts : UserCreate(n) \/ UserScale(n)
  \/ UserReconfigure
  \/ UserDelete

-----------------------------------------------------------------------------
(* The informer.  wanted is the verdict of the controller's event filter on *)
(* the step from the cached to the delivered version.                       *)

Deliver(wanted) ==
  /\ watch # <<>>
  /\ crCache' = Head(watch)
  /\ watch' = Tail(watch)
  /\ queued' = (queued \/ wanted)
  /\ UNCHANGED <<cr, rv, edits, relists>>

\* Mutant: what the broken watch had still to deliver is delivered after the list.
RelistThenReplay(wanted) ==
  /\ relists < MaxRelists
  /\ relists' = relists + 1
  /\ watch # <<>>
  /\ crCache' = cr
  /\ queued' = TRUE
  /\ UNCHANGED <<cr, rv, watch, edits>>

\* The watch broke: the informer lists, and sees several versions as one update.
Relist(wanted) ==
  /\ relists < MaxRelists
  /\ relists' = relists + 1
  /\ watch # <<>>
  /\ crCache' = cr
  /\ watch' = <<>>
  /\ queued' = (queued \/ (crCache # cr /\ wanted))
  /\ UNCHANGED <<cr, rv, edits>>

\* Every ten hours the informer offers each cached object to the filter as an
\* update to itself; no filter of this operator refuses that.
Resync ==
  /\ Exists(crCache)
  /\ queued' = TRUE
  /\ UNCHANGED <<cr, rv, crCache, watch, edits, relists>>

\* A restarted manager lists afresh, and every existing object is a creation.
RestartInformer ==
  /\ crCache' = cr
  /\ watch' = <<>>
  /\ queued' = Exists(cr)
  /\ UNCHANGED <<cr, rv, edits, relists>>
=============================================================================
