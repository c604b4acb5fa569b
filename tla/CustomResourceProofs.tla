------------------------- MODULE CustomResourceProofs -------------------------
(***************************************************************************)
(* Lemmas about CustomResource that hold whatever controller stands on top *)
(* of it: the types of the writes, and the order of the versions on their  *)
(* way from the API server to a worker.                                    *)
(***************************************************************************)
EXTENDS CustomResource, SequenceTheorems, TLAPS

-----------------------------------------------------------------------------
(* Types. *)

LEMMA NoObjectIsVersion == NoObject \in Version
<1>1. 0 \in Nat /\ 0 \in 0..MaxReplicas
  BY ReplicasAssumption
<1> QED
  BY <1>1 DEF NoObject, Version

\* A write hands out a resourceVersion and stores and announces a version.
CRWritten == cr \in Version /\ rv \in Nat /\ watch \in Seq(Version)

LEMMA StoreType ==
  ASSUME CRTypeOK, NEW v \in Version, Store(v)
  PROVE  CRWritten'
<1>1. rv' \in Nat /\ cr' = Stored(v) /\ watch' = Append(watch, Stored(v))
  BY DEF CRTypeOK, Store
<1>2. rv + 1 \in Nat
  BY DEF CRTypeOK
<1>3. Stored(v) \in Version
  BY <1>2 DEF Stored, Version
<1> QED
  BY <1>1, <1>3 DEF CRTypeOK, CRWritten

LEMMA RemoveType ==
  ASSUME CRTypeOK, Remove
  PROVE  CRWritten'
  BY NoObjectIsVersion DEF CRTypeOK, CRWritten, Remove

LEMMA DefaultedType ==
  ASSUME NEW v \in Version
  PROVE  Defaulted(v) \in Version
<1>1. 1 \in 0..MaxReplicas
  BY ReplicasAssumption
<1> QED
  BY <1>1 DEF Defaulted, Version

LEMMA AddFinalizerType ==
  ASSUME CRTypeOK, NEW v \in Version, AddFinalizer(v)
  PROVE  CRWritten'
<1> DEFINE w == [v EXCEPT !.fin = TRUE]
<1>1. w \in Version
  BY DEF Version
<1>2. Defaulted(w) \in Version
  BY <1>1, DefaultedType
<1>3. Store(Defaulted(w))
  BY DEF AddFinalizer
<1> QED
  BY <1>2, <1>3, StoreType

LEMMA RemoveFinalizerType ==
  ASSUME CRTypeOK, NEW v \in Version, RemoveFinalizer(v)
  PROVE  CRWritten'
  BY RemoveType DEF RemoveFinalizer

\* Storing, defaulting and the finalizer leave status and configuration alone.
LEMMA FinalizedFields ==
  ASSUME NEW v \in Version, NEW b \in BOOLEAN
  PROVE  /\ [v EXCEPT !.fin = b] \in Version
         /\ Defaulted([v EXCEPT !.fin = b]) \in Version
         /\ Defaulted([v EXCEPT !.fin = b]).status = v.status
         /\ Defaulted([v EXCEPT !.fin = b]).conf = v.conf
         /\ Defaulted([v EXCEPT !.fin = b]).rv = v.rv
         /\ [v EXCEPT !.fin = b].conf = v.conf
         /\ [v EXCEPT !.fin = b].rv = v.rv
<1> DEFINE w == [v EXCEPT !.fin = b]
<1>1. w \in Version /\ w.status = v.status /\ w.conf = v.conf /\ w.rv = v.rv
  BY DEF Version
<1> HIDE DEF w
<1>2. Defaulted(w) \in Version
  BY <1>1, DefaultedType
<1>3. Defaulted(w).status = w.status /\ Defaulted(w).conf = w.conf
      /\ Defaulted(w).rv = w.rv
  BY <1>1 DEF Defaulted, Version
<1> QED
  BY <1>1, <1>2, <1>3 DEF w

LEMMA WriteStatusType ==
  ASSUME CRTypeOK, NEW v \in Version, NEW n \in 0..MaxReplicas, WriteStatus(v, n)
  PROVE  CRWritten'
<1>1. [cr EXCEPT !.status = n] \in Version
  BY DEF CRTypeOK, Version
<1>2. CASE cr.status = n
  BY <1>2 DEF WriteStatus, CRTypeOK, CRWritten
<1>3. CASE cr.status # n
  <2>1. Store([cr EXCEPT !.status = n])
    BY <1>3 DEF WriteStatus
  <2> QED
    BY <1>1, <2>1, StoreType
<1> QED
  BY <1>2, <1>3

LEMMA UserType ==
  ASSUME CRTypeOK, User
  PROVE  CRTypeOK'
<1>1. UserStep
  BY DEF User, UserCreate, UserScale, UserReconfigure, UserDelete
<1>2. edits' \in 0..MaxEdits /\ UNCHANGED <<crCache, queued, relists>>
  BY <1>1, EditBoundsAssumption DEF UserStep, CRTypeOK
<1>3. edits + 1 \in Nat /\ ReplicaCounts \subseteq 0..MaxReplicas
  BY EditBoundsAssumption, ReplicasAssumption DEF CRTypeOK
<1>4. CRWritten'
  <2>1. ASSUME NEW n \in ReplicaCounts, UserCreate(n) PROVE CRWritten'
    <3>1. [NoObject EXCEPT !.replicas = n, !.conf = edits + 1] \in Version
      BY <1>3, NoObjectIsVersion DEF Version
    <3> QED
      BY <2>1, <3>1, StoreType DEF UserCreate
  <2>2. ASSUME NEW n \in ReplicaCounts, UserScale(n) PROVE CRWritten'
    <3>1. [cr EXCEPT !.replicas = n] \in Version
      BY <1>3 DEF Version, CRTypeOK
    <3> QED
      BY <2>2, <3>1, StoreType DEF UserScale
  <2>3. CASE UserReconfigure
    <3>1. [cr EXCEPT !.conf = edits + 1] \in Version
      BY <1>3 DEF Version, CRTypeOK
    <3> QED
      BY <2>3, <3>1, StoreType DEF UserReconfigure
  <2>4. CASE UserDelete
    <3>1. [cr EXCEPT !.del = TRUE] \in Version
      BY DEF Version, CRTypeOK
    <3> QED
      BY <2>4, <3>1, StoreType, RemoveType DEF UserDelete
  <2> QED
    BY <2>1, <2>2, <2>3, <2>4 DEF User
<1> QED
  BY <1>2, <1>4 DEF CRTypeOK, CRWritten

\* A stored version is the one sent, renumbered.
LEMMA StoredFields ==
  ASSUME NEW v \in Version
  PROVE  /\ Stored(v).status = v.status /\ Stored(v).conf = v.conf
         /\ Stored(v).replicas = v.replicas /\ Stored(v).rv = rv + 1
  BY DEF Stored, Version

\* The informer hands on what it was given.
LEMMA InformerType ==
  ASSUME CRTypeOK,
         \/ \E wanted \in BOOLEAN : Deliver(wanted) \/ Relist(wanted)
         \/ Resync \/ RestartInformer
  PROVE  CRTypeOK'
<1>1. ASSUME NEW wanted \in BOOLEAN, Deliver(wanted) PROVE CRTypeOK'
  <2>1. Head(watch) \in Version /\ Tail(watch) \in Seq(Version)
    BY <1>1 DEF CRTypeOK, Deliver
  <2> QED
    BY <1>1, <2>1 DEF CRTypeOK, Deliver
<1>2. ASSUME NEW wanted \in BOOLEAN, Relist(wanted) PROVE CRTypeOK'
  <2>1. relists' \in 0..MaxRelists
    BY <1>2, EditBoundsAssumption DEF CRTypeOK, Relist
  <2>2. queued' \in BOOLEAN /\ <<>> \in Seq(Version)
    BY <1>2 DEF Relist
  <2> QED
    BY <1>2, <2>1, <2>2 DEF CRTypeOK, Relist
<1>3. CASE Resync
  BY <1>3 DEF CRTypeOK, Resync
<1>4. CASE RestartInformer
  <2>1. <<>> \in Seq(Version) /\ Exists(cr) \in BOOLEAN
    BY DEF Exists
  <2> QED
    BY <1>4, <2>1 DEF CRTypeOK, RestartInformer
<1> QED
  BY <1>1, <1>2, <1>3, <1>4

-----------------------------------------------------------------------------
(* Announced versions. *)

LEMMA AnnouncedAppend ==
  ASSUME NEW S, NEW s \in Seq(S), NEW v \in S
  PROVE  \A k \in DOMAIN Append(s, v) :
           \/ k \in DOMAIN s /\ Append(s, v)[k] = s[k]
           \/ k = Len(s) + 1 /\ Append(s, v)[k] = v
<1>1. DOMAIN s = 1..Len(s) /\ Len(s) \in Nat
  OBVIOUS
<1>2. DOMAIN Append(s, v) = 1..(Len(s) + 1)
  BY AppendProperties
<1> QED
  BY <1>1, <1>2, AppendProperties

LEMMA AnnouncedTail ==
  ASSUME NEW S, NEW s \in Seq(S), s # <<>>
  PROVE  /\ 1 \in DOMAIN s /\ Head(s) = s[1]
         /\ \A k \in DOMAIN Tail(s) : k + 1 \in DOMAIN s /\ Tail(s)[k] = s[k + 1]
<1>1. DOMAIN s = 1..Len(s) /\ Len(s) \in Nat /\ Len(s) > 0
  OBVIOUS
<1>2. DOMAIN Tail(s) = 1..(Len(s) - 1)
  BY <1>1, HeadTailProperties
<1> QED
  BY <1>1, <1>2, HeadTailProperties
-----------------------------------------------------------------------------
(* The versions in circulation: one held by a worker, one cached, those      *)
(* announced, in a sequence, and the one stored.  They get newer in this     *)
(* order, whatever was made from the held one is no newer than any of them,  *)
(* and the resourceVersion of the stored one tells its configuration.        *)

Older(v, w) == Exists(v) /\ Exists(w) => v.conf <= w.conf

\* held h, cached c, announced s, stored w; n: the last resourceVersion, e: the
\* last configuration, made: the configurations of the child objects.
Circulation(h, c, s, w, n, e, made) ==
  LET all == {h, c, w} \cup {s[k] : k \in DOMAIN s} IN
  /\ all \subseteq Version /\ s \in Seq(Version) /\ n \in Nat /\ e \in Nat
  /\ made \subseteq Nat /\ \A m \in made : m <= e
  /\ \A v \in all : /\ v.rv <= n /\ v.conf <= e /\ Older(v, w)
                    /\ Exists(w) /\ v.rv = w.rv => v.conf = w.conf
                    /\ \A m \in made : Exists(v) => m <= v.conf
  /\ Older(h, c)
  /\ \A k \in DOMAIN s : Older(h, s[k]) /\ Older(c, s[k])
  /\ \A k, l \in DOMAIN s : k <= l => Older(s[k], s[l])

\* The worker takes the cached version, lets go of what it holds, or gives it a
\* finalizer.
LEMMA HoldCirculates ==
  ASSUME NEW h, NEW c, NEW s, NEW w, NEW n, NEW e, NEW made,
         Circulation(h, c, s, w, n, e, made),
         NEW g \in Version,
         \/ g = c \/ g = NoObject
         \/ g.rv = h.rv /\ g.conf = h.conf
         \/ g = w /\ Exists(h) /\ Exists(w) /\ h.conf = w.conf
  PROVE  Circulation(g, c, s, w, n, e, made)
<1> DEFINE all == {h, c, w} \cup {s[k] : k \in DOMAIN s}
<1> DEFINE Fit(u) == /\ u.rv <= n /\ u.conf <= e /\ Older(u, w)
                     /\ Exists(w) /\ u.rv = w.rv => u.conf = w.conf
                     /\ \A m \in made : Exists(u) => m <= u.conf
<1>1. /\ all \subseteq Version /\ s \in Seq(Version) /\ n \in Nat /\ e \in Nat
      /\ made \subseteq Nat /\ \A m \in made : m <= e
      /\ \A v \in all : Fit(v)
      /\ Older(h, c)
      /\ \A k \in DOMAIN s : Older(h, s[k]) /\ Older(c, s[k])
      /\ \A k, l \in DOMAIN s : k <= l => Older(s[k], s[l])
  BY DEF Circulation
<1>2. \A v \in all : v.rv \in Nat /\ v.conf \in Nat
  BY <1>1 DEF Version
<1> SUFFICES Fit(g) /\ Older(g, c) /\ \A k \in DOMAIN s : Older(g, s[k])
  BY <1>1 DEF Circulation
<1>3. CASE g = c
  <2>1. Fit(c) /\ Older(c, c)
    BY <1>1, <1>2 DEF Older
  <2> QED
    BY <1>1, <1>3, <2>1
<1>4. CASE g = NoObject
  <2>1. g.rv = 0 /\ g.conf = 0 /\ ~Exists(g)
    BY <1>4 DEF NoObject, Exists
  <2> QED
    BY <1>1, <2>1 DEF Older, Exists
<1>5. CASE g.rv = h.rv /\ g.conf = h.conf
  <2>1. Fit(h)
    BY <1>1
  <2> QED
    BY <1>1, <1>5, <2>1 DEF Older, Exists
<1>6. CASE g = w /\ Exists(h) /\ Exists(w) /\ h.conf = w.conf
  <2>1. Fit(w)
    BY <1>1
  <2> QED
    BY <1>1, <1>6, <2>1 DEF Older
<1> QED
  BY <1>3, <1>4, <1>5, <1>6

\* Child objects are made from the version held, or removed.
LEMMA MakeCirculates ==
  ASSUME NEW h, NEW c, NEW s, NEW w, NEW n, NEW e, NEW made,
         Circulation(h, c, s, w, n, e, made), Exists(h),
         NEW more, more \subseteq made \cup {0, h.conf}
  PROVE  Circulation(h, c, s, w, n, e, more)
<1> DEFINE all == {h, c, w} \cup {s[k] : k \in DOMAIN s}
<1>1. /\ all \subseteq Version /\ s \in Seq(Version) /\ n \in Nat /\ e \in Nat
      /\ made \subseteq Nat /\ \A m \in made : m <= e
      /\ \A v \in all : /\ v.rv <= n /\ v.conf <= e /\ Older(v, w)
                        /\ Exists(w) /\ v.rv = w.rv => v.conf = w.conf
                        /\ \A m \in made : Exists(v) => m <= v.conf
      /\ Older(h, c)
      /\ \A k \in DOMAIN s : Older(h, s[k]) /\ Older(c, s[k])
  BY DEF Circulation
<1>2. \A v \in all : v.conf \in Nat /\ Older(h, v)
  <2>1. \A v \in all : v.conf \in Nat
    BY <1>1 DEF Version
  <2>2. Older(h, h) /\ Older(h, c) /\ Older(h, w)
    BY <1>1, <2>1 DEF Older
  <2> QED
    BY <1>1, <2>1, <2>2
<1>3. \A v \in all : Exists(v) => h.conf <= v.conf /\ 0 <= v.conf
  BY <1>1, <1>2 DEF Older
<1>4. h \in all /\ h.conf <= e /\ h.conf \in Nat
  BY <1>1, <1>2
<1>5. more \subseteq Nat /\ \A m \in more : m <= e
  BY <1>1, <1>4
<1>6. \A v \in all : \A m \in more : Exists(v) => m <= v.conf
  BY <1>1, <1>3
<1> HIDE DEF all
<1> QED
  BY <1>1, <1>5, <1>6 DEF Circulation, all

\* The informer delivers the oldest version announced, or skips to the stored one.
LEMMA DeliveryCirculates ==
  ASSUME NEW h, NEW c, NEW s, NEW w, NEW n, NEW e, NEW made,
         Circulation(h, c, s, w, n, e, made)
  PROVE  /\ s # <<>> => Circulation(h, Head(s), Tail(s), w, n, e, made)
         /\ Circulation(h, w, <<>>, w, n, e, made)
<1> USE DEF Circulation
<1>1. CASE s # <<>>
  <2>1. s \in Seq(Version) /\ Tail(s) \in Seq(Version)
    BY <1>1
  <2>2. /\ 1 \in DOMAIN s /\ Head(s) = s[1]
        /\ \A k \in DOMAIN Tail(s) : k + 1 \in DOMAIN s /\ Tail(s)[k] = s[k + 1]
    BY <1>1, <2>1, AnnouncedTail
  <2>3. DOMAIN Tail(s) \subseteq Nat \ {0}
    BY <2>1
  <2>4. {Head(s)} \cup {Tail(s)[k] : k \in DOMAIN Tail(s)} \subseteq {s[k] : k \in DOMAIN s}
    BY <2>2
  <2>5. \A k \in DOMAIN Tail(s) : Older(h, Tail(s)[k]) /\ Older(Head(s), Tail(s)[k])
    BY <2>2, <2>3
  <2>6. \A k, l \in DOMAIN Tail(s) : k <= l => Older(Tail(s)[k], Tail(s)[l])
    BY <2>2, <2>3
  <2>7. Older(h, Head(s))
    BY <2>2
  <2> QED
    BY <2>1, <2>4, <2>5, <2>6, <2>7
<1>2. Circulation(h, w, <<>>, w, n, e, made)
  <2>1. <<>> \in Seq(Version) /\ DOMAIN <<>> = {}
    OBVIOUS
  <2> QED
    BY <2>1
<1> QED
  BY <1>1, <1>2

\* A version no older than the stored one, or of a new configuration, is stored
\* and announced; or the object is dropped.
LEMMA WriteCirculates ==
  ASSUME NEW h, NEW c, NEW s, NEW w, NEW n, NEW e, NEW made,
         Circulation(h, c, s, w, n, e, made),
         NEW v \in Version, NEW f \in Nat, e <= f, v.conf <= f,
         \/ v.rv = n + 1 /\ ((Exists(w) /\ w.conf <= v.conf) \/ e <= v.conf)
         \/ v = NoObject
  PROVE  Circulation(h, c, Append(s, v), v, n + 1, f, made)
<1> DEFINE all == {h, c, w} \cup {s[k] : k \in DOMAIN s}
<1>1. /\ all \subseteq Version /\ s \in Seq(Version) /\ n \in Nat /\ e \in Nat
      /\ made \subseteq Nat /\ \A m \in made : m <= e
      /\ \A u \in all : /\ u.rv <= n /\ u.conf <= e /\ Older(u, w)
                        /\ \A m \in made : Exists(u) => m <= u.conf
      /\ Older(h, c)
      /\ \A k \in DOMAIN s : Older(h, s[k]) /\ Older(c, s[k])
      /\ \A k, l \in DOMAIN s : k <= l => Older(s[k], s[l])
  BY DEF Circulation
<1>2. /\ Append(s, v) \in Seq(Version)
      /\ \A k \in DOMAIN Append(s, v) :
           \/ k \in DOMAIN s /\ Append(s, v)[k] = s[k]
           \/ k = Len(s) + 1 /\ Append(s, v)[k] = v
      /\ DOMAIN s = 1..Len(s) /\ Len(s) \in Nat
  BY <1>1, AnnouncedAppend
<1>3. v = NoObject => v.rv = 0 /\ v.conf = 0 /\ ~Exists(v)
  BY DEF NoObject, Exists
<1>4. v.rv \in Nat /\ v.conf \in Nat /\ n + 1 \in Nat /\ v.rv <= n + 1
  BY <1>1, <1>3 DEF Version
<1>5. \A u \in all : u.rv \in Nat /\ u.conf \in Nat
  BY <1>1 DEF Version
<1>6. \A u \in all \cup {v} : Older(u, v)
  <2>1. Older(v, v)
    BY <1>4 DEF Older
  <2>2. ASSUME NEW u \in all, Exists(u), Exists(v) PROVE u.conf <= v.conf
    <3>1. CASE Exists(w) /\ w.conf <= v.conf
      <4>1. u.conf <= w.conf /\ w.conf \in Nat
        BY <1>1, <1>5, <2>2, <3>1 DEF Older
      <4> QED
        BY <1>4, <1>5, <3>1, <4>1
    <3>2. CASE e <= v.conf
      BY <1>1, <1>4, <1>5, <3>2
    <3> QED
      BY <1>3, <2>2, <3>1, <3>2
  <2> QED
    BY <2>1, <2>2 DEF Older
<1>7. \A m \in made : m <= f /\ (Exists(v) => m <= v.conf)
  <2> SUFFICES ASSUME NEW m \in made PROVE m <= f /\ (Exists(v) => m <= v.conf)
    OBVIOUS
  <2>1. m \in Nat /\ m <= e /\ m <= f
    BY <1>1
  <2>2. CASE Exists(w) /\ w.conf <= v.conf
    <3>1. m <= w.conf /\ w.conf \in Nat
      BY <1>1, <1>5, <2>2
    <3> QED
      BY <1>4, <2>1, <2>2, <3>1
  <2>3. CASE e <= v.conf
    BY <1>1, <1>4, <2>1, <2>3
  <2> QED
    BY <1>3, <2>1, <2>2, <2>3
<1>8. \A u \in all \cup {v} : /\ u.rv <= n + 1 /\ u.conf <= f
                              /\ Exists(v) /\ u.rv = v.rv => u.conf = v.conf
                              /\ \A m \in made : Exists(u) => m <= u.conf
  <2>1. ASSUME NEW u \in all
        PROVE  /\ u.rv <= n + 1 /\ u.conf <= f
               /\ Exists(v) /\ u.rv = v.rv => u.conf = v.conf
    <3>1. u.rv <= n /\ u.conf <= e /\ u.rv \in Nat /\ u.conf \in Nat
      BY <1>1, <1>5
    <3> QED
      BY <1>1, <1>3, <3>1
  <2> QED
    BY <1>1, <1>4, <1>7, <2>1
<1>9. {Append(s, v)[k] : k \in DOMAIN Append(s, v)} \subseteq {s[k] : k \in DOMAIN s} \cup {v}
  BY <1>2
<1>10. \A k \in DOMAIN Append(s, v) : Older(h, Append(s, v)[k]) /\ Older(c, Append(s, v)[k])
  BY <1>1, <1>2, <1>6
<1>11. \A k, l \in DOMAIN Append(s, v) : k <= l => Older(Append(s, v)[k], Append(s, v)[l])
  <2> SUFFICES ASSUME NEW k \in DOMAIN Append(s, v), NEW l \in DOMAIN Append(s, v), k <= l
               PROVE  Older(Append(s, v)[k], Append(s, v)[l])
    OBVIOUS
  <2>1. CASE l = Len(s) + 1 /\ Append(s, v)[l] = v
    <3>1. Append(s, v)[k] \in all \cup {v}
      BY <1>2
    <3> QED
      BY <1>6, <2>1, <3>1
  <2>2. CASE l \in DOMAIN s /\ Append(s, v)[l] = s[l]
    <3>1. k \in DOMAIN s /\ Append(s, v)[k] = s[k]
      BY <1>2, <2>2
    <3> QED
      BY <1>1, <2>2, <3>1
  <2> QED
    BY <1>2, <2>1, <2>2
<1>12. {h, c, v} \cup {Append(s, v)[k] : k \in DOMAIN Append(s, v)} \subseteq all \cup {v}
  BY <1>9
<1> HIDE DEF all
<1> QED
  BY <1>1, <1>2, <1>4, <1>6, <1>7, <1>8, <1>10, <1>11, <1>12 DEF Circulation
=============================================================================
