------------------------------- MODULE Follower -------------------------------
(***************************************************************************)
(* What every controller of the operator promises, whatever its calls: it  *)
(* follows one custom resource.  Users state wishes; in rounds that do not *)
(* overlap the controller takes one wish into view, and in a round it      *)
(* makes the things of that wish from it, or removes others.  The things   *)
(* made are never ahead of the wish in view, and so never go back.         *)
(***************************************************************************)
EXTENDS Naturals, TLAPS

CONSTANT Things  \* the child objects

VARIABLES
  wish,  \* what users want: the serial number of the configuration, the things
  view,  \* the wish the controller acts on, while it does
  made   \* per thing, the configuration it was made from, 0 if it is not there

Wishes == [conf : Nat, things : SUBSET Things]
Views  == [acting : BOOLEAN, conf : Nat, things : SUBSET Things]
Idle   == [acting |-> FALSE, conf |-> 0, things |-> {}]

Init ==
  /\ wish = [conf |-> 0, things |-> {}]
  /\ view = Idle
  /\ made = [t \in Things |-> 0]

\* Users; a wish that only changes the things keeps its number.
Wish ==
  /\ wish' \in Wishes /\ wish'.conf >= wish.conf
  /\ UNCHANGED <<view, made>>

\* A round begins with a wish, perhaps an old one, but none older than the
\* things there are.
Begin ==
  /\ view = Idle
  /\ view' \in Views /\ view'.acting
  /\ view'.conf <= wish.conf
  /\ \A t \in Things : made[t] <= view'.conf
  /\ UNCHANGED <<wish, made>>

\* The API server completes the present wish while the controller holds it.
Complete ==
  /\ view.acting /\ view.conf = wish.conf
  /\ wish' \in Wishes /\ wish'.conf = wish.conf
  /\ view' = [acting |-> TRUE, conf |-> wish.conf, things |-> wish'.things]
  /\ UNCHANGED made

\* One thing is made from the wish in view, or removed because it is not in
\* it.  The round may end with that, and users may have a new wish.
Act ==
  /\ view.acting /\ view' \in {view, Idle}
  /\ \E t \in Things :
       \/ t \in view.things /\ made' = [made EXCEPT ![t] = view.conf]
       \/ t \notin view.things /\ made' = [made EXCEPT ![t] = 0]
  /\ UNCHANGED wish

\* A round ends, or is cut short.
End ==
  /\ view' = Idle
  /\ UNCHANGED <<wish, made>>

Next == Wish \/ Begin \/ Complete \/ Act \/ End

state == <<wish, view, made>>
Spec == Init /\ [][Next]_state

-----------------------------------------------------------------------------
\* Things, view and wish come in this order.
InOrder ==
  /\ wish \in Wishes /\ view \in Views /\ made \in [Things -> Nat]
  /\ \A t \in Things : made[t] <= wish.conf
  /\ view.acting => /\ view.conf <= wish.conf
                    /\ \A t \in Things : made[t] <= view.conf

\* No thing is ever made again from an older configuration.
Forward == \A t \in Things : made[t] # 0 /\ made'[t] # 0 => made'[t] >= made[t]
NeverGoesBack == [][Forward]_state

-----------------------------------------------------------------------------
LEMMA InitInOrder == Init => InOrder
  BY DEF Init, InOrder, Wishes, Views, Idle

LEMMA StepInOrder == InOrder /\ [Next]_state => InOrder' /\ Forward
<1> SUFFICES ASSUME InOrder, [Next]_state PROVE InOrder' /\ Forward
  OBVIOUS
<1> USE DEF InOrder, Forward
<1>1. CASE Wish
  BY <1>1 DEF Wish, Wishes, Views
<1>2. CASE Begin
  BY <1>2 DEF Begin, Wishes, Views
<1>3. CASE Complete
  BY <1>3 DEF Complete, Wishes, Views
<1>4. CASE Act
  <2>1. PICK t \in Things, c \in {view.conf, 0} : made' = [made EXCEPT ![t] = c]
    BY <1>4 DEF Act
  <2>2. view.acting /\ view.conf \in Nat /\ wish' = wish /\ view' \in {view, Idle}
    BY <1>4 DEF Act, Views
  <2>3. Idle \in Views /\ ~Idle.acting
    BY DEF Idle, Views
  <2> QED
    BY <2>1, <2>2, <2>3 DEF Wishes
<1>5. CASE End
  BY <1>5 DEF End, Idle, Views
<1>6. CASE UNCHANGED state
  BY <1>6 DEF state
<1> QED
  BY <1>1, <1>2, <1>3, <1>4, <1>5, <1>6 DEF Next

\* A follower keeps the order of things, view and wish.
THEOREM OrderKept == Spec => []InOrder
<1>1. InOrder /\ [Next]_state => InOrder'
  BY StepInOrder
<1> QED
  BY <1>1, InitInOrder, PTL DEF Spec

\* A follower never goes back, and every controller shown to be one inherits it.
THEOREM FollowersGoForward == Spec => NeverGoesBack
<1>1. InOrder /\ [Next]_state => InOrder' /\ [Forward]_state
  BY StepInOrder
<1> QED
  BY <1>1, InitInOrder, PTL DEF Spec, NeverGoesBack
=============================================================================
