-------------------------- MODULE GracefulShutdown --------------------------
(***************************************************************************)
(* The end of one bridge: the preStop hook graceful_shutdown.sh that the   *)
(* JVB controller puts into a config map (internal/jitsi/jvb/cm.go) and    *)
(* into the lifecycle of every bridge container.                           *)
(*                                                                         *)
(* One action per command of the script.  Around it run the bridge, with   *)
(* its conferences and its REST interface, the supervisor s6, which        *)
(* restarts a bridge that ends unless told otherwise, and the kubelet,     *)
(* which waits for the hook no longer than the grace period.  Time passes  *)
(* in seconds, while the script sleeps or waits for an answer.             *)
(***************************************************************************)
EXTENDS Naturals

CONSTANTS Grace,           \* terminationGracePeriodSeconds; 60 if users set none
          Timeout,         \* -t, the seconds a drained bridge gets to leave
          MaxConferences,  \* bound: conferences of the bridge
          MaxStarts,       \* bound: processes the supervisor starts
          MaxFaults,       \* bound: requests and processes that fail
          MaxHang          \* bound: seconds spent waiting for answers

ASSUME TimeAssumption == Grace \in Nat /\ Timeout \in Nat /\ MaxHang \in Nat
ASSUME ShutdownBoundsAssumption ==
  MaxConferences \in Nat /\ MaxStarts \in Nat \ {0} /\ MaxFaults \in Nat

VARIABLES
  rest,      \* the bridge was configured to accept a shutdown over REST
  pc,        \* the next command of the script
  pid,       \* $pid
  confCount, \* $confCount
  tries,     \* the second of the wait for the killed process
  code,      \* the exit code
  wait,      \* seconds left of the present sleep
  jvb,       \* the process id of the running bridge, 0 if there is none
  starts,    \* processes started so far; the next process id
  draining,  \* the bridge takes no new conference, and leaves after the last
  once,      \* s6-svc -O: the supervisor does not start another process
  signal,    \* what the script has sent to the running bridge
  busy,      \* conferences with participants
  empty,     \* conferences without
  left,      \* seconds of the grace period left
  stopped,   \* the kubelet has stopped the container
  hang, faults,
  calm,      \* history: seconds since the bridge last had participants
  unseen,    \* history: the empty conferences at the last count
  blind      \* history: the last count got no answer from a running bridge

scriptVars  == <<pc, pid, confCount, tries, code>>
processVars == <<jvb, starts, draining, once, signal>>
roomVars    == <<busy, empty>>
podVars     == <<left, stopped>>
boundVars   == <<hang, faults>>
historyVars == <<calm, unseen, blind>>
vars == <<rest, scriptVars, wait, processVars, roomVars, podVars, boundVars, historyVars>>

Commands == {"start", "request", "once", "count", "ask", "askAgain", "kill",
             "check", "force", "giveUp", "exited"}

TypeOK ==
  /\ rest \in BOOLEAN
  /\ pc \in Commands
  /\ pid \in 0..MaxStarts /\ confCount \in 0..MaxConferences
  /\ tries \in 0..3 /\ code \in 0..1
  /\ wait \in 0..(10 + Timeout)
  /\ jvb \in 0..MaxStarts /\ starts \in 1..MaxStarts
  /\ draining \in BOOLEAN /\ once \in BOOLEAN
  /\ signal \in {"none", "term", "kill"}
  /\ busy \in 0..MaxConferences /\ empty \in 0..MaxConferences
  /\ busy + empty <= MaxConferences
  /\ left \in 0..Grace /\ stopped \in BOOLEAN
  /\ hang \in 0..MaxHang /\ faults \in 0..MaxFaults
  /\ calm \in Nat /\ unseen \in 0..MaxConferences /\ blind \in BOOLEAN

\* The pod is to go; its bridge is in the middle of something.
Init ==
  /\ rest \in BOOLEAN
  /\ pc = "start" /\ pid = 0 /\ confCount = 0 /\ tries = 0 /\ code = 0 /\ wait = 0
  /\ jvb = 1 /\ starts = 1
  /\ draining = FALSE /\ once = FALSE /\ signal = "none"
  /\ busy \in 0..MaxConferences /\ empty \in 0..(MaxConferences - busy)
  /\ left = Grace /\ stopped = FALSE
  /\ hang = 0 /\ faults = 0
  /\ calm = 0 /\ unseen = 0 /\ blind = FALSE

-----------------------------------------------------------------------------
(* The script. *)

Running == ~stopped /\ wait = 0

Goto(next) == pc' = next /\ UNCHANGED wait
Sleep(n, next) == pc' = next /\ wait' = n
Exit(n) == code' = n /\ Goto("exited")

Fault == faults < MaxFaults /\ faults' = faults + 1

\* curl gets an answer from a running bridge, unless it fails.
Answered == jvb # 0 /\ UNCHANGED faults
NotAnswered == IF jvb = 0 THEN UNCHANGED faults ELSE Fault

\* No -p is given: the process id comes from the supervisor, which has none
\* while no bridge runs.  The kubelet starts no hook without a grace period.
StartHook ==
  /\ pc = "start" /\ Running /\ Grace > 0
  /\ \/ jvb # 0 /\ pid' = jvb /\ Goto("request") /\ UNCHANGED <<code, faults>>
     \/ NotAnswered /\ UNCHANGED pid /\ Exit(1)
  /\ UNCHANGED <<rest, confCount, tries, processVars, roomVars, podVars, hang, historyVars>>

\* Mutant: the status of the answer is not looked at.
AnyStatus == TRUE
\* [ "$shutdownStatus" == "200" ]
StatusIs200 == rest

\* A request may have been heard although its answer is lost.
RequestShutdown ==
  /\ pc = "request" /\ Running
  /\ \/ /\ Answered
        /\ draining' = rest
        /\ IF StatusIs200 THEN Goto("once") /\ UNCHANGED code ELSE Exit(1)
     \/ /\ NotAnswered
        /\ draining' \in {draining, jvb # 0 /\ rest}
        /\ Exit(1)
  /\ UNCHANGED <<rest, pid, confCount, tries, jvb, starts, once, signal, roomVars,
                 podVars, hang, historyVars>>

TurnOffRestart ==
  /\ pc = "once" /\ Running
  /\ once' = TRUE
  /\ Goto("count")
  /\ UNCHANGED <<rest, pid, confCount, tries, code, jvb, starts, draining, signal, roomVars,
                 podVars, boundVars, historyVars>>

\* Mutants: a count of zero does not end the wait; nothing is waited for.
WaitsAtZero(n) == n >= 0
WaitsNever(n) == FALSE
\* [[ $confCount -gt 0 ]]
WaitsFor(n) == n > 0

\* getConferenceCount leaves out the empty conferences.  Without an answer it
\* prints nothing, which the comparison takes for 0.
CountConferences ==
  /\ pc = "count" /\ Running
  /\ \/ Answered /\ confCount' = busy /\ unseen' = empty /\ blind' = FALSE
     \/ NotAnswered /\ confCount' = 0 /\ unseen' = empty /\ blind' = (jvb # 0)
  /\ IF WaitsFor(confCount') THEN Sleep(10, "count") ELSE Sleep(5, "ask")
  /\ UNCHANGED <<rest, pid, tries, code, processVars, roomVars, podVars, hang, calm>>

\* A bridge that still answers gets Timeout seconds; what it answers after
\* those is only logged.
AskIfRunning ==
  /\ pc = "ask" /\ Running
  /\ \/ Answered /\ Sleep(Timeout, "askAgain")
     \/ NotAnswered /\ Goto("kill")
  /\ UNCHANGED <<rest, pid, confCount, tries, code, processVars, roomVars, podVars, hang,
                 historyVars>>

AskAgain ==
  /\ pc = "askAgain" /\ Running
  /\ Goto("kill")
  /\ UNCHANGED <<rest, pid, confCount, tries, code, processVars, roomVars, podVars, boundVars,
                 historyVars>>

\* A signal reaches the process the script was started for, or nothing.
Send(s) == signal' = IF jvb = pid THEN s ELSE signal

Kill ==
  /\ pc = "kill" /\ Running
  /\ Send("term")
  /\ tries' = 0 /\ Goto("check")
  /\ UNCHANGED <<rest, pid, confCount, code, jvb, starts, draining, once, roomVars, podVars,
                 boundVars, historyVars>>

\* Mutant: once more.
FourLooks == 4
\* for I in 1 2 3
Looks == 3

\* Three looks, each followed by a second of sleep if the process is there;
\* then the last.
Check ==
  /\ pc = "check" /\ Running
  /\ IF tries < Looks
     THEN /\ tries' = tries + 1 /\ UNCHANGED code
          /\ Sleep(IF jvb = pid THEN 1 ELSE 0, "check")
     ELSE /\ UNCHANGED tries
          /\ IF jvb = pid THEN Goto("force") /\ UNCHANGED code ELSE Exit(0)
  /\ UNCHANGED <<rest, pid, confCount, processVars, roomVars, podVars, boundVars,
                 historyVars>>

ForceKill ==
  /\ pc = "force" /\ Running
  /\ Send("kill")
  /\ Goto("giveUp")
  /\ UNCHANGED <<rest, pid, confCount, tries, code, jvb, starts, draining, once, roomVars,
                 podVars, boundVars, historyVars>>

GiveUp ==
  /\ pc = "giveUp" /\ Running
  /\ Exit(IF jvb = pid THEN 1 ELSE 0)
  /\ UNCHANGED <<rest, pid, confCount, tries, processVars, roomVars, podVars, boundVars,
                 historyVars>>

Script ==
  \/ StartHook \/ RequestShutdown \/ TurnOffRestart \/ CountConferences
  \/ AskIfRunning \/ AskAgain \/ Kill \/ Check \/ ForceKill \/ GiveUp

-----------------------------------------------------------------------------
(* The bridge and its supervisor. *)

sameScript == UNCHANGED <<rest, scriptVars, wait, podVars, hang, unseen, blind>>

\* The running process is gone, and with it its conferences.
ProcessEnds ==
  /\ jvb # 0
  /\ IF once \/ starts = MaxStarts
     THEN jvb' = 0 /\ UNCHANGED starts
     ELSE jvb' = starts + 1 /\ starts' = starts + 1
  /\ draining' = FALSE /\ signal' = "none"
  /\ busy' = 0 /\ empty' = 0
  /\ UNCHANGED <<once, calm>>
  /\ sameScript

BridgeLeaves == draining /\ busy + empty = 0 /\ ProcessEnds /\ UNCHANGED faults
BridgeFails == Fault /\ ProcessEnds
DiesOfTerm == signal = "term" /\ ProcessEnds /\ UNCHANGED faults
DiesOfKill == signal = "kill" /\ ProcessEnds /\ UNCHANGED faults

ConferenceStarts ==
  /\ jvb # 0 /\ ~draining /\ busy + empty < MaxConferences
  /\ empty' = empty + 1
  /\ UNCHANGED <<busy, processVars, faults, calm>> /\ sameScript

ParticipantsJoin ==
  /\ empty > 0
  /\ empty' = empty - 1 /\ busy' = busy + 1
  /\ calm' = 0
  /\ UNCHANGED <<processVars, faults>> /\ sameScript

ParticipantsLeave ==
  /\ busy > 0
  /\ busy' = busy - 1
  /\ UNCHANGED <<empty, processVars, faults, calm>> /\ sameScript

ConferenceExpires ==
  /\ empty > 0
  /\ empty' = empty - 1
  /\ UNCHANGED <<busy, processVars, faults, calm>> /\ sameScript

Conferences ==
  ConferenceStarts \/ ParticipantsJoin \/ ParticipantsLeave \/ ConferenceExpires

Bridge == BridgeLeaves \/ BridgeFails \/ DiesOfTerm \/ DiesOfKill \/ Conferences

-----------------------------------------------------------------------------
(* Time and the kubelet. *)

Asks == {"request", "count", "ask", "askAgain"}

Tick ==
  /\ ~stopped /\ left > 0
  /\ \/ wait > 0 /\ wait' = wait - 1 /\ UNCHANGED hang
     \/ wait = 0 /\ pc \in Asks /\ hang < MaxHang /\ hang' = hang + 1 /\ UNCHANGED wait
  /\ left' = left - 1
  /\ calm' = IF busy > 0 THEN 0 ELSE calm + 1
  /\ UNCHANGED <<rest, scriptVars, processVars, roomVars, stopped, faults, unseen, blind>>

\* The hook has ended, or the grace period has: the container is stopped.
KubeletStops ==
  /\ ~stopped /\ (pc = "exited" \/ left = 0)
  /\ stopped' = TRUE
  /\ jvb' = 0 /\ draining' = FALSE /\ signal' = "none" /\ busy' = 0 /\ empty' = 0
  /\ UNCHANGED <<rest, scriptVars, wait, starts, once, left, boundVars, historyVars>>

Next == Script \/ Bridge \/ Tick \/ KubeletStops

Spec == Init /\ [][Next]_vars
=============================================================================
