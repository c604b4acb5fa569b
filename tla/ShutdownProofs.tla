--------------------------- MODULE ShutdownProofs ---------------------------
(***************************************************************************)
(* The preStop hook, for every grace period and timeout, any number of     *)
(* conferences, faults and restarts of the bridge.                         *)
(*                                                                         *)
(* The argument about the conferences: once the script has its 200, the    *)
(* bridge it was started for takes no new conference (Drained), so that    *)
(* the conferences the last count left out only get fewer (Counted), and   *)
(* a signal is only ever on that bridge (Aimed).  A bridge that is started *)
(* in between has another process id (Numbered).                           *)
(* The argument about the time: it passes only in sleeps and in waits for  *)
(* answers, and each command of the script bounds what can have passed     *)
(* since participants were last there (Elapsed).                           *)
(***************************************************************************)
EXTENDS ShutdownRequirements, TLAPS

\* The processes are numbered as they start; the script knows one of them.
Numbered ==
  /\ jvb # 0 => jvb = starts
  /\ pid <= starts
  /\ pc \notin {"start", "exited"} \/ once => pid # 0
  /\ pc \in {"start", "request"} => ~once

Aimed ==
  signal # "none" => jvb = pid /\ jvb # 0 /\ pc \in {"check", "force", "giveUp", "exited"}

AfterRequest == {"once", "count", "ask", "askAgain", "kill", "check", "force", "giveUp"}
AfterCount == {"ask", "askAgain", "kill", "check", "force", "giveUp"}

Drained == (pc \in AfterRequest \/ signal # "none") /\ jvb = pid => draining

Counted ==
  (pc \in AfterCount \/ signal # "none") /\ jvb = pid /\ ~blind => busy + empty <= unseen

Killed == pc \in {"giveUp", "exited"} /\ once /\ jvb = pid => signal = "kill"

\* Seconds that may have passed without participants before a command.
Elapsed ==
  /\ busy > 0 => calm = 0
  /\ pc \in {"start", "request", "once"} => wait = 0 /\ calm <= hang
  /\ pc = "count" => wait <= 10 /\ calm + wait <= hang + 10
  /\ pc = "ask" => wait <= 5 /\ calm + wait <= hang + 15
  /\ pc = "askAgain" => wait <= Timeout /\ calm + wait <= hang + 15 + Timeout
  /\ pc = "kill" => wait = 0 /\ calm <= hang + 15 + Timeout
  /\ pc = "check" => wait <= 1 /\ calm + wait <= hang + 15 + Timeout + tries
  /\ pc \in {"force", "giveUp"} => wait = 0 /\ calm <= hang + 18 + Timeout
  /\ pc = "exited" => wait = 0

IInv == TypeOK /\ Numbered /\ Aimed /\ Drained /\ Counted /\ Killed /\ Elapsed

\* Type correctness in two parts: the flags, and all that is counted or named.
Flags ==
  /\ rest \in BOOLEAN /\ draining \in BOOLEAN /\ once \in BOOLEAN
  /\ stopped \in BOOLEAN /\ blind \in BOOLEAN

Values ==
  /\ pc \in Commands /\ signal \in {"none", "term", "kill"}
  /\ pid \in 0..MaxStarts /\ jvb \in 0..MaxStarts /\ starts \in 1..MaxStarts
  /\ confCount \in 0..MaxConferences /\ unseen \in 0..MaxConferences
  /\ busy \in 0..MaxConferences /\ empty \in 0..MaxConferences
  /\ busy + empty <= MaxConferences
  /\ tries \in 0..3 /\ code \in 0..1 /\ wait \in 0..(10 + Timeout)
  /\ left \in 0..Grace /\ hang \in 0..MaxHang /\ faults \in 0..MaxFaults
  /\ calm \in Nat

LEMMA TypeParts == TypeOK <=> Flags /\ Values
  BY Zenon DEF TypeOK, Flags, Values

LEMMA InitOK == Init => IInv
<1> SUFFICES ASSUME Init PROVE IInv
  OBVIOUS
<1> USE TimeAssumption, ShutdownBoundsAssumption DEF Init
<1>1. TypeOK
  <2>1. /\ busy \in 0..MaxConferences /\ empty \in 0..MaxConferences
        /\ busy + empty <= MaxConferences
    OBVIOUS
  <2>2. Flags
    BY Zenon DEF Flags
  <2>3. Values
    BY <2>1 DEF Values, Commands
  <2> QED
    BY <2>2, <2>3, TypeParts
<1>2. Numbered /\ Aimed /\ Drained /\ Counted /\ Killed
  BY DEF Numbered, Aimed, Drained, Counted, Killed, AfterRequest,
           AfterCount
<1>3. Elapsed
  BY DEF Elapsed
<1> QED
  BY <1>1, <1>2, <1>3 DEF IInv

LEMMA FlagsStep == Flags /\ [Next]_vars => Flags'
<1> SUFFICES ASSUME Flags, [Next]_vars PROVE Flags'
  OBVIOUS
<1> USE DEF Flags
<1>1. CASE Script
  <2>1. CASE StartHook
    BY <2>1, Zenon DEF StartHook, processVars, podVars, historyVars
  <2>2. CASE RequestShutdown
    BY <2>2, Zenon DEF RequestShutdown, podVars, historyVars
  <2>3. CASE TurnOffRestart
    BY <2>3, Zenon DEF TurnOffRestart, podVars, historyVars
  <2>4. CASE CountConferences
    BY <2>4, Zenon DEF CountConferences, processVars, podVars
  <2>5. CASE AskIfRunning
    BY <2>5, Zenon DEF AskIfRunning, processVars, podVars, historyVars
  <2>6. CASE AskAgain
    BY <2>6, Zenon DEF AskAgain, processVars, podVars, historyVars
  <2>7. CASE Kill
    BY <2>7, Zenon DEF Kill, podVars, historyVars
  <2>8. CASE Check
    BY <2>8, Zenon DEF Check, processVars, podVars, historyVars
  <2>9. CASE ForceKill
    BY <2>9, Zenon DEF ForceKill, podVars, historyVars
  <2>10. CASE GiveUp
    BY <2>10, Zenon DEF GiveUp, processVars, podVars, historyVars
  <2> QED
    BY <1>1, <2>1, <2>2, <2>3, <2>4, <2>5, <2>6, <2>7, <2>8, <2>9, <2>10 DEF Script
<1>2. CASE Bridge
  <2>1. UNCHANGED <<rest, stopped, blind, once>>
    BY <1>2, Zenon DEF Bridge, BridgeLeaves, BridgeFails, DiesOfTerm, DiesOfKill, ProcessEnds,
       Conferences, ConferenceStarts, ParticipantsJoin, ParticipantsLeave, ConferenceExpires,
       sameScript, processVars, podVars
  <2>2. draining' \in BOOLEAN
    BY <1>2, Zenon DEF Bridge, BridgeLeaves, BridgeFails, DiesOfTerm, DiesOfKill, ProcessEnds,
       Conferences, ConferenceStarts, ParticipantsJoin, ParticipantsLeave, ConferenceExpires,
       processVars
  <2> QED
    BY <2>1, <2>2, Zenon
<1>3. CASE Tick
  BY <1>3, Zenon DEF Tick, processVars
<1>4. CASE KubeletStops
  BY <1>4, Zenon DEF KubeletStops, historyVars
<1>5. CASE UNCHANGED vars
  BY <1>5, Zenon DEF vars, processVars, podVars, historyVars
<1> QED
  BY <1>1, <1>2, <1>3, <1>4, <1>5 DEF Next

LEMMA ValuesStep == Values /\ [Next]_vars => Values'
<1> SUFFICES ASSUME Values, [Next]_vars PROVE Values'
  OBVIOUS
<1> USE TimeAssumption, ShutdownBoundsAssumption DEF Values, Commands
<1>1. CASE StartHook
  BY <1>1 DEF StartHook, NotAnswered, Fault, Goto, Exit, processVars, roomVars, podVars,
              historyVars
<1>2. CASE RequestShutdown
  BY <1>2 DEF RequestShutdown, Answered, NotAnswered, Fault, Goto, Exit, roomVars, podVars,
              historyVars
<1>3. CASE TurnOffRestart
  BY <1>3 DEF TurnOffRestart, Goto, roomVars, podVars, boundVars, historyVars
<1>4. CASE CountConferences
  BY <1>4 DEF CountConferences, Answered, NotAnswered, Fault, Sleep, processVars, roomVars,
              podVars
<1>5. CASE AskIfRunning
  BY <1>5 DEF AskIfRunning, Answered, NotAnswered, Fault, Sleep, Goto, processVars, roomVars,
              podVars, historyVars
<1>6. CASE AskAgain
  BY <1>6 DEF AskAgain, Goto, processVars, roomVars, podVars, boundVars, historyVars
<1>7. CASE Kill
  <2>1. signal' \in {"none", "term", "kill"}
    BY <1>7 DEF Kill, Send
  <2> QED
    BY <1>7, <2>1 DEF Kill, Goto, roomVars, podVars, boundVars, historyVars
<1>8. CASE Check
  BY <1>8 DEF Check, Looks, Sleep, Goto, Exit, processVars, roomVars, podVars, boundVars,
              historyVars
<1>9. CASE ForceKill
  <2>1. signal' \in {"none", "term", "kill"}
    BY <1>9 DEF ForceKill, Send
  <2> QED
    BY <1>9, <2>1 DEF ForceKill, Goto, roomVars, podVars, boundVars, historyVars
<1>10. CASE GiveUp
  BY <1>10 DEF GiveUp, Goto, Exit, processVars, roomVars, podVars, boundVars, historyVars
<1>11. ASSUME ProcessEnds, faults' \in 0..MaxFaults PROVE Values'
  BY <1>11 DEF ProcessEnds, sameScript, scriptVars, podVars
<1>12. CASE BridgeLeaves \/ BridgeFails \/ DiesOfTerm \/ DiesOfKill
  BY <1>11, <1>12 DEF BridgeLeaves, BridgeFails, DiesOfTerm, DiesOfKill, Fault
<1>13. CASE Conferences
  BY <1>13 DEF Conferences, ConferenceStarts, ParticipantsJoin, ParticipantsLeave,
               ConferenceExpires, sameScript, scriptVars, processVars, podVars
<1>14. CASE Tick
  BY <1>14 DEF Tick, scriptVars, processVars, roomVars
<1>15. CASE KubeletStops
  BY <1>15 DEF KubeletStops, scriptVars, boundVars, historyVars
<1>16. CASE UNCHANGED vars
  BY <1>16 DEF vars, scriptVars, processVars, roomVars, podVars, boundVars, historyVars
<1> QED
  BY <1>1, <1>2, <1>3, <1>4, <1>5, <1>6, <1>7, <1>8, <1>9, <1>10, <1>12, <1>13, <1>14, <1>15,
     <1>16 DEF Next, Script, Bridge

LEMMA NumberedStep == IInv /\ [Next]_vars => Numbered'
<1> SUFFICES ASSUME IInv, [Next]_vars PROVE Numbered'
  OBVIOUS
<1>0. Flags /\ Values /\ Numbered /\ Aimed /\ Drained /\ Counted /\ Killed /\ Elapsed
  BY TypeParts DEF IInv
<1> USE <1>0, TimeAssumption, ShutdownBoundsAssumption DEF Numbered, Values
<1>1. CASE StartHook
  BY <1>1 DEF StartHook, NotAnswered, Fault, Goto, Exit, processVars, roomVars,
              podVars, historyVars
<1>2. CASE RequestShutdown
  BY <1>2 DEF RequestShutdown, Answered, NotAnswered, StatusIs200, Fault, Goto, Exit,
              roomVars, podVars, historyVars
<1>3. CASE TurnOffRestart
  BY <1>3 DEF TurnOffRestart, Goto, roomVars, podVars, boundVars, historyVars
<1>4. CASE CountConferences
  BY <1>4 DEF CountConferences, Answered, NotAnswered, Fault, WaitsFor, Sleep,
              processVars, roomVars, podVars
<1>5. CASE AskIfRunning
  BY <1>5 DEF AskIfRunning, Answered, NotAnswered, Fault, Sleep, Goto, processVars,
              roomVars, podVars, historyVars
<1>6. CASE AskAgain
  BY <1>6 DEF AskAgain, Goto, processVars, roomVars, podVars, boundVars, historyVars
<1>7. CASE Kill
  BY <1>7 DEF Kill, Send, Goto, roomVars, podVars, boundVars, historyVars
<1>8. CASE Check
  BY <1>8 DEF Check, Looks, Sleep, Goto, Exit, processVars, roomVars, podVars,
              boundVars, historyVars
<1>9. CASE ForceKill
  BY <1>9 DEF ForceKill, Send, Goto, roomVars, podVars, boundVars, historyVars
<1>10. CASE GiveUp
  BY <1>10 DEF GiveUp, Goto, Exit, processVars, roomVars, podVars, boundVars,
              historyVars
<1>11. CASE BridgeLeaves \/ BridgeFails \/ DiesOfTerm \/ DiesOfKill
  BY <1>11 DEF BridgeLeaves, BridgeFails, DiesOfTerm, DiesOfKill, ProcessEnds,
              sameScript, scriptVars, podVars
<1>12. CASE Conferences
  BY <1>12 DEF Conferences, ConferenceStarts, ParticipantsJoin, ParticipantsLeave,
              ConferenceExpires, sameScript, scriptVars, processVars, podVars
<1>13. CASE Tick
  BY <1>13 DEF Tick, Asks, scriptVars, processVars, roomVars
<1>14. CASE KubeletStops
  BY <1>14 DEF KubeletStops, scriptVars, boundVars, historyVars
<1>15. CASE UNCHANGED vars
  BY <1>15 DEF vars, scriptVars, processVars, roomVars, podVars, boundVars,
              historyVars
<1> QED
  BY <1>1, <1>2, <1>3, <1>4, <1>5, <1>6, <1>7, <1>8, <1>9, <1>10, <1>11, <1>12,
     <1>13, <1>14, <1>15 DEF Next, Script, Bridge

LEMMA AimedStep == IInv /\ [Next]_vars => Aimed'
<1> SUFFICES ASSUME IInv, [Next]_vars PROVE Aimed'
  OBVIOUS
<1>0. Flags /\ Values /\ Numbered /\ Aimed /\ Drained /\ Counted /\ Killed /\ Elapsed
  BY TypeParts DEF IInv
<1> USE <1>0, TimeAssumption, ShutdownBoundsAssumption DEF Aimed, Numbered, Values
<1>1. CASE StartHook
  BY <1>1 DEF StartHook, NotAnswered, Fault, Goto, Exit, processVars, roomVars,
              podVars, historyVars
<1>2. CASE RequestShutdown
  BY <1>2 DEF RequestShutdown, Answered, NotAnswered, StatusIs200, Fault, Goto, Exit,
              roomVars, podVars, historyVars
<1>3. CASE TurnOffRestart
  BY <1>3 DEF TurnOffRestart, Goto, roomVars, podVars, boundVars, historyVars
<1>4. CASE CountConferences
  BY <1>4 DEF CountConferences, Answered, NotAnswered, Fault, WaitsFor, Sleep,
              processVars, roomVars, podVars
<1>5. CASE AskIfRunning
  BY <1>5 DEF AskIfRunning, Answered, NotAnswered, Fault, Sleep, Goto, processVars,
              roomVars, podVars, historyVars
<1>6. CASE AskAgain
  BY <1>6 DEF AskAgain, Goto, processVars, roomVars, podVars, boundVars, historyVars
<1>7. CASE Kill
  BY <1>7 DEF Kill, Send, Goto, roomVars, podVars, boundVars, historyVars
<1>8. CASE Check
  BY <1>8 DEF Check, Looks, Sleep, Goto, Exit, processVars, roomVars, podVars,
              boundVars, historyVars
<1>9. CASE ForceKill
  BY <1>9 DEF ForceKill, Send, Goto, roomVars, podVars, boundVars, historyVars
<1>10. CASE GiveUp
  BY <1>10 DEF GiveUp, Goto, Exit, processVars, roomVars, podVars, boundVars,
              historyVars
<1>11. CASE BridgeLeaves \/ BridgeFails \/ DiesOfTerm \/ DiesOfKill
  BY <1>11 DEF BridgeLeaves, BridgeFails, DiesOfTerm, DiesOfKill, ProcessEnds,
              sameScript, scriptVars, podVars
<1>12. CASE Conferences
  BY <1>12 DEF Conferences, ConferenceStarts, ParticipantsJoin, ParticipantsLeave,
              ConferenceExpires, sameScript, scriptVars, processVars, podVars
<1>13. CASE Tick
  BY <1>13 DEF Tick, Asks, scriptVars, processVars, roomVars
<1>14. CASE KubeletStops
  BY <1>14 DEF KubeletStops, scriptVars, boundVars, historyVars
<1>15. CASE UNCHANGED vars
  BY <1>15 DEF vars, scriptVars, processVars, roomVars, podVars, boundVars,
              historyVars
<1> QED
  BY <1>1, <1>2, <1>3, <1>4, <1>5, <1>6, <1>7, <1>8, <1>9, <1>10, <1>11, <1>12,
     <1>13, <1>14, <1>15 DEF Next, Script, Bridge

LEMMA DrainedStep == IInv /\ [Next]_vars => Drained'
<1> SUFFICES ASSUME IInv, [Next]_vars PROVE Drained'
  OBVIOUS
<1>0. Flags /\ Values /\ Numbered /\ Aimed /\ Drained /\ Counted /\ Killed /\ Elapsed
  BY TypeParts DEF IInv
<1> USE <1>0, TimeAssumption, ShutdownBoundsAssumption
       DEF Drained, Aimed, Numbered, Values, Flags, AfterRequest
<1>1. CASE StartHook
  BY <1>1 DEF StartHook, NotAnswered, Fault, Goto, Exit, processVars, roomVars,
              podVars, historyVars
<1>2. CASE RequestShutdown
  BY <1>2 DEF RequestShutdown, Answered, NotAnswered, StatusIs200, Fault, Goto, Exit,
              roomVars, podVars, historyVars
<1>3. CASE TurnOffRestart
  BY <1>3 DEF TurnOffRestart, Goto, roomVars, podVars, boundVars, historyVars
<1>4. CASE CountConferences
  BY <1>4 DEF CountConferences, Answered, NotAnswered, Fault, WaitsFor, Sleep,
              processVars, roomVars, podVars
<1>5. CASE AskIfRunning
  BY <1>5 DEF AskIfRunning, Answered, NotAnswered, Fault, Sleep, Goto, processVars,
              roomVars, podVars, historyVars
<1>6. CASE AskAgain
  BY <1>6 DEF AskAgain, Goto, processVars, roomVars, podVars, boundVars, historyVars
<1>7. CASE Kill
  BY <1>7 DEF Kill, Send, Goto, roomVars, podVars, boundVars, historyVars
<1>8. CASE Check
  BY <1>8 DEF Check, Looks, Sleep, Goto, Exit, processVars, roomVars, podVars,
              boundVars, historyVars
<1>9. CASE ForceKill
  BY <1>9 DEF ForceKill, Send, Goto, roomVars, podVars, boundVars, historyVars
<1>10. CASE GiveUp
  BY <1>10 DEF GiveUp, Goto, Exit, processVars, roomVars, podVars, boundVars,
              historyVars
<1>11. CASE BridgeLeaves \/ BridgeFails \/ DiesOfTerm \/ DiesOfKill
  BY <1>11 DEF BridgeLeaves, BridgeFails, DiesOfTerm, DiesOfKill, ProcessEnds,
              sameScript, scriptVars, podVars
<1>12. CASE Conferences
  BY <1>12 DEF Conferences, ConferenceStarts, ParticipantsJoin, ParticipantsLeave,
              ConferenceExpires, sameScript, scriptVars, processVars, podVars
<1>13. CASE Tick
  BY <1>13 DEF Tick, Asks, scriptVars, processVars, roomVars
<1>14. CASE KubeletStops
  BY <1>14 DEF KubeletStops, scriptVars, boundVars, historyVars
<1>15. CASE UNCHANGED vars
  BY <1>15 DEF vars, scriptVars, processVars, roomVars, podVars, boundVars,
              historyVars
<1> QED
  BY <1>1, <1>2, <1>3, <1>4, <1>5, <1>6, <1>7, <1>8, <1>9, <1>10, <1>11, <1>12,
     <1>13, <1>14, <1>15 DEF Next, Script, Bridge

LEMMA CountedStep == IInv /\ [Next]_vars => Counted'
<1> SUFFICES ASSUME IInv, [Next]_vars PROVE Counted'
  OBVIOUS
<1>0. Flags /\ Values /\ Numbered /\ Aimed /\ Drained /\ Counted /\ Killed /\ Elapsed
  BY TypeParts DEF IInv
<1> USE <1>0, TimeAssumption, ShutdownBoundsAssumption
       DEF Counted, Drained, Aimed, Numbered, Values, Flags, AfterRequest,
           AfterCount
<1>1. CASE StartHook
  BY <1>1 DEF StartHook, NotAnswered, Fault, Goto, Exit, processVars, roomVars,
              podVars, historyVars
<1>2. CASE RequestShutdown
  BY <1>2 DEF RequestShutdown, Answered, NotAnswered, StatusIs200, Fault, Goto, Exit,
              roomVars, podVars, historyVars
<1>3. CASE TurnOffRestart
  BY <1>3 DEF TurnOffRestart, Goto, roomVars, podVars, boundVars, historyVars
<1>4. CASE CountConferences
  <2> USE DEF CountConferences, processVars, roomVars
  <2>1. CASE Answered /\ confCount' = busy /\ unseen' = empty /\ blind' = FALSE
    BY <1>4, <2>1 DEF WaitsFor, Sleep
  <2>2. CASE NotAnswered /\ confCount' = 0 /\ unseen' = empty /\ blind' = (jvb # 0)
    <3>1. jvb = 0 => jvb # pid
      BY <1>4
    <3>2. jvb # 0 => blind'
      BY <2>2, Zenon
    <3> QED
      BY <1>4, <3>1, <3>2
  <2> QED
    BY <1>4, <2>1, <2>2
<1>5. CASE AskIfRunning
  BY <1>5 DEF AskIfRunning, Answered, NotAnswered, Fault, Sleep, Goto, processVars,
              roomVars, podVars, historyVars
<1>6. CASE AskAgain
  BY <1>6 DEF AskAgain, Goto, processVars, roomVars, podVars, boundVars, historyVars
<1>7. CASE Kill
  BY <1>7 DEF Kill, Send, Goto, roomVars, podVars, boundVars, historyVars
<1>8. CASE Check
  BY <1>8 DEF Check, Looks, Sleep, Goto, Exit, processVars, roomVars, podVars,
              boundVars, historyVars
<1>9. CASE ForceKill
  BY <1>9 DEF ForceKill, Send, Goto, roomVars, podVars, boundVars, historyVars
<1>10. CASE GiveUp
  BY <1>10 DEF GiveUp, Goto, Exit, processVars, roomVars, podVars, boundVars,
              historyVars
<1>11. CASE BridgeLeaves \/ BridgeFails \/ DiesOfTerm \/ DiesOfKill
  BY <1>11 DEF BridgeLeaves, BridgeFails, DiesOfTerm, DiesOfKill, ProcessEnds,
              sameScript, scriptVars, podVars
<1>12. CASE Conferences
  BY <1>12 DEF Conferences, ConferenceStarts, ParticipantsJoin, ParticipantsLeave,
              ConferenceExpires, sameScript, scriptVars, processVars, podVars
<1>13. CASE Tick
  BY <1>13 DEF Tick, Asks, scriptVars, processVars, roomVars
<1>14. CASE KubeletStops
  BY <1>14 DEF KubeletStops, scriptVars, boundVars, historyVars
<1>15. CASE UNCHANGED vars
  BY <1>15 DEF vars, scriptVars, processVars, roomVars, podVars, boundVars,
              historyVars
<1> QED
  BY <1>1, <1>2, <1>3, <1>4, <1>5, <1>6, <1>7, <1>8, <1>9, <1>10, <1>11, <1>12,
     <1>13, <1>14, <1>15 DEF Next, Script, Bridge

LEMMA KilledStep == IInv /\ [Next]_vars => Killed'
<1> SUFFICES ASSUME IInv, [Next]_vars PROVE Killed'
  OBVIOUS
<1>0. Flags /\ Values /\ Numbered /\ Aimed /\ Drained /\ Counted /\ Killed /\ Elapsed
  BY TypeParts DEF IInv
<1> USE <1>0, TimeAssumption, ShutdownBoundsAssumption DEF Killed, Aimed, Numbered, Values
<1>1. CASE StartHook
  BY <1>1 DEF StartHook, NotAnswered, Fault, Goto, Exit, processVars, roomVars,
              podVars, historyVars
<1>2. CASE RequestShutdown
  BY <1>2 DEF RequestShutdown, Answered, NotAnswered, StatusIs200, Fault, Goto, Exit,
              roomVars, podVars, historyVars
<1>3. CASE TurnOffRestart
  BY <1>3 DEF TurnOffRestart, Goto, roomVars, podVars, boundVars, historyVars
<1>4. CASE CountConferences
  BY <1>4 DEF CountConferences, Answered, NotAnswered, Fault, WaitsFor, Sleep,
              processVars, roomVars, podVars
<1>5. CASE AskIfRunning
  BY <1>5 DEF AskIfRunning, Answered, NotAnswered, Fault, Sleep, Goto, processVars,
              roomVars, podVars, historyVars
<1>6. CASE AskAgain
  BY <1>6 DEF AskAgain, Goto, processVars, roomVars, podVars, boundVars, historyVars
<1>7. CASE Kill
  BY <1>7 DEF Kill, Send, Goto, roomVars, podVars, boundVars, historyVars
<1>8. CASE Check
  BY <1>8 DEF Check, Looks, Sleep, Goto, Exit, processVars, roomVars, podVars,
              boundVars, historyVars
<1>9. CASE ForceKill
  BY <1>9 DEF ForceKill, Send, Goto, roomVars, podVars, boundVars, historyVars
<1>10. CASE GiveUp
  BY <1>10 DEF GiveUp, Goto, Exit, processVars, roomVars, podVars, boundVars,
              historyVars
<1>11. CASE BridgeLeaves \/ BridgeFails \/ DiesOfTerm \/ DiesOfKill
  BY <1>11 DEF BridgeLeaves, BridgeFails, DiesOfTerm, DiesOfKill, ProcessEnds,
              sameScript, scriptVars, podVars
<1>12. CASE Conferences
  BY <1>12 DEF Conferences, ConferenceStarts, ParticipantsJoin, ParticipantsLeave,
              ConferenceExpires, sameScript, scriptVars, processVars, podVars
<1>13. CASE Tick
  BY <1>13 DEF Tick, Asks, scriptVars, processVars, roomVars
<1>14. CASE KubeletStops
  BY <1>14 DEF KubeletStops, scriptVars, boundVars, historyVars
<1>15. CASE UNCHANGED vars
  BY <1>15 DEF vars, scriptVars, processVars, roomVars, podVars, boundVars,
              historyVars
<1> QED
  BY <1>1, <1>2, <1>3, <1>4, <1>5, <1>6, <1>7, <1>8, <1>9, <1>10, <1>11, <1>12,
     <1>13, <1>14, <1>15 DEF Next, Script, Bridge

LEMMA ElapsedStep == IInv /\ [Next]_vars => Elapsed'
<1> SUFFICES ASSUME IInv, [Next]_vars PROVE Elapsed'
  OBVIOUS
<1>0. Flags /\ Values /\ Numbered /\ Aimed /\ Drained /\ Counted /\ Killed /\ Elapsed
  BY TypeParts DEF IInv
<1> USE <1>0, TimeAssumption, ShutdownBoundsAssumption DEF Elapsed, Values, Running
<1>1. CASE StartHook
  BY <1>1 DEF StartHook, NotAnswered, Fault, Goto, Exit, processVars, roomVars,
              podVars, historyVars
<1>2. CASE RequestShutdown
  BY <1>2 DEF RequestShutdown, Answered, NotAnswered, StatusIs200, Fault, Goto, Exit,
              roomVars, podVars, historyVars
<1>3. CASE TurnOffRestart
  BY <1>3 DEF TurnOffRestart, Goto, roomVars, podVars, boundVars, historyVars
<1>4. CASE CountConferences
  BY <1>4 DEF CountConferences, Answered, NotAnswered, Fault, WaitsFor, Sleep,
              processVars, roomVars, podVars
<1>5. CASE AskIfRunning
  BY <1>5 DEF AskIfRunning, Answered, NotAnswered, Fault, Sleep, Goto, processVars,
              roomVars, podVars, historyVars
<1>6. CASE AskAgain
  BY <1>6 DEF AskAgain, Goto, processVars, roomVars, podVars, boundVars, historyVars
<1>7. CASE Kill
  BY <1>7 DEF Kill, Send, Goto, roomVars, podVars, boundVars, historyVars
<1>8. CASE Check
  BY <1>8 DEF Check, Looks, Sleep, Goto, Exit, processVars, roomVars, podVars,
              boundVars, historyVars
<1>9. CASE ForceKill
  BY <1>9 DEF ForceKill, Send, Goto, roomVars, podVars, boundVars, historyVars
<1>10. CASE GiveUp
  BY <1>10 DEF GiveUp, Goto, Exit, processVars, roomVars, podVars, boundVars,
              historyVars
<1>11. CASE BridgeLeaves \/ BridgeFails \/ DiesOfTerm \/ DiesOfKill
  BY <1>11 DEF BridgeLeaves, BridgeFails, DiesOfTerm, DiesOfKill, ProcessEnds,
              sameScript, scriptVars, podVars
<1>12. CASE Conferences
  BY <1>12 DEF Conferences, ConferenceStarts, ParticipantsJoin, ParticipantsLeave,
              ConferenceExpires, sameScript, scriptVars, processVars, podVars
<1>13. CASE Tick
  BY <1>13 DEF Tick, Asks, scriptVars, processVars, roomVars
<1>14. CASE KubeletStops
  BY <1>14 DEF KubeletStops, scriptVars, boundVars, historyVars
<1>15. CASE UNCHANGED vars
  BY <1>15 DEF vars, scriptVars, processVars, roomVars, podVars, boundVars,
              historyVars
<1> QED
  BY <1>1, <1>2, <1>3, <1>4, <1>5, <1>6, <1>7, <1>8, <1>9, <1>10, <1>11, <1>12,
     <1>13, <1>14, <1>15 DEF Next, Script, Bridge

LEMMA InductiveInvariant == Spec => []IInv
<1>1. IInv /\ [Next]_vars => IInv'
  <2> SUFFICES ASSUME IInv, [Next]_vars PROVE IInv'
    OBVIOUS
  <2>1. Flags /\ Values
    BY TypeParts DEF IInv
  <2>2. TypeOK'
    <3>1. Flags' /\ Values'
      BY <2>1, FlagsStep, ValuesStep
    <3>2. TypeOK' <=> Flags' /\ Values'
      BY Zenon DEF TypeOK, Flags, Values
    <3> QED
      BY <3>1, <3>2
  <2> QED
    BY <2>2, NumberedStep, AimedStep, DrainedStep, CountedStep, KilledStep, ElapsedStep
       DEF IInv
<1> QED
  BY <1>1, InitOK, PTL DEF Spec

-----------------------------------------------------------------------------
\* Every variable keeps its type, for every grace period, timeout and number of
\* conferences, restarts and faults (jvbGracefulShutdown).
THEOREM ShutdownTypeCorrect == Spec => []TypeOK
  BY InductiveInvariant, PTL DEF IInv

\* The script signals only a bridge that it has seen drained (cm.go:112-136).
THEOREM SignalsOnlyDrained == Spec => []NothingSeenIsCut
<1>1. IInv => NothingSeenIsCut
  BY TypeParts DEF IInv, Values, Aimed, Counted, NothingSeenIsCut
<1> QED
  BY <1>1, InductiveInvariant, PTL

\* The kubelet cuts the hook short only shortly after participants were there
\* (cm.go:112-147, deployment.go:251).
THEOREM EndsInTime == Spec => []InTime
<1>1. IInv => InTime
  BY TypeParts, TimeAssumption DEF IInv, Values, Commands, Elapsed, InTime, Tail
<1> QED
  BY <1>1, InductiveInvariant, PTL

\* The hook does not end and leave the process it aimed at, which nobody restarts,
\* running without having sent it a SIGKILL (cm.go:136-161).
THEOREM LeavesNoneRunning == Spec => []NoneLeftRunning
<1>1. IInv => NoneLeftRunning
  BY DEF IInv, Killed, NoneLeftRunning
<1> QED
  BY <1>1, InductiveInvariant, PTL
=============================================================================
