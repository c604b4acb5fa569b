------------------------ MODULE ShutdownRequirements ------------------------
(***************************************************************************)
(* What the preStop hook of a bridge must not do, and what it must bring   *)
(* about.                                                                  *)
(***************************************************************************)
EXTENDS GracefulShutdown

\* The script signals only a bridge that it has seen drained: a conference
\* with participants that its signal cuts off was empty, and not counted, when
\* it last counted - or that count was not answered.
NothingSeenIsCut == signal # "none" /\ ~blind => busy <= unseen

\* The longest way from the last participant to the end of the hook: a poll,
\* the five seconds, the timeout, three looks, and the waiting for answers.
Tail == 10 + 5 + Timeout + 3 + MaxHang

\* The kubelet cuts the hook short only if there were participants within the
\* last seconds of the grace period, or the grace period is too short for the
\* hook in the first place.
InTime == stopped /\ pc # "exited" => calm <= Tail

\* Once the supervisor was told not to restart the bridge, the hook does not
\* end and leave the process whose id it took running without having sent it a
\* SIGKILL.  A bridge restarted before that is another process.
NoneLeftRunning == pc = "exited" /\ once /\ jvb = pid => signal = "kill"
=============================================================================
