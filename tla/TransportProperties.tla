------------------------- MODULE TransportProperties --------------------------
(***************************************************************************)
(* What the transport promises: an outage is recovered, a pause is lifted  *)
(* and lifted by the right party, held events go to a tunnel.  Two of      *)
(* these promises are stated as the repository states them and do not      *)
(* hold: OutageRecovered and OperatorPauseIsKept.  Where a promise does    *)
(* not hold without exception, the property that does says which           *)
(* interleavings, those a history variable names, are the only ones that   *)
(* break it.                                                               *)
(***************************************************************************)
EXTENDS Transport

\* docs/durability.md "What catch-up guarantees", manager.ts recordDisconnect and
\* catchUp: a request discarded in an outage and not yet replayed lies after the stamp
\* the next recovery starts from, or after the heartbeat the next start adopts.
Remembered(t) == cursor.lastDisconnectAt < t \/ cursor.lastSeenAt < t

OutageRecovered == \A t \in (1 .. clock) \ replayed : Remembered(t)

\* manager.ts recordDisconnect, adoptCrashedRun, catchUp: the end of a replay is the
\* only thing that forgets a request, and it forgets only those discarded while it, or
\* another, was still under way and those of the rest of that outage.  All others stay
\* remembered through crashes, restarts, reconnections and failed replays.
OnlyReplaysForget == \A t \in (1 .. clock) \ (replayed \cup exposed) : Remembered(t)

\* manager.ts stop and unpauseIfWePaused, pause.ts: a paused connection loses its marker
\* only where its pause was answered by a failure, or was crossed by an unpause.  What
\* cursor-store.ts says of pausedByUs makes no such exception.
PauseIsKnown ==
  connection # "open" /\ ~cursor.pausedByUs => "orphaned" \in mishaps

\* manager.ts stop: when it closes the tunnel, requests are being held, unless the
\* pause was refused, skipped for want of time, or an operator's pause that is no
\* longer there had it skipped.
ShutdownHolds ==
  PauseOnShutdown /\ phase \in {"stopping", "stopped"} =>
    connection # "open" \/ mishaps \cap {"orphaned", "unpaused", "leftover"} # {}

\* manager.ts recoverRoute: it releases held events only with a listener attached, or
\* one being replaced, except where the child it was started for was told to end
\* meanwhile.  The comment at recoverRoute makes no such exception; the pause tool and
\* its timer promise nothing.
HeldGoToTunnel ==
  [][held /\ ~held' /\ session = "none" =>
       call' # call \/ \E r \in told : recovery'[r] # recovery[r]]_vars

\* manager.ts unpauseIfWePaused: an operator's pause is lifted by the pause tool or
\* its timer, never by a reconnect.
OperatorPauseIsKept ==
  [][connection = "operator" /\ cursor.pauseReason = "operator"
       /\ connection' # "operator" => call' # call]_vars

\* manager.ts unpauseIfWePaused: a recovery lifts an operator's pause only if its
\* unpause of an earlier pause was already on its way when the operator paused.
OperatorPauseStands ==
  [][connection = "operator" /\ cursor.pauseReason = "operator"
       /\ connection' # "operator" => call' # call \/ "overtaken" \in mishaps]_vars

\* cli-transport.ts: a listener is never stuck.  It waits for a timer that is set or
\* for a child that will end, and a stop is done only with a child gone or killed.
TunnelIsTended ==
  /\ state = "restarting" => restartTimer
  /\ state = "connected" => child # "none"
  /\ state = "starting" =>
       /\ child # "none"
       /\ readinessTimer \/ killTimer \/ child = "killed" \/ stopper = "waiting"
  /\ stopper = "done" => child \in {"none", "killed"}

\* cli-transport.ts launch and stop: a child that was told to end does end, though
\* it ignores SIGTERM.
ToldChildEnds == child = "terminating" ~> child = "none"

\* cli-transport.ts as the manager sees it: between them the timers, the exit
\* handlers and stop() drive the listener only as Tunnel allows, and close it.
ImplementsTunnel == Tunnel!Spec
===============================================================================
