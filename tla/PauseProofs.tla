------------------------------ MODULE PauseProofs -----------------------------
(***************************************************************************)
(* The pauses of Transport, for any number of calls, recoveries and        *)
(* restarts: but for the interleavings that are named, a pause of ours is  *)
(* on record, a shutdown leaves one, an operator's is left alone, and what *)
(* was held goes to a session.                                             *)
(***************************************************************************)
EXTENDS TransportProofs

Unpausing == {r \in Recoveries : recovery[r].pc = "unpausing"}
ClosePhases == {"closing", "stopping", "stopped"}

(***************************************************************************)
(* That the row knows of every pause is not inductive: a pause is marked   *)
(* before it is asked for, and the mark may be undone in between by an     *)
(* unpause, by the tool's own failure or by the service's.  So the mark    *)
(* must stand, or be known to be gone, as long as the answer is due; and   *)
(* the two who pause must never be at it together.                         *)
(***************************************************************************)
MarkStands ==
  /\ PauseIsKnown
  /\ (phase = "pausing" \/ call.pc = "pausing") /\ ~cursor.pausedByUs =>
       "orphaned" \in mishaps
  /\ call.pc = "pausing" /\ ~call.paused /\ connection # "open" =>
       "orphaned" \in mishaps

OnePauser ==
  /\ call.pc = "pausing" => cursor.pauseReason = "operator"
  /\ phase = "pausing" => cursor.pauseReason # "operator"

\* An unpause that may hit an operator's pause was under way before that pause.
Overtaken == Unpausing # {} /\ cursor.pauseReason = "operator" => "overtaken" \in mishaps

\* A row that names an operator names a pause there is, or one known to be lost.
OperatorIsPaused ==
  (cursor.pauseReason = "operator" /\ call.pc \in {"idle", "resuming"})
    \/ (call.pc = "pausing" /\ call.reason = "operator") =>
  connection # "open" \/ mishaps \cap {"orphaned", "leftover"} # {}

ClosedIsPaused ==
  PauseOnShutdown /\ phase \in ClosePhases =>
    connection # "open" \/ mishaps \cap {"orphaned", "unpaused", "leftover"} # {}

\* An unpause under way has a session to go to, unless its child was told to end.
UnpauseHasSession ==
  session = "none" \/ child = "terminating" => Unpausing \subseteq told

PauseInv ==
  /\ MarkStands /\ OnePauser /\ Overtaken
  /\ OperatorIsPaused /\ ClosedIsPaused /\ UnpauseHasSession

\* What a step leaves alone when it has to do with no pause.
PauseKept ==
  /\ UNCHANGED <<connection, phase, call, mishaps>>
  /\ cursor'.pausedByUs = cursor.pausedByUs /\ cursor'.pauseReason = cursor.pauseReason

LEMMA PauseFrame ==
  ASSUME PauseInv, PauseKept, Unpausing' \subseteq Unpausing, UnpauseHasSession'
  PROVE  PauseInv'
  BY DEF PauseInv, PauseKept, MarkStands, PauseIsKnown, OnePauser, Overtaken,
         OperatorIsPaused, ClosedIsPaused

LEMMA PauseStarts == Init => PauseInv
  BY DEF Init, ListenerInit, Idle, IdleCall, PauseInv, MarkStands, PauseIsKnown, OnePauser,
         Overtaken, OperatorIsPaused, ClosedIsPaused, UnpauseHasSession, Unpausing,
         ClosePhases

LEMMA PauseHookdeck ==
  ASSUME Inv, PauseInv, HookdeckActs PROVE PauseInv'
<1> USE DEF toolVars, hookdeckVars, historyVars, lossVars, Unpausing, UnpauseHasSession
<1>1. CASE RequestArrives
  BY <1>1, PauseFrame DEF RequestArrives, listenerVars, PauseKept, PauseInv
<1>2. CASE GraceWindowEnds
  BY <1>2, PauseFrame DEF GraceWindowEnds, listenerVars, PauseKept, PauseInv
<1> QED
  BY <1>1, <1>2 DEF HookdeckActs

LEMMA PauseListener ==
  ASSUME Inv, PauseInv, ListenerActs PROVE PauseInv'
<1> USE DEF Inv, TypeInv, TypeOK, hookdeckVars, hostVars, toolVars, historyVars
<1>1. ASSUME NEW r \in Recoveries, TunnelConnects(r) PROVE PauseInv'
  <2>1. /\ PauseKept /\ session' = "attached" /\ child' = child /\ told \subseteq told'
        /\ recovery' = [recovery EXCEPT ![r].pc =
                          IF Breadcrumb THEN "unpausing" ELSE "catching"]
        /\ Breadcrumb /\ child' # "running" => r \in told'
    BY <1>1 DEF TunnelConnects, Banner, BeginRecovery, PauseKept
  <2>2. /\ Unpausing' \subseteq Unpausing \cup {r}
        /\ r \in Unpausing' => Breadcrumb
    <3>1. PICK pc \in {"unpausing", "catching"} :
            /\ recovery' = [recovery EXCEPT ![r].pc = pc]
            /\ pc = "unpausing" => Breadcrumb
      BY <2>1
    <3> QED
      BY <3>1, RecoveryMoves DEF Unpausing, Pcs
  <2>3. UnpauseHasSession'
    BY <2>1, <2>2 DEF PauseInv, UnpauseHasSession
  <2>4. Overtaken'
    BY <2>1, <2>2 DEF PauseInv, Overtaken, PauseKept, Breadcrumb
  <2> QED
    BY <2>1, <2>3, <2>4 DEF PauseInv, PauseKept, MarkStands, PauseIsKnown, OnePauser,
       OperatorIsPaused, ClosedIsPaused
<1>2. CASE ChildEnds
  <2>1. /\ UNCHANGED <<connection, phase, call, mishaps, recovery, told>>
        /\ child' = "none" /\ session' = SessionAfter(child)
    BY <1>2 DEF ChildEnds, ExitHandlers
  <2>2. PauseKept
    BY <1>2, <2>1, StampPatched DEF ChildEnds, RecordDisconnect, PauseKept
  <2>3. UnpauseHasSession'
    BY <2>1 DEF PauseInv, UnpauseHasSession, SessionAfter, Unpausing
  <2> QED
    BY <2>1, <2>2, <2>3, PauseFrame DEF Unpausing
<1>3. CASE ReadinessTimeout
  BY <1>3, PauseFrame DEF ReadinessTimeout, Tell, PauseKept, Unpausing, UnpauseHasSession
<1>4. CASE KillTimeout \/ Relaunch \/ StopTimeout
  <2>1. child' = "terminating" => child = "terminating"
    BY <1>4 DEF KillTimeout, Relaunch, StopTimeout, KillTimerFires, RestartFires, Launch,
       ScheduleRestart, GraceExpires
  <2> QED
    BY <1>4, <2>1, PauseFrame DEF KillTimeout, Relaunch, StopTimeout, PauseKept, PauseInv,
       Unpausing, UnpauseHasSession
<1> QED
  BY <1>1, <1>2, <1>3, <1>4 DEF ListenerActs

LEMMA PauseRecovery ==
  ASSUME Inv, PauseInv, NEW r \in Recoveries, RecoveryActs(r) PROVE PauseInv'
<1> USE DEF Inv, TypeInv, TypeOK, hookdeckVars, toolVars, historyVars
<1>1. CASE UnpauseReturns(r)
  <2>1. /\ r \in Unpausing /\ Unpausing' = Unpausing \ {r} /\ told' = told \ {r}
        /\ UNCHANGED <<session, child, phase, call>>
    BY <1>1, RecoveryMoves DEF UnpauseReturns, Pcs, Unpausing, listenerVars
  <2>2. UnpauseHasSession'
    BY <2>1 DEF PauseInv, UnpauseHasSession
  <2>3. /\ cursor'.pauseReason = cursor.pauseReason
        /\ cursor'.pausedByUs \in {cursor.pausedByUs, FALSE}
    BY <1>1, PauseUnmarked DEF UnpauseReturns, UnpauseRefused
  <2>4. CASE Lift(Overtaking)
    <3>1. /\ connection' = "open" /\ mishaps \ {"orphaned"} \subseteq mishaps'
          /\ "overtaken" \in mishaps => "leftover" \in mishaps'
          /\ call.pc = "pausing" \/ phase \in StopPhases => "orphaned" \in mishaps'
      BY <2>4 DEF Lift, Overtaking
    <3>2. cursor.pauseReason = "operator" => "overtaken" \in mishaps
      BY <2>1 DEF PauseInv, Overtaken
    <3> QED
      BY <2>1, <2>2, <2>3, <3>1, <3>2 DEF PauseInv, MarkStands, PauseIsKnown, OnePauser,
         Overtaken, OperatorIsPaused, ClosedIsPaused, ClosePhases, StopPhases
  <2>5. CASE UnpauseRefused
    BY <2>1, <2>2, <2>5, PauseFrame DEF UnpauseRefused, PauseKept
  <2> QED
    BY <1>1, <2>4, <2>5 DEF UnpauseReturns
<1>2. CASE CatchUp(r) \/ ReplayReturns(r) \/ WaitEnds(r)
  <2>1. PICK a \in Activations :
          a.pc # "unpausing" /\ recovery' = [recovery EXCEPT ![r] = a]
    <3>1. CASE CatchUp(r)
      <4>1. CASE recovery' = [recovery EXCEPT ![r] = Idle]
        BY <4>1, IdleIs
      <4>2. CASE cursor.lastDisconnectAt # None /\ recovery' = [recovery EXCEPT ![r] =
             [pc |-> "replaying", window |-> cursor.lastDisconnectAt + 1 .. clock]]
        <5>1. cursor.lastDisconnectAt + 1 .. clock \in SUBSET Times
          BY <4>2, TransportAssumption DEF Row, Times, None
        <5> QED
          BY <4>2, <5>1, IdleIs DEF Pcs
      <4> QED
        BY <3>1, <4>1, <4>2 DEF CatchUp
    <3>2. CASE ReplayReturns(r)
      BY <3>2, IdleIs DEF ReplayReturns, Pcs
    <3>3. CASE WaitEnds(r)
      BY <3>3, IdleIs DEF WaitEnds
    <3> QED
      BY <1>2, <3>1, <3>2, <3>3
  <2>2. Unpausing' \subseteq Unpausing
    BY <2>1, RecoveryReplaced DEF Unpausing
  <2>3. PauseKept /\ UNCHANGED <<session, child, told>>
    BY <1>2, StampPatched DEF CatchUp, ReplayReturns, WaitEnds, PauseKept, listenerVars
  <2> QED
    BY <2>2, <2>3, PauseFrame DEF PauseInv, UnpauseHasSession
<1> QED
  BY <1>1, <1>2 DEF RecoveryActs

LEMMA PauseService ==
  ASSUME Inv, PauseInv, ServiceActs PROVE PauseInv'
<1> USE DEF Inv, TypeInv, TypeOK, hookdeckVars, toolVars, historyVars
<1>1. ASSUME UNCHANGED <<session, child, recovery, told>> PROVE UnpauseHasSession'
  BY <1>1 DEF PauseInv, UnpauseHasSession, Unpausing
<1>2. ASSUME UNCHANGED recovery PROVE Unpausing' = Unpausing
  BY <1>2 DEF Unpausing
<1>3. ASSUME cursor'.pausedByUs = cursor.pausedByUs,
             cursor'.pauseReason = cursor.pauseReason,
             UNCHANGED <<connection, call, recovery>>, UnpauseHasSession',
             mishaps \ {"unpaused"} \subseteq mishaps', phase' \notin ClosePhases,
             phase' # "pausing"
      PROVE  PauseInv'
  BY <1>2, <1>3 DEF PauseInv, MarkStands, PauseIsKnown, OnePauser, Overtaken,
     OperatorIsPaused, ClosedIsPaused
<1>4. CASE Boot
  BY <1>1, <1>3, <1>4, StampPatched DEF Boot, listenerVars, ClosePhases, Row
<1>5. CASE MarkerCleared
  BY <1>1, <1>3, <1>5, MarkerPatched DEF MarkerCleared, listenerVars, ClosePhases
<1>6. CASE StartTransport
  <2>1. /\ UNCHANGED <<connection, call, recovery, session, told, mishaps>>
        /\ phase' = "serving" /\ child' \in {child, "running"}
    BY <1>6 DEF StartTransport, StartListener, Launch, ScheduleRestart, listenerVars
  <2>2. /\ cursor'.pausedByUs = cursor.pausedByUs
        /\ cursor'.pauseReason = cursor.pauseReason
    BY <1>6, MarkerPatched DEF StartTransport
  <2>3. UnpauseHasSession'
    BY <2>1 DEF PauseInv, UnpauseHasSession, Unpausing
  <2> QED
    BY <1>3, <2>1, <2>2, <2>3 DEF ClosePhases
<1>7. CASE Heartbeat
  BY <1>1, <1>2, <1>7, MarkerPatched, PauseFrame DEF Heartbeat, listenerVars, PauseKept
<1>8. CASE StopService
  <2>1. /\ UNCHANGED <<connection, call, recovery, session, child, told>>
        /\ phase = "serving"
    BY <1>8 DEF StopService, listenerVars
  <2>2. UnpauseHasSession' /\ Unpausing' = Unpausing
    BY <1>1, <1>2, <2>1
  <2>3. CASE PauseOnShutdown /\ ~PausedByOperator /\ phase' = "pausing"
             /\ Patch([pausedByUs |-> TRUE, pauseReason |-> "shutdown"])
             /\ UNCHANGED mishaps
    <3>1. cursor'.pausedByUs = TRUE /\ cursor'.pauseReason = "shutdown"
      BY <2>3, PauseMarked DEF Reasons
    <3>2. call.pc # "pausing"
      BY <2>3 DEF PauseInv, OnePauser, PausedByOperator
    <3> QED
      BY <2>1, <2>2, <2>3, <3>1, <3>2 DEF PauseInv, MarkStands, PauseIsKnown, OnePauser,
         Overtaken, OperatorIsPaused, ClosedIsPaused, ClosePhases
  <2>4. CASE phase' = "closing" /\ UNCHANGED cursor /\ mishaps' = mishaps \cup
             (IF ~PauseOnShutdown \/ ~PausedByOperator THEN {"unpaused"}
              ELSE IF call.pc # "idle" THEN {"leftover"} ELSE {})
    <3>1. mishaps \subseteq mishaps'
      BY <2>4
    <3>2. ClosedIsPaused'
      <4>1. CASE ~PausedByOperator \/ call.pc # "idle" \/ ~PauseOnShutdown
        BY <2>4, <4>1 DEF ClosedIsPaused
      <4>2. CASE PausedByOperator /\ call.pc = "idle"
        BY <2>1, <2>4, <3>1, <4>2
           DEF PauseInv, OperatorIsPaused, ClosedIsPaused, PausedByOperator
      <4> QED
        BY <4>1, <4>2
    <3> QED
      BY <2>1, <2>2, <2>4, <3>1, <3>2 DEF PauseInv, MarkStands, PauseIsKnown, OnePauser,
         Overtaken, OperatorIsPaused
  <2> QED
    BY <1>8, <2>3, <2>4 DEF StopService
<1>9. CASE ShutdownPauseReturns
  <2>1. /\ UNCHANGED <<call, recovery, session, child, told>>
        /\ phase = "pausing" /\ phase' = "closing" /\ mishaps \subseteq mishaps'
        /\ connection' \in {connection, "shutdown"}
    BY <1>9 DEF ShutdownPauseReturns, listenerVars
  <2>2. UnpauseHasSession' /\ Unpausing' = Unpausing
    BY <1>1, <1>2, <2>1
  <2>3. /\ cursor'.pauseReason = cursor.pauseReason
        /\ cursor'.pausedByUs \in {cursor.pausedByUs, FALSE}
    BY <1>9, PauseUnmarked DEF ShutdownPauseReturns
  <2>4. call.pc # "pausing"
    BY <2>1 DEF PauseInv, OnePauser
  <2>5. /\ connection' # "open" /\ ~cursor'.pausedByUs => "orphaned" \in mishaps'
        /\ connection' = "open" => "unpaused" \in mishaps'
    <3>1. CASE connection' = "shutdown" /\ UNCHANGED <<cursor, mishaps>>
      BY <2>1, <3>1 DEF PauseInv, MarkStands
    <3>2. CASE connection' = "shutdown" /\ mishaps' = mishaps \cup {"orphaned"}
      BY <3>2
    <3>3. CASE /\ mishaps' = mishaps \cup
                     {IF connection = "open" THEN "unpaused" ELSE "orphaned"}
               /\ UNCHANGED connection
      BY <3>3
    <3> QED
      BY <1>9, <3>1, <3>2, <3>3 DEF ShutdownPauseReturns
  <2> QED
    BY <2>1, <2>2, <2>3, <2>4, <2>5 DEF PauseInv, MarkStands, PauseIsKnown, OnePauser,
       Overtaken, OperatorIsPaused, ClosedIsPaused
<1>10. CASE CloseTunnel
  <2>1. /\ UNCHANGED <<connection, call, recovery, session, cursor, mishaps>>
        /\ phase = "closing" /\ phase' = "stopping"
    BY <1>10 DEF CloseTunnel
  <2>2. UnpauseHasSession'
    BY <1>1, <1>10, <2>1 DEF CloseTunnel, Tell, listenerVars, UnpauseHasSession, Unpausing
  <2> QED
    BY <1>2, <2>1, <2>2 DEF PauseInv, MarkStands, PauseIsKnown, OnePauser, Overtaken,
       OperatorIsPaused, ClosedIsPaused, ClosePhases
<1>11. CASE TransportStopped
  <2>1. /\ UNCHANGED <<connection, call, recovery, session, child, told, mishaps>>
        /\ phase = "stopping" /\ phase' = "stopped"
    BY <1>11 DEF TransportStopped, listenerVars
  <2>2. /\ cursor'.pausedByUs = cursor.pausedByUs
        /\ cursor'.pauseReason = cursor.pauseReason
    BY <1>11, MarkerPatched DEF TransportStopped
  <2> QED
    BY <1>1, <1>2, <2>1, <2>2 DEF PauseInv, MarkStands, PauseIsKnown, OnePauser, Overtaken,
       OperatorIsPaused, ClosedIsPaused, ClosePhases
<1> QED
  BY <1>4, <1>5, <1>6, <1>7, <1>8, <1>9, <1>10, <1>11 DEF ServiceActs

LEMMA PauseEnd ==
  ASSUME Inv, PauseInv, ProcessEnds PROVE PauseInv'
<1>1. /\ phase' = "down" /\ call'.pc = "idle" /\ UNCHANGED <<connection, cursor>>
      /\ mishaps \ {"overtaken"} \subseteq mishaps'
      /\ call.pc \in {"pausing", "clearing"} => "leftover" \in mishaps'
  BY DEF ProcessEnds, IdleCall
<1>2. Unpausing' = {}
  <2>1. \A r \in Recoveries : recovery'[r] = Idle
    BY DEF ProcessEnds
  <2> QED
    BY <2>1, IdleIs DEF Unpausing
<1>3. call.pc \in {"idle", "pausing", "resuming", "clearing"}
  BY DEF Inv, TypeInv, TypeOK, ToolCalls
<1> QED
  BY <1>1, <1>2, <1>3 DEF PauseInv, MarkStands, PauseIsKnown, OnePauser, Overtaken,
     OperatorIsPaused, ClosedIsPaused, UnpauseHasSession, ClosePhases

LEMMA PauseTools ==
  ASSUME Inv, PauseInv, ToolActs PROVE PauseInv'
<1> USE DEF Inv, TypeInv, TypeOK, hookdeckVars, toolVars, historyVars
<1>1. UNCHANGED <<listenerVars, session, phase, recovery, told>>
  BY DEF ToolActs, PauseTool, ToolPauseReturns, ResumeTool, TimerFires, Resume,
         ToolUnpauseReturns, ReasonCleared
<1>2. UnpauseHasSession' /\ Unpausing' = Unpausing
  BY <1>1 DEF PauseInv, UnpauseHasSession, Unpausing, listenerVars
<1> USE DEF PauseInv, MarkStands, PauseIsKnown, OnePauser, Overtaken, OperatorIsPaused,
            ClosedIsPaused
<1>3. CASE PauseTool
  <2>1. /\ phase = "serving" /\ call.pc = "idle" /\ UNCHANGED connection
        /\ call' = [pc |-> "pausing", paused |-> cursor.pausedByUs,
                    reason |-> cursor.pauseReason]
        /\ mishaps' = mishaps \cup
             IF \E r \in Recoveries : recovery[r].pc = "unpausing" THEN {"overtaken"} ELSE {}
    BY <1>3 DEF PauseTool
  <2>2. cursor'.pausedByUs = TRUE /\ cursor'.pauseReason = "operator"
    BY <1>3, PauseMarked DEF PauseTool, Reasons
  <2>3. Overtaken'
    BY <1>2, <2>1 DEF Unpausing
  <2> QED
    BY <1>1, <1>2, <2>1, <2>2, <2>3 DEF ClosePhases
<1>4. CASE ToolPauseReturns
  <2>1. call.pc = "pausing" /\ call'.pc = "idle"
    BY <1>4 DEF ToolPauseReturns, IdleCall
  <2>2. CASE connection' = "operator" /\ UNCHANGED <<cursor, mishaps>>
    BY <1>1, <1>2, <2>1, <2>2
  <2>3. CASE /\ connection' \in {connection, "operator"} /\ Restored
             /\ mishaps' = mishaps
                  \cup (IF connection' = "operator" /\ ~call.paused THEN {"orphaned"} ELSE {})
                  \cup (IF call.reason = "none" THEN {"leftover"} ELSE {})
    <3>1. /\ cursor'.pausedByUs <=> call.paused
          /\ cursor'.pauseReason = IF call.reason = "none" THEN "operator" ELSE call.reason
      BY <2>1, <2>3, PauseMarked DEF Restored, ToolCalls, Row
    <3>2. /\ mishaps \subseteq mishaps'
          /\ connection # "open" => connection' # "open"
          /\ call.reason = "none" => "leftover" \in mishaps'
          /\ connection' # connection /\ ~call.paused => "orphaned" \in mishaps'
      BY <2>3
    <3>3. phase # "pausing"
      BY <2>1
    <3>4. MarkStands' /\ OnePauser'
      BY <1>1, <2>1, <3>1, <3>2, <3>3
    <3>5. Overtaken'
      BY <1>2, <2>1, <3>1, <3>2
    <3>6. OperatorIsPaused' /\ ClosedIsPaused'
      BY <1>1, <2>1, <3>1, <3>2
    <3> QED
      BY <1>2, <3>4, <3>5, <3>6
  <2> QED
    BY <1>4, <2>2, <2>3 DEF ToolPauseReturns
<1>5. CASE ResumeTool \/ TimerFires
  <2>1. call.pc = "idle" /\ call'.pc = "resuming" /\ UNCHANGED <<connection, cursor, mishaps>>
    BY <1>5 DEF ResumeTool, TimerFires, Resume, IdleCall
  <2> QED
    BY <1>1, <1>2, <2>1
<1>6. CASE ToolUnpauseReturns
  <2>1. /\ call.pc = "resuming" /\ cursor'.pauseReason = cursor.pauseReason
        /\ cursor'.pausedByUs \in {cursor.pausedByUs, FALSE}
    BY <1>6, PauseUnmarked DEF ToolUnpauseReturns, UnpauseRefused
  <2>2. CASE Lift({}) /\ call' = [call EXCEPT !.pc = "clearing"]
    <3>1. /\ connection' = "open" /\ call'.pc = "clearing"
          /\ mishaps \ {"orphaned"} \subseteq mishaps'
          /\ phase \in StopPhases => "orphaned" \in mishaps'
      BY <2>2 DEF Lift, ToolCalls
    <3> QED
      BY <1>1, <1>2, <2>1, <3>1 DEF StopPhases, ClosePhases
  <2>3. CASE Lift({"leftover"}) /\ call' = IdleCall
    <3>1. /\ connection' = "open" /\ call'.pc = "idle" /\ "leftover" \in mishaps'
          /\ mishaps \ {"orphaned"} \subseteq mishaps'
          /\ phase \in StopPhases => "orphaned" \in mishaps'
      BY <2>3 DEF Lift, IdleCall
    <3> QED
      BY <1>1, <1>2, <2>1, <3>1 DEF StopPhases, ClosePhases
  <2>4. CASE UnpauseRefused /\ call' = IdleCall
    BY <1>1, <1>2, <2>1, <2>4 DEF UnpauseRefused, IdleCall
  <2> QED
    BY <1>6, <2>2, <2>3, <2>4 DEF ToolUnpauseReturns
<1>7. CASE ReasonCleared
  <2>1. /\ call'.pc = "idle" /\ UNCHANGED connection
        /\ mishaps \ {"leftover"} \subseteq mishaps'
        /\ phase # "serving" => mishaps' = mishaps
    BY <1>7 DEF ReasonCleared, IdleCall
  <2>2. cursor'.pausedByUs = cursor.pausedByUs /\ cursor'.pauseReason = "none"
    BY <1>7, ReasonPatched DEF ReasonCleared, Reasons
  <2> QED
    BY <1>1, <1>2, <2>1, <2>2 DEF ClosePhases
<1> QED
  BY <1>3, <1>4, <1>5, <1>6, <1>7 DEF ToolActs

LEMMA PauseStep == Inv /\ PauseInv /\ [Next]_vars => PauseInv'
<1> SUFFICES ASSUME Inv, PauseInv, [Next]_vars PROVE PauseInv'
  OBVIOUS
<1>1. CASE UNCHANGED vars
  BY <1>1, PauseFrame DEF vars, listenerVars, hookdeckVars, toolVars, historyVars,
     PauseKept, PauseInv, UnpauseHasSession, Unpausing
<1> QED
  BY <1>1, PauseHookdeck, PauseListener, PauseRecovery, PauseService, PauseEnd, PauseTools
     DEF Next

LEMMA PauseSafety == Spec => [](Inv /\ PauseInv)
<1>1. Init => PauseInv
  BY PauseStarts
<1>2. Inv /\ PauseInv /\ [Next]_vars => PauseInv'
  BY PauseStep
<1> QED
  BY <1>1, <1>2, TypeSafety, PTL DEF Spec, Inv

\* A connection the plugin paused is one its row says it paused, except where an
\* answer was a failure or an unpause crossed the pause.
THEOREM PausesAreKnown == Spec => []PauseIsKnown
<1>1. PauseInv => PauseIsKnown
  BY DEF PauseInv, MarkStands
<1> QED
  BY <1>1, PauseSafety, PTL

\* A service configured to pause has closed its tunnel only with requests held, but
\* for the mishaps that are named.
THEOREM ShutdownsHold == Spec => []ShutdownHolds
<1>1. PauseInv => ShutdownHolds
  BY DEF PauseInv, ClosedIsPaused, ShutdownHolds, ClosePhases
<1> QED
  BY <1>1, PauseSafety, PTL

(***************************************************************************)
(* What no step may do.                                                    *)
(***************************************************************************)
\* The tool's unpause leaves its call in another place, whatever the answer.
LEMMA CallMoves == Inv /\ ToolUnpauseReturns => call'.pc # call.pc
<1> SUFFICES ASSUME Inv, ToolUnpauseReturns PROVE call'.pc # call.pc
  OBVIOUS
<1>1. call.pc = "resuming"
  BY DEF ToolUnpauseReturns
<1>2. CASE call' = [call EXCEPT !.pc = "clearing"]
  BY <1>1, <1>2 DEF Inv, TypeInv, TypeOK, ToolCalls
<1>3. CASE call' = IdleCall
  BY <1>1, <1>3 DEF IdleCall
<1> QED
  BY <1>2, <1>3 DEF ToolUnpauseReturns

LEMMA OperatorStep ==
  ASSUME Inv, PauseInv, [Next]_vars, connection = "operator",
         cursor.pauseReason = "operator", connection' # "operator", call' = call
  PROVE  "overtaken" \in mishaps
<1> USE DEF hookdeckVars, toolVars, historyVars
<1>1. CASE HookdeckActs \/ ListenerActs
  BY <1>1 DEF HookdeckActs, RequestArrives, GraceWindowEnds, ListenerActs, TunnelConnects,
     ChildEnds, ReadinessTimeout, KillTimeout, Relaunch, StopTimeout, hostVars
<1>2. CASE ServiceActs
  BY <1>2 DEF ServiceActs, Boot, MarkerCleared, StartTransport, Heartbeat, StopService,
     ShutdownPauseReturns, CloseTunnel, TransportStopped, PauseInv, OnePauser
<1>3. CASE ProcessEnds \/ UNCHANGED vars
  BY <1>3 DEF ProcessEnds, vars
<1>4. CASE ToolActs
  <2>1. CASE ToolUnpauseReturns
    BY <2>1, CallMoves
  <2>2. CASE ~ToolUnpauseReturns
    BY <1>4, <2>2 DEF ToolActs, PauseTool, ToolPauseReturns, ResumeTool, TimerFires, Resume,
       ReasonCleared, IdleCall
  <2> QED
    BY <2>1, <2>2
<1>5. ASSUME NEW r \in Recoveries, RecoveryActs(r) PROVE "overtaken" \in mishaps
  <2>1. UnpauseReturns(r)
    BY <1>5 DEF RecoveryActs, CatchUp, ReplayReturns, WaitEnds
  <2> QED
    BY <2>1 DEF UnpauseReturns, PauseInv, Overtaken, Unpausing
<1> QED
  BY <1>1, <1>2, <1>3, <1>4, <1>5 DEF Next

\* A reconnect or a restart lifts an operator's pause only by an unpause that was
\* already under way when the operator paused; but for that, only the pause tool and its
\* timer do.
THEOREM OperatorPausesStand == Spec => OperatorPauseStands
<1>1. Inv /\ PauseInv /\ [Next]_vars =>
        [connection = "operator" /\ cursor.pauseReason = "operator"
           /\ connection' # "operator" => call' # call \/ "overtaken" \in mishaps]_vars
  BY OperatorStep
<1> QED
  BY <1>1, PauseSafety, PTL DEF Spec, OperatorPauseStands

LEMMA HeldStep ==
  ASSUME Inv, PauseInv, [Next]_vars, held, ~held', session = "none", call' = call
  PROVE  \E r \in told : recovery'[r] # recovery[r]
<1> USE DEF hookdeckVars, toolVars, historyVars
<1>1. ~HookdeckActs /\ ~ListenerActs /\ ~ServiceActs /\ ~ProcessEnds /\ ~UNCHANGED vars
  BY DEF HookdeckActs, RequestArrives, GraceWindowEnds, ListenerActs, TunnelConnects,
     ChildEnds, ReadinessTimeout, KillTimeout, Relaunch, StopTimeout, hostVars,
     ServiceActs, Boot, MarkerCleared, StartTransport, Heartbeat, StopService,
     ShutdownPauseReturns, CloseTunnel, TransportStopped, ProcessEnds, vars
<1>2. ~ToolActs
  <2>1. ~(PauseTool \/ ToolPauseReturns \/ ResumeTool \/ TimerFires \/ ReasonCleared)
    BY DEF PauseTool, ToolPauseReturns, ResumeTool, TimerFires, Resume, ReasonCleared
  <2>2. ~ToolUnpauseReturns
    BY CallMoves
  <2> QED
    BY <2>1, <2>2 DEF ToolActs
<1>3. PICK r \in Recoveries : UnpauseReturns(r)
  <2>1. PICK r \in Recoveries : RecoveryActs(r)
    BY <1>1, <1>2 DEF Next
  <2>2. ~CatchUp(r) /\ ~WaitEnds(r)
    BY DEF CatchUp, WaitEnds
  <2>3. ~ReplayReturns(r)
    BY DEF ReplayReturns
  <2> QED
    BY <2>1, <2>2, <2>3 DEF RecoveryActs
<1>4. r \in told
  BY <1>3 DEF UnpauseReturns, PauseInv, UnpauseHasSession, Unpausing
<1>5. recovery[r].pc = "unpausing" /\ recovery'[r].pc = "catching"
  BY <1>3, RecoveryMoves DEF UnpauseReturns, Pcs, Inv, TypeInv, TypeOK
<1> QED
  BY <1>4, <1>5

\* Requests that were held are released into a session, or one that is being
\* replaced, unless the pause tool released them or the recovery was told to end.
THEOREM HeldGoToSession == Spec => HeldGoToTunnel
<1>1. Inv /\ PauseInv /\ [Next]_vars =>
        [held /\ ~held' /\ session = "none" =>
           call' # call \/ \E r \in told : recovery'[r] # recovery[r]]_vars
  BY HeldStep
<1> QED
  BY <1>1, PauseSafety, PTL DEF Spec, HeldGoToTunnel
===============================================================================
