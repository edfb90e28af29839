---------------------------- MODULE TransportProofs ---------------------------
(***************************************************************************)
(* For any number of discarded requests, recoveries, restarts and calls:   *)
(* the transport keeps its types, its listener is never stuck and behaves  *)
(* as the tunnel the manager expects, and nothing but the end of a replay  *)
(* forgets an outage.                                                      *)
(***************************************************************************)
EXTENDS TransportProperties, TLAPS

-------------------------------------------------------------------------------
(* The listener by itself.  The supervisor of the child is never stuck, and  *)
(* drives the tunnel as Tunnel allows: the inductive invariant of            *)
(* CliListener and the step simulation, for whoever takes its steps.         *)

(***************************************************************************)
(* What the timers and the two flags of a stop say of each other.  That    *)
(* somebody tends the listener is not inductive without it: a restart      *)
(* timer must be the one of the present state, a kill timer the one of the *)
(* present child, and a stop under way must have disarmed the rest.        *)
(***************************************************************************)
ListenerInv ==
  /\ ListenerTypeOK
  /\ state \in {"absent", "restarting"} => child = "none"
  /\ state \in {"starting", "connected"} => child # "none"
  /\ restartTimer <=> state = "restarting"
  /\ killTimer => child # "none"
  /\ stopping <=> stopper # "none"
  /\ stopper = "waiting" => state \in {"starting", "connected"}
  /\ stopper = "done" => state = "stopped" /\ child \in {"none", "killed"}
  /\ state = "stopped" => stopper = "done"
  /\ state = "absent" => stopper = "none"
  /\ state = "starting" /\ stopper = "none" =>
       readinessTimer \/ killTimer \/ child = "killed"
  /\ child = "terminating" => killTimer \/ stopper = "waiting"

ListenerNext ==
  \/ ListenerGone \/ StartListener \/ Banner \/ ReadinessExpires \/ KillTimerFires
  \/ ExitHandlers \/ RestartFires \/ StopListener \/ GraceExpires

LEMMA ListenerStarts == ListenerInit => ListenerInv
  BY DEF ListenerInit, ListenerInv, ListenerTypeOK

LEMMA ListenerStep == ListenerInv /\ [ListenerNext]_listenerVars => ListenerInv'
<1> SUFFICES ASSUME ListenerInv, [ListenerNext]_listenerVars
             PROVE  ListenerInv'
  OBVIOUS
<1> USE DEF ListenerInv, ListenerTypeOK
<1>1. CASE ListenerGone
  BY <1>1 DEF ListenerGone
<1>2. CASE StartListener
  BY <1>2 DEF StartListener, Launch, ScheduleRestart
<1>3. CASE Banner
  BY <1>3 DEF Banner
<1>4. CASE ReadinessExpires
  BY <1>4 DEF ReadinessExpires, Signalled
<1>5. CASE KillTimerFires
  BY <1>5 DEF KillTimerFires
<1>6. CASE ExitHandlers
  BY <1>6 DEF ExitHandlers, ScheduleRestart
<1>7. CASE RestartFires
  BY <1>7 DEF RestartFires, Launch, ScheduleRestart
<1>8. CASE StopListener
  BY <1>8 DEF StopListener, Signalled
<1>9. CASE GraceExpires
  BY <1>9 DEF GraceExpires
<1>10. CASE UNCHANGED listenerVars
  BY <1>10 DEF listenerVars
<1> QED
  BY <1>1, <1>2, <1>3, <1>4, <1>5, <1>6, <1>7, <1>8, <1>9, <1>10 DEF ListenerNext

(***************************************************************************)
(* The simulation of Tunnel.                                               *)
(***************************************************************************)
LEMMA TunnelStarts == ListenerInit => Tunnel!Init
  BY DEF ListenerInit, Tunnel!Init

LEMMA TunnelStep ==
  ListenerInv /\ [ListenerNext]_listenerVars => [Tunnel!Next]_(Tunnel!vars)
<1> SUFFICES ASSUME ListenerInv, [ListenerNext]_listenerVars
             PROVE  [Tunnel!Next]_(Tunnel!vars)
  OBVIOUS
<1> USE DEF ListenerInv, ListenerTypeOK, Tunnel!Next, Tunnel!vars
<1>1. CASE ListenerGone
  BY <1>1 DEF ListenerGone, Tunnel!Withdraw, Tunnel!Close
<1>2. CASE StartListener
  BY <1>2 DEF StartListener, Launch, ScheduleRestart, Tunnel!Open
<1>3. CASE Banner
  BY <1>3 DEF Banner, Tunnel!Attach
<1>4. CASE ReadinessExpires
  BY <1>4 DEF ReadinessExpires
<1>5. CASE KillTimerFires
  BY <1>5 DEF KillTimerFires
<1>6. CASE ExitHandlers
  BY <1>6 DEF ExitHandlers, ScheduleRestart, Tunnel!Drop, Tunnel!Close
<1>7. CASE RestartFires
  BY <1>7 DEF RestartFires, Launch, ScheduleRestart
<1>8. CASE StopListener
  BY <1>8 DEF StopListener, Tunnel!Withdraw
<1>9. CASE GraceExpires
  BY <1>9 DEF GraceExpires, Tunnel!Close
<1>10. CASE UNCHANGED listenerVars
  BY <1>10 DEF listenerVars
<1> QED
  BY <1>1, <1>2, <1>3, <1>4, <1>5, <1>6, <1>7, <1>8, <1>9, <1>10 DEF ListenerNext

-------------------------------------------------------------------------------

(***************************************************************************)
(* The listener inside the transport.                                      *)
(***************************************************************************)
\* The manager, its callbacks and the service take no step of the listener that is
\* not one of its own.
LEMMA ListenerMoves == [Next]_vars => [ListenerNext]_listenerVars
<1> SUFFICES ASSUME [Next]_vars PROVE [ListenerNext]_listenerVars
  OBVIOUS
<1> USE DEF ListenerNext
<1>1. CASE HookdeckActs
  BY <1>1 DEF HookdeckActs, RequestArrives, GraceWindowEnds
<1>2. CASE ListenerActs
  BY <1>2 DEF ListenerActs, TunnelConnects, ChildEnds, ReadinessTimeout, KillTimeout,
              Relaunch, StopTimeout
<1>3. CASE ServiceActs
  BY <1>3 DEF ServiceActs, Boot, MarkerCleared, StartTransport, Heartbeat, StopService,
              ShutdownPauseReturns, CloseTunnel, TransportStopped
<1>4. CASE ProcessEnds
  BY <1>4 DEF ProcessEnds
<1>5. CASE ToolActs
  BY <1>5 DEF ToolActs, PauseTool, ToolPauseReturns, ResumeTool, TimerFires, Resume,
              ToolUnpauseReturns, ReasonCleared
<1>6. ASSUME NEW r \in Recoveries, RecoveryActs(r)
      PROVE  UNCHANGED listenerVars
  BY <1>6 DEF RecoveryActs, UnpauseReturns, CatchUp, ReplayReturns, WaitEnds
<1>7. CASE UNCHANGED vars
  BY <1>7 DEF vars
<1> QED
  BY <1>1, <1>2, <1>3, <1>4, <1>5, <1>6, <1>7 DEF Next

LEMMA ListenerSafety == Spec => []ListenerInv
<1>1. Init => ListenerInv
  BY ListenerStarts DEF Init
<1>2. ListenerInv /\ [Next]_vars => ListenerInv'
  BY ListenerMoves, ListenerStep
<1> QED
  BY <1>1, <1>2, PTL DEF Spec

\* Whatever the manager, the timers and the child do and in whatever order, the
\* listener waits for a timer that is set or for a child that will end.
THEOREM ListenerNeverStuck == Spec => []TunnelIsTended
<1>1. ListenerInv => TunnelIsTended
  BY DEF ListenerInv, ListenerTypeOK, TunnelIsTended
<1> QED
  BY <1>1, ListenerSafety, PTL

\* The listener as the manager drives it implements the safety of Tunnel: the
\* tunnel goes up and down while it is wanted, and once closed stays closed.
THEOREM ListenerIsTunnel == Spec => Tunnel!Init /\ [][Tunnel!Next]_(Tunnel!vars)
<1>1. Init => Tunnel!Init
  BY TunnelStarts DEF Init
<1>2. ListenerInv /\ [Next]_vars => [Tunnel!Next]_(Tunnel!vars)
  BY ListenerMoves, TunnelStep
<1> QED
  BY <1>1, <1>2, ListenerSafety, PTL DEF Spec

(***************************************************************************)
(* What the patches of the cursor row do.                                  *)
(***************************************************************************)
LEMMA PauseMarked ==
  ASSUME cursor \in Row, NEW b \in BOOLEAN, NEW why \in Reasons,
         Patch([pausedByUs |-> b, pauseReason |-> why])
  PROVE  /\ cursor' \in Row
         /\ cursor'.pausedByUs = b /\ cursor'.pauseReason = why
         /\ cursor'.lastDisconnectAt = cursor.lastDisconnectAt
         /\ cursor'.lastSeenAt = cursor.lastSeenAt
  BY DEF Patch, Row

LEMMA PauseUnmarked ==
  ASSUME cursor \in Row, Patch(NotPaused)
  PROVE  /\ cursor' \in Row
         /\ cursor'.pausedByUs = FALSE /\ cursor'.pauseReason = cursor.pauseReason
         /\ cursor'.lastDisconnectAt = cursor.lastDisconnectAt
         /\ cursor'.lastSeenAt = cursor.lastSeenAt
  BY DEF Patch, Row, NotPaused

LEMMA ReasonPatched ==
  ASSUME cursor \in Row, NEW why \in Reasons, Patch([pauseReason |-> why])
  PROVE  /\ cursor' \in Row
         /\ cursor'.pausedByUs = cursor.pausedByUs /\ cursor'.pauseReason = why
         /\ cursor'.lastDisconnectAt = cursor.lastDisconnectAt
         /\ cursor'.lastSeenAt = cursor.lastSeenAt
  BY DEF Patch, Row

LEMMA StampPatched ==
  ASSUME cursor \in Row, NEW t \in Times \cup {None}, Patch([lastDisconnectAt |-> t])
  PROVE  /\ cursor' \in Row
         /\ cursor'.lastDisconnectAt = t /\ cursor'.lastSeenAt = cursor.lastSeenAt
         /\ cursor'.pausedByUs = cursor.pausedByUs
         /\ cursor'.pauseReason = cursor.pauseReason
  BY DEF Patch, Row

LEMMA MarkerPatched ==
  ASSUME cursor \in Row, NEW t \in Times \cup {None}, Patch([lastSeenAt |-> t])
  PROVE  /\ cursor' \in Row
         /\ cursor'.lastSeenAt = t /\ cursor'.lastDisconnectAt = cursor.lastDisconnectAt
         /\ cursor'.pausedByUs = cursor.pausedByUs
         /\ cursor'.pauseReason = cursor.pauseReason
  BY DEF Patch, Row

(***************************************************************************)
(* The other compound updates.                                             *)
(***************************************************************************)
Pcs    == {"idle", "unpausing", "catching", "replaying", "waiting"}
Budget == [discards : Nat, lives : Nat, calls : Nat, drops : Nat]

LEMMA RecoveryMoves ==
  ASSUME recovery \in [Recoveries -> Activations], NEW r \in Recoveries, NEW pc \in Pcs,
         recovery' = [recovery EXCEPT ![r].pc = pc]
  PROVE  /\ recovery' \in [Recoveries -> Activations]
         /\ recovery'[r].pc = pc /\ recovery'[r].window = recovery[r].window
         /\ \A s \in Recoveries : s # r => recovery'[s] = recovery[s]
  BY DEF Activations, Pcs

LEMMA RecoveryReplaced ==
  ASSUME recovery \in [Recoveries -> Activations], NEW r \in Recoveries,
         NEW a \in Activations, recovery' = [recovery EXCEPT ![r] = a]
  PROVE  /\ recovery' \in [Recoveries -> Activations]
         /\ recovery'[r] = a
         /\ \A s \in Recoveries : s # r => recovery'[s] = recovery[s]
  OBVIOUS

LEMMA IdleIs ==
  /\ Idle \in Activations /\ Idle = [pc |-> "idle", window |-> {}]
  /\ \A pc \in Pcs, w \in SUBSET Times : [pc |-> pc, window |-> w] \in Activations
  BY DEF Idle, Activations, Pcs

LEMMA Spent ==
  ASSUME left \in Budget, NEW what \in {"discards", "lives", "calls", "drops"}, Spend(what)
  PROVE  /\ left' \in Budget
         /\ left'.discards = left.discards - (IF what = "discards" THEN 1 ELSE 0)
         /\ what = "discards" => left.discards > 0
  BY DEF Spend, Budget

(***************************************************************************)
(* Types.  Time stays in range because each tick spends a discard.         *)
(***************************************************************************)
TypeInv == TypeOK /\ clock + left.discards =< MaxDiscards

LEMMA TypesStart == Init => TypeInv
<1> SUFFICES ASSUME Init PROVE TypeInv
  OBVIOUS
<1> USE DEF Init
<1>1. ListenerTypeOK
  BY ListenerStarts DEF ListenerInv
<1>2. /\ left \in Budget /\ clock \in Times /\ clock + left.discards =< MaxDiscards
  BY TransportAssumption DEF Budget, Times
<1>3. cursor \in Row
  BY TransportAssumption DEF Row, Times, None, Reasons
<1>4. recovery \in [Recoveries -> Activations] /\ call \in ToolCalls
  BY DEF Activations, Idle, IdleCall, ToolCalls, Reasons
<1>5. /\ connection \in {"open", "shutdown", "operator"}
      /\ session \in {"none", "attached", "grace"}
      /\ {held, autoResume, blind} \subseteq BOOLEAN
      /\ phase \in Phases
      /\ replayed \subseteq Times /\ exposed \subseteq Times /\ told \subseteq Recoveries
      /\ mishaps \subseteq {"orphaned", "unpaused", "overtaken", "leftover"}
  BY DEF Phases
<1> QED
  BY <1>1, <1>2, <1>3, <1>4, <1>5 DEF TypeInv, TypeOK, Budget

LEMMA TypesHookdeck ==
  ASSUME TypeInv, ListenerInv', HookdeckActs PROVE TypeInv'
<1> USE DEF TypeInv, TypeOK, Times, ListenerInv, hookdeckVars, toolVars, historyVars, lossVars
<1>1. CASE RequestArrives
  <2>1. CASE UNCHANGED <<clock, left, exposed>> /\ held' = TRUE
    BY <1>1, <2>1 DEF RequestArrives
  <2>2. CASE Spend("discards") /\ clock' = clock + 1 /\ UNCHANGED held
              /\ exposed' = exposed \cup IF Replaying \/ blind THEN {clock'} ELSE {}
    <3>1. /\ left' \in Budget /\ left'.discards = left.discards - 1 /\ left.discards > 0
          /\ left.discards \in Nat
      BY <2>2, Spent DEF Budget
    <3>2. clock' \in Times /\ clock' + left'.discards =< MaxDiscards
      BY <2>2, <3>1, TransportAssumption
    <3> QED
      BY <1>1, <2>2, <3>1, <3>2 DEF RequestArrives, Budget
  <2> QED
    BY <1>1, <2>1, <2>2 DEF RequestArrives
<1>2. CASE GraceWindowEnds
  BY <1>2 DEF GraceWindowEnds
<1> QED
  BY <1>1, <1>2 DEF HookdeckActs

LEMMA TypesListener ==
  ASSUME TypeInv, ListenerInv', ListenerActs PROVE TypeInv'
<1> USE DEF TypeInv, TypeOK, ListenerInv, hookdeckVars, hostVars, toolVars, historyVars, lossVars
<1>1. ASSUME NEW r \in Recoveries, BeginRecovery(r)
      PROVE  recovery' \in [Recoveries -> Activations] /\ told' \subseteq Recoveries
  <2>1. PICK pc \in Pcs : recovery' = [recovery EXCEPT ![r].pc = pc]
    BY <1>1 DEF BeginRecovery, Pcs
  <2> QED
    BY <1>1, <2>1, RecoveryMoves DEF BeginRecovery
<1>2. ASSUME NEW r \in Recoveries, TunnelConnects(r) PROVE TypeInv'
  BY <1>1, <1>2 DEF TunnelConnects
<1>3. CASE ChildEnds
  <2>1. left' \in Budget /\ left'.discards = left.discards
    BY <1>3, Spent DEF ChildEnds, Budget
  <2>2. cursor' \in Row
    BY <1>3, StampPatched DEF ChildEnds, RecordDisconnect
  <2>3. session' \in {"none", "attached", "grace"}
    BY <1>3 DEF ChildEnds, SessionAfter
  <2> QED
    BY <1>3, <2>1, <2>2, <2>3 DEF ChildEnds, Budget
<1>4. CASE ReadinessTimeout
  <2>1. left' \in Budget /\ left'.discards = left.discards
    BY <1>4, Spent DEF ReadinessTimeout, Budget
  <2>2. told' \subseteq Recoveries
    BY <1>4 DEF ReadinessTimeout, Tell
  <2> QED
    BY <1>4, <2>1, <2>2 DEF ReadinessTimeout, Budget
<1>5. CASE KillTimeout \/ Relaunch \/ StopTimeout
  BY <1>5 DEF KillTimeout, Relaunch, StopTimeout
<1> QED
  BY <1>2, <1>3, <1>4, <1>5 DEF ListenerActs

LEMMA TypesRecovery ==
  ASSUME TypeInv, ListenerInv', NEW r \in Recoveries, RecoveryActs(r) PROVE TypeInv'
<1> USE DEF TypeInv, TypeOK, ListenerInv, hookdeckVars, toolVars, historyVars, lossVars
<1>1. CASE UnpauseReturns(r)
  <2>1. recovery' \in [Recoveries -> Activations]
    BY <1>1, RecoveryMoves DEF UnpauseReturns, Pcs
  <2>2. cursor' \in Row
    BY <1>1, PauseUnmarked DEF UnpauseReturns, UnpauseRefused
  <2>3. /\ connection' \in {"open", "shutdown", "operator"} /\ {held'} \subseteq BOOLEAN
        /\ mishaps' \subseteq {"orphaned", "unpaused", "overtaken", "leftover"}
    BY <1>1 DEF UnpauseReturns, Lift, Overtaking, UnpauseRefused
  <2> QED
    BY <1>1, <2>1, <2>2, <2>3 DEF UnpauseReturns
<1>2. CASE CatchUp(r)
  <2>1. PICK a \in Activations : recovery' = [recovery EXCEPT ![r] = a]
    <3>1. CASE recovery' = [recovery EXCEPT ![r] = Idle]
      BY <3>1, IdleIs
    <3>2. CASE cursor.lastDisconnectAt # None /\ recovery' = [recovery EXCEPT ![r] =
             [pc |-> "replaying", window |-> cursor.lastDisconnectAt + 1 .. clock]]
      <4>1. cursor.lastDisconnectAt + 1 .. clock \in SUBSET Times
        BY <3>2, TransportAssumption DEF Row, Times, None
      <4> QED
        BY <3>2, <4>1, IdleIs DEF Pcs
    <3> QED
      BY <1>2, <3>1, <3>2 DEF CatchUp
  <2>2. recovery' \in [Recoveries -> Activations]
    BY <2>1, RecoveryReplaced
  <2> QED
    BY <1>2, <2>2 DEF CatchUp
<1>3. CASE ReplayReturns(r)
  <2>1. PICK a \in Activations : recovery' = [recovery EXCEPT ![r] = a]
    BY <1>3, IdleIs DEF ReplayReturns, Pcs
  <2>2. recovery' \in [Recoveries -> Activations]
    BY <2>1, RecoveryReplaced
  <2>3. recovery[r].window \subseteq Times
    BY DEF Activations
  <2>4. CASE UNCHANGED <<clock, left, exposed>> /\ replayed' = replayed \cup recovery[r].window
               /\ held' = (held \/ (connection # "open" /\ recovery[r].window # {}))
    BY <1>3, <2>2, <2>3, <2>4 DEF ReplayReturns
  <2>5. CASE Spend("discards") /\ clock' = clock + 1 /\ UNCHANGED held
               /\ replayed' = replayed \cup recovery[r].window
               /\ exposed' = exposed \cup {clock'}
    <3>1. /\ left' \in Budget /\ left'.discards = left.discards - 1 /\ left.discards > 0
          /\ left.discards \in Nat
      BY <2>5, Spent DEF Budget
    <3>2. clock' \in Times /\ clock' + left'.discards =< MaxDiscards
      BY <2>5, <3>1, TransportAssumption DEF Times
    <3> QED
      BY <1>3, <2>2, <2>3, <2>5, <3>1, <3>2 DEF ReplayReturns, Budget
  <2>6. CASE UNCHANGED <<held, clock, left, lossVars>>
    BY <1>3, <2>2, <2>6 DEF ReplayReturns
  <2> QED
    BY <1>3, <2>4, <2>5, <2>6 DEF ReplayReturns
<1>4. CASE WaitEnds(r)
  <2>1. recovery' \in [Recoveries -> Activations]
    BY <1>4, IdleIs, RecoveryReplaced DEF WaitEnds
  <2>2. cursor' \in Row
    BY <1>4, StampPatched DEF WaitEnds
  <2> QED
    BY <1>4, <2>1, <2>2 DEF WaitEnds
<1> QED
  BY <1>1, <1>2, <1>3, <1>4 DEF RecoveryActs

LEMMA TypesService ==
  ASSUME TypeInv, ListenerInv', ServiceActs PROVE TypeInv'
<1> USE DEF TypeInv, TypeOK, ListenerInv, hookdeckVars, toolVars, historyVars, lossVars
<1>1. CASE Boot
  <2>1. left' \in Budget /\ left'.discards = left.discards
    BY <1>1, Spent DEF Boot, Budget
  <2>2. cursor' \in Row
    BY <1>1, StampPatched DEF Boot, Row
  <2>3. phase' \in Phases /\ mishaps' \subseteq mishaps
    BY <1>1 DEF Boot, Phases
  <2> QED
    BY <1>1, <2>1, <2>2, <2>3 DEF Boot, Budget
<1>2. CASE MarkerCleared
  <2>1. cursor' \in Row /\ phase' \in Phases
    BY <1>2, MarkerPatched DEF MarkerCleared, Phases
  <2> QED
    BY <1>2, <2>1 DEF MarkerCleared
<1>3. CASE StartTransport
  <2>1. cursor' \in Row /\ phase' \in Phases
    BY <1>3, MarkerPatched DEF StartTransport, Phases
  <2> QED
    BY <1>3, <2>1 DEF StartTransport
<1>4. CASE Heartbeat
  <2>1. cursor' \in Row
    BY <1>4, MarkerPatched DEF Heartbeat
  <2> QED
    BY <1>4, <2>1 DEF Heartbeat
<1>5. CASE StopService
  <2>1. cursor' \in Row
    BY <1>5, PauseMarked DEF StopService, Reasons
  <2>2. /\ phase' \in Phases /\ autoResume' = FALSE
        /\ mishaps' \subseteq {"orphaned", "unpaused", "overtaken", "leftover"}
    BY <1>5 DEF StopService, Phases
  <2> QED
    BY <1>5, <2>1, <2>2 DEF StopService
<1>6. CASE ShutdownPauseReturns
  <2>1. cursor' \in Row
    BY <1>6, PauseUnmarked DEF ShutdownPauseReturns
  <2>2. /\ phase' \in Phases /\ connection' \in {"open", "shutdown", "operator"}
        /\ mishaps' \subseteq {"orphaned", "unpaused", "overtaken", "leftover"}
    BY <1>6 DEF ShutdownPauseReturns, Phases
  <2> QED
    BY <1>6, <2>1, <2>2 DEF ShutdownPauseReturns
<1>7. CASE CloseTunnel
  BY <1>7 DEF CloseTunnel, Tell, Phases
<1>8. CASE TransportStopped
  <2>1. cursor' \in Row /\ phase' \in Phases
    BY <1>8, MarkerPatched DEF TransportStopped, Phases
  <2> QED
    BY <1>8, <2>1 DEF TransportStopped
<1> QED
  BY <1>1, <1>2, <1>3, <1>4, <1>5, <1>6, <1>7, <1>8 DEF ServiceActs

LEMMA TypesEnd ==
  ASSUME TypeInv, ListenerInv', ProcessEnds PROVE TypeInv'
<1> USE DEF TypeInv, TypeOK, ListenerInv, ProcessEnds, lossVars
<1>1. recovery' \in [Recoveries -> Activations] /\ call' \in ToolCalls
  BY IdleIs DEF IdleCall, ToolCalls, Reasons
<1>2. /\ phase' \in Phases /\ session' \in {"none", "attached", "grace"}
      /\ mishaps' \subseteq {"orphaned", "unpaused", "overtaken", "leftover"}
  BY DEF Phases, SessionAfter
<1> QED
  BY <1>1, <1>2

LEMMA TypesTool ==
  ASSUME TypeInv, ListenerInv', ToolActs PROVE TypeInv'
<1> USE DEF TypeInv, TypeOK, ListenerInv, hookdeckVars, toolVars, historyVars, lossVars
<1>1. IdleCall \in ToolCalls
  BY DEF IdleCall, ToolCalls, Reasons
<1>2. CASE PauseTool
  <2>1. left' \in Budget /\ left'.discards = left.discards
    BY <1>2, Spent DEF PauseTool, Budget
  <2>2. cursor' \in Row
    BY <1>2, PauseMarked DEF PauseTool, Reasons
  <2>3. call' \in ToolCalls
    BY <1>2 DEF PauseTool, ToolCalls, Row
  <2>4. mishaps' \subseteq {"orphaned", "unpaused", "overtaken", "leftover"}
    BY <1>2 DEF PauseTool
  <2> QED
    BY <1>2, <2>1, <2>2, <2>3, <2>4 DEF PauseTool, Budget
<1>3. CASE ToolPauseReturns
  <2>1. cursor' \in Row
    BY <1>3, PauseMarked DEF ToolPauseReturns, Restored, ToolCalls, Row
  <2>2. /\ connection' \in {"open", "shutdown", "operator"}
        /\ mishaps' \subseteq {"orphaned", "unpaused", "overtaken", "leftover"}
    BY <1>3 DEF ToolPauseReturns
  <2>3. {autoResume'} \subseteq BOOLEAN
    BY <1>3 DEF ToolPauseReturns
  <2> QED
    BY <1>1, <1>3, <2>1, <2>2, <2>3 DEF ToolPauseReturns
<1>4. CASE Resume /\ left' \in Budget /\ left'.discards = left.discards
  <2>1. [IdleCall EXCEPT !.pc = "resuming"] \in ToolCalls
    BY <1>1 DEF ToolCalls
  <2> QED
    BY <1>4, <2>1 DEF Resume, Budget
<1>5. CASE ResumeTool
  BY <1>4, <1>5, Spent DEF ResumeTool, Budget
<1>6. CASE TimerFires
  BY <1>4, <1>6 DEF TimerFires, Budget
<1>7. CASE ToolUnpauseReturns
  <2>1. cursor' \in Row
    BY <1>7, PauseUnmarked DEF ToolUnpauseReturns, UnpauseRefused
  <2>2. [call EXCEPT !.pc = "clearing"] \in ToolCalls
    BY DEF ToolCalls
  <2>3. /\ connection' \in {"open", "shutdown", "operator"} /\ {held'} \subseteq BOOLEAN
        /\ mishaps' \subseteq {"orphaned", "unpaused", "overtaken", "leftover"}
    BY <1>7 DEF ToolUnpauseReturns, Lift, UnpauseRefused
  <2>4. call' \in ToolCalls
    BY <1>1, <1>7, <2>2 DEF ToolUnpauseReturns
  <2> QED
    BY <1>7, <2>1, <2>3, <2>4 DEF ToolUnpauseReturns
<1>8. CASE ReasonCleared
  <2>1. cursor' \in Row
    BY <1>8, ReasonPatched DEF ReasonCleared, Reasons
  <2>2. mishaps' \subseteq mishaps
    BY <1>8 DEF ReasonCleared
  <2> QED
    BY <1>1, <1>8, <2>1, <2>2 DEF ReasonCleared
<1> QED
  BY <1>2, <1>3, <1>5, <1>6, <1>7, <1>8 DEF ToolActs

LEMMA TypesStep == TypeInv /\ ListenerInv' /\ [Next]_vars => TypeInv'
<1> SUFFICES ASSUME TypeInv, ListenerInv', [Next]_vars PROVE TypeInv'
  OBVIOUS
<1>1. CASE UNCHANGED vars
  BY <1>1 DEF vars, TypeInv, TypeOK, ListenerInv, hookdeckVars, toolVars, historyVars, lossVars
<1> QED
  BY <1>1, TypesHookdeck, TypesListener, TypesRecovery, TypesService, TypesEnd, TypesTool
     DEF Next

LEMMA TypeSafety == Spec => [](TypeInv /\ ListenerInv)
<1>1. TypeInv /\ ListenerInv' /\ [Next]_vars => TypeInv'
  BY TypesStep
<1> QED
  BY <1>1, TypesStart, ListenerSafety, PTL DEF Spec

\* The transport keeps its types, and the requests discarded stay within the bound.
THEOREM TransportTypes == Spec => []TypeOK
<1>1. TypeInv => TypeOK
  BY DEF TypeInv
<1> QED
  BY <1>1, TypeSafety, PTL

(***************************************************************************)
(* Nothing but the end of a replay forgets an outage.                      *)
(***************************************************************************)
Unreplayed == (1 .. clock) \ (replayed \cup exposed)
Early == phase \in {"down", "adopting", "starting"}

\* The property alone is not inductive.  The end of a wait erases the stamp, which is
\* harmless only because a replay was accepted that covers every request the stamp
\* stood for; an adopted heartbeat replaces it only because the heartbeat is older
\* than anything lost since; and a tunnel that is not attached has its stamp, but
\* for a process that died before it could write one.
StampBeforeLoss ==
  IF cursor.lastDisconnectAt # None
    THEN \A t \in Unreplayed : cursor.lastDisconnectAt < t
    ELSE /\ \A t \in Unreplayed : cursor.lastSeenAt < t
         /\ phase # "down" => Unreplayed = {}

ReplayCovers ==
  \A r \in Recoveries :
    /\ recovery[r].pc = "waiting" => Unreplayed = {}
    /\ recovery[r].pc = "replaying" => Unreplayed \subseteq recovery[r].window

OutageStamped ==
  session # "attached" /\ ~blind /\ cursor.lastDisconnectAt = None =>
    phase = "down" /\ cursor.lastSeenAt # None

StampsPast ==
  /\ cursor.lastDisconnectAt # None => cursor.lastDisconnectAt =< clock
  /\ cursor.lastSeenAt # None => cursor.lastSeenAt =< clock

SessionHasChild ==
  /\ state = "connected" => session = "attached"
  /\ session = "attached" => child # "none"

ServiceOrder ==
  /\ Early => state = "absent" /\ \A r \in Recoveries : recovery[r].pc = "idle"
  /\ phase = "adopting" => cursor.lastDisconnectAt # None
  /\ state # "absent" /\ phase # "stopped" => cursor.lastSeenAt # None

OutageInv ==
  /\ StampBeforeLoss /\ ReplayCovers /\ OutageStamped
  /\ StampsPast /\ SessionHasChild /\ ServiceOrder

Inv == TypeInv /\ ListenerInv

\* What a step leaves alone when it touches neither time nor a stamp.
StampsKept ==
  /\ UNCHANGED <<clock, lossVars>>
  /\ cursor'.lastDisconnectAt = cursor.lastDisconnectAt
  /\ cursor'.lastSeenAt = cursor.lastSeenAt

LEMMA OutageFrame ==
  ASSUME OutageInv, StampsKept, UNCHANGED <<session, phase, recovery, blind>>,
         child' = "none" => child = "none",
         state' = "connected" => state = "connected",
         state' = "absent" <=> state = "absent"
  PROVE  OutageInv'
  BY DEF OutageInv, StampBeforeLoss, ReplayCovers, OutageStamped, StampsPast,
         SessionHasChild, ServiceOrder, Early, Unreplayed, StampsKept, lossVars

LEMMA OutageStarts == Init => OutageInv
  BY TransportAssumption DEF Init, ListenerInit, Idle, None, Times, OutageInv, StampBeforeLoss, ReplayCovers,
         OutageStamped, StampsPast, SessionHasChild, ServiceOrder, Early, Unreplayed

LEMMA OutageHookdeck ==
  ASSUME Inv, OutageInv, HookdeckActs PROVE OutageInv'
<1> USE DEF Inv, TypeInv, TypeOK, OutageInv, hookdeckVars, toolVars, historyVars, lossVars,
            StampsKept
<1>1. CASE RequestArrives
  <2>1. CASE UNCHANGED <<clock, left, exposed>>
    BY <1>1, <2>1, OutageFrame DEF RequestArrives, listenerVars
  <2>2. CASE connection = "open" /\ session = "none" /\ clock' = clock + 1
             /\ exposed' = exposed \cup IF Replaying \/ blind THEN {clock'} ELSE {}
    <3>1. UNCHANGED <<state, child, session, phase, cursor, recovery, replayed, blind>>
      BY <1>1 DEF RequestArrives, listenerVars
    <3>2. /\ clock \in Nat /\ clock' = clock + 1
          /\ cursor.lastDisconnectAt \in Nat /\ cursor.lastSeenAt \in Nat
      BY <2>2, TransportAssumption DEF Times, Row, None
    <3>3. CASE Replaying \/ blind
      <4>1. Unreplayed' = Unreplayed
        BY <2>2, <3>1, <3>2, <3>3 DEF Unreplayed
      <4> QED
        BY <3>1, <3>2, <4>1 DEF StampBeforeLoss, ReplayCovers, OutageStamped,
           StampsPast, SessionHasChild, ServiceOrder, Early
    <3>4. CASE ~Replaying /\ ~blind
      <4>1. Unreplayed' \subseteq Unreplayed \cup {clock + 1}
        BY <2>2, <3>1, <3>2, <3>4 DEF Unreplayed
      <4>2. cursor.lastDisconnectAt = None => phase = "down" /\ cursor.lastSeenAt # None
        BY <2>2, <3>4 DEF OutageStamped
      <4>3. StampBeforeLoss'
        BY <3>1, <3>2, <4>1, <4>2 DEF StampBeforeLoss, StampsPast
      <4>4. ReplayCovers'
        BY <3>1, <3>4 DEF ReplayCovers, Replaying
      <4> QED
        BY <3>1, <3>2, <4>3, <4>4
           DEF OutageStamped, StampsPast, SessionHasChild, ServiceOrder, Early
    <3> QED
      BY <3>3, <3>4
  <2> QED
    BY <1>1, <2>1, <2>2 DEF RequestArrives
<1>2. CASE GraceWindowEnds
  BY <1>2 DEF GraceWindowEnds, listenerVars, StampBeforeLoss, ReplayCovers, OutageStamped,
     StampsPast, SessionHasChild, ServiceOrder, Early, Unreplayed
<1> QED
  BY <1>1, <1>2 DEF HookdeckActs

LEMMA OutageListener ==
  ASSUME Inv, Inv', OutageInv, ListenerActs PROVE OutageInv'
<1> USE DEF Inv, TypeInv, TypeOK, hookdeckVars, hostVars, toolVars, historyVars, lossVars, StampsKept
<1>1. ASSUME NEW r \in Recoveries, TunnelConnects(r) PROVE OutageInv'
  <2>1. PICK pc \in {"unpausing", "catching"} :
          recovery' = [recovery EXCEPT ![r].pc = pc]
    BY <1>1 DEF TunnelConnects, BeginRecovery
  <2>2. \A s \in Recoveries :
          recovery'[s] = recovery[s] \/ recovery'[s].pc \in {"unpausing", "catching"}
    BY <2>1, RecoveryMoves DEF Pcs
  <2>3. /\ state = "starting" /\ child # "none" /\ child' = child
        /\ session' = "attached" /\ UNCHANGED <<phase, cursor, clock, lossVars>>
    BY <1>1 DEF TunnelConnects, Banner
  <2>4. ~Early /\ state' # "absent"
    BY <1>1, <2>3 DEF OutageInv, ServiceOrder, TunnelConnects, Banner
  <2> QED
    BY <2>2, <2>3, <2>4 DEF OutageInv, StampBeforeLoss, ReplayCovers, OutageStamped,
       StampsPast, SessionHasChild, ServiceOrder, Early, Unreplayed
<1>2. CASE ChildEnds
  <2>1. /\ child # "none" /\ state' \in {"stopped", "restarting"} /\ blind' = FALSE
        /\ session' # "attached" /\ UNCHANGED <<clock, phase, recovery, lossVars>>
    BY <1>2 DEF ChildEnds, ExitHandlers, ScheduleRestart, SessionAfter
  <2>2. state # "absent" /\ ~Early
    BY <2>1 DEF ListenerInv, OutageInv, ServiceOrder
  <2>3. /\ cursor'.lastSeenAt = cursor.lastSeenAt
        /\ cursor'.lastDisconnectAt = IF cursor.lastDisconnectAt = None THEN clock
                                      ELSE cursor.lastDisconnectAt
    BY <1>2, StampPatched DEF ChildEnds, RecordDisconnect
  <2>4. clock # None /\ clock =< clock
    BY TransportAssumption DEF Times, None
  <2> QED
    BY <2>1, <2>2, <2>3, <2>4 DEF OutageInv, StampBeforeLoss, ReplayCovers, OutageStamped,
       StampsPast, SessionHasChild, ServiceOrder, Early, Unreplayed
<1>3. CASE ReadinessTimeout
  BY <1>3, OutageFrame DEF ReadinessTimeout, ReadinessExpires, Signalled
<1>4. CASE KillTimeout
  BY <1>4, OutageFrame DEF KillTimeout, KillTimerFires
<1>5. CASE Relaunch
  <2>1. state = "restarting" /\ child = "none" /\ state' \in {"starting", "restarting"}
    BY <1>5 DEF Relaunch, RestartFires, Launch, ScheduleRestart, ListenerInv
  <2> QED
    BY <1>5, <2>1, OutageFrame DEF Relaunch
<1>6. CASE StopTimeout
  BY <1>6, OutageFrame DEF StopTimeout, GraceExpires, ListenerInv
<1> QED
  BY <1>1, <1>2, <1>3, <1>4, <1>5, <1>6 DEF ListenerActs

LEMMA OutageRecovery ==
  ASSUME Inv, OutageInv, NEW r \in Recoveries, RecoveryActs(r) PROVE OutageInv'
<1> USE DEF Inv, TypeInv, TypeOK, hookdeckVars, toolVars, historyVars, lossVars, StampsKept
<1>1. recovery[r].pc # "idle" => ~Early
  BY DEF OutageInv, ServiceOrder
<1>2. CASE UnpauseReturns(r)
  <2>1. /\ recovery[r].pc = "unpausing" /\ recovery'[r].pc = "catching"
        /\ \A s \in Recoveries : s # r => recovery'[s] = recovery[s]
    BY <1>2, RecoveryMoves DEF UnpauseReturns, Pcs
  <2>2. /\ cursor'.lastDisconnectAt = cursor.lastDisconnectAt
        /\ cursor'.lastSeenAt = cursor.lastSeenAt
    BY <1>2, PauseUnmarked DEF UnpauseReturns, UnpauseRefused
  <2>3. UNCHANGED <<state, child, session, clock, phase, lossVars, blind>>
    BY <1>2 DEF UnpauseReturns, listenerVars
  <2> QED
    BY <1>1, <2>1, <2>2, <2>3 DEF OutageInv, StampBeforeLoss, ReplayCovers, OutageStamped,
       StampsPast, SessionHasChild, ServiceOrder, Early, Unreplayed
<1>3. CASE CatchUp(r)
  <2>1. /\ recovery[r].pc = "catching"
        /\ UNCHANGED <<state, child, session, clock, phase, cursor, lossVars, blind>>
    BY <1>3 DEF CatchUp, listenerVars
  <2>2. /\ \A s \in Recoveries : s # r => recovery'[s] = recovery[s]
        /\ recovery'[r].pc \in {"idle", "replaying"}
        /\ recovery'[r].pc = "replaying" =>
             /\ cursor.lastDisconnectAt # None
             /\ recovery'[r].window = cursor.lastDisconnectAt + 1 .. clock
    <3>1. CASE recovery' = [recovery EXCEPT ![r] = Idle]
      BY <3>1, IdleIs
    <3>2. CASE cursor.lastDisconnectAt # None /\ recovery' = [recovery EXCEPT ![r] =
             [pc |-> "replaying", window |-> cursor.lastDisconnectAt + 1 .. clock]]
      BY <3>2
    <3> QED
      BY <1>3, <3>1, <3>2 DEF CatchUp
  <2>3. cursor.lastDisconnectAt # None =>
          Unreplayed \subseteq cursor.lastDisconnectAt + 1 .. clock
    BY TransportAssumption
       DEF OutageInv, StampBeforeLoss, Unreplayed, Row, Times, None
  <2>4. ReplayCovers'
    BY <2>1, <2>2, <2>3 DEF OutageInv, ReplayCovers, Unreplayed
  <2> QED
    BY <1>1, <2>1, <2>2, <2>4 DEF OutageInv, StampBeforeLoss, OutageStamped,
       StampsPast, SessionHasChild, ServiceOrder, Early, Unreplayed
<1>4. CASE ReplayReturns(r)
  <2>1. /\ recovery[r].pc = "replaying"
        /\ UNCHANGED <<state, child, session, phase, cursor, blind>>
    BY <1>4 DEF ReplayReturns, listenerVars
  <2>2. /\ \A s \in Recoveries : s # r => recovery'[s] = recovery[s]
        /\ recovery'[r].pc \in {"idle", "waiting"}
    <3>1. PICK pc \in {"idle", "waiting"} :
            recovery' = [recovery EXCEPT ![r] = [pc |-> pc, window |-> {}]]
      BY <1>4, IdleIs DEF ReplayReturns
    <3> QED
      BY <3>1
  <2>3. Unreplayed \subseteq recovery[r].window
    BY <2>1 DEF OutageInv, ReplayCovers
  <2>4. /\ clock \in Nat /\ clock' \in {clock, clock + 1}
        /\ \/ recovery'[r].pc = "idle" /\ Unreplayed' = Unreplayed
           \/ Unreplayed' = {}
    <3>1. clock \in Nat
      BY TransportAssumption DEF Times
    <3>2. CASE UNCHANGED <<clock, exposed>> /\ replayed' = replayed \cup recovery[r].window
      BY <2>3, <3>1, <3>2 DEF Unreplayed
    <3>3. CASE clock' = clock + 1 /\ replayed' = replayed \cup recovery[r].window
               /\ exposed' = exposed \cup {clock'}
      BY <2>3, <3>1, <3>3 DEF Unreplayed
    <3>4. CASE recovery' = [recovery EXCEPT ![r] = Idle] /\ UNCHANGED <<clock, lossVars>>
      BY <3>1, <3>4, IdleIs DEF Unreplayed
    <3> QED
      BY <1>4, <3>2, <3>3, <3>4 DEF ReplayReturns
  <2>5. StampBeforeLoss' /\ ReplayCovers'
    BY <2>1, <2>2, <2>4 DEF OutageInv, StampBeforeLoss, ReplayCovers
  <2>6. StampsPast'
    BY <2>1, <2>4, TransportAssumption DEF OutageInv, StampsPast, Row, Times, None
  <2> QED
    BY <1>1, <2>1, <2>2, <2>5, <2>6 DEF OutageInv, OutageStamped,
       SessionHasChild, ServiceOrder, Early
<1>5. CASE WaitEnds(r)
  <2>1. /\ recovery[r].pc = "waiting" /\ blind' = (state # "connected")
        /\ UNCHANGED <<state, child, session, clock, phase, lossVars>>
    BY <1>5 DEF WaitEnds, listenerVars
  <2>2. /\ recovery'[r].pc = "idle"
        /\ \A s \in Recoveries : s # r => recovery'[s] = recovery[s]
    BY <1>5, IdleIs, RecoveryReplaced DEF WaitEnds
  <2>3. cursor'.lastDisconnectAt = None /\ cursor'.lastSeenAt = cursor.lastSeenAt
    BY <1>5, StampPatched DEF WaitEnds
  <2>4. Unreplayed = {} /\ Unreplayed' = Unreplayed
    BY <2>1 DEF OutageInv, ReplayCovers, Unreplayed
  <2>5. StampBeforeLoss' /\ ReplayCovers'
    BY <2>1, <2>2, <2>3, <2>4 DEF OutageInv, StampBeforeLoss, ReplayCovers
  <2>6. OutageStamped'
    BY <2>1 DEF OutageInv, OutageStamped, SessionHasChild
  <2>7. ~Early
    BY <1>1, <2>1
  <2> QED
    BY <2>1, <2>2, <2>3, <2>5, <2>6, <2>7 DEF OutageInv,
       StampsPast, SessionHasChild, ServiceOrder, Early
<1> QED
  BY <1>2, <1>3, <1>4, <1>5 DEF RecoveryActs

LEMMA OutageService ==
  ASSUME Inv, Inv', OutageInv, ServiceActs PROVE OutageInv'
<1> USE DEF Inv, TypeInv, TypeOK, hookdeckVars, toolVars, historyVars, lossVars, StampsKept
<1>1. CASE Boot
  <2>1. /\ phase = "down" /\ phase' \in {"adopting", "starting"} /\ Early
        /\ UNCHANGED <<state, child, session, clock, recovery, lossVars, blind>>
    BY <1>1 DEF Boot, listenerVars, Early
  <2>2. /\ cursor'.lastSeenAt = cursor.lastSeenAt
        /\ cursor'.lastDisconnectAt =
             IF cursor.lastDisconnectAt = None THEN cursor.lastSeenAt
                                               ELSE cursor.lastDisconnectAt
        /\ phase' = "adopting" => cursor'.lastDisconnectAt # None
    BY <1>1, StampPatched DEF Boot, Row
  <2>3. \A t \in Unreplayed : ~(None < t)
    BY TransportAssumption DEF Unreplayed, Times, None
  <2>4. StampBeforeLoss'
    <3>1. Unreplayed' = Unreplayed
      BY <2>1 DEF Unreplayed
    <3>2. CASE cursor.lastDisconnectAt # None
      BY <2>1, <2>2, <3>1, <3>2 DEF OutageInv, StampBeforeLoss
    <3>3. CASE cursor.lastDisconnectAt = None /\ cursor.lastSeenAt # None
      BY <2>1, <2>2, <3>1, <3>3 DEF OutageInv, StampBeforeLoss
    <3>4. CASE cursor.lastDisconnectAt = None /\ cursor.lastSeenAt = None
      <4>1. Unreplayed = {}
        BY <2>3, <3>4 DEF OutageInv, StampBeforeLoss
      <4> QED
        BY <2>1, <2>2, <3>1, <4>1 DEF StampBeforeLoss
    <3> QED
      BY <3>2, <3>3, <3>4
  <2>5. OutageStamped'
    BY <2>1, <2>2 DEF OutageInv, OutageStamped, SessionHasChild, ServiceOrder, ListenerInv
  <2> QED
    BY <2>1, <2>2, <2>4, <2>5 DEF OutageInv, ReplayCovers, StampsPast, SessionHasChild,
       ServiceOrder, Early, Unreplayed
<1>2. CASE MarkerCleared
  <2>1. /\ phase = "adopting" /\ phase' = "starting" /\ cursor.lastDisconnectAt # None
        /\ UNCHANGED <<state, child, session, clock, recovery, lossVars, blind>>
    BY <1>2 DEF MarkerCleared, listenerVars, OutageInv, ServiceOrder
  <2>2. cursor'.lastDisconnectAt = cursor.lastDisconnectAt /\ cursor'.lastSeenAt = None
    BY <1>2, MarkerPatched DEF MarkerCleared
  <2> QED
    BY <2>1, <2>2 DEF OutageInv, StampBeforeLoss, ReplayCovers, OutageStamped,
       StampsPast, SessionHasChild, ServiceOrder, Early, Unreplayed
<1>3. CASE StartTransport
  <2>1. /\ phase = "starting" /\ phase' = "serving" /\ state = "absent" /\ child = "none"
        /\ UNCHANGED <<session, clock, recovery, lossVars, blind>>
    BY <1>3 DEF StartTransport, OutageInv, ServiceOrder, Early, ListenerInv
  <2>2. clock # None /\ clock =< clock
    BY TransportAssumption DEF Times, None
  <2>3. /\ cursor'.lastDisconnectAt = cursor.lastDisconnectAt
        /\ state' # "connected"
        /\ cursor'.lastSeenAt \in {clock, cursor.lastSeenAt}
        /\ state' # "absent" => cursor'.lastSeenAt = clock
    BY <1>3, <2>1, MarkerPatched
       DEF StartTransport, listenerVars, StartListener, Launch, ScheduleRestart
  <2>4. session # "attached"
    BY <2>1 DEF OutageInv, SessionHasChild
  <2> QED
    BY <2>1, <2>2, <2>3, <2>4 DEF OutageInv, StampBeforeLoss, ReplayCovers, OutageStamped,
       StampsPast, SessionHasChild, ServiceOrder, Early, Unreplayed
<1>4. CASE Heartbeat
  <2>1. /\ phase = "serving"
        /\ UNCHANGED <<state, child, session, clock, phase, recovery, lossVars, blind>>
    BY <1>4 DEF Heartbeat, listenerVars
  <2>2. cursor'.lastDisconnectAt = cursor.lastDisconnectAt /\ cursor'.lastSeenAt = clock
    BY <1>4, MarkerPatched DEF Heartbeat
  <2>3. clock # None /\ clock =< clock
    BY TransportAssumption DEF Times, None
  <2> QED
    BY <2>1, <2>2, <2>3 DEF OutageInv, StampBeforeLoss, ReplayCovers, OutageStamped,
       StampsPast, SessionHasChild, ServiceOrder, Early, Unreplayed
<1>5. ASSUME StampsKept, UNCHANGED <<state, child, session, recovery, blind>>,
             phase \in {"serving", "pausing"}, phase' \in {"pausing", "closing"}
      PROVE  OutageInv'
  BY <1>5 DEF OutageInv, StampBeforeLoss, ReplayCovers, OutageStamped,
     StampsPast, SessionHasChild, ServiceOrder, Early, Unreplayed
<1>6. CASE StopService
  <2>1. /\ cursor'.lastDisconnectAt = cursor.lastDisconnectAt
        /\ cursor'.lastSeenAt = cursor.lastSeenAt
    BY <1>6, PauseMarked DEF StopService, Reasons
  <2> QED
    BY <1>5, <1>6, <2>1 DEF StopService, listenerVars
<1>7. CASE ShutdownPauseReturns
  <2>1. /\ cursor'.lastDisconnectAt = cursor.lastDisconnectAt
        /\ cursor'.lastSeenAt = cursor.lastSeenAt
    BY <1>7, PauseUnmarked DEF ShutdownPauseReturns
  <2> QED
    BY <1>5, <1>7, <2>1 DEF ShutdownPauseReturns, listenerVars
<1>8. CASE CloseTunnel
  <2>1. /\ phase = "closing" /\ phase' = "stopping"
        /\ UNCHANGED <<session, clock, cursor, recovery, lossVars, blind>>
    BY <1>8 DEF CloseTunnel
  <2>2. /\ child' = "none" => child = "none"
        /\ state' = "connected" => state = "connected"
        /\ state' # "absent" => state # "absent"
    BY <1>8 DEF CloseTunnel, StopListener, Signalled, listenerVars
  <2> QED
    BY <2>1, <2>2 DEF OutageInv, StampBeforeLoss, ReplayCovers, OutageStamped,
       StampsPast, SessionHasChild, ServiceOrder, Early, Unreplayed
<1>9. CASE TransportStopped
  <2>1. /\ phase = "stopping" /\ phase' = "stopped"
        /\ UNCHANGED <<state, child, session, clock, recovery, lossVars, blind>>
    BY <1>9 DEF TransportStopped, listenerVars
  <2>2. cursor'.lastDisconnectAt = cursor.lastDisconnectAt /\ cursor'.lastSeenAt = None
    BY <1>9, MarkerPatched DEF TransportStopped
  <2> QED
    BY <2>1, <2>2 DEF OutageInv, StampBeforeLoss, ReplayCovers, OutageStamped,
       StampsPast, SessionHasChild, ServiceOrder, Early, Unreplayed
<1> QED
  BY <1>1, <1>2, <1>3, <1>4, <1>6, <1>7, <1>8, <1>9 DEF ServiceActs

LEMMA OutageEnd ==
  ASSUME Inv, OutageInv, ProcessEnds PROVE OutageInv'
<1> USE DEF Inv, TypeInv, TypeOK, lossVars
<1>1. /\ phase # "down" /\ phase' = "down" /\ child' = "none" /\ state' = "absent"
      /\ session' # "attached"
      /\ UNCHANGED <<clock, cursor, lossVars>>
      /\ blind' = (blind /\ cursor.lastSeenAt = None)
      /\ \A r \in Recoveries : recovery'[r].pc = "idle"
  <2>1. \A r \in Recoveries : recovery'[r] = Idle
    BY DEF ProcessEnds
  <2>2. session' # "attached"
    BY DEF ProcessEnds, SessionAfter
  <2> QED
    BY <2>1, <2>2, IdleIs DEF ProcessEnds, ListenerGone
<1>2. session = "attached" => cursor.lastSeenAt # None
  <2>1. session = "attached" => child # "none" /\ state # "absent"
    BY DEF OutageInv, SessionHasChild, ListenerInv
  <2> QED
    BY <2>1 DEF ProcessEnds, OutageInv, ServiceOrder
<1>3. Unreplayed' = Unreplayed
  BY <1>1 DEF Unreplayed
<1>4. StampBeforeLoss' /\ ReplayCovers'
  BY <1>1, <1>3 DEF OutageInv, StampBeforeLoss, ReplayCovers
<1>5. OutageStamped'
  BY <1>1, <1>2 DEF OutageInv, OutageStamped
<1> QED
  BY <1>1, <1>4, <1>5 DEF OutageInv, StampsPast, SessionHasChild, ServiceOrder, Early

LEMMA OutageTool ==
  ASSUME Inv, OutageInv, ToolActs PROVE OutageInv'
<1> USE DEF Inv, TypeInv, TypeOK, hookdeckVars, toolVars, historyVars, lossVars, StampsKept
<1>1. /\ cursor'.lastDisconnectAt = cursor.lastDisconnectAt
      /\ cursor'.lastSeenAt = cursor.lastSeenAt
  <2>1. CASE PauseTool
    BY <2>1, PauseMarked DEF PauseTool, Reasons
  <2>2. CASE ToolPauseReturns
    BY <2>2, PauseMarked DEF ToolPauseReturns, Restored, ToolCalls, Row
  <2>3. CASE ResumeTool \/ TimerFires
    BY <2>3 DEF ResumeTool, TimerFires, Resume
  <2>4. CASE ToolUnpauseReturns
    BY <2>4, PauseUnmarked DEF ToolUnpauseReturns, UnpauseRefused
  <2>5. CASE ReasonCleared
    BY <2>5, ReasonPatched DEF ReasonCleared, Reasons
  <2> QED
    BY <2>1, <2>2, <2>3, <2>4, <2>5 DEF ToolActs
<1>2. UNCHANGED <<listenerVars, session, clock, phase, recovery, lossVars, blind>>
  BY DEF ToolActs, PauseTool, ToolPauseReturns, ResumeTool, TimerFires, Resume,
         ToolUnpauseReturns, ReasonCleared
<1> QED
  BY <1>1, <1>2, OutageFrame DEF listenerVars

LEMMA OutageStep == Inv /\ Inv' /\ OutageInv /\ [Next]_vars => OutageInv'
<1> SUFFICES ASSUME Inv, Inv', OutageInv, [Next]_vars PROVE OutageInv'
  OBVIOUS
<1>1. CASE UNCHANGED vars
  BY <1>1, OutageFrame DEF vars, listenerVars, hookdeckVars, historyVars, lossVars, StampsKept
<1> QED
  BY <1>1, OutageHookdeck, OutageListener, OutageRecovery, OutageService, OutageEnd,
     OutageTool DEF Next

LEMMA OutageFollows == Inv /\ OutageInv => OnlyReplaysForget
<1> SUFFICES ASSUME Inv, OutageInv, NEW t \in Unreplayed
             PROVE  cursor.lastDisconnectAt < t \/ cursor.lastSeenAt < t
  BY DEF OnlyReplaysForget, Remembered, Unreplayed
<1> QED
  BY DEF OutageInv, StampBeforeLoss

\* Whatever crashes, restarts, reconnections and failed or overlapping replays come
\* between, a discarded request that nobody replayed lies after a stamp the next
\* recovery starts from, unless it was discarded while a replay was under way or in the
\* rest of an outage whose stamp the end of a replay erased.
THEOREM ReplaysAloneForget == Spec => []OnlyReplaysForget
<1>1. Init => OutageInv
  BY OutageStarts
<1>2. Inv /\ Inv' /\ OutageInv /\ [Next]_vars => OutageInv'
  BY OutageStep
<1>3. Inv /\ OutageInv => OnlyReplaysForget
  BY OutageFollows
<1> QED
  BY <1>1, <1>2, <1>3, TypeSafety, PTL DEF Spec, Inv
===============================================================================
