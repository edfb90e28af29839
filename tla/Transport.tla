------------------------------ MODULE Transport -------------------------------
(***************************************************************************)
(* Everything that decides whether Hookdeck's events for one CLI route     *)
(* reach the Gateway while it starts, stops, crashes and loses its tunnel: *)
(* the transport manager (src/transport/manager.ts), the route's listener  *)
(* (CliListener), its cursor row (src/store/cursor-store.ts), outage       *)
(* catch-up (src/catchup.ts), the pause tool with its auto-resume timer    *)
(* (src/tools/pause.ts) and the service around them (index.ts).            *)
(*                                                                         *)
(* Hookdeck's side of the connection is external and modelled from what    *)
(* these files say of it.  A patch of the cursor row is one durable step:  *)
(* JsonlStore has the store.                                               *)
(***************************************************************************)
EXTENDS CliListener, Naturals, FiniteSets

CONSTANTS
  Recoveries,       \* concurrent activations of recoverRoute
  PauseOnShutdown,  \* config.pause.onShutdown
  MaxDiscards,      \* bound: requests Hookdeck discards
  Bounds            \* what else a behaviour may spend: service lifetimes, calls of
                    \* the pause tool by an agent, unasked ends of the child

ASSUME TransportAssumption ==
  /\ PauseOnShutdown \in BOOLEAN
  /\ MaxDiscards \in Nat
  /\ Bounds \subseteq [discards : 0 .. MaxDiscards, lives : Nat, calls : Nat, drops : Nat]

VARIABLES
  connection,  \* external: "open", or paused by a "shutdown" or an "operator"
  session,     \* external: the CLI session: none, attached, grace
  held,        \* external: requests wait at HOLD
  clock,       \* external: requests discarded so far, which is also the time
  phase,       \* the service: start(), serving, stop(), or no process
  cursor,      \* the route's row
  recovery,    \* activations of recoverRoute
  call,        \* the pause tool's activation
  autoResume,  \* its pending timer
  left,        \* bound: what is left to spend
  replayed,    \* history: discarded requests that a replay covered
  exposed,     \* history: requests discarded while a replay ran, or while blind
  blind,       \* history: an outage under way lost its stamp
  told,        \* history: recoveries whose child was told to end
  mishaps      \* history: what befell the row and the pause

hookdeckVars == <<connection, session, held, clock>>
toolVars     == <<call, autoResume>>
lossVars     == <<replayed, exposed>>
historyVars  == <<lossVars, blind, told, mishaps>>
vars == <<listenerVars, hookdeckVars, phase, cursor, recovery, toolVars, left,
          historyVars>>

None == MaxDiscards + 1   \* an absent timestamp
Times == 0 .. MaxDiscards
Reasons == {"none", "shutdown", "operator"}
Row == [pausedByUs : BOOLEAN, pauseReason : Reasons,
        lastDisconnectAt : Times \cup {None}, lastSeenAt : Times \cup {None}]

Phases == {"down", "adopting", "starting", "serving",
           "pausing", "closing", "stopping", "stopped"}
StopPhases == {"pausing", "closing", "stopping", "stopped"}
Activations == [pc : {"idle", "unpausing", "catching", "replaying", "waiting"},
                window : SUBSET Times]
ToolCalls == [pc : {"idle", "pausing", "resuming", "clearing"},
              paused : BOOLEAN, reason : Reasons]

Idle     == [pc |-> "idle", window |-> {}]
IdleCall == [pc |-> "idle", paused |-> FALSE, reason |-> "none"]

TypeOK ==
  /\ ListenerTypeOK
  /\ connection \in {"open", "shutdown", "operator"}
  /\ session \in {"none", "attached", "grace"}
  /\ {held, autoResume, blind} \subseteq BOOLEAN
  /\ clock \in Times /\ phase \in Phases
  /\ cursor \in Row
  /\ recovery \in [Recoveries -> Activations]
  /\ call \in ToolCalls
  /\ left \in [discards : Nat, lives : Nat, calls : Nat, drops : Nat]
  /\ replayed \subseteq Times /\ exposed \subseteq Times /\ told \subseteq Recoveries
  /\ mishaps \subseteq {"orphaned", "unpaused", "overtaken", "leftover"}

\* A route that was served before: the last service left at time 0.
Init ==
  /\ ListenerInit
  /\ connection = "open" /\ session = "none" /\ held = FALSE /\ clock = 0
  /\ phase = "down"
  /\ cursor = [pausedByUs |-> FALSE, pauseReason |-> "none",
               lastDisconnectAt |-> 0, lastSeenAt |-> None]
  /\ recovery = [r \in Recoveries |-> Idle]
  /\ call = IdleCall /\ autoResume = FALSE
  /\ left \in Bounds
  /\ replayed = {} /\ exposed = {} /\ blind = FALSE /\ told = {} /\ mishaps = {}

Spend(what) == left[what] > 0 /\ left' = [left EXCEPT ![what] = @ - 1]

-------------------------------------------------------------------------------
(* Hookdeck: the connection, the CLI session, requests. *)

\* A replay Hookdeck may have accepted, whose end the manager has not acted on.
Replaying == \E r \in Recoveries : recovery[r].pc \in {"replaying", "waiting"}

\* A request for a paused connection is held; its event goes on to the session,
\* or to the retry pipeline of its grace; with neither it is discarded.
RequestArrives ==
  /\ \/ connection # "open" /\ held' = TRUE /\ UNCHANGED <<clock, left, exposed>>
     \/ /\ connection = "open" /\ session = "none"
        /\ Spend("discards")
        /\ clock' = clock + 1
        /\ exposed' = exposed \cup IF Replaying \/ blind THEN {clock'} ELSE {}
        /\ UNCHANGED held
  /\ UNCHANGED <<listenerVars, connection, session, phase, cursor, recovery, toolVars,
                 replayed, blind, told, mishaps>>

\* The grace window is about two minutes: longer than a recovery, which began with a
\* session and whose two calls and wait give up within one.
GraceWindowEnds ==
  /\ session = "grace"
  /\ \A r \in Recoveries : recovery[r].pc = "idle"
  /\ session' = "none"
  /\ UNCHANGED <<listenerVars, connection, held, clock, phase, cursor, recovery,
                 toolVars, left, historyVars>>

\* A child that ends on SIGTERM closes its session; any other end leaves the grace.
SessionAfter(c) ==
  IF session # "attached" THEN session
  ELSE IF c = "terminating" THEN "none" ELSE "grace"

-------------------------------------------------------------------------------
(* The cursor row. *)

PatchReplaces(fields) == cursor' = fields

Patch(fields) == cursor' = [f \in DOMAIN cursor |->
                              IF f \in DOMAIN fields THEN fields[f] ELSE cursor[f]]

NotPaused == [pausedByUs |-> FALSE]

RestampDisconnect == Patch([lastDisconnectAt |-> clock])

\* recordDisconnect: the start of an outage is stamped once.
RecordDisconnect ==
  IF cursor.lastDisconnectAt = None THEN Patch([lastDisconnectAt |-> clock])
                                    ELSE UNCHANGED cursor

-------------------------------------------------------------------------------
(* recoverRoute: unpauseIfWePaused, then catchUp. *)

AnyBreadcrumb == cursor.pausedByUs

Breadcrumb == cursor.pausedByUs /\ cursor.pauseReason # "operator"

BeginRecovery(r) ==
  /\ recovery[r].pc = "idle"
  /\ recovery' = [recovery EXCEPT ![r].pc = IF Breadcrumb THEN "unpausing" ELSE "catching"]
  /\ told' = told \cup IF Breadcrumb /\ (stopping \/ child' # "running") THEN {r} ELSE {}

\* The child is told to end: what its banner began goes on without it.
Tell == told' = {r \in Recoveries : recovery[r].pc = "unpausing"}

\* The pause is lifted: what was held goes to the session there is.  It crosses a
\* pause under way, or one stop() has just made.
Lift(mishap) ==
  /\ connection' = "open" /\ held' = FALSE
  /\ mishaps' = (mishaps \ {"orphaned"}) \cup mishap \cup
       IF call.pc = "pausing" \/ phase \in StopPhases THEN {"orphaned"} ELSE {}

Overtaking == IF "overtaken" \in mishaps THEN {"leftover"} ELSE {}

RefusedForgotten == UNCHANGED <<connection, held, mishaps>> /\ Patch(NotPaused)

UnpauseRefused == UNCHANGED <<connection, held, mishaps, cursor>>

UnpauseReturns(r) ==
  /\ recovery[r].pc = "unpausing"
  /\ recovery' = [recovery EXCEPT ![r].pc = "catching"]
  /\ told' = told \ {r}
  /\ \/ Lift(Overtaking) /\ Patch(NotPaused)
     \/ Lift(Overtaking) /\ UNCHANGED cursor   \* the reply is lost: a failure here
     \/ UnpauseRefused
  /\ UNCHANGED <<listenerVars, session, clock, phase, toolVars, left, lossVars, blind>>

\* catchUp and the head of runCatchUp: nothing to do, too short a gap, or a query
\* for the requests discarded from the stamp to now.
CatchUp(r) ==
  /\ recovery[r].pc = "catching"
  /\ \/ recovery' = [recovery EXCEPT ![r] = Idle]
     \/ /\ cursor.lastDisconnectAt # None
        /\ recovery' = [recovery EXCEPT ![r] =
             [pc |-> "replaying", window |-> cursor.lastDisconnectAt + 1 .. clock]]
  /\ UNCHANGED <<listenerVars, hookdeckVars, phase, cursor, toolVars, left, historyVars>>

\* Accepted, the requests are ingested again: held, given to the session there is,
\* or discarded again.  Refused, the stamp stays.  A lost reply is an acceptance
\* that looks like a refusal.
ReplayReturns(r) ==
  /\ recovery[r].pc = "replaying"
  /\ \/ /\ connection # "open" \/ session # "none" \/ recovery[r].window = {}
        /\ held' = (held \/ (connection # "open" /\ recovery[r].window # {}))
        /\ replayed' = replayed \cup recovery[r].window
        /\ \E pc \in {"waiting", "idle"} :
             recovery' = [recovery EXCEPT ![r] = [pc |-> pc, window |-> {}]]
        /\ UNCHANGED <<clock, left, exposed>>
     \/ /\ connection = "open" /\ session = "none" /\ recovery[r].window # {}
        /\ Spend("discards")
        /\ clock' = clock + 1
        /\ replayed' = replayed \cup recovery[r].window
        /\ exposed' = exposed \cup {clock'}
        /\ \E pc \in {"waiting", "idle"} :
             recovery' = [recovery EXCEPT ![r] = [pc |-> pc, window |-> {}]]
        /\ UNCHANGED held
     \/ /\ recovery' = [recovery EXCEPT ![r] = Idle]
        /\ UNCHANGED <<held, clock, left, lossVars>>
  /\ UNCHANGED <<listenerVars, connection, session, phase, cursor, toolVars, blind, told,
                 mishaps>>

\* waitForBatch sees the end or gives up; either way the outage is forgotten.
WaitEnds(r) ==
  /\ recovery[r].pc = "waiting"
  /\ recovery' = [recovery EXCEPT ![r] = Idle]
  /\ Patch([lastDisconnectAt |-> None])
  /\ blind' = (state # "connected")
  /\ UNCHANGED <<listenerVars, hookdeckVars, phase, toolVars, left, lossVars, told,
                 mishaps>>

-------------------------------------------------------------------------------
(* The listener, with the manager's callbacks. *)

hostVars == <<hookdeckVars, phase, cursor, recovery, toolVars, left, historyVars>>

RecoverOnLaunch(r) ==
  /\ RestartFires
  /\ BeginRecovery(r)
  /\ UNCHANGED <<session, connection, held, clock, phase, cursor, toolVars, left,
                 lossVars, blind, mishaps>>

TunnelConnects(r) ==
  /\ Banner
  /\ session' = "attached"
  /\ BeginRecovery(r)
  /\ blind' = FALSE
  /\ UNCHANGED <<connection, held, clock, phase, cursor, toolVars, left, lossVars,
                 mishaps>>

ChildEnds ==
  /\ ExitHandlers
  /\ IF child = "running" THEN Spend("drops") ELSE UNCHANGED left
  /\ session' = SessionAfter(child)
  /\ RecordDisconnect
  /\ blind' = FALSE
  /\ UNCHANGED <<connection, held, clock, phase, recovery, toolVars, lossVars, told,
                 mishaps>>

ReadinessTimeout ==
  /\ ReadinessExpires
  /\ Spend("drops")
  /\ Tell
  /\ UNCHANGED <<hookdeckVars, phase, cursor, recovery, toolVars, lossVars, blind,
                 mishaps>>

KillTimeout == KillTimerFires /\ UNCHANGED hostVars
Relaunch    == RestartFires /\ UNCHANGED hostVars
StopTimeout == GraceExpires /\ UNCHANGED hostVars

-------------------------------------------------------------------------------
(* The service: start, heartbeat, stop, and the ways a process ends. *)

\* adoptCrashedRun stamps the outage before it clears the marker.
Boot ==
  /\ phase = "down" /\ Spend("lives")
  /\ mishaps' = mishaps \ {"unpaused"}
  /\ IF cursor.lastSeenAt = None THEN phase' = "starting" /\ UNCHANGED cursor
     ELSE /\ phase' = "adopting"
          /\ IF cursor.lastDisconnectAt = None
               THEN Patch([lastDisconnectAt |-> cursor.lastSeenAt])
               ELSE UNCHANGED cursor
  /\ UNCHANGED <<listenerVars, hookdeckVars, recovery, toolVars, lossVars, blind, told>>

MarkerCleared ==
  /\ phase = "adopting"
  /\ phase' = "starting"
  /\ Patch([lastSeenAt |-> None])
  /\ UNCHANGED <<listenerVars, hookdeckVars, recovery, toolVars, left, historyVars>>

\* The version gate, a missing binary or a failing start leave ingress serving
\* without a tunnel, and without a heartbeat.
StartTransport ==
  /\ phase = "starting"
  /\ phase' = "serving"
  /\ \/ StartListener /\ Patch([lastSeenAt |-> clock])
     \/ UNCHANGED <<listenerVars, cursor>>
  /\ UNCHANGED <<hookdeckVars, recovery, toolVars, left, historyVars>>

Heartbeat ==
  /\ phase = "serving" /\ state # "absent"
  /\ cursor.lastSeenAt # clock
  /\ Patch([lastSeenAt |-> clock])
  /\ UNCHANGED <<listenerVars, hookdeckVars, phase, recovery, toolVars, left, historyVars>>

SkippedIfMarked == cursor.pausedByUs

\* An operator's pause is already the state stop() wants.
PausedByOperator == cursor.pauseReason = "operator"

\* Marks the row, then asks for the pause, unless there is no time left for it.
StopService ==
  /\ phase = "serving"
  /\ autoResume' = FALSE
  /\ \/ /\ PauseOnShutdown /\ ~PausedByOperator
        /\ phase' = "pausing"
        /\ Patch([pausedByUs |-> TRUE, pauseReason |-> "shutdown"])
        /\ UNCHANGED mishaps
     \/ /\ phase' = "closing"
        /\ mishaps' = mishaps \cup
             (IF ~PauseOnShutdown \/ ~PausedByOperator THEN {"unpaused"}
              ELSE IF call.pc # "idle" THEN {"leftover"} ELSE {})
        /\ UNCHANGED cursor
  /\ UNCHANGED <<listenerVars, hookdeckVars, recovery, call, left, lossVars, blind, told>>

\* A refusal, or a reply that is lost, has the row say that nothing is paused.
ShutdownPauseReturns ==
  /\ phase = "pausing"
  /\ phase' = "closing"
  /\ \/ connection' = "shutdown" /\ UNCHANGED <<cursor, mishaps>>
     \/ connection' = "shutdown" /\ Patch(NotPaused) /\ mishaps' = mishaps \cup {"orphaned"}
     \/ /\ Patch(NotPaused)
        /\ mishaps' = mishaps \cup {IF connection = "open" THEN "unpaused" ELSE "orphaned"}
        /\ UNCHANGED connection
  /\ UNCHANGED <<listenerVars, session, held, clock, recovery, toolVars, left, lossVars,
                 blind, told>>

CloseTunnel ==
  /\ phase = "closing"
  /\ phase' = "stopping"
  /\ \/ StopListener /\ Tell
     \/ state = "absent" /\ UNCHANGED <<listenerVars, told>>
  /\ UNCHANGED <<hookdeckVars, cursor, recovery, toolVars, left, lossVars, blind, mishaps>>

\* Last: the teardown ran, so this is no crash.
TransportStopped ==
  /\ phase = "stopping" /\ (state = "absent" \/ stopper = "done")
  /\ phase' = "stopped"
  /\ Patch([lastSeenAt |-> None])
  /\ UNCHANGED <<listenerVars, hookdeckVars, recovery, toolVars, left, historyVars>>

\* The process is gone with all it had in memory, its child included.  A process
\* that stopped properly outlives the child it killed.
ProcessEnds ==
  /\ phase # "down"
  /\ phase = "stopped" => child = "none"
  /\ phase' = "down"
  /\ session' = SessionAfter("killed")
  /\ ListenerGone
  /\ recovery' = [r \in Recoveries |-> Idle]
  /\ call' = IdleCall /\ autoResume' = FALSE /\ told' = {}
  /\ mishaps' = (mishaps \ {"overtaken"}) \cup
                   IF call.pc \in {"pausing", "clearing"} THEN {"leftover"} ELSE {}
  /\ blind' = (blind /\ cursor.lastSeenAt = None)
  /\ UNCHANGED <<connection, held, clock, cursor, left, lossVars>>

-------------------------------------------------------------------------------
(* The pause tool.  A live service only: the state files are read-only to others. *)

PauseTool ==
  /\ phase = "serving" /\ call.pc = "idle"
  /\ Spend("calls")
  /\ call' = [pc |-> "pausing", paused |-> cursor.pausedByUs, reason |-> cursor.pauseReason]
  /\ Patch([pausedByUs |-> TRUE, pauseReason |-> "operator"])
  /\ mishaps' = mishaps \cup
       IF \E r \in Recoveries : recovery[r].pc = "unpausing" THEN {"overtaken"} ELSE {}
  /\ UNCHANGED <<listenerVars, hookdeckVars, phase, recovery, autoResume, lossVars,
                 blind, told>>

\* The row as it was before the call; a reason that was absent cannot be put back.
Restored == Patch([pausedByUs |-> call.paused,
                   pauseReason |-> IF call.reason = "none" THEN cursor.pauseReason
                                   ELSE call.reason])

ToolPauseReturns ==
  /\ call.pc = "pausing"
  /\ call' = IdleCall
  /\ \/ connection' = "operator" /\ autoResume' = TRUE /\ UNCHANGED <<cursor, mishaps>>
     \/ /\ connection' \in {connection, "operator"}
        /\ Restored
        /\ mishaps' = mishaps
             \cup (IF connection' = "operator" /\ ~call.paused THEN {"orphaned"} ELSE {})
             \cup (IF call.reason = "none" THEN {"leftover"} ELSE {})
        /\ UNCHANGED autoResume
  /\ UNCHANGED <<listenerVars, session, held, clock, phase, recovery, left, lossVars,
                 blind, told>>

\* By an agent, or by the timer a pause set.  Either retires the pending timer.
Resume ==
  /\ call.pc = "idle"
  /\ call' = [IdleCall EXCEPT !.pc = "resuming"]
  /\ autoResume' = FALSE
  /\ UNCHANGED <<listenerVars, hookdeckVars, phase, cursor, recovery, historyVars>>

ResumeTool == phase = "serving" /\ Spend("calls") /\ Resume
TimerFires == autoResume /\ Resume /\ UNCHANGED left

ToolUnpauseReturns ==
  /\ call.pc = "resuming"
  /\ \/ Lift({}) /\ Patch(NotPaused) /\ call' = [call EXCEPT !.pc = "clearing"]
     \/ Lift({"leftover"}) /\ UNCHANGED cursor /\ call' = IdleCall   \* the reply is lost
     \/ UnpauseRefused /\ call' = IdleCall
  /\ UNCHANGED <<listenerVars, session, clock, phase, recovery, autoResume, left,
                 lossVars, blind, told>>

ReasonCleared ==
  /\ call.pc = "clearing"
  /\ call' = IdleCall
  /\ Patch([pauseReason |-> "none"])
  /\ mishaps' = IF phase = "serving" THEN mishaps \ {"leftover"} ELSE mishaps
  /\ UNCHANGED <<listenerVars, hookdeckVars, phase, recovery, autoResume, left, lossVars,
                 blind, told>>

-------------------------------------------------------------------------------
HookdeckActs == RequestArrives \/ GraceWindowEnds

ListenerActs ==
  \/ \E r \in Recoveries : TunnelConnects(r)
  \/ ChildEnds \/ ReadinessTimeout \/ KillTimeout \/ Relaunch \/ StopTimeout

RecoveryActs(r) == UnpauseReturns(r) \/ CatchUp(r) \/ ReplayReturns(r) \/ WaitEnds(r)

ServiceActs ==
  \/ Boot \/ MarkerCleared \/ StartTransport \/ Heartbeat
  \/ StopService \/ ShutdownPauseReturns \/ CloseTunnel \/ TransportStopped

ToolActs ==
  \/ PauseTool \/ ToolPauseReturns \/ ResumeTool \/ TimerFires
  \/ ToolUnpauseReturns \/ ReasonCleared

Next ==
  \/ HookdeckActs \/ ListenerActs \/ ServiceActs \/ ProcessEnds \/ ToolActs
  \/ \E r \in Recoveries : RecoveryActs(r)

\* The grace timer of a stop fires and a killed process is reported gone.
Fairness ==
  /\ WF_vars(StopTimeout)
  /\ WF_vars(KillTimeout)
  /\ WF_vars(child = "killed" /\ ChildEnds)

Spec == Init /\ [][Next]_vars /\ Fairness
===============================================================================
