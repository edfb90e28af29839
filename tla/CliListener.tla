----------------------------- MODULE CliListener ------------------------------
(***************************************************************************)
(* The supervisor of one route's `hookdeck listen` child                   *)
(* (src/transport/cli-transport.ts): launch, readiness timeout, restart    *)
(* after an exit, and a bounded stop.  The manager makes a new listener at *)
(* each start and gives it no limit of failures, so the "failed" state of  *)
(* the source is not reached.  Delays are left out: a timer that is set    *)
(* may fire at any time.                                                   *)
(***************************************************************************)

VARIABLES
  state,           \* TransportState, or "absent" before there is a listener
  stopping,        \* stop() was called
  child,           \* the process: none, running, terminating (SIGTERM), killed
  readinessTimer,  \* waiting for the banner of this child
  killTimer,       \* SIGKILL follows if this child outlives its SIGTERM
  restartTimer,    \* a launch is scheduled
  stopper          \* the stop() activation: none, waiting for the exit, done

listenerVars ==
  <<state, stopping, child, readinessTimer, killTimer, restartTimer, stopper>>

ListenerTypeOK ==
  /\ state \in {"absent", "stopped", "starting", "connected", "restarting"}
  /\ child \in {"none", "running", "terminating", "killed"}
  /\ stopper \in {"none", "waiting", "done"}
  /\ {stopping, readinessTimer, killTimer, restartTimer} \subseteq BOOLEAN

ListenerInit ==
  /\ state = "absent" /\ stopping = FALSE /\ child = "none" /\ stopper = "none"
  /\ readinessTimer = FALSE /\ killTimer = FALSE /\ restartTimer = FALSE

\* The process ended, and its child with it.
ListenerGone ==
  /\ state' = "absent" /\ stopping' = FALSE /\ child' = "none" /\ stopper' = "none"
  /\ readinessTimer' = FALSE /\ killTimer' = FALSE /\ restartTimer' = FALSE

-------------------------------------------------------------------------------
ScheduleRestart == state' = "restarting" /\ restartTimer' = TRUE

LaunchThrowsForGood ==
  \/ /\ child' = "running" /\ state' = "starting"
     /\ readinessTimer' = TRUE /\ restartTimer' = FALSE
  \/ state' = "restarting" /\ restartTimer' = FALSE /\ UNCHANGED <<child, readinessTimer>>

\* launch(): spawning may throw, which is one more failed run.
Launch ==
  \/ /\ child' = "running" /\ state' = "starting"
     /\ readinessTimer' = TRUE /\ restartTimer' = FALSE
  \/ ScheduleRestart /\ UNCHANGED <<child, readinessTimer>>

\* The manager creates the listener and starts it.
StartListener ==
  /\ state = "absent"
  /\ stopping' = FALSE
  /\ Launch
  /\ UNCHANGED <<killTimer, stopper>>

\* The banner counts only for a child that is starting, and counts even while
\* that child has been told to end.  One left in the pipe of a killed child is left out.
Banner ==
  /\ state = "starting" /\ child \in {"running", "terminating"}
  /\ state' = "connected"
  /\ readinessTimer' = FALSE
  /\ UNCHANGED <<stopping, child, killTimer, restartTimer, stopper>>

Signalled(c) == IF c = "running" THEN "terminating" ELSE c

ReadinessExpiresMildly ==
  /\ readinessTimer /\ state = "starting"
  /\ readinessTimer' = FALSE
  /\ child' = Signalled(child)
  /\ UNCHANGED <<state, stopping, killTimer, restartTimer, stopper>>

ReadinessExpires ==
  /\ readinessTimer /\ state = "starting"
  /\ readinessTimer' = FALSE
  /\ child' = Signalled(child)
  /\ killTimer' = TRUE
  /\ UNCHANGED <<state, stopping, restartTimer, stopper>>

KillTimerFires ==
  /\ killTimer
  /\ killTimer' = FALSE
  /\ child' = "killed"
  /\ UNCHANGED <<state, stopping, readinessTimer, restartTimer, stopper>>

ExitAlwaysRestarts ==
  /\ child # "none" /\ child' = "none"
  /\ readinessTimer' = FALSE /\ killTimer' = FALSE
  /\ ScheduleRestart
  /\ stopper' = IF stopper = "waiting" THEN "done" ELSE stopper
  /\ UNCHANGED stopping

\* The exit handlers: the supervisor's own, then the one stop() added.
ExitHandlers ==
  /\ child # "none" /\ child' = "none"
  /\ readinessTimer' = FALSE
  /\ killTimer' = FALSE   \* it is for this child only
  /\ IF stopping THEN state' = "stopped" /\ UNCHANGED restartTimer
                 ELSE ScheduleRestart
  /\ stopper' = IF stopper = "waiting" THEN "done" ELSE stopper
  /\ UNCHANGED stopping

RestartFires ==
  /\ restartTimer /\ ~stopping
  /\ Launch
  /\ UNCHANGED <<stopping, killTimer, stopper>>

StopListener ==
  /\ state # "absent" /\ stopper = "none"
  /\ stopping' = TRUE
  /\ readinessTimer' = FALSE /\ restartTimer' = FALSE
  /\ child' = Signalled(child)
  /\ IF child = "none" THEN state' = "stopped" /\ stopper' = "done"
                       ELSE stopper' = "waiting" /\ UNCHANGED state
  /\ UNCHANGED killTimer

\* stop() does not wait for the exit of a child it had to kill.
GraceExpires ==
  /\ stopper = "waiting"
  /\ child' = "killed"
  /\ state' = "stopped" /\ stopper' = "done"
  /\ UNCHANGED <<stopping, readinessTimer, killTimer, restartTimer>>

-------------------------------------------------------------------------------
Tunnel ==
  INSTANCE Tunnel WITH
    wanted <- state # "absent" /\ ~stopping,
    tunnel <- IF state \in {"absent", "stopped"} THEN "closed"
              ELSE IF state = "connected" THEN "up" ELSE "down"
===============================================================================
