------------------------------- MODULE Contract -------------------------------
(***************************************************************************)
(* The contract between the plugin and Hookdeck: events that Hookdeck      *)
(* delivers and redelivers by the connection's retry rule and the answers  *)
(* it gets, while the operator reconfigures the plugin and edits the       *)
(* connection, the host works on its flows, replies get lost and agents    *)
(* replay.  The request path is Ingress, the connection Provisioning, the  *)
(* record of what is lost DeadLetterLog.                                   *)
(*                                                                         *)
(* A delivery is one step up to its dead letter: what happens inside it    *)
(* is the subject of Delivery and AgentRuns.  Hookdeck is external: it     *)
(* retries what the rule covers, a Retry-After whatever the rule, a lost   *)
(* reply, up to Attempts, and nothing once the answer says so.             *)
(***************************************************************************)
EXTENDS Provisioning, DeadLetterLog

CONSTANTS Scenarios,    \* what is sent, the flows there are, what may happen
          Attempts      \* attempts of an event, the rule's count and one

ASSUME AttemptsAssumption == Attempts \in Nat \ {0}

\* What a scenario budgets for.
Budgeted == {"troubles", "losses", "replays", "restarts", "setups", "edits", "secrets",
             "moves"}

ASSUME ScenariosAssumption ==
  \A s \in Scenarios :
    /\ s.config \in Configs /\ s.connection \in Connections /\ s.left \in [Budgeted -> Nat]
    /\ s.flows \in [Flows -> FlowRows]
    /\ DOMAIN s.request \subseteq Recorders /\ s.request \in [DOMAIN s.request -> Requests]

VARIABLES request,      \* event -> its stored request
          fate,         \* event -> where Hookdeck is with it
          attempt,      \* event -> number of its attempt
          manual,       \* the events whose attempt is one somebody asked for
          answer,       \* event -> the last answer given
          ledger,       \* event -> the plugin's row
          flows,        \* the host's flows
          left          \* how much of everything may still happen

\* Kept for the properties: what was done for an event, how often it was run
\* though answered well, the rule under which it was dropped, and the events whose
\* last answer was for a revision that had yet to come.
VARIABLES done, reruns, droppedUnder, early

provisioningVars == <<config, connection, fingerprint, doubts>>
eventVars == <<request, fate, attempt, manual, answer, ledger, flows>>
ghosts    == <<done, reruns, droppedUnder, early>>
vars      == <<provisioningVars, logVars, eventVars, ghosts, left>>

Events == DOMAIN request

Fates == {"queued", "answering", "delivered", "retired", "unretried", "exhausted"}
Final == Fates \ {"queued", "answering"}

NoAnswer == [plan |-> Pass, verified |-> FALSE, last |-> FALSE,
             cancels |-> FALSE, lost |-> FALSE]

NotDropped == {<<0, 0>>}

Spend(what) == left[what] > 0 /\ left' = [left EXCEPT ![what] = @ - 1]

Init ==
  \E s \in Scenarios :
    /\ request = s.request
    /\ left = s.left
    /\ flows = s.flows
    /\ config = s.config
    /\ connection = s.connection
    /\ fingerprint = NoFingerprint
    /\ doubts = {}
    /\ fate = [e \in DOMAIN s.request |-> "queued"]
    /\ attempt = [e \in DOMAIN s.request |-> 1]
    /\ manual = {}
    /\ answer = [e \in DOMAIN s.request |-> NoAnswer]
    /\ ledger = [e \in DOMAIN s.request |-> NoRow]
    /\ done = [e \in DOMAIN s.request |-> 0]
    /\ reruns = [e \in DOMAIN s.request |-> 0]
    /\ droppedUnder = [e \in DOMAIN s.request |-> NotDropped]
    /\ early = {}
    /\ LogInit

(***************************************************************************)
(* handleDelivery: the pipeline, then the dead letter, then the reply.     *)
(***************************************************************************)
\* recordDeadLetter: what was verified and will not come again.  Mutation: only
\* cancellations are recorded.
OnlyCancelled(handled, last) == handled.verified /\ handled.plan.retry = "cancel"

IsDeadLetter(handled, last) ==
  handled.verified /\ (handled.plan.retry = "cancel" \/ (last /\ ~Succeeds(handled.plan)))

\* The header says whether Hookdeck will retry by itself after this attempt.
IsLastAttempt(e) ==
  e \in manual \/ attempt[e] >= Attempts \/ connection.rule = {}

IsEarly(e, handled) ==
  LET envelope == request[e].envelope IN
  /\ handled.plan.code = "flow_revision_conflict"
  /\ envelope.expectedRevision > flows[envelope.flow].revision

Deliver(e, circumstance) ==
  LET handled == RunPipeline(request[e], connection, config, circumstance,
                             flows, ledger[e], attempt[e])
      last    == IsLastAttempt(e)
      cancels == RetryAfterHeader(handled.plan, config.allowRetryCancel) = "cancel"
      letter  == [event |-> e, attempt |-> attempt[e], retriesCancelled |-> cancels,
                  lastAttempt |-> last]
  IN
  /\ fate[e] = "queued"
  /\ IF circumstance = "calm" THEN UNCHANGED left ELSE Spend("troubles")
  /\ fate' = [fate EXCEPT ![e] = "answering"]
  /\ answer' = [answer EXCEPT ![e] =
                  [plan |-> handled.plan, verified |-> handled.verified,
                   last |-> last, cancels |-> cancels, lost |-> FALSE]]
  /\ ledger' = [ledger EXCEPT ![e] = handled.row]
  /\ flows' = handled.flows
  /\ done' = [done EXCEPT ![e] = IF handled.did THEN @ + 1 ELSE @]
  /\ early' = IF IsEarly(e, handled) THEN early \cup {e} ELSE early \ {e}
  /\ IF IsDeadLetter(handled, last) THEN Put(e, letter) ELSE UNCHANGED logVars
  /\ UNCHANGED <<provisioningVars, request, attempt, manual, reruns, droppedUnder>>

(***************************************************************************)
(* Hookdeck gets the reply, or takes its absence for a failure.            *)
(***************************************************************************)
\* What Hookdeck does about an answer.
Verdict(e, lost) ==
  LET plan == answer[e].plan IN
  CASE ~lost /\ Succeeds(plan)      -> "delivered"
    [] ~lost /\ answer[e].cancels   -> "retired"
    [] ~(~lost /\ (Succeeds(plan) \/ answer[e].cancels)) ->
         CASE answer[e].last -> "exhausted"
           [] ~answer[e].last /\ (\/ lost \/ plan.retry = "after"
                                  \/ Covers(connection.rule, plan.status)) -> "queued"
           [] OTHER -> "unretried"

\* The reply is written when the dead letter is.  Mutation: without waiting for it.
AnsweredAtOnce(e) == fate[e] = "answering"

Answered(e) == fate[e] = "answering" /\ recording[e].stage = "none"

Reply(e, lost) ==
  LET verdict == Verdict(e, lost) IN
  /\ Answered(e)
  /\ IF lost THEN Spend("losses") ELSE UNCHANGED left
  /\ fate' = [fate EXCEPT ![e] = verdict]
  /\ answer' = [answer EXCEPT ![e].lost = lost]
  /\ attempt' = [attempt EXCEPT ![e] = IF verdict = "queued" THEN @ + 1 ELSE @]
  /\ reruns' = [reruns EXCEPT ![e] =
                  IF verdict = "queued" /\ Succeeds(answer[e].plan) THEN @ + 1 ELSE @]
  /\ droppedUnder' = [droppedUnder EXCEPT ![e] =
                        IF verdict = "unretried" THEN connection.rule ELSE @]
  /\ UNCHANGED <<provisioningVars, logVars, request, manual, ledger, flows, done, early>>

\* hookdeck_replay with event ids: one more attempt of an event Hookdeck is done
\* with, after which it does not retry by itself.
Replay(e) ==
  /\ fate[e] \in Final
  /\ Spend("replays")
  /\ fate' = [fate EXCEPT ![e] = "queued"]
  /\ attempt' = [attempt EXCEPT ![e] = @ + 1]
  /\ manual' = manual \cup {e}
  /\ reruns' = [reruns EXCEPT ![e] = IF Succeeds(answer[e].plan) THEN @ + 1 ELSE @]
  /\ droppedUnder' = [droppedUnder EXCEPT ![e] = NotDropped]
  /\ UNCHANGED <<provisioningVars, logVars, request, answer, ledger, flows, done, early>>

LogReturns == LogStep /\ UNCHANGED <<provisioningVars, eventVars, ghosts, left>>

(***************************************************************************)
(* The operator and the host.                                              *)
(***************************************************************************)
Restart ==
  /\ \A e \in Events : fate[e] # "answering"
  /\ Spend("restarts")
  /\ \E c \in ConfigChoices, resolved \in BOOLEAN, reply \in Answers :
       Start([c EXCEPT !.secret = config.secret], resolved, reply)
  /\ UNCHANGED <<logVars, eventVars, ghosts>>

SetupTool ==
  /\ Spend("setups")
  /\ \E resolved \in BOOLEAN, reply \in Answers : Setup(resolved, reply)
  /\ UNCHANGED <<logVars, eventVars, ghosts>>

DashboardEdit ==
  /\ Spend("edits")
  /\ \E edit \in Edits : EditConnection(edit)
  /\ UNCHANGED <<logVars, eventVars, ghosts>>

SecretRoll ==
  /\ Spend("secrets")
  /\ RollSecret \/ \E secret \in Secrets : StoreSecret(secret)
  /\ UNCHANGED <<logVars, eventVars, ghosts>>

\* The host creates a flow, or moves one on.
Moved(row) ==
  IF row = Absent THEN [revision |-> 0, status |-> "open"]
                  ELSE [row EXCEPT !.revision = @ + 1]

HostMovesFlow ==
  /\ Spend("moves")
  /\ \E f \in Flows :
       /\ flows[f].revision < MaxRevision
       /\ flows' = [flows EXCEPT ![f] = Moved(@)]
  /\ UNCHANGED <<provisioningVars, logVars, request, fate, attempt, manual, answer, ledger,
                 ghosts>>

Next ==
  \/ \E e \in Events, circumstance \in Circumstances : Deliver(e, circumstance)
  \/ \E e \in Events, lost \in BOOLEAN : Reply(e, lost)
  \/ \E e \in Events : Replay(e)
  \/ LogReturns \/ Restart \/ SetupTool \/ DashboardEdit \/ SecretRoll \/ HostMovesFlow

Spec == Init /\ [][Next]_vars
===============================================================================
