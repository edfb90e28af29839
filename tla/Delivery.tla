------------------------------- MODULE Delivery -------------------------------
(***************************************************************************)
(* One Gateway process receiving events from Hookdeck: the request         *)
(* pipeline (src/ingress/handler.ts), the in-flight registry, the ledger   *)
(* over its persisted store, and the boot-time reconciliation of           *)
(* interrupted work (src/recovery.ts), through crashes and restarts.       *)
(*                                                                         *)
(* Hookdeck, the durable queue in front of the process, is not code of     *)
(* this repository: it is modelled from what the code relies on.  The      *)
(* dispatcher is the synchronous kind: it answers inside the request.      *)
(***************************************************************************)
EXTENDS Admission, FiniteSets, Sequences

CONSTANTS
  Events,            \* Hookdeck event ids
  NoEvent,           \* stands for "no event" in an idle handler
  Handlers,          \* concurrent activations of handleDelivery
  Waiters,           \* background activations of AgentRuns, which write rows too
  Malformed,         \* events whose body does not decode or parse
  Filtered,          \* events the route's filters turn away
  Headerless,        \* events delivered without the attempt-count header
  EarlyRejections,   \* answers the checks before admission may give
  MaxConcurrent,     \* config.maxConcurrent
  AutoAttempts,      \* Hookdeck's automatic attempts per event
  AllowRetryCancel,  \* config.safety.allowRetryCancel
  RecoveryEnabled,   \* config.recovery.enabled
  HasClient,         \* an API key is configured
  MaxRecoveries,     \* config.recovery.maxEvents
  DiskMayFail,       \* a write may fail and degrade the store
  MaxAttempts,       \* bound: attempts Hookdeck makes per event in all
  MaxInstances       \* bound: process instances

\* What the pipeline answers.  Before the signature is verified: statuses the
\* connection retries, and cancellations.  Then, for want of an event id, a
\* failure whose record can name no event.
Unverified == {"bad_request", "unsupported"}
Answers == Unverified \cup {"no_event_id", "ok", "retry", "cancel"}

ASSUME DeliveryAssumption ==
  /\ IsFiniteSet(Events)
  /\ NoEvent \notin Events
  /\ "boot" \notin Handlers \cup Waiters /\ Waiters \cap Handlers = {}
  /\ Malformed \subseteq Events /\ Filtered \subseteq Events
  /\ Headerless \subseteq Events
  /\ EarlyRejections \subseteq Unverified \cup {"no_event_id"}
  /\ MaxConcurrent \in Nat \ {0}
  /\ AutoAttempts \in Nat \ {0}
  /\ {AllowRetryCancel, RecoveryEnabled, HasClient, DiskMayFail} \subseteq BOOLEAN
  /\ {MaxRecoveries, MaxAttempts, MaxInstances} \subseteq Nat

VARIABLES
  hookdeck, attempts,               \* external: Hookdeck's view of each event
  phase, instance,                  \* the process: down, booting or serving
  pc, req, answer,                  \* the request handlers
  inFlight,                         \* the in-flight registry
  mem, disk, writes, persistence,   \* the ledger's store
  deadLetter,                       \* events with a dead-letter record
  todo, current, step, budget,      \* reconcileOrphans
  ran, completed, requeued, interrupted  \* history, read by no action

hookdeckVars == <<hookdeck, attempts>>
processVars  == <<phase, instance>>
handlerVars  == <<pc, req, answer, inFlight>>
ledgerVars   == <<mem, disk, writes, persistence>>
recoveryVars == <<todo, current, step, budget>>
historyVars  == <<ran, completed, requeued, interrupted>>
vars == <<hookdeckVars, processVars, handlerVars, ledgerVars, deadLetter,
          recoveryVars, historyVars>>

NoRequest == [event |-> NoEvent, attempt |-> 0, copy |-> FALSE]
Requests  == [event : Events, attempt : Nat, copy : BOOLEAN]
Runs      == Events \X Nat
Writers   == Handlers \cup Waiters \cup {"boot"}
Jobs      == [event : Events, row : Rows, by : Writers]

HookdeckStates == {"queued", "delivering", "acknowledged", "cancelled", "gave_up"}

\* The handler's program counter names what it awaits.
Working == {"beginning", "dispatching", "failing", "settling"}
PCs == {"idle", "reading", "answered", "recorded"} \cup Working
Steps == {"next", "settle", "settling", "permanent", "transient"}

NoRows == [e \in Events |-> NoRow]

Init ==
  /\ hookdeck = [e \in Events |-> "queued"]
  /\ attempts = [e \in Events |-> 0]
  /\ phase = "serving" /\ instance = 1
  /\ pc = [h \in Handlers |-> "idle"]
  /\ req = [h \in Handlers |-> NoRequest]
  /\ answer = [h \in Handlers |-> "none"]
  /\ inFlight = {}
  /\ mem = NoRows /\ disk = NoRows /\ writes = <<>> /\ persistence = "active"
  /\ deadLetter = {}
  /\ todo = {} /\ current = NoEvent /\ step = "next" /\ budget = 0
  /\ ran = {} /\ completed = {} /\ requeued = {} /\ interrupted = {}

-------------------------------------------------------------------------------
(* Hookdeck.  An event has at most one attempt outstanding; the answer to   *)
(* it decides what Hookdeck does next, later answers are ignored.           *)

AfterFailure(e) == IF attempts[e] < AutoAttempts THEN "queued" ELSE "gave_up"

\* The header the handler parses, and isLastAutomaticAttempt.
Header(r) == IF r.event \in Headerless THEN NoAttempt ELSE r.attempt
IsLast(r) == r.attempt >= AutoAttempts

Deliver(e, h) ==
  /\ phase = "serving" /\ pc[h] = "idle"
  /\ hookdeck[e] = "queued" /\ attempts[e] < MaxAttempts
  /\ hookdeck' = [hookdeck EXCEPT ![e] = "delivering"]
  /\ attempts' = [attempts EXCEPT ![e] = @ + 1]
  /\ pc' = [pc EXCEPT ![h] = "reading"]
  /\ req' = [req EXCEPT ![h] =
               [event |-> e, attempt |-> attempts[e] + 1, copy |-> FALSE]]
  /\ UNCHANGED <<processVars, answer, inFlight, ledgerVars, deadLetter,
                 recoveryVars, historyVars>>

\* An attempt Hookdeck has closed arrives once more; nobody awaits the answer.
DeliverCopy(e, h) ==
  /\ phase = "serving" /\ pc[h] = "idle"
  /\ attempts[e] > 0 /\ hookdeck[e] # "delivering"
  /\ pc' = [pc EXCEPT ![h] = "reading"]
  /\ req' = [req EXCEPT ![h] =
               [event |-> e, attempt |-> attempts[e], copy |-> TRUE]]
  /\ UNCHANGED <<hookdeckVars, processVars, answer, inFlight, ledgerVars,
                 deadLetter, recoveryVars, historyVars>>

\* Nobody listens, or the process answers 503 "starting": a failed attempt.
DeliverWhileAway(e) ==
  /\ phase # "serving"
  /\ hookdeck[e] = "queued" /\ attempts[e] < MaxAttempts
  /\ attempts' = [attempts EXCEPT ![e] = @ + 1]
  /\ hookdeck' = [hookdeck EXCEPT ![e] =
                    IF attempts[e] + 1 < AutoAttempts THEN "queued" ELSE "gave_up"]
  /\ UNCHANGED <<processVars, handlerVars, ledgerVars, deadLetter, recoveryVars,
                 historyVars>>

\* The answer is lost or late: the attempt counts as failed.
AttemptTimesOut(e) ==
  /\ hookdeck[e] = "delivering"
  /\ hookdeck' = [hookdeck EXCEPT ![e] = AfterFailure(e)]
  /\ UNCHANGED <<attempts, processVars, handlerVars, ledgerVars, deadLetter,
                 recoveryVars, historyVars>>

\* An operator asks Hookdeck for one more attempt of a retired event.
ManualRetry(e) ==
  /\ hookdeck[e] \in {"acknowledged", "cancelled", "gave_up"}
  /\ attempts[e] < MaxAttempts
  /\ hookdeck' = [hookdeck EXCEPT ![e] = "queued"]
  /\ UNCHANGED <<attempts, processVars, handlerVars, ledgerVars, deadLetter,
                 recoveryVars, historyVars>>

-------------------------------------------------------------------------------
(* The ledger over its JSONL store.  put sets the row in memory at once and *)
(* queues the append; whoever put it waits for its job to leave the queue.  *)

Put(e, row, by) ==
  /\ mem' = [mem EXCEPT ![e] = row]
  /\ writes' = IF persistence = "active"
               THEN Append(writes, [event |-> e, row |-> row, by |-> by])
               ELSE writes

Begin(e, header, by) == Put(e, BeginRow(mem[e], header, instance), by)
Settle(e, status, by) ==
  IF mem[e] = NoRow THEN UNCHANGED <<mem, writes>>
                    ELSE Put(e, SettleRow(mem[e], status), by)

Writing(by) == \E i \in DOMAIN writes : writes[i].by = by

Applied(job) == [disk EXCEPT ![job.event] = job.row]

\* The append is on disk; it may set off a compaction of all of memory.
WriteDone ==
  /\ writes # <<>>
  /\ disk' \in {Applied(Head(writes)), mem}
  /\ writes' = Tail(writes)
  /\ UNCHANGED <<hookdeckVars, processVars, handlerVars, mem, persistence,
                 deadLetter, recoveryVars, historyVars>>

\* A failed write degrades the store for the life of the process: what is
\* queued is dropped, and those who wait for it carry on.
WriteFails ==
  /\ DiskMayFail
  /\ writes # <<>>
  /\ disk' \in {disk, Applied(Head(writes))}
  /\ persistence' = "disabled" /\ writes' = <<>>
  /\ UNCHANGED <<hookdeckVars, processVars, handlerVars, mem, deadLetter,
                 recoveryVars, historyVars>>

-------------------------------------------------------------------------------
(* The request pipeline.                                                    *)

\* Method, route, content type, body, secret, signature, event id.
RejectEarly(h) ==
  /\ pc[h] = "reading"
  /\ \E a \in EarlyRejections : answer' = [answer EXCEPT ![h] = a]
  /\ pc' = [pc EXCEPT ![h] = "answered"]
  /\ UNCHANGED <<hookdeckVars, processVars, req, inFlight, ledgerVars, deadLetter,
                 recoveryVars, historyVars>>

\* The registry has no slot left.
AtCapacity == Cardinality(inFlight) >= MaxConcurrent

\* Mutation: a bound one too high.
VerdictOverCapacity(r, canAccept) ==
  CASE r.event \in inFlight \/ Cardinality(inFlight) > MaxConcurrent -> "retry"
    [] OTHER -> IF Admits(mem[r.event], Header(r)) THEN "begin" ELSE "ok"

\* The verdict on a verified request: one synchronous stretch of code, from
\* the in-flight check to the ledger write.
Verdict(r, canAccept) ==
  CASE r.event \in inFlight                     -> "retry"
    [] r.event \notin inFlight /\
       (AtCapacity \/ ~canAccept) -> "retry"
    [] OTHER ->
       CASE ~Admits(mem[r.event], Header(r))    -> "ok"
         [] Admits(mem[r.event], Header(r)) /\ r.event \in Malformed -> "cancel"
         [] Admits(mem[r.event], Header(r)) /\ r.event \in Filtered \ Malformed -> "ok"
         [] OTHER                               -> "begin"

\* Answered on the spot; a slot taken on the way is given back in finally.
TurnAway(h, canAccept) ==
  /\ pc[h] = "reading"
  /\ Verdict(req[h], canAccept) # "begin"
  /\ answer' = [answer EXCEPT ![h] = Verdict(req[h], canAccept)]
  /\ pc' = [pc EXCEPT ![h] = "answered"]
  /\ UNCHANGED <<hookdeckVars, processVars, req, inFlight, ledgerVars, deadLetter,
                 recoveryVars, historyVars>>

Admit(h, canAccept) ==
  /\ pc[h] = "reading"
  /\ Verdict(req[h], canAccept) = "begin"
  /\ inFlight' = inFlight \cup {req[h].event}
  /\ Begin(req[h].event, Header(req[h]), h)
  /\ pc' = [pc EXCEPT ![h] = "beginning"]
  /\ UNCHANGED <<hookdeckVars, processVars, req, answer, disk, persistence,
                 deadLetter, recoveryVars, historyVars>>

\* Mutation: begin is not awaited.
DispatchBeforeWrite(h) ==
  /\ pc[h] = "beginning"
  /\ pc' = [pc EXCEPT ![h] = "dispatching"]
  /\ ran' = ran \cup {<<req[h].event, req[h].attempt>>}
  /\ UNCHANGED <<hookdeckVars, processVars, req, answer, inFlight, ledgerVars,
                 deadLetter, recoveryVars, completed, requeued, interrupted>>

\* The row is written: the dispatcher is called.
Dispatch(h) ==
  /\ pc[h] = "beginning" /\ ~Writing(h)
  /\ pc' = [pc EXCEPT ![h] = "dispatching"]
  /\ ran' = ran \cup {<<req[h].event, req[h].attempt>>}
  /\ UNCHANGED <<hookdeckVars, processVars, req, answer, inFlight, ledgerVars,
                 deadLetter, recoveryVars, completed, requeued, interrupted>>

\* The dispatcher returns: work done, a failure worth retrying, or input no
\* retry can help.  The handler settles the row with what it was told.
DispatchReturns(h, a) ==
  /\ pc[h] = "dispatching" /\ a \in {"ok", "retry", "cancel"}
  /\ answer' = [answer EXCEPT ![h] = a]
  /\ Settle(req[h].event, IF a = "ok" THEN "succeeded" ELSE "failed", h)
  /\ pc' = [pc EXCEPT ![h] = "settling"]
  /\ completed' = IF a = "ok" THEN completed \cup {req[h].event} ELSE completed
  /\ UNCHANGED <<hookdeckVars, processVars, req, inFlight, disk, persistence,
                 deadLetter, recoveryVars, ran, requeued, interrupted>>

\* Mutations: a throw gives the slot back too soon; a throw skips the settle.
ThrowReleasesSlot(h) ==
  /\ pc[h] = "dispatching"
  /\ answer' = [answer EXCEPT ![h] = "retry"]
  /\ Settle(req[h].event, "failed", h)
  /\ inFlight' = inFlight \ {req[h].event}
  /\ pc' = [pc EXCEPT ![h] = "failing"]
  /\ UNCHANGED <<hookdeckVars, processVars, req, disk, persistence, deadLetter,
                 recoveryVars, historyVars>>

ThrowLeavesRow(h) ==
  /\ pc[h] = "dispatching"
  /\ answer' = [answer EXCEPT ![h] = "retry"]
  /\ pc' = [pc EXCEPT ![h] = "settling"]
  /\ UNCHANGED <<hookdeckVars, processVars, req, inFlight, ledgerVars, deadLetter,
                 recoveryVars, historyVars>>

\* The dispatcher throws: settled failed in the catch block ...
DispatchThrows(h) ==
  /\ pc[h] = "dispatching"
  /\ answer' = [answer EXCEPT ![h] = "retry"]
  /\ Settle(req[h].event, "failed", h)
  /\ pc' = [pc EXCEPT ![h] = "failing"]
  /\ UNCHANGED <<hookdeckVars, processVars, req, inFlight, disk, persistence,
                 deadLetter, recoveryVars, historyVars>>

\* ... and once more after it.
SettleAfterThrow(h) ==
  /\ pc[h] = "failing" /\ ~Writing(h)
  /\ Settle(req[h].event, "failed", h)
  /\ pc' = [pc EXCEPT ![h] = "settling"]
  /\ UNCHANGED <<hookdeckVars, processVars, req, answer, inFlight, disk,
                 persistence, deadLetter, recoveryVars, historyVars>>

\* The settled row is written: finally releases the slot.
Release(h) ==
  /\ pc[h] = "settling" /\ ~Writing(h)
  /\ inFlight' = inFlight \ {req[h].event}
  /\ pc' = [pc EXCEPT ![h] = "answered"]
  /\ UNCHANGED <<hookdeckVars, processVars, req, answer, ledgerVars, deadLetter,
                 recoveryVars, historyVars>>

\* Mutation: cancellations are forgotten.
UndeliverableLastOnly(h) == answer[h] = "retry" /\ IsLast(req[h])

\* What Hookdeck will not try again leaves a local record, if it is verified.
Undeliverable(h) ==
  \/ answer[h] = "cancel"
  \/ answer[h] \in {"retry", "no_event_id"} /\ IsLast(req[h])

Recorded(h) == IF answer[h] = "no_event_id" THEN {} ELSE {req[h].event}

\* Mutation: a degraded store keeps the answer back.
RecordGatesAnswer(h) ==
  /\ pc[h] = "answered" /\ Undeliverable(h) /\ persistence = "active"
  /\ deadLetter' = deadLetter \cup Recorded(h)
  /\ pc' = [pc EXCEPT ![h] = "recorded"]
  /\ UNCHANGED <<hookdeckVars, processVars, req, answer, inFlight, ledgerVars,
                 recoveryVars, historyVars>>

RecordDeadLetter(h) ==
  /\ pc[h] = "answered" /\ Undeliverable(h)
  /\ deadLetter' = deadLetter \cup Recorded(h)
  /\ pc' = [pc EXCEPT ![h] = "recorded"]
  /\ UNCHANGED <<hookdeckVars, processVars, req, answer, inFlight, ledgerVars,
                 recoveryVars, historyVars>>

\* What Hookdeck makes of an answer to attempt n of e.
Reaction(e, a) ==
  CASE a = "ok"                                                -> "acknowledged"
    [] a \in {"cancel", "unsupported"} /\ AllowRetryCancel     -> "cancelled"
    [] a = "unsupported" /\ ~AllowRetryCancel                  -> "gave_up"
    [] OTHER                                                   -> AfterFailure(e)

Awaited(r) ==
  /\ ~r.copy
  /\ hookdeck[r.event] = "delivering" /\ attempts[r.event] = r.attempt

Respond(h) ==
  /\ pc[h] = IF Undeliverable(h) THEN "recorded" ELSE "answered"
  /\ hookdeck' = IF Awaited(req[h])
                 THEN [hookdeck EXCEPT ![req[h].event] = Reaction(req[h].event, answer[h])]
                 ELSE hookdeck
  /\ pc' = [pc EXCEPT ![h] = "idle"]
  /\ req' = [req EXCEPT ![h] = NoRequest]
  /\ answer' = [answer EXCEPT ![h] = "none"]
  /\ UNCHANGED <<attempts, processVars, inFlight, ledgerVars, deadLetter,
                 recoveryVars, historyVars>>

-------------------------------------------------------------------------------
(* Crashes, restarts and the reconciliation of interrupted work.            *)

\* kill -9 or power loss: memory goes; the write in progress may be on disk.
Crash ==
  /\ phase # "down" /\ instance < MaxInstances
  /\ phase' = "down"
  /\ disk' \in {disk} \cup {Applied(writes[i]) : i \in DOMAIN writes \cap {1}}
  /\ interrupted' = interrupted \cup
       {<<req[h].event, mem[req[h].event].attempt>> :
          h \in {x \in Handlers : pc[x] = "dispatching"}}
  /\ pc' = [h \in Handlers |-> "idle"]
  /\ req' = [h \in Handlers |-> NoRequest]
  /\ answer' = [h \in Handlers |-> "none"]
  /\ inFlight' = {}
  /\ mem' = NoRows /\ writes' = <<>>
  /\ todo' = {} /\ current' = NoEvent /\ step' = "next" /\ budget' = 0
  /\ UNCHANGED <<hookdeckVars, instance, persistence, deadLetter, ran, completed,
                 requeued>>

\* The service starts: the stores load, or degrade if the file cannot be
\* read, then interrupted work is listed.
Boot ==
  /\ phase = "down"
  /\ phase' = "booting" /\ instance' = instance + 1
  /\ \/ mem' = disk /\ persistence' = "active"
     \/ DiskMayFail /\ mem' = NoRows /\ persistence' = "disabled"
  /\ todo' = IF RecoveryEnabled
             THEN {e \in Events : IsOrphan(mem'[e], instance + 1)} ELSE {}
  /\ budget' = MaxRecoveries
  /\ UNCHANGED <<hookdeckVars, handlerVars, disk, writes, deadLetter, current,
                 step, historyVars>>

\* Beyond the budget, or without an API key: recorded, then settled.
RecordSkipped(e) ==
  /\ phase = "booting" /\ step = "next" /\ e \in todo
  /\ budget = 0 \/ ~HasClient
  /\ deadLetter' = deadLetter \cup {e}
  /\ todo' = todo \ {e} /\ current' = e /\ step' = "settle"
  /\ UNCHANGED <<hookdeckVars, processVars, handlerVars, ledgerVars, budget,
                 historyVars>>

\* POST /events/{id}/retry, accepted; the reply may still be lost.
RetryAccepted(e, reply) ==
  /\ phase = "booting" /\ step = "next" /\ e \in todo
  /\ budget > 0 /\ HasClient
  /\ reply \in {"settle", "transient"}
  /\ attempts[e] < MaxAttempts
  /\ hookdeck' = [hookdeck EXCEPT ![e] = IF @ = "delivering" THEN @ ELSE "queued"]
  /\ requeued' = requeued \cup {<<e, mem[e].attempt>>}
  /\ budget' = budget - 1
  /\ todo' = todo \ {e} /\ current' = e /\ step' = reply
  /\ UNCHANGED <<attempts, processVars, handlerVars, ledgerVars, deadLetter, ran,
                 completed, interrupted>>

\* Mutation: a permanent refusal settles the row and records nothing.
RefusedUnrecorded(e, reply) ==
  /\ phase = "booting" /\ step = "next" /\ e \in todo
  /\ budget > 0 /\ HasClient
  /\ reply \in {"permanent", "transient"}
  /\ budget' = budget - 1
  /\ todo' = todo \ {e} /\ current' = e
  /\ step' = IF reply = "permanent" THEN "settle" ELSE reply
  /\ UNCHANGED <<hookdeckVars, processVars, handlerVars, ledgerVars, deadLetter,
                 historyVars>>

\* The call fails: for good (the event aged out), or for now.
RetryRefused(e, reply) ==
  /\ phase = "booting" /\ step = "next" /\ e \in todo
  /\ budget > 0 /\ HasClient
  /\ reply \in {"permanent", "transient"}
  /\ budget' = budget - 1
  /\ todo' = todo \ {e} /\ current' = e /\ step' = reply
  /\ UNCHANGED <<hookdeckVars, processVars, handlerVars, ledgerVars, deadLetter,
                 historyVars>>

\* Mutation: the loop does not move on after a transient refusal.
RefusalBlocksBoot ==
  /\ phase = "booting" /\ step = "permanent"
  /\ deadLetter' = deadLetter \cup {current}
  /\ step' = "settle"
  /\ UNCHANGED <<hookdeckVars, processVars, handlerVars, ledgerVars, todo, current,
                 budget, historyVars>>

\* A refusal is recorded; only a permanent one settles the row.
RecordRefused ==
  /\ phase = "booting" /\ step \in {"permanent", "transient"}
  /\ deadLetter' = deadLetter \cup {current}
  /\ step' = IF step = "permanent" THEN "settle" ELSE "next"
  /\ current' = IF step = "permanent" THEN current ELSE NoEvent
  /\ UNCHANGED <<hookdeckVars, processVars, handlerVars, ledgerVars, todo, budget,
                 historyVars>>

SettleOrphan ==
  /\ phase = "booting" /\ step = "settle"
  /\ Settle(current, "failed", "boot")
  /\ step' = "settling"
  /\ UNCHANGED <<hookdeckVars, processVars, handlerVars, disk, persistence,
                 deadLetter, todo, current, budget, historyVars>>

OrphanSettled ==
  /\ phase = "booting" /\ step = "settling" /\ ~Writing("boot")
  /\ step' = "next" /\ current' = NoEvent
  /\ UNCHANGED <<hookdeckVars, processVars, handlerVars, ledgerVars, deadLetter,
                 todo, budget, historyVars>>

Serve ==
  /\ phase = "booting" /\ step = "next" /\ todo = {}
  /\ phase' = "serving"
  /\ UNCHANGED <<hookdeckVars, instance, handlerVars, ledgerVars, deadLetter,
                 recoveryVars, historyVars>>

-------------------------------------------------------------------------------
Store == WriteDone \/ WriteFails

HookdeckActs ==
  \/ \E e \in Events, h \in Handlers : Deliver(e, h) \/ DeliverCopy(e, h)
  \/ \E e \in Events : DeliverWhileAway(e) \/ AttemptTimesOut(e) \/ ManualRetry(e)

External == HookdeckActs \/ Crash

\* The steps of a handler, whatever its dispatcher does.
Pipeline(h, canAccept) ==
  \/ RejectEarly(h) \/ TurnAway(h, canAccept) \/ Admit(h, canAccept)
  \/ SettleAfterThrow(h) \/ Release(h) \/ RecordDeadLetter(h) \/ Respond(h)

Handler(h) ==
  \/ Pipeline(h, TRUE)
  \/ Dispatch(h)
  \/ \E a \in Answers : DispatchReturns(h, a)
  \/ DispatchThrows(h)

Reconcile ==
  \/ \E e \in Events : RecordSkipped(e)
  \/ \E e \in Events, reply \in Steps : RetryAccepted(e, reply) \/ RetryRefused(e, reply)
  \/ RecordRefused \/ SettleOrphan \/ OrphanSettled \/ Serve

Next ==
  \/ External \/ Store \/ Boot \/ Reconcile
  \/ \E h \in Handlers : Handler(h)

Spec == Init /\ [][Next]_vars

\* Promise callbacks run: the disk answers, a handler that can take a step
\* takes one, a process that is down is started again and reconciles.
Fairness ==
  /\ WF_vars(Store) /\ WF_vars(Boot) /\ WF_vars(Reconcile)
  /\ \A h \in Handlers : WF_vars(Handler(h))

FairSpec == Spec /\ Fairness
===============================================================================
