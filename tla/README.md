# Verification of the Hookdeck plugin for OpenClaw

TLA+ models, model-checking runs and machine-checked proofs for the plugin in
`src/` and `index.ts`. Paths below are relative to the repository root;
`PROJECT.json` maps every definition to the lines it models.

The plugin receives webhook events from Hookdeck, a durable queue that delivers
each event by HTTP, retries what is not answered 2xx, and retires the rest. The
plugin turns each event into one unit of work. What makes it hard is the
contract between two parties that both crash, time out and retry:

* an event answered 2xx is never sent again, so it must not be acknowledged
  before it is on disk, and what goes wrong afterwards must leave a record;
* an event answered otherwise is sent again, with the same id and a higher
  attempt number, so a retry must not be mistaken for a duplicate, and a
  duplicate must not be mistaken for a retry.

## 1. Inventory

| Component | State | Operations | What makes it correct |
|---|---|---|---|
| Admission rule (`protocol/admission.ts`) | none | `decideAdmission`, `plausibleAttempt` | an attempt is admitted once; a genuine retry of failed work is always admitted; an implausible header changes nothing |
| Ledger (`store/ledger.ts`) | one row per event: highest attempt, status, owner, redeliveries asked for | `get`, `begin`, `settle`, `listOrphans`, `prune` | the bar never falls; a running row always has someone who will settle it |
| Ingress pipeline (`ingress/handler.ts`, `index.ts`) | one activation per request | checks, in-flight check, admission, `begin`, dispatch, `settle`, dead letter, answer | one handler per event; no slot leaks; nothing retired silently |
| In-flight registry (`store/in-flight.ts`) | set of event ids, capacity | `acquire`, `release`, `has` | holds exactly the events being worked on |
| JSONL store (`store/jsonl-store.ts`, `store/store-io.ts`) | memory, file, promise queue, degradation flag | `load`, `put`, `delete`, `prune`, `compact`, `close` | what was acknowledged survives crashes, torn writes, compaction |
| Recovery (`recovery.ts`) | the loop over orphans and its budget | `reconcileOrphans` at boot | interrupted work is handed back or recorded before its row closes |
| Dead-letter log (`store/deadletter.ts`) | bounded list of records | `record` with oldest-first eviction, `list` | a record that is the only trace of an event is there |
| Dispatchers (`dispatch/*.ts`) | agent: `activeRuns` and the runs in the background | `canAccept`, `dispatch`, `settleAfterRun` | a background run settles its own row once; its slot comes back; its retry budget is finite |
| Cursors (`store/cursor-store.ts`) | per route: `pausedByUs`, `pauseReason`, `lastDisconnectAt`, `lastSeenAt`, connection | `patch`, `clear` | a paused connection is always found by somebody who unpauses it |
| Transport manager (`transport/manager.ts`) | listeners, heartbeat | `start`, `stop`, `recoverRoute`, `recordDisconnect` | paused on shutdown, unpaused on connect; an outage is replayed from where it began |
| CLI listener (`transport/cli-transport.ts`, `backoff.ts`) | child process, timers, backoff | `launch`, readiness, exit, restart, `stop` | at most one child; after `stop` none is started |
| Catch-up (`catchup.ts`) | one bulk replay | `runCatchUp`, `waitForBatch` | an outage is forgotten only when its replay was accepted |
| Tools (`tools/*.ts`) | auto-resume timers | `pause`, `replay`, `issues`, ... | an operator's pause is not lifted by a restart, and is lifted in the end |
| Provisioning (`hookdeck/provision.ts`, `tools/setup.ts`) | the fingerprint of the last upsert, in the cursor row | `buildConnectionSpec`, upsert at start or by setup, `uncoveredStatuses` | the connection is the one the configuration asks for; its retry rule covers every status we answer |
| Answers (`protocol/outcome.ts`) | none | one plan per outcome | what is cancelled is hopeless; what could succeed is retried |
| API client, configuration, secrets, signatures, templates, filters, CLI discovery | none that outlives a call | pure functions or one call each | their verdicts are inputs of the parts above |

**Interactions.** Hookdeck calls the pipeline. The pipeline calls the registry,
the ledger (over the store), the dispatcher and the dead-letter log, in that
order, and suspends at each `await`. At boot the service loads the stores, runs
the recovery to its end, and only then publishes the runtime: until it does,
requests are answered 503. The transport manager starts after that; its
listeners call back on connect and exit. The agent dispatcher starts runs that
outlive the request and settle the ledger on their own.

**Hard behaviours.** Interleaving of request handlers at every `await`; an
attempt that times out at Hookdeck while its handler still works; copies of a
delivery; the process dying between any two steps; a write cut short; a write
that fails; a retry request whose reply is lost; a budget that truncates. The
list with source lines is under `hazards` in `PROJECT.json`. On the side of the
transport: a tunnel that drops while the outage before it is being replayed, a
pause whose reply is lost, a banner from a child already told to end, an operator,
a timer, a reconnect and a shutdown that all change the same pause.

## 2. Modules

| Module | Models | Status |
|---|---|---|
| `Admission` | the rule and the row operations, as operators | done |
| `Delivery` | pipeline, registry, ledger over its store, recovery, crashes | done |
| `DeliveryProperties` | what the delivery path promises | done |
| `MCDelivery` | instances for TLC | done |
| `DurableMap` | abstract: what a store promises its callers | done |
| `JsonlStore` | the store as it is; refines `DurableMap` | done |
| `AdmissionProofs`, `DeliveryProofs` | theorems: the rule; types, handlers and slots of the pipeline | done |
| `LedgerProofs` | theorems: rows, attempts, records and interrupted work of the pipeline | done |
| `JsonlStoreProofs` | theorems: the invariants of the store, and its refinement of `DurableMap` | done |
| `AgentRuns` | extends `Delivery`: the agent dispatcher, background runs, retry budget | done |
| `MCAgentRuns`, `AgentRunsProofs` | its instances and theorems | done |
| `Tunnel` | abstract: what the manager expects of a route's tunnel | done |
| `CliListener` | the supervisor of one `hookdeck listen` child; implements `Tunnel` | done |
| `Transport` | manager, listener, cursor row, catch-up, pause tool, service, against Hookdeck's connection | done |
| `TransportProperties`, `MCTransport` | what the transport promises; its instances | done |
| `TransportProofs`, `PauseProofs` | theorems about the listener and the transport | done |
| `Outcome` | the plans, and the retry rule of a connection | done |
| `TaskFlow` | what an envelope does to the host's flows and what is answered | done |
| `Ingress` | the gates of a delivery in their order, and the dispatch behind them | done |
| `Provisioning` | specification, fingerprint, upsert, edits, signing secrets | done |
| `DeadLetterLog` | the bounded log, with records that overlap | done |
| `Contract` | all five against Hookdeck's retries, an operator and the host | done |
| `ContractProperties`, `MCContract`, `ContractProofs` | its promises, instances, theorems | done |

`Delivery` extends `Admission`; `AgentRuns` reuses the actions of `Delivery`
with its own dispatcher (`Pipeline(h, canAccept)` is a parameterised disjunct for
that purpose). `Transport` extends `CliListener`: every callback of the listener is
one action made of the listener's step and the manager's. `Contract` extends
`Provisioning` (over `Ingress`, `TaskFlow`, `Outcome`, `Admission`) and
`DeadLetterLog`.

The three models divide the plugin by the question. `Delivery` and `AgentRuns` open
up a delivery and crash between any two of its awaits. `Contract` closes it again (a
delivery is one step up to its dead letter) and asks what the answers, all of
them, do to an event over several deliveries. `Transport` asks whether events reach
the process at all. Abstract specifications: `DurableMap` for the store, `Tunnel` for
the listener; for the delivery path, a per-event life cycle (held, working, done,
recorded) that `Delivery` is to refine is planned.

### Admission

Rows keep what decisions depend on. `updatedAt`, `runCount` and `routeId` are
left out; recovery's oldest-first order becomes any order. The absent header is
`NoAttempt`. `BeginRow` and `SettleRow` are the rows `begin` and `settle` put.

### Delivery

One handler activation has a program counter named for what it awaits:

    idle -> reading -> beginning -> dispatching -> settling -> answered [-> recorded] -> idle
                  \-> answered          \-> failing /

`Verdict` is the synchronous stretch of `runPipeline` from the in-flight check to
the filters; `Admit` includes the ledger write it ends in. `Put` sets memory and
queues the append; a handler waits until no job of its own is queued
(`~Writing(h)`), which is what awaiting `put` means, because a failed write
drops the queue and lets its callers go on. `WriteDone` may also write all of
memory, the compaction a `put` can set off. `DispatchReturns` takes any outcome
a synchronous dispatcher gives (`wake`, `taskflow`); `DispatchThrows` and
`SettleAfterThrow` are the two settles of the `catch` path.

`Crash` forgets everything but `disk`; `Boot` loads it and lists the orphans;
`RecordSkipped`, `RetryAccepted`, `RetryRefused`, `RecordRefused`, `SettleOrphan`
and `OrphanSettled` are the awaits of the recovery loop. A reply that is lost is
an accepted retry seen as a transient failure.

Hookdeck is external: an event is queued, delivering, acknowledged, cancelled or
given up; at most one attempt is outstanding; copies of an attempt arrive only
after Hookdeck has closed it. `ran`, `completed`, `requeued` and `interrupted`
are history: no action reads them.

Left to other modules: expiry of ledger rows and torn lines (`JsonlStore`), the
bound of the dead-letter log (`DeadLetterLog`; a write to it is one step here),
background runs (`AgentRuns`), the graceful stop (`Transport`), which status each
gate answers (`Ingress`).

### AgentRuns

`activeRuns` is the dispatcher's counter. `Busy`, `InvalidInput` and `StartRun`
are the synchronous head of `dispatch`; `RunReturns` and `StartThrows` give the
slot back in `finally`; `GoesBackground` hands it to a waiter and answers 202. A
waiter is one activation of `settleAfterRun`, and its program counter names what
it awaits:

    waiting -> ending                                   (succeeded)
            -> failing -> ending                        (redelivery accepted)
                       -> [unanswered ->] exhausting -> ending
            -> losing, as failing                       (the wait threw)

`attempted` is the retry count the waiter took when its run failed, 0 in the catch
path, which counts nothing. `RetryTaken(w, FALSE)` is a retry Hookdeck accepted
whose reply is lost. There are as many waiters as run slots, because a waiter
holds one. `stranded` is history. Hookdeck is taken to make one
more attempt for each retry it accepts; one requested while an attempt is
outstanding is accepted once that attempt is closed.

### JsonlStore

A record is the number of the operation that put it, so that "an older record
came back" is a statement about numbers. A file is a sequence of lines, the last
of which may lack its newline; `Garbage` is a line that does not parse.
`AppendDone`, `CompactStart` and `CompactDone` are the jobs of the promise queue;
a `put` whose append asks for a compaction resolves only after it. `CutShort` is
what a write that does not return may leave. `DurableMap` is the promise:
operations are issued, acknowledged, and what a restart loads honours, key by
key, the last acknowledged operation or a later one.

### CliListener and Tunnel

`state` is the source's `TransportState`; `child` is the process and what it was
sent; the three timers are booleans, and a timer that is set may fire at any time, so
backoff is left out. `stopper` is the activation of `stop()`: waiting for the exit
or its grace, then done. `ExitHandlers` is the handler of the supervisor and the one
`stop()` adds, in that order. The manager passes no `maxConsecutiveFailures`, so that
`failed` cannot be reached. `Tunnel` is what is left when one only asks whether
a tunnel is wanted and whether it is up.

### Transport

Hookdeck's connection is open or paused, by whom is history; a request arriving at
an open connection without a session is discarded, which is what an outage loses.
`clock` counts those requests, so that "before the disconnection" and "after the
heartbeat" are comparisons of numbers and nothing else moves time.

| Code | Actions |
|---|---|
| `manager.start`, `adoptCrashedRun` | `Boot`, `MarkerCleared`, `StartTransport` |
| heartbeat | `Heartbeat` |
| `onConnect`, `onDisconnect` | `TunnelConnects`, `ChildEnds` |
| `recoverRoute`: unpause, query, replay, `waitForBatch` | `UnpauseReturns`, `CatchUp`, `ReplayReturns`, `WaitEnds` |
| `manager.stop` | `StopService`, `ShutdownPauseReturns`, `CloseTunnel`, `TransportStopped` |
| pause tool, its timer | `PauseTool`, `ToolPauseReturns`, `ResumeTool`, `TimerFires`, `ToolUnpauseReturns`, `ReasonCleared` |
| SIGKILL, a crash, the end of a stopped process | `ProcessEnds` |

Each call of Hookdeck's API is two steps, before and after its answer; the answer is
an acceptance, a refusal, or an acceptance whose reply is lost. There are as many
concurrent activations of `recoverRoute` as `Recoveries`, because the code starts one
at each banner and waits for none. History variables: `replayed` (requests a
replay covered), `exposed` (requests discarded while a replay ran, or in the rest of an
outage whose stamp it erased, which is `blind`), `told` (recoveries whose child was told
to end), `mishaps`. They name the interleavings that break a promise. Each promise is
stated with exactly the named interleavings exempt, in a run and a theorem that show
there is no other; the catch-up and the operator's pause also as the repository makes
them, each in a run that shows it broken. Section 5 lists them all.

Assumed: a patch of the cursor row is one durable step; one route in CLI
mode; one activation of the pause tool; the child dies with the process; the grace
of a CLI session (about two minutes, `docs/transport.md:30`) outlasts a recovery, whose
two calls (10 s each, `client.ts:267`) and wait for the batch (30 s) give up before; the
host awaits `start()` before it calls `stop()`. Three steps are coarser than the code: a
call of the API takes effect as its answer arrives; the end of a session and the stamp
of its disconnect, which the exit callback writes a moment later, are one step
(`ChildEnds`); and a banner that a killed child left in its pipe, which
`cli-transport.ts:221` would still act on, is not read (`Banner`).

### Outcome, TaskFlow, Ingress, Provisioning, DeadLetterLog, Contract

`Ingress` has the thirteen steps of `handleDelivery` as an ordered list of gates
(`Arrival` before the signature is verified, `Intake` after), each with the plan it
answers; `RunPipeline` adds the dispatch and the ledger row. `Circumstances` are the
troubles of the moment: no capacity, a full disk, a host that throws.
`TaskFlow` follows `taskflow.ts` action by action and code by code; the host's flow
runtime is external, known by the result codes the dispatcher tells apart; it changes
no flow of another controller (`Unmanaged`).
`Provisioning` keeps of a connection the path, the retry rule, the signing and the
verification, and takes the fingerprint for the specification it is a hash of.
`DeadLetterLog` writes row and evictions one by one; the log is a set of rows, which
`Before` orders as `list` does (by time, then by id).

`Contract` delivers: `Deliver` answers, `Reply` brings the answer to Hookdeck or loses
it, once the dead letter is written. Hookdeck retries, up to `Attempts`, what the
rule covers, what a `Retry-After` asks for whatever the rule, and what it got no
answer to; a manual replay is not retried by itself, nor is anything under a
connection without a rule. `Restart` (with another configuration, credentials that
resolve or do not), `SetupTool`, `DashboardEdit`, `SecretRoll` and `HostMovesFlow` are the
surroundings. Restarts fall between deliveries: inside one is `Delivery`.

## 3. Runs

| Run | Instance | Checks |
|---|---|---|
| `delivery_pipeline` | 3 events, one malformed, 2 at a time and 1 of them retried; 2 handlers; 1 slot; two crashes at any step; recovery budget 1 | `OneHandlerPerEvent`, `SlotsAccountedFor`, `CancelledIsRecorded`, `NoWedgedRow`, `InterruptedIsHandedBack`, `AttemptRunsOnce` |
| `delivery_degraded` | 1 event without attempt header; an early refusal; 2 handlers; failing disk; one crash; fairness | `TypeOK`, `RetryIsNoDuplicate`, `AcknowledgedIsTraced`, `DurableBeforeDispatch`, `EveryRequestEnds`, `OrphansAreHandled` |
| `agent_runs` | 1 event, 3 attempts, 2 run slots; `sync` mode; lost waits; one crash; a second event that races the first for a slot; fairness | `AgentTypeOK`, `RunSlotsExact`, `NoWedgedRun`, `OnlyStrandedRunsVanish`, `EveryRunConcludes` |
| `agent_crash` | 1 event, 1 run slot, one crash | `RunsAreTraced`: violated, finding 2 |
| `jsonl_store` | 2 keys, one perishable; 3 operations; 2 crashes; torn lines; failing disk | `TypeOK`, `AckedSurvives`, `IdleFileMatchesMemory`, `MemoryLeadsFile`, `ImplementsMap` |
| `transport` | 2 concurrent recoveries; three budgets: 2 lost requests and 2 unasked ends of the child; 1, 1 and two starts; two starts, a call of the pause tool, an end | `TypeOK`, `OnlyReplaysForget`, `PauseIsKnown`, `ShutdownHolds`, `TunnelIsTended`, `HeldGoToTunnel`, `OperatorPauseStands`, `ToldChildEnds`, `ImplementsTunnel` |
| `transport_catchup` | 2 recoveries, 1 lost request, 1 unasked end of the child | `OutageRecovered`: violated, finding 3 |
| `transport_operator` | 2 recoveries; restarts and a call of the pause tool, no outage | `OperatorPauseIsKept`: violated, finding 4 |
| `contract` | 39 scenarios in five families, 2 attempts, a log of 1 | `ContractTypeOK`, `OnlyForbiddenOrEarlyRevive`, `RetryableIsRetried`, `OnlyServerRangeFoolsDoctor`, `LostIsRecorded`, `LogKeepsNewest`, `ActedUponOnce`, `ConnectionMatchesConfig`, `VerificationStays` |
| `contract_early` | one envelope for the revision its flow has next | `CancelledIsHopeless`: violated, finding 5 |
| `contract_doctor` | one delivery that fails after a dashboard edit | `DoctorIsRight`: violated, finding 6 |
| `jsonl_open_tail` | 1 key; a write may stop just before its newline | `AckedSurvives`: violated, finding 1 |

**Bounds.** `MaxAttempts` = 2 gives every event a first delivery and one retry,
and with `AutoAttempts` 1 or 2 the retry is manual or automatic; a third attempt
meets a row no different from the second. Two handlers are enough for a race,
and one slot for two events makes capacity bite; `DeliveryProofs` covers any
number of either. Two crashes (`MaxInstances` = 3 in `delivery_pipeline`) may fall
between any two steps of a handler, of the store or of the recovery itself. With one
slot a crash leaves one orphan; an orphan the first recovery could not hand
back is still there at the second, so that boot finds two, and a budget of 1 truncates.
The constraint `TwoEvents` of that run lets two of the three events come at all and one
of them twice: a malformed event next to a proper one, or two proper ones.
In `agent_runs`, three attempts and two slots let a redelivered run overlap the one
that asked for it and fail in its turn, with a budget of one redelivery. The constraint
`OneRace` has the second event come once, while the other is at its first or second
attempt and its earlier run goes on, so that two handlers pass `canAccept` for the one
slot left; longer histories, crashes and copies are of the first event alone, whose
third attempt arrives once. In `jsonl_store`, floors and ratios of 1 make compaction happen
after two lines, three operations give a key two puts and a delete, and two
crashes let the file be torn, healed and torn again.

In `transport`, a behaviour spends on outages, on restarts or on the pause tool, not
on all: the three budgets together are out of TLC's reach. Two ends
of the child make a second outage begin during the replay of the first, two starts
put a shutdown and a crash before an adoption, and one call of the tool is paused,
overtaken, refused or lost; its timer resumes without a budget. The proofs remove these bounds
for all the safety properties. In `contract`, the families are: every kind of request alone
against every configuration; the roll of a signing secret; drift, a connection edited or made by
`hookdeck listen` against restarts and setup; races of two envelopes and the host
over one flow, one answer lost or replayed; three failures in a log
of one. `DeferAttemptLimit` = 1 makes the second attempt of a busy plugin
answered without `Retry-After`; revisions up to 2 let the host move a flow once
beyond two mutations.

**Fairness.** In `transport`, weak fairness of the grace timer of `stop()`, of the kill
timer and of the exit report of a child that was killed: timers fire and the
operating system reports the dead. Nothing else must happen; a child need not
heed SIGTERM. In `delivery_degraded`, weak fairness of the disk, of each
handler, of the boot and of the recovery loop: promise callbacks run, the
operating system answers a write or fails it, a dispatcher returns, and a
supervisor restarts a process that died. In `agent_runs`, weak fairness of
the disk and of each waiter: `waitFor` is given `BACKGROUND_WAIT_MS` and answers
by then. Nothing is assumed of Hookdeck, of
operators, or of crashes.

**Deadlock** is not checked: a state in which every event is retired and the
bounds are used up is a proper end.

## 4. Proofs

All theorems hold for any values of the constants that meet the named assumptions of the
modules: `DeliveryAssumption`, `AgentAssumption`, `TransportAssumption`,
`ChoicesAssumption` and `ScenariosAssumption` (types of what is given, and that the
names of those who write rows differ). Where a theorem needs more, it says so in its
statement; the three hypotheses that occur are explained at the end.

### Delivery

`AdmissionProofs` has the facts about the rule, for any row, header and bound:
`BeginNeverLowers`, `BarStaysPlausible`, `AdmittedAttemptIsClosed` (a number at
or below the recorded one is turned away in every status) and `RetryIsAdmitted`.

`DeliveryProofs` proves of `Spec`:

* `TypeCorrect`: `[]TypeOK`. `TypeOK` is not inductive: a handler that is not
  idle must hold a request and a recovery step in progress must have a row, which
  `HasRequest` and `HasOrphan` add. One step per action; the ledger operations
  are lemmas (`PutType`, `BeginPutType`, `SettlePutType`) on top of `BeginType`.
* `WorkIsExclusive` and `SlotsExact`: `[]OneHandlerPerEvent` and
  `[]SlotsAccountedFor`. The invariant is their conjunction with the finiteness of
  the registry. Neither is inductive without the other: an event not in the
  registry is worked on by nobody (so admitting it keeps the first), and an event
  worked on by one handler can be released (so the second survives). Most
  actions fall under `SlotsUntouched`; `SlotAdmit` and `SlotRelease` count with
  the cardinality theorems of the library.

`LedgerProofs` proves the rest of what the pipeline promises. A row of an event has
several versions at a time: in memory, on disk, and one in each job of the queue. Two
lemmas carry most of the arguments: `HandlerShape` (a handler's step leaves the ledger
alone, begins the row of its event, or settles it) and `VersionStep` (where a version
after a step comes from). On them rest:

| Theorem | Property | Inductive invariant, and why the property needs it |
|---|---|---|
| `NoRowIsWedged` | `NoWedgedRow` | `LedgerInv`. `OwnersArePast`: a booting instance must find no row that claims to be its own, or the reconciliation would pass it by. `RunningIsBegun`: a running row of the live instance has the handler that began it, which settles it before it lets go (`SettledRests`). |
| `BegunIsDurable` | `DurableBeforeDispatch` | `QueueInv`. Every job is awaited by whoever put it (`JobsAreAwaited`), and the newest job of an event holds what memory does (`QueueEndsInMemory`); a handler with no job left has its row on disk, where a later job of another event cannot undo it. |
| `CancellationIsRecorded` | `CancelledIsRecorded` | `RecordInv`: the letter is there from `recorded` to the answer. |
| `RetryIsNeverDuplicate` | `RetryIsNoDuplicate` | `AttemptInv`. No row has a number above what Hookdeck has counted (`RowsAreNumbered`), and the attempt Hookdeck awaits is the highest and is not yet in any row (`AwaitedIsNewest`); so the rule admits it. |
| `AcknowledgedStaysTraced` | `AcknowledgedIsTraced`, of events Hookdeck takes for delivered | `LossInv`. A running row nobody works on is on disk with nothing queued to overwrite it (`OrphansAreOnDisk`), only work that was done is recorded as such (`SuccessIsWork`), the answer that retires an event was earned (`OkIsEarned`), and the reconciliation settles nothing before it is handed over. |
| `OneDispatchPerAttempt` | `AttemptRunsOnce` | `RanInv`: the number of an attempt that ran is in every version of its row, so that whichever version a crash leaves closes it. |
| `InterruptedRunsAreHandedBack` | `InterruptedIsHandedBack` | `InterruptInv`: a run that a crash cut short stands in every version as running, or overtaken by a later attempt, until it was re-queued or recorded. |

### Agent runs

`AgentRunsProofs` proves of `AgentSpec`, for any number of handlers, waiters and
run slots:

* `RunSlotsCorrect`: `[]RunSlotsExact`. The invariant `AgentSlotInv` adds
  that the two sets being counted are finite, which is what lets a step that adds or
  removes one member change the count by one; handlers need not be finitely many. A
  slot is taken in `RunStarts`, changes hands in `SlotChangesHands`, and is given
  back in `RunStops` or `WaiterStops`; every other step falls under `HandlerGoesOn`,
  `WaiterGoesOn` or `RunsUntouched`.
* `AgentTypesHold`: `[]AgentTypeOK`, from Delivery's type invariant for the ledger the
  waiters share, and `HasRun` (a waiter at work has an event).
* `NoRunIsWedged`: `[]NoWedgedRun`. The lemmas of `LedgerProofs` are stated about
  what a step does to a row, not about who takes it, so they serve here with the
  waiters among the writers. What is new: a job is owed by a handler or by a waiter
  (`JobsAreOwed`), and a running row is attended by the handler that began it or by the
  waiter it handed its run to (`RunningIsAttended`); the hand-over at a 202 is the one
  step at which the first becomes the second. A waiter that settles a row while a
  redelivered run has begun it again cannot leave it running (`EndRests`).
* `OnlyTheStrandedVanish`: `[]OnlyStrandedRunsVanish`, that finding 2 is the only way an
  acknowledged event is lost while the disk works. The property speaks of events already
  answered; the invariant `BackedInv` (on top of `AgentLedgerInv` and `AttemptInv`) has to
  follow the event from the dispatch on. An event is `Backed` by a record, by a waiter
  between the end of its run and the record or retry it owes, or by a row that
  `RowStands`: running, of the newest attempt, and for nobody but a waiter to close.
  `BegunIsBacked`, `OkIsBacked` and `AcknowledgedIsBacked` carry this from the dispatch
  to the answer and from there to Hookdeck. A row on disk can be older than the one in
  memory, so a crash must not bring back a closed version: `RunningJobs` (a queued
  running row is awaited by the handler that began it) gives `RunningIsQuiet`, a running
  row nobody handles is on disk with nothing queued to overwrite it, and from it
  `StandsThroughCrash`. A waiter, though it be of an earlier run, closes such a row only
  to answer for the event (`RowRunsOn`), and it goes on until it has left a record or
  asked for the event again, or it dies, which is what `stranded` records
  (`AnsweringStep`). `OrphanIsHandedOver` is the same for the reconciliation at boot.

### Store

`JsonlStoreProofs` proves of the store's `Spec`, for any keys and bounds, as long as a
write is not cut short exactly before its newline (finding 1 is what happens then):

* `StoreTypesHold`, `NothingAckedIsLost`, `FileFollowsMemory`, `MemoryLeads`: the four
  invariants of the run. Their invariant is `StoreInv`: the queue keeps the order of
  the operations and acknowledges in that order (`OrderInv`); memory is the effect of an
  operation that nothing queued or written is newer than (`NewestInv`); a compaction in
  progress may replace the file at any step, so its snapshot must already hold what is
  acknowledged and what will be when it returns (`SnapshotInv`); a torn line is the
  last thing in the file until `load` has healed it (`PhaseInv`).
* `StoreIsDurableMap`: `ImplementsMap`, the refinement of `DurableMap`, step by step.
  `put` and `delete` issue an operation of the map; an append, a failed append and a
  compaction are writes of the map that acknowledge what they complete; a crash is a
  death that leaves the file honouring what was acknowledged; a load fills the
  map from what is stored, or leaves it empty.

`View`, what a restart reads of a file, takes the last line of each key. The lemmas
`ViewOfAppend` and `ViewOfLines` (an appended line decides its key; a
rewritten file gives back the memory it was made from) are all the proofs know of
it, and they follow from the definition without induction.

### Transport

`TransportProofs` first proves the invariant of the listener and the simulation of
`Tunnel` for whoever takes the listener's steps; `ListenerInv` ties each timer to the
state it belongs to, without which "somebody tends it" is not inductive. Both are
lifted to the transport's `Spec` by `ListenerMoves` (no action of the manager takes a
step of the listener that is not one of its own): `ListenerNeverStuck`, `ListenerIsTunnel`
(the safety part; the closing is `ToldChildEnds` and `ImplementsTunnel` in TLC). It
also proves `TransportTypes`, where time stays in range because each tick spends a discard, and

* `ReplaysAloneForget`: `[]OnlyReplaysForget`, which leaves out what was discarded while a
  replay ran (finding 3). The invariant `OutageInv` says why
  erasing a stamp is harmless otherwise (`ReplayCovers`: whoever waits for a batch has had
  every earlier request replayed), why adopting a heartbeat is (`StampBeforeLoss`), and that
  a tunnel that is down has a stamp, but for a process that died before it wrote
  one, whose heartbeat is there (`OutageStamped`).

`PauseProofs` proves `PausesAreKnown`, `ShutdownsHold`, `OperatorPausesStand` and
`HeldGoToSession` from one invariant, `PauseInv`: of the pauses no more than finding 4,
(c), (e) and their like goes wrong. A pause is marked before it is asked
for, so the mark must stand, or be known gone, as long as an answer is due
(`MarkStands`), and tool and shutdown must never be at it together (`OnePauser`: a
shutdown finds an operator's reason and skips); `UnpauseHasSession` carries the
banner's session through the calls that follow it.

### Contract

`ContractProofs` proves all nine properties of the `contract` run, for any scenarios,
configurations, edits, attempts and size of the log.

* `FingerprintIsTrue`, `VerificationIsKept`: deliveries leave the connection alone,
  so the delivery path is not expanded.
* `ContractTypesHold`, `LossIsOnFile`, `NothingIsDoneTwice`, `NothingIsDroppedUnsaid`,
  `DoctorTellsTheRest`, `TheOthersAreHopeless` (all but findings 5 and 6 and (f)), from
  `ContractInv`. Its parts relate a
  delivery in three places: what the answer asked for and what Hookdeck did
  (`AnswersInv`), what the answer says and what is on file (`FiledInv`), what was done
  and what was answered (`DoneInv`: a mutation that was applied has moved its flow
  beyond the revision it expects, which is why the redelivery cannot apply it again).
  `HopelessInv` says that a request which was answered any other cancellation stays hopeless whatever
  the host does to the flow: revisions only grow, and a flow that ended stays ended.
  About the pipeline as a pure function of request, configuration and circumstances the
  lemmas state which gate can give which plan.
* `NewestAreKept`: `[]LogKeepsNewest`. Evictions overlap, so a victim list may be stale
  when it is acted on. `LogInv`: no list has one of the newest rows ever filed, since
  a row's rank (how many rows come after it) only grows; and once all have put and
  evicted, each older row still in the log is on somebody's list. The rank
  argument is about cardinalities (`Ranks...` lemmas), not an induction over the log.

### Hypotheses in the statements

* `MaxAttempts <= MaxPlausibleAttempt` (`RetryIsNeverDuplicate`, `AcknowledgedStaysTraced`,
  `OneDispatchPerAttempt`, `OnlyTheStrandedVanish`). `MAX_PLAUSIBLE_ATTEMPT` is 10000 (`protocol/admission.ts`);
  Hookdeck's retries of one event are fewer by orders of magnitude. A header beyond the bound
  is read as absent on purpose, and an absent header cannot tell a retry from a copy.
* `~DiskMayFail` (`OneDispatchPerAttempt`, `InterruptedRunsAreHandedBack`,
  `OnlyTheStrandedVanish`). A degraded
  store keeps its rows in memory only, says so in its log, and after a crash neither can
  hold; the other theorems include the degraded store.
* `"no_newline" \notin TornWrites` (the store): finding 1.

### Only model-checked

The liveness properties (`EveryRequestEnds`, `OrphansAreHandled`, `EveryRunConcludes`,
`ToldChildEnds`, and the closing in `ImplementsTunnel`): there is no prover for `ENABLED`.
Every other property of the passing runs has a theorem.

Plan for proofs: the life cycle of an event that `Delivery` is to refine; that a run is
redelivered no more often than the budget when no wait throws (the positive side of
(b) in section 5); that copies of an attempt in progress change nothing for the original.

## 5. Findings

1. **An unterminated last line is not healed** (`jsonl_open_tail`,
   `store/jsonl-store.ts:197`). `load()` compacts a file when a line did not
   parse. If a write stops just before the newline, the last line parses, the file
   stays open-ended, and the next append continues that line; at the following
   load neither record parses. A record acknowledged after a clean load is lost,
   together with an older one. The tests and `docs/durability.md` promise that a
   torn write costs at most the record being written.
2. **A crash at the end of a failed run loses the event** (`agent_crash`,
   `dispatch/agent.ts:134` and `:150`). The row is closed before the redelivery is
   asked for and before the record is written; a crash in between leaves an
   acknowledged event with no orphan and no record. The comment at
   `agent.ts:170-172` calls this "the exact gap the dead-letter log exists to
   cover". `OnlyTheStrandedVanish` proves that it is the only gap while the disk works.
3. **A second outage during a replay is forgotten** (`transport_catchup`,
   `transport/manager.ts:214`). The tunnel reconnects, a replay of the outage starts, and
   the tunnel drops again while it is awaited. `recordDisconnect` leaves the older stamp
   alone, the end of the replay clears it, and what the second outage discards lies
   behind no stamp. `docs/durability.md:37`: "Within Hookdeck's retention, catch-up
   recovers every request that arrived during an outage and produced no delivery."
4. **A reconnect lifts an operator's pause** (`transport_operator`,
   `transport/manager.ts:168`). The reason of a pause is read before the unpause is awaited;
   an operator who pauses in between, and is told so, is overtaken. `manager.ts:159-160`:
   "An operator's pause is a decision, not a breadcrumb: a reconnecting tunnel must not
   undo it."
5. **An envelope ahead of its flow is cancelled** (`contract_early`,
   `dispatch/taskflow.ts:69`). `docs/dispatch-modes.md:17`, `taskflow.ts:29-31` and
   `test/taskflow.test.ts:99-100` argue that revisions only increase, "so a retry of
   that exact envelope can never succeed". That holds of an envelope behind its flow.
6. **The doctor takes part of the server errors for all** (`contract_doctor`,
   `hookdeck/provision.ts:200`). A rule with `500-502` passes, and a 503 is dropped.
   `provision.ts:189-190`: "Checks a live connection's retry rule still covers everything
   we emit"; `docs/agent-tools.md:12` says so of `hookdeck_doctor`.

**Other promises the code does not keep.** No run states these; the models have the
behaviour, and what the repository says of it is quoted:

* (a) A retry of a handled event is dispatched again (`protocol/admission.ts:90`): any
  higher attempt number is admitted whatever the row's status, so a retry whose
  predecessor's answer was late runs the work a second time. `README.md:26`: "Retries of
  handled events return `200` so Hookdeck stops resending."
* (b) A wait that throws spends no retry (`dispatch/agent.ts:181`). The catch block
  re-queues without counting, so such an event is re-run without limit;
  `store/ledger.ts:126-128` says the budget is kept to prevent that. The
  runner that can be waited for is `subagent.run`; on the TaskFlow runner, which
  has no `waitFor`, neither this nor finding 2 can occur.
* (c) A pause that took effect is unmarked (`transport/manager.ts:427`). When the call
  that pauses at shutdown fails, the breadcrumb is taken back, though the pause may have
  been made: the connection stays paused and no start lifts it.
  `store/cursor-store.ts:18-20` says the marker survives "so a crash mid-shutdown still
  leaves the marker that triggers unpause on the next start", and "A connection left
  paused forever is a silent outage". `PauseIsKnown` exempts it as "orphaned".
* (d) An operator's pause can outlive its timer (`tools/pause.ts:100`). The timer is gone
  when it fires and the result of its call is ignored, so a refused unpause is the
  last there is; a stop cancels the timer, a crash loses it, and the next start keeps
  the pause. `docs/agent-tools.md:20`: "`hookdeck_pause` always schedules an
  auto-resume, clamped to an hour, because an agent that pauses and then loses the
  thread must not stop the pipeline indefinitely". No property is about it.
* (e) Held events are released with no session (`transport/manager.ts:168`). Nothing ties
  a recovery to the session it was started for: the child, told to end by the
  readiness timer or by a stop, is gone when the unpause takes effect.
  `manager.ts:220-227`: "unpausing or replaying before the tunnel is up sends the
  recovered traffic into nothing and it is gone for good." `HeldGoToTunnel` exempts
  it as `told`.
* (f) `forbidden_action` is cancelled (`dispatch/taskflow.ts:137`), though an operator can
  allow the action. `protocol/outcome.ts:18-20` admits as a reason to cancel only that
  "a retry of this exact event can never succeed, whatever the operator changes", and
  `docs/response-contract.md:27` says the same. It is the other way to violate
  `CancelledIsHopeless`, and `OnlyForbiddenOrEarlyRevive` shows there is no third.

**Known interleavings.** These the repository makes no statement against, as far as we
read it, or they lead only to what is listed above. Where a property
exempts one, it does so by name, so that the runs show there is no other.

* When the 202 or the reply to a retry is lost, the redelivered run overlaps its
  predecessor, whose late settle stamps the live row and may write back an older
  retry count: another way to more runs than the budget (b).
* Other ways to a pause without a mark (c): a shutdown pause that is refused
  while an earlier one stands, a tool call that fails after it paused (`pause.ts:79-81`
  restores what was there), a recovery in flight when `stop()` marks and pauses
  ("orphaned").
* A pause tool call that fails with no earlier reason, a crash within a call, or
  a lost reply to a resume leave the reason `operator` with no pause, which a later
  shutdown then takes for one ("leftover").
* The auto-resume timer and the tool lift a pause without looking for a session.
* A catch-up that is refused waits for the next banner; overlapping replays send the
  originals again (`catchup.ts:204-208`).
* A retry of a mutation whose 200 was lost is cancelled as a conflict. `create_flow`,
  `run_task` and wake are done again on a replay.
* A fingerprint that a lost reply or a dashboard edit has made stale is not detected
  (`doubts`); `provisioning.force` sends the upsert all the same.
* At start, a route whose credentials do not resolve is provisioned without
  verification, where setup refuses (`setup.ts:50-65`). `provision.ts:120-127` warns
  of a source opened this way; the start logs it, and `VerificationStays` exempts it.
* With equal timestamps, a full dead-letter log lets go of the newest of its rows.

## 6. Not modelled

The `http` and `none` transports, which recover at start without a tunnel. Backoff
and other delays. Several routes: their rows, listeners and connections are disjoint,
the stores they share are modelled as such. Tools that only read (`status`, `events`,
`doctor` but for its verdict on the retry rule), `issues`, and the bulk replay by
window. Prompt templates, filters, envelope and
configuration parsing, signature cryptography, body streaming and secret
resolution: sequential functions whose verdicts are inputs (`Requests`, `Configs`,
`resolved`). The API client's rate limiting and reading calls. CLI discovery and process
spawning: I/O, of which the failure to start is an outcome of `StartTransport`.
`scripts/` are live tests. Prompts and session keys of agent runs are abstracted to
whether they can be built.

**What the plan has left**: the life cycle `Delivery` is to refine; the
proofs listed at the end of section 4; a stop during an unfinished start; copies of
an attempt that is still in progress.
