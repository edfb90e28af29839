---------------------------- MODULE AgentRunsProofs ----------------------------
(***************************************************************************)
(* Agent runs: their slots, their rows and what becomes of the events they *)
(* were answered for, for any number of handlers, waiters and runs.        *)
(***************************************************************************)
EXTENDS AgentRuns, LedgerProofs

\* RunSlotsExact counts two sets: the step that adds to one or takes from one
\* must know that it is finite.  How many handlers there are is not assumed:
\* only as many dispatch as there are slots.
AgentSlotInv ==
  /\ pc \in [Handlers -> PCs]
  /\ DOMAIN run = Waiters
  /\ IsFiniteSet(Dispatching) /\ IsFiniteSet(AtWork)
  /\ activeRuns \in Nat
  /\ RunSlotsExact

\* A step that starts and ends no run.
LEMMA RunsUntouched ==
  ASSUME AgentSlotInv, pc' \in [Handlers -> PCs], DOMAIN run' = Waiters,
         activeRuns' = activeRuns, Dispatching' = Dispatching, AtWork' = AtWork
  PROVE  AgentSlotInv'
  BY DEF AgentSlotInv, RunSlotsExact

\* A handler goes on without calling, or returning from, the dispatcher.
LEMMA HandlerGoesOn ==
  ASSUME AgentSlotInv, NEW h \in Handlers, NEW at \in PCs,
         pc[h] # "dispatching", at # "dispatching",
         pc' = [pc EXCEPT ![h] = at], UNCHANGED agentVars
  PROVE  AgentSlotInv'
<1>1. pc' \in [Handlers -> PCs] /\ Dispatching' = Dispatching
  BY DEF AgentSlotInv, Dispatching
<1>2. run' = run /\ activeRuns' = activeRuns /\ AtWork' = AtWork
  BY DEF agentVars, AtWork
<1> QED
  BY <1>1, <1>2, RunsUntouched DEF AgentSlotInv

\* The dispatcher is called and takes a slot.
LEMMA RunStarts ==
  ASSUME AgentSlotInv, NEW h \in Handlers, StartRun(h)
  PROVE  AgentSlotInv'
<1>1. /\ pc[h] # "dispatching" /\ pc' = [pc EXCEPT ![h] = "dispatching"]
      /\ activeRuns' = activeRuns + 1 /\ run' = run /\ activeRuns < MaxRuns
  BY DEF StartRun, Dispatch, CanAccept
<1>2. pc' \in [Handlers -> PCs]
  BY <1>1 DEF AgentSlotInv, PCs, Working
<1>3. Dispatching' = Dispatching \cup {h} /\ h \notin Dispatching
  BY <1>1 DEF AgentSlotInv, Dispatching
<1>4. IsFiniteSet(Dispatching') /\ Cardinality(Dispatching') = Cardinality(Dispatching) + 1
  BY <1>3, FS_AddElement DEF AgentSlotInv
<1>5. AtWork' = AtWork
  BY <1>1 DEF AtWork
<1>6. /\ Cardinality(Dispatching) \in Nat /\ Cardinality(AtWork) \in Nat
      /\ MaxRuns \in Nat
  BY FS_CardinalityType, AgentAssumption DEF AgentSlotInv
<1> QED
  BY <1>1, <1>2, <1>4, <1>5, <1>6 DEF AgentSlotInv, RunSlotsExact

\* The dispatcher returns or throws, and finally gives the slot back.
LEMMA RunStops ==
  ASSUME AgentSlotInv, NEW h \in Handlers, NEW at \in PCs, at # "dispatching",
         pc[h] = "dispatching", pc' = [pc EXCEPT ![h] = at],
         activeRuns' = activeRuns - 1, run' = run
  PROVE  AgentSlotInv'
<1>1. pc' \in [Handlers -> PCs]
  BY DEF AgentSlotInv
<1>2. Dispatching' = Dispatching \ {h} /\ h \in Dispatching
  BY DEF AgentSlotInv, Dispatching
<1>3. IsFiniteSet(Dispatching') /\ Cardinality(Dispatching') = Cardinality(Dispatching) - 1
  BY <1>2, FS_RemoveElement DEF AgentSlotInv
<1>4. AtWork' = AtWork
  BY DEF AtWork
<1>5. /\ Cardinality(Dispatching) \in Nat /\ Cardinality(Dispatching') \in Nat
      /\ Cardinality(AtWork) \in Nat /\ MaxRuns \in Nat
  BY <1>3, FS_CardinalityType, AgentAssumption DEF AgentSlotInv
<1> QED
  BY <1>1, <1>3, <1>4, <1>5 DEF AgentSlotInv, RunSlotsExact

\* A run outlives its request: its slot passes from the handler to the waiter.
LEMMA SlotChangesHands ==
  ASSUME AgentSlotInv, NEW h \in Handlers, NEW w \in Waiters, GoesBackground(h, w)
  PROVE  AgentSlotInv'
<1>1. /\ pc[h] = "dispatching" /\ pc' = [pc EXCEPT ![h] = "answered"]
      /\ run[w].at = "off" /\ activeRuns' = activeRuns
      /\ run' = [run EXCEPT ![w] =
                   [at |-> "waiting", event |-> req[h].event, attempted |-> 0]]
  BY DEF GoesBackground
<1>2. pc' \in [Handlers -> PCs] /\ DOMAIN run' = Waiters
  BY <1>1 DEF AgentSlotInv, PCs
<1>3. Dispatching' = Dispatching \ {h} /\ h \in Dispatching
  BY <1>1 DEF AgentSlotInv, Dispatching
<1>4. AtWork' = AtWork \cup {w} /\ w \notin AtWork
  BY <1>1 DEF AgentSlotInv, AtWork
<1>5. IsFiniteSet(Dispatching') /\ Cardinality(Dispatching') = Cardinality(Dispatching) - 1
  BY <1>3, FS_RemoveElement DEF AgentSlotInv
<1>6. IsFiniteSet(AtWork') /\ Cardinality(AtWork') = Cardinality(AtWork) + 1
  BY <1>4, FS_AddElement DEF AgentSlotInv
<1>7. Cardinality(Dispatching) \in Nat /\ Cardinality(AtWork) \in Nat
  BY FS_CardinalityType DEF AgentSlotInv
<1> QED
  BY <1>1, <1>2, <1>5, <1>6, <1>7 DEF AgentSlotInv, RunSlotsExact

\* A waiter moves between two steps of its own.
LEMMA WaiterGoesOn ==
  ASSUME AgentSlotInv, NEW w \in Waiters, run[w].at # "off", run'[w].at # "off",
         DOMAIN run' = Waiters, \A x \in Waiters : x # w => run'[x] = run[x],
         pc' = pc, activeRuns' = activeRuns
  PROVE  AgentSlotInv'
<1>1. Dispatching' = Dispatching /\ AtWork' = AtWork
  BY DEF Dispatching, AtWork
<1> QED
  BY <1>1, RunsUntouched DEF AgentSlotInv

\* A waiter is done, and finally gives the slot back.
LEMMA WaiterStops ==
  ASSUME AgentSlotInv, NEW w \in Waiters, RunEnds(w)
  PROVE  AgentSlotInv'
<1>1. /\ run[w].at = "ending" /\ run' = [run EXCEPT ![w] = NoRun]
      /\ activeRuns' = activeRuns - 1 /\ pc' = pc
  BY DEF RunEnds, vars, handlerVars
<1>2. DOMAIN run' = Waiters /\ Dispatching' = Dispatching
  BY <1>1 DEF AgentSlotInv, Dispatching
<1>3. AtWork' = AtWork \ {w} /\ w \in AtWork
  BY <1>1 DEF AgentSlotInv, AtWork, NoRun
<1>4. IsFiniteSet(AtWork') /\ Cardinality(AtWork') = Cardinality(AtWork) - 1
  BY <1>3, FS_RemoveElement DEF AgentSlotInv
<1>5. /\ Cardinality(Dispatching) \in Nat /\ Cardinality(AtWork) \in Nat
      /\ Cardinality(AtWork') \in Nat /\ MaxRuns \in Nat
  BY <1>4, FS_CardinalityType, AgentAssumption DEF AgentSlotInv
<1> QED
  BY <1>1, <1>2, <1>4, <1>5 DEF AgentSlotInv, RunSlotsExact

\* Nobody is left after a crash, nor at the start.
LEMMA NoRuns ==
  ASSUME pc \in [Handlers -> PCs], \A h \in Handlers : pc[h] = "idle",
         DOMAIN run = Waiters, \A w \in Waiters : run[w].at = "off",
         activeRuns = 0
  PROVE  AgentSlotInv
<1>1. Dispatching = {} /\ AtWork = {}
  BY DEF Dispatching, AtWork
<1>2. IsFiniteSet({}) /\ Cardinality({}) = 0
  BY FS_EmptySet
<1> QED
  BY <1>1, <1>2, AgentAssumption DEF AgentSlotInv, RunSlotsExact

LEMMA AgentSlotInit == AgentInit => AgentSlotInv
  BY NoRuns DEF AgentInit, Init, NoRun, PCs

LEMMA CrashEndsRuns ==
  ASSUME AgentSlotInv, CrashWithRuns
  PROVE  AgentSlotInv'
<1>1. /\ pc' = [h \in Handlers |-> "idle"] /\ run' = [w \in Waiters |-> NoRun]
      /\ activeRuns' = 0
  BY DEF CrashWithRuns, Crash
<1>2. Dispatching' = {} /\ AtWork' = {}
  BY <1>1 DEF Dispatching, AtWork, NoRun
<1>3. IsFiniteSet({}) /\ Cardinality({}) = 0
  BY FS_EmptySet
<1> QED
  BY <1>1, <1>2, <1>3, AgentAssumption DEF AgentSlotInv, RunSlotsExact, PCs

LEMMA PipelineSlots ==
  ASSUME AgentSlotInv, NEW h \in Handlers, Pipeline(h, CanAccept),
         UNCHANGED agentVars
  PROVE  AgentSlotInv'
<1> USE DEF PCs, Working
<1>1. CASE RejectEarly(h)
  BY <1>1, HandlerGoesOn DEF RejectEarly
<1>2. CASE TurnAway(h, CanAccept)
  BY <1>2, HandlerGoesOn DEF TurnAway
<1>3. CASE Admit(h, CanAccept)
  BY <1>3, HandlerGoesOn DEF Admit
<1>4. CASE SettleAfterThrow(h)
  BY <1>4, HandlerGoesOn DEF SettleAfterThrow
<1>5. CASE Release(h)
  BY <1>5, HandlerGoesOn DEF Release
<1>6. CASE RecordDeadLetter(h)
  BY <1>6, HandlerGoesOn DEF RecordDeadLetter
<1>7. CASE Respond(h)
  <2>1. pc[h] # "dispatching" /\ pc' = [pc EXCEPT ![h] = "idle"]
    BY <1>7 DEF Respond
  <2> QED
    BY <2>1, HandlerGoesOn
<1> QED
  BY <1>1, <1>2, <1>3, <1>4, <1>5, <1>6, <1>7 DEF Pipeline

LEMMA AgentHandlerSlots ==
  ASSUME AgentSlotInv, NEW h \in Handlers, AgentHandler(h)
  PROVE  AgentSlotInv'
<1> USE DEF PCs, Working
<1>1. CASE Pipeline(h, CanAccept) /\ UNCHANGED agentVars
  BY <1>1, PipelineSlots
<1>2. CASE Busy(h)
  BY <1>2, HandlerGoesOn DEF Busy
<1>3. CASE InvalidInput(h)
  BY <1>3, HandlerGoesOn DEF InvalidInput
<1>4. CASE StartRun(h)
  BY <1>4, RunStarts
<1>5. CASE StartThrows(h)
  BY <1>5, RunStops DEF StartThrows, DispatchThrows
<1>6. ASSUME NEW a \in Answers, RunReturns(h, a)
      PROVE  AgentSlotInv'
  BY <1>6, RunStops DEF RunReturns, DispatchReturns
<1>7. ASSUME NEW w \in Waiters, GoesBackground(h, w)
      PROVE  AgentSlotInv'
  BY <1>7, SlotChangesHands
<1> QED
  BY <1>1, <1>2, <1>3, <1>4, <1>5, <1>6, <1>7 DEF AgentHandler

LEMMA WaiterSlots ==
  ASSUME AgentSlotInv, NEW w \in Waiters, Waiter(w)
  PROVE  AgentSlotInv'
<1> USE DEF handlerVars, AgentSlotInv
<1>1. CASE RunSucceeds(w)
  BY <1>1, WaiterGoesOn DEF RunSucceeds, Goes
<1>2. CASE RunFails(w)
  BY <1>2, WaiterGoesOn DEF RunFails
<1>3. CASE RunLost(w)
  BY <1>3, WaiterGoesOn DEF RunLost, Goes
<1>4. ASSUME NEW heard \in BOOLEAN, RetryTaken(w, heard)
      PROVE  AgentSlotInv'
  BY <1>4, WaiterGoesOn DEF RetryTaken, Goes
<1>5. CASE GiveUp(w)
  BY <1>5, WaiterGoesOn DEF GiveUp, Goes
<1>6. CASE RecordRun(w)
  BY <1>6, WaiterGoesOn DEF RecordRun, Goes
<1>7. CASE RunEnds(w)
  BY <1>7, WaiterStops
<1> QED
  BY <1>1, <1>2, <1>3, <1>4, <1>5, <1>6, <1>7 DEF Waiter

LEMMA HookdeckSlots ==
  ASSUME AgentSlotInv, HookdeckActs, UNCHANGED agentVars
  PROVE  AgentSlotInv'
<1>1. ASSUME NEW e \in Events, NEW h \in Handlers,
             Deliver(e, h) \/ DeliverCopy(e, h)
      PROVE  AgentSlotInv'
  BY <1>1, HandlerGoesOn DEF Deliver, DeliverCopy, PCs
<1>2. ASSUME NEW e \in Events,
             DeliverWhileAway(e) \/ AttemptTimesOut(e) \/ ManualRetry(e)
      PROVE  AgentSlotInv'
  <2>1. pc' = pc
    BY <1>2 DEF DeliverWhileAway, AttemptTimesOut, ManualRetry, handlerVars
  <2> QED
    BY <2>1, RunsUntouched DEF AgentSlotInv, agentVars, Dispatching, AtWork
<1> QED
  BY <1>1, <1>2 DEF HookdeckActs

LEMMA AgentSlotStep == AgentSlotInv /\ [AgentNext]_allVars => AgentSlotInv'
<1> SUFFICES ASSUME AgentSlotInv, [AgentNext]_allVars
             PROVE  AgentSlotInv'
  OBVIOUS
<1>1. ASSUME pc' = pc, UNCHANGED agentVars
      PROVE  AgentSlotInv'
  BY <1>1, RunsUntouched DEF AgentSlotInv, agentVars, Dispatching, AtWork
<1>2. CASE HookdeckActs /\ UNCHANGED agentVars
  BY <1>2, HookdeckSlots
<1>3. CASE (Store \/ Boot) /\ UNCHANGED agentVars
  BY <1>1, <1>3 DEF Store, WriteDone, WriteFails, Boot, handlerVars
<1>4. CASE Reconcile /\ UNCHANGED agentVars
  BY <1>1, <1>4 DEF Reconcile, RecordSkipped, RetryAccepted, RetryRefused,
    RecordRefused, SettleOrphan, OrphanSettled, Serve, handlerVars
<1>5. CASE CrashWithRuns
  BY <1>5, CrashEndsRuns
<1>6. ASSUME NEW h \in Handlers, AgentHandler(h)
      PROVE  AgentSlotInv'
  BY <1>6, AgentHandlerSlots
<1>7. ASSUME NEW w \in Waiters, Waiter(w)
      PROVE  AgentSlotInv'
  BY <1>7, WaiterSlots
<1>8. CASE UNCHANGED allVars
  BY <1>1, <1>8 DEF allVars, vars, handlerVars
<1> QED
  BY <1>2, <1>3, <1>4, <1>5, <1>6, <1>7, <1>8 DEF AgentNext

\* However runs start, fail, outlive their requests and end, in whatever order
\* and through whatever crashes, the dispatcher's counter is the number of runs
\* and stays within the limit.
THEOREM RunSlotsCorrect == AgentSpec => []RunSlotsExact
<1>1. AgentSlotInv => RunSlotsExact
  BY DEF AgentSlotInv
<1> QED
  BY <1>1, AgentSlotInit, AgentSlotStep, PTL DEF AgentSpec

(***************************************************************************)
(* Types.  Delivery's invariant holds of the ledger the waiters share; of  *)
(* the runs, a waiter at work must be known to have an event.              *)
(***************************************************************************)
HasRun == \A w \in Waiters : run[w].at # "off" => run[w].event \in Events

RunRecords == [at : RunSteps, event : Events \cup {NoEvent}, attempted : Nat]

AgentTypeInv == /\ TypeInv
                /\ run \in [Waiters -> RunRecords]
                /\ HasRun
                /\ stranded \subseteq Events

LEMMA AgentTypeInit == AgentInit => AgentTypeInv
<1> SUFFICES ASSUME AgentInit PROVE AgentTypeInv
  OBVIOUS
<1>1. TypeInv
  BY TypeInit DEF AgentInit
<1>2. NoRun \in RunRecords /\ NoRun.at = "off"
  BY DEF NoRun, RunRecords, RunSteps
<1>3. run \in [Waiters -> RunRecords] /\ HasRun
  BY <1>2 DEF AgentInit, HasRun
<1> QED
  BY <1>1, <1>3 DEF AgentInit, AgentTypeInv

\* A step of the pipeline, of Hookdeck, of the store or of the reconciliation.
LEMMA RunsKeepTypes ==
  ASSUME AgentTypeInv, TypeInv', UNCHANGED <<run, stranded>>
  PROVE  AgentTypeInv'
  BY DEF AgentTypeInv, HasRun

LEMMA CountedRowType ==
  ASSUME NEW row \in Rows, NEW status \in Statuses, NEW retries \in Nat
  PROVE  /\ [SettleRow(row, status) EXCEPT !.agentRetries = retries] \in Rows
         /\ [SettleRow(row, status) EXCEPT !.agentRetries = retries] =
              [attempt |-> row.attempt, status |-> status, owner |-> row.owner,
               agentRetries |-> retries]
<1> DEFINE settled == SettleRow(row, status)
<1>1. settled = [attempt |-> row.attempt, status |-> status, owner |-> row.owner,
                 agentRetries |-> row.agentRetries]
  BY DEF SettleRow, Rows
<1> HIDE DEF settled
<1>2. [settled EXCEPT !.agentRetries = retries] =
        [attempt |-> row.attempt, status |-> status, owner |-> row.owner,
         agentRetries |-> retries]
  BY <1>1
<1>3. [settled EXCEPT !.agentRetries = retries] \in Rows
  BY <1>2 DEF Rows
<1> QED
  BY <1>2, <1>3 DEF settled

LEMMA SettleCountingType ==
  ASSUME TypeInv, NEW e \in Events, NEW status \in Statuses, NEW retries \in Nat,
         NEW by \in Writers, SettleCounting(e, status, retries, by)
  PROVE  mem' \in [Events -> Rows \cup {NoRow}] /\ writes' \in Seq(Jobs)
<1>1. CASE mem[e] = NoRow
  BY <1>1 DEF SettleCounting, TypeInv, TypeOK
<1>2. CASE mem[e] # NoRow
  <2>1. mem[e] \in Rows
    BY <1>2 DEF TypeInv, TypeOK
  <2> QED
    BY <1>2, <2>1, CountedRowType, PutType DEF SettleCounting
<1> QED
  BY <1>1, <1>2

\* What a waiter's step does to the ledger's types, whichever settle it calls.
LEMMA WaiterStepType ==
  ASSUME TypeInv, UNCHANGED <<attempts, processVars, handlerVars, disk, persistence,
                              recoveryVars, ran, requeued, interrupted>>,
         hookdeck' \in [Events -> HookdeckStates],
         mem' \in [Events -> Rows \cup {NoRow}], writes' \in Seq(Jobs),
         deadLetter' \subseteq Events, completed' \subseteq Events
  PROVE  TypeInv'
<1>1. TypeOK'
  BY DEF TypeInv, TypeOK, processVars, handlerVars, recoveryVars
<1>2. HasRequest' /\ HasOrphan'
  BY DEF TypeInv, HasRequest, HasOrphan, handlerVars, recoveryVars
<1> QED
  BY <1>1, <1>2 DEF TypeInv

LEMMA GoesType ==
  ASSUME AgentTypeInv, NEW w \in Waiters, run[w].at # "off", NEW at \in RunSteps,
         NEW attempted \in Nat,
         run' \in {[run EXCEPT ![w].at = at],
                   [run EXCEPT ![w].attempted = attempted, ![w].at = at]}
  PROVE  run' \in [Waiters -> RunRecords] /\ HasRun'
<1>1. /\ run[w] \in RunRecords
      /\ run'[w].at = at /\ run'[w].event = run[w].event /\ run'[w].attempted \in Nat
      /\ run'[w] \in RunRecords
      /\ \A x \in Waiters : x # w => run'[x] = run[x]
      /\ DOMAIN run' = Waiters
  BY DEF AgentTypeInv, RunRecords
<1>2. run' \in [Waiters -> RunRecords]
  BY <1>1 DEF AgentTypeInv
<1>3. HasRun'
  BY <1>1 DEF AgentTypeInv, HasRun
<1> QED
  BY <1>2, <1>3

LEMMA WaiterType ==
  ASSUME AgentTypeInv, NEW w \in Waiters, Waiter(w)
  PROVE  AgentTypeInv'
<1>1. TypeInv /\ w \in Writers /\ run \in [Waiters -> RunRecords]
  BY DEF AgentTypeInv, Writers
<1>2. run[w].at # "off" /\ run[w].event \in Events /\ run[w].attempted \in Nat
  <2>1. run[w].at # "off"
    BY DEF Waiter, RunSucceeds, RunFails, RunLost, RetryTaken, GiveUp, RecordRun, RunEnds
  <2> QED
    BY <2>1 DEF AgentTypeInv, HasRun, RunRecords
<1>3. /\ hookdeck \in [Events -> HookdeckStates] /\ mem \in [Events -> Rows \cup {NoRow}]
      /\ writes \in Seq(Jobs) /\ deadLetter \subseteq Events /\ completed \subseteq Events
      /\ stranded \subseteq Events
  BY DEF AgentTypeInv, TypeInv, TypeOK
<1>4. mem[run[w].event].agentRetries \in Nat
  BY <1>2, <1>3 DEF Rows, NoRow
<1> USE DEF hookdeckVars, ledgerVars, historyVars
<1>5. CASE RunSucceeds(w)
  <2>1. mem' \in [Events -> Rows \cup {NoRow}] /\ writes' \in Seq(Jobs)
    BY <1>1, <1>2, <1>5, SettlePutType DEF RunSucceeds, Statuses
  <2>2. TypeInv'
    BY <1>1, <1>2, <1>3, <1>5, <2>1, WaiterStepType DEF RunSucceeds
  <2>3. run' \in [Waiters -> RunRecords] /\ HasRun'
    BY <1>2, <1>5, GoesType DEF RunSucceeds, Goes, RunSteps
  <2> QED
    BY <1>3, <1>5, <2>2, <2>3 DEF RunSucceeds, AgentTypeInv
<1>6. CASE RunFails(w)
  <2> DEFINE attempted == mem[run[w].event].agentRetries + 1
             at == IF HasClient /\ attempted <= MaxAgentRetries
                   THEN "failing" ELSE "exhausting"
             status == IF HasClient /\ attempted <= MaxAgentRetries
                       THEN "failed" ELSE "exhausted"
  <2>1. attempted \in Nat /\ status \in Statuses /\ at \in RunSteps
    BY <1>4 DEF Statuses, RunSteps
  <2>2. /\ SettleCounting(run[w].event, status, attempted, w)
        /\ run' = [run EXCEPT ![w].attempted = attempted, ![w].at = at]
        /\ UNCHANGED <<hookdeckVars, processVars, handlerVars, disk, persistence,
                       deadLetter, recoveryVars, historyVars, stranded>>
    BY <1>6 DEF RunFails
  <2> HIDE DEF attempted, at, status
  <2>3. mem' \in [Events -> Rows \cup {NoRow}] /\ writes' \in Seq(Jobs)
    BY <1>1, <1>2, <2>1, <2>2, SettleCountingType
  <2>4. TypeInv'
    BY <1>1, <1>3, <2>2, <2>3, WaiterStepType
  <2>5. run' \in [Waiters -> RunRecords] /\ HasRun'
    BY <1>2, <2>1, <2>2, GoesType
  <2> QED
    BY <1>3, <2>2, <2>4, <2>5 DEF AgentTypeInv
<1>7. CASE RunLost(w)
  <2>1. mem' \in [Events -> Rows \cup {NoRow}] /\ writes' \in Seq(Jobs)
    BY <1>1, <1>2, <1>7, SettlePutType DEF RunLost, Statuses
  <2>2. TypeInv'
    BY <1>1, <1>3, <1>7, <2>1, WaiterStepType DEF RunLost
  <2>3. run' \in [Waiters -> RunRecords] /\ HasRun'
    BY <1>2, <1>7, GoesType DEF RunLost, Goes, RunSteps
  <2> QED
    BY <1>3, <1>7, <2>2, <2>3 DEF RunLost, AgentTypeInv
<1>8. ASSUME NEW heard \in BOOLEAN, RetryTaken(w, heard)
      PROVE  AgentTypeInv'
  <2>1. hookdeck' \in [Events -> HookdeckStates]
    BY <1>2, <1>3, <1>8 DEF RetryTaken, HookdeckStates
  <2>2. TypeInv'
    BY <1>1, <1>3, <1>8, <2>1, WaiterStepType DEF RetryTaken
  <2>3. run' \in [Waiters -> RunRecords] /\ HasRun'
    <3>1. (IF heard THEN "ending" ELSE "unanswered") \in RunSteps
      BY DEF RunSteps
    <3> QED
      BY <1>2, <1>8, <3>1, GoesType DEF RetryTaken, Goes
  <2> QED
    BY <1>3, <1>8, <2>2, <2>3 DEF RetryTaken, AgentTypeInv
<1>9. CASE GiveUp(w)
  <2>1. mem' \in [Events -> Rows \cup {NoRow}] /\ writes' \in Seq(Jobs)
    BY <1>1, <1>2, <1>9, SettlePutType, SettleCountingType DEF GiveUp, Statuses
  <2>2. TypeInv'
    BY <1>1, <1>3, <1>9, <2>1, WaiterStepType DEF GiveUp
  <2>3. run' \in [Waiters -> RunRecords] /\ HasRun'
    BY <1>2, <1>9, GoesType DEF GiveUp, Goes, RunSteps
  <2> QED
    BY <1>3, <1>9, <2>2, <2>3 DEF GiveUp, AgentTypeInv
<1>10. CASE RecordRun(w)
  <2>1. TypeInv'
    BY <1>1, <1>2, <1>3, <1>10, WaiterStepType DEF RecordRun
  <2>2. run' \in [Waiters -> RunRecords] /\ HasRun'
    BY <1>2, <1>10, GoesType DEF RecordRun, Goes, RunSteps
  <2> QED
    BY <1>3, <1>10, <2>1, <2>2 DEF RecordRun, AgentTypeInv
<1>11. CASE RunEnds(w)
  <2>1. TypeInv'
    BY <1>1, <1>3, <1>11, WaiterStepType DEF RunEnds, vars
  <2>2. run' \in [Waiters -> RunRecords]
    BY <1>1, <1>11 DEF RunEnds, NoRun, RunRecords, RunSteps
  <2>3. HasRun'
    BY <1>11 DEF RunEnds, NoRun, AgentTypeInv, HasRun
  <2> QED
    BY <1>3, <1>11, <2>1, <2>2, <2>3 DEF RunEnds, AgentTypeInv
<1> QED
  BY <1>5, <1>6, <1>7, <1>8, <1>9, <1>10, <1>11 DEF Waiter

LEMMA AgentHandlerType ==
  ASSUME AgentTypeInv, NEW h \in Handlers, AgentHandler(h)
  PROVE  AgentTypeInv'
<1>0. TypeInv /\ CanAccept \in BOOLEAN /\ h \in Writers
  BY DEF AgentTypeInv, CanAccept, Writers
<1>1. CASE Pipeline(h, CanAccept) /\ UNCHANGED agentVars
  BY <1>0, <1>1, PipelineType, RunsKeepTypes DEF agentVars
<1>2. CASE Busy(h) \/ InvalidInput(h)
  <2>1. /\ pc[h] = "beginning" /\ pc' = [pc EXCEPT ![h] = "settling"]
        /\ Settle(req[h].event, "failed", h)
        /\ answer' \in {[answer EXCEPT ![h] = "retry"], [answer EXCEPT ![h] = "cancel"]}
        /\ UNCHANGED <<hookdeckVars, processVars, req, inFlight, disk, persistence,
                       deadLetter, recoveryVars, historyVars, agentVars>>
    BY <1>2 DEF Busy, InvalidInput
  <2>2. req[h].event \in Events
    BY <1>0, <2>1 DEF TypeInv, HasRequest, Requests
  <2>3. mem' \in [Events -> Rows \cup {NoRow}] /\ writes' \in Seq(Jobs)
    BY <1>0, <2>1, <2>2, SettlePutType DEF Statuses
  <2>4. TypeOK'
    BY <1>0, <2>1, <2>3 DEF TypeInv, TypeOK, PCs, Working, Answers,
      hookdeckVars, processVars, recoveryVars, historyVars
  <2>5. HasRequest' /\ HasOrphan'
    BY <1>0, <2>1 DEF TypeInv, TypeOK, HasRequest, HasOrphan, recoveryVars
  <2> QED
    BY <2>1, <2>4, <2>5, RunsKeepTypes DEF TypeInv, agentVars
<1>3. CASE StartRun(h) \/ StartThrows(h) \/ \E a \in Answers : RunReturns(h, a)
  BY <1>0, <1>3, DispatchType, RunsKeepTypes DEF StartRun, StartThrows, RunReturns
<1>4. ASSUME NEW w \in Waiters, GoesBackground(h, w)
      PROVE  AgentTypeInv'
  <2> DEFINE waiter == [at |-> "waiting", event |-> req[h].event, attempted |-> 0]
  <2>1. req[h].event \in Events /\ pc[h] = "dispatching"
    BY <1>0, <1>4 DEF GoesBackground, TypeInv, HasRequest, Requests
  <2>2. TypeOK'
    BY <1>0, <1>4, <2>1 DEF GoesBackground, TypeInv, TypeOK, PCs, Answers,
      hookdeckVars, processVars, ledgerVars, recoveryVars, historyVars
  <2>3. HasRequest' /\ HasOrphan'
    BY <1>0, <1>4, <2>1 DEF GoesBackground, TypeInv, TypeOK, HasRequest, HasOrphan, recoveryVars
  <2>4. waiter \in RunRecords /\ run' = [run EXCEPT ![w] = waiter]
    BY <1>4, <2>1 DEF GoesBackground, RunRecords, RunSteps
  <2>5. run' \in [Waiters -> RunRecords] /\ HasRun'
    BY <2>1, <2>4 DEF AgentTypeInv, HasRun
  <2> QED
    BY <1>4, <2>2, <2>3, <2>5 DEF GoesBackground, AgentTypeInv, TypeInv
<1> QED
  BY <1>1, <1>2, <1>3, <1>4 DEF AgentHandler

LEMMA AgentTypeStep == AgentTypeInv /\ [AgentNext]_allVars => AgentTypeInv'
<1> SUFFICES ASSUME AgentTypeInv, [AgentNext]_allVars
             PROVE  AgentTypeInv'
  OBVIOUS
<1>0. TypeInv
  BY DEF AgentTypeInv
<1>1. CASE HookdeckActs /\ UNCHANGED agentVars
  BY <1>0, <1>1, ExternalType, RunsKeepTypes DEF External, agentVars
<1>2. CASE (Store \/ Boot \/ Reconcile) /\ UNCHANGED agentVars
  BY <1>0, <1>2, StoreType, BootType, ReconcileType, RunsKeepTypes DEF agentVars
<1>3. CASE CrashWithRuns
  <2>1. TypeInv'
    BY <1>0, <1>3, ExternalType DEF External, CrashWithRuns
  <2>2. NoRun \in RunRecords /\ NoRun.at = "off"
    BY DEF NoRun, RunRecords, RunSteps
  <2>3. run' \in [Waiters -> RunRecords] /\ HasRun'
    BY <1>3, <2>2 DEF CrashWithRuns, HasRun
  <2>4. stranded' \subseteq Events
    BY <1>3 DEF CrashWithRuns, AgentTypeInv, HasRun
  <2> QED
    BY <1>3, <2>1, <2>3, <2>4 DEF CrashWithRuns, AgentTypeInv
<1>4. ASSUME NEW h \in Handlers, AgentHandler(h)
      PROVE  AgentTypeInv'
  BY <1>4, AgentHandlerType
<1>5. ASSUME NEW w \in Waiters, Waiter(w)
      PROVE  AgentTypeInv'
  BY <1>5, WaiterType
<1>6. CASE UNCHANGED allVars
  <2>1. TypeInv'
    BY <1>0, <1>6, TypeStep DEF allVars
  <2> QED
    BY <1>6, <2>1, RunsKeepTypes DEF allVars, agentVars
<1> QED
  BY <1>1, <1>2, <1>3, <1>4, <1>5, <1>6 DEF AgentNext

\* The counter, the runs and what is remembered of them keep their types through
\* every start, end, loss and crash of a run.
THEOREM AgentTypesHold == AgentSpec => []AgentTypeOK
<1>1. AgentInit => AgentTypeInv /\ AgentSlotInv
  BY AgentTypeInit, AgentSlotInit
<1>2. AgentTypeInv /\ AgentSlotInv /\ [AgentNext]_allVars => AgentTypeInv' /\ AgentSlotInv'
  BY AgentTypeStep, AgentSlotStep
<1>3. AgentTypeInv /\ AgentSlotInv => AgentTypeOK
  BY DEF AgentTypeInv, AgentSlotInv, AgentTypeOK, RunRecords
<1> QED
  BY <1>1, <1>2, <1>3, PTL DEF AgentSpec

(***************************************************************************)
(* The write queue, with the waiters in it.  Whoever put a row owes it a   *)
(* wait, and no two are confused: a waiter's write is awaited by the       *)
(* waiter, a handler's by the handler.                                     *)
(***************************************************************************)
WaiterWaits(w, e) ==
  /\ w \in Waiters /\ run[w].event = e
  /\ run[w].at \in {"failing", "losing", "exhausting", "ending"}

RunsAreServed == phase # "serving" => \A w \in Waiters : run[w].at = "off"
JobsAreOwed ==
  \A i \in DOMAIN writes :
    \/ Waits(writes[i].by, writes[i].event)
    \/ WaiterWaits(writes[i].by, writes[i].event)

AgentQueueInv == /\ ServesAlone /\ RunsAreServed
                 /\ NothingQueued
                 /\ JobsAreOwed
                 /\ QueueEndsInMemory

\* The row a settle leaves, whichever settle it is.
Closed(row, status, retries) ==
  [attempt |-> row.attempt, status |-> status, owner |-> row.owner, agentRetries |-> retries]

Ends(e, status, by) ==
  IF mem[e] = NoRow THEN UNCHANGED <<mem, writes>>
  ELSE \E retries \in Nat : Put(e, Closed(mem[e], status, retries), by)

LEMMA SettleIsEnd ==
  ASSUME TypeInv, NEW e \in Events, NEW status \in Statuses, NEW by,
         Settle(e, status, by)
  PROVE  Ends(e, status, by)
<1>1. CASE mem[e] = NoRow
  BY <1>1 DEF Settle, Ends
<1>2. CASE mem[e] # NoRow
  <2>1. mem[e] \in Rows
    BY <1>2 DEF TypeInv, TypeOK
  <2>2. mem[e].agentRetries \in Nat
        /\ SettleRow(mem[e], status) = Closed(mem[e], status, mem[e].agentRetries)
    BY <2>1 DEF SettleRow, Closed, Rows
  <2> QED
    BY <1>2, <2>2 DEF Settle, Ends
<1> QED
  BY <1>1, <1>2

LEMMA SettleCountingIsEnd ==
  ASSUME TypeInv, NEW e \in Events, NEW status \in Statuses, NEW retries \in Nat,
         NEW by, SettleCounting(e, status, retries, by)
  PROVE  Ends(e, status, by)
<1>1. CASE mem[e] = NoRow
  BY <1>1 DEF SettleCounting, Ends
<1>2. CASE mem[e] # NoRow
  <2>1. mem[e] \in Rows
    BY <1>2 DEF TypeInv, TypeOK
  <2>2. [SettleRow(mem[e], status) EXCEPT !.agentRetries = retries]
          = Closed(mem[e], status, retries)
    BY <2>1, CountedRowType DEF Closed
  <2> QED
    BY <1>2, <2>2 DEF SettleCounting, Ends
<1> QED
  BY <1>1, <1>2

LEMMA ClosedType ==
  ASSUME TypeInv, NEW e \in Events, mem[e] # NoRow, NEW status \in Statuses,
         NEW retries \in Nat
  PROVE  Closed(mem[e], status, retries) \in Rows
<1>1. mem[e] \in Rows
  BY DEF TypeInv, TypeOK
<1> QED
  BY <1>1 DEF Closed, Rows

LEMMA EndKeepsQueue ==
  ASSUME TypeInv, QueueEndsInMemory, NothingQueued, phase # "down",
         NEW e \in Events, NEW status \in Statuses, NEW by \in Writers,
         Ends(e, status, by), UNCHANGED <<phase, disk, persistence>>
  PROVE  /\ QueueEndsInMemory' /\ NothingQueued'
         /\ \A i \in DOMAIN writes' :
              \/ i \in DOMAIN writes /\ writes'[i] = writes[i]
              \/ writes'[i].event = e /\ writes'[i].by = by
<1>1. CASE mem[e] = NoRow
  BY <1>1 DEF Ends, QueueEndsInMemory, EndsInMemory, Quiet, NothingQueued
<1>2. CASE mem[e] # NoRow
  <2>1. PICK retries \in Nat : Put(e, Closed(mem[e], status, retries), by)
    BY <1>2 DEF Ends
  <2>2. Closed(mem[e], status, retries) \in Rows
    BY <1>2, ClosedType
  <2> HIDE DEF Closed
  <2> QED
    BY <2>1, <2>2, PutEnds
<1> QED
  BY <1>1, <1>2

\* What becomes of memory: the row of the event, if it has one, rests.
LEMMA EndRests ==
  ASSUME TypeInv, NEW e \in Events, NEW status \in Statuses, NEW by,
         Ends(e, status, by)
  PROVE  /\ \A f \in Events : f # e => mem'[f] = mem[f]
         /\ mem[e] = NoRow => mem' = mem /\ writes' = writes
         /\ mem[e] # NoRow =>
              /\ mem'[e].attempt = mem[e].attempt /\ mem'[e].owner = mem[e].owner
              /\ mem'[e].status = status
         /\ status # "running" => mem'[e].status # "running"
<1>0. mem \in [Events -> Rows \cup {NoRow}]
  BY DEF TypeInv, TypeOK
<1>1. CASE mem[e] = NoRow
  BY <1>1 DEF Ends, NoRow
<1>2. CASE mem[e] # NoRow
  <2>1. PICK retries \in Nat : Put(e, Closed(mem[e], status, retries), by)
    BY <1>2 DEF Ends
  <2>2. mem' = [mem EXCEPT ![e] = Closed(mem[e], status, retries)]
    BY <2>1 DEF Put
  <2>3. \A f \in Events : mem'[f] = IF f = e THEN Closed(mem[e], status, retries) ELSE mem[f]
    BY <1>0, <2>2
  <2> QED
    BY <1>2, <2>3 DEF Closed
<1> QED
  BY <1>1, <1>2

(***************************************************************************)
(* The shape of the steps: a handler begins a row, closes one or leaves    *)
(* the ledger alone, and at most hands its run to a waiter; a waiter       *)
(* closes the row of its run or leaves the ledger alone.                   *)
(***************************************************************************)
Opens(h) ==
  /\ Admit(h, CanAccept)
  /\ Put(req[h].event, BeginRow(mem[req[h].event], Header(req[h]), instance), h)

Closes(h, status) ==
  /\ pc[h] \in {"beginning", "dispatching", "failing"}
  /\ Ends(req[h].event, status, h)
  /\ pc' \in {[pc EXCEPT ![h] = "failing"], [pc EXCEPT ![h] = "settling"]}
  /\ pc[h] # "failing" => (status = "succeeded" <=> answer'[h] = "ok")
  /\ pc[h] = "failing" => status = "failed" /\ answer' = answer
  /\ status = "succeeded" => req[h].event \in completed'
  /\ hookdeck' = hookdeck

Concludes(w, status) ==
  /\ run[w].at \in {"waiting", "failing", "losing", "unanswered"}
  /\ run'[w].at \in {"failing", "losing", "exhausting", "ending"}
  /\ Ends(run[w].event, status, w)
  /\ status = "succeeded" => run[w].event \in completed'
  /\ status # "succeeded" => run'[w].at # "ending"
  /\ status = "exhausted" <=> run'[w].at = "exhausting"
  /\ hookdeck' = hookdeck

\* A handler or a waiter that awaits no write has none in the queue.
LEMMA HandsAreFree ==
  ASSUME AgentQueueInv, NEW h \in Handlers,
         pc[h] \notin {"beginning", "failing", "settling"}
  PROVE  ~Writing(h)
BY DeliveryAssumption DEF AgentQueueInv, JobsAreOwed, Waits, WaiterWaits, Writing

LEMMA WaiterIsFree ==
  ASSUME AgentQueueInv, NEW w \in Waiters,
         run[w].at \notin {"failing", "losing", "exhausting", "ending"}
  PROVE  ~Writing(w)
BY DeliveryAssumption DEF AgentQueueInv, JobsAreOwed, Waits, WaiterWaits, Writing

LEMMA AgentHandlerShape ==
  ASSUME AgentTypeInv, AgentQueueInv, NEW h \in Handlers, AgentHandler(h)
  PROVE  /\ phase = "serving" /\ pc[h] # "idle" /\ ~Writing(h)
         /\ req[h] \in Requests /\ req[h].event \in Events
         /\ UNCHANGED <<attempts, processVars, disk, persistence, recoveryVars,
                        requeued, interrupted, stranded>>
         /\ \A g \in Handlers : g # h =>
              pc'[g] = pc[g] /\ req'[g] = req[g] /\ answer'[g] = answer[g]
         /\ req'[h] = req[h] \/ pc'[h] = "idle"
         /\ \/ /\ UNCHANGED <<mem, writes, run>>
               /\ pc'[h] \notin {"beginning", "failing", "settling"}
               /\ pc[h] # "dispatching"
               /\ pc'[h] = "dispatching" <=> pc[h] = "beginning"
            \/ Opens(h) /\ UNCHANGED run
            \/ (\E status \in {"succeeded", "failed"} : Closes(h, status)) /\ UNCHANGED run
            \/ \E w \in Waiters : GoesBackground(h, w)
<1>0. TypeInv /\ CanAccept \in BOOLEAN
  BY DEF AgentTypeInv, CanAccept
<1>1. pc[h] # "idle" => /\ req[h] \in Requests /\ req[h].event \in Events
                        /\ phase = "serving"
  BY <1>0 DEF TypeInv, HasRequest, Requests, AgentQueueInv, ServesAlone
<1> USE DEF hookdeckVars, processVars, handlerVars, ledgerVars, recoveryVars,
            historyVars, agentVars
<1>2. CASE RejectEarly(h) /\ UNCHANGED agentVars
  BY <1>0, <1>1, <1>2, HandsAreFree DEF RejectEarly, TypeInv, TypeOK
<1>3. CASE TurnAway(h, CanAccept) /\ UNCHANGED agentVars
  BY <1>0, <1>1, <1>3, HandsAreFree DEF TurnAway, TypeInv, TypeOK
<1>4. CASE Admit(h, CanAccept) /\ UNCHANGED agentVars
  BY <1>0, <1>1, <1>4, HandsAreFree DEF Admit, Begin, Opens, TypeInv, TypeOK
<1>5. CASE StartRun(h)
  BY <1>0, <1>1, <1>5 DEF StartRun, Dispatch, TypeInv, TypeOK
<1>6. ASSUME NEW a \in Answers, RunReturns(h, a)
      PROVE  Closes(h, IF a = "ok" THEN "succeeded" ELSE "failed")
  <2>1. Ends(req[h].event, IF a = "ok" THEN "succeeded" ELSE "failed", h)
    BY <1>0, <1>1, <1>6, SettleIsEnd DEF RunReturns, DispatchReturns, Statuses
  <2> QED
    BY <1>0, <1>6, <2>1 DEF RunReturns, DispatchReturns, Closes, TypeInv, TypeOK
<1>7. CASE \E a \in Answers : RunReturns(h, a)
  BY <1>0, <1>1, <1>6, <1>7, HandsAreFree DEF RunReturns, DispatchReturns, TypeInv, TypeOK
<1>8. CASE StartThrows(h)
  <2>1. Ends(req[h].event, "failed", h)
    BY <1>0, <1>1, <1>8, SettleIsEnd DEF StartThrows, DispatchThrows, Statuses
  <2>2. Closes(h, "failed")
    BY <1>0, <1>8, <2>1 DEF StartThrows, DispatchThrows, Closes, TypeInv, TypeOK
  <2> QED
    BY <1>0, <1>1, <1>8, <2>2, HandsAreFree DEF StartThrows, DispatchThrows, TypeInv, TypeOK
<1>9. CASE SettleAfterThrow(h) /\ UNCHANGED agentVars
  <2>1. Ends(req[h].event, "failed", h)
    BY <1>0, <1>1, <1>9, SettleIsEnd DEF SettleAfterThrow, Statuses
  <2> QED
    BY <1>0, <1>1, <1>9, <2>1 DEF SettleAfterThrow, Closes, TypeInv, TypeOK
<1>10. CASE Release(h) /\ UNCHANGED agentVars
  BY <1>0, <1>1, <1>10 DEF Release, TypeInv, TypeOK
<1>11. CASE RecordDeadLetter(h) /\ UNCHANGED agentVars
  BY <1>0, <1>1, <1>11, HandsAreFree DEF RecordDeadLetter, TypeInv, TypeOK
<1>12. CASE Respond(h) /\ UNCHANGED agentVars
  BY <1>0, <1>1, <1>12, HandsAreFree DEF Respond, TypeInv, TypeOK
<1>13. CASE Busy(h) \/ InvalidInput(h)
  <2>1. /\ pc[h] = "beginning" /\ ~Writing(h) /\ pc' = [pc EXCEPT ![h] = "settling"]
        /\ Settle(req[h].event, "failed", h)
        /\ answer' \in {[answer EXCEPT ![h] = "retry"], [answer EXCEPT ![h] = "cancel"]}
        /\ UNCHANGED <<hookdeckVars, processVars, req, inFlight, disk, persistence,
                       deadLetter, recoveryVars, historyVars, agentVars>>
    BY <1>13 DEF Busy, InvalidInput
  <2>2. Ends(req[h].event, "failed", h)
    BY <1>0, <1>1, <2>1, SettleIsEnd DEF Statuses
  <2>3. Closes(h, "failed")
    BY <1>0, <2>1, <2>2 DEF Closes, TypeInv, TypeOK
  <2> QED
    BY <1>0, <1>1, <2>1, <2>3 DEF TypeInv, TypeOK
<1>14. ASSUME NEW w \in Waiters, GoesBackground(h, w)
       PROVE  /\ phase = "serving" /\ pc[h] # "idle" /\ ~Writing(h)
              /\ req[h] \in Requests /\ req[h].event \in Events
              /\ UNCHANGED <<attempts, processVars, disk, persistence, recoveryVars,
                             requeued, interrupted, stranded>>
              /\ \A g \in Handlers : g # h =>
                   pc'[g] = pc[g] /\ req'[g] = req[g] /\ answer'[g] = answer[g]
              /\ req'[h] = req[h]
  BY <1>0, <1>1, <1>14, HandsAreFree DEF GoesBackground, TypeInv, TypeOK
<1> QED
  BY <1>2, <1>3, <1>4, <1>5, <1>7, <1>8, <1>9, <1>10, <1>11, <1>12, <1>13, <1>14
  DEF AgentHandler, Pipeline

LEMMA WaiterShape ==
  ASSUME AgentTypeInv, AgentQueueInv, NEW w \in Waiters, Waiter(w)
  PROVE  /\ phase = "serving" /\ run[w].at # "off" /\ ~Writing(w)
         /\ run[w].event \in Events /\ w \in Writers
         /\ UNCHANGED <<attempts, processVars, handlerVars, disk, persistence,
                        recoveryVars, ran, requeued, interrupted, stranded>>
         /\ \A x \in Waiters : x # w => run'[x] = run[x]
         /\ run'[w].event = run[w].event \/ run'[w].at = "off"
         /\ \/ /\ UNCHANGED <<mem, writes, completed>>
               /\ run[w].at # "waiting"
               /\ run'[w].at \in {"ending", "unanswered", "off"}
            \/ /\ \E status \in {"succeeded", "failed", "exhausted"} : Concludes(w, status)
               /\ completed \subseteq completed' /\ deadLetter' = deadLetter
<1>0. TypeInv /\ run \in [Waiters -> RunRecords] /\ w \in Writers
  BY DEF AgentTypeInv, Writers
<1>1. run[w].at # "off" => run[w].event \in Events /\ phase = "serving"
  BY DEF AgentTypeInv, HasRun, AgentQueueInv, RunsAreServed
<1>2. run[w].attempted \in Nat /\ run[w].event \in Events \cup {NoEvent}
  BY <1>0 DEF RunRecords
<1>3. ASSUME NEW at, Goes(w, at)
      PROVE  /\ run'[w].at = at /\ run'[w].event = run[w].event
             /\ \A x \in Waiters : x # w => run'[x] = run[x]
  BY <1>0, <1>3 DEF Goes, RunRecords
<1> USE DEF hookdeckVars, ledgerVars, historyVars
<1>4. CASE RunSucceeds(w)
  <2>1. run[w].at = "waiting" /\ Goes(w, "ending")
        /\ completed' = completed \cup {run[w].event}
    BY <1>4 DEF RunSucceeds
  <2>2. Ends(run[w].event, "succeeded", w)
    BY <1>0, <1>1, <1>4, SettleIsEnd DEF RunSucceeds, Statuses
  <2>3. Concludes(w, "succeeded")
    BY <1>3, <1>4, <2>1, <2>2 DEF RunSucceeds, Concludes
  <2> QED
    BY <1>0, <1>1, <1>3, <1>4, <2>1, <2>3, WaiterIsFree DEF RunSucceeds
<1>5. CASE RunFails(w)
  <2> DEFINE attempted == mem[run[w].event].agentRetries + 1
             at == IF HasClient /\ attempted <= MaxAgentRetries
                   THEN "failing" ELSE "exhausting"
             status == IF HasClient /\ attempted <= MaxAgentRetries
                       THEN "failed" ELSE "exhausted"
  <2>1. /\ run[w].at = "waiting" /\ run[w].event \in Events
        /\ SettleCounting(run[w].event, status, attempted, w)
        /\ run' = [run EXCEPT ![w].attempted = attempted, ![w].at = at]
        /\ UNCHANGED <<hookdeck, attempts, processVars, handlerVars, disk, persistence,
                       deadLetter, recoveryVars, ran, completed, requeued, interrupted,
                       stranded>>
    BY <1>1, <1>5 DEF RunFails
  <2>2. attempted \in Nat /\ status \in Statuses
    <3>1. mem[run[w].event] \in Rows \cup {NoRow}
      BY <1>0, <2>1 DEF TypeInv, TypeOK
    <3>2. mem[run[w].event].agentRetries \in Nat
      BY <3>1 DEF Rows, NoRow
    <3> QED
      BY <3>2 DEF Statuses
  <2>3. /\ status \in {"failed", "exhausted"} /\ at \in {"failing", "exhausting"}
        /\ status = "exhausted" <=> at = "exhausting"
    OBVIOUS
  <2> HIDE DEF attempted, at, status
  <2>4. /\ run'[w].at = at /\ run'[w].event = run[w].event
        /\ \A x \in Waiters : x # w => run'[x] = run[x]
    BY <1>0, <2>1 DEF RunRecords
  <2>5. Ends(run[w].event, status, w)
    BY <1>0, <2>1, <2>2, SettleCountingIsEnd
  <2>6. Concludes(w, status)
    BY <2>1, <2>3, <2>4, <2>5 DEF Concludes
  <2> QED
    BY <1>0, <1>1, <2>1, <2>3, <2>4, <2>6, WaiterIsFree
<1>6. CASE RunLost(w)
  <2>1. Ends(run[w].event, "failed", w)
    BY <1>0, <1>1, <1>6, SettleIsEnd DEF RunLost, Statuses
  <2>2. Goes(w, "losing")
    BY <1>6 DEF RunLost
  <2>3. Concludes(w, "failed")
    BY <1>3, <1>6, <2>1, <2>2 DEF RunLost, Concludes
  <2> QED
    BY <1>0, <1>1, <1>3, <1>6, <2>2, <2>3, WaiterIsFree DEF RunLost
<1>7. ASSUME NEW heard \in BOOLEAN, RetryTaken(w, heard)
      PROVE  /\ phase = "serving" /\ run[w].at \in {"failing", "losing"} /\ ~Writing(w)
             /\ run[w].event \in Events
             /\ UNCHANGED <<attempts, processVars, handlerVars, disk, persistence,
                            recoveryVars, ran, requeued, interrupted, stranded>>
             /\ \A x \in Waiters : x # w => run'[x] = run[x]
             /\ run'[w].event = run[w].event
             /\ UNCHANGED <<mem, writes, completed>>
             /\ run'[w].at \in {"ending", "unanswered"}
  BY <1>1, <1>3, <1>7 DEF RetryTaken
<1>8. CASE GiveUp(w)
  <2>1. Ends(run[w].event, "exhausted", w)
    BY <1>0, <1>1, <1>2, <1>8, SettleIsEnd, SettleCountingIsEnd DEF GiveUp, Statuses
  <2>2. Goes(w, "exhausting")
    BY <1>8 DEF GiveUp
  <2>3. Concludes(w, "exhausted")
    BY <1>3, <1>8, <2>1, <2>2 DEF GiveUp, Concludes
  <2> QED
    BY <1>0, <1>1, <1>3, <1>8, <2>2, <2>3 DEF GiveUp
<1>9. CASE RecordRun(w)
  BY <1>0, <1>1, <1>3, <1>9 DEF RecordRun
<1>10. CASE RunEnds(w)
  <2>1. /\ run'[w].at = "off" /\ \A x \in Waiters : x # w => run'[x] = run[x]
    BY <1>0, <1>10 DEF RunEnds, NoRun
  <2> QED
    BY <1>0, <1>1, <1>10, <2>1 DEF RunEnds, vars
<1> QED
  BY <1>0, <1>4, <1>5, <1>6, <1>7, <1>8, <1>9, <1>10 DEF Waiter

Owes(by, e) == Waits(by, e) \/ WaiterWaits(by, e)

LEMMA OwedInit == AgentInit => AgentQueueInv
<1> SUFFICES ASSUME AgentInit PROVE AgentQueueInv
  OBVIOUS
<1>1. writes = <<>> /\ phase = "serving" /\ \A e \in Events : disk[e] = mem[e]
  BY DEF AgentInit, Init
<1> QED
  BY <1>1 DEF AgentQueueInv, ServesAlone, RunsAreServed, NothingQueued, JobsAreOwed,
    QueueEndsInMemory, EndsInMemory, Quiet

\* A step of one actor, whose queue is empty, leaves the jobs of the others to
\* those who owe them.
LEMMA OthersOwe ==
  ASSUME AgentTypeInv, AgentQueueInv, phase = "serving", phase' = "serving",
         NEW by, ~Writing(by),
         \A h \in Handlers : h # by => pc'[h] = pc[h] /\ req'[h] = req[h],
         \A w \in Waiters : w # by /\ run[w].at # "off" => run'[w] = run[w],
         NEW e, \A i \in DOMAIN writes' :
                  \/ i \in DOMAIN writes /\ writes'[i] = writes[i]
                  \/ writes'[i].event = e /\ writes'[i].by = by /\ Owes(by, e)'
  PROVE  JobsAreOwed'
<1> SUFFICES ASSUME NEW i \in DOMAIN writes'
             PROVE  Owes(writes[i].by, writes[i].event)'
  BY DEF JobsAreOwed, Owes
<1>1. CASE i \in DOMAIN writes /\ writes'[i] = writes[i]
  <2>1. writes[i].by # by
    BY <1>1 DEF Writing
  <2>2. CASE Waits(writes[i].by, writes[i].event)
    BY <1>1, <2>1, <2>2 DEF Waits, Owes
  <2>3. CASE WaiterWaits(writes[i].by, writes[i].event)
    <3>1. run'[writes[i].by] = run[writes[i].by]
      BY <2>1, <2>3 DEF WaiterWaits
    <3> QED
      BY <1>1, <2>3, <3>1 DEF WaiterWaits, Owes
  <2> QED
    BY <1>1, <2>2, <2>3 DEF AgentQueueInv, JobsAreOwed
<1> QED
  BY <1>1

LEMMA HandlerKeepsQueue ==
  ASSUME AgentTypeInv, AgentQueueInv, NEW h \in Handlers, AgentHandler(h)
  PROVE  AgentQueueInv'
<1> SUFFICES ASSUME NEW e \in Events, e = req[h].event
             PROVE  AgentQueueInv'
  BY AgentHandlerShape
<1>0. TypeInv /\ QueueEndsInMemory /\ NothingQueued
  BY DEF AgentTypeInv, AgentQueueInv
<1>1. /\ phase = "serving" /\ ~Writing(h) /\ req[h] \in Requests /\ h \in Writers
      /\ UNCHANGED <<phase, disk, persistence>>
      /\ \A g \in Handlers : g # h => pc'[g] = pc[g] /\ req'[g] = req[g]
      /\ req'[h] = req[h] \/ pc'[h] = "idle"
  BY AgentHandlerShape DEF processVars, Writers
<1>2. \A w \in Waiters : run[w].at # "off" => run'[w] = run[w]
  BY AgentHandlerShape DEF GoesBackground, AgentTypeInv
<1>3. CASE UNCHANGED <<mem, writes>>
  <2>1. JobsAreOwed'
    BY <1>1, <1>2, <1>3, OthersOwe
  <2> QED
    BY <1>0, <1>1, <1>3, <2>1 DEF AgentQueueInv, ServesAlone, RunsAreServed, NothingQueued,
      QueueEndsInMemory, EndsInMemory, Quiet
<1>4. ASSUME /\ QueueEndsInMemory' /\ NothingQueued'
             /\ \A i \in DOMAIN writes' :
                  \/ i \in DOMAIN writes /\ writes'[i] = writes[i]
                  \/ writes'[i].event = e /\ writes'[i].by = h,
             pc'[h] \in {"beginning", "failing", "settling"}
      PROVE  AgentQueueInv'
  <2>1. Owes(h, e)'
    BY <1>1, <1>4 DEF Owes, Waits
  <2>2. JobsAreOwed'
    BY <1>1, <1>2, <1>4, <2>1, OthersOwe
  <2> QED
    BY <1>1, <1>4, <2>2 DEF AgentQueueInv, ServesAlone, RunsAreServed
<1>5. CASE Opens(h)
  <2>1. BeginRow(mem[e], Header(req[h]), instance) \in Rows
    BY <1>0, <1>1, HeaderType, BeginType DEF TypeInv, TypeOK
  <2>2. /\ QueueEndsInMemory' /\ NothingQueued'
        /\ \A i \in DOMAIN writes' :
             \/ i \in DOMAIN writes /\ writes'[i] = writes[i]
             \/ writes'[i].event = e /\ writes'[i].by = h
    BY <1>0, <1>1, <1>5, <2>1, PutEnds DEF Opens
  <2>3. pc'[h] = "beginning"
    BY <1>0, <1>5 DEF Opens, Admit, TypeInv, TypeOK
  <2> QED
    BY <1>4, <2>2, <2>3
<1>6. ASSUME NEW status \in {"succeeded", "failed"}, Closes(h, status)
      PROVE  AgentQueueInv'
  <2>1. /\ QueueEndsInMemory' /\ NothingQueued'
        /\ \A i \in DOMAIN writes' :
             \/ i \in DOMAIN writes /\ writes'[i] = writes[i]
             \/ writes'[i].event = e /\ writes'[i].by = h
    BY <1>0, <1>1, <1>6, EndKeepsQueue DEF Closes, Statuses
  <2>2. pc'[h] \in {"failing", "settling"}
    BY <1>0, <1>6 DEF Closes, TypeInv, TypeOK
  <2> QED
    BY <1>4, <2>1, <2>2
<1>7. CASE \E w \in Waiters : GoesBackground(h, w)
  BY <1>3, <1>7 DEF GoesBackground, ledgerVars
<1> QED
  BY <1>3, <1>5, <1>6, <1>7, AgentHandlerShape

LEMMA WaiterKeepsQueue ==
  ASSUME AgentTypeInv, AgentQueueInv, NEW w \in Waiters, Waiter(w)
  PROVE  AgentQueueInv'
<1> SUFFICES ASSUME NEW e \in Events, e = run[w].event
             PROVE  AgentQueueInv'
  BY WaiterShape
<1>0. TypeInv /\ QueueEndsInMemory /\ NothingQueued
  BY DEF AgentTypeInv, AgentQueueInv
<1>1. /\ phase = "serving" /\ ~Writing(w) /\ w \in Writers
      /\ UNCHANGED <<phase, pc, req, disk, persistence>>
      /\ \A x \in Waiters : x # w => run'[x] = run[x]
      /\ run'[w].event = run[w].event \/ run'[w].at = "off"
  BY WaiterShape DEF processVars, handlerVars
<1>2. CASE UNCHANGED <<mem, writes>>
  <2>1. JobsAreOwed'
    BY <1>1, <1>2, OthersOwe
  <2> QED
    BY <1>0, <1>1, <1>2, <2>1 DEF AgentQueueInv, ServesAlone, RunsAreServed, NothingQueued,
      QueueEndsInMemory, EndsInMemory, Quiet
<1>3. ASSUME NEW status \in {"succeeded", "failed", "exhausted"}, Concludes(w, status)
      PROVE  AgentQueueInv'
  <2>1. /\ QueueEndsInMemory' /\ NothingQueued'
        /\ \A i \in DOMAIN writes' :
             \/ i \in DOMAIN writes /\ writes'[i] = writes[i]
             \/ writes'[i].event = e /\ writes'[i].by = w
    BY <1>0, <1>1, <1>3, EndKeepsQueue DEF Concludes, Statuses
  <2>2. Owes(w, e)'
    BY <1>1, <1>3 DEF Concludes, Owes, WaiterWaits
  <2>3. JobsAreOwed'
    BY <1>1, <2>1, <2>2, OthersOwe
  <2> QED
    BY <1>1, <2>1, <2>3 DEF AgentQueueInv, ServesAlone, RunsAreServed
<1> QED
  BY <1>2, <1>3, WaiterShape

LEMMA OwedStep == AgentTypeInv /\ AgentQueueInv /\ [AgentNext]_allVars => AgentQueueInv'
<1> SUFFICES ASSUME AgentTypeInv, AgentQueueInv, [AgentNext]_allVars
             PROVE  AgentQueueInv'
  OBVIOUS
<1>0. TypeInv /\ QueueEndsInMemory /\ NothingQueued
  BY DEF AgentTypeInv, AgentQueueInv
<1>1. ASSUME UNCHANGED <<processVars, ledgerVars, step, current, run>>,
             \A g \in Handlers : pc[g] # "idle" => pc'[g] = pc[g] /\ req'[g] = req[g],
             phase = "serving" \/ pc' = pc
      PROVE  AgentQueueInv'
  <2>1. \A by, e : Waits(by, e) => Waits(by, e)'
    BY <1>1 DEF Waits, processVars
  <2>2. \A by, e : WaiterWaits(by, e) => WaiterWaits(by, e)'
    BY <1>1 DEF WaiterWaits
  <2>3. JobsAreOwed' /\ ServesAlone' /\ RunsAreServed'
    BY <1>1, <2>1, <2>2 DEF AgentQueueInv, JobsAreOwed, ServesAlone, RunsAreServed,
      processVars, ledgerVars
  <2> QED
    BY <1>1, <2>3 DEF AgentQueueInv, NothingQueued, QueueEndsInMemory, EndsInMemory,
      Quiet, processVars, ledgerVars
<1>2. CASE HookdeckActs /\ UNCHANGED agentVars
  <2>1. ASSUME NEW e \in Events, NEW h \in Handlers, Deliver(e, h) \/ DeliverCopy(e, h)
        PROVE  AgentQueueInv'
    BY <1>0, <1>1, <1>2, <2>1 DEF Deliver, DeliverCopy, recoveryVars, agentVars, TypeInv, TypeOK
  <2>2. ASSUME NEW e \in Events,
               DeliverWhileAway(e) \/ AttemptTimesOut(e) \/ ManualRetry(e)
        PROVE  AgentQueueInv'
    BY <1>1, <1>2, <2>2 DEF DeliverWhileAway, AttemptTimesOut, ManualRetry, handlerVars,
      recoveryVars, agentVars
  <2> QED
    BY <1>2, <2>1, <2>2 DEF HookdeckActs
<1>3. CASE WriteDone /\ UNCHANGED agentVars
  <2>1. UNCHANGED <<phase, pc, req, step, current, run>>
    BY <1>3 DEF WriteDone, processVars, handlerVars, recoveryVars, agentVars
  <2>2. /\ NothingQueued' /\ QueueEndsInMemory'
        /\ \A i \in DOMAIN writes' : i + 1 \in DOMAIN writes /\ writes'[i] = writes[i + 1]
    BY <1>0, <1>3, QueueDrains
  <2> QED
    BY <2>1, <2>2 DEF AgentQueueInv, ServesAlone, RunsAreServed, JobsAreOwed, Waits, WaiterWaits
<1>4. CASE WriteFails /\ UNCHANGED agentVars
  BY <1>4 DEF WriteFails, processVars, handlerVars, agentVars, AgentQueueInv, ServesAlone,
    RunsAreServed, NothingQueued, JobsAreOwed, QueueEndsInMemory
<1>5. CASE Boot /\ UNCHANGED agentVars
  BY <1>5 DEF Boot, handlerVars, agentVars, AgentQueueInv, ServesAlone, RunsAreServed,
    NothingQueued, JobsAreOwed, QueueEndsInMemory, EndsInMemory, Quiet
<1>6. CASE Reconcile /\ UNCHANGED agentVars
  <2>1. phase = "booting"
    BY <1>6 DEF Reconcile, RecordSkipped, RetryAccepted, RetryRefused, RecordRefused,
      SettleOrphan, OrphanSettled, Serve
  <2>2. JobsAreAwaited
    BY <2>1 DEF AgentQueueInv, RunsAreServed, JobsAreOwed, JobsAreAwaited, WaiterWaits
  <2>3. QueueInv'
    BY <1>0, <1>6, <2>2, ReconcileQueues DEF AgentQueueInv, QueueInv
  <2>4. RunsAreServed'
    BY <1>6, <2>1 DEF AgentQueueInv, RunsAreServed, agentVars
  <2> QED
    BY <2>3, <2>4 DEF QueueInv, AgentQueueInv, JobsAreAwaited, JobsAreOwed
<1>7. CASE CrashWithRuns
  BY <1>7 DEF CrashWithRuns, Crash, NoRun, AgentQueueInv, ServesAlone, RunsAreServed,
    NothingQueued, JobsAreOwed, QueueEndsInMemory
<1>8. ASSUME NEW h \in Handlers, AgentHandler(h)
      PROVE  AgentQueueInv'
  BY <1>8, HandlerKeepsQueue
<1>9. ASSUME NEW w \in Waiters, Waiter(w)
      PROVE  AgentQueueInv'
  BY <1>9, WaiterKeepsQueue
<1>10. CASE UNCHANGED allVars
  BY <1>1, <1>10 DEF allVars, vars, agentVars, handlerVars, recoveryVars
<1> QED
  BY <1>2, <1>3, <1>4, <1>5, <1>6, <1>7, <1>8, <1>9, <1>10 DEF AgentNext, Store

(***************************************************************************)
(* The versions of a row, in memory, on disk and on the way between: each  *)
(* was begun by a handler or closes the row memory held.                   *)
(***************************************************************************)
OpensRow(e, row) ==
  \E h \in Handlers :
    /\ AgentHandler(h) /\ Opens(h) /\ req[h].event = e
    /\ row = BeginRow(mem[e], Header(req[h]), instance)

\* Whoever closes it as done or as hopeless has seen to it.
ClosesRow(e, row) ==
  /\ phase # "down" /\ mem[e] # NoRow
  /\ \E status \in Statuses, retries \in Nat : row = Closed(mem[e], status, retries)
  /\ row.status # "running"
  /\ row.status = "succeeded" => e \in completed'
  /\ row.status = "exhausted" =>
       \E w \in Waiters : run'[w].at = "exhausting" /\ run'[w].event = e

\* A settle makes a version that closes the row, or none.
LEMMA EndVersions ==
  ASSUME TypeInv, NEW f \in Events, NEW status \in Statuses, NEW by \in Writers,
         Ends(f, status, by), UNCHANGED <<disk, phase>>, phase # "down",
         NEW e \in Events, NEW row, row \in Versions(e)'
  PROVE  \/ row \in Versions(e)
         \/ /\ e = f /\ mem[e] # NoRow
            /\ \E retries \in Nat : row = Closed(mem[e], status, retries)
<1>1. CASE mem[f] = NoRow
  BY <1>1 DEF Ends, Versions
<1>2. CASE mem[f] # NoRow
  <2>1. PICK retries \in Nat : Put(f, Closed(mem[f], status, retries), by)
    BY <1>2 DEF Ends
  <2>2. Closed(mem[f], status, retries) \in Rows
    BY <1>2, ClosedType
  <2> DEFINE made == Closed(mem[f], status, retries)
  <2> HIDE DEF made
  <2>3. Put(f, made, by) /\ made \in Rows
    BY <2>1, <2>2 DEF made
  <2>4. row \in Versions(e) \/ (row = made /\ e = f)
    BY <2>3, PutVersions
  <2> QED
    BY <1>2, <2>4 DEF made
<1> QED
  BY <1>1, <1>2

LEMMA AgentVersionStep ==
  ASSUME AgentTypeInv, AgentQueueInv, [AgentNext]_allVars,
         NEW e \in Events, NEW row, row \in Versions(e)'
  PROVE  \/ row \in Versions(e)
         \/ Forgets(e, row) \/ OpensRow(e, row) \/ ClosesRow(e, row)
<1>0. TypeInv /\ NothingQueued
  BY DEF AgentTypeInv, AgentQueueInv
<1>1. CASE UNCHANGED <<mem, disk, writes, phase>>
  BY <1>1 DEF Versions
<1>2. CASE HookdeckActs \/ Store \/ Boot \/ Reconcile \/ CrashWithRuns
  <2>1. row \in Versions(e) \/ Forgets(e, row) \/ SettlesOrphan(e, row)
    BY <1>0, <1>2, VersionsElsewhere DEF External, CrashWithRuns
  <2>2. CASE SettlesOrphan(e, row)
    <3>1. mem[e] \in Rows /\ phase # "down"
      BY <1>0, <2>2 DEF SettlesOrphan, SettleOrphan, TypeInv, TypeOK
    <3>2. /\ row = Closed(mem[e], "failed", mem[e].agentRetries)
          /\ mem[e].agentRetries \in Nat /\ "failed" \in Statuses
      BY <2>2, <3>1 DEF SettlesOrphan, SettleRow, Closed, Rows, Statuses
    <3>3. row.status = "failed"
      BY <3>2 DEF Closed
    <3> QED
      BY <2>2, <3>1, <3>2, <3>3 DEF SettlesOrphan, ClosesRow
  <2> QED
    BY <2>1, <2>2
<1>3. ASSUME NEW h \in Handlers, AgentHandler(h)
      PROVE  row \in Versions(e) \/ OpensRow(e, row) \/ ClosesRow(e, row)
  <2> DEFINE f == req[h].event
  <2>1. /\ f \in Events /\ req[h] \in Requests /\ UNCHANGED <<disk, phase>>
        /\ phase # "down" /\ h \in Writers
    BY <1>3, AgentHandlerShape DEF processVars, Writers
  <2>2. CASE UNCHANGED <<mem, writes>>
    BY <2>1, <2>2 DEF Versions
  <2>3. CASE Opens(h)
    <3>1. BeginRow(mem[f], Header(req[h]), instance) \in Rows
      BY <1>0, <2>1, HeaderType, BeginType DEF TypeInv, TypeOK
    <3>2. Put(f, BeginRow(mem[f], Header(req[h]), instance), h)
      BY <2>3 DEF Opens
    <3> QED
      BY <1>0, <1>3, <2>1, <2>3, <3>1, <3>2, PutVersions DEF OpensRow
  <2>4. ASSUME NEW status \in {"succeeded", "failed"}, Closes(h, status)
        PROVE  row \in Versions(e) \/ ClosesRow(e, row)
    <3>1. /\ Ends(f, status, h) /\ status \in Statuses
          /\ status = "succeeded" => f \in completed'
      BY <2>4 DEF Closes, Statuses
    <3>2. \/ row \in Versions(e)
          \/ /\ e = f /\ mem[e] # NoRow
             /\ \E retries \in Nat : row = Closed(mem[e], status, retries)
      BY <1>0, <2>1, <3>1, EndVersions
    <3>3. \A retries \in Nat : Closed(mem[e], status, retries).status = status
      BY DEF Closed
    <3> QED
      BY <2>1, <3>1, <3>2, <3>3 DEF ClosesRow
  <2>5. CASE \E w \in Waiters : GoesBackground(h, w)
    BY <2>1, <2>5 DEF GoesBackground, ledgerVars, Versions
  <2> QED
    BY <1>3, <2>2, <2>3, <2>4, <2>5, AgentHandlerShape
<1>4. ASSUME NEW w \in Waiters, Waiter(w)
      PROVE  row \in Versions(e) \/ ClosesRow(e, row)
  <2> DEFINE f == run[w].event
  <2>1. /\ f \in Events /\ UNCHANGED <<disk, phase>> /\ phase # "down" /\ w \in Writers
        /\ run'[w].event = f \/ run'[w].at = "off"
    BY <1>4, WaiterShape DEF processVars
  <2>2. CASE UNCHANGED <<mem, writes>>
    BY <2>1, <2>2 DEF Versions
  <2>3. ASSUME NEW status \in {"succeeded", "failed", "exhausted"}, Concludes(w, status)
        PROVE  row \in Versions(e) \/ ClosesRow(e, row)
    <3>1. /\ Ends(f, status, w) /\ status \in Statuses
          /\ status = "succeeded" => f \in completed'
          /\ status = "exhausted" => run'[w].at = "exhausting" /\ run'[w].event = f
      BY <2>1, <2>3 DEF Concludes, Statuses
    <3>2. \/ row \in Versions(e)
          \/ /\ e = f /\ mem[e] # NoRow
             /\ \E retries \in Nat : row = Closed(mem[e], status, retries)
      BY <1>0, <2>1, <3>1, EndVersions
    <3>3. \A retries \in Nat : Closed(mem[e], status, retries).status = status
      BY DEF Closed
    <3> QED
      BY <2>1, <3>1, <3>2, <3>3 DEF ClosesRow
  <2> QED
    BY <1>4, <2>2, <2>3, WaiterShape
<1>5. CASE UNCHANGED allVars
  BY <1>1, <1>5 DEF allVars, vars, ledgerVars, processVars
<1> QED
  BY <1>2, <1>3, <1>4, <1>5 DEF AgentNext

(***************************************************************************)
(* The registry of the pipeline holds whatever the dispatcher does.        *)
(***************************************************************************)
LEMMA RegistryStepsWithRuns ==
  AgentTypeInv /\ SlotInv /\ [AgentNext]_allVars => SlotInv'
<1> SUFFICES ASSUME AgentTypeInv, SlotInv, [AgentNext]_allVars
             PROVE  SlotInv'
  OBVIOUS
<1>0. TypeInv /\ CanAccept \in BOOLEAN
  BY DEF AgentTypeInv, CanAccept
<1>1. ASSUME UNCHANGED handlerVars
      PROVE  SlotInv'
  BY <1>1, SlotsUntouched DEF handlerVars, IsWorking
<1>2. CASE HookdeckActs \/ CrashWithRuns
  BY <1>0, <1>2, SlotExternal DEF External, CrashWithRuns
<1>3. CASE (Store \/ Boot \/ Reconcile) /\ UNCHANGED agentVars
  BY <1>1, <1>3 DEF Store, WriteDone, WriteFails, Boot, Reconcile, RecordSkipped,
    RetryAccepted, RetryRefused, RecordRefused, SettleOrphan, OrphanSettled, Serve
<1>4. ASSUME NEW h \in Handlers, AgentHandler(h)
      PROVE  SlotInv'
  <2>1. CASE Pipeline(h, CanAccept)
    BY <1>0, <2>1, SlotPipeline
  <2>2. CASE StartRun(h) \/ StartThrows(h) \/ \E a \in Answers : RunReturns(h, a)
    BY <1>0, <2>2, SlotDispatch DEF StartRun, StartThrows, RunReturns
  <2>3. CASE Busy(h) \/ InvalidInput(h)
    BY <1>0, <2>3, SlotsUntouched DEF Busy, InvalidInput, IsWorking, Working, TypeInv, TypeOK
  <2>4. ASSUME NEW w \in Waiters, GoesBackground(h, w)
        PROVE  SlotInv'
    BY <1>0, <2>4, SlotFreed DEF GoesBackground, Working
  <2> QED
    BY <1>4, <2>1, <2>2, <2>3, <2>4 DEF AgentHandler
<1>5. ASSUME NEW w \in Waiters, Waiter(w)
      PROVE  SlotInv'
  BY <1>1, <1>5 DEF Waiter, RunSucceeds, RunFails, RunLost, RetryTaken, GiveUp, RecordRun,
    RunEnds, vars
<1>6. CASE UNCHANGED allVars
  BY <1>1, <1>6 DEF allVars, vars
<1> QED
  BY <1>2, <1>3, <1>4, <1>5, <1>6 DEF AgentNext

(***************************************************************************)
(* Who attends to a running row of the live instance: the handler that     *)
(* began it, or the waiter it handed its run to.                           *)
(***************************************************************************)
RunningIsAttended ==
  \A e \in Events :
    phase # "down" /\ mem[e].status = "running" /\ mem[e].owner = instance =>
      \/ \E h \in Handlers : Begun(h) /\ req[h].event = e
      \/ \E w \in Waiters : run[w].at = "waiting" /\ run[w].event = e

AttendedInv == OwnersArePast /\ RunningIsAttended

LEMMA AttendedInit == AgentInit => AttendedInv
<1> SUFFICES ASSUME AgentInit PROVE AttendedInv
  OBVIOUS
<1>1. RowInv
  BY RowsStart DEF AgentInit
<1> QED
  BY <1>1 DEF RowInv, RunningIsBegun, AttendedInv, RunningIsAttended

LEMMA InstanceGrows ==
  ASSUME AgentTypeInv, AgentQueueInv, [AgentNext]_allVars
  PROVE  instance \in Nat /\ instance' \in Nat /\ instance' >= instance
<1> USE DEF processVars, AgentTypeInv, TypeInv, TypeOK
<1>1. CASE HookdeckActs \/ CrashWithRuns
  BY <1>1 DEF HookdeckActs, Deliver, DeliverCopy, DeliverWhileAway, AttemptTimesOut,
    ManualRetry, CrashWithRuns, Crash
<1>2. CASE Store \/ Boot
  BY <1>2 DEF Store, WriteDone, WriteFails, Boot
<1>3. CASE Reconcile
  BY <1>3 DEF Reconcile, RecordSkipped, RetryAccepted, RetryRefused, RecordRefused,
    SettleOrphan, OrphanSettled, Serve
<1>4. ASSUME NEW h \in Handlers, AgentHandler(h)
      PROVE  instance' = instance
  BY <1>4, AgentHandlerShape
<1>5. ASSUME NEW w \in Waiters, Waiter(w)
      PROVE  instance' = instance
  BY <1>5, WaiterShape
<1>6. CASE UNCHANGED allVars
  BY <1>6 DEF allVars, vars
<1> QED
  BY <1>1, <1>2, <1>3, <1>4, <1>5, <1>6 DEF AgentNext

LEMMA OwnersStepWithRuns ==
  ASSUME AgentTypeInv, AgentQueueInv, OwnersArePast, [AgentNext]_allVars
  PROVE  OwnersArePast'
<1>1. instance \in Nat /\ instance' \in Nat /\ instance' >= instance
  BY InstanceGrows
<1> SUFFICES ASSUME NEW e \in Events, NEW row, row \in Versions(e)'
             PROVE  row.owner <= instance'
  BY DEF OwnersArePast
<1>2. ASSUME NEW r \in Versions(e)
      PROVE  r.owner \in Nat /\ r.owner <= instance
  <2>1. r \in Rows \cup {NoRow}
    BY VersionType DEF AgentTypeInv
  <2> QED
    BY <2>1 DEF OwnersArePast, Rows, NoRow
<1>3. CASE row \in Versions(e)
  BY <1>1, <1>2, <1>3
<1>4. CASE Forgets(e, row)
  BY <1>1, <1>4 DEF Forgets, NoRow
<1>5. CASE OpensRow(e, row)
  BY <1>1, <1>5 DEF OpensRow, BeginRow
<1>6. CASE ClosesRow(e, row)
  <2>1. row.owner = mem[e].owner /\ mem[e] \in Versions(e)
    BY <1>6 DEF ClosesRow, Closed, Versions
  <2> QED
    BY <1>1, <1>2, <2>1
<1> QED
  BY <1>3, <1>4, <1>5, <1>6, AgentVersionStep

LEMMA AttendedByHandlers ==
  ASSUME AgentTypeInv, AgentQueueInv, RunningIsAttended, NEW h \in Handlers, AgentHandler(h)
  PROVE  RunningIsAttended'
<1> DEFINE f == req[h].event
<1>0. /\ TypeInv /\ f \in Events /\ mem \in [Events -> Rows \cup {NoRow}]
      /\ phase = "serving" /\ UNCHANGED <<phase, instance>>
      /\ req'[h] = req[h] \/ pc'[h] = "idle"
      /\ \A g \in Handlers : g # h => pc'[g] = pc[g] /\ req'[g] = req[g]
  BY AgentHandlerShape DEF AgentTypeInv, TypeInv, TypeOK, processVars
<1>1. \A w \in Waiters : run[w].at # "off" => run'[w] = run[w]
  BY AgentHandlerShape DEF GoesBackground, AgentTypeInv
<1> SUFFICES ASSUME NEW e \in Events, mem'[e].status = "running", mem'[e].owner = instance'
             PROVE  \/ \E g \in Handlers : Begun(g)' /\ req'[g].event = e
                    \/ \E w \in Waiters : run'[w].at = "waiting" /\ run'[w].event = e
  BY DEF RunningIsAttended
\* The rows of other events stand, and so do those who attend to them.
<1>2. CASE mem'[e] = mem[e] /\ (Begun(h) => e # f)
  <2>1. CASE \E g \in Handlers : Begun(g) /\ req[g].event = e
    BY <1>0, <1>2, <2>1 DEF Begun
  <2>2. CASE \E w \in Waiters : run[w].at = "waiting" /\ run[w].event = e
    BY <1>1, <2>2
  <2> QED
    BY <1>0, <1>2, <2>1, <2>2 DEF RunningIsAttended
<1>3. CASE UNCHANGED <<mem, writes, run>> /\ pc[h] # "dispatching"
           /\ (pc'[h] = "dispatching" <=> pc[h] = "beginning")
  <2>1. CASE Begun(h) /\ e = f
    BY <1>0, <1>3, <2>1 DEF Begun
  <2> QED
    BY <1>2, <1>3, <2>1
<1>4. CASE Opens(h)
  <2>1. pc[h] = "reading" /\ pc'[h] = "beginning" /\ req'[h] = req[h]
    BY <1>0, <1>4 DEF Opens, Admit, TypeInv, TypeOK
  <2>2. e # f => mem'[e] = mem[e]
    BY <1>0, <1>4 DEF Opens, Put
  <2>3. CASE e = f
    BY <2>1, <2>3 DEF Begun
  <2> QED
    BY <1>2, <2>1, <2>2, <2>3 DEF Begun
<1>5. ASSUME NEW status \in {"succeeded", "failed"}, Closes(h, status)
      PROVE  \/ \E g \in Handlers : Begun(g)' /\ req'[g].event = e
             \/ \E w \in Waiters : run'[w].at = "waiting" /\ run'[w].event = e
  <2>1. Ends(f, status, h) /\ status \in Statuses /\ status # "running"
    BY <1>5 DEF Closes, Statuses
  <2>2. e # f /\ mem'[e] = mem[e]
    BY <1>0, <2>1, EndRests
  <2> QED
    BY <1>2, <2>2
<1>6. ASSUME NEW w \in Waiters, GoesBackground(h, w)
      PROVE  \/ \E g \in Handlers : Begun(g)' /\ req'[g].event = e
             \/ \E x \in Waiters : run'[x].at = "waiting" /\ run'[x].event = e
  <2>1. run'[w].at = "waiting" /\ run'[w].event = f /\ mem' = mem
    BY <1>6 DEF GoesBackground, AgentTypeInv, ledgerVars
  <2> QED
    BY <1>2, <2>1
<1> QED
  BY <1>3, <1>4, <1>5, <1>6, AgentHandlerShape

LEMMA AttendedByWaiters ==
  ASSUME AgentTypeInv, AgentQueueInv, RunningIsAttended, NEW w \in Waiters, Waiter(w)
  PROVE  RunningIsAttended'
<1>0. /\ TypeInv /\ run[w].event \in Events
      /\ UNCHANGED <<phase, instance, pc, req>>
      /\ \A x \in Waiters : x # w => run'[x] = run[x]
  BY WaiterShape DEF AgentTypeInv, processVars, handlerVars
<1> SUFFICES ASSUME NEW e \in Events, phase # "down", mem'[e].status = "running",
                    mem'[e].owner = instance
             PROVE  \/ \E h \in Handlers : Begun(h) /\ req[h].event = e
                    \/ \E x \in Waiters : run'[x].at = "waiting" /\ run'[x].event = e
  BY <1>0 DEF RunningIsAttended, Begun
<1>1. CASE mem'[e] = mem[e] /\ (run[w].at = "waiting" => e # run[w].event)
  BY <1>0, <1>1 DEF RunningIsAttended
<1>2. ASSUME NEW status \in {"succeeded", "failed", "exhausted"}, Concludes(w, status)
      PROVE  mem'[e] = mem[e] /\ e # run[w].event
  <2>1. Ends(run[w].event, status, w) /\ status \in Statuses /\ status # "running"
    BY <1>2 DEF Concludes, Statuses
  <2> QED
    BY <1>0, <2>1, EndRests
<1> QED
  BY <1>1, <1>2, WaiterShape

LEMMA AttendedStep ==
  AgentTypeInv /\ AgentQueueInv /\ AttendedInv /\ [AgentNext]_allVars => AttendedInv'
<1> SUFFICES ASSUME AgentTypeInv, AgentQueueInv, AttendedInv, [AgentNext]_allVars
             PROVE  AttendedInv'
  OBVIOUS
<1>0. /\ TypeInv /\ RunningIsAttended /\ OwnersArePast /\ OwnersArePast'
  BY OwnersStepWithRuns DEF AgentTypeInv, AttendedInv
<1>1. ASSUME UNCHANGED <<processVars, run>> \/ (UNCHANGED <<run, instance>> /\ phase # "down"),
             \A e \in Events : mem'[e] = mem[e] \/ mem'[e].status # "running",
             \A g \in Handlers : Begun(g) => pc'[g] = pc[g] /\ req'[g] = req[g]
      PROVE  RunningIsAttended'
  BY <1>0, <1>1 DEF RunningIsAttended, Begun, processVars
<1>2. CASE HookdeckActs /\ UNCHANGED agentVars
  <2>1. ASSUME NEW e \in Events, NEW h \in Handlers, Deliver(e, h) \/ DeliverCopy(e, h)
        PROVE  RunningIsAttended'
    BY <1>0, <1>1, <1>2, <2>1 DEF Deliver, DeliverCopy, ledgerVars, agentVars, Begun, TypeInv, TypeOK
  <2>2. ASSUME NEW e \in Events,
               DeliverWhileAway(e) \/ AttemptTimesOut(e) \/ ManualRetry(e)
        PROVE  RunningIsAttended'
    BY <1>1, <1>2, <2>2 DEF DeliverWhileAway, AttemptTimesOut, ManualRetry, handlerVars,
      ledgerVars, agentVars
  <2> QED
    BY <1>0, <1>2, <2>1, <2>2 DEF HookdeckActs, AttendedInv
<1>3. CASE Store /\ UNCHANGED agentVars
  BY <1>0, <1>1, <1>3 DEF Store, WriteDone, WriteFails, handlerVars, agentVars, AttendedInv
<1>4. CASE Boot
  <2> SUFFICES ASSUME NEW e \in Events, mem'[e].status = "running"
               PROVE  mem'[e].owner # instance'
    BY <1>0 DEF AttendedInv, RunningIsAttended
  <2>1. mem'[e] = disk[e] /\ instance' = instance + 1
    BY <1>4 DEF Boot, NoRows, NoRow
  <2>2. disk[e].owner <= instance /\ disk[e] \in Rows \cup {NoRow} /\ instance \in Nat
    BY <1>0 DEF OwnersArePast, Versions, TypeInv, TypeOK
  <2> QED
    BY <2>1, <2>2 DEF Rows, NoRow
<1>5. CASE Reconcile /\ UNCHANGED agentVars
  <2>1. /\ phase = "booting" /\ UNCHANGED <<pc, req, instance, run>>
        /\ mem' = mem \/ SettleOrphan
    BY <1>5 DEF Reconcile, RecordSkipped, RetryAccepted, RetryRefused, RecordRefused,
      SettleOrphan, OrphanSettled, Serve, handlerVars, processVars, ledgerVars, agentVars
  <2>2. ASSUME NEW e \in Events, SettleOrphan
        PROVE  mem'[e] = mem[e] \/ mem'[e].status # "running"
    <3>1. current \in Events /\ "failed" \in Statuses /\ Settle(current, "failed", "boot")
      BY <1>0, <2>2 DEF SettleOrphan, TypeInv, HasOrphan, Statuses
    <3>2. Ends(current, "failed", "boot")
      BY <1>0, <3>1, SettleIsEnd
    <3> QED
      BY <1>0, <3>1, <3>2, EndRests
  <2> QED
    BY <1>0, <1>1, <2>1, <2>2 DEF AttendedInv
<1>6. CASE CrashWithRuns
  BY <1>0, <1>6 DEF CrashWithRuns, Crash, AttendedInv, RunningIsAttended
<1>7. ASSUME NEW h \in Handlers, AgentHandler(h)
      PROVE  RunningIsAttended'
  BY <1>0, <1>7, AttendedByHandlers
<1>8. ASSUME NEW w \in Waiters, Waiter(w)
      PROVE  RunningIsAttended'
  BY <1>0, <1>8, AttendedByWaiters
<1>9. CASE UNCHANGED allVars
  BY <1>0, <1>1, <1>9 DEF allVars, vars, agentVars, ledgerVars, handlerVars, AttendedInv
<1> QED
  BY <1>0, <1>2, <1>3, <1>4, <1>5, <1>6, <1>7, <1>8, <1>9 DEF AgentNext, AttendedInv

AgentLedgerInv == AgentTypeInv /\ AgentQueueInv /\ SlotInv /\ AttendedInv

LEMMA AgentLedgerInit == AgentInit => AgentLedgerInv
<1>1. AgentInit => SlotInv
  BY SlotInit DEF AgentInit
<1> QED
  BY <1>1, AgentTypeInit, OwedInit, AttendedInit DEF AgentLedgerInv

LEMMA AgentLedgerStep == AgentLedgerInv /\ [AgentNext]_allVars => AgentLedgerInv'
BY AgentTypeStep, OwedStep, RegistryStepsWithRuns, AttendedStep DEF AgentLedgerInv

LEMMA AgentLedgerSafety == AgentSpec => []AgentLedgerInv
BY AgentLedgerInit, AgentLedgerStep, PTL DEF AgentSpec

\* Every running row of the live instance has a handler or a waiter that will
\* settle it, whichever way the run leaves its request and however it ends.
THEOREM NoRunIsWedged == AgentSpec => []NoWedgedRun
<1>1. AgentLedgerInv => NoWedgedRun
  <2> SUFFICES ASSUME AgentLedgerInv, NEW e \in Events, phase = "serving",
                      mem[e].status = "running", mem[e].owner = instance
               PROVE  \/ \E h \in Handlers : pc[h] \in Working /\ req[h].event = e
                      \/ \E w \in AtWork : run[w].event = e
    BY DEF NoWedgedRun
  <2>1. CASE \E h \in Handlers : Begun(h) /\ req[h].event = e
    BY <2>1 DEF Begun, Working
  <2>2. CASE \E w \in Waiters : run[w].at = "waiting" /\ run[w].event = e
    BY <2>2 DEF AtWork
  <2> QED
    BY <2>1, <2>2 DEF AgentLedgerInv, AttendedInv, RunningIsAttended
<1> QED
  BY <1>1, AgentLedgerSafety, PTL

(***************************************************************************)
(* Attempts and records.  What LedgerProofs says of the steps that are no  *)
(* handler's holds here; handlers and waiters are looked at once more.     *)
(***************************************************************************)
AgentElsewhere ==
  \/ (HookdeckActs \/ Store \/ Boot \/ Reconcile) /\ UNCHANGED agentVars
  \/ CrashWithRuns
  \/ UNCHANGED allVars

LEMMA AgentCases ==
  ASSUME [AgentNext]_allVars
  PROVE  \/ AgentElsewhere
         \/ \E h \in Handlers : AgentHandler(h)
         \/ \E w \in Waiters : Waiter(w)
BY DEF AgentNext, AgentElsewhere

LEMMA ElsewhereIsDelivery ==
  ASSUME AgentElsewhere
  PROVE  /\ Elsewhere /\ [Next]_vars
         /\ UNCHANGED <<run, stranded>> \/ CrashWithRuns
BY DEF AgentElsewhere, Elsewhere, External, Next, CrashWithRuns, agentVars, allVars

LEMMA AgentRecordsGrow ==
  ASSUME AgentTypeInv, AgentQueueInv, [AgentNext]_allVars
  PROVE  /\ deadLetter \subseteq deadLetter' /\ completed \subseteq completed'
         /\ stranded \subseteq stranded'
<1>1. CASE AgentElsewhere
  BY <1>1, ElsewhereIsDelivery, RecordsGrow DEF CrashWithRuns
<1>2. ASSUME NEW h \in Handlers, AgentHandler(h)
      PROVE  /\ deadLetter \subseteq deadLetter' /\ completed \subseteq completed'
             /\ stranded' = stranded
  BY <1>2 DEF AgentHandler, Pipeline, RejectEarly, TurnAway, Admit, SettleAfterThrow, Release,
    RecordDeadLetter, Respond, Busy, InvalidInput, StartRun, Dispatch, StartThrows,
    DispatchThrows, RunReturns, DispatchReturns, GoesBackground, historyVars, agentVars
<1>3. ASSUME NEW w \in Waiters, Waiter(w)
      PROVE  /\ deadLetter \subseteq deadLetter' /\ completed \subseteq completed'
             /\ stranded' = stranded
  BY <1>3 DEF Waiter, RunSucceeds, RunFails, RunLost, RetryTaken, GiveUp, RecordRun, RunEnds,
    historyVars, vars
<1> QED
  BY <1>1, <1>2, <1>3, AgentCases

\* A handler moves Hookdeck by its answer, a waiter by asking for a retry.
LEMMA AnswersMoveHookdeck ==
  ASSUME NEW h \in Handlers, AgentHandler(h)
  PROVE  hookdeck' = hookdeck \/ (Respond(h) /\ UNCHANGED agentVars)
BY DEF AgentHandler, Pipeline, RejectEarly, TurnAway, Admit, SettleAfterThrow, Release,
  RecordDeadLetter, Busy, InvalidInput, StartRun, Dispatch, StartThrows, DispatchThrows,
  RunReturns, DispatchReturns, GoesBackground, hookdeckVars

LEMMA WaitersMoveHookdeck ==
  ASSUME AgentTypeInv, NEW w \in Waiters, Waiter(w), NEW e \in Events
  PROVE  \/ hookdeck'[e] = hookdeck[e]
         \/ hookdeck[e] # "delivering" /\ hookdeck'[e] = "queued"
BY DEF Waiter, RunSucceeds, RunFails, RunLost, RetryTaken, GiveUp, RecordRun, RunEnds,
  hookdeckVars, vars, AgentTypeInv, TypeInv, TypeOK

LEMMA AgentHookdeckStep ==
  ASSUME AgentTypeInv, [AgentNext]_allVars, NEW e \in Events, hookdeck'[e] # hookdeck[e]
  PROVE  \/ hookdeck'[e] \in {"queued", "delivering", "gave_up"}
         \/ \E h \in Handlers :
              /\ Respond(h) /\ UNCHANGED agentVars
              /\ Awaited(req[h]) /\ req[h].event = e
              /\ hookdeck'[e] = Reaction(e, answer[h])
<1>0. TypeInv
  BY DEF AgentTypeInv
<1>1. CASE AgentElsewhere
  <2>1. [Next]_vars /\ (UNCHANGED agentVars \/ hookdeck' = hookdeck)
    BY <1>1, ElsewhereIsDelivery DEF AgentElsewhere, CrashWithRuns, Crash, hookdeckVars, allVars
  <2> QED
    BY <1>0, <2>1, HookdeckStep
<1>2. ASSUME NEW h \in Handlers, AgentHandler(h)
      PROVE  /\ Respond(h) /\ UNCHANGED agentVars
             /\ Awaited(req[h]) /\ req[h].event = e
             /\ hookdeck'[e] = Reaction(e, answer[h])
  BY <1>0, <1>2, AnswersMoveHookdeck DEF Respond, TypeInv, TypeOK
<1>3. ASSUME NEW w \in Waiters, Waiter(w)
      PROVE  hookdeck'[e] = "queued"
  BY <1>3, WaitersMoveHookdeck
<1> QED
  BY <1>1, <1>2, <1>3, AgentCases

LEMMA AgentNumbersKept ==
  ASSUME AgentTypeInv, AgentQueueInv, [AgentNext]_allVars
  PROVE  NumbersKept
<1>0. TypeInv /\ hookdeck \in [Events -> HookdeckStates]
  BY DEF AgentTypeInv, TypeInv, TypeOK
<1>1. ASSUME NEW e \in Events
      PROVE  GrowsByDelivery(e)
  <2>1. CASE AgentElsewhere
    BY <1>0, <2>1, ElsewhereIsDelivery, AttemptsElsewhere DEF GrowsByDelivery
  <2> QED
    BY <2>1, AgentCases, AgentHandlerShape, WaiterShape DEF GrowsByDelivery
<1>2. ASSUME NEW e \in Events
      PROVE  AwaitedByDelivery(e)
  <2>1. CASE AgentElsewhere
    BY <1>0, <2>1, ElsewhereIsDelivery, DeliveringElsewhere DEF AwaitedByDelivery
  <2>2. ASSUME NEW h \in Handlers, AgentHandler(h)
        PROVE  AwaitedByDelivery(e)
    <3>1. attempts' = attempts /\ (hookdeck' = hookdeck \/ Respond(h))
      BY <2>2, AgentHandlerShape, AnswersMoveHookdeck
    <3>2. Respond(h) => hookdeck'[e] = hookdeck[e] \/ hookdeck'[e] # "delivering"
      BY <1>0 DEF Respond, Reaction, AfterFailure
    <3> QED
      BY <3>1, <3>2 DEF AwaitedByDelivery
  <2>3. ASSUME NEW w \in Waiters, Waiter(w)
        PROVE  AwaitedByDelivery(e)
    <3>1. attempts' = attempts
      BY <2>3, WaiterShape
    <3> QED
      BY <2>3, <3>1, WaitersMoveHookdeck DEF AwaitedByDelivery
  <2> QED
    BY <2>1, <2>2, <2>3, AgentCases
<1>3. ASSUME NEW h \in Handlers
      PROVE  ActiveByDelivery(h)
  <2>1. CASE AgentElsewhere
    BY <1>0, <2>1, ElsewhereIsDelivery, HandlersLeftAlone DEF ActiveByDelivery
  <2>2. CASE AgentHandler(h)
    <3>1. pc[h] # "idle" /\ (req'[h] = req[h] \/ pc'[h] = "idle")
      BY <2>2, AgentHandlerShape
    <3>2. pc'[h] # "reading"
      BY <1>0, <2>2 DEF AgentHandler, Pipeline, RejectEarly, TurnAway, Admit, SettleAfterThrow,
        Release, RecordDeadLetter, Respond, Busy, InvalidInput, StartRun, Dispatch,
        StartThrows, DispatchThrows, RunReturns, DispatchReturns, GoesBackground, TypeInv, TypeOK
    <3> QED
      BY <3>1, <3>2 DEF ActiveByDelivery
  <2>3. ASSUME NEW g \in Handlers, AgentHandler(g), g # h
        PROVE  ActiveByDelivery(h)
    BY <2>3, AgentHandlerShape DEF ActiveByDelivery
  <2>4. ASSUME NEW w \in Waiters, Waiter(w)
        PROVE  ActiveByDelivery(h)
    BY <2>4, WaiterShape DEF ActiveByDelivery, handlerVars
  <2> QED
    BY <2>1, <2>2, <2>3, <2>4, AgentCases
<1>4. ASSUME NEW h \in Handlers, AgentHandler(h), Opens(h)
      PROVE  /\ phase = "serving" /\ pc[h] = "reading" /\ pc'[h] = "beginning"
             /\ mem' = [mem EXCEPT ![req[h].event] =
                          BeginRow(mem[req[h].event], Header(req[h]), instance)]
             /\ req[h].event \in Events
  BY <1>0, <1>4, AgentHandlerShape DEF Opens, Admit, Put, TypeInv, TypeOK
<1>5. ASSUME NEW e \in Events
      PROVE  VersionsByBegin(e)
  <2>1. ASSUME NEW row, OpensRow(e, row)
        PROVE  BegunByHandler(e, row)
    BY <1>4, <2>1 DEF OpensRow, BegunByHandler
  <2>2. ASSUME NEW row, ClosesRow(e, row)
        PROVE  phase # "down" /\ row.attempt = mem[e].attempt
    BY <2>2 DEF ClosesRow, Closed
  <2> QED
    BY <2>1, <2>2, AgentVersionStep DEF VersionsByBegin, Forgets
<1>6. ASSUME NEW e \in Events
      PROVE  MemoryByBegin(e)
  <2>1. CASE AgentElsewhere
    <3>1. CASE HookdeckActs \/ Store \/ UNCHANGED allVars
      BY <3>1 DEF HookdeckActs, Deliver, DeliverCopy, DeliverWhileAway, AttemptTimesOut,
        ManualRetry, Store, WriteDone, WriteFails, ledgerVars, allVars, vars, MemoryByBegin
    <3>2. CASE Boot \/ Reconcile \/ CrashWithRuns
      BY <3>2 DEF Boot, Reconcile, RecordSkipped, RetryAccepted, RetryRefused, RecordRefused,
        SettleOrphan, OrphanSettled, Serve, CrashWithRuns, Crash, MemoryByBegin
    <3> QED
      BY <2>1, <3>1, <3>2 DEF AgentElsewhere
  <2>2. ASSUME NEW f \in Events, NEW status \in Statuses, NEW by, Ends(f, status, by)
        PROVE  mem'[e].attempt = mem[e].attempt
    BY <1>0, <2>2, EndRests
  <2>3. ASSUME NEW h \in Handlers, AgentHandler(h)
        PROVE  MemoryByBegin(e)
    <3>1. CASE UNCHANGED mem
      BY <3>1 DEF MemoryByBegin
    <3>2. CASE Opens(h)
      <4>1. mem \in [Events -> Rows \cup {NoRow}]
        BY <1>0 DEF TypeInv, TypeOK
      <4>2. CASE req[h].event = e
        BY <1>4, <2>3, <3>2, <4>1, <4>2 DEF BegunByHandler, MemoryByBegin
      <4>3. CASE req[h].event # e
        BY <1>4, <2>3, <3>2, <4>1, <4>3 DEF MemoryByBegin
      <4> QED
        BY <4>2, <4>3
    <3>3. ASSUME NEW status \in {"succeeded", "failed"}, Closes(h, status)
          PROVE  MemoryByBegin(e)
      <4>1. Ends(req[h].event, status, h) /\ status \in Statuses /\ req[h].event \in Events
        BY <2>3, <3>3, AgentHandlerShape DEF Closes, Statuses
      <4> QED
        BY <2>2, <4>1 DEF MemoryByBegin
    <3> QED
      BY <2>3, <3>1, <3>2, <3>3, AgentHandlerShape DEF GoesBackground, ledgerVars
  <2>4. ASSUME NEW w \in Waiters, Waiter(w)
        PROVE  MemoryByBegin(e)
    <3>1. ASSUME NEW status \in {"succeeded", "failed", "exhausted"}, Concludes(w, status)
          PROVE  MemoryByBegin(e)
      <4>1. Ends(run[w].event, status, w) /\ status \in Statuses /\ run[w].event \in Events
        BY <2>4, <3>1, WaiterShape DEF Concludes, Statuses
      <4> QED
        BY <2>2, <4>1 DEF MemoryByBegin
    <3> QED
      BY <2>4, <3>1, WaiterShape DEF MemoryByBegin
  <2> QED
    BY <2>1, <2>3, <2>4, AgentCases
<1> QED
  BY <1>1, <1>2, <1>3, <1>5, <1>6 DEF NumbersKept

LEMMA AgentAttemptsStep ==
  ASSUME AgentLedgerInv, AttemptInv, [AgentNext]_allVars
  PROVE  AttemptInv'
<1>1. NumbersKept /\ AgentLedgerInv'
  BY AgentNumbersKept, AgentLedgerStep DEF AgentLedgerInv
<1> QED
  BY <1>1, NumbersStep DEF AgentLedgerInv, AgentTypeInv, AgentQueueInv

(***************************************************************************)
(* With a disk that works, a running row that no handler works on is on    *)
(* disk as it is in memory, and nothing queued will overwrite it.          *)
(***************************************************************************)
RunningJobs ==
  \A i \in DOMAIN writes :
    writes[i].row.status = "running" => writes[i].by \in Handlers

LEMMA AgentDiskHolds ==
  ASSUME ~DiskMayFail, AgentTypeInv, AgentQueueInv, persistence = "active",
         [AgentNext]_allVars
  PROVE  persistence' = "active" /\ \A e, row : ~Forgets(e, row)
<1>1. ASSUME NEW h \in Handlers, AgentHandler(h)
      PROVE  persistence' = persistence
  BY <1>1, AgentHandlerShape
<1>2. ASSUME NEW w \in Waiters, Waiter(w)
      PROVE  persistence' = persistence
  BY <1>2, WaiterShape
<1>3. ASSUME Elsewhere
      PROVE  persistence' = "active"
  BY <1>3 DEF Elsewhere, External, HookdeckActs, Deliver, DeliverCopy, DeliverWhileAway,
    AttemptTimesOut, ManualRetry, Crash, Store, WriteDone, WriteFails, Boot, Reconcile,
    RecordSkipped, RetryAccepted, RetryRefused, RecordRefused, SettleOrphan,
    OrphanSettled, Serve, ledgerVars, vars
<1> QED
  BY <1>1, <1>2, <1>3, AgentCases, ElsewhereIsDelivery DEF Forgets

LEMMA PutKeepsJobs ==
  ASSUME TypeInv, RunningJobs, NEW e, NEW row, NEW by, Put(e, row, by),
         row.status = "running" => by \in Handlers
  PROVE  RunningJobs'
<1>1. writes \in Seq(Jobs)
  BY DEF TypeInv, TypeOK
<1>2. CASE writes' = writes
  BY <1>2 DEF RunningJobs
<1>3. CASE writes' = Append(writes, [event |-> e, row |-> row, by |-> by])
  <2> DEFINE job == [event |-> e, row |-> row, by |-> by]
  <2>1. job.row = row /\ job.by = by
    OBVIOUS
  <2> HIDE DEF job
  <2>2. writes' = Append(writes, job)
    BY <1>3 DEF job
  <2>3. \A i \in DOMAIN writes' :
          \/ i \in DOMAIN writes /\ writes'[i] = writes[i]
          \/ writes'[i] = job
    BY <1>1, <2>2
  <2> QED
    BY <2>1, <2>3 DEF RunningJobs
<1> QED
  BY <1>2, <1>3 DEF Put

LEMMA EndKeepsJobs ==
  ASSUME TypeInv, RunningJobs, NEW e, NEW status, status # "running", NEW by,
         Ends(e, status, by)
  PROVE  RunningJobs'
<1>1. CASE mem[e] = NoRow
  BY <1>1 DEF Ends, RunningJobs
<1>2. CASE mem[e] # NoRow
  <2>1. PICK retries \in Nat : Put(e, Closed(mem[e], status, retries), by)
    BY <1>2 DEF Ends
  <2>2. Closed(mem[e], status, retries).status # "running"
    BY DEF Closed
  <2> HIDE DEF Closed
  <2> QED
    BY <2>1, <2>2, PutKeepsJobs
<1> QED
  BY <1>1, <1>2

LEMMA JobsStep ==
  ASSUME AgentTypeInv, AgentQueueInv, RunningJobs, [AgentNext]_allVars
  PROVE  RunningJobs'
<1>0. TypeInv /\ writes \in Seq(Jobs)
  BY DEF AgentTypeInv, TypeInv, TypeOK
<1>1. CASE writes' = writes
  BY <1>1 DEF RunningJobs
<1>2. ASSUME NEW h \in Handlers, AgentHandler(h)
      PROVE  RunningJobs'
  <2>1. CASE Opens(h)
    BY <1>0, <2>1, PutKeepsJobs DEF Opens
  <2>2. ASSUME NEW status \in {"succeeded", "failed"}, Closes(h, status)
        PROVE  RunningJobs'
    BY <1>0, <2>2, EndKeepsJobs DEF Closes
  <2> QED
    BY <1>1, <1>2, <2>1, <2>2, AgentHandlerShape DEF GoesBackground, ledgerVars
<1>3. ASSUME NEW w \in Waiters, Waiter(w)
      PROVE  RunningJobs'
  <2>1. ASSUME NEW status \in {"succeeded", "failed", "exhausted"}, Concludes(w, status)
        PROVE  RunningJobs'
    BY <1>0, <2>1, EndKeepsJobs DEF Concludes
  <2> QED
    BY <1>1, <1>3, <2>1, WaiterShape
<1>4. CASE WriteDone
  <2>1. writes # <<>> /\ writes' = Tail(writes)
    BY <1>4 DEF WriteDone
  <2>2. \A i \in DOMAIN writes' : i + 1 \in DOMAIN writes /\ writes'[i] = writes[i + 1]
    BY <1>0, <2>1
  <2> QED
    BY <2>2 DEF RunningJobs
<1>5. CASE writes' = <<>>
  BY <1>5 DEF RunningJobs
<1>6. CASE SettleOrphan
  <2>1. current \in Events /\ "failed" \in Statuses /\ Settle(current, "failed", "boot")
    BY <1>0, <1>6 DEF SettleOrphan, TypeInv, HasOrphan, Statuses
  <2>2. Ends(current, "failed", "boot")
    BY <1>0, <2>1, SettleIsEnd
  <2> QED
    BY <1>0, <2>2, EndKeepsJobs
<1>7. CASE Elsewhere
  BY <1>1, <1>4, <1>5, <1>6, <1>7 DEF Elsewhere, External, HookdeckActs, Deliver,
    DeliverCopy, DeliverWhileAway, AttemptTimesOut, ManualRetry, Crash, Store, WriteFails,
    Boot, Reconcile, RecordSkipped, RetryAccepted, RetryRefused, RecordRefused,
    OrphanSettled, Serve, ledgerVars, vars
<1> QED
  BY <1>2, <1>3, <1>7, AgentCases, ElsewhereIsDelivery

\* The last job of such a row would be a handler's that still awaits it.
LEMMA RunningIsQuiet ==
  ASSUME AgentLedgerInv, RunningJobs, persistence = "active", phase # "down",
         NEW e \in Events, mem[e].status = "running", e \notin inFlight
  PROVE  Quiet(e) /\ disk[e] = mem[e]
<1>0. TypeInv /\ SlotInv /\ JobsAreOwed /\ EndsInMemory(e)
  BY DEF AgentLedgerInv, AgentTypeInv, AgentQueueInv, QueueEndsInMemory
<1>1. ASSUME NEW i \in DOMAIN writes, writes[i].event = e, writes[i].row = mem[e]
      PROVE  FALSE
  <2> DEFINE h == writes[i].by
  <2>1. h \in Handlers
    BY <1>1 DEF RunningJobs
  <2>2. pc[h] \in {"beginning", "failing", "settling"} /\ req[h].event = e
    BY <1>0, <1>1, <2>1, DeliveryAssumption DEF JobsAreOwed, Waits, WaiterWaits
  <2> HIDE DEF h
  <2>3. pc[h] \in Working
    BY <2>2 DEF Working
  <2> QED
    BY <1>0, <2>1, <2>2, <2>3, WorkingHolds
<1> QED
  BY <1>0, <1>1 DEF EndsInMemory

LEMMA AgentFailingStep ==
  ASSUME AgentTypeInv, AgentQueueInv, FailingRetries, [AgentNext]_allVars
  PROVE  FailingRetries'
<1>0. TypeInv
  BY DEF AgentTypeInv
<1> SUFFICES ASSUME NEW h \in Handlers, pc'[h] = "failing"
             PROVE  answer'[h] = "retry"
  BY DEF FailingRetries
<1>1. CASE AgentHandler(h)
  BY <1>0, <1>1 DEF AgentHandler, Pipeline, RejectEarly, TurnAway, Admit, SettleAfterThrow,
    Release, RecordDeadLetter, Respond, Busy, InvalidInput, StartRun, Dispatch,
    StartThrows, DispatchThrows, RunReturns, DispatchReturns, GoesBackground, TypeInv, TypeOK
<1>2. ASSUME NEW g \in Handlers, AgentHandler(g), g # h
      PROVE  pc'[h] = pc[h] /\ answer'[h] = answer[h]
  BY <1>2, AgentHandlerShape
<1>3. ASSUME NEW w \in Waiters, Waiter(w)
      PROVE  pc'[h] = pc[h] /\ answer'[h] = answer[h]
  BY <1>3, WaiterShape DEF handlerVars
<1>4. CASE AgentElsewhere
  BY <1>0, <1>4, ElsewhereIsDelivery, HandlersLeftAlone DEF FailingRetries
<1> QED
  BY <1>1, <1>2, <1>3, <1>4, AgentCases DEF FailingRetries

(***************************************************************************)
(* What a row says is true: work it has succeeded was done, and who gave   *)
(* up on an event has recorded it, is about to, or died before he could.   *)
(***************************************************************************)
GivenUp(e) ==
  \/ e \in deadLetter \cup stranded
  \/ \E w \in Waiters : run[w].at = "exhausting" /\ run[w].event = e

RowsAreTrue ==
  \A e \in Events : \A row \in Versions(e) :
    /\ row.status = "succeeded" => e \in completed
    /\ row.status = "exhausted" => GivenUp(e)

\* A waiter on its way from the end of its run to a record or a retry.
Answering(w) == run[w].at \in {"failing", "losing", "unanswered", "exhausting"}

\* It goes on until it has asked for the retry or left the record.
LEMMA AnsweringStep ==
  ASSUME AgentTypeInv, AgentQueueInv, [AgentNext]_allVars,
         NEW w \in Waiters, Answering(w), NEW e \in Events, run[w].event = e
  PROVE  \/ e \in deadLetter' \cup stranded'
         \/ run[w].at # "exhausting" /\ hookdeck'[e] = "queued"
         \/ /\ Answering(w)' /\ run'[w].event = e
            /\ run[w].at = "exhausting" => run'[w].at = "exhausting"
<1>0. TypeInv /\ run \in [Waiters -> RunRecords] /\ hookdeck \in [Events -> HookdeckStates]
  BY DEF AgentTypeInv, TypeInv, TypeOK
<1>1. ASSUME run'[w] = run[w]
      PROVE  /\ Answering(w)' /\ run'[w].event = e
             /\ run[w].at = "exhausting" => run'[w].at = "exhausting"
  BY <1>1 DEF Answering
<1>2. CASE AgentElsewhere
  <2>1. CASE CrashWithRuns
    BY <2>1 DEF CrashWithRuns, Answering
  <2> QED
    BY <1>1, <1>2, <2>1, ElsewhereIsDelivery
<1>3. ASSUME NEW h \in Handlers, AgentHandler(h)
      PROVE  run'[w] = run[w]
  <2>1. ASSUME NEW x \in Waiters, GoesBackground(h, x)
        PROVE  run'[w] = run[w]
    BY <1>0, <2>1 DEF GoesBackground, Answering
  <2> QED
    BY <1>3, <2>1, AgentHandlerShape
<1>4. ASSUME NEW x \in Waiters, Waiter(x), x # w
      PROVE  run'[w] = run[w]
  BY <1>4, WaiterShape
<1>5. CASE Waiter(w)
  <2>1. CASE RecordRun(w)
    BY <2>1 DEF RecordRun
  <2>2. ASSUME NEW heard \in BOOLEAN, RetryTaken(w, heard)
        PROVE  run[w].at # "exhausting" /\ hookdeck'[e] = "queued"
    BY <1>0, <2>2 DEF RetryTaken
  <2>3. CASE GiveUp(w)
    BY <1>0, <2>3 DEF GiveUp, Goes, RunRecords, Answering
  <2>4. ~RunSucceeds(w) /\ ~RunFails(w) /\ ~RunLost(w) /\ ~RunEnds(w)
    BY DEF RunSucceeds, RunFails, RunLost, RunEnds, Answering
  <2> QED
    BY <1>5, <2>1, <2>2, <2>3, <2>4 DEF Waiter
<1> QED
  BY <1>1, <1>2, <1>3, <1>4, <1>5, AgentCases

LEMMA GivenUpStays ==
  ASSUME AgentTypeInv, AgentQueueInv, [AgentNext]_allVars, NEW e \in Events, GivenUp(e)
  PROVE  GivenUp(e)'
<1>1. CASE e \in deadLetter \cup stranded
  BY <1>1, AgentRecordsGrow DEF GivenUp
<1>2. ASSUME NEW w \in Waiters, run[w].at = "exhausting", run[w].event = e
      PROVE  GivenUp(e)'
  BY <1>2, AnsweringStep DEF Answering, GivenUp
<1> QED
  BY <1>1, <1>2 DEF GivenUp

LEMMA RowsAreTrueStep ==
  ASSUME ~DiskMayFail, AgentTypeInv, AgentQueueInv, persistence = "active", RowsAreTrue,
         [AgentNext]_allVars
  PROVE  RowsAreTrue'
<1> SUFFICES ASSUME NEW e \in Events, NEW row, row \in Versions(e)'
             PROVE  /\ row.status = "succeeded" => e \in completed'
                    /\ row.status = "exhausted" => GivenUp(e)'
  BY DEF RowsAreTrue
<1>1. CASE row \in Versions(e)
  BY <1>1, AgentRecordsGrow, GivenUpStays DEF RowsAreTrue
<1>2. ~Forgets(e, row)
  BY AgentDiskHolds
<1>3. CASE OpensRow(e, row)
  BY <1>3 DEF OpensRow, BeginRow
<1>4. CASE ClosesRow(e, row)
  BY <1>4 DEF ClosesRow, GivenUp
<1> QED
  BY <1>1, <1>2, <1>3, <1>4, AgentVersionStep

LEMMA AgentHandoverStep ==
  ASSUME AgentTypeInv, AgentQueueInv, OrphanIsHandedOver, [AgentNext]_allVars
  PROVE  OrphanIsHandedOver'
<1>1. ASSUME NEW h \in Handlers, AgentHandler(h)
      PROVE  OrphanIsHandedOver'
  BY <1>1, AgentHandlerShape DEF OrphanIsHandedOver, recoveryVars, processVars
<1>2. ASSUME NEW w \in Waiters, Waiter(w)
      PROVE  OrphanIsHandedOver'
  BY <1>2, WaiterShape DEF OrphanIsHandedOver, recoveryVars, processVars
<1> QED
  BY <1>1, <1>2, AgentCases, ElsewhereIsDelivery, HandoverElsewhere DEF AgentQueueInv, AgentTypeInv

(***************************************************************************)
(* What backs an answer of 200 or 202: a record that outlives the process, *)
(* a waiter that will leave one or hand the event back, or a running row   *)
(* of the newest attempt that nobody but a waiter will close: after a      *)
(* crash the boot finds it on disk.                                        *)
(***************************************************************************)
Told(e)     == e \in completed \cup Filtered \cup deadLetter \cup stranded
Answered(e) == \E w \in Waiters : Answering(w) /\ run[w].event = e

Newest(e, row) == e \in Headerless \/ row.attempt >= attempts[e]
RowRuns(e, row) == row.status = "running" /\ Newest(e, row)

RowStands(e) ==
  IF phase = "down" THEN RowRuns(e, disk[e])
                    ELSE RowRuns(e, mem[e]) /\ e \notin inFlight

Backed(e) == Told(e) \/ Answered(e) \/ RowStands(e)

\* Unless Hookdeck takes the event back, who is told of stays told of.
LEMMA AnsweredStays ==
  ASSUME AgentTypeInv, AgentQueueInv, [AgentNext]_allVars, NEW e \in Events,
         Told(e) \/ Answered(e), hookdeck'[e] # "queued"
  PROVE  Told(e)' \/ Answered(e)'
<1>1. CASE Told(e)
  BY <1>1, AgentRecordsGrow DEF Told
<1>2. ASSUME NEW w \in Waiters, Answering(w), run[w].event = e
      PROVE  Told(e)' \/ Answered(e)'
  BY <1>2, AnsweringStep DEF Told, Answered
<1> QED
  BY <1>1, <1>2 DEF Answered

\* A running row of the newest attempt turns every delivery away.
LEMMA RunningIsLeft ==
  ASSUME AgentTypeInv, RequestsAreNumbered, NEW e \in Events, RowRuns(e, mem[e]),
         NEW h \in Handlers, Opens(h), req[h].event = e
  PROVE  FALSE
<1>0. TypeInv
  BY DEF AgentTypeInv
<1>1. Verdict(req[h], CanAccept) = "begin" /\ pc[h] # "idle"
  BY DEF Opens, Admit
<1>2. Admits(mem[e], Header(req[h])) /\ mem[e].status = "running" /\ mem[e] # NoRow
  BY <1>1 DEF Verdict, RowRuns, NoRow
<1>3. /\ req[h].attempt \in Nat /\ req[h].attempt <= attempts[e] /\ attempts[e] \in Nat
      /\ mem[e].attempt \in Nat
  BY <1>0, <1>1 DEF RequestsAreNumbered, TypeInv, TypeOK, HasRequest, Requests, Rows, NoRow
<1>4. CASE e \in Headerless
  <2>1. Header(req[h]) = NoAttempt /\ PlausibleAttempt(NoAttempt) = NoAttempt
    BY <1>4, PlausibleAssumption DEF Header, PlausibleAttempt, NoAttempt
  <2> QED
    BY <1>2, <2>1 DEF Admits, AdmitReasons, DecideAdmission, RejectReason
<1>5. CASE e \notin Headerless
  <2>1. Header(req[h]) = req[h].attempt /\ req[h].attempt <= mem[e].attempt
    BY <1>3, <1>5 DEF Header, RowRuns, Newest
  <2>2. ~(PlausibleAttempt(Header(req[h])) # NoAttempt
            /\ PlausibleAttempt(Header(req[h])) > mem[e].attempt)
    BY <1>3, <2>1 DEF PlausibleAttempt, NoAttempt
  <2> QED
    BY <1>2, <2>2 DEF Admits, AdmitReasons, DecideAdmission, RejectReason
<1> QED
  BY <1>4, <1>5

\* Who changes a row in memory.
LEMMA AgentMemoryStep ==
  ASSUME AgentTypeInv, AgentQueueInv, [AgentNext]_allVars, NEW e \in Events
  PROVE  \/ mem'[e] = mem[e] \/ CrashWithRuns \/ Boot
         \/ SettleOrphan /\ current = e
         \/ \E h \in Handlers :
              /\ AgentHandler(h) /\ req[h].event = e
              /\ Opens(h) \/ \E status \in {"succeeded", "failed"} : Closes(h, status)
         \/ \E w \in Waiters, status \in {"succeeded", "failed", "exhausted"} :
              Waiter(w) /\ Concludes(w, status) /\ run[w].event = e
<1>0. TypeInv /\ mem \in [Events -> Rows \cup {NoRow}]
  BY DEF AgentTypeInv, TypeInv, TypeOK
<1>1. CASE AgentElsewhere
  <2>1. CASE SettleOrphan
    BY <1>0, <2>1 DEF SettleOrphan, Settle, Put
  <2> QED
    BY <1>1, <2>1 DEF AgentElsewhere, HookdeckActs, Deliver, DeliverCopy, DeliverWhileAway,
      AttemptTimesOut, ManualRetry, Store, WriteDone, WriteFails, Reconcile, RecordSkipped,
      RetryAccepted, RetryRefused, RecordRefused, OrphanSettled, Serve, ledgerVars, vars,
      allVars
<1>2. ASSUME NEW h \in Handlers, AgentHandler(h)
      PROVE  \/ mem'[e] = mem[e]
             \/ /\ req[h].event = e
                /\ Opens(h) \/ \E status \in {"succeeded", "failed"} : Closes(h, status)
  <2>1. CASE Opens(h)
    BY <1>0, <2>1 DEF Opens, Put
  <2>2. ASSUME NEW status \in {"succeeded", "failed"}, Closes(h, status)
        PROVE  mem'[e] = mem[e] \/ req[h].event = e
    <3>1. Ends(req[h].event, status, h) /\ status \in Statuses /\ req[h].event \in Events
      BY <1>2, <2>2, AgentHandlerShape DEF Closes, Statuses
    <3> QED
      BY <1>0, <3>1, EndRests
  <2> QED
    BY <1>2, <2>1, <2>2, AgentHandlerShape DEF GoesBackground, ledgerVars
<1>3. ASSUME NEW w \in Waiters, Waiter(w)
      PROVE  \/ mem'[e] = mem[e]
             \/ \E status \in {"succeeded", "failed", "exhausted"} :
                  Concludes(w, status) /\ run[w].event = e
  <2>1. ASSUME NEW status \in {"succeeded", "failed", "exhausted"}, Concludes(w, status)
        PROVE  mem'[e] = mem[e] \/ run[w].event = e
    <3>1. Ends(run[w].event, status, w) /\ status \in Statuses /\ run[w].event \in Events
      BY <1>3, <2>1, WaiterShape DEF Concludes, Statuses
    <3> QED
      BY <1>0, <3>1, EndRests
  <2> QED
    BY <1>3, <2>1, WaiterShape
<1> QED
  BY <1>1, <1>2, <1>3, AgentCases

\* A waiter closes such a row only to answer for the event.
LEMMA RowRunsOn ==
  ASSUME AgentTypeInv, AgentQueueInv, RequestsAreNumbered, [AgentNext]_allVars,
         NEW e \in Events, RowRuns(e, mem[e]), phase # "down", ~CrashWithRuns,
         ~(SettleOrphan /\ current = e),
         \A h \in Handlers, status \in {"succeeded", "failed"} :
           ~(AgentHandler(h) /\ req[h].event = e /\ Closes(h, status))
  PROVE  Told(e)' \/ Answered(e)' \/ mem'[e] = mem[e]
<1>1. ASSUME NEW w \in Waiters, NEW status \in {"succeeded", "failed", "exhausted"},
             Waiter(w), Concludes(w, status), run[w].event = e
      PROVE  Told(e)' \/ Answered(e)'
  <2>1. run'[w].event = e \/ run'[w].at = "off"
    BY <1>1, WaiterShape
  <2>2. CASE status = "succeeded"
    BY <1>1, <2>2 DEF Concludes, Told
  <2>3. CASE status # "succeeded"
    BY <1>1, <2>1, <2>3 DEF Concludes, Answered, Answering
  <2> QED
    BY <2>2, <2>3
<1>2. ~Boot
  BY DEF Boot
<1> QED
  BY <1>1, <1>2, AgentMemoryStep, RunningIsLeft

LEMMA RegistryGrows ==
  ASSUME AgentTypeInv, AgentQueueInv, [AgentNext]_allVars, NEW e \in inFlight', e \notin inFlight
  PROVE  \E h \in Handlers : AgentHandler(h) /\ Opens(h) /\ req[h].event = e
<1> USE DEF handlerVars
<1>1. CASE AgentElsewhere
  BY <1>1 DEF AgentElsewhere, HookdeckActs, Deliver, DeliverCopy, DeliverWhileAway,
    AttemptTimesOut, ManualRetry, CrashWithRuns, Crash, Store, WriteDone, WriteFails, Boot,
    Reconcile, RecordSkipped, RetryAccepted, RetryRefused, RecordRefused, SettleOrphan,
    OrphanSettled, Serve, vars, allVars
<1>2. ASSUME NEW h \in Handlers, AgentHandler(h)
      PROVE  Opens(h) /\ req[h].event = e
  BY <1>2 DEF AgentHandler, Pipeline, RejectEarly, TurnAway, Admit, SettleAfterThrow, Release,
    RecordDeadLetter, Respond, Busy, InvalidInput, StartRun, Dispatch, StartThrows,
    DispatchThrows, RunReturns, DispatchReturns, GoesBackground, Opens, Begin
<1>3. ASSUME NEW w \in Waiters, Waiter(w)
      PROVE  inFlight' = inFlight
  BY <1>3, WaiterShape
<1> QED
  BY <1>1, <1>2, <1>3, AgentCases

\* The next boot finds the row that stands: nothing queued overwrites it.
LEMMA StandsThroughCrash ==
  ASSUME AgentLedgerInv, RunningJobs, persistence = "active",
         CrashWithRuns, NEW e \in Events, RowStands(e), attempts'[e] = attempts[e]
  PROVE  RowStands(e)'
<1>0. phase # "down" /\ phase' = "down"
  BY DEF CrashWithRuns, Crash
<1>1. RowRuns(e, mem[e]) /\ Quiet(e) /\ disk[e] = mem[e]
  BY <1>0, RunningIsQuiet DEF RowStands, RowRuns
<1>2. disk \in [Events -> Rows \cup {NoRow}]
  BY DEF AgentLedgerInv, AgentTypeInv, TypeInv, TypeOK
<1>3. \A i \in DOMAIN writes : Applied(writes[i])[e] = disk[e]
  BY <1>1, <1>2 DEF Applied, Quiet
<1>4. disk'[e] = disk[e]
  BY <1>3 DEF CrashWithRuns, Crash
<1> QED
  BY <1>0, <1>1, <1>4 DEF RowStands, RowRuns, Newest

LEMMA StandsWhileDown ==
  ASSUME ~DiskMayFail, AgentLedgerInv, [AgentNext]_allVars, phase = "down",
         NEW e \in Events, RowStands(e), attempts'[e] = attempts[e]
  PROVE  RowStands(e)'
<1>0. /\ writes = <<>> /\ inFlight = {} /\ (\A h \in Handlers : pc[h] = "idle")
      /\ \A w \in Waiters : run[w].at = "off"
  BY DEF AgentLedgerInv, AgentQueueInv, NothingQueued, ServesAlone, RunsAreServed, SlotInv,
    SlotsAccountedFor, Working
<1>1. AgentElsewhere
  BY <1>0, AgentCases, AgentHandlerShape, WaiterShape DEF AgentLedgerInv
<1>2. CASE Boot
  BY <1>0, <1>2 DEF Boot, handlerVars, RowStands, RowRuns, Newest
<1>3. CASE ~Boot
  <2>1. disk' = disk /\ phase' = phase
    BY <1>0, <1>1, <1>3 DEF AgentElsewhere, HookdeckActs, Deliver, DeliverCopy, DeliverWhileAway,
      AttemptTimesOut, ManualRetry, CrashWithRuns, Crash, Store, WriteDone, WriteFails,
      Reconcile, RecordSkipped, RetryAccepted, RetryRefused, RecordRefused, SettleOrphan,
      OrphanSettled, Serve, ledgerVars, processVars, vars, allVars
  <2> QED
    BY <2>1 DEF RowStands, RowRuns, Newest
<1> QED
  BY <1>2, <1>3

LEMMA BackedStays ==
  ASSUME ~DiskMayFail, AgentLedgerInv, RunningJobs, persistence = "active",
         RequestsAreNumbered, [AgentNext]_allVars,
         NEW e \in Events, Backed(e), attempts'[e] = attempts[e], hookdeck'[e] # "queued",
         ~(SettleOrphan /\ current = e)
  PROVE  Backed(e)'
<1>0. AgentTypeInv /\ AgentQueueInv /\ SlotInv /\ TypeInv
  BY DEF AgentLedgerInv, AgentTypeInv
<1>1. CASE Told(e) \/ Answered(e)
  BY <1>0, <1>1, AnsweredStays DEF Backed
<1>2. CASE RowStands(e) /\ phase = "down"
  BY <1>2, StandsWhileDown DEF Backed
<1>3. CASE RowStands(e) /\ CrashWithRuns
  BY <1>3, StandsThroughCrash DEF Backed
<1>4. CASE RowStands(e) /\ phase # "down" /\ ~CrashWithRuns
  <2>1. RowRuns(e, mem[e]) /\ e \notin inFlight
    BY <1>4 DEF RowStands
  <2>2. \A h \in Handlers, status \in {"succeeded", "failed"} :
          ~(AgentHandler(h) /\ req[h].event = e /\ Closes(h, status))
    BY <1>0, <2>1, WorkingHolds DEF Closes, Working
  <2>3. Told(e)' \/ Answered(e)' \/ mem'[e] = mem[e]
    BY <1>0, <1>4, <2>1, <2>2, RowRunsOn
  <2>4. e \notin inFlight'
    BY <1>0, <2>1, RegistryGrows, RunningIsLeft
  <2>5. phase' # "down"
    <3>1. CASE AgentElsewhere
      BY <1>4, <3>1 DEF AgentElsewhere, HookdeckActs, Deliver, DeliverCopy, DeliverWhileAway,
        AttemptTimesOut, ManualRetry, Store, WriteDone, WriteFails, Boot, Reconcile,
        RecordSkipped, RetryAccepted, RetryRefused, RecordRefused, SettleOrphan,
        OrphanSettled, Serve, processVars, vars, allVars
    <3> QED
      BY <1>0, <1>4, <3>1, AgentCases, AgentHandlerShape, WaiterShape DEF processVars
  <2> QED
    BY <2>1, <2>3, <2>4, <2>5 DEF Backed, RowStands, RowRuns, Newest
<1> QED
  BY <1>1, <1>2, <1>3, <1>4 DEF Backed

BegunIsBacked ==
  \A h \in Handlers :
    Begun(h) /\ Awaited(req[h]) =>
      LET e == req[h].event
      IN  Told(e) \/ Answered(e) \/ RowRuns(e, mem[e])

OkIsBacked ==
  \A h \in Handlers :
    pc[h] \in {"settling", "answered"} /\ answer[h] = "ok" /\ Awaited(req[h]) =>
      Backed(req[h].event)

AcknowledgedIsBacked == \A e \in Events : hookdeck[e] = "acknowledged" => Backed(e)

\* The attempt a handler still works on after a step was awaited before it.
LEMMA StillAwaited ==
  ASSUME AgentTypeInv, AgentTypeInv', AgentQueueInv, RequestsAreNumbered, [AgentNext]_allVars,
         NEW h \in Handlers, pc'[h] \notin {"idle", "reading"}, Awaited(req[h])',
         NEW e \in Events, req'[h].event = e
  PROVE  /\ pc[h] # "idle" /\ req'[h] = req[h] /\ Awaited(req[h])
         /\ hookdeck'[e] = "delivering" /\ attempts'[e] = attempts[e]
         /\ phase = "serving" /\ ~CrashWithRuns /\ ~Boot /\ ~SettleOrphan
<1>0. TypeInv
  BY DEF AgentTypeInv
<1>1. NumbersKept
  BY AgentNumbersKept
<1>2. pc[h] # "idle" /\ req'[h] = req[h]
  BY <1>0, <1>1 DEF NumbersKept, ActiveByDelivery, Deliver, DeliverCopy, TypeInv, TypeOK
<1>3. req[h].attempt \in Nat /\ req[h].attempt <= attempts[e]
  BY <1>0, <1>2 DEF RequestsAreNumbered, TypeInv, HasRequest, Requests
<1>4. ASSUME NEW k \in Handlers, Deliver(e, k)
      PROVE  FALSE
  <2>1. attempts'[e] = attempts[e] + 1 /\ attempts[e] \in Nat
    BY <1>0, <1>4 DEF Deliver, TypeInv, TypeOK
  <2> QED
    BY <1>2, <1>3, <2>1 DEF Awaited
<1>5. hookdeck'[e] = "delivering" /\ hookdeck[e] = "delivering" /\ attempts'[e] = attempts[e]
  BY <1>1, <1>4 DEF NumbersKept, AwaitedByDelivery, Awaited
<1>6. phase = "serving"
  BY <1>2 DEF AgentQueueInv, ServesAlone
<1> QED
  BY <1>2, <1>5, <1>6 DEF Awaited, CrashWithRuns, Crash, Boot, SettleOrphan

\* The attempt Hookdeck awaits is let through unless somebody answers for it.
LEMMA AwaitedIsAnswered ==
  ASSUME MaxAttempts <= MaxPlausibleAttempt, TypeInv, RowsAreTrue, AttemptInv,
         NEW h \in Handlers, pc[h] = "reading", Awaited(req[h]), phase # "down",
         NEW e \in Events, req[h].event = e, e \notin inFlight,
         ~Admits(mem[e], Header(req[h]))
  PROVE  Backed(e)
<1>1. /\ mem[e] \in Rows \cup {NoRow} /\ mem[e].attempt \in Nat /\ attempts[e] \in Nat
      /\ req[h].attempt = attempts[e] /\ MaxAttempts \in Nat /\ attempts[e] <= MaxAttempts
  BY DeliveryAssumption DEF TypeInv, TypeOK, Rows, NoRow, Awaited, AttemptInv, AttemptsAreBounded
<1>2. mem[e] # NoRow
  BY DEF Admits, AdmitReasons, DecideAdmission
<1>3. CASE e \notin Headerless
  <2>1. Header(req[h]) = attempts[e] /\ mem[e].attempt < attempts[e]
    BY <1>1, <1>3 DEF Header, AttemptInv, AwaitedIsNewest
  <2>2. /\ PlausibleAttempt(Header(req[h])) = attempts[e]
        /\ attempts[e] # NoAttempt /\ attempts[e] > mem[e].attempt
    BY <1>1, <2>1, PlausibleAssumption DEF PlausibleAttempt, NoAttempt
  <2> QED
    BY <1>2, <2>2 DEF Admits, AdmitReasons, DecideAdmission
<1>4. CASE e \in Headerless
  <2>1. Header(req[h]) = NoAttempt /\ PlausibleAttempt(NoAttempt) = NoAttempt
    BY <1>4, PlausibleAssumption DEF Header, PlausibleAttempt, NoAttempt
  <2>2. mem[e].status # "failed"
    BY <1>2, <2>1 DEF Admits, AdmitReasons, DecideAdmission
  <2>3. /\ mem[e].status = "succeeded" => Told(e)
        /\ mem[e].status = "exhausted" => Told(e) \/ Answered(e)
        /\ mem[e].status = "running" => RowStands(e)
    BY <1>4 DEF RowsAreTrue, Versions, GivenUp, Told, Answered, Answering, RowStands,
      RowRuns, Newest
  <2> QED
    BY <1>1, <1>2, <2>2, <2>3 DEF Rows, Statuses, Backed
<1> QED
  BY <1>3, <1>4

\* What begin records of the attempt Hookdeck awaits is newest.
LEMMA BegunIsNewest ==
  ASSUME MaxAttempts <= MaxPlausibleAttempt, TypeInv, AttemptInv,
         NEW h \in Handlers, pc[h] = "reading", Awaited(req[h]),
         NEW e \in Events, req[h].event = e
  PROVE  RowRuns(e, BeginRow(mem[e], Header(req[h]), instance))
<1>1. /\ mem[e].attempt \in Nat /\ attempts[e] \in Nat /\ attempts[e] <= MaxAttempts
      /\ req[h].attempt = attempts[e] /\ MaxAttempts \in Nat
  BY DeliveryAssumption DEF TypeInv, TypeOK, Rows, NoRow, Awaited, AttemptInv, AttemptsAreBounded
<1>2. CASE e \notin Headerless
  <2>1. PlausibleAttempt(Header(req[h])) = attempts[e] /\ attempts[e] # NoAttempt
    BY <1>1, <1>2, PlausibleAssumption DEF Header, PlausibleAttempt, NoAttempt
  <2> QED
    BY <1>1, <2>1 DEF BeginRow, RowRuns, Newest
<1>3. CASE e \in Headerless
  BY <1>3 DEF BeginRow, RowRuns, Newest
<1> QED
  BY <1>2, <1>3

LEMMA BegunIsBackedStep ==
  ASSUME MaxAttempts <= MaxPlausibleAttempt, AgentLedgerInv, AgentLedgerInv', AttemptInv,
         BegunIsBacked, [AgentNext]_allVars
  PROVE  BegunIsBacked'
<1>0. /\ AgentTypeInv /\ AgentTypeInv' /\ AgentQueueInv /\ SlotInv /\ TypeInv
      /\ RequestsAreNumbered
  BY DEF AgentLedgerInv, AgentTypeInv, AttemptInv
<1> SUFFICES ASSUME NEW h \in Handlers, Begun(h)', Awaited(req[h])',
                    NEW e \in Events, req'[h].event = e
             PROVE  Told(e)' \/ Answered(e)' \/ RowRuns(e, mem[e])'
  <2>1. \A h \in Handlers : Begun(h)' => req'[h].event \in Events
    BY <1>0 DEF Begun, AgentTypeInv, TypeInv, HasRequest, Requests
  <2> QED
    BY <2>1 DEF BegunIsBacked
<1>1. /\ pc[h] # "idle" /\ req'[h] = req[h] /\ Awaited(req[h])
      /\ hookdeck'[e] = "delivering" /\ attempts'[e] = attempts[e]
      /\ phase = "serving" /\ ~CrashWithRuns /\ ~Boot /\ ~SettleOrphan
  BY <1>0, StillAwaited DEF Begun
<1>2. CASE Begun(h)
  <2>1. Told(e) \/ Answered(e) \/ RowRuns(e, mem[e])
    BY <1>1, <1>2 DEF BegunIsBacked
  <2>2. CASE Told(e) \/ Answered(e)
    BY <1>0, <1>1, <2>2, AnsweredStays
  <2>3. CASE RowRuns(e, mem[e])
    <3>1. ASSUME NEW g \in Handlers, NEW status \in {"succeeded", "failed"},
                 AgentHandler(g), req[g].event = e, Closes(g, status)
          PROVE  FALSE
      <4>1. g = h
        BY <1>0, <1>1, <1>2, <3>1 DEF Closes, Begun, Working, SlotInv, OneHandlerPerEvent
      <4>2. pc'[h] \in {"failing", "settling"}
        BY <1>0, <3>1, <4>1 DEF Closes, TypeInv, TypeOK
      <4> QED
        BY <4>2 DEF Begun
    <3>2. Told(e)' \/ Answered(e)' \/ mem'[e] = mem[e]
      BY <1>0, <1>1, <2>3, <3>1, RowRunsOn
    <3> QED
      BY <1>1, <2>3, <3>2 DEF RowRuns, Newest
  <2> QED
    BY <2>1, <2>2, <2>3
<1>3. CASE ~Begun(h)
  <2>1. AgentHandler(h)
    <3>1. ASSUME NEW g \in Handlers, AgentHandler(g), g # h
          PROVE  pc'[h] = pc[h]
      BY <1>0, <3>1, AgentHandlerShape
    <3>2. ASSUME NEW w \in Waiters, Waiter(w)
          PROVE  pc'[h] = pc[h]
      BY <1>0, <3>2, WaiterShape DEF handlerVars
    <3>3. CASE AgentElsewhere
      BY <1>0, <1>1, <1>3, <3>3, ElsewhereIsDelivery, HandlersLeftAlone DEF Begun
    <3> QED
      BY <1>3, <3>1, <3>2, <3>3, AgentCases DEF Begun
  <2>2. Opens(h)
    BY <1>0, <1>1, <1>3, <2>1, AgentHandlerShape DEF Begun, Closes, GoesBackground, TypeInv, TypeOK
  <2>3. pc[h] = "reading" /\ mem'[e] = BeginRow(mem[e], Header(req[h]), instance)
    BY <1>0, <1>1, <2>2 DEF Opens, Admit, Put, TypeInv, TypeOK
  <2>4. RowRuns(e, BeginRow(mem[e], Header(req[h]), instance))
    BY <1>0, <1>1, <2>3, BegunIsNewest
  <2> QED
    BY <1>1, <2>3, <2>4 DEF RowRuns, Newest
<1> QED
  BY <1>2, <1>3

LEMMA OkIsBackedStep ==
  ASSUME ~DiskMayFail, MaxAttempts <= MaxPlausibleAttempt, AgentLedgerInv, AgentLedgerInv',
         AttemptInv, RunningJobs, persistence = "active", FailingRetries, RowsAreTrue,
         BegunIsBacked, OkIsBacked, [AgentNext]_allVars
  PROVE  OkIsBacked'
<1>0. /\ AgentTypeInv /\ AgentTypeInv' /\ AgentQueueInv /\ SlotInv /\ SlotInv' /\ TypeInv
      /\ RequestsAreNumbered
  BY DEF AgentLedgerInv, AgentTypeInv, AttemptInv
<1> SUFFICES ASSUME NEW h \in Handlers, pc'[h] \in {"settling", "answered"}, answer'[h] = "ok",
                    Awaited(req[h])', NEW e \in Events, req'[h].event = e
             PROVE  Backed(e)'
  <2>1. \A h \in Handlers : pc'[h] # "idle" => req'[h].event \in Events
    BY <1>0 DEF AgentTypeInv, TypeInv, HasRequest, Requests
  <2> QED
    BY <2>1 DEF OkIsBacked
<1>1. /\ pc[h] # "idle" /\ req'[h] = req[h] /\ Awaited(req[h])
      /\ hookdeck'[e] = "delivering" /\ attempts'[e] = attempts[e]
      /\ phase = "serving" /\ ~CrashWithRuns /\ ~Boot /\ ~SettleOrphan
  BY <1>0, StillAwaited
<1>2. ASSUME Backed(e)
      PROVE  Backed(e)'
  BY <1>0, <1>1, <1>2, BackedStays
<1>3. ASSUME answer[h] = "ok", pc[h] \in {"settling", "answered"}
      PROVE  Backed(e)
  BY <1>1, <1>3 DEF OkIsBacked
<1>4. CASE ~AgentHandler(h)
  <2>1. ASSUME NEW g \in Handlers, AgentHandler(g)
        PROVE  pc'[h] = pc[h] /\ answer'[h] = answer[h]
    BY <1>0, <1>4, <2>1, AgentHandlerShape
  <2>2. ASSUME NEW w \in Waiters, Waiter(w)
        PROVE  pc'[h] = pc[h] /\ answer'[h] = answer[h]
    BY <1>0, <2>2, WaiterShape DEF handlerVars
  <2>3. CASE AgentElsewhere
    BY <1>0, <1>1, <1>2, <1>3, <2>3, ElsewhereIsDelivery, HandlersLeftAlone
  <2> QED
    BY <1>2, <1>3, <2>1, <2>2, <2>3, AgentCases
<1>5. CASE RejectEarly(h)
  BY <1>0, <1>5, DeliveryAssumption DEF RejectEarly, Unverified, TypeInv, TypeOK
<1>6. CASE TurnAway(h, CanAccept)
  <2>1. pc[h] = "reading" /\ Verdict(req[h], CanAccept) = "ok"
    BY <1>0, <1>6 DEF TurnAway, TypeInv, TypeOK
  <2>2. e \notin inFlight /\ (~Admits(mem[e], Header(req[h])) \/ e \in Filtered)
    BY <1>1, <2>1 DEF Verdict
  <2>3. CASE e \in Filtered
    BY <2>3 DEF Backed, Told
  <2> QED
    BY <1>0, <1>1, <1>2, <2>1, <2>2, <2>3, AwaitedIsAnswered
<1>7. ASSUME NEW a \in Answers, RunReturns(h, a)
      PROVE  Backed(e)'
  BY <1>0, <1>1, <1>7 DEF RunReturns, DispatchReturns, Backed, Told, TypeInv, TypeOK
<1>8. CASE SettleAfterThrow(h)
  BY <1>0, <1>8 DEF SettleAfterThrow, FailingRetries
<1>9. CASE Release(h)
  BY <1>2, <1>3, <1>9 DEF Release
<1>10. ASSUME NEW w \in Waiters, GoesBackground(h, w)
       PROVE  Backed(e)'
  <2>1. Told(e) \/ Answered(e) \/ RowRuns(e, mem[e])
    BY <1>1, <1>10 DEF GoesBackground, Begun, BegunIsBacked
  <2>2. CASE RowRuns(e, mem[e])
    <3>1. mem' = mem /\ phase' = phase /\ e \notin inFlight'
      BY <1>1, <1>10 DEF GoesBackground, ledgerVars, processVars
    <3> QED
      BY <1>1, <2>2, <3>1 DEF Backed, RowStands, RowRuns, Newest
  <2> QED
    BY <1>2, <2>1, <2>2 DEF Backed
<1>11. CASE \/ Admit(h, CanAccept) \/ StartRun(h) \/ StartThrows(h) \/ Busy(h)
            \/ InvalidInput(h) \/ RecordDeadLetter(h) \/ Respond(h)
  BY <1>0, <1>11 DEF Admit, StartRun, Dispatch, StartThrows, DispatchThrows, Busy,
    InvalidInput, RecordDeadLetter, Respond, TypeInv, TypeOK
<1> QED
  BY <1>4, <1>5, <1>6, <1>7, <1>8, <1>9, <1>10, <1>11 DEF AgentHandler, Pipeline

LEMMA AcknowledgedStep ==
  ASSUME ~DiskMayFail, AgentLedgerInv, AttemptInv, RunningJobs, persistence = "active",
         OrphanIsHandedOver, OkIsBacked, AcknowledgedIsBacked, [AgentNext]_allVars
  PROVE  AcknowledgedIsBacked'
<1>0. /\ AgentTypeInv /\ AgentQueueInv /\ TypeInv /\ RequestsAreNumbered
  BY DEF AgentLedgerInv, AgentTypeInv, AttemptInv
<1> SUFFICES ASSUME NEW e \in Events, hookdeck'[e] = "acknowledged"
             PROVE  Backed(e)'
  BY DEF AcknowledgedIsBacked
<1>1. hookdeck[e] # "delivering" => hookdeck[e] = "acknowledged"
  <2>1. ASSUME hookdeck[e] # "acknowledged"
        PROVE  hookdeck[e] = "delivering"
    BY <1>0, <2>1, AgentHookdeckStep DEF Awaited
  <2> QED
    BY <2>1
<1>2. attempts'[e] = attempts[e]
  <2>1. ~DeliverWhileAway(e) /\ \A h \in Handlers : ~Deliver(e, h)
    BY <1>0 DEF DeliverWhileAway, Deliver, TypeInv, TypeOK
  <2> QED
    BY <1>0, <2>1, AgentNumbersKept DEF NumbersKept, GrowsByDelivery
<1>3. CASE hookdeck[e] = "acknowledged"
  <2>1. CASE SettleOrphan /\ current = e
    <3>1. step = "settle" /\ deadLetter' = deadLetter
      BY <2>1 DEF SettleOrphan
    <3> QED
      BY <1>3, <2>1, <3>1 DEF OrphanIsHandedOver, Backed, Told
  <2>2. CASE ~(SettleOrphan /\ current = e)
    BY <1>0, <1>2, <1>3, <2>2, BackedStays DEF AcknowledgedIsBacked
  <2> QED
    BY <2>1, <2>2
<1>4. CASE hookdeck[e] # "acknowledged"
  <2>1. PICK h \in Handlers :
          /\ Respond(h) /\ Awaited(req[h]) /\ req[h].event = e
          /\ Reaction(e, answer[h]) = "acknowledged"
    BY <1>0, <1>4, AgentHookdeckStep
  <2>2. answer[h] = "ok" /\ pc[h] = "answered"
    BY <2>1 DEF Reaction, AfterFailure, Respond, Undeliverable
  <2>3. Backed(e)
    BY <2>1, <2>2 DEF OkIsBacked
  <2>4. ~SettleOrphan
    BY <1>0, <2>2 DEF SettleOrphan, AgentQueueInv, ServesAlone
  <2> QED
    BY <1>0, <1>2, <2>3, <2>4, BackedStays
<1> QED
  BY <1>3, <1>4

BackedInv == /\ persistence = "active"
             /\ RunningJobs
             /\ FailingRetries
             /\ RowsAreTrue
             /\ OrphanIsHandedOver
             /\ BegunIsBacked
             /\ OkIsBacked
             /\ AcknowledgedIsBacked

LEMMA BackedInit == AgentInit => AttemptInv /\ BackedInv
<1> SUFFICES ASSUME AgentInit PROVE AttemptInv /\ BackedInv
  OBVIOUS
<1>0. Init
  BY DEF AgentInit
<1>1. \A e \in Events : Versions(e) = {NoRow}
  BY <1>0 DEF Init, Versions, NoRows
<1>2. /\ \A h \in Handlers : pc[h] = "idle"
      /\ \A e \in Events : hookdeck[e] = "queued"
      /\ step = "next" /\ persistence = "active" /\ writes = <<>>
  BY <1>0 DEF Init
<1>3. RowsAreTrue
  BY <1>1 DEF RowsAreTrue, NoRow
<1> QED
  BY <1>0, <1>2, <1>3, AttemptsStart DEF BackedInv, RunningJobs, FailingRetries,
    OrphanIsHandedOver, BegunIsBacked, Begun, OkIsBacked, AcknowledgedIsBacked

\* With a disk that works, an acknowledged event whose work was not done, that no
\* filter drops and no record names, has a running row or a waiter at work on it:
\* but for those whose waiter died between the end of its run and the record or
\* the retry it owed, whatever the order of crashes, retries and time-outs.
THEOREM OnlyTheStrandedVanish ==
  ASSUME ~DiskMayFail, MaxAttempts <= MaxPlausibleAttempt
  PROVE  AgentSpec => []OnlyStrandedRunsVanish
<1> DEFINE Inv == AgentLedgerInv /\ AttemptInv /\ BackedInv
<1>1. AgentInit => Inv
  BY AgentLedgerInit, BackedInit
<1>2. Inv /\ [AgentNext]_allVars => Inv'
  <2> SUFFICES ASSUME AgentLedgerInv, AttemptInv, BackedInv, [AgentNext]_allVars
               PROVE  AgentLedgerInv' /\ AttemptInv' /\ BackedInv'
    OBVIOUS
  <2>1. AgentLedgerInv' /\ AttemptInv' /\ AgentTypeInv /\ AgentQueueInv
    BY AgentLedgerStep, AgentAttemptsStep DEF AgentLedgerInv
  <2>2. /\ persistence' = "active" /\ RunningJobs' /\ FailingRetries'
        /\ RowsAreTrue' /\ OrphanIsHandedOver'
    BY <2>1, AgentDiskHolds, JobsStep, AgentFailingStep, RowsAreTrueStep, AgentHandoverStep
    DEF BackedInv
  <2>3. BegunIsBacked' /\ OkIsBacked' /\ AcknowledgedIsBacked'
    BY <2>1, BegunIsBackedStep, OkIsBackedStep, AcknowledgedStep DEF BackedInv
  <2> QED
    BY <2>1, <2>2, <2>3 DEF BackedInv
<1>3. Inv => OnlyStrandedRunsVanish
  <2> SUFFICES ASSUME AcknowledgedIsBacked, NEW e \in Events, hookdeck[e] = "acknowledged"
               PROVE  Traced(e) \/ e \in stranded
    BY DEF BackedInv, OnlyStrandedRunsVanish
  <2>1. CASE Answered(e)
    BY <2>1 DEF Answered, Answering, AtWork, Traced
  <2> QED
    BY <2>1 DEF AcknowledgedIsBacked, Backed, Told, RowStands, RowRuns, Traced
<1> QED
  BY <1>1, <1>2, <1>3, PTL DEF AgentSpec
===============================================================================
