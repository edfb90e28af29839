----------------------------- MODULE LedgerProofs -----------------------------
(***************************************************************************)
(* The ledger between the request handlers, the write queue and the        *)
(* reconciliation, for any number of events, handlers, attempts, crashes   *)
(* and restarts.                                                           *)
(***************************************************************************)
EXTENDS DeliveryProofs

(***************************************************************************)
(* The write queue.  Whoever put a row waits for it, and the queue ends in *)
(* what memory holds: a row no job is queued for is on disk as it is in    *)
(* memory.  A compaction may run ahead of the queue, which then brings     *)
(* older rows back for a while; it never ends in one.                      *)
(***************************************************************************)
Waits(by, e) ==
  \/ /\ by \in Handlers
     /\ pc[by] \in {"beginning", "failing", "settling"} /\ req[by].event = e
  \/ /\ by = "boot" /\ phase = "booting"
     /\ step = "settling" /\ current = e

Quiet(e) == \A i \in DOMAIN writes : writes[i].event # e

EndsInMemory(e) ==
  \/ /\ Quiet(e) /\ disk[e] = mem[e]
  \/ \E i \in DOMAIN writes :
       /\ writes[i].event = e /\ writes[i].row = mem[e]
       /\ \A j \in DOMAIN writes : j > i => writes[j].event # e

ServesAlone   == phase # "serving" => \A h \in Handlers : pc[h] = "idle"
NothingQueued == phase = "down" \/ persistence = "disabled" => writes = <<>>
JobsAreAwaited ==
  \A i \in DOMAIN writes : Waits(writes[i].by, writes[i].event)
QueueEndsInMemory ==
  phase # "down" /\ persistence = "active" => \A e \in Events : EndsInMemory(e)

QueueInv == /\ ServesAlone
            /\ NothingQueued
            /\ JobsAreAwaited
            /\ QueueEndsInMemory

LEMMA QueueStarts == Init => QueueInv
<1> SUFFICES ASSUME Init PROVE QueueInv
  OBVIOUS
<1> USE DEF Init
<1>1. ServesAlone /\ NothingQueued
  BY DEF ServesAlone, NothingQueued
<1>2. JobsAreAwaited /\ QueueEndsInMemory
  BY DEF JobsAreAwaited, QueueEndsInMemory, EndsInMemory, Quiet
<1> QED
  BY <1>1, <1>2 DEF QueueInv

\* A handler that awaits no write has none in the queue.
LEMMA FreeHands ==
  ASSUME QueueInv, NEW h \in Handlers, pc[h] \notin {"beginning", "failing", "settling"}
  PROVE  ~Writing(h)
BY DeliveryAssumption DEF QueueInv, JobsAreAwaited, Waits, Writing

\* A put adds one job at the end of the queue, the last of its event.
LEMMA PutEnds ==
  ASSUME TypeInv, QueueEndsInMemory, NothingQueued, phase # "down",
         NEW e \in Events, NEW row \in Rows, NEW by \in Writers,
         Put(e, row, by), UNCHANGED <<phase, disk, persistence>>
  PROVE  /\ QueueEndsInMemory' /\ NothingQueued'
         /\ \A i \in DOMAIN writes' :
              \/ i \in DOMAIN writes /\ writes'[i] = writes[i]
              \/ writes'[i] = [event |-> e, row |-> row, by |-> by]
<1>1. writes \in Seq(Jobs) /\ mem \in [Events -> Rows \cup {NoRow}]
  BY DEF TypeInv, TypeOK
<1>2. CASE persistence = "disabled"
  BY <1>2 DEF Put, NothingQueued, QueueEndsInMemory
<1>3. CASE persistence = "active"
  <2> DEFINE job == [event |-> e, row |-> row, by |-> by]
  <2>1. writes' = Append(writes, job) /\ mem' = [mem EXCEPT ![e] = row]
    BY <1>3 DEF Put
  <2>2. /\ DOMAIN writes = 1 .. Len(writes) /\ Len(writes) \in Nat
        /\ DOMAIN writes' = 1 .. Len(writes) + 1
        /\ writes'[Len(writes) + 1] = job
        /\ \A i \in DOMAIN writes : writes'[i] = writes[i]
    BY <1>1, <2>1 DEF Jobs
  <2>3. ASSUME NEW f \in Events, f # e
        PROVE  EndsInMemory(f)'
    <3>1. EndsInMemory(f) /\ mem'[f] = mem[f] /\ disk'[f] = disk[f] /\ job.event # f
      BY <1>1, <1>3, <2>1, <2>3 DEF QueueEndsInMemory
    <3>2. CASE Quiet(f) /\ disk[f] = mem[f]
      <4>1. Quiet(f)'
        BY <2>2, <3>1, <3>2 DEF Quiet
      <4> QED
        BY <3>1, <3>2, <4>1 DEF EndsInMemory
    <3>3. ASSUME NEW i \in DOMAIN writes,
                 writes[i].event = f, writes[i].row = mem[f],
                 \A j \in DOMAIN writes : j > i => writes[j].event # f
          PROVE  EndsInMemory(f)'
      <4>1. /\ i \in DOMAIN writes' /\ writes'[i].event = f /\ writes'[i].row = mem'[f]
            /\ \A j \in DOMAIN writes' : j > i => writes'[j].event # f
        BY <2>2, <3>1, <3>3
      <4> QED
        BY <4>1 DEF EndsInMemory
    <3> QED
      BY <3>1, <3>2, <3>3 DEF EndsInMemory
  <2>4. EndsInMemory(e)'
    <3>1. /\ Len(writes) + 1 \in DOMAIN writes'
          /\ writes'[Len(writes) + 1].event = e /\ writes'[Len(writes) + 1].row = mem'[e]
          /\ \A j \in DOMAIN writes' : j > Len(writes) + 1 => writes'[j].event # e
      BY <1>1, <2>1, <2>2
    <3> QED
      BY <3>1 DEF EndsInMemory
  <2> QED
    BY <1>3, <2>2, <2>3, <2>4 DEF QueueEndsInMemory, NothingQueued
<1> QED
  BY <1>2, <1>3 DEF TypeInv, TypeOK

\* A settle puts the row of an event that has one, and is a put of nothing else.
LEMMA SettleEnds ==
  ASSUME TypeInv, QueueEndsInMemory, NothingQueued, phase # "down",
         NEW e \in Events, NEW status \in Statuses, NEW by \in Writers,
         Settle(e, status, by), UNCHANGED <<phase, disk, persistence>>
  PROVE  /\ QueueEndsInMemory' /\ NothingQueued'
         /\ \A i \in DOMAIN writes' :
              \/ i \in DOMAIN writes /\ writes'[i] = writes[i]
              \/ writes'[i].event = e /\ writes'[i].by = by
<1>1. CASE mem[e] = NoRow
  BY <1>1 DEF Settle, QueueEndsInMemory, EndsInMemory, Quiet, NothingQueued
<1>2. CASE mem[e] # NoRow
  <2>1. mem[e] \in Rows
    BY <1>2 DEF TypeInv, TypeOK
  <2>2. SettleRow(mem[e], status) \in Rows /\ Put(e, SettleRow(mem[e], status), by)
    BY <1>2, <2>1, SettleType DEF Settle
  <2> QED
    BY <2>2, PutEnds
<1> QED
  BY <1>1, <1>2

\* The head of the queue reaches the disk, or all of memory does.
LEMMA QueueDrains ==
  ASSUME TypeInv, NothingQueued, QueueEndsInMemory, WriteDone
  PROVE  /\ NothingQueued' /\ QueueEndsInMemory'
         /\ \A i \in DOMAIN writes' : i + 1 \in DOMAIN writes /\ writes'[i] = writes[i + 1]
<1>1. /\ writes # <<>> /\ writes' = Tail(writes)
      /\ disk' = mem \/ disk' = Applied(Head(writes))
      /\ UNCHANGED <<phase, pc, req, step, current, mem, persistence>>
  BY DEF WriteDone, processVars, handlerVars, recoveryVars
<1>2. writes \in Seq(Jobs) /\ mem \in [Events -> Rows \cup {NoRow}]
      /\ disk \in [Events -> Rows \cup {NoRow}]
  BY DEF TypeInv, TypeOK
<1>3. /\ DOMAIN writes = 1 .. Len(writes) /\ Len(writes) \in Nat \ {0}
      /\ DOMAIN writes' = 1 .. Len(writes) - 1
      /\ \A i \in DOMAIN writes' : i + 1 \in DOMAIN writes /\ writes'[i] = writes[i + 1]
      /\ Head(writes) = writes[1] /\ 1 \in DOMAIN writes /\ writes[1] \in Jobs
  BY <1>1, <1>2
<1>4. phase # "down" /\ persistence = "active"
  BY <1>1 DEF NothingQueued, TypeInv, TypeOK
<1>5. ASSUME NEW f \in Events
      PROVE  EndsInMemory(f)'
  <2>1. EndsInMemory(f)
    BY <1>4 DEF QueueEndsInMemory
  <2>2. CASE Quiet(f) /\ disk[f] = mem[f]
    <3>1. Quiet(f)' /\ writes[1].event # f
      BY <1>3, <2>2 DEF Quiet
    <3>2. disk'[f] = mem[f]
      BY <1>1, <1>2, <1>3, <2>2, <3>1 DEF Applied, Jobs
    <3> QED
      BY <1>1, <3>1, <3>2 DEF EndsInMemory
  <2>3. ASSUME NEW i \in DOMAIN writes,
               writes[i].event = f, writes[i].row = mem[f],
               \A j \in DOMAIN writes : j > i => writes[j].event # f
        PROVE  EndsInMemory(f)'
    <3>1. CASE i = 1
      <4>1. Quiet(f)'
        BY <1>3, <2>3, <3>1 DEF Quiet
      <4>2. disk'[f] = mem[f]
        BY <1>1, <1>2, <1>3, <2>3, <3>1 DEF Applied, Jobs
      <4> QED
        BY <1>1, <4>1, <4>2 DEF EndsInMemory
    <3>2. CASE i # 1
      <4>1. i - 1 \in DOMAIN writes' /\ writes'[i - 1] = writes[i]
        BY <1>3, <3>2
      <4>2. \A j \in DOMAIN writes' : j > i - 1 => writes'[j].event # f
        BY <1>3, <2>3, <3>2
      <4> QED
        BY <1>1, <2>3, <4>1, <4>2 DEF EndsInMemory
    <3> QED
      BY <3>1, <3>2
  <2> QED
    BY <2>1, <2>2, <2>3 DEF EndsInMemory
<1> QED
  BY <1>1, <1>3, <1>4, <1>5 DEF NothingQueued, QueueEndsInMemory

LEMMA WriteEnds ==
  ASSUME TypeInv, QueueInv, WriteDone
  PROVE  QueueInv'
<1>1. UNCHANGED <<phase, pc, req, step, current>>
  BY DEF WriteDone, processVars, handlerVars, recoveryVars
<1> QED
  BY <1>1, QueueDrains DEF QueueInv, ServesAlone, JobsAreAwaited, Waits

(***************************************************************************)
(* The steps of a handler touch the ledger in two ways only: they begin    *)
(* the row of the event they were let through for, or settle the row of    *)
(* the event whose dispatch is over.                                       *)
(***************************************************************************)
Begins(h) ==
  /\ Admit(h, TRUE)
  /\ Put(req[h].event, BeginRow(mem[req[h].event], Header(req[h]), instance), h)

Settles(h, status) ==
  /\ pc[h] \in {"dispatching", "failing"}
  /\ Settle(req[h].event, status, h)
  /\ pc' \in {[pc EXCEPT ![h] = "failing"], [pc EXCEPT ![h] = "settling"]}
  /\ status = "succeeded" => req[h].event \in completed'

LEMMA HandlerShape ==
  ASSUME TypeInv, QueueInv, NEW h \in Handlers, Handler(h)
  PROVE  /\ phase = "serving" /\ pc[h] # "idle" /\ ~Writing(h)
         /\ req[h] \in Requests /\ req[h].event \in Events
         /\ UNCHANGED <<attempts, processVars, disk, persistence, recoveryVars,
                        requeued, interrupted>>
         /\ \A g \in Handlers : g # h =>
              pc'[g] = pc[g] /\ req'[g] = req[g] /\ answer'[g] = answer[g]
         /\ req'[h] = req[h] \/ pc'[h] = "idle"
         /\ \/ /\ UNCHANGED <<mem, writes>>
               /\ pc'[h] \notin {"beginning", "failing", "settling"}
               /\ pc[h] # "dispatching"
               /\ pc'[h] = "dispatching" <=> pc[h] = "beginning"
            \/ Begins(h)
            \/ \E status \in {"succeeded", "failed"} : Settles(h, status)
<1>1. pc[h] # "idle" => /\ req[h] \in Requests /\ req[h].event \in Events
                        /\ phase = "serving"
  BY DEF TypeInv, HasRequest, Requests, QueueInv, ServesAlone
<1> USE DEF hookdeckVars, processVars, handlerVars, ledgerVars, recoveryVars, historyVars
<1>2. CASE RejectEarly(h)
  BY <1>1, <1>2, FreeHands DEF RejectEarly, TypeInv, TypeOK
<1>3. CASE TurnAway(h, TRUE)
  BY <1>1, <1>3, FreeHands DEF TurnAway, TypeInv, TypeOK
<1>4. CASE Admit(h, TRUE)
  BY <1>1, <1>4, FreeHands DEF Admit, Begin, Begins, TypeInv, TypeOK
<1>5. CASE Dispatch(h)
  BY <1>1, <1>5 DEF Dispatch, TypeInv, TypeOK
<1>6. ASSUME NEW a \in Answers, DispatchReturns(h, a)
      PROVE  Settles(h, IF a = "ok" THEN "succeeded" ELSE "failed")
  BY <1>1, <1>6 DEF DispatchReturns, Settles
<1>7. CASE \E a \in Answers : DispatchReturns(h, a)
  BY <1>1, <1>6, <1>7, FreeHands DEF DispatchReturns, TypeInv, TypeOK
<1>8. CASE DispatchThrows(h)
  BY <1>1, <1>8, FreeHands DEF DispatchThrows, Settles, TypeInv, TypeOK
<1>9. CASE SettleAfterThrow(h)
  BY <1>1, <1>9 DEF SettleAfterThrow, Settles, TypeInv, TypeOK
<1>10. CASE Release(h)
  BY <1>1, <1>10 DEF Release, TypeInv, TypeOK
<1>11. CASE RecordDeadLetter(h)
  BY <1>1, <1>11, FreeHands DEF RecordDeadLetter, TypeInv, TypeOK
<1>12. CASE Respond(h)
  BY <1>1, <1>12, FreeHands DEF Respond, TypeInv, TypeOK
<1> QED
  BY <1>2, <1>3, <1>4, <1>5, <1>7, <1>8, <1>9, <1>10, <1>11, <1>12
  DEF Handler, Pipeline

\* The jobs of the others are still awaited, and so is the one it adds.
LEMMA HandlerWaits ==
  ASSUME TypeInv, QueueInv, NEW h \in Handlers, Handler(h),
         NEW e \in Events,
         \A i \in DOMAIN writes' :
           \/ i \in DOMAIN writes /\ writes'[i] = writes[i]
           \/ writes'[i].event = e /\ writes'[i].by = h /\ Waits(h, e)'
  PROVE  JobsAreAwaited'
<1>1. ~Writing(h) /\ phase = "serving"
      /\ \A g \in Handlers : g # h => pc'[g] = pc[g] /\ req'[g] = req[g]
  BY HandlerShape
<1> SUFFICES ASSUME NEW i \in DOMAIN writes'
             PROVE  Waits(writes[i].by, writes[i].event)'
  BY DEF JobsAreAwaited
<1>2. CASE i \in DOMAIN writes /\ writes'[i] = writes[i]
  <2>1. writes[i].by # h /\ Waits(writes[i].by, writes[i].event)
    BY <1>1, <1>2 DEF Writing, QueueInv, JobsAreAwaited
  <2> QED
    BY <1>1, <1>2, <2>1 DEF Waits
<1> QED
  BY <1>2

LEMMA HandlerQueues ==
  ASSUME TypeInv, QueueInv, NEW h \in Handlers, Handler(h)
  PROVE  QueueInv'
<1> SUFFICES ASSUME NEW e \in Events, e = req[h].event
             PROVE  QueueInv'
  BY HandlerShape
<1>1. /\ phase = "serving" /\ e \in Events /\ req[h] \in Requests /\ h \in Writers
      /\ UNCHANGED <<phase, disk, persistence>>
  BY HandlerShape DEF processVars, Writers
<1>2. CASE UNCHANGED <<mem, writes>>
  BY <1>1, <1>2, HandlerWaits
  DEF QueueInv, ServesAlone, NothingQueued, QueueEndsInMemory, EndsInMemory, Quiet
<1>3. CASE Begins(h)
  <2>1. BeginRow(mem[e], Header(req[h]), instance) \in Rows
    BY <1>1, HeaderType, BeginType DEF TypeInv, TypeOK
  <2>2. /\ QueueEndsInMemory' /\ NothingQueued'
        /\ \A i \in DOMAIN writes' :
             \/ i \in DOMAIN writes /\ writes'[i] = writes[i]
             \/ writes'[i].event = e /\ writes'[i].by = h
    BY <1>1, <1>3, <2>1, PutEnds DEF Begins, QueueInv
  <2>3. Waits(h, e)'
    BY <1>3 DEF Begins, Admit, Waits, TypeInv, TypeOK
  <2>4. JobsAreAwaited'
    BY <1>1, <2>2, <2>3, HandlerWaits
  <2> QED
    BY <1>1, <2>2, <2>4 DEF QueueInv, ServesAlone
<1>4. ASSUME NEW status \in {"succeeded", "failed"}, Settles(h, status)
      PROVE  QueueInv'
  <2>1. /\ QueueEndsInMemory' /\ NothingQueued'
        /\ \A i \in DOMAIN writes' :
             \/ i \in DOMAIN writes /\ writes'[i] = writes[i]
             \/ writes'[i].event = e /\ writes'[i].by = h
    BY <1>1, <1>4, SettleEnds DEF Settles, QueueInv, Statuses
  <2>2. pc'[h] \in {"failing", "settling"} /\ req'[h] = req[h]
    BY <1>4, HandlerShape DEF Settles, TypeInv, TypeOK
  <2>3. Waits(h, e)'
    BY <2>2 DEF Waits
  <2>4. JobsAreAwaited'
    BY <1>1, <2>1, <2>3, HandlerWaits
  <2> QED
    BY <1>1, <2>1, <2>4 DEF QueueInv, ServesAlone
<1> QED
  BY <1>2, <1>3, <1>4, HandlerShape

\* The reconciliation settles a row at a time, before anything is served.
LEMMA ReconcileQueues ==
  ASSUME TypeInv, QueueInv, Reconcile
  PROVE  QueueInv'
<1>1. phase = "booting" /\ UNCHANGED <<pc, req>>
  BY DEF Reconcile, RecordSkipped, RetryAccepted, RetryRefused, RecordRefused,
    SettleOrphan, OrphanSettled, Serve, handlerVars
<1>2. ASSUME UNCHANGED ledgerVars, phase' # "down", step # "settling" \/ ~Writing("boot")
      PROVE  QueueInv'
  <2>1. \A i \in DOMAIN writes : writes[i].by # "boot"
    BY <1>2, DeliveryAssumption DEF QueueInv, JobsAreAwaited, Waits, Writing
  <2>2. writes = <<>>
    <3>1. \A i \in DOMAIN writes : FALSE
      BY <1>1, <2>1 DEF QueueInv, ServesAlone, JobsAreAwaited, Waits
    <3>2. writes \in Seq(Jobs)
      BY DEF TypeInv, TypeOK
    <3> QED
      BY <3>1, <3>2
  <2> QED
    BY <1>1, <1>2, <2>2 DEF ledgerVars, QueueInv, ServesAlone, NothingQueued,
      JobsAreAwaited, QueueEndsInMemory, EndsInMemory, Quiet
<1>3. CASE SettleOrphan
  <2>1. /\ step = "settle" /\ step' = "settling" /\ Settle(current, "failed", "boot")
        /\ UNCHANGED <<phase, disk, persistence, current>>
        /\ current \in Events /\ "boot" \in Writers /\ "failed" \in Statuses
    BY <1>3 DEF SettleOrphan, processVars, TypeInv, HasOrphan, Writers, Statuses
  <2>2. /\ QueueEndsInMemory' /\ NothingQueued'
        /\ \A i \in DOMAIN writes' :
             \/ i \in DOMAIN writes /\ writes'[i] = writes[i]
             \/ writes'[i].event = current /\ writes'[i].by = "boot"
    BY <1>1, <2>1, SettleEnds DEF QueueInv
  <2>3. \A i \in DOMAIN writes : FALSE
    BY <1>1, <2>1 DEF QueueInv, ServesAlone, JobsAreAwaited, Waits
  <2>4. JobsAreAwaited'
    BY <1>1, <2>1, <2>2, <2>3 DEF JobsAreAwaited, Waits
  <2> QED
    BY <1>1, <2>1, <2>2, <2>4 DEF QueueInv, ServesAlone
<1>4. CASE OrphanSettled
  BY <1>2, <1>4 DEF OrphanSettled, processVars
<1>5. CASE Serve
  BY <1>2, <1>5 DEF Serve
<1>6. CASE RecordRefused
  BY <1>2, <1>6 DEF RecordRefused, processVars
<1>7. ASSUME NEW e \in Events, RecordSkipped(e)
      PROVE  QueueInv'
  BY <1>2, <1>7 DEF RecordSkipped, processVars
<1>8. ASSUME NEW e \in Events, NEW reply \in Steps,
             RetryAccepted(e, reply) \/ RetryRefused(e, reply)
      PROVE  QueueInv'
  BY <1>2, <1>8 DEF RetryAccepted, RetryRefused, processVars
<1> QED
  BY <1>3, <1>4, <1>5, <1>6, <1>7, <1>8 DEF Reconcile

LEMMA QueueStep == TypeInv /\ QueueInv /\ [Next]_vars => QueueInv'
<1> SUFFICES ASSUME TypeInv, QueueInv, [Next]_vars
             PROVE  QueueInv'
  OBVIOUS
<1> USE DEF QueueInv, ServesAlone, NothingQueued, JobsAreAwaited, QueueEndsInMemory
<1>1. ASSUME UNCHANGED <<processVars, ledgerVars, step, current>>,
             \A g \in Handlers : pc[g] # "idle" => pc'[g] = pc[g] /\ req'[g] = req[g],
             phase = "serving" \/ pc' = pc
      PROVE  QueueInv'
  <2>1. \A by, e : Waits(by, e) => Waits(by, e)'
    BY <1>1 DEF Waits, processVars
  <2> QED
    BY <1>1, <2>1 DEF EndsInMemory, Quiet, processVars, ledgerVars
<1>2. ASSUME NEW e \in Events, NEW h \in Handlers, Deliver(e, h) \/ DeliverCopy(e, h)
      PROVE  QueueInv'
  BY <1>1, <1>2 DEF Deliver, DeliverCopy, recoveryVars, TypeInv, TypeOK
<1>3. ASSUME NEW e \in Events,
             DeliverWhileAway(e) \/ AttemptTimesOut(e) \/ ManualRetry(e)
      PROVE  QueueInv'
  BY <1>1, <1>3 DEF DeliverWhileAway, AttemptTimesOut, ManualRetry, handlerVars, recoveryVars
<1>4. CASE Crash
  BY <1>4 DEF Crash
<1>5. CASE WriteDone
  BY <1>5, WriteEnds
<1>6. CASE WriteFails
  BY <1>6 DEF WriteFails, processVars, handlerVars
<1>7. CASE Boot
  BY <1>7 DEF Boot, handlerVars, EndsInMemory, Quiet
<1>8. CASE Reconcile
  BY <1>8, ReconcileQueues
<1>9. ASSUME NEW h \in Handlers, Handler(h)
      PROVE  QueueInv'
  BY <1>9, HandlerQueues
<1>10. CASE UNCHANGED vars
  BY <1>1, <1>10 DEF vars, handlerVars, recoveryVars
<1> QED
  BY <1>2, <1>3, <1>4, <1>5, <1>6, <1>7, <1>8, <1>9, <1>10
  DEF Next, External, HookdeckActs, Store

LEMMA QueueSafety == Spec => [](TypeInv /\ QueueInv)
<1>1. Init => TypeInv /\ QueueInv
  BY TypeInit, QueueStarts
<1>2. TypeInv /\ QueueInv /\ [Next]_vars => TypeInv' /\ QueueInv'
  BY TypeStep, QueueStep
<1> QED
  BY <1>1, <1>2, PTL DEF Spec

(***************************************************************************)
(* The versions of a row: the one memory holds, the one on disk, those on  *)
(* their way.  Any of them may be what the next boot finds, so that what   *)
(* is to survive a crash must hold of all.  A step makes none but by       *)
(* begin and by settle, and a boot whose file cannot be read by forgetting.*)
(***************************************************************************)
Versions(e) ==
  {disk[e]} \cup {writes[i].row : i \in {j \in DOMAIN writes : writes[j].event = e}}
            \cup (IF phase = "down" THEN {} ELSE {mem[e]})

Forgets(e, row) == Boot /\ DiskMayFail /\ row = NoRow

BeginsRow(e, row) ==
  \E h \in Handlers :
    /\ Handler(h) /\ Begins(h) /\ req[h].event = e
    /\ row = BeginRow(mem[e], Header(req[h]), instance)

SettlesOrphan(e, row) ==
  /\ mem[e] # NoRow
  /\ SettleOrphan /\ current = e /\ row = SettleRow(mem[e], "failed")

SettlesRow(e, row) ==
  \/ /\ mem[e] # NoRow
     /\ \E h \in Handlers, status \in {"succeeded", "failed"} :
          /\ Handler(h) /\ Settles(h, status) /\ req[h].event = e
          /\ row = SettleRow(mem[e], status)
  \/ SettlesOrphan(e, row)

LEMMA VersionType ==
  ASSUME TypeInv, NEW e \in Events, NEW row \in Versions(e)
  PROVE  row \in Rows \cup {NoRow}
<1>1. \A i \in DOMAIN writes : writes[i] \in Jobs
  BY DEF TypeInv, TypeOK
<1>2. \A i \in DOMAIN writes : writes[i].row \in Rows
  BY <1>1 DEF Jobs
<1> QED
  BY <1>2 DEF Versions, TypeInv, TypeOK

\* A put makes one version, of the event it is for.
LEMMA PutVersions ==
  ASSUME TypeInv, NEW f \in Events, NEW made \in Rows, NEW by \in Writers,
         Put(f, made, by), UNCHANGED <<disk, phase>>, phase # "down",
         NEW e \in Events, NEW row, row \in Versions(e)'
  PROVE  row \in Versions(e) \/ (row = made /\ e = f)
<1>1. writes \in Seq(Jobs) /\ mem \in [Events -> Rows \cup {NoRow}]
  BY DEF TypeInv, TypeOK
<1>2. mem'[e] = IF e = f THEN made ELSE mem[e]
  BY <1>1 DEF Put
<1>3. \A i \in DOMAIN writes' :
        \/ i \in DOMAIN writes /\ writes'[i] = writes[i]
        \/ writes'[i] = [event |-> f, row |-> made, by |-> by]
  <2>1. CASE writes' = writes
    BY <2>1
  <2>2. CASE writes' = Append(writes, [event |-> f, row |-> made, by |-> by])
    BY <1>1, <2>2 DEF Jobs
  <2> QED
    BY <2>1, <2>2 DEF Put
<1>4. CASE row = disk'[e] \/ row = mem'[e]
  BY <1>2, <1>4 DEF Versions
<1>5. ASSUME NEW i \in DOMAIN writes', writes'[i].event = e, row = writes'[i].row
      PROVE  row \in Versions(e) \/ (row = made /\ e = f)
  BY <1>3, <1>5 DEF Versions
<1> QED
  BY <1>4, <1>5 DEF Versions

\* The versions a step makes that is no handler's.
LEMMA VersionsElsewhere ==
  ASSUME TypeInv, NothingQueued, External \/ Store \/ Boot \/ Reconcile,
         NEW e \in Events, NEW row, row \in Versions(e)'
  PROVE  \/ row \in Versions(e)
         \/ Forgets(e, row) \/ SettlesOrphan(e, row)
<1>1. CASE UNCHANGED <<mem, disk, writes>> /\ (phase' = phase \/ phase # "down")
  BY <1>1 DEF Versions
<1>2. CASE External
  <2>1. CASE Crash
    <3>1. \A i \in DOMAIN writes : writes[i] \in Jobs
      BY DEF TypeInv, TypeOK
    <3>2. disk'[e] \in Versions(e)
      BY <2>1, <3>1 DEF Crash, Applied, Jobs, Versions, TypeInv, TypeOK
    <3> QED
      BY <2>1, <3>2 DEF Crash, Versions
  <2> QED
    BY <1>1, <1>2, <2>1 DEF External, HookdeckActs, Deliver, DeliverCopy,
      DeliverWhileAway, AttemptTimesOut, ManualRetry, ledgerVars, processVars
<1>3. CASE WriteDone
  <2>1. /\ writes # <<>> /\ writes' = Tail(writes) /\ UNCHANGED <<mem, phase>>
        /\ disk' = mem \/ disk' = Applied(Head(writes))
        /\ writes \in Seq(Jobs) /\ disk \in [Events -> Rows \cup {NoRow}]
    BY <1>3 DEF WriteDone, processVars, TypeInv, TypeOK
  <2>2. /\ Head(writes) = writes[1] /\ 1 \in DOMAIN writes /\ writes[1] \in Jobs
        /\ \A i \in DOMAIN writes' : i + 1 \in DOMAIN writes /\ writes'[i] = writes[i + 1]
    BY <2>1
  <2>3. phase # "down"
    BY <2>1 DEF NothingQueued
  <2>4. disk'[e] \in Versions(e)
    BY <2>1, <2>2, <2>3 DEF Applied, Jobs, Versions
  <2> QED
    BY <2>1, <2>2, <2>4 DEF Versions
<1>4. CASE WriteFails
  <2>1. /\ writes # <<>> /\ writes' = <<>> /\ UNCHANGED <<mem, phase>>
        /\ disk' = disk \/ disk' = Applied(Head(writes))
        /\ writes \in Seq(Jobs) /\ disk \in [Events -> Rows \cup {NoRow}]
    BY <1>4 DEF WriteFails, processVars, TypeInv, TypeOK
  <2>2. Head(writes) = writes[1] /\ 1 \in DOMAIN writes /\ writes[1] \in Jobs
    BY <2>1
  <2>3. disk'[e] \in Versions(e)
    BY <2>1, <2>2 DEF Applied, Jobs, Versions
  <2> QED
    BY <2>1, <2>3 DEF Versions
<1>5. CASE Boot
  BY <1>5 DEF Boot, Versions, Forgets, NoRows
<1>6. CASE Reconcile
  <2>1. CASE SettleOrphan
    <3>1. /\ Settle(current, "failed", "boot") /\ current \in Events
          /\ UNCHANGED <<disk, phase>> /\ phase # "down"
          /\ "boot" \in Writers /\ "failed" \in Statuses
      BY <2>1 DEF SettleOrphan, processVars, TypeInv, HasOrphan, Writers, Statuses
    <3>2. CASE mem[current] = NoRow
      BY <1>1, <3>1, <3>2 DEF Settle
    <3>3. CASE mem[current] # NoRow
      <4>1. SettleRow(mem[current], "failed") \in Rows
        BY <3>1, <3>3, SettleType DEF TypeInv, TypeOK
      <4>2. Put(current, SettleRow(mem[current], "failed"), "boot")
        BY <3>1, <3>3 DEF Settle
      <4> QED
        BY <2>1, <3>1, <3>3, <4>1, <4>2, PutVersions DEF SettlesOrphan
    <3> QED
      BY <3>2, <3>3
  <2> QED
    BY <1>1, <1>6, <2>1 DEF Reconcile, RecordSkipped, RetryAccepted, RetryRefused,
      RecordRefused, OrphanSettled, Serve, ledgerVars, processVars
<1> QED
  BY <1>2, <1>3, <1>4, <1>5, <1>6 DEF Store

LEMMA VersionStep ==
  ASSUME TypeInv, QueueInv, [Next]_vars,
         NEW e \in Events, NEW row, row \in Versions(e)'
  PROVE  \/ row \in Versions(e)
         \/ Forgets(e, row) \/ BeginsRow(e, row) \/ SettlesRow(e, row)
<1>1. CASE UNCHANGED <<mem, disk, writes>> /\ (phase' = phase \/ phase # "down")
  BY <1>1 DEF Versions
<1>2. CASE External \/ Store \/ Boot \/ Reconcile
  BY <1>2, VersionsElsewhere DEF QueueInv, SettlesRow, SettlesOrphan
<1>3. ASSUME NEW h \in Handlers, Handler(h)
      PROVE  \/ row \in Versions(e)
             \/ BeginsRow(e, row) \/ SettlesRow(e, row)
  <2> DEFINE f == req[h].event
  <2>1. /\ f \in Events /\ req[h] \in Requests /\ UNCHANGED <<disk, phase>>
        /\ phase # "down" /\ h \in Writers
    BY <1>3, HandlerShape DEF processVars, Writers
  <2>2. CASE UNCHANGED <<mem, writes>>
    BY <1>1, <2>1, <2>2 DEF Versions
  <2>3. CASE Begins(h)
    <3>1. BeginRow(mem[f], Header(req[h]), instance) \in Rows
      BY <2>1, HeaderType, BeginType DEF TypeInv, TypeOK
    <3>2. Put(f, BeginRow(mem[f], Header(req[h]), instance), h)
      BY <2>3 DEF Begins
    <3> QED
      BY <1>3, <2>1, <2>3, <3>1, <3>2, PutVersions DEF BeginsRow
  <2>4. ASSUME NEW status \in {"succeeded", "failed"}, Settles(h, status)
        PROVE  row \in Versions(e) \/ SettlesRow(e, row)
    <3>1. Settle(f, status, h) /\ status \in Statuses
      BY <2>4 DEF Settles, Statuses
    <3>2. CASE mem[f] = NoRow
      BY <2>1, <3>1, <3>2 DEF Settle, Versions
    <3>3. CASE mem[f] # NoRow
      <4>1. SettleRow(mem[f], status) \in Rows
        BY <2>1, <3>1, <3>3, SettleType DEF TypeInv, TypeOK
      <4>2. Put(f, SettleRow(mem[f], status), h)
        BY <3>1, <3>3 DEF Settle
      <4> QED
        BY <1>3, <2>1, <2>4, <3>3, <4>1, <4>2, PutVersions DEF SettlesRow, SettlesOrphan
    <3> QED
      BY <3>2, <3>3
  <2> QED
    BY <1>3, <2>2, <2>3, <2>4, HandlerShape
<1>4. CASE UNCHANGED vars
  BY <1>1, <1>4 DEF vars, ledgerVars, processVars
<1> QED
  BY <1>2, <1>3, <1>4 DEF Next

(***************************************************************************)
(* Who owns a running row.  A row of the live instance runs exactly while  *)
(* a handler is between its begin and its settle; rows of the past carry   *)
(* the number of an instance that is over.                                 *)
(***************************************************************************)
Begun(h) == pc[h] \in {"beginning", "dispatching"}

OwnersArePast == \A e \in Events : \A row \in Versions(e) : row.owner <= instance

BegunRuns ==
  \A h \in Handlers : Begun(h) =>
    LET row == mem[req[h].event]
    IN  /\ row.status = "running" /\ row.owner = instance
        /\ row.attempt >= PlausibleAttempt(Header(req[h]))

SettledRests ==
  \A h \in Handlers :
    pc[h] \in {"failing", "settling"} => mem[req[h].event].status # "running"

RunningIsBegun ==
  \A e \in Events :
    phase # "down" /\ mem[e].status = "running" /\ mem[e].owner = instance =>
      \E h \in Handlers : Begun(h) /\ req[h].event = e

RowInv == OwnersArePast /\ BegunRuns /\ SettledRests /\ RunningIsBegun

LEMMA RowsStart == Init => RowInv
<1> SUFFICES ASSUME Init PROVE RowInv
  OBVIOUS
<1>1. \A e \in Events : Versions(e) = {NoRow} /\ mem[e] = NoRow
  BY DEF Init, Versions, NoRows
<1>2. instance = 1 /\ \A h \in Handlers : pc[h] = "idle"
  BY DEF Init
<1> QED
  BY <1>1, <1>2 DEF RowInv, OwnersArePast, BegunRuns, SettledRests, RunningIsBegun,
    Begun, NoRow

LEMMA OwnersStep ==
  ASSUME TypeInv, QueueInv, OwnersArePast, [Next]_vars
  PROVE  OwnersArePast'
<1>1. instance \in Nat /\ instance' \in Nat /\ instance' >= instance
  <2> USE DEF processVars, TypeInv, TypeOK
  <2>1. CASE External
    BY <2>1 DEF External, HookdeckActs, Deliver, DeliverCopy, DeliverWhileAway,
      AttemptTimesOut, ManualRetry, Crash
  <2>2. CASE Store \/ Boot
    BY <2>2 DEF Store, WriteDone, WriteFails, Boot
  <2>3. CASE Reconcile
    BY <2>3 DEF Reconcile, RecordSkipped, RetryAccepted, RetryRefused, RecordRefused,
      SettleOrphan, OrphanSettled, Serve
  <2>4. CASE \E h \in Handlers : Handler(h)
    BY <2>4, HandlerShape
  <2>5. CASE UNCHANGED vars
    BY <2>5 DEF vars
  <2> QED
    BY <2>1, <2>2, <2>3, <2>4, <2>5 DEF Next
<1> SUFFICES ASSUME NEW e \in Events, NEW row, row \in Versions(e)'
             PROVE  row.owner <= instance'
  BY DEF OwnersArePast
<1>2. ASSUME NEW r \in Versions(e)
      PROVE  r.owner \in Nat /\ r.owner <= instance
  <2>1. r \in Rows \cup {NoRow}
    BY VersionType
  <2> QED
    BY <2>1 DEF OwnersArePast, Rows, NoRow
<1>3. CASE row \in Versions(e)
  BY <1>1, <1>2, <1>3
<1>4. CASE Forgets(e, row)
  BY <1>1, <1>4 DEF Forgets, NoRow
<1>5. CASE BeginsRow(e, row)
  BY <1>1, <1>5 DEF BeginsRow, BeginRow
<1>6. CASE SettlesRow(e, row)
  <2>1. phase # "down" /\ mem[e] \in Rows
    BY <1>6, HandlerShape DEF SettlesRow, SettlesOrphan, SettleOrphan, TypeInv, TypeOK
  <2>2. row.owner = mem[e].owner
    BY <1>6, <2>1 DEF SettlesRow, SettlesOrphan, SettleRow, Rows
  <2>3. mem[e] \in Versions(e)
    BY <2>1 DEF Versions
  <2> QED
    BY <1>1, <1>2, <2>2, <2>3
<1> QED
  BY <1>3, <1>4, <1>5, <1>6, VersionStep

\* A handler's step leaves the rows of the events others work on.
LEMMA RowsOfOthers ==
  ASSUME TypeInv, QueueInv, SlotInv', NEW g \in Handlers, Handler(g),
         NEW h \in Handlers, h # g, pc[h] \in Working
  PROVE  /\ mem'[req[h].event] = mem[req[h].event]
         /\ pc'[h] = pc[h] /\ req'[h] = req[h]
<1>1. /\ pc'[h] = pc[h] /\ req'[h] = req[h]
      /\ mem \in [Events -> Rows \cup {NoRow}]
      /\ req[h].event \in Events /\ req[g].event \in Events
  BY HandlerShape DEF Working, TypeInv, TypeOK, HasRequest, Requests
<1>2. req'[g] = req[g] /\ pc'[g] \in Working => req[g].event # req[h].event
  BY <1>1 DEF SlotInv, OneHandlerPerEvent
<1>3. CASE Begins(g)
  BY <1>1, <1>2, <1>3 DEF Begins, Admit, Put, Working, TypeInv, TypeOK
<1>4. ASSUME NEW status \in {"succeeded", "failed"}, Settles(g, status)
      PROVE  mem'[req[h].event] = mem[req[h].event]
  <2>1. pc'[g] \in Working /\ req'[g] = req[g]
    BY <1>4, HandlerShape DEF Settles, Working, TypeInv, TypeOK
  <2> QED
    BY <1>1, <1>2, <1>4, <2>1 DEF Settles, Settle, Put
<1> QED
  BY <1>1, <1>3, <1>4, HandlerShape

\* What a handler's own step makes of the row it works on.
LEMMA OwnRow ==
  ASSUME TypeInv, QueueInv, NEW h \in Handlers, Handler(h)
  PROVE  LET row == mem'[req[h].event]
         IN  /\ Begins(h) =>
                  /\ pc'[h] = "beginning" /\ row.status = "running"
                  /\ row.owner = instance
                  /\ row.attempt >= PlausibleAttempt(Header(req[h]))
             /\ \A status \in {"succeeded", "failed"} : Settles(h, status) =>
                  pc'[h] \in {"failing", "settling"} /\ row.status # "running"
<1>1. /\ req[h].event \in Events /\ req[h] \in Requests
      /\ mem \in [Events -> Rows \cup {NoRow}] /\ pc \in [Handlers -> PCs]
  BY HandlerShape DEF TypeInv, TypeOK
<1> DEFINE old == mem[req[h].event]
           made == BeginRow(old, Header(req[h]), instance)
<1>2. ASSUME Begins(h)
      PROVE  /\ pc'[h] = "beginning" /\ mem'[req[h].event] = made
             /\ made.status = "running" /\ made.owner = instance
             /\ made.attempt >= PlausibleAttempt(Header(req[h]))
  <2>1. pc'[h] = "beginning" /\ mem'[req[h].event] = made
    BY <1>1, <1>2 DEF Begins, Admit, Put
  <2>2. made.status = "running" /\ made.owner = instance
    BY DEF BeginRow
  <2>3. /\ old.attempt \in Nat
        /\ PlausibleAttempt(Header(req[h])) \in AttemptHeaders
    BY <1>1, HeaderType, PlausibleType DEF Rows, NoRow
  <2>4. made.attempt >= PlausibleAttempt(Header(req[h]))
    BY <2>3 DEF BeginRow, AttemptHeaders, NoAttempt
  <2> QED
    BY <2>1, <2>2, <2>4
<1>3. ASSUME NEW status \in {"succeeded", "failed"}, Settles(h, status)
      PROVE  pc'[h] \in {"failing", "settling"} /\ mem'[req[h].event].status # "running"
  <2>1. pc'[h] \in {"failing", "settling"}
    BY <1>1, <1>3 DEF Settles
  <2>2. CASE old = NoRow
    BY <1>3, <2>1, <2>2 DEF Settles, Settle, NoRow
  <2>3. CASE old # NoRow
    <3>1. old \in Rows /\ mem'[req[h].event] = SettleRow(old, status)
      BY <1>1, <1>3, <2>3 DEF Settles, Settle, Put
    <3>2. SettleRow(old, status).status = status
      BY <3>1 DEF SettleRow, Rows
    <3> QED
      BY <3>1, <3>2, <2>1
  <2> QED
    BY <2>1, <2>2, <2>3
<1> QED
  BY <1>2, <1>3

LEMMA RowsHandler ==
  ASSUME TypeInv, QueueInv, SlotInv', RowInv, OwnersArePast',
         NEW g \in Handlers, Handler(g)
  PROVE  RowInv'
<1>1. /\ UNCHANGED <<phase, instance>> /\ pc[g] # "idle" /\ req[g].event \in Events
      /\ mem \in [Events -> Rows \cup {NoRow}]
      /\ req'[g] = req[g] \/ pc'[g] = "idle"
  BY HandlerShape DEF processVars, TypeInv, TypeOK
<1>2. \A h \in Handlers : h # g /\ pc'[h] \in Working =>
        /\ pc'[h] = pc[h] /\ req'[h] = req[h]
        /\ mem'[req[h].event] = mem[req[h].event]
  BY HandlerShape, RowsOfOthers
<1>3. BegunRuns'
  <2> SUFFICES ASSUME NEW h \in Handlers, Begun(h)'
               PROVE  LET row == mem'[req'[h].event]
                      IN  /\ row.status = "running" /\ row.owner = instance'
                          /\ row.attempt >= PlausibleAttempt(Header(req'[h]))
    BY DEF BegunRuns, Header
  <2>1. CASE h # g
    BY <1>1, <1>2, <2>1 DEF RowInv, BegunRuns, Begun, Working
  <2>2. CASE h = g
    <3>1. req'[g] = req[g]
      BY <1>1, <2>2 DEF Begun
    <3>2. CASE UNCHANGED <<mem, writes>> /\ pc[g] = "beginning"
      BY <1>1, <2>2, <3>1, <3>2 DEF RowInv, BegunRuns, Begun
    <3>3. CASE Begins(g)
      BY <1>1, <2>2, <3>1, <3>3, OwnRow
    <3> QED
      BY <2>2, <3>2, <3>3, HandlerShape, OwnRow DEF Begun
  <2> QED
    BY <2>1, <2>2
<1>4. SettledRests'
  <2> SUFFICES ASSUME NEW h \in Handlers, pc'[h] \in {"failing", "settling"}
               PROVE  mem'[req'[h].event].status # "running"
    BY DEF SettledRests
  <2>1. CASE h # g
    BY <1>2, <2>1 DEF RowInv, SettledRests, Working
  <2>2. CASE h = g
    BY <1>1, <2>2, HandlerShape, OwnRow
  <2> QED
    BY <2>1, <2>2
<1>5. RunningIsBegun'
  <2> SUFFICES ASSUME NEW e \in Events, phase' # "down", mem'[e].status = "running",
                      mem'[e].owner = instance'
               PROVE  \E h \in Handlers : Begun(h)' /\ req'[h].event = e
    BY DEF RunningIsBegun
  <2>1. CASE e = req[g].event /\ Begins(g)
    BY <1>1, <2>1, OwnRow DEF Begun
  <2>2. ASSUME NEW status \in {"succeeded", "failed"}, Settles(g, status)
        PROVE  e # req[g].event
    BY <2>2, OwnRow
  <2>3. CASE mem'[e] = mem[e] /\ (e = req[g].event => UNCHANGED <<mem, writes>>)
    <3>1. PICK h \in Handlers : Begun(h) /\ req[h].event = e
      BY <1>1, <2>3 DEF RowInv, RunningIsBegun
    <3>2. CASE h # g
      BY <3>1, <3>2, HandlerShape DEF Begun
    <3>3. CASE h = g
      <4>1. pc[g] \notin {"reading", "failing"} /\ mem' = mem
        BY <2>3, <3>1, <3>3 DEF Begun
      <4>2. pc'[g] = "dispatching"
        BY <2>2, <3>1, <3>3, <4>1, HandlerShape DEF Begun, Begins, Admit
      <4> QED
        BY <1>1, <3>1, <3>3, <4>2 DEF Begun
    <3> QED
      BY <3>2, <3>3
  <2>4. CASE e # req[g].event
    BY <1>1, <2>3, <2>4, HandlerShape DEF Begins, Settles, Settle, Put
  <2> QED
    BY <2>1, <2>2, <2>3, <2>4, HandlerShape
<1> QED
  BY <1>3, <1>4, <1>5 DEF RowInv

LEMMA RowsReconcile ==
  ASSUME TypeInv, QueueInv, RowInv, OwnersArePast', Reconcile
  PROVE  RowInv'
<1>1. /\ phase = "booting" /\ phase' # "down" /\ UNCHANGED <<pc, req, instance>>
      /\ \A h \in Handlers : pc[h] = "idle"
      /\ mem' = mem \/ SettleOrphan
  BY DEF Reconcile, RecordSkipped, RetryAccepted, RetryRefused, RecordRefused,
    SettleOrphan, OrphanSettled, Serve, handlerVars, processVars, ledgerVars,
    QueueInv, ServesAlone
<1>2. ASSUME NEW e \in Events
      PROVE  mem'[e] = mem[e] \/ mem'[e].status # "running"
  <2>1. CASE SettleOrphan
    <3>1. current \in Events /\ mem \in [Events -> Rows \cup {NoRow}]
      BY <2>1 DEF SettleOrphan, TypeInv, TypeOK, HasOrphan
    <3>2. CASE mem' = mem
      BY <3>2
    <3>3. CASE mem[current] # NoRow /\ mem' = [mem EXCEPT ![current] = SettleRow(mem[current], "failed")]
      <4>1. SettleRow(mem[current], "failed").status = "failed"
        BY <3>1, <3>3 DEF SettleRow, Rows
      <4> QED
        BY <3>1, <3>3, <4>1
    <3> QED
      BY <2>1, <3>2, <3>3 DEF SettleOrphan, Settle, Put
  <2> QED
    BY <1>1, <2>1
<1> QED
  BY <1>1, <1>2 DEF RowInv, BegunRuns, SettledRests, RunningIsBegun, Begun

LEMMA RowsStep == TypeInv /\ QueueInv /\ SlotInv' /\ RowInv /\ [Next]_vars => RowInv'
<1> SUFFICES ASSUME TypeInv, QueueInv, SlotInv', RowInv, [Next]_vars
             PROVE  RowInv'
  OBVIOUS
<1>0. OwnersArePast'
  BY OwnersStep DEF RowInv
<1>1. ASSUME UNCHANGED <<processVars, mem>>,
             \A g \in Handlers :
               /\ pc'[g] = pc[g] \/ {pc[g], pc'[g]} \cap Working = {}
               /\ pc[g] \in Working => req'[g] = req[g]
      PROVE  RowInv'
  <2>1. \A h \in Handlers :
          /\ Begun(h)' <=> Begun(h)
          /\ pc'[h] \in {"failing", "settling"} <=> pc[h] \in {"failing", "settling"}
          /\ Begun(h) \/ pc[h] \in {"failing", "settling"} => req'[h] = req[h]
    BY <1>1 DEF Begun, Working
  <2>2. mem' = mem /\ phase' = phase /\ instance' = instance
    BY <1>1 DEF processVars
  <2>3. BegunRuns'
    BY <2>1, <2>2 DEF RowInv, BegunRuns, Header
  <2>4. SettledRests'
    BY <2>1, <2>2 DEF RowInv, SettledRests
  <2>5. RunningIsBegun'
    BY <2>1, <2>2 DEF RowInv, RunningIsBegun
  <2> QED
    BY <1>0, <2>3, <2>4, <2>5 DEF RowInv
<1>2. ASSUME NEW e \in Events, NEW h \in Handlers, Deliver(e, h) \/ DeliverCopy(e, h)
      PROVE  RowInv'
  BY <1>1, <1>2 DEF Deliver, DeliverCopy, ledgerVars, TypeInv, TypeOK, Working
<1>3. ASSUME NEW e \in Events,
             DeliverWhileAway(e) \/ AttemptTimesOut(e) \/ ManualRetry(e)
      PROVE  RowInv'
  BY <1>1, <1>3 DEF DeliverWhileAway, AttemptTimesOut, ManualRetry, handlerVars, ledgerVars
<1>4. CASE Crash
  BY <1>0, <1>4 DEF Crash, RowInv, BegunRuns, SettledRests, RunningIsBegun, Begun
<1>5. CASE Store
  BY <1>1, <1>5 DEF Store, WriteDone, WriteFails, handlerVars
<1>6. CASE Boot
  <2>1. \A h \in Handlers : pc'[h] = "idle"
    BY <1>6 DEF Boot, handlerVars, QueueInv, ServesAlone
  <2>2. ASSUME NEW e \in Events, mem'[e].status = "running"
        PROVE  mem'[e].owner # instance'
    <3>1. mem'[e] = disk[e] /\ instance' = instance + 1
      BY <1>6, <2>2 DEF Boot, NoRows, NoRow
    <3>2. disk[e].owner <= instance /\ disk[e] \in Rows \cup {NoRow} /\ instance \in Nat
      BY DEF RowInv, OwnersArePast, Versions, TypeInv, TypeOK
    <3> QED
      BY <3>1, <3>2 DEF Rows, NoRow
  <2> QED
    BY <1>0, <2>1, <2>2 DEF RowInv, BegunRuns, SettledRests, RunningIsBegun, Begun
<1>7. CASE Reconcile
  BY <1>0, <1>7, RowsReconcile
<1>8. ASSUME NEW h \in Handlers, Handler(h)
      PROVE  RowInv'
  BY <1>0, <1>8, RowsHandler
<1>9. CASE UNCHANGED vars
  BY <1>1, <1>9 DEF vars, handlerVars, ledgerVars
<1> QED
  BY <1>2, <1>3, <1>4, <1>5, <1>6, <1>7, <1>8, <1>9 DEF Next, External, HookdeckActs

LedgerInv == TypeInv /\ QueueInv /\ SlotInv /\ RowInv

LEMMA LedgerStarts == Init => LedgerInv
BY TypeInit, QueueStarts, SlotInit, RowsStart DEF LedgerInv

LEMMA LedgerStep == LedgerInv /\ [Next]_vars => LedgerInv'
BY TypeStep, QueueStep, SlotStep, RowsStep DEF LedgerInv

LEMMA LedgerSafety == Spec => []LedgerInv
BY LedgerStarts, LedgerStep, PTL DEF Spec

\* No row of the live instance is left running without a handler that will
\* settle it, whatever throws, fails or crashes on the way.
THEOREM NoRowIsWedged == Spec => []NoWedgedRow
<1>1. LedgerInv => NoWedgedRow
  BY DEF LedgerInv, RowInv, RunningIsBegun, NoWedgedRow, Begun, Working
<1> QED
  BY <1>1, LedgerSafety, PTL

\* begin is on disk before the dispatcher is called: whenever the process dies,
\* the next one finds the run it interrupted.
THEOREM BegunIsDurable == Spec => []DurableBeforeDispatch
<1>1. LedgerInv => DurableBeforeDispatch
  <2> SUFFICES ASSUME LedgerInv, NEW h \in Handlers,
                      pc[h] = "dispatching", persistence = "active"
               PROVE  disk[req[h].event] = mem[req[h].event]
    BY DEF DurableBeforeDispatch, LedgerInv, RowInv, BegunRuns, Begun
  <2>1. req[h].event \in Events /\ phase = "serving"
    BY DEF LedgerInv, TypeInv, HasRequest, Requests, QueueInv, ServesAlone
  <2>2. Quiet(req[h].event)
    <3> SUFFICES ASSUME NEW i \in DOMAIN writes, writes[i].event = req[h].event
                 PROVE  FALSE
      BY DEF Quiet
    <3>1. /\ writes[i].by \in Handlers
          /\ pc[writes[i].by] \in {"beginning", "failing", "settling"}
          /\ req[writes[i].by].event = req[h].event
      BY <2>1 DEF LedgerInv, QueueInv, JobsAreAwaited, Waits
    <3> QED
      BY <3>1 DEF LedgerInv, SlotInv, OneHandlerPerEvent, Working
  <2> QED
    BY <2>1, <2>2 DEF LedgerInv, QueueInv, QueueEndsInMemory, EndsInMemory, Quiet
<1> QED
  BY <1>1, LedgerSafety, PTL

(***************************************************************************)
(* What is recorded stays recorded, and a handler's answer is its own.     *)
(***************************************************************************)
LEMMA RecordsGrow ==
  ASSUME [Next]_vars
  PROVE  /\ deadLetter \subseteq deadLetter' /\ completed \subseteq completed'
         /\ requeued \subseteq requeued' /\ ran \subseteq ran'
         /\ interrupted \subseteq interrupted'
<1> USE DEF historyVars
<1>1. CASE External
  BY <1>1 DEF External, HookdeckActs, Deliver, DeliverCopy, DeliverWhileAway,
    AttemptTimesOut, ManualRetry, Crash
<1>2. CASE Store \/ Boot
  BY <1>2 DEF Store, WriteDone, WriteFails, Boot
<1>3. CASE Reconcile
  BY <1>3 DEF Reconcile, RecordSkipped, RetryAccepted, RetryRefused, RecordRefused,
    SettleOrphan, OrphanSettled, Serve
<1>4. ASSUME NEW h \in Handlers, Handler(h)
      PROVE  /\ deadLetter \subseteq deadLetter' /\ completed \subseteq completed'
             /\ ran \subseteq ran' /\ UNCHANGED <<requeued, interrupted>>
  BY <1>4 DEF Handler, Pipeline, RejectEarly, TurnAway, Admit, SettleAfterThrow, Release,
    RecordDeadLetter, Respond, Dispatch, DispatchReturns, DispatchThrows
<1>5. CASE UNCHANGED vars
  BY <1>5 DEF vars
<1> QED
  BY <1>1, <1>2, <1>3, <1>4, <1>5 DEF Next

\* The steps that are no handler's.
Elsewhere == External \/ Store \/ Boot \/ Reconcile \/ UNCHANGED vars

\* They leave each handler as it was, give an idle one a request, or stop them
\* all.
LEMMA HandlersLeftAlone ==
  ASSUME TypeInv, Elsewhere, NEW h \in Handlers
  PROVE  \/ pc'[h] = pc[h] /\ req'[h] = req[h] /\ answer'[h] = answer[h]
         \/ /\ pc'[h] = "reading" /\ pc[h] = "idle" /\ answer'[h] = answer[h]
            /\ \E e \in Events : Deliver(e, h) \/ DeliverCopy(e, h)
         \/ pc'[h] = "idle" /\ req'[h] = NoRequest /\ answer'[h] = "none"
<1> USE DEF handlerVars
<1>1. ASSUME NEW e \in Events, NEW g \in Handlers, Deliver(e, g) \/ DeliverCopy(e, g)
      PROVE  \/ pc'[h] = pc[h] /\ req'[h] = req[h] /\ answer'[h] = answer[h]
             \/ h = g /\ pc'[h] = "reading" /\ pc[h] = "idle" /\ answer'[h] = answer[h]
  BY <1>1 DEF Deliver, DeliverCopy, TypeInv, TypeOK
<1>2. ASSUME NEW e \in Events,
             DeliverWhileAway(e) \/ AttemptTimesOut(e) \/ ManualRetry(e)
      PROVE  UNCHANGED <<pc, req, answer>>
  BY <1>2 DEF DeliverWhileAway, AttemptTimesOut, ManualRetry
<1>3. CASE Crash
  BY <1>3 DEF Crash
<1>4. CASE Store \/ Boot \/ Reconcile
  BY <1>4 DEF Store, WriteDone, WriteFails, Boot, Reconcile, RecordSkipped,
    RetryAccepted, RetryRefused, RecordRefused, SettleOrphan, OrphanSettled, Serve
<1>5. CASE UNCHANGED vars
  BY <1>5 DEF vars
<1> QED
  BY <1>1, <1>2, <1>3, <1>4, <1>5 DEF Elsewhere, External, HookdeckActs

LEMMA HandlersElsewhere ==
  ASSUME TypeInv, [Next]_vars, \A g \in Handlers : ~Handler(g), NEW h \in Handlers
  PROVE  \/ pc'[h] = pc[h] /\ req'[h] = req[h] /\ answer'[h] = answer[h]
         \/ /\ pc'[h] = "reading" /\ pc[h] = "idle" /\ answer'[h] = answer[h]
            /\ \E e \in Events : Deliver(e, h) \/ DeliverCopy(e, h)
         \/ pc'[h] = "idle" /\ req'[h] = NoRequest /\ answer'[h] = "none"
BY HandlersLeftAlone DEF Next, Elsewhere

\* What Hookdeck makes of an event changes by an answer it awaits alone, but
\* for deliveries, time-outs and retries, none of which retires an event.
LEMMA HookdeckStep ==
  ASSUME TypeInv, [Next]_vars, NEW e \in Events, hookdeck'[e] # hookdeck[e]
  PROVE  \/ hookdeck'[e] \in {"queued", "delivering", "gave_up"}
         \/ \E h \in Handlers :
              /\ Respond(h) /\ Awaited(req[h]) /\ req[h].event = e
              /\ hookdeck'[e] = Reaction(e, answer[h])
<1> USE DEF hookdeckVars, AfterFailure, TypeInv, TypeOK
<1>1. CASE External
  BY <1>1 DEF External, HookdeckActs, Deliver, DeliverCopy, DeliverWhileAway,
    AttemptTimesOut, ManualRetry, Crash
<1>2. CASE Store \/ Boot
  BY <1>2 DEF Store, WriteDone, WriteFails, Boot
<1>3. CASE Reconcile
  BY <1>3 DEF Reconcile, RecordSkipped, RetryAccepted, RetryRefused, RecordRefused,
    SettleOrphan, OrphanSettled, Serve
<1>4. ASSUME NEW h \in Handlers, Handler(h), ~Respond(h)
      PROVE  hookdeck' = hookdeck
  BY <1>4 DEF Handler, Pipeline, RejectEarly, TurnAway, Admit, SettleAfterThrow, Release,
    RecordDeadLetter, Dispatch, DispatchReturns, DispatchThrows
<1>5. ASSUME NEW h \in Handlers, Respond(h)
      PROVE  /\ Awaited(req[h]) /\ req[h].event = e
             /\ hookdeck'[e] = Reaction(e, answer[h])
  BY <1>5 DEF Respond
<1>6. CASE UNCHANGED vars
  BY <1>6 DEF vars
<1> QED
  BY <1>1, <1>2, <1>3, <1>4, <1>5, <1>6 DEF Next

(***************************************************************************)
(* Cancellations.                                                          *)
(***************************************************************************)
RecordedIsKept ==
  \A h \in Handlers :
    pc[h] = "recorded" /\ answer[h] # "no_event_id" => req[h].event \in deadLetter

UnsupportedIsEarly ==
  \A h \in Handlers : answer[h] = "unsupported" => "unsupported" \in EarlyRejections

RecordInv == RecordedIsKept /\ UnsupportedIsEarly /\ CancelledIsRecorded

LEMMA RecordsStart == Init => RecordInv
BY DEF Init, RecordInv, RecordedIsKept, UnsupportedIsEarly, CancelledIsRecorded

LEMMA RecordsStep == TypeInv /\ QueueInv /\ RecordInv /\ [Next]_vars => RecordInv'
<1> SUFFICES ASSUME TypeInv, QueueInv, RecordInv, [Next]_vars
             PROVE  RecordInv'
  OBVIOUS
<1>1. deadLetter \subseteq deadLetter'
  BY RecordsGrow
<1>2. ASSUME NEW h \in Handlers, Handler(h)
      PROVE  /\ pc'[h] = "recorded" /\ answer'[h] # "no_event_id" =>
                  req'[h].event \in deadLetter'
             /\ answer'[h] = "unsupported" => "unsupported" \in EarlyRejections
  <2>1. pc[h] \in PCs /\ pc \in [Handlers -> PCs] /\ answer \in [Handlers -> Answers \cup {"none"}]
        /\ req \in [Handlers -> Requests \cup {NoRequest}]
    BY DEF TypeInv, TypeOK
  <2>2. answer[h] = "unsupported" => "unsupported" \in EarlyRejections
    BY DEF RecordInv, UnsupportedIsEarly
  <2>3. CASE RejectEarly(h)
    BY <2>1, <2>3 DEF RejectEarly
  <2>4. CASE TurnAway(h, TRUE)
    BY <2>1, <2>4 DEF TurnAway, Verdict
  <2>5. CASE Admit(h, TRUE) \/ Dispatch(h) \/ SettleAfterThrow(h) \/ Release(h)
    BY <2>1, <2>2, <2>5 DEF Admit, Dispatch, SettleAfterThrow, Release
  <2>6. CASE DispatchThrows(h) \/ \E a \in Answers : DispatchReturns(h, a)
    BY <2>1, <2>6 DEF DispatchThrows, DispatchReturns
  <2>7. CASE RecordDeadLetter(h)
    BY <2>1, <2>2, <2>7 DEF RecordDeadLetter, Recorded
  <2>8. CASE Respond(h)
    BY <2>1, <2>8 DEF Respond
  <2> QED
    BY <1>2, <2>3, <2>4, <2>5, <2>6, <2>7, <2>8 DEF Handler, Pipeline
<1>3. RecordedIsKept' /\ UnsupportedIsEarly'
  <2> SUFFICES ASSUME NEW h \in Handlers
               PROVE  /\ pc'[h] = "recorded" /\ answer'[h] # "no_event_id" =>
                           req'[h].event \in deadLetter'
                      /\ answer'[h] = "unsupported" => "unsupported" \in EarlyRejections
    BY DEF RecordedIsKept, UnsupportedIsEarly
  <2>1. CASE \A g \in Handlers : ~Handler(g)
    BY <1>1, <2>1, HandlersElsewhere DEF RecordInv, RecordedIsKept, UnsupportedIsEarly
  <2>2. ASSUME NEW g \in Handlers, Handler(g), g # h
        PROVE  pc'[h] = pc[h] /\ req'[h] = req[h] /\ answer'[h] = answer[h]
    BY <2>2, HandlerShape
  <2> QED
    BY <1>1, <1>2, <2>1, <2>2 DEF RecordInv, RecordedIsKept, UnsupportedIsEarly
<1>4. CancelledIsRecorded'
  <2> SUFFICES ASSUME "unsupported" \notin EarlyRejections, NEW e \in Events,
                      hookdeck'[e] = "cancelled"
               PROVE  e \in deadLetter'
    BY DEF CancelledIsRecorded
  <2>1. CASE hookdeck[e] = "cancelled"
    BY <1>1, <2>1 DEF RecordInv, CancelledIsRecorded
  <2>2. ASSUME NEW h \in Handlers, Respond(h), req[h].event = e,
               Reaction(e, answer[h]) = "cancelled"
        PROVE  e \in deadLetter'
    <3>1. answer[h] = "cancel"
      BY <2>2 DEF Reaction, AfterFailure, RecordInv, UnsupportedIsEarly
    <3>2. pc[h] = "recorded"
      BY <2>2, <3>1 DEF Respond, Undeliverable
    <3> QED
      BY <1>1, <2>2, <3>1, <3>2 DEF RecordInv, RecordedIsKept
  <2> QED
    BY <2>1, <2>2, HookdeckStep
<1> QED
  BY <1>3, <1>4 DEF RecordInv

\* A cancellation of verified input leaves a local record.
THEOREM CancellationIsRecorded == Spec => []CancelledIsRecorded
<1>1. Init => TypeInv /\ QueueInv /\ RecordInv
  BY TypeInit, QueueStarts, RecordsStart
<1>2. TypeInv /\ QueueInv /\ RecordInv /\ [Next]_vars => TypeInv' /\ QueueInv' /\ RecordInv'
  BY TypeStep, QueueStep, RecordsStep
<1>3. RecordInv => CancelledIsRecorded
  BY DEF RecordInv
<1> QED
  BY <1>1, <1>2, <1>3, PTL DEF Spec

(***************************************************************************)
(* Attempts.  Hookdeck numbers them one after another: a handler never     *)
(* holds a number Hookdeck has not given out, the ledger never records     *)
(* one, and the attempt Hookdeck awaits the answer to is newer than every  *)
(* other in the process.                                                   *)
(***************************************************************************)
\* A handler that is active after a step was so before, unless it has just
\* been given its request.
LEMMA ActiveStep ==
  ASSUME TypeInv, QueueInv, [Next]_vars, NEW h \in Handlers, pc'[h] # "idle"
  PROVE  \/ /\ pc[h] # "idle" /\ req'[h] = req[h]
            /\ pc'[h] = "reading" => pc[h] = "reading" /\ ~Handler(h)
         \/ \E e \in Events : Deliver(e, h) \/ DeliverCopy(e, h)
<1>1. CASE Handler(h)
  <2>1. pc[h] # "idle" /\ req'[h] = req[h]
    BY <1>1, HandlerShape
  <2>2. pc'[h] # "reading"
    BY <1>1 DEF Handler, Pipeline, RejectEarly, TurnAway, Admit, SettleAfterThrow, Release,
      RecordDeadLetter, Respond, Dispatch, DispatchReturns, DispatchThrows, TypeInv, TypeOK
  <2> QED
    BY <2>1, <2>2
<1>2. ASSUME NEW g \in Handlers, Handler(g), g # h
      PROVE  pc'[h] = pc[h] /\ req'[h] = req[h]
  BY <1>2, HandlerShape
<1>3. CASE \A g \in Handlers : ~Handler(g)
  BY <1>3, HandlersElsewhere
<1> QED
  BY <1>1, <1>2, <1>3

LEMMA AttemptsElsewhere ==
  ASSUME TypeInv, Elsewhere, NEW e \in Events
  PROVE  \/ attempts'[e] = attempts[e]
         \/ /\ attempts'[e] = attempts[e] + 1 /\ attempts[e] < MaxAttempts
            /\ DeliverWhileAway(e) \/ \E h \in Handlers : Deliver(e, h)
<1> USE DEF hookdeckVars, TypeInv, TypeOK
<1>1. CASE External
  <2>1. ASSUME NEW f \in Events, NEW h \in Handlers, Deliver(f, h)
        PROVE  \/ attempts'[e] = attempts[e]
               \/ attempts'[e] = attempts[e] + 1 /\ attempts[e] < MaxAttempts /\ e = f
    BY <2>1 DEF Deliver
  <2>2. ASSUME NEW f \in Events, DeliverWhileAway(f)
        PROVE  \/ attempts'[e] = attempts[e]
               \/ attempts'[e] = attempts[e] + 1 /\ attempts[e] < MaxAttempts /\ e = f
    BY <2>2 DEF DeliverWhileAway
  <2> QED
    BY <1>1, <2>1, <2>2 DEF External, HookdeckActs, DeliverCopy, AttemptTimesOut,
      ManualRetry, Crash
<1>2. CASE Store \/ Boot
  BY <1>2 DEF Store, WriteDone, WriteFails, Boot
<1>3. CASE Reconcile
  BY <1>3 DEF Reconcile, RecordSkipped, RetryAccepted, RetryRefused, RecordRefused,
    SettleOrphan, OrphanSettled, Serve
<1>4. CASE UNCHANGED vars
  BY <1>4 DEF vars
<1> QED
  BY <1>1, <1>2, <1>3, <1>4 DEF Elsewhere

LEMMA AttemptsGrow ==
  ASSUME TypeInv, QueueInv, [Next]_vars, NEW e \in Events
  PROVE  \/ attempts'[e] = attempts[e]
         \/ /\ attempts'[e] = attempts[e] + 1 /\ attempts[e] < MaxAttempts
            /\ DeliverWhileAway(e) \/ \E h \in Handlers : Deliver(e, h)
<1>1. CASE \E h \in Handlers : Handler(h)
  BY <1>1, HandlerShape DEF hookdeckVars
<1> QED
  BY <1>1, AttemptsElsewhere DEF Next, Elsewhere

\* An attempt under way was so before, unless it has just been delivered.
LEMMA DeliveringElsewhere ==
  ASSUME TypeInv, Elsewhere, NEW e \in Events, hookdeck'[e] = "delivering"
  PROVE  \/ hookdeck[e] = "delivering" /\ attempts'[e] = attempts[e]
         \/ \E h \in Handlers : Deliver(e, h)
<1>0. hookdeck \in [Events -> HookdeckStates]
  BY DEF TypeInv, TypeOK
<1>1. ~DeliverWhileAway(e)
  BY <1>0 DEF DeliverWhileAway
<1>2. ASSUME hookdeck[e] # "delivering"
      PROVE  \E h \in Handlers : Deliver(e, h)
  <2> USE DEF hookdeckVars, AfterFailure
  <2>1. CASE External
    BY <1>0, <1>2, <2>1 DEF External, HookdeckActs, Deliver, DeliverCopy, DeliverWhileAway,
      AttemptTimesOut, ManualRetry, Crash
  <2>2. CASE Store \/ Boot \/ UNCHANGED vars
    BY <1>2, <2>2 DEF Store, WriteDone, WriteFails, Boot, vars
  <2>3. CASE Reconcile
    BY <1>0, <1>2, <2>3 DEF Reconcile, RecordSkipped, RetryAccepted, RetryRefused,
      RecordRefused, SettleOrphan, OrphanSettled, Serve
  <2> QED
    BY <2>1, <2>2, <2>3 DEF Elsewhere
<1> QED
  BY <1>1, <1>2, AttemptsElsewhere

LEMMA DeliveringStep ==
  ASSUME TypeInv, QueueInv, [Next]_vars, NEW e \in Events, hookdeck'[e] = "delivering"
  PROVE  \/ hookdeck[e] = "delivering" /\ attempts'[e] = attempts[e]
         \/ \E h \in Handlers : Deliver(e, h)
<1>1. ASSUME NEW h \in Handlers, Handler(h)
      PROVE  hookdeck[e] = "delivering" /\ attempts'[e] = attempts[e]
  <2>1. hookdeck' = hookdeck \/ Respond(h)
    BY <1>1 DEF Handler, Pipeline, RejectEarly, TurnAway, Admit, SettleAfterThrow, Release,
      RecordDeadLetter, Dispatch, DispatchReturns, DispatchThrows, hookdeckVars
  <2>2. Respond(h) => hookdeck'[e] = hookdeck[e] \/ hookdeck'[e] # "delivering"
    BY DEF Respond, Reaction, AfterFailure, TypeInv, TypeOK
  <2>3. attempts' = attempts
    BY <1>1, HandlerShape
  <2> QED
    BY <2>1, <2>2, <2>3
<1> QED
  BY <1>1, DeliveringElsewhere DEF Next, Elsewhere

\* Memory changes by begin and settle, and at a crash and the boot after it.
LEMMA MemoryStep ==
  ASSUME TypeInv, QueueInv, [Next]_vars, NEW e \in Events
  PROVE  \/ mem'[e] = mem[e] \/ Crash \/ Boot
         \/ BeginsRow(e, mem'[e]) \/ SettlesRow(e, mem'[e])
<1>0. mem \in [Events -> Rows \cup {NoRow}]
  BY DEF TypeInv, TypeOK
<1>1. CASE External \/ Store \/ Boot \/ UNCHANGED vars
  BY <1>1 DEF External, HookdeckActs, Deliver, DeliverCopy, DeliverWhileAway,
    AttemptTimesOut, ManualRetry, Store, WriteDone, WriteFails, ledgerVars, vars
<1>2. CASE Reconcile
  BY <1>0, <1>2 DEF Reconcile, RecordSkipped, RetryAccepted, RetryRefused,
    RecordRefused, SettleOrphan, OrphanSettled, Serve, ledgerVars, SettlesRow,
    SettlesOrphan, Settle, Put
<1>3. ASSUME NEW h \in Handlers, Handler(h)
      PROVE  mem'[e] = mem[e] \/ BeginsRow(e, mem'[e]) \/ SettlesRow(e, mem'[e])
  <2>1. CASE UNCHANGED <<mem, writes>>
    BY <2>1
  <2>2. CASE Begins(h)
    BY <1>0, <1>3, <2>2 DEF Begins, BeginsRow, Put
  <2>3. ASSUME NEW status \in {"succeeded", "failed"}, Settles(h, status)
        PROVE  mem'[e] = mem[e] \/ SettlesRow(e, mem'[e])
    BY <1>0, <1>3, <2>3 DEF Settles, Settle, SettlesRow, SettlesOrphan, Put
  <2> QED
    BY <1>3, <2>1, <2>2, <2>3, HandlerShape
<1> QED
  BY <1>1, <1>2, <1>3 DEF Next

AttemptsAreBounded == \A e \in Events : attempts[e] <= MaxAttempts

RequestsAreNumbered ==
  \A h \in Handlers : pc[h] # "idle" => req[h].attempt \in 1 .. attempts[req[h].event]

RowsAreNumbered ==
  \A e \in Events \ Headerless : \A row \in Versions(e) : row.attempt <= attempts[e]

AwaitedIsNewest ==
  \A h \in Handlers :
    pc[h] # "idle" /\ Awaited(req[h]) =>
      /\ pc[h] = "reading" /\ req[h].event \notin Headerless =>
           mem[req[h].event].attempt < attempts[req[h].event]
      /\ \A g \in Handlers :
           g # h /\ pc[g] # "idle" /\ req[g].event = req[h].event =>
             req[g].attempt < attempts[req[h].event]

AttemptInv == /\ AttemptsAreBounded
              /\ RequestsAreNumbered
              /\ RowsAreNumbered
              /\ AwaitedIsNewest

LEMMA AttemptsStart == Init => AttemptInv
<1> SUFFICES ASSUME Init PROVE AttemptInv
  OBVIOUS
<1>1. \A e \in Events : Versions(e) = {NoRow} /\ attempts[e] = 0
  BY DEF Init, Versions, NoRows
<1>2. \A h \in Handlers : pc[h] = "idle"
  BY DEF Init
<1> QED
  BY <1>1, <1>2, DeliveryAssumption DEF AttemptInv, AttemptsAreBounded,
    RequestsAreNumbered, RowsAreNumbered, AwaitedIsNewest, NoRow

\* The attempt begin records: that of the row or that of the header, if any.
LEMMA BeginAttempt ==
  ASSUME TypeInv, NEW h \in Handlers, pc[h] # "idle", req[h].attempt >= 1,
         NEW e \in Events \ Headerless, req[h].event = e
  PROVE  LET n == BeginRow(mem[e], Header(req[h]), instance).attempt
         IN  /\ n \in Nat /\ n >= mem[e].attempt
             /\ n = mem[e].attempt \/ n <= req[h].attempt
<1>1. mem[e].attempt \in Nat /\ req[h].attempt \in Nat /\ Header(req[h]) = req[h].attempt
  BY DEF TypeInv, TypeOK, HasRequest, Requests, Rows, NoRow, Header
<1> QED
  BY <1>1 DEF BeginRow, PlausibleAttempt, NoAttempt

(***************************************************************************)
(* What the numbering of attempts needs of a step, whatever program it is  *)
(* a step of.                                                              *)
(***************************************************************************)
GrowsByDelivery(e) ==
  \/ attempts'[e] = attempts[e]
  \/ /\ attempts'[e] = attempts[e] + 1 /\ attempts[e] < MaxAttempts
     /\ DeliverWhileAway(e) \/ \E h \in Handlers : Deliver(e, h)

AwaitedByDelivery(e) ==
  hookdeck'[e] = "delivering" =>
    \/ hookdeck[e] = "delivering" /\ attempts'[e] = attempts[e]
    \/ \E h \in Handlers : Deliver(e, h)

ActiveByDelivery(h) ==
  pc'[h] # "idle" =>
    \/ /\ pc[h] # "idle" /\ req'[h] = req[h]
       /\ pc'[h] = "reading" => pc[h] = "reading"
    \/ \E e \in Events : Deliver(e, h) \/ DeliverCopy(e, h)

BegunByHandler(e, row) ==
  \E h \in Handlers :
    /\ phase = "serving" /\ pc[h] = "reading" /\ pc'[h] # "reading" /\ req[h].event = e
    /\ row = BeginRow(mem[e], Header(req[h]), instance)

VersionsByBegin(e) ==
  \A row \in Versions(e)' :
    \/ row \in Versions(e) \/ row = NoRow \/ BegunByHandler(e, row)
    \/ phase # "down" /\ row.attempt = mem[e].attempt

MemoryByBegin(e) ==
  \/ mem'[e].attempt = mem[e].attempt \/ phase # "serving" \/ phase' # "serving"
  \/ BegunByHandler(e, mem'[e])

NumbersKept == /\ \A e \in Events : GrowsByDelivery(e) /\ AwaitedByDelivery(e)
               /\ \A e \in Events : VersionsByBegin(e) /\ MemoryByBegin(e)
               /\ \A h \in Handlers : ActiveByDelivery(h)

LEMMA RowsNumberedStep ==
  ASSUME TypeInv, TypeInv', RequestsAreNumbered, RowsAreNumbered, NumbersKept
  PROVE  RowsAreNumbered'
<1> SUFFICES ASSUME NEW e \in Events \ Headerless, NEW row, row \in Versions(e)'
             PROVE  row.attempt <= attempts'[e]
  BY DEF RowsAreNumbered
<1>1. attempts[e] \in Nat /\ attempts'[e] \in Nat /\ attempts'[e] >= attempts[e]
  <2>1. attempts[e] \in Nat /\ GrowsByDelivery(e)
    BY DEF NumbersKept, TypeInv, TypeOK
  <2>2. attempts'[e] \in {attempts[e], attempts[e] + 1}
    BY <2>1 DEF GrowsByDelivery
  <2> QED
    BY <2>1, <2>2
<1>2. ASSUME NEW r \in Versions(e)
      PROVE  r.attempt \in Nat /\ r.attempt <= attempts[e]
  <2>1. r \in Rows \cup {NoRow}
    BY VersionType
  <2> QED
    BY <2>1 DEF RowsAreNumbered, Rows, NoRow
<1>3. CASE row \in Versions(e)
  BY <1>1, <1>2, <1>3
<1>4. CASE row = NoRow
  BY <1>1, <1>4 DEF NoRow
<1>5. CASE BegunByHandler(e, row)
  <2>1. PICK h \in Handlers : /\ phase = "serving" /\ pc[h] = "reading" /\ req[h].event = e
                              /\ row = BeginRow(mem[e], Header(req[h]), instance)
    BY <1>5 DEF BegunByHandler
  <2>2. phase # "down" /\ pc[h] # "idle" /\ req[h].attempt \in 1 .. attempts[e]
    BY <2>1 DEF RequestsAreNumbered
  <2>3. mem[e].attempt \in Nat /\ mem[e].attempt <= attempts[e]
    BY <1>2, <2>2 DEF Versions
  <2>4. /\ row.attempt \in Nat /\ row.attempt >= mem[e].attempt
        /\ row.attempt = mem[e].attempt \/ row.attempt <= req[h].attempt
    BY <2>1, <2>2, BeginAttempt
  <2> QED
    BY <1>1, <2>2, <2>3, <2>4
<1>6. CASE phase # "down" /\ row.attempt = mem[e].attempt
  BY <1>1, <1>2, <1>6 DEF Versions
<1> QED
  BY <1>3, <1>4, <1>5, <1>6 DEF NumbersKept, VersionsByBegin

LEMMA NumbersStep ==
  ASSUME TypeInv, TypeInv', ServesAlone, ServesAlone', AttemptInv, NumbersKept
  PROVE  AttemptInv'
<1> USE DEF AttemptInv
<1>2. \A e \in Events : /\ attempts[e] \in Nat /\ attempts'[e] \in Nat
                        /\ attempts'[e] \in {attempts[e], attempts[e] + 1}
  BY DEF NumbersKept, GrowsByDelivery, TypeInv, TypeOK
<1>3. AttemptsAreBounded'
  BY <1>2, DeliveryAssumption DEF AttemptsAreBounded, NumbersKept, GrowsByDelivery
<1>4. ASSUME NEW e \in Events, NEW h \in Handlers, Deliver(e, h) \/ DeliverCopy(e, h)
      PROVE  /\ pc[h] = "idle" /\ req'[h].event = e /\ req'[h].attempt = attempts'[e]
             /\ attempts'[e] >= 1 /\ attempts'[e] \in Nat
             /\ \A g \in Handlers : g # h => req'[g] = req[g] /\ pc'[g] = pc[g]
             /\ mem' = mem /\ phase # "down" /\ phase' = phase
  BY <1>2, <1>4 DEF Deliver, DeliverCopy, hookdeckVars, ledgerVars, processVars, TypeInv,
    TypeOK
<1>5. RequestsAreNumbered'
  <2> SUFFICES ASSUME NEW h \in Handlers, pc'[h] # "idle"
               PROVE  req'[h].attempt \in 1 .. attempts'[req'[h].event]
    BY DEF RequestsAreNumbered
  <2>1. ASSUME NEW e \in Events, Deliver(e, h) \/ DeliverCopy(e, h)
        PROVE  req'[h].attempt \in 1 .. attempts'[req'[h].event]
    BY <1>4, <2>1
  <2>2. CASE pc[h] # "idle" /\ req'[h] = req[h]
    <3>1. req[h].event \in Events /\ req[h].attempt \in 1 .. attempts[req[h].event]
      BY <2>2 DEF RequestsAreNumbered, TypeInv, HasRequest, Requests
    <3> QED
      BY <1>2, <2>2, <3>1
  <2> QED
    BY <2>1, <2>2 DEF NumbersKept, ActiveByDelivery
<1>6. RowsAreNumbered'
  BY RowsNumberedStep
<1>7. AwaitedIsNewest'
  <2> SUFFICES ASSUME NEW h \in Handlers, pc'[h] # "idle", NEW e \in Events,
                      req'[h].event = e, ~req'[h].copy, hookdeck'[e] = "delivering",
                      attempts'[e] = req'[h].attempt
               PROVE  /\ pc'[h] = "reading" /\ e \notin Headerless =>
                           mem'[e].attempt < attempts'[e]
                      /\ \A g \in Handlers :
                           g # h /\ pc'[g] # "idle" /\ req'[g].event = e =>
                             req'[g].attempt < attempts'[e]
    <3>1. \A h \in Handlers : pc'[h] # "idle" => req'[h].event \in Events
      BY DEF TypeInv, HasRequest, Requests
    <3> QED
      BY <3>1 DEF AwaitedIsNewest, Awaited
  <2>1. \A g \in Handlers : pc[g] # "idle" /\ req[g].event = e => 
          req[g].attempt \in Nat /\ req[g].attempt <= attempts[e]
    BY DEF RequestsAreNumbered, TypeInv, HasRequest, Requests
  <2>2. ASSUME NEW k \in Handlers, Deliver(e, k)
        PROVE  /\ pc'[h] = "reading" /\ e \notin Headerless =>
                    mem'[e].attempt < attempts'[e]
               /\ \A g \in Handlers :
                    g # h /\ pc'[g] # "idle" /\ req'[g].event = e =>
                      req'[g].attempt < attempts'[e]
    <3>1. attempts'[e] = attempts[e] + 1
      BY <2>2 DEF Deliver, TypeInv, TypeOK
    <3>2. h = k
      <4> SUFFICES ASSUME h # k PROVE FALSE
        OBVIOUS
      <4>1. req'[h] = req[h] /\ pc'[h] = pc[h]
        BY <1>4, <2>2
      <4>2. req[h].attempt <= attempts[e] /\ req[h].attempt = attempts[e] + 1
        BY <2>1, <3>1, <4>1
      <4> QED
        BY <1>2, <4>2
    <3>3. \A g \in Handlers : g # h /\ pc'[g] # "idle" /\ req'[g].event = e =>
            req'[g].attempt < attempts'[e]
      BY <1>2, <1>4, <2>1, <2>2, <3>1, <3>2
    <3>4. e \notin Headerless => mem[e].attempt <= attempts[e] /\ mem[e].attempt \in Nat
      BY <1>4, <2>2 DEF RowsAreNumbered, Versions, TypeInv, TypeOK, Rows, NoRow
    <3> QED
      BY <1>2, <1>4, <2>2, <3>1, <3>3, <3>4
  <2>3. CASE hookdeck[e] = "delivering" /\ attempts'[e] = attempts[e]
    <3>1. ASSUME NEW g \in Handlers, pc'[g] # "idle", req'[g].event = e
          PROVE  /\ pc[g] # "idle" /\ req'[g] = req[g]
                 /\ pc'[g] = "reading" => pc[g] = "reading"
      <4>1. ASSUME NEW f \in Events, Deliver(f, g) \/ DeliverCopy(f, g)
            PROVE  FALSE
        <5>1. f = e
          BY <1>4, <3>1, <4>1
        <5> QED
          BY <2>3, <4>1, <5>1 DEF Deliver, DeliverCopy
      <4> QED
        BY <3>1, <4>1 DEF NumbersKept, ActiveByDelivery
    <3>2. pc[h] # "idle" /\ Awaited(req[h]) /\ req[h].event = e /\ req'[h] = req[h]
      BY <2>3, <3>1 DEF Awaited
    <3>3. \A g \in Handlers : g # h /\ pc[g] # "idle" /\ req[g].event = e =>
            req[g].attempt < attempts[e]
      BY <3>2 DEF AwaitedIsNewest
    <3>4. \A g \in Handlers : g # h /\ pc'[g] # "idle" /\ req'[g].event = e =>
            req'[g].attempt < attempts'[e]
      BY <2>3, <3>1, <3>3
    <3>5. ASSUME pc'[h] = "reading", e \notin Headerless
          PROVE  mem'[e].attempt < attempts'[e]
      <4>1. pc[h] = "reading" /\ mem[e].attempt < attempts[e]
        BY <3>1, <3>2, <3>5 DEF AwaitedIsNewest
      <4>2. phase = "serving" /\ phase' = "serving"
        BY <3>2, <3>5 DEF ServesAlone
      <4>3. mem[e] \in Rows \cup {NoRow} /\ mem[e].attempt \in Nat
        BY DEF TypeInv, TypeOK, Rows, NoRow
      <4>4. CASE BegunByHandler(e, mem'[e])
        <5>1. PICK g \in Handlers : /\ pc[g] = "reading" /\ pc'[g] # "reading"
                                    /\ req[g].event = e
                                    /\ mem'[e] = BeginRow(mem[e], Header(req[g]), instance)
          BY <4>4 DEF BegunByHandler
        <5>2. g # h /\ pc[g] # "idle" /\ req[g].attempt < attempts[e]
          BY <3>3, <3>5, <5>1
        <5>3. req[g].attempt >= 1 /\ req[g].attempt \in Nat
          BY <2>1, <5>1, <5>2 DEF RequestsAreNumbered
        <5>4. /\ mem'[e].attempt \in Nat
              /\ mem'[e].attempt = mem[e].attempt \/ mem'[e].attempt <= req[g].attempt
          BY <3>5, <5>1, <5>2, <5>3, BeginAttempt
        <5> QED
          BY <1>2, <2>3, <4>1, <4>3, <5>2, <5>3, <5>4
      <4> QED
        BY <2>3, <4>1, <4>2, <4>4 DEF NumbersKept, MemoryByBegin
    <3> QED
      BY <3>4, <3>5
  <2> QED
    BY <2>2, <2>3 DEF NumbersKept, AwaitedByDelivery
<1> QED
  BY <1>3, <1>5, <1>6, <1>7

LEMMA AttemptsStep == TypeInv /\ QueueInv /\ AttemptInv /\ [Next]_vars => AttemptInv'
<1> SUFFICES ASSUME TypeInv, QueueInv, AttemptInv, [Next]_vars
             PROVE  AttemptInv'
  OBVIOUS
<1>1. TypeInv' /\ ServesAlone /\ ServesAlone'
  BY TypeStep, QueueStep DEF QueueInv
<1>2. ASSUME NEW e \in Events, NEW row, BeginsRow(e, row)
      PROVE  BegunByHandler(e, row)
  <2>1. PICK h \in Handlers : /\ Handler(h) /\ Begins(h) /\ req[h].event = e
                              /\ row = BeginRow(mem[e], Header(req[h]), instance)
    BY <1>2 DEF BeginsRow
  <2>2. phase = "serving" /\ pc[h] = "reading" /\ pc'[h] = "beginning"
    BY <2>1, HandlerShape DEF Begins, Admit, TypeInv, TypeOK
  <2> QED
    BY <2>1, <2>2 DEF BegunByHandler
<1>3. ASSUME NEW e \in Events, NEW row, SettlesRow(e, row)
      PROVE  phase # "down" /\ row.attempt = mem[e].attempt
  <2>1. phase # "down" /\ mem[e] \in Rows
    BY <1>3, HandlerShape DEF SettlesRow, SettlesOrphan, SettleOrphan, TypeInv, TypeOK
  <2>2. row.attempt = mem[e].attempt
    BY <1>3, <2>1 DEF SettlesRow, SettlesOrphan, SettleRow, Rows
  <2> QED
    BY <2>1, <2>2
<1>4. \A e \in Events : GrowsByDelivery(e) /\ AwaitedByDelivery(e)
  BY AttemptsGrow, DeliveringStep DEF GrowsByDelivery, AwaitedByDelivery
<1>5. \A e \in Events : VersionsByBegin(e)
  BY <1>2, <1>3, VersionStep DEF VersionsByBegin, Forgets
<1>6. \A e \in Events : MemoryByBegin(e)
  BY <1>2, <1>3, MemoryStep DEF MemoryByBegin, Crash, Boot
<1>7. \A h \in Handlers : ActiveByDelivery(h)
  BY ActiveStep DEF ActiveByDelivery
<1> QED
  BY <1>1, <1>4, <1>5, <1>6, <1>7, NumbersStep DEF NumbersKept

(***************************************************************************)
(* Nothing is lost silently.  A running row no handler works on is one the *)
(* past left behind: it is on disk as it is in memory and nothing queued   *)
(* will overwrite it, so that it stays for the next boot to recover.       *)
(***************************************************************************)
Orphaned(e) == mem[e].status = "running" /\ e \notin inFlight

OrphansAreOnDisk == \A e \in Events : Orphaned(e) => disk[e] = mem[e] /\ Quiet(e)

\* Only work that was done is recorded as such.
SuccessIsWork ==
  \A e \in Events : \A row \in Versions(e) :
    row.status # "exhausted" /\ (row.status = "succeeded" => e \in completed)

FailingRetries == \A h \in Handlers : pc[h] = "failing" => answer[h] = "retry"

\* The answer that retires the attempt Hookdeck awaits.
OkIsEarned ==
  \A h \in Handlers :
    pc[h] \in {"settling", "answered"} /\ answer[h] = "ok" /\ Awaited(req[h]) =>
      \/ req[h].event \in completed \cup Filtered
      \/ req[h].event \in Headerless /\ Orphaned(req[h].event)

\* What the reconciliation settles has been handed over.
OrphanIsHandedOver ==
  /\ phase # "booting" => step = "next"
  /\ step \in {"settle", "settling"} =>
       \/ current \in deadLetter
       \/ /\ <<current, mem[current].attempt>> \in requeued
          /\ hookdeck[current] # "acknowledged"

RetiredIsKept ==
  \A e \in Events :
    hookdeck[e] = "acknowledged" =>
      \/ e \in completed \cup Filtered \cup deadLetter
      \/ /\ e \in Headerless /\ disk[e].status = "running"
         /\ phase # "down" /\ persistence = "active" => Orphaned(e)

LossInv == /\ OrphansAreOnDisk
           /\ SuccessIsWork
           /\ FailingRetries
           /\ OkIsEarned
           /\ OrphanIsHandedOver
           /\ RetiredIsKept

LEMMA LossStart == Init => LossInv
<1> SUFFICES ASSUME Init PROVE LossInv
  OBVIOUS
<1>1. \A e \in Events : Versions(e) = {NoRow} /\ mem[e] = NoRow
  BY DEF Init, Versions, NoRows
<1>2. /\ \A h \in Handlers : pc[h] = "idle"
      /\ \A e \in Events : hookdeck[e] = "queued"
      /\ step = "next"
  BY DEF Init
<1> QED
  BY <1>1, <1>2 DEF LossInv, OrphansAreOnDisk, SuccessIsWork, FailingRetries, OkIsEarned,
    OrphanIsHandedOver, RetiredIsKept, Orphaned, NoRow

LEMMA SuccessStep ==
  ASSUME TypeInv, QueueInv, SuccessIsWork, [Next]_vars
  PROVE  SuccessIsWork'
<1> SUFFICES ASSUME NEW e \in Events, NEW row, row \in Versions(e)'
             PROVE  row.status # "exhausted" /\ (row.status = "succeeded" => e \in completed')
  BY DEF SuccessIsWork
<1>1. CASE row \in Versions(e)
  BY <1>1, RecordsGrow DEF SuccessIsWork
<1>2. CASE Forgets(e, row)
  BY <1>2 DEF Forgets, NoRow
<1>3. CASE BeginsRow(e, row)
  BY <1>3 DEF BeginsRow, BeginRow
<1>4. CASE SettlesRow(e, row)
  <2>1. mem[e] \in Rows
    BY <1>4 DEF SettlesRow, SettlesOrphan, TypeInv, TypeOK
  <2>2. \A status \in Statuses : SettleRow(mem[e], status).status = status
    BY <2>1 DEF SettleRow, Rows
  <2> QED
    BY <1>4, <2>2 DEF SettlesRow, SettlesOrphan, Settles, Statuses
<1> QED
  BY <1>1, <1>2, <1>3, <1>4, VersionStep

\* A handler's slot is the event it works on.
LEMMA WorkingHolds ==
  ASSUME TypeInv, SlotInv, NEW h \in Handlers, pc[h] \in Working
  PROVE  req[h].event \in inFlight
  BY DEF SlotInv, SlotsAccountedFor

\* The registry gains the event begun and loses the event released.
LEMMA RegistryStep ==
  ASSUME TypeInv, QueueInv, [Next]_vars, NEW e \in inFlight', e \notin inFlight
  PROVE  \E h \in Handlers : Handler(h) /\ Begins(h) /\ req[h].event = e
<1> USE DEF handlerVars
<1>1. CASE External \/ Store \/ Boot \/ UNCHANGED vars
  BY <1>1 DEF External, HookdeckActs, Deliver, DeliverCopy, DeliverWhileAway,
    AttemptTimesOut, ManualRetry, Crash, Store, WriteDone, WriteFails, Boot, vars
<1>2. CASE Reconcile
  BY <1>2 DEF Reconcile, RecordSkipped, RetryAccepted, RetryRefused,
    RecordRefused, SettleOrphan, OrphanSettled, Serve
<1>3. ASSUME NEW h \in Handlers, Handler(h)
      PROVE  Begins(h) /\ req[h].event = e
  BY <1>3 DEF Handler, Pipeline, RejectEarly, TurnAway, Admit, SettleAfterThrow, Release,
    RecordDeadLetter, Respond, Dispatch, DispatchReturns, DispatchThrows, Begins, Begin
<1> QED
  BY <1>1, <1>2, <1>3 DEF Next

\* An orphaned row turns away whoever comes without an attempt number ...
LEMMA OrphanIsLeft ==
  ASSUME TypeInv, QueueInv, SlotInv, NEW e \in Headerless, Orphaned(e),
         NEW h \in Handlers, Handler(h), req[h].event = e
  PROVE  UNCHANGED <<mem, writes>> /\ ~Begins(h)
<1>1. ASSUME Begins(h)
      PROVE  FALSE
  <2>1. Verdict(req[h], TRUE) = "begin" /\ Header(req[h]) = NoAttempt
    BY <1>1 DEF Begins, Admit, Header
  <2>2. Admits(mem[e], NoAttempt) /\ PlausibleAttempt(NoAttempt) = NoAttempt
    BY <2>1, PlausibleAssumption DEF Verdict, PlausibleAttempt, NoAttempt
  <2> QED
    BY <2>2 DEF Orphaned, Admits, AdmitReasons, DecideAdmission, RejectReason, NoRow
<1>2. ASSUME NEW status \in {"succeeded", "failed"}, Settles(h, status)
      PROVE  FALSE
  BY <1>2, WorkingHolds DEF Settles, Working, Orphaned
<1> QED
  BY <1>1, <1>2, HandlerShape

\* ... so that only the reconciliation settles it, unless the process dies.
LEMMA OrphanStays ==
  ASSUME LedgerInv, [Next]_vars, NEW e \in Headerless, Orphaned(e)
  PROVE  \/ Crash
         \/ Boot
         \/ SettleOrphan /\ current = e
         \/ Orphaned(e)' /\ mem'[e] = mem[e]
<1>0. TypeInv /\ QueueInv /\ SlotInv /\ e \in Events
  BY DeliveryAssumption DEF LedgerInv
<1>1. ~Crash /\ ~Boot /\ ~(SettleOrphan /\ current = e) => mem'[e] = mem[e]
  BY <1>0, OrphanIsLeft, MemoryStep DEF BeginsRow, SettlesRow, SettlesOrphan
<1>2. e \notin inFlight'
  BY <1>0, OrphanIsLeft, RegistryStep DEF Orphaned
<1> QED
  BY <1>1, <1>2 DEF Orphaned

\* A row nothing is queued for stays on disk until somebody puts it again.
LEMMA QuietStays ==
  ASSUME TypeInv, QueueInv, [Next]_vars, NEW e \in Events, Quiet(e), disk[e] = mem[e],
         ~(SettleOrphan /\ current = e),
         \A h \in Handlers : Handler(h) /\ req[h].event = e => UNCHANGED <<mem, writes>>
  PROVE  Quiet(e)' /\ disk'[e] = disk[e]
<1>0. /\ writes \in Seq(Jobs) /\ disk \in [Events -> Rows \cup {NoRow}]
      /\ \A i \in DOMAIN writes : writes[i].event # e
  BY DEF TypeInv, TypeOK, Quiet
<1>1. CASE UNCHANGED <<disk, writes>>
  BY <1>1 DEF Quiet
<1>2. CASE Crash
  <2>1. \A i \in DOMAIN writes : Applied(writes[i])[e] = disk[e]
    BY <1>0 DEF Applied
  <2> QED
    BY <1>0, <1>2, <2>1 DEF Crash, Quiet
<1>3. CASE WriteDone \/ WriteFails
  <2>1. /\ writes # <<>> /\ writes' \in {Tail(writes), <<>>}
        /\ disk' \in {disk, mem, Applied(Head(writes))}
    BY <1>3 DEF WriteDone, WriteFails
  <2>2. /\ Head(writes) = writes[1] /\ 1 \in DOMAIN writes
        /\ \A i \in DOMAIN writes' : i + 1 \in DOMAIN writes /\ writes'[i] = writes[i + 1]
    BY <1>0, <2>1
  <2>3. disk'[e] = disk[e]
    BY <1>0, <2>1, <2>2 DEF Applied
  <2> QED
    BY <1>0, <2>2, <2>3 DEF Quiet
<1>4. ASSUME NEW f \in Events, f # e, NEW row, NEW by, Put(f, row, by), disk' = disk
      PROVE  Quiet(e)' /\ disk'[e] = disk[e]
  <2>1. CASE writes' = writes
    BY <1>4, <2>1 DEF Quiet
  <2>2. CASE writes' = Append(writes, [event |-> f, row |-> row, by |-> by])
    BY <1>0, <1>4, <2>2 DEF Quiet
  <2> QED
    BY <1>4, <2>1, <2>2 DEF Put
<1>5. CASE SettleOrphan
  <2>1. Settle(current, "failed", "boot") /\ current \in Events /\ current # e /\ disk' = disk
    BY <1>5 DEF SettleOrphan, TypeInv, HasOrphan
  <2> QED
    BY <1>1, <1>4, <2>1 DEF Settle
<1>6. ASSUME NEW h \in Handlers, Handler(h), req[h].event # e
      PROVE  Quiet(e)' /\ disk'[e] = disk[e]
  <2>1. disk' = disk /\ req[h].event \in Events
    BY <1>6, HandlerShape
  <2>2. CASE Begins(h)
    BY <1>4, <1>6, <2>1, <2>2 DEF Begins
  <2>3. ASSUME NEW status \in {"succeeded", "failed"}, Settles(h, status)
        PROVE  Quiet(e)' /\ disk'[e] = disk[e]
    BY <1>1, <1>4, <1>6, <2>1, <2>3 DEF Settles, Settle
  <2> QED
    BY <1>1, <1>6, <2>1, <2>2, <2>3, HandlerShape
<1>7. ASSUME NEW h \in Handlers, Handler(h), req[h].event = e
      PROVE  Quiet(e)' /\ disk'[e] = disk[e]
  BY <1>1, <1>7, HandlerShape
<1>8. CASE External \/ Boot \/ UNCHANGED vars
  BY <1>1, <1>2, <1>8 DEF External, HookdeckActs, Deliver, DeliverCopy, DeliverWhileAway,
    AttemptTimesOut, ManualRetry, Boot, ledgerVars, vars
<1>9. CASE Reconcile
  BY <1>1, <1>5, <1>9 DEF Reconcile, RecordSkipped, RetryAccepted, RetryRefused,
    RecordRefused, OrphanSettled, Serve, ledgerVars
<1> QED
  BY <1>3, <1>6, <1>7, <1>8, <1>9 DEF Next, Store

\* The slot of a running row is kept until the row is settled.
LEMMA SlotStays ==
  ASSUME LedgerInv, LedgerInv', [Next]_vars, NEW e \in inFlight, mem[e].status = "running",
         e \notin inFlight', mem'[e].status = "running"
  PROVE  FALSE
<1>0. TypeInv /\ QueueInv /\ SlotInv /\ RowInv /\ SlotInv'
  BY DEF LedgerInv
<1>1. PICK h \in Handlers : pc[h] \in Working /\ req[h].event = e
  BY <1>0 DEF SlotInv, SlotsAccountedFor
<1>2. Begun(h)
  BY <1>0, <1>1 DEF RowInv, SettledRests, Working, Begun
<1>3. ~(pc'[h] \in Working /\ req'[h] = req[h])
  BY <1>0, <1>1 DEF SlotInv, SlotsAccountedFor
<1>4. ~Handler(h)
  <2>1. ASSUME Handler(h), UNCHANGED <<mem, writes>>, pc[h] # "dispatching",
               pc'[h] = "dispatching" <=> pc[h] = "beginning",
               req'[h] = req[h] \/ pc'[h] = "idle"
        PROVE  FALSE
    BY <1>2, <1>3, <2>1 DEF Begun, Working
  <2>2. ~Begins(h)
    BY <1>2 DEF Begins, Admit, Begun
  <2>3. ASSUME Handler(h), NEW status \in {"succeeded", "failed"}, Settles(h, status)
        PROVE  FALSE
    BY <1>0, <1>1, <2>3, OwnRow
  <2> QED
    BY <1>0, <2>1, <2>2, <2>3, HandlerShape
<1>5. ~Crash
  BY <1>0 DEF Crash, NoRows, NoRow, SlotInv, SlotsAccountedFor, TypeInv, TypeOK
<1>6. pc'[h] = pc[h] /\ req'[h] = req[h]
  <2>1. ASSUME NEW g \in Handlers, Handler(g)
        PROVE  pc'[h] = pc[h] /\ req'[h] = req[h]
    BY <1>0, <1>4, <2>1, HandlerShape
  <2>2. CASE \A g \in Handlers : ~Handler(g)
    BY <1>0, <1>1, <1>5, <2>2 DEF Next, External, HookdeckActs, Deliver, DeliverCopy,
      DeliverWhileAway, AttemptTimesOut, ManualRetry, Store, WriteDone, WriteFails, Boot,
      Reconcile, RecordSkipped, RetryAccepted, RetryRefused, RecordRefused, SettleOrphan,
      OrphanSettled, Serve, handlerVars, vars, Working, TypeInv, TypeOK
  <2> QED
    BY <2>1, <2>2
<1> QED
  BY <1>1, <1>3, <1>6

LEMMA OrphansStep ==
  ASSUME LedgerInv, OrphansAreOnDisk, [Next]_vars
  PROVE  OrphansAreOnDisk'
<1> SUFFICES ASSUME NEW e \in Events, mem'[e].status = "running", e \notin inFlight'
             PROVE  disk'[e] = mem'[e] /\ Quiet(e)'
  BY DEF OrphansAreOnDisk, Orphaned
<1>0. /\ TypeInv /\ QueueInv /\ SlotInv /\ RowInv /\ LedgerInv'
      /\ mem \in [Events -> Rows \cup {NoRow}]
  BY LedgerStep DEF LedgerInv, TypeInv, TypeOK
<1>1. ~Crash
  BY DEF Crash, NoRows, NoRow
<1>2. CASE Boot
  BY <1>0, <1>2 DEF Boot, NoRows, NoRow, QueueInv, NothingQueued, Quiet
<1>3. ~BeginsRow(e, mem'[e])
  BY DEF BeginsRow, Begins, Admit
<1>4. ASSUME NEW h \in Handlers, NEW status \in {"succeeded", "failed"}, Handler(h),
             Settles(h, status), req[h].event = e
      PROVE  FALSE
  BY <1>0, <1>4, OwnRow
<1>5. ASSUME SettleOrphan, current = e
      PROVE  FALSE
  <2>1. mem[e] \in Rows => SettleRow(mem[e], "failed").status = "failed"
    BY DEF SettleRow, Rows
  <2> QED
    BY <1>0, <1>5, <2>1 DEF SettleOrphan, Settle, Put, NoRow
<1>6. CASE mem'[e] = mem[e] /\ ~Boot
  <2>1. Orphaned(e)
    BY <1>0, <1>6, SlotStays DEF Orphaned
  <2>2. disk[e] = mem[e] /\ Quiet(e)
    BY <2>1 DEF OrphansAreOnDisk
  <2>3. \A h \in Handlers : Handler(h) /\ req[h].event = e => UNCHANGED <<mem, writes>>
    <3>1. ASSUME NEW h \in Handlers, Handler(h), req[h].event = e, Begins(h)
          PROVE  FALSE
      BY <3>1 DEF Begins, Admit
    <3> QED
      BY <1>0, <1>4, <3>1, HandlerShape
  <2> QED
    BY <1>0, <1>5, <1>6, <2>2, <2>3, QuietStays
<1> QED
  BY <1>0, <1>1, <1>2, <1>3, <1>4, <1>5, <1>6, MemoryStep DEF SettlesRow, SettlesOrphan

LEMMA FailingStep ==
  ASSUME TypeInv, QueueInv, FailingRetries, [Next]_vars
  PROVE  FailingRetries'
<1> SUFFICES ASSUME NEW h \in Handlers, pc'[h] = "failing"
             PROVE  answer'[h] = "retry"
  BY DEF FailingRetries
<1>1. CASE Handler(h)
  BY <1>1 DEF Handler, Pipeline, RejectEarly, TurnAway, Admit, SettleAfterThrow, Release,
    RecordDeadLetter, Respond, Dispatch, DispatchReturns, DispatchThrows, TypeInv, TypeOK
<1>2. ASSUME NEW g \in Handlers, Handler(g), g # h
      PROVE  pc'[h] = pc[h] /\ answer'[h] = answer[h]
  BY <1>2, HandlerShape
<1>3. CASE \A g \in Handlers : ~Handler(g)
  BY <1>3, HandlersElsewhere DEF FailingRetries
<1> QED
  BY <1>1, <1>2, <1>3 DEF FailingRetries

\* The attempt Hookdeck awaits is let through unless its work was done, or the
\* delivery carries no number and a running row stands for it.
LEMMA AwaitedIsAdmitted ==
  ASSUME MaxAttempts <= MaxPlausibleAttempt, TypeInv, SuccessIsWork, AttemptInv,
         NEW h \in Handlers, pc[h] = "reading", Awaited(req[h]), phase # "down",
         NEW e \in Events, req[h].event = e, e \notin inFlight,
         ~Admits(mem[e], Header(req[h]))
  PROVE  e \in completed \/ (e \in Headerless /\ Orphaned(e))
<1>1. /\ mem[e] \in Rows \cup {NoRow} /\ mem[e].attempt \in Nat /\ attempts[e] \in Nat
      /\ req[h].attempt = attempts[e] /\ MaxAttempts \in Nat /\ attempts[e] <= MaxAttempts
  BY DeliveryAssumption DEF TypeInv, TypeOK, Rows, NoRow, Awaited, AttemptInv, AttemptsAreBounded
<1>2. mem[e] # NoRow
  BY DEF Admits, AdmitReasons, DecideAdmission
<1>3. CASE e \notin Headerless
  <2>1. Header(req[h]) = attempts[e] /\ mem[e].attempt < attempts[e]
    BY <1>1, <1>3 DEF Header, AttemptInv, AwaitedIsNewest
  <2>2. /\ PlausibleAttempt(Header(req[h])) = attempts[e]
        /\ attempts[e] # NoAttempt /\ attempts[e] > mem[e].attempt
    BY <1>1, <2>1, PlausibleAssumption DEF PlausibleAttempt, NoAttempt
  <2> QED
    BY <1>2, <2>2 DEF Admits, AdmitReasons, DecideAdmission
<1>4. CASE e \in Headerless
  <2>1. Header(req[h]) = NoAttempt /\ PlausibleAttempt(NoAttempt) = NoAttempt
    BY <1>4, PlausibleAssumption DEF Header, PlausibleAttempt, NoAttempt
  <2>2. mem[e].status # "failed"
    BY <1>2, <2>1 DEF Admits, AdmitReasons, DecideAdmission
  <2>3. /\ mem[e].status # "exhausted"
        /\ mem[e].status = "succeeded" => e \in completed
    BY DEF SuccessIsWork, Versions
  <2> QED
    BY <1>1, <1>2, <1>4, <2>2, <2>3 DEF Rows, Statuses, Orphaned
<1> QED
  BY <1>3, <1>4

LEMMA OkStep ==
  ASSUME MaxAttempts <= MaxPlausibleAttempt, LedgerInv, AttemptInv, LossInv, [Next]_vars
  PROVE  OkIsEarned'
<1>0. /\ TypeInv /\ QueueInv /\ RequestsAreNumbered /\ SuccessIsWork /\ FailingRetries
      /\ OkIsEarned /\ TypeInv'
  BY LedgerStep DEF LedgerInv, AttemptInv, LossInv
<1> SUFFICES ASSUME NEW h \in Handlers, pc'[h] \in {"settling", "answered"},
                    answer'[h] = "ok", NEW e \in Events, req'[h].event = e,
                    ~req'[h].copy, hookdeck'[e] = "delivering",
                    attempts'[e] = req'[h].attempt
             PROVE  \/ e \in completed' \cup Filtered
                    \/ e \in Headerless /\ Orphaned(e)'
  <2>1. \A h \in Handlers : pc'[h] # "idle" => req'[h].event \in Events
    BY <1>0 DEF TypeInv, HasRequest, Requests
  <2> QED
    BY <2>1 DEF OkIsEarned, Awaited, Orphaned
<1>1. pc[h] # "idle" /\ req'[h] = req[h] /\ req[h].event = e
  BY <1>0, ActiveStep DEF Deliver, DeliverCopy, TypeInv, TypeOK
<1>2. Awaited(req[h])
  <2>1. req[h].attempt \in Nat /\ req[h].attempt <= attempts[e]
    BY <1>0, <1>1 DEF RequestsAreNumbered, TypeInv, HasRequest, Requests
  <2>2. ASSUME NEW k \in Handlers, Deliver(e, k)
        PROVE  FALSE
    <3>1. attempts'[e] = attempts[e] + 1 /\ attempts[e] \in Nat
      BY <1>0, <2>2 DEF Deliver, TypeInv, TypeOK
    <3> QED
      BY <1>1, <2>1, <3>1
  <2> QED
    BY <1>0, <1>1, <2>2, DeliveringStep DEF Awaited
<1>3. phase = "serving" /\ ~Crash /\ ~Boot /\ ~SettleOrphan
  BY <1>0, <1>1 DEF QueueInv, ServesAlone, Crash, Boot, SettleOrphan
<1>4. ASSUME e \in completed \cup Filtered \/ (e \in Headerless /\ Orphaned(e))
      PROVE  \/ e \in completed' \cup Filtered
             \/ e \in Headerless /\ Orphaned(e)'
  BY <1>3, <1>4, RecordsGrow, OrphanStays
<1>5. ASSUME answer[h] = "ok", pc[h] \in {"settling", "answered"}
      PROVE  e \in completed \cup Filtered \/ (e \in Headerless /\ Orphaned(e))
  BY <1>0, <1>1, <1>2, <1>5 DEF OkIsEarned
<1>6. CASE ~Handler(h)
  <2>1. ASSUME NEW g \in Handlers, Handler(g)
        PROVE  pc'[h] = pc[h] /\ answer'[h] = answer[h]
    BY <1>0, <1>6, <2>1, HandlerShape
  <2>2. ASSUME \A g \in Handlers : ~Handler(g)
        PROVE  pc'[h] = pc[h] /\ answer'[h] = answer[h]
    BY <1>0, <2>2, HandlersElsewhere
  <2> QED
    BY <1>4, <1>5, <2>1, <2>2
<1>7. CASE RejectEarly(h)
  BY <1>0, <1>7, DeliveryAssumption DEF RejectEarly, Unverified, TypeInv, TypeOK
<1>8. CASE TurnAway(h, TRUE)
  <2>1. pc[h] = "reading" /\ Verdict(req[h], TRUE) = "ok"
    BY <1>0, <1>8 DEF TurnAway, TypeInv, TypeOK
  <2>2. e \notin inFlight
    BY <1>1, <2>1 DEF Verdict
  <2>3. ~Admits(mem[e], Header(req[h])) \/ e \in Filtered
    BY <1>1, <2>1 DEF Verdict
  <2> QED
    BY <1>0, <1>1, <1>2, <1>3, <1>4, <2>1, <2>2, <2>3, AwaitedIsAdmitted
<1>9. ASSUME NEW a \in Answers, DispatchReturns(h, a)
      PROVE  e \in completed'
  BY <1>0, <1>1, <1>9 DEF DispatchReturns, TypeInv, TypeOK
<1>10. CASE SettleAfterThrow(h)
  BY <1>0, <1>10 DEF SettleAfterThrow, FailingRetries
<1>11. CASE Release(h)
  BY <1>4, <1>5, <1>11 DEF Release
<1>12. CASE \/ Admit(h, TRUE) \/ Dispatch(h) \/ DispatchThrows(h)
            \/ RecordDeadLetter(h) \/ Respond(h)
  BY <1>0, <1>12 DEF Admit, Dispatch, DispatchThrows, RecordDeadLetter, Respond,
    TypeInv, TypeOK
<1> QED
  BY <1>6, <1>7, <1>8, <1>9, <1>10, <1>11, <1>12 DEF Handler, Pipeline

LEMMA HandoverElsewhere ==
  ASSUME TypeInv, ServesAlone, OrphanIsHandedOver, Elsewhere
  PROVE  OrphanIsHandedOver'
<1>1. /\ [Next]_vars /\ deadLetter \subseteq deadLetter' /\ requeued \subseteq requeued'
      /\ hookdeck \in [Events -> HookdeckStates] /\ mem \in [Events -> Rows \cup {NoRow}]
      /\ step # "next" => current \in Events
  BY RecordsGrow DEF TypeInv, TypeOK, HasOrphan, Elsewhere, Next
<1>2. ASSUME UNCHANGED <<phase, step, current, mem>>, phase = "booting"
      PROVE  OrphanIsHandedOver'
  <2>1. ~\E h \in Handlers : Respond(h)
    BY <1>2 DEF ServesAlone, Respond
  <2>2. \A e \in Events : hookdeck[e] # "acknowledged" => hookdeck'[e] # "acknowledged"
    BY <1>1, <2>1, HookdeckStep
  <2> QED
    BY <1>1, <1>2, <2>2 DEF OrphanIsHandedOver
<1>3. ASSUME step' = "next"
      PROVE  OrphanIsHandedOver'
  BY <1>3 DEF OrphanIsHandedOver
<1>4. CASE phase # "booting"
  <2>1. step = "next"
    BY <1>4 DEF OrphanIsHandedOver
  <2>2. CASE External \/ Store \/ Boot \/ UNCHANGED vars
    BY <1>3, <2>1, <2>2 DEF External, HookdeckActs, Deliver, DeliverCopy, DeliverWhileAway,
      AttemptTimesOut, ManualRetry, Crash, Store, WriteDone, WriteFails, Boot,
      recoveryVars, vars
  <2>3. ~Reconcile
    BY <1>4 DEF Reconcile, RecordSkipped, RetryAccepted, RetryRefused, RecordRefused,
      SettleOrphan, OrphanSettled, Serve
  <2> QED
    BY <2>2, <2>3 DEF Elsewhere
<1>5. CASE phase = "booting"
  <2>1. CASE External \/ Store \/ UNCHANGED vars
    BY <1>2, <1>3, <1>5, <2>1 DEF External, HookdeckActs, Deliver, DeliverCopy,
      DeliverWhileAway, AttemptTimesOut, ManualRetry, Crash, Store, WriteDone, WriteFails,
      recoveryVars, processVars, ledgerVars, vars
  <2>2. ASSUME NEW e \in Events, RecordSkipped(e)
        PROVE  OrphanIsHandedOver'
    BY <1>5, <2>2 DEF RecordSkipped, OrphanIsHandedOver, processVars
  <2>3. ASSUME NEW e \in Events, NEW reply \in Steps, RetryAccepted(e, reply)
        PROVE  OrphanIsHandedOver'
    BY <1>1, <1>5, <2>3 DEF RetryAccepted, OrphanIsHandedOver, processVars, ledgerVars
  <2>4. ASSUME NEW e \in Events, NEW reply \in Steps, RetryRefused(e, reply)
        PROVE  OrphanIsHandedOver'
    BY <1>5, <2>4 DEF RetryRefused, OrphanIsHandedOver, processVars
  <2>5. CASE RecordRefused
    BY <1>5, <2>5 DEF RecordRefused, OrphanIsHandedOver, processVars
  <2>6. CASE SettleOrphan
    <3>1. /\ step = "settle" /\ current \in Events /\ phase' = phase
          /\ UNCHANGED <<current, hookdeck, deadLetter, requeued>>
          /\ Settle(current, "failed", "boot")
      BY <1>1, <2>6 DEF SettleOrphan, processVars, hookdeckVars, historyVars
    <3>2. mem'[current].attempt = mem[current].attempt
      <4>1. mem[current] # NoRow =>
              SettleRow(mem[current], "failed").attempt = mem[current].attempt
        BY <1>1, <3>1 DEF SettleRow, Rows
      <4> QED
        BY <1>1, <3>1, <4>1 DEF Settle, Put
    <3> QED
      BY <1>5, <3>1, <3>2 DEF OrphanIsHandedOver
  <2>7. CASE OrphanSettled \/ Serve
    BY <1>3, <2>7 DEF OrphanSettled, Serve, recoveryVars
  <2>8. ~Boot
    BY <1>5 DEF Boot
  <2> QED
    BY <2>1, <2>2, <2>3, <2>4, <2>5, <2>6, <2>7, <2>8 DEF Elsewhere, Reconcile
<1> QED
  BY <1>4, <1>5

LEMMA HandoverStep ==
  ASSUME TypeInv, QueueInv, OrphanIsHandedOver, [Next]_vars
  PROVE  OrphanIsHandedOver'
<1>1. ASSUME NEW h \in Handlers, Handler(h)
      PROVE  OrphanIsHandedOver'
  BY <1>1, HandlerShape DEF OrphanIsHandedOver, recoveryVars, processVars
<1> QED
  BY <1>1, HandoverElsewhere DEF Next, Elsewhere, QueueInv

LEMMA RetiredStep ==
  ASSUME LedgerInv, AttemptInv, LossInv, OrphanIsHandedOver', [Next]_vars
  PROVE  RetiredIsKept'
<1>0. /\ TypeInv /\ QueueInv /\ SlotInv /\ RetiredIsKept /\ OkIsEarned
      /\ OrphansAreOnDisk /\ OrphanIsHandedOver
      /\ mem \in [Events -> Rows \cup {NoRow}]
  BY DEF LedgerInv, LossInv, TypeInv, TypeOK
<1>1. deadLetter \subseteq deadLetter' /\ completed \subseteq completed'
  BY RecordsGrow
<1> SUFFICES ASSUME NEW e \in Events, hookdeck'[e] = "acknowledged",
                    e \notin completed' \cup Filtered \cup deadLetter'
             PROVE  /\ e \in Headerless /\ disk'[e].status = "running"
                    /\ phase' # "down" /\ persistence' = "active" => Orphaned(e)'
  BY DEF RetiredIsKept
<1>2. ASSUME Orphaned(e), disk[e] = mem[e], Quiet(e), e \in Headerless,
             ~(SettleOrphan /\ current = e)
      PROVE  /\ disk'[e].status = "running"
             /\ phase' # "down" /\ persistence' = "active" => Orphaned(e)'
  <2>1. \A h \in Handlers : Handler(h) /\ req[h].event = e => UNCHANGED <<mem, writes>>
    BY <1>0, <1>2, OrphanIsLeft
  <2>2. disk'[e] = disk[e]
    BY <1>0, <1>2, <2>1, QuietStays
  <2>3. CASE Crash
    BY <1>2, <2>2, <2>3 DEF Crash, Orphaned
  <2>4. CASE Boot
    <3>1. inFlight' = {}
      BY <1>0, <2>4 DEF Boot, handlerVars, QueueInv, ServesAlone, SlotInv,
        SlotsAccountedFor, Working
    <3> QED
      BY <1>2, <2>2, <2>4, <3>1 DEF Boot, Orphaned
  <2> QED
    BY <1>2, <2>2, <2>3, <2>4, OrphanStays DEF Orphaned
<1>3. CASE hookdeck[e] # "acknowledged"
  <2>1. PICK h \in Handlers :
          /\ Respond(h) /\ Awaited(req[h]) /\ req[h].event = e
          /\ Reaction(e, answer[h]) = "acknowledged"
    BY <1>0, <1>3, HookdeckStep
  <2>2. answer[h] = "ok" /\ pc[h] = "answered"
    BY <2>1 DEF Reaction, AfterFailure, Respond, Undeliverable
  <2>3. e \in Headerless /\ Orphaned(e)
    BY <1>0, <1>1, <2>1, <2>2 DEF OkIsEarned
  <2>4. ~SettleOrphan
    BY <1>0, <2>2 DEF SettleOrphan, QueueInv, ServesAlone
  <2> QED
    BY <1>0, <1>2, <2>3, <2>4 DEF OrphansAreOnDisk
<1>4. CASE hookdeck[e] = "acknowledged"
  <2>1. /\ e \in Headerless /\ disk[e].status = "running"
        /\ phase # "down" /\ persistence = "active" => Orphaned(e)
    BY <1>0, <1>1, <1>4 DEF RetiredIsKept
  <2>2. CASE phase # "down" /\ persistence = "active"
    <3>1. ~(SettleOrphan /\ current = e)
      <4>1. SettleOrphan => hookdeck' = hookdeck /\ deadLetter' = deadLetter /\ step = "settle"
        BY DEF SettleOrphan, hookdeckVars
      <4> QED
        BY <1>0, <1>4, <4>1 DEF OrphanIsHandedOver
    <3> QED
      BY <1>0, <1>2, <2>1, <2>2, <3>1 DEF OrphansAreOnDisk
  <2>3. CASE phase = "down" \/ persistence = "disabled"
    <3>1. writes = <<>>
      BY <1>0, <2>3 DEF QueueInv, NothingQueued
    <3>2. disk' = disk
      <4>1. ASSUME NEW h \in Handlers, Handler(h)
            PROVE  disk' = disk
        BY <1>0, <4>1, HandlerShape
      <4>2. CASE External \/ Store \/ Boot \/ Reconcile \/ UNCHANGED vars
        BY <3>1, <4>2 DEF External, HookdeckActs, Deliver, DeliverCopy, DeliverWhileAway,
          AttemptTimesOut, ManualRetry, Crash, Store, WriteDone, WriteFails, Boot,
          Reconcile, RecordSkipped, RetryAccepted, RetryRefused, RecordRefused,
          SettleOrphan, OrphanSettled, Serve, ledgerVars, vars
      <4> QED
        BY <4>1, <4>2 DEF Next
    <3>3. CASE Boot
      <4>1. inFlight' = {}
        BY <1>0, <3>3 DEF Boot, handlerVars, QueueInv, ServesAlone, SlotInv,
          SlotsAccountedFor, Working
      <4> QED
        BY <2>1, <3>2, <3>3, <4>1 DEF Boot, Orphaned
    <3>4. CASE ~Boot
      <4>1. phase' = "down" \/ persistence' = "disabled"
        <5>1. ASSUME NEW h \in Handlers, Handler(h)
              PROVE  phase' = phase /\ persistence' = persistence
          BY <1>0, <5>1, HandlerShape DEF processVars
        <5>2. CASE External \/ Store \/ Reconcile \/ UNCHANGED vars
          BY <2>3, <3>1, <5>2 DEF External, HookdeckActs, Deliver, DeliverCopy,
            DeliverWhileAway, AttemptTimesOut, ManualRetry, Crash, Store, WriteDone,
            WriteFails, Reconcile, RecordSkipped, RetryAccepted, RetryRefused,
            RecordRefused, SettleOrphan, OrphanSettled, Serve, processVars, ledgerVars, vars
        <5> QED
          BY <2>3, <3>4, <5>1, <5>2 DEF Next
      <4> QED
        BY <2>1, <3>2, <4>1
    <3> QED
      BY <3>3, <3>4
  <2> QED
    BY <1>0, <2>2, <2>3 DEF TypeInv, TypeOK
<1> QED
  BY <1>3, <1>4

LossLedgerInv == LedgerInv /\ AttemptInv /\ LossInv

LEMMA LossSafety ==
  ASSUME MaxAttempts <= MaxPlausibleAttempt
  PROVE  Spec => []LossLedgerInv
<1>1. Init => LossLedgerInv
  BY LedgerStarts, AttemptsStart, LossStart DEF LossLedgerInv
<1>2. LossLedgerInv /\ [Next]_vars => LossLedgerInv'
  <2> SUFFICES ASSUME LedgerInv, AttemptInv, LossInv, [Next]_vars
               PROVE  LedgerInv' /\ AttemptInv' /\ LossInv'
    BY DEF LossLedgerInv
  <2>1. TypeInv /\ QueueInv /\ LedgerInv' /\ AttemptInv'
    BY LedgerStep, AttemptsStep DEF LedgerInv
  <2>2. SuccessIsWork' /\ OrphansAreOnDisk' /\ FailingRetries' /\ OrphanIsHandedOver'
    BY <2>1, SuccessStep, OrphansStep, FailingStep, HandoverStep DEF LossInv
  <2>3. OkIsEarned' /\ RetiredIsKept'
    BY <2>2, OkStep, RetiredStep
  <2> QED
    BY <2>1, <2>2, <2>3 DEF LossInv
<1> QED
  BY <1>1, <1>2, PTL DEF Spec

\* A retry of work that failed is never answered as a duplicate: the answer
\* that retires the attempt Hookdeck awaits is given when the work was done, the
\* route drops the event, or a running row still stands for it.
THEOREM RetryIsNeverDuplicate ==
  ASSUME MaxAttempts <= MaxPlausibleAttempt
  PROVE  Spec => []RetryIsNoDuplicate
<1>1. LossLedgerInv => RetryIsNoDuplicate
  BY DEF LossLedgerInv, LossInv, OkIsEarned, Orphaned, RetryIsNoDuplicate
<1> QED
  BY <1>1, LossSafety, PTL

\* Whatever crashes, degrades, times out or arrives twice, an event Hookdeck takes for
\* delivered (not one it was told to stop, or gave up on) was handled, was dropped by a filter, has a dead-letter
\* record, or has a running row on disk for the next boot.
THEOREM AcknowledgedStaysTraced ==
  ASSUME MaxAttempts <= MaxPlausibleAttempt
  PROVE  Spec => []AcknowledgedIsTraced
<1>1. LossLedgerInv => AcknowledgedIsTraced
  BY DEF LossLedgerInv, LossInv, RetiredIsKept, AcknowledgedIsTraced
<1> QED
  BY <1>1, LossSafety, PTL

(***************************************************************************)
(* Attempts that ran.  With a disk that works, the number of an attempt    *)
(* that was dispatched is in every version of its row, so that no boot     *)
(* finds a row that would let the attempt through again.                   *)
(***************************************************************************)
RanIsRecorded ==
  \A run \in ran : run[1] \notin Headerless =>
    \A row \in Versions(run[1]) : row.attempt >= run[2]

BegunIsFresh ==
  \A h \in Handlers :
    pc[h] = "beginning" /\ req[h].event \notin Headerless =>
      <<req[h].event, req[h].attempt>> \notin ran

RanInv == /\ persistence = "active"
          /\ RanIsRecorded
          /\ BegunIsFresh

LEMMA RanStarts == Init => RanInv
BY DEF Init, RanInv, RanIsRecorded, BegunIsFresh

LEMMA DiskHolds ==
  ASSUME ~DiskMayFail, TypeInv, QueueInv, persistence = "active", [Next]_vars
  PROVE  persistence' = "active" /\ \A e, row : ~Forgets(e, row)
<1>1. ASSUME NEW h \in Handlers, Handler(h)
      PROVE  persistence' = persistence
  BY <1>1, HandlerShape
<1>2. ASSUME External \/ Store \/ Boot \/ Reconcile \/ UNCHANGED vars
      PROVE  persistence' = "active"
  BY <1>2 DEF External, HookdeckActs, Deliver, DeliverCopy, DeliverWhileAway,
    AttemptTimesOut, ManualRetry, Crash, Store, WriteDone, WriteFails, Boot, Reconcile,
    RecordSkipped, RetryAccepted, RetryRefused, RecordRefused, SettleOrphan,
    OrphanSettled, Serve, ledgerVars, vars
<1> QED
  BY <1>1, <1>2 DEF Next, Forgets

\* Dispatches alone add to the runs.
LEMMA RanGrows ==
  ASSUME TypeInv, [Next]_vars, NEW run \in ran', run \notin ran
  PROVE  \E h \in Handlers : Dispatch(h) /\ run = <<req[h].event, req[h].attempt>>
<1> USE DEF historyVars
<1>1. CASE External \/ Store \/ Boot \/ Reconcile \/ UNCHANGED vars
  BY <1>1 DEF External, HookdeckActs, Deliver, DeliverCopy, DeliverWhileAway,
    AttemptTimesOut, ManualRetry, Crash, Store, WriteDone, WriteFails, Boot, Reconcile,
    RecordSkipped, RetryAccepted, RetryRefused, RecordRefused, SettleOrphan,
    OrphanSettled, Serve, vars
<1>2. ASSUME NEW h \in Handlers, Handler(h)
      PROVE  Dispatch(h) /\ run = <<req[h].event, req[h].attempt>>
  BY <1>2 DEF Handler, Pipeline, RejectEarly, TurnAway, Admit, SettleAfterThrow, Release,
    RecordDeadLetter, Respond, Dispatch, DispatchReturns, DispatchThrows
<1> QED
  BY <1>1, <1>2 DEF Next

\* A begun row is settled in memory, in the queue and on disk before its
\* dispatch: there is one version of it.
LEMMA OneVersion ==
  ASSUME TypeInv, QueueInv, SlotInv, persistence = "active",
         NEW h \in Handlers, pc[h] \in {"beginning", "dispatching"}, ~Writing(h)
  PROVE  Versions(req[h].event) = {mem[req[h].event]} /\ Quiet(req[h].event)
<1>1. req[h].event \in Events /\ phase = "serving"
  BY DEF TypeInv, HasRequest, Requests, QueueInv, ServesAlone
<1>2. Quiet(req[h].event)
  <2> SUFFICES ASSUME NEW i \in DOMAIN writes, writes[i].event = req[h].event
               PROVE  FALSE
    BY DEF Quiet
  <2>1. /\ writes[i].by \in Handlers
        /\ pc[writes[i].by] \in Working
        /\ req[writes[i].by].event = req[h].event
    BY <1>1 DEF QueueInv, JobsAreAwaited, Waits, Working
  <2>2. writes[i].by = h
    BY <2>1 DEF SlotInv, OneHandlerPerEvent, Working
  <2> QED
    BY <2>2 DEF Writing
<1> QED
  BY <1>1, <1>2 DEF QueueInv, QueueEndsInMemory, EndsInMemory, Quiet, Versions

LEMMA RanStep ==
  ASSUME ~DiskMayFail, MaxAttempts <= MaxPlausibleAttempt,
         LedgerInv, AttemptInv, RanInv, [Next]_vars
  PROVE  RanInv'
<1>0. /\ TypeInv /\ QueueInv /\ SlotInv /\ RowInv /\ LedgerInv' /\ TypeInv' /\ SlotInv'
      /\ MaxAttempts \in Nat /\ MaxPlausibleAttempt \in Nat
  BY LedgerStep, DeliveryAssumption, PlausibleAssumption DEF LedgerInv
<1>1. persistence' = "active" /\ \A e, row : ~Forgets(e, row)
  BY <1>0, DiskHolds DEF RanInv
<1>2. ASSUME NEW h \in Handlers, pc[h] # "idle", req[h].event \notin Headerless
      PROVE  /\ req[h].event \in Events /\ req[h].attempt \in Nat
             /\ req[h].attempt >= 1 /\ Header(req[h]) = req[h].attempt
             /\ PlausibleAttempt(Header(req[h])) = req[h].attempt
  <2>1. /\ req[h].event \in Events /\ req[h].attempt \in Nat /\ req[h].attempt >= 1
        /\ attempts[req[h].event] \in Nat /\ req[h].attempt <= attempts[req[h].event]
    BY <1>0, <1>2 DEF AttemptInv, RequestsAreNumbered, TypeInv, TypeOK, HasRequest, Requests
  <2>2. attempts[req[h].event] <= MaxAttempts
    BY <2>1 DEF AttemptInv, AttemptsAreBounded
  <2> QED
    BY <1>0, <1>2, <2>1, <2>2 DEF Header, PlausibleAttempt
<1>3. ASSUME NEW run \in ran, run[1] \notin Headerless, NEW row \in Versions(run[1])'
      PROVE  row.attempt >= run[2]
  <2> DEFINE e == run[1]
  <2>1. e \in Events /\ run[2] \in Nat
    BY <1>0 DEF TypeInv, TypeOK, Runs
  <2>2. \A r \in Versions(e) : r.attempt \in Nat /\ r.attempt >= run[2]
    BY <1>0, <1>3, <2>1, VersionType DEF RanInv, RanIsRecorded, Rows, NoRow
  <2>3. CASE row \in Versions(e)
    BY <2>2, <2>3
  <2>4. CASE BeginsRow(e, row)
    <3>1. PICK h \in Handlers : /\ Handler(h) /\ req[h].event = e
                                /\ row = BeginRow(mem[e], Header(req[h]), instance)
      BY <2>4 DEF BeginsRow
    <3>2. phase # "down" /\ pc[h] # "idle"
      BY <1>0, <3>1, HandlerShape
    <3>3. mem[e].attempt \in Nat /\ mem[e].attempt >= run[2]
      BY <2>2, <3>2 DEF Versions
    <3>4. row.attempt \in Nat /\ row.attempt >= mem[e].attempt
      BY <1>0, <1>2, <1>3, <2>1, <3>1, <3>2, BeginAttempt
    <3> QED
      BY <2>1, <3>3, <3>4
  <2>5. CASE SettlesRow(e, row)
    <3>1. phase # "down" /\ mem[e] \in Rows
      BY <1>0, <2>1, <2>5, HandlerShape DEF SettlesRow, SettlesOrphan, SettleOrphan, TypeInv, TypeOK
    <3>2. row.attempt = mem[e].attempt
      BY <2>5, <3>1 DEF SettlesRow, SettlesOrphan, SettleRow, Rows
    <3> QED
      BY <2>2, <3>1, <3>2 DEF Versions
  <2> QED
    BY <1>0, <1>1, <1>3, <2>1, <2>3, <2>4, <2>5, VersionStep
<1>4. ASSUME NEW h \in Handlers, Dispatch(h), NEW e \in Events \ Headerless,
             req[h].event = e, NEW row \in Versions(e)'
      PROVE  row.attempt >= req[h].attempt
  <2>1. row \in Versions(e)
    BY <1>4 DEF Dispatch, Versions, ledgerVars, processVars
  <2>2. row = mem[e]
    BY <1>0, <1>4, <2>1, OneVersion DEF Dispatch, RanInv
  <2>3. mem[e].attempt >= PlausibleAttempt(Header(req[h])) /\ pc[h] # "idle"
    BY <1>0, <1>4 DEF Dispatch, RowInv, BegunRuns, Begun
  <2> QED
    BY <1>2, <1>4, <2>2, <2>3
<1>5. RanIsRecorded'
  <2> SUFFICES ASSUME NEW run \in ran', run[1] \notin Headerless,
                      NEW row \in Versions(run[1])'
               PROVE  row.attempt >= run[2]
    BY DEF RanIsRecorded
  <2>0. run[1] \in Events
    BY <1>0 DEF TypeInv, TypeOK, Runs
  <2>1. CASE run \notin ran
    <3>1. PICK h \in Handlers : Dispatch(h) /\ run = <<req[h].event, req[h].attempt>>
      BY <1>0, <2>1, RanGrows
    <3>2. run[1] = req[h].event /\ run[2] = req[h].attempt
      BY <3>1
    <3> QED
      BY <1>4, <2>0, <3>1, <3>2
  <2> QED
    BY <1>3, <2>1
<1>6. BegunIsFresh'
  <2> SUFFICES ASSUME NEW h \in Handlers, pc'[h] = "beginning",
                      req'[h].event \notin Headerless,
                      <<req'[h].event, req'[h].attempt>> \in ran'
               PROVE  FALSE
    BY DEF BegunIsFresh
  <2>1. pc[h] # "idle" /\ req'[h] = req[h]
    BY <1>0, ActiveStep DEF Deliver, DeliverCopy, TypeInv, TypeOK
  <2>2. CASE <<req[h].event, req[h].attempt>> \notin ran
    <3>1. PICK g \in Handlers : Dispatch(g) /\ req[g].event = req[h].event
      BY <1>0, <2>1, <2>2, RanGrows
    <3>2. g # h /\ pc'[g] = "dispatching" /\ req'[g] = req[g]
      BY <1>0, <3>1 DEF Dispatch, TypeInv, TypeOK
    <3> QED
      BY <1>0, <2>1, <3>1, <3>2 DEF SlotInv, OneHandlerPerEvent, Working
  <2>3. CASE <<req[h].event, req[h].attempt>> \in ran
    <3>1. pc[h] # "beginning"
      BY <2>1, <2>3 DEF RanInv, BegunIsFresh
    <3>2. Handler(h)
      <4>1. ASSUME NEW g \in Handlers, Handler(g), g # h
            PROVE  FALSE
        BY <1>0, <3>1, <4>1, HandlerShape
      <4>2. CASE \A g \in Handlers : ~Handler(g)
        BY <1>0, <3>1, <4>2, HandlersElsewhere
      <4> QED
        BY <4>1, <4>2
    <3>3. Begins(h)
      BY <1>0, <3>2, HandlerShape DEF Settles, TypeInv, TypeOK
    <3>4. Admits(mem[req[h].event], Header(req[h])) /\ phase = "serving"
      BY <1>0, <3>2, <3>3, HandlerShape DEF Begins, Admit, Verdict
    <3>5. /\ mem[req[h].event].attempt >= req[h].attempt
          /\ mem[req[h].event].attempt \in Nat
      <4> DEFINE run == <<req[h].event, req[h].attempt>>
      <4>1. run \in ran /\ run[1] \notin Headerless /\ run[1] = req[h].event
            /\ run[2] = req[h].attempt
        BY <2>1, <2>3
      <4>2. mem[req[h].event] \in Versions(req[h].event)
        BY <3>4 DEF Versions
      <4>3. \A row \in Versions(run[1]) : row.attempt >= run[2]
        BY <4>1 DEF RanInv, RanIsRecorded
      <4>4. mem[req[h].event] \in Rows \cup {NoRow}
        BY <1>0, <1>2, <2>1 DEF TypeInv, TypeOK
      <4> QED
        BY <4>1, <4>2, <4>3, <4>4 DEF Rows, NoRow
    <3>6. mem[req[h].event] # NoRow
      BY <1>2, <2>1, <3>5 DEF NoRow
    <3> QED
      BY <1>2, <2>1, <3>4, <3>5, <3>6 DEF Admits, AdmitReasons, DecideAdmission,
        RejectReason, NoAttempt
  <2> QED
    BY <2>2, <2>3
<1> QED
  BY <1>1, <1>5, <1>6 DEF RanInv

\* With a disk that works, one attempt is dispatched once, whatever arrives
\* twice and however often the process dies and comes back.
THEOREM OneDispatchPerAttempt ==
  ASSUME ~DiskMayFail, MaxAttempts <= MaxPlausibleAttempt
  PROVE  Spec => AttemptRunsOnce
<1> DEFINE Inv == LedgerInv /\ AttemptInv /\ RanInv
<1>1. Init => Inv
  BY LedgerStarts, AttemptsStart, RanStarts
<1>2. Inv /\ [Next]_vars => Inv'
  BY LedgerStep, AttemptsStep, RanStep DEF LedgerInv
<1>3. Inv =>
        \A h \in Handlers :
          pc[h] = "beginning" /\ pc'[h] = "dispatching" /\ req[h].event \notin Headerless
            => <<req[h].event, req[h].attempt>> \notin ran
  BY DEF RanInv, BegunIsFresh
<1> QED
  BY <1>1, <1>2, <1>3, PTL DEF Spec, AttemptRunsOnce

(***************************************************************************)
(* Interrupted runs.  With a disk that works, a run that a crash cut short *)
(* stands in every version of its row, as running or overtaken by a later  *)
(* attempt, until the reconciliation has handed it over.                   *)
(***************************************************************************)
Stands(row, n) == row.attempt > n \/ (row.attempt = n /\ row.status = "running")

StandsEverywhere(e, n) ==
  /\ \A row \in Versions(e) : Stands(row, n)
  /\ \A h \in Handlers : pc[h] \in Working /\ req[h].event = e => mem[e].attempt > n

InterruptedStands ==
  \A run \in interrupted :
    \/ run \in requeued \/ run[1] \in deadLetter
    \/ StandsEverywhere(run[1], run[2])

InterruptInv == /\ persistence = "active"
                /\ OrphanIsHandedOver
                /\ InterruptedStands

LEMMA InterruptsStart == Init => InterruptInv
BY DEF Init, InterruptInv, OrphanIsHandedOver, InterruptedStands

\* Whoever is let through where a run stands is a later attempt.
LEMMA AdmittedIsLater ==
  ASSUME NEW row \in Rows \cup {NoRow}, NEW n \in Nat, Stands(row, n),
         NEW header \in AttemptHeaders, Admits(row, header), NEW owner \in Nat
  PROVE  BeginRow(row, header, owner).attempt > n
<1>1. row.attempt \in Nat /\ PlausibleAttempt(header) \in AttemptHeaders
  BY PlausibleType DEF Rows, NoRow
<1>2. row # NoRow
  BY DEF Stands, NoRow
<1>3. \/ PlausibleAttempt(header) # NoAttempt /\ PlausibleAttempt(header) > row.attempt
      \/ row.status = "failed"
  BY <1>2 DEF Admits, AdmitReasons, DecideAdmission, RejectReason
<1>4. CASE row.status = "failed"
  <2>1. BeginRow(row, header, owner).attempt >= row.attempt
    BY BeginNeverLowers
  <2>2. BeginRow(row, header, owner).attempt \in Nat
    BY BeginType DEF Rows
  <2>3. row.attempt > n
    BY <1>4 DEF Stands
  <2> QED
    BY <1>1, <2>1, <2>2, <2>3
<1>5. CASE PlausibleAttempt(header) # NoAttempt /\ PlausibleAttempt(header) > row.attempt
  BY <1>1, <1>5 DEF Stands, BeginRow, AttemptHeaders
<1> QED
  BY <1>3, <1>4, <1>5

LEMMA InterruptedGrows ==
  ASSUME TypeInv, QueueInv, [Next]_vars, NEW run \in interrupted', run \notin interrupted
  PROVE  Crash /\ \E h \in Handlers :
           pc[h] = "dispatching" /\ run = <<req[h].event, mem[req[h].event].attempt>>
<1> USE DEF historyVars
<1>1. CASE External \/ Store \/ Boot \/ Reconcile \/ UNCHANGED vars
  BY <1>1 DEF External, HookdeckActs, Deliver, DeliverCopy, DeliverWhileAway,
    AttemptTimesOut, ManualRetry, Crash, Store, WriteDone, WriteFails, Boot, Reconcile,
    RecordSkipped, RetryAccepted, RetryRefused, RecordRefused, SettleOrphan,
    OrphanSettled, Serve, vars
<1>2. \A h \in Handlers : ~Handler(h)
  BY HandlerShape
<1> QED
  BY <1>1, <1>2 DEF Next

\* A crash finds one version of the row of a run it interrupts.
LEMMA CrashLeavesRow ==
  ASSUME LedgerInv, persistence = "active", [Next]_vars, Crash,
         NEW h \in Handlers, pc[h] = "dispatching",
         NEW e \in Events, req[h].event = e, NEW n, n = mem[e].attempt
  PROVE  StandsEverywhere(e, n)'
<1>0. TypeInv /\ QueueInv /\ SlotInv /\ RowInv
  BY DEF LedgerInv
<1>1. mem[e].status = "running" /\ mem[e] \in Rows \cup {NoRow}
  BY <1>0 DEF RowInv, BegunRuns, Begun, TypeInv, TypeOK
<1>2. Quiet(e) /\ disk[e] = mem[e]
  <2>1. ~Writing(h)
    BY <1>0, FreeHands
  <2> QED
    BY <1>0, <2>1, OneVersion DEF Versions
<1>3. disk'[e] = mem[e]
  <2>1. ASSUME NEW g \in Handlers, Handler(g)
        PROVE  FALSE
    BY <1>0, <2>1, HandlerShape DEF Crash, processVars
  <2>2. ~SettleOrphan
    BY DEF SettleOrphan, Crash, processVars
  <2> QED
    BY <1>0, <1>2, <2>1, <2>2, QuietStays
<1>4. Versions(e)' = {mem[e]}
  BY <1>3 DEF Crash, Versions
<1>5. \A g \in Handlers : pc'[g] = "idle"
  BY DEF Crash
<1> QED
  BY <1>1, <1>4, <1>5 DEF StandsEverywhere, Stands, Working

\* A run that stands goes on standing, unless it is handed over.
LEMMA StandingStep ==
  ASSUME ~DiskMayFail, LedgerInv, InterruptInv, [Next]_vars,
         NEW e \in Events, NEW n \in Nat, StandsEverywhere(e, n),
         <<e, n>> \notin requeued, e \notin deadLetter
  PROVE  StandsEverywhere(e, n)'
<1>0. /\ TypeInv /\ QueueInv /\ \A f, row : ~Forgets(f, row)
      /\ mem[e] \in Rows \cup {NoRow} /\ mem[e].attempt \in Nat /\ instance \in Nat
  BY DiskHolds DEF LedgerInv, InterruptInv, TypeInv, TypeOK, Rows, NoRow
<1>1. phase # "down" => Stands(mem[e], n)
  BY DEF StandsEverywhere, Versions
<1>2. ASSUME NEW h \in Handlers, Handler(h), Begins(h), req[h].event = e,
             NEW row, row = BeginRow(mem[e], Header(req[h]), instance)
      PROVE  row.attempt > n /\ row.attempt >= mem[e].attempt
  <2>1. /\ req[h] \in Requests /\ Header(req[h]) \in AttemptHeaders
        /\ Admits(mem[e], Header(req[h])) /\ phase # "down"
    BY <1>0, <1>2, HandlerShape, HeaderType DEF Begins, Admit, Verdict
  <2> QED
    BY <1>0, <1>1, <1>2, <2>1, AdmittedIsLater, BeginNeverLowers
<1>3. ASSUME NEW row, SettlesRow(e, row)
      PROVE  row.attempt > n /\ row.attempt = mem[e].attempt
  <2>1. mem[e] \in Rows
    BY <1>0, <1>3 DEF SettlesRow, SettlesOrphan
  <2>2. row.attempt = mem[e].attempt
    BY <1>3, <2>1 DEF SettlesRow, SettlesOrphan, SettleRow, Rows
  <2>3. CASE SettleOrphan /\ current = e
    <3>1. phase # "down" /\ step = "settle"
      BY <2>3 DEF SettleOrphan
    <3>2. mem[e].attempt # n
      BY <2>3, <3>1 DEF InterruptInv, OrphanIsHandedOver
    <3> QED
      BY <1>0, <1>1, <2>2, <3>1, <3>2 DEF Stands
  <2>4. ASSUME NEW h \in Handlers, NEW status \in {"succeeded", "failed"},
               Settles(h, status), req[h].event = e
        PROVE  mem[e].attempt > n
    BY <2>4 DEF Settles, Working, StandsEverywhere
  <2> QED
    BY <1>3, <2>2, <2>3, <2>4 DEF SettlesRow, SettlesOrphan
<1>4. ASSUME NEW row, row \in Versions(e)'
      PROVE  Stands(row, n)
  <2>1. CASE row \in Versions(e)
    BY <2>1 DEF StandsEverywhere
  <2>2. CASE BeginsRow(e, row)
    BY <1>2, <2>2 DEF BeginsRow, Stands
  <2>3. CASE SettlesRow(e, row)
    BY <1>3, <2>3 DEF Stands
  <2> QED
    BY <1>0, <1>4, <2>1, <2>2, <2>3, VersionStep
<1>5. ASSUME NEW h \in Handlers, pc'[h] \in Working, req'[h].event = e
      PROVE  mem'[e].attempt > n
  <2>1. pc[h] # "idle" /\ req[h].event = e /\ ~Crash /\ ~Boot
    <3>1. pc[h] # "idle" /\ req'[h] = req[h]
      BY <1>0, <1>5, ActiveStep DEF Deliver, DeliverCopy, TypeInv, TypeOK, Working
    <3> QED
      BY <1>0, <1>5, <3>1 DEF Crash, Boot, QueueInv, ServesAlone, Working
  <2>2. CASE pc[h] \in Working
    <3>1. mem[e].attempt > n
      BY <2>1, <2>2 DEF StandsEverywhere
    <3> QED
      BY <1>0, <1>2, <1>3, <2>1, <3>1, MemoryStep DEF BeginsRow
  <2>3. CASE pc[h] \notin Working
    <3>1. Handler(h)
      <4>1. ASSUME NEW g \in Handlers, Handler(g), g # h
            PROVE  FALSE
        BY <1>0, <1>5, <2>3, <4>1, HandlerShape
      <4>2. CASE \A g \in Handlers : ~Handler(g)
        BY <1>0, <1>5, <2>3, <4>2, HandlersElsewhere DEF Working
      <4> QED
        BY <4>1, <4>2
    <3>2. Begins(h)
      BY <1>0, <1>5, <2>3, <3>1, HandlerShape DEF Settles, Working
    <3>3. mem'[e] = BeginRow(mem[e], Header(req[h]), instance)
      BY <1>0, <2>1, <3>2 DEF Begins, Put, TypeInv, TypeOK
    <3> QED
      BY <1>2, <2>1, <3>1, <3>2, <3>3
  <2> QED
    BY <2>2, <2>3
<1> QED
  BY <1>4, <1>5 DEF StandsEverywhere

LEMMA InterruptStep ==
  ASSUME ~DiskMayFail, LedgerInv, InterruptInv, [Next]_vars
  PROVE  InterruptInv'
<1>0. TypeInv /\ QueueInv /\ TypeInv'
  BY LedgerStep DEF LedgerInv
<1>1. persistence' = "active"
  BY <1>0, DiskHolds DEF InterruptInv
<1>2. OrphanIsHandedOver'
  BY <1>0, HandoverStep DEF InterruptInv
<1>3. requeued \subseteq requeued' /\ deadLetter \subseteq deadLetter'
  BY RecordsGrow
<1>4. InterruptedStands'
  <2> SUFFICES ASSUME NEW run \in interrupted', run \notin requeued', run[1] \notin deadLetter'
               PROVE  StandsEverywhere(run[1], run[2])'
    BY DEF InterruptedStands
  <2>1. run = <<run[1], run[2]>> /\ run[1] \in Events /\ run[2] \in Nat
    BY <1>0 DEF TypeInv, TypeOK, Runs
  <2>2. CASE run \in interrupted
    <3>1. StandsEverywhere(run[1], run[2])
      BY <1>3, <2>2 DEF InterruptInv, InterruptedStands
    <3> QED
      BY <1>3, <2>1, <3>1, StandingStep
  <2>3. CASE run \notin interrupted
    <3>1. Crash
      BY <1>0, <2>3, InterruptedGrows
    <3>2. PICK h \in Handlers :
            /\ pc[h] = "dispatching"
            /\ run = <<req[h].event, mem[req[h].event].attempt>>
      BY <1>0, <2>3, InterruptedGrows
    <3>3. run[1] = req[h].event /\ run[2] = mem[run[1]].attempt
      BY <3>2
    <3> QED
      BY <2>1, <3>1, <3>2, <3>3, CrashLeavesRow DEF InterruptInv
  <2> QED
    BY <2>2, <2>3
<1> QED
  BY <1>1, <1>2, <1>4 DEF InterruptInv

\* With a disk that works, the row of a run a crash cut short is closed only
\* once Hookdeck has taken the event back or a dead-letter record names it,
\* however often the process dies on the way.
THEOREM InterruptedRunsAreHandedBack ==
  ASSUME ~DiskMayFail
  PROVE  Spec => []InterruptedIsHandedBack
<1>1. Init => LedgerInv /\ InterruptInv
  BY LedgerStarts, InterruptsStart
<1>2. LedgerInv /\ InterruptInv /\ [Next]_vars => LedgerInv' /\ InterruptInv'
  BY LedgerStep, InterruptStep
<1>3. LedgerInv /\ InterruptInv => InterruptedIsHandedBack
  <2> SUFFICES ASSUME LedgerInv, InterruptInv, NEW e \in Events,
                      <<e, disk[e].attempt>> \in interrupted, disk[e].status = "failed",
                      <<e, disk[e].attempt>> \notin requeued, e \notin deadLetter
               PROVE  FALSE
    BY DEF InterruptedIsHandedBack
  <2>1. StandsEverywhere(e, disk[e].attempt)
    BY DEF InterruptInv, InterruptedStands
  <2>2. Stands(disk[e], disk[e].attempt) /\ disk[e].attempt \in Nat
    BY <2>1 DEF StandsEverywhere, Versions, LedgerInv, TypeInv, TypeOK, Rows, NoRow
  <2> QED
    BY <2>2 DEF Stands
<1> QED
  BY <1>1, <1>2, <1>3, PTL DEF Spec
===============================================================================
