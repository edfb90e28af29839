---------------------------- MODULE DeliveryProofs ----------------------------
(***************************************************************************)
(* Type correctness and slot accounting of the delivery path, for any      *)
(* number of events, handlers and slots.                                   *)
(***************************************************************************)
EXTENDS DeliveryProperties, AdmissionProofs, FiniteSetTheorems

(***************************************************************************)
(* TypeOK alone is not inductive: an active handler must be known to hold  *)
(* a request, and a reconciliation in the middle of a row to have one.     *)
(***************************************************************************)
HasRequest == \A h \in Handlers : pc[h] # "idle" => req[h] \in Requests
HasOrphan  == step # "next" => current \in Events

TypeInv == TypeOK /\ HasRequest /\ HasOrphan

\* The store operations keep the ledger's types.
LEMMA PutType ==
  ASSUME TypeInv, NEW e \in Events, NEW row \in Rows, NEW by \in Writers,
         Put(e, row, by)
  PROVE  mem' \in [Events -> Rows \cup {NoRow}] /\ writes' \in Seq(Jobs)
<1>1. [event |-> e, row |-> row, by |-> by] \in Jobs
  BY DEF Jobs
<1>2. writes \in Seq(Jobs) /\ mem \in [Events -> Rows \cup {NoRow}]
  BY DEF TypeInv, TypeOK
<1> QED
  BY <1>1, <1>2 DEF Put

LEMMA HeaderType ==
  ASSUME NEW r \in Requests
  PROVE  Header(r) \in AttemptHeaders
  BY DEF Header, Requests, AttemptHeaders

LEMMA BeginPutType ==
  ASSUME TypeInv, NEW e \in Events, NEW header \in AttemptHeaders,
         NEW by \in Writers, Begin(e, header, by)
  PROVE  mem' \in [Events -> Rows \cup {NoRow}] /\ writes' \in Seq(Jobs)
<1>1. mem[e] \in Rows \cup {NoRow} /\ instance \in Nat
  BY DEF TypeInv, TypeOK
<1>2. BeginRow(mem[e], header, instance) \in Rows
  BY <1>1, BeginType
<1> QED
  BY <1>2, PutType DEF Begin

LEMMA SettlePutType ==
  ASSUME TypeInv, NEW e \in Events, NEW status \in Statuses,
         NEW by \in Writers, Settle(e, status, by)
  PROVE  mem' \in [Events -> Rows \cup {NoRow}] /\ writes' \in Seq(Jobs)
<1>1. CASE mem[e] = NoRow
  BY <1>1 DEF Settle, TypeInv, TypeOK
<1>2. CASE mem[e] # NoRow
  <2>1. mem[e] \in Rows
    BY <1>2 DEF TypeInv, TypeOK
  <2>2. SettleRow(mem[e], status) \in Rows
    BY <2>1, SettleType
  <2> QED
    BY <1>2, <2>2, PutType DEF Settle
<1> QED
  BY <1>1, <1>2

LEMMA AppliedType ==
  ASSUME TypeInv, NEW job \in Jobs
  PROVE  Applied(job) \in [Events -> Rows \cup {NoRow}]
  BY DEF Applied, Jobs, TypeInv, TypeOK

LEMMA TypeInit == Init => TypeInv
<1> SUFFICES ASSUME Init PROVE TypeInv
  OBVIOUS
<1>1. NoRows \in [Events -> Rows \cup {NoRow}]
  BY DEF NoRows
<1> QED
  BY <1>1 DEF Init, TypeInv, TypeOK, HasRequest, HasOrphan, HookdeckStates, PCs, Steps

\* Each step keeps the types.  The steps are grouped as the actions are.
LEMMA ExternalType ==
  ASSUME TypeInv, External
  PROVE  TypeInv'
<1>1. ASSUME NEW e \in Events, NEW h \in Handlers, Deliver(e, h)
      PROVE  TypeInv'
  <2>1. [event |-> e, attempt |-> attempts[e] + 1, copy |-> FALSE] \in Requests
    BY DEF TypeInv, TypeOK, Requests
  <2>2. TypeOK'
    BY <1>1, <2>1 DEF Deliver, TypeInv, TypeOK, HookdeckStates, PCs,
      processVars, ledgerVars, recoveryVars, historyVars
  <2>3. HasRequest'
    BY <1>1, <2>1 DEF Deliver, TypeInv, TypeOK, HasRequest
  <2>4. HasOrphan'
    BY <1>1 DEF Deliver, TypeInv, HasOrphan, recoveryVars
  <2> QED
    BY <2>2, <2>3, <2>4 DEF TypeInv
<1>2. ASSUME NEW e \in Events, NEW h \in Handlers, DeliverCopy(e, h)
      PROVE  TypeInv'
  <2>1. [event |-> e, attempt |-> attempts[e], copy |-> TRUE] \in Requests
    BY DEF TypeInv, TypeOK, Requests
  <2>2. TypeOK'
    BY <1>2, <2>1 DEF DeliverCopy, TypeInv, TypeOK, PCs,
      hookdeckVars, processVars, ledgerVars, recoveryVars, historyVars
  <2>3. HasRequest'
    BY <1>2, <2>1 DEF DeliverCopy, TypeInv, TypeOK, HasRequest
  <2>4. HasOrphan'
    BY <1>2 DEF DeliverCopy, TypeInv, HasOrphan, recoveryVars
  <2> QED
    BY <2>2, <2>3, <2>4 DEF TypeInv
<1>3. ASSUME NEW e \in Events, DeliverWhileAway(e)
      PROVE  TypeInv'
  BY <1>3 DEF DeliverWhileAway, TypeInv, TypeOK, HasRequest, HasOrphan, HookdeckStates,
    processVars, handlerVars, ledgerVars, recoveryVars, historyVars
<1>4. ASSUME NEW e \in Events, AttemptTimesOut(e)
      PROVE  TypeInv'
  BY <1>4 DEF AttemptTimesOut, AfterFailure, TypeInv, TypeOK, HasRequest, HasOrphan, HookdeckStates,
    processVars, handlerVars, ledgerVars, recoveryVars, historyVars
<1>5. ASSUME NEW e \in Events, ManualRetry(e)
      PROVE  TypeInv'
  BY <1>5 DEF ManualRetry, TypeInv, TypeOK, HasRequest, HasOrphan, HookdeckStates,
    processVars, handlerVars, ledgerVars, recoveryVars, historyVars
<1>6. ASSUME Crash
      PROVE  TypeInv'
  <2>1. disk' \in [Events -> Rows \cup {NoRow}]
    <3>1. \A i \in DOMAIN writes : writes[i] \in Jobs
      BY DEF TypeInv, TypeOK
    <3>2. \A i \in DOMAIN writes : Applied(writes[i]) \in [Events -> Rows \cup {NoRow}]
      BY <3>1, AppliedType
    <3> QED
      BY <1>6, <3>2 DEF Crash, TypeInv, TypeOK
  <2>2. interrupted' \subseteq Runs
    <3>1. ASSUME NEW h \in Handlers, pc[h] = "dispatching"
          PROVE  <<req[h].event, mem[req[h].event].attempt>> \in Runs
      <4>1. req[h].event \in Events
        BY <3>1 DEF TypeInv, HasRequest, Requests
      <4>2. mem[req[h].event].attempt \in Nat
        BY <4>1 DEF TypeInv, TypeOK, Rows, NoRow
      <4> QED
        BY <4>1, <4>2 DEF Runs
    <3> QED
      BY <1>6, <3>1 DEF Crash, TypeInv, TypeOK
  <2>3. mem' \in [Events -> Rows \cup {NoRow}] /\ writes' \in Seq(Jobs)
    BY <1>6 DEF Crash, NoRows
  <2>4. pc' \in [Handlers -> PCs] /\ req' \in [Handlers -> Requests \cup {NoRequest}]
        /\ answer' \in [Handlers -> Answers \cup {"none"}]
    BY <1>6 DEF Crash, PCs
  <2> QED
    BY <1>6, <2>1, <2>2, <2>3, <2>4 DEF Crash, TypeInv, TypeOK, HasRequest, HasOrphan, Steps, hookdeckVars
<1> QED
  BY <1>1, <1>2, <1>3, <1>4, <1>5, <1>6 DEF External, HookdeckActs

LEMMA StoreType ==
  ASSUME TypeInv, Store
  PROVE  TypeInv'
<1>1. writes # <<>> => /\ Applied(Head(writes)) \in [Events -> Rows \cup {NoRow}]
                       /\ Tail(writes) \in Seq(Jobs)
  <2> SUFFICES ASSUME writes # <<>>
               PROVE  Head(writes) \in Jobs /\ Tail(writes) \in Seq(Jobs)
    BY AppliedType
  <2>1. writes \in Seq(Jobs)
    BY DEF TypeInv, TypeOK
  <2> QED
    BY <2>1
<1>2. CASE WriteDone
  BY <1>1, <1>2 DEF WriteDone, TypeInv, TypeOK, HasRequest, HasOrphan,
    hookdeckVars, processVars, handlerVars, recoveryVars, historyVars
<1>3. CASE WriteFails
  BY <1>1, <1>3 DEF WriteFails, TypeInv, TypeOK, HasRequest, HasOrphan,
    hookdeckVars, processVars, handlerVars, recoveryVars, historyVars
<1> QED
  BY <1>2, <1>3 DEF Store

\* The verdict is a word of the pipeline, and begins a run or answers.
LEMMA VerdictType ==
  ASSUME NEW r, NEW canAccept \in BOOLEAN
  PROVE  Verdict(r, canAccept) \in {"retry", "ok", "cancel", "begin"}
  BY Zenon DEF Verdict

LEMMA ReactionType ==
  ASSUME NEW e, NEW a
  PROVE  Reaction(e, a) \in HookdeckStates
<1>1. AfterFailure(e) \in HookdeckStates
  BY DEF AfterFailure, HookdeckStates
<1> QED
  BY <1>1 DEF Reaction, HookdeckStates

LEMMA PipelineType ==
  ASSUME TypeInv, NEW h \in Handlers, NEW canAccept \in BOOLEAN,
         Pipeline(h, canAccept)
  PROVE  TypeInv'
<1>1. CASE RejectEarly(h)
  <2>1. TypeOK'
    BY <1>1, DeliveryAssumption DEF RejectEarly, TypeInv, TypeOK, PCs, Answers,
      hookdeckVars, processVars, handlerVars, ledgerVars, recoveryVars, historyVars
  <2>2. HasRequest' /\ HasOrphan'
    BY <1>1 DEF RejectEarly, TypeInv, TypeOK, HasRequest, HasOrphan,
      PCs, Working, hookdeckVars, processVars, handlerVars, ledgerVars, recoveryVars, historyVars
  <2> QED
    BY <2>1, <2>2 DEF TypeInv
<1>2. CASE TurnAway(h, canAccept)
  <2>1. Verdict(req[h], canAccept) \in Answers
    BY <1>2, VerdictType DEF TurnAway, Answers
  <2>2. TypeOK'
    BY <1>2, <2>1 DEF TurnAway, TypeInv, TypeOK, PCs,
      hookdeckVars, processVars, ledgerVars, recoveryVars, historyVars
  <2>3. HasRequest' /\ HasOrphan'
    BY <1>2 DEF TurnAway, TypeInv, TypeOK, HasRequest, HasOrphan, recoveryVars
  <2> QED
    BY <2>2, <2>3 DEF TypeInv
<1>3. CASE Admit(h, canAccept)
  <2>1. req[h].event \in Events /\ h \in Writers
    BY <1>3 DEF Admit, TypeInv, HasRequest, Requests, Writers
  <2>2. mem' \in [Events -> Rows \cup {NoRow}] /\ writes' \in Seq(Jobs)
    BY <1>3, <2>1, HeaderType, BeginPutType DEF Admit, TypeInv, HasRequest
  <2>3. TypeOK'
    BY <1>3, <2>1, <2>2 DEF Admit, TypeInv, TypeOK, PCs, Working, Answers,
      hookdeckVars, processVars, handlerVars, ledgerVars, recoveryVars, historyVars
  <2>4. HasRequest' /\ HasOrphan'
    BY <1>3 DEF Admit, TypeInv, TypeOK, HasRequest, HasOrphan,
      PCs, Working, hookdeckVars, processVars, handlerVars, ledgerVars, recoveryVars, historyVars
  <2> QED
    BY <2>3, <2>4 DEF TypeInv
<1>4. CASE SettleAfterThrow(h)
  <2>1. req[h].event \in Events /\ h \in Writers
    BY <1>4 DEF SettleAfterThrow, TypeInv, HasRequest, Requests, Writers
  <2>2. mem' \in [Events -> Rows \cup {NoRow}] /\ writes' \in Seq(Jobs)
    BY <1>4, <2>1, SettlePutType DEF SettleAfterThrow, Statuses
  <2>3. TypeOK'
    BY <1>4, <2>1, <2>2 DEF SettleAfterThrow, TypeInv, TypeOK, PCs, Working, Answers,
      hookdeckVars, processVars, handlerVars, ledgerVars, recoveryVars, historyVars
  <2>4. HasRequest' /\ HasOrphan'
    BY <1>4 DEF SettleAfterThrow, TypeInv, TypeOK, HasRequest, HasOrphan,
      PCs, Working, hookdeckVars, processVars, handlerVars, ledgerVars, recoveryVars, historyVars
  <2> QED
    BY <2>3, <2>4 DEF TypeInv
<1>5. CASE Release(h)
  <2>1. TypeOK'
    BY <1>5 DEF Release, TypeInv, TypeOK, HasRequest, PCs,
      hookdeckVars, processVars, handlerVars, ledgerVars, recoveryVars, historyVars
  <2>2. HasRequest' /\ HasOrphan'
    BY <1>5 DEF Release, TypeInv, TypeOK, HasRequest, HasOrphan,
      PCs, Working, hookdeckVars, processVars, handlerVars, ledgerVars, recoveryVars, historyVars
  <2> QED
    BY <2>1, <2>2 DEF TypeInv
<1>6. CASE RecordDeadLetter(h)
  <2>1. Recorded(h) \subseteq Events
    BY <1>6 DEF RecordDeadLetter, Recorded, TypeInv, HasRequest, Requests
  <2>2. TypeOK'
    BY <1>6, <2>1 DEF RecordDeadLetter, TypeInv, TypeOK, PCs,
      hookdeckVars, processVars, ledgerVars, recoveryVars, historyVars
  <2>3. HasRequest' /\ HasOrphan'
    BY <1>6 DEF RecordDeadLetter, TypeInv, TypeOK, HasRequest, HasOrphan, recoveryVars
  <2> QED
    BY <2>2, <2>3 DEF TypeInv
<1>7. CASE Respond(h)
  <2>1. hookdeck' \in [Events -> HookdeckStates]
    BY <1>7, ReactionType DEF Respond, TypeInv, TypeOK
  <2>2. TypeOK'
    BY <1>7, <2>1 DEF Respond, TypeInv, TypeOK, PCs,
      processVars, ledgerVars, recoveryVars, historyVars
  <2>3. HasRequest' /\ HasOrphan'
    BY <1>7 DEF Respond, TypeInv, TypeOK, HasRequest, HasOrphan, recoveryVars
  <2> QED
    BY <2>2, <2>3 DEF TypeInv
<1> QED
  BY <1>1, <1>2, <1>3, <1>4, <1>5, <1>6, <1>7 DEF Pipeline

LEMMA DispatchType ==
  ASSUME TypeInv, NEW h \in Handlers,
         Dispatch(h) \/ DispatchThrows(h) \/ \E a \in Answers : DispatchReturns(h, a)
  PROVE  TypeInv'
<1>1. CASE Dispatch(h)
  <2>1. <<req[h].event, req[h].attempt>> \in Runs
    BY <1>1 DEF Dispatch, TypeInv, HasRequest, Requests, Runs
  <2>2. TypeOK'
    BY <1>1, <2>1 DEF Dispatch, TypeInv, TypeOK, PCs, Working,
      hookdeckVars, processVars, ledgerVars, recoveryVars
  <2>3. HasRequest' /\ HasOrphan'
    BY <1>1 DEF Dispatch, TypeInv, TypeOK, HasRequest, HasOrphan, recoveryVars
  <2> QED
    BY <2>2, <2>3 DEF TypeInv
<1>2. ASSUME NEW a \in Answers, DispatchReturns(h, a)
      PROVE  TypeInv'
  <2>1. req[h].event \in Events /\ h \in Writers
    BY <1>2 DEF DispatchReturns, TypeInv, HasRequest, Requests, Writers
  <2>2. mem' \in [Events -> Rows \cup {NoRow}] /\ writes' \in Seq(Jobs)
    BY <1>2, <2>1, SettlePutType DEF DispatchReturns, Statuses
  <2>3. TypeOK'
    BY <1>2, <2>1, <2>2 DEF DispatchReturns, TypeInv, TypeOK, PCs, Working, Answers,
      hookdeckVars, processVars, handlerVars, ledgerVars, recoveryVars, historyVars
  <2>4. HasRequest' /\ HasOrphan'
    BY <1>2 DEF DispatchReturns, TypeInv, TypeOK, HasRequest, HasOrphan,
      PCs, Working, hookdeckVars, processVars, handlerVars, ledgerVars, recoveryVars, historyVars
  <2> QED
    BY <2>3, <2>4 DEF TypeInv
<1>3. CASE DispatchThrows(h)
  <2>1. req[h].event \in Events /\ h \in Writers
    BY <1>3 DEF DispatchThrows, TypeInv, HasRequest, Requests, Writers
  <2>2. mem' \in [Events -> Rows \cup {NoRow}] /\ writes' \in Seq(Jobs)
    BY <1>3, <2>1, SettlePutType DEF DispatchThrows, Statuses
  <2>3. TypeOK'
    BY <1>3, <2>1, <2>2 DEF DispatchThrows, TypeInv, TypeOK, PCs, Working, Answers,
      hookdeckVars, processVars, handlerVars, ledgerVars, recoveryVars, historyVars
  <2>4. HasRequest' /\ HasOrphan'
    BY <1>3 DEF DispatchThrows, TypeInv, TypeOK, HasRequest, HasOrphan,
      PCs, Working, hookdeckVars, processVars, handlerVars, ledgerVars, recoveryVars, historyVars
  <2> QED
    BY <2>3, <2>4 DEF TypeInv
<1> QED
  BY <1>1, <1>2, <1>3

LEMMA HandlerType ==
  ASSUME TypeInv, NEW h \in Handlers, Handler(h)
  PROVE  TypeInv'
  BY PipelineType, DispatchType DEF Handler

LEMMA BootType ==
  ASSUME TypeInv, Boot
  PROVE  TypeInv'
<1>1. NoRows \in [Events -> Rows \cup {NoRow}]
  BY DEF NoRows
<1>2. mem' \in [Events -> Rows \cup {NoRow}] /\ persistence' \in {"active", "disabled"}
  BY <1>1 DEF Boot, TypeInv, TypeOK
<1>3. TypeOK'
  BY <1>2, DeliveryAssumption DEF Boot, TypeInv, TypeOK,
    hookdeckVars, handlerVars, historyVars
<1>4. HasRequest' /\ HasOrphan'
  BY DEF Boot, TypeInv, TypeOK, HasRequest, HasOrphan, handlerVars
<1> QED
  BY <1>3, <1>4 DEF TypeInv

LEMMA ReconcileType ==
  ASSUME TypeInv, Reconcile
  PROVE  TypeInv'
<1>1. ASSUME NEW e \in Events, RecordSkipped(e)
      PROVE  TypeInv'
  <2>1. TypeOK'
    BY <1>1, DeliveryAssumption DEF RecordSkipped, TypeInv, TypeOK, HasOrphan, Steps,
      hookdeckVars, processVars, handlerVars, ledgerVars, historyVars
  <2>2. HasRequest' /\ HasOrphan'
    BY <1>1 DEF RecordSkipped, TypeInv, TypeOK, HasRequest, HasOrphan, handlerVars
  <2> QED
    BY <2>1, <2>2 DEF TypeInv
<1>2. ASSUME NEW e \in Events, NEW reply \in Steps, RetryAccepted(e, reply)
      PROVE  TypeInv'
  <2>1. <<e, mem[e].attempt>> \in Runs
    BY DEF TypeInv, TypeOK, Rows, NoRow, Runs
  <2>2. hookdeck' \in [Events -> HookdeckStates]
    <3>1. hookdeck' = [hookdeck EXCEPT ![e] =
                         IF hookdeck[e] = "delivering" THEN hookdeck[e] ELSE "queued"]
      BY <1>2 DEF RetryAccepted
    <3>2. hookdeck \in [Events -> HookdeckStates]
      BY DEF TypeInv, TypeOK
    <3>3. hookdeck[e] \in HookdeckStates /\ "queued" \in HookdeckStates
      BY <3>2 DEF HookdeckStates
    <3> QED
      BY <3>1, <3>2, <3>3
  <2>3. budget' \in Nat /\ requeued' \subseteq Runs
    <3>1. /\ budget \in Nat /\ budget > 0 /\ budget' = budget - 1
          /\ requeued \subseteq Runs
          /\ requeued' = requeued \cup {<<e, mem[e].attempt>>}
      BY <1>2 DEF RetryAccepted, TypeInv, TypeOK
    <3> QED
      BY <2>1, <3>1
  <2>4. TypeOK'
    BY <1>2, <2>2, <2>3 DEF RetryAccepted, TypeInv, TypeOK,
      processVars, handlerVars, ledgerVars
  <2>5. HasRequest' /\ HasOrphan'
    BY <1>2 DEF RetryAccepted, TypeInv, TypeOK, HasRequest, HasOrphan, handlerVars
  <2> QED
    BY <2>4, <2>5 DEF TypeInv
<1>3. ASSUME NEW e \in Events, NEW reply \in Steps, RetryRefused(e, reply)
      PROVE  TypeInv'
  <2>1. TypeOK'
    BY <1>3, DeliveryAssumption DEF RetryRefused, TypeInv, TypeOK, HasOrphan, Steps,
      hookdeckVars, processVars, handlerVars, ledgerVars, historyVars
  <2>2. HasRequest' /\ HasOrphan'
    BY <1>3 DEF RetryRefused, TypeInv, TypeOK, HasRequest, HasOrphan, handlerVars
  <2> QED
    BY <2>1, <2>2 DEF TypeInv
<1>4. CASE RecordRefused
  <2>1. TypeOK'
    BY <1>4, DeliveryAssumption DEF RecordRefused, TypeInv, TypeOK, HasOrphan, Steps,
      hookdeckVars, processVars, handlerVars, ledgerVars, historyVars
  <2>2. HasRequest' /\ HasOrphan'
    BY <1>4 DEF RecordRefused, TypeInv, TypeOK, HasRequest, HasOrphan, handlerVars
  <2> QED
    BY <2>1, <2>2 DEF TypeInv
<1>5. CASE SettleOrphan
  <2>1. current \in Events /\ "boot" \in Writers
    BY <1>5 DEF SettleOrphan, TypeInv, HasOrphan, Writers
  <2>2. mem' \in [Events -> Rows \cup {NoRow}] /\ writes' \in Seq(Jobs)
    BY <1>5, <2>1, SettlePutType DEF SettleOrphan, Statuses
  <2>3. TypeOK'
    BY <1>5, <2>2 DEF SettleOrphan, TypeInv, TypeOK, Steps,
      hookdeckVars, processVars, handlerVars, historyVars
  <2>4. HasRequest' /\ HasOrphan'
    BY <1>5, <2>1 DEF SettleOrphan, TypeInv, HasRequest, HasOrphan, handlerVars
  <2> QED
    BY <2>3, <2>4 DEF TypeInv
<1>6. CASE OrphanSettled
  <2>1. TypeOK'
    BY <1>6, DeliveryAssumption DEF OrphanSettled, TypeInv, TypeOK, HasOrphan, Steps,
      hookdeckVars, processVars, handlerVars, ledgerVars, historyVars
  <2>2. HasRequest' /\ HasOrphan'
    BY <1>6 DEF OrphanSettled, TypeInv, TypeOK, HasRequest, HasOrphan, handlerVars
  <2> QED
    BY <2>1, <2>2 DEF TypeInv
<1>7. CASE Serve
  <2>1. TypeOK'
    BY <1>7, DeliveryAssumption DEF Serve, TypeInv, TypeOK, HasOrphan, Steps, recoveryVars,
      hookdeckVars, processVars, handlerVars, ledgerVars, historyVars
  <2>2. HasRequest' /\ HasOrphan'
    BY <1>7 DEF Serve, TypeInv, HasRequest, HasOrphan, handlerVars, recoveryVars
  <2> QED
    BY <2>1, <2>2 DEF TypeInv
<1> QED
  BY <1>1, <1>2, <1>3, <1>4, <1>5, <1>6, <1>7 DEF Reconcile

LEMMA TypeStep == TypeInv /\ [Next]_vars => TypeInv'
<1> SUFFICES ASSUME TypeInv, [Next]_vars
             PROVE  TypeInv'
  OBVIOUS
<1>1. CASE External
  BY <1>1, ExternalType
<1>2. CASE Store
  BY <1>2, StoreType
<1>3. CASE Boot
  BY <1>3, BootType
<1>4. CASE Reconcile
  BY <1>4, ReconcileType
<1>5. ASSUME NEW h \in Handlers, Handler(h)
      PROVE  TypeInv'
  BY <1>5, HandlerType
<1>6. CASE UNCHANGED vars
  BY <1>6 DEF vars, hookdeckVars, processVars, handlerVars, ledgerVars,
    recoveryVars, historyVars, TypeInv, TypeOK, HasRequest, HasOrphan
<1> QED
  BY <1>1, <1>2, <1>3, <1>4, <1>5, <1>6 DEF Next

\* Every variable keeps its type: in particular every row the ledger holds, in
\* memory and on disk, is a proper row, whatever headers the deliveries carried.
THEOREM TypeCorrect == Spec => []TypeOK
<1>1. Init => TypeInv
  BY TypeInit
<1>2. TypeInv /\ [Next]_vars => TypeInv'
  BY TypeStep
<1>3. TypeInv => TypeOK
  BY DEF TypeInv
<1> QED
  BY <1>1, <1>2, <1>3, PTL DEF Spec

-------------------------------------------------------------------------------
(***************************************************************************)
(* Slots.  The registry is the set of events being worked on, so taking a  *)
(* slot for an event that is not in it keeps one handler per event, and    *)
(* giving one back cannot take another handler's away.                     *)
(***************************************************************************)
SlotInv == /\ OneHandlerPerEvent
           /\ SlotsAccountedFor
           /\ IsFiniteSet(inFlight)

IsWorking(h) == pc[h] \in Working

\* A step that leaves the registry, who works and on what.
LEMMA SlotsUntouched ==
  ASSUME SlotInv, inFlight' = inFlight,
         \A h \in Handlers : IsWorking(h)' <=> IsWorking(h),
         \A h \in Handlers : IsWorking(h) => req'[h] = req[h]
  PROVE  SlotInv'
<1>1. OneHandlerPerEvent'
  BY DEF SlotInv, OneHandlerPerEvent, IsWorking
<1>2. {req'[h].event : h \in {x \in Handlers : pc'[x] \in Working}}
        = {req[h].event : h \in {x \in Handlers : pc[x] \in Working}}
  BY DEF IsWorking
<1>3. SlotsAccountedFor'
  BY <1>2 DEF SlotInv, SlotsAccountedFor
<1> QED
  BY <1>1, <1>3 DEF SlotInv

\* The verdict lets a request through only past a free slot of its own.
LEMMA BeginNeedsSlot ==
  ASSUME NEW r, NEW canAccept \in BOOLEAN, Verdict(r, canAccept) = "begin"
  PROVE  r.event \notin inFlight /\ ~AtCapacity
<1>1. ASSUME r.event \in inFlight
      PROVE  Verdict(r, canAccept) = "retry"
  BY <1>1, Zenon DEF Verdict
<1>2. ASSUME r.event \notin inFlight, AtCapacity
      PROVE  Verdict(r, canAccept) = "retry"
  BY <1>2, Zenon DEF Verdict
<1>3. "retry" # "begin"
  OBVIOUS
<1> QED
  BY <1>1, <1>2, <1>3, Zenon

LEMMA SlotAdmit ==
  ASSUME TypeInv, SlotInv, NEW h \in Handlers, NEW canAccept \in BOOLEAN,
         Admit(h, canAccept)
  PROVE  SlotInv'
<1> DEFINE e == req[h].event
<1>1. /\ e \notin inFlight /\ ~AtCapacity
      /\ inFlight' = inFlight \cup {e} /\ req' = req
      /\ ~IsWorking(h) /\ pc' = [pc EXCEPT ![h] = "beginning"]
  BY BeginNeedsSlot DEF Admit, IsWorking, Working
<1>2. /\ IsWorking(h)'
      /\ \A g \in Handlers : g # h => (IsWorking(g)' <=> IsWorking(g))
  BY <1>1 DEF IsWorking, Working, TypeInv, TypeOK
<1>3. \A g \in Handlers : IsWorking(g) => req[g].event \in inFlight
  BY DEF SlotInv, SlotsAccountedFor, IsWorking
<1>4. OneHandlerPerEvent'
  BY <1>1, <1>2, <1>3 DEF SlotInv, OneHandlerPerEvent, IsWorking
<1>5. inFlight' = {req'[g].event : g \in {x \in Handlers : pc'[x] \in Working}}
  BY <1>1, <1>2 DEF SlotInv, SlotsAccountedFor, IsWorking
<1>6. IsFiniteSet(inFlight') /\ Cardinality(inFlight') = Cardinality(inFlight) + 1
  BY <1>1, FS_AddElement DEF SlotInv
<1>7. Cardinality(inFlight) \in Nat
  BY FS_CardinalityType DEF SlotInv
<1>8. Cardinality(inFlight') <= MaxConcurrent
  BY <1>1, <1>6, <1>7, DeliveryAssumption DEF AtCapacity
<1> QED
  BY <1>4, <1>5, <1>6, <1>8 DEF SlotInv, SlotsAccountedFor

\* A handler answers, and finally gives its slot back.
LEMMA SlotFreed ==
  ASSUME TypeInv, SlotInv, NEW h \in Handlers, pc[h] \in Working,
         inFlight' = inFlight \ {req[h].event}, req' = req,
         pc' = [pc EXCEPT ![h] = "answered"]
  PROVE  SlotInv'
<1> DEFINE e == req[h].event
<1>1. IsWorking(h)
  BY DEF IsWorking
<1>2. /\ ~IsWorking(h)'
      /\ \A g \in Handlers : g # h => (IsWorking(g)' <=> IsWorking(g))
  BY <1>1 DEF IsWorking, Working, TypeInv, TypeOK
<1>3. \A g \in Handlers : IsWorking(g) /\ g # h => req[g].event # e
  BY <1>1 DEF SlotInv, OneHandlerPerEvent, IsWorking
<1>4. OneHandlerPerEvent'
  BY <1>1, <1>2 DEF SlotInv, OneHandlerPerEvent, IsWorking
<1>5. inFlight' = {req'[g].event : g \in {x \in Handlers : pc'[x] \in Working}}
  BY <1>1, <1>2, <1>3 DEF SlotInv, SlotsAccountedFor, IsWorking
<1>6. e \in inFlight
  BY <1>1 DEF SlotInv, SlotsAccountedFor, IsWorking
<1>7. IsFiniteSet(inFlight') /\ Cardinality(inFlight') = Cardinality(inFlight) - 1
  BY <1>1, <1>6, FS_RemoveElement DEF SlotInv
<1>8. Cardinality(inFlight) \in Nat /\ Cardinality(inFlight) <= MaxConcurrent
  BY FS_CardinalityType DEF SlotInv, SlotsAccountedFor
<1>9. Cardinality(inFlight') <= MaxConcurrent
  BY <1>7, <1>8, DeliveryAssumption
<1> QED
  BY <1>4, <1>5, <1>7, <1>9 DEF SlotInv, SlotsAccountedFor

LEMMA SlotCrash ==
  ASSUME SlotInv, Crash
  PROVE  SlotInv'
<1>1. inFlight' = {} /\ \A h \in Handlers : ~IsWorking(h)'
  BY DEF Crash, IsWorking, Working
<1>2. OneHandlerPerEvent'
  BY <1>1 DEF OneHandlerPerEvent, IsWorking
<1>3. inFlight' = {req'[g].event : g \in {x \in Handlers : pc'[x] \in Working}}
  BY <1>1 DEF IsWorking
<1>4. IsFiniteSet(inFlight') /\ Cardinality(inFlight') = 0
  BY <1>1, FS_EmptySet
<1> QED
  BY <1>2, <1>3, <1>4, DeliveryAssumption DEF SlotInv, SlotsAccountedFor

LEMMA SlotExternal ==
  ASSUME TypeInv, SlotInv, External
  PROVE  SlotInv'
<1>1. ASSUME NEW e \in Events, NEW h \in Handlers, Deliver(e, h)
      PROVE  SlotInv'
  BY <1>1, SlotsUntouched DEF Deliver, IsWorking, Working, TypeInv, TypeOK
<1>2. ASSUME NEW e \in Events, NEW h \in Handlers, DeliverCopy(e, h)
      PROVE  SlotInv'
  BY <1>2, SlotsUntouched DEF DeliverCopy, IsWorking, Working, TypeInv, TypeOK
<1>3. ASSUME NEW e \in Events,
             DeliverWhileAway(e) \/ AttemptTimesOut(e) \/ ManualRetry(e)
      PROVE  SlotInv'
  BY <1>3, SlotsUntouched
  DEF DeliverWhileAway, AttemptTimesOut, ManualRetry, handlerVars, IsWorking
<1>4. CASE Crash
  BY <1>4, SlotCrash
<1> QED
  BY <1>1, <1>2, <1>3, <1>4 DEF External, HookdeckActs

LEMMA SlotPipeline ==
  ASSUME TypeInv, SlotInv, NEW h \in Handlers, NEW canAccept \in BOOLEAN,
         Pipeline(h, canAccept)
  PROVE  SlotInv'
<1> USE DEF IsWorking, Working
<1>1. CASE RejectEarly(h)
  BY <1>1, SlotsUntouched DEF RejectEarly, TypeInv, TypeOK
<1>2. CASE TurnAway(h, canAccept)
  BY <1>2, SlotsUntouched DEF TurnAway, TypeInv, TypeOK
<1>3. CASE Admit(h, canAccept)
  BY <1>3, SlotAdmit
<1>4. CASE SettleAfterThrow(h)
  BY <1>4, SlotsUntouched DEF SettleAfterThrow, TypeInv, TypeOK
<1>5. CASE Release(h)
  BY <1>5, SlotFreed DEF Release
<1>6. CASE RecordDeadLetter(h)
  BY <1>6, SlotsUntouched DEF RecordDeadLetter, TypeInv, TypeOK
<1>7. CASE Respond(h)
  BY <1>7, SlotsUntouched DEF Respond, TypeInv, TypeOK
<1> QED
  BY <1>1, <1>2, <1>3, <1>4, <1>5, <1>6, <1>7 DEF Pipeline

\* The dispatcher is called and returns, and the handler keeps its slot.
LEMMA SlotDispatch ==
  ASSUME TypeInv, SlotInv, NEW h \in Handlers,
         Dispatch(h) \/ DispatchThrows(h) \/ \E a \in Answers : DispatchReturns(h, a)
  PROVE  SlotInv'
<1> USE DEF IsWorking, Working
<1>1. CASE Dispatch(h)
  BY <1>1, SlotsUntouched DEF Dispatch, TypeInv, TypeOK
<1>2. CASE DispatchThrows(h)
  BY <1>2, SlotsUntouched DEF DispatchThrows, TypeInv, TypeOK
<1>3. ASSUME NEW a \in Answers, DispatchReturns(h, a)
      PROVE  SlotInv'
  BY <1>3, SlotsUntouched DEF DispatchReturns, TypeInv, TypeOK
<1> QED
  BY <1>1, <1>2, <1>3

LEMMA SlotHandler ==
  ASSUME TypeInv, SlotInv, NEW h \in Handlers, Handler(h)
  PROVE  SlotInv'
  BY SlotPipeline, SlotDispatch DEF Handler

LEMMA SlotStep == TypeInv /\ SlotInv /\ [Next]_vars => SlotInv'
<1> SUFFICES ASSUME TypeInv, SlotInv, [Next]_vars
             PROVE  SlotInv'
  OBVIOUS
<1>1. ASSUME UNCHANGED handlerVars
      PROVE  SlotInv'
  BY <1>1, SlotsUntouched DEF handlerVars, IsWorking
<1>2. CASE External
  BY <1>2, SlotExternal
<1>3. CASE Store
  BY <1>1, <1>3 DEF Store, WriteDone, WriteFails
<1>4. CASE Boot
  BY <1>1, <1>4 DEF Boot
<1>5. CASE Reconcile
  BY <1>1, <1>5 DEF Reconcile, RecordSkipped, RetryAccepted, RetryRefused,
    RecordRefused, SettleOrphan, OrphanSettled, Serve
<1>6. ASSUME NEW h \in Handlers, Handler(h)
      PROVE  SlotInv'
  BY <1>6, SlotHandler
<1>7. CASE UNCHANGED vars
  BY <1>1, <1>7 DEF vars
<1> QED
  BY <1>2, <1>3, <1>4, <1>5, <1>6, <1>7 DEF Next

LEMMA SlotInit == Init => SlotInv
<1> SUFFICES ASSUME Init PROVE SlotInv
  OBVIOUS
<1>1. IsFiniteSet(inFlight) /\ Cardinality(inFlight) = 0
  BY FS_EmptySet DEF Init
<1>2. inFlight = {} /\ \A h \in Handlers : ~IsWorking(h)
  BY DEF Init, IsWorking, Working
<1>3. OneHandlerPerEvent
  BY <1>2 DEF OneHandlerPerEvent, IsWorking
<1>4. SlotsAccountedFor
  BY <1>1, <1>2, DeliveryAssumption DEF SlotsAccountedFor, IsWorking
<1> QED
  BY <1>1, <1>3, <1>4 DEF SlotInv

LEMMA SlotSafety == Spec => []SlotInv
<1>1. Init => TypeInv /\ SlotInv
  BY TypeInit, SlotInit
<1>2. TypeInv /\ SlotInv /\ [Next]_vars => TypeInv' /\ SlotInv'
  BY TypeStep, SlotStep
<1> QED
  BY <1>1, <1>2, PTL DEF Spec

\* However many requests arrive together, retries and copies included, at most
\* one handler works on an event.
THEOREM WorkIsExclusive == Spec => []OneHandlerPerEvent
<1>1. SlotInv => OneHandlerPerEvent
  BY DEF SlotInv
<1> QED
  BY <1>1, SlotSafety, PTL

\* No path through the pipeline leaks a slot, returns one early, or takes more
\* than the configured number.
THEOREM SlotsExact == Spec => []SlotsAccountedFor
<1>1. SlotInv => SlotsAccountedFor
  BY DEF SlotInv
<1> QED
  BY <1>1, SlotSafety, PTL
===============================================================================
