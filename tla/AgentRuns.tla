------------------------------- MODULE AgentRuns -------------------------------
(***************************************************************************)
(* The agent dispatcher (src/dispatch/agent.ts) behind the pipeline of     *)
(* Delivery.  A run may outlive its request: the answer is then 202, the   *)
(* row stays running, and a background waiter settles it, asks Hookdeck to *)
(* redeliver what failed, and records what it gives up.                    *)
(***************************************************************************)
EXTENDS Delivery

CONSTANTS
  MaxRuns,           \* options.maxConcurrentRuns, and as many Waiters
  MaxAgentRetries,   \* options.maxAgentRetries
  Observable,        \* the runner has waitFor
  Sync,              \* ackMode is "sync"
  RunsMayBeLost      \* a wait in the background may throw

ASSUME AgentAssumption ==
  /\ IsFiniteSet(Waiters)
  /\ MaxRuns \in Nat \ {0} /\ Cardinality(Waiters) = MaxRuns
  /\ MaxAgentRetries \in Nat
  /\ {Observable, Sync, RunsMayBeLost} \subseteq BOOLEAN

VARIABLES
  activeRuns,        \* the dispatcher's counter
  run,               \* what each waiter awaits, for which event and retry count
  stranded           \* history: events whose waiter died after its run ended

agentVars == <<activeRuns, run, stranded>>
allVars   == <<vars, agentVars>>

NoRun == [at |-> "off", event |-> NoEvent, attempted |-> 0]

\* The waiter's program counter names what it awaits.
RunSteps == {"off", "waiting", "failing", "losing", "unanswered", "exhausting", "ending"}

AgentInit ==
  /\ Init
  /\ activeRuns = 0 /\ run = [w \in Waiters |-> NoRun]
  /\ stranded = {}

CanAccept == activeRuns < MaxRuns

-------------------------------------------------------------------------------
(* dispatch(), called by a handler whose row is written.                    *)

\* Mutation: settle is "deferred", though no run will ever settle the row.
BusyDefers(h) ==
  /\ pc[h] = "beginning" /\ ~Writing(h)
  /\ ~CanAccept
  /\ answer' = [answer EXCEPT ![h] = "retry"]
  /\ pc' = [pc EXCEPT ![h] = "settling"]
  /\ UNCHANGED <<hookdeckVars, processVars, req, inFlight, ledgerVars, deadLetter,
                 recoveryVars, historyVars, agentVars>>

\* Other deliveries took the last slot since canAccept was asked.
Busy(h) ==
  /\ pc[h] = "beginning" /\ ~Writing(h)
  /\ ~CanAccept
  /\ Settle(req[h].event, "failed", h)
  /\ answer' = [answer EXCEPT ![h] = "retry"]
  /\ pc' = [pc EXCEPT ![h] = "settling"]
  /\ UNCHANGED <<hookdeckVars, processVars, req, inFlight, disk, persistence,
                 deadLetter, recoveryVars, historyVars, agentVars>>

\* The prompt or the session key cannot be built.
InvalidInput(h) ==
  /\ pc[h] = "beginning" /\ ~Writing(h)
  /\ CanAccept
  /\ Settle(req[h].event, "failed", h)
  /\ answer' = [answer EXCEPT ![h] = "cancel"]
  /\ pc' = [pc EXCEPT ![h] = "settling"]
  /\ UNCHANGED <<hookdeckVars, processVars, req, inFlight, disk, persistence,
                 deadLetter, recoveryVars, historyVars, agentVars>>

\* Mutation: dispatch relies on canAccept alone.
StartUnchecked(h) ==
  /\ Dispatch(h)
  /\ activeRuns' = activeRuns + 1
  /\ UNCHANGED <<run, stranded>>

StartRun(h) ==
  /\ CanAccept
  /\ Dispatch(h)
  /\ activeRuns' = activeRuns + 1
  /\ UNCHANGED <<run, stranded>>

\* The run did not start, ended while the response was held, or cannot be
\* observed and counts as done.  finally gives the slot back.
RunReturns(h, a) ==
  /\ a = "ok" => Sync \/ ~Observable
  /\ a # "cancel"
  /\ DispatchReturns(h, a)
  /\ activeRuns' = activeRuns - 1
  /\ UNCHANGED <<run, stranded>>

StartThrows(h) ==
  /\ DispatchThrows(h)
  /\ activeRuns' = activeRuns - 1
  /\ UNCHANGED <<run, stranded>>

\* Mutation: finally gives back a slot the waiter will give back as well.
BackgroundGivesSlotBack(h, w) ==
  /\ Observable
  /\ pc[h] = "dispatching" /\ run[w].at = "off"
  /\ run' = [run EXCEPT ![w] =
               [at |-> "waiting", event |-> req[h].event, attempted |-> 0]]
  /\ activeRuns' = activeRuns - 1
  /\ answer' = [answer EXCEPT ![h] = "ok"]
  /\ inFlight' = inFlight \ {req[h].event}
  /\ pc' = [pc EXCEPT ![h] = "answered"]
  /\ UNCHANGED <<hookdeckVars, processVars, req, ledgerVars, deadLetter,
                 recoveryVars, historyVars, stranded>>

\* Acknowledged while the run goes on, at once or after the time-out of sync
\* mode.  The row is deferred: the waiter owns it, and the slot of the run.
GoesBackground(h, w) ==
  /\ Observable
  /\ pc[h] = "dispatching" /\ run[w].at = "off"
  /\ run' = [run EXCEPT ![w] =
               [at |-> "waiting", event |-> req[h].event, attempted |-> 0]]
  /\ answer' = [answer EXCEPT ![h] = "ok"]
  /\ inFlight' = inFlight \ {req[h].event}
  /\ pc' = [pc EXCEPT ![h] = "answered"]
  /\ UNCHANGED <<hookdeckVars, processVars, req, ledgerVars, deadLetter,
                 recoveryVars, historyVars, activeRuns, stranded>>

-------------------------------------------------------------------------------
(* settleAfterRun.                                                          *)

SettleCounting(e, status, retries, by) ==
  IF mem[e] = NoRow THEN UNCHANGED <<mem, writes>>
  ELSE Put(e, [SettleRow(mem[e], status) EXCEPT !.agentRetries = retries], by)

Goes(w, at) == run' = [run EXCEPT ![w].at = at]

RunSucceeds(w) ==
  /\ run[w].at = "waiting"
  /\ Settle(run[w].event, "succeeded", w)
  /\ completed' = completed \cup {run[w].event}
  /\ Goes(w, "ending")
  /\ UNCHANGED <<hookdeckVars, processVars, handlerVars, disk, persistence,
                 deadLetter, recoveryVars, ran, requeued, interrupted,
                 activeRuns, stranded>>

\* The run failed, or the wait of an hour is over.
RunFails(w) ==
  LET e         == run[w].event
      attempted == mem[e].agentRetries + 1
      retry     == HasClient /\ attempted <= MaxAgentRetries
  IN  /\ run[w].at = "waiting"
      /\ SettleCounting(e, IF retry THEN "failed" ELSE "exhausted", attempted, w)
      /\ run' = [run EXCEPT ![w].attempted = attempted,
                            ![w].at = IF retry THEN "failing" ELSE "exhausting"]
      /\ UNCHANGED <<hookdeckVars, processVars, handlerVars, disk, persistence,
                     deadLetter, recoveryVars, historyVars, activeRuns,
                     stranded>>

\* The wait throws: the catch block settles the row and counts nothing.
RunLost(w) ==
  /\ RunsMayBeLost
  /\ run[w].at = "waiting"
  /\ Settle(run[w].event, "failed", w)
  /\ Goes(w, "losing")
  /\ UNCHANGED <<hookdeckVars, processVars, handlerVars, disk, persistence,
                 deadLetter, recoveryVars, historyVars, activeRuns,
                 stranded>>

\* The row is closed: Hookdeck is asked to redeliver, and makes one more
\* attempt once none is outstanding.  A waiter that does not hear of it takes
\* the call for refused.
RetryTaken(w, heard) ==
  LET e == run[w].event
  IN  /\ run[w].at \in {"failing", "losing"} /\ ~Writing(w)
      /\ HasClient /\ attempts[e] < MaxAttempts /\ hookdeck[e] # "delivering"
      /\ hookdeck' = [hookdeck EXCEPT ![e] = "queued"]
      /\ Goes(w, IF heard THEN "ending" ELSE "unanswered")
      /\ UNCHANGED <<attempts, processVars, handlerVars, ledgerVars, deadLetter,
                     recoveryVars, historyVars, activeRuns, stranded>>

\* Mutation: a retry that is refused ends the matter.
RefusalEndsRun(w) ==
  /\ run[w].at \in {"failing", "losing", "unanswered"} /\ ~Writing(w)
  /\ Goes(w, "ending")
  /\ UNCHANGED <<vars, activeRuns, stranded>>

\* Mutation: only the first settle of the catch block is written.
GiveUpIfCounted(w) ==
  LET e == run[w].event
  IN  /\ run[w].at \in {"failing", "unanswered"} /\ ~Writing(w)
      /\ run[w].attempted # 0
      /\ SettleCounting(e, "exhausted", run[w].attempted, w)
      /\ Goes(w, "exhausting")
      /\ UNCHANGED <<hookdeckVars, processVars, handlerVars, disk, persistence,
                     deadLetter, recoveryVars, historyVars, activeRuns,
                     stranded>>

\* Refused, unanswered, or nobody to ask: the row is exhausted, with the retry
\* count taken when the run failed, if one was.
GiveUp(w) ==
  LET e == run[w].event
  IN  /\ run[w].at \in {"failing", "losing", "unanswered"} /\ ~Writing(w)
      /\ IF run[w].attempted = 0
         THEN Settle(e, "exhausted", w)
         ELSE SettleCounting(e, "exhausted", run[w].attempted, w)
      /\ Goes(w, "exhausting")
      /\ UNCHANGED <<hookdeckVars, processVars, handlerVars, disk, persistence,
                     deadLetter, recoveryVars, historyVars, activeRuns,
                     stranded>>

RecordRun(w) ==
  /\ run[w].at = "exhausting" /\ ~Writing(w)
  /\ deadLetter' = deadLetter \cup {run[w].event}
  /\ Goes(w, "ending")
  /\ UNCHANGED <<hookdeckVars, processVars, handlerVars, ledgerVars, recoveryVars,
                 historyVars, activeRuns, stranded>>

\* finally gives the slot of the run back.
RunEnds(w) ==
  /\ run[w].at = "ending" /\ ~Writing(w)
  /\ run' = [run EXCEPT ![w] = NoRun]
  /\ activeRuns' = activeRuns - 1
  /\ UNCHANGED <<vars, stranded>>

\* Waiters and counter die with the process.
CrashWithRuns ==
  /\ Crash
  /\ activeRuns' = 0 /\ run' = [w \in Waiters |-> NoRun]
  /\ stranded' = stranded \cup
       {run[w].event : w \in {x \in Waiters : run[x].at \notin {"off", "waiting"}}}

-------------------------------------------------------------------------------
Waiter(w) ==
  \/ RunSucceeds(w) \/ RunFails(w) \/ RunLost(w)
  \/ \E heard \in BOOLEAN : RetryTaken(w, heard)
  \/ GiveUp(w) \/ RecordRun(w) \/ RunEnds(w)

AgentHandler(h) ==
  \/ Pipeline(h, CanAccept) /\ UNCHANGED agentVars
  \/ Busy(h) \/ InvalidInput(h) \/ StartRun(h) \/ StartThrows(h)
  \/ \E a \in Answers : RunReturns(h, a)
  \/ \E w \in Waiters : GoesBackground(h, w)

AgentNext ==
  \/ (HookdeckActs \/ Store \/ Boot \/ Reconcile) /\ UNCHANGED agentVars
  \/ CrashWithRuns
  \/ \E h \in Handlers : AgentHandler(h)
  \/ \E w \in Waiters : Waiter(w)

AgentSpec == AgentInit /\ [][AgentNext]_allVars

\* The disk answers, promise callbacks run, and a background wait comes to an
\* end: it is bounded by BACKGROUND_WAIT_MS.
AgentFairness ==
  /\ WF_allVars(Store /\ UNCHANGED agentVars)
  /\ \A w \in Waiters : WF_allVars(Waiter(w))

FairAgentSpec == AgentSpec /\ AgentFairness

-------------------------------------------------------------------------------
(* Properties.                                                              *)

AgentTypeOK ==
  /\ activeRuns \in Nat
  /\ run \in [Waiters -> [at : RunSteps, event : Events \cup {NoEvent}, attempted : Nat]]
  /\ stranded \subseteq Events

Dispatching == {h \in Handlers : pc[h] = "dispatching"}
AtWork      == {w \in Waiters : run[w].at # "off"}

\* The counter is exactly the runs started inside requests and the waiters of
\* those that outlived theirs: no path leaks a slot, none gives one back twice,
\* and the limit on runs holds although canAccept was asked before an await.
RunSlotsExact ==
  /\ activeRuns = Cardinality(Dispatching) + Cardinality(AtWork)
  /\ activeRuns <= MaxRuns

\* A running row of the live instance has a handler or a waiter that will
\* settle it; any other is beyond the reach of the reconciliation.
NoWedgedRun ==
  \A e \in Events :
    phase = "serving" /\ mem[e].status = "running" /\ mem[e].owner = instance =>
      \/ \E h \in Handlers : pc[h] \in Working /\ req[h].event = e
      \/ \E w \in AtWork : run[w].event = e

\* An event answered 2xx can still be told of.
Traced(e) ==
  \/ e \in completed \cup Filtered \cup deadLetter
  \/ mem[e].status = "running" \/ disk[e].status = "running"
  \/ \E w \in AtWork : run[w].event = e

\* agent.ts: "Losing the event here would leave no Issue and no local record -
\* the exact gap the dead-letter log exists to cover."
RunsAreTraced == \A e \in Events : hookdeck[e] = "acknowledged" => Traced(e)

\* The only acknowledged events without a trace are those whose waiter died
\* between closing the row and handing the event back or recording it.
OnlyStrandedRunsVanish ==
  \A e \in Events : hookdeck[e] = "acknowledged" => Traced(e) \/ e \in stranded

\* Every background run is settled and gives its slot back, or its process dies.
EveryRunConcludes == \A w \in Waiters : run[w].at # "off" ~> run[w].at = "off"
===============================================================================
