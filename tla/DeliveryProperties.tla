-------------------------- MODULE DeliveryProperties --------------------------
(***************************************************************************)
(* What the delivery path of the Gateway promises.                         *)
(***************************************************************************)
EXTENDS Delivery

\* Every variable has its type.
TypeOK ==
  /\ hookdeck \in [Events -> HookdeckStates]
  /\ attempts \in [Events -> Nat]
  /\ phase \in {"down", "booting", "serving"} /\ instance \in Nat
  /\ pc \in [Handlers -> PCs]
  /\ req \in [Handlers -> Requests \cup {NoRequest}]
  /\ answer \in [Handlers -> Answers \cup {"none"}]
  /\ inFlight \subseteq Events
  /\ mem \in [Events -> Rows \cup {NoRow}]
  /\ disk \in [Events -> Rows \cup {NoRow}]
  /\ writes \in Seq(Jobs)
  /\ persistence \in {"active", "disabled"}
  /\ deadLetter \subseteq Events
  /\ todo \subseteq Events /\ current \in Events \cup {NoEvent}
  /\ step \in Steps /\ budget \in Nat
  /\ ran \subseteq Runs /\ completed \subseteq Events
  /\ requeued \subseteq Runs /\ interrupted \subseteq Runs

-------------------------------------------------------------------------------
(* Admission control.                                                       *)

\* Two activations of the handler never work on one event at the same time:
\* the in-flight check and the slot taken make one synchronous step.
OneHandlerPerEvent ==
  \A g, h \in Handlers :
    pc[g] \in Working /\ pc[h] \in Working /\ req[g].event = req[h].event => g = h

\* The registry holds exactly the events being worked on: no path through the
\* pipeline leaks a slot or gives one back early, and capacity is respected.
SlotsAccountedFor ==
  /\ inFlight = {req[h].event : h \in {x \in Handlers : pc[x] \in Working}}
  /\ Cardinality(inFlight) <= MaxConcurrent

-------------------------------------------------------------------------------
(* The ledger.                                                              *)

\* begin is awaited: while a dispatcher works, a crash at any moment leaves a
\* running row of this instance and this attempt for the next boot to find,
\* unless the store has degraded to memory.
DurableBeforeDispatch ==
  \A h \in Handlers :
    pc[h] = "dispatching" /\ persistence = "active" =>
      LET row == disk[req[h].event]
      IN  /\ row.status = "running" /\ row.owner = instance
          /\ row.attempt >= PlausibleAttempt(Header(req[h]))

\* A running row of the live instance has a handler at work on it.  Any other
\* would be invisible to listOrphans and count as in flight for ever.
NoWedgedRow ==
  \A e \in Events :
    phase = "serving" /\ mem[e].status = "running" /\ mem[e].owner = instance =>
      \E h \in Handlers : pc[h] \in Working /\ req[h].event = e

\* With a disk that works, one attempt is dispatched once: not again when it
\* arrives twice, and not again after any number of crashes and restarts.
AttemptRunsOnce ==
  [][\A h \in Handlers :
       pc[h] = "beginning" /\ pc'[h] = "dispatching" /\ req[h].event \notin Headerless
         => <<req[h].event, req[h].attempt>> \notin ran]_vars

-------------------------------------------------------------------------------
(* Nothing is lost silently.                                                *)

\* Hookdeck redelivers a failed event under its own id: an answer that retires
\* it as a duplicate is only given when the work was done, or when a running
\* row still stands for it, never to a retry of work that failed.
RetryIsNoDuplicate ==
  \A h \in Handlers :
    pc[h] = "answered" /\ answer[h] = "ok" /\ Awaited(req[h]) =>
      \/ req[h].event \in completed \cup Filtered
      \/ mem[req[h].event].status = "running"

\* An event Hookdeck takes for delivered, because we said so, was handled, was dropped
\* by a filter, has a dead-letter record, or still has a running row the next boot
\* recovers.  What we told it to stop is CancelledIsRecorded.
AcknowledgedIsTraced ==
  \A e \in Events :
    hookdeck[e] = "acknowledged" =>
      \/ e \in completed \cup Filtered \cup deadLetter
      \/ mem[e].status = "running" \/ disk[e].status = "running"

\* A cancellation of verified input leaves a local record.
CancelledIsRecorded ==
  "unsupported" \notin EarlyRejections =>
    \A e \in Events : hookdeck[e] = "cancelled" => e \in deadLetter

\* Recovery closes the row of an interrupted run only once Hookdeck has taken
\* it back or a dead-letter record names it, wherever the process dies.
InterruptedIsHandedBack ==
  \A e \in Events :
    /\ <<e, disk[e].attempt>> \in interrupted
    /\ disk[e].status = "failed"
    => <<e, disk[e].attempt>> \in requeued \/ e \in deadLetter

-------------------------------------------------------------------------------
(* Progress.                                                                *)

\* Every request is answered, whatever the disk and the dispatcher do, or its
\* process dies; with SlotsAccountedFor, every slot is given back.
EveryRequestEnds == \A h \in Handlers : pc[h] # "idle" ~> pc[h] = "idle"

\* Interrupted work listed at boot is handed back to Hookdeck or dead-lettered,
\* unless the process dies first.
OrphansAreHandled ==
  \A e \in Events :
    phase = "booting" /\ e \in todo ~>
      \/ e \in deadLetter \/ \E run \in requeued : run[1] = e
      \/ phase = "down"
===============================================================================
