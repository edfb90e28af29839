-------------------------- MODULE ContractProperties --------------------------
(***************************************************************************)
(* What the two sides of the contract promise: no event is given up that   *)
(* could still succeed, none is dropped unsaid, none is acted upon twice,  *)
(* and the connection is the one the configuration asks for.               *)
(***************************************************************************)
EXTENDS Contract

\* The variables stay in their domains.
ContractTypeOK ==
  /\ config \in Configs
  /\ connection \in Connections /\ fingerprint \in ConnectionSpecs \cup {NoFingerprint}
  /\ doubts \subseteq {"lost", "edited"}
  /\ fate \in [Events -> Fates] /\ manual \subseteq Events
  /\ attempt \in [Events -> Nat \ {0}]
  /\ \A e \in Events : answer[e].plan \in Plans /\ ledger[e] \in Rows \cup {NoRow}
  /\ flows \in [Flows -> FlowRows]
  /\ \A e \in Events : recording[e].stage \in {"none", "put", "evicting"}
  /\ \A e \in Events : recording[e].stage # "none" => fate[e] = "answering"

\* Would the event be acted upon under configuration c, its connection in step with
\* it, as the flows are now?
CouldSucceed(e, c) ==
  LET ready   == [connection EXCEPT !.path = c.path, !.signing = TRUE,
                                    !.secrets = <<c.secret>>]
      handled == RunPipeline(request[e], ready, c, "calm", flows, NoRow, 1)
  IN  handled.plan.code \in {"dispatched", "cancel_pending"}

\* outcome.ts CANCEL_REASONS: what was cancelled would fail under every
\* configuration and on every later attempt, whatever becomes of the flows.  The code
\* does not keep this.
CancelledIsHopeless ==
  \A e \in Events : fate[e] = "retired" => \A c \in ConfigChoices : ~CouldSucceed(e, c)

\* What it keeps: of what was cancelled only an action the route did not allow, which
\* an operator can allow, and an envelope for a revision the flow had yet to reach,
\* which it may reach, could still succeed.
OnlyForbiddenOrEarlyRevive ==
  \A e \in Events :
    fate[e] = "retired" /\ (\E c \in ConfigChoices : CouldSucceed(e, c)) =>
      answer[e].plan.code = "forbidden_action" \/ e \in early

\* outcome.ts RETRYABLE_STATUSES: Hookdeck drops an event it was not told to drop only
\* for a status that the provisioned rule covers and the connection's, which somebody
\* narrowed, does not; or if the answer was to be a cancellation and the kill switch
\* is on.
RetryableIsRetried ==
  \A e \in Events :
    fate[e] = "unretried" /\ answer[e].plan.retry # "cancel" =>
      /\ Covers(RetryableStatusCodes, answer[e].plan.status)
      /\ ~Covers(droppedUnder[e], answer[e].plan.status)

\* provision.ts uncoveredStatuses: of a rule that drops what we answer the doctor says
\* so.  The code does not keep this.
DoctorIsRight ==
  \A e \in Events :
    fate[e] = "unretried" /\ answer[e].plan.retry # "cancel" =>
      ~DoctorFindsRule(droppedUnder[e])

\* What it keeps: the doctor lets such a rule pass only if the status is a server error
\* and the rule has some of their range and not the whole, which it takes for the whole.
OnlyServerRangeFoolsDoctor ==
  \A e \in Events :
    /\ fate[e] = "unretried" /\ answer[e].plan.retry # "cancel"
    /\ DoctorFindsRule(droppedUnder[e])
    => /\ answer[e].plan.status >= 500
       /\ \E code \in droppedUnder[e] : IsServerRange(code) /\ code # ServerRange

\* handler.ts recordDeadLetter: whatever Hookdeck gives up on after a verified
\* delivery, by our word or for want of attempts, is on file for that attempt, and
\* the file says which of the two.
LostIsRecorded ==
  \A e \in Events :
    (/\ fate[e] \in {"retired", "exhausted"}
     /\ answer[e].verified /\ ~Succeeds(answer[e].plan) /\ ~answer[e].lost) =>
         \E row \in filed :
           /\ row.entry.event = e /\ row.entry.attempt = attempt[e]
           /\ row.entry.retriesCancelled <=> fate[e] = "retired"

\* deadletter.ts record: once nobody is recording, the log is as full as it may be
\* and what it let go is no newer than what it kept, however the records overlap.
LogKeepsNewest ==
  (\A e \in Events : recording[e].stage = "none") =>
    /\ Cardinality(log) =
         IF Cardinality(filed) < MaxEntries THEN Cardinality(filed) ELSE MaxEntries
    /\ \A gone \in filed \ log, row \in log : gone.createdAt <= row.createdAt

\* handler.ts, taskflow.ts, wake.ts: what was done for an event is answered as done.
\* It is done again only if that answer was lost or somebody replayed it, and a
\* mutation of a flow not even then; nor is it given up on as a failure.
ActedUponOnce ==
  \A e \in Events :
    /\ done[e] <= 1 + reruns[e]
    /\ request[e].route = "taskflow" /\ request[e].envelope.action \in Mutations =>
         done[e] <= 1
    /\ fate[e] \in {"retired", "unretried"} /\ done[e] > 0 => reruns[e] > 0

\* manager.ts provision, setup.ts: the fingerprint in the cursor row is the one of
\* the live connection, unless the reply of an upsert was lost or the connection
\* was edited since.
ConnectionMatchesConfig ==
  fingerprint # NoFingerprint /\ doubts = {} => SpecOf(connection) = fingerprint

\* setup.ts: a verified source stays verified, unless the configuration drops the
\* verification or the service starts without the credentials.
VerificationStays ==
  [][connection.auth /\ ~connection'.auth =>
       ~config'.verification \/ left'.restarts < left.restarts]_vars
===============================================================================
