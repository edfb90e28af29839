------------------------------- MODULE Outcome --------------------------------
(***************************************************************************)
(* src/protocol/outcome.ts: the answers the plugin gives and what Hookdeck *)
(* makes of them.  A plan keeps the status, the code and the directive on  *)
(* retries.  The statuses answered for a redelivery and the codes of the   *)
(* connection's retry rule are the two halves of one contract.             *)
(***************************************************************************)
EXTENDS Integers

CancelReasons == {
  "bad_method", "bad_content_type", "too_large", "malformed_json",
  "invalid_envelope", "forbidden_action", "flow_revision_conflict",
  "flow_not_managed", "agent_input_invalid", "signature_cancel_mode"}

\* A failure no status of the contract stands for, for the mutation runs.
RetryableStatusesWithout404 == {400, 401, 408, 409, 429, 500, 502, 503}

RetryableStatuses == {400, 401, 404, 408, 409, 429, 500, 502, 503}

Plan(status, code, retry) == [status |-> status, code |-> code, retry |-> retry]

Ok(code)               == Plan(200, code, "none")
Accepted(code)         == Plan(202, code, "none")
Retryable(status, code) == Plan(status, code, "none")
DeferFor(status, code) == Plan(status, code, "after")

CancelRetries(reason, status) == Plan(status, reason, "cancel")

\* The codes answered otherwise: nothing left to do, or not now.
Codes == CancelReasons \cup {
  "pass", "dispatched", "duplicate", "ignored", "cancel_pending", "unknown_route",
  "body_read_failed", "no_signing_secret", "not_hookdeck", "invalid_signature", "busy",
  "wake_failed", "dispatch_error", "flow_not_found", "persist_failed", "create_rejected",
  "mutation_rejected", "cancel_rejected", "task_not_created"}

Plans == [status : 200 .. 599, code : Codes, retry : {"none", "after", "cancel"}]

Succeeds(plan) == plan.status < 400

\* renderRetryAfterHeader: the kill switch turns a cancellation into no header.
RetryAfterHeader(plan, allowRetryCancel) ==
  IF plan.retry = "cancel" /\ ~allowRetryCancel THEN "none" ELSE plan.retry

(***************************************************************************)
(* A rule code is a range of statuses; "404" is <<404, 404>>.              *)
(***************************************************************************)
ServerRange == <<500, 599>>

RetryableStatusCodes ==
  {<<s, s>> : s \in {r \in RetryableStatuses : r < 500}} \cup {ServerRange}

Covers(rule, status) == \E code \in rule : code[1] <= status /\ status <= code[2]

IsServerRange(code) == code[1] < code[2] /\ code[1] >= 500 /\ code[2] <= 599

\* uncoveredStatuses, provision.ts.  Mutation: any code of the class will do.
UncoveredByClass(rule) ==
  {needed \in RetryableStatusCodes :
     \A code \in rule : code[1] \div 100 # needed[1] \div 100}

Uncovered(rule) ==
  {needed \in RetryableStatusCodes \ rule :
     ~(needed = ServerRange /\ \E code \in rule : IsServerRange(code))}
===============================================================================
