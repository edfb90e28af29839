------------------------------ MODULE Admission ------------------------------
(***************************************************************************)
(* The deduplication rule of src/protocol/admission.ts and the two ledger  *)
(* operations that build rows for it (src/store/ledger.ts).                *)
(*                                                                         *)
(* A row keeps what decisions are taken on: the highest attempt number     *)
(* recorded, the status of the last run, the process instance that wrote   *)
(* it and the redeliveries asked for.  Timestamps, run counts and route    *)
(* ids are left out.                                                       *)
(***************************************************************************)
EXTENDS Integers

CONSTANT MaxPlausibleAttempt    \* MAX_PLAUSIBLE_ATTEMPT, 10000 in the code

ASSUME PlausibleAssumption == MaxPlausibleAttempt \in Nat \ {0}

Statuses == {"running", "succeeded", "failed", "exhausted"}

\* The attempt count of a delivery whose header is absent or unparsable.
NoAttempt == -1

AttemptHeaders == Nat \cup {NoAttempt}

Rows == [attempt : Nat, status : Statuses, owner : Nat, agentRetries : Nat]

\* What get() answers for an event the ledger has never seen.
NoRow == [attempt |-> 0, status |-> "none", owner |-> 0, agentRetries |-> 0]

PlausibleAttempt(header) ==
  IF header > MaxPlausibleAttempt THEN NoAttempt ELSE header

\* The reasons a delivery is let through, and those it is turned away for.
AdmitReasons == {"first_delivery", "attempt_advanced", "previous_failed"}

RejectReason(row) ==
  CASE row.status = "running"   -> "in_flight"
    [] row.status = "succeeded" -> "already_succeeded"
    [] row.status = "exhausted" -> "exhausted"
    [] OTHER                    -> "duplicate_attempt"

\* Two wrong rules, for the mutation runs: identity alone, and >= for >.
DecideByIdentity(row, header) ==
  IF row = NoRow THEN "first_delivery" ELSE RejectReason(row)

DecideAtOrAbove(row, header) ==
  IF row = NoRow \/ (header # NoAttempt /\ header >= row.attempt)
  THEN "attempt_advanced" ELSE RejectReason(row)

DecideAdmission(row, header) ==
  LET attempt == PlausibleAttempt(header)
      known   == attempt # NoAttempt
  IN  CASE row = NoRow                                 -> "first_delivery"
        [] row # NoRow /\ known /\ attempt > row.attempt -> "attempt_advanced"
        [] row # NoRow /\ ~known /\ row.status = "failed" -> "previous_failed"
        [] OTHER                                       -> RejectReason(row)

Admits(row, header) == DecideAdmission(row, header) \in AdmitReasons

(***************************************************************************)
(* ledger.begin and ledger.settle, as functions from the row they read to  *)
(* the row they put.  begin never lowers the recorded attempt and carries  *)
(* the redeliveries over; settle keeps attempt and owner whoever calls it. *)
(***************************************************************************)
\* Mutation: the absent attempt is recorded as it comes.
BeginRowUnchecked(row, header, instance) ==
  [attempt |-> PlausibleAttempt(header), status |-> "running", owner |-> instance,
   agentRetries |-> row.agentRetries]

BeginRow(row, header, instance) ==
  LET plausible == PlausibleAttempt(header)
      attempt   == IF plausible = NoAttempt THEN 1 ELSE plausible
  IN  [attempt      |-> IF attempt > row.attempt THEN attempt ELSE row.attempt,
       status       |-> "running",
       owner        |-> instance,
       agentRetries |-> row.agentRetries]

SettleRow(row, status) == [row EXCEPT !.status = status]

\* listOrphans: a running row some other process instance wrote.
IsOrphan(row, instance) == row.status = "running" /\ row.owner # instance
==============================================================================
