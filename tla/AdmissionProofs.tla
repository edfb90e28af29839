--------------------------- MODULE AdmissionProofs ---------------------------
(***************************************************************************)
(* What the admission rule and the two ledger operations guarantee of any  *)
(* row and any header, and with any bound on plausible attempt numbers.    *)
(***************************************************************************)
EXTENDS Admission, TLAPS

\* A header is either absent or a number; once it has been judged plausible it
\* is one of these and no higher than the bound.
LEMMA PlausibleType ==
  ASSUME NEW header \in AttemptHeaders
  PROVE  /\ PlausibleAttempt(header) \in AttemptHeaders
         /\ PlausibleAttempt(header) <= MaxPlausibleAttempt
  BY PlausibleAssumption DEF PlausibleAttempt, AttemptHeaders, NoAttempt

\* begin writes a proper row whatever it read: its attempt number is a number
\* even when the header is absent or not believed.
LEMMA BeginType ==
  ASSUME NEW row \in Rows \cup {NoRow}, NEW header \in AttemptHeaders,
         NEW instance \in Nat
  PROVE  BeginRow(row, header, instance) \in Rows
<1>1. row.attempt \in Nat /\ row.agentRetries \in Nat
  BY DEF Rows, NoRow
<1>2. PlausibleAttempt(header) \in AttemptHeaders
  BY PlausibleType
<1> QED
  BY <1>1, <1>2 DEF BeginRow, Rows, Statuses, AttemptHeaders, NoAttempt

LEMMA SettleType ==
  ASSUME NEW row \in Rows, NEW status \in Statuses
  PROVE  SettleRow(row, status) \in Rows
  BY DEF SettleRow, Rows

\* The bar only rises: begin never lowers the attempt an event has reached.
THEOREM BeginNeverLowers ==
  ASSUME NEW row \in Rows \cup {NoRow}, NEW header \in AttemptHeaders,
         NEW instance \in Nat
  PROVE  BeginRow(row, header, instance).attempt >= row.attempt
<1>1. row.attempt \in Nat
  BY DEF Rows, NoRow
<1>2. PlausibleAttempt(header) \in AttemptHeaders
  BY PlausibleType
<1> QED
  BY <1>1, <1>2 DEF BeginRow, AttemptHeaders, NoAttempt

\* A header nobody should believe cannot raise the bar above the redeliveries
\* Hookdeck will really make: the row it leaves is bounded.
THEOREM BarStaysPlausible ==
  ASSUME NEW row \in Rows \cup {NoRow}, NEW header \in AttemptHeaders,
         NEW instance \in Nat, row.attempt <= MaxPlausibleAttempt
  PROVE  BeginRow(row, header, instance).attempt <= MaxPlausibleAttempt
<1>1. row.attempt \in Nat
  BY DEF Rows, NoRow
<1>2. /\ PlausibleAttempt(header) \in AttemptHeaders
      /\ PlausibleAttempt(header) <= MaxPlausibleAttempt
  BY PlausibleType
<1> QED
  BY <1>1, <1>2, PlausibleAssumption DEF BeginRow, AttemptHeaders, NoAttempt

\* Once an attempt has begun, neither it nor an older one is admitted again,
\* whatever its run comes to: a number at or below the recorded one is turned
\* away in every status.
THEOREM AdmittedAttemptIsClosed ==
  ASSUME NEW row \in Rows, NEW header \in Nat,
         header <= MaxPlausibleAttempt, header <= row.attempt
  PROVE  ~Admits(row, header)
<1>1. PlausibleAttempt(header) = header /\ header # NoAttempt
  BY PlausibleAssumption DEF PlausibleAttempt, NoAttempt
<1>2. row # NoRow
  BY DEF Rows, NoRow, Statuses
<1>3. row.attempt \in Nat /\ ~(header > row.attempt)
  BY DEF Rows
<1>4. DecideAdmission(row, header) = RejectReason(row)
  BY <1>1, <1>2, <1>3 DEF DecideAdmission
<1>5. RejectReason(row) \notin AdmitReasons
  BY DEF RejectReason, AdmitReasons
<1> QED
  BY <1>4, <1>5 DEF Admits

\* Hookdeck's own retry of a failed run is let through: by its attempt number
\* when the header is there, by the failed status when it is not.
THEOREM RetryIsAdmitted ==
  ASSUME NEW row \in Rows, NEW header \in AttemptHeaders, row.status = "failed",
         \/ header > row.attempt
         \/ header = NoAttempt
  PROVE  Admits(row, header)
<1>0. row # NoRow /\ row.attempt \in Nat
  BY DEF Rows, NoRow, Statuses
<1>1. CASE PlausibleAttempt(header) = NoAttempt
  <2>1. DecideAdmission(row, header) = "previous_failed"
    BY <1>0, <1>1 DEF DecideAdmission
  <2> QED
    BY <2>1 DEF Admits, AdmitReasons
<1>2. CASE PlausibleAttempt(header) # NoAttempt
  <2>1. PlausibleAttempt(header) = header /\ header # NoAttempt
    BY <1>2 DEF PlausibleAttempt
  <2>2. header > row.attempt
    BY <2>1
  <2>3. DecideAdmission(row, header) = "attempt_advanced"
    BY <1>0, <2>1, <2>2 DEF DecideAdmission
  <2> QED
    BY <2>3 DEF Admits, AdmitReasons
<1> QED
  BY <1>1, <1>2
==============================================================================
