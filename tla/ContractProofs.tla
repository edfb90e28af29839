---------------------------- MODULE ContractProofs ----------------------------
(***************************************************************************)
(* For any scenarios, edits, losses, replays and configurations: the       *)
(* connection follows the configuration; what Hookdeck retries, drops and  *)
(* gives up is what the answers say; nothing is cancelled that could still *)
(* succeed, lost unrecorded or acted upon twice; and the log of what is    *)
(* lost keeps the newest.                                                  *)
(***************************************************************************)
EXTENDS ContractProperties, AdmissionProofs, FiniteSetTheorems, WellFoundedInduction, TLAPS

(***************************************************************************)
(* Provisioning keeps the connection a connection.                         *)
(***************************************************************************)
ProvisioningTypeOK ==
  /\ config \in Configs /\ connection \in Connections
  /\ fingerprint \in ConnectionSpecs \cup {NoFingerprint}
  /\ doubts \subseteq {"lost", "edited"}
  /\ left \in [Budgeted -> Nat]

ConnectionInv == ProvisioningTypeOK /\ ConnectionMatchesConfig

LEMMA RuleIsRule == RetryableStatusCodes \in SUBSET (Nat \X Nat)
<1>1. ServerRange \in Nat \X Nat
  BY DEF ServerRange
<1>2. \A s \in RetryableStatuses : <<s, s>> \in Nat \X Nat
  BY DEF RetryableStatuses
<1> QED
  BY <1>1, <1>2 DEF RetryableStatusCodes

LEMMA SpecIsSpec ==
  ASSUME NEW c \in Configs, NEW resolved \in BOOLEAN
  PROVE  BuildConnectionSpec(c, resolved) \in ConnectionSpecs
  BY RuleIsRule DEF BuildConnectionSpec, ConnectionSpecs, Configs

LEMMA SpecTakes ==
  ASSUME NEW live \in Connections, NEW spec \in ConnectionSpecs
  PROVE  /\ WithSpec(live, spec) \in Connections
         /\ SpecOf(WithSpec(live, spec)) = spec
         /\ WithSpec(live, spec).auth = spec.auth
  BY DEF WithSpec, SpecOf, Connections, ConnectionSpecs

LEMMA Spent ==
  ASSUME left \in [Budgeted -> Nat], NEW what \in Budgeted, Spend(what)
  PROVE  left' \in [Budgeted -> Nat] /\ left'[what] < left[what]
  BY DEF Spend

\* An upsert: what it sends is there and has its fingerprint, or there is a doubt,
\* or nothing has changed.
LEMMA UpsertKeeps ==
  ASSUME connection \in Connections, NEW spec \in ConnectionSpecs, NEW reply \in Answers,
         fingerprint \in ConnectionSpecs \cup {NoFingerprint},
         doubts \subseteq {"lost", "edited"}, ConnectionMatchesConfig, Upsert(spec, reply)
  PROVE  /\ connection' \in Connections /\ ConnectionMatchesConfig'
         /\ fingerprint' \in ConnectionSpecs \cup {NoFingerprint}
         /\ doubts' \subseteq {"lost", "edited"}
         /\ connection' = connection \/ connection'.auth = spec.auth
<1>1. CASE reply = "ok"
  BY <1>1, SpecTakes DEF Upsert, ConnectionMatchesConfig
<1>2. CASE reply = "lost"
  BY <1>2, SpecTakes DEF Upsert, ConnectionMatchesConfig
<1>3. CASE reply = "refused"
  BY <1>3 DEF Upsert, ConnectionMatchesConfig
<1> QED
  BY <1>1, <1>2, <1>3 DEF Answers

LEMMA ConnectionStarts == Init => ConnectionInv
<1> SUFFICES ASSUME NEW s \in Scenarios, left = s.left, config = s.config,
                    connection = s.connection, fingerprint = NoFingerprint, doubts = {}
             PROVE  ConnectionInv
  BY DEF Init
<1> QED
  BY ScenariosAssumption DEF ConnectionInv, ProvisioningTypeOK, ConnectionMatchesConfig

LEMMA ConnectionUntouched ==
  ASSUME ConnectionInv, UNCHANGED provisioningVars, left' \in [Budgeted -> Nat]
  PROVE  ConnectionInv'
  BY DEF ConnectionInv, ProvisioningTypeOK, ConnectionMatchesConfig, provisioningVars

LEMMA RestartKeeps ==
  ASSUME ConnectionInv, Restart PROVE ConnectionInv' /\ left'.restarts < left.restarts
<1> USE DEF ConnectionInv, ProvisioningTypeOK
<1>1. left' \in [Budgeted -> Nat] /\ left'.restarts < left.restarts
  BY Spent DEF Restart, Budgeted
<1>2. PICK c \in ConfigChoices, resolved \in BOOLEAN, reply \in Answers :
        Start([c EXCEPT !.secret = config.secret], resolved, reply)
  BY DEF Restart
<1>3. [c EXCEPT !.secret = config.secret] \in Configs
  BY ChoicesAssumption DEF Configs
<1>4. PICK d \in Configs : Start(d, resolved, reply)
  BY <1>2, <1>3
<1>5. BuildConnectionSpec(d, resolved) \in ConnectionSpecs
  BY SpecIsSpec
<1>6. CASE Upsert(BuildConnectionSpec(d, resolved), reply)
  BY <1>1, <1>4, <1>5, <1>6, UpsertKeeps DEF Start
<1>7. CASE UNCHANGED <<connection, fingerprint, doubts>>
  BY <1>1, <1>4, <1>7 DEF Start, ConnectionMatchesConfig
<1> QED
  BY <1>1, <1>4, <1>6, <1>7 DEF Start

LEMMA SetupKeeps ==
  ASSUME ConnectionInv, SetupTool
  PROVE  /\ ConnectionInv'
         /\ connection' = connection \/ (config.verification => connection'.auth)
<1> USE DEF ConnectionInv, ProvisioningTypeOK
<1>1. left' \in [Budgeted -> Nat]
  BY Spent DEF SetupTool, Budgeted
<1>2. PICK resolved \in BOOLEAN, reply \in Answers : Setup(resolved, reply)
  BY DEF SetupTool
<1>3. BuildConnectionSpec(config, resolved) \in ConnectionSpecs
  BY SpecIsSpec
<1>4. config.verification => BuildConnectionSpec(config, resolved).auth
  BY <1>2 DEF Setup, SetupAllowed, BuildConnectionSpec
<1> QED
  BY <1>1, <1>2, <1>3, <1>4, UpsertKeeps DEF Setup

LEMMA EditKeeps ==
  ASSUME ConnectionInv, DashboardEdit PROVE ConnectionInv' /\ connection'.auth = connection.auth
<1> USE DEF ConnectionInv, ProvisioningTypeOK
<1>1. left' \in [Budgeted -> Nat]
  BY Spent DEF DashboardEdit, Budgeted
<1>2. PICK edit \in Edits : EditConnection(edit)
  BY DEF DashboardEdit
<1>3. /\ connection' \in Connections /\ connection'.auth = connection.auth
      /\ doubts' = doubts \cup {"edited"} /\ UNCHANGED <<config, fingerprint>>
  BY <1>2, ChoicesAssumption DEF EditConnection, WithSpec, Connections
<1> QED
  BY <1>1, <1>3 DEF ConnectionMatchesConfig

LEMMA SecretKeeps ==
  ASSUME ConnectionInv, SecretRoll PROVE ConnectionInv' /\ connection'.auth = connection.auth
<1> USE DEF ConnectionInv, ProvisioningTypeOK
<1>1. left' \in [Budgeted -> Nat]
  BY Spent DEF SecretRoll, Budgeted
<1>2. CASE RollSecret
  <2>1. PICK secrets \in ProjectSecrets : connection' = [connection EXCEPT !.secrets = secrets]
    BY <1>2 DEF RollSecret, ProjectSecrets
  <2>2. /\ connection' \in Connections /\ connection'.auth = connection.auth
        /\ SpecOf(connection') = SpecOf(connection)
    BY <2>1 DEF Connections, SpecOf
  <2> QED
    BY <1>1, <1>2, <2>2 DEF RollSecret, ConnectionMatchesConfig
<1>3. CASE \E secret \in Secrets : StoreSecret(secret)
  <2>1. PICK secret \in Secrets : StoreSecret(secret)
    BY <1>3
  <2>2. config' \in Configs
    BY <2>1 DEF StoreSecret, Configs
  <2> QED
    BY <1>1, <2>1, <2>2 DEF StoreSecret, ConnectionMatchesConfig
<1> QED
  BY <1>2, <1>3 DEF SecretRoll

LEMMA EventsKeep ==
  ASSUME ConnectionInv,
         \/ \E e \in Events, circumstance \in Circumstances : Deliver(e, circumstance)
         \/ \E e \in Events, lost \in BOOLEAN : Reply(e, lost)
         \/ \E e \in Events : Replay(e)
         \/ LogReturns \/ HostMovesFlow
  PROVE  ConnectionInv' /\ UNCHANGED connection
<1>1. left' \in [Budgeted -> Nat]
  BY Spent DEF ConnectionInv, ProvisioningTypeOK, Budgeted, Deliver, Reply, Replay,
     LogReturns, HostMovesFlow
<1>2. UNCHANGED provisioningVars
  BY DEF Deliver, Reply, Replay, LogReturns, HostMovesFlow
<1> QED
  BY <1>1, <1>2, ConnectionUntouched DEF provisioningVars

LEMMA ConnectionStep == ConnectionInv /\ [Next]_vars => ConnectionInv'
<1> SUFFICES ASSUME ConnectionInv, [Next]_vars PROVE ConnectionInv'
  OBVIOUS
<1>1. CASE UNCHANGED vars
  BY <1>1, ConnectionUntouched DEF vars, ConnectionInv, ProvisioningTypeOK
<1> QED
  BY <1>1, EventsKeep, RestartKeeps, SetupKeeps, EditKeeps, SecretKeeps DEF Next

LEMMA ConnectionSafety == Spec => []ConnectionInv
  BY ConnectionStarts, ConnectionStep, PTL DEF Spec

\* Whatever configurations, edits, rolls and answers of Hookdeck come in what order,
\* the connection is what its fingerprint says, unless there is a doubt on record.
THEOREM FingerprintIsTrue == Spec => []ConnectionMatchesConfig
<1>1. ConnectionInv => ConnectionMatchesConfig
  BY DEF ConnectionInv
<1> QED
  BY <1>1, ConnectionSafety, PTL

\* No delivery, tool or edit takes the verification of a source away: only a start
\* does, or a configuration without it.
THEOREM VerificationIsKept == Spec => VerificationStays
<1>1. ConnectionInv /\ [Next]_vars =>
        [connection.auth /\ ~connection'.auth =>
           ~config'.verification \/ left'.restarts < left.restarts]_vars
  <2> SUFFICES ASSUME ConnectionInv, Next, connection.auth, ~connection'.auth
               PROVE  ~config'.verification \/ left'.restarts < left.restarts
    BY DEF vars
  <2>1. CASE Restart
    BY <2>1, RestartKeeps
  <2>2. CASE SetupTool
    BY <2>2, SetupKeeps DEF SetupTool, Setup
  <2> QED
    BY <2>1, <2>2, EventsKeep, EditKeeps, SecretKeeps DEF Next
<1> QED
  BY <1>1, ConnectionSafety, PTL DEF Spec, VerificationStays

(***************************************************************************)
(* The answer of the pipeline.                                             *)
(***************************************************************************)
\* Of the gates that are shut one comes first.
LEMMA FirstExists ==
  ASSUME NEW n \in Nat, NEW S \in SUBSET (1 .. n), S # {}
  PROVE  \E x \in S : \A y \in S : x <= y
<1> DEFINE R == OpToRel(<, Nat)
<1>1. \E x \in S : \A y \in S : <<y, x>> \notin R
  <2>1. IsWellFoundedOn(R, Nat)
    BY NatLessThanWellFounded DEF R
  <2>2. S \subseteq Nat
    OBVIOUS
  <2> HIDE DEF R
  <2> QED
    BY <2>1, <2>2, WFMin
<1>2. S \subseteq Nat
  OBVIOUS
<1>3. PICK x \in S : \A y \in S : ~(y < x)
  BY <1>1, <1>2 DEF OpToRel
<1> QED
  BY <1>2, <1>3

\* The answer of a row of gates is that of one that is shut, if any is.
LEMMA OneGateDecides ==
  ASSUME NEW n \in Nat, NEW gates, DOMAIN gates = 1 .. n
  PROVE  \/ FirstOf(gates) = Pass /\ \A i \in 1 .. n : ~gates[i].shut
         \/ \E i \in 1 .. n : gates[i].shut /\ FirstOf(gates) = gates[i].plan
<1> DEFINE shut == {i \in 1 .. n : gates[i].shut}
<1>1. CASE shut = {}
  BY <1>1 DEF FirstOf
<1>2. CASE shut # {}
  <2>1. \E x \in shut : \A y \in shut : x <= y
    BY <1>2, FirstExists
  <2>2. (CHOOSE i \in shut : \A j \in shut : i <= j) \in shut
    BY <2>1
  <2>3. FirstOf(gates) = gates[CHOOSE i \in shut : \A j \in shut : i <= j].plan
    BY <1>2 DEF FirstOf
  <2> QED
    BY <2>2, <2>3
<1> QED
  BY <1>1, <1>2

\* Before the signature: the answer, and what of the stored request it tells.
LEMMA ArrivalAnswers ==
  ASSUME NEW req \in Requests, NEW live, NEW c \in Configs,
         NEW circumstance \in Circumstances
  PROVE  LET arrival == Arrival(req, live, c, circumstance) IN
         \/ arrival = Pass /\ req.post /\ req.type # "other" /\ req.fits
         \/ ~req.post /\ arrival = CancelRetries("bad_method", 405)
         \/ req.type = "other" /\ arrival = CancelRetries("bad_content_type", 415)
         \/ ~req.fits /\ arrival = CancelRetries("too_large", 413)
         \/ arrival \in {Retryable(404, "unknown_route"), Retryable(408, "body_read_failed"),
                         Retryable(503, "no_signing_secret"), Retryable(400, "not_hookdeck"),
                         Retryable(401, "invalid_signature")}
<1> DEFINE signatures == Signatures(live, c)
           body == ReadRawBody(req, circumstance)
           gates == <<
             Gate(~req.post, CancelRetries("bad_method", 405)),
             Gate(~MatchesRoute(live, c), Retryable(404, "unknown_route")),
             Gate(req.type = "other", CancelRetries("bad_content_type", 415)),
             Gate(body = "too_large", CancelRetries("too_large", 413)),
             Gate(body = "timeout", Retryable(408, "body_read_failed")),
             Gate(c.secret = "none", Retryable(503, "no_signing_secret")),
             Gate(signatures = << >>, Retryable(400, "not_hookdeck")),
             Gate(~Verifies(c.secret, signatures), Retryable(401, "invalid_signature"))>>
<1>1. DOMAIN gates = 1 .. 8
  OBVIOUS
<1>2. Arrival(req, live, c, circumstance) = FirstOf(gates)
  BY DEF Arrival
<1>3. body = "too_large" <=> ~req.fits
  BY DEF ReadRawBody
<1>4. /\ gates[1].shut <=> ~req.post
      /\ gates[3].shut <=> req.type = "other"
      /\ gates[4].shut <=> body = "too_large"
  BY DEF Gate
<1>5. /\ gates[1].plan = CancelRetries("bad_method", 405)
      /\ gates[2].plan = Retryable(404, "unknown_route")
      /\ gates[3].plan = CancelRetries("bad_content_type", 415)
      /\ gates[4].plan = CancelRetries("too_large", 413)
      /\ gates[5].plan = Retryable(408, "body_read_failed")
      /\ gates[6].plan = Retryable(503, "no_signing_secret")
      /\ gates[7].plan = Retryable(400, "not_hookdeck")
      /\ gates[8].plan = Retryable(401, "invalid_signature")
  BY DEF Gate
<1> HIDE DEF gates, body, signatures
<1>6. \/ FirstOf(gates) = Pass /\ \A i \in 1 .. 8 : ~gates[i].shut
      \/ \E i \in 1 .. 8 : gates[i].shut /\ FirstOf(gates) = gates[i].plan
  BY <1>1, OneGateDecides
<1>7. CASE FirstOf(gates) = Pass /\ \A i \in 1 .. 8 : ~gates[i].shut
  <2>1. ~gates[1].shut /\ ~gates[3].shut /\ ~gates[4].shut
    BY <1>7
  <2> QED
    BY <2>1, <1>7, <1>2, <1>3, <1>4
<1>8. CASE \E i \in 1 .. 8 : gates[i].shut /\ FirstOf(gates) = gates[i].plan
  <2>1. PICK i \in 1 .. 8 : gates[i].shut /\ FirstOf(gates) = gates[i].plan
    BY <1>8
  <2>2. i = 1 \/ i = 2 \/ i = 3 \/ i = 4 \/ i = 5 \/ i = 6 \/ i = 7 \/ i = 8
    OBVIOUS
  <2>3. CASE i \in {1, 3, 4}
    BY <2>1, <2>3, <1>2, <1>3, <1>4, <1>5
  <2>4. CASE i \in {2, 5, 6, 7, 8}
    BY <2>1, <2>4, <1>2, <1>5
  <2> QED
    BY <2>2, <2>3, <2>4
<1> QED
  BY <1>6, <1>7, <1>8

\* After it.
LEMMA IntakeAnswers ==
  ASSUME NEW req \in Requests, NEW c \in Configs, NEW circumstance \in Circumstances,
         NEW row, NEW number
  PROVE  LET intake == Intake(req, c, circumstance, row, number) IN
         \/ intake = Pass /\ req.utf8 /\ Parses(req)
         \/ ~(req.utf8 /\ Parses(req)) /\ intake = CancelRetries("malformed_json", 400)
         \/ intake \in {Retryable(503, "busy"), DeferFor(503, "busy"), Ok("duplicate"),
                        Ok("ignored")}
<1> DEFINE gates == <<
      Gate(circumstance = "at_capacity" /\ number > DeferAttemptLimit, Retryable(503, "busy")),
      Gate(circumstance = "at_capacity", DeferFor(503, "busy")),
      Gate(circumstance = "dispatcher_full", DeferFor(503, "busy")),
      Gate(~Admits(row, number), Ok("duplicate")),
      Gate(~req.utf8, CancelRetries("malformed_json", 400)),
      Gate(~Parses(req), CancelRetries("malformed_json", 400)),
      Gate(~EvaluateFilters(req, c), Ok("ignored"))>>
<1>1. DOMAIN gates = 1 .. 7
  OBVIOUS
<1>2. Intake(req, c, circumstance, row, number) = FirstOf(gates)
  BY DEF Intake
<1>3. (gates[5].shut <=> ~req.utf8) /\ (gates[6].shut <=> ~Parses(req))
  BY DEF Gate
<1>4. /\ gates[1].plan = Retryable(503, "busy")
      /\ gates[2].plan = DeferFor(503, "busy")
      /\ gates[3].plan = DeferFor(503, "busy")
      /\ gates[4].plan = Ok("duplicate")
      /\ gates[5].plan = CancelRetries("malformed_json", 400)
      /\ gates[6].plan = CancelRetries("malformed_json", 400)
      /\ gates[7].plan = Ok("ignored")
  BY DEF Gate
<1> HIDE DEF gates
<1>5. \/ FirstOf(gates) = Pass /\ \A i \in 1 .. 7 : ~gates[i].shut
      \/ \E i \in 1 .. 7 : gates[i].shut /\ FirstOf(gates) = gates[i].plan
  BY <1>1, OneGateDecides
<1>6. CASE FirstOf(gates) = Pass /\ \A i \in 1 .. 7 : ~gates[i].shut
  <2>1. ~gates[5].shut /\ ~gates[6].shut
    BY <1>6
  <2> QED
    BY <2>1, <1>6, <1>2, <1>3
<1>7. CASE \E i \in 1 .. 7 : gates[i].shut /\ FirstOf(gates) = gates[i].plan
  <2>1. PICK i \in 1 .. 7 : gates[i].shut /\ FirstOf(gates) = gates[i].plan
    BY <1>7
  <2>2. i = 1 \/ i = 2 \/ i = 3 \/ i = 4 \/ i = 5 \/ i = 6 \/ i = 7
    OBVIOUS
  <2> QED
    BY <2>1, <2>2, <1>2, <1>3, <1>4
<1> QED
  BY <1>5, <1>6, <1>7

(***************************************************************************)
(* What a dispatch comes to.                                               *)
(***************************************************************************)
\* What a plan may be: a success, a cancellation, or what the rule covers.
IsAnswer(plan) ==
  /\ plan \in Plans
  /\ Succeeds(plan) \/ plan.retry = "cancel" \/ plan.status \in RetryableStatuses
  /\ plan.retry = "cancel" => ~Succeeds(plan)

\* A flow that is beyond a revision stays beyond it.
IsBeyond(row, revision) == row.status # "absent" /\ row.revision > revision

Advances(row, next) ==
  next.revision >= row.revision /\ (row.status # "absent" => next.status # "absent")

Mutates(req) == req.route = "taskflow" /\ req.envelope.action \in Mutations

\* The stored request cannot be carried out, whatever the configuration.
HopelessBytes(req) ==
  ~req.post \/ req.type = "other" \/ ~req.fits \/ ~req.utf8 \/ ~Parses(req)

HopelessEnvelope(req, there) ==
  \/ req.route = "taskflow" /\ ~IsValid(req.envelope)
  \/ /\ Mutates(req)
     /\ \/ req.envelope.flow \in Unmanaged
        \/ IsBeyond(there[req.envelope.flow], req.envelope.expectedRevision)

IsPremature(req, there, plan) ==
  /\ plan.code = "flow_revision_conflict"
  /\ req.envelope.expectedRevision > there[req.envelope.flow].revision

SoundResult(req, there, result) ==
  /\ result.flows \in [Flows -> FlowRows] /\ result.did \in BOOLEAN
  /\ IsAnswer(result.plan)
  /\ result.did => Succeeds(result.plan)
  /\ \A f \in Flows : Advances(there[f], result.flows[f])
  /\ result.did /\ Mutates(req) =>
       /\ ~IsBeyond(there[req.envelope.flow], req.envelope.expectedRevision)
       /\ IsBeyond(result.flows[req.envelope.flow], req.envelope.expectedRevision)
  /\ result.plan.retry = "cancel" =>
       \/ result.plan.code = "forbidden_action" \/ HopelessEnvelope(req, there)
       \/ IsPremature(req, there, result.plan)
  /\ result.plan.code \in {"dispatched", "cancel_pending"} => ~HopelessEnvelope(req, there)

\* An answer that leaves the flows alone and does nothing is sound if it says the truth.
LEMMA NothingDone ==
  ASSUME NEW req \in Requests, NEW there \in [Flows -> FlowRows], NEW plan, IsAnswer(plan),
         plan.retry = "cancel" =>
           \/ plan.code = "forbidden_action" \/ HopelessEnvelope(req, there)
           \/ IsPremature(req, there, plan),
         plan.code \in {"dispatched", "cancel_pending"} => ~HopelessEnvelope(req, there)
  PROVE  SoundResult(req, there, Result(plan, there, FALSE))
<1>1. \A f \in Flows : there[f].revision \in Nat
  BY DEF FlowRows, Absent
<1>2. \A f \in Flows : Advances(there[f], there[f])
  BY <1>1 DEF Advances
<1> QED
  BY <1>2 DEF SoundResult, Result

\* What is answered when something was done, and when it may be done later.
DonePlans == {Ok("dispatched"), Accepted("cancel_pending")}

LaterPlans == {
  Retryable(503, "wake_failed"), Retryable(404, "flow_not_found"),
  Retryable(409, "mutation_rejected"), Retryable(409, "cancel_rejected"),
  Retryable(409, "task_not_created"), Retryable(503, "dispatch_error"),
  DeferFor(503, "persist_failed"), DeferFor(503, "create_rejected"),
  Retryable(404, "unknown_route"), Retryable(408, "body_read_failed"),
  Retryable(503, "no_signing_secret"), Retryable(400, "not_hookdeck"),
  Retryable(401, "invalid_signature"), Retryable(503, "busy"), DeferFor(503, "busy")}

LEMMA DoneAnswers ==
  ASSUME NEW plan \in DonePlans
  PROVE  IsAnswer(plan) /\ Succeeds(plan) /\ plan.retry = "none"
  BY DEF DonePlans, IsAnswer, Plans, Codes, Ok, Accepted, Plan, Succeeds

LEMMA LaterAnswers ==
  ASSUME NEW plan \in LaterPlans
  PROVE  /\ IsAnswer(plan) /\ ~Succeeds(plan) /\ plan.retry # "cancel"
         /\ plan.code \notin {"dispatched", "cancel_pending"}
<1>1. \A status \in RetryableStatuses : status \in 400 .. 599
  BY DEF RetryableStatuses
<1>2. plan.status \in RetryableStatuses /\ plan.code \in Codes
  BY DEF LaterPlans, Retryable, DeferFor, Plan, RetryableStatuses, Codes
<1>3. /\ plan.retry \in {"none", "after"}
      /\ plan = [status |-> plan.status, code |-> plan.code, retry |-> plan.retry]
  BY DEF LaterPlans, Retryable, DeferFor, Plan
<1>4. plan.code \notin {"dispatched", "cancel_pending"}
  BY DEF LaterPlans, Retryable, DeferFor, Plan
<1> QED
  BY <1>1, <1>2, <1>3, <1>4 DEF IsAnswer, Plans, Succeeds

CancelPlans == {
  CancelRetries("bad_method", 405), CancelRetries("bad_content_type", 415),
  CancelRetries("too_large", 413), CancelRetries("malformed_json", 400),
  CancelRetries("invalid_envelope", 400), CancelRetries("forbidden_action", 403),
  CancelRetries("flow_revision_conflict", 409), CancelRetries("flow_not_managed", 409)}

LEMMA CancelAnswers ==
  ASSUME NEW plan \in CancelPlans
  PROVE  /\ IsAnswer(plan) /\ plan.retry = "cancel"
         /\ plan.code \notin {"dispatched", "cancel_pending"}
<1>1. plan.status \in 400 .. 599 /\ plan.code \in Codes
  BY DEF CancelPlans, CancelRetries, Plan, Codes, CancelReasons
<1>2. plan = [status |-> plan.status, code |-> plan.code, retry |-> "cancel"]
  BY DEF CancelPlans, CancelRetries, Plan
<1>3. plan.code \notin {"dispatched", "cancel_pending"}
  BY DEF CancelPlans, CancelRetries, Plan
<1> QED
  BY <1>1, <1>2, <1>3 DEF IsAnswer, Plans, Succeeds

LEMMA LaterIsSound ==
  ASSUME NEW req \in Requests, NEW there \in [Flows -> FlowRows], NEW plan \in LaterPlans
  PROVE  SoundResult(req, there, Result(plan, there, FALSE))
  BY LaterAnswers, NothingDone

LEMMA DoneIsSound ==
  ASSUME NEW req \in Requests, NEW there \in [Flows -> FlowRows], NEW plan \in DonePlans,
         ~HopelessEnvelope(req, there), NEW did \in BOOLEAN, did => ~Mutates(req)
  PROVE  SoundResult(req, there, Result(plan, there, did))
<1>1. IsAnswer(plan) /\ Succeeds(plan) /\ plan.retry # "cancel"
  BY DoneAnswers
<1>2. SoundResult(req, there, Result(plan, there, FALSE))
  BY <1>1, NothingDone
<1> QED
  BY <1>1, <1>2 DEF SoundResult, Result

LEMMA WakeIsSound ==
  ASSUME NEW req \in Requests, NEW there \in [Flows -> FlowRows], req.route = "wake",
         NEW circumstance \in Circumstances
  PROVE  SoundResult(req, there, WakeDispatch(there, circumstance))
<1>1. ~HopelessEnvelope(req, there) /\ ~Mutates(req)
  BY DEF HopelessEnvelope, Mutates
<1>3. CASE circumstance = "throws"
  <2>1. WakeDispatch(there, circumstance) =
          Result(Retryable(503, "wake_failed"), there, FALSE)
    BY <1>3 DEF WakeDispatch
  <2>2. Retryable(503, "wake_failed") \in LaterPlans
    BY DEF LaterPlans
  <2> QED
    BY <2>1, <2>2, LaterIsSound
<1>4. CASE circumstance # "throws"
  <2>1. WakeDispatch(there, circumstance) =
          Result(Ok("dispatched"), there, circumstance # "suppressed")
    BY <1>4 DEF WakeDispatch
  <2>2. Ok("dispatched") \in DonePlans
    BY DEF DonePlans
  <2> QED
    BY <1>1, <2>1, <2>2, DoneIsSound
<1> QED
  BY <1>3, <1>4

\* A flow that is mutated, created or cancelled.
LEMMA OneFlowDone ==
  ASSUME NEW req \in Requests, NEW there \in [Flows -> FlowRows], NEW plan, IsAnswer(plan),
         Succeeds(plan), NEW f \in Flows, NEW row \in FlowRows, Advances(there[f], row),
         ~HopelessEnvelope(req, there),
         Mutates(req) => f = req.envelope.flow /\ IsBeyond(row, req.envelope.expectedRevision)
  PROVE  SoundResult(req, there, Result(plan, [there EXCEPT ![f] = row], TRUE))
<1> DEFINE flowsAfter == [there EXCEPT ![f] = row]
<1>1. flowsAfter \in [Flows -> FlowRows] /\ flowsAfter[f] = row
  OBVIOUS
<1>2. \A g \in Flows : Advances(there[g], flowsAfter[g])
  <2>1. \A g \in Flows : there[g].revision \in Nat
    BY DEF FlowRows, Absent
  <2> QED
    BY <2>1 DEF Advances
<1>3. plan.retry # "cancel"
  BY DEF IsAnswer
<1>4. Mutates(req) => ~IsBeyond(there[req.envelope.flow], req.envelope.expectedRevision)
  BY DEF HopelessEnvelope
<1> HIDE DEF flowsAfter
<1>5. SoundResult(req, there, Result(plan, flowsAfter, TRUE))
  BY <1>1, <1>2, <1>3, <1>4 DEF SoundResult, Result
<1> QED
  BY <1>5 DEF flowsAfter

LEMMA MutateIsSound ==
  ASSUME NEW req \in Requests, NEW there \in [Flows -> FlowRows], Mutates(req),
         NEW disk \in BOOLEAN
  PROVE  SoundResult(req, there, Mutate(there, req.envelope, disk))
<1> DEFINE flow == req.envelope.flow
           expected == req.envelope.expectedRevision
           code == MutationCode(there, flow, expected, disk)
<1>1. flow \in Flows /\ expected \in Nat /\ IsValid(req.envelope)
  BY DEF Requests, Envelopes, Mutates, IsValid, AllActions, WriteActions
<1>2. there[flow].revision \in Nat /\ there[flow] \in FlowRows
  BY <1>1 DEF FlowRows, Absent
<1>3. there[flow] # Absent => there[flow].status \in {"open", "ended"}
  BY <1>2 DEF FlowRows
<1>4. /\ code \in {"not_found", "not_managed", "revision_conflict", "invalid_transition",
                   "applied", "persist_failed"}
      /\ code = "not_managed" => flow \in Unmanaged
      /\ code = "revision_conflict" =>
           there[flow] # Absent /\ there[flow].revision # expected
      /\ code = "applied" =>
           /\ there[flow] # Absent /\ flow \notin Unmanaged
           /\ there[flow].revision = expected /\ there[flow].status # "ended"
  BY DEF MutationCode
<1> HIDE DEF code
<1>6. CASE code = "applied"
  <2> DEFINE row == [revision |-> there[flow].revision + 1,
                     status |-> IF req.envelope.action \in Ending THEN "ended"
                                ELSE there[flow].status]
  <2>1. Mutate(there, req.envelope, disk) =
          Result(Ok("dispatched"), [there EXCEPT ![flow] = row], TRUE)
    BY <1>6, <1>1 DEF Mutate, MapMutation, Applied, code
  <2>2. row \in FlowRows /\ Advances(there[flow], row) /\ IsBeyond(row, expected)
    BY <1>1, <1>2, <1>3, <1>4, <1>6 DEF FlowRows, Advances, IsBeyond
  <2>3. ~HopelessEnvelope(req, there)
    BY <1>1, <1>2, <1>4, <1>6 DEF HopelessEnvelope, IsBeyond
  <2>4. IsAnswer(Ok("dispatched")) /\ Succeeds(Ok("dispatched"))
    BY DoneAnswers DEF DonePlans
  <2> HIDE DEF row
  <2>5. SoundResult(req, there, Result(Ok("dispatched"), [there EXCEPT ![flow] = row], TRUE))
    BY <1>1, <2>2, <2>3, <2>4, OneFlowDone
  <2> QED
    BY <2>1, <2>5
<1>7. CASE code # "applied"
  <2>1. Mutate(there, req.envelope, disk) = Result(MapMutation(code), there, FALSE)
    BY <1>7 DEF Mutate, code
  <2>2. CASE code = "not_managed"
    <3>1. HopelessEnvelope(req, there)
      BY <1>4, <2>2 DEF HopelessEnvelope
    <3>2. MapMutation(code) = CancelRetries("flow_not_managed", 409)
      BY <2>2 DEF MapMutation
    <3>3. MapMutation(code) \in CancelPlans
      BY <3>2 DEF CancelPlans
    <3> QED
      BY <2>1, <3>1, <3>3, CancelAnswers, NothingDone
  <2>3. CASE code = "revision_conflict"
    <3>1. MapMutation(code) = CancelRetries("flow_revision_conflict", 409)
      BY <2>3 DEF MapMutation
    <3>2. /\ IsAnswer(MapMutation(code)) /\ MapMutation(code).retry = "cancel"
          /\ MapMutation(code).code = "flow_revision_conflict"
      <4>1. MapMutation(code) \in CancelPlans
        BY <3>1 DEF CancelPlans
      <4> QED
        BY <3>1, <4>1, CancelAnswers DEF CancelRetries, Plan
    <3>3. CASE expected > there[flow].revision
      BY <2>1, <3>2, <3>3, NothingDone DEF IsPremature
    <3>4. CASE ~(expected > there[flow].revision)
      <4>1. IsBeyond(there[flow], expected)
        BY <1>1, <1>2, <1>3, <1>4, <2>3, <3>4 DEF IsBeyond
      <4>2. HopelessEnvelope(req, there)
        BY <4>1 DEF HopelessEnvelope
      <4> QED
        BY <2>1, <3>2, <4>2, NothingDone
    <3> QED
      BY <3>3, <3>4
  <2>4. CASE code \in {"not_found", "invalid_transition", "persist_failed"}
    <3>1. MapMutation(code) \in {Retryable(404, "flow_not_found"),
             DeferFor(503, "persist_failed"), Retryable(409, "mutation_rejected")}
      BY <2>4 DEF MapMutation, NotFound
    <3>2. MapMutation(code) \in LaterPlans
      BY <3>1 DEF LaterPlans
    <3> QED
      BY <2>1, <3>2, LaterIsSound
  <2> QED
    BY <1>4, <1>7, <2>2, <2>3, <2>4
<1> QED
  BY <1>6, <1>7

LEMMA CreateIsSound ==
  ASSUME NEW req \in Requests, NEW there \in [Flows -> FlowRows], NEW disk \in BOOLEAN,
         req.envelope.action = "create_flow"
  PROVE  SoundResult(req, there, CreateFlow(there, disk))
<1>1. ~HopelessEnvelope(req, there) /\ ~Mutates(req)
  BY DEF HopelessEnvelope, Mutates, Mutations, IsValid, AllActions, WriteActions
<1> DEFINE free == {f \in Flows \ Unmanaged : there[f] = Absent}
<1>3. CASE disk /\ free # {}
  <2>1. PICK f \in free : CreateFlow(there, disk) =
          Result(Ok("dispatched"), [there EXCEPT ![f] = [revision |-> 0, status |-> "open"]],
                 TRUE)
    BY <1>3 DEF CreateFlow
  <2>2. /\ [revision |-> 0, status |-> "open"] \in FlowRows
        /\ Advances(there[f], [revision |-> 0, status |-> "open"])
    BY DEF FlowRows, Advances, Absent
  <2>3. IsAnswer(Ok("dispatched")) /\ Succeeds(Ok("dispatched"))
    BY DoneAnswers DEF DonePlans
  <2>4. SoundResult(req, there, Result(Ok("dispatched"),
            [there EXCEPT ![f] = [revision |-> 0, status |-> "open"]], TRUE))
    BY <1>1, <2>2, <2>3, OneFlowDone
  <2> QED
    BY <2>1, <2>4
<1>4. CASE ~(disk /\ free # {})
  <2>1. CreateFlow(there, disk) = Result(DeferFor(503, "create_rejected"), there, FALSE)
    BY <1>4 DEF CreateFlow
  <2>2. DeferFor(503, "create_rejected") \in LaterPlans
    BY DEF LaterPlans
  <2> QED
    BY <2>1, <2>2, LaterIsSound
<1> QED
  BY <1>3, <1>4

LEMMA CancelIsSound ==
  ASSUME NEW req \in Requests, NEW there \in [Flows -> FlowRows], NEW running \in BOOLEAN,
         req.envelope.action = "cancel_flow"
  PROVE  SoundResult(req, there, CancelFlow(there, req.envelope.flow, running))
<1> DEFINE f == req.envelope.flow
<1>1. ~HopelessEnvelope(req, there) /\ ~Mutates(req)
  BY DEF HopelessEnvelope, Mutates, Mutations, IsValid, AllActions, WriteActions
<1>2. f \in Flows /\ there[f] \in FlowRows
  BY DEF Requests, Envelopes
<1>3. CASE there[f] = Absent
  <2>1. CancelFlow(there, f, running) = Result(Retryable(404, "flow_not_found"), there, FALSE)
    BY <1>3 DEF CancelFlow, Absent, NotFound
  <2>2. Retryable(404, "flow_not_found") \in LaterPlans
    BY DEF LaterPlans
  <2> QED
    BY <2>1, <2>2, LaterIsSound
<1>4. CASE there[f] # Absent /\ (there[f].status = "ended" \/ f \in Unmanaged)
  <2>1. CancelFlow(there, f, running) = Result(Retryable(409, "cancel_rejected"), there, FALSE)
    BY <1>4 DEF CancelFlow, Absent
  <2>2. Retryable(409, "cancel_rejected") \in LaterPlans
    BY DEF LaterPlans
  <2> QED
    BY <2>1, <2>2, LaterIsSound
<1>5. CASE there[f].status = "open" /\ f \notin Unmanaged /\ running
  <2>1. CancelFlow(there, f, running) = Result(Accepted("cancel_pending"), there, TRUE)
    BY <1>5 DEF CancelFlow, Absent
  <2>2. Accepted("cancel_pending") \in DonePlans
    BY DEF DonePlans
  <2> QED
    BY <1>1, <2>1, <2>2, DoneIsSound
<1>6. CASE there[f].status = "open" /\ f \notin Unmanaged /\ ~running
  <2> DEFINE row == [there[f] EXCEPT !.status = "ended"]
  <2>1. CancelFlow(there, f, running) =
          Result(Ok("dispatched"), [there EXCEPT ![f] = row], TRUE)
    BY <1>6 DEF CancelFlow, Absent
  <2>2. row \in FlowRows /\ Advances(there[f], row)
    BY <1>2, <1>6 DEF FlowRows, Advances, Absent
  <2>3. IsAnswer(Ok("dispatched")) /\ Succeeds(Ok("dispatched"))
    BY DoneAnswers DEF DonePlans
  <2> HIDE DEF row
  <2>4. SoundResult(req, there, Result(Ok("dispatched"), [there EXCEPT ![f] = row], TRUE))
    BY <1>1, <1>2, <2>2, <2>3, OneFlowDone
  <2> QED
    BY <2>1, <2>4
<1> QED
  BY <1>2, <1>3, <1>4, <1>5, <1>6 DEF FlowRows

LEMMA RunIsSound ==
  ASSUME NEW req \in Requests, NEW there \in [Flows -> FlowRows],
         req.envelope.action = "run_task"
  PROVE  SoundResult(req, there, RunTask(there, req.envelope.flow))
<1> DEFINE f == req.envelope.flow
<1>1. ~HopelessEnvelope(req, there) /\ ~Mutates(req)
  BY DEF HopelessEnvelope, Mutates, Mutations, IsValid, AllActions, WriteActions
<1>2. f \in Flows /\ there[f] \in FlowRows
  BY DEF Requests, Envelopes
<1>3. CASE there[f] = Absent
  <2>1. RunTask(there, f) = Result(Retryable(404, "flow_not_found"), there, FALSE)
    BY <1>3 DEF RunTask, Absent, NotFound
  <2>2. Retryable(404, "flow_not_found") \in LaterPlans
    BY DEF LaterPlans
  <2> QED
    BY <2>1, <2>2, LaterIsSound
<1>4. CASE there[f] # Absent /\ (there[f].status = "ended" \/ f \in Unmanaged)
  <2>1. RunTask(there, f) = Result(Retryable(409, "task_not_created"), there, FALSE)
    BY <1>4 DEF RunTask, Absent
  <2>2. Retryable(409, "task_not_created") \in LaterPlans
    BY DEF LaterPlans
  <2> QED
    BY <2>1, <2>2, LaterIsSound
<1>5. CASE there[f].status = "open" /\ f \notin Unmanaged
  <2>1. RunTask(there, f) = Result(Ok("dispatched"), there, TRUE)
    BY <1>5 DEF RunTask, Absent
  <2>2. Ok("dispatched") \in DonePlans
    BY DEF DonePlans
  <2> QED
    BY <1>1, <2>1, <2>2, DoneIsSound
<1> QED
  BY <1>2, <1>3, <1>4, <1>5 DEF FlowRows

LEMMA TaskFlowIsSound ==
  ASSUME NEW req \in Requests, NEW there \in [Flows -> FlowRows], req.route = "taskflow",
         NEW allowed \in SUBSET AllActions, NEW disk \in BOOLEAN, NEW running \in BOOLEAN
  PROVE  SoundResult(req, there,
                     TaskFlowDispatch(there, req.envelope, allowed, disk, running))
<1> DEFINE envelope == req.envelope
           result == TaskFlowDispatch(there, envelope, allowed, disk, running)
<1>1. CASE ~IsValid(envelope)
  <2>1. result = Result(CancelRetries("invalid_envelope", 400), there, FALSE)
    <3>1. envelope.action \notin allowed
      BY <1>1 DEF IsValid
    <3> QED
      BY <1>1, <3>1 DEF TaskFlowDispatch
  <2>2. CancelRetries("invalid_envelope", 400) \in CancelPlans
    BY DEF CancelPlans
  <2>3. HopelessEnvelope(req, there)
    BY <1>1 DEF HopelessEnvelope
  <2> QED
    <3>1. PICK plan \in CancelPlans : plan = CancelRetries("invalid_envelope", 400)
      BY <2>2
    <3>2. IsAnswer(plan) /\ plan.code \notin {"dispatched", "cancel_pending"}
      BY CancelAnswers
    <3>3. SoundResult(req, there, Result(plan, there, FALSE))
      BY <2>3, <3>2, NothingDone
    <3>4. result = Result(plan, there, FALSE)
      BY <2>1, <3>1
    <3> QED
      BY <3>3, <3>4
<1>2. CASE IsValid(envelope) /\ envelope.action \notin allowed
  <2>1. result = Result(CancelRetries("forbidden_action", 403), there, FALSE)
    BY <1>2 DEF TaskFlowDispatch
  <2>2. CancelRetries("forbidden_action", 403) \in CancelPlans
    BY DEF CancelPlans
  <2>3. CancelRetries("forbidden_action", 403).code = "forbidden_action"
    BY DEF CancelRetries, Plan
  <2>4. PICK plan \in CancelPlans :
          plan = CancelRetries("forbidden_action", 403) /\ plan.code = "forbidden_action"
    BY <2>2, <2>3
  <2>5. IsAnswer(plan) /\ plan.code \notin {"dispatched", "cancel_pending"}
    BY CancelAnswers
  <2>6. SoundResult(req, there, Result(plan, there, FALSE))
    <3>1. plan.code = "forbidden_action" /\ IsAnswer(plan)
      BY <2>4, <2>5
    <3>2. plan.code \notin {"dispatched", "cancel_pending"}
      BY <2>5
    <3> HIDE DEF envelope, result
    <3> QED
      BY <3>1, <3>2, NothingDone
  <2>7. result = Result(plan, there, FALSE)
    BY <2>1, <2>4
  <2> QED
    BY <2>6, <2>7
<1>3. CASE IsValid(envelope) /\ envelope.action \in allowed
  <2>1. CASE envelope.action \in ReadActions
    <3>1. result = Result(Ok("dispatched"), there, FALSE)
      BY <1>3, <2>1 DEF TaskFlowDispatch, ReadActions, Mutations
    <3>2. Ok("dispatched") \in DonePlans
      BY DEF DonePlans
    <3>3. ~HopelessEnvelope(req, there)
      BY <1>3, <2>1 DEF HopelessEnvelope, Mutates, ReadActions, Mutations
    <3> QED
      BY <3>1, <3>2, <3>3, DoneIsSound
  <2>2. CASE envelope.action \in Mutations
    <3>1. result = Mutate(there, envelope, disk)
      BY <1>3, <2>2 DEF TaskFlowDispatch, ReadActions, Mutations
    <3>2. Mutates(req)
      BY <2>2 DEF Mutates
    <3> QED
      BY <3>1, <3>2, MutateIsSound
  <2>3. CASE envelope.action = "create_flow"
    <3>1. result = CreateFlow(there, disk)
      BY <1>3, <2>3 DEF TaskFlowDispatch, ReadActions, Mutations
    <3> QED
      BY <2>3, <3>1, CreateIsSound
  <2>4. CASE envelope.action = "cancel_flow"
    <3>1. result = CancelFlow(there, envelope.flow, running)
      BY <1>3, <2>4 DEF TaskFlowDispatch, ReadActions, Mutations
    <3> QED
      BY <2>4, <3>1, CancelIsSound
  <2>5. CASE envelope.action = "run_task"
    <3>1. result = RunTask(there, envelope.flow)
      BY <1>3, <2>5 DEF TaskFlowDispatch, ReadActions, Mutations
    <3> QED
      BY <2>5, <3>1, RunIsSound
  <2> QED
    BY <1>3, <2>1, <2>2, <2>3, <2>4, <2>5 DEF IsValid, AllActions, WriteActions
<1> QED
  BY <1>1, <1>2, <1>3

LEMMA DispatchIsSound ==
  ASSUME NEW req \in Requests, NEW there \in [Flows -> FlowRows], NEW c \in Configs,
         NEW circumstance \in Circumstances
  PROVE  SoundResult(req, there, Dispatch(req, there, c, circumstance))
<1>0. req.route \in {"wake", "taskflow"} /\ c.allowed \in SUBSET AllActions
  BY DEF Requests, Configs
<1>1. CASE req.route = "wake"
  <2>1. Dispatch(req, there, c, circumstance) = WakeDispatch(there, circumstance)
    BY <1>1 DEF Dispatch
  <2> QED
    BY <1>1, <2>1, WakeIsSound
<1>2. CASE /\ req.route = "taskflow" /\ circumstance = "throws"
           /\ IsValid(req.envelope) /\ req.envelope.action \in c.allowed
  <2>1. Dispatch(req, there, c, circumstance) =
          Result(Retryable(503, "dispatch_error"), there, FALSE)
    BY <1>2 DEF Dispatch
  <2>2. Retryable(503, "dispatch_error") \in LaterPlans
    BY DEF LaterPlans
  <2>3. SoundResult(req, there, Result(Retryable(503, "dispatch_error"), there, FALSE))
    BY <2>2, LaterIsSound
  <2> QED
    BY <2>1, <2>3
<1>3. CASE /\ req.route = "taskflow"
           /\ ~(/\ circumstance = "throws"
                /\ IsValid(req.envelope) /\ req.envelope.action \in c.allowed)
  <2>1. Dispatch(req, there, c, circumstance) =
          TaskFlowDispatch(there, req.envelope, c.allowed, circumstance # "disk_full",
                           circumstance = "children_active")
    BY <1>3 DEF Dispatch
  <2>2. PICK disk \in BOOLEAN, running \in BOOLEAN :
          /\ disk = (circumstance # "disk_full") /\ running = (circumstance = "children_active")
    OBVIOUS
  <2>3. SoundResult(req, there,
                    TaskFlowDispatch(there, req.envelope, c.allowed, disk, running))
    BY <1>0, <1>3, TaskFlowIsSound
  <2> QED
    BY <2>1, <2>2, <2>3
<1> QED
  BY <1>0, <1>1, <1>2, <1>3

(***************************************************************************)
(* The whole pipeline: what a delivery does to the flows, and what its     *)
(* answer says of the request.                                             *)
(***************************************************************************)
Hopeless(req, there) == HopelessBytes(req) \/ HopelessEnvelope(req, there)

SoundHandled(req, there, handled) ==
  /\ handled.flows \in [Flows -> FlowRows] /\ handled.did \in BOOLEAN
  /\ handled.row \in Rows \cup {NoRow} /\ handled.verified \in BOOLEAN
  /\ IsAnswer(handled.plan)
  /\ handled.did => Succeeds(handled.plan)
  /\ \A f \in Flows : Advances(there[f], handled.flows[f])
  /\ handled.did /\ Mutates(req) =>
       /\ ~IsBeyond(there[req.envelope.flow], req.envelope.expectedRevision)
       /\ IsBeyond(handled.flows[req.envelope.flow], req.envelope.expectedRevision)
  /\ handled.plan.retry = "cancel" =>
       \/ handled.plan.code = "forbidden_action" \/ Hopeless(req, there)
       \/ IsPremature(req, there, handled.plan)
  /\ handled.plan.code \in {"dispatched", "cancel_pending"} => ~Hopeless(req, there)

\* An answer before the dispatch.
LEMMA TurnedAway ==
  ASSUME NEW req \in Requests, NEW there \in [Flows -> FlowRows], NEW row \in Rows \cup {NoRow},
         NEW verified \in BOOLEAN, NEW plan,
         \/ plan \in LaterPlans \cup {Ok("duplicate"), Ok("ignored")}
         \/ plan \in CancelPlans /\ Hopeless(req, there)
  PROVE  SoundHandled(req, there, Handled(Result(plan, there, FALSE), row, verified))
<1>1. /\ IsAnswer(plan) /\ plan.code \notin {"dispatched", "cancel_pending"}
      /\ plan.retry = "cancel" => Hopeless(req, there)
  <2>1. CASE plan \in LaterPlans
    BY <2>1, LaterAnswers
  <2>2. CASE plan \in {Ok("duplicate"), Ok("ignored")}
    BY <2>2 DEF Ok, Plan, IsAnswer, Plans, Codes, Succeeds
  <2>3. CASE plan \in CancelPlans /\ Hopeless(req, there)
    BY <2>3, CancelAnswers
  <2> QED
    BY <2>1, <2>2, <2>3
<1>2. \A f \in Flows : there[f].revision \in Nat
  BY DEF FlowRows, Absent
<1>3. \A f \in Flows : Advances(there[f], there[f])
  BY <1>2 DEF Advances
<1> QED
  BY <1>1, <1>3 DEF SoundHandled, Handled, Result

LEMMA PipelineIsSound ==
  ASSUME NEW req \in Requests, NEW live, NEW c \in Configs,
         NEW circumstance \in Circumstances, NEW there \in [Flows -> FlowRows],
         NEW row \in Rows \cup {NoRow}, NEW number \in Nat
  PROVE  SoundHandled(req, there, RunPipeline(req, live, c, circumstance, there, row, number))
<1> DEFINE arrival == Arrival(req, live, c, circumstance)
           intake == Intake(req, c, circumstance, row, number)
           result == Dispatch(req, there, c, circumstance)
           status == IF Succeeds(result.plan) THEN "succeeded" ELSE "failed"
           settled == SettleRow(BeginRow(row, number, 1), status)
           handled == RunPipeline(req, live, c, circumstance, there, row, number)
<1>1. CASE arrival # Pass
  <2>1. handled = Handled(Result(arrival, there, FALSE), row, FALSE)
    BY <1>1 DEF RunPipeline
  <2>2. \/ arrival \in LaterPlans
        \/ arrival \in CancelPlans /\ Hopeless(req, there)
    BY <1>1, ArrivalAnswers DEF LaterPlans, CancelPlans, Hopeless, HopelessBytes
  <2> HIDE DEF arrival, handled
  <2>3. SoundHandled(req, there, Handled(Result(arrival, there, FALSE), row, FALSE))
    BY <2>2, TurnedAway
  <2> QED
    BY <2>1, <2>3 DEF handled
<1>2. CASE arrival = Pass /\ intake # Pass
  <2>1. handled = Handled(Result(intake, there, FALSE), row, TRUE)
    BY <1>2 DEF RunPipeline
  <2>2. \/ intake \in LaterPlans \cup {Ok("duplicate"), Ok("ignored")}
        \/ intake \in CancelPlans /\ Hopeless(req, there)
    BY <1>2, IntakeAnswers DEF LaterPlans, CancelPlans, Hopeless, HopelessBytes
  <2> HIDE DEF intake, handled
  <2>3. SoundHandled(req, there, Handled(Result(intake, there, FALSE), row, TRUE))
    BY <2>2, TurnedAway
  <2> QED
    BY <2>1, <2>3 DEF handled
<1>3. CASE arrival = Pass /\ intake = Pass
  <2>1. handled = Handled(result, settled, TRUE)
    BY <1>3 DEF RunPipeline
  <2>2. ~HopelessBytes(req)
    <3>1. req.post /\ req.type # "other" /\ req.fits
      BY <1>3, ArrivalAnswers DEF CancelRetries, Retryable, Plan, Pass
    <3>2. req.utf8 /\ Parses(req)
      BY <1>3, IntakeAnswers DEF CancelRetries, Retryable, DeferFor, Ok, Plan, Pass
    <3> QED
      BY <3>1, <3>2 DEF HopelessBytes
  <2>3. SoundResult(req, there, result)
    BY DispatchIsSound
  <2>4. settled \in Rows
    <3>1. status \in Statuses
      BY DEF Statuses
    <3>2. BeginRow(row, number, 1) \in Rows
      BY BeginType DEF AttemptHeaders
    <3> HIDE DEF status
    <3> QED
      BY <3>1, <3>2, SettleType
  <2> HIDE DEF result, settled, handled
  <2>5. SoundHandled(req, there, Handled(result, settled, TRUE))
    BY <2>2, <2>3, <2>4 DEF SoundResult, SoundHandled, Handled, Hopeless
  <2> QED
    BY <2>1, <2>5 DEF handled
<1> QED
  BY <1>1, <1>2, <1>3

(***************************************************************************)
(* The invariant: types; what an answer and a verdict say of one another;  *)
(* the file; what was done; and the requests that are hopeless.            *)
(***************************************************************************)
AnswerRows == [plan : Plans, verified : BOOLEAN, last : BOOLEAN, cancels : BOOLEAN,
               lost : BOOLEAN]

EventTypes ==
  /\ Events \subseteq Recorders /\ request \in [Events -> Requests]
  /\ fate \in [Events -> Fates] /\ manual \subseteq Events
  /\ attempt \in [Events -> Nat \ {0}] /\ answer \in [Events -> AnswerRows]
  /\ ledger \in [Events -> Rows \cup {NoRow}] /\ flows \in [Flows -> FlowRows]
  /\ done \in [Events -> Nat] /\ reruns \in [Events -> Nat]
  /\ droppedUnder \in [Events -> SUBSET (Nat \X Nat)]

RecordingInv ==
  /\ DOMAIN recording = Recorders
  /\ \A r \in Recorders :
       /\ recording[r].stage \in {"none", "put", "evicting"}
       /\ recording[r].stage # "none" => r \in Events /\ fate[r] = "answering"

\* What Hookdeck did about an answer is what the answer asked for.
AnswersInv ==
  \A e \in Events :
    /\ IsAnswer(answer[e].plan)
    /\ answer[e].cancels => answer[e].plan.retry = "cancel"
    /\ fate[e] = "retired" => ~answer[e].lost /\ answer[e].cancels
    /\ fate[e] = "exhausted" =>
         answer[e].lost \/ (answer[e].last /\ ~answer[e].cancels)
    /\ fate[e] = "unretried" =>
         /\ ~Succeeds(answer[e].plan) /\ answer[e].plan.retry # "after"
         /\ ~Covers(droppedUnder[e], answer[e].plan.status)

\* From the answer to the verdict, the letter of the attempt is on file.
FiledInv ==
  \A e \in Events :
    (/\ fate[e] \in {"answering", "retired", "exhausted"}
     /\ answer[e].verified /\ ~Succeeds(answer[e].plan)
     /\ answer[e].plan.retry = "cancel" \/ answer[e].last) =>
         \E row \in filed :
           /\ row.entry.event = e /\ row.entry.attempt = attempt[e]
           /\ row.entry.retriesCancelled = answer[e].cancels

\* What was done for an event was answered as done, or is counted as run again; a
\* mutation that was applied has moved its flow beyond the revision it expects.
DoneInv ==
  \A e \in Events :
    /\ done[e] <= 1 + reruns[e]
    /\ done[e] > reruns[e] => fate[e] # "queued" /\ Succeeds(answer[e].plan)
    /\ Mutates(request[e]) =>
         /\ done[e] <= 1
         /\ done[e] > 0 => IsBeyond(flows[request[e].envelope.flow],
                                    request[e].envelope.expectedRevision)

HopelessInv ==
  \A e \in Events :
    (/\ fate[e] \in {"answering", "retired"} /\ answer[e].plan.retry = "cancel"
     /\ answer[e].plan.code # "forbidden_action" /\ e \notin early) =>
         Hopeless(request[e], flows)

ContractInv ==
  /\ ConnectionInv /\ EventTypes /\ RecordingInv /\ AnswersInv /\ FiledInv /\ DoneInv
  /\ HopelessInv

LEMMA PassIsAnswer == IsAnswer(Pass) /\ Pass.retry = "none" /\ Succeeds(Pass)
  BY DEF Pass, IsAnswer, Plans, Codes, Plan, Succeeds

LEMMA ContractStarts == Init => ContractInv
<1> SUFFICES ASSUME NEW s \in Scenarios,
                    request = s.request, flows = s.flows, manual = {},
                    fate = [e \in DOMAIN s.request |-> "queued"],
                    attempt = [e \in DOMAIN s.request |-> 1],
                    answer = [e \in DOMAIN s.request |-> NoAnswer],
                    ledger = [e \in DOMAIN s.request |-> NoRow],
                    done = [e \in DOMAIN s.request |-> 0],
                    reruns = [e \in DOMAIN s.request |-> 0],
                    droppedUnder = [e \in DOMAIN s.request |-> NotDropped],
                    LogInit, ConnectionInv
             PROVE  ContractInv
  BY ConnectionStarts DEF Init
<1>1. DOMAIN s.request = Events
  BY DEF Events
<1>2. NoAnswer \in AnswerRows /\ IsAnswer(NoAnswer.plan) /\ ~NoAnswer.cancels
  BY PassIsAnswer DEF NoAnswer, AnswerRows, IsAnswer
<1>3. NotDropped \in SUBSET (Nat \X Nat)
  BY DEF NotDropped
<1>4. /\ s.flows \in [Flows -> FlowRows] /\ DOMAIN s.request \subseteq Recorders
      /\ s.request \in [DOMAIN s.request -> Requests]
  BY ScenariosAssumption
<1>5. EventTypes
  BY <1>1, <1>2, <1>3, <1>4 DEF EventTypes, Fates
<1>6. RecordingInv
  BY DEF LogInit, NoRecord, RecordingInv
<1>7. AnswersInv /\ FiledInv /\ HopelessInv
  BY <1>1, <1>2 DEF AnswersInv, FiledInv, HopelessInv
<1>8. DoneInv
  BY <1>1 DEF DoneInv
<1> QED
  BY <1>5, <1>6, <1>7, <1>8 DEF ContractInv

(***************************************************************************)
(* What an action does.                                                    *)
(***************************************************************************)
Delivered(e, handled, last, cancels) ==
  /\ SoundHandled(request[e], flows, handled)
  /\ last \in BOOLEAN /\ cancels \in BOOLEAN
  /\ cancels => handled.plan.retry = "cancel"
  /\ fate[e] = "queued" /\ fate' = [fate EXCEPT ![e] = "answering"]
  /\ answer' = [answer EXCEPT ![e] =
         [plan |-> handled.plan, verified |-> handled.verified,
          last |-> last, cancels |-> cancels, lost |-> FALSE]]
  /\ ledger' = [ledger EXCEPT ![e] = handled.row]
  /\ flows' = handled.flows
  /\ done' = [done EXCEPT ![e] = IF handled.did THEN @ + 1 ELSE @]
  /\ early' = IF IsEarly(e, handled) THEN early \cup {e} ELSE early \ {e}
  /\ IF IsDeadLetter(handled, last)
     THEN Put(e, [event |-> e, attempt |-> attempt[e],
                  retriesCancelled |-> cancels, lastAttempt |-> last])
     ELSE UNCHANGED logVars
  /\ UNCHANGED <<request, attempt, manual, reruns, droppedUnder>>

LEMMA DeliverDoes ==
  ASSUME ContractInv, NEW e \in Events, NEW circumstance \in Circumstances,
         Deliver(e, circumstance)
  PROVE  \E handled, last, cancels : Delivered(e, handled, last, cancels)
<1> DEFINE handled == RunPipeline(request[e], connection, config, circumstance,
                                  flows, ledger[e], attempt[e])
           last == IsLastAttempt(e)
           cancels == RetryAfterHeader(handled.plan, config.allowRetryCancel) = "cancel"
<1>1. SoundHandled(request[e], flows, handled)
  BY PipelineIsSound DEF ContractInv, EventTypes, ConnectionInv, ProvisioningTypeOK
<1>2. cancels => handled.plan.retry = "cancel"
  BY DEF RetryAfterHeader
<1>3. last \in BOOLEAN /\ cancels \in BOOLEAN
  BY DEF IsLastAttempt
<1>4. Delivered(e, handled, last, cancels)
  BY <1>1, <1>2, <1>3 DEF Deliver, Delivered
<1> QED
  BY <1>4

LEMMA VerdictIs ==
  ASSUME ContractInv, NEW e \in Events, NEW lost \in BOOLEAN
  PROVE  LET plan == answer[e].plan  verdict == Verdict(e, lost) IN
         /\ verdict \in Fates \ {"answering"}
         /\ verdict = "retired" => ~lost /\ answer[e].cancels
         /\ verdict = "exhausted" => lost \/ (answer[e].last /\ ~answer[e].cancels)
         /\ verdict = "unretried" =>
              /\ ~Succeeds(plan) /\ plan.retry # "after"
              /\ ~Covers(connection.rule, plan.status)
<1> DEFINE plan == answer[e].plan
           verdict == Verdict(e, lost)
           given == ~lost /\ (Succeeds(plan) \/ answer[e].cancels)
<1>1. ~(Succeeds(plan) /\ answer[e].cancels)
  BY DEF ContractInv, AnswersInv, IsAnswer
<1>2. CASE ~lost /\ Succeeds(plan)
  <2>1. verdict = "delivered"
    BY <1>1, <1>2 DEF Verdict
  <2> QED
    BY <2>1 DEF Fates
<1>3. CASE ~lost /\ answer[e].cancels
  <2>1. verdict = "retired"
    BY <1>1, <1>3 DEF Verdict
  <2> QED
    BY <2>1, <1>3 DEF Fates
<1>4. CASE ~given /\ answer[e].last
  <2>1. verdict = "exhausted"
    BY <1>4 DEF Verdict
  <2> QED
    BY <2>1, <1>4 DEF Fates
<1>5. CASE ~given /\ ~answer[e].last
  <2>1. verdict = IF lost \/ plan.retry = "after" \/ Covers(connection.rule, plan.status)
                  THEN "queued" ELSE "unretried"
    BY <1>5 DEF Verdict
  <2> QED
    BY <2>1, <1>5 DEF Fates
<1> QED
  BY <1>2, <1>3, <1>4, <1>5

OperatorStep == Restart \/ SetupTool \/ DashboardEdit \/ SecretRoll

LEMMA OperatorsLeaveEvents ==
  ASSUME OperatorStep PROVE UNCHANGED <<logVars, eventVars, ghosts>>
  BY DEF OperatorStep, Restart, SetupTool, DashboardEdit, SecretRoll

LEMMA LogLeavesEvents ==
  ASSUME LogReturns PROVE UNCHANGED <<eventVars, ghosts, filed>>
  BY DEF LogReturns, LogStep, PutReturns, DeleteReturns

\* A flow never goes back, nor away.
LEMMA HostAdvances ==
  ASSUME ContractInv, HostMovesFlow
  PROVE  flows' \in [Flows -> FlowRows] /\ \A f \in Flows : Advances(flows[f], flows'[f])
<1>1. PICK f \in Flows : flows' = [flows EXCEPT ![f] = Moved(@)]
  BY DEF HostMovesFlow
<1>2. flows \in [Flows -> FlowRows] /\ \A g \in Flows : flows[g].revision \in Nat
  BY DEF ContractInv, EventTypes, FlowRows, Absent
<1>3. ASSUME NEW row \in FlowRows
      PROVE  Moved(row) \in FlowRows /\ Advances(row, Moved(row))
  <2>1. CASE row = Absent
    BY <2>1 DEF Moved, FlowRows, Absent, Advances
  <2>2. CASE row # Absent
    <3>1. row \in [revision : Nat, status : {"open", "ended"}]
      BY <2>2 DEF FlowRows
    <3>2. Moved(row) = [row EXCEPT !.revision = @ + 1]
      BY <2>2 DEF Moved
    <3> QED
      BY <3>1, <3>2 DEF FlowRows, Advances
  <2> QED
    BY <2>1, <2>2
<1>4. \A g \in Flows : Advances(flows[g], flows[g])
  BY <1>2 DEF Advances
<1> QED
  BY <1>1, <1>2, <1>3, <1>4

LEMMA FlowsAdvance ==
  ASSUME ContractInv, [Next]_vars
  PROVE  flows' \in [Flows -> FlowRows] /\ \A f \in Flows : Advances(flows[f], flows'[f])
<1>1. flows \in [Flows -> FlowRows] /\ \A f \in Flows : Advances(flows[f], flows[f])
  BY DEF ContractInv, EventTypes, FlowRows, Absent, Advances
<1>2. CASE UNCHANGED flows
  BY <1>1, <1>2
<1>3. ASSUME NEW e \in Events, NEW circumstance \in Circumstances, Deliver(e, circumstance)
      PROVE  flows' \in [Flows -> FlowRows] /\ \A f \in Flows : Advances(flows[f], flows'[f])
  BY <1>3, DeliverDoes DEF Delivered, SoundHandled
<1>4. CASE HostMovesFlow
  BY <1>4, HostAdvances
<1>5. CASE OperatorStep
  BY <1>2, <1>5, OperatorsLeaveEvents DEF eventVars
<1>6. CASE LogReturns
  BY <1>2, <1>6, LogLeavesEvents DEF eventVars
<1>7. CASE UNCHANGED vars
  BY <1>2, <1>7 DEF vars, eventVars
<1>8. ASSUME NEW e \in Events, Replay(e) \/ \E lost \in BOOLEAN : Reply(e, lost)
      PROVE  UNCHANGED flows
  BY <1>8 DEF Replay, Reply
<1> QED
  BY <1>2, <1>3, <1>4, <1>5, <1>6, <1>7, <1>8 DEF Next, OperatorStep

\* Who is beyond a revision stays so, and a hopeless request stays hopeless.
LEMMA BeyondStays ==
  ASSUME NEW row \in FlowRows, NEW next \in FlowRows, NEW revision \in Nat,
         Advances(row, next), IsBeyond(row, revision)
  PROVE  IsBeyond(next, revision)
<1>1. row.revision \in Nat /\ next.revision \in Nat
  BY DEF FlowRows, Absent
<1> QED
  BY <1>1 DEF Advances, IsBeyond

LEMMA HopelessStays ==
  ASSUME NEW req \in Requests, NEW before \in [Flows -> FlowRows],
         NEW after \in [Flows -> FlowRows], \A f \in Flows : Advances(before[f], after[f]),
         Hopeless(req, before)
  PROVE  Hopeless(req, after)
<1>1. req.envelope.flow \in Flows /\ req.envelope.expectedRevision \in Nat
  BY DEF Requests, Envelopes
<1> QED
  BY <1>1, BeyondStays DEF Hopeless, HopelessEnvelope

(***************************************************************************)
(* Types.                                                                  *)
(***************************************************************************)
LEMMA TypesKept == ASSUME ContractInv, [Next]_vars PROVE EventTypes'
<1> USE DEF ContractInv, EventTypes
<1>1. flows' \in [Flows -> FlowRows]
  BY FlowsAdvance
<1>2. ASSUME NEW e \in Events, NEW circumstance \in Circumstances, Deliver(e, circumstance)
      PROVE  EventTypes'
  <2>1. PICK handled, last, cancels : Delivered(e, handled, last, cancels)
    BY <1>2, DeliverDoes
  <2>2. /\ handled.plan \in Plans /\ handled.verified \in BOOLEAN /\ handled.did \in BOOLEAN
        /\ handled.row \in Rows \cup {NoRow} /\ last \in BOOLEAN /\ cancels \in BOOLEAN
    BY <2>1 DEF Delivered, SoundHandled, IsAnswer
  <2>3. [plan |-> handled.plan, verified |-> handled.verified, last |-> last,
         cancels |-> cancels, lost |-> FALSE] \in AnswerRows
    BY <2>2 DEF AnswerRows
  <2>4. answer' \in [Events -> AnswerRows]
    BY <2>1, <2>3 DEF Delivered
  <2>5. ledger' \in [Events -> Rows \cup {NoRow}]
    BY <2>1, <2>2 DEF Delivered
  <2>6. done' \in [Events -> Nat] /\ fate' \in [Events -> Fates]
    BY <2>1, <2>2 DEF Delivered, Fates
  <2>7. UNCHANGED <<request, attempt, manual, reruns, droppedUnder>>
    BY <2>1 DEF Delivered
  <2> QED
    BY <1>1, <2>4, <2>5, <2>6, <2>7 DEF Events
<1>3. ASSUME NEW e \in Events, NEW lost \in BOOLEAN, Reply(e, lost)
      PROVE  EventTypes'
  <2>1. Verdict(e, lost) \in Fates
    BY VerdictIs
  <2>2. fate' \in [Events -> Fates]
    BY <1>3, <2>1 DEF Reply
  <2>3. answer' \in [Events -> AnswerRows]
    BY <1>3 DEF Reply, AnswerRows
  <2>4. attempt' \in [Events -> Nat \ {0}] /\ reruns' \in [Events -> Nat]
    BY <1>3 DEF Reply
  <2>5. droppedUnder' \in [Events -> SUBSET (Nat \X Nat)]
    <3>1. connection.rule \in SUBSET (Nat \X Nat)
      BY DEF ConnectionInv, ProvisioningTypeOK, Connections
    <3> QED
      BY <1>3, <3>1 DEF Reply
  <2>6. UNCHANGED <<request, manual, ledger, done>>
    BY <1>3 DEF Reply
  <2> QED
    BY <1>1, <2>2, <2>3, <2>4, <2>5, <2>6 DEF Events
<1>4. ASSUME NEW e \in Events, Replay(e) PROVE EventTypes'
  <2>1. fate' \in [Events -> Fates] /\ manual' \subseteq Events
    BY <1>4 DEF Replay, Fates
  <2>2. attempt' \in [Events -> Nat \ {0}] /\ reruns' \in [Events -> Nat]
    BY <1>4 DEF Replay
  <2>3. droppedUnder' \in [Events -> SUBSET (Nat \X Nat)]
    BY <1>4 DEF Replay, NotDropped
  <2>4. UNCHANGED <<request, answer, ledger, done>>
    BY <1>4 DEF Replay
  <2> QED
    BY <1>1, <2>1, <2>2, <2>3, <2>4 DEF Events
<1>5. CASE HostMovesFlow
  BY <1>1, <1>5 DEF HostMovesFlow, ghosts, Events
<1>6. CASE OperatorStep
  BY <1>6, OperatorsLeaveEvents DEF eventVars, ghosts, Events
<1>7. CASE LogReturns
  BY <1>7, LogLeavesEvents DEF eventVars, ghosts, Events
<1>8. CASE UNCHANGED vars
  BY <1>8 DEF vars, eventVars, ghosts, Events
<1> QED
  BY <1>2, <1>3, <1>4, <1>5, <1>6, <1>7, <1>8 DEF Next, OperatorStep

LEMMA RecordingKept == ASSUME ContractInv, [Next]_vars PROVE RecordingInv'
<1> USE DEF ContractInv, RecordingInv
<1>1. ASSUME NEW e \in Events, NEW circumstance \in Circumstances, Deliver(e, circumstance)
      PROVE  RecordingInv'
  <2>1. PICK handled, last, cancels : Delivered(e, handled, last, cancels)
    BY <1>1, DeliverDoes
  <2>2. UNCHANGED Events /\ fate' = [fate EXCEPT ![e] = "answering"]
    BY <2>1 DEF Delivered, Events
  <2>3. \/ UNCHANGED recording
        \/ recording' = [recording EXCEPT ![e] = [stage |-> "put", victims |-> << >>]]
    BY <2>1 DEF Delivered, Put, logVars
  <2>4. Events \subseteq Recorders /\ fate \in [Events -> Fates]
    BY DEF EventTypes
  <2> QED
    BY <2>2, <2>3, <2>4
<1>2. ASSUME NEW e \in Events, Replay(e) \/ \E lost \in BOOLEAN : Reply(e, lost)
      PROVE  RecordingInv'
  <2>1. /\ UNCHANGED <<Events, recording>> /\ recording[e].stage = "none"
        /\ \A x \in Events \ {e} : fate'[x] = fate[x]
    BY <1>2 DEF Replay, Reply, Answered, logVars, Events, EventTypes, Final
  <2> QED
    BY <2>1
<1>3. CASE LogReturns
  <2>1. UNCHANGED <<Events, fate>>
    BY <1>3, LogLeavesEvents DEF eventVars, Events
  <2>2. PICK r \in Recorders : PutReturns(r) \/ DeleteReturns(r)
    BY <1>3 DEF LogReturns, LogStep
  <2>3. /\ recording[r].stage # "none"
        /\ DOMAIN recording' = Recorders /\ recording'[r].stage \in {"none", "evicting"}
        /\ \A x \in Recorders \ {r} : recording'[x] = recording[x]
    BY <2>2 DEF PutReturns, DeleteReturns, Evict, NoRecord
  <2> QED
    BY <2>1, <2>3
<1>4. CASE HostMovesFlow
  BY <1>4 DEF HostMovesFlow, logVars, Events
<1>5. CASE OperatorStep
  BY <1>5, OperatorsLeaveEvents DEF logVars, eventVars, Events
<1>6. CASE UNCHANGED vars
  BY <1>6 DEF vars, logVars, eventVars, Events
<1> QED
  BY <1>1, <1>2, <1>3, <1>4, <1>5, <1>6 DEF Next, OperatorStep

\* What changes of an event that is not delivered, answered or replayed: nothing but
\* the flows around it; and the file only grows.
Bystander(e) ==
  /\ fate'[e] = fate[e] /\ attempt'[e] = attempt[e] /\ answer'[e] = answer[e]
  /\ done'[e] = done[e] /\ reruns'[e] = reruns[e] /\ droppedUnder'[e] = droppedUnder[e]
  /\ (e \in early) = (e \in early')

LEMMA EveryEvent ==
  ASSUME ContractInv, [Next]_vars, NEW e \in Events
  PROVE  /\ filed \subseteq filed' /\ request' = request
         /\ \/ Bystander(e)
            \/ \E circumstance \in Circumstances : Deliver(e, circumstance)
            \/ \E lost \in BOOLEAN : Reply(e, lost)
            \/ Replay(e)
<1> USE DEF ContractInv, EventTypes
<1>1. ASSUME NEW x \in Events, NEW circumstance \in Circumstances, Deliver(x, circumstance)
      PROVE  filed \subseteq filed' /\ request' = request /\ (x # e => Bystander(e))
  <2>1. PICK handled, last, cancels : Delivered(x, handled, last, cancels)
    BY <1>1, DeliverDoes
  <2>2. filed \subseteq filed'
    BY <2>1 DEF Delivered, Put, logVars
  <2>3. x # e => Bystander(e)
    BY <2>1 DEF Delivered, Bystander
  <2> QED
    BY <2>1, <2>2, <2>3 DEF Delivered
<1>2. ASSUME NEW x \in Events, Replay(x) \/ \E lost \in BOOLEAN : Reply(x, lost)
      PROVE  filed \subseteq filed' /\ request' = request /\ (x # e => Bystander(e))
  BY <1>2 DEF Replay, Reply, Bystander, logVars
<1>3. CASE LogReturns
  BY <1>3, LogLeavesEvents DEF eventVars, ghosts, Bystander
<1>4. CASE HostMovesFlow
  BY <1>4 DEF HostMovesFlow, logVars, ghosts, Bystander
<1>5. CASE OperatorStep
  BY <1>5, OperatorsLeaveEvents DEF logVars, eventVars, ghosts, Bystander
<1>6. CASE UNCHANGED vars
  BY <1>6 DEF vars, logVars, eventVars, ghosts, Bystander
<1>7. CASE \E x \in Events, circumstance \in Circumstances : Deliver(x, circumstance)
  BY <1>1, <1>7
<1>8. CASE \E x \in Events, lost \in BOOLEAN : Reply(x, lost)
  BY <1>2, <1>8
<1>9. CASE \E x \in Events : Replay(x)
  BY <1>2, <1>9
<1> QED
  BY <1>3, <1>4, <1>5, <1>6, <1>7, <1>8, <1>9 DEF Next, OperatorStep

LEMMA RequestsStay == ASSUME ContractInv, [Next]_vars PROVE UNCHANGED <<request, Events>>
<1>1. UNCHANGED request
  BY OperatorsLeaveEvents, LogLeavesEvents
  DEF Next, OperatorStep, Deliver, Reply, Replay, HostMovesFlow, vars, eventVars
<1> QED
  BY <1>1 DEF Events

(***************************************************************************)
(* Answers and verdicts.                                                   *)
(***************************************************************************)
LEMMA AnswersKept == ASSUME ContractInv, [Next]_vars PROVE AnswersInv'
<1> USE DEF ContractInv, AnswersInv
<1> SUFFICES ASSUME NEW e \in Events
             PROVE  /\ IsAnswer(answer'[e].plan)
                    /\ answer'[e].cancels => answer'[e].plan.retry = "cancel"
                    /\ fate'[e] = "retired" => ~answer'[e].lost /\ answer'[e].cancels
                    /\ fate'[e] = "exhausted" =>
                          answer'[e].lost \/ (answer'[e].last /\ ~answer'[e].cancels)
                    /\ fate'[e] = "unretried" =>
                          /\ ~Succeeds(answer'[e].plan) /\ answer'[e].plan.retry # "after"
                          /\ ~Covers(droppedUnder'[e], answer'[e].plan.status)
  BY RequestsStay DEF IsAnswer, Succeeds, Covers
<1>0. /\ fate \in [Events -> Fates] /\ answer \in [Events -> AnswerRows]
      /\ droppedUnder \in [Events -> SUBSET (Nat \X Nat)]
  BY DEF EventTypes
<1>1. CASE Bystander(e)
  BY <1>1 DEF Bystander
<1>2. ASSUME NEW circumstance \in Circumstances, Deliver(e, circumstance)
      PROVE  /\ fate'[e] = "answering" /\ IsAnswer(answer'[e].plan)
             /\ answer'[e].cancels => answer'[e].plan.retry = "cancel"
  <2>1. PICK handled, last, cancels : Delivered(e, handled, last, cancels)
    BY <1>2, DeliverDoes
  <2> QED
    BY <1>0, <2>1 DEF Delivered, SoundHandled
<1>3. ASSUME NEW lost \in BOOLEAN, Reply(e, lost)
      PROVE  /\ fate'[e] = Verdict(e, lost) /\ answer'[e].plan = answer[e].plan
             /\ answer'[e].lost = lost /\ answer'[e].cancels = answer[e].cancels
             /\ answer'[e].last = answer[e].last
             /\ fate'[e] = "unretried" => droppedUnder'[e] = connection.rule
  BY <1>0, <1>3 DEF Reply, AnswerRows
<1>4. ASSUME Replay(e) PROVE fate'[e] = "queued" /\ answer'[e] = answer[e]
  BY <1>0, <1>4 DEF Replay
<1>5. CASE \E lost \in BOOLEAN : Reply(e, lost)
  BY <1>3, <1>5, VerdictIs
<1> QED
  BY <1>1, <1>2, <1>4, <1>5, EveryEvent

\* A row, once put, stays on file: what is to be shown is that it was put.
LEMMA FiledKept == ASSUME ContractInv, [Next]_vars PROVE FiledInv'
<1> USE DEF ContractInv
<1> DEFINE Due(e) ==
      /\ fate[e] \in {"answering", "retired", "exhausted"}
      /\ answer[e].verified /\ ~Succeeds(answer[e].plan)
      /\ answer[e].plan.retry = "cancel" \/ answer[e].last
    OnFile(e, row) == /\ row.entry.event = e /\ row.entry.attempt = attempt[e]
                      /\ row.entry.retriesCancelled = answer[e].cancels
<1> SUFFICES ASSUME NEW e \in Events,
                    fate'[e] \in {"answering", "retired", "exhausted"},
                    answer'[e].verified, ~Succeeds(answer'[e].plan),
                    answer'[e].plan.retry = "cancel" \/ answer'[e].last
             PROVE  \E row \in filed' :
                      /\ row.entry.event = e /\ row.entry.attempt = attempt'[e]
                      /\ row.entry.retriesCancelled = answer'[e].cancels
  BY RequestsStay DEF FiledInv, Succeeds
<1>0. /\ fate \in [Events -> Fates] /\ answer \in [Events -> AnswerRows]
      /\ attempt \in [Events -> Nat \ {0}] /\ filed \subseteq filed'
  BY EveryEvent DEF EventTypes
<1>1. Due(e) => \E row \in filed' : OnFile(e, row)
  BY <1>0 DEF FiledInv
<1>2. CASE Bystander(e)
  BY <1>1, <1>2 DEF Bystander
<1>3. CASE \E circumstance \in Circumstances : Deliver(e, circumstance)
  <2>1. PICK handled, last, cancels : Delivered(e, handled, last, cancels)
    BY <1>3, DeliverDoes
  <2>2. /\ answer'[e] = [plan |-> handled.plan, verified |-> handled.verified,
                         last |-> last, cancels |-> cancels, lost |-> FALSE]
        /\ attempt'[e] = attempt[e]
    BY <1>0, <2>1 DEF Delivered
  <2>3. IsDeadLetter(handled, last)
    BY <2>2 DEF IsDeadLetter
  <2>4. Put(e, [event |-> e, attempt |-> attempt[e],
                retriesCancelled |-> cancels, lastAttempt |-> last])
    BY <2>1, <2>3 DEF Delivered
  <2> DEFINE letter == [event |-> e, attempt |-> attempt[e],
                        retriesCancelled |-> cancels, lastAttempt |-> last]
             put == [entry |-> letter, id |-> Cardinality(filed) + 1, createdAt |-> clock']
  <2>5. put \in filed' /\ put.entry = letter
    BY <2>4 DEF Put
  <2>6. letter.event = e /\ letter.attempt = attempt[e] /\ letter.retriesCancelled = cancels
    OBVIOUS
  <2> HIDE DEF put, letter
  <2> QED
    BY <2>2, <2>5, <2>6
<1>4. CASE \E lost \in BOOLEAN : Reply(e, lost)
  <2>1. PICK lost \in BOOLEAN : Reply(e, lost)
    BY <1>4
  <2>2. /\ fate[e] = "answering" /\ answer'[e].plan = answer[e].plan
        /\ answer'[e].verified = answer[e].verified /\ answer'[e].last = answer[e].last
        /\ answer'[e].cancels = answer[e].cancels /\ attempt'[e] = attempt[e]
    BY <1>0, <2>1 DEF Reply, Answered, AnswerRows
  <2> QED
    BY <1>1, <2>2
<1>5. CASE Replay(e)
  BY <1>0, <1>5 DEF Replay
<1> QED
  BY <1>2, <1>3, <1>4, <1>5, EveryEvent

(***************************************************************************)
(* What was done.                                                          *)
(***************************************************************************)
LEMMA DoneKept == ASSUME ContractInv, [Next]_vars PROVE DoneInv'
<1> USE DEF ContractInv
<1> SUFFICES ASSUME NEW e \in Events
             PROVE  /\ done'[e] <= 1 + reruns'[e]
                    /\ done'[e] > reruns'[e] => fate'[e] # "queued" /\ Succeeds(answer'[e].plan)
                    /\ Mutates(request[e]) =>
                         /\ done'[e] <= 1
                         /\ done'[e] > 0 => IsBeyond(flows'[request[e].envelope.flow],
                                                     request[e].envelope.expectedRevision)
  BY RequestsStay DEF DoneInv, Mutates, IsBeyond, Succeeds
<1>0. /\ fate \in [Events -> Fates] /\ answer \in [Events -> AnswerRows]
      /\ done \in [Events -> Nat] /\ reruns \in [Events -> Nat]
      /\ done'[e] \in Nat /\ reruns'[e] \in Nat
  BY TypesKept, RequestsStay DEF EventTypes
<1>1. /\ done[e] <= 1 + reruns[e]
      /\ done[e] > reruns[e] => fate[e] # "queued" /\ Succeeds(answer[e].plan)
      /\ Mutates(request[e]) =>
           /\ done[e] <= 1
           /\ done[e] > 0 => IsBeyond(flows[request[e].envelope.flow],
                                      request[e].envelope.expectedRevision)
  BY DEF DoneInv
<1>2. /\ request[e].envelope.flow \in Flows /\ request[e].envelope.expectedRevision \in Nat
      /\ flows[request[e].envelope.flow] \in FlowRows
      /\ flows'[request[e].envelope.flow] \in FlowRows
  BY FlowsAdvance DEF EventTypes, Requests, Envelopes
<1>3. IsBeyond(flows[request[e].envelope.flow], request[e].envelope.expectedRevision) =>
        IsBeyond(flows'[request[e].envelope.flow], request[e].envelope.expectedRevision)
  BY <1>2, FlowsAdvance, BeyondStays
<1>4. CASE Bystander(e)
  BY <1>1, <1>3, <1>4 DEF Bystander
<1>5. CASE \E circumstance \in Circumstances : Deliver(e, circumstance)
  <2>1. PICK handled, last, cancels : Delivered(e, handled, last, cancels)
    BY <1>5, DeliverDoes
  <2>2. /\ fate[e] = "queued" /\ fate'[e] = "answering" /\ answer'[e].plan = handled.plan
        /\ reruns'[e] = reruns[e] /\ flows' = handled.flows
        /\ done'[e] = IF handled.did THEN done[e] + 1 ELSE done[e]
    BY <1>0, <2>1 DEF Delivered
  <2>3. handled.did => Succeeds(handled.plan)
    BY <2>1 DEF Delivered, SoundHandled
  <2>4. handled.did /\ Mutates(request[e]) =>
          /\ ~IsBeyond(flows[request[e].envelope.flow], request[e].envelope.expectedRevision)
          /\ IsBeyond(flows'[request[e].envelope.flow], request[e].envelope.expectedRevision)
    BY <2>1, <2>2 DEF Delivered, SoundHandled
  <2>5. CASE handled.did
    BY <1>0, <1>1, <2>2, <2>3, <2>4, <2>5
  <2>6. CASE ~handled.did
    BY <1>0, <1>1, <1>3, <2>2, <2>6
  <2> QED
    BY <2>5, <2>6
<1>6. CASE \E lost \in BOOLEAN : Reply(e, lost)
  <2>1. PICK lost \in BOOLEAN : Reply(e, lost)
    BY <1>6
  <2>2. /\ answer'[e].plan = answer[e].plan /\ done'[e] = done[e]
        /\ reruns'[e] = IF fate'[e] = "queued" /\ Succeeds(answer[e].plan)
                        THEN reruns[e] + 1 ELSE reruns[e]
    BY <1>0, <2>1 DEF Reply, AnswerRows
  <2> QED
    BY <1>0, <1>1, <1>3, <2>2
<1>7. CASE Replay(e)
  <2>1. /\ answer'[e] = answer[e] /\ done'[e] = done[e]
        /\ reruns'[e] = IF Succeeds(answer[e].plan) THEN reruns[e] + 1 ELSE reruns[e]
    BY <1>0, <1>7 DEF Replay
  <2> QED
    BY <1>0, <1>1, <1>3, <2>1
<1> QED
  BY <1>4, <1>5, <1>6, <1>7, EveryEvent

(***************************************************************************)
(* What was cancelled.                                                     *)
(***************************************************************************)
LEMMA HopelessKept == ASSUME ContractInv, [Next]_vars PROVE HopelessInv'
<1> USE DEF ContractInv
<1> SUFFICES ASSUME NEW e \in Events, fate'[e] \in {"answering", "retired"},
                    answer'[e].plan.retry = "cancel",
                    answer'[e].plan.code # "forbidden_action", e \notin early'
             PROVE  Hopeless(request[e], flows')
  BY RequestsStay
  DEF HopelessInv, Hopeless, HopelessBytes, HopelessEnvelope, Parses, IsValid, Mutates,
      IsBeyond
<1>0. /\ fate \in [Events -> Fates] /\ answer \in [Events -> AnswerRows]
      /\ request[e] \in Requests /\ flows \in [Flows -> FlowRows]
  BY DEF EventTypes
<1>1. Hopeless(request[e], flows) => Hopeless(request[e], flows')
  BY <1>0, FlowsAdvance, HopelessStays
<1>2. CASE Bystander(e)
  BY <1>1, <1>2 DEF Bystander, HopelessInv
<1>3. CASE \E circumstance \in Circumstances : Deliver(e, circumstance)
  <2>1. PICK handled, last, cancels : Delivered(e, handled, last, cancels)
    BY <1>3, DeliverDoes
  <2>2. handled.plan = answer'[e].plan /\ ~IsEarly(e, handled)
    BY <1>0, <2>1 DEF Delivered
  <2>3. ~IsPremature(request[e], flows, handled.plan)
    BY <2>2 DEF IsEarly, IsPremature
  <2>4. Hopeless(request[e], flows)
    BY <2>1, <2>2, <2>3 DEF Delivered, SoundHandled
  <2> QED
    BY <1>1, <2>4
<1>4. CASE \E lost \in BOOLEAN : Reply(e, lost)
  <2>1. PICK lost \in BOOLEAN : Reply(e, lost)
    BY <1>4
  <2>2. fate[e] = "answering" /\ answer'[e].plan = answer[e].plan /\ early' = early
    BY <1>0, <2>1 DEF Reply, Answered, AnswerRows
  <2> QED
    BY <1>1, <2>2 DEF HopelessInv
<1>5. CASE Replay(e)
  BY <1>0, <1>5 DEF Replay
<1> QED
  BY <1>2, <1>3, <1>4, <1>5, EveryEvent

LEMMA ContractStep == ContractInv /\ [Next]_vars => ContractInv'
  BY TypesKept, RecordingKept, AnswersKept, FiledKept, DoneKept, HopelessKept, ConnectionStep
  DEF ContractInv

LEMMA ContractSafety == Spec => []ContractInv
  BY ContractStarts, ContractStep, PTL DEF Spec

\* For any scenarios, the variables stay in their domains.
THEOREM ContractTypesHold == Spec => []ContractTypeOK
<1>1. ContractInv => ContractTypeOK
  BY DEF ContractInv, ConnectionInv, ProvisioningTypeOK, EventTypes, RecordingInv, AnswersInv,
     IsAnswer, ContractTypeOK
<1> QED
  BY <1>1, ContractSafety, PTL

\* What Hookdeck gives up on after a verified delivery is on file for that attempt,
\* whatever was sent, edited, lost and replayed before.
THEOREM LossIsOnFile == Spec => []LostIsRecorded
<1>1. ContractInv => LostIsRecorded
  <2> SUFFICES ASSUME ContractInv, NEW e \in Events,
                      fate[e] \in {"retired", "exhausted"},
                      answer[e].verified, ~Succeeds(answer[e].plan), ~answer[e].lost
               PROVE  \E row \in filed :
                        /\ row.entry.event = e /\ row.entry.attempt = attempt[e]
                        /\ row.entry.retriesCancelled <=> fate[e] = "retired"
    BY DEF LostIsRecorded
  <2>1. answer[e].plan.retry = "cancel" \/ answer[e].last
    BY DEF ContractInv, AnswersInv
  <2>2. answer[e].cancels <=> fate[e] = "retired"
    BY DEF ContractInv, AnswersInv
  <2>3. \E row \in filed :
          /\ row.entry.event = e /\ row.entry.attempt = attempt[e]
          /\ row.entry.retriesCancelled = answer[e].cancels
    BY <2>1 DEF ContractInv, FiledInv
  <2> QED
    BY <2>2, <2>3
<1> QED
  BY <1>1, ContractSafety, PTL

\* An event is acted upon once, and again only if its answer was lost or somebody
\* replayed it; a mutation of a flow never twice.
THEOREM NothingIsDoneTwice == Spec => []ActedUponOnce
<1>1. ContractInv => ActedUponOnce
  <2> SUFFICES ASSUME ContractInv, NEW e \in Events
               PROVE  /\ done[e] <= 1 + reruns[e]
                      /\ Mutates(request[e]) => done[e] <= 1
                      /\ fate[e] \in {"retired", "unretried"} /\ done[e] > 0 => reruns[e] > 0
    BY DEF ActedUponOnce, Mutates
  <2>1. done[e] \in Nat /\ reruns[e] \in Nat
    BY DEF ContractInv, EventTypes
  <2>2. fate[e] \in {"retired", "unretried"} => ~Succeeds(answer[e].plan)
    BY DEF ContractInv, AnswersInv, IsAnswer
  <2> QED
    BY <2>1, <2>2 DEF ContractInv, DoneInv
<1> QED
  BY <1>1, ContractSafety, PTL

(***************************************************************************)
(* The two halves of the retry contract.                                   *)
(***************************************************************************)
\* A status that is answered for a redelivery and not covered is one the rule lacks.
LEMMA UncoveredStatus ==
  ASSUME NEW rule \in SUBSET (Nat \X Nat), NEW status \in RetryableStatuses,
         ~Covers(rule, status)
  PROVE  IF status < 500
         THEN /\ <<status, status>> \in RetryableStatusCodes \ rule
              /\ <<status, status>> # ServerRange
         ELSE ServerRange \in RetryableStatusCodes \ rule
<1>1. status \in Nat /\ status <= 599
  BY DEF RetryableStatuses
<1>2. CASE status < 500
  <2>1. <<status, status>> \in RetryableStatusCodes
    BY <1>2 DEF RetryableStatusCodes
  <2>2. <<status, status>> # ServerRange
    BY <1>2 DEF ServerRange
  <2>3. <<status, status>> \notin rule
    BY <1>1 DEF Covers
  <2> QED
    BY <1>2, <2>1, <2>2, <2>3
<1>3. CASE ~(status < 500)
  <2>1. ServerRange \in RetryableStatusCodes
    BY DEF RetryableStatusCodes
  <2>2. ServerRange[1] <= status /\ status <= ServerRange[2]
    BY <1>1, <1>3 DEF ServerRange
  <2>3. ServerRange \notin rule
    BY <2>2 DEF Covers
  <2> QED
    BY <1>3, <2>1, <2>3
<1> QED
  BY <1>2, <1>3

\* The provisioned rule covers every status answered for a redelivery.
LEMMA AnsweredIsCovered ==
  ASSUME NEW status \in RetryableStatuses PROVE Covers(RetryableStatusCodes, status)
<1>1. CASE status < 500
  <2>1. <<status, status>> \in RetryableStatusCodes
    BY <1>1 DEF RetryableStatusCodes
  <2> QED
    BY <2>1 DEF Covers, RetryableStatuses
<1>2. CASE ~(status < 500)
  <2>1. ServerRange \in RetryableStatusCodes
    BY DEF RetryableStatusCodes
  <2>2. ServerRange[1] <= status /\ status <= ServerRange[2]
    BY <1>2 DEF ServerRange, RetryableStatuses
  <2> QED
    BY <2>1, <2>2 DEF Covers
<1> QED
  BY <1>1, <1>2

LEMMA DroppedWhy ==
  ASSUME ContractInv, NEW e \in Events, fate[e] = "unretried",
         answer[e].plan.retry # "cancel"
  PROVE  /\ answer[e].plan.status \in RetryableStatuses
         /\ ~Covers(droppedUnder[e], answer[e].plan.status)
         /\ droppedUnder[e] \in SUBSET (Nat \X Nat)
  BY DEF ContractInv, EventTypes, AnswersInv, IsAnswer

\* Hookdeck drops nothing it was not told to drop, but for a status of the provisioned
\* rule that the connection's, which somebody narrowed, does not cover.
THEOREM NothingIsDroppedUnsaid == Spec => []RetryableIsRetried
<1>1. ContractInv => RetryableIsRetried
  <2> SUFFICES ASSUME ContractInv, NEW e \in Events, fate[e] = "unretried",
                      answer[e].plan.retry # "cancel"
               PROVE  /\ Covers(RetryableStatusCodes, answer[e].plan.status)
                      /\ ~Covers(droppedUnder[e], answer[e].plan.status)
    BY DEF RetryableIsRetried
  <2>1. answer[e].plan.status \in RetryableStatuses
    BY DroppedWhy
  <2>2. Covers(RetryableStatusCodes, answer[e].plan.status)
    BY <2>1, AnsweredIsCovered
  <2> QED
    BY <2>2, DroppedWhy
<1> QED
  BY <1>1, ContractSafety, PTL

\* And of such a rule the doctor says so, unless what was dropped is a server error and
\* the rule has some of their range and not the whole.
THEOREM DoctorTellsTheRest == Spec => []OnlyServerRangeFoolsDoctor
<1>1. ContractInv => OnlyServerRangeFoolsDoctor
  <2> SUFFICES ASSUME ContractInv, NEW e \in Events, fate[e] = "unretried",
                      answer[e].plan.retry # "cancel", DoctorFindsRule(droppedUnder[e])
               PROVE  /\ answer[e].plan.status >= 500
                      /\ \E code \in droppedUnder[e] : IsServerRange(code) /\ code # ServerRange
    BY DEF OnlyServerRangeFoolsDoctor
  <2> DEFINE status == answer[e].plan.status
             rule == droppedUnder[e]
  <2>1. /\ status \in RetryableStatuses /\ ~Covers(rule, status)
        /\ rule \in SUBSET (Nat \X Nat)
    BY DroppedWhy
  <2> HIDE DEF status, rule
  <2>2. Uncovered(rule) = {}
    BY DEF DoctorFindsRule, rule
  <2>3. ~(status < 500)
    BY <2>1, <2>2, UncoveredStatus DEF Uncovered
  <2>4. ServerRange \in RetryableStatusCodes \ rule
    BY <2>1, <2>3, UncoveredStatus
  <2>5. \E code \in rule : IsServerRange(code)
    BY <2>2, <2>4 DEF Uncovered
  <2>6. status >= 500
    BY <2>1, <2>3 DEF RetryableStatuses
  <2> QED
    BY <2>4, <2>5, <2>6 DEF rule, status
<1> QED
  BY <1>1, ContractSafety, PTL

(***************************************************************************)
(* Cancellations.                                                          *)
(***************************************************************************)
\* What is hopeless fails under every configuration.
LEMMA HopelessFails ==
  ASSUME ContractInv, NEW e \in Events, Hopeless(request[e], flows), NEW c \in ConfigChoices
  PROVE  ~CouldSucceed(e, c)
<1> DEFINE ready == [connection EXCEPT !.path = c.path, !.signing = TRUE,
                                       !.secrets = <<c.secret>>]
           handled == RunPipeline(request[e], ready, c, "calm", flows, NoRow, 1)
<1>1. /\ request[e] \in Requests /\ flows \in [Flows -> FlowRows] /\ c \in Configs
      /\ "calm" \in Circumstances
  BY ChoicesAssumption DEF ContractInv, EventTypes, Circumstances
<1>2. SoundHandled(request[e], flows, handled)
  BY <1>1, PipelineIsSound
<1>3. handled.plan.code \notin {"dispatched", "cancel_pending"}
  BY <1>2 DEF SoundHandled
<1> QED
  BY <1>3 DEF CouldSucceed

\* What was cancelled would fail under every configuration and on every later attempt,
\* whatever the host made of the flows meanwhile, unless it was cancelled for an action
\* the route did not allow or for a revision the flow had yet to reach.
THEOREM TheOthersAreHopeless == Spec => []OnlyForbiddenOrEarlyRevive
<1>1. ContractInv => OnlyForbiddenOrEarlyRevive
  <2> SUFFICES ASSUME ContractInv, NEW e \in Events, fate[e] = "retired", e \notin early,
                      answer[e].plan.code # "forbidden_action", NEW c \in ConfigChoices
               PROVE  ~CouldSucceed(e, c)
    BY DEF OnlyForbiddenOrEarlyRevive
  <2>1. answer[e].plan.retry = "cancel"
    BY DEF ContractInv, AnswersInv
  <2>2. Hopeless(request[e], flows)
    BY <2>1 DEF ContractInv, HopelessInv
  <2> QED
    BY <2>2, HopelessFails
<1> QED
  BY <1>1, ContractSafety, PTL

(***************************************************************************)
(* The order of the rows.                                                  *)
(***************************************************************************)
\* Rows that the order of the log tells apart.
Ordered(rows) ==
  /\ IsFiniteSet(rows)
  /\ \A row \in rows : row.createdAt \in Int /\ row.id \in Int
  /\ \A row, other \in rows : row.id = other.id => row = other

\* The newest, as many as the log is to hold.
Newest(rows) == {row \in rows : Rank(row, rows) < MaxEntries}

LEMMA BeforeIsOrder ==
  ASSUME NEW rows, Ordered(rows), NEW a \in rows, NEW b \in rows
  PROVE  /\ ~Before(a, a)
         /\ a # b => Before(a, b) \/ Before(b, a)
         /\ \A c \in rows : Before(a, b) /\ Before(b, c) => Before(a, c)
  BY DEF Ordered, Before

LEMMA AheadIsFinite ==
  ASSUME NEW rows, IsFiniteSet(rows), NEW row
  PROVE  /\ IsFiniteSet({other \in rows : Before(other, row)})
         /\ Rank(row, rows) \in Nat
  BY FS_Subset, FS_CardinalityType DEF Rank

LEMMA RankBounds ==
  ASSUME NEW rows, Ordered(rows), NEW row \in rows
  PROVE  Rank(row, rows) \in 0 .. Cardinality(rows) - 1
<1> DEFINE ahead == {other \in rows : Before(other, row)}
<1>1. IsFiniteSet(rows)
  BY DEF Ordered
<1>2. /\ IsFiniteSet(rows \ {row}) /\ Cardinality(rows \ {row}) = Cardinality(rows) - 1
      /\ Cardinality(rows) \in Nat
  BY <1>1, FS_RemoveElement, FS_CardinalityType
<1>3. ahead \in SUBSET (rows \ {row})
  BY BeforeIsOrder
<1> HIDE DEF ahead
<1>4. Cardinality(ahead) <= Cardinality(rows) - 1
  BY <1>2, <1>3, FS_Subset
<1>5. Rank(row, rows) = Cardinality(ahead) /\ Rank(row, rows) \in Nat
  BY <1>1, AheadIsFinite DEF Rank, ahead
<1> QED
  BY <1>2, <1>4, <1>5

LEMMA RankIsStrict ==
  ASSUME NEW rows, Ordered(rows), NEW a \in rows, NEW b \in rows, Before(a, b)
  PROVE  Rank(a, rows) < Rank(b, rows)
<1> DEFINE aheadOfA == {other \in rows : Before(other, a)}
           aheadOfB == {other \in rows : Before(other, b)}
<1>1. IsFiniteSet(rows)
  BY DEF Ordered
<1>2. IsFiniteSet(aheadOfA) /\ IsFiniteSet(aheadOfB)
  BY <1>1, AheadIsFinite
<1>3. a \notin aheadOfA /\ aheadOfA \cup {a} \in SUBSET aheadOfB
  BY BeforeIsOrder
<1>4. Rank(a, rows) = Cardinality(aheadOfA) /\ Rank(b, rows) = Cardinality(aheadOfB)
  BY DEF Rank
<1> HIDE DEF aheadOfA, aheadOfB
<1>5. Cardinality(aheadOfA \cup {a}) = Cardinality(aheadOfA) + 1
  BY <1>2, <1>3, FS_AddElement
<1>6. Cardinality(aheadOfA \cup {a}) <= Cardinality(aheadOfB)
  BY <1>2, <1>3, FS_Subset
<1>7. Cardinality(aheadOfA) \in Nat /\ Cardinality(aheadOfB) \in Nat
  BY <1>2, FS_CardinalityType
<1> QED
  BY <1>4, <1>5, <1>6, <1>7

\* The rows have the ranks from 0 on, one each.
LEMMA RanksAreOneToOne ==
  ASSUME NEW rows, Ordered(rows)
  PROVE  /\ \A a, b \in rows : Rank(a, rows) = Rank(b, rows) => a = b
         /\ \A k \in 0 .. Cardinality(rows) - 1 : \E row \in rows : Rank(row, rows) = k
<1> DEFINE T == 0 .. Cardinality(rows) - 1
           f == [row \in rows |-> Rank(row, rows)]
<1>1. IsFiniteSet(rows) /\ Cardinality(rows) \in Nat
  BY FS_CardinalityType DEF Ordered
<1>2. \A a, b \in rows : Rank(a, rows) = Rank(b, rows) => a = b
  <2> SUFFICES ASSUME NEW a \in rows, NEW b \in rows, a # b
               PROVE  Rank(a, rows) # Rank(b, rows)
    OBVIOUS
  <2>1. Rank(a, rows) < Rank(b, rows) \/ Rank(b, rows) < Rank(a, rows)
    BY BeforeIsOrder, RankIsStrict
  <2>2. Rank(a, rows) \in Nat /\ Rank(b, rows) \in Nat
    BY <1>1, AheadIsFinite
  <2> QED
    BY <2>1, <2>2
<1>3. f \in Injection(rows, T)
  <2>1. f \in [rows -> T]
    BY RankBounds
  <2>2. \A a, b \in rows : f[a] = f[b] => a = b
    BY <1>2
  <2> HIDE DEF f, T
  <2> QED
    BY <2>1, <2>2 DEF Injection, IsInjective
<1>4. IsFiniteSet(T) /\ Cardinality(T) = Cardinality(rows)
  <2>1. /\ IsFiniteSet(T)
        /\ Cardinality(T) = IF 0 > Cardinality(rows) - 1 THEN 0
                            ELSE (Cardinality(rows) - 1) - 0 + 1
    BY <1>1, FS_Interval
  <2> HIDE DEF T
  <2> QED
    BY <1>1, <2>1
<1> HIDE DEF f, T
<1>5. f \in Surjection(rows, T)
  BY <1>3, <1>4, FS_Injection
<1>6. \A k \in T : \E row \in rows : f[row] = k
  BY <1>5 DEF Surjection
<1> QED
  BY <1>2, <1>6 DEF f, T

LEMMA NewestCount ==
  ASSUME NEW rows, Ordered(rows)
  PROVE  /\ IsFiniteSet(Newest(rows))
         /\ Cardinality(Newest(rows)) =
              IF Cardinality(rows) < MaxEntries THEN Cardinality(rows) ELSE MaxEntries
<1> DEFINE n == IF Cardinality(rows) < MaxEntries THEN Cardinality(rows) ELSE MaxEntries
           T == 0 .. n - 1
           f == [row \in Newest(rows) |-> Rank(row, rows)]
<1>1. IsFiniteSet(rows) /\ Cardinality(rows) \in Nat /\ MaxEntries \in Nat
  BY FS_CardinalityType, LogAssumption DEF Ordered
<1>2. n \in Nat /\ n <= Cardinality(rows) /\ n <= MaxEntries
  BY <1>1
<1>3. \A row \in Newest(rows) : Rank(row, rows) \in T
  BY <1>1, RankBounds DEF Newest
<1>4. \A k \in T : k \in 0 .. Cardinality(rows) - 1 /\ k < MaxEntries
  BY <1>1
<1>5. /\ f \in [Newest(rows) -> T]
      /\ \A a, b \in Newest(rows) : f[a] = f[b] => a = b
      /\ \A k \in T : \E row \in Newest(rows) : f[row] = k
  BY <1>3, <1>4, RanksAreOneToOne DEF Newest
<1>6. IsFiniteSet(Newest(rows))
  BY <1>1, FS_Subset DEF Newest
<1>7. IsFiniteSet(T) /\ Cardinality(T) = n
  <2> HIDE DEF n
  <2>1. IsFiniteSet(T) /\ Cardinality(T) = IF 0 > n - 1 THEN 0 ELSE (n - 1) - 0 + 1
    BY <1>2, FS_Interval
  <2> HIDE DEF T
  <2> QED
    BY <1>2, <2>1
<1> HIDE DEF f, T, n
<1>8. f \in Injection(Newest(rows), T) /\ f \in Surjection(Newest(rows), T)
  BY <1>5 DEF Injection, IsInjective, Surjection
<1>9. Cardinality(Newest(rows)) = Cardinality(T)
  BY <1>7, <1>8, FS_Injection
<1> QED
  BY <1>6, <1>7, <1>9 DEF n

\* More rows put a row further back.
LEMMA RankGrows ==
  ASSUME NEW rows, IsFiniteSet(rows), NEW some \in SUBSET rows, NEW row
  PROVE  Rank(row, some) <= Rank(row, rows)
<1> DEFINE ahead == {other \in rows : Before(other, row)}
           less  == {other \in some : Before(other, row)}
<1>1. IsFiniteSet(ahead)
  BY AheadIsFinite
<1>2. less \in SUBSET ahead
  OBVIOUS
<1>3. Rank(row, some) = Cardinality(less) /\ Rank(row, rows) = Cardinality(ahead)
  BY DEF Rank
<1> HIDE DEF ahead, less
<1> QED
  BY <1>1, <1>2, <1>3, FS_Subset

\* As long as the newest are there, those beyond the size of the log are the others.
LEMMA OthersAreBeyond ==
  ASSUME NEW rows, Ordered(rows), NEW some \in SUBSET rows, Newest(rows) \subseteq some,
         NEW row \in some
  PROVE  Rank(row, some) < MaxEntries <=> row \in Newest(rows)
<1>1. IsFiniteSet(rows) /\ Cardinality(rows) \in Nat /\ MaxEntries \in Nat /\ row \in rows
  BY FS_CardinalityType, LogAssumption DEF Ordered
<1>2. IsFiniteSet(some)
  BY <1>1, FS_Subset
<1>3. Rank(row, some) \in Nat /\ Rank(row, rows) \in Nat /\ Rank(row, some) <= Rank(row, rows)
  BY <1>1, <1>2, AheadIsFinite, RankGrows
<1>4. CASE row \in Newest(rows)
  BY <1>1, <1>3, <1>4 DEF Newest
<1>5. CASE row \notin Newest(rows)
  <2>1. Rank(row, rows) >= MaxEntries
    BY <1>1, <1>3, <1>5 DEF Newest
  <2>2. ASSUME NEW other \in Newest(rows)
        PROVE  Before(other, row)
    <3>1. other \in rows /\ Rank(other, rows) < MaxEntries /\ Rank(other, rows) \in Nat
      BY <1>1, AheadIsFinite DEF Newest
    <3>2. ~Before(row, other) /\ row # other
      BY <1>1, <1>3, <2>1, <3>1, RankIsStrict
    <3> QED
      BY <1>1, <3>1, <3>2, BeforeIsOrder
  <2> DEFINE ahead == {other \in some : Before(other, row)}
  <2>3. Newest(rows) \in SUBSET ahead
    BY <2>2
  <2>4. IsFiniteSet(ahead) /\ Rank(row, some) = Cardinality(ahead)
    BY <1>2, AheadIsFinite DEF Rank
  <2> HIDE DEF ahead
  <2>5. Cardinality(Newest(rows)) <= Rank(row, some)
    BY <2>3, <2>4, FS_Subset
  <2>6. Cardinality(Newest(rows)) = MaxEntries
    BY <1>1, <1>3, <2>1, NewestCount, RankBounds
  <2> QED
    BY <1>1, <1>3, <1>5, <2>5, <2>6
<1> QED
  BY <1>4, <1>5

\* The victims are the rows of the log beyond its size.
LEMMA VictimsAre ==
  ASSUME Ordered(log)
  PROVE  /\ Victims \in Seq(log)
         /\ \A i \in 1 .. Len(Victims) : Rank(Victims[i], log) >= MaxEntries
         /\ \A row \in log : Rank(row, log) >= MaxEntries =>
              \E i \in 1 .. Len(Victims) : Victims[i] = row
<1> DEFINE n == Cardinality(log)
<1>1. n \in Nat /\ MaxEntries \in Nat
  BY FS_CardinalityType, LogAssumption DEF Ordered
<1>2. \A place \in 1 .. n : /\ Sorted[place] \in log
                            /\ Rank(Sorted[place], log) = place - 1
  <2> SUFFICES ASSUME NEW place \in 1 .. n
               PROVE  Sorted[place] \in log /\ Rank(Sorted[place], log) = place - 1
    OBVIOUS
  <2>1. place - 1 \in 0 .. n - 1
    BY <1>1
  <2>2. \E row \in log : Rank(row, log) = place - 1
    BY <2>1, RanksAreOneToOne
  <2>3. Sorted[place] = CHOOSE row \in log : Rank(row, log) = place - 1
    BY DEF Sorted
  <2> QED
    BY <2>2, <2>3
<1>3. Sorted \in Seq(log) /\ Len(Sorted) = n
  <2>1. Sorted = [place \in 1 .. n |-> Sorted[place]]
    BY DEF Sorted
  <2> QED
    BY <1>1, <1>2, <2>1
<1> HIDE DEF n
<1>4. CASE n <= MaxEntries
  <2>1. Victims = << >>
    BY <1>1, <1>3, <1>4 DEF Victims, n
  <2>2. \A row \in log : Rank(row, log) < MaxEntries
    BY <1>1, <1>4, RankBounds DEF n
  <2>3. \A row \in log : ~(Rank(row, log) >= MaxEntries)
    BY <1>1, <2>2, RankBounds DEF n
  <2> QED
    BY <2>1, <2>3
<1>5. CASE n > MaxEntries
  <2>1. /\ Victims \in Seq(log) /\ Len(Victims) = n - MaxEntries
        /\ \A i \in 1 .. n - MaxEntries : Victims[i] = Sorted[MaxEntries + i]
    BY <1>1, <1>3, <1>5 DEF Victims, n
  <2>2. \A i \in 1 .. n - MaxEntries : Rank(Victims[i], log) >= MaxEntries
    <3> SUFFICES ASSUME NEW i \in 1 .. n - MaxEntries
                 PROVE  Rank(Victims[i], log) >= MaxEntries
      OBVIOUS
    <3>1. MaxEntries + i \in 1 .. n /\ (MaxEntries + i) - 1 >= MaxEntries
      BY <1>1
    <3>2. Rank(Sorted[MaxEntries + i], log) = (MaxEntries + i) - 1
      BY <1>2, <3>1
    <3> QED
      BY <2>1, <3>1, <3>2
  <2>3. ASSUME NEW row \in log, Rank(row, log) >= MaxEntries
        PROVE  \E i \in 1 .. n - MaxEntries : Victims[i] = row
    <3>1. Rank(row, log) \in 0 .. n - 1
      BY RankBounds DEF n
    <3> DEFINE i == Rank(row, log) + 1 - MaxEntries
    <3>2. i \in 1 .. n - MaxEntries /\ MaxEntries + i \in 1 .. n
          /\ (MaxEntries + i) - 1 = Rank(row, log)
      BY <1>1, <2>3, <3>1
    <3>3. Sorted[MaxEntries + i] = row
      BY <1>2, <3>2, RanksAreOneToOne
    <3> HIDE DEF i
    <3> QED
      BY <2>1, <3>2, <3>3
  <2> QED
    BY <2>1, <2>2, <2>3
<1> QED
  BY <1>1, <1>4, <1>5

(***************************************************************************)
(* The log: the newest rows are never among the victims, and whatever is   *)
(* in it beside them is somebody's victim or will be counted by who has    *)
(* just put a row.                                                         *)
(***************************************************************************)
IsVictim(row, r) ==
  \E i \in 1 .. Len(recording[r].victims) : recording[r].victims[i] = row

FileInv ==
  /\ IsFiniteSet(filed) /\ clock \in Nat
  /\ \A row \in filed : row.createdAt \in Nat /\ row.id \in 1 .. Cardinality(filed)
  /\ \A row, other \in filed : row.id = other.id => row = other

LogInv ==
  /\ Newest(filed) \subseteq log /\ log \subseteq filed
  /\ \A r \in Recorders : recording[r].victims \in Seq(filed \ Newest(filed))
  /\ \/ \E r \in Recorders : recording[r].stage = "put"
     \/ \A row \in log \ Newest(filed) :
          \E r \in Recorders : recording[r].stage = "evicting" /\ IsVictim(row, r)

LogsInv == ContractInv /\ FileInv /\ LogInv

LEMMA FiledIsOrdered == ASSUME FileInv PROVE Ordered(filed) /\ Cardinality(filed) \in Nat
<1>1. IsFiniteSet(filed) /\ Cardinality(filed) \in Nat
  BY FS_CardinalityType DEF FileInv
<1>2. \A row \in filed : row.createdAt \in Int /\ row.id \in Int
  BY <1>1 DEF FileInv
<1> QED
  BY <1>1, <1>2 DEF FileInv, Ordered

LEMMA LogStarts == Init => LogsInv
<1> SUFFICES ASSUME Init PROVE LogsInv
  OBVIOUS
<1>1. LogInit
  BY DEF Init
<1>2. FileInv
  BY <1>1, FS_EmptySet DEF LogInit, FileInv
<1>3. Newest({}) = {}
  BY DEF Newest
<1>4. LogInv
  <2>1. log = {} /\ filed = {} /\ \A r \in Recorders : recording[r].victims = << >>
    BY <1>1 DEF LogInit, NoRecord
  <2>2. << >> \in Seq(filed \ Newest(filed))
    OBVIOUS
  <2> QED
    BY <1>3, <2>1, <2>2 DEF LogInv
<1> QED
  BY <1>2, <1>4, ContractStarts DEF LogsInv

\* A new row may push one out of the newest, and lets none in that was out.
LEMMA PutKeepsLog ==
  ASSUME LogsInv, NEW e \in Recorders, NEW letter, Put(e, letter), recording[e].stage = "none"
  PROVE  FileInv' /\ LogInv'
<1> USE DEF LogsInv
<1> DEFINE row == [entry |-> letter, id |-> Cardinality(filed) + 1, createdAt |-> clock']
<1>1. Ordered(filed) /\ Cardinality(filed) \in Nat /\ IsFiniteSet(filed)
  BY FiledIsOrdered DEF FileInv
<1>2. /\ clock' \in Nat /\ filed' = filed \cup {row} /\ log' = log \cup {row}
      /\ recording' = [recording EXCEPT ![e] = [stage |-> "put", victims |-> << >>]]
  BY DEF Put, FileInv
<1>3. row.id = Cardinality(filed) + 1 /\ row.createdAt = clock'
  OBVIOUS
<1>4. row \notin filed
  BY <1>1, <1>3 DEF FileInv
<1>5. IsFiniteSet(filed') /\ Cardinality(filed') = Cardinality(filed) + 1
  <2> HIDE DEF row
  <2> QED
    BY <1>1, <1>2, <1>4, FS_AddElement
<1> HIDE DEF row
<1>6. FileInv'
  <2>1. \A x \in filed' : x.createdAt \in Nat /\ x.id \in 1 .. Cardinality(filed')
    BY <1>1, <1>2, <1>3, <1>5 DEF FileInv
  <2>2. \A x, y \in filed' : x.id = y.id => x = y
    <3>1. \A x \in filed : x.id # row.id
      BY <1>1, <1>3 DEF FileInv
    <3> QED
      BY <1>2, <3>1 DEF FileInv
  <2> QED
    BY <1>2, <1>5, <2>1, <2>2 DEF FileInv
<1>7. ASSUME NEW x \in filed, x \in Newest(filed') PROVE x \in Newest(filed)
  <2>1. Rank(x, filed) <= Rank(x, filed') /\ Rank(x, filed') < MaxEntries
    BY <1>2, <1>5, <1>7, RankGrows DEF Newest
  <2>2. Rank(x, filed) \in Nat /\ Rank(x, filed') \in Nat
    BY <1>1, <1>5, AheadIsFinite
  <2> QED
    BY <2>1, <2>2, LogAssumption DEF Newest
<1>8. Newest(filed') \subseteq log'
  BY <1>2, <1>7 DEF LogInv, Newest
<1>9. \A r \in Recorders : recording'[r].victims \in Seq(filed' \ Newest(filed'))
  <2>1. filed \ Newest(filed) \subseteq filed' \ Newest(filed')
    BY <1>2, <1>7
  <2> DEFINE old == filed \ Newest(filed)
             new == filed' \ Newest(filed')
  <2>2. \A s \in Seq(old) : s \in Seq(new)
    <3> HIDE DEF old, new
    <3>1. old \subseteq new
      BY <2>1 DEF old, new
    <3> SUFFICES ASSUME NEW s \in Seq(old) PROVE s \in Seq(new)
      OBVIOUS
    <3>2. \A i \in 1 .. Len(s) : s[i] \in new
      BY <3>1
    <3> QED
      BY <3>2
  <2>3. DOMAIN recording = Recorders
    BY DEF ContractInv, RecordingInv
  <2>4. \A r \in Recorders : recording[r].victims \in Seq(old)
    BY DEF LogInv
  <2> HIDE DEF old, new
  <2>5. << >> \in Seq(new)
    OBVIOUS
  <2>6. \A r \in Recorders : recording'[r].victims \in Seq(new)
    BY <1>2, <2>2, <2>3, <2>4, <2>5
  <2> QED
    BY <2>6 DEF new
<1>10. recording'[e].stage = "put"
  BY <1>2 DEF ContractInv, RecordingInv
<1> QED
  BY <1>2, <1>6, <1>8, <1>9, <1>10 DEF LogInv

\* Deleting a row that is not of the newest keeps them, and only that row goes.
LEMMA EvictKeepsLog ==
  ASSUME LogsInv, NEW r \in Recorders, NEW victims \in Seq(filed \ Newest(filed)),
         Evict(r, victims), UNCHANGED <<filed, clock>>,
         \/ \E other \in Recorders \ {r} : recording[other].stage = "put"
         \/ \A row \in log \ Newest(filed) :
              \/ \E i \in 1 .. Len(victims) : victims[i] = row
              \/ \E other \in Recorders \ {r} :
                   recording[other].stage = "evicting" /\ IsVictim(row, other)
  PROVE  FileInv' /\ LogInv'
<1> USE DEF LogsInv
<1>1. FileInv'
  BY DEF FileInv
<1>2. DOMAIN recording = Recorders
  BY DEF ContractInv, RecordingInv
<1>3. \A other \in Recorders \ {r} : recording'[other] = recording[other]
  BY <1>2 DEF Evict
<1>4. /\ Newest(filed') \subseteq log' /\ log' \subseteq filed'
      /\ \A x \in Recorders : recording'[x].victims \in Seq(filed \ Newest(filed))
      /\ \A row \in log' : /\ row \in log
                           /\ (\E i \in 1 .. Len(victims) : victims[i] = row) =>
                                /\ recording'[r].stage = "evicting"
                                /\ \E i \in 1 .. Len(recording'[r].victims) :
                                     recording'[r].victims[i] = row
  <2>1. CASE victims = << >>
    <3>1. recording'[r] = NoRecord /\ log' = log
      BY <1>2, <2>1 DEF Evict
    <3>2. NoRecord.victims \in Seq(filed \ Newest(filed)) /\ Len(victims) = 0
      BY <2>1 DEF NoRecord
    <3>3. \A x \in Recorders : recording'[x].victims \in Seq(filed \ Newest(filed))
      BY <1>3, <3>1, <3>2 DEF LogInv
    <3>4. ~\E i \in 1 .. Len(victims) : TRUE
      BY <3>2
    <3>5. Newest(filed') \subseteq log' /\ log' \subseteq filed'
      BY <3>1 DEF LogInv
    <3> QED
      BY <3>1, <3>3, <3>4, <3>5
  <2>2. CASE victims # << >>
    <3>1. /\ recording'[r] = [stage |-> "evicting", victims |-> Tail(victims)]
          /\ log' = {row \in log : row.id # Head(victims).id}
      BY <1>2, <2>2 DEF Evict
    <3>2. /\ Head(victims) \in filed \ Newest(filed)
          /\ Tail(victims) \in Seq(filed \ Newest(filed)) /\ Head(victims) = victims[1]
          /\ Len(Tail(victims)) = Len(victims) - 1
          /\ \A i \in 1 .. Len(victims) - 1 : Tail(victims)[i] = victims[i + 1]
      BY <2>2
    <3>3. Newest(filed) \subseteq log'
      BY <3>1, <3>2 DEF FileInv, LogInv, Newest
    <3>4. ASSUME NEW row \in log', NEW i \in 1 .. Len(victims), victims[i] = row
          PROVE  \E j \in 1 .. Len(Tail(victims)) : Tail(victims)[j] = row
      <4>1. i # 1
        BY <3>1, <3>2, <3>4
      <4>2. i - 1 \in 1 .. Len(victims) - 1 /\ (i - 1) + 1 = i
        BY <4>1
      <4> QED
        BY <3>2, <3>4, <4>2
    <3>5. \A x \in Recorders : recording'[x].victims \in Seq(filed \ Newest(filed))
      <4>1. \A x \in Recorders : recording[x].victims \in Seq(filed \ Newest(filed))
        BY DEF LogInv
      <4>2. recording'[r].victims = Tail(victims)
        BY <3>1
      <4> QED
        BY <1>3, <3>2, <4>1, <4>2
    <3>6. log' \subseteq filed' /\ log' \subseteq log
      BY <3>1 DEF LogInv
    <3>7. Newest(filed') \subseteq log'
      BY <3>3
    <3>8. /\ recording'[r].stage = "evicting" /\ recording'[r].victims = Tail(victims)
      BY <3>1
    <3>9. ASSUME NEW row \in log', \E i \in 1 .. Len(victims) : victims[i] = row
          PROVE  \E i \in 1 .. Len(recording'[r].victims) : recording'[r].victims[i] = row
      BY <3>4, <3>8, <3>9
    <3> QED
      BY <3>5, <3>6, <3>7, <3>8, <3>9
  <2> QED
    BY <2>1, <2>2
<1>5. \/ \E x \in Recorders : recording'[x].stage = "put"
      \/ \A row \in log' \ Newest(filed') : \E x \in Recorders :
           /\ recording'[x].stage = "evicting"
           /\ \E i \in 1 .. Len(recording'[x].victims) : recording'[x].victims[i] = row
  <2>1. CASE \E other \in Recorders \ {r} : recording[other].stage = "put"
    BY <1>3, <2>1
  <2>2. CASE \A row \in log \ Newest(filed) :
               \/ \E i \in 1 .. Len(victims) : victims[i] = row
               \/ \E other \in Recorders \ {r} :
                    recording[other].stage = "evicting" /\ IsVictim(row, other)
    <3> SUFFICES ASSUME NEW row \in log' \ Newest(filed)
                 PROVE  \E x \in Recorders :
                          /\ recording'[x].stage = "evicting"
                          /\ \E i \in 1 .. Len(recording'[x].victims) :
                               recording'[x].victims[i] = row
      OBVIOUS
    <3>1. CASE \E i \in 1 .. Len(victims) : victims[i] = row
      BY <1>4, <3>1
    <3>2. CASE \E other \in Recorders \ {r} :
                 recording[other].stage = "evicting" /\ IsVictim(row, other)
      BY <1>3, <3>2 DEF IsVictim
    <3> QED
      BY <1>4, <2>2, <3>1, <3>2
  <2> QED
    BY <2>1, <2>2
<1> QED
  BY <1>1, <1>4, <1>5 DEF LogInv, IsVictim

LEMMA LogStepKeepsLog ==
  ASSUME LogsInv, LogReturns PROVE FileInv' /\ LogInv'
<1> USE DEF LogsInv
<1>1. PICK r \in Recorders : PutReturns(r) \/ DeleteReturns(r)
  BY DEF LogReturns, LogStep
<1>2. CASE PutReturns(r)
  <2>1. Ordered(filed)
    BY FiledIsOrdered
  <2>2. Ordered(log) /\ log \in SUBSET filed
    BY <2>1, FS_Subset DEF Ordered, LogInv
  <2>3. \A row \in log : Rank(row, log) < MaxEntries <=> row \in Newest(filed)
    BY <2>1, <2>2, OthersAreBeyond DEF LogInv
  <2>4. \A row \in log : Rank(row, log) \in Nat
    BY <2>2, AheadIsFinite DEF Ordered
  <2>5. /\ Victims \in Seq(log)
        /\ \A i \in 1 .. Len(Victims) : Rank(Victims[i], log) >= MaxEntries
        /\ \A row \in log : Rank(row, log) >= MaxEntries =>
             \E i \in 1 .. Len(Victims) : Victims[i] = row
    BY <2>2, VictimsAre
  <2> DEFINE v == Victims
  <2>6. v \in Seq(log) /\ \A i \in 1 .. Len(v) : v[i] \in log /\ Rank(v[i], log) >= MaxEntries
    BY <2>5
  <2> HIDE DEF v
  <2>7. \A i \in 1 .. Len(v) : v[i] \in filed \ Newest(filed)
    BY <2>2, <2>3, <2>4, <2>6, LogAssumption
  <2>8. v \in Seq(filed \ Newest(filed))
    BY <2>6, <2>7
  <2>9. \A row \in log \ Newest(filed) : \E i \in 1 .. Len(v) : v[i] = row
    BY <2>3, <2>4, <2>5, LogAssumption DEF v
  <2>10. Evict(r, v) /\ UNCHANGED <<filed, clock>>
    BY <1>2 DEF PutReturns, v
  <2> QED
    BY <2>8, <2>9, <2>10, EvictKeepsLog
<1>3. CASE DeleteReturns(r)
  <2>1. /\ Evict(r, recording[r].victims) /\ UNCHANGED <<filed, clock>>
        /\ recording[r].stage = "evicting"
        /\ recording[r].victims \in Seq(filed \ Newest(filed))
    BY <1>3 DEF DeleteReturns, LogInv
  <2>2. \/ \E other \in Recorders \ {r} : recording[other].stage = "put"
        \/ \A row \in log \ Newest(filed) :
             \/ \E i \in 1 .. Len(recording[r].victims) : recording[r].victims[i] = row
             \/ \E other \in Recorders \ {r} :
                  recording[other].stage = "evicting" /\ IsVictim(row, other)
    BY <2>1 DEF LogInv, IsVictim
  <2> QED
    BY <2>1, <2>2, EvictKeepsLog
<1> QED
  BY <1>1, <1>2, <1>3

LEMMA LogUntouched ==
  ASSUME LogsInv, UNCHANGED logVars PROVE FileInv' /\ LogInv'
  BY DEF LogsInv, FileInv, LogInv, IsVictim, logVars

LEMMA LogsStep == LogsInv /\ [Next]_vars => LogsInv'
<1> SUFFICES ASSUME LogsInv, [Next]_vars PROVE FileInv' /\ LogInv'
  BY ContractStep DEF LogsInv
<1>1. ASSUME NEW e \in Events, NEW circumstance \in Circumstances, Deliver(e, circumstance)
      PROVE  FileInv' /\ LogInv'
  <2>1. PICK handled, last, cancels : Delivered(e, handled, last, cancels)
    BY <1>1, DeliverDoes DEF LogsInv
  <2>2. e \in Recorders /\ recording[e].stage = "none"
    BY <2>1 DEF LogsInv, ContractInv, EventTypes, RecordingInv, Delivered
  <2>3. \/ UNCHANGED logVars
        \/ \E letter : Put(e, letter)
    BY <2>1 DEF Delivered
  <2> QED
    BY <2>2, <2>3, LogUntouched, PutKeepsLog
<1>2. CASE LogReturns
  BY <1>2, LogStepKeepsLog
<1>3. CASE UNCHANGED logVars
  BY <1>3, LogUntouched
<1>4. ASSUME NEW e \in Events, Replay(e) \/ \E lost \in BOOLEAN : Reply(e, lost)
      PROVE  UNCHANGED logVars
  BY <1>4 DEF Replay, Reply
<1>5. CASE OperatorStep \/ HostMovesFlow \/ UNCHANGED vars
  BY <1>3, <1>5, OperatorsLeaveEvents DEF HostMovesFlow, vars
<1> QED
  BY <1>1, <1>2, <1>3, <1>4, <1>5 DEF Next, OperatorStep

LEMMA LogsSafety == Spec => []LogsInv
  BY LogStarts, LogsStep, PTL DEF Spec

\* However the records of the dead-letter log overlap, once they are done the log is as
\* full as it may be and holds the newest of all rows ever put.
THEOREM NewestAreKept == Spec => []LogKeepsNewest
<1>1. LogsInv => LogKeepsNewest
  <2> SUFFICES ASSUME LogsInv, \A e \in Events : recording[e].stage = "none"
               PROVE  /\ Cardinality(log) = IF Cardinality(filed) < MaxEntries
                                            THEN Cardinality(filed) ELSE MaxEntries
                      /\ \A gone \in filed \ log, row \in log :
                           gone.createdAt <= row.createdAt
    BY DEF LogKeepsNewest
  <2>1. \A r \in Recorders : recording[r].stage = "none"
    BY DEF LogsInv, ContractInv, RecordingInv
  <2>2. log = Newest(filed)
    BY <2>1 DEF LogsInv, LogInv
  <2>3. Ordered(filed) /\ IsFiniteSet(filed)
    BY FiledIsOrdered DEF LogsInv, FileInv
  <2>4. ASSUME NEW gone \in filed \ log, NEW row \in log
        PROVE  gone.createdAt <= row.createdAt
    <3>1. gone \in filed /\ row \in filed /\ Rank(row, filed) < MaxEntries
      BY <2>2 DEF Newest
    <3>2. ~(Rank(gone, filed) < MaxEntries)
      BY <2>2, <2>4 DEF Newest
    <3>3. Rank(row, filed) \in Nat /\ Rank(gone, filed) \in Nat
      BY <2>3, AheadIsFinite
    <3>4. ~Before(gone, row)
      BY <2>3, <3>1, <3>2, <3>3, RankIsStrict, LogAssumption
    <3>5. gone.createdAt \in Nat /\ row.createdAt \in Nat
      BY <3>1 DEF LogsInv, FileInv
    <3> QED
      BY <3>4, <3>5 DEF Before
  <2> QED
    BY <2>2, <2>3, <2>4, NewestCount
<1> QED
  BY <1>1, LogsSafety, PTL
===============================================================================
