------------------------------- MODULE Ingress --------------------------------
(***************************************************************************)
(* src/ingress/handler.ts: how one delivery is answered, gate by gate in   *)
(* the order of the code.  What a delivery depends on comes from four      *)
(* places: the stored request, which Hookdeck replays byte for byte; the   *)
(* live connection; the plugin's configuration; and the circumstances of   *)
(* the moment.  Headers, bytes and texts are reduced to what a gate reads. *)
(*                                                                         *)
(* Hookdeck sets Idempotency-Key on everything, so that an event id is     *)
(* always found and no_event_id (handler.ts:260) cannot come up.           *)
(***************************************************************************)
EXTENDS TaskFlow, Sequences, Admission

CONSTANT DeferAttemptLimit      \* config.deferAttemptLimit

ASSUME DeferAssumption == DeferAttemptLimit \in Nat

\* What goes wrong around a delivery that is not its own fault.
Circumstances == {"calm", "body_timeout", "at_capacity", "dispatcher_full",
                  "disk_full", "throws", "suppressed", "heartbeat_throws",
                  "children_active"}

\* The stored request: its method, content type, size, bytes and what they say.
Requests == [post : BOOLEAN, type : {"json", "form", "other"}, fits : BOOLEAN,
             utf8 : BOOLEAN, parses : BOOLEAN, matches : BOOLEAN,
             route : {"wake", "taskflow"}, envelope : Envelopes]

Secrets == {"none", "old", "new"}

\* The configuration an operator writes.
Configs == [path : {"here", "there"}, enabled : BOOLEAN, secret : Secrets,
            prefixed : BOOLEAN, filters : BOOLEAN, allowed : SUBSET AllActions,
            verification : BOOLEAN, provisions : BOOLEAN, force : BOOLEAN,
            allowRetryCancel : BOOLEAN]

(***************************************************************************)
(* The parts of the request path that are modules of their own.            *)
(***************************************************************************)
\* readRawBody: the declared length first, then the bytes against the clock.
ReadRawBody(request, circumstance) ==
  CASE ~request.fits                                        -> "too_large"
    [] request.fits /\ circumstance = "body_timeout"        -> "timeout"
    [] OTHER                                                -> "read"

\* parseHookdeckDelivery: the signature slots are found under the prefix only.
\* Hookdeck signs with its secrets, newest first, when the destination asks.
Signatures(connection, config) ==
  IF connection.signing /\ config.prefixed THEN connection.secrets ELSE << >>

\* verifyHookdeckSignature: either slot will do.
Verifies(secret, signatures) == \E slot \in DOMAIN signatures : signatures[slot] = secret

\* matchRoute: the path Hookdeck was given is the one of an enabled route.
MatchesRoute(connection, config) == config.enabled /\ connection.path = config.path

\* evaluateFilters: a route without filters takes everything.
EvaluateFilters(request, config) == config.filters => request.matches

\* A form body always parses, whatever it holds.
Parses(request) == request.type = "form" \/ request.parses

(***************************************************************************)
(* A gate is a condition under which the delivery is turned away and the   *)
(* plan it is answered with; the first that holds decides.                 *)
(***************************************************************************)
Pass == Plan(200, "pass", "none")

FirstOf(gates) ==
  LET shut == {i \in DOMAIN gates : gates[i].shut} IN
  IF shut = {} THEN Pass
  ELSE gates[CHOOSE i \in shut : \A j \in shut : i <= j].plan

Gate(shut, plan) == [shut |-> shut, plan |-> plan]

\* Steps 1 to 7: before the signature is verified.
Arrival(request, connection, config, circumstance) ==
  LET signatures == Signatures(connection, config)
      body       == ReadRawBody(request, circumstance)
  IN FirstOf(<<
       Gate(~request.post, CancelRetries("bad_method", 405)),
       Gate(~MatchesRoute(connection, config), Retryable(404, "unknown_route")),
       Gate(request.type = "other", CancelRetries("bad_content_type", 415)),
       Gate(body = "too_large", CancelRetries("too_large", 413)),
       Gate(body = "timeout", Retryable(408, "body_read_failed")),
       Gate(config.secret = "none", Retryable(503, "no_signing_secret")),
       Gate(signatures = << >>, Retryable(400, "not_hookdeck")),
       Gate(~Verifies(config.secret, signatures), Retryable(401, "invalid_signature"))>>)

\* Steps 8 to 12: capacity, then deduplication, then the payload.
Intake(request, config, circumstance, row, attempt) ==
  FirstOf(<<
    Gate(circumstance = "at_capacity" /\ attempt > DeferAttemptLimit, Retryable(503, "busy")),
    Gate(circumstance = "at_capacity", DeferFor(503, "busy")),
    Gate(circumstance = "dispatcher_full", DeferFor(503, "busy")),
    Gate(~Admits(row, attempt), Ok("duplicate")),
    Gate(~request.utf8, CancelRetries("malformed_json", 400)),
    Gate(~Parses(request), CancelRetries("malformed_json", 400)),
    Gate(~EvaluateFilters(request, config), Ok("ignored"))>>)

\* createWakeDispatcher.  Mutation: an event already enqueued is tried again when
\* the heartbeat cannot be asked for.
HeartbeatRetried(flows, circumstance) ==
  CASE circumstance = "throws"           -> Result(Retryable(503, "wake_failed"), flows, FALSE)
    [] circumstance = "heartbeat_throws" -> Result(Retryable(503, "wake_failed"), flows, TRUE)
    [] OTHER                             -> Result(Ok("dispatched"), flows, TRUE)

WakeDispatch(flows, circumstance) ==
  CASE circumstance = "throws" -> Result(Retryable(503, "wake_failed"), flows, FALSE)
    [] OTHER -> Result(Ok("dispatched"), flows, circumstance # "suppressed")

\* Step 13.  A TaskFlow runtime that throws is answered by the pipeline itself.
Dispatch(request, flows, config, circumstance) ==
  LET envelope == request.envelope IN
  CASE request.route = "wake" -> WakeDispatch(flows, circumstance)
    [] /\ request.route = "taskflow" /\ circumstance = "throws"
       /\ IsValid(envelope) /\ envelope.action \in config.allowed ->
         Result(Retryable(503, "dispatch_error"), flows, FALSE)
    [] OTHER -> TaskFlowDispatch(flows, envelope, config.allowed,
                                 circumstance # "disk_full",
                                 circumstance = "children_active")

(***************************************************************************)
(* runPipeline: the answer, what was done, and whether the delivery was    *)
(* verified.  Only a dispatch leaves a row in the ledger.                  *)
(***************************************************************************)
Handled(result, row, verified) ==
  [plan |-> result.plan, flows |-> result.flows, did |-> result.did,
   row |-> row, verified |-> verified]

RunPipeline(request, connection, config, circumstance, flows, row, attempt) ==
  LET arrival == Arrival(request, connection, config, circumstance)
      intake  == Intake(request, config, circumstance, row, attempt)
      result  == Dispatch(request, flows, config, circumstance)
      settled == SettleRow(BeginRow(row, attempt, 1),
                           IF Succeeds(result.plan) THEN "succeeded" ELSE "failed")
  IN  CASE arrival # Pass -> Handled(Result(arrival, flows, FALSE), row, FALSE)
        [] arrival = Pass /\ intake # Pass ->
             Handled(Result(intake, flows, FALSE), row, TRUE)
        [] OTHER -> Handled(result, settled, TRUE)
===============================================================================
