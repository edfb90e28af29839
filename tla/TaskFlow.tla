------------------------------- MODULE TaskFlow -------------------------------
(***************************************************************************)
(* src/dispatch/taskflow.ts with src/protocol/envelope.ts: what an         *)
(* envelope does to the host's flows and what is answered.  The host's     *)
(* flow runtime is external; it is known by the result codes the           *)
(* dispatcher tells apart.  A flow is absent, or at a revision and open or *)
(* ended.  Goals, steps, state blobs and the text of results are left out. *)
(***************************************************************************)
EXTENDS Outcome, FiniteSets

CONSTANTS Flows,        \* flow ids
          Unmanaged,    \* those another controller manages
          MaxRevision   \* bound on the revisions the host moves a flow to by itself

ASSUME FlowsAssumption == Unmanaged \subseteq Flows /\ MaxRevision \in Nat

ReadActions == {"get_flow", "list_flows", "find_latest_flow", "resolve_flow",
                "get_task_summary"}
Mutations   == {"set_waiting", "resume_flow", "finish_flow", "fail_flow",
                "request_cancel"}
Ending      == {"finish_flow", "fail_flow"}
WriteActions == Mutations \cup {"create_flow", "run_task", "cancel_flow"}
AllActions  == ReadActions \cup WriteActions

Absent    == [revision |-> 0, status |-> "absent"]
FlowRows  == {Absent} \cup [revision : Nat, status : {"open", "ended"}]

\* parseTaskFlowEnvelope: the schema fixes the action and the fields it needs.
Envelopes == [action : AllActions \cup {"unknown"}, flow : Flows, expectedRevision : Nat]

IsValid(envelope) == envelope.action \in AllActions

(***************************************************************************)
(* The host's answer to a mutation.  disk says whether its state can be    *)
(* written now.                                                            *)
(***************************************************************************)
MutationCode(flows, flow, expectedRevision, disk) ==
  CASE flows[flow] = Absent                                -> "not_found"
    [] flows[flow] # Absent /\ flow \in Unmanaged          -> "not_managed"
    [] /\ flows[flow] # Absent /\ flow \notin Unmanaged
       /\ flows[flow].revision # expectedRevision          -> "revision_conflict"
    [] /\ flows[flow] # Absent /\ flow \notin Unmanaged
       /\ flows[flow].revision = expectedRevision
       /\ flows[flow].status = "ended"                     -> "invalid_transition"
    [] OTHER -> IF disk THEN "applied" ELSE "persist_failed"

\* Mutation: a flow that does not exist yet is taken for one that never will.
NotFoundForGood == CancelRetries("flow_revision_conflict", 404)

NotFound == Retryable(404, "flow_not_found")

MapMutation(code) ==
  CASE code = "applied"           -> Ok("dispatched")
    [] code = "not_found"         -> NotFound
    [] code = "revision_conflict" -> CancelRetries("flow_revision_conflict", 409)
    [] code = "not_managed"       -> CancelRetries("flow_not_managed", 409)
    [] code = "persist_failed"    -> DeferFor(503, "persist_failed")
    [] OTHER                      -> Retryable(409, "mutation_rejected")

Applied(flows, envelope) ==
  [flows EXCEPT ![envelope.flow] =
     [revision |-> @.revision + 1,
      status   |-> IF envelope.action \in Ending THEN "ended" ELSE @.status]]

\* A result: the answer, the flows after it, and whether something was done.
Result(plan, flows, did) == [plan |-> plan, flows |-> flows, did |-> did]

Mutate(flows, envelope, disk) ==
  LET code    == MutationCode(flows, envelope.flow, envelope.expectedRevision, disk)
      applied == code = "applied"
  IN  Result(MapMutation(code),
              IF applied THEN Applied(flows, envelope) ELSE flows, applied)

\* tryCreateManaged gives the new flow an id, or answers null when it cannot
\* write it down.
CreateFlow(flows, disk) ==
  LET free == {f \in Flows \ Unmanaged : flows[f] = Absent} IN
  IF disk /\ free # {}
  THEN LET f == CHOOSE f \in free : TRUE IN
       Result(Ok("dispatched"),
               [flows EXCEPT ![f] = [revision |-> 0, status |-> "open"]], TRUE)
  ELSE Result(DeferFor(503, "create_rejected"), flows, FALSE)

\* cancel: a flow whose children still run is cancelled later.  What the host does
\* not do, and it touches no flow of another controller, it gives a reason for that
\* the dispatcher does not tell apart.
CancelFlow(flows, f, childrenActive) ==
  CASE flows[f] = Absent -> Result(NotFound, flows, FALSE)
    [] flows[f].status = "ended" \/ (flows[f] # Absent /\ f \in Unmanaged) ->
         Result(Retryable(409, "cancel_rejected"), flows, FALSE)
    [] flows[f].status = "open" /\ f \notin Unmanaged ->
         IF childrenActive
         THEN Result(Accepted("cancel_pending"), flows, TRUE)
         ELSE Result(Ok("dispatched"), [flows EXCEPT ![f].status = "ended"], TRUE)

\* runTask: a task is created under an open flow; the revision is the flow's own.
RunTask(flows, f) ==
  CASE flows[f] = Absent -> Result(NotFound, flows, FALSE)
    [] flows[f].status = "ended" \/ (flows[f] # Absent /\ f \in Unmanaged) ->
         Result(Retryable(409, "task_not_created"), flows, FALSE)
    [] flows[f].status = "open" /\ f \notin Unmanaged ->
         Result(Ok("dispatched"), flows, TRUE)

\* dispatch.  allowed is the route's allowedActions, AllActions when not set.
TaskFlowDispatch(flows, envelope, allowed, disk, childrenActive) ==
  CASE ~IsValid(envelope) ->
         Result(CancelRetries("invalid_envelope", 400), flows, FALSE)
    [] IsValid(envelope) /\ envelope.action \notin allowed ->
         Result(CancelRetries("forbidden_action", 403), flows, FALSE)
    [] envelope.action \in allowed \cap ReadActions ->
         Result(Ok("dispatched"), flows, FALSE)
    [] envelope.action \in allowed \cap Mutations -> Mutate(flows, envelope, disk)
    [] envelope.action \in allowed \cap {"create_flow"} -> CreateFlow(flows, disk)
    [] envelope.action \in allowed \cap {"cancel_flow"} ->
         CancelFlow(flows, envelope.flow, childrenActive)
    [] envelope.action \in allowed \cap {"run_task"} -> RunTask(flows, envelope.flow)
===============================================================================
