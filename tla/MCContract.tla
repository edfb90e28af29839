------------------------------ MODULE MCContract ------------------------------
(* Instances of Contract for TLC. *)
EXTENDS ContractProperties, TLC

CONSTANTS e1, e2, e3, f1, f2

Event(route, action, flow, revision) ==
  [post |-> TRUE, type |-> "json", fits |-> TRUE, utf8 |-> TRUE, parses |-> TRUE,
   matches |-> TRUE, route |-> route,
   envelope |-> [action |-> action, flow |-> flow, expectedRevision |-> revision]]

Wake == Event("wake", "list_flows", f1, 0)

Base == [path |-> "here", enabled |-> TRUE, secret |-> "old", prefixed |-> TRUE,
         filters |-> FALSE, allowed |-> AllActions, verification |-> TRUE,
         provisions |-> TRUE, force |-> FALSE, allowRetryCancel |-> TRUE]

MCConfigs == {
  Base,
  [Base EXCEPT !.path = "there", !.force = TRUE],
  [Base EXCEPT !.enabled = FALSE],
  [Base EXCEPT !.prefixed = FALSE, !.verification = FALSE],
  [Base EXCEPT !.path = "there", !.provisions = FALSE],
  [Base EXCEPT !.filters = TRUE, !.allowed = ReadActions],
  [Base EXCEPT !.allowRetryCancel = FALSE]}

Provisioned == [path |-> "here", rule |-> RetryableStatusCodes, signing |-> TRUE,
                auth |-> TRUE, secrets |-> <<"old">>]

\* A connection `hookdeck listen` made.
ListenMade == [Provisioned EXCEPT !.rule = {}, !.auth = FALSE]

MCEdits == {
  [rule |-> RetryableStatusCodes, signing |-> FALSE],
  [rule |-> RetryableStatusCodes \ {<<404, 404>>, <<400, 400>>}, signing |-> TRUE],
  [rule |-> (RetryableStatusCodes \ {ServerRange}) \cup {<<500, 502>>}, signing |-> TRUE],
  [rule |-> {<<500, 599>>}, signing |-> TRUE]}

Nothing == [troubles |-> 0, losses |-> 0, replays |-> 0, restarts |-> 0,
            setups |-> 0, edits |-> 0, secrets |-> 0, moves |-> 0]

NoFlows == [f \in Flows |-> Absent]
Open(f) == [NoFlows EXCEPT ![f] = [revision |-> 0, status |-> "open"]]

Scenario(requests, budget, flowsThere, made) ==
  [request |-> requests, left |-> budget, flows |-> flowsThere, config |-> Base,
   connection |-> made]

\* Every kind of request, alone, against everything an operator does.
Odd == {
  [Wake EXCEPT !.post = FALSE], [Wake EXCEPT !.type = "other"],
  [Wake EXCEPT !.type = "form", !.parses = FALSE], [Wake EXCEPT !.fits = FALSE],
  [Wake EXCEPT !.utf8 = FALSE], [Wake EXCEPT !.parses = FALSE],
  [Wake EXCEPT !.matches = FALSE], Wake,
  Event("taskflow", "unknown", f1, 0), Event("taskflow", "get_flow", f1, 0)}

Alone ==
  {Scenario(e1 :> r, [Nothing EXCEPT !.troubles = 1, !.restarts = 1], NoFlows, Provisioned) :
     r \in Odd}

Rolls ==
  {Scenario(e1 :> Wake, [Nothing EXCEPT !.secrets = 3, !.losses = 1], NoFlows, Provisioned)}

Drift ==
  {Scenario(e1 :> Wake, [Nothing EXCEPT !.troubles = 1, !.restarts = 1, !.setups = 1,
                                        !.edits = 1, !.secrets = secrets],
            NoFlows, made) : made \in {Provisioned, ListenMade}, secrets \in {0, 1}}

\* Envelopes that race one another and the host, one answer lost or replayed.
Racing(first, second, flowsThere) ==
  {Scenario(e1 :> first @@ e2 :> second,
            [Nothing EXCEPT !.troubles = 1, !.moves = 1, !.losses = lost, !.replays = 1 - lost],
            flowsThere, Provisioned) : lost \in {0, 1}}

Races ==
  UNION {Racing(Event("taskflow", "set_waiting", f1, 0), Event("taskflow", action, f1, 1), there) :
           action \in {"finish_flow", "request_cancel"}, there \in {NoFlows, Open(f1)}}
  \cup
  UNION {Racing(Event("taskflow", "create_flow", f1, 0), Event("taskflow", action, f1, 0), there) :
           action \in {"run_task", "cancel_flow", "fail_flow"}, there \in {NoFlows, Open(f1)}}
  \cup Racing(Event("taskflow", "resume_flow", f2, 0), Wake, Open(f2))

\* Three events that fail, in a log that holds one.
Failing ==
  {Scenario(e1 :> Event("taskflow", "unknown", f1, 0)
            @@ e2 :> [Wake EXCEPT !.parses = FALSE]
            @@ e3 :> Event("taskflow", "set_waiting", f1, 0),
            [Nothing EXCEPT !.losses = lost, !.replays = 1 - lost], NoFlows, Provisioned) :
     lost \in {0, 1}}

\* An envelope for the revision the flow has next.
MCEarly ==
  {Scenario(e1 :> Event("taskflow", "set_waiting", f1, 1), [Nothing EXCEPT !.moves = 1],
            Open(f1), Provisioned)}

\* A connection whose rule is edited before a delivery fails.
MCEdited ==
  {Scenario(e1 :> Wake, [Nothing EXCEPT !.troubles = 1, !.edits = 1], NoFlows, Provisioned)}

MCScenarios == Alone \cup Rolls \cup Drift \cup Races \cup Failing
===============================================================================
