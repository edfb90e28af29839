---------------------------- MODULE Provisioning ------------------------------
(***************************************************************************)
(* How a route's connection is kept in step with its configuration:        *)
(* src/hookdeck/provision.ts builds the specification of it and its        *)
(* fingerprint, the transport manager upserts it when the service starts,  *)
(* hookdeck_setup when an agent asks.  The connection lives at Hookdeck,   *)
(* where an operator can edit it and a reply can be lost on its way back.  *)
(*                                                                         *)
(* One route.  A specification keeps the path, the retry rule, the         *)
(* signing of deliveries and the verification of the source; a fingerprint *)
(* is the specification it is the hash of.                                 *)
(***************************************************************************)
EXTENDS Ingress

CONSTANTS ConfigChoices, Edits
    \* configurations an operator may write; what a dashboard edit leaves

VARIABLES config,        \* what the service was started with
          connection,    \* the live connection
          fingerprint,   \* cursor.provisioningFingerprint
          doubts         \* why the fingerprint may not be the connection's

ConnectionSpecs == [path : {"here", "there"}, rule : SUBSET (Nat \X Nat),
                    signing : BOOLEAN, auth : BOOLEAN]

\* The project's signing secrets, newest first.
ProjectSecrets == {<<"old">>, <<"new", "old">>, <<"new">>}

Connections == [path : {"here", "there"}, rule : SUBSET (Nat \X Nat),
                signing : BOOLEAN, auth : BOOLEAN, secrets : ProjectSecrets]

ASSUME ChoicesAssumption ==
  /\ ConfigChoices \subseteq Configs
  /\ Edits \subseteq [rule : SUBSET (Nat \X Nat), signing : BOOLEAN]

NoFingerprint == [path |-> "none", rule |-> {}, signing |-> FALSE, auth |-> FALSE]

\* Of the live connection, the secrets are the project's.
SpecOf(live) == [path |-> live.path, rule |-> live.rule,
                 signing |-> live.signing, auth |-> live.auth]

WithSpec(live, spec) ==
  [path |-> spec.path, rule |-> spec.rule, signing |-> spec.signing,
   auth |-> spec.auth, secrets |-> live.secrets]

\* routeProvisionSpec and buildConnectionSpec: a source whose credentials were not
\* resolved gets no verification block.
BuildConnectionSpec(c, resolved) ==
  [path |-> c.path, rule |-> RetryableStatusCodes, signing |-> TRUE,
   auth |-> c.verification /\ resolved]

\* upsertConnection and the patch of the cursor row.  Mutation: the row is patched
\* whatever the answer.
PatchAnyway(spec, answer) ==
  /\ fingerprint' = spec
  /\ connection' = IF answer = "refused" THEN connection ELSE WithSpec(connection, spec)
  /\ doubts' = IF answer = "lost" THEN doubts \cup {"lost"} ELSE doubts

Upsert(spec, answer) ==
  CASE answer = "ok" ->
         /\ connection' = WithSpec(connection, spec)
         /\ fingerprint' = spec
         /\ doubts' = {}
    [] answer = "lost" ->
         /\ connection' = WithSpec(connection, spec)
         /\ doubts' = doubts \cup {"lost"}
         /\ UNCHANGED fingerprint
    [] answer = "refused" -> UNCHANGED <<connection, fingerprint, doubts>>

Answers == {"ok", "lost", "refused"}

\* The service starts with configuration c: manager.ts provision.  What has the
\* fingerprint of the last upsert is not sent again.  Without an API key nothing is
\* upserted, which is as good as refused.
Start(c, resolved, answer) ==
  LET spec == BuildConnectionSpec(c, resolved) IN
  /\ config' = c
  /\ IF c.provisions /\ c.enabled /\ (c.force \/ fingerprint # spec)
     THEN Upsert(spec, answer)
     ELSE UNCHANGED <<connection, fingerprint, doubts>>

\* hookdeck_setup refuses a verified route whose credentials it cannot resolve.
\* Mutation: it provisions around them.
SetupRefusesNothing(resolved) == TRUE

SetupAllowed(resolved) == config.verification => resolved

Setup(resolved, answer) ==
  /\ config.enabled
  /\ SetupAllowed(resolved)
  /\ Upsert(BuildConnectionSpec(config, resolved), answer)
  /\ UNCHANGED config

\* The operator edits the rule and the destination in the dashboard.
EditConnection(edit) ==
  /\ edit # [rule |-> connection.rule, signing |-> connection.signing]
  /\ connection' = WithSpec(connection, [path |-> connection.path, rule |-> edit.rule,
                                         signing |-> edit.signing, auth |-> connection.auth])
  /\ doubts' = doubts \cup {"edited"}
  /\ UNCHANGED <<config, fingerprint>>

\* The project's signing secret is rolled: both sign for a while.
RollSecret ==
  /\ connection.secrets # <<"new">>
  /\ connection' = [connection EXCEPT !.secrets =
                                  IF @ = <<"old">> THEN <<"new", "old">> ELSE <<"new">>]
  /\ UNCHANGED <<config, fingerprint, doubts>>

\* The operator stores another secret; it is resolved anew for every delivery.
StoreSecret(secret) ==
  /\ secret # config.secret
  /\ config' = [config EXCEPT !.secret = secret]
  /\ UNCHANGED <<connection, fingerprint, doubts>>

\* hookdeck_doctor on the live rule.
DoctorFindsRule(rule) == Uncovered(rule) = {}
===============================================================================
