------------------------------ MODULE MCTransport -----------------------------
(* Instances of Transport for TLC. *)
EXTENDS TransportProperties

CONSTANTS r1, r2

\* A behaviour spends on outages, on restarts or on the pause tool.
MCBounds == {
  [discards |-> 2, lives |-> 1, calls |-> 0, drops |-> 2],
  [discards |-> 1, lives |-> 2, calls |-> 0, drops |-> 1],
  [discards |-> 0, lives |-> 2, calls |-> 1, drops |-> 1]}

\* One request lost while an outage before it is being replayed.
MCCatchUp == {[discards |-> 1, lives |-> 1, calls |-> 0, drops |-> 1]}

\* A shutdown, a restart and one call of the pause tool.
MCPauses == {[discards |-> 0, lives |-> 2, calls |-> 1, drops |-> 1]}
===============================================================================
