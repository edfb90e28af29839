------------------------------ MODULE MCAgentRuns ------------------------------
(***************************************************************************)
(* Instances of AgentRuns for TLC.                                         *)
(***************************************************************************)
EXTENDS AgentRuns

CONSTANTS
  Rival,     \* an event that comes once, to race another for a slot of the dispatcher
  RivalsBy   \* the handler that takes it, and no other event

\* A bound: the long histories are of one event, whose last attempt arrives once.
\* While the rival is about, the other has two attempts at most, nothing crashes
\* or arrives twice, and the runs in the background go on.
OneRace ==
  /\ \A h \in Handlers : req[h].event # NoEvent => (h = RivalsBy) = (req[h].event = Rival)
  /\ \A h \in Handlers : req[h].copy => attempts[req[h].event] < MaxAttempts
  /\ attempts[Rival] > 0 =>
       /\ attempts[Rival] = 1 /\ \A e \in Events : attempts[e] \in 1..2
       /\ instance = 1
       /\ \A h \in Handlers : ~req[h].copy
       /\ \A w \in Waiters : run[w].at \in {"off", "waiting"}
===============================================================================
