-------------------------------- MODULE Tunnel --------------------------------
(***************************************************************************)
(* What the transport manager expects of a route's tunnel, whatever runs   *)
(* it: it goes up and down by itself while it is wanted; once it is no     *)
(* longer wanted it closes, for good until somebody opens it again.        *)
(***************************************************************************)
VARIABLES wanted, tunnel

vars == <<wanted, tunnel>>

Init == wanted = FALSE /\ tunnel = "closed"

Open     == ~wanted /\ tunnel = "closed" /\ wanted' = TRUE /\ tunnel' = "down"
Attach   == tunnel = "down" /\ tunnel' = "up" /\ UNCHANGED wanted
Drop     == wanted /\ tunnel = "up" /\ tunnel' = "down" /\ UNCHANGED wanted
Withdraw == wanted /\ wanted' = FALSE /\ tunnel' \in {tunnel, "closed"}
Close    == ~wanted /\ tunnel # "closed" /\ tunnel' = "closed" /\ UNCHANGED wanted

Next == Open \/ Attach \/ Drop \/ Withdraw \/ Close

Spec == Init /\ [][Next]_vars /\ WF_vars(Close)
===============================================================================
