------------------------- MODULE MCBridgeExecution -------------------------
(* Two calls of one request, with the same payload, or with two and beside *)
(* a call of another request that competes for the store's only place.     *)
EXTENDS BridgeExecution, TLC

CONSTANTS c1, c2, c3, r1, r2, p1, p2

TwoCalls == (c1 :> r1) @@ (c2 :> r1)
SamePrints == (c1 :> p1) @@ (c2 :> p1)

ThreeCalls == TwoCalls @@ (c3 :> r2)
PrintsOfThree == (c1 :> p1) @@ (c2 :> p2) @@ (c3 :> p2)

(* The third call is there for the room its record takes, and comes before *)
(* a restart or not at all.                                                *)
TakesRoom ==
    /\ restarts > 0 => pc[c3] = "idle"
    /\ pc[c3] \in {"idle", "posted"}
    /\ wire[c3] \in {"none", "request", "handled"}
    /\ handling[c3] \in {"none", "preparing", "lost"}
=============================================================================
