------------------------ MODULE MCProactiveDispatch ------------------------
(* Values of the constants of ProactiveDispatch for TLC. *)
EXTENDS ProactiveDispatch

CONSTANTS once, often, hook, s1, s2, e1

Triggers == (once :> "date") @@ (often :> "interval") @@ (hook :> "webhook")
=============================================================================
