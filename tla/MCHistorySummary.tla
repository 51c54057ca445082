-------------------------- MODULE MCHistorySummary --------------------------
(* Values of the constants of HistorySummary for TLC. *)
EXTENDS HistorySummary, TLC

CONSTANTS here, there, r1, r2

Symmetric == Permutations(Sessions)

Unused(s) == turn[s] = NoTurn /\ rows[s] \union old[s] \union pruned[s] = {}

\* Two sessions meet no fault; one session alone meets two.
Bounded == used.faults = {} \/ \E s \in Sessions : Unused(s)
=============================================================================
