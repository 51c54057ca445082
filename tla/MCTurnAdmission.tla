-------------------------- MODULE MCTurnAdmission --------------------------
EXTENDS TurnAdmission, TLC

CONSTANT s1

InS1 == [m \in Messages |-> s1]
=============================================================================
