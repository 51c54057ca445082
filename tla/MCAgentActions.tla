---------------------------- MODULE MCAgentActions ----------------------------
EXTENDS AgentActions

CONSTANTS o1, o2
=============================================================================
