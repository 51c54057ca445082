----------------------------- MODULE GateCalls -----------------------------
(***************************************************************************)
(* The mode gate (mode_gate.py) and the transitions it has handed out.     *)
(* Whoever began a transition holds an AgentModeTransition and may finish  *)
(* it at any later time, also when it is no longer in force, or again: the *)
(* flag of the object is only set after the gate was called.  Any other    *)
(* call of the gate may come in between.                                   *)
(***************************************************************************)
EXTENDS ModeGate

VARIABLES
    given,     \* history: [Sessions -> the transitions begun in the session]
    finished   \* history: transitions whose finish has called the gate

callVars == <<gateVars, given, finished>>

CallInit ==
    /\ GateInit
    /\ given = [s \in Sessions |-> {}]
    /\ finished = {}

Begins(s, t, active) ==
    /\ BeginTransition(s, t, active)
    /\ given' = [given EXCEPT ![s] = @ \cup {t}]
    /\ UNCHANGED finished

(* AgentModeTransition.finish                                              *)
Finishes(s, t, active) ==
    /\ t \in given[s]
    /\ FinishTransition(s, t, active)
    /\ finished' = finished \cup {t}
    /\ UNCHANGED given

Others(s, t, active) ==
    /\ \/ AcquireMixed(s, t, active)
       \/ DenyMixed(s, active)
       \/ DenyTransition(s, active)
       \/ SyncAgentActive(s, active)
       \/ ReleaseMixed(s, t)
    /\ UNCHANGED <<given, finished>>

CallNext ==
    \E s \in Sessions, t \in Tokens, active \in BOOLEAN :
        Begins(s, t, active) \/ Finishes(s, t, active) \/ Others(s, t, active)

CallSpec == CallInit /\ [][CallNext]_callVars

-----------------------------------------------------------------------------
(* A transition is in force from its beginning until its own finish has    *)
(* called the gate, and no longer: neither the late or repeated finish of  *)
(* an earlier transition (mode_gate.py:136) nor a release or a sync that   *)
(* prunes the session's entry (mode_gate.py:142-148) ends it.              *)
TransitionEndsByItsFinish ==
    \A s \in Sessions : given[s] \ finished = {switchToken[s]} \ {NoToken}
=============================================================================
