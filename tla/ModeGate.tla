------------------------------ MODULE ModeGate ------------------------------
(***************************************************************************)
(* chatinter/mode_gate.py: the in-memory gate between the mixed chat turns *)
(* and the Superuser Agent mode of one private session.  No method of the  *)
(* gate suspends while it holds the gate's lock, so each is one step.      *)
(*                                                                         *)
(* A token stands for the uuid of a lease or of a transition.  Every call  *)
(* is told by its caller whether Agent mode is stored as active.  A        *)
(* session whose entry has been pruned is one in its first state.          *)
(***************************************************************************)
CONSTANTS Sessions, Tokens, NoToken

ASSUME GateAssumption == NoToken \notin Tokens

VARIABLES
    agentActive,   \* [Sessions -> BOOLEAN]
    mixedLeases,   \* [Sessions -> SUBSET Tokens]
    switchToken,   \* [Sessions -> Tokens \cup {NoToken}]
    issued         \* tokens already given out (a uuid is not given twice)

gateVars == <<agentActive, mixedLeases, switchToken, issued>>

GateTypeOK ==
    /\ agentActive \in [Sessions -> BOOLEAN]
    /\ mixedLeases \in [Sessions -> SUBSET Tokens]
    /\ switchToken \in [Sessions -> Tokens \cup {NoToken}]
    /\ issued \subseteq Tokens

GateInit ==
    /\ agentActive = [s \in Sessions |-> FALSE]
    /\ mixedLeases = [s \in Sessions |-> {}]
    /\ switchToken = [s \in Sessions |-> NoToken]
    /\ issued = {}

Observe(s, active) == agentActive' = [agentActive EXCEPT ![s] = active]

(* Mutant: a turn is admitted while the mode is being switched.            *)
AcquireWhileSwitching(s, t, active) ==
    /\ ~active
    /\ t \notin issued
    /\ issued' = issued \cup {t}
    /\ mixedLeases' = [mixedLeases EXCEPT ![s] = @ \cup {t}]
    /\ Observe(s, active)
    /\ UNCHANGED switchToken

(* try_acquire_mixed_turn *)
AcquireMixed(s, t, active) ==
    /\ switchToken[s] = NoToken
    /\ ~active
    /\ t \notin issued
    /\ issued' = issued \cup {t}
    /\ mixedLeases' = [mixedLeases EXCEPT ![s] = @ \cup {t}]
    /\ Observe(s, active)
    /\ UNCHANGED switchToken

DenyMixed(s, active) ==
    /\ switchToken[s] # NoToken \/ active
    /\ Observe(s, active)
    /\ UNCHANGED <<mixedLeases, switchToken, issued>>

(* Mutant: a transition begins although turns are in flight.              *)
BeginWhileBusy(s, t, active) ==
    /\ switchToken[s] = NoToken
    /\ t \notin issued
    /\ issued' = issued \cup {t}
    /\ switchToken' = [switchToken EXCEPT ![s] = t]
    /\ Observe(s, active)
    /\ UNCHANGED mixedLeases

(* try_begin_agent_transition *)
BeginTransition(s, t, active) ==
    /\ switchToken[s] = NoToken
    /\ mixedLeases[s] = {}
    /\ t \notin issued
    /\ issued' = issued \cup {t}
    /\ switchToken' = [switchToken EXCEPT ![s] = t]
    /\ Observe(s, active)
    /\ UNCHANGED mixedLeases

DenyTransition(s, active) ==
    /\ switchToken[s] # NoToken \/ mixedLeases[s] # {}
    /\ Observe(s, active)
    /\ UNCHANGED <<mixedLeases, switchToken, issued>>

(* Mutant: an entry without mixed turns is pruned although its mode is     *)
(* being switched.                                                         *)
SyncPrunesSwitch(s, active) ==
    /\ Observe(s, active)
    /\ switchToken' = IF ~active /\ mixedLeases[s] = {}
                       THEN [switchToken EXCEPT ![s] = NoToken] ELSE switchToken
    /\ UNCHANGED <<mixedLeases, issued>>

(* sync_agent_active *)
SyncAgentActive(s, active) ==
    /\ Observe(s, active)
    /\ UNCHANGED <<mixedLeases, switchToken, issued>>

(* Mutant: the lease stays.                                                *)
ReleaseNothing(s, t) == UNCHANGED gateVars

(* MixedTurnLease.release: releasing again does nothing.                   *)
ReleaseMixed(s, t) ==
    /\ mixedLeases' = [mixedLeases EXCEPT ![s] = @ \ {t}]
    /\ UNCHANGED <<agentActive, switchToken, issued>>

(* Mutant: the outcome is noted but the transition goes on.                *)
FinishWithoutEnd(s, t, active) ==
    IF switchToken[s] = t
    THEN Observe(s, active) /\ UNCHANGED <<mixedLeases, switchToken, issued>>
    ELSE UNCHANGED gateVars

(* AgentModeTransition.finish: a token that is not the one in force ends   *)
(* nothing.                                                                *)
FinishTransition(s, t, active) ==
    IF switchToken[s] = t
    THEN /\ switchToken' = [switchToken EXCEPT ![s] = NoToken]
         /\ Observe(s, active)
         /\ UNCHANGED <<mixedLeases, issued>>
    ELSE UNCHANGED gateVars

GateNext ==
    \E s \in Sessions, t \in Tokens, active \in BOOLEAN :
        \/ AcquireMixed(s, t, active)
        \/ DenyMixed(s, active)
        \/ BeginTransition(s, t, active)
        \/ DenyTransition(s, active)
        \/ SyncAgentActive(s, active)
        \/ ReleaseMixed(s, t)
        \/ FinishTransition(s, t, active)

GateSpec == GateInit /\ [][GateNext]_gateVars

-----------------------------------------------------------------------------
(* A session in transition to Agent mode has no mixed turn queued or       *)
(* running, whatever order its callers acquire, begin, finish and release  *)
(* in, late or twice.                                                      *)
SwitchExcludesMixed ==
    \A s \in Sessions : switchToken[s] # NoToken => mixedLeases[s] = {}
=============================================================================
