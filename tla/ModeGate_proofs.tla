--------------------------- MODULE ModeGate_proofs ---------------------------
(***************************************************************************)
(* Proofs about the mode gate, for any sessions and any number of tokens.  *)
(***************************************************************************)
EXTENDS GateCalls, TLAPS

GateInv == GateTypeOK /\ SwitchExcludesMixed

(* Every call of the gate, with whatever the store answers, preserves the  *)
(* exclusion; TurnAdmission's steps on the gate are such calls.            *)
LEMMA GateStep ==
    ASSUME GateInv, [GateNext]_gateVars
    PROVE  GateInv'
<1> USE GateAssumption DEF GateInv, GateTypeOK, SwitchExcludesMixed
<1>1. CASE UNCHANGED gateVars
  BY <1>1 DEF gateVars
<1>2. ASSUME NEW s \in Sessions, NEW t \in Tokens, NEW active \in BOOLEAN,
             \/ AcquireMixed(s, t, active)
             \/ DenyMixed(s, active)
             \/ BeginTransition(s, t, active)
             \/ DenyTransition(s, active)
             \/ SyncAgentActive(s, active)
             \/ ReleaseMixed(s, t)
             \/ FinishTransition(s, t, active)
      PROVE  GateInv'
  <2>1. CASE AcquireMixed(s, t, active)
    BY <1>2, <2>1 DEF AcquireMixed, Observe
  <2>2. CASE DenyMixed(s, active) \/ DenyTransition(s, active)
             \/ SyncAgentActive(s, active)
    BY <1>2, <2>2 DEF DenyMixed, DenyTransition, SyncAgentActive, Observe
  <2>3. CASE BeginTransition(s, t, active)
    BY <1>2, <2>3 DEF BeginTransition, Observe
  <2>4. CASE ReleaseMixed(s, t)
    BY <1>2, <2>4 DEF ReleaseMixed
  <2>5. CASE FinishTransition(s, t, active)
    BY <1>2, <2>5 DEF FinishTransition, Observe, gateVars
  <2> QED BY <1>2, <2>1, <2>2, <2>3, <2>4, <2>5
<1> QED BY <1>1, <1>2 DEF GateNext

(* A gate that has seen no session satisfies the invariant.                *)
LEMMA GateStart == GateInit => GateInv
BY GateAssumption DEF GateInit, GateInv, GateTypeOK, SwitchExcludesMixed

(* In every behaviour of the gate a session that is being switched has no  *)
(* mixed turn in flight (mode_gate.py:99-104 and 81-84 together).          *)
THEOREM SwitchExclusion == GateSpec => [](GateTypeOK /\ SwitchExcludesMixed)
<1>1. GateInv /\ [GateNext]_gateVars => GateInv'
  BY GateStep
<1> QED BY <1>1, GateStart, PTL DEF GateSpec, GateInv

(* A transition is of one session.                                         *)
GivenOnce ==
    \A s, u \in Sessions : \A t \in Tokens : t \in given[s] /\ t \in given[u] => s = u

(* What the gate knows of the transitions it has handed out.               *)
CallInv ==
    /\ GateInv
    /\ given \in [Sessions -> SUBSET issued]
    /\ finished \subseteq issued
    /\ GivenOnce
    /\ TransitionEndsByItsFinish

(* Every call, a late or repeated finish included, leaves the transition   *)
(* in force to its own finish.                                             *)
LEMMA CallStep ==
    ASSUME CallInv, [CallNext]_callVars
    PROVE  CallInv'
<1> USE GateAssumption DEF GateTypeOK
<1>0. /\ GateInv /\ GateTypeOK
      /\ given \in [Sessions -> SUBSET issued] /\ finished \subseteq issued
      /\ \A s \in Sessions : given[s] \ finished = {switchToken[s]} \ {NoToken}
      /\ GivenOnce
  BY DEF CallInv, GateInv, TransitionEndsByItsFinish
<1>1. CASE UNCHANGED callVars
  <2>1. UNCHANGED gateVars /\ UNCHANGED <<given, finished>>
    BY <1>1 DEF callVars
  <2>2. GateInv'
    BY <1>0, <2>1, GateStep
  <2> QED BY <1>0, <2>1, <2>2 DEF CallInv, GivenOnce, TransitionEndsByItsFinish, gateVars
<1>2. ASSUME NEW s \in Sessions, NEW t \in Tokens, NEW active \in BOOLEAN,
             Begins(s, t, active)
      PROVE  CallInv'
  <2>1. GateInv'
    BY <1>0, <1>2, GateStep DEF Begins, GateNext
  <2>2. /\ switchToken[s] = NoToken /\ t \notin issued
        /\ issued' = issued \cup {t}
        /\ switchToken' = [switchToken EXCEPT ![s] = t]
        /\ given' = [given EXCEPT ![s] = @ \cup {t}]
        /\ finished' = finished
    BY <1>2 DEF Begins, BeginTransition
  <2>3. given' \in [Sessions -> SUBSET issued'] /\ finished' \subseteq issued'
    BY <1>0, <2>2
  <2>4. ASSUME NEW u \in Sessions
        PROVE  given'[u] \ finished' = {switchToken'[u]} \ {NoToken}
    BY <1>0, <2>2
  <2>5. GivenOnce'
    BY <1>0, <2>2 DEF GivenOnce
  <2> QED BY <2>1, <2>3, <2>4, <2>5 DEF CallInv, TransitionEndsByItsFinish
<1>3. ASSUME NEW s \in Sessions, NEW t \in Tokens, NEW active \in BOOLEAN,
             Finishes(s, t, active)
      PROVE  CallInv'
  <2>1. GateInv'
    BY <1>0, <1>3, GateStep DEF Finishes, GateNext
  <2>2. /\ t \in given[s] /\ given' = given /\ finished' = finished \cup {t}
        /\ issued' = issued
        /\ switchToken' = IF switchToken[s] = t
                          THEN [switchToken EXCEPT ![s] = NoToken] ELSE switchToken
    BY <1>3 DEF Finishes, FinishTransition, gateVars
  <2>3. given' \in [Sessions -> SUBSET issued'] /\ finished' \subseteq issued'
    BY <1>0, <2>2
  <2>4. ASSUME NEW u \in Sessions
        PROVE  given'[u] \ finished' = {switchToken'[u]} \ {NoToken}
    <3>1. given[u] \ finished = {switchToken[u]} \ {NoToken}
      BY <1>0
    <3>2. given[u] \ finished' = (given[u] \ finished) \ {t}
      BY <2>2
    <3>3. CASE switchToken[u] # t
      BY <1>0, <2>2, <3>1, <3>2, <3>3
    <3>4. CASE switchToken[u] = t /\ u = s
      BY <1>0, <2>2, <3>1, <3>2, <3>4
    <3>5. CASE switchToken[u] = t /\ u # s
      BY <1>0, <2>2, <3>1, <3>5, GateAssumption DEF GivenOnce
    <3> QED BY <3>3, <3>4, <3>5
  <2>5. GivenOnce'
    BY <1>0, <2>2 DEF GivenOnce
  <2> QED BY <2>1, <2>3, <2>4, <2>5 DEF CallInv, TransitionEndsByItsFinish
<1>4. ASSUME NEW s \in Sessions, NEW t \in Tokens, NEW active \in BOOLEAN,
             Others(s, t, active)
      PROVE  CallInv'
  <2>1. GateInv'
    BY <1>0, <1>4, GateStep DEF Others, GateNext
  <2>2. UNCHANGED <<given, finished, switchToken>> /\ issued \subseteq issued'
    BY <1>4 DEF Others, AcquireMixed, DenyMixed, DenyTransition, SyncAgentActive,
       ReleaseMixed
  <2> QED BY <1>0, <2>1, <2>2 DEF CallInv, GivenOnce, TransitionEndsByItsFinish
<1> QED BY <1>1, <1>2, <1>3, <1>4 DEF CallNext

(* Whatever order the callers begin, finish, acquire, release and sync in, *)
(* late or twice, a transition is in force exactly from its beginning to   *)
(* its own finish (AgentModeTransition.finish and the comparison at        *)
(* mode_gate.py:136).                                                      *)
THEOREM TransitionsEndByTheirFinish == CallSpec => []TransitionEndsByItsFinish
<1>1. CallInit => CallInv
  BY GateStart, GateAssumption DEF CallInit, CallInv, GateInit, GivenOnce,
     TransitionEndsByItsFinish
<1>2. CallInv /\ [CallNext]_callVars => CallInv'
  BY CallStep
<1>3. CallInv => TransitionEndsByItsFinish
  BY DEF CallInv
<1> QED BY <1>1, <1>2, <1>3, PTL DEF CallSpec
=============================================================================
