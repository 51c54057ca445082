------------------------ MODULE TurnAdmission_proofs ------------------------
(***************************************************************************)
(* Proofs about the admission of a superuser's private messages, for any   *)
(* number of sessions, messages and restarts.  The controls that turn      *)
(* Agent mode on without asking the gate are assumed away where they       *)
(* matter: TLC shows with TurnAdmissionBypass.cfg what they do.            *)
(***************************************************************************)
EXTENDS TurnAdmission, TLAPS

Ungated == {"create", "switch", "clear"}

(* An Agent run is one message's, and Agent mode is stored while it runs.  *)
RunsNeedMode ==
    /\ \A s \in Sessions : agentRun[s] # NoToken => stored[s]
    /\ \A m \in Messages : phase[m] = "agent" => agentRun[SessionOf[m]] = m

SeparationInv ==
    /\ TypeOK
    /\ SwitchExcludesMixed
    /\ RunsNeedMode
    /\ ModesAreSeparate

(* What the proofs below use of queues: appending, taking the head and     *)
(* dropping one element keep a sequence of messages a sequence of          *)
(* messages of the length expected.                                        *)
LEMMA SequenceFacts ==
    ASSUME NEW S, NEW q \in Seq(S), NEW e \in S
    PROVE  /\ Append(q, e) \in Seq(S)
           /\ Len(Append(q, e)) = Len(q) + 1
           /\ q # <<>> => /\ Head(q) \in S
                          /\ Tail(q) \in Seq(S)
                          /\ Len(Tail(q)) = Len(q) - 1
OBVIOUS

(* The invariant holds when the process starts with nothing queued.        *)
LEMMA SeparationStart == Init => SeparationInv
BY AdmissionAssumption, GateAssumption
   DEF Init, GateInit, SeparationInv, TypeOK, GateTypeOK, Phases,
       SwitchExcludesMixed, RunsNeedMode, ModesAreSeparate

(* Every control, message, queued turn and restart preserves the           *)
(* invariant when each control of the deployment passes the gate.          *)
LEMMA SeparationStep ==
    ASSUME Controls \cap Ungated = {}, SeparationInv, [Next]_vars
    PROVE  SeparationInv'
<1> USE AdmissionAssumption, GateAssumption DEF SeparationInv, TypeOK,
        GateTypeOK, Phases, SwitchExcludesMixed, RunsNeedMode,
        ModesAreSeparate, Become
<1>1. CASE UNCHANGED vars
  BY <1>1 DEF vars, gateVars, admissionVars
<1>2. ASSUME NEW m \in Messages, OpenAgent(m)
      PROVE  SeparationInv'
  <2> DEFINE s == SessionOf[m]
  <2>1. s \in Sessions /\ mixedLeases[s] = {} /\ switchToken[s] = NoToken
    BY <1>2 DEF OpenAgent, BeginTransition
  <2>2. stored' = stored \/ stored' = [stored EXCEPT ![s] = TRUE]
    BY <1>2 DEF OpenAgent, ApplyIntent, Outcomes
  <2>3. /\ switchToken' = [switchToken EXCEPT ![s] = m]
        /\ mixedLeases' = mixedLeases
        /\ issued' = issued \cup {m}
        /\ agentActive' = [agentActive EXCEPT ![s] = stored[s]]
    BY <1>2 DEF OpenAgent, BeginTransition, Observe
  <2>4. /\ phase' = [phase EXCEPT ![m] = "opening"]
        /\ UNCHANGED <<agentRun, queue, taken, restarts>>
    BY <1>2 DEF OpenAgent
  <2>5. stored' \in [Sessions -> BOOLEAN]
    BY <2>1, <2>2
  <2>6. TypeOK'
    BY <2>1, <2>3, <2>4, <2>5
  <2>7. SwitchExcludesMixed' /\ ModesAreSeparate'
    BY <2>1, <2>2, <2>3
  <2>8. RunsNeedMode'
    BY <2>1, <2>2, <2>4
  <2> QED BY <2>6, <2>7, <2>8
<1>3. ASSUME NEW m \in Messages, OpenDenied(m)
      PROVE  SeparationInv'
  BY <1>3 DEF OpenDenied, DenyTransition, Observe
<1>4. ASSUME NEW m \in Messages, NEW i \in Controls, Control(m, i)
      PROVE  SeparationInv'
  <2>1. i \in {"exit", "archive", "other"}
    BY <1>4 DEF Control, Intents, Ungated
  <2>2. \A s \in Sessions : stored'[s] => stored[s]
    BY <1>4, <2>1 DEF Control, ApplyIntent, Outcomes
  <2>3. \A s \in Sessions : stored'[s] # stored[s] => agentRun[s] = NoToken
    <3>1. CASE UNCHANGED stored
      BY <3>1
    <3>2. CASE /\ ~(i \in Blockable /\ Declines(SessionOf[m]))
               /\ \E b \in Outcomes(i, SessionOf[m]) :
                     stored' = [stored EXCEPT ![SessionOf[m]] = b]
      <4>1. CASE i = "other"
        BY <3>2, <4>1 DEF Outcomes
      <4>2. CASE i # "other"
        BY <2>1, <3>2, <4>2 DEF Blockable, Declines
      <4> QED BY <4>1, <4>2
    <3> QED BY <1>4, <3>1, <3>2 DEF Control, ApplyIntent
  <2>4. stored' \in [Sessions -> BOOLEAN]
    <3>1. \A b \in Outcomes(i, SessionOf[m]) : b \in BOOLEAN
      <4>1. stored[SessionOf[m]] \in BOOLEAN
        OBVIOUS
      <4>2. Outcomes(i, SessionOf[m]) \subseteq {TRUE, FALSE, stored[SessionOf[m]]}
        BY <2>1 DEF Outcomes
      <4> QED BY <4>1, <4>2
    <3> QED BY <1>4, <3>1 DEF Control, ApplyIntent
  <2>5. TypeOK'
    BY <1>4, <2>4 DEF Control, SyncAgentActive, Observe
  <2>6. SwitchExcludesMixed' /\ ModesAreSeparate'
    BY <1>4, <2>2 DEF Control, SyncAgentActive
  <2>7. \A s \in Sessions : agentRun'[s] # NoToken => stored'[s]
    BY <1>4, <2>3, <2>4 DEF Control
  <2>8. \A n \in Messages : phase'[n] = "agent" => agentRun'[SessionOf[n]] = n
    BY <1>4 DEF Control
  <2> QED BY <2>5, <2>6, <2>7, <2>8
<1>5. ASSUME NEW m \in Messages, AgentMessage(m)
      PROVE  SeparationInv'
  <2>1. CASE agentRun[SessionOf[m]] = NoToken
    <3>1. /\ agentRun' = [agentRun EXCEPT ![SessionOf[m]] = m]
          /\ phase' = [phase EXCEPT ![m] = "agent"]
          /\ stored[SessionOf[m]]
          /\ UNCHANGED <<gateVars, stored, queue, taken, restarts>>
      BY <1>5, <2>1 DEF AgentMessage
    <3>2. TypeOK'
      BY <3>1 DEF gateVars
    <3>3. SwitchExcludesMixed' /\ ModesAreSeparate'
      BY <3>1 DEF gateVars
    <3>4. RunsNeedMode'
      BY <2>1, <3>1
    <3> QED BY <3>2, <3>3, <3>4
  <2>2. CASE agentRun[SessionOf[m]] # NoToken
    BY <1>5, <2>2 DEF AgentMessage, gateVars
  <2> QED BY <2>1, <2>2
<1>6. ASSUME NEW m \in Messages, MixedDenied(m)
      PROVE  SeparationInv'
  BY <1>6 DEF MixedDenied, DenyMixed, Observe
<1>7. ASSUME NEW m \in Messages, MixedMessage(m)
      PROVE  SeparationInv'
  <2> DEFINE s == SessionOf[m]
             rest == IF Full(s) THEN Tail(queue[s]) ELSE queue[s]
  <2>1. /\ rest \in Seq(Messages)
        /\ Len(rest) < MaxPending
    BY <1>7, SequenceFacts DEF Full
  <2>2. /\ Append(rest, m) \in Seq(Messages)
        /\ Len(Append(rest, m)) <= MaxPending
    BY <2>1, SequenceFacts
  <2>3. queue' = [queue EXCEPT ![s] = Append(rest, m)]
    BY <1>7 DEF MixedMessage
  <2>4. /\ queue' \in [Sessions -> Seq(Messages)]
        /\ \A u \in Sessions : Len(queue'[u]) <= MaxPending
    BY <2>2, <2>3
  <2>5. /\ phase' \in [Messages -> Phases]
        /\ \A n \in Messages : phase'[n] = "agent" => phase[n] = "agent"
    BY <1>7 DEF MixedMessage
  <2> QED BY <1>7, <2>4, <2>5 DEF MixedMessage, AcquireMixed, Observe
<1>8. ASSUME NEW m \in Messages, FinishOpen(m)
      PROVE  SeparationInv'
  BY <1>8 DEF FinishOpen, FinishTransition, Observe, gateVars
<1>9. ASSUME NEW m \in Messages, FinishControl(m)
      PROVE  SeparationInv'
  BY <1>9 DEF FinishControl, SyncAgentActive, Observe
<1>10. ASSUME NEW m \in Messages, FinishAgentRun(m)
       PROVE  SeparationInv'
  BY <1>10 DEF FinishAgentRun, gateVars
<1>11. ASSUME NEW m \in Messages, ReleaseReplaced(m)
       PROVE  SeparationInv'
  BY <1>11 DEF ReleaseReplaced, ReleaseMixed
<1>12. ASSUME NEW m \in Messages, RouteTurn(m)
       PROVE  SeparationInv'
  BY <1>12 DEF RouteTurn, gateVars
<1>13. ASSUME NEW m \in Messages, FinishTurn(m)
       PROVE  SeparationInv'
  BY <1>13 DEF FinishTurn, ReleaseMixed
<1>14. ASSUME NEW m \in Messages, RunActivates(m)
       PROVE  SeparationInv'
  BY <1>14 DEF RunActivates, gateVars
<1>15. ASSUME NEW s \in Sessions, TakeTurn(s)
       PROVE  SeparationInv'
  BY <1>15, SequenceFacts DEF TakeTurn, gateVars
<1>16. CASE Restart
  BY <1>16, SMTT(30) DEF Restart
<1> QED BY <1>1, <1>2, <1>3, <1>4, <1>5, <1>6, <1>7, <1>8, <1>9, <1>10,
           <1>11, <1>12, <1>13, <1>14, <1>15, <1>16
        DEF Next, Arrive, Proceed

(* The turns in the queue of a session are its own messages, queued, each  *)
(* once: what a full queue gives up, or the worker takes, is gone from it. *)
QueueHolds ==
    \A s \in Sessions : \A i \in 1..Len(queue[s]) :
        /\ phase[queue[s][i]] = "queued"
        /\ SessionOf[queue[s][i]] = s
        /\ \A j \in 1..Len(queue[s]) : queue[s][i] = queue[s][j] => i = j

AdmissionInv == TypeOK /\ SwitchExcludesMixed /\ QueueHolds /\ LeaseTracksTurn

(* The elements of a queue after a turn was taken from its head, or has    *)
(* joined at its end.                                                      *)
LEMMA ElementFacts ==
    ASSUME NEW S, NEW q \in Seq(S), NEW e \in S
    PROVE  /\ \A i \in 1..Len(q) : q[i] \in S
           /\ \A i \in 1..Len(q) : Append(q, e)[i] = q[i]
           /\ Append(q, e)[Len(q) + 1] = e
           /\ q # <<>> => /\ Head(q) = q[1]
                          /\ 1 \in 1..Len(q)
                          /\ \A i \in 1..Len(Tail(q)) : /\ Tail(q)[i] = q[i + 1]
                                                        /\ i + 1 \in 1..Len(q)
OBVIOUS

(* The invariant holds when the process starts.                            *)
LEMMA AdmissionStart == Init => AdmissionInv
BY AdmissionAssumption, GateAssumption
   DEF Init, GateInit, AdmissionInv, TypeOK, GateTypeOK, Phases,
       SwitchExcludesMixed, QueueHolds, LeaseTracksTurn

(* What a step of one message may do to the phases for the queues and the  *)
(* leases to stay as they are: move a message between two phases that hold *)
(* no lease, or between two that hold one and are not "queued".            *)
Holding == {"queued", "taken", "answering", "ignored", "replaced"}

LEMMA QuietStep ==
    ASSUME AdmissionInv, NEW m \in Messages, NEW p \in Phases,
           phase' = [phase EXCEPT ![m] = p],
           UNCHANGED <<queue, mixedLeases>>,
           phase[m] # "queued", p # "queued",
           phase[m] \in Holding <=> p \in Holding
    PROVE  QueueHolds' /\ LeaseTracksTurn'
<1> USE AdmissionAssumption DEF AdmissionInv, TypeOK, GateTypeOK
<1>1. QueueHolds'
  <2> SUFFICES ASSUME NEW s \in Sessions, NEW i \in 1..Len(queue[s])
               PROVE  phase'[queue[s][i]] = "queued"
    BY DEF QueueHolds
  <2>1. queue[s][i] \in Messages /\ phase[queue[s][i]] = "queued"
    BY ElementFacts DEF QueueHolds
  <2> QED BY <2>1
<1>2. LeaseTracksTurn'
  BY DEF LeaseTracksTurn, Holding
<1> QED BY <1>1, <1>2

(* A message ends and its lease is released.                               *)
LEMMA ReleaseStep ==
    ASSUME AdmissionInv, NEW m \in Messages, ReleaseMixed(SessionOf[m], m),
           phase[m] # "queued", Become(m, "done"), UNCHANGED queue
    PROVE  QueueHolds' /\ LeaseTracksTurn' /\ SwitchExcludesMixed'
<1> USE AdmissionAssumption DEF AdmissionInv, TypeOK, GateTypeOK, Become, ReleaseMixed
<1>1. QueueHolds'
  <2> SUFFICES ASSUME NEW s \in Sessions, NEW i \in 1..Len(queue[s])
               PROVE  phase'[queue[s][i]] = "queued"
    BY DEF QueueHolds
  <2>1. queue[s][i] \in Messages /\ phase[queue[s][i]] = "queued"
    BY ElementFacts DEF QueueHolds
  <2> QED BY <2>1
<1>2. LeaseTracksTurn'
  BY DEF LeaseTracksTurn
<1>3. SwitchExcludesMixed'
  BY DEF SwitchExcludesMixed
<1> QED BY <1>1, <1>2, <1>3

(* Every step preserves the invariant, whatever the controls are.          *)
LEMMA AdmissionStep ==
    ASSUME AdmissionInv, [Next]_vars
    PROVE  AdmissionInv'
<1> USE AdmissionAssumption, GateAssumption DEF TypeOK, GateTypeOK
<1>00. AdmissionInv
  OBVIOUS
<1>0. TypeOK /\ SwitchExcludesMixed /\ QueueHolds /\ LeaseTracksTurn
  BY DEF AdmissionInv
<1>1. CASE UNCHANGED vars
  BY <1>0, <1>1 DEF vars, gateVars, admissionVars, AdmissionInv, SwitchExcludesMixed,
     QueueHolds, LeaseTracksTurn
<1>2. ASSUME NEW m \in Messages, OpenAgent(m)
      PROVE  AdmissionInv'
  <2>1. /\ mixedLeases[SessionOf[m]] = {}
        /\ switchToken' = [switchToken EXCEPT ![SessionOf[m]] = m]
        /\ issued' = issued \cup {m}
        /\ agentActive' = [agentActive EXCEPT ![SessionOf[m]] = stored[SessionOf[m]]]
        /\ phase[m] = "new" /\ phase' = [phase EXCEPT ![m] = "opening"]
        /\ UNCHANGED <<mixedLeases, agentRun, queue, taken, restarts>>
    BY <1>2 DEF OpenAgent, BeginTransition, Observe, Become
  <2>2. stored' \in [Sessions -> BOOLEAN]
    BY <1>0, <1>2 DEF OpenAgent, ApplyIntent, Outcomes
  <2>3. TypeOK'
    BY <1>0, <2>1, <2>2 DEF Phases
  <2>4. SwitchExcludesMixed'
    BY <1>0, <2>1 DEF SwitchExcludesMixed
  <2>5. QueueHolds' /\ LeaseTracksTurn'
    BY <2>1, QuietStep, <1>00 DEF Phases, Holding
  <2> QED BY <2>3, <2>4, <2>5 DEF AdmissionInv
<1>3. ASSUME NEW m \in Messages, OpenDenied(m) \/ MixedDenied(m)
      PROVE  AdmissionInv'
  <2>1. /\ phase[m] = "new" /\ phase' = [phase EXCEPT ![m] = "done"]
        /\ agentActive' = [agentActive EXCEPT ![SessionOf[m]] = stored[SessionOf[m]]]
        /\ UNCHANGED <<mixedLeases, switchToken, issued, stored, agentRun, queue, taken, restarts>>
    BY <1>3 DEF OpenDenied, MixedDenied, DenyTransition, DenyMixed, Observe, Become
  <2>2. TypeOK' /\ SwitchExcludesMixed'
    BY <1>0, <2>1 DEF Phases, SwitchExcludesMixed
  <2>3. QueueHolds' /\ LeaseTracksTurn'
    BY <2>1, QuietStep, <1>00 DEF Phases, Holding
  <2> QED BY <2>2, <2>3 DEF AdmissionInv
<1>4. ASSUME NEW m \in Messages, NEW i \in Controls, Control(m, i)
      PROVE  AdmissionInv'
  <2>1. /\ phase[m] = "new" /\ phase' = [phase EXCEPT ![m] = "controlling"]
        /\ agentActive' = [agentActive EXCEPT ![SessionOf[m]] = stored[SessionOf[m]]]
        /\ UNCHANGED <<mixedLeases, switchToken, issued, agentRun, queue, taken, restarts>>
    BY <1>4 DEF Control, SyncAgentActive, Observe, Become
  <2>2. stored' \in [Sessions -> BOOLEAN]
    <3>1. \A b \in Outcomes(i, SessionOf[m]) : b \in BOOLEAN
      BY <1>0, <1>4 DEF Outcomes, Intents
    <3> QED BY <1>0, <1>4, <3>1 DEF Control, ApplyIntent
  <2>3. TypeOK' /\ SwitchExcludesMixed'
    BY <1>0, <2>1, <2>2 DEF Phases, SwitchExcludesMixed
  <2>4. QueueHolds' /\ LeaseTracksTurn'
    BY <2>1, QuietStep, <1>00 DEF Phases, Holding
  <2> QED BY <2>3, <2>4 DEF AdmissionInv
<1>5. ASSUME NEW m \in Messages, AgentMessage(m)
      PROVE  AdmissionInv'
  <2>1. PICK p \in {"agent", "done"} : phase' = [phase EXCEPT ![m] = p]
    BY <1>5 DEF AgentMessage, Become
  <2>2. /\ phase[m] = "new"
        /\ agentRun' \in {agentRun, [agentRun EXCEPT ![SessionOf[m]] = m]}
        /\ UNCHANGED <<gateVars, stored, queue, taken, restarts>>
    BY <1>5 DEF AgentMessage
  <2>3. /\ phase' \in [Messages -> Phases]
        /\ agentRun' \in [Sessions -> Messages \cup {NoToken}]
    <3>1. p \in Phases
      BY DEF Phases
    <3>2. phase' \in [Messages -> Phases]
      BY <1>0, <2>1, <3>1
    <3>3. SessionOf[m] \in Sessions /\ m \in Messages \cup {NoToken}
      OBVIOUS
    <3>4. CASE agentRun' = agentRun
      BY <1>0, <3>2, <3>4
    <3>5. CASE agentRun' = [agentRun EXCEPT ![SessionOf[m]] = m]
      BY <1>0, <3>2, <3>3, <3>5
    <3> QED BY <2>2, <3>4, <3>5
  <2>4. TypeOK'
    BY <1>0, <2>2, <2>3 DEF gateVars
  <2>5. SwitchExcludesMixed'
    BY <1>0, <2>2 DEF gateVars, SwitchExcludesMixed
  <2>6. QueueHolds' /\ LeaseTracksTurn'
    BY <2>1, <2>2, QuietStep, <1>00 DEF Phases, Holding, gateVars
  <2> QED BY <2>4, <2>5, <2>6 DEF AdmissionInv
<1>6. ASSUME NEW m \in Messages, MixedMessage(m)
      PROVE  AdmissionInv'
  <2> DEFINE s == SessionOf[m]
             rest == IF Full(s) THEN Tail(queue[s]) ELSE queue[s]
  <2>1. /\ phase[m] = "new" /\ s \in Sessions
        /\ switchToken[s] = NoToken
        /\ mixedLeases' = [mixedLeases EXCEPT ![s] = @ \cup {m}]
        /\ issued' = issued \cup {m}
        /\ agentActive' = [agentActive EXCEPT ![s] = stored[s]]
        /\ queue' = [queue EXCEPT ![s] = Append(rest, m)]
        /\ phase' = [n \in Messages |->
                       IF n = m THEN "queued"
                       ELSE IF Full(s) /\ n = Head(queue[s]) THEN "replaced"
                       ELSE phase[n]]
        /\ UNCHANGED <<switchToken, stored, agentRun, taken, restarts>>
    BY <1>6 DEF MixedMessage, AcquireMixed, Observe
  <2>2. queue[s] \in Seq(Messages)
    BY <1>0
  <2>3. Full(s) => queue[s] # <<>>
    BY <2>2 DEF Full
  <2>4. /\ rest \in Seq(Messages) /\ Len(rest) < MaxPending
        /\ Append(rest, m) \in Seq(Messages)
        /\ Len(Append(rest, m)) = Len(rest) + 1
    BY <1>0, <2>2, <2>3, SequenceFacts DEF Full
  <2>5. TypeOK'
    <3>1. /\ queue' \in [Sessions -> Seq(Messages)]
          /\ \A u \in Sessions : Len(queue'[u]) <= MaxPending
      <4> HIDE DEF rest
      <4> QED BY <1>0, <2>1, <2>4
    <3>2. phase' \in [Messages -> Phases]
      BY <1>0, <2>1 DEF Phases
    <3> QED BY <1>0, <2>1, <3>1, <3>2
  <2>6. SwitchExcludesMixed'
    BY <1>0, <2>1 DEF SwitchExcludesMixed
  <2>7. Full(s) => phase[Head(queue[s])] = "queued" /\ Head(queue[s]) \in Messages
                     /\ SessionOf[Head(queue[s])] = s
    BY <1>0, <2>2, <2>3, ElementFacts DEF QueueHolds
  <2>8. LeaseTracksTurn'
    <3> HIDE DEF rest
    <3> SUFFICES ASSUME NEW n \in Messages
                 PROVE  n \in mixedLeases'[SessionOf[n]] <=> phase'[n] \in Holding
      BY DEF LeaseTracksTurn, Holding
    <3>1. n \in mixedLeases[SessionOf[n]] <=> phase[n] \in Holding
      BY <1>0 DEF LeaseTracksTurn, Holding
    <3>2. CASE n = m
      BY <1>0, <2>1, <3>2 DEF Holding
    <3>3. CASE n # m /\ Full(s) /\ n = Head(queue[s])
      BY <1>0, <2>1, <2>7, <3>1, <3>3 DEF Holding
    <3>4. CASE n # m /\ ~(Full(s) /\ n = Head(queue[s]))
      BY <1>0, <2>1, <3>1, <3>4
    <3> QED BY <3>2, <3>3, <3>4
  <2>9. /\ \A i \in 1..Len(rest) : /\ rest[i] \in Messages
                                   /\ phase[rest[i]] = "queued" /\ SessionOf[rest[i]] = s
                                   /\ Full(s) => rest[i] # Head(queue[s])
        /\ \A i, j \in 1..Len(rest) : rest[i] = rest[j] => i = j
    <3>1. CASE ~Full(s)
      BY <1>0, <2>1, <2>2, <3>1, ElementFacts DEF QueueHolds
    <3>2. CASE Full(s)
      <4>1. /\ rest = Tail(queue[s]) /\ Head(queue[s]) = queue[s][1] /\ 1 \in 1..Len(queue[s])
            /\ \A i \in 1..Len(rest) : rest[i] = queue[s][i + 1] /\ i + 1 \in 1..Len(queue[s])
        BY <2>2, <2>3, <3>2, ElementFacts
      <4>2. \A i \in 1..Len(queue[s]) :
               /\ queue[s][i] \in Messages
               /\ phase[queue[s][i]] = "queued" /\ SessionOf[queue[s][i]] = s
               /\ \A j \in 1..Len(queue[s]) : queue[s][i] = queue[s][j] => i = j
        BY <1>0, <2>1, <2>2, ElementFacts DEF QueueHolds
      <4> HIDE DEF rest
      <4>3. Len(rest) \in Nat
        BY <2>4
      <4> QED BY <4>1, <4>2, <4>3
    <3> QED BY <3>1, <3>2
  <2>10. QueueHolds'
    <3> HIDE DEF rest
    <3> SUFFICES ASSUME NEW u \in Sessions
                 PROVE  \A i \in 1..Len(queue'[u]) :
                          /\ phase'[queue'[u][i]] = "queued"
                          /\ SessionOf[queue'[u][i]] = u
                          /\ \A j \in 1..Len(queue'[u]) : queue'[u][i] = queue'[u][j] => i = j
      BY DEF QueueHolds
    <3>1. CASE u # s
      <4>1. queue'[u] = queue[u]
        BY <1>0, <2>1, <3>1
      <4>2. \A i \in 1..Len(queue[u]) :
               /\ queue[u][i] \in Messages
               /\ phase[queue[u][i]] = "queued" /\ SessionOf[queue[u][i]] = u
               /\ \A j \in 1..Len(queue[u]) : queue[u][i] = queue[u][j] => i = j
        BY <1>0, ElementFacts DEF QueueHolds
      <4>3. \A i \in 1..Len(queue[u]) : phase'[queue[u][i]] = "queued"
        BY <2>1, <2>7, <3>1, <4>2
      <4> QED BY <4>1, <4>2, <4>3
    <3>2. CASE u = s
      <4>1. queue'[u] = Append(rest, m)
        BY <1>0, <2>1, <3>2
      <4>2. /\ \A i \in 1..Len(rest) : Append(rest, m)[i] = rest[i]
            /\ Append(rest, m)[Len(rest) + 1] = m
            /\ Len(rest) \in Nat
        BY <2>4, ElementFacts
      <4>3. \A i \in 1..Len(rest) : rest[i] # m /\ phase'[rest[i]] = "queued"
        BY <2>1, <2>9
      <4>4. phase'[m] = "queued"
        BY <2>1
      <4> DEFINE q == Append(rest, m)
      <4>5. \A i \in 1..Len(q) : (i \in 1..Len(rest) /\ q[i] = rest[i]) \/ (i = Len(rest) + 1 /\ q[i] = m)
        BY <2>4, <4>2
      <4> HIDE DEF q
      <4>6. \A i \in 1..Len(q) : phase'[q[i]] = "queued" /\ SessionOf[q[i]] = u
        BY <2>9, <3>2, <4>3, <4>4, <4>5
      <4>7. \A i, j \in 1..Len(q) : q[i] = q[j] => i = j
        BY <2>9, <4>3, <4>5
      <4> QED BY <4>1, <4>6, <4>7 DEF q
    <3> QED BY <3>1, <3>2
  <2> QED BY <2>5, <2>6, <2>8, <2>10 DEF AdmissionInv
<1>7. ASSUME NEW m \in Messages, FinishOpen(m) \/ FinishControl(m)
      PROVE  AdmissionInv'
  <2>1. /\ phase[m] \in {"opening", "controlling"} /\ phase' = [phase EXCEPT ![m] = "done"]
        /\ agentActive' \in {agentActive,
                              [agentActive EXCEPT ![SessionOf[m]] = stored[SessionOf[m]]]}
        /\ switchToken' \in {switchToken, [switchToken EXCEPT ![SessionOf[m]] = NoToken]}
        /\ UNCHANGED <<mixedLeases, issued, stored, agentRun, queue, taken, restarts>>
    BY <1>7 DEF FinishOpen, FinishControl, FinishTransition, SyncAgentActive, Observe, Become,
       gateVars
  <2>2. TypeOK' /\ SwitchExcludesMixed'
    BY <1>0, <2>1 DEF Phases, SwitchExcludesMixed
  <2>3. QueueHolds' /\ LeaseTracksTurn'
    BY <2>1, QuietStep, <1>00 DEF Phases, Holding
  <2> QED BY <2>2, <2>3 DEF AdmissionInv
<1>8. ASSUME NEW m \in Messages, FinishAgentRun(m) \/ RouteTurn(m)
      PROVE  AdmissionInv'
  <2>1. PICK p \in {"done", "answering", "ignored"} :
           /\ phase' = [phase EXCEPT ![m] = p]
           /\ \/ phase[m] = "agent" /\ p = "done"
              \/ phase[m] = "taken" /\ p \in {"answering", "ignored"}
    BY <1>8 DEF FinishAgentRun, RouteTurn, Become
  <2>2. /\ agentRun' \in {agentRun, [agentRun EXCEPT ![SessionOf[m]] = NoToken]}
        /\ UNCHANGED <<gateVars, stored, queue, taken, restarts>>
    BY <1>8 DEF FinishAgentRun, RouteTurn
  <2>3. TypeOK' /\ SwitchExcludesMixed'
    BY <1>0, <2>1, <2>2 DEF Phases, gateVars, SwitchExcludesMixed
  <2>4. QueueHolds' /\ LeaseTracksTurn'
    BY <2>1, <2>2, QuietStep, <1>00 DEF Phases, Holding, gateVars
  <2> QED BY <2>3, <2>4 DEF AdmissionInv
<1>9. ASSUME NEW m \in Messages, ReleaseReplaced(m) \/ FinishTurn(m)
      PROVE  AdmissionInv'
  <2>1. /\ phase[m] \in {"replaced", "answering", "ignored"}
        /\ ReleaseMixed(SessionOf[m], m) /\ Become(m, "done")
        /\ taken' \in {taken, [taken EXCEPT ![SessionOf[m]] = NoToken]}
        /\ UNCHANGED <<stored, agentRun, queue, restarts>>
    BY <1>9 DEF ReleaseReplaced, FinishTurn
  <2>2. TypeOK'
    BY <1>0, <2>1 DEF ReleaseMixed, Become, Phases
  <2>3. QueueHolds' /\ LeaseTracksTurn' /\ SwitchExcludesMixed'
    BY <2>1, ReleaseStep, <1>00
  <2> QED BY <2>2, <2>3 DEF AdmissionInv
<1>10. ASSUME NEW m \in Messages, RunActivates(m)
       PROVE  AdmissionInv'
  BY <1>0, <1>10 DEF RunActivates, gateVars, AdmissionInv, SwitchExcludesMixed, QueueHolds,
     LeaseTracksTurn
<1>11. ASSUME NEW s \in Sessions, TakeTurn(s)
       PROVE  AdmissionInv'
  <2> DEFINE h == Head(queue[s])
             rest == Tail(queue[s])
  <2>1. /\ queue[s] # <<>> /\ queue[s] \in Seq(Messages)
        /\ taken' = [taken EXCEPT ![s] = h]
        /\ queue' = [queue EXCEPT ![s] = rest]
        /\ phase' = [phase EXCEPT ![h] = "taken"]
        /\ UNCHANGED <<gateVars, stored, agentRun, restarts>>
    BY <1>0, <1>11 DEF TakeTurn, Become
  <2>2. /\ h \in Messages /\ rest \in Seq(Messages) /\ Len(rest) = Len(queue[s]) - 1
        /\ h = queue[s][1] /\ 1 \in 1..Len(queue[s]) /\ Len(rest) \in Nat
        /\ \A i \in 1..Len(rest) : rest[i] = queue[s][i + 1] /\ i + 1 \in 1..Len(queue[s])
    BY <2>1, SequenceFacts, ElementFacts
  <2> HIDE DEF h, rest
  <2>3. \A u \in Sessions : \A i \in 1..Len(queue[u]) :
           /\ queue[u][i] \in Messages
           /\ phase[queue[u][i]] = "queued" /\ SessionOf[queue[u][i]] = u
           /\ \A j \in 1..Len(queue[u]) : queue[u][i] = queue[u][j] => i = j
    BY <1>0, ElementFacts DEF QueueHolds
  <2>4. TypeOK' /\ SwitchExcludesMixed'
    BY <1>0, <2>1, <2>2 DEF Phases, gateVars, SwitchExcludesMixed
  <2>5. LeaseTracksTurn'
    BY <1>0, <2>1, <2>2, <2>3 DEF LeaseTracksTurn, gateVars
  <2>6. QueueHolds'
    <3> SUFFICES ASSUME NEW u \in Sessions
                 PROVE  \A i \in 1..Len(queue'[u]) :
                          /\ phase'[queue'[u][i]] = "queued"
                          /\ SessionOf[queue'[u][i]] = u
                          /\ \A j \in 1..Len(queue'[u]) : queue'[u][i] = queue'[u][j] => i = j
      BY DEF QueueHolds
    <3>1. CASE u # s
      <4>1. queue'[u] = queue[u] /\ SessionOf[h] = s
        BY <1>0, <2>1, <2>2, <2>3, <3>1
      <4> QED BY <1>0, <2>1, <2>3, <3>1, <4>1
    <3>2. CASE u = s
      <4>1. queue'[u] = rest
        BY <1>0, <2>1, <3>2
      <4>2. \A i \in 1..Len(queue[s]) :
               /\ queue[s][i] \in Messages
               /\ phase[queue[s][i]] = "queued" /\ SessionOf[queue[s][i]] = s
               /\ \A j \in 1..Len(queue[s]) : queue[s][i] = queue[s][j] => i = j
        BY <2>3
      <4> DEFINE q == queue[s]
      <4>3. ASSUME NEW i \in 1..Len(rest)
            PROVE  /\ rest[i] \in Messages /\ rest[i] # h
                   /\ phase[rest[i]] = "queued" /\ SessionOf[rest[i]] = s
        <5>1. /\ rest[i] = q[i + 1] /\ i + 1 \in 1..Len(q) /\ h = q[1] /\ 1 \in 1..Len(q)
              /\ i + 1 # 1
          BY <2>2
        <5> QED BY <4>2, <5>1
      <4>4. ASSUME NEW i \in 1..Len(rest), NEW j \in 1..Len(rest), rest[i] = rest[j]
            PROVE  i = j
        <5>1. /\ rest[i] = q[i + 1] /\ i + 1 \in 1..Len(q)
              /\ rest[j] = q[j + 1] /\ j + 1 \in 1..Len(q)
          BY <2>2
        <5>2. i + 1 = j + 1
          BY <4>2, <4>4, <5>1
        <5> QED BY <2>2, <5>2
      <4>5. \A i \in 1..Len(rest) : phase'[rest[i]] = "queued" /\ SessionOf[rest[i]] = u
        BY <1>0, <2>1, <3>2, <4>3
      <4> QED BY <4>1, <4>4, <4>5
    <3> QED BY <3>1, <3>2
  <2> QED BY <2>4, <2>5, <2>6 DEF AdmissionInv
<1>12. CASE Restart
  <2>1. /\ restarts' \in 0..MaxRestarts
        /\ agentActive' = [s \in Sessions |-> FALSE]
        /\ mixedLeases' = [s \in Sessions |-> {}]
        /\ switchToken' = [s \in Sessions |-> NoToken]
        /\ agentRun' = [s \in Sessions |-> NoToken]
        /\ queue' = [s \in Sessions |-> <<>>]
        /\ taken' = [s \in Sessions |-> NoToken]
        /\ phase' = [m \in Messages |-> IF phase[m] = "new" THEN "new" ELSE "done"]
        /\ UNCHANGED <<stored, issued>>
    BY <1>0, <1>12 DEF Restart
  <2>2. TypeOK'
    BY <1>0, <2>1 DEF Phases
  <2>3. SwitchExcludesMixed' /\ QueueHolds' /\ LeaseTracksTurn'
    BY <2>1 DEF SwitchExcludesMixed, QueueHolds, LeaseTracksTurn
  <2> QED BY <2>2, <2>3 DEF AdmissionInv
<1> QED BY <1>1, <1>2, <1>3, <1>4, <1>5, <1>6, <1>7, <1>8, <1>9, <1>10, <1>11, <1>12
        DEF Next, Arrive, Proceed

SwitchInv == AdmissionInv /\ SwitchTracksControl

(* A step that leaves the tokens alone, and begins and ends no opening of  *)
(* Agent mode, leaves them in agreement.                                   *)
LEMMA SwitchKept ==
    ASSUME SwitchTracksControl, UNCHANGED switchToken,
           \A n \in Messages : phase'[n] = "opening" <=> phase[n] = "opening"
    PROVE  SwitchTracksControl'
BY DEF SwitchTracksControl

(* Every step keeps tokens and controls in agreement.                      *)
LEMMA SwitchStep ==
    ASSUME SwitchInv, [Next]_vars
    PROVE  SwitchTracksControl'
<1> USE AdmissionAssumption, GateAssumption
<1>0. /\ TypeOK /\ QueueHolds /\ SwitchTracksControl
      /\ phase \in [Messages -> Phases] /\ queue \in [Sessions -> Seq(Messages)]
      /\ switchToken \in [Sessions -> Tokens \cup {NoToken}]
  BY DEF SwitchInv, AdmissionInv, TypeOK, GateTypeOK
<1>1. CASE UNCHANGED vars
  BY <1>0, <1>1, SwitchKept DEF vars, gateVars, admissionVars
<1>2. ASSUME NEW m \in Messages, OpenAgent(m)
      PROVE  SwitchTracksControl'
  BY <1>0, <1>2 DEF OpenAgent, BeginTransition, Become, SwitchTracksControl
<1>3. ASSUME NEW m \in Messages, FinishOpen(m)
      PROVE  SwitchTracksControl'
  <2>1. switchToken[SessionOf[m]] = m
    BY <1>0, <1>3 DEF FinishOpen, SwitchTracksControl
  <2> QED BY <1>0, <1>3, <2>1 DEF FinishOpen, FinishTransition, Become, SwitchTracksControl
<1>4. ASSUME NEW m \in Messages,
             \/ OpenDenied(m) \/ MixedDenied(m) \/ AgentMessage(m)
             \/ \E i \in Controls : Control(m, i)
      PROVE  SwitchTracksControl'
  <2>1. phase[m] = "new" /\ UNCHANGED switchToken
    BY <1>4 DEF OpenDenied, Control, MixedDenied, AgentMessage, DenyTransition, DenyMixed,
       SyncAgentActive, gateVars
  <2>2. PICK p \in {"done", "controlling", "agent"} : phase' = [phase EXCEPT ![m] = p]
    BY <1>4 DEF OpenDenied, Control, MixedDenied, AgentMessage, Become
  <2> QED BY <1>0, <2>1, <2>2, SwitchKept
<1>5. ASSUME NEW m \in Messages, MixedMessage(m)
      PROVE  SwitchTracksControl'
  <2> DEFINE s == SessionOf[m]
  <2>1. /\ phase[m] = "new" /\ UNCHANGED switchToken
        /\ phase' = [n \in Messages |->
                       IF n = m THEN "queued"
                       ELSE IF Full(s) /\ n = Head(queue[s]) THEN "replaced"
                       ELSE phase[n]]
    BY <1>5 DEF MixedMessage, AcquireMixed
  <2>2. Full(s) => phase[Head(queue[s])] = "queued"
    <3>1. queue[s] \in Seq(Messages) /\ s \in Sessions
      BY <1>0
    <3>2. Full(s) => queue[s] # <<>>
      BY <3>1 DEF Full
    <3> QED BY <1>0, <3>1, <3>2, ElementFacts DEF QueueHolds
  <2> QED BY <1>0, <2>1, <2>2, SwitchKept
<1>6. ASSUME NEW m \in Messages,
             \/ FinishControl(m) \/ FinishAgentRun(m) \/ ReleaseReplaced(m)
             \/ RouteTurn(m) \/ FinishTurn(m)
      PROVE  SwitchTracksControl'
  <2>1. phase[m] # "opening" /\ UNCHANGED switchToken
    BY <1>6 DEF FinishControl, FinishAgentRun, ReleaseReplaced, RouteTurn, FinishTurn,
       SyncAgentActive, ReleaseMixed, gateVars
  <2>2. PICK p \in {"done", "ignored", "answering"} : phase' = [phase EXCEPT ![m] = p]
    BY <1>6 DEF FinishControl, FinishAgentRun, ReleaseReplaced, RouteTurn, FinishTurn, Become
  <2> QED BY <1>0, <2>1, <2>2, SwitchKept
<1>7. ASSUME NEW m \in Messages, RunActivates(m)
      PROVE  SwitchTracksControl'
  BY <1>0, <1>7, SwitchKept DEF RunActivates, gateVars
<1>8. ASSUME NEW s \in Sessions, TakeTurn(s)
      PROVE  SwitchTracksControl'
  <2> DEFINE h == Head(queue[s])
  <2>1. queue[s] # <<>> /\ phase' = [phase EXCEPT ![h] = "taken"] /\ UNCHANGED switchToken
    BY <1>8 DEF TakeTurn, Become, gateVars
  <2>2. h \in Messages /\ phase[h] = "queued"
    BY <1>0, <2>1, ElementFacts DEF QueueHolds
  <2> HIDE DEF h
  <2> QED BY <1>0, <2>1, <2>2, SwitchKept
<1>9. CASE Restart
  <2>1. \A m \in Messages : switchToken'[SessionOf[m]] = NoToken /\ NoToken # m
    BY <1>9 DEF Restart
  <2>2. \A m \in Messages : phase'[m] # "opening"
    BY <1>9 DEF Restart
  <2> QED BY <2>1, <2>2 DEF SwitchTracksControl
<1> QED BY <1>1, <1>2, <1>3, <1>4, <1>5, <1>6, <1>7, <1>8, <1>9
        DEF Next, Arrive, Proceed

(* Every message, control and restart in any order, with the controls that *)
(* go past the gate too: types, the limit of the queues and the exclusion  *)
(* of the gate.                                                            *)
THEOREM AdmissionTypes == Spec => [](TypeOK /\ SwitchExcludesMixed)
<1>1. AdmissionInv /\ [Next]_vars => AdmissionInv'
  BY AdmissionStep
<1>2. AdmissionInv => TypeOK /\ SwitchExcludesMixed
  BY DEF AdmissionInv
<1> QED BY <1>1, <1>2, AdmissionStart, PTL DEF Spec

(* The gate knows of a mixed turn exactly as long as it can still run,     *)
(* whatever the controls do to the mode: a lease that stayed would keep    *)
(* Agent mode closed, one that went early would let it open under a turn   *)
(* (turn_queue.py:210-227, mode_gate.py:39-43).                            *)
THEOREM LeasesTrackTurns == Spec => []LeaseTracksTurn
<1>1. AdmissionInv /\ [Next]_vars => AdmissionInv'
  BY AdmissionStep
<1>2. AdmissionInv => LeaseTracksTurn
  BY DEF AdmissionInv
<1> QED BY <1>1, <1>2, AdmissionStart, PTL DEF Spec

(* The gate keeps a session's switch for the control that began it exactly *)
(* until that control has finished, whatever other controls, releases and  *)
(* restarts come in between (plugin_entry.py:557-590, mode_gate.py:127-148).*)
THEOREM SwitchesTrackControls == Spec => []SwitchTracksControl
<1>1. Init => SwitchInv
  <2>1. Init => SwitchTracksControl
    BY AdmissionAssumption, GateAssumption DEF Init, GateInit, SwitchTracksControl
  <2> QED BY <2>1, AdmissionStart DEF SwitchInv
<1>2. SwitchInv /\ [Next]_vars => SwitchInv'
  BY AdmissionStep, SwitchStep DEF SwitchInv
<1>3. SwitchInv => SwitchTracksControl
  BY DEF SwitchInv
<1> QED BY <1>1, <1>2, <1>3, PTL DEF Spec

(* With the controls that pass the gate (plugin_entry.py:557-579) Agent    *)
(* mode is never stored while a mixed turn of the session holds a lease,   *)
(* for any number of sessions, messages and restarts.                      *)
THEOREM GatedControlsKeepModesApart ==
    ASSUME Controls \cap Ungated = {}
    PROVE  Spec => []ModesAreSeparate
<1>1. SeparationInv /\ [Next]_vars => SeparationInv'
  BY SeparationStep
<1>2. SeparationInv => ModesAreSeparate
  BY DEF SeparationInv
<1> QED BY <1>1, <1>2, SeparationStart, PTL DEF Spec
=============================================================================
