--------------------------- MODULE TurnAdmission ---------------------------
(***************************************************************************)
(* What happens to the private messages of a superuser: the fallback       *)
(* matcher of plugin_entry.py, the controls of runtime_control.py it tries *)
(* first, the mode gate, the turn queue and the scenario that handler.py   *)
(* resolves again when a queued turn is processed.  The stored Agent mode  *)
(* survives a restart; the gate and the queue do not.                      *)
(*                                                                         *)
(* The queue is the one SerialTurns describes, with leases; in a private   *)
(* chat every turn is must_keep.  A message's gate token is the message.   *)
(***************************************************************************)
EXTENDS ModeGate, Naturals, Sequences

CONSTANTS
    Messages,       \* private messages of superusers
    SessionOf,      \* [Messages -> Sessions]
    Controls,       \* the control intents that users send in a run
    MaxPending,     \* MAX_PENDING_TURNS_PER_GROUP
    MaxRestarts     \* bound of a run

Intents == {"open", "exit", "create", "switch", "clear", "archive", "other"}

ASSUME AdmissionAssumption ==
    /\ Messages = Tokens
    /\ SessionOf \in [Messages -> Sessions]
    /\ Controls \subseteq Intents
    /\ MaxPending \in Nat \ {0}
    /\ MaxRestarts \in Nat

VARIABLES
    stored,      \* [Sessions -> BOOLEAN], agent_mode_active in the store
    agentRun,    \* [Sessions -> the message whose Agent run executes]
    queue,       \* [Sessions -> Seq(Messages)], pending mixed turns
    taken,       \* [Sessions -> the turn the worker awaits]
    phase,       \* [Messages -> what has become of the message]
    restarts

admissionVars == <<stored, agentRun, queue, taken, phase, restarts>>
vars == <<gateVars, admissionVars>>

Phases == {"new", "opening", "controlling", "agent", "queued", "taken",
           "answering", "ignored", "replaced", "done"}

TypeOK ==
    /\ GateTypeOK
    /\ stored \in [Sessions -> BOOLEAN]
    /\ agentRun \in [Sessions -> Messages \cup {NoToken}]
    /\ queue \in [Sessions -> Seq(Messages)]
    /\ taken \in [Sessions -> Messages \cup {NoToken}]
    /\ phase \in [Messages -> Phases]
    /\ restarts \in 0..MaxRestarts
    /\ \A s \in Sessions : Len(queue[s]) <= MaxPending

Init ==
    /\ GateInit
    /\ stored \in [Sessions -> BOOLEAN]
    /\ agentRun = [s \in Sessions |-> NoToken]
    /\ queue = [s \in Sessions |-> <<>>]
    /\ taken = [s \in Sessions |-> NoToken]
    /\ phase = [m \in Messages |-> "new"]
    /\ restarts = 0

Become(m, p) == phase' = [phase EXCEPT ![m] = p]

-----------------------------------------------------------------------------
(* Controls.  From the entry of the matcher to the reply that the control  *)
(* sends nothing suspends: the gate is asked and the store is changed in   *)
(* one step, and the gate hears of the outcome after the reply.            *)

(* _ACTIVE_BLOCKED_INTENTS; a pending approval also declines a control.    *)
Declines(s) == agentRun[s] # NoToken

Blockable == {"open", "exit", "create", "switch", "clear", "archive"}

(* What the store holds after an intent: create_conversation, switch and   *)
(* clear_agent_session_context turn Agent mode on as activate does;        *)
(* deactivating and archiving or deleting the active conversation turn it  *)
(* off; the other intents leave it.                                        *)
Outcomes(i, s) ==
    CASE i \in {"open", "create", "clear"} -> {TRUE}
      [] i = "switch" -> {TRUE, stored[s]}     \* or no such conversation
      [] i = "exit" -> {FALSE}
      [] i = "archive" -> {FALSE, stored[s]}   \* or not the active one
      [] i = "other" -> {stored[s]}

ApplyIntent(i, s) ==
    \/ /\ i \in Blockable
       /\ UNCHANGED stored
    \/ /\ ~(i \in Blockable /\ Declines(s))
       /\ \E b \in Outcomes(i, s) : stored' = [stored EXCEPT ![s] = b]

OpenAgent(m) ==
    LET s == SessionOf[m] IN
    /\ phase[m] = "new"
    /\ "open" \in Controls
    /\ BeginTransition(s, m, stored[s])
    /\ ApplyIntent("open", s)
    /\ Become(m, "opening")
    /\ UNCHANGED <<agentRun, queue, taken, restarts>>

(* "Please wait for the queued messages" or "the mode is being switched".  *)
OpenDenied(m) ==
    LET s == SessionOf[m] IN
    /\ phase[m] = "new"
    /\ "open" \in Controls
    /\ DenyTransition(s, stored[s])
    /\ Become(m, "done")
    /\ UNCHANGED <<stored, agentRun, queue, taken, restarts>>

FinishOpen(m) ==
    /\ phase[m] = "opening"
    /\ FinishTransition(SessionOf[m], m, stored[SessionOf[m]])
    /\ Become(m, "done")
    /\ UNCHANGED <<stored, agentRun, queue, taken, restarts>>

Control(m, i) ==
    LET s == SessionOf[m] IN
    /\ phase[m] = "new"
    /\ i \in Controls \ {"open"}
    /\ SyncAgentActive(s, stored[s])
    /\ ApplyIntent(i, s)
    /\ Become(m, "controlling")
    /\ UNCHANGED <<agentRun, queue, taken, restarts>>

FinishControl(m) ==
    /\ phase[m] = "controlling"
    /\ SyncAgentActive(SessionOf[m], stored[SessionOf[m]])
    /\ Become(m, "done")
    /\ UNCHANGED <<stored, agentRun, queue, taken, restarts>>

-----------------------------------------------------------------------------
(* Ordinary messages.  The scenario is resolved, the lease acquired and    *)
(* the turn enqueued in one step.                                          *)

(* Agent mode is on: the message goes to the Agent, unless it is busy.     *)
AgentMessage(m) ==
    LET s == SessionOf[m] IN
    /\ phase[m] = "new"
    /\ stored[s]
    /\ IF agentRun[s] = NoToken
       THEN /\ agentRun' = [agentRun EXCEPT ![s] = m]
            /\ Become(m, "agent")
       ELSE /\ Become(m, "done")
            /\ UNCHANGED agentRun
    /\ UNCHANGED <<gateVars, stored, queue, taken, restarts>>

(* run_superuser_agent_runtime stores the mode again once it has a run.    *)
RunActivates(m) ==
    /\ phase[m] = "agent"
    /\ stored' = [stored EXCEPT ![SessionOf[m]] = TRUE]
    /\ UNCHANGED <<gateVars, agentRun, queue, taken, phase, restarts>>

FinishAgentRun(m) ==
    /\ phase[m] = "agent"
    /\ agentRun' = [agentRun EXCEPT ![SessionOf[m]] = NoToken]
    /\ Become(m, "done")
    /\ UNCHANGED <<gateVars, stored, queue, taken, restarts>>

MixedDenied(m) ==
    LET s == SessionOf[m] IN
    /\ phase[m] = "new"
    /\ ~stored[s]
    /\ DenyMixed(s, stored[s])
    /\ Become(m, "done")
    /\ UNCHANGED <<stored, agentRun, queue, taken, restarts>>

Full(s) == Len(queue[s]) = MaxPending

(* A full queue gives up its oldest turn.                                  *)
MixedMessage(m) ==
    LET s == SessionOf[m] IN
    /\ phase[m] = "new"
    /\ ~stored[s]
    /\ AcquireMixed(s, m, stored[s])
    /\ queue' = [queue EXCEPT ![s] = Append(IF Full(s) THEN Tail(@) ELSE @, m)]
    /\ phase' = [n \in Messages |->
                   IF n = m THEN "queued"
                   ELSE IF Full(s) /\ n = Head(queue[s]) THEN "replaced"
                   ELSE phase[n]]
    /\ UNCHANGED <<stored, agentRun, taken, restarts>>

ReleaseReplaced(m) ==
    /\ phase[m] = "replaced"
    /\ ReleaseMixed(SessionOf[m], m)
    /\ Become(m, "done")
    /\ UNCHANGED <<stored, agentRun, queue, taken, restarts>>

TakeTurn(s) ==
    /\ taken[s] = NoToken
    /\ queue[s] # <<>>
    /\ taken' = [taken EXCEPT ![s] = Head(queue[s])]
    /\ queue' = [queue EXCEPT ![s] = Tail(@)]
    /\ Become(Head(queue[s]), "taken")
    /\ UNCHANGED <<gateVars, stored, agentRun, restarts>>

(* handle_fallback resolves the scenario again: a turn that meets Agent    *)
(* mode returns without a word.                                            *)
RouteTurn(m) ==
    /\ phase[m] = "taken"
    /\ Become(m, IF stored[SessionOf[m]] THEN "ignored" ELSE "answering")
    /\ UNCHANGED <<gateVars, stored, agentRun, queue, taken, restarts>>

FinishTurn(m) ==
    /\ phase[m] \in {"answering", "ignored"}
    /\ ReleaseMixed(SessionOf[m], m)
    /\ taken' = [taken EXCEPT ![SessionOf[m]] = NoToken]
    /\ Become(m, "done")
    /\ UNCHANGED <<stored, agentRun, queue, restarts>>

-----------------------------------------------------------------------------
(* The process ends and starts again: the store is all that is left.       *)
Restart ==
    /\ restarts < MaxRestarts
    /\ restarts' = restarts + 1
    /\ agentActive' = [s \in Sessions |-> FALSE]
    /\ mixedLeases' = [s \in Sessions |-> {}]
    /\ switchToken' = [s \in Sessions |-> NoToken]
    /\ agentRun' = [s \in Sessions |-> NoToken]
    /\ queue' = [s \in Sessions |-> <<>>]
    /\ taken' = [s \in Sessions |-> NoToken]
    /\ phase' = [m \in Messages |->
                   IF phase[m] = "new" THEN "new" ELSE "done"]
    /\ UNCHANGED <<stored, issued>>

Arrive(m) ==
    \/ OpenAgent(m)
    \/ OpenDenied(m)
    \/ \E i \in Controls : Control(m, i)
    \/ AgentMessage(m)
    \/ MixedDenied(m)
    \/ MixedMessage(m)

Proceed(m) ==
    \/ FinishOpen(m)
    \/ FinishControl(m)
    \/ FinishAgentRun(m)
    \/ ReleaseReplaced(m)
    \/ RouteTurn(m)
    \/ FinishTurn(m)

Next ==
    \/ \E m \in Messages : Arrive(m) \/ Proceed(m) \/ RunActivates(m)
    \/ \E s \in Sessions : TakeTurn(s)
    \/ Restart

Spec == Init /\ [][Next]_vars

(* The event loop runs what is ready, a reply that is being sent is sent   *)
(* or fails, a turn and an Agent run end (their budgets are limits of      *)
(* turn_runtime and the Agent).  Nobody has to write, or to restart.       *)
FairSpec ==
    /\ Spec
    /\ \A m \in Messages : WF_vars(Proceed(m))
    /\ \A s \in Sessions : WF_vars(TakeTurn(s))

-----------------------------------------------------------------------------
(* Agent mode is never on while a mixed turn of the session is queued or   *)
(* running ("Agent cannot be opened while messages are processed or        *)
(* queued", plugin_entry.py:568-571), so that no queued turn is dropped    *)
(* without a word when its scenario is resolved again (handler.py:72-74).  *)
ModesAreSeparate ==
    \A s \in Sessions : stored[s] => mixedLeases[s] = {}

(* The gate knows of a mixed turn exactly as long as the turn can still    *)
(* run: from the queue until its processing or its replacement is over.    *)
LeaseTracksTurn ==
    \A m \in Messages :
        m \in mixedLeases[SessionOf[m]] <=>
            phase[m] \in {"queued", "taken", "answering", "ignored", "replaced"}

(* The gate keeps a session's switch for the control that began it exactly *)
(* until that control has finished: the controls, releases and denials of  *)
(* the session's other messages, some of which prune the session's entry   *)
(* (mode_gate.py:142-148), neither end it early nor leave it behind.       *)
SwitchTracksControl ==
    \A m \in Messages :
        switchToken[SessionOf[m]] = m <=> phase[m] = "opening"

(* A message that was queued is answered, displaced by later ones or cut   *)
(* off by a restart, but does not wait for ever; nor does a switch of      *)
(* modes keep a session's messages out for ever.                           *)
AdmissionMakesProgress ==
    /\ \A m \in Messages : phase[m] # "new" ~> phase[m] = "done"
    /\ \A s \in Sessions : switchToken[s] # NoToken ~> switchToken[s] = NoToken
=============================================================================
