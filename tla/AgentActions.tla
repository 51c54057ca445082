----------------------------- MODULE AgentActions -----------------------------
(***************************************************************************)
(* The side effects of a superuser's Agent run and what protects them from  *)
(* being done twice: the record that is written before a tool or an         *)
(* approved action starts, the one pending approval of a run, /interrupt,   *)
(* and the run that is continued after an interrupt or a restart            *)
(* (superuser_agent/runtime.py, runtime_approval.py, approval_store.py,     *)
(* state.py, store.py, runtime_control.py).                                 *)
(*                                                                         *)
(* One session and its active run.  A step is the code between two          *)
(* suspension points; a write of the run's snapshot may fail at any time,   *)
(* and most of the code does not look.                                     *)
(***************************************************************************)
EXTENDS Naturals

CONSTANTS
    Ops,         \* side effects a tool can have, told apart by name and arguments
    None,
    MaxTurns,    \* bound on the turns (trace ids) of the run
    MaxAsks,     \* bound on the approvals asked for
    MaxCrashes   \* bound on the restarts of the process

ASSUME BoundsAssumption == MaxTurns \in Nat /\ MaxAsks \in Nat /\ MaxCrashes \in Nat
ASSUME NoneAssumption == None \notin (Ops \X (0 .. MaxTurns))
                         /\ None \notin [id : 1 .. MaxAsks, op : Ops, turn : 0 .. MaxTurns]

\* What a record of an execution is filed under.  The loop files a call under
\* the call itself; an approved action is filed under its payload, which holds
\* the trace id of the turn that asked.  <<op, 0>> is a call of the loop.
Keys == Ops \X (0 .. MaxTurns)

\* "settled" stands for no record and for one that says how it ended.
RecordStates == {"settled", "started", "uncertain"}

\* "over" is completed, failed or cancelled; pending 0 is no pending approval.
Runs == [status  : {"none", "running", "paused", "over"},
         turn    : 0 .. MaxTurns,
         pending : 0 .. MaxAsks,
         records : [Keys -> RecordStates]]

NoRun == [status |-> "none", turn |-> 0, pending |-> 0,
          records |-> [k \in Keys |-> "settled"]]

Approvals == [id : 1 .. MaxAsks, op : Ops, turn : 0 .. MaxTurns]

VARIABLES
    task,       \* what the task that holds the session does
    hand,       \* the key of the side effect it has in hand
    memory,     \* the run's state in that task
    disk,       \* the run's snapshot
    approval,   \* the run's pending approval
    stopping,   \* the task has been cancelled and has not noticed yet
    orphans,    \* actions that go on although their task has ended
    turns, asks, crashes,
    lost,       \* history: side effects that were cut off; nobody knows their outcome
    withdrawn   \* history: approvals used, rejected, replaced, expired or interrupted

control == <<task, hand, memory, stopping>>
counters == <<turns, asks, crashes>>
vars == <<control, disk, approval, orphans, counters, lost, withdrawn>>

Tasks == {"none", "starting", "model", "tool", "asked", "approved", "resuming"}
InLoop == {"model", "tool", "asked"}

-----------------------------------------------------------------------------
(* Records and runs                                                        *)

Unsettled(run, k) == run.records[k] \in {"started", "uncertain"}

\* A side effect may begin only if no record of it is open.
MayRetry(run, k) == run.records[k] # "started"   \* a bug: uncertain is taken for failed
MayStart(run, k) == ~Unsettled(run, k)

Marked(run, k, state) == [run EXCEPT !.records[k] = state]

\* A restored run: what was started and never settled is uncertain from now on.
Repaired(run) ==
    [run EXCEPT !.records =
        [k \in Keys |-> IF run.records[k] = "started" THEN "uncertain" ELSE run.records[k]]]

\* A run that waits for an approval which is gone does not wait for it any more.
Dismissed(run) == IF run.status = "paused" THEN [run EXCEPT !.pending = 0] ELSE run

\* A new turn of the conversation; it keeps the records that are not settled.
NewTurnForgets(run, t) == [NoRun EXCEPT !.status = "running", !.turn = t]   \* a bug
NewTurn(run, t) == [run EXCEPT !.status = "running", !.turn = t, !.pending = 0]

Continued(run) == [run EXCEPT !.status = "running"]

LeaveStopping ==   \* a bug: the cancellation reaches the next task
    task' = "none" /\ hand' = None /\ memory' = NoRun /\ stopping' = stopping

\* The task leaves the session; what it held in memory goes with it.
Leave ==
    /\ task' = "none"
    /\ hand' = None
    /\ memory' = NoRun
    /\ stopping' = FALSE

Init ==
    /\ task = "none" /\ hand = None /\ memory = NoRun /\ stopping = FALSE
    /\ disk = NoRun /\ approval = None /\ orphans = {}
    /\ turns = 0 /\ asks = 0 /\ crashes = 0
    /\ lost = {} /\ withdrawn = {}

-----------------------------------------------------------------------------
(* A message of the user: a turn                                           *)

\* The task takes the session and waits for the list of models.
UserTurn ==
    /\ task = "none"
    /\ task' = "starting"
    /\ UNCHANGED <<hand, memory, stopping, disk, approval, orphans, counters, lost, withdrawn>>

WaitsForApproval ==
    /\ disk.status = "paused"
    /\ approval # None
    /\ approval.id = disk.pending

\* The user is told to decide first.
TurnWaits ==
    /\ task = "starting" /\ ~stopping
    /\ WaitsForApproval
    /\ Leave
    /\ UNCHANGED <<disk, approval, orphans, counters, lost, withdrawn>>

\* Each of the writes on the way may fail, so the snapshot is that of the last
\* which did not.
Enter(next) ==
    /\ task' = "model"
    /\ memory' = next
    /\ disk' \in {disk, Dismissed(disk), Repaired(Dismissed(disk)), next}
    /\ UNCHANGED <<hand, stopping, approval, orphans, asks, crashes, lost, withdrawn>>

BeginTurn ==
    /\ task = "starting" /\ ~stopping
    /\ ~WaitsForApproval
    /\ disk.status \in {"none", "over"}
    /\ turns < MaxTurns
    /\ Enter(NewTurn(Repaired(Dismissed(disk)), turns + 1))
    /\ turns' = turns + 1

ContinueTurn ==
    /\ task = "starting" /\ ~stopping
    /\ ~WaitsForApproval
    /\ disk.status \in {"running", "paused"}
    /\ Enter(Continued(Repaired(Dismissed(disk))))
    /\ turns' = turns

-----------------------------------------------------------------------------
(* The loop.  A cancelled task may get this far before it notices.         *)

\* The record is written before the tool is started.  A call whose record is not
\* settled is answered "uncertain", and one whose record cannot be written is
\* settled as not executed: neither changes anything here.
CallTool(op) ==
    LET k == <<op, 0>> IN
    /\ task = "model"
    /\ MayStart(memory, k)
    /\ task' = "tool"
    /\ hand' = k
    /\ memory' = Marked(memory, k, "started")
    /\ disk' = memory'
    /\ UNCHANGED <<stopping, approval, orphans, counters, lost, withdrawn>>

\* The permission policy makes the tool ask instead of doing it.  The approval
\* is saved at once and takes the place of the run's earlier one.
ToolAsks ==
    /\ task = "tool"
    /\ asks < MaxAsks
    /\ asks' = asks + 1
    /\ approval' = [id |-> asks + 1, op |-> hand[1], turn |-> memory.turn]
    /\ withdrawn' = 1 .. asks
    /\ task' = "asked"
    /\ UNCHANGED <<hand, memory, stopping, disk, orphans, turns, crashes, lost>>

\* The loop sees the request, settles the call as not executed, and pauses.
AskReturns ==
    LET settled == [Marked(memory, hand, "settled") EXCEPT !.pending = asks] IN
    /\ task = "asked"
    /\ disk' \in {disk, settled, [settled EXCEPT !.status = "paused"]}
    /\ Leave
    /\ UNCHANGED <<approval, orphans, counters, lost, withdrawn>>

\* The tool has done it, or failed, and the loop goes on.
ToolReturns ==
    /\ task = "tool"
    /\ task' = "model"
    /\ hand' = None
    /\ memory' = Marked(memory, hand, "settled")
    /\ disk' \in {disk, memory'}
    /\ UNCHANGED <<stopping, approval, orphans, counters, lost, withdrawn>>

\* Between calls the loop writes snapshots that are throttled and may be left out.
Checkpoint ==
    /\ task = "model"
    /\ disk' = memory
    /\ UNCHANGED <<control, approval, orphans, counters, lost, withdrawn>>

\* A final answer, a failure, or a pause for a reason other than an approval.
RunEnds ==
    /\ task = "model"
    /\ \E status \in {"over", "paused"} : disk' \in {disk, [memory EXCEPT !.status = status]}
    /\ Leave
    /\ UNCHANGED <<approval, orphans, counters, lost, withdrawn>>

-----------------------------------------------------------------------------
(* The user's decision                                                     *)

\* An approval is taken from the store, and the store saved, before it is acted on.
Consume ==
    /\ task = "none"
    /\ approval # None
    /\ approval' = None
    /\ withdrawn' = withdrawn \cup {approval.id}

\* Allowed: the action is recorded as started, and begins.
Allow ==
    LET k == <<approval.op, approval.turn>> IN
    /\ Consume
    /\ disk.status # "none"
    /\ MayStart(disk, k)
    /\ task' = "approved"
    /\ hand' = k
    /\ memory' = Marked(disk, k, "started")
    /\ disk' = memory'
    /\ UNCHANGED <<stopping, orphans, counters, lost>>

\* Allowed, but not begun: it is no longer valid, there is no snapshot, its record
\* is unsettled or cannot be written.
AllowNotStarted ==
    /\ Consume
    /\ UNCHANGED <<control, disk, orphans, counters, lost>>

\* The run is resumed with what the action has returned if that could be written.
ApprovedReturns ==
    LET done == [Marked(memory, hand, "settled") EXCEPT !.pending = 0] IN
    /\ task = "approved" /\ ~stopping
    /\ \/ disk' = done /\ task' \in {"resuming", "none"}
       \/ disk' = disk /\ task' = "none"
    /\ hand' = None
    /\ memory' = NoRun
    /\ UNCHANGED <<stopping, approval, orphans, counters, lost, withdrawn>>

Reject ==
    /\ Consume
    /\ task' = "resuming"
    /\ UNCHANGED <<hand, memory, stopping, disk, orphans, counters, lost>>

Resume ==
    LET back == [Repaired(disk) EXCEPT !.status = "running", !.pending = 0] IN
    /\ task = "resuming" /\ ~stopping
    /\ disk.status \in {"paused", "running"}
    /\ task' = "model"
    /\ memory' = back
    /\ disk' \in {disk, Repaired(disk), back}
    /\ UNCHANGED <<hand, stopping, approval, orphans, counters, lost, withdrawn>>

\* There is no such run, it is over, or the resumed state cannot be written.
ResumeFails ==
    /\ task = "resuming" /\ ~stopping
    /\ \/ disk' = disk
       \/ disk.status \in {"paused", "running"} /\ disk' = Repaired(disk)
    /\ Leave
    /\ UNCHANGED <<approval, orphans, counters, lost, withdrawn>>

\* A decision comes when there is nothing to decide on.
DecideNothing ==
    /\ task = "none"
    /\ approval = None
    /\ disk.pending # 0
    /\ disk' = [disk EXCEPT !.pending = 0]
    /\ UNCHANGED <<control, approval, orphans, counters, lost, withdrawn>>

\* 300 seconds have passed.
Expire ==
    /\ approval # None
    /\ approval' = None
    /\ withdrawn' = withdrawn \cup {approval.id}
    /\ UNCHANGED <<control, disk, orphans, counters, lost>>

-----------------------------------------------------------------------------
(* Controls                                                                *)

\* Any control finds out that the approval a run waits for is gone.
ControlLooks ==
    /\ task = "none"
    /\ approval = None
    /\ disk.pending # 0
    /\ disk.status # "running"
    /\ disk' = [disk EXCEPT !.status = "paused", !.pending = 0]
    /\ UNCHANGED <<control, approval, orphans, counters, lost, withdrawn>>

\* The approvals of the run that are left after its interrupt.
DiscardedNot(pending) == pending   \* a bug: the request outlives the interrupt
Discarded(pending) == None

Stop ==
    /\ task # "none" \/ approval # None \/ disk.status \in {"running", "paused"}
    /\ disk' = IF disk.status = "none" THEN disk
               ELSE [disk EXCEPT !.status = "over", !.pending = 0]
    /\ approval' = Discarded(approval)
    /\ withdrawn' = 1 .. asks
    /\ stopping' = (task # "none")
    /\ UNCHANGED <<task, hand, memory, orphans, counters, lost>>

\* The cancelled task notices while it prepares a turn or a resumption.
TurnDropped ==
    /\ stopping
    /\ task \in {"starting", "resuming"}
    /\ Leave
    /\ UNCHANGED <<disk, approval, orphans, counters, lost, withdrawn>>

\* It notices in the loop, which cancels the tool and waits for its end.
LoopInterrupted ==
    LET cut == IF task = "model" THEN memory ELSE Marked(memory, hand, "uncertain") IN
    /\ stopping
    /\ task \in InLoop
    /\ disk' \in {disk, [cut EXCEPT !.status = "over"]}
    /\ lost' = IF task = "tool" THEN lost \cup {hand} ELSE lost
    /\ Leave
    /\ UNCHANGED <<approval, orphans, counters, withdrawn>>

\* It notices while it waits for an approved action, which runs in a task of its
\* own that nobody cancels.
ApprovedInterrupted ==
    /\ stopping
    /\ task = "approved"
    /\ orphans' = orphans \cup {hand}
    /\ lost' = lost \cup {hand}
    /\ Leave
    /\ UNCHANGED <<disk, approval, counters, withdrawn>>

OrphanEnds(k) ==
    /\ k \in orphans
    /\ orphans' = orphans \ {k}
    /\ UNCHANGED <<control, disk, approval, counters, lost, withdrawn>>

\* /clear begins a new run and deletes the snapshot of the old one.
MayClear ==
    /\ task = "none"
    /\ disk.status # "running"
    /\ approval = None
    /\ \A k \in Keys : ~Unsettled(disk, k)

Clear ==
    /\ MayClear
    /\ disk.status # "none"
    /\ disk' = NoRun
    /\ UNCHANGED <<control, approval, orphans, counters, lost, withdrawn>>

\* The process ends and starts again: the snapshot and the approval are on disk.
Crash ==
    /\ crashes < MaxCrashes
    /\ crashes' = crashes + 1
    /\ orphans' = {}
    /\ lost' = IF task \in {"tool", "approved"} THEN lost \cup {hand} ELSE lost
    /\ Leave
    /\ UNCHANGED <<disk, approval, turns, asks, withdrawn>>

Next ==
    \/ UserTurn \/ TurnWaits \/ BeginTurn \/ ContinueTurn
    \/ \E op \in Ops : CallTool(op)
    \/ ToolAsks \/ AskReturns \/ ToolReturns \/ Checkpoint \/ RunEnds
    \/ Allow \/ AllowNotStarted \/ ApprovedReturns \/ Reject \/ Resume \/ ResumeFails
    \/ DecideNothing \/ Expire
    \/ ControlLooks \/ Stop \/ TurnDropped \/ LoopInterrupted \/ ApprovedInterrupted
    \/ \E k \in orphans : OrphanEnds(k)
    \/ Clear \/ Crash

Spec == Init /\ [][Next]_vars

-----------------------------------------------------------------------------
(* Properties                                                              *)

\* Types, and that a task which has left the session leaves nothing behind: the
\* session can be entered again (superuser_session_execution, runtime.py:227).
TypeOK ==
    /\ task \in Tasks
    /\ hand \in Keys \cup {None}
    /\ memory \in Runs /\ disk \in Runs
    /\ approval \in Approvals \cup {None}
    /\ stopping \in BOOLEAN
    /\ orphans \subseteq Keys /\ lost \subseteq Keys
    /\ turns \in 0 .. MaxTurns /\ asks \in 0 .. MaxAsks /\ crashes \in 0 .. MaxCrashes
    /\ withdrawn \subseteq 1 .. MaxAsks
    /\ hand # None <=> task \in {"tool", "asked", "approved"}
    /\ task = "none" => memory = NoRun /\ ~stopping

\* The snapshot on disk knows every side effect whose outcome nobody knows, through
\* failed writes, interrupts, restarts, repair, new turns and /clear
\* (runtime.py:484, runtime_approval.py:348, state.py:258, runtime_control.py:171).
LostIsRecorded == \A k \in lost : Unsettled(disk, k)

\* A side effect that was cut off is never begun again under its key: "it is not
\* replayed" (runtime_approval.py:478, state.py:864).
NoReplay ==
    [][ task' # task /\ task' \in {"tool", "approved"} => hand' \notin lost ]_vars

\* An approval is acted on at most once, and never after it was rejected, replaced,
\* expired or interrupted, whatever restarts lie between (approval_store.py:225,
\* runtime_control.py:323).
WithdrawnNeverRuns ==
    [][ task' # task /\ task' = "approved" => approval # None /\ approval.id \notin withdrawn ]_vars

\* What the reply to /interrupt says, "the current task has been interrupted"
\* (runtime_control.py:329): once the session is free, nothing of it goes on.
InterruptStops == task = "none" => orphans = {}
=============================================================================
