# ChatInter, specified

TLA+ modules, TLC runs and TLAPS proofs for the ChatInter plugin (`src/chatinter`)
and the bridge it talks to (`src/ChatInterBridge`).  Every definition is
translated from the Python source; `PROJECT.json` names, for each definition, the
lines it stands for.

ChatInter is a chat bot plugin.  Messages of a conversation are queued and answered
one turn at a time by a language model with tools; a superuser can switch a private
chat to *Agent mode*, where the model works on the host under approvals; a second
process (the GScore bridge) executes commands of another bot framework on request.
It is one asyncio process: code runs undisturbed between two `await`s that really
suspend, and everything that can go wrong between turns, tasks, timers, restarts and
the network happens at those points.  The repository has no tests.

## How to run it

    tlc -workers 2 -config TurnQueue.cfg MCTurnQueue           # any run of the table below
    tlapm TurnQueue_proofs.tla                                 # any *_proofs module

## 1. Inventory

The parts that keep state, what they do, and what makes them correct.  Parts whose
code is text, ranking, parsing or statistics are listed in `PROJECT.json` with the
reason they are left out.

| part (source) | state | operations | correct when |
|---|---|---|---|
| turn queue (`turn_queue.py`, `event_runtime.py`) | per conversation: pending turns, wake event, worker task, active turn; dedupe and handled caches | `submit`, `_drain_loop`, `_retire_idle_worker`, `_process_turn`, `_ensure_worker_locked` | one worker and one turn at a time; nothing lost, nothing twice; a full queue gives up the right turn and says so; leases returned |
| group context (`group_turn_context.py`) | per group: unread and recent records | record, remove, consume, expire, snapshot | a turn sees what was said before it and only that; rolled-back messages leave nothing |
| mode gate (`mode_gate.py`) | per session: Agent active, mixed leases, switch token | acquire, release, begin/finish transition, sync | Agent mode and mixed turns exclude each other |
| admission (`plugin_entry.py`, `scenario_router.py`, `handler.py`) | a coroutine per message | decides between control, Agent, mixed turn, refusal | composes gate, store and queue without gaps |
| Agent session store (`superuser_agent/store.py`) | on disk: mode flag, conversations, run snapshots | open, exit, create, switch, clear, archive, save | survives restarts; never contradicts what is running |
| Agent runtime (`superuser_agent/runtime*.py`) | active run per session, its state machine | run, pause for approval, resume, stop | one run per session; every run ends in a known state |
| approvals (`approval_store.py`, `runtime_approval.py`) | pending approval per conversation, execution records on disk | set, decide, expire, execute | an approved action runs at most once, across crashes |
| GScore client (`gscore_adapter.py`) | one tool call: POST, then polling | execute tool | what it tells the model is true, and it returns |
| bridge server (`ChatInterBridge/service.py`, `execution.py`) | executions by request id, their receipts | claim, prepare, queue, run, send, expire, evict | a command is queued once; receipts count what was sent |
| active tasks (`active_tasks.py`) | tasks on disk, rows of the scheduler, one lock | create, pause, resume, delete, update, rotate; reconciliation at startup | an enabled task has a row that fires, whatever fails between the two |
| proactive dispatcher (`proactive_tasks.py`) | ids in flight, pending runs, the session it shares with turns | dispatch by schedule, hand or webhook; notice, timeout, shutdown | one flight per task; an event accepted once; a one-off task answered for; what was cut off stays off |
| history and summaries (`history_policy.py`, `foreground_activity.py`, `models/chat_history.py`) | rows, a summary file with a cursor, jobs, epochs, schedule coroutines, requests | read, stage, schedule, summarise, prune, reset | no row falls between the prompt, the summary and the jobs, none back after a reset, no job forgotten |
| provider failover (`provider_failover.py`) | cooldowns per model | retry, compress, fall back | no endless ladder; cooldowns end |

How they interact: a platform message enters `plugin_entry`, which asks the session
store and the mode gate (a lease for a mixed turn, a transition for opening Agent
mode), and submits to the turn queue; the queue records group messages in the group
context, starts a worker, and the worker processes the turn, which may call tools,
among them the GScore client, whose peer is the bridge.  The lease travels with the
turn.  The store is on disk; gate, queue, context, caches and bridge store are in
memory.  All calls between the parts are plain calls on the event loop except the
bridge, which is HTTP.

Hard behaviours, each listed at its line in `PROJECT.json` under "hazards": timers
that race with submits (worker retirement), `finally` clauses that run long after the
state they were decided on, redelivered messages and forgetful caches, mode switches
across queued turns and restarts, lost and late HTTP answers with polling, a store
that expires and evicts under running executions.

## 2. Plan

The order in which the parts were taken, the most important behaviour first; all of it is
done.

1. **TurnQueue** with **GroupTurnContext**, the core, and its abstract specification
   **SerialTurns**.
2. **ModeGate**, and **TurnAdmission**, which composes the gate, the stored mode and
   the queue.
3. **BridgeExecution**, client and server across a lossy network.
4. **AgentActions**: the side effects of an Agent run, their records, its approval,
   interrupts and restarts.
5. **ActiveTasks**, and **ProactiveDispatch**, which extends it with what runs a task.
6. **HistorySummary** with foreground activity.
7. The theorems of section 6.

What remains is listed in section 8 with the reason it was left out.

## 3. Modules

| module | models | kind |
|---|---|---|
| `GroupTurnContext` | operations on one group's log | operators |
| `TurnQueue` | queue, workers, processing, leases, contexts | system |
| `SerialTurns` | what the queue promises | abstract specification |
| `ModeGate` | the class `ModeGate` alone | component |
| `GateCalls` | the gate and the transitions it has handed out, which may be finished late or again (EXTENDS ModeGate) | component |
| `TurnAdmission` | a superuser's private messages over gate, store and queue (EXTENDS ModeGate) | composition |
| `BridgeExecution` | GScore client and bridge server | system |
| `AgentActions` | side effects of an Agent run, their records, its approval, interrupt, restart | system |
| `ActiveTasks` | task store, scheduler rows, operations under the lock, startup | component |
| `ProactiveDispatch` | flights of the tasks, sessions, webhooks, shutdown (EXTENDS ActiveTasks) | composition |
| `HistorySummary` | rows, turns, summary jobs and requests, reset | system |
| `MC*` | values of the constants and symmetry sets | for TLC |
| `*_proofs` | inductive invariants, lemmas, theorems | for TLAPS |

Operators after a definition with a telling suffix (`EnsureWorkerAlways`,
`VictimOldest`, `ReleaseNothing`, ...) are plausible bugs of the definition before
which they stand; nothing uses them but the mutation runs listed in `PROJECT.json`.

**A step is the code between two suspension points.**  A coroutine keeps the loop
until it awaits something that is not ready.  The locks of the queue, the gate and the
bridge store are never held across such a point, so they never block anybody and have
no variable.  `submit` up to its `finally` clause is therefore one action.  Each
duty of the clause (release the dropped turn's lease, tell its sender, ...) awaits
and is an action of its own, as is whatever follows a sent reply, a wait on an event
with a timeout, a `create_task` and the end of a processor.

### TurnQueue

A *delivery* is one arrival of a platform message at `submit`; deliveries with one
`KeyOf` are the same message delivered again.  Each accepted delivery is one turn.

| code | model |
|---|---|
| `_ConversationState.pending/wake_event/worker_task/active_turn` | `pending`, `wake`, `workerTask`, `active` |
| worker tasks in `_drain_loop` | `workerPc`: ready, idle (in `wait_for`), timedOut, processing, gone |
| process task of `_process_turn` | `processPc`: running, releasing (its `finally`), done |
| `submit` and its early returns | `Ignore`, `SkipDuplicate`, `Refuse`, `Accept`, `SpawnFails` |
| its `finally` clause | `duties`, discharged by `ReleaseDropped`, `TellDropped`, `TellRejected`, `ReleaseOwn` |
| `_drain_loop` | `TakeTurn`, `GoIdle`, `TimeOut`, `Retire` |
| `_process_turn` | `FinishProcessor`, `ReleaseProcessed` |
| `_dedupe_cache`, `_HANDLED_MESSAGE_IDS` | `dedupe`, `handled`, sequences cut to their sizes; `DedupeAges` is their time to live |
| the group's log | `context`, with `Recorded`, `Removed`, `Consumed`, `Expired` of GroupTurnContext |

A timeout and the event being set may race: `wait_for` may report the timeout although
a submit has set the event before the worker runs again.  `TimeOut` and `Retire` are
two steps for that reason.

`SerialTurns` promises: turns of a conversation run one at a time; a new turn joins at
the end; when there is no room it is declined, or takes the room of a waiting turn
that may be given up; a turn that waits starts, a turn that runs finishes.

### ModeGate and TurnAdmission

`ModeGate` has one action per outcome of each method (`AcquireMixed`/`DenyMixed`,
`BeginTransition`/`DenyTransition`, `SyncAgentActive`, `ReleaseMixed`,
`FinishTransition`), called in any order, late and twice, with any answer of the
store.  `GateCalls` adds who may call `FinishTransition`: whoever was given a transition
(`AgentModeTransition`), at any later time and any number of times, and remembers which
transitions were begun and which finishes have called the gate.
`TurnAdmission` calls the same operators from the code of
`plugin_entry.py`: a message is a control (opening through the gate, or one of the
others past it), an Agent message, or a mixed turn that is denied or queued; a queued
turn is taken, its scenario resolved again (`RouteTurn`, `handler.py:72`), and finished.
`Restart` keeps only the stored mode.  The queue is abstracted here to what SerialTurns
keeps of it; the run `turn_queue` justifies that.

### BridgeExecution

| code | model |
|---|---|
| the tool call of `gscore_adapter.py` | `pc`, `seen`, `result`; `Post`, `PostRefused`, `PostFails`, `Accepted`, `NotAccepted`, `AskStatus`, `StatusLost`, `StatusPending`, `StatusDecides`, `Deadline` |
| POST and its answer on the wire | `wire`; `Lose` at any moment |
| `ExecutionStore` | `records`, `order`; `Repeat` and `Claim` are `claim`, pruning and evicting first |
| the handler of a submission | `handling`; `Reject`, `Fault`, `Queue`, `Cancel` (the client's connection ends) |
| the queued execution | `Run`, `Succeed`, `Fail` |
| its messages | `sends`; `Send`, `Confirm`, `Land`, `Miss` (a message with, and without, confirmed ids; an error) |
| 600 s time to live | `Age(r)` for the ids in `Expiring` |
| process restart | `Restart`: store, queue and connections are gone |

A refused post stands for a bad argument, an unconfigured bridge, a refused connection
and a 4xx answer; an uncertain one for timeouts, broken connections, 5xx and unreadable
answers.  The idempotency the store offers ends with the record: properties speak of
requests whose record has not been dropped (`forgotten` remembers the others).

### AgentActions

One session and its active run.  The session is held by one task at a time
(`superuser_session_execution`): a turn or a decision on an approval.

| code | model |
|---|---|
| the task in `_ACTIVE_SESSION_EXECUTIONS` | `task`: starting and resuming (preparing a turn, a resumption), model (in the loop), tool, asked, approved; `stopping` once `/interrupt` has cancelled it |
| `AgentRunState` in that task | `memory` |
| the run's snapshot | `disk` |
| `tool_executions` | `records`, by fingerprint: `<<op, 0>>` is a call of the loop, `<<op, t>>` the action approved in turn t, whose payload holds the trace id |
| `_PENDING_APPROVALS` and `approvals.json` | `approval` |
| `_run_superuser_agent_runtime_unlocked` | `UserTurn`, then `TurnWaits`, `BeginTurn` or `ContinueTurn` |
| the loop of `AgentRuntime.run` | `CallTool`, `ToolAsks`, `AskReturns`, `ToolReturns`, `Checkpoint`, `RunEnds`, `LoopInterrupted` |
| `runtime_approval.py` | `Allow`, `AllowNotStarted`, `ApprovedReturns`, `Reject`, `Resume`, `ResumeFails`, `DecideNothing`, `ApprovedInterrupted` |
| time to live of an approval | `Expire` |
| `runtime_control.py` | `ControlLooks`, `Stop`, `Clear` |
| an action whose task was cancelled around it | `orphans` |
| process restart | `Crash`: only `disk` and `approval` remain |

Where a write's result is ignored, the snapshot afterwards is any of what was to be
written or what was there: a set of outcomes.  Where the code looks (the record of a call
about to start, of an approved action, of a resumption), the failing branch is a case
of its own.  A cancelled task may go several steps further before it notices, since the
cancellation is delivered at an await and may be swallowed there once
(`runtime.py:1111`), after which only the polled cancel signal stops it.  Writes of
`approvals.json` and of the status by a control are taken to succeed: an exception there
ends the handler, and the message with it.

`lost` and `withdrawn` are history: what was cut off with nobody knowing how it ended,
and the approvals that were used, rejected, replaced, expired or interrupted.

### ActiveTasks and ProactiveDispatch

| code | model |
|---|---|
| `ActiveTaskStore` (every method synchronous, written at once) | `store`; `Marked`, `ClaimedFrom`, `Reserved`, `Redefined` are what its methods make of a task |
| rows of the scheduler, kept across restarts (external) | `jobs`: none, active, paused |
| `_SCHEDULE_LOCK` | `lock`; the code's lock is first come first served, the model's takes any waiter |
| `create_active_task`, `control_active_task`, `update_active_task`, `pause_active_tasks_for_conversation` | `Create`, `Call`, then `Acquire`; each call of the scheduler is asked, takes effect (`Lands`), and `Returns` or `Fails`; `CutOff` cancels |
| `initialize_active_task_schedules` | `Start`, `Swept`, `BootTask`, `BootLands`, `BootReturns`/`BootFails`, `Booted` |
| one coroutine of `dispatch`, or one that will call it | `flight`: waiting (a manual run until the session is free), spawned (a webhook), admitted (in `_inflight_task_ids`), running, delivering, notice, ... |
| `_inflight_task_ids`, `_pending_*_task_ids`, `_ACTIVE_SESSION_EXECUTIONS` | `inflight`, `pending`, `holder` |
| `_scheduled_active_task_dispatch` | `Fire`, with the claim |
| `submit_manual`, `_run_manual_after_unlock` | `SubmitManual`, `DeadlinePasses`, `Poll`, `WaitExpires` |
| `submit_webhook`, `_spawn_dispatch` | `SubmitWebhook`, `Spawned` |
| `_dispatch_loaded` and the three kinds of run | `NotFound`, `SessionBusy`, `ApprovalPending`, `Duplicate`, `NotReserved`, `NotBegun`, `Unbind`/`Unbound`, `Begin`, `Executed`, `ExecutionFails`, `Delivered`, `DeliveryFails` |
| the 300 s limit, the notice to the user, cancellation, shutdown | `TimesOut`, `Notice`, `Cancelled`, `Close`, `Closed` |

The admission of a flight and its run are separate steps: `asyncio.wait_for` may start
the coroutine as a task of its own.  Where `_record_status` may fail, the store afterwards
is one of two (`Recorded`).  The tasks belong to one session, since nothing but the lock
joins sessions.  An interrupt of a turn either cuts off the operation it had called or,
when the operation was an approved action, leaves it running (`Loose`, see `agent_interrupt`).

`torn` remembers the tasks whose last operation failed or was cut off half way, `masked`
those whose status another coroutine overwrote while they ran, or whose row fired before
the reconciliation at startup came to them, `dropped` the events whose
receipt went with a rotation or an update from an old reading: the properties except
them, and the README says why in section 7.

### HistorySummary

| code | model |
|---|---|
| rows of a session that are not reset | `rows`, as ids |
| the summary file | `file`: the rows it tells of (`text`) and its cursor (`through`) |
| `_summary_pending_jobs`, `_summary_running_jobs`, `_summary_tasks`, `_summary_active_request`, `_summary_epochs` | `pending`, `running`, `task`, `active`, `epoch` |
| `_schedule_history_summary_job` | `coro`: sleeping, loading, loaded; `Wakes`, `Loads`, `Launches` |
| `_run_history_summary_job` | `req`: `Extended`, `Outdated`, `Fails`, `RequestPrunes`, `Dies` |
| a turn from its message to its row | `turn`: `Arrives`, `Reads`, `Builds`, `Asks`, `Answered`, `Saves`, `TurnPrunes`, `Ends`; `Refused` |
| `foreground_llm_active` | `Foreground`: a turn asks its model, or an Agent run that no message started (`background`) |
| `_summary_failure_state` | `strikes`, `cooling` |
| `reset_session_history` | `ResetMarks` (rows, awaited), then `ResetForgets` (everything else, or the file stays) |
| process restart | `Crash`: rows and files stay |

How many of the rows a turn has read it keeps depends on token budgets and a boundary: any
newest part (`Builds`).  If jobs hold rows back from before those, the prompt shows both
cut to 62 % of the budget, or as a projection cached in the summary file has them
(`_resolve_staged_history_projection`): any newest part of each, and always the newest row
kept (`Projections`).  With a budget of zero it would show none, but the callers leave the
dialogue the larger part of theirs (`memory.py:756`).  A row is clipped, not left out, when
it alone is larger than the budget.  A summary is taken to tell of all it
was made from.  A coroutine that waits in `asyncio.wait_for` and is cancelled when the
answer is already there may go on (before Python 3.12): one such `stray` per session.  A
model request is taken not to answer before a read of the database that was under way
when it was asked; counting, listing and deleting rows is one step.

## 4. Runs

| run | instance | what it shows |
|---|---|---|
| `turn_queue` | 4 messages of 1 private conversation, two of them deliveries of one message, two with a lease, two that may be given up; room for 2, 2 worker names, failing worker starts, caches of size 1, keys age | one worker, one turn at a time, no lost wake-up, never in flight twice, leases held exactly while needed, notices final; implements SerialTurns with its fairness; accepted turns are settled; idle workers go |
| `turn_queue_group` | 4 messages of a group with one bot, one message of which is idle talk | a turn's context holds only earlier messages, a waiting message stays unread |
| `turn_queue_two_bots` | two bots of one group, 4 messages, one of them shared, history of 2, records expire, room for 1 | the shared log only holds accepted messages that were not dropped |
| `turn_queue_merge` | two waiting messages | *violation*: see section 7 |
| `admission` | 5 messages of one session, room for 2, one restart; controls open, exit, archive, other | a switch excludes mixed turns and is in force exactly as long as the control that began it; Agent mode is never stored while a mixed turn holds a lease, so that no queued turn is dropped in silence; leases follow turns; every message and every switch ends |
| `admission_bypass` | 4 messages, and create, switch and clear among the controls | *violation*: see section 7 |
| `bridge_retry` | 2 calls of one request, 2 messages that overlap, losses anywhere | what a call returns is so, the receipt counts what was sent, refusals and ends are final, every call returns |
| `bridge_store` | 3 calls: two of one request with different payloads, one of another that takes room; room for 1, one record expires, one restart | store and order agree and keep the limit; a command is queued once while its record is kept |
| `agent_actions` | 2 side effects, 2 turns, 2 approvals, 1 crash, writes that may fail, any number of interrupts | what was cut off stays recorded on disk and is never begun again under its key; an approval is used at most once and never after it was withdrawn; the session always becomes free in its first state |
| `agent_interrupt` | the same | *violation*: see section 7 |
| `proactive_dispatch` | a one-off, a recurring and a webhook task, one of them made; 2 flights, 2 operations, 2 crashes or shutdowns, 3 of these together | one flight per task; enabled tasks have rows; an event is accepted once; a one-off task is answered for; what a crash cut off stays off; every flight ends |
| `history_summary` | 2 sessions, 2 requests, 3 rows, jobs of 1 row, 1 row kept; a reset, a crash and a lost cancellation, two of them | the summary skips no row, a prompt leaves out none but what a summary will still tell of, none returns after a reset, no job is stranded, the summary grows |

The bounds and why they suffice.  The queue's interesting cases need one message being
processed, a full queue (one or two waiting), and one more that is refused or takes a
place: four messages.  Two worker names are enough for a second worker beside a first,
and a name is used again once its worker is gone.  Conversations share nothing but the
caches, the group's log and the gate, so one conversation suffices except for the log
(two bots).  The caches are cut to one entry so that forgetting happens: a delivery of a message
may come after its key is gone.  The gate's
sessions are independent.  In the bridge, two calls give every race on a request id; a
store of one record makes the second evict the first; two messages are enough to overlap
and to straddle the end of the execution.  `MaxRestarts` is 1 where restarts are not
the hazard being studied for their number; a second restart starts from a state the first
can reach.  Symmetry is used only for sets whose elements the constants do not
distinguish, and only in runs without liveness properties.  For the Agent run, two side effects
tell the one that was cut off from another, two approvals let the second replace the
first, and the second turn is the one that must remember the first's records.

In `bridge_store` the third call only takes the room (`TakesRoom`): what it goes through
itself is what the others go through.  In `proactive_dispatch` one task is made of any of
the three kinds, since tasks meet only in the lock and the session; two flights give each
race for a task, a third could only be refused like the second; the bound on the sum of
operations, flights and crashes leaves every mixture of three.  In `history_summary` a job
is ready with one row and a turn reads two, so that rows are left out, summarised, deleted
and read again with three; two sessions meet without a fault (they share the active
request and the foreground), one session meets every pair of faults (`Bounded`).

`CHECK_DEADLOCK FALSE` stands in the runs where the finite set of messages or calls is
used up; the system then really has nothing to do.  `agent_actions` checks deadlock.

## 5. Fairness

* TurnQueue: weak fairness of each worker's steps and timers, of each duty of a
  `finally` clause and of each processor's end.  asyncio runs every ready task, timers
  fire, and a turn has budgets and deadlines of its own (`turn_runtime.py`).  Nothing
  makes a platform deliver, a cache age or a spawn fail.
* SerialTurns: weak fairness of starting and finishing, which the queue is shown to
  provide.
* TurnAdmission: weak fairness of what a message does after its arrival and of taking a
  turn.  Arrivals, an Agent run's storing of the mode and restarts owe nothing.
* BridgeExecution: weak fairness of the client's two timers (POST timeout, 60 s of
  polling) and nothing else: the server may never answer.

* ProactiveDispatch: weak fairness of a flight's next step, whatever it is, and of the
  clock of a manual run.  A run that hangs has its 300 s limit, and shutdown cancels.
  Nothing makes an operation on a task, a turn or the scheduler go on.
* AgentActions and HistorySummary: none.  Their properties are safety properties.

## 6. Proofs

For every value of the constants that satisfies the named ASSUMEs of the modules:

| theorem | says |
|---|---|
| `QueueTypes` | the queue's state keeps its types, no queue exceeds `MaxPending` |
| `WorkerIsOne`, `TurnsAreSerial`, `NoLostWakeup` | `OneWorker`, `Serialised`, `PendingIsServed` |
| `AllTypes`, `MessagesFlyOnce`, `LeasesFollowTurns`, `TellingIsFinal` | `TypeOK`, `InFlightOnce`, `LeaseFollowsTurn`, `ToldIsFinal` of the queue |
| `ContextOutlivesNoTurn` | `ContextIsOfKeptTurns`, also where bots share a log and records expire |
| `ContextStaysTimely` | `ContextIsTimely` as long as no message is accepted twice, where one bot serves each group, no record grows old and `HistoryLimit` is at least `MaxPending + 2` |
| `MessagesAreAcceptedOnce`, `ContextIsTimelyWhileRemembered` | no message is accepted twice while the handled cache has room for every key; hence `ContextIsTimely` under conditions on the constants alone |
| `QueueRefinesSerialTurns` | every behaviour of the queue is one of SerialTurns, fairness aside |
| `SwitchExclusion`, `TransitionsEndByTheirFinish` | `SwitchExcludesMixed` and, in `GateCalls`, `TransitionEndsByItsFinish`: a transition is in force until its own finish has called the gate, whatever else calls it in whatever order |
| `AdmissionTypes`, `LeasesTrackTurns`, `SwitchesTrackControls` | the admission's types with `SwitchExcludesMixed`, `LeaseTracksTurn` and `SwitchTracksControl`, for any controls and restarts |
| `GatedControlsKeepModesApart` | `ModesAreSeparate` when create, switch and clear are not among the controls |
| `ActionTypes`, `LostStaysRecorded`, `NothingIsReplayed`, `WithdrawnApprovalsNeverRun` | `TypeOK`, `LostIsRecorded`, `NoReplay`, `WithdrawnNeverRuns` of the Agent run, for any number of side effects, turns, approvals and crashes |
| `CommandsQueuedOnce`, `RefusalsAreFinal`, `EndsAreFinal` | `QueuedOnce`, `RefusalIsFinal`, `TerminalIsFinal` of the bridge, with expiry, eviction and restarts |
| `ReceiptsAreTrue`, `OutcomesAreTrue` | `ReceiptIsTrue`, `OutcomeIsTrue` of the bridge, for any number of messages sent at once |
| `StoreMatchesOrder` | the bridge's `TypeOK`: the ids in order are those with a record, each once, within the limit |
| `DispatchTypes`, `TasksFlyAlone`, `EventsAreAcceptedOnce`, `ClaimsAreAnswered` | `TypeOK`, `OneFlight`, `EventOnce`, `ClaimIsAnswered` of the dispatcher, for any tasks, flights and operations, through failures, cancellations and restarts |
| `EnabledTasksHaveRows`, `CutRunsStayOff` | `EnabledHasRow` and `CutStaysOff`, likewise |
| `HistoryTypes`, `SummarySkipsNothing`, `PromptsSkipNothing`, `ResetsAreFinal`, `SummaryOnlyGrows`, `JobsAreNotStranded` | the history's `TypeOK`, `NothingSkipped`, `PromptSkipsNothing`, `ResetIsFinal`, `SummaryGrows`, `NoJobStranded`, for any sessions, requests, rows, windows and batches, with the faults the module bounds (one reset, one crash, one lost cancellation) |

How they go.  None of the properties is inductive alone.

* *TurnQueue.*  `PendingIsServed` needs to know which worker a conversation's state
  names, that a worker that is not gone is the one named, and that a processing
  worker's turn is the active one; `Serialised` follows from the one worker and from each
  process task being awaited by its worker.  The inductive invariant is the
  conjunction of the types and of these facts; the proof has one lemma per action and
  one step per conjunct the action can disturb.  The properties of single messages need
  more (`CallInv`): every call of `submit` has duties left, and they answer for the
  turn it dropped and for its own lease, so that a lease is released once and by one
  party, and a drop is told before its caller ends.  For the refinement, the places a
  message can be in exclude each other (`Fates`); each action then moves one message on
  as SerialTurns does, or leaves every message where it was.
* *The groups' logs.*  `LogInv`: what is unread is the end of what is recent (`GoodLog`),
  every record is of a message accepted in its group and not dropped (`RecordsAreKept`),
  and a waiting turn knows the record made under its key, so that the record goes when
  the turn does (`WaitingKnowsRecord`); every operation on a log keeps what it keeps in
  its order (`Keeps`).  `ContextIsTimely` needs to know where the records stand
  (`TimelyInv`): the unread log ends in the records of the queue, in the queue's order, and
  has that of the running turn right before them (`UnreadEndsInQueue`); a turn in flight
  has a record of its own (`OwnRecord`); and records are in the order their messages were
  accepted in (`InOrder`).  This takes four hypotheses, each of which the code needs.
  Two bots of one group have two queues and one log (`OneBot`).  A record that reaches its
  15 minutes leaves the log under a turn that still waits (`"records" \notin Expiring`).
  The log is trimmed from its old end when a message has been appended and before the turn
  it replaces is rolled back: it must hold a full queue, the running turn and the
  newcomer (`MaxPending + 2`; TLC finds a counterexample with one less).  By default
  100 records stand against 8 waiting turns, but the setting accepts less than 10
  (`config.py:531`, `turn_queue.py:28`).  And a message answered long ago that is delivered
  again, when the caches have forgotten it, finds its old record in the log
  (`AcceptedOnce`).  The cache of handled messages forgets nothing while it has room for
  every key, since a key is in it once (`HandledInv` and the pigeonhole principle); the
  run `turn_queue_group` is an instance of these hypotheses.
* *ModeGate and GateCalls.*  `SwitchExcludesMixed` is inductive with the gate's types:
  begin checks for leases, acquire checks for a switch, in one step each.
  `TransitionEndsByItsFinish` needs that a token is given once, and only where it was
  issued (`GivenOnce`), so that a late finish finds another token or none
  (`mode_gate.py:136`).
* *TurnAdmission.*  `SwitchTracksControl` is inductive with the types.  `LeaseTracksTurn` is inductive with the order of the queue
  (`QueueHolds`): a message stands in the queue once, and one that is processed has left
  it.  For `ModesAreSeparate`, the gate's invariant, plus: the gate's `agentActive` may lag behind
  the stored flag only in ways that no acquire relies on (acquire is told the stored
  flag in the same step), and a stored Agent mode with a lease can only come from a
  control past the gate or from an Agent run that stores the mode again, which is only
  possible while the mode was on when the run began.
* *BridgeExecution.*  `BridgeInv`: a record mirrors the state of the call that claimed
  it; a request whose record is kept was claimed by one call; an answer "rejected" on
  the wire, or returned to the model, is that of a record in state rejected.  Steps
  are grouped by what they do to a record (leave it, move it on, create it, drop it), each
  group with a lemma, so that an action is proved by showing to which group it belongs.
  `CountInv` adds the messages: the record counts those of the one call that claimed it
  (`Counted`), a kept record was claimed by some call (`RecordIsClaimed`), only an
  execution that runs or has run sends (`Sending`), and what a client has been told was
  shown by some call of its request (`ToldIsShown`), which no later step takes back.
  `StoreOK` rests on what pruning keeps.  It is the recursive function `KeptOf` over the
  prefixes of the order; since a theorem of the library that takes a predicate cannot be
  used, that `KeptOf` is defined, and what it returns for each prefix (`KeptFacts`), is
  shown by the shortest prefix for which it would be false (`WFMin`).
* *AgentActions.*  `LostIsRecorded` is about the disk, but who writes the disk next is a
  task that read it earlier.  The invariant adds: the run in the memory of a task that
  will write knows every lost side effect too (`MemoryKnows`); what a task has in hand
  is recorded on disk and is not lost (`HandIsRecorded`), so that cutting it off adds a
  record that is already there; and the pending approval was asked for and has not been
  withdrawn (`ApprovalIsLive`).  Every operation on a run keeps its unsettled records
  but the settling of the call in hand (`Keeps`), which is one lemma per operation and
  one per kind of step.
* *ActiveTasks and ProactiveDispatch.*  `DispatchInv`: the types; which flight has a task
  in flight, the session or a claim (`FlightInv`); and that the receipts on disk, or in
  the definition an operation is about to write back, are what is left of the events
  accepted (`EventInv`).  ActiveTasks has lemmas of its own (`ActiveTasks_proofs`): what
  each method of the store makes of a task, and that an operation keeps the types and
  discards receipts only where `dropped` says so.  `EnabledHasRow` needs to know what an
  operation that waits has established (`RowHolds`): one that has paused a row left its
  task off, one that has scheduled a row left it there, unless the task was claimed since,
  and what the reconciliation has not come to yet is excused; `LocksHold` and `BootHolds`
  say that one operation, or the reconciliation, has the lock.  `CutStaysOff` is about a
  later process: a run has "started" or "queued" on disk as long as it can be cut off
  (`CutHolds`), and after a crash that status, or the task switched off, stays on disk and
  in the snapshot of every reconciliation until one has turned the task off (`Stays`),
  since nothing else is under way about it (`Alone`).  Every step of a flight is a move of
  one flight with its status (`Moved`), and every step of an operation changes one task
  (`Local`), so each action has to show only that it is one.
* *HistorySummary.*  Rows go from the table to a coroutine, to a request, to the file,
  with an `await` between any two, and are deleted on the strength of the last.  The
  invariant says what each holder has in hand (`Held`): its rows and the summary it started
  from skip no row before its last (`Solid`); if its epoch is still that of the session
  they differ from the summary on disk in rows of the table only (`Akin`), have what the
  turn under way has read (`ShowsSeen`) and nothing from before a reset (`Fresh`).  A
  turn or a request that will delete rows has a cursor under which everything is told
  (`Told`).  For `PromptSkipsNothing`, what a turn has read up to the cursor is told although
  the cursor may have moved since (`Reading`), and what a prompt cuts stands after it; what
  it leaves out before that is staged, so that a job holds it.  `HeldOn` is the lemma that every step keeps both; each action has then only to
  show what it creates.  The maximum of a set of rows is that of FiniteSetsExt; that it
  exists is proved by well-founded induction over its subsets.  `Fresh` needs the epoch:
  after a reset the next one is larger than that of every holder.  `NoJobStranded` needs
  two facts more (`JobInv`): a waiting job is of the epoch its session is in, or the end of
  a turn would not schedule it; and a job that nobody will look at is only left so while
  a turn is under way, in whichever session, whose end schedules the jobs of all of them.

`TransitionEndsByItsFinish` is proved without being a property of a run: the calls of
TurnAdmission finish every transition once.

What is only model-checked: liveness (`AcceptedIsSettled`, `IdleIsCollected`,
`AdmissionMakesProgress`, `EveryCallReturns`, `EveryFlightEnds`) and the fairness half of
the refinement to SerialTurns (`ImplementsSerialTurns`), since liveness and ENABLED are
beyond the prover.  Every invariant and every action property of the passing runs is
stated by a theorem above.  No module declares a RECURSIVE operator, and no proof uses a
theorem that takes an operator as a parameter, which the provers cannot instantiate.

## 7. Where code and documents disagree

* `turn_queue_merge`: `README.md:27` and `README.md:250` of the repository say that
  consecutive messages of a conversation are merged.  `turn_queue.py:171` makes one turn
  of every message; the run finds a turn that starts while another message waits.
* `admission_bypass`: opening Agent mode waits for queued messages
  (`plugin_entry.py:564`, `mode_gate.py:1`), but creating, switching or clearing a
  conversation stores Agent mode without asking the gate (`plugin_entry.py:572`).
  Mixed turns that are queued are then dropped without an answer (`handler.py:72`).
  `admission` and its theorem show that this is the only hole.
* `agent_interrupt`: `/中断` answers "已中断当前任务。" (`runtime_control.py:329`; the
  command is described so in `plugin_entry.py:162`).  When an approved action is running,
  the interrupt cancels the task that waits for it at `runtime_approval.py:442`.
  `asyncio.wait` does not cancel what it waits for, and the branch that would
  (`runtime_approval.py:427`) is never reached, since signal and cancellation come in the
  same step.  The session is free and the action goes on.  Its record stays started, so
  that it counts as uncertain later: `LostIsRecorded` and `NoReplay` hold with it.

Weaknesses no document promises the absence of, met while modelling:

* two bots of one group share the group's log by message id, so that the answer of one
  may consume what the other's waiting turn has recorded;
* a history limit set below the queue's limit and two more (`CHAT_HISTORY_LIMIT` may be 1)
  lets a new message push records of waiting turns out of the group's log, whose turns are
  then shown what was said after them;
* a bridge record that is evicted or expires while its execution goes on can be claimed
  again;
* an approved action that was cut off is recorded under its payload, so that a call of
  the loop with the same effect is not held back by it;
* `update_active_task` writes back the task it read before it waited for the lock
  (`active_tasks.py:976`): receipts, statuses, a pause or a claim in between are undone;
  if it fails before the old schedule was removed, the handler deletes the row and
  restores only the record (line 995), and an enabled task never fires until the next
  start; the same is left by a cancellation at an await of the scheduler;
* while the process starts, a row may fire before `initialize_active_task_schedules` has
  come to its task (`active_tasks.py:718`): a task that the last crash cut off is then
  begun again, or its status overwritten with "skipped", and after a second crash nothing
  tells that it was cut off and it stays on; `record_schedule_error` (line 779) likewise
  overwrites the status of a task that has begun to run meanwhile.  Recording "uncertain"
  and turning the task off are two writes (lines 721 and 732), one step of the model;
* a one-off task whose time comes while a manual run of it is in flight is used up and
  skipped without a notice (`proactive_tasks.py:184`); a manual run whose deadline is
  over writes "skipped" over the status of the run that has the task (line 863), which a
  restart then does not recognise as cut off; a webhook's caller whose dispatch is
  cancelled by shutdown before its first step is never answered;
* while jobs hold rows back, what a prompt shows of the dialogue is cut to 62 % of its
  budget (`history_policy.py:287`, `:464`): rows the turn has kept, and rows no summary
  tells of yet, may be left out of the prompt until the summary is extended.
  `PromptSkipsNothing` allows this, for rows after the cursor, and nothing else;
* after its read of the database a schedule coroutine looks at the foreground again but
  not at the active request (`history_policy.py:817`), so that two sessions' summaries
  may be asked for at once; a saved summary is compared with the cursor, not with the
  text it started from;
* an MCP server whose tools cannot be listed right after it was connected is closed and
  isolated by `refresh_tools` (`mcp_runtime.py:253`), and then shown as connected and no
  longer isolated by its caller (line 223); a refresh that finds the session gone asks for
  the connect lock (line 232), which its caller may hold.

## 8. Not modelled

* TurnQueue: cancellation of a worker from outside (nothing in the repository does it);
  a `create_task` that raises in the worker (`turn_queue.py:295`), which it only does when
  the loop is closed: the code answers such a failure in `submit` alone, and that is
  `SpawnFails`;
  the cap of 256 groups of the group log, messages without an id (adapters give one).
  In production no caller passes overrides to `submit`, so every turn must be kept; the
  run `turn_queue` also covers turns that may be given up, which the interface
  allows.
* TurnAdmission: ordinary users and groups, who never meet the gate and are in
  TurnQueue; approvals, which are in AgentActions, and background tasks of the control
  commands.
* BridgeExecution: the capability manifest, trigger matching and authentication, which
  only decide between the outcomes of a submission; GScore's own queue, which is
  outside the repository.  What a client is told of a request the server has forgotten in
  a restart is excepted from the properties (`forgotten`), as is a request whose record
  was evicted or has expired.
* ModeGate and GateCalls have no run of their own: `SwitchExcludesMixed` is checked under
  the calls of TurnAdmission and proved for every order of calls (`GateSpec`), and
  `TransitionEndsByItsFinish` is proved for every order of calls and finishes (`CallSpec`).
* AgentActions: what the model says and the loop's guards against repeated and useless
  calls, which only keep a call from being made; compaction of a conversation, which
  rewrites its messages and no record; several conversations of a session; background
  shell tasks and subagents, which have no record of their own in the run; the clean-up
  of old snapshots; runs of proactive tasks; a second interrupt while a tool that is
  being cancelled cleans up.
* ActiveTasks and ProactiveDispatch: triggers, time zones and script identities, which
  decide whether a task is valid; the rate limit, token and payload of a webhook and the
  age and number of receipts (10 minutes, 256); tasks of several sessions; the process of
  a script; `run_now` and the ensure and unregister helpers, which nothing calls.
* HistorySummary: the amounts of tokens that decide how many rows are kept, loaded and
  shown, which are any choice of the newest or oldest; the text of a summary; the limit of 512 epochs; the
  migration of session names; the order of a shutdown, which leaves what a crash leaves.
* Provider failover: one request walks a list of models in a loop of its own; what
  requests share, the cooldowns, only changes the order in which models are tried.
* Conversations of `store.py` beyond the current one, their permissions and tasks: files
  that are written whole, and that only the session's current run reads.
* The parts marked `not_modelled` in `PROJECT.json`, each with its reason: those that are
  text, statistics, files or a single sequential coroutine, and MCP (section 7), whose
  sessions and locks belong to a library as much as to this code.
