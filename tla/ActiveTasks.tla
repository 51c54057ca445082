---------------------------- MODULE ActiveTasks ----------------------------
(***************************************************************************)
(* The active tasks of a superuser (superuser_agent/active_tasks.py): a    *)
(* JSON store of tasks, the rows of an external scheduler, and the         *)
(* operations that keep the two together under one lock.  The store is     *)
(* synchronous, so each of its methods is one step; what an operation asks *)
(* of the scheduler is awaited, and the scheduler may fire meanwhile.      *)
(*                                                                         *)
(* A controller is a coroutine that operates on tasks: the Agent turn that *)
(* holds the session, an approved action left running by an interrupt, a   *)
(* control command that archives or deletes a conversation, a dispatch     *)
(* that found its conversation gone.  This module has what they do to the  *)
(* store and the scheduler; ProactiveDispatch says who calls it when.      *)
(***************************************************************************)
EXTENDS Integers, FiniteSets, TLC

CONSTANTS
    Tasks,          \* task ids
    TriggerOf,      \* [Tasks -> {"date", "interval", "webhook"}]; cron is an interval
    Events,         \* ids of webhook events
    Controllers,    \* the coroutines that operate on tasks
    None

ASSUME TriggersAreKnown == TriggerOf \in [Tasks -> {"date", "interval", "webhook"}]
ASSUME NoneIsNobody == None \notin Controllers \union Tasks
ASSUME BootIsNobody == "boot" \notin Controllers \union {None}

VARIABLES
    store,      \* the tasks on disk
    jobs,       \* the scheduler's row of each task, kept across restarts
    op,         \* what each controller is doing
    lock,       \* who holds _SCHEDULE_LOCK: None, a controller or "boot"
    mode,       \* the process: down, starting (schedules are reconciled), up, closing
    boot,       \* the reconciliation: its snapshot, what is left of it, its task in hand
    torn        \* history: tasks whose last operation failed or was cut off half way

taskVars == <<store, jobs, op, lock, mode, boot, torn>>

(***************************************************************************)
(* Records                                                                 *)
(***************************************************************************)
Statuses == {"pending", "claimed", "queued", "started", "executed", "settled", "skipped",
             "cancelled", "uncertain", "deliveryUncertain", "missed", "paused", "scheduleError"}

\* A run or a delivery the process was in the middle of.
IncompleteRun == {"claimed", "queued", "started"}
IncompleteDelivery == {"executed"}

Task == [there : BOOLEAN, enabled : BOOLEAN, sched : BOOLEAN, status : Statuses,
         receipts : SUBSET Events]
Absent == [there |-> FALSE, enabled |-> FALSE, sched |-> FALSE, status |-> "pending",
           receipts |-> {}]
Created == [Absent EXCEPT !.there = TRUE, !.enabled = TRUE]

Kinds == {"create", "pause", "archive", "resume", "delete", "update"}
Stages == {"idle", "locking", "pausing", "scheduling", "removing", "replacing", "undoing",
           "restoring"}
\* seen is the task as the operation read it; landed says that the scheduler has done what
\* it was asked, which the operation learns later; removed, that the old schedule went.
Op == [stage : Stages, kind : Kinds, task : Tasks \union {None}, seen : Task,
       landed : BOOLEAN, removed : BOOLEAN]
IdleOp == [stage |-> "idle", kind |-> "pause", task |-> None, seen |-> Absent,
           landed |-> FALSE, removed |-> FALSE]

Webhook(t) == TriggerOf[t] = "webhook"

(***************************************************************************)
(* The store's methods, as the value a task has afterwards                 *)
(***************************************************************************)
Marked(task, status) == [task EXCEPT !.status = status]

\* claim_scheduled: a one-off task is used up by its claim.
ClaimedFrom(t) ==
    IF TriggerOf[t] = "date"
    THEN [store[t] EXCEPT !.enabled = FALSE, !.sched = FALSE, !.status = "claimed"]
    ELSE store[t]

Claimable(t) == store[t].there /\ store[t].enabled

\* reserve_webhook_event
Reservable(t, e) ==
    store[t].there /\ Webhook(t) /\ store[t].enabled /\ e \notin store[t].receipts

\* Mutant: the event is not remembered.
Queued(t, e) == [store[t] EXCEPT !.status = "queued"]

Reserved(t, e) ==
    [store[t] EXCEPT !.receipts = @ \union {e}, !.status = "queued"]

\* update_active_task writes the definition it derived from the task it read before it
\* waited for the lock, all other fields included.
Redefined(t, seen) == IF Webhook(t) THEN seen ELSE [seen EXCEPT !.sched = FALSE]

(***************************************************************************)
(* Steps of an operation.  Enter is what happens once the lock is held, up *)
(* to the first call of the scheduler; a task that is gone ends it.        *)
(***************************************************************************)
Await(c, o, stage) ==
    /\ op' = [op EXCEPT ![c] = [o EXCEPT !.stage = stage, !.landed = FALSE]]
    /\ lock' = c

Finish(c) ==
    /\ op' = [op EXCEPT ![c] = IdleOp]
    /\ lock' = None

Gone(c, o) ==
    /\ ~store[o.task].there
    /\ Finish(c)
    /\ UNCHANGED store

\* "pause" of a control, and of an archived conversation, which also records it afterwards.
EnterPause(c, o) ==
    /\ o.kind \in {"pause", "archive"}
    /\ store[o.task].there
    /\ LET off == [store[o.task] EXCEPT !.enabled = FALSE]
       IN IF Webhook(o.task)
          THEN /\ store' = [store EXCEPT ![o.task] =
                               IF o.kind = "archive" THEN Marked(off, "paused") ELSE off]
               /\ Finish(c)
          ELSE /\ store' = [store EXCEPT ![o.task] = off]
               /\ Await(c, o, "pausing")

\* "resume": a one-off task outside its delivery window is refused.
EnterResume(c, o) ==
    /\ o.kind = "resume"
    /\ store[o.task].there
    /\ \/ /\ TriggerOf[o.task] = "date"
          /\ store' = [store EXCEPT ![o.task] = Marked(@, "missed")]
          /\ Finish(c)
       \/ /\ store' = [store EXCEPT ![o.task].enabled = TRUE]
          /\ IF Webhook(o.task) THEN Finish(c) ELSE Await(c, o, "scheduling")

EnterDelete(c, o) ==
    /\ o.kind = "delete"
    /\ store[o.task].there
    /\ store' = [store EXCEPT ![o.task] = Absent]
    /\ IF Webhook(o.task) THEN Finish(c) ELSE Await(c, o, "removing")

\* The record of a new task is written before the lock is taken.
EnterCreate(c, o) ==
    /\ o.kind = "create"
    /\ store[o.task].there
    /\ Await(c, o, "scheduling")
    /\ UNCHANGED store

\* replace_definition, and the new schedule of an enabled task.
Replace(c, o) ==
    /\ store' = [store EXCEPT ![o.task] = Redefined(o.task, o.seen)]
    /\ IF o.seen.enabled /\ ~Webhook(o.task)
       THEN Await(c, o, "scheduling")
       ELSE Finish(c)

\* An update removes the schedule it read, then writes; what it read may be out of date.
EnterUpdate(c, o) ==
    /\ o.kind = "update"
    /\ IF o.seen.sched
       THEN Await(c, o, "replacing") /\ UNCHANGED store
       ELSE IF store[o.task].there
       THEN Replace(c, o)
       ELSE /\ UNCHANGED store
            /\ IF Webhook(o.task) THEN Finish(c) ELSE Await(c, o, "undoing")

Enter(c, o) ==
    /\ \/ EnterPause(c, o) \/ EnterResume(c, o) \/ EnterDelete(c, o)
       \/ EnterCreate(c, o) \/ EnterUpdate(c, o)
       \/ o.kind # "update" /\ Gone(c, o)
    /\ UNCHANGED <<jobs, mode, boot, torn>>

\* A controller calls an operation: it reads the task, and takes the lock at once when it
\* is free.
Call(c, kind, t) ==
    /\ op[c].stage = "idle"
    /\ store[t].there
    /\ kind \in Kinds \ {"create"}
    /\ kind = "archive" => store[t].enabled
    /\ LET o == [IdleOp EXCEPT !.stage = "locking", !.kind = kind, !.task = t,
                     !.seen = IF kind = "update" THEN store[t] ELSE Absent]
       IN IF lock = None
          THEN Enter(c, o)
          ELSE /\ op' = [op EXCEPT ![c] = o]
               /\ UNCHANGED <<store, jobs, lock, mode, boot, torn>>

\* create_active_task: the record, then the lock; a webhook needs no schedule.
Create(c, t) ==
    /\ op[c].stage = "idle"
    /\ ~store[t].there
    /\ store' = [store EXCEPT ![t] = Created]
    /\ LET o == [IdleOp EXCEPT !.stage = "locking", !.kind = "create", !.task = t]
       IN \/ Webhook(t) /\ UNCHANGED <<op, lock>>
          \/ ~Webhook(t) /\ lock = None /\ Await(c, o, "scheduling")
          \/ ~Webhook(t) /\ lock # None /\ op' = [op EXCEPT ![c] = o] /\ UNCHANGED lock
    /\ UNCHANGED <<jobs, mode, boot, torn>>

Acquire(c) ==
    /\ op[c].stage = "locking"
    /\ lock = None
    /\ Enter(c, op[c])

\* What a call of the scheduler makes of the task's row.
RowAfter(stage, row) ==
    CASE stage = "pausing" -> IF row = "none" THEN "none" ELSE "paused"
      [] stage \in {"scheduling", "restoring"} -> "active"
      [] OTHER -> "none"

\* Mutant: a failed update puts back the record and not the schedule.
RestoreRecord(c, o) ==
    /\ store' = [store EXCEPT ![o.task] = IF store[o.task].there THEN o.seen ELSE @]
    /\ Finish(c)

\* The handler of a failed update puts back what it read, with a schedule only if it had
\* removed the old one.
Restore(c, o) ==
    IF ~store[o.task].there
    THEN Finish(c) /\ UNCHANGED store
    ELSE /\ store' = [store EXCEPT ![o.task] =
                          IF o.removed THEN [o.seen EXCEPT !.sched = FALSE] ELSE o.seen]
         /\ IF o.removed /\ o.seen.enabled THEN Await(c, o, "restoring") ELSE Finish(c)

\* The scheduler does what it was asked; the answer is still on its way.
Lands(c) ==
    /\ op[c].stage \notin {"idle", "locking"}
    /\ ~op[c].landed
    /\ jobs' = [jobs EXCEPT ![op[c].task] = RowAfter(op[c].stage, @)]
    /\ op' = [op EXCEPT ![c].landed = TRUE]
    /\ UNCHANGED <<store, lock, mode, boot, torn>>

\* The call returns, and the operation goes on to its end or to its next call.
Returns(c) ==
    LET o == op[c]
        t == o.task
    IN /\ o.landed
       /\ \/ /\ o.stage = "pausing"
             /\ store' = IF o.kind = "archive"
                         THEN [store EXCEPT ![t] = Marked(@, "paused")] ELSE store
             /\ Finish(c)
          \/ /\ o.stage \in {"scheduling", "restoring"}
             /\ store' = [store EXCEPT ![t].sched = TRUE]
             /\ Finish(c)
          \/ /\ o.stage = "removing"
             /\ store' = [store EXCEPT ![t] = Absent]
             /\ Finish(c)
          \/ /\ o.stage = "replacing"
             /\ IF store[t].there
                THEN Replace(c, [o EXCEPT !.removed = TRUE])
                ELSE Await(c, [o EXCEPT !.removed = TRUE], "undoing") /\ UNCHANGED store
          \/ o.stage = "undoing" /\ Restore(c, o)
       /\ torn' = CASE o.stage \in {"scheduling", "restoring"} -> torn \ {t}
                    [] o.stage = "undoing" /\ ~o.removed -> torn \union {t}
                    [] OTHER -> torn
       /\ UNCHANGED <<jobs, mode, boot>>

\* The call raises, before or after its effect; each operation has its handler.
Fails(c) ==
    LET o == op[c]
        t == o.task
    IN /\ o.stage \notin {"idle", "locking"}
       /\ \/ /\ o.stage = "pausing"
             /\ Finish(c)
             /\ UNCHANGED store
          \/ /\ o.stage = "scheduling" /\ o.kind = "resume"
             /\ store' = [store EXCEPT ![t].enabled = FALSE]
             /\ Finish(c)
          \/ /\ o.stage = "scheduling" /\ o.kind = "create"
             /\ Await(c, o, "removing")
             /\ UNCHANGED store
          \/ /\ \/ o.stage = "scheduling" /\ o.kind = "update"
                \/ o.stage = "replacing"
             /\ Await(c, o, "undoing")
             /\ UNCHANGED store
          \/ /\ o.stage = "removing"
             /\ store' = [store EXCEPT ![t] = Absent]
             /\ Finish(c)
          \/ o.stage = "undoing" /\ Restore(c, o)
          \/ /\ o.stage = "restoring"
             /\ Finish(c)
             /\ UNCHANGED store
       /\ torn' = IF o.stage = "restoring" \/ (o.stage = "undoing" /\ ~o.removed)
                  THEN torn \union {t} ELSE torn
       /\ UNCHANGED <<jobs, mode, boot>>

\* The controller is cancelled: no handler but a finally clause runs.  What it asked of the
\* scheduler, or was about to ask after it had written a record, may be missing.
Torn(c) ==
    IF op[c].stage \notin {"idle", "locking"} \/ op[c].kind = "create" THEN {op[c].task} ELSE {}

Abandon(c) ==
    /\ op' = [op EXCEPT ![c] = IdleOp]
    /\ lock' = IF lock = c THEN None ELSE lock
    /\ torn' = torn \union Torn(c)

CutOff(c) ==
    /\ op[c].stage # "idle"
    /\ Abandon(c)
    /\ store' = IF op[c].kind = "create" /\ op[c].stage = "removing"
                THEN [store EXCEPT ![op[c].task] = Absent] ELSE store
    /\ UNCHANGED <<jobs, mode, boot>>

(***************************************************************************)
(* Startup: initialize_active_task_schedules, under the lock from its      *)
(* first step to its last.  It reads all tasks first and then works on     *)
(* what it read, while rows of the scheduler may already fire.             *)
(***************************************************************************)
NoBoot == [stage |-> "off", snap |-> [t \in Tasks |-> Absent], todo |-> {}, task |-> None,
           landed |-> FALSE]

Start ==
    /\ mode = "down"
    /\ mode' = "starting"
    /\ lock' = "boot"
    /\ boot' = [NoBoot EXCEPT !.stage = "sweeping", !.snap = store,
                              !.todo = {t \in Tasks : store[t].there}]
    /\ UNCHANGED <<store, jobs, op, torn>>

\* remove_orphaned_schedules; its failure is only counted.
Swept ==
    /\ boot.stage = "sweeping"
    /\ \/ jobs' = [t \in Tasks |-> IF boot.snap[t].there THEN jobs[t] ELSE "none"]
       \/ UNCHANGED jobs
    /\ boot' = [boot EXCEPT !.stage = "next"]
    /\ UNCHANGED <<store, op, lock, mode, torn>>

\* Mutant: a task that was cut off stays on.
RecoveredOn(seen, now) ==
    CASE seen.status \in IncompleteRun -> Marked(now, "uncertain")
      [] seen.status \in IncompleteDelivery -> Marked(now, "deliveryUncertain")
      [] OTHER -> seen

\* What is recorded of a run or a delivery that the last process did not finish, and of a
\* one-off task outside its delivery window (such a task is enabled).
Recovered(seen, now) ==
    CASE seen.status \in IncompleteRun -> [now EXCEPT !.status = "uncertain", !.enabled = FALSE]
      [] seen.status \in IncompleteDelivery -> Marked(now, "deliveryUncertain")
      [] OTHER -> seen

Missed(now) == [now EXCEPT !.status = "missed", !.enabled = FALSE]

\* One task of the snapshot: recover it, then schedule or pause its row.
BootTask(t) ==
    LET seen == boot.snap[t]
        task == Recovered(seen, store[t])
    IN /\ boot.stage = "next"
       /\ t \in boot.todo
       /\ \E late \in IF TriggerOf[t] = "date" /\ task.enabled THEN BOOLEAN ELSE {FALSE} :
             /\ store' = IF late THEN [store EXCEPT ![t] = Missed(@)]
                         ELSE IF task = seen THEN store ELSE [store EXCEPT ![t] = task]
             /\ boot' = IF Webhook(t)
                        THEN [boot EXCEPT !.todo = @ \ {t}]
                        ELSE [boot EXCEPT !.todo = @ \ {t}, !.task = t, !.landed = FALSE,
                                 !.stage = IF task.enabled /\ ~late
                                           THEN "scheduling" ELSE "pausing"]
       /\ UNCHANGED <<jobs, op, lock, mode, torn>>

BootLands ==
    /\ boot.task # None
    /\ ~boot.landed
    /\ jobs' = [jobs EXCEPT ![boot.task] = RowAfter(boot.stage, @)]
    /\ boot' = [boot EXCEPT !.landed = TRUE]
    /\ UNCHANGED <<store, op, lock, mode, torn>>

BootReturns ==
    LET t == boot.task
    IN /\ boot.landed
       /\ store' = IF boot.stage = "scheduling"
                   THEN [store EXCEPT ![t].sched = TRUE] ELSE store
       /\ torn' = IF boot.stage = "scheduling" THEN torn \ {t} ELSE torn
       /\ boot' = [boot EXCEPT !.stage = "next", !.task = None, !.landed = FALSE]
       /\ UNCHANGED <<jobs, op, lock, mode>>

\* record_schedule_error
BootFails ==
    LET t == boot.task
    IN /\ t # None
       /\ store' = [store EXCEPT ![t] = Marked(@, "scheduleError")]
       /\ torn' = torn \union {t}
       /\ boot' = [boot EXCEPT !.stage = "next", !.task = None, !.landed = FALSE]
       /\ UNCHANGED <<jobs, op, lock, mode>>

Booted ==
    /\ boot.stage = "next"
    /\ boot.todo = {}
    /\ mode' = "up"
    /\ lock' = None
    /\ boot' = NoBoot
    /\ UNCHANGED <<store, jobs, op, torn>>

(***************************************************************************)
(* The process                                                             *)
(***************************************************************************)
TasksInit ==
    /\ store = [t \in Tasks |-> Absent]
    /\ jobs = [t \in Tasks |-> "none"]
    /\ op = [c \in Controllers |-> IdleOp]
    /\ lock = None
    /\ mode = "up"
    /\ boot = NoBoot
    /\ torn = {}

\* Operations die with the process; the store and the rows of the scheduler stay.
TasksDown ==
    /\ mode' = "down"
    /\ op' = [c \in Controllers |-> IdleOp]
    /\ lock' = None
    /\ boot' = NoBoot
    /\ torn' = torn \union UNION {Torn(c) : c \in Controllers}
    /\ UNCHANGED <<store, jobs>>

(***************************************************************************)
(* Properties of the store and the scheduler                               *)
(***************************************************************************)
Busy(t) ==
    \/ \E c \in Controllers : op[c].stage # "idle" /\ op[c].task = t
    \/ boot.task = t \/ t \in boot.todo

\* An enabled task has an active row in the scheduler, so that it does fire, unless an
\* operation on it is under way or was cut off or failed half way: the store and the
\* scheduler are two, written by operations that await between them (create, control,
\* update, startup) while rows fire and are claimed.
EnabledHasRow ==
    mode = "up" => \A t \in Tasks \ torn :
        store[t].there /\ store[t].enabled /\ ~Webhook(t) /\ ~Busy(t) => jobs[t] = "active"

=============================================================================
