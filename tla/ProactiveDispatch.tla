------------------------- MODULE ProactiveDispatch -------------------------
(***************************************************************************)
(* The dispatcher of active tasks (superuser_agent/proactive_tasks.py)     *)
(* over the store, the scheduler and the operations of ActiveTasks, for    *)
(* the tasks of one session.                                               *)
(*                                                                         *)
(* A flight is one coroutine that is to run a task: the scheduler's        *)
(* callback, a manual run that waits until the session is free, or the     *)
(* background dispatch of a webhook, whose HTTP caller waits for its        *)
(* admission.  A flight runs its task while it holds the session, which it *)
(* shares with the Agent turns of the user.                                *)
(***************************************************************************)
EXTENDS ActiveTasks

CONSTANTS
    Slots,          \* names for flights, used again
    Works,          \* tasks that execute before they deliver (agent, script); others notify
    Turn,           \* the Agent turn or decision on an approval that holds the session
    Loose,          \* an approved operation that an interrupt has left running
    Command,        \* a control command that archives or deletes the conversation
    NoEvent,        \* a webhook call without an event id
    MaxTasks,       \* bound on tasks made
    MaxOps,         \* bound on operations
    MaxFlights,     \* bound on flights
    MaxRestarts,    \* bound on crashes and shutdowns
    MaxTotal        \* bound on operations, flights, crashes and shutdowns together

ASSUME ControllersAreThese ==
    /\ Controllers = Slots \union {Turn, Loose, Command}
    /\ Slots \cap {Turn, Loose, Command} = {}
    /\ NoEvent \notin Events

VARIABLES
    flight,     \* what each flight is doing
    inflight,   \* _inflight_task_ids
    pending,    \* _pending_manual_task_ids and _pending_webhook_task_ids
    holder,     \* who holds the session: None, Turn or a flight
    accepted,   \* history: webhook events accepted, of each task
    twice,      \* history: events accepted a second time
    dropped,    \* history: events whose receipt has been discarded
    cut,        \* history: tasks cut off while they ran ("run") or delivered ("delivery")
    masked,     \* history: tasks whose status another coroutine may have overwritten
    owed,       \* history: one-off tasks in flight by their claim, their outcome not yet told
    used        \* tasks made, operations, flights and restarts so far

flightVars == <<flight, inflight, pending, holder>>
ghosts == <<accepted, twice, dropped, cut, masked, owed>>
vars == <<taskVars, flightVars, ghosts, used>>

Sources == {"schedule", "manual", "webhook"}
Steps == {"free", "waiting", "spawned", "admitted", "unbinding", "running", "delivering",
          "notice", "lateNotice", "stranded"}

Free == [step |-> "free", task |-> None, source |-> "schedule", claimed |-> FALSE,
         event |-> NoEvent, late |-> FALSE]
Flight == [step : Steps, task : Tasks \union {None}, source : Sources, claimed : BOOLEAN,
           event : Events \union {NoEvent}, late : BOOLEAN]

InFlight == {"admitted", "unbinding", "running", "delivering", "notice", "lateNotice"}
HoldsSession == {"unbinding", "running", "delivering"}

\* A new flight takes the first free name.
Unused(s) ==
    /\ flight[s].step = "free"
    /\ s = CHOOSE u \in Slots : flight[u].step = "free"

Counted(what, bound) ==
    /\ used[what] < bound
    /\ used.ops + used.flights + used.restarts < MaxTotal
    /\ used' = [used EXCEPT ![what] = @ + 1]

(***************************************************************************)
(* Recording a status: _record_status writes, or fails and changes nothing *)
(***************************************************************************)
Recorded(t, status) ==
    {store} \union (IF store[t].there THEN {[store EXCEPT ![t] = Marked(@, status)]} ELSE {})

\* A flight that is over: its task leaves the in-flight set, its session is free, and a
\* caller that still waits is told so.
Leave(s) ==
    /\ inflight' = inflight \ {flight[s].task}
    /\ holder' = IF holder = s THEN None ELSE holder
    /\ pending' = pending \ {<<flight[s].source, flight[s].task>>}
    /\ flight' = [flight EXCEPT ![s] = Free]

\* Mutant: the deadline of a manual run is not looked at again.
LeaveOrWaitOn(s, now) ==
    IF flight[s].source = "manual"
    THEN /\ flight' = [flight EXCEPT ![s].step = "waiting"]
         /\ inflight' = inflight \ {flight[s].task}
         /\ store' = now
         /\ UNCHANGED <<pending, holder>>
    ELSE /\ store' = now
         /\ Leave(s)

\* A manual run that finds the session taken waits again until its deadline, and ends as
\* skipped after it.
LeaveOrWait(s, now) ==
    IF flight[s].source = "manual" /\ ~flight[s].late
    THEN /\ flight' = [flight EXCEPT ![s].step = "waiting"]
         /\ inflight' = inflight \ {flight[s].task}
         /\ store' = now
         /\ UNCHANGED <<pending, holder>>
    ELSE /\ store' = now
         /\ Leave(s)

\* Mutant: a claimed one-off task ends without a notice.
EndQuietly(s, late) == Leave(s)

\* dispatch ends with a result that was not delivered: the user of a claimed one-off task
\* is sent a notice of failure first.
EndUndelivered(s, late) ==
    IF flight[s].claimed /\ TriggerOf[flight[s].task] = "date"
    THEN /\ flight' = [flight EXCEPT ![s].step = IF late THEN "lateNotice" ELSE "notice"]
         /\ holder' = IF holder = s THEN None ELSE holder
         /\ UNCHANGED <<inflight, pending>>
    ELSE Leave(s)

Told(s) == owed' = owed \ {flight[s].task}

(***************************************************************************)
(* dispatch, up to the run of the task                                     *)
(***************************************************************************)
\* Mutant: the in-flight set is not consulted.
MayFlyAny(t) == mode # "closing"

\* The first section under the state lock: closing, in flight already, or admitted.
MayFly(t) == mode # "closing" /\ t \notin inflight

\* The scheduler fires a row; it does not start a second callback of a row whose first is
\* running.  The claim uses a one-off task up.  While the process starts, a row may fire
\* before the reconciliation has come to its task.
Fire(t, s) ==
    /\ mode \in {"starting", "up", "closing"}
    /\ jobs[t] = "active"
    /\ Unused(s)
    /\ \A f \in Slots : ~(flight[f].task = t /\ flight[f].source = "schedule")
    /\ Counted("flights", MaxFlights)
    /\ jobs' = IF TriggerOf[t] = "date" THEN [jobs EXCEPT ![t] = "none"] ELSE jobs
    /\ IF Claimable(t)
       THEN /\ store' = [store EXCEPT ![t] = ClaimedFrom(t)]
            /\ IF MayFly(t)
               THEN /\ inflight' = inflight \union {t}
                    /\ flight' = [flight EXCEPT ![s] =
                                     [Free EXCEPT !.step = "admitted", !.task = t,
                                                  !.claimed = TRUE]]
                    /\ owed' = IF TriggerOf[t] = "date" THEN owed \union {t} ELSE owed
                    /\ masked' = IF t \in boot.todo THEN masked \union {t} ELSE masked
               ELSE UNCHANGED <<inflight, flight, owed, masked>>
       ELSE UNCHANGED <<store, inflight, flight, owed, masked>>
    /\ UNCHANGED <<op, lock, mode, boot, torn, pending, holder, accepted, twice, dropped,
                   cut>>

\* submit_manual, by the turn that holds the session.
SubmitManual(t, s) ==
    /\ holder = Turn
    /\ mode = "up"
    /\ Unused(s)
    /\ Claimable(t)
    /\ <<"manual", t>> \notin pending
    /\ t \notin inflight
    /\ Counted("flights", MaxFlights)
    /\ store' = [store EXCEPT ![t] = Marked(@, "queued")]
    /\ pending' = pending \union {<<"manual", t>>}
    /\ flight' = [flight EXCEPT ![s] = [Free EXCEPT !.step = "waiting", !.task = t,
                                                   !.source = "manual"]]
    /\ UNCHANGED <<jobs, op, lock, mode, boot, torn, inflight, holder, ghosts>>

\* The clock of a manual run, which counts as long as it may have to wait again.
DeadlinePasses(s) ==
    /\ flight[s].step \in {"waiting", "admitted"}
    /\ flight[s].source = "manual"
    /\ ~flight[s].late
    /\ flight' = [flight EXCEPT ![s].late = TRUE]
    /\ UNCHANGED <<taskVars, inflight, pending, holder, ghosts, used>>

\* A waiting manual run sees the session free and dispatches.
Poll(s) ==
    LET t == flight[s].task
    IN /\ flight[s].step = "waiting"
       /\ holder = None
       /\ IF MayFly(t)
          THEN /\ flight' = [flight EXCEPT ![s].step = "admitted"]
               /\ inflight' = inflight \union {t}
               /\ UNCHANGED pending
          ELSE /\ flight' = [flight EXCEPT ![s] = Free]
               /\ pending' = pending \ {<<"manual", t>>}
               /\ UNCHANGED inflight
       /\ UNCHANGED <<taskVars, holder, ghosts, used>>

\* It sees the session taken after its deadline.  Nothing says whose run the status it
\* overwrites is.
WaitExpires(s) ==
    LET t == flight[s].task
    IN /\ flight[s].step = "waiting"
       /\ flight[s].late
       /\ holder # None
       /\ store' \in Recorded(t, "skipped")
       /\ masked' = IF store' # store /\ t \in inflight THEN masked \union {t} ELSE masked
       /\ pending' = pending \ {<<"manual", t>>}
       /\ flight' = [flight EXCEPT ![s] = Free]
       /\ UNCHANGED <<jobs, op, lock, mode, boot, torn, inflight, holder, accepted, twice,
                      dropped, cut, owed, used>>

\* submit_webhook up to the wait for the admission; refusals leave no trace.
SubmitWebhook(t, e, s) ==
    /\ mode = "up"
    /\ Unused(s)
    /\ Claimable(t)
    /\ Webhook(t)
    /\ holder = None
    /\ e \notin store[t].receipts
    /\ <<"webhook", t>> \notin pending
    /\ t \notin inflight
    /\ Counted("flights", MaxFlights)
    /\ pending' = pending \union {<<"webhook", t>>}
    /\ flight' = [flight EXCEPT ![s] = [Free EXCEPT !.step = "spawned", !.task = t,
                                  !.source = "webhook", !.event = e]]
    /\ UNCHANGED <<taskVars, inflight, holder, ghosts>>

\* The background dispatch of a webhook starts.
Spawned(s) ==
    LET t == flight[s].task
    IN /\ flight[s].step = "spawned"
       /\ mode # "closing"
       /\ IF MayFly(t)
          THEN /\ flight' = [flight EXCEPT ![s].step = "admitted"]
               /\ inflight' = inflight \union {t}
               /\ UNCHANGED pending
          ELSE /\ flight' = [flight EXCEPT ![s] = Free]
               /\ pending' = pending \ {<<"webhook", t>>}
               /\ UNCHANGED inflight
       /\ UNCHANGED <<taskVars, holder, ghosts, used>>

\* _dispatch_loaded: a claimed task is run as it was claimed.
Runnable(s) == flight[s].claimed \/ Claimable(flight[s].task)

\* The task is gone or disabled.
NotFound(s) ==
    LET t == flight[s].task
    IN /\ flight[s].step = "admitted"
       /\ ~Runnable(s)
       /\ store' \in IF store[t].there THEN Recorded(t, "skipped") ELSE {store}
       /\ Leave(s)
       /\ UNCHANGED <<jobs, op, lock, mode, boot, torn, ghosts, used>>

\* The session is taken, or an approval is pending in it.
SessionBusy(s) ==
    /\ flight[s].step = "admitted"
    /\ Runnable(s)
    /\ holder # None
    /\ \E now \in Recorded(flight[s].task, "skipped") :
          IF flight[s].claimed
          THEN store' = now /\ EndUndelivered(s, FALSE)
          ELSE LeaveOrWait(s, now)
    /\ UNCHANGED <<jobs, op, lock, mode, boot, torn, ghosts, used>>

ApprovalPending(s) ==
    /\ flight[s].step = "admitted"
    /\ Runnable(s)
    /\ holder = None
    /\ store' \in Recorded(flight[s].task, "skipped")
    /\ EndUndelivered(s, FALSE)
    /\ UNCHANGED <<jobs, op, lock, mode, boot, torn, ghosts, used>>

\* The admission of a webhook: its event is reserved, on disk, before the caller is told.
Duplicate(s) ==
    LET t == flight[s].task
        e == flight[s].event
    IN /\ flight[s].step = "admitted"
       /\ Runnable(s)
       /\ holder = None
       /\ e \in Events
       /\ ~Reservable(t, e)
       /\ Leave(s)
       /\ UNCHANGED <<taskVars, ghosts, used>>

\* The reservation, or the status "queued", cannot be written.
NotReserved(s) ==
    /\ flight[s].step = "admitted"
    /\ flight[s].source = "webhook"
    /\ Runnable(s)
    /\ holder = None
    /\ store' \in Recorded(flight[s].task, "settled")
    /\ EndUndelivered(s, FALSE)
    /\ UNCHANGED <<jobs, op, lock, mode, boot, torn, ghosts, used>>

\* Mutant: an event is reserved even when the call has no event id.
AdmittedWithEvent(s) ==
    IF flight[s].source = "webhook"
    THEN Reserved(flight[s].task, flight[s].event) ELSE store[flight[s].task]

\* What is on disk once the flight is admitted to run: the reservation of its event, or the
\* status "queued" of a webhook without one.
AdmittedTask(s) ==
    LET t == flight[s].task
    IN CASE flight[s].event # NoEvent -> Reserved(t, flight[s].event)
         [] flight[s].event = NoEvent /\ flight[s].source = "webhook" ->
                Marked(store[t], "queued")
         [] OTHER -> store[t]

Admits(s) ==
    /\ flight[s].step = "admitted"
    /\ Runnable(s)
    /\ holder = None
    /\ flight[s].event # NoEvent => Reservable(flight[s].task, flight[s].event)

Accept(s) ==
    IF flight[s].event = NoEvent
    THEN UNCHANGED <<accepted, twice>>
    ELSE LET pair == <<flight[s].task, flight[s].event>>
         IN /\ accepted' = accepted \union {pair}
            /\ twice' = IF pair \in accepted THEN twice \union {pair} ELSE twice

\* The run starts: "started" is on disk before anything is executed or delivered.
Begin(s) ==
    LET t == flight[s].task
    IN /\ Admits(s)
       /\ store[t].there
       /\ store' = [store EXCEPT ![t] = Marked(AdmittedTask(s), "started")]
       /\ flight' = [flight EXCEPT ![s].step = IF t \in Works THEN "running" ELSE "delivering"]
       /\ holder' = s
       /\ Accept(s)
       /\ cut' = [cut EXCEPT ![t] = "no"]
       /\ masked' = masked \ {t}
       /\ UNCHANGED <<jobs, op, lock, mode, boot, torn, inflight, pending, dropped, owed, used>>

\* It is not started: its record cannot be written, its text or its script is not valid, a
\* subprocess of its conversation still runs.
NotBegun(s) ==
    LET t == flight[s].task
        admitted == IF store[t].there THEN [store EXCEPT ![t] = AdmittedTask(s)] ELSE store
    IN /\ Admits(s)
       /\ store' \in {admitted} \union
             (IF store[t].there THEN {[admitted EXCEPT ![t] = Marked(@, "skipped")]} ELSE {})
       /\ EndUndelivered(s, FALSE)
       /\ Accept(s)
       /\ UNCHANGED <<jobs, op, lock, mode, boot, torn, dropped, cut, masked, owed, used>>

\* The conversation of an Agent task is archived or gone: its tasks are paused first.
Unbind(s) ==
    LET t == flight[s].task
        o == [IdleOp EXCEPT !.stage = "locking", !.kind = "archive", !.task = t]
    IN /\ Admits(s)
       /\ t \in Works
       /\ store[t].there /\ op[s].stage = "idle"
       /\ store' = [store EXCEPT ![t] = AdmittedTask(s)]
       /\ op' = IF store[t].enabled THEN [op EXCEPT ![s] = o] ELSE op
       /\ flight' = [flight EXCEPT ![s].step = "unbinding"]
       /\ holder' = s
       /\ Accept(s)
       /\ UNCHANGED <<jobs, lock, mode, boot, torn, inflight, pending, dropped, cut, masked,
                      owed, used>>

Unbound(s) ==
    /\ flight[s].step = "unbinding"
    /\ op[s].stage = "idle"
    /\ store' \in Recorded(flight[s].task, "paused")
    /\ EndUndelivered(s, FALSE)
    /\ UNCHANGED <<jobs, op, lock, mode, boot, torn, ghosts, used>>

(***************************************************************************)
(* The run, its delivery, and how it may end                               *)
(***************************************************************************)
Executed(s) ==
    /\ flight[s].step = "running"
    /\ \/ /\ store[flight[s].task].there
          /\ store' = [store EXCEPT ![flight[s].task] = Marked(@, "executed")]
          /\ flight' = [flight EXCEPT ![s].step = "delivering"]
          /\ UNCHANGED <<inflight, pending, holder>>
       \/ /\ UNCHANGED store
          /\ EndUndelivered(s, FALSE)
    /\ UNCHANGED <<jobs, op, lock, mode, boot, torn, ghosts, used>>

ExecutionFails(s) ==
    /\ flight[s].step = "running"
    /\ store' \in Recorded(flight[s].task, "settled") \union Recorded(flight[s].task, "uncertain")
    /\ EndUndelivered(s, FALSE)
    /\ UNCHANGED <<jobs, op, lock, mode, boot, torn, ghosts, used>>

Delivered(s) ==
    /\ flight[s].step = "delivering"
    /\ store' \in Recorded(flight[s].task, "settled")
    /\ Leave(s)
    /\ Told(s)
    /\ UNCHANGED <<jobs, op, lock, mode, boot, torn, accepted, twice, dropped, cut, masked, used>>

DeliveryFails(s) ==
    /\ flight[s].step = "delivering"
    /\ store' \in Recorded(flight[s].task, "deliveryUncertain")
    /\ EndUndelivered(s, FALSE)
    /\ UNCHANGED <<jobs, op, lock, mode, boot, torn, ghosts, used>>

\* 300 s are over.  An operation the flight was waiting for is cut off.
TimesOut(s) ==
    /\ flight[s].step \in HoldsSession
    /\ Abandon(s)
    /\ store' \in Recorded(flight[s].task, "uncertain")
    /\ EndUndelivered(s, TRUE)
    /\ UNCHANGED <<jobs, mode, boot, ghosts, used>>

\* The notice is sent or fails; the user is as told as can be.
Notice(s) ==
    /\ flight[s].step \in {"notice", "lateNotice"}
    /\ Leave(s)
    /\ Told(s)
    /\ UNCHANGED <<taskVars, accepted, twice, dropped, cut, masked, used>>

\* The coroutine is cancelled, by an interrupt of the session it holds or by shutdown.  One
\* that has not taken its first step ends there, and nobody answers its caller.
Cancelled(s) ==
    /\ \/ holder = s /\ mode = "up"
       \/ mode = "closing" /\ flight[s].step \notin {"free", "stranded"}
    /\ Abandon(s)
    /\ IF flight[s].step \in {"waiting", "spawned", "lateNotice"}
       THEN UNCHANGED store
       ELSE store' \in Recorded(flight[s].task, "cancelled")
    /\ IF flight[s].step = "spawned"
       THEN /\ flight' = [flight EXCEPT ![s].step = "stranded"]
            /\ pending' = pending \ {<<"webhook", flight[s].task>>}
            /\ UNCHANGED <<inflight, holder>>
       ELSE IF flight[s].step = "waiting"
       THEN /\ flight' = [flight EXCEPT ![s] = Free]
            /\ pending' = pending \ {<<"manual", flight[s].task>>}
            /\ UNCHANGED <<inflight, holder>>
       ELSE Leave(s)
    /\ Told(s)
    /\ UNCHANGED <<jobs, mode, boot, accepted, twice, dropped, cut, masked, used>>

(***************************************************************************)
(* The user's turns and commands, and what they do to the tasks            *)
(***************************************************************************)
TurnBegins ==
    /\ mode = "up"
    /\ holder = None
    /\ holder' = Turn
    /\ UNCHANGED <<taskVars, flight, inflight, pending, ghosts, used>>

TurnEnds ==
    /\ holder = Turn
    /\ op[Turn].stage = "idle"
    /\ holder' = None
    /\ UNCHANGED <<taskVars, flight, inflight, pending, ghosts, used>>

\* The statuses of tasks in flight that another coroutine overwrites.
Overwrites == masked' = masked \union {t \in inflight : store'[t].status # store[t].status}

\* What an operation does to what is known of the tasks: receipts it drops, statuses of
\* running tasks it overwrites.
Noted ==
    /\ dropped' = dropped \union {p \in accepted : p[2] \notin store'[p[1]].receipts}
    /\ Overwrites
    /\ UNCHANGED <<accepted, twice, owed>>

\* The user's operations of a task decide anew what becomes of it.
UserCalls(c, kind, t) ==
    /\ \/ c = Turn /\ holder = Turn /\ kind \in {"pause", "resume", "delete", "update"}
       \/ c = Command /\ holder = None /\ kind \in {"archive", "delete"}
    /\ mode = "up"
    /\ Counted("ops", MaxOps)
    /\ Call(c, kind, t)
    /\ cut' = [cut EXCEPT ![t] = "no"]
    /\ Noted
    /\ UNCHANGED flightVars

UserCreates(t) ==
    /\ holder = Turn
    /\ mode = "up"
    /\ t \notin used.made
    /\ Cardinality(used.made) < MaxTasks
    /\ used' = [used EXCEPT !.made = @ \union {t}]
    /\ Create(Turn, t)
    /\ UNCHANGED <<flightVars, ghosts>>

\* rotate_webhook: a new token, and no receipts of events sent with the old one.
Rotate(t) ==
    /\ holder = Turn
    /\ op[Turn].stage = "idle"
    /\ store[t].there
    /\ Webhook(t)
    /\ Counted("ops", MaxOps)
    /\ store' = [store EXCEPT ![t].receipts = {}]
    /\ Noted
    /\ UNCHANGED <<jobs, op, lock, mode, boot, torn, flightVars, cut>>

Operate(c) ==
    /\ Acquire(c) \/ Lands(c) \/ Returns(c) \/ Fails(c)
    /\ Noted
    /\ UNCHANGED <<flightVars, cut, used>>

\* An interrupt cancels the turn.  It cuts off an operation the loop has called; one that
\* was approved goes on by itself.
Interrupt ==
    /\ holder = Turn
    /\ op[Turn].stage # "idle"
    /\ holder' = None
    /\ \/ CutOff(Turn) /\ Noted
       \/ /\ op[Loose].stage = "idle"
          /\ op' = [op EXCEPT ![Loose] = op[Turn], ![Turn] = IdleOp]
          /\ lock' = IF lock = Turn THEN Loose ELSE lock
          /\ UNCHANGED <<store, jobs, mode, boot, torn, accepted, twice, dropped, masked, owed>>
    /\ UNCHANGED <<flight, inflight, pending, cut, used>>

(***************************************************************************)
(* The process                                                             *)
(***************************************************************************)
\* A flight that is executing or delivering is cut off.  A notification delivers while its
\* status is still "started".
CutBy(t) ==
    IF \E s \in Slots : flight[s].task = t /\ flight[s].step = "delivering" /\ t \in Works
    THEN "delivery"
    ELSE IF \E s \in Slots : flight[s].task = t /\ flight[s].step \in {"running", "delivering"}
    THEN "run"
    ELSE cut[t]

Silence ==
    /\ flight' = [s \in Slots |-> Free]
    /\ inflight' = {}
    /\ pending' = {}
    /\ holder' = None
    /\ owed' = {}

Crash ==
    /\ mode # "down"
    /\ Counted("restarts", MaxRestarts)
    /\ cut' = [t \in Tasks |-> CutBy(t)]
    /\ TasksDown
    /\ Silence
    /\ UNCHANGED <<accepted, twice, dropped, masked>>

\* shutdown: nothing flies from now on, and everything in flight is cancelled.
Close ==
    /\ mode = "up"
    /\ Counted("restarts", MaxRestarts)
    /\ mode' = "closing"
    /\ UNCHANGED <<store, jobs, op, lock, boot, torn, flightVars, ghosts>>

Closed ==
    /\ mode = "closing"
    /\ \A s \in Slots : flight[s].step \in {"free", "stranded"}
    /\ TasksDown
    /\ Silence
    /\ UNCHANGED <<accepted, twice, dropped, cut, masked, used>>

Boot ==
    /\ Start \/ Swept \/ (\E t \in Tasks : BootTask(t)) \/ BootLands \/ BootReturns \/ BootFails
       \/ Booted
    /\ Overwrites
    /\ UNCHANGED <<flightVars, accepted, twice, dropped, cut, owed, used>>

Fly(s) ==
    /\ mode # "closing"
    /\ \/ Poll(s) \/ WaitExpires(s) \/ Spawned(s)
       \/ NotFound(s) \/ SessionBusy(s) \/ ApprovalPending(s) \/ Duplicate(s) \/ NotReserved(s)
       \/ Begin(s) \/ NotBegun(s) \/ Unbind(s) \/ Unbound(s)
       \/ Executed(s) \/ ExecutionFails(s) \/ Delivered(s) \/ DeliveryFails(s)
       \/ TimesOut(s) \/ Notice(s)

Init ==
    /\ TasksInit
    /\ flight = [s \in Slots |-> Free]
    /\ inflight = {}
    /\ pending = {}
    /\ holder = None
    /\ accepted = {} /\ twice = {} /\ dropped = {}
    /\ cut = [t \in Tasks |-> "no"]
    /\ masked = {}
    /\ owed = {}
    /\ used = [made |-> {}, ops |-> 0, flights |-> 0, restarts |-> 0]

Next ==
    \/ \E s \in Slots : Fly(s) \/ DeadlinePasses(s) \/ Cancelled(s)
    \/ \E t \in Tasks, s \in Slots : Fire(t, s) \/ SubmitManual(t, s)
    \/ \E t \in Tasks, s \in Slots, e \in Events \union {NoEvent} : SubmitWebhook(t, e, s)
    \/ TurnBegins \/ TurnEnds \/ Interrupt
    \/ \E t \in Tasks : UserCreates(t) \/ Rotate(t)
    \/ \E t \in Tasks, kind \in Kinds : UserCalls(Turn, kind, t) \/ UserCalls(Command, kind, t)
    \/ \E c \in Controllers : Operate(c)
    \/ Boot \/ Crash \/ Close \/ Closed

Spec == Init /\ [][Next]_vars

\* A flight goes on, whatever it waits for: deadlines and timeouts see to that, and shutdown
\* cancels what it finds.
GoesOn(s) == Fly(s) \/ (mode = "closing" /\ Cancelled(s))

FairSpec == Spec /\ \A s \in Slots : WF_vars(GoesOn(s)) /\ WF_vars(DeadlinePasses(s))

(***************************************************************************)
(* Properties                                                              *)
(***************************************************************************)
TypeOK ==
    /\ store \in [Tasks -> Task]
    /\ jobs \in [Tasks -> {"none", "active", "paused"}]
    /\ op \in [Controllers -> Op]
    /\ lock \in Controllers \union {None, "boot"}
    /\ mode \in {"down", "starting", "up", "closing"}
    /\ flight \in [Slots -> Flight]
    /\ inflight \subseteq Tasks
    /\ pending \subseteq {"manual", "webhook"} \X Tasks
    /\ holder \in Slots \union {Turn, None}
    /\ torn \subseteq Tasks /\ masked \subseteq Tasks /\ owed \subseteq Tasks
    /\ cut \in [Tasks -> {"no", "run", "delivery"}]

\* The scheduler, the user's hand and webhooks race for a task: it is in flight at most
\* once, the in-flight set says so exactly, and a flight that executes or delivers holds the
\* session (dispatch, its finally clause, shutdown).
OneFlight ==
    /\ \A s, u \in Slots : flight[s].step \in InFlight /\ flight[u].step \in InFlight
                            /\ flight[s].task = flight[u].task => s = u
    /\ inflight = {flight[s].task : s \in {u \in Slots : flight[u].step \in InFlight}}
    /\ \A s \in Slots : flight[s].step \in HoldsSession <=> holder = s

\* A webhook event is accepted at most once, however often it is sent and however the
\* process ends in between, unless its receipt was discarded: by a rotation of the token, or
\* by an update that wrote back the task it had read before.
EventOnce == twice \subseteq dropped

\* A one-off task is used up by its claim; a claim that flies ends with its outcome or a
\* notice of failure told to the user, or in a cancellation.
ClaimIsAnswered ==
    \A t \in owed : \E s \in Slots : flight[s].claimed /\ flight[s].task = t

\* A task whose run was cut off by a crash is off once the process is up again, so that the
\* scheduler does not repeat what may have been done, until the user decides; unless its
\* status was overwritten while it ran (WaitExpires, an update from an old reading, an error
\* of its schedule), or its row fired before the reconciliation came to it.
CutStaysOff ==
    mode = "up" => \A t \in Tasks \ masked : cut[t] = "run" => ~Claimable(t)

\* Every flight ends: a run that hangs, a manual run that never finds the session free, a
\* webhook, whose caller waits for no longer than that; unless shutdown cancels the dispatch
\* of a webhook before its first step, which leaves the caller waiting.
EveryFlightEnds ==
    \A s \in Slots : flight[s].step # "free" ~> flight[s].step \in {"free", "stranded"}

=============================================================================
