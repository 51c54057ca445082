------------------------- MODULE ActiveTasks_proofs -------------------------
(***************************************************************************)
(* What the operations on active tasks and the startup keep, for any set   *)
(* of tasks and controllers: the types of the store, the rows and the      *)
(* operations, and that no step but the creation of a task makes one       *)
(* appear.  ProactiveDispatch_proofs cites these facts for the steps of    *)
(* the dispatcher and of the user that contain them.                       *)
(***************************************************************************)
EXTENDS ActiveTasks, TLAPS

BootRecord == [stage : {"off", "sweeping", "next", "scheduling", "pausing"},
               snap : [Tasks -> Task], todo : SUBSET Tasks, task : Tasks \union {None},
               landed : BOOLEAN]

StoreTyped == store \in [Tasks -> Task]
OpsTyped ==
    /\ op \in [Controllers -> Op]
    /\ \A c \in Controllers : op[c].stage # "idle" => op[c].task \in Tasks
    /\ \A c \in Controllers : op[c].stage = "idle" => op[c] = IdleOp
    /\ lock \in Controllers \union {None, "boot"}
RestTyped ==
    /\ jobs \in [Tasks -> {"none", "active", "paused"}]
    /\ mode \in {"down", "starting", "up", "closing"}
    /\ boot \in BootRecord
    /\ torn \subseteq Tasks

TasksTyped == StoreTyped /\ OpsTyped /\ RestTyped

\* No task appears.
NoneAppears == \A t \in Tasks : store'[t].there => store[t].there

\* No task appears and no receipt of a webhook event is lost or made up.
ReceiptsKept ==
    \A t \in Tasks : /\ store'[t].there => store[t].there
                     /\ store'[t].receipts = store[t].receipts

(***************************************************************************)
(* Records                                                                 *)
(***************************************************************************)
LEMMA TaskFields ==
    ASSUME NEW task \in Task
    PROVE  /\ task.there \in BOOLEAN /\ task.enabled \in BOOLEAN /\ task.sched \in BOOLEAN
           /\ task.status \in Statuses /\ task.receipts \subseteq Events
BY DEF Task

LEMMA AbsentType == Absent \in Task /\ Created \in Task /\ Absent.there = FALSE
BY DEF Absent, Created, Task, Statuses

\* Changes of one task by a status, a switch or a schedule.
LEMMA TaskChanged ==
    ASSUME NEW task \in Task, NEW status \in Statuses, NEW b \in BOOLEAN
    PROVE  /\ Marked(task, status) \in Task
           /\ Marked(task, status).there = task.there
           /\ Marked(task, status).receipts = task.receipts
           /\ [task EXCEPT !.enabled = b] \in Task
           /\ [task EXCEPT !.enabled = b].there = task.there
           /\ [task EXCEPT !.enabled = b].receipts = task.receipts
           /\ [task EXCEPT !.sched = b] \in Task
           /\ [task EXCEPT !.sched = b].there = task.there
           /\ [task EXCEPT !.sched = b].receipts = task.receipts
           /\ [task EXCEPT !.status = status, !.enabled = b] \in Task
           /\ [task EXCEPT !.status = status, !.enabled = b].there = task.there
           /\ [task EXCEPT !.status = status, !.enabled = b].receipts = task.receipts
BY DEF Task, Marked

\* A store in which one task has become another value.
LEMMA StoreChanged ==
    ASSUME StoreTyped, NEW t \in Tasks, NEW task \in Task,
           store' = [store EXCEPT ![t] = task]
    PROVE  /\ StoreTyped'
           /\ (task.there => store[t].there) => NoneAppears
           /\ (task.there => store[t].there) /\ task.receipts = store[t].receipts
                 => ReceiptsKept
BY DEF StoreTyped, NoneAppears, ReceiptsKept

LEMMA StoreSame ==
    ASSUME StoreTyped, UNCHANGED store
    PROVE  StoreTyped' /\ NoneAppears /\ ReceiptsKept
BY DEF StoreTyped, NoneAppears, ReceiptsKept

LEMMA IdleOpType == IdleOp \in Op /\ IdleOp.stage = "idle"
BY AbsentType DEF IdleOp, Op, Stages, Kinds

\* An operation on its way to a stage.
LEMMA OpChanged ==
    ASSUME NEW o \in Op, NEW stage \in Stages, NEW b \in BOOLEAN
    PROVE  /\ [o EXCEPT !.stage = stage, !.landed = b] \in Op
           /\ [o EXCEPT !.stage = stage, !.landed = b].task = o.task
           /\ [o EXCEPT !.stage = stage, !.landed = b].stage = stage
           /\ [o EXCEPT !.landed = b] \in Op
           /\ [o EXCEPT !.landed = b].task = o.task
           /\ [o EXCEPT !.landed = b].stage = o.stage
           /\ [o EXCEPT !.removed = b] \in Op
           /\ [o EXCEPT !.removed = b].task = o.task
BY DEF Op

LEMMA OpFields ==
    ASSUME NEW o \in Op
    PROVE  /\ o.stage \in Stages /\ o.kind \in Kinds /\ o.task \in Tasks \union {None}
           /\ o.seen \in Task /\ o.landed \in BOOLEAN /\ o.removed \in BOOLEAN
BY DEF Op

LEMMA AwaitTyped ==
    ASSUME OpsTyped, NEW c \in Controllers, NEW o \in Op, o.task \in Tasks,
           NEW stage \in Stages \ {"idle"}, Await(c, o, stage)
    PROVE  OpsTyped'
<1>1. [o EXCEPT !.stage = stage, !.landed = FALSE] \in Op
      /\ [o EXCEPT !.stage = stage, !.landed = FALSE].task = o.task
      /\ [o EXCEPT !.stage = stage, !.landed = FALSE].stage = stage
  BY OpChanged
<1> QED BY <1>1 DEF OpsTyped, Await

LEMMA FinishTyped ==
    ASSUME OpsTyped, NEW c \in Controllers, Finish(c)
    PROVE  OpsTyped'
BY IdleOpType DEF OpsTyped, Finish

(***************************************************************************)
(* Operations                                                              *)
(***************************************************************************)
LEMMA RedefinedType ==
    ASSUME NEW t \in Tasks, NEW seen \in Task
    PROVE  Redefined(t, seen) \in Task
BY TaskChanged DEF Redefined, Task

LEMMA ReplaceTyped ==
    ASSUME StoreTyped, OpsTyped, NEW c \in Controllers, NEW o \in Op, o.task \in Tasks,
           store[o.task].there, Replace(c, o)
    PROVE  StoreTyped' /\ OpsTyped' /\ NoneAppears
<1>1. StoreTyped' /\ NoneAppears
  BY RedefinedType, StoreChanged, OpFields DEF Replace
<1>2. OpsTyped'
  <2>1. CASE Await(c, o, "scheduling")
    BY <2>1, AwaitTyped DEF Stages
  <2>2. CASE Finish(c)
    BY <2>2, FinishTyped
  <2> QED BY <2>1, <2>2 DEF Replace
<1> QED BY <1>1, <1>2

LEMMA EnterTyped ==
    ASSUME StoreTyped, OpsTyped, NEW c \in Controllers, NEW o \in Op, o.task \in Tasks,
           Enter(c, o)
    PROVE  StoreTyped' /\ OpsTyped' /\ NoneAppears /\ UNCHANGED <<jobs, mode, boot, torn>>
<1> DEFINE t == o.task
<1>0. store[t] \in Task
  BY DEF StoreTyped
<1>1. CASE EnterPause(c, o)
  <2> DEFINE off == [store[t] EXCEPT !.enabled = FALSE]
  <2>1. /\ off \in Task /\ off.there = store[t].there
        /\ Marked(off, "paused") \in Task /\ Marked(off, "paused").there = store[t].there
    <3>1. off \in Task /\ off.there = store[t].there
      BY <1>0, TaskChanged DEF Statuses
    <3>2. "paused" \in Statuses
      BY DEF Statuses
    <3> HIDE DEF off
    <3> QED BY <3>1, <3>2, TaskChanged
  <2>2. \/ store' = [store EXCEPT ![t] = off]
        \/ store' = [store EXCEPT ![t] = Marked(off, "paused")]
    BY <1>1 DEF EnterPause
  <2>3. StoreTyped' /\ NoneAppears
    <3> HIDE DEF off
    <3> QED BY <2>1, <2>2, StoreChanged
  <2>4. OpsTyped'
    BY <1>1, AwaitTyped, FinishTyped DEF EnterPause, Stages
  <2> QED BY <2>3, <2>4 DEF Enter
<1>2. CASE EnterResume(c, o)
  <2>1. \/ store' = [store EXCEPT ![t] = Marked(store[t], "missed")]
        \/ store' = [store EXCEPT ![t] = [store[t] EXCEPT !.enabled = TRUE]]
    BY <1>2 DEF EnterResume
  <2>2. StoreTyped' /\ NoneAppears
    <3>1. "missed" \in Statuses
      BY DEF Statuses
    <3>2. /\ Marked(store[t], "missed") \in Task
          /\ Marked(store[t], "missed").there = store[t].there
          /\ [store[t] EXCEPT !.enabled = TRUE] \in Task
          /\ [store[t] EXCEPT !.enabled = TRUE].there = store[t].there
      BY <1>0, <3>1, TaskChanged
    <3> QED BY <2>1, <3>2, StoreChanged
  <2>3. OpsTyped'
    BY <1>2, AwaitTyped, FinishTyped DEF EnterResume, Stages
  <2> QED BY <2>2, <2>3 DEF Enter
<1>3. CASE EnterDelete(c, o)
  <2>1. StoreTyped' /\ NoneAppears
    BY <1>3, AbsentType, StoreChanged DEF EnterDelete
  <2>2. OpsTyped'
    BY <1>3, AwaitTyped, FinishTyped DEF EnterDelete, Stages
  <2> QED BY <2>1, <2>2 DEF Enter
<1>4. CASE EnterCreate(c, o)
  <2>1. OpsTyped'
    BY <1>4, AwaitTyped DEF EnterCreate, Stages
  <2> QED BY <1>4, <2>1, StoreSame DEF Enter, EnterCreate
<1>5. CASE EnterUpdate(c, o)
  <2>1. CASE store[t].there /\ Replace(c, o)
    BY <2>1, ReplaceTyped DEF Enter
  <2>2. CASE UNCHANGED store /\ ~(store[t].there /\ Replace(c, o))
    <3>1. OpsTyped'
      BY <1>5, <2>2, AwaitTyped, FinishTyped DEF EnterUpdate, Stages
    <3> QED BY <2>2, <3>1, StoreSame DEF Enter
  <2> QED BY <1>5, <2>1, <2>2 DEF EnterUpdate
<1>6. CASE Gone(c, o)
  BY <1>6, FinishTyped, StoreSame DEF Gone, Enter
<1> QED BY <1>1, <1>2, <1>3, <1>4, <1>5, <1>6 DEF Enter

LEMMA CallTyped ==
    ASSUME StoreTyped, OpsTyped, NEW c \in Controllers, NEW kind \in Kinds, NEW t \in Tasks,
           Call(c, kind, t)
    PROVE  StoreTyped' /\ OpsTyped' /\ NoneAppears /\ UNCHANGED <<jobs, mode, boot, torn>>
<1> DEFINE o == [IdleOp EXCEPT !.stage = "locking", !.kind = kind, !.task = t,
                     !.seen = IF kind = "update" THEN store[t] ELSE Absent]
<1>1. o \in Op /\ o.task = t /\ o.stage = "locking"
  BY AbsentType, IdleOpType DEF StoreTyped, Op, Stages
<1>2. \/ Enter(c, o)
      \/ op' = [op EXCEPT ![c] = o] /\ UNCHANGED <<store, jobs, lock, mode, boot, torn>>
  BY DEF Call
<1> HIDE DEF o
<1>3. CASE Enter(c, o)
  BY <1>1, <1>3, EnterTyped
<1>4. CASE op' = [op EXCEPT ![c] = o] /\ UNCHANGED <<store, jobs, lock, mode, boot, torn>>
  BY <1>1, <1>4, StoreSame DEF OpsTyped
<1> QED BY <1>2, <1>3, <1>4

LEMMA CreateTyped ==
    ASSUME StoreTyped, OpsTyped, NEW c \in Controllers, NEW t \in Tasks, Create(c, t)
    PROVE  /\ StoreTyped' /\ OpsTyped' /\ UNCHANGED <<jobs, mode, boot, torn>>
           /\ \A u \in Tasks \ {t} : store'[u] = store[u]
<1> DEFINE o == [IdleOp EXCEPT !.stage = "locking", !.kind = "create", !.task = t]
<1>1. o \in Op /\ o.task = t /\ o.stage = "locking"
  BY IdleOpType DEF Op, Stages, Kinds
<1>2. /\ \/ UNCHANGED <<op, lock>>
         \/ Await(c, o, "scheduling")
         \/ op' = [op EXCEPT ![c] = o] /\ UNCHANGED lock
      /\ store' = [store EXCEPT ![t] = Created] /\ UNCHANGED <<jobs, mode, boot, torn>>
  BY DEF Create
<1> HIDE DEF o
<1>3. StoreTyped' /\ \A u \in Tasks \ {t} : store'[u] = store[u]
  BY <1>2, AbsentType, StoreChanged DEF StoreTyped
<1>4. CASE UNCHANGED <<op, lock>> \/ (op' = [op EXCEPT ![c] = o] /\ UNCHANGED lock)
  BY <1>1, <1>2, <1>3, <1>4 DEF OpsTyped
<1>5. CASE Await(c, o, "scheduling")
  <2>1. "scheduling" \in Stages \ {"idle"}
    BY DEF Stages
  <2> QED BY <1>1, <1>2, <1>3, <1>5, <2>1, AwaitTyped
<1> QED BY <1>2, <1>4, <1>5

LEMMA AcquireTyped ==
    ASSUME StoreTyped, OpsTyped, NEW c \in Controllers, Acquire(c)
    PROVE  StoreTyped' /\ OpsTyped' /\ NoneAppears /\ UNCHANGED <<jobs, mode, boot, torn>>
<1>1. op[c] \in Op /\ op[c].task \in Tasks
  BY DEF OpsTyped, Acquire
<1> QED BY <1>1, EnterTyped DEF Acquire

LEMMA RowType ==
    ASSUME NEW stage, NEW row \in {"none", "active", "paused"}
    PROVE  RowAfter(stage, row) \in {"none", "active", "paused"}
BY DEF RowAfter

LEMMA LandsTyped ==
    ASSUME TasksTyped, NEW c \in Controllers, Lands(c)
    PROVE  TasksTyped' /\ ReceiptsKept
<1>1. /\ op[c] \in Op /\ op[c].task \in Tasks
      /\ [op[c] EXCEPT !.landed = TRUE] \in Op
      /\ [op[c] EXCEPT !.landed = TRUE].task = op[c].task
      /\ [op[c] EXCEPT !.landed = TRUE].stage = op[c].stage
  <2>1. op[c] \in Op /\ op[c].task \in Tasks
    BY DEF TasksTyped, OpsTyped, Lands
  <2>2. op[c].stage \in Stages /\ TRUE \in BOOLEAN
    BY <2>1, OpFields
  <2> QED BY <2>1, <2>2, OpChanged
<1>2. /\ op' = [op EXCEPT ![c] = [op[c] EXCEPT !.landed = TRUE]]
      /\ jobs' = [jobs EXCEPT ![op[c].task] = RowAfter(op[c].stage, jobs[op[c].task])]
      /\ UNCHANGED <<store, lock, mode, boot, torn>>
  BY DEF Lands
<1>3. OpsTyped'
  BY <1>1, <1>2 DEF TasksTyped, OpsTyped, Lands
<1>4. jobs' \in [Tasks -> {"none", "active", "paused"}]
  BY <1>1, <1>2, RowType DEF TasksTyped, RestTyped
<1> QED BY <1>2, <1>3, <1>4, StoreSame DEF TasksTyped, RestTyped

\* What the end of a failed update makes of the store and its operation.
LEMMA RestoreTyped ==
    ASSUME StoreTyped, OpsTyped, NEW c \in Controllers, NEW o \in Op, o.task \in Tasks,
           Restore(c, o)
    PROVE  StoreTyped' /\ OpsTyped' /\ NoneAppears
<1>1. CASE ~store[o.task].there
  BY <1>1, StoreSame, FinishTyped DEF Restore
<1>2. CASE store[o.task].there
  <2>1. o.seen \in Task /\ [o.seen EXCEPT !.sched = FALSE] \in Task
    BY OpFields, TaskChanged DEF Statuses
  <2>2. \/ store' = [store EXCEPT ![o.task] = o.seen]
        \/ store' = [store EXCEPT ![o.task] = [o.seen EXCEPT !.sched = FALSE]]
    BY <1>2 DEF Restore
  <2>3. StoreTyped' /\ NoneAppears
    BY <1>2, <2>1, <2>2, StoreChanged
  <2>4. OpsTyped'
    BY <1>2, AwaitTyped, FinishTyped DEF Restore, Stages
  <2> QED BY <2>3, <2>4
<1> QED BY <1>1, <1>2

LEMMA ReturnsTyped ==
    ASSUME TasksTyped, NEW c \in Controllers, Returns(c), op[c].stage # "idle"
    PROVE  TasksTyped' /\ NoneAppears
<1> DEFINE o == op[c]
           t == op[c].task
<1>1. o \in Op /\ t \in Tasks /\ o.seen \in Task /\ store[t] \in Task
  BY OpFields DEF TasksTyped, OpsTyped, StoreTyped
<1>2. StoreTyped /\ OpsTyped
  BY DEF TasksTyped
<1>3. UNCHANGED <<jobs, mode, boot>> /\ torn' \in {torn \ {t}, torn \union {t}, torn}
  BY DEF Returns
<1>4. RestTyped'
  BY <1>1, <1>3 DEF RestTyped, TasksTyped
<1>5. StoreTyped' /\ OpsTyped' /\ NoneAppears
  <2>1. CASE o.stage = "pausing"
    <3>1. Marked(store[t], "paused") \in Task /\ Marked(store[t], "paused").there = store[t].there
      BY <1>1, TaskChanged DEF Statuses
    <3>2. \/ UNCHANGED store
          \/ store' = [store EXCEPT ![t] = Marked(store[t], "paused")]
      BY <2>1 DEF Returns
    <3>3. Finish(c)
      BY <2>1 DEF Returns
    <3> QED BY <1>1, <1>2, <3>1, <3>2, <3>3, StoreSame, StoreChanged, FinishTyped
  <2>2. CASE o.stage \in {"scheduling", "restoring"}
    <3>1. [store[t] EXCEPT !.sched = TRUE] \in Task
          /\ [store[t] EXCEPT !.sched = TRUE].there = store[t].there
      BY <1>1, TaskChanged DEF Statuses
    <3>2. store' = [store EXCEPT ![t] = [store[t] EXCEPT !.sched = TRUE]] /\ Finish(c)
      BY <2>2 DEF Returns
    <3> QED BY <1>1, <1>2, <3>1, <3>2, StoreChanged, FinishTyped
  <2>3. CASE o.stage = "removing"
    BY <1>1, <1>2, <2>3, AbsentType, StoreChanged, FinishTyped DEF Returns
  <2>4. CASE o.stage = "replacing"
    <3> DEFINE p == [o EXCEPT !.removed = TRUE]
    <3>1. p \in Op /\ p.task = t
      BY <1>1 DEF Op
    <3>2. \/ store[t].there /\ Replace(c, p)
          \/ Await(c, p, "undoing") /\ UNCHANGED store
      BY <2>4 DEF Returns
    <3>3. "undoing" \in Stages \ {"idle"}
      BY DEF Stages
    <3> HIDE DEF p
    <3> QED BY <1>1, <1>2, <3>1, <3>2, <3>3, ReplaceTyped, AwaitTyped, StoreSame
  <2>5. CASE o.stage = "undoing"
    BY <1>1, <1>2, <2>5, RestoreTyped DEF Returns
  <2>6. o.stage \in {"pausing", "scheduling", "restoring", "removing", "replacing", "undoing"}
    BY DEF Returns
  <2> QED BY <2>1, <2>2, <2>3, <2>4, <2>5, <2>6
<1> QED BY <1>4, <1>5 DEF TasksTyped

LEMMA FailsTyped ==
    ASSUME TasksTyped, NEW c \in Controllers, Fails(c)
    PROVE  TasksTyped' /\ NoneAppears
<1> DEFINE o == op[c]
           t == op[c].task
<1>1. o \in Op /\ t \in Tasks /\ store[t] \in Task
  BY OpFields DEF TasksTyped, OpsTyped, StoreTyped, Fails
<1>2. StoreTyped /\ OpsTyped
  BY DEF TasksTyped
<1>3. UNCHANGED <<jobs, mode, boot>> /\ torn' \in {torn \union {t}, torn}
  BY DEF Fails
<1>4. RestTyped'
  BY <1>1, <1>3 DEF RestTyped, TasksTyped
<1>5. StoreTyped' /\ OpsTyped' /\ NoneAppears
  <2>1. \/ Finish(c) /\ UNCHANGED store
        \/ Finish(c) /\ store' = [store EXCEPT ![t] = [store[t] EXCEPT !.enabled = FALSE]]
        \/ Await(c, o, "removing") /\ UNCHANGED store
        \/ Await(c, o, "undoing") /\ UNCHANGED store
        \/ Finish(c) /\ store' = [store EXCEPT ![t] = Absent]
        \/ Restore(c, o)
    BY DEF Fails
  <2>2. [store[t] EXCEPT !.enabled = FALSE] \in Task
        /\ [store[t] EXCEPT !.enabled = FALSE].there = store[t].there
    BY <1>1, TaskChanged DEF Statuses
  <2>3. "removing" \in Stages \ {"idle"} /\ "undoing" \in Stages \ {"idle"}
    BY DEF Stages
  <2>4. CASE Finish(c) /\ store' = [store EXCEPT ![t] = [store[t] EXCEPT !.enabled = FALSE]]
    BY <1>1, <1>2, <2>2, <2>4, StoreChanged, FinishTyped
  <2>5. CASE Finish(c) /\ store' = [store EXCEPT ![t] = Absent]
    BY <1>1, <1>2, <2>5, AbsentType, StoreChanged, FinishTyped
  <2>6. CASE Restore(c, o)
    BY <1>1, <1>2, <2>6, RestoreTyped
  <2>7. CASE UNCHANGED store /\ (Finish(c) \/ Await(c, o, "removing") \/ Await(c, o, "undoing"))
    BY <1>1, <1>2, <2>3, <2>7, StoreSame, FinishTyped, AwaitTyped
  <2> QED BY <2>1, <2>4, <2>5, <2>6, <2>7
<1> QED BY <1>4, <1>5 DEF TasksTyped

\* An operation that is cut off: what it has asked for is left as it is.
LEMMA AbandonTyped ==
    ASSUME OpsTyped, RestTyped, NEW c \in Controllers, Abandon(c), UNCHANGED <<jobs, mode, boot>>
    PROVE  OpsTyped' /\ RestTyped'
<1>1. Torn(c) \subseteq Tasks \/ op[c].stage = "idle"
  BY DEF OpsTyped, Torn
<1>2. op[c].stage = "idle" => Torn(c) = {}
  BY DEF OpsTyped, Torn, IdleOp
<1> QED BY <1>1, <1>2, IdleOpType DEF OpsTyped, RestTyped, Abandon

LEMMA CutOffTyped ==
    ASSUME TasksTyped, NEW c \in Controllers, CutOff(c)
    PROVE  TasksTyped' /\ NoneAppears
<1>1. OpsTyped' /\ RestTyped'
  BY AbandonTyped DEF TasksTyped, CutOff
<1>2. op[c].task \in Tasks
  BY DEF TasksTyped, OpsTyped, CutOff
<1>3. UNCHANGED store \/ store' = [store EXCEPT ![op[c].task] = Absent]
  BY DEF CutOff
<1>4. StoreTyped' /\ NoneAppears
  BY <1>2, <1>3, AbsentType, StoreChanged, StoreSame DEF TasksTyped
<1> QED BY <1>1, <1>4 DEF TasksTyped

(***************************************************************************)
(* Startup                                                                 *)
(***************************************************************************)
LEMMA RecoveredType ==
    ASSUME NEW seen \in Task, NEW now \in Task
    PROVE  /\ Recovered(seen, now) \in Task /\ Missed(now) \in Task
           /\ Missed(now).there = now.there /\ Missed(now).receipts = now.receipts
           /\ Recovered(seen, now) # seen =>
                 /\ Recovered(seen, now).there = now.there
                 /\ Recovered(seen, now).receipts = now.receipts
<1>1. {"uncertain", "deliveryUncertain", "missed"} \subseteq Statuses /\ FALSE \in BOOLEAN
  BY DEF Statuses
<1> QED BY <1>1, TaskChanged DEF Recovered, Missed

LEMMA BootFields ==
    ASSUME boot \in BootRecord
    PROVE  /\ boot.snap \in [Tasks -> Task] /\ boot.todo \subseteq Tasks
           /\ boot.task \in Tasks \union {None} /\ boot.landed \in BOOLEAN
           /\ boot.stage \in {"off", "sweeping", "next", "scheduling", "pausing"}
BY DEF BootRecord

LEMMA NoBootType == NoBoot \in BootRecord
BY AbsentType DEF NoBoot, BootRecord

LEMMA StartTyped ==
    ASSUME TasksTyped, Start
    PROVE  TasksTyped' /\ ReceiptsKept
<1>1. boot' \in BootRecord
  BY NoBootType DEF Start, BootRecord, TasksTyped, StoreTyped
<1> QED BY <1>1, StoreSame DEF Start, TasksTyped, OpsTyped, RestTyped

LEMMA SweptTyped ==
    ASSUME TasksTyped, Swept
    PROVE  TasksTyped' /\ ReceiptsKept
<1>1. boot' \in BootRecord
  BY DEF Swept, BootRecord, TasksTyped, RestTyped
<1>2. jobs' \in [Tasks -> {"none", "active", "paused"}]
  BY DEF Swept, TasksTyped, RestTyped
<1> QED BY <1>1, <1>2, StoreSame DEF Swept, TasksTyped, OpsTyped, RestTyped

LEMMA BootTaskTyped ==
    ASSUME TasksTyped, NEW t \in Tasks, BootTask(t)
    PROVE  TasksTyped' /\ ReceiptsKept
<1> DEFINE seen == boot.snap[t]
           task == Recovered(seen, store[t])
<1>1. seen \in Task /\ store[t] \in Task
  BY BootFields DEF TasksTyped, RestTyped, StoreTyped
<1>2. \/ UNCHANGED store
      \/ store' = [store EXCEPT ![t] = Missed(store[t])]
      \/ task # seen /\ store' = [store EXCEPT ![t] = task]
  BY DEF BootTask
<1>3. boot' \in BootRecord
  <2>1. PICK stage \in {"scheduling", "pausing"} :
           \/ boot' = [boot EXCEPT !.todo = boot.todo \ {t}]
           \/ boot' = [boot EXCEPT !.todo = boot.todo \ {t}, !.task = t, !.landed = FALSE,
                                   !.stage = stage]
    BY Zenon DEF BootTask
  <2>2. boot \in BootRecord
    BY DEF TasksTyped, RestTyped
  <2> QED BY <2>1, <2>2 DEF BootRecord
<1>4. UNCHANGED <<jobs, op, lock, mode, torn>>
  BY DEF BootTask
<1>5. /\ task \in Task /\ Missed(store[t]) \in Task
      /\ Missed(store[t]).there = store[t].there
      /\ Missed(store[t]).receipts = store[t].receipts
      /\ task # seen => task.there = store[t].there /\ task.receipts = store[t].receipts
  BY <1>1, RecoveredType
<1> HIDE DEF task, seen
<1>6. StoreTyped' /\ ReceiptsKept
  BY <1>2, <1>5, StoreSame, StoreChanged DEF TasksTyped
<1> QED BY <1>3, <1>4, <1>6 DEF TasksTyped, OpsTyped, RestTyped

LEMMA BootRestTyped ==
    ASSUME TasksTyped, BootLands \/ BootReturns \/ BootFails \/ Booted
    PROVE  TasksTyped' /\ ReceiptsKept
<1>0. boot \in BootRecord /\ StoreTyped /\ OpsTyped /\ RestTyped
  BY DEF TasksTyped, RestTyped
<1>1. CASE BootLands
  <2>1. boot' \in BootRecord
    BY <1>0, <1>1 DEF BootLands, BootRecord
  <2>2. jobs' \in [Tasks -> {"none", "active", "paused"}]
    BY <1>0, <1>1, BootFields, RowType DEF BootLands, RestTyped
  <2> QED BY <1>0, <1>1, <2>1, <2>2, StoreSame DEF BootLands, TasksTyped, OpsTyped, RestTyped
<1>2. CASE BootReturns
  <2> DEFINE t == boot.task
             task == [store[t] EXCEPT !.sched = TRUE]
  <2>1. boot' \in BootRecord
    BY <1>0, <1>2 DEF BootReturns, BootRecord
  <2>2. UNCHANGED store \/ store' = [store EXCEPT ![t] = task]
    BY <1>2 DEF BootReturns
  <2>3. ASSUME t \in Tasks PROVE StoreTyped' /\ ReceiptsKept
    <3>1. task \in Task /\ task.there = store[t].there /\ task.receipts = store[t].receipts
      BY <1>0, <2>3, TaskChanged DEF StoreTyped, Statuses
    <3> HIDE DEF task
    <3> QED BY <1>0, <2>2, <2>3, <3>1, StoreSame, StoreChanged
  <2>4. ASSUME t \notin Tasks PROVE StoreTyped' /\ ReceiptsKept
    BY <1>0, <2>2, <2>4, StoreSame DEF StoreTyped
  <2>5. torn' \subseteq Tasks /\ UNCHANGED <<jobs, op, lock, mode>>
    BY <1>0, <1>2 DEF BootReturns, RestTyped
  <2> QED BY <1>0, <2>1, <2>3, <2>4, <2>5 DEF TasksTyped, OpsTyped, RestTyped
<1>3. CASE BootFails
  <2> DEFINE t == boot.task
             task == Marked(store[t], "scheduleError")
  <2>1. boot' \in BootRecord
    BY <1>0, <1>3 DEF BootFails, BootRecord
  <2>2. t \in Tasks /\ store' = [store EXCEPT ![t] = task]
    BY <1>0, <1>3, BootFields DEF BootFails
  <2>3. StoreTyped' /\ ReceiptsKept
    <3>1. task \in Task /\ task.there = store[t].there /\ task.receipts = store[t].receipts
      BY <1>0, <2>2, TaskChanged DEF StoreTyped, Statuses
    <3> HIDE DEF task
    <3> QED BY <1>0, <2>2, <3>1, StoreChanged
  <2>4. torn' \subseteq Tasks /\ UNCHANGED <<jobs, op, lock, mode>>
    BY <1>0, <1>3, <2>2 DEF BootFails, RestTyped
  <2> QED BY <1>0, <2>1, <2>3, <2>4 DEF TasksTyped, OpsTyped, RestTyped
<1>4. CASE Booted
  BY <1>0, <1>4, NoBootType, StoreSame DEF Booted, TasksTyped, OpsTyped, RestTyped
<1> QED BY <1>1, <1>2, <1>3, <1>4

(***************************************************************************)
(* The process                                                             *)
(***************************************************************************)
LEMMA TasksStart ==
    ASSUME TasksInit
    PROVE  TasksTyped
BY AbsentType, IdleOpType, NoBootType DEF TasksInit, TasksTyped, StoreTyped, OpsTyped, RestTyped

LEMMA TasksDownTyped ==
    ASSUME TasksTyped, TasksDown
    PROVE  TasksTyped' /\ ReceiptsKept
<1>1. \A c \in Controllers : Torn(c) \subseteq Tasks
  <2> TAKE c \in Controllers
  <2>1. op[c].stage = "idle" => Torn(c) = {}
    BY DEF TasksTyped, OpsTyped, Torn, IdleOp
  <2> QED BY <2>1 DEF TasksTyped, OpsTyped, Torn
<1>2. OpsTyped'
  BY IdleOpType DEF TasksDown, OpsTyped
<1>3. RestTyped'
  BY <1>1, NoBootType DEF TasksDown, TasksTyped, RestTyped
<1>4. StoreTyped' /\ ReceiptsKept
  BY StoreSame DEF TasksDown, TasksTyped
<1> QED BY <1>2, <1>3, <1>4 DEF TasksTyped

(***************************************************************************)
(* Rows: an enabled task has one that fires (EnabledHasRow)                *)
(***************************************************************************)
Off(task) == ~(task.there /\ task.enabled)
HasRow(t) == Claimable(t) => jobs[t] = "active"

\* An operation that has the lock.
Active(c) == op[c].stage \notin {"idle", "locking"}

\* Creates of t that wait for the lock, by others than c.
CreateWaits(t, c) ==
    \E d \in Controllers \ {c} : op[d].task = t /\ op[d].stage = "locking" /\ op[d].kind = "create"

\* What excuses an enabled task without a row.
Changing(t) ==
    \E c \in Controllers : /\ op[c].task = t
                           /\ Active(c) \/ (op[c].stage = "locking" /\ op[c].kind = "create")

BootHolds ==
    /\ mode = "starting" <=> boot.stage # "off"
    /\ mode = "starting" => lock = "boot" /\ \A t \in Tasks : Claimable(t) => ~Off(boot.snap[t])
    /\ mode # "starting" => boot.task = None /\ boot.todo = {}
    /\ boot.task # None => boot.stage \in {"scheduling", "pausing"} /\ boot.task \notin boot.todo
    /\ boot.landed => boot.task # None

LocksHold ==
    /\ \A c \in Controllers : Active(c) => lock = c
    /\ mode = "down" => \A c \in Controllers : op[c].stage = "idle"

\* What has paused a row knows the task to be off; what has scheduled one finds it there, or
\* the task claimed and used up.
RowHolds(t) ==
    /\ /\ mode # "down" /\ t \notin boot.todo /\ boot.task # t
       /\ t \notin torn /\ ~Changing(t)
       => HasRow(t)
    /\ \A c \in Controllers : op[c].task = t =>
          /\ op[c].stage = "pausing" => ~Claimable(t)
          /\ op[c].stage \in {"scheduling", "restoring"} /\ op[c].landed => HasRow(t)
    /\ boot.task = t => /\ boot.stage = "pausing" => ~Claimable(t)
                        /\ boot.stage = "scheduling" /\ boot.landed => HasRow(t)

RowInv == BootHolds /\ LocksHold /\ \A t \in Tasks : Webhook(t) \/ RowHolds(t)

\* A status, a schedule or receipts do not switch a task.
LEMMA TaskSwitch ==
    ASSUME NEW task \in Task, NEW status \in Statuses, NEW b \in BOOLEAN, NEW r \in SUBSET Events
    PROVE  /\ Marked(task, status).enabled = task.enabled
           /\ Marked(task, status).there = task.there
           /\ Marked(task, status).status = status
           /\ [task EXCEPT !.sched = b].enabled = task.enabled
           /\ [task EXCEPT !.sched = b].there = task.there
           /\ [task EXCEPT !.sched = b].status = task.status
           /\ [task EXCEPT !.enabled = b].enabled = b
           /\ [task EXCEPT !.enabled = b].there = task.there
           /\ [task EXCEPT !.enabled = b].status = task.status
           /\ [task EXCEPT !.receipts = r].enabled = task.enabled
           /\ [task EXCEPT !.receipts = r].there = task.there
           /\ [task EXCEPT !.receipts = r].status = task.status
BY DEF Task, Marked

\* A step that switches no task on, and takes no row from one that is on.
LEMMA RowsSame ==
    ASSUME RowInv, UNCHANGED <<op, lock, mode, boot, torn>>,
           \A t \in Tasks : Claimable(t)' => Claimable(t) /\ jobs'[t] = jobs[t]
    PROVE  RowInv'
<1>1. BootHolds'
  BY DEF RowInv, BootHolds
<1>2. LocksHold'
  BY DEF RowInv, LocksHold, Active
<1>3. ASSUME NEW t \in Tasks, ~Webhook(t)
      PROVE  RowHolds(t)'
  <2>1. RowHolds(t)
    BY <1>3 DEF RowInv
  <2>2. HasRow(t) => HasRow(t)'
    BY DEF HasRow
  <2>3. Changing(t)' <=> Changing(t)
    BY DEF Changing, Active
  <2> QED BY <2>1, <2>2, <2>3 DEF RowHolds
<1> QED BY <1>1, <1>2, <1>3 DEF RowInv, Webhook

\* An operation is cut off.
LEMMA RowsAbandoned ==
    ASSUME TasksTyped, RowInv, NEW c \in Controllers, Abandon(c), UNCHANGED <<jobs, mode, boot>>,
           \A t \in Tasks : Claimable(t)' => Claimable(t)
    PROVE  RowInv'
<1>0. /\ op' = [op EXCEPT ![c] = IdleOp] /\ op \in [Controllers -> Op]
      /\ lock' = IF lock = c THEN None ELSE lock
      /\ torn' = torn \union Torn(c)
      /\ IdleOp.stage = "idle"
  BY IdleOpType DEF Abandon, TasksTyped, OpsTyped
<1>1. BootHolds'
  BY <1>0, BootIsNobody DEF RowInv, BootHolds
<1>2. LocksHold'
  BY <1>0 DEF RowInv, LocksHold, Active
<1>3. ASSUME NEW t \in Tasks, ~Webhook(t)
      PROVE  RowHolds(t)'
  <2>1. RowHolds(t)
    BY <1>3 DEF RowInv
  <2>2. HasRow(t) => HasRow(t)'
    BY DEF HasRow
  <2>3. t \notin torn' => t \notin torn /\ (Changing(t) => Changing(t)')
    BY <1>0 DEF Changing, Active, Torn
  <2>4. \A d \in Controllers : op'[d].stage # "idle" => op'[d] = op[d]
    BY <1>0
  <2> QED BY <2>1, <2>2, <2>3, <2>4 DEF RowHolds
<1> QED BY <1>1, <1>2, <1>3 DEF RowInv, Webhook

LEMMA RowsCutOff ==
    ASSUME TasksTyped, RowInv, NEW c \in Controllers, CutOff(c)
    PROVE  RowInv'
<1>1. \A t \in Tasks : Claimable(t)' => Claimable(t)
  BY DEF CutOff, Claimable, Absent, TasksTyped, StoreTyped
<1> QED BY <1>1, RowsAbandoned DEF CutOff

\* An operation that begins to wait for the lock; the record of a new task is there already.
LEMMA RowsWait ==
    ASSUME TasksTyped, RowInv, NEW c \in Controllers, NEW p \in Op, op[c].stage = "idle",
           p.stage = "locking", op' = [op EXCEPT ![c] = p], mode # "down",
           UNCHANGED <<jobs, lock, mode, boot, torn>>,
           \A t \in Tasks : \/ Claimable(t)' => Claimable(t)
                            \/ /\ p.task = t /\ p.kind = "create" /\ mode # "starting"
                               /\ \A d \in Controllers : Active(d) => op[d].task # t
    PROVE  RowInv'
<1>0. op \in [Controllers -> Op]
  BY DEF TasksTyped, OpsTyped
<1>1. BootHolds'
  BY DEF RowInv, BootHolds
<1>2. LocksHold'
  BY <1>0 DEF RowInv, LocksHold, Active
<1>3. ASSUME NEW t \in Tasks, ~Webhook(t)
      PROVE  RowHolds(t)'
  <2>1. RowHolds(t)
    BY <1>3 DEF RowInv
  <2>2. \A d \in Controllers : Active(d)' => op'[d] = op[d] /\ Active(d)
    BY <1>0 DEF Active
  <2>3. CASE Claimable(t)' => Claimable(t)
    <3>1. HasRow(t) => HasRow(t)'
      BY <2>3 DEF HasRow
    <3>2. Changing(t) => Changing(t)'
      BY <1>0 DEF Changing, Active
    <3> QED BY <2>1, <2>2, <2>3, <3>1, <3>2 DEF RowHolds, Active
  <2>4. CASE /\ p.task = t /\ p.kind = "create" /\ mode # "starting"
             /\ \A d \in Controllers : Active(d) => op[d].task # t
    <3>1. Changing(t)'
      BY <1>0, <2>4 DEF Changing
    <3>2. boot'.task # t
      BY <2>4, NoneIsNobody DEF RowInv, BootHolds
    <3> QED BY <2>2, <2>4, <3>1, <3>2 DEF RowHolds, Active
  <2> QED BY <2>3, <2>4
<1> QED BY <1>1, <1>2, <1>3 DEF RowInv, Webhook

\* The operation that has or takes the lock goes on, or ends.
LEMMA RowsMove ==
    ASSUME TasksTyped, RowInv, NEW c \in Controllers, NEW t \in Tasks, NEW p \in Op,
           mode \notin {"down", "starting"},
           op[c].stage = "idle" \/ op[c].task = t,
           op' = [op EXCEPT ![c] = p],
           p.stage # "locking", p.stage # "idle" => p.task = t /\ lock' = c,
           \A d \in Controllers \ {c} : ~Active(d),
           UNCHANGED <<mode, boot>>,
           \A u \in Tasks \ {t} : /\ store'[u] = store[u] /\ jobs'[u] = jobs[u]
                                  /\ u \in torn' <=> u \in torn,
           Webhook(t) \/
              /\ p.stage = "idle" /\ t \notin torn' /\ ~CreateWaits(t, c) => HasRow(t)'
              /\ p.stage = "pausing" => ~Claimable(t)'
              /\ p.stage \in {"scheduling", "restoring"} /\ p.landed => HasRow(t)'
    PROVE  RowInv'
<1>0. op \in [Controllers -> Op] /\ \A d \in Controllers \ {c} : op'[d] = op[d]
      /\ op'[c] = p
  BY DEF TasksTyped, OpsTyped
<1>1. BootHolds'
  BY DEF RowInv, BootHolds
<1>2. LocksHold'
  BY <1>0 DEF LocksHold, Active
<1>3. \A u \in Tasks : boot'.task # u /\ boot.task # u
  BY NoneIsNobody DEF RowInv, BootHolds
<1>4. ASSUME NEW u \in Tasks \ {t}, ~Webhook(u)
      PROVE  RowHolds(u)'
  <2>1. RowHolds(u)
    BY <1>4 DEF RowInv
  <2>2. (HasRow(u) <=> HasRow(u)') /\ (Claimable(u) <=> Claimable(u)')
    BY <1>4 DEF HasRow, Claimable
  <2>3. Changing(u)' <=> Changing(u)
    BY <1>0 DEF Changing, Active
  <2>4. \A d \in Controllers : op'[d].task = u /\ Active(d)' => FALSE
    BY <1>0 DEF Active
  <2> QED BY <1>3, <2>1, <2>2, <2>3, <2>4 DEF RowHolds, Active
<1>5. ASSUME ~Webhook(t)
      PROVE  RowHolds(t)'
  <2>1. \A d \in Controllers \ {c} : ~Active(d)'
    BY <1>0 DEF Active
  <2>2. ~Changing(t)' => p.stage = "idle" /\ ~CreateWaits(t, c)
    BY <1>0 DEF Changing, CreateWaits, Active
  <2> QED BY <1>0, <1>3, <1>5, <2>1, <2>2 DEF RowHolds, Active
<1> QED BY <1>1, <1>2, <1>4, <1>5 DEF RowInv, Webhook

LEMMA RowsAwait ==
    ASSUME TasksTyped, RowInv, NEW c \in Controllers, NEW t \in Tasks, NEW o \in Op, o.task = t,
           mode \notin {"down", "starting"},
           op[c].stage = "idle" \/ op[c].task = t,
           NEW stage \in Stages \ {"idle", "locking"}, Await(c, o, stage),
           \A d \in Controllers \ {c} : ~Active(d),
           UNCHANGED <<mode, boot, jobs>>, \A u \in Tasks \ {t} : u \in torn' <=> u \in torn,
           \A u \in Tasks \ {t} : store'[u] = store[u],
           Webhook(t) \/ stage # "pausing" \/ ~Claimable(t)'
    PROVE  RowInv'
<1> DEFINE p == [o EXCEPT !.stage = stage, !.landed = FALSE]
<1>1. /\ p \in Op /\ p.stage = stage /\ p.task = t /\ p.landed = FALSE
  BY OpFields DEF Op
<1>2. op' = [op EXCEPT ![c] = p] /\ lock' = c
  BY DEF Await
<1> HIDE DEF p
<1> QED BY <1>1, <1>2, RowsMove

LEMMA RowsFinish ==
    ASSUME TasksTyped, RowInv, NEW c \in Controllers, NEW t \in Tasks,
           mode \notin {"down", "starting"},
           op[c].stage = "idle" \/ op[c].task = t,
           Finish(c), \A d \in Controllers \ {c} : ~Active(d),
           UNCHANGED <<mode, boot, jobs>>, \A u \in Tasks \ {t} : u \in torn' <=> u \in torn,
           \A u \in Tasks \ {t} : store'[u] = store[u],
           Webhook(t) \/ t \in torn' \/ CreateWaits(t, c) \/ HasRow(t)'
    PROVE  RowInv'
<1>1. IdleOp \in Op /\ IdleOp.stage = "idle" /\ op' = [op EXCEPT ![c] = IdleOp]
  BY IdleOpType DEF Finish
<1> QED BY <1>1, RowsMove

\* The definition written back is off, or its schedule is asked for.
LEMMA RowsReplace ==
    ASSUME TasksTyped, RowInv, NEW c \in Controllers, NEW t \in Tasks, NEW o \in Op, o.task = t,
           mode \notin {"down", "starting"},
           op[c].stage = "idle" \/ op[c].task = t,
           Replace(c, o), \A d \in Controllers \ {c} : ~Active(d),
           UNCHANGED <<mode, boot, jobs>>, \A u \in Tasks \ {t} : u \in torn' <=> u \in torn
    PROVE  RowInv'
<1>1. o.seen \in Task /\ store \in [Tasks -> Task]
  BY OpFields DEF TasksTyped, StoreTyped
<1>2. store' = [store EXCEPT ![t] = Redefined(t, o.seen)]
  BY DEF Replace
<1>3. \A u \in Tasks \ {t} : store'[u] = store[u]
  BY <1>1, <1>2
<1>4. CASE Await(c, o, "scheduling")
  <2>1. "scheduling" \in Stages \ {"idle", "locking"}
    BY DEF Stages
  <2> QED BY <1>3, <1>4, <2>1, RowsAwait
<1>5. CASE Finish(c) /\ ~(o.seen.enabled /\ ~Webhook(t))
  <2>1. Webhook(t) \/ ~Claimable(t)'
    <3>1. ASSUME ~Webhook(t) PROVE ~Claimable(t)'
      <4>1. store'[t] = [o.seen EXCEPT !.sched = FALSE]
        BY <1>1, <1>2, <3>1 DEF Redefined
      <4>2. [o.seen EXCEPT !.sched = FALSE].enabled = o.seen.enabled
        BY <1>1, TaskSwitch DEF Statuses
      <4> QED BY <1>5, <3>1, <4>1, <4>2 DEF Claimable
    <3> QED BY <3>1
  <2>2. Webhook(t) \/ HasRow(t)'
    BY <2>1 DEF HasRow
  <2> QED BY <1>3, <1>5, <2>2, RowsFinish
<1> QED BY <1>4, <1>5 DEF Replace

\* What a failed update puts back is gone or off, known to be torn, or its schedule is asked for.
LEMMA RowsRestore ==
    ASSUME TasksTyped, RowInv, NEW c \in Controllers, NEW t \in Tasks, NEW o \in Op, o.task = t,
           mode \notin {"down", "starting"},
           op[c].stage = "idle" \/ op[c].task = t,
           Restore(c, o), \A d \in Controllers \ {c} : ~Active(d),
           UNCHANGED <<mode, boot, jobs>>, \A u \in Tasks \ {t} : u \in torn' <=> u \in torn,
           ~o.removed => t \in torn'
    PROVE  RowInv'
<1>1. o.seen \in Task /\ store \in [Tasks -> Task]
  BY OpFields DEF TasksTyped, StoreTyped
<1>2. \A u \in Tasks \ {t} : store'[u] = store[u]
  BY <1>1 DEF Restore
<1>3. CASE ~store[t].there /\ Finish(c)
  <2>1. HasRow(t)'
    BY <1>3 DEF Restore, HasRow, Claimable
  <2> QED BY <1>2, <1>3, <2>1, RowsFinish
<1>4. CASE store[t].there /\ Await(c, o, "restoring")
  <2>1. "restoring" \in Stages \ {"idle", "locking"}
    BY DEF Stages
  <2> QED BY <1>2, <1>4, <2>1, RowsAwait
<1>5. CASE store[t].there /\ Finish(c) /\ ~(o.removed /\ o.seen.enabled)
  <2>1. t \in torn' \/ HasRow(t)'
    <3>1. ASSUME o.removed PROVE ~Claimable(t)'
      <4>1. store'[t] = [o.seen EXCEPT !.sched = FALSE]
        BY <1>1, <1>5, <3>1 DEF Restore
      <4>2. [o.seen EXCEPT !.sched = FALSE].enabled = o.seen.enabled
        BY <1>1, TaskSwitch DEF Statuses
      <4> QED BY <1>5, <3>1, <4>1, <4>2 DEF Claimable
    <3> QED BY <3>1 DEF HasRow
  <2> QED BY <1>2, <1>5, <2>1, RowsFinish
<1> QED BY <1>3, <1>4, <1>5 DEF Restore

LEMMA RowsEnter ==
    ASSUME TasksTyped, RowInv, NEW c \in Controllers, NEW t \in Tasks, NEW o \in Op, o.task = t,
           lock = None, mode # "down", o.stage = "locking",
           (op[c].stage = "idle" /\ o.kind # "create") \/ op[c] = o,
           Enter(c, o)
    PROVE  RowInv'
<1>1. /\ \A d \in Controllers : ~Active(d)
      /\ mode \notin {"down", "starting"}
      /\ op[c].stage = "idle" \/ op[c].task = t
      /\ store \in [Tasks -> Task] /\ store[t] \in Task
  BY NoneIsNobody, BootIsNobody DEF RowInv, LocksHold, BootHolds, TasksTyped, StoreTyped
<1>2. UNCHANGED <<jobs, mode, boot, torn>>
  BY DEF Enter
<1>3. {"pausing", "scheduling", "removing", "replacing", "undoing"} \subseteq Stages \ {"idle", "locking"}
  BY DEF Stages
<1>4. ASSUME Finish(c), \A u \in Tasks \ {t} : store'[u] = store[u],
             \/ Webhook(t) \/ HasRow(t)'
             \/ (HasRow(t) => HasRow(t)') /\ o.kind # "create"
      PROVE  RowInv'
  <2>1. CASE Webhook(t) \/ HasRow(t)' \/ t \in torn \/ CreateWaits(t, c)
    BY <1>1, <1>2, <1>4, <2>1, RowsFinish
  <2>2. CASE ~(Webhook(t) \/ HasRow(t)' \/ t \in torn \/ CreateWaits(t, c))
    <3>1. ~Changing(t)
      BY <1>1, <1>4, <2>2 DEF Changing, CreateWaits
    <3>2. t \notin boot.todo /\ boot.task # t
      BY <1>1, NoneIsNobody DEF RowInv, BootHolds
    <3> QED BY <1>1, <1>4, <2>2, <3>1, <3>2 DEF RowInv, RowHolds
  <2> QED BY <2>1, <2>2
<1>5. ASSUME NEW stage \in {"pausing", "scheduling", "removing", "replacing", "undoing"},
             Await(c, o, stage), \A u \in Tasks \ {t} : store'[u] = store[u],
             Webhook(t) \/ stage # "pausing" \/ ~Claimable(t)'
      PROVE  RowInv'
  BY <1>1, <1>2, <1>3, <1>5, RowsAwait
<1>6. CASE EnterPause(c, o)
  <2>0. PICK off \in Task : off = [store[t] EXCEPT !.enabled = FALSE] /\ off.enabled = FALSE
    <3>1. [store[t] EXCEPT !.enabled = FALSE] \in Task
          /\ [store[t] EXCEPT !.enabled = FALSE].enabled = FALSE
      BY <1>1 DEF Task
    <3> QED BY <3>1
  <2>1. Marked(off, "paused").enabled = FALSE
    BY <2>0 DEF Task, Marked
  <2>2. /\ \/ Finish(c) \/ Await(c, o, "pausing")
        /\ \/ store' = [store EXCEPT ![t] = off]
           \/ store' = [store EXCEPT ![t] = Marked(off, "paused")]
    BY <1>6, <2>0 DEF EnterPause
  <2>3. ~Claimable(t)' /\ \A u \in Tasks \ {t} : store'[u] = store[u]
    BY <1>1, <2>0, <2>1, <2>2 DEF Claimable
  <2> QED BY <1>4, <1>5, <2>2, <2>3 DEF HasRow
<1>7. CASE EnterResume(c, o)
  <2>1. CASE Finish(c) /\ store' = [store EXCEPT ![t] = Marked(store[t], "missed")]
    <3>1. Marked(store[t], "missed").enabled = store[t].enabled
          /\ Marked(store[t], "missed").there = store[t].there
      BY <1>1 DEF Task, Marked
    <3>2. HasRow(t) => HasRow(t)'
      BY <1>1, <1>2, <2>1, <3>1 DEF HasRow, Claimable
    <3>3. \A u \in Tasks \ {t} : store'[u] = store[u]
      BY <1>1, <2>1
    <3> QED BY <1>4, <1>7, <2>1, <3>2, <3>3 DEF EnterResume
  <2>2. CASE /\ store' = [store EXCEPT ![t] = [store[t] EXCEPT !.enabled = TRUE]]
             /\ \/ Webhook(t) /\ Finish(c)
                \/ Await(c, o, "scheduling")
    <3>1. \A u \in Tasks \ {t} : store'[u] = store[u]
      BY <1>1, <2>2
    <3> QED BY <1>4, <1>5, <2>2, <3>1
  <2> QED BY <1>7, <2>1, <2>2 DEF EnterResume
<1>8. CASE EnterDelete(c, o)
  <2>1. ~Claimable(t)' /\ \A u \in Tasks \ {t} : store'[u] = store[u]
    BY <1>1, <1>8 DEF EnterDelete, Claimable, Absent
  <2>2. Finish(c) \/ Await(c, o, "removing")
    BY <1>8 DEF EnterDelete
  <2> QED BY <1>4, <1>5, <2>1, <2>2 DEF HasRow
<1>9. CASE EnterCreate(c, o)
  BY <1>5, <1>9 DEF EnterCreate
<1>10. CASE EnterUpdate(c, o)
  <2>1. CASE Replace(c, o)
    BY <1>1, <1>2, <2>1, RowsReplace
  <2>2. CASE ~Replace(c, o)
    BY <1>4, <1>5, <1>10, <2>2 DEF EnterUpdate
  <2> QED BY <2>1, <2>2
<1>11. CASE Gone(c, o)
  <2>1. HasRow(t)' /\ Finish(c) /\ UNCHANGED store
    BY <1>11 DEF Gone, HasRow, Claimable
  <2>2. \A u \in Tasks \ {t} : store'[u] = store[u]
    BY <2>1
  <2> QED BY <1>4, <2>1, <2>2
<1> QED BY <1>6, <1>7, <1>8, <1>9, <1>10, <1>11 DEF Enter

LEMMA RowsAcquire ==
    ASSUME TasksTyped, RowInv, NEW c \in Controllers, Acquire(c)
    PROVE  RowInv'
<1>1. op[c] \in Op /\ op[c].task \in Tasks /\ mode # "down"
  BY DEF TasksTyped, OpsTyped, Acquire, RowInv, LocksHold
<1> QED BY <1>1, RowsEnter DEF Acquire

LEMMA RowsCall ==
    ASSUME TasksTyped, RowInv, NEW c \in Controllers, NEW kind \in Kinds, NEW t \in Tasks,
           mode # "down", Call(c, kind, t)
    PROVE  RowInv'
<1> DEFINE o == [IdleOp EXCEPT !.stage = "locking", !.kind = kind, !.task = t,
                     !.seen = IF kind = "update" THEN store[t] ELSE Absent]
<1>1. o \in Op /\ o.task = t /\ o.stage = "locking" /\ o.kind = kind
  BY AbsentType, IdleOpType DEF TasksTyped, StoreTyped, Op, Stages
<1>2. /\ \/ lock = None /\ Enter(c, o)
         \/ op' = [op EXCEPT ![c] = o] /\ UNCHANGED <<store, jobs, lock, mode, boot, torn>>
      /\ op[c].stage = "idle" /\ kind # "create"
  BY DEF Call
<1> HIDE DEF o
<1>3. CASE lock = None /\ Enter(c, o)
  BY <1>1, <1>2, <1>3, RowsEnter
<1>4. CASE op' = [op EXCEPT ![c] = o] /\ UNCHANGED <<store, jobs, lock, mode, boot, torn>>
  <2>1. \A u \in Tasks : Claimable(u)' => Claimable(u)
    BY <1>4 DEF Claimable
  <2> QED BY <1>1, <1>2, <1>4, <2>1, RowsWait
<1> QED BY <1>2, <1>3, <1>4

LEMMA RowsCreate ==
    ASSUME TasksTyped, RowInv, NEW c \in Controllers, NEW t \in Tasks, Create(c, t), mode = "up",
           \A d \in Controllers : op[d].stage = "idle" \/ op[d].task # t
    PROVE  RowInv'
<1> DEFINE o == [IdleOp EXCEPT !.stage = "locking", !.kind = "create", !.task = t]
<1>1. o \in Op /\ o.task = t /\ o.stage = "locking" /\ o.kind = "create"
  BY IdleOpType DEF Op, Stages, Kinds
<1>2. /\ \/ Webhook(t) /\ UNCHANGED <<op, lock>>
         \/ lock = None /\ Await(c, o, "scheduling")
         \/ op' = [op EXCEPT ![c] = o] /\ UNCHANGED lock
      /\ op[c].stage = "idle"
      /\ store' = [store EXCEPT ![t] = Created] /\ UNCHANGED <<jobs, mode, boot, torn>>
  BY DEF Create
<1> HIDE DEF o
<1>3. \A u \in Tasks \ {t} : store'[u] = store[u]
  BY <1>2 DEF TasksTyped, StoreTyped
<1>4. CASE Webhook(t) /\ UNCHANGED <<op, lock>>
  <2>1. BootHolds' /\ LocksHold'
    BY <1>2, <1>4 DEF RowInv, BootHolds, LocksHold, Active
  <2>2. ASSUME NEW u \in Tasks, ~Webhook(u) PROVE RowHolds(u)'
    <3>1. u # t /\ RowHolds(u) /\ store'[u] = store[u]
      BY <1>3, <1>4, <2>2 DEF RowInv
    <3>2. (HasRow(u)' <=> HasRow(u)) /\ (Claimable(u)' <=> Claimable(u))
      BY <1>2, <3>1 DEF HasRow, Claimable
    <3>3. Changing(u)' <=> Changing(u)
      BY <1>4 DEF Changing, Active
    <3> QED BY <1>2, <1>4, <3>1, <3>2, <3>3 DEF RowHolds
  <2> QED BY <2>1, <2>2 DEF RowInv, Webhook
<1>5. CASE lock = None /\ Await(c, o, "scheduling")
  <2>1. \A d \in Controllers : ~Active(d)
    BY <1>5, NoneIsNobody DEF RowInv, LocksHold
  <2>2. "scheduling" \in Stages \ {"idle", "locking"}
    BY DEF Stages
  <2> QED BY <1>1, <1>2, <1>3, <1>5, <2>1, <2>2, RowsAwait
<1>6. CASE op' = [op EXCEPT ![c] = o] /\ UNCHANGED lock
  <2>1. \A u \in Tasks : \/ Claimable(u)' => Claimable(u)
                         \/ u = t /\ \A d \in Controllers : Active(d) => op[d].task # u
    BY <1>3 DEF Claimable, Active
  <2> QED BY <1>1, <1>2, <1>6, <2>1, RowsWait
<1> QED BY <1>2, <1>4, <1>5, <1>6

\* What is known while an operation has the lock.
LEMMA HasLock ==
    ASSUME TasksTyped, RowInv, NEW c \in Controllers, Active(c)
    PROVE  /\ mode \notin {"down", "starting"}
           /\ \A d \in Controllers \ {c} : ~Active(d)
           /\ op[c] \in Op /\ op[c].task \in Tasks /\ op[c].stage \in Stages
           /\ store \in [Tasks -> Task]
BY BootIsNobody, OpFields DEF RowInv, BootHolds, LocksHold, Active, TasksTyped, OpsTyped, StoreTyped

LEMMA RowsLand ==
    ASSUME TasksTyped, RowInv, NEW c \in Controllers, Lands(c)
    PROVE  RowInv'
<1>1. Active(c)
  BY DEF Lands, Active
<1>2. PICK t \in Tasks : t = op[c].task
  BY <1>1, HasLock
<1>3. PICK p \in Op : p = [op[c] EXCEPT !.landed = TRUE] /\ p.stage = op[c].stage /\ p.task = t
  <2>1. op[c] \in Op /\ op[c].stage \in Stages
    BY <1>1, HasLock
  <2>2. [op[c] EXCEPT !.landed = TRUE] \in Op /\ [op[c] EXCEPT !.landed = TRUE].stage = op[c].stage
        /\ [op[c] EXCEPT !.landed = TRUE].task = op[c].task
    BY <2>1, OpChanged
  <2> QED BY <1>2, <2>2
<1>4. /\ op' = [op EXCEPT ![c] = p]
      /\ jobs' = [jobs EXCEPT ![t] = RowAfter(p.stage, jobs[t])]
      /\ jobs \in [Tasks -> {"none", "active", "paused"}]
      /\ UNCHANGED <<store, lock, mode, boot, torn>>
  BY <1>2, <1>3 DEF Lands, TasksTyped, RestTyped
<1>5. \A u \in Tasks \ {t} : /\ store'[u] = store[u] /\ jobs'[u] = jobs[u]
                             /\ u \in torn' <=> u \in torn
  BY <1>4
<1>6. p.stage \in {"scheduling", "restoring"} => HasRow(t)'
  BY <1>4 DEF HasRow, RowAfter
<1>7. Webhook(t) \/ (p.stage = "pausing" => ~Claimable(t)')
  BY <1>2, <1>3, <1>4 DEF RowInv, RowHolds, Claimable
<1>8. p.stage \notin {"idle", "locking"} /\ lock' = c
  BY <1>1, <1>3, <1>4 DEF Active, RowInv, LocksHold
<1> QED BY <1>1, <1>2, <1>3, <1>4, <1>5, <1>6, <1>7, <1>8, HasLock, RowsMove

LEMMA RowsReturn ==
    ASSUME TasksTyped, RowInv, NEW c \in Controllers, Returns(c), op[c].stage # "idle"
    PROVE  RowInv'
<1>1. Active(c)
  BY DEF Returns, Active
<1>2. PICK t \in Tasks, o \in Op : t = op[c].task /\ o = op[c] /\ o.task = t
  BY <1>1, HasLock
<1>3. /\ UNCHANGED <<jobs, mode, boot>> /\ \A u \in Tasks \ {t} : u \in torn' <=> u \in torn
      /\ o.stage = "undoing" /\ ~o.removed => t \in torn'
  BY <1>2 DEF Returns
<1>4. /\ store \in [Tasks -> Task] /\ store[t] \in Task
      /\ mode \notin {"down", "starting"}
      /\ \A d \in Controllers \ {c} : ~Active(d)
  BY <1>1, HasLock
<1>5. ASSUME Finish(c), \A u \in Tasks \ {t} : store'[u] = store[u], Webhook(t) \/ HasRow(t)'
      PROVE  RowInv'
  BY <1>2, <1>3, <1>4, <1>5, RowsFinish
<1>6. CASE o.stage = "pausing"
  <2>1. /\ Finish(c)
        /\ store' = store \/ store' = [store EXCEPT ![t] = Marked(store[t], "paused")]
    BY <1>2, <1>6 DEF Returns
  <2>2. Marked(store[t], "paused").enabled = store[t].enabled
        /\ Marked(store[t], "paused").there = store[t].there
    BY <1>4 DEF Task, Marked
  <2>3. Webhook(t) \/ ~Claimable(t)
    BY <1>2, <1>6 DEF RowInv, RowHolds
  <2>4. Webhook(t) \/ HasRow(t)'
    BY <1>4, <2>1, <2>2, <2>3 DEF HasRow, Claimable
  <2>5. \A u \in Tasks \ {t} : store'[u] = store[u]
    BY <1>4, <2>1
  <2> QED BY <1>5, <2>1, <2>4, <2>5
<1>7. CASE o.stage \in {"scheduling", "restoring"}
  <2>1. Finish(c) /\ store' = [store EXCEPT ![t] = [store[t] EXCEPT !.sched = TRUE]] /\ o.landed
    BY <1>2, <1>7 DEF Returns
  <2>2. [store[t] EXCEPT !.sched = TRUE].enabled = store[t].enabled
        /\ [store[t] EXCEPT !.sched = TRUE].there = store[t].there
    BY <1>4 DEF Task
  <2>3. Webhook(t) \/ HasRow(t)
    BY <1>2, <1>7, <2>1 DEF RowInv, RowHolds
  <2>4. Webhook(t) \/ HasRow(t)'
    BY <1>3, <1>4, <2>1, <2>2, <2>3 DEF HasRow, Claimable
  <2>5. \A u \in Tasks \ {t} : store'[u] = store[u]
    BY <1>4, <2>1
  <2> QED BY <1>5, <2>1, <2>4, <2>5
<1>8. CASE o.stage = "removing"
  <2>1. Finish(c) /\ store' = [store EXCEPT ![t] = Absent]
    BY <1>2, <1>8 DEF Returns
  <2>2. HasRow(t)' /\ \A u \in Tasks \ {t} : store'[u] = store[u]
    BY <1>4, <2>1 DEF HasRow, Claimable, Absent
  <2> QED BY <1>5, <2>1, <2>2
<1>9. CASE o.stage = "replacing"
  <2>0. [o EXCEPT !.removed = TRUE] \in Op /\ [o EXCEPT !.removed = TRUE].task = o.task
    BY OpFields, OpChanged
  <2>1. PICK p \in Op : p = [o EXCEPT !.removed = TRUE] /\ p.task = t
    BY <1>2, <2>0
  <2>2. Replace(c, p) \/ (Await(c, p, "undoing") /\ UNCHANGED store)
    BY <1>2, <1>9, <2>1 DEF Returns
  <2>3. "undoing" \in Stages \ {"idle", "locking"}
    BY DEF Stages
  <2> QED BY <1>2, <1>3, <1>4, <2>1, <2>2, <2>3, RowsReplace, RowsAwait
<1>10. CASE o.stage = "undoing"
  <2>1. Restore(c, o)
    BY <1>2, <1>10 DEF Returns
  <2> QED BY <1>2, <1>3, <1>4, <1>10, <2>1, RowsRestore
<1> QED BY <1>2, <1>6, <1>7, <1>8, <1>9, <1>10 DEF Returns

LEMMA RowsFail ==
    ASSUME TasksTyped, RowInv, NEW c \in Controllers, Fails(c)
    PROVE  RowInv'
<1>1. Active(c)
  BY DEF Fails, Active
<1>2. PICK t \in Tasks, o \in Op : t = op[c].task /\ o = op[c] /\ o.task = t
  BY <1>1, HasLock
<1>3. /\ UNCHANGED <<jobs, mode, boot>> /\ \A u \in Tasks \ {t} : u \in torn' <=> u \in torn
      /\ o.stage = "undoing" /\ ~o.removed => t \in torn'
      /\ o.stage = "restoring" => t \in torn'
  BY <1>2 DEF Fails
<1>4. /\ store \in [Tasks -> Task] /\ store[t] \in Task
      /\ mode \notin {"down", "starting"}
      /\ \A d \in Controllers \ {c} : ~Active(d)
  BY <1>1, HasLock
<1>5. ASSUME Finish(c), \A u \in Tasks \ {t} : store'[u] = store[u],
             Webhook(t) \/ t \in torn' \/ HasRow(t)'
      PROVE  RowInv'
  BY <1>2, <1>3, <1>4, <1>5, RowsFinish
<1>6. CASE o.stage = "pausing" /\ Finish(c) /\ UNCHANGED store
  <2>1. Webhook(t) \/ HasRow(t)'
    BY <1>2, <1>6 DEF RowInv, RowHolds, HasRow, Claimable
  <2> QED BY <1>5, <1>6, <2>1
<1>7. CASE Finish(c) /\ store' = [store EXCEPT ![t] = [store[t] EXCEPT !.enabled = FALSE]]
  <2>1. [store[t] EXCEPT !.enabled = FALSE].enabled = FALSE
    BY <1>4 DEF Task
  <2>2. HasRow(t)' /\ \A u \in Tasks \ {t} : store'[u] = store[u]
    BY <1>4, <1>7, <2>1 DEF HasRow, Claimable
  <2> QED BY <1>5, <1>7, <2>2
<1>8. CASE UNCHANGED store /\ (Await(c, o, "removing") \/ Await(c, o, "undoing"))
  <2>1. {"removing", "undoing"} \subseteq Stages \ {"idle", "locking"}
    BY DEF Stages
  <2> QED BY <1>2, <1>3, <1>4, <1>8, <2>1, RowsAwait
<1>9. CASE Finish(c) /\ store' = [store EXCEPT ![t] = Absent]
  <2>1. HasRow(t)' /\ \A u \in Tasks \ {t} : store'[u] = store[u]
    BY <1>4, <1>9 DEF HasRow, Claimable, Absent
  <2> QED BY <1>5, <1>9, <2>1
<1>10. CASE o.stage = "undoing" /\ Restore(c, o)
  BY <1>2, <1>3, <1>4, <1>10, RowsRestore
<1>11. CASE o.stage = "restoring" /\ Finish(c) /\ UNCHANGED store
  BY <1>3, <1>5, <1>11
<1> QED BY <1>2, <1>6, <1>7, <1>8, <1>9, <1>10, <1>11 DEF Fails

(***************************************************************************)
(* Rows at startup and when the process ends                               *)
(***************************************************************************)
LEMMA RowsDown ==
    ASSUME TasksTyped, TasksDown
    PROVE  RowInv'
<1>1. BootHolds'
  BY DEF TasksDown, NoBoot, BootHolds
<1>2. op' = [c \in Controllers |-> IdleOp] /\ IdleOp.stage = "idle" /\ mode' = "down"
      /\ boot' = NoBoot
  BY IdleOpType DEF TasksDown
<1>3. LocksHold'
  BY <1>2 DEF LocksHold, Active
<1>4. ASSUME NEW t \in Tasks PROVE RowHolds(t)'
  BY <1>2, <1>4, NoneIsNobody DEF RowHolds, NoBoot
<1> QED BY <1>1, <1>3, <1>4 DEF RowInv

LEMMA RowsStart ==
    ASSUME TasksTyped, RowInv, Start
    PROVE  RowInv'
<1>1. /\ mode = "down" /\ mode' = "starting" /\ lock' = "boot"
      /\ UNCHANGED <<store, jobs, op, torn>>
      /\ boot' = [NoBoot EXCEPT !.stage = "sweeping", !.snap = store,
                                !.todo = {t \in Tasks : store[t].there}]
  BY DEF Start
<1>2. /\ boot'.stage = "sweeping" /\ boot'.snap = store /\ boot'.task = None
      /\ boot'.todo = {t \in Tasks : store[t].there} /\ boot'.landed = FALSE
  BY <1>1 DEF NoBoot
<1>3. BootHolds'
  BY <1>1, <1>2 DEF BootHolds, Claimable, Off
<1>4. \A c \in Controllers : op'[c].stage = "idle"
  BY <1>1 DEF RowInv, LocksHold
<1>5. LocksHold'
  BY <1>1, <1>4 DEF LocksHold, Active
<1>6. ASSUME NEW t \in Tasks PROVE RowHolds(t)'
  <2>1. t \notin boot'.todo => HasRow(t)'
    BY <1>1, <1>2 DEF HasRow, Claimable
  <2> QED BY <1>2, <1>4, <2>1, NoneIsNobody DEF RowHolds
<1> QED BY <1>3, <1>5, <1>6 DEF RowInv

\* While the process starts no operation has the lock.
LEMMA Starting ==
    ASSUME RowInv, boot.stage # "off"
    PROVE  /\ mode = "starting" /\ lock = "boot" /\ \A c \in Controllers : ~Active(c)
           /\ \A t \in Tasks : Claimable(t) => ~Off(boot.snap[t])
BY BootIsNobody DEF RowInv, BootHolds, LocksHold

\* A step of the reconciliation: what is left to reconcile stays excused, what is in hand is
\* known to be off or has got its row, and all others keep theirs.
LEMMA RowsBoot ==
    ASSUME RowInv, boot.stage # "off", UNCHANGED <<op, lock, mode>>,
           boot'.stage # "off", boot'.snap = boot.snap, boot'.todo \subseteq boot.todo,
           boot'.task # None => /\ boot'.stage \in {"scheduling", "pausing"}
                                /\ boot'.task \notin boot'.todo,
           \A t \in Tasks : Claimable(t)' => Claimable(t),
           boot'.landed => boot'.task # None,
           \A t \in Tasks :
              Webhook(t) \/ (boot'.task = t /\ boot'.stage = "pausing" => ~Claimable(t)'),
           \A t \in Tasks :
              \/ t \in boot'.todo
              \/ /\ t \notin boot.todo /\ boot.task # t /\ boot'.task # t
                 /\ t \in torn' <=> t \in torn
                 /\ Claimable(t)' => jobs'[t] = jobs[t]
              \/ Webhook(t) \/ HasRow(t)'
              \/ t \in torn' /\ boot'.task # t
              \/ boot'.task = t /\ boot'.stage = "scheduling" /\ ~boot'.landed
              \/ boot'.task = t /\ boot'.stage = "pausing"
    PROVE  RowInv'
<1>1. /\ mode = "starting" /\ lock = "boot" /\ \A c \in Controllers : ~Active(c)
      /\ \A t \in Tasks : Claimable(t) => ~Off(boot.snap[t])
  BY Starting
<1>2. BootHolds'
  BY <1>1 DEF BootHolds
<1>3. LocksHold' /\ \A c \in Controllers : ~Active(c)'
  BY <1>1 DEF LocksHold, Active
<1>4. ASSUME NEW t \in Tasks, ~Webhook(t) PROVE RowHolds(t)'
  <2>1. \A c \in Controllers : op'[c].stage \notin {"pausing", "scheduling", "restoring"}
    BY <1>3 DEF Active
  <2>2. boot'.task = t /\ boot'.stage = "pausing" => ~Claimable(t)'
    BY <1>4
  <2>3. boot'.task = t => t \notin boot'.todo
    BY NoneIsNobody
  <2>4. CASE t \in boot'.todo
    BY <2>1, <2>3, <2>4 DEF RowHolds
  <2>5. CASE /\ t \notin boot.todo /\ boot.task # t /\ boot'.task # t
             /\ t \in torn' <=> t \in torn
             /\ Claimable(t)' => jobs'[t] = jobs[t]
    <3>1. HasRow(t) => HasRow(t)'
      BY <2>5 DEF HasRow
    <3>2. Changing(t)' <=> Changing(t)
      BY DEF Changing, Active
    <3>3. RowHolds(t)
      BY <1>4 DEF RowInv
    <3> QED BY <1>1, <2>1, <2>5, <3>1, <3>2, <3>3 DEF RowHolds
  <2>6. CASE HasRow(t)'
    BY <2>1, <2>2, <2>6 DEF RowHolds
  <2>7. CASE t \in torn' /\ boot'.task # t
    BY <2>1, <2>7 DEF RowHolds
  <2>8. CASE boot'.task = t /\ boot'.stage = "scheduling" /\ ~boot'.landed
    BY <2>1, <2>8 DEF RowHolds
  <2>9. CASE boot'.task = t /\ boot'.stage = "pausing"
    BY <2>1, <2>2, <2>9 DEF RowHolds
  <2> QED BY <1>4, <2>4, <2>5, <2>6, <2>7, <2>8, <2>9
<1> QED BY <1>2, <1>3, <1>4 DEF RowInv, Webhook

LEMMA RowsSwept ==
    ASSUME TasksTyped, RowInv, Swept
    PROVE  RowInv'
<1>1. /\ boot.stage = "sweeping" /\ boot \in BootRecord
      /\ boot' = [boot EXCEPT !.stage = "next"]
      /\ UNCHANGED <<store, op, lock, mode, torn>>
  BY DEF Swept, TasksTyped, RestTyped
<1>2. /\ boot'.stage = "next" /\ boot'.snap = boot.snap /\ boot'.todo = boot.todo
      /\ boot'.task = boot.task /\ boot'.landed = boot.landed /\ boot.task = None
  BY <1>1 DEF BootRecord, RowInv, BootHolds
<1>3. \A t \in Tasks : Claimable(t)' <=> Claimable(t)
  BY <1>1 DEF Claimable
<1>4. \A t \in Tasks : Claimable(t) => jobs'[t] = jobs[t]
  BY <1>1, Starting DEF Swept, Off, TasksTyped, RestTyped
<1> QED BY <1>1, <1>2, <1>3, <1>4, RowsBoot, NoneIsNobody DEF RowInv, BootHolds

LEMMA RowsBootTask ==
    ASSUME TasksTyped, RowInv, NEW t \in Tasks, BootTask(t)
    PROVE  RowInv'
<1> DEFINE seen == boot.snap[t]
           task == Recovered(seen, store[t])
<1>1. /\ boot.stage = "next" /\ t \in boot.todo /\ boot \in BootRecord
      /\ UNCHANGED <<jobs, op, lock, mode, torn>>
      /\ store \in [Tasks -> Task] /\ store[t] \in Task /\ seen \in Task
  BY BootFields DEF BootTask, TasksTyped, RestTyped, StoreTyped
<1>2. boot.task = None /\ ~boot.landed
  BY <1>1 DEF RowInv, BootHolds
<1>3. /\ Missed(store[t]).enabled = FALSE
      /\ task # seen => /\ task.there = store[t].there
                        /\ task.enabled => store[t].enabled
  <2>1. seen.status \in IncompleteRun => task = [store[t] EXCEPT !.status = "uncertain", !.enabled = FALSE]
    BY DEF Recovered, IncompleteRun, IncompleteDelivery
  <2>2. [store[t] EXCEPT !.status = "uncertain", !.enabled = FALSE].there = store[t].there
        /\ [store[t] EXCEPT !.status = "uncertain", !.enabled = FALSE].enabled = FALSE
    BY <1>1 DEF Task
  <2>3. seen.status \notin IncompleteRun /\ task # seen => task = Marked(store[t], "deliveryUncertain")
    BY DEF Recovered, IncompleteRun, IncompleteDelivery
  <2>4. /\ Marked(store[t], "deliveryUncertain").there = store[t].there
        /\ Marked(store[t], "deliveryUncertain").enabled = store[t].enabled
    BY <1>1 DEF Task, Marked
  <2>5. Missed(store[t]).enabled = FALSE
    BY <1>1 DEF Task, Missed
  <2> HIDE DEF task, seen
  <2> QED BY <2>1, <2>2, <2>3, <2>4, <2>5
<1>4. PICK late \in BOOLEAN :
        /\ store' = IF late THEN [store EXCEPT ![t] = Missed(store[t])]
                    ELSE IF task = seen THEN store ELSE [store EXCEPT ![t] = task]
        /\ boot' = IF Webhook(t)
                   THEN [boot EXCEPT !.todo = boot.todo \ {t}]
                   ELSE [boot EXCEPT !.todo = boot.todo \ {t}, !.task = t, !.landed = FALSE,
                            !.stage = IF task.enabled /\ ~late THEN "scheduling" ELSE "pausing"]
  BY DEF BootTask
<1>5. /\ boot'.snap = boot.snap /\ boot'.todo = boot.todo \ {t} /\ boot'.landed = FALSE
      /\ Webhook(t) => boot'.task = None /\ boot'.stage = "next"
      /\ ~Webhook(t) => /\ boot'.task = t
                        /\ boot'.stage = IF task.enabled /\ ~late THEN "scheduling" ELSE "pausing"
  <2> HIDE DEF task, seen
  <2>1. PICK stage \in {"scheduling", "pausing"} :
           stage = IF task.enabled /\ ~late THEN "scheduling" ELSE "pausing"
    OBVIOUS
  <2> QED BY <1>1, <1>2, <1>4, <2>1 DEF BootRecord
<1>6. Claimable(t) => seen.enabled
  BY <1>1, Starting DEF Off
<1> HIDE DEF task, seen
<1>7. \A u \in Tasks \ {t} : store'[u] = store[u]
  BY <1>1, <1>4
<1>8. Claimable(t)' => Claimable(t)
  BY <1>1, <1>3, <1>4 DEF Claimable
<1>9. late \/ ~task.enabled => ~Claimable(t)'
  BY <1>1, <1>3, <1>4, <1>6 DEF Claimable
<1>10. \A u \in Tasks : Claimable(u)' => Claimable(u)
  BY <1>7, <1>8 DEF Claimable
<1>11. \A u \in Tasks : boot'.task = u /\ boot'.stage = "pausing" => ~Claimable(u)'
  BY <1>5, <1>9, NoneIsNobody
<1>12. ASSUME NEW u \in Tasks
       PROVE  \/ u \in boot'.todo
              \/ /\ u \notin boot.todo /\ boot.task # u /\ boot'.task # u
                 /\ u \in torn' <=> u \in torn
                 /\ Claimable(u)' => jobs'[u] = jobs[u]
              \/ Webhook(u)
              \/ boot'.task = u /\ boot'.stage = "scheduling" /\ ~boot'.landed
              \/ boot'.task = u /\ boot'.stage = "pausing"
  BY <1>1, <1>2, <1>5, NoneIsNobody
<1>13. /\ boot'.stage # "off" /\ boot'.todo \subseteq boot.todo
       /\ boot'.landed => boot'.task # None
       /\ boot'.task # None => /\ boot'.stage \in {"scheduling", "pausing"}
                               /\ boot'.task \notin boot'.todo
  BY <1>5
<1> QED BY <1>1, <1>5, <1>10, <1>11, <1>12, <1>13, RowsBoot

LEMMA RowsBootLand ==
    ASSUME TasksTyped, RowInv, BootLands
    PROVE  RowInv'
<1>1. /\ boot.task # None /\ boot \in BootRecord /\ boot' = [boot EXCEPT !.landed = TRUE]
      /\ jobs' = [jobs EXCEPT ![boot.task] = RowAfter(boot.stage, jobs[boot.task])]
      /\ jobs \in [Tasks -> {"none", "active", "paused"}]
      /\ UNCHANGED <<store, op, lock, mode, torn>>
  BY DEF BootLands, TasksTyped, RestTyped
<1>2. PICK t \in Tasks : t = boot.task
  BY <1>1, BootFields
<1>3. /\ boot'.stage = boot.stage /\ boot'.snap = boot.snap /\ boot'.todo = boot.todo
      /\ boot'.task = t
      /\ boot.stage \in {"scheduling", "pausing"} /\ t \notin boot.todo
  BY <1>1, <1>2 DEF BootRecord, RowInv, BootHolds
<1>4. \A u \in Tasks : Claimable(u)' <=> Claimable(u)
  BY <1>1 DEF Claimable
<1>5. Webhook(t) \/ (boot.stage = "pausing" => ~Claimable(t))
  BY <1>2 DEF RowInv, RowHolds
<1>6. boot.stage = "scheduling" => HasRow(t)'
  BY <1>1, <1>2 DEF RowAfter, HasRow
<1>7. \A u \in Tasks \ {t} : jobs'[u] = jobs[u]
  BY <1>1, <1>2
<1>8. \A u \in Tasks : \/ u # t /\ u \in boot'.todo
                       \/ /\ u \notin boot.todo /\ boot.task # u /\ boot'.task # u
                          /\ u \in torn' <=> u \in torn
                          /\ Claimable(u)' => jobs'[u] = jobs[u]
                       \/ HasRow(u)'
                       \/ boot'.task = u /\ boot'.stage = "pausing"
  BY <1>1, <1>2, <1>3, <1>6, <1>7
<1>9. \A u \in Tasks : Webhook(u) \/ (boot'.task = u /\ boot'.stage = "pausing" => ~Claimable(u)')
  BY <1>3, <1>4, <1>5
<1>10. /\ boot'.task # None => /\ boot'.stage \in {"scheduling", "pausing"}
                               /\ boot'.task \notin boot'.todo
       /\ boot'.landed => boot'.task # None
       /\ boot'.stage # "off" /\ boot.stage # "off"
  BY <1>1, <1>2, <1>3
<1> QED BY <1>1, <1>3, <1>4, <1>8, <1>9, <1>10, RowsBoot

LEMMA RowsBootEnd ==
    ASSUME TasksTyped, RowInv, BootReturns \/ BootFails
    PROVE  RowInv'
<1>1. /\ boot.task # None /\ boot \in BootRecord
      /\ boot' = [boot EXCEPT !.stage = "next", !.task = None, !.landed = FALSE]
      /\ store \in [Tasks -> Task]
      /\ UNCHANGED <<jobs, op, lock, mode>>
  BY DEF BootReturns, BootFails, TasksTyped, RestTyped, StoreTyped, RowInv, BootHolds
<1>2. PICK t \in Tasks : t = boot.task
  BY <1>1, BootFields
<1>3. /\ boot'.stage = "next" /\ boot'.snap = boot.snap /\ boot'.todo = boot.todo
      /\ boot'.task = None /\ boot'.landed = FALSE
      /\ boot.stage \in {"scheduling", "pausing"} /\ t \notin boot.todo
  BY <1>1, <1>2 DEF BootRecord, RowInv, BootHolds
<1>4. PICK task \in Task :
         /\ task.there = store[t].there /\ task.enabled = store[t].enabled
         /\ store' = [store EXCEPT ![t] = task]
  <2>1. /\ store[t] \in Task
        /\ [store[t] EXCEPT !.sched = TRUE] \in Task
        /\ [store[t] EXCEPT !.sched = TRUE].there = store[t].there
        /\ [store[t] EXCEPT !.sched = TRUE].enabled = store[t].enabled
    BY <1>1 DEF Task
  <2>2. /\ Marked(store[t], "scheduleError") \in Task
        /\ Marked(store[t], "scheduleError").there = store[t].there
        /\ Marked(store[t], "scheduleError").enabled = store[t].enabled
    <3>1. "scheduleError" \in Statuses
      BY DEF Statuses
    <3> QED BY <2>1, <3>1 DEF Task, Marked
  <2>3. \/ store' = store
        \/ store' = [store EXCEPT ![t] = [store[t] EXCEPT !.sched = TRUE]]
        \/ store' = [store EXCEPT ![t] = Marked(store[t], "scheduleError")]
    BY <1>2 DEF BootReturns, BootFails
  <2>4. store = [store EXCEPT ![t] = store[t]]
    BY <1>1
  <2> QED BY <2>1, <2>2, <2>3, <2>4
<1>5. \A u \in Tasks : Claimable(u)' <=> Claimable(u)
  BY <1>1, <1>4 DEF Claimable
<1>6. Webhook(t) \/ HasRow(t)' \/ t \in torn'
  <2>1. CASE BootFails
    BY <1>2, <2>1 DEF BootFails
  <2>2. CASE BootReturns
    <3>1. Webhook(t) \/ HasRow(t)
      BY <1>2, <1>3, <2>2 DEF BootReturns, RowInv, RowHolds, HasRow
    <3> QED BY <1>1, <1>5, <3>1 DEF HasRow
  <2> QED BY <2>1, <2>2
<1>7. \A u \in Tasks \ {t} : u \in torn' <=> u \in torn
  BY <1>2 DEF BootReturns, BootFails
<1>8. \A u \in Tasks : \/ u \in boot'.todo
                       \/ /\ u \notin boot.todo /\ boot.task # u /\ boot'.task # u
                          /\ u \in torn' <=> u \in torn
                          /\ Claimable(u)' => jobs'[u] = jobs[u]
                       \/ Webhook(u) \/ HasRow(u)'
                       \/ u \in torn' /\ boot'.task # u
  BY <1>1, <1>2, <1>3, <1>6, <1>7, NoneIsNobody
<1>9. boot.stage # "off" /\ boot'.stage # "off"
  BY <1>3
<1> QED BY <1>1, <1>3, <1>5, <1>8, <1>9, RowsBoot

LEMMA RowsBooted ==
    ASSUME TasksTyped, RowInv, Booted
    PROVE  RowInv'
<1>1. /\ boot.stage = "next" /\ boot.todo = {} /\ mode' = "up" /\ lock' = None
      /\ boot' = NoBoot /\ UNCHANGED <<store, jobs, op, torn>>
  BY DEF Booted
<1>2. /\ NoBoot.stage = "off" /\ NoBoot.task = None /\ NoBoot.todo = {} /\ NoBoot.landed = FALSE
      /\ boot.task = None
  BY <1>1 DEF NoBoot, RowInv, BootHolds
<1>3. mode = "starting" /\ \A c \in Controllers : ~Active(c)
  BY <1>1, Starting
<1>4. BootHolds' /\ LocksHold' /\ \A c \in Controllers : ~Active(c)'
  BY <1>1, <1>2, <1>3 DEF BootHolds, LocksHold, Active
<1>5. ASSUME NEW t \in Tasks, ~Webhook(t) PROVE RowHolds(t)'
  <2>1. RowHolds(t)
    BY <1>5 DEF RowInv
  <2>2. (HasRow(t)' <=> HasRow(t)) /\ (Changing(t)' <=> Changing(t))
    BY <1>1 DEF HasRow, Claimable, Changing, Active
  <2> QED BY <1>1, <1>2, <1>3, <1>4, <2>1, <2>2, NoneIsNobody DEF RowHolds, Active
<1> QED BY <1>4, <1>5 DEF RowInv, Webhook

LEMMA RowsBegin ==
    ASSUME TasksInit
    PROVE  RowInv
BY IdleOpType, NoneIsNobody DEF TasksInit, RowInv, BootHolds, LocksHold, RowHolds, HasRow,
   Claimable, Absent, NoBoot, Active

LEMMA RowsHold == RowInv => EnabledHasRow
BY DEF RowInv, BootHolds, RowHolds, EnabledHasRow, HasRow, Claimable, Busy, Changing, Active

(***************************************************************************)
(* What an operation leaves alone                                          *)
(***************************************************************************)
\* What an operation of c on t may change: t in the store, and c's own place.
Local(c, t) ==
    /\ \A u \in Tasks \ {t} : store'[u] = store[u]
    /\ \A d \in Controllers : op'[d].stage # "idle" => (d = c /\ op'[d].task = t) \/ op'[d] = op[d]
    /\ UNCHANGED <<mode, boot>>

LEMMA AwaitLocal ==
    ASSUME OpsTyped, NEW c \in Controllers, NEW t \in Tasks, NEW o \in Op, o.task = t,
           NEW stage \in Stages, Await(c, o, stage) \/ Finish(c)
    PROVE  \A d \in Controllers : op'[d].stage # "idle" => (d = c /\ op'[d].task = t) \/ op'[d] = op[d]
<1>1. op \in [Controllers -> Op] /\ IdleOp.stage = "idle"
  BY IdleOpType DEF OpsTyped
<1>2. CASE Await(c, o, stage)
  <2>1. [o EXCEPT !.stage = stage, !.landed = FALSE].task = t
    BY OpChanged
  <2> QED BY <1>1, <1>2, <2>1 DEF Await
<1>3. CASE Finish(c)
  BY <1>1, <1>3 DEF Finish
<1> QED BY <1>2, <1>3

LEMMA EnterLocal ==
    ASSUME StoreTyped, OpsTyped, NEW c \in Controllers, NEW t \in Tasks, NEW o \in Op, o.task = t,
           Enter(c, o)
    PROVE  Local(c, t)
<1>1. /\ \A u \in Tasks \ {t} : store'[u] = store[u]
      /\ UNCHANGED <<mode, boot>>
  BY DEF Enter, EnterPause, EnterResume, EnterDelete, EnterCreate, EnterUpdate, Gone, Replace,
     StoreTyped
<1>2. \E stage \in Stages : Await(c, o, stage) \/ Finish(c)
  <2>1. {"pausing", "scheduling", "removing", "replacing", "undoing"} \subseteq Stages
    BY DEF Stages
  <2>2. \/ Finish(c)
        \/ \E stage \in {"pausing", "scheduling", "removing", "replacing", "undoing"} : Await(c, o, stage)
    BY DEF Enter, EnterPause, EnterResume, EnterDelete, EnterCreate, EnterUpdate, Gone, Replace
  <2> QED BY <2>1, <2>2
<1> QED BY <1>1, <1>2, AwaitLocal DEF Local

LEMMA CallLocal ==
    ASSUME StoreTyped, OpsTyped, NEW c \in Controllers, NEW kind \in Kinds, NEW t \in Tasks,
           Call(c, kind, t)
    PROVE  Local(c, t)
<1>1. PICK o \in Op :
         /\ o.task = t
         /\ Enter(c, o) \/ (op' = [op EXCEPT ![c] = o] /\ UNCHANGED <<store, jobs, lock, mode, boot, torn>>)
  <2> DEFINE o == [IdleOp EXCEPT !.stage = "locking", !.kind = kind, !.task = t,
                       !.seen = IF kind = "update" THEN store[t] ELSE Absent]
  <2>1. o \in Op /\ o.task = t
    BY AbsentType, IdleOpType DEF StoreTyped, Op, Stages
  <2>2. Enter(c, o) \/ (op' = [op EXCEPT ![c] = o] /\ UNCHANGED <<store, jobs, lock, mode, boot, torn>>)
    BY DEF Call
  <2> HIDE DEF o
  <2> QED BY <2>1, <2>2
<1>2. CASE Enter(c, o)
  BY <1>1, <1>2, EnterLocal
<1>3. CASE op' = [op EXCEPT ![c] = o] /\ UNCHANGED <<store, jobs, lock, mode, boot, torn>>
  BY <1>1, <1>3 DEF Local, OpsTyped
<1> QED BY <1>1, <1>2, <1>3

LEMMA CreateLocal ==
    ASSUME StoreTyped, OpsTyped, NEW c \in Controllers, NEW t \in Tasks, Create(c, t)
    PROVE  Local(c, t)
<1>1. PICK o \in Op :
         /\ o.task = t
         /\ \/ UNCHANGED op
            \/ Await(c, o, "scheduling")
            \/ op' = [op EXCEPT ![c] = o]
  <2> DEFINE o == [IdleOp EXCEPT !.stage = "locking", !.kind = "create", !.task = t]
  <2>1. o \in Op /\ o.task = t
    BY IdleOpType DEF Op, Stages, Kinds
  <2>2. \/ UNCHANGED op
        \/ Await(c, o, "scheduling")
        \/ op' = [op EXCEPT ![c] = o]
    BY DEF Create
  <2> HIDE DEF o
  <2> QED BY <2>1, <2>2
<1>2. UNCHANGED <<mode, boot>> /\ \A u \in Tasks \ {t} : store'[u] = store[u]
  BY DEF Create, StoreTyped
<1>3. "scheduling" \in Stages
  BY DEF Stages
<1> QED BY <1>1, <1>2, <1>3, AwaitLocal DEF Local, OpsTyped

\* A step of an operation under way.
LEMMA OpLocal ==
    ASSUME TasksTyped, NEW c \in Controllers, Acquire(c) \/ Lands(c) \/ Returns(c) \/ Fails(c)
    PROVE  op[c].stage # "idle" /\ op[c].task \in Tasks /\ Local(c, op[c].task)
<1>1. op[c].stage # "idle"
  BY DEF Acquire, Lands, Returns, Fails
<1>2. PICK t \in Tasks, o \in Op : t = op[c].task /\ o = op[c] /\ o.task = t
  BY <1>1 DEF TasksTyped, OpsTyped
<1>3. StoreTyped /\ OpsTyped /\ store \in [Tasks -> Task]
  BY DEF TasksTyped, StoreTyped
<1>4. CASE Acquire(c)
  BY <1>1, <1>2, <1>3, <1>4, EnterLocal DEF Acquire
<1>5. CASE Lands(c)
  <2>1. op' = [op EXCEPT ![c] = [o EXCEPT !.landed = TRUE]] /\ [o EXCEPT !.landed = TRUE].task = t
    BY <1>2, <1>5 DEF Lands, Op
  <2> QED BY <1>1, <1>2, <1>3, <1>5, <2>1 DEF Lands, Local, OpsTyped
<1>6. CASE Returns(c) \/ Fails(c)
  <2>1. /\ \A u \in Tasks \ {t} : store'[u] = store[u]
        /\ UNCHANGED <<mode, boot>>
    <3>1. [o EXCEPT !.removed = TRUE].task = t
      BY <1>2 DEF Op
    <3>2. CASE Returns(c)
      BY <1>2, <1>3, <3>1, <3>2 DEF Returns, Replace, Restore
    <3>3. CASE Fails(c)
      BY <1>2, <1>3, <3>3 DEF Fails, Restore
    <3> QED BY <1>6, <3>2, <3>3
  <2>2. PICK p \in Op, stage \in Stages : p.task = t /\ (Await(c, p, stage) \/ Finish(c))
    <3>1. [o EXCEPT !.removed = TRUE].task = t /\ [o EXCEPT !.removed = TRUE] \in Op
      BY <1>2 DEF Op
    <3>2. {"scheduling", "removing", "undoing", "restoring"} \subseteq Stages
      BY DEF Stages
    <3>3. \/ Finish(c)
          \/ \E stage \in {"scheduling", "removing", "undoing", "restoring"} :
                Await(c, o, stage) \/ Await(c, [o EXCEPT !.removed = TRUE], stage)
      <4>1. CASE Returns(c)
        BY <1>2, <4>1 DEF Returns, Replace, Restore
      <4>2. CASE Fails(c)
        BY <1>2, <4>2 DEF Fails, Restore
      <4> QED BY <1>6, <4>1, <4>2
    <3> QED BY <1>2, <3>1, <3>2, <3>3
  <2> QED BY <1>1, <1>2, <1>3, <2>1, <2>2, AwaitLocal DEF Local
<1> QED BY <1>4, <1>5, <1>6

\* An operation that is handed over to a controller that does nothing.
LEMMA RowsHandOver ==
    ASSUME TasksTyped, RowInv, NEW c \in Controllers, NEW d \in Controllers, c # d,
           op[d].stage = "idle", op[c].stage # "idle",
           op' = [op EXCEPT ![d] = op[c], ![c] = IdleOp],
           lock' = IF lock = c THEN d ELSE lock,
           UNCHANGED <<store, jobs, mode, boot, torn>>
    PROVE  RowInv'
<1>0. op \in [Controllers -> Op] /\ IdleOp.stage = "idle"
  BY IdleOpType DEF TasksTyped, OpsTyped
<1>1. /\ op'[d] = op[c] /\ op'[c].stage = "idle"
      /\ \A e \in Controllers \ {c, d} : op'[e] = op[e]
  BY <1>0
<1>2. BootHolds'
  <2>1. \A t \in Tasks : Claimable(t)' <=> Claimable(t)
    BY DEF Claimable
  <2>2. lock = "boot" => lock' = "boot"
    BY BootIsNobody
  <2> QED BY <2>1, <2>2 DEF RowInv, BootHolds
<1>3. LocksHold'
  BY <1>1 DEF RowInv, LocksHold, Active
<1>4. ASSUME NEW t \in Tasks, ~Webhook(t) PROVE RowHolds(t)'
  <2>1. RowHolds(t)
    BY <1>4 DEF RowInv
  <2>2. HasRow(t)' <=> HasRow(t)
    BY DEF HasRow, Claimable
  <2>3. Changing(t) => Changing(t)'
    BY <1>1 DEF Changing, Active
  <2> QED BY <1>1, <2>1, <2>2, <2>3 DEF RowHolds, Claimable
<1> QED BY <1>2, <1>3, <1>4 DEF RowInv, Webhook

\* The process is told to end.
LEMMA RowsClose ==
    ASSUME RowInv, mode = "up", mode' = "closing", UNCHANGED <<store, jobs, op, lock, boot, torn>>
    PROVE  RowInv'
<1>1. BootHolds' /\ LocksHold'
  BY DEF RowInv, BootHolds, LocksHold, Active
<1>2. ASSUME NEW t \in Tasks, ~Webhook(t) PROVE RowHolds(t)'
  <2>1. RowHolds(t)
    BY <1>2 DEF RowInv
  <2>2. (HasRow(t)' <=> HasRow(t)) /\ (Changing(t)' <=> Changing(t))
    BY DEF HasRow, Claimable, Changing, Active
  <2> QED BY <2>1, <2>2 DEF RowHolds, Claimable
<1> QED BY <1>1, <1>2 DEF RowInv, Webhook
=============================================================================
