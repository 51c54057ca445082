----------------------------- MODULE TurnQueue -----------------------------
(***************************************************************************)
(* chatinter/turn_queue.py: the queue that runs the turns of each          *)
(* conversation one after another.  The program is asyncio: a step here is *)
(* the code between two suspension points.  The two locks are never held   *)
(* across a suspension, so they are never contended and need no state.     *)
(*                                                                         *)
(* A delivery is one arrival of a platform message at TurnQueue.submit;    *)
(* deliveries with the same Key are the same message delivered again.      *)
(* Each delivery that is accepted becomes one QueuedTurn of one message,   *)
(* so a turn is named by its delivery.                                     *)
(***************************************************************************)
EXTENDS Naturals, FiniteSets, Sequences

CONSTANTS
    Conversations,   \* conversation_session_key values
    Groups,          \* group ids; two bots of one group are two conversations
    Deliveries, Workers, Keys, MessageIds,
    None,
    ConversationOf,  \* [Deliveries -> Conversations]
    KeyOf,           \* [Deliveries -> Keys], the dedupe and handled key
    MessageIdOf,     \* [Deliveries -> MessageIds], the platform's message id
    PriorityOf,      \* [Deliveries -> 0..3], _message_priority
    MustKeep,        \* deliveries that are must_keep
    Leased,          \* deliveries that carry a mixed-turn lease
    GroupOf,         \* [Conversations -> Groups \cup {None}]
    MaxPending,      \* MAX_PENDING_TURNS_PER_GROUP
    DedupeSize,      \* _DEDUPE_CACHE_SIZE
    HandledSize,     \* _MAX_HANDLED_CACHE
    HistoryLimit,    \* get_chat_history_limit()
    SpawnMayFail,    \* whether create_task may raise
    Expiring         \* what may grow old in a run: "keys", "records"

ASSUME QueueAssumption ==
    /\ None \notin Deliveries \cup Workers \cup Groups \cup Keys
    /\ ConversationOf \in [Deliveries -> Conversations]
    /\ KeyOf \in [Deliveries -> Keys]
    /\ MessageIdOf \in [Deliveries -> MessageIds]
    /\ PriorityOf \in [Deliveries -> 0..3]
    /\ MustKeep \subseteq Deliveries
    /\ Leased \subseteq Deliveries
    /\ GroupOf \in [Conversations -> Groups \cup {None}]
    /\ MaxPending \in Nat \ {0}
    /\ DedupeSize \in Nat \ {0}
    /\ HandledSize \in Nat \ {0}
    /\ HistoryLimit \in Nat \ {0}
    /\ SpawnMayFail \in BOOLEAN
    /\ Expiring \subseteq {"keys", "records"}

(* One delivery is one call: its key names its conversation and message.   *)
ASSUME KeyAssumption ==
    \A d, e \in Deliveries :
        KeyOf[d] = KeyOf[e] <=>
            /\ ConversationOf[d] = ConversationOf[e]
            /\ MessageIdOf[d] = MessageIdOf[e]

Log == INSTANCE GroupTurnContext

VARIABLES
    pending,      \* [Conversations -> Seq(Deliveries)]   _ConversationState
    wake,         \* [Conversations -> BOOLEAN]
    workerTask,   \* [Conversations -> Workers \cup {None}]
    active,       \* [Conversations -> Deliveries \cup {None}]
    workerPc,     \* [Workers -> where each worker task stands]
    workerOf,     \* [Workers -> its conversation]
    turnOf,       \* [Workers -> the turn it awaits]
    processPc,    \* [Deliveries -> where its process task stands]
    submitted,    \* deliveries whose submit has run
    duties,       \* [Deliveries -> what submit's finally clause still owes]
    dropped,      \* [Deliveries -> submit's dropped_turn]
    notified,     \* [Deliveries -> the terminal notice its sender was sent]
    lease,        \* [Deliveries -> its mixed-turn lease]
    recordId,     \* [Deliveries -> group_context_record_id]
    dedupe,       \* TurnQueue._dedupe_cache, oldest first
    handled,      \* _HANDLED_MESSAGE_IDS, oldest first
    context,      \* [Groups -> the group's log]
    accepted      \* history: the deliveries accepted, in order

conversationVars == <<pending, wake, workerTask, active>>
workerVars == <<workerPc, workerOf, turnOf>>
callVars == <<submitted, duties, dropped, notified, lease, recordId>>
cacheVars == <<dedupe, handled>>
vars == <<conversationVars, workerVars, processPc, callVars, cacheVars,
          context, accepted>>

Elements(s) == {s[i] : i \in 1..Len(s)}

Newest(s, size) ==
    IF Len(s) > size THEN SubSeq(s, Len(s) - size + 1, Len(s)) ELSE s

-----------------------------------------------------------------------------
(* The state the program starts in, and its types.                         *)

Init ==
    /\ pending = [c \in Conversations |-> <<>>]
    /\ wake = [c \in Conversations |-> FALSE]
    /\ workerTask = [c \in Conversations |-> None]
    /\ active = [c \in Conversations |-> None]
    /\ workerPc = [w \in Workers |-> "gone"]
    /\ workerOf = [w \in Workers |-> None]
    /\ turnOf = [w \in Workers |-> None]
    /\ processPc = [d \in Deliveries |-> "none"]
    /\ submitted = {}
    /\ duties = [d \in Deliveries |-> <<>>]
    /\ dropped = [d \in Deliveries |-> None]
    /\ notified = [d \in Deliveries |-> "no"]
    /\ lease = [d \in Deliveries |-> IF d \in Leased THEN "held" ELSE "none"]
    /\ recordId = [d \in Deliveries |-> None]
    /\ dedupe = <<>>
    /\ handled = <<>>
    /\ context = [g \in Groups |-> Log!EmptyLog]
    /\ accepted = <<>>

Duty == {"releaseDropped", "tellDropped", "tellRejected", "releaseOwn"}

QueueTypeOK ==
    /\ pending \in [Conversations -> Seq(Deliveries)]
    /\ wake \in [Conversations -> BOOLEAN]
    /\ workerTask \in [Conversations -> Workers \cup {None}]
    /\ active \in [Conversations -> Deliveries \cup {None}]
    /\ workerPc \in [Workers -> {"gone", "ready", "idle", "timedOut",
                                 "processing"}]
    /\ workerOf \in [Workers -> Conversations \cup {None}]
    /\ turnOf \in [Workers -> Deliveries \cup {None}]
    /\ processPc \in [Deliveries -> {"none", "running", "releasing", "done"}]
    /\ submitted \subseteq Deliveries
    /\ \A c \in Conversations : Len(pending[c]) <= MaxPending

CallTypeOK ==
    /\ duties \in [Deliveries -> Seq(Duty)]
    /\ dropped \in [Deliveries -> Deliveries \cup {None}]
    /\ notified \in [Deliveries -> {"no", "replaced", "queue_full"}]
    /\ lease \in [Deliveries -> {"none", "held", "released"}]
    /\ recordId \in [Deliveries -> Keys \cup {None}]
    /\ dedupe \in Seq(Keys)
    /\ handled \in Seq(Keys)
    /\ accepted \in Seq(Deliveries)
    /\ Len(dedupe) <= DedupeSize + 1
    /\ Len(handled) <= HandledSize

TypeOK ==
    /\ QueueTypeOK
    /\ CallTypeOK
    /\ context \in [Groups -> Log!Logs(Keys, MessageIds)]

-----------------------------------------------------------------------------
(* submit: everything before its finally clause is one step.               *)

WorkerLives(c) ==
    workerTask[c] # None /\ workerPc[workerTask[c]] # "gone"

(* Mutant: a worker is started for every turn that is accepted.            *)
EnsureWorkerAlways(c, w) ==
    /\ workerPc[w] = "gone"
    /\ workerTask' = [workerTask EXCEPT ![c] = w]
    /\ workerPc' = [workerPc EXCEPT ![w] = "ready"]
    /\ workerOf' = [workerOf EXCEPT ![w] = c]
    /\ turnOf' = [turnOf EXCEPT ![w] = None]

(* _ensure_worker_locked *)
EnsureWorker(c, w) ==
    IF WorkerLives(c)
    THEN UNCHANGED <<workerTask, workerVars>>
    ELSE /\ workerPc[w] = "gone"
         /\ workerTask' = [workerTask EXCEPT ![c] = w]
         /\ workerPc' = [workerPc EXCEPT ![w] = "ready"]
         /\ workerOf' = [workerOf EXCEPT ![w] = c]
         /\ turnOf' = [turnOf EXCEPT ![w] = None]

(* is_already_handled, mark_as_handled *)
AlreadyHandled(d) == KeyOf[d] \in Elements(handled)

MarkHandled(k) ==
    IF k \in Elements(handled) THEN handled
    ELSE Newest(Append(handled, k), HandledSize)

(* _remember_dedupe_key: the cache is trimmed before the key is looked up  *)
(* and not after it is added, so it may exceed its size by one.  Entries   *)
(* past their age leave in DedupeAges.                                     *)
Remembered == Newest(dedupe, DedupeSize)

RememberKey(k) ==
    IF k \in Elements(Remembered) THEN Remembered ELSE Append(Remembered, k)

(* Mutant: the turn being processed is forgotten.                          *)
InFlightPending(c, k) == \E d \in Elements(pending[c]) : KeyOf[d] = k

(* _has_dedupe_locked *)
InFlight(c, k) ==
    \E d \in Elements(pending[c]) \cup ({active[c]} \ {None}) : KeyOf[d] = k

(* Mutant: one turn too many.                                              *)
RoomForOneMore(c) == Len(pending[c]) <= MaxPending

(* _enqueue_turn_locked: the turn a full queue gives up for d, if any      *)
Room(c) == Len(pending[c]) < MaxPending

Sacrifices(c) == {i \in 1..Len(pending[c]) : pending[c][i] \notin MustKeep}

(* Mutant: the oldest goes, even when another need not be kept.            *)
VictimOldest(c) == 1

VictimAt(c) ==
    IF Sacrifices(c) = {} THEN 1
    ELSE CHOOSE i \in Sacrifices(c) : \A j \in Sacrifices(c) : i <= j

Yields(c, d) == Sacrifices(c) # {} \/ d \in MustKeep

(* Mutant: what leaves the queue is not what was chosen.                   *)
DropLast(s, i) == SubSeq(s, 1, Len(s) - 1)

DropAt(s, i) == SubSeq(s, 1, i - 1) \o SubSeq(s, i + 1, Len(s))

Enqueued(c, d) ==
    IF Room(c) THEN Append(pending[c], d)
    ELSE Append(DropAt(pending[c], VictimAt(c)), d)

Victim(c) == IF Room(c) THEN None ELSE pending[c][VictimAt(c)]

(* record_group_turn_message and remove_group_turn_message; private chats  *)
(* keep no group context.                                                  *)
Entry(d) == [id |-> KeyOf[d], message |-> MessageIdOf[d]]

RecordIdFor(d) ==
    LET g == GroupOf[ConversationOf[d]]
    IN  IF g = None THEN None ELSE Log!RecordedId(context[g], Entry(d))

ContextWith(d) ==
    LET g == GroupOf[ConversationOf[d]]
    IN  IF g = None THEN context
        ELSE [context EXCEPT ![g] = Log!Recorded(@, Entry(d))]

(* Mutant: the rollback is left out.                                       *)
ContextKept(ctx, d, id) == ctx

(* _rollback_turn_group_context of d's turn, on the logs ctx               *)
ContextWithout(ctx, d, id) ==
    LET g == GroupOf[ConversationOf[d]]
    IN  IF g = None \/ id = None THEN ctx
        ELSE [ctx EXCEPT ![g] = Log!Removed(@, id)]

(* Mutants: a submitter drops a turn without releasing its lease, or       *)
(* without a word to its sender.                                           *)
DutiesLeakLease(drop, rejected, keepsLease) ==
    (IF drop # None THEN <<"tellDropped">> ELSE <<>>)
    \o (IF rejected THEN <<"tellRejected">> ELSE <<>>)
    \o (IF keepsLease THEN <<"releaseOwn">> ELSE <<>>)

DutiesSilent(drop, rejected, keepsLease) ==
    (IF drop # None THEN <<"releaseDropped">> ELSE <<>>)
    \o (IF rejected THEN <<"tellRejected">> ELSE <<>>)
    \o (IF keepsLease THEN <<"releaseOwn">> ELSE <<>>)

(* What the finally clause owes, in its order.                             *)
DutiesOf(drop, rejected, keepsLease) ==
    (IF drop # None THEN <<"releaseDropped", "tellDropped">> ELSE <<>>)
    \o (IF rejected THEN <<"tellRejected">> ELSE <<>>)
    \o (IF keepsLease THEN <<"releaseOwn">> ELSE <<>>)

Return(d, drop, rejected, transferred) ==
    /\ submitted' = submitted \cup {d}
    /\ dropped' = [dropped EXCEPT ![d] = drop]
    /\ duties' = [duties EXCEPT ![d] =
                    DutiesOf(drop, rejected, d \in Leased /\ ~transferred)]
    /\ UNCHANGED <<notified, lease>>

(* Handled already, or a group message that is not for the bot.            *)
Ignore(d) ==
    /\ d \notin submitted
    /\ AlreadyHandled(d) \/ PriorityOf[d] = 0
    /\ Return(d, None, FALSE, FALSE)
    /\ UNCHANGED <<conversationVars, workerVars, processPc, recordId,
                   cacheVars, context, accepted>>

Considered(d) ==
    /\ d \notin submitted
    /\ ~AlreadyHandled(d)
    /\ PriorityOf[d] > 0

(* The key is in the dedupe cache, or its turn is still in flight although *)
(* the caches have forgotten it.                                           *)
SkipDuplicate(d) ==
    /\ Considered(d)
    /\ \/ KeyOf[d] \in Elements(Remembered)
       \/ InFlight(ConversationOf[d], KeyOf[d])
    /\ dedupe' = RememberKey(KeyOf[d])
    /\ Return(d, None, FALSE, FALSE)
    /\ UNCHANGED <<conversationVars, workerVars, processPc, recordId,
                   handled, context, accepted>>

Fresh(d) ==
    /\ Considered(d)
    /\ KeyOf[d] \notin Elements(Remembered)
    /\ ~InFlight(ConversationOf[d], KeyOf[d])

(* The queue is full, every pending turn must be kept and d need not be.   *)
Refuse(d) ==
    LET c == ConversationOf[d] IN
    /\ Fresh(d)
    /\ ~Room(c) /\ ~Yields(c, d)
    /\ dedupe' = RememberKey(KeyOf[d])
    /\ Return(d, None, TRUE, FALSE)
    /\ UNCHANGED <<conversationVars, workerVars, processPc, recordId,
                   handled, context, accepted>>

(* The turn joins the queue, in the place of a pending one when it is full.*)
Accept(d) ==
    LET c == ConversationOf[d]
        drop == Victim(c)
    IN
    /\ Fresh(d)
    /\ Room(c) \/ Yields(c, d)
    /\ dedupe' = RememberKey(KeyOf[d])
    /\ pending' = [pending EXCEPT ![c] = Enqueued(c, d)]
    /\ recordId' = [e \in Deliveries |->
                       IF e = d THEN RecordIdFor(d)
                       ELSE IF e = drop THEN None ELSE recordId[e]]
    /\ context' = IF drop = None THEN ContextWith(d)
                  ELSE ContextWithout(ContextWith(d), drop, recordId[drop])
    /\ handled' = MarkHandled(KeyOf[d])
    /\ wake' = [wake EXCEPT ![c] = TRUE]
    /\ \E w \in Workers : EnsureWorker(c, w)
    /\ accepted' = Append(accepted, d)
    /\ Return(d, drop, FALSE, TRUE)
    /\ UNCHANGED <<active, processPc>>

(* create_task raised: d leaves the queue again, submit raises and its     *)
(* sender is told that the queue is full.                                  *)
SpawnFails(d) ==
    LET c == ConversationOf[d] IN
    /\ SpawnMayFail
    /\ Fresh(d)
    /\ Room(c)
    /\ ~WorkerLives(c)
    /\ dedupe' = RememberKey(KeyOf[d])
    /\ context' = ContextWithout(ContextWith(d), d, RecordIdFor(d))
    /\ handled' = MarkHandled(KeyOf[d])
    /\ wake' = [wake EXCEPT ![c] = TRUE]
    /\ Return(d, None, TRUE, FALSE)
    /\ UNCHANGED <<pending, workerTask, active, workerVars, processPc,
                   recordId, accepted>>

-----------------------------------------------------------------------------
(* submit's finally clause: one duty per step, each behind asyncio.shield. *)

Discharge(d, duty) ==
    /\ duties[d] # <<>> /\ Head(duties[d]) = duty
    /\ duties' = [duties EXCEPT ![d] = Tail(@)]
    /\ UNCHANGED <<conversationVars, workerVars, processPc, submitted,
                   dropped, recordId, dedupe, context, accepted>>

LeaseReleased(d) ==
    [lease EXCEPT ![d] = IF @ = "held" THEN "released" ELSE @]

ReleaseDropped(d) ==
    /\ Discharge(d, "releaseDropped")
    /\ lease' = LeaseReleased(dropped[d])
    /\ UNCHANGED <<notified, handled>>

(* _notify_turn_terminal: the send may fail, and is not repeated.          *)
Tell(d, reason) ==
    /\ notified' = [notified EXCEPT ![d] = reason]
    /\ handled' = MarkHandled(KeyOf[d])
    /\ UNCHANGED lease

TellDropped(d) ==
    Discharge(d, "tellDropped") /\ Tell(dropped[d], "replaced")

TellRejected(d) ==
    Discharge(d, "tellRejected") /\ Tell(d, "queue_full")

ReleaseOwn(d) ==
    /\ Discharge(d, "releaseOwn")
    /\ lease' = LeaseReleased(d)
    /\ UNCHANGED <<notified, handled>>

-----------------------------------------------------------------------------
(* _worker.  The task comes to the top of its loop when it starts, when    *)
(* its wake event is set, when it gives up retiring and when the turn it   *)
(* awaits is done; clearing the active turn and taking the next one is one *)
(* step.                                                                   *)

(* Mutants: a timed-out worker retires without looking again, or never.    *)
StaysOnNever(w) == FALSE
StaysOnAlways(w) == TRUE

StaysOn(w) == pending[workerOf[w]] # <<>> \/ wake[workerOf[w]]

(* Mutant: the worker does not wait for the turn's lease to be released.   *)
AtLoopTopEarly(w) ==
    \/ workerPc[w] = "ready"
    \/ workerPc[w] = "idle" /\ wake[workerOf[w]]
    \/ workerPc[w] = "timedOut" /\ StaysOn(w)
    \/ /\ workerPc[w] = "processing"
       /\ processPc[turnOf[w]] \in {"releasing", "done"}

AtLoopTop(w) ==
    \/ workerPc[w] = "ready"
    \/ workerPc[w] = "idle" /\ wake[workerOf[w]]
    \/ workerPc[w] = "timedOut" /\ StaysOn(w)
    \/ workerPc[w] = "processing" /\ processPc[turnOf[w]] = "done"

(* The wake event is cleared when the last pending turn is taken.          *)
MoreWaiting(c) == wake[c] /\ Len(pending[c]) > 1

TakeTurn(w) ==
    LET c == workerOf[w] IN
    /\ AtLoopTop(w)
    /\ pending[c] # <<>>
    /\ pending' = [pending EXCEPT ![c] = Tail(@)]
    /\ wake' = [wake EXCEPT ![c] = MoreWaiting(c)]
    /\ active' = [active EXCEPT ![c] = Head(pending[c])]
    /\ turnOf' = [turnOf EXCEPT ![w] = Head(pending[c])]
    /\ workerPc' = [workerPc EXCEPT ![w] = "processing"]
    /\ processPc' = [processPc EXCEPT ![Head(pending[c])] = "running"]
    /\ UNCHANGED <<workerTask, workerOf, callVars, cacheVars, context,
                   accepted>>

GoIdle(w) ==
    LET c == workerOf[w] IN
    /\ AtLoopTop(w)
    /\ pending[c] = <<>>
    /\ wake' = [wake EXCEPT ![c] = FALSE]
    /\ active' = [active EXCEPT ![c] = IF @ = turnOf[w] THEN None ELSE @]
    /\ turnOf' = [turnOf EXCEPT ![w] = None]
    /\ workerPc' = [workerPc EXCEPT ![w] = "idle"]
    /\ UNCHANGED <<pending, workerTask, workerOf, processPc, callVars,
                   cacheVars, context, accepted>>

(* wait_for gives up; the worker runs again only in a later step, and the  *)
(* event may be set before that.                                           *)
TimeOut(w) ==
    /\ workerPc[w] = "idle"
    /\ workerPc' = [workerPc EXCEPT ![w] = "timedOut"]
    /\ UNCHANGED <<conversationVars, workerOf, turnOf, processPc, callVars,
                   cacheVars, context, accepted>>

(* _retire_idle_worker: the worker ends, and its conversation's state with *)
(* it when it is still that conversation's worker.                         *)
Retire(w) ==
    LET c == workerOf[w] IN
    /\ workerPc[w] = "timedOut"
    /\ ~StaysOn(w)
    /\ workerTask' = [workerTask EXCEPT ![c] = IF @ = w THEN None ELSE @]
    /\ workerPc' = [workerPc EXCEPT ![w] = "gone"]
    /\ workerOf' = [workerOf EXCEPT ![w] = None]
    /\ UNCHANGED <<pending, wake, active, turnOf, processPc, callVars,
                   cacheVars, context, accepted>>

-----------------------------------------------------------------------------
(* _process_turn: the processor runs, and may end by marking the group     *)
(* context answered; then the turn's leases are released.                  *)

FinishProcessor(d) ==
    LET g == GroupOf[ConversationOf[d]] IN
    /\ processPc[d] = "running"
    /\ processPc' = [processPc EXCEPT ![d] = "releasing"]
    /\ \/ UNCHANGED context
       \/ /\ g # None /\ recordId[d] # None
          /\ context' = [context EXCEPT ![g] = Log!Consumed(@, recordId[d])]
    /\ UNCHANGED <<conversationVars, workerVars, callVars, cacheVars,
                   accepted>>

ReleaseProcessed(d) ==
    /\ processPc[d] = "releasing"
    /\ processPc' = [processPc EXCEPT ![d] = "done"]
    /\ lease' = LeaseReleased(d)
    /\ UNCHANGED <<conversationVars, workerVars, submitted, duties, dropped,
                   notified, recordId, cacheVars, context, accepted>>

-----------------------------------------------------------------------------
(* Time passes: the oldest dedupe key reaches _DEDUPE_CACHE_AGE_SECONDS,   *)
(* or the oldest record of a group its time to live.                       *)

DedupeAges ==
    /\ "keys" \in Expiring
    /\ dedupe # <<>>
    /\ dedupe' = Tail(dedupe)
    /\ UNCHANGED <<conversationVars, workerVars, processPc, callVars,
                   handled, context, accepted>>

ContextAges(g) ==
    /\ "records" \in Expiring
    /\ context[g].recent # <<>>
    /\ context' = [context EXCEPT ![g] = Log!Expired(@)]
    /\ UNCHANGED <<conversationVars, workerVars, processPc, callVars,
                   cacheVars, accepted>>

Submit(d) ==
    \/ Ignore(d)
    \/ SkipDuplicate(d)
    \/ Refuse(d)
    \/ Accept(d)
    \/ SpawnFails(d)

CleanUp(d) ==
    \/ ReleaseDropped(d)
    \/ TellDropped(d)
    \/ TellRejected(d)
    \/ ReleaseOwn(d)

WorkerStep(w) == TakeTurn(w) \/ GoIdle(w)

ProcessStep(d) == FinishProcessor(d) \/ ReleaseProcessed(d)

Next ==
    \/ \E d \in Deliveries : Submit(d) \/ CleanUp(d) \/ ProcessStep(d)
    \/ \E w \in Workers : WorkerStep(w) \/ TimeOut(w) \/ Retire(w)
    \/ DedupeAges
    \/ \E g \in Groups : ContextAges(g)

Spec == Init /\ [][Next]_vars

(* The event loop runs every ready task again and again, its timers fire,  *)
(* and a processor returns (its own deadlines are those of turn_runtime).  *)
(* Nothing makes a platform deliver a message.                             *)
Fairness ==
    /\ \A w \in Workers :
          WF_vars(WorkerStep(w)) /\ WF_vars(TimeOut(w)) /\ WF_vars(Retire(w))
    /\ \A d \in Deliveries : WF_vars(CleanUp(d)) /\ WF_vars(ProcessStep(d))

FairSpec == Spec /\ Fairness

-----------------------------------------------------------------------------
(* Properties.                                                             *)

Processing(d) == processPc[d] \in {"running", "releasing"}

Waiting(d) == d \in Elements(pending[ConversationOf[d]])

Dropped(d) == \E e \in Deliveries : dropped[e] = d

(* A conversation never has two live workers, although a worker retires on *)
(* a timer while submits keep arriving (_ensure_worker_locked,             *)
(* _retire_idle_worker), and a live worker is the one its state names.     *)
OneWorker ==
    \A w \in Workers :
        workerPc[w] # "gone" => workerTask[workerOf[w]] = w

(* Two turns of one conversation are never processed at the same time, not *)
(* even while the first is only releasing its lease.                       *)
Serialised ==
    \A d, e \in Deliveries :
        /\ ConversationOf[d] = ConversationOf[e]
        /\ Processing(d) /\ Processing(e)
        => d = e

(* No lost wake-up: a conversation with pending turns has a live worker,   *)
(* and when that worker waits, or has just given up waiting, its wake      *)
(* event is set.                                                           *)
PendingIsServed ==
    \A c \in Conversations : pending[c] # <<>> =>
        /\ WorkerLives(c)
        /\ workerPc[workerTask[c]] \in {"idle", "timedOut"} => wake[c]

(* The same message is never in flight twice in a conversation, even after *)
(* the dedupe and handled caches have both forgotten it.                   *)
InFlightOnce ==
    \A d, e \in Deliveries :
        /\ KeyOf[d] = KeyOf[e]
        /\ Waiting(d) \/ Processing(d)
        /\ Waiting(e) \/ Processing(e)
        => d = e

(* A queued or running turn still holds the mixed-turn lease it came with, *)
(* so that the mode gate keeps Agent mode shut until it is done.           *)
LeaseCoversTurn ==
    \A d \in Leased : Waiting(d) \/ processPc[d] = "running"
                         => lease[d] = "held"

(* A lease that is held always has somebody left who will release it: its  *)
(* turn, the call that dropped its turn, or its own call.                  *)
LeaseHasOwner ==
    \A d \in Leased \cap submitted :
        lease[d] = "held" =>
            \/ Waiting(d) \/ Processing(d)
            \/ "releaseOwn" \in Elements(duties[d])
            \/ \E e \in Deliveries :
                  dropped[e] = d /\ "releaseDropped" \in Elements(duties[e])

(* A lease is held while its turn can still run, and never for longer than *)
(* somebody knows of it, whichever call's finally clause runs late: Agent  *)
(* mode is neither opened beside a turn nor shut out for good.             *)
LeaseFollowsTurn == LeaseCoversTurn /\ LeaseHasOwner

(* A sender told that the request was replaced or refused is never also    *)
(* answered, and a turn taken from the queue is told or about to be told.  *)
ToldIsFinal ==
    \A d \in Deliveries :
        /\ notified[d] # "no" => processPc[d] = "none" /\ ~Waiting(d)
        /\ Dropped(d) =>
              \/ notified[d] = "replaced"
              \/ \E e \in Deliveries :
                    dropped[e] = d /\ "tellDropped" \in Elements(duties[e])

(* A record in a group's log is that of a message which was accepted and   *)
(* neither replaced nor refused since: the rollbacks miss none.            *)
ContextIsOfKeptTurns ==
    \A g \in Groups : \A r \in Elements(context[g].recent) :
        \E d \in Elements(accepted) : KeyOf[d] = r.id /\ ~Dropped(d)

Earlier(e, d) ==
    \E i, j \in 1..Len(accepted) :
        i < j /\ accepted[i] = e /\ accepted[j] = d

(* While a turn runs, the group's log shows it only messages accepted      *)
(* before its own: nothing said later is passed off as what came before.   *)
NoFutureContext ==
    \A d \in Deliveries : \A g \in Groups :
        processPc[d] = "running" /\ GroupOf[ConversationOf[d]] = g =>
            \A r \in Log!Visible(context[g].unread, recordId[d],
                                 MessageIdOf[d]) :
                \E e \in Deliveries : KeyOf[e] = r.id /\ Earlier(e, d)

(* A message of a group that waits for its turn has not been consumed as   *)
(* context by the turns answered before it.                                *)
WaitingIsUnread ==
    \A d \in Deliveries : \A g \in Groups :
        Waiting(d) /\ GroupOf[ConversationOf[d]] = g =>
            \E r \in Elements(context[g].unread) : r.id = recordId[d]

(* The log is cut at the right place for each turn, however turns of the   *)
(* group wait, are replaced, rolled back and answered.                     *)
ContextIsTimely == NoFutureContext /\ WaitingIsUnread

(* Every accepted turn is processed to its end, or its sender is told that *)
(* it was replaced.                                                        *)
AcceptedIsSettled ==
    \A d \in Deliveries :
        d \in Elements(accepted) ~>
            processPc[d] = "done" \/ notified[d] = "replaced"

(* An idle conversation costs nothing in the end: its worker retires and   *)
(* its state goes, although each may be needed again at any time.          *)
IdleIsCollected ==
    \A c \in Conversations : <>[](~WorkerLives(c) /\ active[c] = None)

(* README.md:27 and 250: consecutive messages of a conversation are merged *)
(* into one turn, so that a turn that starts leaves no message waiting.    *)
ConsecutiveMessagesMerge ==
    [][\A c \in Conversations :
          active'[c] # active[c] /\ active'[c] # None => pending'[c] = <<>>]_vars

(* The queue implements SerialTurns.                                       *)
Fate(d) ==
    CASE processPc[d] = "done" -> "finished"
      [] Processing(d) -> "running"
      [] Waiting(d) -> "waiting"
      [] Dropped(d) -> "replaced"
      [] d \in submitted /\ ~Dropped(d) /\ ~Waiting(d)
         /\ processPc[d] = "none" -> "declined"
      [] OTHER -> "unseen"

Serial == INSTANCE SerialTurns WITH
    waiting <- pending,
    running <- [c \in Conversations |->
                  {d \in Deliveries : ConversationOf[d] = c /\ Processing(d)}],
    fate <- [d \in Deliveries |-> Fate(d)]

ImplementsSerialTurns == Serial!Spec

=============================================================================
