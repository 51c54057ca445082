----------------------- MODULE ProactiveDispatch_proofs -----------------------
(***************************************************************************)
(* Proofs about the dispatcher of active tasks, for any tasks, flights and *)
(* bounds: a task is in flight at most once, a webhook event is accepted   *)
(* at most once while its receipt is kept, the user hears of every one-off *)
(* task that was claimed, an enabled task has its row, and a run that a    *)
(* crash has cut off leaves its task off.                                  *)
(***************************************************************************)
EXTENDS ProactiveDispatch, ActiveTasks_proofs

(***************************************************************************)
(* The inductive invariant                                                 *)
(***************************************************************************)
UsedRecord == [made : SUBSET Tasks, ops : Nat, flights : Nat, restarts : Nat]

GhostsTyped ==
    /\ masked \subseteq Tasks
    /\ cut \in [Tasks -> {"no", "run", "delivery"}]
    /\ used \in UsedRecord

\* Only the scheduler claims, and what is owed is a one-off task.
FlightsTyped ==
    /\ flight \in [Slots -> Flight]
    /\ \A s \in Slots : /\ flight[s].step = "free" => flight[s] = Free
                        /\ flight[s].step # "free" => flight[s].task \in Tasks
                        /\ flight[s].claimed => flight[s].source = "schedule"
                        /\ flight[s].claimed => flight[s].step \in InFlight
                        /\ flight[s].event # NoEvent => flight[s].source = "webhook"
    /\ inflight \subseteq Tasks
    /\ pending \subseteq {"manual", "webhook"} \X Tasks
    /\ holder \in Slots \union {Turn, None}
    /\ owed \subseteq {t \in Tasks : TriggerOf[t] = "date"}

FlightInv == FlightsTyped /\ OneFlight /\ ClaimIsAnswered

\* The receipts on disk are what is left of the events accepted.
EventInv ==
    /\ \A t \in Tasks : store[t].there => t \in used.made
    /\ \A p \in accepted : /\ p[1] \in used.made
                           /\ p[2] \in store[p[1]].receipts \/ p \in dropped
    /\ EventOnce

DispatchInv == TasksTyped /\ GhostsTyped /\ FlightInv /\ EventInv

(***************************************************************************)
(* Flights                                                                 *)
(***************************************************************************)
LEMMA Names ==
    /\ None \notin Slots /\ Turn \notin Slots /\ None # Turn
    /\ Slots \subseteq Controllers
    /\ {Turn, Loose, Command} \subseteq Controllers
    /\ NoEvent \notin Events
BY ControllersAreThese, NoneIsNobody

LEMMA FlightFields ==
    ASSUME NEW f \in Flight
    PROVE  /\ f.step \in Steps /\ f.task \in Tasks \union {None} /\ f.source \in Sources
           /\ f.claimed \in BOOLEAN /\ f.event \in Events \union {NoEvent} /\ f.late \in BOOLEAN
BY DEF Flight

LEMMA FreeType ==
    Free \in Flight /\ Free.step = "free" /\ Free.claimed = FALSE /\ Free.event = NoEvent
BY DEF Free, Flight, Steps, Sources

\* A flight at another step.
LEMMA StepChanged ==
    ASSUME NEW f \in Flight, NEW step \in Steps, NEW b \in BOOLEAN
    PROVE  /\ [f EXCEPT !.step = step] \in Flight
           /\ [f EXCEPT !.step = step].step = step
           /\ [f EXCEPT !.step = step].task = f.task
           /\ [f EXCEPT !.step = step].source = f.source
           /\ [f EXCEPT !.step = step].claimed = f.claimed
           /\ [f EXCEPT !.step = step].event = f.event
           /\ [f EXCEPT !.late = b] \in Flight
           /\ [f EXCEPT !.late = b].step = f.step
           /\ [f EXCEPT !.late = b].task = f.task
           /\ [f EXCEPT !.late = b].source = f.source
           /\ [f EXCEPT !.late = b].claimed = f.claimed
           /\ [f EXCEPT !.late = b].event = f.event
BY DEF Flight

\* What a step of one flight may do: come into flight for a task that is not, stay in flight
\* with its task, or leave; take and give back the session as it does; and stop being the
\* one that answers for its task only if that is not owed any more.
LEMMA FlightMoves ==
    ASSUME FlightInv, NEW s \in Slots, NEW f \in Flight,
           flight' = [flight EXCEPT ![s] = f],
           f.step = "free" => f = Free,
           f.step # "free" => f.task \in Tasks,
           f.claimed => f.source = "schedule" /\ f.step \in InFlight,
           f.event # NoEvent => f.source = "webhook",
           f.step \in InFlight =>
              /\ inflight' = inflight \union {f.task}
              /\ \/ flight[s].step \in InFlight /\ f.task = flight[s].task
                 \/ flight[s].step \notin InFlight /\ f.task \notin inflight,
           f.step \notin InFlight =>
              inflight' = IF flight[s].step \in InFlight
                          THEN inflight \ {flight[s].task} ELSE inflight,
           f.step \in HoldsSession <=> holder' = s,
           \A u \in Slots \ {s} : holder' = u <=> holder = u,
           holder' \in Slots \union {Turn, None},
           pending' \subseteq {"manual", "webhook"} \X Tasks,
           owed' \subseteq {t \in Tasks : TriggerOf[t] = "date"},
           \A t \in owed' : \/ f.claimed /\ f.task = t
                            \/ t \in owed /\ ~(flight[s].claimed /\ flight[s].task = t)
    PROVE  FlightInv'
<1>1. flight \in [Slots -> Flight] /\ flight'[s] = f /\ \A u \in Slots \ {s} : flight'[u] = flight[u]
  BY DEF FlightInv, FlightsTyped
<1>2. FlightsTyped'
  <2>1. inflight' \subseteq Tasks
    BY DEF FlightInv, FlightsTyped, InFlight
  <2> QED BY <1>1, <2>1 DEF FlightInv, FlightsTyped
<1>3. OneFlight'
  <2>0. OneFlight
    BY DEF FlightInv
  <2>1. ASSUME NEW u \in Slots, NEW v \in Slots, flight'[u].step \in InFlight,
               flight'[v].step \in InFlight, flight'[u].task = flight'[v].task
        PROVE  u = v
    <3>1. ASSUME NEW w \in Slots \ {s}, flight[w].step \in InFlight
          PROVE  flight[w].task \in inflight
      BY <2>0, <3>1 DEF OneFlight
    <3> QED BY <1>1, <2>0, <2>1, <3>1 DEF OneFlight
  <2>2. inflight' = {flight'[u].task : u \in {v \in Slots : flight'[v].step \in InFlight}}
    <3>0. inflight = {flight[u].task : u \in {v \in Slots : flight[v].step \in InFlight}}
      BY <2>0 DEF OneFlight
    <3>1. CASE f.step \in InFlight
      BY <1>1, <3>0, <3>1
    <3>2. CASE f.step \notin InFlight /\ flight[s].step \notin InFlight
      BY <1>1, <3>0, <3>2
    <3>3. CASE f.step \notin InFlight /\ flight[s].step \in InFlight
      <4>1. \A u \in Slots \ {s} : flight[u].step \in InFlight => flight[u].task # flight[s].task
        BY <2>0, <3>3 DEF OneFlight
      <4> QED BY <1>1, <3>0, <3>3, <4>1
    <3> QED BY <3>1, <3>2, <3>3
  <2>3. \A u \in Slots : flight'[u].step \in HoldsSession <=> holder' = u
    BY <1>1, <2>0 DEF OneFlight
  <2> QED BY <2>1, <2>2, <2>3 DEF OneFlight
<1>4. ClaimIsAnswered'
  <2> SUFFICES ASSUME NEW t \in owed'
               PROVE  \E u \in Slots : flight'[u].claimed /\ flight'[u].task = t
    BY DEF ClaimIsAnswered
  <2>1. CASE f.claimed /\ f.task = t
    BY <1>1, <2>1
  <2>2. CASE t \in owed /\ ~(flight[s].claimed /\ flight[s].task = t)
    <3>1. PICK u \in Slots : flight[u].claimed /\ flight[u].task = t
      BY <2>2 DEF FlightInv, ClaimIsAnswered
    <3> QED BY <1>1, <2>2, <3>1
  <2> QED BY <2>1, <2>2
<1> QED BY <1>2, <1>3, <1>4 DEF FlightInv

\* A flight that is over.
LEMMA LeaveMoves ==
    ASSUME FlightInv, NEW s \in Slots, flight[s].step \in InFlight, Leave(s),
           owed' \in {owed, owed \ {flight[s].task}},
           ~flight[s].claimed \/ flight[s].task \notin owed'
    PROVE  FlightInv'
<1>1. /\ flight' = [flight EXCEPT ![s] = Free]
      /\ inflight' = inflight \ {flight[s].task}
      /\ holder' = IF holder = s THEN None ELSE holder
      /\ pending' = pending \ {<<flight[s].source, flight[s].task>>}
  BY DEF Leave
<1>2. holder \in Slots \union {Turn, None} /\ pending \subseteq {"manual", "webhook"} \X Tasks
      /\ owed \subseteq {t \in Tasks : TriggerOf[t] = "date"}
  BY DEF FlightInv, FlightsTyped
<1>3. /\ Free \in Flight /\ Free.step = "free" /\ Free.claimed = FALSE /\ Free.event = NoEvent
      /\ Free.step \notin InFlight /\ Free.step \notin HoldsSession
  BY FreeType DEF InFlight, HoldsSession
<1>4. /\ holder' # s /\ holder' \in Slots \union {Turn, None}
      /\ \A u \in Slots \ {s} : holder' = u <=> holder = u
  BY <1>1, <1>2, Names
<1>5. \A t \in owed' : t \in owed /\ ~(flight[s].claimed /\ flight[s].task = t)
  OBVIOUS
<1> QED BY <1>1, <1>2, <1>3, <1>4, <1>5, FlightMoves

\* A flight in flight that goes on to another step, with or without the session.
LEMMA StepMoves ==
    ASSUME FlightInv, NEW s \in Slots, NEW step \in InFlight, flight[s].step \in InFlight,
           flight' = [flight EXCEPT ![s].step = step],
           UNCHANGED <<inflight, pending, owed>>,
           step \in HoldsSession <=> holder' = s,
           \A u \in Slots \ {s} : holder' = u <=> holder = u,
           holder' \in Slots \union {Turn, None}
    PROVE  FlightInv'
<1> DEFINE f == [flight[s] EXCEPT !.step = step]
<1>0. flight[s] \in Flight /\ step \in Steps /\ step # "free"
  BY DEF FlightInv, FlightsTyped, InFlight, Steps
<1>1. /\ f \in Flight /\ f.step = step /\ f.task = flight[s].task
      /\ f.source = flight[s].source /\ f.claimed = flight[s].claimed
      /\ f.event = flight[s].event
  BY <1>0, StepChanged
<1>2. /\ flight[s].step # "free" /\ flight[s].task \in Tasks /\ flight[s].task \in inflight
      /\ flight[s].claimed => flight[s].source = "schedule"
      /\ flight[s].event # NoEvent => flight[s].source = "webhook"
  BY DEF FlightInv, FlightsTyped, OneFlight, InFlight
<1>3. flight' = [flight EXCEPT ![s] = f]
  OBVIOUS
<1>4. /\ pending' \subseteq {"manual", "webhook"} \X Tasks
      /\ owed' \subseteq {t \in Tasks : TriggerOf[t] = "date"}
  BY DEF FlightInv, FlightsTyped
<1>5. inflight' = inflight \union {f.task}
  BY <1>1, <1>2
<1>6. \A t \in owed' : \/ f.claimed /\ f.task = t
                       \/ t \in owed /\ ~(flight[s].claimed /\ flight[s].task = t)
  BY <1>1
<1>7. /\ f \in Flight /\ f.step # "free" /\ f.task \in Tasks
      /\ f.claimed => f.source = "schedule"
      /\ f.event # NoEvent => f.source = "webhook"
      /\ f.step \in InFlight /\ f.task = flight[s].task
      /\ f.step \in HoldsSession <=> holder' = s
  BY <1>0, <1>1, <1>2
<1> HIDE DEF f
<1> QED BY <1>3, <1>4, <1>5, <1>6, <1>7, FlightMoves

\* A result that was not delivered.
LEMMA EndMoves ==
    ASSUME FlightInv, NEW s \in Slots, flight[s].step \in InFlight, NEW late \in BOOLEAN,
           EndUndelivered(s, late), UNCHANGED owed
    PROVE  FlightInv'
<1>1. CASE flight[s].claimed /\ TriggerOf[flight[s].task] = "date"
  <2> DEFINE step == IF late THEN "lateNotice" ELSE "notice"
  <2>1. /\ flight' = [flight EXCEPT ![s].step = step]
        /\ holder' = IF holder = s THEN None ELSE holder
        /\ UNCHANGED <<inflight, pending>>
    BY <1>1 DEF EndUndelivered
  <2>2. step \in InFlight /\ step \notin HoldsSession
    BY DEF InFlight, HoldsSession
  <2>3. holder \in Slots \union {Turn, None}
    BY DEF FlightInv, FlightsTyped
  <2>4. /\ holder' # s /\ holder' \in Slots \union {Turn, None}
        /\ \A u \in Slots \ {s} : holder' = u <=> holder = u
    BY <2>1, <2>3, Names
  <2> HIDE DEF step
  <2> QED BY <2>1, <2>2, <2>4, StepMoves
<1>2. CASE ~(flight[s].claimed /\ TriggerOf[flight[s].task] = "date")
  <2>1. ~flight[s].claimed \/ flight[s].task \notin owed
    BY <1>2 DEF FlightInv, FlightsTyped
  <2>2. Leave(s)
    BY <1>2 DEF EndUndelivered
  <2> QED BY <2>1, <2>2, LeaveMoves
<1> QED BY <1>1, <1>2

\* A manual run that goes back to wait.
LEMMA WaitMoves ==
    ASSUME FlightInv, NEW s \in Slots, flight[s].step = "admitted", ~flight[s].claimed,
           flight' = [flight EXCEPT ![s].step = "waiting"],
           inflight' = inflight \ {flight[s].task},
           UNCHANGED <<pending, holder, owed>>
    PROVE  FlightInv'
<1> DEFINE f == [flight[s] EXCEPT !.step = "waiting"]
<1>0. flight[s] \in Flight /\ "waiting" \in Steps
  BY DEF FlightInv, FlightsTyped, Steps
<1>1. /\ f \in Flight /\ f.step = "waiting" /\ f.task = flight[s].task
      /\ f.source = flight[s].source /\ f.claimed = flight[s].claimed
      /\ f.event = flight[s].event
  BY <1>0, StepChanged
<1>2. /\ f.step # "free" /\ f.task \in Tasks /\ ~f.claimed
      /\ f.event # NoEvent => f.source = "webhook"
      /\ f.step \notin InFlight /\ f.step \notin HoldsSession
      /\ flight[s].step \in InFlight /\ flight[s].step \notin HoldsSession
  BY <1>1 DEF FlightInv, FlightsTyped, InFlight, HoldsSession
<1>3. /\ holder # s /\ holder \in Slots \union {Turn, None}
      /\ pending \subseteq {"manual", "webhook"} \X Tasks
      /\ owed \subseteq {t \in Tasks : TriggerOf[t] = "date"}
  BY <1>2 DEF FlightInv, FlightsTyped, OneFlight
<1>4. flight' = [flight EXCEPT ![s] = f]
  OBVIOUS
<1> HIDE DEF f
<1> QED BY <1>1, <1>2, <1>3, <1>4, FlightMoves

\* A step of a flight that is not in flight, before and after.
LEMMA OutsideMoves ==
    ASSUME FlightInv, NEW s \in Slots, NEW f \in Flight,
           flight[s].step \notin InFlight, f.step \notin InFlight, ~f.claimed,
           flight' = [flight EXCEPT ![s] = f],
           f.step = "free" => f = Free,
           f.step # "free" => f.task \in Tasks,
           f.event # NoEvent => f.source = "webhook",
           UNCHANGED <<inflight, holder, owed>>,
           pending' \subseteq {"manual", "webhook"} \X Tasks
    PROVE  FlightInv'
<1>1. /\ flight[s].step \notin HoldsSession /\ f.step \notin HoldsSession
  BY DEF InFlight, HoldsSession
<1>2. holder # s /\ holder \in Slots \union {Turn, None}
      /\ owed \subseteq {t \in Tasks : TriggerOf[t] = "date"}
      /\ ~flight[s].claimed
  BY <1>1 DEF FlightInv, OneFlight, FlightsTyped
<1> QED BY <1>1, <1>2, FlightMoves

\* A flight is admitted: its task is not in flight yet.
LEMMA AdmittedMoves ==
    ASSUME FlightInv, NEW s \in Slots, NEW f \in Flight,
           flight[s].step \notin InFlight, f.step = "admitted",
           flight' = [flight EXCEPT ![s] = f],
           f.task \in Tasks, f.task \notin inflight,
           f.claimed => f.source = "schedule",
           f.event # NoEvent => f.source = "webhook",
           inflight' = inflight \union {f.task},
           UNCHANGED <<holder, pending>>,
           owed' \subseteq {t \in Tasks : TriggerOf[t] = "date"},
           \A t \in owed' : t \in owed \/ (f.claimed /\ f.task = t)
    PROVE  FlightInv'
<1>1. /\ flight[s].step \notin HoldsSession /\ f.step \notin HoldsSession
      /\ f.step \in InFlight /\ f.step # "free"
  BY DEF InFlight, HoldsSession
<1>2. holder # s /\ holder \in Slots \union {Turn, None}
      /\ pending \subseteq {"manual", "webhook"} \X Tasks
      /\ ~flight[s].claimed
  BY <1>1 DEF FlightInv, OneFlight, FlightsTyped
<1> QED BY <1>1, <1>2, FlightMoves

\* Nothing of the flights changes, or the user's turn takes or leaves the session.
LEMMA GroundMoves ==
    ASSUME FlightInv, UNCHANGED <<flight, inflight, pending, owed>>,
           \/ holder' = holder
           \/ holder = None /\ holder' = Turn
           \/ holder = Turn /\ holder' = None
    PROVE  FlightInv'
<1>1. \A u \in Slots : holder' = u <=> holder = u
  BY Names
<1>2. holder' \in Slots \union {Turn, None}
  BY DEF FlightInv, FlightsTyped
<1>3. FlightsTyped'
  BY <1>2 DEF FlightInv, FlightsTyped
<1>4. OneFlight'
  BY <1>1 DEF FlightInv, OneFlight
<1>5. ClaimIsAnswered'
  BY DEF FlightInv, ClaimIsAnswered
<1> QED BY <1>3, <1>4, <1>5 DEF FlightInv

LEMMA SilenceMoves ==
    ASSUME FlightInv, Silence
    PROVE  FlightInv'
<1>1. /\ flight' = [s \in Slots |-> Free]
      /\ inflight' = {} /\ pending' = {} /\ holder' = None /\ owed' = {}
  BY DEF Silence
<1>2. FlightsTyped'
  BY <1>1, FreeType DEF FlightsTyped
<1>3. OneFlight'
  BY <1>1, FreeType, Names DEF OneFlight, InFlight, HoldsSession
<1>4. ClaimIsAnswered'
  BY <1>1 DEF ClaimIsAnswered
<1> QED BY <1>2, <1>3, <1>4 DEF FlightInv

(***************************************************************************)
(* The store and the receipts                                              *)
(***************************************************************************)
LEMMA RecordedTyped ==
    ASSUME StoreTyped, NEW t \in Tasks, NEW status \in Statuses, store' \in Recorded(t, status)
    PROVE  StoreTyped' /\ ReceiptsKept
<1>1. \/ UNCHANGED store
      \/ store' = [store EXCEPT ![t] = Marked(store[t], status)]
  BY DEF Recorded
<1>2. /\ Marked(store[t], status) \in Task
      /\ Marked(store[t], status).there = store[t].there
      /\ Marked(store[t], status).receipts = store[t].receipts
  BY TaskChanged DEF StoreTyped
<1> QED BY <1>1, <1>2, StoreSame, StoreChanged

LEMMA EventQuiet ==
    ASSUME GhostsTyped, EventInv, ReceiptsKept, UNCHANGED <<accepted, twice, dropped>>,
           used'.made = used.made
    PROVE  EventInv'
<1>1. used.made \subseteq Tasks
  BY DEF GhostsTyped, UsedRecord
<1> QED BY <1>1 DEF EventInv, ReceiptsKept, EventOnce

\* An operation that is noted may drop receipts, but makes no task appear.
LEMMA EventNoted ==
    ASSUME GhostsTyped, EventInv, NoneAppears, Noted, used'.made = used.made
    PROVE  EventInv'
<1>1. used.made \subseteq Tasks
  BY DEF GhostsTyped, UsedRecord
<1>2. /\ dropped' = dropped \union {p \in accepted : p[2] \notin store'[p[1]].receipts}
      /\ UNCHANGED <<accepted, twice>>
  BY DEF Noted
<1>3. \A p \in accepted' : p[2] \in store'[p[1]].receipts \/ p \in dropped'
  BY <1>2
<1>4. \A t \in Tasks : store'[t].there => t \in used'.made
  BY DEF EventInv, NoneAppears
<1>5. EventOnce'
  BY <1>2 DEF EventInv, EventOnce
<1>6. \A p \in accepted' : p[1] \in used'.made
  BY <1>2 DEF EventInv
<1> QED BY <1>3, <1>4, <1>5, <1>6 DEF EventInv

LEMMA CountedMade ==
    ASSUME GhostsTyped, NEW what \in {"ops", "flights", "restarts"}, NEW bound,
           Counted(what, bound)
    PROVE  used' \in UsedRecord /\ used'.made = used.made
<1>1. /\ used \in UsedRecord
      /\ used' = [used EXCEPT ![what] = used[what] + 1]
  BY DEF Counted, GhostsTyped
<1>2. CASE what = "ops"
  BY <1>1, <1>2 DEF UsedRecord
<1>3. CASE what = "flights"
  BY <1>1, <1>3 DEF UsedRecord
<1>4. CASE what = "restarts"
  BY <1>1, <1>4 DEF UsedRecord
<1> QED BY <1>2, <1>3, <1>4

\* A step that records at most a status.
LEMMA QuietParts ==
    ASSUME DispatchInv, StoreTyped', ReceiptsKept, FlightInv',
           UNCHANGED <<jobs, op, lock, mode, boot, torn>>,
           UNCHANGED <<accepted, twice, dropped, cut, masked, used>>
    PROVE  DispatchInv'
<1>1. TasksTyped'
  BY DEF DispatchInv, TasksTyped, OpsTyped, RestTyped
<1>2. GhostsTyped'
  BY DEF DispatchInv, GhostsTyped
<1>3. EventInv'
  BY EventQuiet DEF DispatchInv
<1> QED BY <1>1, <1>2, <1>3 DEF DispatchInv

(***************************************************************************)
(* The flights, one lemma for the actions that do the same                 *)
(***************************************************************************)
LEMMA FlightTask ==
    ASSUME DispatchInv, NEW s \in Slots, flight[s].step # "free"
    PROVE  flight[s].task \in Tasks /\ store[flight[s].task] \in Task /\ StoreTyped
BY DEF DispatchInv, FlightInv, FlightsTyped, TasksTyped, StoreTyped

LEMMA EndingStep ==
    ASSUME DispatchInv, NEW s \in Slots,
           \/ NotFound(s) \/ SessionBusy(s) \/ ApprovalPending(s) \/ NotReserved(s)
           \/ Unbound(s) \/ ExecutionFails(s) \/ DeliveryFails(s)
    PROVE  DispatchInv'
<1> DEFINE t == flight[s].task
<1>1. flight[s].step \in InFlight /\ flight[s].step # "free"
  BY DEF NotFound, SessionBusy, ApprovalPending, NotReserved, Unbound, ExecutionFails,
     DeliveryFails, InFlight
<1>2. t \in Tasks /\ StoreTyped
  BY <1>1, FlightTask
<1>3. StoreTyped' /\ ReceiptsKept
  <2>1. \/ UNCHANGED store
        \/ \E status \in {"skipped", "settled", "paused", "uncertain", "deliveryUncertain"} :
              store' \in Recorded(t, status)
    BY DEF NotFound, SessionBusy, LeaveOrWait, ApprovalPending, NotReserved, Unbound,
       ExecutionFails, DeliveryFails
  <2>2. {"skipped", "settled", "paused", "uncertain", "deliveryUncertain"} \subseteq Statuses
    BY DEF Statuses
  <2> QED BY <1>2, <2>1, <2>2, RecordedTyped, StoreSame
<1>4. UNCHANGED <<jobs, op, lock, mode, boot, torn>> /\ UNCHANGED ghosts /\ UNCHANGED used
  BY DEF NotFound, SessionBusy, ApprovalPending, NotReserved, Unbound, ExecutionFails,
     DeliveryFails
<1>5. FlightInv /\ UNCHANGED owed
  BY <1>4 DEF ghosts, DispatchInv
<1>6. FlightInv'
  <2>1. CASE EndUndelivered(s, FALSE)
    BY <1>1, <1>5, <2>1, EndMoves
  <2>2. CASE Leave(s) /\ ~flight[s].claimed
    BY <1>1, <1>5, <2>2, LeaveMoves
  <2>3. CASE /\ flight[s].step = "admitted" /\ ~flight[s].claimed
             /\ flight' = [flight EXCEPT ![s].step = "waiting"]
             /\ inflight' = inflight \ {t}
             /\ UNCHANGED <<pending, holder>>
    BY <1>5, <2>3, WaitMoves
  <2>4. CASE NotFound(s)
    BY <2>2, <2>4 DEF NotFound, Runnable
  <2>5. CASE SessionBusy(s)
    BY <2>1, <2>2, <2>3, <2>5 DEF SessionBusy, LeaveOrWait
  <2>6. CASE \/ ApprovalPending(s) \/ NotReserved(s) \/ Unbound(s) \/ ExecutionFails(s)
             \/ DeliveryFails(s)
    BY <2>1, <2>6 DEF ApprovalPending, NotReserved, Unbound, ExecutionFails, DeliveryFails
  <2> QED BY <2>4, <2>5, <2>6
<1> QED BY <1>3, <1>4, <1>6, QuietParts DEF ghosts

LEMMA ToldStep ==
    ASSUME DispatchInv, NEW s \in Slots, Delivered(s) \/ Notice(s) \/ Duplicate(s)
    PROVE  DispatchInv'
<1>1. flight[s].step \in InFlight /\ flight[s].step # "free" /\ Leave(s)
  BY DEF Delivered, Notice, Duplicate, InFlight
<1>2. flight[s].task \in Tasks /\ StoreTyped
  BY <1>1, FlightTask
<1>3. StoreTyped' /\ ReceiptsKept
  <2>1. UNCHANGED store \/ store' \in Recorded(flight[s].task, "settled")
    BY DEF Delivered, Notice, Duplicate, taskVars
  <2>2. "settled" \in Statuses
    BY DEF Statuses
  <2> QED BY <1>2, <2>1, <2>2, RecordedTyped, StoreSame
<1>4. /\ UNCHANGED <<jobs, op, lock, mode, boot, torn>>
      /\ UNCHANGED <<accepted, twice, dropped, cut, masked, used>>
  BY DEF Delivered, Notice, Duplicate, taskVars, ghosts
<1>5. CASE owed' = owed \ {flight[s].task}
  <2>1. FlightInv'
    BY <1>1, <1>5, LeaveMoves DEF DispatchInv
  <2> QED BY <1>3, <1>4, <2>1, QuietParts
<1>6. CASE UNCHANGED owed /\ flight[s].event # NoEvent
  <2>1. ~flight[s].claimed
    BY <1>6 DEF DispatchInv, FlightInv, FlightsTyped
  <2>2. FlightInv'
    BY <1>1, <1>6, <2>1, LeaveMoves DEF DispatchInv
  <2> QED BY <1>3, <1>4, <2>2, QuietParts
<1> QED BY <1>5, <1>6, Names DEF Delivered, Notice, Duplicate, Told, ghosts

LEMMA ExecutedStep ==
    ASSUME DispatchInv, NEW s \in Slots, Executed(s)
    PROVE  DispatchInv'
<1>1. /\ flight[s].step \in InFlight /\ flight[s].step # "free"
      /\ UNCHANGED <<jobs, op, lock, mode, boot, torn, ghosts, used>>
  BY DEF Executed, InFlight
<1>2. flight[s].task \in Tasks /\ StoreTyped
  BY <1>1, FlightTask
<1>3. CASE UNCHANGED store /\ EndUndelivered(s, FALSE)
  <2>1. FlightInv'
    BY <1>1, <1>3, EndMoves DEF DispatchInv, ghosts
  <2> QED BY <1>1, <1>2, <1>3, <2>1, StoreSame, QuietParts DEF ghosts
<1>4. CASE /\ store' = [store EXCEPT ![flight[s].task] = Marked(store[flight[s].task], "executed")]
           /\ flight' = [flight EXCEPT ![s].step = "delivering"]
           /\ UNCHANGED <<inflight, pending, holder>>
  <2>1. "executed" \in Statuses /\ "delivering" \in InFlight /\ "delivering" \in HoldsSession
    BY DEF Statuses, InFlight, HoldsSession
  <2>2. StoreTyped' /\ ReceiptsKept
    <3> DEFINE new == Marked(store[flight[s].task], "executed")
    <3>1. store[flight[s].task] \in Task
      BY <1>2 DEF StoreTyped
    <3>2. /\ new \in Task /\ new.there = store[flight[s].task].there
          /\ new.receipts = store[flight[s].task].receipts
      BY <2>1, <3>1, TaskChanged
    <3>3. store' = [store EXCEPT ![flight[s].task] = new]
      BY <1>4
    <3> HIDE DEF new
    <3> QED BY <1>2, <3>2, <3>3, StoreChanged
  <2>3. holder = s /\ holder \in Slots \union {Turn, None}
    BY DEF Executed, DispatchInv, FlightInv, OneFlight, FlightsTyped, HoldsSession
  <2>4. FlightInv'
    BY <1>1, <1>4, <2>1, <2>3, StepMoves DEF DispatchInv, ghosts
  <2> QED BY <1>1, <2>2, <2>4, QuietParts DEF ghosts
<1> QED BY <1>3, <1>4 DEF Executed

\* A flight whose operation is cut off with it.
LEMMA AbandonParts ==
    ASSUME DispatchInv, NEW s \in Slots, Abandon(s), UNCHANGED <<jobs, mode, boot>>,
           StoreTyped', ReceiptsKept, FlightInv',
           UNCHANGED <<accepted, twice, dropped, cut, masked, used>>
    PROVE  DispatchInv'
<1>1. TasksTyped'
  BY AbandonTyped, Names DEF DispatchInv, TasksTyped
<1>2. GhostsTyped'
  BY DEF DispatchInv, GhostsTyped
<1>3. EventInv'
  BY EventQuiet DEF DispatchInv
<1> QED BY <1>1, <1>2, <1>3 DEF DispatchInv

LEMMA TimesOutStep ==
    ASSUME DispatchInv, NEW s \in Slots, TimesOut(s)
    PROVE  DispatchInv'
<1>1. flight[s].step \in InFlight /\ flight[s].step # "free"
  BY DEF TimesOut, HoldsSession, InFlight
<1>2. flight[s].task \in Tasks /\ StoreTyped
  BY <1>1, FlightTask
<1>3. StoreTyped' /\ ReceiptsKept
  BY <1>2, RecordedTyped DEF TimesOut, Statuses
<1>4. FlightInv'
  BY <1>1, EndMoves DEF TimesOut, DispatchInv, ghosts
<1> QED BY <1>3, <1>4, AbandonParts DEF TimesOut, ghosts

LEMMA CancelledStep ==
    ASSUME DispatchInv, NEW s \in Slots, Cancelled(s)
    PROVE  DispatchInv'
<1> DEFINE t == flight[s].task
<1>1. flight[s].step \notin {"free", "stranded"}
  BY DEF Cancelled, DispatchInv, FlightInv, OneFlight, HoldsSession
<1>2. t \in Tasks /\ StoreTyped
  BY <1>1, FlightTask
<1>3. StoreTyped' /\ ReceiptsKept
  <2>1. UNCHANGED store \/ store' \in Recorded(t, "cancelled")
    BY DEF Cancelled
  <2>2. "cancelled" \in Statuses
    BY DEF Statuses
  <2> QED BY <1>2, <2>1, <2>2, StoreSame, RecordedTyped
<1>4. owed' = owed \ {t} /\ FlightInv
  BY DEF Cancelled, Told, DispatchInv
<1>5. FlightInv'
  <2>1. CASE flight[s].step \notin {"spawned", "waiting"}
    <3>1. flight[s].step \in InFlight
      BY <1>1, <1>4, <2>1, FlightFields DEF FlightInv, FlightsTyped, Steps, InFlight
    <3> QED BY <1>4, <2>1, <3>1, LeaveMoves DEF Cancelled
  <2>2. CASE flight[s].step \in {"spawned", "waiting"}
    <3>1. flight[s].step \notin InFlight /\ flight[s] \in Flight /\ ~flight[s].claimed
      BY <1>4, <2>2 DEF InFlight, FlightInv, FlightsTyped
    <3>2. t \notin owed' \/ t \in owed
      BY <1>4
    <3>3. PICK f \in {Free, [flight[s] EXCEPT !.step = "stranded"]} :
             /\ flight' = [flight EXCEPT ![s] = f]
             /\ UNCHANGED <<inflight, holder>>
             /\ pending' \subseteq pending
      BY <2>2 DEF Cancelled
    <3>4. /\ f \in Flight /\ f.step \in {"free", "stranded"} /\ ~f.claimed
          /\ f.step = "free" => f = Free
          /\ f.step # "free" => f.task \in Tasks
          /\ f.event # NoEvent => f.source = "webhook"
      <4>1. "stranded" \in Steps
        BY DEF Steps
      <4>2. CASE f = Free
        BY <4>2, FreeType
      <4>3. CASE f = [flight[s] EXCEPT !.step = "stranded"]
        <5>1. /\ f \in Flight /\ f.step = "stranded" /\ f.task = t
              /\ f.claimed = flight[s].claimed /\ f.event = flight[s].event
              /\ f.source = flight[s].source
          BY <3>1, <4>1, <4>3, StepChanged
        <5> QED BY <1>2, <1>4, <3>1, <5>1 DEF FlightInv, FlightsTyped
      <4> QED BY <3>3, <4>2, <4>3
    <3>5. /\ f.step \notin InFlight /\ f.step \notin HoldsSession
          /\ flight[s].step \notin HoldsSession
          /\ holder # s /\ holder \in Slots \union {Turn, None}
          /\ pending' \subseteq {"manual", "webhook"} \X Tasks
          /\ owed' \subseteq {u \in Tasks : TriggerOf[u] = "date"}
      BY <1>4, <3>1, <3>3, <3>4 DEF FlightInv, FlightsTyped, OneFlight, InFlight, HoldsSession
    <3> QED BY <1>4, <3>1, <3>3, <3>4, <3>5, FlightMoves
  <2> QED BY <2>1, <2>2
<1> QED BY <1>3, <1>5, AbandonParts DEF Cancelled

LEMMA OutsideStep ==
    ASSUME DispatchInv, NEW s \in Slots,
           Poll(s) \/ Spawned(s) \/ DeadlinePasses(s) \/ WaitExpires(s)
    PROVE  DispatchInv'
<1> DEFINE t == flight[s].task
<1>1. flight[s].step # "free" /\ flight[s] \in Flight /\ FlightInv
  BY DEF Poll, Spawned, DeadlinePasses, WaitExpires, DispatchInv, FlightInv, FlightsTyped
<1>2. t \in Tasks /\ StoreTyped
  BY <1>1, FlightTask
<1>3. /\ UNCHANGED <<jobs, op, lock, mode, boot, torn>> /\ UNCHANGED owed
      /\ UNCHANGED <<accepted, twice, dropped, cut, used>>
  BY DEF Poll, Spawned, DeadlinePasses, WaitExpires, taskVars, ghosts
<1>4. StoreTyped' /\ ReceiptsKept
  <2>1. UNCHANGED store \/ store' \in Recorded(t, "skipped")
    BY DEF Poll, Spawned, DeadlinePasses, WaitExpires, taskVars
  <2>2. "skipped" \in Statuses
    BY DEF Statuses
  <2> QED BY <1>2, <2>1, <2>2, StoreSame, RecordedTyped
<1>5. masked' \subseteq Tasks
  BY <1>2 DEF Poll, Spawned, DeadlinePasses, WaitExpires, ghosts, DispatchInv, GhostsTyped
<1>6. FlightInv'
  <2>1. CASE /\ flight[s].step \in {"waiting", "spawned"} /\ t \notin inflight
             /\ flight' = [flight EXCEPT ![s].step = "admitted"]
             /\ inflight' = inflight \union {t}
             /\ UNCHANGED <<pending, holder>>
    <3> DEFINE f == [flight[s] EXCEPT !.step = "admitted"]
    <3>1. "admitted" \in Steps
      BY DEF Steps
    <3>2. /\ f \in Flight /\ f.step = "admitted" /\ f.task = t
          /\ f.claimed = flight[s].claimed /\ f.event = flight[s].event
          /\ f.source = flight[s].source
      BY <1>1, <3>1, StepChanged
    <3>3. /\ f.claimed => f.source = "schedule"
          /\ f.event # NoEvent => f.source = "webhook"
          /\ owed' \subseteq {u \in Tasks : TriggerOf[u] = "date"}
          /\ flight[s].step \notin InFlight
      BY <1>1, <1>3, <2>1, <3>2 DEF FlightInv, FlightsTyped, InFlight
    <3>4. flight' = [flight EXCEPT ![s] = f]
      BY <2>1
    <3> HIDE DEF f
    <3> QED BY <1>1, <1>2, <1>3, <2>1, <3>2, <3>3, <3>4, AdmittedMoves
  <2>2. CASE /\ flight[s].step \in {"waiting", "spawned"}
             /\ flight' = [flight EXCEPT ![s] = Free]
             /\ UNCHANGED <<inflight, holder>> /\ pending' \subseteq pending
    <3>1. /\ flight[s].step \notin InFlight /\ Free.step \notin InFlight
          /\ pending' \subseteq {"manual", "webhook"} \X Tasks
      BY <1>1, <2>2, FreeType DEF InFlight, FlightInv, FlightsTyped
    <3> QED BY <1>1, <1>3, <2>2, <3>1, FreeType, OutsideMoves
  <2>3. CASE DeadlinePasses(s)
    <3> DEFINE f == [flight[s] EXCEPT !.late = TRUE]
    <3>1. flight[s].step \in Steps
      BY <1>1, FlightFields
    <3>2. /\ f \in Flight /\ f.step = flight[s].step /\ f.task = t
          /\ f.claimed = flight[s].claimed /\ f.event = flight[s].event
          /\ f.source = flight[s].source
      BY <1>1, <3>1, StepChanged
    <3>3. flight' = [flight EXCEPT ![s] = f] /\ UNCHANGED <<inflight, holder, pending>>
      BY <2>3 DEF DeadlinePasses
    <3>4. /\ f.claimed => f.source = "schedule" /\ f.step \in InFlight
          /\ f.event # NoEvent => f.source = "webhook"
          /\ owed' \subseteq {u \in Tasks : TriggerOf[u] = "date"}
          /\ pending \subseteq {"manual", "webhook"} \X Tasks
          /\ holder \in Slots \union {Turn, None}
          /\ f.step # "free"
          /\ f.step \in HoldsSession <=> holder = s
          /\ f.step \in InFlight => t \in inflight
      BY <1>1, <1>3, <3>2 DEF FlightInv, FlightsTyped, OneFlight
    <3>5. \A u \in owed' : \/ f.claimed /\ f.task = u
                           \/ u \in owed /\ ~(flight[s].claimed /\ flight[s].task = u)
      BY <1>3, <3>2
    <3>6. f.step \in InFlight => inflight' = inflight \union {f.task}
      BY <3>2, <3>3, <3>4
    <3> HIDE DEF f
    <3> QED BY <1>1, <1>2, <3>2, <3>3, <3>4, <3>5, <3>6, FlightMoves
  <2> QED BY <2>1, <2>2, <2>3 DEF Poll, Spawned, WaitExpires, MayFly, taskVars
<1>7. TasksTyped'
  BY <1>3, <1>4 DEF DispatchInv, TasksTyped, OpsTyped, RestTyped
<1>8. GhostsTyped'
  BY <1>3, <1>5 DEF DispatchInv, GhostsTyped
<1>9. EventInv'
  BY <1>3, <1>4, EventQuiet DEF DispatchInv
<1> QED BY <1>6, <1>7, <1>8, <1>9 DEF DispatchInv

\* The first free name is one, and who has it is not in flight.
LEMMA UnusedFacts ==
    ASSUME FlightInv, NEW s \in Slots, Unused(s)
    PROVE  flight[s].step = "free" /\ flight[s].step \notin InFlight /\ ~flight[s].claimed
BY FreeType DEF Unused, InFlight, FlightInv, FlightsTyped

LEMMA ClaimedType ==
    ASSUME StoreTyped, NEW t \in Tasks
    PROVE  /\ ClaimedFrom(t) \in Task
           /\ ClaimedFrom(t).there = store[t].there
           /\ ClaimedFrom(t).receipts = store[t].receipts
BY DEF ClaimedFrom, StoreTyped, Task, Statuses

LEMMA FireStep ==
    ASSUME DispatchInv, NEW t \in Tasks, NEW s \in Slots, Fire(t, s)
    PROVE  DispatchInv'
<1>1. FlightInv /\ GhostsTyped /\ StoreTyped /\ EventInv
  BY DEF DispatchInv, TasksTyped
<1>2. used' \in UsedRecord /\ used'.made = used.made
  BY <1>1, CountedMade DEF Fire
<1>3. /\ UNCHANGED <<op, lock, mode, boot, torn, pending, holder>>
      /\ UNCHANGED <<accepted, twice, dropped, cut>>
      /\ masked' \subseteq masked \union {t}
  BY DEF Fire
<1>4. StoreTyped' /\ ReceiptsKept
  <2>1. UNCHANGED store \/ store' = [store EXCEPT ![t] = ClaimedFrom(t)]
    BY DEF Fire
  <2> QED BY <1>1, <2>1, ClaimedType, StoreSame, StoreChanged
<1>5. jobs' \in [Tasks -> {"none", "active", "paused"}]
  BY DEF Fire, DispatchInv, TasksTyped, RestTyped
<1>6. FlightInv'
  <2>1. CASE UNCHANGED <<inflight, flight, owed>>
    BY <1>1, <1>3, <2>1, GroundMoves
  <2>2. CASE ~UNCHANGED <<inflight, flight, owed>>
    <3> DEFINE f == [Free EXCEPT !.step = "admitted", !.task = t, !.claimed = TRUE]
    <3>1. /\ f \in Flight /\ f.step = "admitted" /\ f.task = t /\ f.event = NoEvent
          /\ f.claimed /\ f.source = "schedule"
      BY DEF Free, Flight, Steps, Sources
    <3>2. /\ flight' = [flight EXCEPT ![s] = f]
          /\ inflight' = inflight \union {t} /\ t \notin inflight
          /\ owed' = IF TriggerOf[t] = "date" THEN owed \union {t} ELSE owed
      BY <2>2 DEF Fire, MayFly
    <3>3. owed' \subseteq {u \in Tasks : TriggerOf[u] = "date"}
      BY <1>1, <3>2 DEF FlightInv, FlightsTyped
    <3>4. flight[s].step \notin InFlight
      BY <1>1, UnusedFacts DEF Fire
    <3> HIDE DEF f
    <3> QED BY <1>1, <1>3, <3>1, <3>2, <3>3, <3>4, AdmittedMoves
  <2> QED BY <2>1, <2>2
<1>7. TasksTyped'
  BY <1>3, <1>4, <1>5 DEF DispatchInv, TasksTyped, OpsTyped, RestTyped
<1>8. GhostsTyped'
  BY <1>2, <1>3 DEF DispatchInv, GhostsTyped
<1>9. EventInv'
  BY <1>1, <1>2, <1>3, <1>4, EventQuiet
<1> QED BY <1>6, <1>7, <1>8, <1>9 DEF DispatchInv

LEMMA SubmitStep ==
    ASSUME DispatchInv, NEW t \in Tasks, NEW s \in Slots, NEW e \in Events \union {NoEvent},
           SubmitManual(t, s) \/ SubmitWebhook(t, e, s)
    PROVE  DispatchInv'
<1>1. FlightInv /\ GhostsTyped /\ StoreTyped /\ EventInv
  BY DEF DispatchInv, TasksTyped
<1>2. used' \in UsedRecord /\ used'.made = used.made
  BY <1>1, CountedMade DEF SubmitManual, SubmitWebhook
<1>3. UNCHANGED <<jobs, op, lock, mode, boot, torn, inflight, holder>> /\ UNCHANGED ghosts
  BY DEF SubmitManual, SubmitWebhook, taskVars
<1>4. StoreTyped' /\ ReceiptsKept
  <2>1. UNCHANGED store \/ store' = [store EXCEPT ![t] = Marked(store[t], "queued")]
    BY DEF SubmitManual, SubmitWebhook, taskVars
  <2>2. /\ Marked(store[t], "queued") \in Task
        /\ Marked(store[t], "queued").there = store[t].there
        /\ Marked(store[t], "queued").receipts = store[t].receipts
    BY <1>1, TaskChanged DEF StoreTyped, Statuses
  <2> QED BY <1>1, <2>1, <2>2, StoreSame, StoreChanged
<1>5. PICK f \in {[Free EXCEPT !.step = "waiting", !.task = t, !.source = "manual"],
                  [Free EXCEPT !.step = "spawned", !.task = t, !.source = "webhook",
                               !.event = e]} :
         /\ flight' = [flight EXCEPT ![s] = f]
         /\ pending' = pending \union {<<f.source, t>>}
  <2>1. CASE SubmitManual(t, s)
    BY <2>1 DEF SubmitManual, Free
  <2>2. CASE SubmitWebhook(t, e, s)
    BY <2>2 DEF SubmitWebhook, Free
  <2> QED BY <2>1, <2>2
<1>6. /\ f \in Flight /\ f.step \in {"waiting", "spawned"} /\ f.task = t /\ ~f.claimed
      /\ f.source \in {"manual", "webhook"}
      /\ f.event # NoEvent => f.source = "webhook"
  BY DEF Free, Flight, Steps, Sources
<1>7. FlightInv'
  <2>1. pending' \subseteq {"manual", "webhook"} \X Tasks
    BY <1>1, <1>5, <1>6 DEF FlightInv, FlightsTyped
  <2>2. f.step \notin InFlight /\ f.step # "free" /\ flight[s].step \notin InFlight
    BY <1>1, <1>6, UnusedFacts DEF InFlight, SubmitManual, SubmitWebhook
  <2> QED BY <1>1, <1>3, <1>5, <1>6, <2>1, <2>2, OutsideMoves DEF ghosts
<1>8. TasksTyped'
  BY <1>3, <1>4 DEF DispatchInv, TasksTyped, OpsTyped, RestTyped
<1>9. GhostsTyped'
  BY <1>2, <1>3 DEF DispatchInv, GhostsTyped, ghosts
<1>10. EventInv'
  BY <1>1, <1>2, <1>3, <1>4, EventQuiet DEF ghosts
<1> QED BY <1>7, <1>8, <1>9, <1>10 DEF DispatchInv

LEMMA ReservedType ==
    ASSUME StoreTyped, NEW t \in Tasks, NEW e \in Events
    PROVE  /\ Reserved(t, e) \in Task
           /\ Reserved(t, e).there = store[t].there
           /\ Reserved(t, e).receipts = store[t].receipts \union {e}
<1>1. store[t] \in Task /\ store[t].receipts \union {e} \subseteq Events
  BY TaskFields DEF StoreTyped
<1>2. "queued" \in Statuses
  BY DEF Statuses
<1> QED BY <1>1, <1>2 DEF Reserved, Task

\* What the admission of a flight to its run leaves of its task.
LEMMA AdmittedFacts ==
    ASSUME DispatchInv, NEW s \in Slots, Admits(s), NEW t \in Tasks, t = flight[s].task
    PROVE  /\ store[t] \in Task /\ AdmittedTask(s) \in Task
           /\ AdmittedTask(s).there = store[t].there
           /\ store[t].receipts \subseteq AdmittedTask(s).receipts
           /\ flight[s].event # NoEvent => /\ store[t].there
                                         /\ flight[s].event \notin store[t].receipts
                                         /\ flight[s].event \in AdmittedTask(s).receipts
<1> DEFINE e == flight[s].event
<1>1. store[t] \in Task /\ e \in Events \union {NoEvent} /\ StoreTyped
  BY FlightFields DEF DispatchInv, FlightInv, FlightsTyped, TasksTyped, StoreTyped
<1>2. "queued" \in Statuses
  BY DEF Statuses
<1>3. CASE e # NoEvent
  <2>1. AdmittedTask(s) = Reserved(t, e)
    BY <1>3 DEF AdmittedTask
  <2>2. store[t].there /\ e \notin store[t].receipts
    BY <1>3 DEF Admits, Reservable
  <2>3. e \in Events
    BY <1>1, <1>3
  <2> QED BY <1>1, <1>3, <2>1, <2>2, <2>3, ReservedType
<1>4. CASE e = NoEvent
  <2>1. AdmittedTask(s) = Marked(store[t], "queued") \/ AdmittedTask(s) = store[t]
    BY <1>4 DEF AdmittedTask
  <2>2. /\ Marked(store[t], "queued") \in Task
        /\ Marked(store[t], "queued").there = store[t].there
        /\ Marked(store[t], "queued").receipts = store[t].receipts
    BY <1>1, <1>2, TaskChanged
  <2> QED BY <1>1, <1>4, <2>1, <2>2
<1> QED BY <1>3, <1>4

\* An event is accepted whose receipt is not there yet, and its receipt is there afterwards.
LEMMA EventAccepted ==
    ASSUME GhostsTyped, EventInv, NEW s \in Slots, Accept(s), UNCHANGED dropped,
           used'.made = used.made, flight[s].task \in Tasks,
           \A u \in Tasks : /\ store'[u].there => store[u].there
                            /\ store[u].receipts \subseteq store'[u].receipts,
           flight[s].event # NoEvent =>
              /\ store[flight[s].task].there
              /\ flight[s].event \notin store[flight[s].task].receipts
              /\ flight[s].event \in store'[flight[s].task].receipts
    PROVE  EventInv'
<1>0. used.made \subseteq Tasks
  BY DEF GhostsTyped, UsedRecord
<1>1. CASE flight[s].event = NoEvent
  BY <1>0, <1>1 DEF Accept, EventInv, EventOnce
<1>2. CASE flight[s].event # NoEvent
  <2> DEFINE pair == <<flight[s].task, flight[s].event>>
  <2>1. /\ accepted' = accepted \union {pair}
        /\ twice' = IF pair \in accepted THEN twice \union {pair} ELSE twice
    BY <1>2 DEF Accept
  <2>2. pair[1] = flight[s].task /\ pair[2] = flight[s].event
    OBVIOUS
  <2> HIDE DEF pair
  <2>3. pair \in accepted => pair \in dropped
    BY <1>2, <2>2 DEF EventInv
  <2>4. EventOnce'
    BY <2>1, <2>3 DEF EventInv, EventOnce
  <2>5. flight[s].task \in used.made
    BY <1>2 DEF EventInv
  <2>6. \A p \in accepted' : /\ p[1] \in used'.made
                             /\ p[2] \in store'[p[1]].receipts \/ p \in dropped'
    BY <1>0, <1>2, <2>1, <2>2, <2>5 DEF EventInv
  <2>7. \A u \in Tasks : store'[u].there => u \in used'.made
    BY DEF EventInv
  <2> QED BY <2>4, <2>6, <2>7 DEF EventInv
<1> QED BY <1>1, <1>2

LEMMA BeginStep ==
    ASSUME DispatchInv, NEW s \in Slots, Begin(s) \/ NotBegun(s) \/ Unbind(s)
    PROVE  DispatchInv'
<1> DEFINE t == flight[s].task
           a == AdmittedTask(s)
<1>0. Admits(s) /\ Accept(s) /\ flight[s].step = "admitted" /\ holder = None
  BY DEF Begin, NotBegun, Unbind, Admits
<1>1. /\ t \in Tasks /\ store[t] \in Task /\ StoreTyped
      /\ a \in Task /\ a.there = store[t].there /\ store[t].receipts \subseteq a.receipts
      /\ flight[s].event # NoEvent => /\ store[t].there
                                    /\ flight[s].event \notin store[t].receipts
                                    /\ flight[s].event \in a.receipts
  <2>1. t \in Tasks /\ StoreTyped
    BY <1>0, FlightTask
  <2> QED BY <1>0, <2>1, AdmittedFacts
<1>2. {"started", "skipped"} \subseteq Statuses
  BY DEF Statuses
<1> HIDE DEF a
<1>3. PICK new \in Task :
         /\ store' = [store EXCEPT ![t] = new]
         /\ new.there = store[t].there /\ store[t].receipts \subseteq new.receipts
         /\ flight[s].event # NoEvent => flight[s].event \in new.receipts
  <2>1. CASE Begin(s)
    <3>1. store' = [store EXCEPT ![t] = Marked(a, "started")]
      BY <2>1 DEF Begin, a
    <3>2. /\ Marked(a, "started") \in Task /\ Marked(a, "started").there = a.there
          /\ Marked(a, "started").receipts = a.receipts
      BY <1>1, <1>2, TaskChanged
    <3> QED BY <1>1, <3>1, <3>2
  <2>2. CASE Unbind(s)
    <3>1. store' = [store EXCEPT ![t] = a]
      BY <2>2 DEF Unbind, a
    <3> QED BY <1>1, <3>1
  <2>3. CASE NotBegun(s) /\ store[t].there
    <3>1. \/ store' = [store EXCEPT ![t] = a]
          \/ store' = [[store EXCEPT ![t] = a] EXCEPT ![t] = Marked([store EXCEPT ![t] = a][t], "skipped")]
      BY <2>3 DEF NotBegun, a
    <3>2. [store EXCEPT ![t] = a][t] = a
      BY <1>1 DEF StoreTyped
    <3>3. /\ Marked(a, "skipped") \in Task /\ Marked(a, "skipped").there = a.there
          /\ Marked(a, "skipped").receipts = a.receipts
      BY <1>1, <1>2, TaskChanged
    <3>4. \/ store' = [store EXCEPT ![t] = a]
          \/ store' = [store EXCEPT ![t] = Marked(a, "skipped")]
      BY <1>1, <3>1, <3>2 DEF StoreTyped
    <3> QED BY <1>1, <3>3, <3>4
  <2>4. CASE NotBegun(s) /\ ~store[t].there
    <3>1. store' = store
      BY <2>4 DEF NotBegun
    <3> QED BY <1>1, <2>4, <3>1 DEF StoreTyped
  <2> QED BY <2>1, <2>2, <2>3, <2>4
<1>4. StoreTyped' /\ \A u \in Tasks : /\ store'[u].there => store[u].there
                                     /\ store[u].receipts \subseteq store'[u].receipts
  BY <1>1, <1>2, <1>3, StoreChanged DEF StoreTyped
<1>5. UNCHANGED <<jobs, lock, mode, boot, torn, dropped, owed, used>> /\ store'[t] = new
  <2>1. store'[t] = new
    BY <1>1, <1>3 DEF StoreTyped
  <2> QED BY <2>1 DEF Begin, NotBegun, Unbind
<1>6. EventInv'
  BY <1>0, <1>1, <1>3, <1>4, <1>5, EventAccepted DEF DispatchInv
<1>7. GhostsTyped'
  BY <1>5 DEF DispatchInv, GhostsTyped, Begin, NotBegun, Unbind
<1>8. OpsTyped'
  <2>1. CASE UNCHANGED op
    BY <1>5, <2>1 DEF DispatchInv, TasksTyped, OpsTyped
  <2>2. CASE Unbind(s)
    <3> DEFINE o == [IdleOp EXCEPT !.stage = "locking", !.kind = "archive", !.task = t]
    <3>1. o \in Op /\ o.stage = "locking" /\ o.task = t
      BY <1>1, IdleOpType DEF Op, Stages, Kinds
    <3>2. op' \in {op, [op EXCEPT ![s] = o]}
      BY <2>2 DEF Unbind
    <3> HIDE DEF o
    <3> QED BY <1>1, <1>5, <3>1, <3>2, Names DEF DispatchInv, TasksTyped, OpsTyped
  <2> QED BY <2>1, <2>2 DEF Begin, NotBegun
<1>9. TasksTyped'
  BY <1>4, <1>5, <1>8 DEF DispatchInv, TasksTyped, RestTyped
<1>10. FlightInv'
  <2>1. CASE NotBegun(s)
    BY <1>0, <1>5, <2>1, EndMoves DEF NotBegun, DispatchInv, InFlight
  <2>2. CASE Begin(s) \/ Unbind(s)
    <3>1. PICK step \in HoldsSession :
             flight' = [flight EXCEPT ![s].step = step] /\ holder' = s
                /\ UNCHANGED <<inflight, pending>>
      BY <2>2 DEF Begin, Unbind, HoldsSession
    <3>2. step \in InFlight /\ flight[s].step \in InFlight
      BY <1>0 DEF HoldsSession, InFlight
    <3>3. \A u \in Slots \ {s} : holder' = u <=> holder = u
      BY <1>0, <3>1, Names
    <3> QED BY <1>5, <3>1, <3>2, <3>3, StepMoves DEF DispatchInv
  <2> QED BY <2>1, <2>2
<1> QED BY <1>6, <1>7, <1>9, <1>10 DEF DispatchInv

(***************************************************************************)
(* The user and the operations                                             *)
(***************************************************************************)
\* A step of an operation, after which the receipts it has dropped are known.
LEMMA NotedParts ==
    ASSUME DispatchInv, TasksTyped', NoneAppears, Noted, FlightInv',
           used' \in UsedRecord, used'.made = used.made,
           cut' \in [Tasks -> {"no", "run", "delivery"}]
    PROVE  DispatchInv'
<1>1. EventInv'
  BY EventNoted DEF DispatchInv
<1>2. masked' \subseteq Tasks
  BY DEF Noted, Overwrites, DispatchInv, GhostsTyped, FlightInv, FlightsTyped
<1> QED BY <1>1, <1>2 DEF DispatchInv, GhostsTyped

LEMMA OperateStep ==
    ASSUME DispatchInv, NEW c \in Controllers, Operate(c)
    PROVE  DispatchInv'
<1>1. TasksTyped /\ StoreTyped /\ OpsTyped
  BY DEF DispatchInv, TasksTyped
<1>2. TasksTyped' /\ NoneAppears
  <2>1. CASE Acquire(c)
    BY <1>1, <2>1, AcquireTyped DEF TasksTyped, RestTyped
  <2>2. CASE Lands(c)
    BY <1>1, <2>2, LandsTyped DEF ReceiptsKept, NoneAppears
  <2>3. CASE Returns(c)
    <3>1. op[c].stage # "idle"
      BY <1>1, <2>3 DEF Returns, OpsTyped, IdleOp
    <3> QED BY <1>1, <2>3, <3>1, ReturnsTyped
  <2>4. CASE Fails(c)
    BY <1>1, <2>4, FailsTyped
  <2> QED BY <2>1, <2>2, <2>3, <2>4 DEF Operate
<1>3. Noted /\ UNCHANGED <<flightVars, cut, used>> /\ UNCHANGED owed
  BY DEF Operate, Noted
<1>4. FlightInv'
  BY <1>3, GroundMoves DEF DispatchInv, flightVars
<1> QED BY <1>2, <1>3, <1>4, NotedParts DEF DispatchInv, GhostsTyped

LEMMA UserStep ==
    ASSUME DispatchInv, NEW t \in Tasks, NEW kind \in Kinds,
           UserCalls(Turn, kind, t) \/ UserCalls(Command, kind, t)
    PROVE  DispatchInv'
<1>1. PICK c \in Controllers : UserCalls(c, kind, t)
  BY Names
<1>2. TasksTyped' /\ NoneAppears
  BY <1>1, CallTyped DEF UserCalls, DispatchInv, TasksTyped, RestTyped
<1>3. used' \in UsedRecord /\ used'.made = used.made
  BY <1>1, CountedMade DEF UserCalls, DispatchInv
<1>4. Noted /\ UNCHANGED flightVars /\ UNCHANGED owed
  BY <1>1 DEF UserCalls, Noted
<1>5. FlightInv'
  BY <1>4, GroundMoves DEF DispatchInv, flightVars
<1>6. cut' \in [Tasks -> {"no", "run", "delivery"}]
  BY <1>1 DEF UserCalls, DispatchInv, GhostsTyped
<1> QED BY <1>2, <1>3, <1>4, <1>5, <1>6, NotedParts

LEMMA CreatesStep ==
    ASSUME DispatchInv, NEW t \in Tasks, UserCreates(t)
    PROVE  DispatchInv'
<1>1. /\ TasksTyped' /\ \A u \in Tasks \ {t} : store'[u] = store[u]
  BY CreateTyped, Names DEF UserCreates, DispatchInv, TasksTyped, RestTyped
<1>2. /\ t \notin used.made /\ used \in UsedRecord
      /\ used' = [used EXCEPT !.made = used.made \union {t}]
      /\ UNCHANGED flightVars /\ UNCHANGED ghosts
  BY DEF UserCreates, DispatchInv, GhostsTyped
<1>3. used' \in UsedRecord /\ used'.made = used.made \union {t} /\ used.made \subseteq Tasks
  BY <1>2 DEF UsedRecord
<1>4. FlightInv'
  BY <1>2, GroundMoves DEF DispatchInv, flightVars, ghosts
<1>5. GhostsTyped'
  BY <1>2, <1>3 DEF DispatchInv, GhostsTyped, ghosts
<1>6. EventInv'
  BY <1>1, <1>2, <1>3 DEF DispatchInv, EventInv, EventOnce, ghosts
<1> QED BY <1>1, <1>4, <1>5, <1>6 DEF DispatchInv

LEMMA RotateStep ==
    ASSUME DispatchInv, NEW t \in Tasks, Rotate(t)
    PROVE  DispatchInv'
<1> DEFINE new == [store[t] EXCEPT !.receipts = {}]
<1>1. new \in Task /\ new.there = store[t].there
  BY DEF DispatchInv, TasksTyped, StoreTyped, Task
<1>2. store' = [store EXCEPT ![t] = new]
  BY DEF Rotate
<1> HIDE DEF new
<1>3. StoreTyped' /\ NoneAppears
  BY <1>1, <1>2, StoreChanged DEF DispatchInv, TasksTyped
<1>4. TasksTyped'
  BY <1>3 DEF Rotate, DispatchInv, TasksTyped, OpsTyped, RestTyped
<1>5. used' \in UsedRecord /\ used'.made = used.made
  BY CountedMade DEF Rotate, DispatchInv
<1>6. Noted /\ UNCHANGED flightVars /\ UNCHANGED owed /\ UNCHANGED cut
  BY DEF Rotate, Noted
<1>7. FlightInv'
  BY <1>6, GroundMoves DEF DispatchInv, flightVars
<1> QED BY <1>3, <1>4, <1>5, <1>6, <1>7, NotedParts DEF DispatchInv, GhostsTyped

LEMMA TurnStep ==
    ASSUME DispatchInv, TurnBegins \/ TurnEnds \/ Interrupt
    PROVE  DispatchInv'
<1>1. UNCHANGED <<flight, inflight, pending, cut, used>> /\ UNCHANGED owed
  BY DEF TurnBegins, TurnEnds, Interrupt, ghosts, Noted
<1>2. FlightInv'
  BY <1>1, GroundMoves DEF TurnBegins, TurnEnds, Interrupt, DispatchInv
<1>3. CASE UNCHANGED taskVars /\ UNCHANGED ghosts
  BY <1>1, <1>2, <1>3, StoreSame, QuietParts DEF taskVars, ghosts, DispatchInv, TasksTyped
<1>4. CASE CutOff(Turn) /\ Noted
  <2>1. TasksTyped' /\ NoneAppears
    BY <1>4, CutOffTyped, Names DEF DispatchInv
  <2> QED BY <1>1, <1>2, <1>4, <2>1, NotedParts DEF DispatchInv, GhostsTyped
<1>5. CASE /\ op' = [op EXCEPT ![Loose] = op[Turn], ![Turn] = IdleOp]
           /\ lock' = IF lock = Turn THEN Loose ELSE lock
           /\ op[Turn].stage # "idle"
           /\ UNCHANGED <<store, jobs, mode, boot, torn, accepted, twice, dropped, masked, owed>>
  <2>1. OpsTyped'
    BY <1>5, IdleOpType, Names DEF DispatchInv, TasksTyped, OpsTyped
  <2>2. TasksTyped' /\ ReceiptsKept
    BY <1>5, <2>1, StoreSame DEF DispatchInv, TasksTyped, RestTyped
  <2>3. EventInv' /\ GhostsTyped'
    BY <1>1, <1>5, <2>2, EventQuiet DEF DispatchInv, GhostsTyped
  <2> QED BY <1>2, <2>2, <2>3 DEF DispatchInv
<1> QED BY <1>3, <1>4, <1>5 DEF TurnBegins, TurnEnds, Interrupt

(***************************************************************************)
(* The process                                                             *)
(***************************************************************************)
LEMMA DownStep ==
    ASSUME DispatchInv, Crash \/ Closed
    PROVE  DispatchInv'
<1>1. TasksDown /\ Silence /\ UNCHANGED <<accepted, twice, dropped, masked>>
  BY DEF Crash, Closed
<1>2. TasksTyped' /\ ReceiptsKept
  BY <1>1, TasksDownTyped DEF DispatchInv
<1>3. FlightInv'
  BY <1>1, SilenceMoves DEF DispatchInv
<1>4. used' \in UsedRecord /\ used'.made = used.made
  BY CountedMade DEF Crash, Closed, DispatchInv, GhostsTyped
<1>5. cut' \in [Tasks -> {"no", "run", "delivery"}]
  <2>1. \A t \in Tasks : CutBy(t) \in {"no", "run", "delivery"}
    BY DEF CutBy, DispatchInv, GhostsTyped
  <2> QED BY <2>1 DEF Crash, Closed, DispatchInv, GhostsTyped
<1>6. EventInv' /\ GhostsTyped'
  BY <1>1, <1>2, <1>4, <1>5, EventQuiet DEF DispatchInv, GhostsTyped
<1> QED BY <1>2, <1>3, <1>6 DEF DispatchInv

LEMMA CloseStep ==
    ASSUME DispatchInv, Close
    PROVE  DispatchInv'
<1>1. UNCHANGED <<store, jobs, op, lock, boot, torn, flightVars, ghosts>> /\ mode' = "closing"
  BY DEF Close
<1>2. used' \in UsedRecord /\ used'.made = used.made
  BY CountedMade DEF Close, DispatchInv
<1>3. TasksTyped' /\ ReceiptsKept
  BY <1>1, StoreSame DEF DispatchInv, TasksTyped, OpsTyped, RestTyped
<1>4. FlightInv'
  BY <1>1, GroundMoves DEF flightVars, ghosts, DispatchInv
<1>5. EventInv' /\ GhostsTyped'
  BY <1>1, <1>2, <1>3, EventQuiet DEF DispatchInv, GhostsTyped, ghosts
<1> QED BY <1>3, <1>4, <1>5 DEF DispatchInv

LEMMA BootStep ==
    ASSUME DispatchInv, Boot
    PROVE  DispatchInv'
<1>1. UNCHANGED <<flightVars, accepted, twice, dropped, cut, owed, used>> /\ Overwrites
  BY DEF Boot
<1>2. TasksTyped' /\ ReceiptsKept
  <2>1. \/ Start \/ Swept \/ \E t \in Tasks : BootTask(t)
        \/ BootLands \/ BootReturns \/ BootFails \/ Booted
    BY DEF Boot
  <2> QED BY <2>1, StartTyped, SweptTyped, BootTaskTyped, BootRestTyped DEF DispatchInv
<1>3. FlightInv'
  BY <1>1, GroundMoves DEF flightVars, DispatchInv
<1>4. EventInv'
  BY <1>1, <1>2, EventQuiet DEF DispatchInv
<1>5. masked' \subseteq Tasks
  BY <1>1 DEF Overwrites, DispatchInv, GhostsTyped, FlightInv, FlightsTyped
<1>6. GhostsTyped'
  BY <1>1, <1>5 DEF DispatchInv, GhostsTyped
<1> QED BY <1>2, <1>3, <1>4, <1>6 DEF DispatchInv

(***************************************************************************)
(* Rows and runs that were cut off                                         *)
(***************************************************************************)
\* Whatever is under way is about a task that was made, and nothing flies while the process
\* is down.
MadeInv ==
    /\ \A s \in Slots : flight[s].step # "free" => flight[s].task \in used.made
    /\ \A c \in Controllers : op[c].stage # "idle" => op[c].task \in used.made
    /\ \A t \in Tasks : cut[t] = "run" => t \in used.made
    /\ mode = "down" => \A s \in Slots : flight[s].step = "free"

\* A crash would cut off a run of t in this flight.
Acting(s, t) ==
    /\ flight[s].task = t
    /\ \/ flight[s].step = "running"
       \/ flight[s].step = "delivering" /\ t \notin Works

\* Nothing is under way about t.
Alone(t) ==
    /\ \A s \in Slots : flight[s].step # "free" => flight[s].task # t
    /\ \A c \in Controllers : op[c].stage # "idle" => op[c].task # t

\* A run that was cut off is on disk until the reconciliation has turned its task off.
Stays(t) ==
    /\ mode = "down" => store[t].status \in IncompleteRun \/ Off(store[t])
    /\ t \in boot.todo => \/ store[t].status \in IncompleteRun /\ boot.snap[t].status \in IncompleteRun
                          \/ Off(store[t]) /\ Off(boot.snap[t])
    /\ mode # "down" /\ t \notin boot.todo => Off(store[t])

CutHolds(t) ==
    /\ \A s \in Slots : Acting(s, t) => store[t].status \in IncompleteRun
    /\ cut[t] = "run" => Alone(t) /\ Stays(t)

CutInv ==
    /\ \A s \in Slots : flight[s].step = "running" => flight[s].task \in Works
    /\ \A t \in Tasks \ masked : CutHolds(t)

\* A step that changes of the store at most status, schedule and receipts of t.
Touches(t) ==
    \A u \in Tasks : /\ u # t => store'[u] = store[u]
                     /\ store'[u].there = store[u].there
                     /\ store'[u].enabled = store[u].enabled

\* The flight s, which is about t, becomes f.
Moved(s, t, f) ==
    /\ flight[s].step # "free" /\ flight[s].task = t
    /\ flight' = [flight EXCEPT ![s] = f]
    /\ f.step # "free" => f.task = t
    /\ f.step = "running" => t \in Works
    /\ f.step = "running" \/ (f.step = "delivering" /\ t \notin Works)
          => store'[t].status \in IncompleteRun
    /\ flight[s].step \in InFlight \/ store' = store \/ t \notin inflight \/ t \in masked'
    /\ Touches(t) /\ UNCHANGED <<jobs, mode, boot, used>>
    /\ \A u \in Tasks : /\ u # t => cut'[u] = cut[u]
                        /\ cut'[u] \in {cut[u], "no"}
                        /\ u \in masked => u \in masked' \/ (u = t /\ cut'[u] = "no"
                                                             /\ flight[s].step \in InFlight)
    /\ \A c \in Controllers : op'[c].stage # "idle" =>
          op'[c].task = t \/ (op[c].stage # "idle" /\ op'[c].task = op[c].task)

\* What is known of a task goes on holding when nothing of it changes while it is alone.
LEMMA CutKept ==
    ASSUME NEW t \in Tasks, CutHolds(t), cut'[t] = "run" => cut[t] = "run",
           Alone(t) => /\ Alone(t)' /\ store'[t].status = store[t].status
                       /\ Off(store[t]) => Off(store'[t]),
           UNCHANGED <<mode, boot>>,
           \A s \in Slots : Acting(s, t)' => store'[t].status \in IncompleteRun
    PROVE  CutHolds(t)'
<1>1. ASSUME cut'[t] = "run" PROVE Alone(t)' /\ Stays(t)'
  BY <1>1 DEF CutHolds, Stays
<1> QED BY <1>1 DEF CutHolds

\* Such a move keeps what is made and what is known of runs that were cut off.
LEMMA MovedHolds ==
    ASSUME DispatchInv, MadeInv, CutInv, NEW s \in Slots, NEW t \in Tasks, NEW f \in Flight,
           Moved(s, t, f)
    PROVE  MadeInv' /\ CutInv'
<1>1. /\ flight \in [Slots -> Flight] /\ flight'[s] = f
      /\ \A v \in Slots \ {s} : flight'[v] = flight[v]
      /\ t \in used.made
  BY DEF Moved, DispatchInv, FlightInv, FlightsTyped, MadeInv
<1>2. MadeInv'
  <2>1. \A v \in Slots : flight'[v].step # "free" => flight'[v].task \in used'.made
    BY <1>1 DEF Moved, MadeInv
  <2>2. \A c \in Controllers : op'[c].stage # "idle" => op'[c].task \in used'.made
    BY <1>1 DEF Moved, MadeInv
  <2>3. \A u \in Tasks : cut'[u] = "run" => u \in used'.made
    BY DEF Moved, MadeInv
  <2>4. mode' # "down"
    BY DEF Moved, MadeInv
  <2> QED BY <2>1, <2>2, <2>3, <2>4 DEF MadeInv
<1>3. \A v \in Slots : flight'[v].step = "running" => flight'[v].task \in Works
  BY <1>1, FlightFields DEF Moved, CutInv
<1>4. ASSUME NEW u \in Tasks \ masked', u # t
      PROVE  CutHolds(u)'
  <2>1. CutHolds(u) /\ store'[u] = store[u]
    BY <1>4 DEF Moved, CutInv, Touches
  <2>2. Alone(u) => Alone(u)'
    BY <1>1, <1>4 DEF Alone, Moved
  <2>3. \A v \in Slots : Acting(v, u)' => Acting(v, u)
    BY <1>1, <1>4 DEF Acting, Moved
  <2> QED BY <1>4, <2>1, <2>2, <2>3, CutKept DEF Moved, CutHolds
<1>5. ASSUME t \notin masked'
      PROVE  CutHolds(t)'
  <2>1. ~Alone(t)
    BY DEF Moved, Alone
  <2>2. cut'[t] # "run"
    BY <1>5, <2>1 DEF Moved, CutInv, CutHolds
  <2>3. ASSUME NEW v \in Slots, Acting(v, t)' PROVE store'[t].status \in IncompleteRun
    <3>1. CASE v = s
      BY <1>1, <2>3, <3>1 DEF Acting, Moved
    <3>2. CASE v # s
      <4>1. Acting(v, t) /\ flight[v].step \in InFlight /\ t \in inflight
        BY <1>1, <2>3, <3>2 DEF Acting, InFlight, DispatchInv, FlightInv, OneFlight
      <4>2. flight[s].step \notin InFlight
        BY <3>2, <4>1 DEF Acting, Moved, DispatchInv, FlightInv, OneFlight
      <4>3. store' = store /\ t \notin masked
        BY <1>5, <4>1, <4>2 DEF Moved
      <4> QED BY <4>1, <4>3 DEF CutInv, CutHolds
    <3> QED BY <3>1, <3>2
  <2> QED BY <2>2, <2>3 DEF CutHolds
<1> QED BY <1>2, <1>3, <1>4, <1>5 DEF CutInv

LEMMA MovedRows ==
    ASSUME RowInv, NEW s \in Slots, NEW t \in Tasks, NEW f \in Flight, Moved(s, t, f),
           UNCHANGED <<op, lock, torn>>
    PROVE  RowInv'
<1>1. \A u \in Tasks : Claimable(u)' => Claimable(u) /\ jobs'[u] = jobs[u]
  BY DEF Moved, Touches, Claimable
<1> QED BY <1>1, RowsSame DEF Moved

(***************************************************************************)
(* The flights                                                             *)
(***************************************************************************)
LEMMA RecordedTouches ==
    ASSUME StoreTyped, NEW t \in Tasks, NEW status \in Statuses, store' \in Recorded(t, status)
    PROVE  Touches(t)
<1>1. \/ UNCHANGED store
      \/ store' = [store EXCEPT ![t] = Marked(store[t], status)]
  BY DEF Recorded
<1>2. /\ Marked(store[t], status).there = store[t].there
      /\ Marked(store[t], status).enabled = store[t].enabled
  BY DEF Marked, StoreTyped, Task
<1> QED BY <1>1, <1>2 DEF Touches, StoreTyped

\* How a flight that ends, or goes on to tell its user, moves.
LEMMA EndMoved ==
    ASSUME DispatchInv, NEW s \in Slots, NEW t \in Tasks, flight[s].task = t,
           flight[s].step # "free",
           \/ Leave(s) \/ EndUndelivered(s, FALSE) \/ EndUndelivered(s, TRUE)
           \/ flight' = [flight EXCEPT ![s].step = "waiting"]
           \/ flight' = [flight EXCEPT ![s].step = "stranded"]
           \/ flight' = [flight EXCEPT ![s] = Free]
    PROVE  \E f \in Flight : /\ flight' = [flight EXCEPT ![s] = f]
                             /\ f.step # "free" => f.task = t
                             /\ f.step \notin {"running", "delivering"}
<1>1. flight[s] \in Flight
  BY DEF DispatchInv, FlightInv, FlightsTyped
<1>2. ASSUME NEW step \in Steps, flight' = [flight EXCEPT ![s].step = step],
             step \notin {"running", "delivering"}
      PROVE  \E f \in Flight : /\ flight' = [flight EXCEPT ![s] = f]
                               /\ f.step # "free" => f.task = t
                               /\ f.step \notin {"running", "delivering"}
  <2>1. PICK f \in Flight : f = [flight[s] EXCEPT !.step = step] /\ f.step = step /\ f.task = t
    BY <1>1, StepChanged
  <2> QED BY <1>2, <2>1
<1>3. {"waiting", "notice", "lateNotice", "stranded"} \subseteq Steps
  BY DEF Steps
<1>4. \/ flight' = [flight EXCEPT ![s] = Free]
      \/ \E step \in {"waiting", "notice", "lateNotice", "stranded"} :
            flight' = [flight EXCEPT ![s].step = step]
  BY DEF Leave, EndUndelivered
<1> QED BY <1>2, <1>3, <1>4, FreeType

LEMMA EndingMoved ==
    ASSUME DispatchInv, NEW s \in Slots,
           \/ NotFound(s) \/ SessionBusy(s) \/ ApprovalPending(s) \/ NotReserved(s)
           \/ Unbound(s) \/ ExecutionFails(s) \/ DeliveryFails(s)
           \/ Delivered(s) \/ Notice(s) \/ Duplicate(s)
           \/ Executed(s) /\ EndUndelivered(s, FALSE) /\ UNCHANGED store
    PROVE  \E t \in Tasks, f \in Flight : Moved(s, t, f) /\ UNCHANGED <<op, lock, torn>>
<1>1. flight[s].step \in InFlight /\ flight[s].step # "free"
  BY DEF NotFound, SessionBusy, ApprovalPending, NotReserved, Unbound, ExecutionFails,
     DeliveryFails, Delivered, Notice, Duplicate, Executed, InFlight
<1>2. PICK t \in Tasks : t = flight[s].task
  BY <1>1, FlightTask
<1>3. /\ UNCHANGED <<jobs, op, lock, mode, boot, torn, used>> /\ UNCHANGED <<cut, masked>>
  BY DEF NotFound, SessionBusy, ApprovalPending, NotReserved, Unbound, ExecutionFails,
     DeliveryFails, Delivered, Notice, Duplicate, Executed, ghosts, taskVars
<1>4. Touches(t)
  <2>1. \/ UNCHANGED store
        \/ \E status \in {"skipped", "settled", "paused", "uncertain", "deliveryUncertain"} :
              store' \in Recorded(t, status)
    BY <1>2 DEF NotFound, SessionBusy, LeaveOrWait, ApprovalPending, NotReserved, Unbound,
       ExecutionFails, DeliveryFails, Delivered, Notice, Duplicate, taskVars
  <2>2. {"skipped", "settled", "paused", "uncertain", "deliveryUncertain"} \subseteq Statuses
    BY DEF Statuses
  <2>3. UNCHANGED store => Touches(t)
    BY DEF Touches
  <2> QED BY <1>1, <1>2, <2>1, <2>2, <2>3, FlightTask, RecordedTouches
<1>5. \/ Leave(s) \/ EndUndelivered(s, FALSE)
      \/ flight' = [flight EXCEPT ![s].step = "waiting"]
  BY DEF NotFound, SessionBusy, LeaveOrWait, ApprovalPending, NotReserved, Unbound,
     ExecutionFails, DeliveryFails, Delivered, Notice, Duplicate
<1>6. PICK f \in Flight : /\ flight' = [flight EXCEPT ![s] = f]
                          /\ f.step # "free" => f.task = t
                          /\ f.step \notin {"running", "delivering"}
  BY <1>1, <1>2, <1>5, EndMoved
<1>7. Moved(s, t, f)
  BY <1>1, <1>2, <1>3, <1>4, <1>6 DEF Moved
<1> QED BY <1>3, <1>7

LEMMA ExecutedMoved ==
    ASSUME DispatchInv, CutInv, NEW s \in Slots, Executed(s)
    PROVE  \E t \in Tasks, f \in Flight : Moved(s, t, f) /\ UNCHANGED <<op, lock, torn>>
<1>1. CASE EndUndelivered(s, FALSE) /\ UNCHANGED store
  BY <1>1, EndingMoved
<1>2. CASE /\ store' = [store EXCEPT ![flight[s].task] = Marked(store[flight[s].task], "executed")]
           /\ flight' = [flight EXCEPT ![s].step = "delivering"]
  <2>1. /\ flight[s].step \in InFlight /\ flight[s].step # "free" /\ flight[s].step = "running"
        /\ UNCHANGED <<jobs, op, lock, mode, boot, torn, used>> /\ UNCHANGED <<cut, masked>>
    BY DEF Executed, InFlight, ghosts
  <2>2. PICK t \in Tasks : t = flight[s].task /\ store[t] \in Task /\ StoreTyped
    BY <2>1, FlightTask
  <2>3. t \in Works
    BY <2>1, <2>2 DEF CutInv
  <2>4. PICK f \in Flight : /\ f = [flight[s] EXCEPT !.step = "delivering"]
                            /\ f.step = "delivering" /\ f.task = t
    <3>1. "delivering" \in Steps /\ flight[s] \in Flight
      BY DEF Steps, DispatchInv, FlightInv, FlightsTyped
    <3> QED BY <2>2, <3>1, StepChanged
  <2>5. Touches(t)
    <3>1. /\ Marked(store[t], "executed").there = store[t].there
          /\ Marked(store[t], "executed").enabled = store[t].enabled
      BY <2>2 DEF Marked, Task
    <3> QED BY <1>2, <2>2, <3>1 DEF Touches, StoreTyped
  <2>6. Moved(s, t, f)
    BY <1>2, <2>1, <2>2, <2>3, <2>4, <2>5 DEF Moved
  <2> QED BY <2>1, <2>6
<1> QED BY <1>1, <1>2 DEF Executed

\* What is admitted is as enabled as it was.
LEMMA AdmittedEnabled ==
    ASSUME NEW s \in Slots, NEW t \in Tasks, t = flight[s].task, store[t] \in Task,
           flight[s].event # NoEvent => flight[s].event \in Events
    PROVE  /\ AdmittedTask(s).enabled = store[t].enabled
           /\ AdmittedTask(s).there = store[t].there
<1>1. /\ Marked(store[t], "queued").enabled = store[t].enabled
      /\ Marked(store[t], "queued").there = store[t].there
  BY DEF Marked, Task
<1>2. \A e \in Events : /\ Reserved(t, e).enabled = store[t].enabled
                        /\ Reserved(t, e).there = store[t].there
  BY DEF Reserved, Task
<1> QED BY <1>1, <1>2 DEF AdmittedTask

\* A store that is written once, at t, with the switches as they were.
LEMMA OneTouches ==
    ASSUME StoreTyped, NEW t \in Tasks, NEW task, store' = [store EXCEPT ![t] = task],
           task.there = store[t].there, task.enabled = store[t].enabled
    PROVE  Touches(t)
BY DEF Touches, StoreTyped

\* A run begins with "started" on disk.
LEMMA BeginMoved ==
    ASSUME DispatchInv, NEW s \in Slots, Begin(s)
    PROVE  \E t \in Tasks, f \in Flight : Moved(s, t, f) /\ UNCHANGED <<op, lock, torn>>
<1>1. /\ Admits(s) /\ flight[s].step = "admitted" /\ flight[s].step \in InFlight
      /\ UNCHANGED <<jobs, op, lock, mode, boot, torn, used>>
  BY DEF Begin, Admits, InFlight
<1>2. PICK t \in Tasks : t = flight[s].task /\ store[t] \in Task /\ StoreTyped
  BY <1>1, FlightTask
<1>3. /\ cut' = [cut EXCEPT ![t] = "no"] /\ masked' = masked \ {t}
      /\ cut \in [Tasks -> {"no", "run", "delivery"}]
      /\ store' = [store EXCEPT ![t] = Marked(AdmittedTask(s), "started")]
      /\ flight[s] \in Flight
  BY <1>2 DEF Begin, DispatchInv, GhostsTyped, FlightInv, FlightsTyped
<1>4. PICK step \in Steps : /\ step = IF t \in Works THEN "running" ELSE "delivering"
                            /\ flight' = [flight EXCEPT ![s].step = step]
  BY <1>2 DEF Begin, Steps
<1>5. PICK f \in Flight : f = [flight[s] EXCEPT !.step = step] /\ f.step = step /\ f.task = t
  BY <1>2, <1>3, StepChanged
<1>6. PICK task \in Task : /\ task = Marked(AdmittedTask(s), "started")
                           /\ task.there = store[t].there /\ task.enabled = store[t].enabled
                           /\ task.status = "started"
  <2>1. AdmittedTask(s) \in Task
    BY <1>1, <1>2, AdmittedFacts
  <2>2. flight[s].event # NoEvent => flight[s].event \in Events
    BY <1>3, FlightFields
  <2>3. /\ AdmittedTask(s).enabled = store[t].enabled
        /\ AdmittedTask(s).there = store[t].there
    BY <1>2, <2>2, AdmittedEnabled
  <2>4. "started" \in Statuses
    BY DEF Statuses
  <2>5. /\ Marked(AdmittedTask(s), "started") \in Task
        /\ Marked(AdmittedTask(s), "started").there = AdmittedTask(s).there
        /\ Marked(AdmittedTask(s), "started").enabled = AdmittedTask(s).enabled
        /\ Marked(AdmittedTask(s), "started").status = "started"
    BY <2>1, <2>4 DEF Marked, Task
  <2> QED BY <2>3, <2>5
<1>7. Touches(t)
  BY <1>2, <1>3, <1>6, OneTouches
<1>8. store'[t].status \in IncompleteRun
  BY <1>2, <1>3, <1>6 DEF StoreTyped, IncompleteRun
<1>9. /\ flight[s].step # "free" /\ flight' = [flight EXCEPT ![s] = f]
      /\ f.step = "running" => t \in Works
  BY <1>1, <1>4, <1>5
<1>10. /\ \A u \in Tasks : /\ u # t => cut'[u] = cut[u]
                           /\ cut'[u] \in {cut[u], "no"}
                           /\ u \in masked => u \in masked' \/ (u = t /\ cut'[u] = "no")
       /\ \A c \in Controllers : op'[c].stage # "idle" => op[c].stage # "idle" /\ op'[c].task = op[c].task
  BY <1>1, <1>3
<1>11. Moved(s, t, f)
  BY <1>1, <1>2, <1>5, <1>7, <1>8, <1>9, <1>10 DEF Moved
<1> QED BY <1>1, <1>11

LEMMA NotBegunMoved ==
    ASSUME DispatchInv, NEW s \in Slots, NotBegun(s)
    PROVE  \E t \in Tasks, f \in Flight : Moved(s, t, f) /\ UNCHANGED <<op, lock, torn>>
<1>1. /\ Admits(s) /\ flight[s].step = "admitted" /\ flight[s].step \in InFlight
      /\ UNCHANGED <<jobs, op, lock, mode, boot, torn, used>> /\ UNCHANGED <<cut, masked>>
  BY DEF NotBegun, Admits, InFlight
<1>2. PICK t \in Tasks : t = flight[s].task /\ store[t] \in Task /\ StoreTyped
  BY <1>1, FlightTask
<1>3. PICK f \in Flight : /\ flight' = [flight EXCEPT ![s] = f]
                          /\ f.step # "free" => f.task = t
                          /\ f.step \notin {"running", "delivering"}
  <2>1. EndUndelivered(s, FALSE) /\ flight[s].task = t /\ flight[s].step # "free"
    BY <1>1, <1>2 DEF NotBegun
  <2> QED BY <2>1, EndMoved
<1>4. Touches(t)
  <2>1. AdmittedTask(s) \in Task
    BY <1>1, <1>2, AdmittedFacts
  <2>2. flight[s].event # NoEvent => flight[s].event \in Events
    BY FlightFields DEF DispatchInv, FlightInv, FlightsTyped
  <2>3. /\ AdmittedTask(s).enabled = store[t].enabled
        /\ AdmittedTask(s).there = store[t].there
    BY <1>2, <2>2, AdmittedEnabled
  <2>4. /\ Marked(AdmittedTask(s), "skipped").there = AdmittedTask(s).there
        /\ Marked(AdmittedTask(s), "skipped").enabled = AdmittedTask(s).enabled
    BY <2>1 DEF Marked, Task
  <2>5. \/ store' = store
        \/ store' = [store EXCEPT ![t] = AdmittedTask(s)]
        \/ store' = [store EXCEPT ![t] = Marked(AdmittedTask(s), "skipped")]
    <3>1. /\ store \in [Tasks -> Task]
          /\ store' \in {IF store[t].there THEN [store EXCEPT ![t] = AdmittedTask(s)] ELSE store}
                  \union (IF store[t].there
                          THEN {[(IF store[t].there THEN [store EXCEPT ![t] = AdmittedTask(s)] ELSE store)
                                    EXCEPT ![t] = Marked(@, "skipped")]} ELSE {})
      BY <1>2 DEF NotBegun, StoreTyped
    <3> QED BY <3>1
  <2>6. store' = store => Touches(t)
    BY DEF Touches
  <2> QED BY <1>2, <2>3, <2>4, <2>5, <2>6, OneTouches
<1>5. Moved(s, t, f)
  BY <1>1, <1>2, <1>3, <1>4 DEF Moved
<1> QED BY <1>1, <1>5

LEMMA UnbindMoved ==
    ASSUME DispatchInv, RowInv, MadeInv, NEW s \in Slots, Unbind(s)
    PROVE  RowInv' /\ \E t \in Tasks, f \in Flight : Moved(s, t, f)
<1>1. /\ Admits(s) /\ flight[s].step = "admitted" /\ flight[s].step \in InFlight
      /\ flight[s].step # "free"
      /\ UNCHANGED <<jobs, lock, mode, boot, torn, used>> /\ UNCHANGED <<cut, masked>>
      /\ mode # "down" /\ op[s].stage = "idle"
  BY DEF Unbind, Admits, InFlight, MadeInv
<1>2. PICK t \in Tasks : t = flight[s].task /\ store[t] \in Task /\ StoreTyped
  BY <1>1, FlightTask
<1>3. PICK f \in Flight : /\ flight' = [flight EXCEPT ![s] = f]
                          /\ f.step = "unbinding" /\ f.task = t
  <2>1. "unbinding" \in Steps /\ flight[s] \in Flight /\ flight' = [flight EXCEPT ![s].step = "unbinding"]
    BY DEF Steps, Unbind, DispatchInv, FlightInv, FlightsTyped
  <2>2. PICK f \in Flight : f = [flight[s] EXCEPT !.step = "unbinding"] /\ f.step = "unbinding" /\ f.task = t
    BY <1>2, <2>1, StepChanged
  <2> QED BY <2>1, <2>2
<1>4. Touches(t)
  <2>1. flight[s].event # NoEvent => flight[s].event \in Events
    BY FlightFields DEF DispatchInv, FlightInv, FlightsTyped
  <2>2. /\ AdmittedTask(s).enabled = store[t].enabled
        /\ AdmittedTask(s).there = store[t].there
    BY <1>2, <2>1, AdmittedEnabled
  <2>3. store' = [store EXCEPT ![t] = AdmittedTask(s)]
    BY <1>2 DEF Unbind
  <2> QED BY <1>2, <2>2, <2>3, OneTouches
<1>5. PICK o \in Op : /\ o = [IdleOp EXCEPT !.stage = "locking", !.kind = "archive", !.task = t]
                      /\ o.stage = "locking" /\ o.task = t
  <2>1. [IdleOp EXCEPT !.stage = "locking", !.kind = "archive", !.task = t] \in Op
        /\ [IdleOp EXCEPT !.stage = "locking", !.kind = "archive", !.task = t].stage = "locking"
        /\ [IdleOp EXCEPT !.stage = "locking", !.kind = "archive", !.task = t].task = t
    BY IdleOpType DEF Op, Stages, Kinds
  <2> QED BY <2>1
<1>6. \/ op' = op
      \/ op' = [op EXCEPT ![s] = o]
  BY <1>2, <1>5 DEF Unbind
<1>7. op \in [Controllers -> Op] /\ s \in Controllers
  BY Names DEF DispatchInv, TasksTyped, OpsTyped
<1>8. Moved(s, t, f)
  <2>1. \A c \in Controllers : op'[c].stage # "idle" =>
          op'[c].task = t \/ (op[c].stage # "idle" /\ op'[c].task = op[c].task)
    BY <1>5, <1>6, <1>7
  <2> QED BY <1>1, <1>2, <1>3, <1>4, <2>1 DEF Moved
<1>9. \A u \in Tasks : Claimable(u)' => Claimable(u)
  BY <1>4 DEF Touches, Claimable
<1>10. RowInv'
  <2>1. CASE op' = op
    BY <1>1, <1>9, <2>1, RowsSame
  <2>2. CASE op' = [op EXCEPT ![s] = o]
    BY <1>1, <1>5, <1>7, <1>9, <2>2, RowsWait DEF DispatchInv
  <2> QED BY <1>6, <2>1, <2>2
<1> QED BY <1>8, <1>10

LEMMA OutsideMoved ==
    ASSUME DispatchInv, NEW s \in Slots,
           Poll(s) \/ Spawned(s) \/ DeadlinePasses(s) \/ WaitExpires(s)
    PROVE  \E t \in Tasks, f \in Flight : Moved(s, t, f) /\ UNCHANGED <<op, lock, torn>>
<1>1. /\ flight[s].step \in {"waiting", "spawned", "admitted"} /\ flight[s].step # "free"
      /\ UNCHANGED <<jobs, op, lock, mode, boot, torn, used>> /\ UNCHANGED cut
  BY DEF Poll, Spawned, DeadlinePasses, WaitExpires, taskVars, ghosts
<1>2. PICK t \in Tasks : t = flight[s].task /\ store[t] \in Task /\ StoreTyped
  BY <1>1, FlightTask
<1>3. flight[s] \in Flight /\ {"admitted"} \subseteq Steps
  BY DEF DispatchInv, FlightInv, FlightsTyped, Steps
<1>4. PICK f \in Flight : /\ flight' = [flight EXCEPT ![s] = f]
                          /\ f.step # "free" => f.task = t
                          /\ f.step \notin {"running", "delivering"}
  <2>1. \/ flight' = [flight EXCEPT ![s] = Free]
        \/ flight' = [flight EXCEPT ![s].step = "admitted"]
        \/ flight' = [flight EXCEPT ![s].late = TRUE]
    BY DEF Poll, Spawned, DeadlinePasses, WaitExpires
  <2>2. CASE flight' = [flight EXCEPT ![s] = Free]
    BY <2>2, FreeType
  <2>3. CASE flight' = [flight EXCEPT ![s].step = "admitted"]
    <3>1. PICK f \in Flight : f = [flight[s] EXCEPT !.step = "admitted"] /\ f.step = "admitted" /\ f.task = t
      BY <1>2, <1>3, StepChanged
    <3> QED BY <2>3, <3>1
  <2>4. CASE flight' = [flight EXCEPT ![s].late = TRUE]
    <3>1. PICK f \in Flight : f = [flight[s] EXCEPT !.late = TRUE] /\ f.step = flight[s].step /\ f.task = t
      BY <1>2, <1>3, StepChanged DEF Flight
    <3> QED BY <1>1, <2>4, <3>1
  <2> QED BY <2>1, <2>2, <2>3, <2>4
<1>5. /\ store' = store \/ t \notin inflight \/ t \in masked'
      /\ masked \subseteq masked' /\ Touches(t)
  <2>1. CASE WaitExpires(s)
    <3>1. store' \in Recorded(t, "skipped") /\ "skipped" \in Statuses
      BY <1>2, <2>1 DEF WaitExpires, Statuses
    <3>2. masked' = IF store' # store /\ t \in inflight THEN masked \union {t} ELSE masked
      BY <1>2, <2>1 DEF WaitExpires
    <3> QED BY <1>2, <3>1, <3>2, RecordedTouches
  <2>2. CASE UNCHANGED <<store, masked>>
    BY <2>2 DEF Touches
  <2>3. WaitExpires(s) \/ UNCHANGED <<store, masked>>
    BY DEF Poll, Spawned, DeadlinePasses, taskVars, ghosts
  <2> QED BY <2>1, <2>2, <2>3
<1>6. Moved(s, t, f)
  BY <1>1, <1>2, <1>4, <1>5 DEF Moved
<1> QED BY <1>1, <1>6

LEMMA AbandonMoved ==
    ASSUME DispatchInv, RowInv, NEW s \in Slots, TimesOut(s) \/ Cancelled(s)
    PROVE  RowInv' /\ \E t \in Tasks, f \in Flight : Moved(s, t, f)
<1>1. /\ flight[s].step # "free" /\ Abandon(s)
      /\ UNCHANGED <<jobs, mode, boot, used>> /\ UNCHANGED <<cut, masked>>
  BY DEF TimesOut, Cancelled, DispatchInv, FlightInv, OneFlight, HoldsSession, ghosts
<1>2. PICK t \in Tasks : t = flight[s].task /\ store[t] \in Task /\ StoreTyped
  BY <1>1, FlightTask
<1>3. PICK f \in Flight : /\ flight' = [flight EXCEPT ![s] = f]
                          /\ f.step # "free" => f.task = t
                          /\ f.step \notin {"running", "delivering"}
  BY <1>1, <1>2, EndMoved DEF TimesOut, Cancelled
<1>4. Touches(t)
  <2>1. \/ UNCHANGED store
        \/ \E status \in {"uncertain", "cancelled"} : store' \in Recorded(t, status)
    BY <1>2 DEF TimesOut, Cancelled
  <2>2. {"uncertain", "cancelled"} \subseteq Statuses
    BY DEF Statuses
  <2>3. UNCHANGED store => Touches(t)
    BY DEF Touches
  <2> QED BY <1>2, <2>1, <2>2, <2>3, RecordedTouches
<1>5. flight[s].step \in InFlight \/ store' = store
  <2>1. CASE TimesOut(s)
    BY <2>1 DEF TimesOut, HoldsSession, InFlight
  <2>2. CASE Cancelled(s)
    <3>1. flight[s].step \in Steps
      BY FlightFields DEF DispatchInv, FlightInv, FlightsTyped
    <3>2. flight[s].step # "stranded"
      BY <2>2 DEF Cancelled, DispatchInv, FlightInv, OneFlight, HoldsSession
    <3> QED BY <1>1, <2>2, <3>1, <3>2 DEF Cancelled, InFlight, Steps
  <2> QED BY <2>1, <2>2
<1>6. op' = [op EXCEPT ![s] = IdleOp] /\ IdleOp.stage = "idle"
      /\ op \in [Controllers -> Op] /\ s \in Controllers
  BY <1>1, Names, IdleOpType DEF Abandon, DispatchInv, TasksTyped, OpsTyped
<1>7. Moved(s, t, f)
  <2>1. \A c \in Controllers : op'[c].stage # "idle" =>
          op[c].stage # "idle" /\ op'[c].task = op[c].task
    BY <1>6
  <2> QED BY <1>1, <1>2, <1>3, <1>4, <1>5, <2>1 DEF Moved
<1>8. \A u \in Tasks : Claimable(u)' => Claimable(u)
  BY <1>4 DEF Touches, Claimable
<1>9. RowInv'
  BY <1>1, <1>6, <1>8, RowsAbandoned DEF DispatchInv
<1> QED BY <1>7, <1>9

\* Every step of a flight.
LEMMA FlightKeeps ==
    ASSUME DispatchInv, RowInv, MadeInv, CutInv, NEW s \in Slots,
           Fly(s) \/ DeadlinePasses(s) \/ Cancelled(s)
    PROVE  RowInv' /\ MadeInv' /\ CutInv'
<1>1. CASE TimesOut(s) \/ Cancelled(s)
  BY <1>1, AbandonMoved, MovedHolds
<1>2. CASE Unbind(s)
  BY <1>2, UnbindMoved, MovedHolds
<1>3. CASE ~(TimesOut(s) \/ Cancelled(s) \/ Unbind(s))
  <2>1. PICK t \in Tasks, f \in Flight : Moved(s, t, f) /\ UNCHANGED <<op, lock, torn>>
    BY <1>3, EndingMoved, ExecutedMoved, BeginMoved, NotBegunMoved, OutsideMoved DEF Fly
  <2>2. RowInv'
    BY <2>1, MovedRows
  <2>3. MadeInv' /\ CutInv'
    BY <2>1, MovedHolds
  <2> QED BY <2>2, <2>3
<1> QED BY <1>1, <1>2, <1>3

(***************************************************************************)
(* New flights                                                             *)
(***************************************************************************)
\* A flight begins about a task that is on: the task was not cut off, or its row fired
\* before the reconciliation came to it.
LEMMA LaunchHolds ==
    ASSUME DispatchInv, MadeInv, CutInv, NEW s \in Slots, NEW t \in Tasks,
           flight[s].step = "free", Claimable(t), mode # "down",
           \/ flight' = flight
           \/ \E f \in Flight : /\ flight' = [flight EXCEPT ![s] = f]
                                /\ f.step \in {"admitted", "waiting", "spawned"} /\ f.task = t,
           UNCHANGED <<op, mode, boot, cut>>, used'.made = used.made, masked \subseteq masked',
           t \in boot.todo => t \in masked' \/ t \in inflight,
           \A u \in Tasks \ {t} : store'[u] = store[u],
           store'[t].status \in IncompleteRun \union {store[t].status}
    PROVE  MadeInv' /\ CutInv'
<1>1. /\ flight \in [Slots -> Flight] /\ t \in used.made
      /\ \A v \in Slots \ {s} : flight'[v] = flight[v]
      /\ flight'[s] = flight[s] \/ (flight'[s].step \in {"admitted", "waiting", "spawned"} /\ flight'[s].task = t)
  BY DEF DispatchInv, FlightInv, FlightsTyped, EventInv, Claimable
<1>2. MadeInv'
  BY <1>1 DEF MadeInv
<1>3. \A v \in Slots : flight'[v].step \in {"running", "delivering"} => flight'[v] = flight[v]
  BY <1>1
<1>4. \A v \in Slots, u \in Tasks : Acting(v, u)' => Acting(v, u)
  BY <1>3 DEF Acting
<1>5. ASSUME NEW u \in Tasks \ masked'
      PROVE  CutHolds(u)'
  <2>1. CutHolds(u)
    BY <1>5 DEF CutInv
  <2>2. \A v \in Slots : Acting(v, u)' => store'[u].status \in IncompleteRun
    BY <1>4, <2>1 DEF CutHolds
  <2>3. CASE u # t
    <3>1. Alone(u) => Alone(u)'
      BY <1>1, <2>3 DEF Alone
    <3> QED BY <2>1, <2>2, <2>3, <3>1, CutKept
  <2>4. CASE u = t
    <3>1. ~(cut[t] = "run")
      <4> SUFFICES ASSUME cut[t] = "run" PROVE FALSE
        OBVIOUS
      <4>1. Alone(t) /\ Stays(t)
        BY <2>1, <2>4 DEF CutHolds
      <4>2. t \notin inflight
        BY <4>1 DEF Alone, DispatchInv, FlightInv, OneFlight, InFlight
      <4>3. t \notin boot.todo
        BY <1>5, <2>4, <4>2
      <4> QED BY <4>1, <4>3 DEF Stays, Off, Claimable
    <3> QED BY <2>2, <2>4, <3>1 DEF CutHolds
  <2> QED BY <2>3, <2>4
<1>6. \A v \in Slots : flight'[v].step = "running" => flight'[v].task \in Works
  BY <1>3 DEF CutInv
<1> QED BY <1>2, <1>5, <1>6 DEF CutInv

LEMMA ClaimedSwitch ==
    ASSUME StoreTyped, NEW t \in Tasks
    PROVE  /\ TriggerOf[t] = "date" => ~ClaimedFrom(t).enabled /\ ClaimedFrom(t).status = "claimed"
           /\ TriggerOf[t] # "date" => ClaimedFrom(t) = store[t]
<1>1. store[t] \in Task
  BY DEF StoreTyped
<1> QED BY <1>1 DEF ClaimedFrom, Task

LEMMA FireKeeps ==
    ASSUME DispatchInv, RowInv, MadeInv, CutInv, NEW t \in Tasks, NEW s \in Slots, Fire(t, s)
    PROVE  RowInv' /\ MadeInv' /\ CutInv'
<1>1. /\ flight[s].step = "free" /\ mode # "down" /\ StoreTyped
      /\ UNCHANGED <<op, lock, mode, boot, torn>> /\ UNCHANGED cut
      /\ store \in [Tasks -> Task] /\ jobs \in [Tasks -> {"none", "active", "paused"}]
      /\ jobs' = IF TriggerOf[t] = "date" THEN [jobs EXCEPT ![t] = "none"] ELSE jobs
  BY DEF Fire, Unused, DispatchInv, TasksTyped, RestTyped, StoreTyped
<1>2. used'.made = used.made
  BY CountedMade DEF Fire, DispatchInv
<1>3. CASE ~Claimable(t)
  <2>1. UNCHANGED <<store, inflight, flight, owed, masked>>
    BY <1>3 DEF Fire
  <2>2. RowInv'
    <3>1. \A u \in Tasks : Claimable(u)' => Claimable(u) /\ jobs'[u] = jobs[u]
      BY <1>1, <1>3, <2>1 DEF Claimable
    <3> QED BY <1>1, <3>1, RowsSame
  <2>3. MadeInv'
    BY <1>1, <1>2, <2>1 DEF MadeInv
  <2>4. CutInv'
    <3>1. \A u \in Tasks : CutHolds(u) => CutHolds(u)'
      BY <1>1, <2>1 DEF CutHolds, Acting, Alone, Stays
    <3> QED BY <2>1, <3>1 DEF CutInv
  <2> QED BY <2>2, <2>3, <2>4
<1>4. CASE Claimable(t)
  <2>1. store' = [store EXCEPT ![t] = ClaimedFrom(t)]
    BY <1>4 DEF Fire
  <2>2. /\ \A u \in Tasks \ {t} : store'[u] = store[u]
        /\ store'[t] = ClaimedFrom(t)
        /\ store'[t].status \in IncompleteRun \union {store[t].status}
        /\ TriggerOf[t] = "date" => ~store'[t].enabled
        /\ TriggerOf[t] # "date" => store'[t] = store[t]
    BY <1>1, <2>1, ClaimedSwitch DEF IncompleteRun
  <2>3. RowInv'
    <3>1. \A u \in Tasks : Claimable(u)' => Claimable(u) /\ jobs'[u] = jobs[u]
      BY <1>1, <2>2 DEF Claimable
    <3> QED BY <1>1, <3>1, RowsSame
  <2>4. /\ masked \subseteq masked'
        /\ t \in boot.todo => t \in masked' \/ t \in inflight
    <3>1. t \in boot.todo => mode # "closing"
      BY DEF RowInv, BootHolds
    <3> QED BY <1>4, <3>1 DEF Fire, MayFly
  <2>5. \/ flight' = flight
        \/ \E f \in Flight : /\ flight' = [flight EXCEPT ![s] = f]
                             /\ f.step \in {"admitted", "waiting", "spawned"} /\ f.task = t
    <3>1. PICK f \in Flight : /\ f = [Free EXCEPT !.step = "admitted", !.task = t, !.claimed = TRUE]
                              /\ f.step = "admitted" /\ f.task = t
      <4>1. /\ [Free EXCEPT !.step = "admitted", !.task = t, !.claimed = TRUE] \in Flight
            /\ [Free EXCEPT !.step = "admitted", !.task = t, !.claimed = TRUE].step = "admitted"
            /\ [Free EXCEPT !.step = "admitted", !.task = t, !.claimed = TRUE].task = t
        BY DEF Free, Flight, Steps, Sources
      <4> QED BY <4>1, Zenon
    <3>2. flight' = flight \/ flight' = [flight EXCEPT ![s] = f]
      BY <1>4, <3>1 DEF Fire
    <3> QED BY <3>1, <3>2
  <2>6. MadeInv' /\ CutInv'
    BY <1>1, <1>2, <1>4, <2>2, <2>4, <2>5, LaunchHolds
  <2> QED BY <2>3, <2>6
<1> QED BY <1>3, <1>4

LEMMA SubmitKeeps ==
    ASSUME DispatchInv, RowInv, MadeInv, CutInv, NEW t \in Tasks, NEW s \in Slots,
           NEW e \in Events \union {NoEvent}, SubmitManual(t, s) \/ SubmitWebhook(t, e, s)
    PROVE  RowInv' /\ MadeInv' /\ CutInv'
<1>1. /\ flight[s].step = "free" /\ mode = "up" /\ Claimable(t) /\ StoreTyped
      /\ UNCHANGED <<jobs, op, lock, mode, boot, torn>> /\ UNCHANGED <<cut, masked>>
      /\ store[t] \in Task
  BY DEF SubmitManual, SubmitWebhook, Unused, DispatchInv, TasksTyped, StoreTyped, taskVars, ghosts
<1>2. used'.made = used.made
  BY CountedMade DEF SubmitManual, SubmitWebhook, DispatchInv
<1>3. /\ Touches(t)
      /\ store'[t].status \in IncompleteRun \union {store[t].status}
  <2>1. CASE SubmitManual(t, s)
    <3>1. store' = [store EXCEPT ![t] = Marked(store[t], "queued")]
      BY <2>1 DEF SubmitManual
    <3>2. /\ Marked(store[t], "queued").there = store[t].there
          /\ Marked(store[t], "queued").enabled = store[t].enabled
          /\ Marked(store[t], "queued").status = "queued"
      BY <1>1 DEF Marked, Task
    <3> QED BY <1>1, <3>1, <3>2, OneTouches DEF IncompleteRun, StoreTyped
  <2>2. CASE SubmitWebhook(t, e, s)
    BY <2>2 DEF SubmitWebhook, taskVars, Touches
  <2> QED BY <2>1, <2>2
<1>4. RowInv'
  <2>1. \A u \in Tasks : Claimable(u)' => Claimable(u) /\ jobs'[u] = jobs[u]
    BY <1>1, <1>3 DEF Touches, Claimable
  <2> QED BY <1>1, <2>1, RowsSame
<1>5. \E f \in Flight : /\ flight' = [flight EXCEPT ![s] = f]
                        /\ f.step \in {"admitted", "waiting", "spawned"} /\ f.task = t
  <2>1. CASE SubmitManual(t, s)
    <3>1. PICK f \in Flight : /\ f = [Free EXCEPT !.step = "waiting", !.task = t, !.source = "manual"]
                              /\ f.step = "waiting" /\ f.task = t
      <4>1. /\ [Free EXCEPT !.step = "waiting", !.task = t, !.source = "manual"] \in Flight
            /\ [Free EXCEPT !.step = "waiting", !.task = t, !.source = "manual"].step = "waiting"
            /\ [Free EXCEPT !.step = "waiting", !.task = t, !.source = "manual"].task = t
        BY DEF Free, Flight, Steps, Sources
      <4> QED BY <4>1, Zenon
    <3>2. flight' = [flight EXCEPT ![s] = f]
      BY <2>1, <3>1 DEF SubmitManual
    <3> QED BY <3>1, <3>2
  <2>2. CASE SubmitWebhook(t, e, s)
    <3>1. PICK f \in Flight : /\ f = [Free EXCEPT !.step = "spawned", !.task = t,
                                                  !.source = "webhook", !.event = e]
                              /\ f.step = "spawned" /\ f.task = t
      <4>1. /\ [Free EXCEPT !.step = "spawned", !.task = t, !.source = "webhook", !.event = e] \in Flight
            /\ [Free EXCEPT !.step = "spawned", !.task = t, !.source = "webhook", !.event = e].step = "spawned"
            /\ [Free EXCEPT !.step = "spawned", !.task = t, !.source = "webhook", !.event = e].task = t
        BY DEF Free, Flight, Steps, Sources
      <4> QED BY <4>1, Zenon
    <3>2. flight' = [flight EXCEPT ![s] = f]
      BY <2>2, <3>1 DEF SubmitWebhook
    <3> QED BY <3>1, <3>2
  <2> QED BY <2>1, <2>2
<1>6. t \notin boot.todo
  BY <1>1 DEF RowInv, BootHolds
<1>7. MadeInv' /\ CutInv'
  <2>1. \A u \in Tasks \ {t} : store'[u] = store[u]
    BY <1>3 DEF Touches
  <2> QED BY <1>1, <1>2, <1>3, <1>5, <1>6, <2>1, LaunchHolds
<1> QED BY <1>4, <1>7

(***************************************************************************)
(* Operations, turns and the process                                       *)
(***************************************************************************)
\* A step that leaves the flights alone: a status of a task in flight that it overwrites is
\* noted, and what was cut off stays off or on disk.
LEMMA GroundHolds ==
    ASSUME DispatchInv, MadeInv, CutInv, UNCHANGED flight,
           used.made \subseteq used'.made, masked \subseteq masked',
           \A u \in inflight : store'[u].status = store[u].status \/ u \in masked',
           \A c \in Controllers : op'[c].stage # "idle" => op'[c].task \in used'.made,
           \A u \in Tasks : cut'[u] = "run" => u \in used'.made,
           mode' = "down" => mode = "down",
           \A u \in Tasks \ masked' : cut'[u] = "run" => Alone(u)' /\ Stays(u)'
    PROVE  MadeInv' /\ CutInv'
<1>1. MadeInv'
  BY DEF MadeInv
<1>2. ASSUME NEW u \in Tasks \ masked'
      PROVE  CutHolds(u)'
  <2>1. ASSUME NEW v \in Slots, Acting(v, u)' PROVE store'[u].status \in IncompleteRun
    <3>1. Acting(v, u)
      BY <2>1 DEF Acting
    <3>2. u \in inflight
      BY <3>1 DEF Acting, InFlight, DispatchInv, FlightInv, OneFlight
    <3>3. store[u].status \in IncompleteRun
      BY <1>2, <3>1 DEF CutInv, CutHolds
    <3> QED BY <1>2, <3>2, <3>3
  <2> QED BY <1>2, <2>1 DEF CutHolds
<1>3. \A s \in Slots : flight'[s].step = "running" => flight'[s].task \in Works
  BY DEF CutInv
<1> QED BY <1>1, <1>2, <1>3 DEF CutInv

\* A step of one operation, whose status changes of tasks in flight are noted.
LEMMA LocalHolds ==
    ASSUME DispatchInv, MadeInv, CutInv, UNCHANGED <<flight, inflight>>,
           NEW c \in Controllers, NEW t \in Tasks, Local(c, t), t \in used'.made,
           used.made \subseteq used'.made, masked \subseteq masked',
           \A u \in inflight : store'[u].status = store[u].status \/ u \in masked',
           \A u \in Tasks : cut'[u] = "run" => cut[u] = "run" /\ (u # t \/ ~Alone(t))
    PROVE  MadeInv' /\ CutInv'
<1>1. \A d \in Controllers : op'[d].stage # "idle" => op'[d].task \in used'.made
  BY DEF Local, MadeInv
<1>2. ASSUME NEW u \in Tasks \ masked', cut'[u] = "run"
      PROVE  Alone(u)' /\ Stays(u)'
  <2>1. Alone(u) /\ Stays(u) /\ u # t
    BY <1>2 DEF CutInv, CutHolds
  <2>2. Alone(u)'
    BY <2>1 DEF Alone, Local
  <2>3. Stays(u)'
    BY <2>1 DEF Stays, Local
  <2> QED BY <2>2, <2>3
<1>3. /\ \A u \in Tasks : cut'[u] = "run" => u \in used'.made
      /\ mode' = "down" => mode = "down"
  BY DEF MadeInv, Local
<1> QED BY <1>1, <1>2, <1>3, GroundHolds

LEMMA OperateKeeps ==
    ASSUME DispatchInv, RowInv, MadeInv, CutInv, NEW c \in Controllers, Operate(c)
    PROVE  RowInv' /\ MadeInv' /\ CutInv'
<1>1. /\ Acquire(c) \/ Lands(c) \/ Returns(c) \/ Fails(c)
      /\ UNCHANGED <<flight, inflight>> /\ UNCHANGED <<cut, used>>
      /\ masked' = masked \union {t \in inflight : store'[t].status # store[t].status}
      /\ TasksTyped
  BY DEF Operate, Noted, Overwrites, flightVars, DispatchInv
<1>2. PICK t \in Tasks : op[c].stage # "idle" /\ t = op[c].task /\ Local(c, t)
  BY <1>1, OpLocal
<1>3. RowInv'
  BY <1>1, <1>2, RowsAcquire, RowsLand, RowsReturn, RowsFail
<1>4. t \in used'.made /\ ~Alone(t)
  BY <1>1, <1>2 DEF MadeInv, Alone
<1>5. MadeInv' /\ CutInv'
  BY <1>1, <1>2, <1>4, LocalHolds
<1> QED BY <1>3, <1>5

LEMMA UserKeeps ==
    ASSUME DispatchInv, RowInv, MadeInv, CutInv, NEW t \in Tasks, NEW kind \in Kinds,
           UserCalls(Turn, kind, t) \/ UserCalls(Command, kind, t)
    PROVE  RowInv' /\ MadeInv' /\ CutInv'
<1>1. PICK c \in Controllers : UserCalls(c, kind, t)
  BY Names
<1>2. /\ Call(c, kind, t) /\ mode = "up" /\ store[t].there
      /\ UNCHANGED <<flight, inflight>>
      /\ cut' = [cut EXCEPT ![t] = "no"] /\ cut \in [Tasks -> {"no", "run", "delivery"}]
      /\ masked' = masked \union {u \in inflight : store'[u].status # store[u].status}
      /\ TasksTyped /\ StoreTyped /\ OpsTyped
  BY <1>1 DEF UserCalls, Call, Noted, Overwrites, flightVars, DispatchInv, TasksTyped, GhostsTyped
<1>3. used'.made = used.made /\ t \in used.made
  BY <1>1, <1>2, CountedMade DEF UserCalls, DispatchInv, EventInv
<1>4. RowInv'
  BY <1>2, RowsCall
<1>5. Local(c, t)
  BY <1>2, CallLocal
<1>6. \A u \in Tasks : cut'[u] = "run" => cut[u] = "run" /\ u # t
  BY <1>2
<1>7. MadeInv' /\ CutInv'
  BY <1>2, <1>3, <1>5, <1>6, LocalHolds
<1> QED BY <1>4, <1>7

LEMMA CreatesKeeps ==
    ASSUME DispatchInv, RowInv, MadeInv, CutInv, NEW t \in Tasks, UserCreates(t)
    PROVE  RowInv' /\ MadeInv' /\ CutInv'
<1>1. /\ Create(Turn, t) /\ mode = "up" /\ t \notin used.made /\ Turn \in Controllers
      /\ UNCHANGED <<flight, inflight>> /\ UNCHANGED <<cut, masked>>
      /\ used' = [used EXCEPT !.made = used.made \union {t}] /\ used \in UsedRecord
      /\ TasksTyped /\ StoreTyped /\ OpsTyped
  BY Names DEF UserCreates, flightVars, ghosts, DispatchInv, TasksTyped, GhostsTyped
<1>2. used'.made = used.made \union {t}
  BY <1>1 DEF UsedRecord
<1>3. \A d \in Controllers : op[d].stage = "idle" \/ op[d].task # t
  BY <1>1 DEF MadeInv
<1>4. RowInv'
  BY <1>1, <1>3, RowsCreate
<1>5. Local(Turn, t)
  BY <1>1, CreateLocal
<1>6. \A u \in inflight : store'[u].status = store[u].status
  <2>1. \A u \in inflight : u \in used.made /\ u \in Tasks
    BY DEF DispatchInv, FlightInv, FlightsTyped, OneFlight, InFlight, MadeInv
  <2> QED BY <1>1, <1>5, <2>1 DEF Local
<1>7. \A u \in Tasks : cut'[u] = "run" => cut[u] = "run" /\ u # t
  BY <1>1 DEF MadeInv
<1>8. MadeInv' /\ CutInv'
  BY <1>1, <1>2, <1>5, <1>6, <1>7, LocalHolds
<1> QED BY <1>4, <1>8

LEMMA RotateKeeps ==
    ASSUME DispatchInv, RowInv, MadeInv, CutInv, NEW t \in Tasks, Rotate(t)
    PROVE  RowInv' /\ MadeInv' /\ CutInv'
<1>1. /\ UNCHANGED <<jobs, op, lock, mode, boot, torn>> /\ UNCHANGED <<flight, cut>>
      /\ StoreTyped /\ store[t] \in Task /\ store' = [store EXCEPT ![t].receipts = {}]
      /\ masked \subseteq masked' /\ inflight \subseteq Tasks
  BY DEF Rotate, Noted, Overwrites, flightVars, DispatchInv, TasksTyped, StoreTyped, FlightInv,
     FlightsTyped
<1>2. used'.made = used.made
  BY CountedMade DEF Rotate, DispatchInv
<1>3. \A u \in Tasks : /\ store'[u].status = store[u].status
                       /\ store'[u].there = store[u].there /\ store'[u].enabled = store[u].enabled
  BY <1>1 DEF StoreTyped, Task
<1>4. RowInv'
  <2>1. \A u \in Tasks : Claimable(u)' => Claimable(u) /\ jobs'[u] = jobs[u]
    BY <1>1, <1>3 DEF Claimable
  <2> QED BY <1>1, <2>1, RowsSame
<1>5. ASSUME NEW u \in Tasks \ masked', cut'[u] = "run" PROVE Alone(u)' /\ Stays(u)'
  <2>1. Alone(u) /\ Stays(u)
    BY <1>1, <1>5 DEF CutInv, CutHolds
  <2>2. Alone(u)'
    BY <1>1, <2>1 DEF Alone
  <2>3. Stays(u)'
    BY <1>1, <1>3, <2>1 DEF Stays, Off
  <2> QED BY <2>2, <2>3
<1>6. /\ \A c \in Controllers : op'[c].stage # "idle" => op'[c].task \in used'.made
      /\ \A u \in Tasks : cut'[u] = "run" => u \in used'.made
      /\ mode' = "down" => mode = "down"
  BY <1>1, <1>2 DEF MadeInv
<1>7. \A u \in inflight : store'[u].status = store[u].status
  BY <1>1, <1>3
<1>8. MadeInv' /\ CutInv'
  BY <1>1, <1>2, <1>5, <1>6, <1>7, GroundHolds
<1> QED BY <1>4, <1>8

LEMMA TurnKeeps ==
    ASSUME DispatchInv, RowInv, MadeInv, CutInv, TurnBegins \/ TurnEnds \/ Interrupt
    PROVE  RowInv' /\ MadeInv' /\ CutInv'
<1>1. UNCHANGED <<flight, inflight>> /\ UNCHANGED <<cut, used>>
  BY DEF TurnBegins, TurnEnds, Interrupt, ghosts
<1>2. /\ TasksTyped /\ StoreTyped /\ Turn \in Controllers /\ Loose \in Controllers
  BY Names DEF DispatchInv, TasksTyped
<1>3. CASE TurnBegins \/ TurnEnds
  <2>1. UNCHANGED <<store, jobs, op, lock, mode, boot, torn>> /\ UNCHANGED masked
    BY <1>3 DEF TurnBegins, TurnEnds, taskVars, ghosts
  <2>2. RowInv'
    BY <2>1, RowsSame DEF Claimable
  <2>3. MadeInv'
    BY <1>1, <2>1 DEF MadeInv
  <2>4. CutInv'
    <3>1. \A u \in Tasks : CutHolds(u) => CutHolds(u)'
      BY <1>1, <2>1 DEF CutHolds, Acting, Alone, Stays
    <3> QED BY <1>1, <2>1, <3>1 DEF CutInv
  <2> QED BY <2>2, <2>3, <2>4
<1>4. CASE CutOff(Turn) /\ Noted
  <2>1. PICK t \in Tasks : t = op[Turn].task /\ op[Turn].stage # "idle"
    BY <1>2, <1>4 DEF CutOff, TasksTyped, OpsTyped
  <2>2. RowInv'
    BY <1>2, <1>4, RowsCutOff
  <2>3. Local(Turn, t)
    BY <1>2, <1>4, <2>1, IdleOpType DEF CutOff, Abandon, Local, TasksTyped, StoreTyped, OpsTyped
  <2>4. t \in used'.made /\ ~Alone(t)
    BY <1>1, <1>2, <2>1 DEF MadeInv, Alone
  <2>5. masked' = masked \union {u \in inflight : store'[u].status # store[u].status}
    BY <1>4 DEF Noted, Overwrites
  <2>6. MadeInv' /\ CutInv'
    BY <1>1, <1>2, <2>3, <2>4, <2>5, LocalHolds
  <2> QED BY <2>2, <2>6
<1>5. CASE /\ op[Turn].stage # "idle" /\ op[Loose].stage = "idle"
           /\ op' = [op EXCEPT ![Loose] = op[Turn], ![Turn] = IdleOp]
           /\ lock' = IF lock = Turn THEN Loose ELSE lock
           /\ UNCHANGED <<store, jobs, mode, boot, torn, accepted, twice, dropped, masked, owed>>
  <2>1. Turn # Loose
    BY <1>5
  <2>2. RowInv'
    BY <1>2, <1>5, <2>1, RowsHandOver
  <2>3. \A c \in Controllers : op'[c].stage # "idle" =>
           \E d \in Controllers : op[d].stage # "idle" /\ op'[c].task = op[d].task
    <3>1. op \in [Controllers -> Op] /\ IdleOp.stage = "idle"
      BY <1>2, IdleOpType DEF TasksTyped, OpsTyped
    <3> QED BY <1>2, <1>5, <2>1, <3>1
  <2>4. ASSUME NEW u \in Tasks \ masked', cut'[u] = "run" PROVE Alone(u)' /\ Stays(u)'
    <3>1. Alone(u) /\ Stays(u)
      BY <1>1, <1>5, <2>4 DEF CutInv, CutHolds
    <3>2. Alone(u)'
      BY <1>1, <2>3, <3>1 DEF Alone
    <3>3. Stays(u)'
      BY <1>5, <3>1 DEF Stays
    <3> QED BY <3>2, <3>3
  <2>5. /\ \A c \in Controllers : op'[c].stage # "idle" => op'[c].task \in used'.made
        /\ \A u \in Tasks : cut'[u] = "run" => u \in used'.made
        /\ mode' = "down" => mode = "down"
    BY <1>1, <1>5, <2>3 DEF MadeInv
  <2>6. MadeInv' /\ CutInv'
    BY <1>1, <1>5, <2>4, <2>5, GroundHolds
  <2> QED BY <2>2, <2>6
<1> QED BY <1>3, <1>4, <1>5 DEF TurnBegins, TurnEnds, Interrupt

LEMMA DownKeeps ==
    ASSUME DispatchInv, RowInv, MadeInv, CutInv, Crash \/ Closed
    PROVE  RowInv' /\ MadeInv' /\ CutInv'
<1>1. /\ TasksDown /\ Silence /\ UNCHANGED masked /\ mode # "down" /\ TasksTyped
      /\ cut \in [Tasks -> {"no", "run", "delivery"}]
  BY DEF Crash, Closed, DispatchInv, GhostsTyped
<1>2. /\ mode' = "down" /\ op' = [c \in Controllers |-> IdleOp] /\ boot' = NoBoot
      /\ UNCHANGED store /\ flight' = [s \in Slots |-> Free]
      /\ IdleOp.stage = "idle" /\ Free.step = "free" /\ NoBoot.todo = {}
  BY <1>1, IdleOpType, FreeType DEF TasksDown, Silence, NoBoot
<1>3. used'.made = used.made
  BY CountedMade DEF Crash, Closed, DispatchInv
<1>4. RowInv'
  BY <1>1, RowsDown
<1>5. ASSUME NEW u \in Tasks, cut'[u] = "run"
      PROVE  cut[u] = "run" \/ \E s \in Slots : Acting(s, u)
  <2>1. CASE Closed
    BY <1>5, <2>1 DEF Closed
  <2>2. CASE Crash
    <3>1. CutBy(u) = "run"
      BY <1>5, <2>2 DEF Crash
    <3>2. CASE \E s \in Slots : flight[s].task = u /\ flight[s].step = "delivering" /\ u \in Works
      BY <3>1, <3>2 DEF CutBy
    <3>3. CASE /\ ~(\E s \in Slots : flight[s].task = u /\ flight[s].step = "delivering" /\ u \in Works)
               /\ \E s \in Slots : flight[s].task = u /\ flight[s].step \in {"running", "delivering"}
      BY <3>3 DEF Acting
    <3>4. CASE /\ ~(\E s \in Slots : flight[s].task = u /\ flight[s].step = "delivering" /\ u \in Works)
               /\ ~(\E s \in Slots : flight[s].task = u /\ flight[s].step \in {"running", "delivering"})
      BY <3>1, <3>4 DEF CutBy
    <3> QED BY <3>2, <3>3, <3>4
  <2> QED BY <2>1, <2>2
<1>6. MadeInv'
  <2>1. \A u \in Tasks : cut'[u] = "run" => u \in used'.made
    BY <1>3, <1>5 DEF MadeInv, Acting
  <2> QED BY <1>2, <2>1 DEF MadeInv
<1>7. ASSUME NEW u \in Tasks \ masked'
      PROVE  CutHolds(u)'
  <2>1. CutHolds(u)
    BY <1>1, <1>7 DEF CutInv
  <2>2. \A s \in Slots : ~(Acting(s, u)')
    BY <1>2 DEF Acting
  <2>3. ASSUME cut'[u] = "run" PROVE Alone(u)' /\ Stays(u)'
    <3>1. Alone(u)'
      BY <1>2 DEF Alone
    <3>2. store[u].status \in IncompleteRun \/ Off(store[u])
      BY <1>1, <1>5, <2>1, <2>3 DEF CutHolds, Stays
    <3>3. Stays(u)'
      BY <1>2, <3>2 DEF Stays
    <3> QED BY <3>1, <3>3
  <2> QED BY <2>2, <2>3 DEF CutHolds
<1>8. \A s \in Slots : flight'[s].step = "running" => flight'[s].task \in Works
  BY <1>2
<1> QED BY <1>4, <1>6, <1>7, <1>8 DEF CutInv

LEMMA CloseKeeps ==
    ASSUME DispatchInv, RowInv, MadeInv, CutInv, Close
    PROVE  RowInv' /\ MadeInv' /\ CutInv'
<1>1. /\ mode = "up" /\ mode' = "closing" /\ UNCHANGED <<store, jobs, op, lock, boot, torn>>
      /\ UNCHANGED <<flight, inflight>> /\ UNCHANGED <<cut, masked>>
  BY DEF Close, flightVars, ghosts
<1>2. used'.made = used.made
  BY CountedMade DEF Close, DispatchInv
<1>3. RowInv'
  BY <1>1, RowsClose
<1>4. ASSUME NEW u \in Tasks \ masked', cut'[u] = "run" PROVE Alone(u)' /\ Stays(u)'
  <2>1. Alone(u) /\ Stays(u)
    BY <1>1, <1>4 DEF CutInv, CutHolds
  <2>2. Alone(u)'
    BY <1>1, <2>1 DEF Alone
  <2>3. Stays(u)'
    BY <1>1, <2>1 DEF Stays
  <2> QED BY <2>2, <2>3
<1>5. /\ \A c \in Controllers : op'[c].stage # "idle" => op'[c].task \in used'.made
      /\ \A u \in Tasks : cut'[u] = "run" => u \in used'.made
  BY <1>1, <1>2 DEF MadeInv
<1>6. MadeInv' /\ CutInv'
  BY <1>1, <1>2, <1>4, <1>5, GroundHolds
<1> QED BY <1>3, <1>6

(***************************************************************************)
(* Startup                                                                 *)
(***************************************************************************)
\* The reconciliation turns a task off that it read as being in a run.
LEMMA RecoveryTurnsOff ==
    ASSUME TasksTyped, NEW t \in Tasks, BootTask(t),
           \/ boot.snap[t].status \in IncompleteRun /\ store[t].status \in IncompleteRun
           \/ Off(boot.snap[t]) /\ Off(store[t])
    PROVE  Off(store'[t])
<1> DEFINE seen == boot.snap[t]
           task == Recovered(seen, store[t])
<1>1. store \in [Tasks -> Task] /\ store[t] \in Task /\ seen \in Task
  BY BootFields DEF TasksTyped, RestTyped, StoreTyped
<1>2. PICK late \in BOOLEAN :
        /\ late => task.enabled
        /\ store' = IF late THEN [store EXCEPT ![t] = Missed(store[t])]
                    ELSE IF task = seen THEN store ELSE [store EXCEPT ![t] = task]
  BY DEF BootTask
<1>3. CASE seen.status \in IncompleteRun
  <2>1. task.enabled = FALSE /\ task.status = "uncertain"
    <3>1. task = [store[t] EXCEPT !.status = "uncertain", !.enabled = FALSE]
      BY <1>3 DEF Recovered, IncompleteRun, IncompleteDelivery
    <3>2. [store[t] EXCEPT !.status = "uncertain", !.enabled = FALSE].enabled = FALSE
          /\ [store[t] EXCEPT !.status = "uncertain", !.enabled = FALSE].status = "uncertain"
      BY <1>1 DEF Task
    <3> QED BY <3>1, <3>2, Zenon
  <2>2. task # seen
    BY <1>3, <2>1 DEF IncompleteRun
  <2> HIDE DEF task, seen
  <2> QED BY <1>1, <1>2, <2>1, <2>2 DEF Off
<1>4. CASE seen.status \notin IncompleteRun
  <2>1. Off(store[t])
    BY <1>4
  <2>2. Missed(store[t]).enabled = FALSE
    BY <1>1 DEF Missed, Task
  <2>3. task = seen \/ task = Marked(store[t], "deliveryUncertain")
    BY <1>4 DEF Recovered
  <2>4. /\ Marked(store[t], "deliveryUncertain").enabled = store[t].enabled
        /\ Marked(store[t], "deliveryUncertain").there = store[t].there
    BY <1>1 DEF Marked, Task
  <2> HIDE DEF task, seen
  <2> QED BY <1>1, <1>2, <2>1, <2>2, <2>3, <2>4 DEF Off
<1> QED BY <1>3, <1>4

\* What was cut off stays off, or stays to be reconciled.
LEMMA BootStays ==
    ASSUME DispatchInv, RowInv, NEW u \in Tasks, Stays(u),
           \/ Start \/ Swept \/ (\E t \in Tasks : BootTask(t)) \/ BootLands \/ BootReturns
           \/ BootFails \/ Booted
    PROVE  Stays(u)'
<1>0. TasksTyped /\ store \in [Tasks -> Task] /\ boot \in BootRecord
  BY DEF DispatchInv, TasksTyped, StoreTyped, RestTyped
<1>1. CASE Start
  <2>1. /\ mode = "down" /\ mode' = "starting" /\ UNCHANGED store
        /\ boot' = [NoBoot EXCEPT !.stage = "sweeping", !.snap = store,
                                  !.todo = {t \in Tasks : store[t].there}]
    BY <1>1 DEF Start
  <2>2. boot'.snap = store /\ boot'.todo = {t \in Tasks : store[t].there}
    BY <2>1 DEF NoBoot
  <2>3. u \notin boot'.todo => Off(store'[u])
    BY <2>1, <2>2 DEF Off
  <2> QED BY <2>1, <2>2, <2>3 DEF Stays
<1>2. CASE Swept \/ BootLands
  <2>1. UNCHANGED <<store, mode>> /\ boot'.snap = boot.snap /\ boot'.todo = boot.todo
    BY <1>0, <1>2 DEF Swept, BootLands, BootRecord
  <2> QED BY <2>1 DEF Stays
<1>3. ASSUME NEW t \in Tasks, BootTask(t) PROVE Stays(u)'
  <2>1. /\ mode = "starting" /\ UNCHANGED mode /\ t \in boot.todo /\ boot.stage = "next"
    BY <1>3, Starting DEF BootTask
  <2>2. boot'.snap = boot.snap /\ boot'.todo = boot.todo \ {t}
    <3>1. PICK stage \in {"scheduling", "pausing"} :
             \/ boot' = [boot EXCEPT !.todo = boot.todo \ {t}]
             \/ boot' = [boot EXCEPT !.todo = boot.todo \ {t}, !.task = t, !.landed = FALSE,
                                     !.stage = stage]
      BY <1>3, Zenon DEF BootTask
    <3> QED BY <1>0, <3>1 DEF BootRecord
  <2>3. CASE u = t
    <3>1. Off(store'[u])
      BY <1>0, <1>3, <2>1, <2>3, RecoveryTurnsOff DEF Stays
    <3> QED BY <2>1, <2>2, <2>3, <3>1 DEF Stays
  <2>4. CASE u # t
    <3>1. store'[u] = store[u]
      BY <1>0, <1>3, <2>4 DEF BootTask
    <3> QED BY <2>1, <2>2, <2>4, <3>1 DEF Stays
  <2> QED BY <2>3, <2>4
<1>4. CASE BootReturns \/ BootFails
  <2>1. /\ boot.task # None /\ UNCHANGED mode
        /\ boot' = [boot EXCEPT !.stage = "next", !.task = None, !.landed = FALSE]
    BY <1>4 DEF BootReturns, BootFails, RowInv, BootHolds
  <2>2. PICK t \in Tasks : t = boot.task /\ t \notin boot.todo /\ mode = "starting"
    BY <1>0, <2>1, BootFields DEF RowInv, BootHolds
  <2>3. boot'.snap = boot.snap /\ boot'.todo = boot.todo
    BY <1>0, <2>1 DEF BootRecord
  <2>4. \A v \in Tasks \ {t} : store'[v] = store[v]
    BY <1>0, <1>4, <2>2 DEF BootReturns, BootFails
  <2>5. Off(store[t]) => Off(store'[t])
    <3>1. /\ [store[t] EXCEPT !.sched = TRUE].there = store[t].there
          /\ [store[t] EXCEPT !.sched = TRUE].enabled = store[t].enabled
          /\ Marked(store[t], "scheduleError").there = store[t].there
          /\ Marked(store[t], "scheduleError").enabled = store[t].enabled
      BY <1>0 DEF Task, Marked
    <3>2. \/ store' = store
          \/ store' = [store EXCEPT ![t] = [store[t] EXCEPT !.sched = TRUE]]
          \/ store' = [store EXCEPT ![t] = Marked(store[t], "scheduleError")]
      BY <1>4, <2>2 DEF BootReturns, BootFails
    <3> QED BY <1>0, <3>1, <3>2 DEF Off
  <2> QED BY <2>1, <2>2, <2>3, <2>4, <2>5 DEF Stays
<1>5. CASE Booted
  <2>1. /\ boot.todo = {} /\ mode' = "up" /\ boot' = NoBoot /\ UNCHANGED store
        /\ mode = "starting" /\ NoBoot.todo = {}
    BY <1>5, Starting DEF Booted, NoBoot
  <2> QED BY <2>1 DEF Stays
<1> QED BY <1>1, <1>2, <1>3, <1>4, <1>5

LEMMA BootKeeps ==
    ASSUME DispatchInv, RowInv, MadeInv, CutInv, Boot
    PROVE  RowInv' /\ MadeInv' /\ CutInv'
<1>1. /\ \/ Start \/ Swept \/ (\E t \in Tasks : BootTask(t)) \/ BootLands \/ BootReturns
         \/ BootFails \/ Booted
      /\ masked' = masked \union {t \in inflight : store'[t].status # store[t].status}
      /\ UNCHANGED <<flight, inflight>> /\ UNCHANGED <<cut, used>> /\ TasksTyped
  BY DEF Boot, Overwrites, flightVars, DispatchInv
<1>2. UNCHANGED op /\ (mode' # "down" \/ UNCHANGED mode)
  BY <1>1 DEF Start, Swept, BootTask, BootLands, BootReturns, BootFails, Booted
<1>3. RowInv'
  BY <1>1, RowsStart, RowsSwept, RowsBootTask, RowsBootLand, RowsBootEnd, RowsBooted
<1>4. ASSUME NEW u \in Tasks \ masked', cut'[u] = "run" PROVE Alone(u)' /\ Stays(u)'
  <2>1. Alone(u) /\ Stays(u)
    BY <1>1, <1>4 DEF CutInv, CutHolds
  <2>2. Alone(u)'
    BY <1>1, <1>2, <2>1 DEF Alone
  <2>3. Stays(u)'
    BY <1>1, <2>1, BootStays
  <2> QED BY <2>2, <2>3
<1>5. /\ \A c \in Controllers : op'[c].stage # "idle" => op'[c].task \in used'.made
      /\ \A u \in Tasks : cut'[u] = "run" => u \in used'.made
      /\ mode' = "down" => mode = "down"
  BY <1>1, <1>2 DEF MadeInv
<1>6. MadeInv' /\ CutInv'
  BY <1>1, <1>4, <1>5, GroundHolds
<1> QED BY <1>3, <1>6

(***************************************************************************)
(* The invariant, and the theorems                                         *)
(***************************************************************************)
LEMMA DispatchStart == Init => DispatchInv
<1> SUFFICES ASSUME Init PROVE DispatchInv
  OBVIOUS
<1>1. TasksTyped
  BY TasksStart DEF Init
<1>2. GhostsTyped
  BY DEF Init, GhostsTyped, UsedRecord
<1>3. FlightInv
  BY FreeType, Names DEF Init, FlightInv, FlightsTyped, OneFlight, ClaimIsAnswered, InFlight,
     HoldsSession
<1>4. EventInv
  BY DEF Init, TasksInit, EventInv, EventOnce, Absent
<1> QED BY <1>1, <1>2, <1>3, <1>4 DEF DispatchInv

LEMMA DispatchStep == DispatchInv /\ [Next]_vars => DispatchInv'
<1> SUFFICES ASSUME DispatchInv, [Next]_vars
             PROVE  DispatchInv'
  OBVIOUS
<1>1. CASE UNCHANGED vars
  <2>1. /\ UNCHANGED <<store, jobs, op, lock, mode, boot, torn>>
        /\ UNCHANGED <<flight, inflight, pending, holder>>
        /\ UNCHANGED <<accepted, twice, dropped, cut, masked, owed, used>>
    BY <1>1 DEF vars, taskVars, flightVars, ghosts
  <2>2. FlightInv' /\ StoreTyped' /\ ReceiptsKept
    BY <2>1, GroundMoves, StoreSame DEF DispatchInv, TasksTyped
  <2> QED BY <2>1, <2>2, QuietParts
<1>2. ASSUME NEW s \in Slots, Fly(s) \/ DeadlinePasses(s) \/ Cancelled(s)
      PROVE  DispatchInv'
  BY <1>2, EndingStep, ToldStep, ExecutedStep, TimesOutStep, CancelledStep, OutsideStep, BeginStep
     DEF Fly
<1>3. ASSUME NEW t \in Tasks, NEW s \in Slots,
             \/ Fire(t, s) \/ SubmitManual(t, s)
             \/ \E e \in Events \union {NoEvent} : SubmitWebhook(t, e, s)
      PROVE  DispatchInv'
  BY <1>3, FireStep, SubmitStep
<1>4. CASE TurnBegins \/ TurnEnds \/ Interrupt
  BY <1>4, TurnStep
<1>5. ASSUME NEW t \in Tasks, UserCreates(t) \/ Rotate(t)
      PROVE  DispatchInv'
  BY <1>5, CreatesStep, RotateStep
<1>6. ASSUME NEW t \in Tasks, NEW kind \in Kinds,
             UserCalls(Turn, kind, t) \/ UserCalls(Command, kind, t)
      PROVE  DispatchInv'
  BY <1>6, UserStep
<1>7. ASSUME NEW c \in Controllers, Operate(c)
      PROVE  DispatchInv'
  BY <1>7, OperateStep
<1>8. CASE Boot \/ Crash \/ Close \/ Closed
  BY <1>8, BootStep, DownStep, CloseStep
<1> QED BY <1>1, <1>2, <1>3, <1>4, <1>5, <1>6, <1>7, <1>8 DEF Next

LEMMA RunsStart == Init => RowInv /\ MadeInv /\ CutInv
<1> SUFFICES ASSUME Init PROVE RowInv /\ MadeInv /\ CutInv
  OBVIOUS
<1>1. RowInv
  BY RowsBegin DEF Init
<1>2. /\ flight = [s \in Slots |-> Free] /\ Free.step = "free"
      /\ op = [c \in Controllers |-> IdleOp] /\ IdleOp.stage = "idle"
      /\ cut = [t \in Tasks |-> "no"] /\ mode = "up"
  BY FreeType, IdleOpType DEF Init, TasksInit
<1>3. MadeInv
  BY <1>2 DEF MadeInv
<1>4. CutInv
  BY <1>2 DEF CutInv, CutHolds, Acting
<1> QED BY <1>1, <1>3, <1>4

LEMMA RunsStep ==
    ASSUME DispatchInv, RowInv, MadeInv, CutInv, [Next]_vars
    PROVE  RowInv' /\ MadeInv' /\ CutInv'
<1>1. CASE UNCHANGED vars
  <2>1. /\ UNCHANGED <<store, jobs, op, lock, mode, boot, torn>>
        /\ UNCHANGED flight /\ UNCHANGED <<cut, masked, used>>
    BY <1>1 DEF vars, taskVars, flightVars, ghosts
  <2>2. RowInv'
    BY <2>1, RowsSame DEF Claimable
  <2>3. MadeInv'
    BY <2>1 DEF MadeInv
  <2>4. CutInv'
    <3>1. \A u \in Tasks : CutHolds(u) => CutHolds(u)'
      BY <2>1 DEF CutHolds, Acting, Alone, Stays
    <3> QED BY <2>1, <3>1 DEF CutInv
  <2> QED BY <2>2, <2>3, <2>4
<1>2. ASSUME NEW s \in Slots, Fly(s) \/ DeadlinePasses(s) \/ Cancelled(s)
      PROVE  RowInv' /\ MadeInv' /\ CutInv'
  BY <1>2, FlightKeeps
<1>3. ASSUME NEW t \in Tasks, NEW s \in Slots,
             \/ Fire(t, s) \/ SubmitManual(t, s)
             \/ \E e \in Events \union {NoEvent} : SubmitWebhook(t, e, s)
      PROVE  RowInv' /\ MadeInv' /\ CutInv'
  BY <1>3, FireKeeps, SubmitKeeps
<1>4. CASE TurnBegins \/ TurnEnds \/ Interrupt
  BY <1>4, TurnKeeps
<1>5. ASSUME NEW t \in Tasks, UserCreates(t) \/ Rotate(t)
      PROVE  RowInv' /\ MadeInv' /\ CutInv'
  BY <1>5, CreatesKeeps, RotateKeeps
<1>6. ASSUME NEW t \in Tasks, NEW kind \in Kinds,
             UserCalls(Turn, kind, t) \/ UserCalls(Command, kind, t)
      PROVE  RowInv' /\ MadeInv' /\ CutInv'
  BY <1>6, UserKeeps
<1>7. ASSUME NEW c \in Controllers, Operate(c)
      PROVE  RowInv' /\ MadeInv' /\ CutInv'
  BY <1>7, OperateKeeps
<1>8. CASE Boot \/ Crash \/ Close \/ Closed
  BY <1>8, BootKeeps, DownKeeps, CloseKeeps
<1> QED BY <1>1, <1>2, <1>3, <1>4, <1>5, <1>6, <1>7, <1>8 DEF Next

\* The dispatcher with its rows and the runs that were cut off.
RunInv == DispatchInv /\ RowInv /\ MadeInv /\ CutInv

LEMMA RunsInductive ==
    /\ Init => RunInv
    /\ RunInv /\ [Next]_vars => RunInv'
<1>1. Init => RunInv
  BY DispatchStart, RunsStart DEF RunInv
<1>2. RunInv /\ [Next]_vars => RunInv'
  BY DispatchStep, RunsStep DEF RunInv
<1> QED BY <1>1, <1>2

(* The store, the rows, the operations and the flights keep their types,   *)
(* through operations that read a task, wait and write it back, through    *)
(* failures and cancellations between their calls, and through restarts.   *)
THEOREM DispatchTypes == Spec => []TypeOK
<1>1. DispatchInv => TypeOK
  BY DEF DispatchInv, TasksTyped, StoreTyped, OpsTyped, RestTyped, GhostsTyped, FlightInv,
     FlightsTyped, TypeOK
<1> QED BY <1>1, DispatchStart, DispatchStep, PTL DEF Spec

(* However the scheduler, the user's hand and webhooks race, a task is in  *)
(* flight at most once, the in-flight set says so, and one flight holds    *)
(* the session while it works (proactive_tasks.py:176-259).                *)
THEOREM TasksFlyAlone == Spec => []OneFlight
<1>1. DispatchInv => OneFlight
  BY DEF DispatchInv, FlightInv
<1> QED BY <1>1, DispatchStart, DispatchStep, PTL DEF Spec

(* A webhook event is accepted at most once as long as its receipt has not *)
(* been discarded, for any number of callers, operations and restarts      *)
(* (active_tasks.py reserve_webhook_event).                                *)
THEOREM EventsAreAcceptedOnce == Spec => []EventOnce
<1>1. DispatchInv => EventOnce
  BY DEF DispatchInv, EventInv
<1> QED BY <1>1, DispatchStart, DispatchStep, PTL DEF Spec

(* A one-off task whose claim flies has a flight to answer for it until    *)
(* its outcome or a notice of failure was told (proactive_tasks.py:176).   *)
THEOREM ClaimsAreAnswered == Spec => []ClaimIsAnswered
<1>1. DispatchInv => ClaimIsAnswered
  BY DEF DispatchInv, FlightInv
<1> QED BY <1>1, DispatchStart, DispatchStep, PTL DEF Spec

(* An enabled task has an active row in the scheduler, unless an operation *)
(* on it is under way or was cut off or failed half way, for any number of *)
(* controllers, rows that fire meanwhile, and restarts (active_tasks.py    *)
(* create, control, update and initialize_active_task_schedules).          *)
THEOREM EnabledTasksHaveRows == Spec => []EnabledHasRow
<1>1. RunInv => EnabledHasRow
  BY RowsHold DEF RunInv
<1>2. Init => RunInv
  BY RunsInductive
<1>3. RunInv /\ [Next]_vars => RunInv'
  BY RunsInductive
<1> QED BY <1>1, <1>2, <1>3, PTL DEF Spec

(* A task whose run a crash cut off is off once the process is up again,   *)
(* until the user decides, unless another coroutine overwrote its status   *)
(* or its row fired before the reconciliation came to it (active_tasks.py  *)
(* initialize_active_task_schedules).                                      *)
THEOREM CutRunsStayOff == Spec => []CutStaysOff
<1>1. RunInv => CutStaysOff
  <2> SUFFICES ASSUME RunInv, mode = "up", NEW t \in Tasks \ masked, cut[t] = "run"
               PROVE  ~Claimable(t)
    BY DEF CutStaysOff
  <2>1. Stays(t)
    BY DEF RunInv, CutInv, CutHolds
  <2>2. boot.todo = {}
    BY DEF RunInv, RowInv, BootHolds
  <2> QED BY <2>1, <2>2 DEF Stays, Off, Claimable
<1>2. Init => RunInv
  BY RunsInductive
<1>3. RunInv /\ [Next]_vars => RunInv'
  BY RunsInductive
<1> QED BY <1>1, <1>2, <1>3, PTL DEF Spec
=============================================================================
