-------------------------- MODULE BridgeExecution --------------------------
(***************************************************************************)
(* A GScore command executed across a process boundary.  The client, the  *)
(* tool in chatinter/gscore_adapter.py, posts a request and then polls its *)
(* status; the server, ChatInterBridge/service.py with the store of        *)
(* ChatInterBridge/execution.py, claims the request id, prepares, queues   *)
(* and tracks the execution and the messages it sends.  A request id is    *)
(* derived from the chat message, the capability and the command: a chat   *)
(* message handled twice makes two calls of one request.  Requests and     *)
(* answers may be lost or late, records expire and are evicted, and the    *)
(* server may restart: its store and its queue are in memory only.         *)
(***************************************************************************)
EXTENDS Naturals, Sequences

CONSTANTS
    Calls,       \* tool calls, each posted once
    Requests,    \* request ids
    Prints,      \* fingerprints of the whole posted payload
    RequestOf,   \* RequestOf[c]: the request id of call c
    PrintOf,     \* PrintOf[c]: the fingerprint of call c
    MaxRecords,  \* max_entries of the store (4096)
    MaxSends,    \* bound: messages one execution sends
    Expiring,    \* bound: request ids whose record may outlive its time
    MaxRestarts  \* bound: restarts of the server

ASSUME BridgeAssumption ==
    /\ RequestOf \in [Calls -> Requests]
    /\ PrintOf \in [Calls -> Prints]
    /\ Prints # {}
    /\ MaxRecords \in Nat \ {0}
    /\ MaxSends \in Nat
    /\ Expiring \subseteq Requests
    /\ MaxRestarts \in Nat

VARIABLES
    pc,        \* pc[c]: where the tool call is
    wire,      \* wire[c]: the POST under way, or the disposition answered
    view,      \* view[c]: the status answer under way
    seen,      \* seen[c]: status_observed of the polling loop
    result,    \* result[c]: what the tool call returned
    handling,  \* handling[c]: the call on the server, from claim to end
    sends,     \* sends[c]: the messages the execution of c sends
    records,   \* records[r]: the store, Blank where r has no record
    order,     \* the ids that have a record, oldest first
    forgotten, \* history: ids whose record was dropped
    restarts   \* restarts so far

clientVars == <<pc, view, seen, result>>
storeVars == <<records, order, forgotten>>
vars == <<clientVars, wire, handling, sends, storeVars, restarts>>

Terminal == {"succeeded", "failed", "rejected", "unknown"}
States == {"none", "preparing", "accepted", "running"} \union Terminal
Deliveries == {"not_attempted", "pending", "observed", "partial",
               "unobserved", "failed", "no_output"}
Dispositions == {"accepted", "rejected", "unknown", "conflict"}
Results == {"none", "unavailable", "rejected", "conflict", "failed",
            "delivered", "no_output", "unknown", "submitted_unknown"}

\* No record: what the store holds for an id it does not know.
Blank == [state |-> "none", print |-> CHOOSE p \in Prints : TRUE,
          response |-> "unknown", delivery |-> "not_attempted",
          attempts |-> 0, confirmed |-> 0, lost |-> 0, inflight |-> 0,
          old |-> FALSE]

Records == [state : States, print : Prints,
            response : {"accepted", "rejected", "unknown"},
            delivery : Deliveries, attempts : Nat, confirmed : Nat,
            lost : Nat, inflight : Nat, old : BOOLEAN]

Live(r) == records[r].state # "none"

\* Queued at some time: the command of the call is executed, or was, or will be.
Queued(c) == handling[c] \in {"accepted", "running", "succeeded", "failed"}
\* The call whose submission made the record.
Claimed(c) == handling[c] \notin {"none", "duplicate", "lost"}

Init ==
    /\ pc = [c \in Calls |-> "idle"]
    /\ wire = [c \in Calls |-> "none"]
    /\ view = [c \in Calls |-> "none"]
    /\ seen = [c \in Calls |-> FALSE]
    /\ result = [c \in Calls |-> "none"]
    /\ handling = [c \in Calls |-> "none"]
    /\ sends = [c \in Calls |-> [going |-> 0, started |-> 0, confirmed |-> 0]]
    /\ records = [r \in Requests |-> Blank]
    /\ order = <<>>
    /\ forgotten = {}
    /\ restarts = 0

-----------------------------------------------------------------------------
(* The store.  Every change of a record renews its time to live; a record  *)
(* past it stays, and may be renewed, until a claim or a status prunes it. *)

\* _record and _touch: a change of a record that is gone has no effect.
Update(r, f) ==
    IF Live(r) THEN [records EXCEPT ![r] = [f EXCEPT !.old = FALSE]] ELSE records

Pruned == [r \in Requests |-> IF records[r].old THEN Blank ELSE records[r]]
\* Of the n oldest ids, those that stay.
KeptOf[n \in 0 .. Len(order)] ==
    IF n = 0 THEN <<>>
    ELSE IF records[order[n]].old THEN KeptOf[n - 1]
         ELSE Append(KeptOf[n - 1], order[n])
PrunedOrder == KeptOf[Len(order)]

\* The store at its limit gives up its oldest record, whatever its state.
Evicted == IF Len(PrunedOrder) >= MaxRecords THEN {Head(PrunedOrder)} ELSE {}
RoomForAll(r) == Append(PrunedOrder, r)
RoomFor(r) ==
    Append(IF Evicted = {} THEN PrunedOrder ELSE Tail(PrunedOrder), r)

Forget(rs) == forgotten' = forgotten \union {r \in Requests : r \in rs /\ Live(r)}

NewRefused(print) ==
    [Blank EXCEPT !.state = "preparing", !.print = print, !.response = "rejected"]
NewRecord(print) == [Blank EXCEPT !.state = "preparing", !.print = print]

\* _refresh_delivery_state
Refreshed(rec) ==
    [rec EXCEPT !.delivery =
        CASE rec.inflight > 0                -> "pending"
          [] rec.inflight = 0 /\ rec.confirmed = rec.attempts -> "observed"
          [] OTHER -> IF rec.confirmed > 0 THEN "partial"
                      ELSE IF rec.lost = rec.attempts THEN "failed"
                      ELSE "unobserved"]

StartedUncounted(rec) == [rec EXCEPT !.inflight = @ + 1, !.delivery = "pending"]
Started(rec) ==
    [rec EXCEPT !.attempts = @ + 1, !.inflight = @ + 1, !.delivery = "pending"]

Landed(rec) ==
    [rec EXCEPT !.inflight = IF @ = 0 THEN 0 ELSE @ - 1]

SucceededSilent(rec) ==
    [rec EXCEPT !.state = "succeeded", !.delivery = "no_output"]
\* mark_succeeded
Succeeded(rec) ==
    [rec EXCEPT !.state = "succeeded",
                !.delivery = IF rec.attempts = 0 THEN "no_output" ELSE @]

\* A record grows older than its time to live (600 seconds).
Age(r) ==
    /\ r \in Expiring
    /\ Live(r)
    /\ ~records[r].old
    /\ records' = [records EXCEPT ![r].old = TRUE]
    /\ UNCHANGED <<clientVars, wire, handling, sends, order, forgotten, restarts>>

-----------------------------------------------------------------------------
(* The server.  execute_capability claims and goes on to the first await   *)
(* in one step; preparation ends in one of the ways below.                 *)

\* claim finds a record of the id, prepared or not.
Remembered(r) == Pruned[r].state # "none"

\* Mutant: the handler goes on although the claim has failed.
RepeatGoesOn(c) ==
    /\ wire[c] = "request"
    /\ Remembered(RequestOf[c])
    /\ wire' = [wire EXCEPT ![c] = "handled"]
    /\ handling' = [handling EXCEPT ![c] = "preparing"]
    /\ records' = Pruned
    /\ order' = PrunedOrder
    /\ Forget({q \in Requests : records[q].old})
    /\ UNCHANGED <<clientVars, sends, restarts>>

\* claim of an id that has a record: the recorded answer, or a conflict.
Repeat(c) ==
    LET r == RequestOf[c] IN
    /\ wire[c] = "request"
    /\ Remembered(r)
    /\ wire' = [wire EXCEPT ![c] = IF Pruned[r].print = PrintOf[c]
                                   THEN Pruned[r].response
                                   ELSE "conflict"]
    /\ handling' = [handling EXCEPT ![c] = "duplicate"]
    /\ records' = Pruned
    /\ order' = PrunedOrder
    /\ Forget({q \in Requests : records[q].old})
    /\ UNCHANGED <<clientVars, sends, restarts>>

Claim(c) ==
    LET r == RequestOf[c] IN
    /\ wire[c] = "request"
    /\ ~Remembered(r)
    /\ wire' = [wire EXCEPT ![c] = "handled"]
    /\ handling' = [handling EXCEPT ![c] = "preparing"]
    /\ records' = [q \in Requests |->
                      IF q = r THEN NewRecord(PrintOf[c])
                      ELSE IF q \in Evicted THEN Blank ELSE Pruned[q]]
    /\ order' = RoomFor(r)
    /\ Forget({q \in Requests : records[q].old} \union Evicted)
    /\ UNCHANGED <<clientVars, sends, restarts>>

\* The submission of c ends in state s and the record says so; the answer is
\* lost when the client has gone.
Settle(c, s, answer) ==
    /\ handling[c] = "preparing"
    /\ handling' = [handling EXCEPT ![c] = s]
    /\ records' = Update(RequestOf[c], [records[RequestOf[c]] EXCEPT
                             !.state = s, !.response = answer])
    /\ wire' = [wire EXCEPT ![c] = IF @ = "handled" THEN answer ELSE @]
    /\ UNCHANGED <<clientVars, sends, order, forgotten, restarts>>

\* A stale revision, an unknown or blocked capability, a bot that is offline.
Reject(c) == Settle(c, "rejected", "rejected")

\* Preparation or submission raises, or the trigger cannot be validated.
Fault(c) == Settle(c, "unknown", "unknown")

\* put_nowait and mark_accepted, with nothing awaited in between.
Queue(c) == Settle(c, "accepted", "accepted")

CancelLate(c) ==
    /\ Claimed(c)
    /\ handling' = [handling EXCEPT ![c] = "unknown"]
    /\ records' = Update(RequestOf[c], [records[RequestOf[c]] EXCEPT
                             !.state = "unknown", !.response = "unknown"])
    /\ wire' = [wire EXCEPT ![c] = "none"]
    /\ UNCHANGED <<clientVars, sends, order, forgotten, restarts>>
\* The handler is cancelled while it awaits: the client gets no answer.
Cancel(c) ==
    /\ handling[c] = "preparing"
    /\ handling' = [handling EXCEPT ![c] = "unknown"]
    /\ records' = Update(RequestOf[c], [records[RequestOf[c]] EXCEPT
                             !.state = "unknown", !.response = "unknown"])
    /\ wire' = [wire EXCEPT ![c] = "none"]
    /\ UNCHANGED <<clientVars, sends, order, forgotten, restarts>>

\* track_execution: the bot's queue runs the command, and it ends.
Run(c) ==
    /\ handling[c] = "accepted"
    /\ handling' = [handling EXCEPT ![c] = "running"]
    /\ records' = Update(RequestOf[c],
                         [records[RequestOf[c]] EXCEPT !.state = "running"])
    /\ UNCHANGED <<clientVars, wire, sends, order, forgotten, restarts>>

Succeed(c) ==
    /\ handling[c] = "running"
    /\ handling' = [handling EXCEPT ![c] = "succeeded"]
    /\ records' = Update(RequestOf[c], Succeeded(records[RequestOf[c]]))
    /\ UNCHANGED <<clientVars, wire, sends, order, forgotten, restarts>>

Fail(c) ==
    /\ handling[c] = "running"
    /\ handling' = [handling EXCEPT ![c] = "failed"]
    /\ records' = Update(RequestOf[c],
                         [records[RequestOf[c]] EXCEPT !.state = "failed"])
    /\ UNCHANGED <<clientVars, wire, sends, order, forgotten, restarts>>

\* BridgeBot sends; a task the command started may send after its end.
Send(c) ==
    /\ handling[c] \in {"running", "succeeded", "failed"}
    /\ sends[c].started < MaxSends
    /\ sends' = [sends EXCEPT ![c].going = @ + 1, ![c].started = @ + 1]
    /\ records' = Update(RequestOf[c], Started(records[RequestOf[c]]))
    /\ UNCHANGED <<clientVars, wire, handling, order, forgotten, restarts>>

\* delivery_finished, with message ids
Confirm(c) ==
    LET rec == records[RequestOf[c]] IN
    /\ sends[c].going > 0
    /\ sends' = [sends EXCEPT ![c].going = @ - 1, ![c].confirmed = @ + 1]
    /\ records' = Update(RequestOf[c],
                         Refreshed([Landed(rec) EXCEPT !.confirmed = @ + 1]))
    /\ UNCHANGED <<clientVars, wire, handling, order, forgotten, restarts>>

\* delivery_finished with no message id
Land(c) ==
    /\ sends[c].going > 0
    /\ sends' = [sends EXCEPT ![c].going = @ - 1]
    /\ records' = Update(RequestOf[c], Refreshed(Landed(records[RequestOf[c]])))
    /\ UNCHANGED <<clientVars, wire, handling, order, forgotten, restarts>>

\* delivery_failed
Miss(c) ==
    LET rec == records[RequestOf[c]] IN
    /\ sends[c].going > 0
    /\ sends' = [sends EXCEPT ![c].going = @ - 1]
    /\ records' = Update(RequestOf[c],
                         Refreshed([Landed(rec) EXCEPT !.lost = @ + 1]))
    /\ UNCHANGED <<clientVars, wire, handling, order, forgotten, restarts>>

\* The server's memory is gone, and with it every connection.
Restart ==
    /\ restarts < MaxRestarts
    /\ restarts' = restarts + 1
    /\ records' = [r \in Requests |-> Blank]
    /\ order' = <<>>
    /\ Forget(Requests)
    /\ handling' = [c \in Calls |->
                       IF handling[c] \in {"preparing", "accepted", "running"}
                       THEN "lost" ELSE handling[c]]
    /\ sends' = [c \in Calls |-> [sends[c] EXCEPT !.going = 0]]
    /\ wire' = [c \in Calls |-> "none"]
    /\ view' = [c \in Calls |-> "none"]
    /\ UNCHANGED <<pc, seen, result>>

-----------------------------------------------------------------------------
(* The client.                                                             *)

Return(c, what) ==
    /\ pc' = [pc EXCEPT ![c] = "done"]
    /\ result' = [result EXCEPT ![c] = what]

Post(c) ==
    /\ pc[c] = "idle"
    /\ pc' = [pc EXCEPT ![c] = "posted"]
    /\ wire' = [wire EXCEPT ![c] = "request"]
    /\ UNCHANGED <<view, seen, result, handling, sends, storeVars, restarts>>

\* The bridge is not configured, cannot be connected to, or answers 4xx
\* before it has looked at the request.
PostRefused(c) ==
    /\ pc[c] = "idle"
    /\ Return(c, "unavailable")
    /\ UNCHANGED <<view, seen, wire, handling, sends, storeVars, restarts>>

Lose(c) ==
    /\ wire[c] # "none"
    /\ wire' = [wire EXCEPT ![c] = "none"]
    /\ UNCHANGED <<clientVars, handling, sends, storeVars, restarts>>

\* The POST times out, the connection breaks, or the server answers 5xx: the
\* request may have arrived, may still arrive, or may be lost.
PostFails(c) ==
    /\ pc[c] = "posted"
    /\ pc' = [pc EXCEPT ![c] = "polling"]
    /\ wire' = [wire EXCEPT ![c] = IF @ = "request" THEN @ ELSE "none"]
    /\ UNCHANGED <<view, seen, result, handling, sends, storeVars, restarts>>

Accepted(c) ==
    /\ pc[c] = "posted"
    /\ wire[c] = "accepted"
    /\ pc' = [pc EXCEPT ![c] = "polling"]
    /\ seen' = [seen EXCEPT ![c] = TRUE]
    /\ wire' = [wire EXCEPT ![c] = "none"]
    /\ UNCHANGED <<view, result, handling, sends, storeVars, restarts>>

\* Any other disposition ends the call; "unknown" is the uncertain one.
NotAccepted(c) ==
    /\ pc[c] = "posted"
    /\ wire[c] \in {"rejected", "unknown", "conflict"}
    /\ Return(c, wire[c])
    /\ wire' = [wire EXCEPT ![c] = "none"]
    /\ UNCHANGED <<view, seen, handling, sends, storeVars, restarts>>

\* What a status answer amounts to (_delivery_observation comes first).
StatusOf(rec) ==
    CASE rec.confirmed > 0 \/ rec.delivery = "observed" -> "delivered"
      [] rec.confirmed = 0 /\ rec.delivery = "no_output"
            /\ rec.state = "succeeded" -> "no_output"
      [] rec.confirmed = 0 /\ rec.delivery # "observed"
            /\ rec.state \in {"failed", "rejected"} -> "failed"
      [] OTHER -> "pending"

\* The server takes a snapshot; the answer 404 says as much as none.
AskStatus(c) ==
    /\ pc[c] = "polling"
    /\ view[c] = "none"
    /\ records' = Pruned
    /\ order' = PrunedOrder
    /\ Forget({q \in Requests : records[q].old})
    /\ view' = [view EXCEPT ![c] =
                   IF Pruned[RequestOf[c]].state = "none" THEN "none"
                   ELSE StatusOf(Pruned[RequestOf[c]])]
    /\ UNCHANGED <<pc, seen, result, wire, handling, sends, restarts>>

StatusLost(c) ==
    /\ view[c] # "none"
    /\ view' = [view EXCEPT ![c] = "none"]
    /\ UNCHANGED <<pc, seen, result, wire, handling, sends, storeVars, restarts>>

StatusPending(c) ==
    /\ pc[c] = "polling"
    /\ view[c] = "pending"
    /\ seen' = [seen EXCEPT ![c] = TRUE]
    /\ view' = [view EXCEPT ![c] = "none"]
    /\ UNCHANGED <<pc, result, wire, handling, sends, storeVars, restarts>>

StatusDecides(c) ==
    /\ pc[c] = "polling"
    /\ view[c] \in {"delivered", "no_output", "failed"}
    /\ Return(c, view[c])
    /\ seen' = [seen EXCEPT ![c] = TRUE]
    /\ view' = [view EXCEPT ![c] = "none"]
    /\ UNCHANGED <<wire, handling, sends, storeVars, restarts>>

DeadlineIfSeen(c) ==
    /\ pc[c] = "polling"
    /\ seen[c]
    /\ Return(c, IF seen[c] THEN "submitted_unknown" ELSE "unknown")
    /\ view' = [view EXCEPT ![c] = "none"]
    /\ UNCHANGED <<seen, wire, handling, sends, storeVars, restarts>>
\* The deadline of the polling loop: nothing is known of the outcome.
Deadline(c) ==
    /\ pc[c] = "polling"
    /\ Return(c, IF seen[c] THEN "submitted_unknown" ELSE "unknown")
    /\ view' = [view EXCEPT ![c] = "none"]
    /\ UNCHANGED <<seen, wire, handling, sends, storeVars, restarts>>

-----------------------------------------------------------------------------
ClientStep(c) ==
    \/ Post(c) \/ PostRefused(c) \/ Lose(c) \/ PostFails(c)
    \/ Accepted(c) \/ NotAccepted(c)
    \/ AskStatus(c) \/ StatusLost(c) \/ StatusPending(c)
    \/ StatusDecides(c) \/ Deadline(c)

ServerStep(c) ==
    \/ Repeat(c) \/ Claim(c)
    \/ Reject(c) \/ Fault(c) \/ Queue(c) \/ Cancel(c)
    \/ Run(c) \/ Succeed(c) \/ Fail(c)
    \/ Send(c) \/ Confirm(c) \/ Land(c) \/ Miss(c)

Next ==
    \/ \E c \in Calls : ClientStep(c) \/ ServerStep(c)
    \/ \E r \in Requests : Age(r)
    \/ Restart

Spec == Init /\ [][Next]_vars

\* The client's timers fire: every POST and every polling loop has one.
Fairness ==
    \A c \in Calls : WF_vars(PostFails(c)) /\ WF_vars(Deadline(c))

FairSpec == Spec /\ Fairness

-----------------------------------------------------------------------------
(* Properties.                                                             *)

(* The store: its ids are those with a record, each once, and no more than *)
(* its limit (execution.py:124-125).                                       *)
StoreOK ==
    /\ order \in Seq(Requests)
    /\ Len(order) <= MaxRecords
    /\ \A i, j \in 1 .. Len(order) : order[i] = order[j] => i = j
    /\ \A r \in Requests : Live(r) <=> \E i \in 1 .. Len(order) : order[i] = r

TypeOK ==
    /\ pc \in [Calls -> {"idle", "posted", "polling", "done"}]
    /\ wire \in [Calls -> {"none", "request", "handled"} \union Dispositions]
    /\ view \in [Calls -> {"none", "pending", "delivered", "no_output", "failed"}]
    /\ seen \in [Calls -> BOOLEAN]
    /\ result \in [Calls -> Results]
    /\ handling \in [Calls -> {"none", "duplicate", "preparing", "accepted",
                               "running", "lost"} \union Terminal]
    /\ sends \in [Calls -> [going : Nat, started : Nat, confirmed : Nat]]
    /\ records \in [Requests -> Records]
    /\ forgotten \subseteq Requests
    /\ restarts \in 0 .. MaxRestarts
    /\ StoreOK

(* However often a chat message is handled, and however the calls race on  *)
(* the server, its command is queued once, unless the store has dropped    *)
(* the request's record in between (execution.py:108-142).                 *)
QueuedOnce ==
    \A c, d \in Calls :
        /\ Queued(c)
        /\ Queued(d)
        /\ RequestOf[c] = RequestOf[d]
        /\ RequestOf[c] \notin forgotten
        => c = d

(* What the model is told was refused (executed False, not uncertain) has  *)
(* not been queued by any call of the request, and will not be             *)
(* (gscore_adapter.py:471-480).                                            *)
RefusalIsFinal ==
    \A c, d \in Calls :
        /\ result[c] = "rejected"
        /\ RequestOf[d] = RequestOf[c]
        /\ RequestOf[c] \notin forgotten
        => ~Queued(d)

(* What the model is told of an execution is so: delivered if a message of *)
(* it was confirmed, done without output if it has ended well, failed if   *)
(* it has failed or was refused (gscore_adapter.py:520-563).               *)
OutcomeIsTrue ==
    \A c \in Calls : RequestOf[c] \notin forgotten =>
        LET OfRequest == {d \in Calls : RequestOf[d] = RequestOf[c]} IN
        /\ result[c] = "delivered" => \E d \in OfRequest : sends[d].confirmed > 0
        /\ result[c] = "no_output" =>
              \E d \in OfRequest : handling[d] = "succeeded"
        /\ result[c] = "failed" =>
              /\ \E d \in OfRequest : handling[d] \in {"failed", "rejected"}
              /\ \A d \in OfRequest : handling[d] \notin
                     {"preparing", "accepted", "running", "succeeded"}

(* The receipt agrees with the messages of the execution, sent one after   *)
(* another or at once, before and after its end (execution.py:188-217).    *)
ReceiptIsTrue ==
    \A c \in Calls : Queued(c) /\ RequestOf[c] \notin forgotten =>
        LET delivery == records[RequestOf[c]].delivery IN
        /\ delivery = "pending" <=> sends[c].going > 0
        /\ delivery = "observed" <=> /\ sends[c].going = 0
                                     /\ sends[c].started > 0
                                     /\ sends[c].confirmed = sends[c].started
        /\ delivery \in {"no_output", "not_attempted"} <=> sends[c].started = 0

(* A request that has come to its end stays there: no late handler, task   *)
(* or cancellation rewrites the state or the recorded answer               *)
(* (service.py:672-675, execution.py:148-185).                             *)
TerminalIsFinal ==
    [][\A r \in Requests :
          records[r].state \in Terminal /\ r \notin forgotten'
          => /\ records'[r].state = records[r].state
             /\ records'[r].response = records[r].response]_vars

(* A posted call returns, whatever the server does (gscore_adapter.py:492- *)
(* 497).                                                                   *)
EveryCallReturns == \A c \in Calls : pc[c] = "posted" ~> pc[c] = "done"

=============================================================================
