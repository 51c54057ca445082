--------------------------- MODULE HistorySummary ---------------------------
(***************************************************************************)
(* The history of a conversation and its cumulative summary                *)
(* (history_policy.py, foreground_activity.py, models/chat_history.py).    *)
(*                                                                         *)
(* A turn reads the newest rows of its session, stages the ones it leaves  *)
(* out of its prompt as a job, and answers.  When no model request of a    *)
(* turn is active, a schedule coroutine turns the job into a request that  *)
(* extends the summary by the rows after its cursor; rows under the cursor *)
(* may be pruned.  A reset marks the rows and forgets everything else.     *)
(*                                                                         *)
(* A row is its id; a summary is the set of the rows it tells of and its   *)
(* cursor.  Which of the rows it read a turn keeps in full is a matter of  *)
(* token budgets and boundaries: any newest part.  While jobs hold rows    *)
(* back, a cached projection cuts what the prompt shows of both once more. *)
(***************************************************************************)
EXTENDS Integers, FiniteSets, FiniteSetsExt

CONSTANTS
    Sessions,
    Requests,       \* names for summary requests, used again
    None,
    Window,         \* rows a turn reads (fetch_limit)
    Batch,          \* rows that make a job ready
    HistoryLimit,   \* rows prune_old_dialogs leaves
    FailureLimit,   \* failures after which a session cools down
    MaxDialogs,     \* bound on rows
    MaxFaults       \* bound on resets, crashes and lost cancellations together; one of each

ASSUME BoundsArePositive == {Window, Batch, HistoryLimit, FailureLimit} \subseteq Nat \ {0}
ASSUME BoundsAreNumbers == {MaxDialogs, MaxFaults} \subseteq Nat
ASSUME NoneIsNoRequest == None \notin Requests
ASSUME NoneIsNoSession == None \notin Sessions

VARIABLES
    rows,       \* rows of each session that are not reset
    file,       \* the summary file of each session
    pending,    \* _summary_pending_jobs
    running,    \* _summary_running_jobs, as the request that has the job
    task,       \* _summary_tasks
    active,     \* _summary_active_request
    epoch,      \* _summary_epochs; 0 when there is none
    coro,       \* schedule coroutines: the registered one, and one that has outlived its
                \* cancellation
    req,        \* the requests
    turn,       \* the turn of each session that is being processed
    background, \* a model request of an Agent run that no message started
    strikes,    \* _summary_failure_state: failures
    cooling,    \* _summary_failure_state: blocked_until has not passed
    resetting,  \* sessions whose reset has marked its rows, but no more than that
    old,        \* history: rows that were reset
    pruned,     \* history: rows deleted since the last reset
    waived,     \* history: rows that were there when their session was last reset
    missing,    \* history: rows a prompt left out though no summary will tell of them
    tainted,    \* history: sessions whose last reset met a turn, a crash or a file error
    hushed,     \* history: sessions whose job waits for the next turn
    used        \* last row and epoch; which faults there have been

dbVars == <<rows, file, old, pruned, waived>>
jobVars == <<pending, running, task, active, epoch, coro, req>>
failVars == <<strikes, cooling>>
vars == <<dbVars, jobVars, failVars, turn, background, resetting, missing, tainted, hushed, used>>

NoSummary == [text |-> {}, through |-> 0]
NoJob == [turns |-> {}, epoch |-> 0]
NoCoro == [step |-> "none", epoch |-> 0, base |-> NoSummary, turns |-> {}]
NoReq == [step |-> "free", session |-> None, epoch |-> 0, base |-> NoSummary, turns |-> {},
          cancelled |-> FALSE]
NoTurn == [step |-> "idle", seen |-> {}, cursor |-> 0]

Ids == 1..MaxDialogs
Own(s) == <<s, "own">>
Stray(s) == <<s, "stray">>
Coros == Sessions \X {"own", "stray"}

\* foreground_llm_active
Foreground == background \/ \E s \in Sessions : turn[s].step = "asking"

\* _history_summary_job_is_ready, of the rows of a job
Ready(turns) == Cardinality(turns) >= Batch

Newest(n, ids) == {d \in ids : Cardinality({e \in ids : e > d}) < n}
Oldest(n, ids) == {d \in ids : Cardinality({e \in ids : e < d}) < n}

May(fault) == fault \notin used.faults /\ Cardinality(used.faults) < MaxFaults
Fault(fault) == [used EXCEPT !.faults = @ \union {fault}]

(***************************************************************************)
(* Starting and cancelling schedule coroutines                             *)
(***************************************************************************)
\* Mutant: a session waits for the request of any other.
StartableAlone(s, own, cool) ==
    active = None /\ own = NoCoro /\ Ready(pending[s].turns) /\ epoch[s] = pending[s].epoch /\ ~cool

\* start_history_summary_job, of a session with the coroutine that is registered for it.
Startable(s, own, cool) ==
    /\ task[s] = None
    /\ own = NoCoro
    /\ Ready(pending[s].turns)
    /\ epoch[s] = pending[s].epoch
    /\ ~cool

Sleeping(s) == [NoCoro EXCEPT !.step = "sleeping", !.epoch = pending[s].epoch]

\* schedule_pending_history_summary_jobs, with the coroutines c and that foreground.
Scheduled(c, fg) ==
    [k \in Coros |->
        IF ~fg /\ k[2] = "own" /\ Startable(k[1], c[k], cooling[k[1]])
        THEN Sleeping(k[1]) ELSE c[k]]

\* The rows after the cursor, as many as the budget allows; none if the database fails.
Loadable(k) == {d \in rows[k[1]] : d > coro[k].base.through}

\* Mutant: the pending job is summarised instead of the rows after the cursor.
LoadedPending(k) == {pending[k[1]].turns}

\* _load_durable_history_summary_job
LoadedRows(k) == {Oldest(n, Loadable(k)) : n \in 0..Cardinality(Loadable(k))}

\* cancel_history_summary_schedule.  A cancellation that meets an answer of the database
\* may be lost (asyncio.wait_for), and the coroutine goes on unregistered with that answer.
Cancel(s) ==
    LET own == coro[Own(s)]
        read == CASE own.step = "loaded" -> {own.turns}
                  [] own.step = "loading" -> LoadedRows(Own(s)) \ {{}}
                  [] OTHER -> {}
    IN \/ /\ coro' = [coro EXCEPT ![Own(s)] = NoCoro]
          /\ UNCHANGED used
       \/ /\ May("lost")
          /\ used' = Fault("lost")
          /\ \E turns \in read :
                coro' = [coro EXCEPT ![Own(s)] = NoCoro,
                                     ![Stray(s)] = [own EXCEPT !.step = "loaded",
                                                               !.turns = turns]]

\* Sessions whose ready job is turned away for the sake of a background run: no turn follows
\* that would schedule it again.
Hushed(turnedAway) ==
    hushed' = (hushed \union {s \in turnedAway : Ready(pending[s].turns)})
                 \ {s \in Sessions : coro'[Own(s)] # NoCoro}

(***************************************************************************)
(* The turns of a session, one at a time                                   *)
(***************************************************************************)
\* A message arrives: the schedule of its session is cancelled.  It is processed, or joins,
\* follows or replaces what its session is busy with.
Arrives(s) ==
    /\ Cancel(s)
    /\ turn' = IF turn[s].step = "idle" THEN [turn EXCEPT ![s].step = "arrived"] ELSE turn
    /\ coro' # coro \/ turn' # turn
    /\ UNCHANGED <<dbVars, pending, running, task, active, epoch, req, failVars, background,
                   resetting, missing, tainted, hushed>>

\* get_recent_dialogs; a database error or timeout reads as no rows, and the prompt has none.
Reads(s) ==
    /\ turn[s].step = "arrived"
    /\ \/ /\ rows[s] # {}
          /\ turn' = [turn EXCEPT ![s].step = "read", ![s].seen = Newest(Window, rows[s])]
       \/ turn' = [turn EXCEPT ![s].step = "built"]
    /\ UNCHANGED <<dbVars, jobVars, failVars, background, resetting, missing, tainted, hushed,
                   used>>

\* _stage_history_summary_job: what the pending job, or else the running one, of this epoch
\* has, and the rows left out now.
Base(s) ==
    LET r == running[s]
    IN IF pending[s] # NoJob
       THEN IF pending[s].epoch = epoch[s] THEN pending[s].turns ELSE {}
       ELSE IF r # None /\ req[r].epoch = epoch[s] THEN req[r].turns ELSE {}

NextEpoch(s) == IF epoch[s] = 0 THEN used.epochs + 1 ELSE epoch[s]

\* Mutant: a job that is pending is not extended.
StagedOnce(s, omitted) ==
    IF omitted = {} \/ pending[s] # NoJob THEN pending[s]
    ELSE [turns |-> omitted \union (IF epoch[s] = 0 THEN {} ELSE Base(s)),
          epoch |-> NextEpoch(s)]

Staged(s, omitted) ==
    IF omitted = {} THEN pending[s]
    ELSE [turns |-> omitted \union (IF epoch[s] = 0 THEN {} ELSE Base(s)),
          epoch |-> NextEpoch(s)]

\* _unpersisted_history_summary_turns: what jobs of this epoch still hold back.
Unpersisted(s, job, kept) ==
    LET held == job.turns \union
                   (IF running[s] # None /\ req[running[s]].epoch = epoch[s]
                    THEN req[running[s]].turns ELSE {})
    IN {d \in held : d > file[s].through} \ kept

\* What a prompt shows of the rows kept and the rows held back: all that was kept if nothing
\* is held back; else the token budget, as it is or as a cached projection left it, decides
\* how many of the newest of each are shown, the oldest of them clipped.  The newest row kept
\* always is: the dialogue's budget is never zero, as the group's log leaves it enough.
Projections(kept, held) ==
    IF held = {} THEN {kept}
    ELSE {Newest(m, kept) \union Newest(n, held) :
             m \in 1..Cardinality(kept), n \in 0..Cardinality(held)}

\* What it may cut, as a summary will still tell of it: rows after the cursor, other than the
\* newest one kept, while there are rows held back.
Spared(s, kept, held) ==
    {d \in (kept \union held) \ pruned[s] :
        held # {} /\ d > file[s].through /\ (d \in held \/ \E e \in kept : e > d)}

\* _build_turn_managed_dialog_messages once the rows have been read, with no await.  The
\* projection it caches in the summary file leaves text and cursor as they are.
Builds(s) ==
    /\ turn[s].step = "read"
    /\ turn' = [turn EXCEPT ![s].step = "built", ![s].seen = {}]
    /\ \E n \in 1..Cardinality(turn[s].seen) :
          LET seen == turn[s].seen
              kept == Newest(n, seen)
              omitted == {d \in seen \ kept : d > file[s].through}
              job == Staged(s, omitted)
              held == Unpersisted(s, job, kept)
              forgone == waived[s] \intersect pruned[s]
          IN /\ pending' = [pending EXCEPT ![s] = job]
             /\ epoch' = IF omitted = {} THEN epoch ELSE [epoch EXCEPT ![s] = NextEpoch(s)]
             /\ used' = [used EXCEPT !.epochs = IF epoch'[s] > @ THEN epoch'[s] ELSE @]
             /\ \E shown \in Projections(kept, held) :
                   missing' = missing \union
                      ((seen \union pruned[s])
                          \ (file[s].text \union shown \union Spared(s, kept, held)
                                 \union forgone))
             /\ tainted' = IF seen \intersect old[s] = {} THEN tainted
                           ELSE tainted \union {s}
    /\ UNCHANGED <<dbVars, running, task, active, coro, req, failVars, background, resetting,
                   hushed>>

\* A model request of the turn, which may be followed by another.
Asks(s) ==
    /\ turn[s].step \in {"built", "answered"}
    /\ turn' = [turn EXCEPT ![s].step = "asking"]
    /\ UNCHANGED <<dbVars, jobVars, failVars, background, resetting, missing, tainted, hushed,
                   used>>

Answered(s) ==
    /\ turn[s].step = "asking"
    /\ turn' = [turn EXCEPT ![s].step = "answered"]
    /\ UNCHANGED <<dbVars, jobVars, failVars, background, resetting, missing, tainted, hushed,
                   used>>

\* add_timeline; every so many rows the turn also prunes, up to the cursor as it is now.
Saves(s) ==
    /\ turn[s].step = "answered"
    /\ used.rows < MaxDialogs
    /\ rows' = [rows EXCEPT ![s] = @ \union {used.rows + 1}]
    /\ used' = [used EXCEPT !.rows = @ + 1]
    /\ \E step \in {"saved", "pruning"} :
          turn' = [turn EXCEPT ![s].step = step,
                               ![s].cursor = IF step = "pruning" THEN file[s].through ELSE 0]
    /\ UNCHANGED <<file, old, pruned, waived, jobVars, failVars, background, resetting, missing,
                   tainted, hushed>>

\* prune_old_dialogs: the oldest rows beyond the limit, among those under the cursor.
Prunable(s, cursor) ==
    Oldest(Cardinality(rows[s]) - HistoryLimit, {d \in rows[s] : d <= cursor})

Prune(s, cursor) ==
    LET gone == Prunable(s, cursor)
    IN /\ rows' = [rows EXCEPT ![s] = @ \ gone]
       /\ pruned' = [pruned EXCEPT ![s] = @ \union gone]
       /\ UNCHANGED <<file, old, waived>>

TurnPrunes(s) ==
    /\ turn[s].step = "pruning"
    /\ Prune(s, turn[s].cursor)
    /\ turn' = [turn EXCEPT ![s].step = "saved", ![s].cursor = 0]
    /\ UNCHANGED <<jobVars, failVars, background, resetting, missing, tainted, hushed, used>>

\* The turn is over, at any point if it failed or was cancelled; pending jobs are scheduled.
Ends(s) ==
    /\ turn[s].step # "idle"
    /\ turn' = [turn EXCEPT ![s] = NoTurn]
    /\ coro' = Scheduled(coro, background \/ \E u \in Sessions \ {s} : turn[u].step = "asking")
    /\ Hushed(IF background THEN Sessions ELSE {})
    /\ UNCHANGED <<dbVars, pending, running, task, active, epoch, req, failVars, background,
                   resetting, missing, tainted, used>>

\* A message that the queue does not accept.
Refused(s) ==
    /\ coro' = Scheduled([coro EXCEPT ![Own(s)] = NoCoro], Foreground)
    /\ Hushed(IF background THEN Sessions ELSE {})
    /\ coro' # coro
    /\ UNCHANGED <<dbVars, pending, running, task, active, epoch, req, failVars, turn,
                   background, resetting, missing, tainted, used>>

BackgroundRuns ==
    /\ background' = ~background
    /\ UNCHANGED <<dbVars, jobVars, failVars, turn, resetting, missing, tainted, hushed, used>>

(***************************************************************************)
(* _schedule_history_summary_job                                           *)
(***************************************************************************)
\* The idle delay and the waits for the foreground and for another request are over.  What
\* the job is to start from is read, and the database is asked.
Wakes(s) ==
    LET k == Own(s)
    IN /\ coro[k].step = "sleeping"
       /\ ~Foreground
       /\ active = None
       /\ coro' = [coro EXCEPT ![k] =
                      IF /\ Ready(pending[s].turns)
                         /\ pending[s].epoch = coro[k].epoch
                         /\ epoch[s] = coro[k].epoch
                         /\ ~cooling[s]
                      THEN [@ EXCEPT !.step = "loading", !.base = file[s]]
                      ELSE NoCoro]
       /\ Hushed({s})
       /\ UNCHANGED <<dbVars, pending, running, task, active, epoch, req, failVars, turn,
                      background, resetting, missing, tainted, used>>

Loads(s) ==
    /\ coro[Own(s)].step = "loading"
    /\ \E turns \in LoadedRows(Own(s)) :
          coro' = [coro EXCEPT ![Own(s)] =
                      IF turns = {} THEN NoCoro
                      ELSE [@ EXCEPT !.step = "loaded", !.turns = turns]]
    /\ Hushed({s})
    /\ UNCHANGED <<dbVars, pending, running, task, active, epoch, req, failVars, turn,
                   background, resetting, missing, tainted, used>>

\* The request starts, unless the job is not ready or the foreground is active again.
Launches(k, r) ==
    LET s == k[1]
        c == coro[k]
    IN /\ c.step = "loaded"
       /\ r = CHOOSE q \in Requests : req[q] = NoReq
       /\ req[r] = NoReq
       /\ coro' = [coro EXCEPT ![k] = NoCoro]
       /\ IF Ready(c.turns) /\ ~Foreground
          THEN /\ pending' = [pending EXCEPT ![s] = NoJob]
               /\ running' = [running EXCEPT ![s] = r]
               /\ task' = [task EXCEPT ![s] = r]
               /\ active' = r
               /\ req' = [req EXCEPT ![r] = [step |-> "asking", session |-> s,
                              epoch |-> c.epoch, base |-> c.base, turns |-> c.turns,
                              cancelled |-> FALSE]]
               /\ UNCHANGED hushed
          ELSE /\ Hushed(IF background \/ ~Ready(c.turns) THEN {s} ELSE {})
               /\ UNCHANGED <<pending, running, task, active, req>>
       /\ UNCHANGED <<dbVars, epoch, failVars, turn, background, resetting, missing, tainted,
                      used>>

(***************************************************************************)
(* _run_history_summary_job                                                *)
(***************************************************************************)
Current(r) == epoch[req[r].session] = req[r].epoch

\* A registry after request r has left it; a later request stays.
Unregistered(f, s, r) == [f EXCEPT ![s] = IF @ = r THEN None ELSE @]

\* The finally clause, with what is known of the session's failures by then.
Leaves(r, cool) ==
    LET s == req[r].session
    IN /\ req' = [req EXCEPT ![r] = NoReq]
       /\ task' = Unregistered(task, s, r)
       /\ running' = Unregistered(running, s, r)
       /\ active' = IF active = r THEN None ELSE active
       /\ coro' = IF /\ Current(r) /\ ~Foreground
                     /\ task'[s] = None /\ coro[Own(s)] = NoCoro
                     /\ Ready(pending[s].turns) /\ ~cool
                  THEN [coro EXCEPT ![Own(s)] = Sleeping(s)] ELSE coro
       /\ Hushed(IF background \/ cool \/ ~Current(r) THEN {s} ELSE {})

\* _record_history_summary_failure
Struck(s) ==
    LET n == IF strikes[s] < FailureLimit THEN strikes[s] + 1 ELSE strikes[s]
    IN /\ strikes' = [strikes EXCEPT ![s] = n]
       /\ cooling' = [cooling EXCEPT ![s] = n = FailureLimit]

Extends(r) == req[r].base.text \union req[r].turns

Last(r) == Max(req[r].turns)

\* Mutant: the cursor is not compared when a summary is saved.
SavableOnce(r) == Current(r)

\* Mutant: the epoch is not compared when a summary is saved.
SavableStill(r) == Last(r) > file[req[r].session].through

\* A summary is saved if its epoch and its cursor still count.
Savable(r) == Current(r) /\ Last(r) > file[req[r].session].through

\* The model answers, though not before a read of the database that was under way when it
\* was asked; what the pending job holds beyond the cursor stays.
Extended(r) ==
    LET s == req[r].session
        new == [text |-> Extends(r), through |-> Last(r)]
        left == {d \in pending[s].turns : d > new.through}
    IN /\ req[r].step = "asking"
       /\ Savable(r)
       /\ coro[Own(s)].step # "loading"
       /\ file' = [file EXCEPT ![s] = new]
       /\ strikes' = [strikes EXCEPT ![s] = 0]
       /\ cooling' = [cooling EXCEPT ![s] = FALSE]
       /\ pending' = IF pending[s].epoch # req[r].epoch THEN pending
                     ELSE [pending EXCEPT ![s] = IF left = {} THEN NoJob
                                                 ELSE [@ EXCEPT !.turns = left]]
       /\ req' = [req EXCEPT ![r].step = "pruning"]
       /\ UNCHANGED <<rows, old, pruned, waived, running, task, active, epoch, coro, turn,
                      background, resetting, missing, tainted, hushed, used>>

Outdated(r) ==
    /\ req[r].step = "asking"
    /\ ~Savable(r)
    /\ Leaves(r, cooling[req[r].session])
    /\ UNCHANGED <<dbVars, pending, epoch, failVars, turn, background, resetting, missing,
                   tainted, used>>

\* The model fails, answers nothing, or the file cannot be written.
Fails(r) ==
    LET s == req[r].session
    IN /\ req[r].step = "asking"
       /\ Current(r)
       /\ Struck(s)
       /\ Leaves(r, cooling'[s])
       /\ UNCHANGED <<dbVars, pending, epoch, turn, background, resetting, missing, tainted,
                      used>>

RequestPrunes(r) ==
    LET s == req[r].session
    IN /\ req[r].step = "pruning"
       /\ Prune(s, Last(r)) \/ UNCHANGED dbVars
       /\ Leaves(r, cooling[s])
       /\ UNCHANGED <<pending, epoch, failVars, turn, background, resetting, missing, tainted,
                      used>>

Dies(r) ==
    /\ req[r].cancelled
    /\ Leaves(r, cooling[req[r].session])
    /\ UNCHANGED <<dbVars, pending, epoch, failVars, turn, background, resetting, missing,
                   tainted, used>>

\* Nothing starts a job when its session has cooled down but the next turn.
CoolsDown(s) ==
    /\ cooling[s]
    /\ cooling' = [cooling EXCEPT ![s] = FALSE]
    /\ hushed' = IF coro[Own(s)] = NoCoro /\ task[s] = None
                 THEN hushed \union {s} ELSE hushed
    /\ UNCHANGED <<dbVars, jobVars, strikes, turn, background, resetting, missing, tainted, used>>

(***************************************************************************)
(* reset_session_history: the rows are marked, then all the rest goes      *)
(***************************************************************************)
ResetMarks(s) ==
    /\ s \notin resetting
    /\ May("reset")
    /\ used' = Fault("reset")
    /\ resetting' = resetting \union {s}
    /\ \/ /\ rows' = [rows EXCEPT ![s] = {}]
          /\ old' = [old EXCEPT ![s] = @ \union rows[s] \union pruned[s]]
       \/ UNCHANGED <<rows, old>>
    /\ UNCHANGED <<file, pruned, waived, jobVars, failVars, turn, background, missing, tainted,
                   hushed>>

\* _discard_history_summary_jobs
Discards(s) ==
    LET r == task[s]
    IN /\ Cancel(s)
       /\ epoch' = [epoch EXCEPT ![s] = 0]
       /\ pending' = [pending EXCEPT ![s] = NoJob]
       /\ running' = [running EXCEPT ![s] = None]
       /\ task' = [task EXCEPT ![s] = None]
       /\ req' = IF r = None THEN req ELSE [req EXCEPT ![r].cancelled = TRUE]
       /\ UNCHANGED active

\* reset_history_policy_state; a file that cannot be removed stays, and nobody is told.
ResetForgets(s) ==
    /\ s \in resetting
    /\ resetting' = resetting \ {s}
    /\ Discards(s)
    /\ strikes' = [strikes EXCEPT ![s] = 0]
    /\ cooling' = [cooling EXCEPT ![s] = FALSE]
    /\ \/ /\ file' = [file EXCEPT ![s] = NoSummary]
          /\ tainted' = tainted \ {s}
       \/ /\ file[s] # NoSummary
          /\ UNCHANGED file
          /\ tainted' = tainted \union {s}
    /\ pruned' = [pruned EXCEPT ![s] = {}]
    /\ waived' = [waived EXCEPT ![s] = rows[s]]
    /\ hushed' = hushed \ {s}
    /\ UNCHANGED <<rows, old, turn, background, missing>>

(***************************************************************************)
(* The process                                                             *)
(***************************************************************************)
Forgotten ==
    /\ pending' = [s \in Sessions |-> NoJob]
    /\ running' = [s \in Sessions |-> None]
    /\ task' = [s \in Sessions |-> None]
    /\ active' = None
    /\ epoch' = [s \in Sessions |-> 0]
    /\ coro' = [k \in Coros |-> NoCoro]
    /\ req' = [r \in Requests |-> NoReq]
    /\ turn' = [s \in Sessions |-> NoTurn]
    /\ background' = FALSE
    /\ strikes' = [s \in Sessions |-> 0]
    /\ cooling' = [s \in Sessions |-> FALSE]
    /\ resetting' = {}
    /\ hushed' = {}

\* The rows and the files stay.
Crash ==
    /\ May("crash")
    /\ used' = Fault("crash")
    /\ Forgotten
    /\ tainted' = tainted \union resetting
    /\ UNCHANGED <<dbVars, missing>>

Init ==
    /\ rows = [s \in Sessions |-> {}]
    /\ file = [s \in Sessions |-> NoSummary]
    /\ old = [s \in Sessions |-> {}]
    /\ pruned = [s \in Sessions |-> {}]
    /\ waived = [s \in Sessions |-> {}]
    /\ pending = [s \in Sessions |-> NoJob]
    /\ running = [s \in Sessions |-> None]
    /\ task = [s \in Sessions |-> None]
    /\ active = None
    /\ epoch = [s \in Sessions |-> 0]
    /\ coro = [k \in Coros |-> NoCoro]
    /\ req = [r \in Requests |-> NoReq]
    /\ turn = [s \in Sessions |-> NoTurn]
    /\ background = FALSE
    /\ strikes = [s \in Sessions |-> 0]
    /\ cooling = [s \in Sessions |-> FALSE]
    /\ resetting = {}
    /\ missing = {} /\ tainted = {} /\ hushed = {}
    /\ used = [rows |-> 0, epochs |-> 0, faults |-> {}]

Next ==
    \/ \E s \in Sessions : \/ Arrives(s) \/ Reads(s) \/ Builds(s) \/ Asks(s) \/ Answered(s)
                          \/ Saves(s) \/ TurnPrunes(s) \/ Ends(s) \/ Refused(s)
                          \/ Wakes(s) \/ Loads(s) \/ CoolsDown(s) \/ ResetMarks(s) \/ ResetForgets(s)
    \/ \E k \in Coros, r \in Requests : Launches(k, r)
    \/ \E r \in Requests : \/ Extended(r) \/ Outdated(r) \/ Fails(r) \/ RequestPrunes(r)
                          \/ Dies(r)
    \/ BackgroundRuns \/ Crash

Spec == Init /\ [][Next]_vars

(***************************************************************************)
(* Properties                                                              *)
(***************************************************************************)
Job == [turns : SUBSET Ids, epoch : Nat]
Summary == [text : SUBSET Ids, through : 0..MaxDialogs]

TypeOK ==
    /\ rows \in [Sessions -> SUBSET Ids]
    /\ file \in [Sessions -> Summary]
    /\ pending \in [Sessions -> Job]
    /\ running \in [Sessions -> Requests \union {None}]
    /\ task \in [Sessions -> Requests \union {None}]
    /\ \A s \in Sessions : {task[s], running[s]} \subseteq
                             {r \in Requests : req[r].session = s} \union {None}
    /\ active \in Requests \union {None}
    /\ epoch \in [Sessions -> Nat]
    /\ coro \in [Coros -> [step : {"none", "sleeping", "loading", "loaded"}, epoch : Nat,
                           base : Summary, turns : SUBSET Ids]]
    /\ req \in [Requests -> [step : {"free", "asking", "pruning"},
                             session : Sessions \union {None}, epoch : Nat, base : Summary,
                             turns : SUBSET Ids, cancelled : BOOLEAN]]
    /\ turn \in [Sessions -> [step : {"idle", "arrived", "read", "built", "asking", "answered",
                                      "pruning", "saved"},
                              seen : SUBSET Ids, cursor : 0..MaxDialogs]]
    /\ strikes \in [Sessions -> 0..FailureLimit]

\* The summary skips no row: what its cursor has passed, and what was deleted because of
\* that, it tells of.  Rows are read, summarised, saved and deleted in steps that await
\* between them, by requests and turns; what a user wanted reset may go untold.
NothingSkipped ==
    \A s \in Sessions \ resetting :
        ({d \in rows[s] : d <= file[s].through} \union (pruned[s] \ waived[s]))
            \subseteq file[s].text

\* No row falls between the prompt, the summary and the jobs.  A prompt tells, in full or by
\* the summary, of every row its turn read and of every row deleted before.  Only while jobs
\* hold rows back may its projection leave some out: rows after the summary's cursor, which a
\* job holds or the turn has kept, so that a summary will still tell of them, and never the
\* newest.  What was reset while the turn read, or could not be read, is beyond this.
PromptSkipsNothing == missing = {}

\* Once a reset is through, no summary, and no job from which prompts are filled, has a row
\* from before it, whatever requests were under way; unless a turn had read its rows before
\* the reset, the file could not be removed, or a crash fell between the two halves.
ResetIsFinal ==
    \A s \in Sessions \ (resetting \union tainted) :
        (file[s].text \union pending[s].turns \union
            (IF running[s] # None /\ req[running[s]].epoch = epoch[s]
             THEN req[running[s]].turns ELSE {})) \intersect old[s] = {}

\* When no turn is in progress and nothing is active, a job that is ready has a coroutine or
\* a request that will see to it: whoever turned it away schedules it again.  Jobs in hushed
\* are exempt, as nothing but the next turn schedules them: one whose rows the database did
\* not give, or gave too few of, when they were loaded; one whose session has cooled down;
\* one turned away while a run that no message started was active, or at the end of a request
\* that failed for good or was outdated by a reset.
NoJobStranded ==
    (\A s \in Sessions : turn[s].step = "idle") /\ ~background =>
        \A s \in Sessions \ hushed :
            Ready(pending[s].turns) /\ ~cooling[s] =>
                \/ coro[Own(s)] # NoCoro \/ task[s] # None
                \/ \E r \in Requests : req[r].session = s /\ Current(r)

\* Two requests of one session may be under way, one of a coroutine that has outlived its
\* cancellation: the summary only ever grows, but for a reset.
SummaryGrows ==
    [][\A s \in Sessions \ resetting :
          file'[s] # file[s] => /\ file[s].text \subseteq file'[s].text \union waived[s]
                                /\ file[s].through < file'[s].through]_vars

=============================================================================
