------------------------ MODULE HistorySummary_proofs ------------------------
(***************************************************************************)
(* Proofs about the history of conversations and its summaries, for any    *)
(* sessions, requests and bounds: the summary skips no row, none falls     *)
(* between a prompt, the summary and the jobs, the summary only grows, and *)
(* nothing comes back after a reset.                                       *)
(***************************************************************************)
EXTENDS HistorySummary, TLAPS, FiniteSetTheorems, WellFoundedInduction

(***************************************************************************)
(* The inductive invariant                                                 *)
(***************************************************************************)
CoroRec == [step : {"none", "sleeping", "loading", "loaded"}, epoch : Nat,
            base : Summary, turns : SUBSET Ids]
ReqRec == [step : {"free", "asking", "pruning"}, session : Sessions \union {None},
           epoch : Nat, base : Summary, turns : SUBSET Ids, cancelled : BOOLEAN]
TurnRec == [step : {"idle", "arrived", "read", "built", "asking", "answered", "pruning",
                    "saved"},
            seen : SUBSET Ids, cursor : 0..MaxDialogs]

TableTyped ==
    /\ rows \in [Sessions -> SUBSET Ids] /\ old \in [Sessions -> SUBSET Ids]
    /\ pruned \in [Sessions -> SUBSET Ids] /\ waived \in [Sessions -> SUBSET Ids]
    /\ file \in [Sessions -> Summary]
UsedTyped == used \in [rows : 0..MaxDialogs, epochs : Nat, faults : SUBSET {"lost", "reset", "crash"}]
HolderTyped ==
    /\ coro \in [Coros -> CoroRec]
    /\ req \in [Requests -> ReqRec]
    /\ \A r \in Requests : req[r].cancelled => req[r].step # "free"
JobTyped ==
    /\ pending \in [Sessions -> Job]
    /\ epoch \in [Sessions -> Nat]
    /\ running \in [Sessions -> Requests \union {None}]
    /\ task \in [Sessions -> Requests \union {None}]
    /\ active \in Requests \union {None}
TurnTyped == turn \in [Sessions -> TurnRec]
FailTyped == strikes \in [Sessions -> 0..FailureLimit]
\* The request a session's registries name is one of that session that is under way.
Registered ==
    \A s \in Sessions :
        {task[s], running[s]} \subseteq
            {r \in Requests : req[r].session = s /\ req[r].step # "free"} \union {None}

HistoryTyped ==
    /\ TableTyped /\ UsedTyped /\ HolderTyped /\ JobTyped /\ TurnTyped /\ FailTyped
    /\ Registered

\* Rows the summary must tell of once its cursor has passed them.
Owed(s) == rows[s] \union (pruned[s] \ waived[s])
\* Rows that have been there since the last reset.
Known(s) == rows[s] \union pruned[s] \union waived[s]

\* What a holder (a loaded coroutine or a request) has in hand: rows to add to the summary it
\* started from.  It skips none of the rows before the last one.
Solid(s, e, base, turns) ==
    /\ turns # {} /\ turns \subseteq 1..used.rows
    /\ e \in 1..used.epochs
    /\ \A d \in base.text : d <= Max(turns)
    /\ \A d \in Owed(s) : d <= Max(turns) => d \in base.text \union turns
\* Nor any that the turn under way has read.
ShowsSeen(s, base, turns) ==
    \A d \in turn[s].seen :
        d <= Max(turns) => d \in base.text \union turns \union (pruned[s] \intersect waived[s])
\* The summary it started from and the one on disk differ in rows of the table only.
Akin(s, base, turns) ==
    /\ file[s].text \subseteq base.text \union Known(s)
    /\ base.text \subseteq file[s].text \union Known(s)
    /\ turns \subseteq Known(s)
Fresh(s, base, turns) == (base.text \union turns) \intersect old[s] = {}

Held(s, e, base, turns) ==
    /\ Solid(s, e, base, turns)
    /\ epoch[s] = e => /\ ShowsSeen(s, base, turns)
                       /\ s \notin resetting => Akin(s, base, turns)
                       /\ s \notin resetting \union tainted => Fresh(s, base, turns)

\* Rows up to n may be deleted.
Told(s, n) == \A d \in rows[s] : d <= n => d \in file[s].text \union waived[s]

CoroHolds(k) ==
    /\ coro[k].step = "loading" => /\ k[2] = "own"
                                   /\ coro[k].base = file[k[1]]
                                   /\ coro[k].epoch \in 1..used.epochs
    /\ coro[k].step = "loaded" =>
          Held(k[1], coro[k].epoch, coro[k].base, coro[k].turns)
ReqHolds(r) ==
    /\ req[r].step # "free" =>
          /\ req[r].session \in Sessions
          /\ Held(req[r].session, req[r].epoch, req[r].base, req[r].turns)
    /\ req[r].step = "pruning" => Told(req[r].session, Max(req[r].turns))
Holders ==
    /\ \A k \in Coros : CoroHolds(k)
    /\ \A r \in Requests : ReqHolds(r)

\* The summary on disk, and the rows.
Tells(s) ==
    /\ rows[s] \union pruned[s] \union old[s] \subseteq 1..used.rows
    /\ file[s].through <= used.rows
    /\ \A d \in file[s].text : d <= file[s].through
    /\ \A d \in Owed(s) : d <= file[s].through => d \in file[s].text
    /\ pruned[s] \ waived[s] \subseteq file[s].text
    /\ rows[s] \intersect old[s] = {}
    /\ s \notin resetting \union tainted => file[s].text \intersect old[s] = {}
\* The turn under way.
Reading(s) ==
    /\ turn[s].cursor <= used.rows /\ Told(s, turn[s].cursor)
    /\ \A d \in turn[s].seen : d <= file[s].through =>
           d \in file[s].text \union (pruned[s] \intersect waived[s])
    /\ turn[s].seen # {} =>
           /\ turn[s].step = "read"
           /\ \/ turn[s].seen \subseteq rows[s] \union pruned[s]
              \/ rows[s] = {}
              \/ pending[s] = NoJob /\ coro[Own(s)] = NoCoro
\* The pending job and the epoch.
Pends(s) ==
    /\ epoch[s] <= used.epochs
    /\ pending[s].turns # {} => pending[s].epoch \in 1..used.epochs
    /\ s \notin resetting \union tainted => pending[s].turns \intersect old[s] = {}
\* There is one reset.
ResetOnce ==
    /\ resetting \subseteq Sessions
    /\ "reset" \notin used.faults => resetting = {} /\ \A s \in Sessions : waived[s] = {}
    /\ \A s \in resetting : waived[s] = {}

Sound == \A s \in Sessions : Tells(s) /\ Reading(s) /\ Pends(s)

HistoryInv == HistoryTyped /\ Sound /\ Holders /\ ResetOnce /\ missing = {}

(***************************************************************************)
(* Sets of ids                                                             *)
(***************************************************************************)
\* A set of numbers with no greatest element would have no least part above one of them.
LEMMA MaxExists ==
    ASSUME NEW N \in Nat, NEW S \in SUBSET (1..N), S # {}
    PROVE  Max(S) \in S /\ \A y \in S : Max(S) >= y
<1> DEFINE Above(x) == {y \in S : y > x}
           R == StrictSubsetOrdering(S)
           T == {Above(x) : x \in S}
<1>1. IsFiniteSet(S)
  <2>1. IsFiniteSet(1..N) BY FS_Interval
  <2> QED BY <2>1, FS_Subset
<1>2. IsWellFoundedOn(R, FiniteSubsetsOf(S)) BY FS_StrictSubsetOrderingWellFounded
<1>3. T # {} /\ T \subseteq FiniteSubsetsOf(S)
  <2>1. FiniteSubsetsOf(S) = SUBSET S BY <1>1, FS_FiniteSubsetsOfFinite
  <2>2. \A x \in S : Above(x) \in SUBSET S OBVIOUS
  <2> HIDE DEF Above
  <2>3. T # {} /\ T \subseteq SUBSET S BY <2>2
  <2> QED BY <2>1, <2>3
<1> HIDE DEF R, T
<1>4. PICK m \in T : \A n \in T : ~(<<n, m>> \in R)
  BY <1>2, <1>3, WFMin
<1> USE DEF T
<1>5. PICK x \in S : m = Above(x) BY <1>4
<1>6. \A y \in S : x >= y
  <2>1. SUFFICES ASSUME NEW y \in S, ~(x >= y) PROVE FALSE OBVIOUS
  <2>2. y > x /\ x \in Nat /\ y \in Nat BY <2>1
  <2>3. \A z \in S : z \in Nat /\ (z > y => z > x) BY <2>2
  <2>4. Above(y) \subseteq Above(x) BY <2>3
  <2>5. y \in Above(x) /\ y \notin Above(y) BY <2>2
  <2> HIDE DEF Above
  <2>6. Above(y) \in T OBVIOUS
  <2>7. <<Above(y), Above(x)>> \in R
    <3>1. Above(x) \subseteq S BY DEF Above
    <3> QED BY <2>4, <2>5, <3>1 DEF R, StrictSubsetOrdering
  <2> QED BY <2>6, <2>7, <1>4, <1>5
<1> QED BY <1>6 DEF Max

LEMMA LastRow ==
    ASSUME NEW turns \in SUBSET Ids, turns # {}
    PROVE  /\ Max(turns) \in turns /\ Max(turns) \in 1..MaxDialogs
           /\ \A d \in turns : d <= Max(turns)
<1>1. MaxDialogs \in Nat BY BoundsAreNumbers
<1>2. Max(turns) \in turns /\ \A d \in turns : Max(turns) >= d
  BY <1>1, MaxExists DEF Ids
<1>3. \A d \in turns : d \in 1..MaxDialogs BY DEF Ids
<1> QED BY <1>1, <1>2, <1>3

LEMMA IdsAreFinite ==
    ASSUME NEW S \in SUBSET Ids
    PROVE  IsFiniteSet(S) /\ Cardinality(S) \in Nat
<1>1. IsFiniteSet(1..MaxDialogs) BY BoundsAreNumbers, FS_Interval
<1>2. IsFiniteSet(S) BY <1>1, FS_Subset DEF Ids
<1> QED BY <1>2, FS_CardinalityType

\* A job that is ready has rows.
LEMMA ReadyHasRows ==
    ASSUME NEW turns, Ready(turns)
    PROVE  turns # {}
BY FS_EmptySet, BoundsArePositive DEF Ready

\* With a row, the oldest rows have all rows before it.
LEMMA OldestIsClosed ==
    ASSUME NEW S \in SUBSET Ids, NEW n \in Int, NEW d \in Oldest(n, S), NEW e \in S, e < d
    PROVE  e \in Oldest(n, S)
<1> DEFINE D == {x \in S : x < d}
           E == {x \in S : x < e}
<1>1. E \subseteq D
  <2>1. \A x \in S : x \in Nat BY BoundsAreNumbers DEF Ids
  <2> QED BY <2>1 DEF Oldest
<1>2. D \in SUBSET Ids /\ E \in SUBSET Ids OBVIOUS
<1>3. Cardinality(E) <= Cardinality(D) BY <1>1, <1>2, IdsAreFinite, FS_Subset
<1>4. Cardinality(D) \in Nat /\ Cardinality(E) \in Nat BY <1>2, IdsAreFinite
<1>5. Cardinality(D) < n BY DEF Oldest
<1>6. Cardinality(E) < n BY <1>3, <1>4, <1>5
<1> QED BY <1>6 DEF Oldest

LEMMA PartsOfRows ==
    ASSUME NEW S, NEW n
    PROVE  Oldest(n, S) \subseteq S /\ Newest(n, S) \subseteq S
BY DEF Oldest, Newest

LEMMA CoroNames ==
    /\ \A s \in Sessions : /\ Own(s) \in Coros /\ Own(s)[1] = s /\ Own(s)[2] = "own"
                           /\ Stray(s) \in Coros /\ Stray(s)[1] = s /\ Stray(s)[2] = "stray"
                           /\ \A k \in Coros : k[2] = "own" => k # Stray(s)
    /\ \A k \in Coros : k[1] \in Sessions /\ (k[2] = "own" => k = Own(k[1]))
    /\ \A s, u : Own(s) = Own(u) => s = u
BY DEF Coros, Own, Stray

LEMMA Empties ==
    /\ NoSummary \in Summary /\ NoSummary.text = {} /\ NoSummary.through = 0
    /\ NoJob \in Job /\ NoJob.turns = {} /\ NoJob.epoch = 0
    /\ NoCoro \in CoroRec /\ NoCoro.step = "none"
    /\ NoReq \in ReqRec /\ NoReq.step = "free" /\ NoReq.turns = {} /\ ~NoReq.cancelled
    /\ NoTurn \in TurnRec /\ NoTurn.seen = {} /\ NoTurn.cursor = 0 /\ NoTurn.step = "idle"
<1>1. NoSummary \in Summary /\ NoSummary.text = {} /\ NoSummary.through = 0
  BY BoundsAreNumbers DEF NoSummary, Summary
<1>2. NoJob \in Job /\ NoJob.turns = {} /\ NoJob.epoch = 0
  BY DEF NoJob, Job
<1>3. NoCoro \in CoroRec /\ NoCoro.step = "none"
  BY <1>1 DEF NoCoro, CoroRec
<1>4. NoReq \in ReqRec /\ NoReq.step = "free" /\ NoReq.turns = {} /\ ~NoReq.cancelled
  BY <1>1 DEF NoReq, ReqRec
<1>5. NoTurn \in TurnRec /\ NoTurn.seen = {} /\ NoTurn.cursor = 0 /\ NoTurn.step = "idle"
  BY BoundsAreNumbers DEF NoTurn, TurnRec
<1> QED BY <1>1, <1>2, <1>3, <1>4, <1>5

(***************************************************************************)
(* Fields                                                                  *)
(***************************************************************************)
LEMMA TableFields ==
    ASSUME HistoryTyped, NEW s \in Sessions
    PROVE  /\ rows[s] \subseteq Ids /\ old[s] \subseteq Ids /\ pruned[s] \subseteq Ids
           /\ waived[s] \subseteq Ids
           /\ file[s] \in Summary /\ file[s].text \subseteq Ids
           /\ file[s].through \in 0..MaxDialogs
           /\ used.rows \in 0..MaxDialogs /\ used.epochs \in Nat
           /\ epoch[s] \in Nat
           /\ pending[s] \in Job /\ pending[s].turns \subseteq Ids /\ pending[s].epoch \in Nat
           /\ turn[s] \in TurnRec /\ turn[s].seen \subseteq Ids /\ turn[s].cursor \in 0..MaxDialogs
BY DEF HistoryTyped, TableTyped, UsedTyped, JobTyped, TurnTyped, Summary, Job, TurnRec

LEMMA CoroFields ==
    ASSUME HistoryTyped, NEW k \in Coros
    PROVE  /\ coro[k] \in CoroRec /\ coro[k].epoch \in Nat
           /\ coro[k].base \in Summary /\ coro[k].base.text \subseteq Ids
           /\ coro[k].base.through \in 0..MaxDialogs
           /\ coro[k].turns \in SUBSET Ids
BY DEF HistoryTyped, HolderTyped, CoroRec, Summary

LEMMA ReqFields ==
    ASSUME HistoryTyped, NEW r \in Requests
    PROVE  /\ req[r] \in ReqRec /\ req[r].epoch \in Nat
           /\ req[r].step \in {"free", "asking", "pruning"}
           /\ req[r].base \in Summary /\ req[r].base.text \subseteq Ids
           /\ req[r].turns \in SUBSET Ids /\ req[r].cancelled \in BOOLEAN
BY DEF HistoryTyped, HolderTyped, ReqRec, Summary

LEMMA HeldTyped ==
    ASSUME HistoryTyped, NEW s \in Sessions, NEW e, NEW base \in Summary,
           NEW turns \in SUBSET Ids, Solid(s, e, base, turns)
    PROVE  /\ Max(turns) \in turns /\ Max(turns) \in Nat /\ Max(turns) <= used.rows
           /\ \A d \in turns : d <= Max(turns)
           /\ used.rows \in Nat /\ used.epochs \in Nat
<1>1. used.rows \in Nat /\ used.epochs \in Nat
  BY BoundsAreNumbers DEF HistoryTyped, UsedTyped
<1>2. turns # {} /\ turns \subseteq 1..used.rows BY DEF Solid
<1>3. Max(turns) \in turns /\ Max(turns) \in 1..MaxDialogs /\ \A d \in turns : d <= Max(turns)
  BY <1>2, LastRow
<1>4. Max(turns) \in 1..used.rows BY <1>2, <1>3
<1> QED BY <1>1, <1>3, <1>4

(***************************************************************************)
(* What is held stays good                                                 *)
(***************************************************************************)
\* The rows, the files and the resets are as they were, no turn has read anything new, and
\* epochs are the same or new.
Quiet ==
    /\ UNCHANGED <<dbVars, resetting>>
    /\ used'.rows = used.rows
    /\ used'.epochs \in Nat /\ used.epochs <= used'.epochs
    /\ \A s \in Sessions : epoch'[s] = epoch[s] \/ epoch'[s] > used.epochs
    /\ \A s \in Sessions : turn'[s].seen \subseteq turn[s].seen
    /\ tainted \subseteq tainted'

LEMMA HeldQuiet ==
    ASSUME HistoryTyped, Quiet, NEW s \in Sessions, NEW e, NEW base \in Summary,
           NEW turns \in SUBSET Ids, Held(s, e, base, turns)
    PROVE  Held(s, e, base, turns)'
<1>1. Solid(s, e, base, turns) BY DEF Held
<1>2. used.epochs \in Nat BY DEF HistoryTyped, UsedTyped
<1>3. e \in 1..used.epochs BY <1>1 DEF Solid
<1>4. Solid(s, e, base, turns)'
  BY <1>1, <1>2, <1>3 DEF Solid, Owed, Quiet, dbVars
<1>5. ASSUME epoch'[s] = e
      PROVE  /\ ShowsSeen(s, base, turns)'
             /\ s \notin resetting' => Akin(s, base, turns)'
             /\ s \notin resetting' \union tainted' => Fresh(s, base, turns)'
  <2>1. epoch[s] = e BY <1>2, <1>3, <1>5 DEF Quiet
  <2>2. ShowsSeen(s, base, turns)' BY <2>1 DEF Held, ShowsSeen, Quiet, dbVars
  <2>3. s \notin resetting' => Akin(s, base, turns)'
    BY <2>1 DEF Held, Akin, Known, Quiet, dbVars
  <2>4. s \notin resetting' \union tainted' => Fresh(s, base, turns)'
    BY <2>1 DEF Held, Fresh, Quiet, dbVars
  <2> QED BY <2>2, <2>3, <2>4
<1> QED BY <1>4, <1>5 DEF Held

\* A row is saved: its id is new.
LEMMA HeldSaves ==
    ASSUME HistoryTyped, NEW u \in Sessions, Saves(u), NEW s \in Sessions, NEW e,
           NEW base \in Summary, NEW turns \in SUBSET Ids, Held(s, e, base, turns)
    PROVE  Held(s, e, base, turns)'
<1>1. Solid(s, e, base, turns) BY DEF Held
<1>2. Max(turns) \in Nat /\ Max(turns) <= used.rows /\ used.rows \in Nat
  BY <1>1, HeldTyped
<1>3. /\ used'.rows = used.rows + 1 /\ used'.epochs = used.epochs
      /\ rows'[s] \subseteq rows[s] \union {used.rows + 1} /\ rows[s] \subseteq rows'[s]
      /\ UNCHANGED <<file, old, pruned, waived, epoch, resetting, tainted>>
      /\ turn'[s].seen = turn[s].seen
  BY DEF Saves, HistoryTyped, TableTyped, UsedTyped, TurnTyped, TurnRec, jobVars
<1>4. \A d \in Owed(s)' : d <= Max(turns) => d \in Owed(s)
  BY <1>2, <1>3 DEF Owed
<1>5. Solid(s, e, base, turns)'
  <2>1. turns \subseteq 1..used'.rows BY <1>1, <1>2, <1>3 DEF Solid
  <2> QED BY <1>1, <1>3, <1>4, <2>1 DEF Solid
<1>6. ShowsSeen(s, base, turns) => ShowsSeen(s, base, turns)'
  BY <1>3 DEF ShowsSeen
<1>7. Akin(s, base, turns) => Akin(s, base, turns)'
  BY <1>3 DEF Akin, Known
<1>8. Fresh(s, base, turns) => Fresh(s, base, turns)'
  BY <1>3 DEF Fresh
<1> QED BY <1>3, <1>5, <1>6, <1>7, <1>8 DEF Held

\* Rows that are deleted remain known.
LEMMA Pruned ==
    ASSUME HistoryTyped, NEW u \in Sessions, NEW n, Prune(u, n), NEW s \in Sessions
    PROVE  /\ rows' \in [Sessions -> SUBSET Ids] /\ pruned' \in [Sessions -> SUBSET Ids]
           /\ UNCHANGED <<file, old, waived>>
           /\ rows'[s] \subseteq rows[s] /\ pruned[s] \subseteq pruned'[s]
           /\ rows'[s] \union pruned'[s] = rows[s] \union pruned[s]
           /\ \A d \in pruned'[s] \ pruned[s] : s = u /\ d \in rows[s] /\ d <= n
<1>1. Prunable(u, n) \subseteq {d \in rows[u] : d <= n}
  BY PartsOfRows DEF Prunable
<1>2. /\ rows' = [rows EXCEPT ![u] = @ \ Prunable(u, n)]
      /\ pruned' = [pruned EXCEPT ![u] = @ \union Prunable(u, n)]
      /\ UNCHANGED <<file, old, waived>>
  BY DEF Prune
<1> QED BY <1>1, <1>2 DEF HistoryTyped, TableTyped

LEMMA HeldPrune ==
    ASSUME HistoryTyped, NEW u \in Sessions, NEW n, Prune(u, n),
           UNCHANGED <<epoch, resetting, tainted, used>>,
           \A v \in Sessions : turn'[v].seen = turn[v].seen,
           NEW s \in Sessions, NEW e,
           NEW base \in Summary, NEW turns \in SUBSET Ids, Held(s, e, base, turns)
    PROVE  Held(s, e, base, turns)'
<1>1. Solid(s, e, base, turns) BY DEF Held
<1>2. /\ rows'[s] \subseteq rows[s] /\ pruned[s] \subseteq pruned'[s]
      /\ rows'[s] \union pruned'[s] = rows[s] \union pruned[s]
      /\ UNCHANGED <<file, old, waived>>
  BY Pruned
<1>3. Owed(s)' \subseteq Owed(s) BY <1>2 DEF Owed
<1>4. Solid(s, e, base, turns)' BY <1>1, <1>3 DEF Solid
<1>5. ShowsSeen(s, base, turns) => ShowsSeen(s, base, turns)'
  BY <1>2 DEF ShowsSeen
<1>6. Akin(s, base, turns) => Akin(s, base, turns)'
  BY <1>2 DEF Akin, Known
<1>7. Fresh(s, base, turns) => Fresh(s, base, turns)'
  BY <1>2 DEF Fresh
<1> QED BY <1>4, <1>5, <1>6, <1>7 DEF Held

\* A reset has marked its rows: what is held of the session will be forgotten.
LEMMA HeldResetMarks ==
    ASSUME HistoryTyped, NEW u \in Sessions, ResetMarks(u), NEW s \in Sessions, NEW e,
           NEW base \in Summary, NEW turns \in SUBSET Ids, Held(s, e, base, turns)
    PROVE  Held(s, e, base, turns)'
<1>1. Solid(s, e, base, turns) BY DEF Held
<1>2. /\ rows'[s] \subseteq rows[s] /\ resetting' = resetting \union {u}
      /\ UNCHANGED <<file, pruned, waived, epoch, turn, tainted>>
      /\ used'.rows = used.rows /\ used'.epochs = used.epochs
      /\ s # u => rows'[s] = rows[s] /\ old'[s] = old[s]
  BY DEF ResetMarks, HistoryTyped, TableTyped, UsedTyped, jobVars, Fault
<1>3. Owed(s)' \subseteq Owed(s) BY <1>2 DEF Owed
<1>4. Solid(s, e, base, turns)' BY <1>1, <1>2, <1>3 DEF Solid
<1>5. ShowsSeen(s, base, turns) => ShowsSeen(s, base, turns)'
  BY <1>2 DEF ShowsSeen
<1>6. s # u /\ Akin(s, base, turns) => Akin(s, base, turns)'
  BY <1>2 DEF Akin, Known
<1>7. s # u /\ Fresh(s, base, turns) => Fresh(s, base, turns)'
  BY <1>2 DEF Fresh
<1> QED BY <1>2, <1>4, <1>5, <1>6, <1>7 DEF Held

\* The reset is over: the session has no epoch, so that nothing held is current.
LEMMA HeldResetForgets ==
    ASSUME HistoryTyped, NEW u \in Sessions, ResetForgets(u), NEW s \in Sessions, NEW e,
           NEW base \in Summary, NEW turns \in SUBSET Ids, Held(s, e, base, turns)
    PROVE  Held(s, e, base, turns)'
<1>1. Solid(s, e, base, turns) BY DEF Held
<1>2. /\ UNCHANGED <<rows, old, turn>> /\ resetting' = resetting \ {u}
      /\ used'.rows = used.rows /\ used'.epochs = used.epochs
      /\ pruned'[s] \subseteq pruned[s] /\ (s = u => pruned'[s] = {})
      /\ s # u => /\ waived'[s] = waived[s] /\ pruned'[s] = pruned[s]
                  /\ file'[s] = file[s] /\ epoch'[s] = epoch[s]
                  /\ s \in tainted' <=> s \in tainted
      /\ s = u => epoch'[s] = 0
  BY DEF ResetForgets, Discards, Cancel, HistoryTyped, TableTyped, UsedTyped, JobTyped, Fault
<1>3. Owed(s)' \subseteq Owed(s) BY <1>2 DEF Owed
<1>4. Solid(s, e, base, turns)' BY <1>1, <1>2, <1>3 DEF Solid
<1>5. s = u => epoch'[s] # e
  <2>1. e \in 1..used.epochs BY <1>1 DEF Solid
  <2>2. used.epochs \in Nat BY DEF HistoryTyped, UsedTyped
  <2> QED BY <1>2, <2>1, <2>2
<1>6. ASSUME s # u PROVE Held(s, e, base, turns)'
  <2>1. ShowsSeen(s, base, turns) => ShowsSeen(s, base, turns)'
    BY <1>2, <1>6 DEF ShowsSeen
  <2>2. Akin(s, base, turns) => Akin(s, base, turns)'
    BY <1>2, <1>6 DEF Akin, Known
  <2>3. Fresh(s, base, turns) => Fresh(s, base, turns)'
    BY <1>2, <1>6 DEF Fresh
  <2> QED BY <1>2, <1>4, <1>6, <2>1, <2>2, <2>3 DEF Held
<1> QED BY <1>4, <1>5, <1>6 DEF Held

\* A turn reads rows, all of which are owed.
LEMMA HeldReads ==
    ASSUME HistoryTyped, NEW u \in Sessions, Reads(u), NEW s \in Sessions, NEW e,
           NEW base \in Summary, NEW turns \in SUBSET Ids, Held(s, e, base, turns)
    PROVE  Held(s, e, base, turns)'
<1>1. Solid(s, e, base, turns) BY DEF Held
<1>2. /\ UNCHANGED <<dbVars, epoch, resetting, tainted, used>>
      /\ turn'[s].seen \subseteq turn[s].seen \union rows[s]
  BY PartsOfRows DEF Reads, HistoryTyped, TurnTyped, TurnRec, jobVars
<1>3. Solid(s, e, base, turns)' BY <1>1, <1>2 DEF Solid, Owed, dbVars
<1>4. ShowsSeen(s, base, turns) => ShowsSeen(s, base, turns)'
  BY <1>1, <1>2 DEF ShowsSeen, Solid, Owed, dbVars
<1>5. Akin(s, base, turns) => Akin(s, base, turns)'
  BY <1>2 DEF Akin, Known, dbVars
<1>6. Fresh(s, base, turns) => Fresh(s, base, turns)'
  BY <1>2 DEF Fresh, dbVars
<1> QED BY <1>2, <1>3, <1>4, <1>5, <1>6 DEF Held

\* A summary is saved: the others of its session differ from it in known rows.
LEMMA HeldExtended ==
    ASSUME HistoryTyped, NEW r \in Requests, ReqHolds(r), Extended(r), NEW s \in Sessions, NEW e,
           NEW base \in Summary, NEW turns \in SUBSET Ids, Held(s, e, base, turns)
    PROVE  Held(s, e, base, turns)'
<1> DEFINE u == req[r].session
<1>1. Solid(s, e, base, turns) BY DEF Held
<1>2. /\ UNCHANGED <<rows, old, pruned, waived, epoch, turn, resetting, tainted, used>>
      /\ s # u => file'[s] = file[s]
      /\ s = u => file'[s].text = req[r].base.text \union req[r].turns
  BY DEF Extended, Extends, HistoryTyped, TableTyped
<1>3. Solid(s, e, base, turns)' BY <1>1, <1>2 DEF Solid, Owed
<1>4. ShowsSeen(s, base, turns) => ShowsSeen(s, base, turns)'
  BY <1>2 DEF ShowsSeen
<1>5. Fresh(s, base, turns) => Fresh(s, base, turns)'
  BY <1>2 DEF Fresh
<1>6. ASSUME Akin(s, base, turns), s \notin resetting PROVE Akin(s, base, turns)'
  <2>1. CASE s # u BY <1>2, <1>6, <2>1 DEF Akin, Known
  <2>2. CASE s = u
    <3>1. Held(u, req[r].epoch, req[r].base, req[r].turns) /\ epoch[u] = req[r].epoch
      BY DEF Extended, Savable, Current, ReqHolds
    <3>2. Akin(u, req[r].base, req[r].turns) BY <3>1, <2>2, <1>6 DEF Held
    <3> QED BY <1>2, <1>6, <2>2, <3>2 DEF Akin, Known
  <2> QED BY <2>1, <2>2
<1> QED BY <1>2, <1>3, <1>4, <1>5, <1>6 DEF Held

\* In a step, what is held stays good, and so does what may be deleted.
HeldOn ==
    /\ \A s \in Sessions, e \in Nat, base \in Summary, turns \in SUBSET Ids :
          Held(s, e, base, turns) => Held(s, e, base, turns)'
    /\ \A s \in Sessions : \A n \in Nat : n <= used.rows /\ Told(s, n) => Told(s, n)'
    /\ used'.epochs \in Nat /\ used.epochs <= used'.epochs

LEMMA QuietHolds == ASSUME HistoryTyped, Quiet PROVE HeldOn
<1>1. \A s \in Sessions, e \in Nat, base \in Summary, turns \in SUBSET Ids :
          Held(s, e, base, turns) => Held(s, e, base, turns)'
  BY HeldQuiet
<1>2. \A s \in Sessions : \A n \in Nat : Told(s, n) => Told(s, n)'
  BY DEF Told, Quiet, dbVars
<1> QED BY <1>1, <1>2 DEF HeldOn, Quiet

LEMMA SavesHolds ==
    ASSUME HistoryTyped, NEW u \in Sessions, Saves(u) PROVE HeldOn
<1>1. \A s \in Sessions, e \in Nat, base \in Summary, turns \in SUBSET Ids :
          Held(s, e, base, turns) => Held(s, e, base, turns)'
  BY HeldSaves
<1>2. /\ used'.epochs = used.epochs /\ used.epochs \in Nat /\ used.rows \in Nat
      /\ UNCHANGED <<file, waived>>
      /\ \A s \in Sessions : rows'[s] \subseteq rows[s] \union {used.rows + 1}
  BY BoundsAreNumbers DEF Saves, HistoryTyped, TableTyped, UsedTyped
<1>3. ASSUME NEW s \in Sessions, NEW n \in Nat, n <= used.rows, Told(s, n) PROVE Told(s, n)'
  <2>1. \A d \in rows'[s] : d <= n => d \in rows[s] BY <1>2, <1>3
  <2> QED BY <1>2, <1>3, <2>1 DEF Told
<1> QED BY <1>1, <1>2, <1>3 DEF HeldOn

LEMMA PruneHolds ==
    ASSUME HistoryTyped, NEW u \in Sessions, NEW n, Prune(u, n),
           UNCHANGED <<epoch, resetting, tainted, used>>,
           \A v \in Sessions : turn'[v].seen = turn[v].seen
    PROVE  HeldOn
<1>1. \A s \in Sessions, e \in Nat, base \in Summary, turns \in SUBSET Ids :
          Held(s, e, base, turns) => Held(s, e, base, turns)'
  BY HeldPrune
<1>2. \A s \in Sessions : rows'[s] \subseteq rows[s] /\ UNCHANGED <<file, waived>>
  BY Pruned
<1>3. \A s \in Sessions : \A m \in Nat : Told(s, m) => Told(s, m)'
  BY <1>2 DEF Told
<1>4. used.epochs \in Nat BY DEF HistoryTyped, UsedTyped
<1> QED BY <1>1, <1>3, <1>4 DEF HeldOn

LEMMA ResetHolds ==
    ASSUME HistoryTyped, NEW u \in Sessions, ResetMarks(u) \/ ResetForgets(u) PROVE HeldOn
<1>1. \A s \in Sessions, e \in Nat, base \in Summary, turns \in SUBSET Ids :
          Held(s, e, base, turns) => Held(s, e, base, turns)'
  BY HeldResetMarks, HeldResetForgets
<1>2. used'.epochs = used.epochs /\ used.epochs \in Nat
  BY DEF ResetMarks, ResetForgets, Discards, Cancel, HistoryTyped, UsedTyped, Fault
<1>3. ASSUME NEW s \in Sessions, NEW n \in Nat, Told(s, n) PROVE Told(s, n)'
  <2>1. CASE ResetMarks(u)
    <3>1. rows'[s] \subseteq rows[s] /\ UNCHANGED <<file, waived>>
      BY <2>1 DEF ResetMarks, HistoryTyped, TableTyped
    <3> QED BY <1>3, <3>1 DEF Told
  <2>2. CASE ResetForgets(u)
    <3>1. /\ rows' = rows
          /\ s = u => waived'[s] = rows[s]
          /\ s # u => waived'[s] = waived[s] /\ file'[s] = file[s]
      BY <2>2 DEF ResetForgets, HistoryTyped, TableTyped
    <3> QED BY <1>3, <3>1 DEF Told
  <2> QED BY <2>1, <2>2
<1> QED BY <1>1, <1>2, <1>3 DEF HeldOn

LEMMA ReadsHolds ==
    ASSUME HistoryTyped, NEW u \in Sessions, Reads(u) PROVE HeldOn
<1>1. \A s \in Sessions, e \in Nat, base \in Summary, turns \in SUBSET Ids :
          Held(s, e, base, turns) => Held(s, e, base, turns)'
  BY HeldReads
<1>2. UNCHANGED <<dbVars, used>> /\ used.epochs \in Nat
  BY DEF Reads, HistoryTyped, UsedTyped
<1>3. \A s \in Sessions : \A n \in Nat : Told(s, n) => Told(s, n)'
  BY <1>2 DEF Told, dbVars
<1> QED BY <1>1, <1>2, <1>3 DEF HeldOn

\* A summary that goes further tells of all owed rows that the one before it told of.
LEMMA ExtendedTells ==
    ASSUME HistoryTyped, NEW r \in Requests, ReqHolds(r), Extended(r), Tells(req[r].session)
    PROVE  LET s == req[r].session IN
           /\ s \in Sessions
           /\ file'[s].text = req[r].base.text \union req[r].turns
           /\ file'[s].through = Max(req[r].turns)
           /\ Max(req[r].turns) \in Nat /\ Max(req[r].turns) <= used.rows
           /\ file[s].through < Max(req[r].turns)
           /\ \A d \in req[r].turns : d <= Max(req[r].turns)
           /\ Held(s, req[r].epoch, req[r].base, req[r].turns) /\ epoch[s] = req[r].epoch
           /\ \A d \in Owed(s) : d \in file[s].text => d \in file'[s].text
<1> DEFINE s == req[r].session
<1>1. s \in Sessions /\ Held(s, req[r].epoch, req[r].base, req[r].turns)
      /\ epoch[s] = req[r].epoch
  BY DEF ReqHolds, Extended, Savable, Current
<1>2. Solid(s, req[r].epoch, req[r].base, req[r].turns) BY <1>1 DEF Held
<1>3. /\ Max(req[r].turns) \in Nat /\ Max(req[r].turns) <= used.rows
      /\ \A d \in req[r].turns : d <= Max(req[r].turns)
  BY <1>1, <1>2, ReqFields, HeldTyped
<1>4. /\ file'[s].text = req[r].base.text \union req[r].turns
      /\ file'[s].through = Max(req[r].turns)
      /\ file[s].through < Max(req[r].turns)
  <2>1. file' = [file EXCEPT ![s] = [text |-> Extends(r), through |-> Last(r)]]
        /\ Last(r) > file[s].through
    BY DEF Extended, Savable
  <2>2. file[s].through \in Nat BY <1>1, TableFields
  <2> QED BY <1>1, <1>3, <2>1, <2>2 DEF Extends, Last, HistoryTyped, TableTyped
<1>5. \A d \in Owed(s) : d \in file[s].text => d \in file'[s].text
  <2>1. SUFFICES ASSUME NEW d \in Owed(s), d \in file[s].text PROVE d \in file'[s].text
    OBVIOUS
  <2>2. d <= file[s].through BY <2>1 DEF Tells
  <2>3. d \in Nat /\ file[s].through \in Nat BY <1>1, <2>1, TableFields DEF Ids
  <2>4. d <= Max(req[r].turns) BY <1>3, <1>4, <2>2, <2>3
  <2> QED BY <1>2, <1>4, <2>4 DEF Solid
<1> QED BY <1>1, <1>3, <1>4, <1>5

LEMMA ExtendedHolds ==
    ASSUME HistoryTyped, NEW r \in Requests, ReqHolds(r), Extended(r), Tells(req[r].session)
    PROVE  HeldOn
<1> DEFINE u == req[r].session
<1>1. \A s \in Sessions, e \in Nat, base \in Summary, turns \in SUBSET Ids :
          Held(s, e, base, turns) => Held(s, e, base, turns)'
  BY HeldExtended
<1>2. UNCHANGED <<rows, waived, used>> /\ used.epochs \in Nat
  BY DEF Extended, HistoryTyped, UsedTyped
<1>3. ASSUME NEW s \in Sessions, NEW n \in Nat, Told(s, n) PROVE Told(s, n)'
  <2>1. CASE s = u
    <3>1. \A d \in rows[s] : d \in file[s].text => d \in file'[s].text
      BY <2>1, ExtendedTells DEF Owed
    <3> QED BY <1>2, <1>3, <3>1 DEF Told
  <2>2. CASE s # u
    <3>1. file'[s] = file[s] BY <2>2 DEF Extended, HistoryTyped, TableTyped
    <3> QED BY <1>2, <1>3, <3>1 DEF Told
  <2> QED BY <2>1, <2>2
<1> QED BY <1>1, <1>2, <1>3 DEF HeldOn

(***************************************************************************)
(* Coroutines and requests move                                            *)
(***************************************************************************)
CoroStep ==
    \A k \in Coros :
        \/ coro'[k] = coro[k] /\ (coro[k].step = "loading" => file'[k[1]] = file[k[1]])
        \/ coro'[k].step \in {"none", "sleeping"}
        \/ \E c \in CoroRec : /\ coro'[k] = c /\ c.step = "loading" /\ k[2] = "own"
                              /\ c.base = file'[k[1]] /\ c.epoch \in 1..used.epochs
        \/ \E c \in CoroRec : /\ coro'[k] = c /\ c.step = "loaded"
                              /\ Held(k[1], c.epoch, c.base, c.turns)

SameWork(q, p) ==
    q.session = p.session /\ q.epoch = p.epoch /\ q.base = p.base /\ q.turns = p.turns

ReqStep ==
    \A r \in Requests :
        \/ req'[r].step = "free"
        \/ \E q \in ReqRec : req'[r] = q /\ q.step = req[r].step /\ SameWork(q, req[r])
        \/ \E q \in ReqRec : /\ req'[r] = q /\ q.step = "asking" /\ q.session \in Sessions
                             /\ Held(q.session, q.epoch, q.base, q.turns)
        \/ \E q \in ReqRec : /\ req'[r] = q /\ req[r].step = "asking" /\ SameWork(q, req[r])
                             /\ q.step = "pruning" /\ Told(q.session, Max(q.turns))'

LEMMA HeldGoesOn ==
    ASSUME HeldOn, NEW s \in Sessions, NEW e \in Nat, NEW base \in Summary,
           NEW turns \in SUBSET Ids, Held(s, e, base, turns)
    PROVE  Held(s, e, base, turns)'
BY DEF HeldOn

LEMMA CorosMove ==
    ASSUME HistoryTyped, Holders, HeldOn, CoroStep, NEW k \in Coros
    PROVE  CoroHolds(k)'
<1> USE DEF Held, Solid, ShowsSeen, Akin, Fresh, Owed, Known
<1>0. k[1] \in Sessions BY CoroNames
<1>1. ASSUME NEW c \in CoroRec, coro'[k] = c, c.step = "loaded",
             Held(k[1], c.epoch, c.base, c.turns)
      PROVE  CoroHolds(k)'
  <2>1. c.epoch \in Nat /\ c.base \in Summary /\ c.turns \in SUBSET Ids BY DEF CoroRec
  <2>2. Held(k[1], c.epoch, c.base, c.turns)'
    <3> HIDE DEF Held
    <3> QED BY <1>0, <1>1, <2>1, HeldGoesOn
  <2> QED BY <1>1, <2>2 DEF CoroHolds
<1>2. CASE coro'[k] = coro[k] /\ (coro[k].step = "loading" => file'[k[1]] = file[k[1]])
  <2>1. PICK c \in CoroRec : c = coro[k] BY CoroFields
  <2>2. CASE c.step = "loaded"
    <3>1. Held(k[1], c.epoch, c.base, c.turns) BY <2>1, <2>2 DEF Holders, CoroHolds
    <3> QED BY <1>1, <1>2, <2>1, <2>2, <3>1
  <2>3. CASE c.step # "loaded"
    <3>1. used.epochs \in Nat /\ used'.epochs \in Nat /\ used.epochs <= used'.epochs
      BY DEF HeldOn, HistoryTyped, UsedTyped
    <3> HIDE DEF Held
    <3>2. c.step = "loading" => /\ k[2] = "own" /\ c.base = file'[k[1]]
                                /\ c.epoch \in 1..used'.epochs
      BY <1>2, <2>1, <3>1 DEF Holders, CoroHolds
    <3> QED BY <1>2, <2>1, <2>3, <3>2 DEF CoroHolds
  <2> QED BY <2>2, <2>3
<1>3. CASE coro'[k].step \in {"none", "sleeping"}
  <2> HIDE DEF Held
  <2> QED BY <1>3 DEF CoroHolds
<1>4. CASE \E c \in CoroRec : /\ coro'[k] = c /\ c.step = "loading" /\ k[2] = "own"
                              /\ c.base = file'[k[1]] /\ c.epoch \in 1..used.epochs
  <2> HIDE DEF Held
  <2>1. used.epochs \in Nat /\ used'.epochs \in Nat /\ used.epochs <= used'.epochs
    BY DEF HeldOn, HistoryTyped, UsedTyped
  <2> QED BY <1>4, <2>1 DEF CoroHolds
<1>5. CASE \E c \in CoroRec : /\ coro'[k] = c /\ c.step = "loaded"
                              /\ Held(k[1], c.epoch, c.base, c.turns)
  <2>1. PICK c \in CoroRec : /\ coro'[k] = c /\ c.step = "loaded"
                             /\ Held(k[1], c.epoch, c.base, c.turns)
    BY <1>5
  <2> QED BY <1>1, <2>1
<1> QED BY <1>2, <1>3, <1>4, <1>5 DEF CoroStep

LEMMA ReqsMove ==
    ASSUME HistoryTyped, Holders, HeldOn, ReqStep, NEW r \in Requests
    PROVE  ReqHolds(r)'
<1> USE DEF Held, Solid, ShowsSeen, Akin, Fresh, Owed, Known
<1>1. ASSUME NEW q \in ReqRec, req'[r] = q, q.session \in Sessions,
             Held(q.session, q.epoch, q.base, q.turns),
             q.step = "pruning" => Told(q.session, Max(q.turns))'
      PROVE  ReqHolds(r)'
  <2>1. q.epoch \in Nat /\ q.base \in Summary /\ q.turns \in SUBSET Ids BY DEF ReqRec
  <2>2. Held(q.session, q.epoch, q.base, q.turns)'
    <3> HIDE DEF Held
    <3> QED BY <1>1, <2>1, HeldGoesOn
  <2> QED BY <1>1, <2>2 DEF ReqHolds, Told
<1>2. CASE req'[r].step = "free"
  <2> HIDE DEF Held
  <2> QED BY <1>2 DEF ReqHolds
<1>3. ASSUME NEW q \in ReqRec, req'[r] = q, q.step = req[r].step, SameWork(q, req[r]),
             q.step # "free"
      PROVE  ReqHolds(r)'
  <2>1. q.session \in Sessions /\ Held(q.session, q.epoch, q.base, q.turns)
    BY <1>3 DEF Holders, ReqHolds, SameWork
  <2>2. ASSUME q.step = "pruning" PROVE Told(q.session, Max(q.turns))'
    <3>1. Told(q.session, Max(q.turns)) BY <1>3, <2>2 DEF Holders, ReqHolds, SameWork, Told
    <3>2. Max(q.turns) \in Nat /\ Max(q.turns) <= used.rows
      <4>1. q.base \in Summary /\ q.turns \in SUBSET Ids BY DEF ReqRec
      <4>2. Solid(q.session, q.epoch, q.base, q.turns) BY <2>1
      <4> HIDE DEF Solid
      <4> QED BY <2>1, <4>1, <4>2, HeldTyped
    <3> QED BY <2>1, <3>1, <3>2 DEF HeldOn
  <2> QED BY <1>1, <1>3, <2>1, <2>2
<1>4. CASE \E q \in ReqRec : req'[r] = q /\ q.step = req[r].step /\ SameWork(q, req[r])
  BY <1>2, <1>3, <1>4
<1>5. ASSUME NEW q \in ReqRec, req'[r] = q, q.step = "asking", q.session \in Sessions,
             Held(q.session, q.epoch, q.base, q.turns)
      PROVE  ReqHolds(r)'
  BY <1>1, <1>5
<1>6. ASSUME NEW q \in ReqRec, req'[r] = q, req[r].step = "asking", SameWork(q, req[r]),
             q.step = "pruning", Told(q.session, Max(q.turns))'
      PROVE  ReqHolds(r)'
  <2>1. q.session \in Sessions /\ Held(q.session, q.epoch, q.base, q.turns)
    BY <1>6 DEF Holders, ReqHolds, SameWork
  <2> QED BY <1>1, <1>6, <2>1
<1> QED BY <1>2, <1>4, <1>5, <1>6 DEF ReqStep

\* What a schedule coroutine reads from the database, of a session whose own it is.
LEMMA LoadHeld ==
    ASSUME HistoryTyped, NEW s \in Sessions, Tells(s), Reading(s), CoroHolds(Own(s)),
           coro[Own(s)].step = "loading", NEW turns \in LoadedRows(Own(s)), turns # {}
    PROVE  turns \in SUBSET Ids /\ Held(s, coro[Own(s)].epoch, coro[Own(s)].base, turns)
<1> DEFINE base == coro[Own(s)].base
           e == coro[Own(s)].epoch
           S == {d \in rows[s] : d > base.through}
<1>1. Own(s) \in Coros /\ Own(s)[1] = s BY CoroNames
<1>2. base = file[s] /\ e \in 1..used.epochs BY <1>1 DEF CoroHolds
<1>3. S = Loadable(Own(s)) /\ S \in SUBSET Ids /\ S \subseteq rows[s]
  BY <1>1, TableFields DEF Loadable
<1>4. PICK n \in Int : turns = Oldest(n, S)
  <2>1. 0..Cardinality(S) \subseteq Int OBVIOUS
  <2> QED BY <1>3, <2>1 DEF LoadedRows
<1>5. turns \subseteq S BY <1>4, PartsOfRows
<1> DEFINE m == Max(turns)
<1>6. turns \in SUBSET Ids /\ m \in turns /\ m \in Nat /\ \A d \in turns : d <= m
  <2>1. turns \in SUBSET Ids BY <1>3, <1>5
  <2> QED BY <2>1, LastRow
<1>7. /\ rows[s] \subseteq 1..used.rows /\ used.rows \in Nat
      /\ file[s].through \in Nat /\ file[s].text \subseteq Ids /\ pruned[s] \subseteq Ids
      /\ \A d \in file[s].text : d <= file[s].through
      /\ \A d \in Owed(s) : d <= file[s].through => d \in file[s].text
  BY TableFields DEF Tells
<1>8. \A d \in rows[s] : d > file[s].through /\ d <= m => d \in turns
  <2>1. SUFFICES ASSUME NEW d \in rows[s], d > file[s].through, d <= m PROVE d \in turns
    OBVIOUS
  <2>2. d \in S /\ d \in Nat BY <1>2, <1>7, <2>1
  <2>3. CASE d = m BY <1>6, <2>3
  <2>4. CASE d < m
    <3> HIDE DEF S, m
    <3> QED BY <1>3, <1>4, <1>6, <2>2, <2>4, OldestIsClosed
  <2> QED BY <1>6, <2>1, <2>2, <2>3, <2>4
<1>9. \A d \in Owed(s) : d <= m => d \in base.text \union turns
  <2>1. \A d \in rows[s] : d \in Nat BY <1>7
  <2>2. \A d \in rows[s] : d <= m => d \in base.text \union turns
    BY <1>2, <1>7, <1>8, <2>1 DEF Owed
  <2>3. pruned[s] \ waived[s] \subseteq base.text BY <1>2 DEF Tells
  <2> QED BY <2>2, <2>3 DEF Owed
<1>10. Solid(s, e, base, turns)
  <2>1. \A d \in base.text : d <= m
    <3>1. file[s].through < m BY <1>2, <1>5, <1>6, <1>7
    <3>2. \A d \in file[s].text : d \in Nat BY <1>7 DEF Ids
    <3> QED BY <1>2, <1>6, <1>7, <3>1, <3>2
  <2>2. turns \subseteq 1..used.rows BY <1>5, <1>7
  <2> QED BY <1>2, <1>9, <2>1, <2>2 DEF Solid
<1>11. ShowsSeen(s, base, turns)
  <2>1. SUFFICES ASSUME NEW d \in turn[s].seen, d <= m
        PROVE  d \in base.text \union turns \union (pruned[s] \intersect waived[s])
    BY DEF ShowsSeen
  <2>2. turn[s].seen \subseteq rows[s] \union pruned[s]
    <3>1. rows[s] # {} BY <1>5
    <3>2. coro[Own(s)] # NoCoro BY Empties
    <3> QED BY <2>1, <3>1, <3>2 DEF Reading
  <2> QED BY <1>9, <2>1, <2>2 DEF Owed
<1>12. Akin(s, base, turns) BY <1>2, <1>5 DEF Akin, Known
<1>13. s \notin resetting \union tainted => Fresh(s, base, turns)
  BY <1>2, <1>5 DEF Fresh, Tells
<1> QED BY <1>6, <1>10, <1>11, <1>12, <1>13 DEF Held

\* The cancellation of a schedule, which may leave a coroutine that has what was read.
LEMMA CancelStep ==
    ASSUME HistoryTyped, Sound, Holders, NEW s \in Sessions, Cancel(s),
           \A u \in Sessions : u # s => file'[u] = file[u]
    PROVE  /\ coro' \in [Coros -> CoroRec] /\ CoroStep
           /\ \A u \in Sessions : coro'[Own(u)] = coro[Own(u)] \/ coro'[Own(u)] = NoCoro
           /\ coro'[Own(s)] = NoCoro
           /\ UsedTyped' /\ used'.rows = used.rows /\ used'.epochs = used.epochs
           /\ "reset" \in used'.faults <=> "reset" \in used.faults
<1>1. coro \in [Coros -> CoroRec] /\ Own(s) \in Coros /\ Stray(s) \in Coros /\ NoCoro \in CoroRec
      /\ NoCoro.step = "none"
  BY CoroNames, Empties DEF HistoryTyped, HolderTyped
<1>2. ASSUME NEW k \in Coros, k # Own(s)
      PROVE  coro[k].step = "loading" => file'[k[1]] = file[k[1]]
  BY <1>2, CoroNames DEF Holders, CoroHolds
<1>3. Own(s) # Stray(s) /\ \A u \in Sessions : Own(u) # Stray(s) /\ Own(u) \in Coros
  BY CoroNames
<1>4. CASE coro' = [coro EXCEPT ![Own(s)] = NoCoro] /\ UNCHANGED used
  <2>1. coro' \in [Coros -> CoroRec] BY <1>1, <1>4
  <2>2. \A k \in Coros : coro'[k] = IF k = Own(s) THEN NoCoro ELSE coro[k]
    BY <1>1, <1>4
  <2>3. CoroStep BY <1>1, <1>2, <2>2 DEF CoroStep
  <2>4. UsedTyped' BY <1>4 DEF UsedTyped, HistoryTyped
  <2> QED BY <1>3, <1>4, <2>1, <2>2, <2>3, <2>4
<1>5. ASSUME NEW turns \in SUBSET Ids,
             Held(s, coro[Own(s)].epoch, coro[Own(s)].base, turns),
             coro' = [coro EXCEPT ![Own(s)] = NoCoro,
                                  ![Stray(s)] = [coro[Own(s)] EXCEPT !.step = "loaded",
                                                                    !.turns = turns]]
      PROVE  /\ coro' \in [Coros -> CoroRec] /\ CoroStep
             /\ \A u \in Sessions : coro'[Own(u)] = coro[Own(u)] \/ coro'[Own(u)] = NoCoro
             /\ coro'[Own(s)] = NoCoro
  <2>1. PICK c : c = [coro[Own(s)] EXCEPT !.step = "loaded", !.turns = turns] OBVIOUS
  <2>2. /\ c \in CoroRec /\ c.step = "loaded" /\ c.turns = turns
        /\ c.epoch = coro[Own(s)].epoch /\ c.base = coro[Own(s)].base
    BY <1>1, <2>1 DEF CoroRec
  <2>3. coro' \in [Coros -> CoroRec] BY <1>1, <1>5, <2>1, <2>2
  <2>4. \A k \in Coros : coro'[k] = IF k = Own(s) THEN NoCoro
                                    ELSE IF k = Stray(s) THEN c ELSE coro[k]
    BY <1>1, <1>3, <1>5, <2>1
  <2>5. Held(s, c.epoch, c.base, c.turns) /\ Stray(s)[1] = s BY <1>5, <2>2, CoroNames
  <2>6. CoroStep
    <3>1. SUFFICES ASSUME NEW k \in Coros
          PROVE  \/ coro'[k] = coro[k] /\ (coro[k].step = "loading" => file'[k[1]] = file[k[1]])
                 \/ coro'[k].step \in {"none", "sleeping"}
                 \/ \E d \in CoroRec : /\ coro'[k] = d /\ d.step = "loaded"
                                       /\ Held(k[1], d.epoch, d.base, d.turns)
      BY DEF CoroStep
    <3>2. CASE k = Own(s) BY <1>1, <2>4, <3>2
    <3>3. CASE k = Stray(s)
      <4>1. coro'[k] = c BY <1>3, <2>4, <3>3
      <4> QED BY <2>2, <2>5, <3>3, <4>1
    <3>4. CASE k # Own(s) /\ k # Stray(s) BY <1>2, <2>4, <3>4
    <3> QED BY <3>2, <3>3, <3>4
  <2> QED BY <1>3, <2>3, <2>4, <2>6
<1>6. CASE /\ used' = Fault("lost")
           /\ \E turns \in (CASE coro[Own(s)].step = "loaded" -> {coro[Own(s)].turns}
                             [] coro[Own(s)].step = "loading" -> LoadedRows(Own(s)) \ {{}}
                             [] OTHER -> {}) :
                 coro' = [coro EXCEPT ![Own(s)] = NoCoro,
                                      ![Stray(s)] = [coro[Own(s)] EXCEPT !.step = "loaded",
                                                                        !.turns = turns]]
  <2>1. PICK turns : /\ \/ coro[Own(s)].step = "loaded" /\ turns = coro[Own(s)].turns
                        \/ /\ coro[Own(s)].step = "loading"
                           /\ turns \in LoadedRows(Own(s)) /\ turns # {}
                     /\ coro' = [coro EXCEPT ![Own(s)] = NoCoro,
                                             ![Stray(s)] = [coro[Own(s)] EXCEPT !.step = "loaded",
                                                                               !.turns = turns]]
    BY <1>6
  <2>2. turns \in SUBSET Ids /\ Held(s, coro[Own(s)].epoch, coro[Own(s)].base, turns)
    <3>1. CoroHolds(Own(s)) /\ Own(s)[1] = s BY <1>1, CoroNames DEF Holders
    <3>2. CASE coro[Own(s)].step = "loaded" /\ turns = coro[Own(s)].turns
      BY <1>1, <3>1, <3>2, CoroFields DEF CoroHolds
    <3>3. CASE /\ coro[Own(s)].step = "loading"
               /\ turns \in LoadedRows(Own(s)) /\ turns # {}
      BY <3>1, <3>3, LoadHeld DEF Sound
    <3> QED BY <2>1, <3>2, <3>3
  <2>3. /\ UsedTyped' /\ used'.rows = used.rows /\ used'.epochs = used.epochs
        /\ "reset" \in used'.faults <=> "reset" \in used.faults
    BY <1>6 DEF Fault, UsedTyped, HistoryTyped
  <2>4. /\ coro' \in [Coros -> CoroRec] /\ CoroStep
        /\ \A u \in Sessions : coro'[Own(u)] = coro[Own(u)] \/ coro'[Own(u)] = NoCoro
        /\ coro'[Own(s)] = NoCoro
    BY <1>5, <2>1, <2>2
  <2> QED BY <2>3, <2>4
<1> QED BY <1>4, <1>6 DEF Cancel

\* Coroutines that are started are asleep, and only a session with a pending job has one.
LEMMA SleepingTyped ==
    ASSUME HistoryTyped, NEW s \in Sessions
    PROVE  Sleeping(s) \in CoroRec /\ Sleeping(s).step = "sleeping"
<1>1. NoCoro \in CoroRec BY Empties
<1>2. pending[s].epoch \in Nat BY TableFields
<1> QED BY <1>1, <1>2 DEF Sleeping, CoroRec

LEMMA ScheduledStep ==
    ASSUME HistoryTyped, NEW c \in [Coros -> CoroRec], NEW fg,
           \A k \in Coros : c[k] = coro[k] \/ c[k] = NoCoro,
           coro' = Scheduled(c, fg), UNCHANGED file
    PROVE  /\ coro' \in [Coros -> CoroRec] /\ CoroStep
           /\ \A s \in Sessions : pending[s] = NoJob /\ coro[Own(s)] = NoCoro =>
                                      coro'[Own(s)] = NoCoro
<1>1. \A k \in Coros : k[1] \in Sessions BY CoroNames
<1>2. \A k \in Coros : \/ coro'[k] = c[k]
                       \/ coro'[k] = Sleeping(k[1]) /\ Ready(pending[k[1]].turns)
  BY DEF Scheduled, Startable
<1>3. coro' \in [Coros -> CoroRec]
  <2>1. coro' = [k \in Coros |-> coro'[k]] BY DEF Scheduled
  <2> QED BY <1>1, <1>2, <2>1, SleepingTyped
<1>4. CoroStep BY <1>1, <1>2, SleepingTyped, Empties DEF CoroStep
<1>5. ASSUME NEW s \in Sessions, pending[s] = NoJob, coro[Own(s)] = NoCoro
      PROVE  coro'[Own(s)] = NoCoro
  <2>1. Own(s) \in Coros /\ Own(s)[1] = s BY CoroNames
  <2>2. pending[s].turns = {} BY <1>5, Empties
  <2> QED BY <1>2, <1>5, <2>1, <2>2, ReadyHasRows
<1> QED BY <1>3, <1>4, <1>5

\* A request leaves, and the next one of its session may be scheduled.
LEMMA LeavesStep ==
    ASSUME HistoryTyped, NEW r \in Requests, NEW cool, Leaves(r, cool), UNCHANGED file,
           req[r].session \in Sessions
    PROVE  /\ HolderTyped' /\ CoroStep /\ ReqStep
           /\ task' \in [Sessions -> Requests \union {None}]
           /\ running' \in [Sessions -> Requests \union {None}]
           /\ active' \in Requests \union {None}
           /\ Registered'
           /\ \A s \in Sessions : pending[s] = NoJob /\ coro[Own(s)] = NoCoro =>
                                      coro'[Own(s)] = NoCoro
<1> DEFINE s == req[r].session
<1>0. /\ coro \in [Coros -> CoroRec] /\ req \in [Requests -> ReqRec]
      /\ task \in [Sessions -> Requests \union {None}]
      /\ running \in [Sessions -> Requests \union {None}]
      /\ active \in Requests \union {None}
  BY DEF HistoryTyped, HolderTyped, JobTyped
<1>1. /\ req' = [req EXCEPT ![r] = NoReq]
      /\ task' = [task EXCEPT ![s] = IF @ = r THEN None ELSE @]
      /\ running' = [running EXCEPT ![s] = IF @ = r THEN None ELSE @]
      /\ active' = IF active = r THEN None ELSE active
      /\ \/ coro' = coro
         \/ coro' = [coro EXCEPT ![Own(s)] = Sleeping(s)] /\ Ready(pending[s].turns)
  BY DEF Leaves, Unregistered
<1>2. Own(s) \in Coros /\ \A u \in Sessions : Own(u) = Own(s) => u = s BY CoroNames
<1>3. Sleeping(s) \in CoroRec /\ Sleeping(s).step = "sleeping" BY SleepingTyped
<1>4. coro' \in [Coros -> CoroRec]
      /\ \A k \in Coros : coro'[k] = coro[k] \/ (coro'[k] = Sleeping(s) /\ k = Own(s))
  BY <1>0, <1>1, <1>2, <1>3
<1>5. /\ req' \in [Requests -> ReqRec] /\ req'[r] = NoReq
      /\ \A q \in Requests : q # r => req'[q] = req[q]
  BY <1>0, <1>1, Empties
<1>6. CoroStep BY <1>3, <1>4 DEF CoroStep
<1>7. ReqStep
  <2>1. \A q \in Requests : q # r => \E p \in ReqRec : /\ req'[q] = p /\ p.step = req[q].step
                                                      /\ SameWork(p, req[q])
    BY <1>0, <1>5 DEF SameWork
  <2>2. req'[r].step = "free" BY <1>5, Empties
  <2> QED BY <2>1, <2>2 DEF ReqStep
<1>8. Registered'
  <2>1. SUFFICES ASSUME NEW u \in Sessions
        PROVE {task'[u], running'[u]} \subseteq
                  {q \in Requests : req'[q].session = u /\ req'[q].step # "free"} \union {None}
    BY DEF Registered
  <2>2. {task[u], running[u]} \subseteq
            {q \in Requests : req[q].session = u /\ req[q].step # "free"} \union {None}
    BY DEF Registered, HistoryTyped
  <2>3. /\ task'[u] = IF u = s /\ task[u] = r THEN None ELSE task[u]
        /\ running'[u] = IF u = s /\ running[u] = r THEN None ELSE running[u]
    BY <1>0, <1>1
  <2>4. /\ task[u] = r /\ r # None => u = s
        /\ running[u] = r /\ r # None => u = s
    BY <2>2
  <2>5. r # None BY NoneIsNoRequest
  <2> QED BY <1>5, <2>2, <2>3, <2>4, <2>5
<1>9. ASSUME NEW u \in Sessions, pending[u] = NoJob, coro[Own(u)] = NoCoro
      PROVE  coro'[Own(u)] = NoCoro
  <2>1. pending[u].turns = {} BY <1>9, Empties
  <2>2. Own(u) \in Coros BY CoroNames
  <2>3. CASE u = s BY <1>1, <1>9, <2>1, <2>3, ReadyHasRows
  <2>4. CASE u # s BY <1>2, <1>4, <1>9, <2>2, <2>4
  <2> QED BY <2>3, <2>4
<1>10. \A q \in Requests : req'[q].cancelled => req'[q].step # "free"
  BY <1>5, Empties DEF HistoryTyped, HolderTyped
<1> QED BY <1>0, <1>1, <1>4, <1>5, <1>6, <1>7, <1>8, <1>9, <1>10 DEF HolderTyped

(***************************************************************************)
(* Steps                                                                   *)
(***************************************************************************)
LEMMA Assemble ==
    ASSUME HistoryInv, HistoryTyped', HeldOn, CoroStep, ReqStep,
           \A s \in Sessions : Tells(s)' /\ Reading(s)' /\ Pends(s)',
           ResetOnce', missing' = {}
    PROVE  HistoryInv'
<1>1. Holders' BY CorosMove, ReqsMove DEF HistoryInv, Holders
<1> QED BY <1>1 DEF HistoryInv, Sound

LEMMA NothingBeforeOne ==
    ASSUME HistoryInv, NEW s \in Sessions
    PROVE  \A d \in rows[s] : ~(d <= 0)
BY DEF HistoryInv, Sound, Tells, HistoryTyped, UsedTyped

\* A step that leaves the table, the files and the epochs alone: coroutines and requests move,
\* jobs are dropped, and a turn reads nothing.
MovesOn ==
    /\ UNCHANGED <<dbVars, epoch, resetting, tainted, missing>>
    /\ used'.rows = used.rows /\ used'.epochs = used.epochs
    /\ "reset" \in used'.faults <=> "reset" \in used.faults
    /\ CoroStep /\ ReqStep
    /\ \A s \in Sessions :
          /\ turn'[s].seen \in {turn[s].seen, {}}
          /\ turn'[s].cursor \in {turn[s].cursor, 0}
          /\ turn'[s].seen # {} => turn'[s].step = turn[s].step
          /\ pending'[s] \in {pending[s], NoJob}
          /\ pending[s] = NoJob /\ coro[Own(s)] = NoCoro => coro'[Own(s)] = NoCoro

LEMMA MovesOnStep ==
    ASSUME HistoryInv, HistoryTyped', MovesOn
    PROVE  HistoryInv'
<1>0. HistoryTyped BY DEF HistoryInv
<1>1. HeldOn
  <2>1. used.epochs \in Nat BY <1>0 DEF HistoryTyped, UsedTyped
  <2>2. Quiet BY <2>1 DEF MovesOn, Quiet
  <2> QED BY <1>0, <2>2, QuietHolds
<1>2. ASSUME NEW s \in Sessions PROVE Tells(s)'
  BY DEF HistoryInv, Sound, Tells, Owed, MovesOn, dbVars
<1>3. ASSUME NEW s \in Sessions PROVE Reading(s)'
  <2>1. Reading(s) BY DEF HistoryInv, Sound
  <2>2. used.rows \in Nat BY <1>0, BoundsAreNumbers DEF HistoryTyped, UsedTyped
  <2>3. Told(s, turn[s].cursor)' /\ turn'[s].cursor <= used'.rows
    <3>1. \A n : Told(s, n) => (\A d \in rows'[s] : d <= n => d \in file'[s].text \union waived'[s])
      BY DEF Told, MovesOn, dbVars
    <3>2. Told(s, 0) BY NothingBeforeOne DEF Told
    <3> QED BY <2>1, <2>2, <3>1, <3>2 DEF Reading, MovesOn, Told
  <2>4. \A d \in turn'[s].seen : d <= file'[s].through =>
            d \in file'[s].text \union (pruned'[s] \intersect waived'[s])
    BY <2>1 DEF Reading, MovesOn, dbVars
  <2>5. turn'[s].seen # {} =>
           /\ turn'[s].step = "read"
           /\ \/ turn'[s].seen \subseteq rows'[s] \union pruned'[s]
              \/ rows'[s] = {}
              \/ pending'[s] = NoJob /\ coro'[Own(s)] = NoCoro
    BY <2>1 DEF Reading, MovesOn, dbVars
  <2> QED BY <2>3, <2>4, <2>5 DEF Reading
<1>4. ASSUME NEW s \in Sessions PROVE Pends(s)'
  <2>1. Pends(s) /\ NoJob.turns = {} BY Empties DEF HistoryInv, Sound
  <2> QED BY <2>1 DEF Pends, MovesOn, dbVars
<1>5. ResetOnce' BY DEF HistoryInv, ResetOnce, MovesOn, dbVars
<1>6. missing' = {} /\ CoroStep /\ ReqStep BY DEF HistoryInv, MovesOn
<1> QED BY <1>1, <1>2, <1>3, <1>4, <1>5, <1>6, Assemble

\* Nothing happens to what is held.
LEMMA StillCoros == ASSUME UNCHANGED <<coro, file>> PROVE CoroStep
BY DEF CoroStep

LEMMA StillReqs == ASSUME HistoryTyped, UNCHANGED req PROVE ReqStep
BY DEF ReqStep, SameWork, HistoryTyped, HolderTyped

\* The step of a turn changes.
LEMMA TurnStepTyped ==
    ASSUME HistoryTyped, NEW u \in Sessions,
           NEW step \in {"idle", "arrived", "read", "built", "asking", "answered", "pruning",
                         "saved"},
           turn' = [turn EXCEPT ![u].step = step]
    PROVE  /\ TurnTyped' /\ turn'[u].step = step
           /\ \A s \in Sessions : /\ turn'[s].seen = turn[s].seen
                                  /\ turn'[s].cursor = turn[s].cursor
                                  /\ s # u => turn'[s] = turn[s]
<1>1. turn \in [Sessions -> TurnRec] BY DEF HistoryTyped, TurnTyped
<1>2. [turn[u] EXCEPT !.step = step] \in TurnRec BY <1>1 DEF TurnRec
<1> QED BY <1>1, <1>2 DEF TurnTyped, TurnRec

LEMMA ArrivesStep ==
    ASSUME HistoryInv, NEW u \in Sessions, Arrives(u) PROVE HistoryInv'
<1>0. HistoryTyped /\ Sound /\ Holders BY DEF HistoryInv
<1>1. Cancel(u) /\ UNCHANGED <<dbVars, pending, running, task, active, epoch, req, failVars,
                               resetting, missing, tainted>>
  BY DEF Arrives
<1>2. /\ coro' \in [Coros -> CoroRec] /\ CoroStep
      /\ \A s \in Sessions : coro'[Own(s)] = coro[Own(s)] \/ coro'[Own(s)] = NoCoro
      /\ UsedTyped' /\ used'.rows = used.rows /\ used'.epochs = used.epochs
      /\ "reset" \in used'.faults <=> "reset" \in used.faults
  BY <1>0, <1>1, CancelStep DEF dbVars
<1>3. /\ TurnTyped'
      /\ \A s \in Sessions : /\ turn'[s].seen = turn[s].seen /\ turn'[s].cursor = turn[s].cursor
                             /\ turn'[s].seen # {} => turn'[s].step = turn[s].step
  <2>1. CASE turn' = turn BY <1>0, <2>1 DEF HistoryTyped, TurnTyped
  <2>2. CASE turn[u].step = "idle" /\ turn' = [turn EXCEPT ![u].step = "arrived"]
    <3>1. turn[u].seen = {} BY <1>0, <2>2 DEF Sound, Reading
    <3>2. /\ TurnTyped'
          /\ \A s \in Sessions : /\ turn'[s].seen = turn[s].seen
                                 /\ turn'[s].cursor = turn[s].cursor
                                 /\ s # u => turn'[s] = turn[s]
      BY <1>0, <2>2, TurnStepTyped
    <3> QED BY <3>1, <3>2
  <2> QED BY <2>1, <2>2 DEF Arrives
<1>4. HistoryTyped'
  BY <1>0, <1>1, <1>2, <1>3
     DEF HistoryTyped, TableTyped, HolderTyped, JobTyped, FailTyped, Registered, dbVars, failVars
<1>5. ReqStep BY <1>0, <1>1, StillReqs
<1>6. MovesOn BY <1>1, <1>2, <1>3, <1>5 DEF MovesOn
<1> QED BY <1>4, <1>6, MovesOnStep

LEMMA AsksStep ==
    ASSUME HistoryInv, NEW u \in Sessions, Asks(u) \/ Answered(u) PROVE HistoryInv'
<1>0. HistoryTyped /\ Sound BY DEF HistoryInv
<1>1. UNCHANGED <<dbVars, jobVars, failVars, resetting, missing, tainted, used>>
  BY DEF Asks, Answered
<1>2. turn[u].seen = {} BY <1>0 DEF Asks, Answered, Sound, Reading
<1>3. TurnTyped' /\ \A s \in Sessions : /\ turn'[s].seen = turn[s].seen
                                        /\ turn'[s].cursor = turn[s].cursor
                                        /\ s # u => turn'[s] = turn[s]
  <2>1. CASE Asks(u) BY <1>0, <2>1, TurnStepTyped DEF Asks
  <2>2. CASE Answered(u) BY <1>0, <2>2, TurnStepTyped DEF Answered
  <2> QED BY <2>1, <2>2
<1>4. HistoryTyped'
  BY <1>0, <1>1, <1>3 DEF HistoryTyped, TableTyped, UsedTyped, HolderTyped, JobTyped, FailTyped,
     Registered, dbVars, jobVars, failVars
<1>5. CoroStep /\ ReqStep BY <1>0, <1>1, StillCoros, StillReqs DEF dbVars, jobVars
<1>6. MovesOn BY <1>1, <1>2, <1>3, <1>5 DEF MovesOn, jobVars
<1> QED BY <1>4, <1>6, MovesOnStep

LEMMA EndsStep ==
    ASSUME HistoryInv, NEW u \in Sessions, Ends(u) \/ Refused(u) PROVE HistoryInv'
<1>0. HistoryTyped /\ Sound BY DEF HistoryInv
<1>1. UNCHANGED <<dbVars, pending, running, task, active, epoch, req, failVars, resetting,
                  missing, tainted, used>>
  BY DEF Ends, Refused
<1>2. /\ coro' \in [Coros -> CoroRec] /\ CoroStep
      /\ \A s \in Sessions : pending[s] = NoJob /\ coro[Own(s)] = NoCoro => coro'[Own(s)] = NoCoro
  <2>1. coro \in [Coros -> CoroRec] /\ NoCoro \in CoroRec
    BY <1>0, Empties DEF HistoryTyped, HolderTyped
  <2>2. PICK c, fg :
            /\ c \in [Coros -> CoroRec]
            /\ \A k \in Coros : c[k] = coro[k] \/ c[k] = NoCoro
            /\ coro' = Scheduled(c, fg)
    <3>1. CASE Ends(u)
      <4>1. coro' = Scheduled(coro, background \/ \E v \in Sessions \ {u} : turn[v].step = "asking")
        BY <3>1 DEF Ends
      <4> QED BY <2>1, <4>1
    <3>2. CASE Refused(u)
      <4>1. coro' = Scheduled([coro EXCEPT ![Own(u)] = NoCoro], Foreground) BY <3>2 DEF Refused
      <4>2. [coro EXCEPT ![Own(u)] = NoCoro] \in [Coros -> CoroRec] BY <2>1
      <4> QED BY <2>1, <4>1, <4>2
    <3> QED BY <3>1, <3>2
  <2> QED BY <1>0, <1>1, <2>2, ScheduledStep DEF dbVars
<1>3. TurnTyped' /\ \A s \in Sessions : turn'[s] = turn[s] \/ turn'[s] = NoTurn
  <2>1. turn \in [Sessions -> TurnRec] /\ NoTurn \in TurnRec
    BY <1>0, Empties DEF HistoryTyped, TurnTyped
  <2>2. turn' = turn \/ turn' = [turn EXCEPT ![u] = NoTurn] BY DEF Ends, Refused
  <2> QED BY <2>1, <2>2 DEF TurnTyped
<1>4. HistoryTyped'
  BY <1>0, <1>1, <1>2, <1>3
     DEF HistoryTyped, TableTyped, UsedTyped, HolderTyped, JobTyped, FailTyped, Registered,
     dbVars, failVars
<1>5. ReqStep BY <1>0, <1>1, StillReqs
<1>6. NoTurn.seen = {} /\ NoTurn.cursor = 0 BY Empties
<1>7. MovesOn BY <1>1, <1>2, <1>3, <1>5, <1>6 DEF MovesOn
<1> QED BY <1>4, <1>7, MovesOnStep

LEMMA IdleStep ==
    ASSUME HistoryInv, BackgroundRuns \/ (\E u \in Sessions : CoolsDown(u)) \/ UNCHANGED vars
    PROVE  HistoryInv'
<1>0. HistoryTyped BY DEF HistoryInv
<1>1. UNCHANGED <<dbVars, jobVars, turn, strikes, resetting, missing, tainted, used>>
  BY DEF BackgroundRuns, CoolsDown, vars, failVars
<1>2. HistoryTyped'
  BY <1>0, <1>1 DEF HistoryTyped, TableTyped, UsedTyped, HolderTyped, JobTyped, TurnTyped,
     FailTyped, Registered, dbVars, jobVars
<1>3. CoroStep /\ ReqStep BY <1>0, <1>1, StillCoros, StillReqs DEF dbVars, jobVars
<1>4. MovesOn BY <1>1, <1>3 DEF MovesOn, jobVars
<1> QED BY <1>2, <1>4, MovesOnStep

\* A coroutine wakes, and reads what its job is to start from.
LEMMA WakesStep ==
    ASSUME HistoryInv, NEW u \in Sessions, Wakes(u) PROVE HistoryInv'
<1>0. HistoryTyped /\ Sound BY DEF HistoryInv
<1>1. UNCHANGED <<dbVars, pending, running, task, active, epoch, req, failVars, turn, resetting,
                  missing, tainted, used>>
  BY DEF Wakes
<1>2. coro \in [Coros -> CoroRec] /\ Own(u) \in Coros /\ Own(u)[1] = u /\ Own(u)[2] = "own"
  BY <1>0, CoroNames DEF HistoryTyped, HolderTyped
<1>3. /\ NoCoro \in CoroRec /\ NoCoro.step = "none" /\ NoJob.turns = {}
      /\ file[u] \in Summary
  BY <1>0, Empties, TableFields
<1> DEFINE c == [coro[Own(u)] EXCEPT !.step = "loading", !.base = file[u]]
<1>4. /\ c \in CoroRec /\ c.step = "loading" /\ c.base = file[u]
      /\ c.epoch = coro[Own(u)].epoch
  BY <1>2, <1>3 DEF CoroRec
<1>5. \/ coro' = [coro EXCEPT ![Own(u)] = NoCoro]
      \/ /\ coro' = [coro EXCEPT ![Own(u)] = c]
         /\ Ready(pending[u].turns) /\ pending[u].epoch = coro[Own(u)].epoch
  BY <1>2 DEF Wakes
<1>6. CASE coro' = [coro EXCEPT ![Own(u)] = NoCoro]
  <2>1. /\ coro' \in [Coros -> CoroRec]
        /\ \A k \in Coros : coro'[k] = IF k = Own(u) THEN NoCoro ELSE coro[k]
    BY <1>2, <1>3, <1>6
  <2>2. CoroStep BY <1>1, <1>3, <2>1 DEF CoroStep, dbVars
  <2>3. \A s \in Sessions : coro[Own(s)] = NoCoro => coro'[Own(s)] = NoCoro
    BY <2>1, CoroNames
  <2>4. HistoryTyped'
    BY <1>0, <1>1, <2>1
       DEF HistoryTyped, TableTyped, UsedTyped, HolderTyped, JobTyped, TurnTyped, FailTyped,
       Registered, dbVars, failVars
  <2>5. ReqStep BY <1>0, <1>1, StillReqs
  <2>6. MovesOn BY <1>1, <2>2, <2>3, <2>5 DEF MovesOn
  <2> QED BY <2>4, <2>6, MovesOnStep
<1>7. CASE /\ coro' = [coro EXCEPT ![Own(u)] = c]
           /\ Ready(pending[u].turns) /\ pending[u].epoch = coro[Own(u)].epoch
  <2> HIDE DEF c
  <2>1. pending[u].turns # {} BY <1>7, ReadyHasRows
  <2>2. c.epoch \in 1..used.epochs BY <1>0, <1>4, <1>7, <2>1 DEF Sound, Pends
  <2>3. /\ coro' \in [Coros -> CoroRec]
        /\ \A k \in Coros : coro'[k] = IF k = Own(u) THEN c ELSE coro[k]
    BY <1>2, <1>4, <1>7
  <2>4. CoroStep BY <1>1, <1>2, <1>4, <2>2, <2>3 DEF CoroStep, dbVars
  <2>5. \A s \in Sessions : pending[s] = NoJob /\ coro[Own(s)] = NoCoro => coro'[Own(s)] = NoCoro
    BY <1>3, <2>1, <2>3, CoroNames
  <2>6. HistoryTyped'
    BY <1>0, <1>1, <2>3
       DEF HistoryTyped, TableTyped, UsedTyped, HolderTyped, JobTyped, TurnTyped, FailTyped,
       Registered, dbVars, failVars
  <2>7. ReqStep BY <1>0, <1>1, StillReqs
  <2>8. MovesOn BY <1>1, <2>4, <2>5, <2>7 DEF MovesOn
  <2> QED BY <2>6, <2>8, MovesOnStep
<1> QED BY <1>5, <1>6, <1>7

\* The database answers with the oldest rows after the cursor.
LEMMA LoadsStep ==
    ASSUME HistoryInv, NEW u \in Sessions, Loads(u) PROVE HistoryInv'
<1>0. HistoryTyped /\ Sound /\ Holders BY DEF HistoryInv
<1>1. UNCHANGED <<dbVars, pending, running, task, active, epoch, req, failVars, turn, resetting,
                  missing, tainted, used>>
  BY DEF Loads
<1>2. coro \in [Coros -> CoroRec] /\ Own(u) \in Coros /\ Own(u)[1] = u
  BY <1>0, CoroNames DEF HistoryTyped, HolderTyped
<1>3. NoCoro \in CoroRec /\ NoCoro.step = "none" BY Empties
<1>4. PICK turns \in LoadedRows(Own(u)) :
          coro' = [coro EXCEPT ![Own(u)] = IF turns = {} THEN NoCoro
                                           ELSE [@ EXCEPT !.step = "loaded", !.turns = turns]]
  BY DEF Loads
<1>5. coro[Own(u)].step = "loading" /\ coro[Own(u)] # NoCoro BY <1>3 DEF Loads
<1>6. PICK c : c = IF turns = {} THEN NoCoro
                   ELSE [coro[Own(u)] EXCEPT !.step = "loaded", !.turns = turns]
  OBVIOUS
<1>7. /\ c \in CoroRec
      /\ c.step = "none" \/ (c.step = "loaded" /\ Held(u, c.epoch, c.base, c.turns))
  <2>1. CASE turns = {} BY <1>3, <1>6, <2>1
  <2>2. CASE turns # {}
    <3>1. CoroHolds(Own(u)) BY <1>0, <1>2 DEF Holders
    <3>2. turns \in SUBSET Ids /\ Held(u, coro[Own(u)].epoch, coro[Own(u)].base, turns)
      BY <1>0, <1>5, <2>2, <3>1, LoadHeld DEF Sound
    <3>3. /\ c \in CoroRec /\ c.step = "loaded" /\ c.turns = turns
          /\ c.epoch = coro[Own(u)].epoch /\ c.base = coro[Own(u)].base
      BY <1>2, <1>6, <2>2, <3>2 DEF CoroRec
    <3> QED BY <3>2, <3>3
  <2> QED BY <2>1, <2>2
<1>8. /\ coro' \in [Coros -> CoroRec]
      /\ \A k \in Coros : coro'[k] = IF k = Own(u) THEN c ELSE coro[k]
  BY <1>2, <1>4, <1>6, <1>7
<1>9. CoroStep BY <1>1, <1>2, <1>7, <1>8 DEF CoroStep, dbVars
<1>10. \A s \in Sessions : coro[Own(s)] = NoCoro => coro'[Own(s)] = NoCoro
  BY <1>5, <1>8, CoroNames
<1>11. HistoryTyped'
  BY <1>0, <1>1, <1>8
     DEF HistoryTyped, TableTyped, UsedTyped, HolderTyped, JobTyped, TurnTyped, FailTyped,
     Registered, dbVars, failVars
<1>12. ReqStep BY <1>0, <1>1, StillReqs
<1>13. MovesOn BY <1>1, <1>9, <1>10, <1>12 DEF MovesOn
<1> QED BY <1>11, <1>13, MovesOnStep

\* A request takes over what its coroutine has loaded.
LEMMA LaunchesStep ==
    ASSUME HistoryInv, NEW k \in Coros, NEW r \in Requests, Launches(k, r) PROVE HistoryInv'
<1> DEFINE s == k[1]
           c == coro[k]
           q == [step |-> "asking", session |-> s, epoch |-> c.epoch, base |-> c.base,
                 turns |-> c.turns, cancelled |-> FALSE]
<1>0. HistoryTyped /\ Sound /\ Holders /\ s \in Sessions BY CoroNames DEF HistoryInv
<1>1. UNCHANGED <<dbVars, epoch, failVars, turn, resetting, missing, tainted, used>>
      /\ coro' = [coro EXCEPT ![k] = NoCoro]
      /\ c.step = "loaded" /\ req[r] = NoReq
  BY DEF Launches
<1>2. /\ coro \in [Coros -> CoroRec] /\ req \in [Requests -> ReqRec]
      /\ task \in [Sessions -> Requests \union {None}]
      /\ running \in [Sessions -> Requests \union {None}]
      /\ active \in Requests \union {None}
      /\ pending \in [Sessions -> Job]
  BY <1>0 DEF HistoryTyped, HolderTyped, JobTyped
<1>3. NoCoro \in CoroRec /\ NoCoro.step = "none" /\ NoJob \in Job /\ NoReq.step = "free"
  BY Empties
<1>4. /\ coro' \in [Coros -> CoroRec]
      /\ \A j \in Coros : coro'[j] = IF j = k THEN NoCoro ELSE coro[j]
  BY <1>1, <1>2, <1>3
<1>5. CoroStep BY <1>1, <1>3, <1>4 DEF CoroStep, dbVars
<1>6. \A u \in Sessions : coro[Own(u)] = NoCoro => coro'[Own(u)] = NoCoro
  BY <1>4, CoroNames
<1>7. CASE /\ pending' = [pending EXCEPT ![s] = NoJob]
           /\ running' = [running EXCEPT ![s] = r]
           /\ task' = [task EXCEPT ![s] = r]
           /\ active' = r
           /\ req' = [req EXCEPT ![r] = q]
  <2>1. /\ q \in ReqRec /\ q.step = "asking" /\ q.session = s
        /\ q.epoch = c.epoch /\ q.base = c.base /\ q.turns = c.turns
    BY <1>0, CoroFields DEF ReqRec
  <2>2. Held(s, q.epoch, q.base, q.turns)
    BY <1>0, <1>1, <2>1 DEF Holders, CoroHolds
  <2> HIDE DEF q
  <2>3. /\ req' \in [Requests -> ReqRec] /\ req'[r] = q
        /\ \A p \in Requests : p # r => req'[p] = req[p]
    BY <1>2, <1>7, <2>1
  <2>4. ReqStep
    <3>1. \A p \in Requests : p # r => \E w \in ReqRec : /\ req'[p] = w /\ w.step = req[p].step
                                                        /\ SameWork(w, req[p])
      BY <1>2, <2>3 DEF SameWork
    <3> QED BY <1>0, <2>1, <2>2, <2>3, <3>1 DEF ReqStep
  <2>5. JobTyped' BY <1>0, <1>1, <1>2, <1>3, <1>7 DEF JobTyped, HistoryTyped
  <2>6. Registered'
    <3>1. SUFFICES ASSUME NEW u \in Sessions
          PROVE {task'[u], running'[u]} \subseteq
                    {p \in Requests : req'[p].session = u /\ req'[p].step # "free"} \union {None}
      BY DEF Registered
    <3>2. {task[u], running[u]} \subseteq
              {p \in Requests : req[p].session = u /\ req[p].step # "free"} \union {None}
      BY <1>0 DEF Registered, HistoryTyped
    <3>3. CASE u = s BY <1>2, <1>7, <2>1, <2>3, <3>3
    <3>4. CASE u # s
      <4>1. task'[u] = task[u] /\ running'[u] = running[u] BY <1>2, <1>7, <3>4
      <4>2. \A p \in Requests : req[p].session = u /\ req[p].step # "free" =>
                                    req'[p].session = u /\ req'[p].step # "free"
        BY <1>1, <1>3, <2>3
      <4> QED BY <3>2, <4>1, <4>2
    <3> QED BY <3>3, <3>4
  <2>7. HistoryTyped'
    <3>1. \A p \in Requests : req'[p].cancelled => req'[p].step # "free"
      BY <1>0, <2>1, <2>3 DEF HistoryTyped, HolderTyped
    <3> QED BY <1>0, <1>1, <1>4, <2>3, <2>5, <2>6, <3>1
       DEF HistoryTyped, TableTyped, UsedTyped, HolderTyped, TurnTyped, FailTyped, dbVars, failVars
  <2>8. \A u \in Sessions : pending'[u] \in {pending[u], NoJob} BY <1>2, <1>7
  <2>9. MovesOn BY <1>1, <1>5, <1>6, <2>4, <2>8 DEF MovesOn
  <2> QED BY <2>7, <2>9, MovesOnStep
<1>8. CASE UNCHANGED <<pending, running, task, active, req>>
  <2>1. ReqStep BY <1>0, <1>8, StillReqs
  <2>2. HistoryTyped'
    BY <1>0, <1>1, <1>4, <1>8
       DEF HistoryTyped, TableTyped, UsedTyped, HolderTyped, JobTyped, TurnTyped, FailTyped,
       Registered, dbVars, failVars
  <2>3. MovesOn BY <1>1, <1>5, <1>6, <1>8, <2>1 DEF MovesOn
  <2> QED BY <2>2, <2>3, MovesOnStep
<1> QED BY <1>7, <1>8 DEF Launches

\* A request ends and nothing is saved.
LEMMA LeavingStep ==
    ASSUME HistoryInv, NEW r \in Requests, Outdated(r) \/ Fails(r) \/ Dies(r)
    PROVE  HistoryInv'
<1>0. HistoryTyped /\ Holders BY DEF HistoryInv
<1>1. UNCHANGED <<dbVars, pending, epoch, turn, resetting, missing, tainted, used>>
  BY DEF Outdated, Fails, Dies
<1>2. PICK cool : Leaves(r, cool) BY DEF Outdated, Fails, Dies
<1>3. req[r].session \in Sessions
  <2>1. req[r].step # "free"
    BY <1>0 DEF Outdated, Fails, Dies, HistoryTyped, HolderTyped
  <2> QED BY <1>0, <2>1 DEF Holders, ReqHolds
<1>4. FailTyped'
  <2>1. strikes \in [Sessions -> 0..FailureLimit] /\ FailureLimit \in Nat
    BY <1>0, BoundsArePositive DEF HistoryTyped, FailTyped
  <2>2. CASE UNCHANGED strikes BY <2>1, <2>2 DEF FailTyped
  <2>3. CASE Struck(req[r].session)
    <3>1. (IF strikes[req[r].session] < FailureLimit THEN strikes[req[r].session] + 1
           ELSE strikes[req[r].session]) \in 0..FailureLimit
      BY <1>3, <2>1
    <3> QED BY <2>1, <2>3, <3>1 DEF Struck, FailTyped
  <2> QED BY <2>2, <2>3 DEF Outdated, Fails, Dies, failVars
<1>5. /\ HolderTyped' /\ CoroStep /\ ReqStep
      /\ task' \in [Sessions -> Requests \union {None}]
      /\ running' \in [Sessions -> Requests \union {None}]
      /\ active' \in Requests \union {None}
      /\ Registered'
      /\ \A s \in Sessions : pending[s] = NoJob /\ coro[Own(s)] = NoCoro => coro'[Own(s)] = NoCoro
  BY <1>0, <1>1, <1>2, <1>3, LeavesStep DEF dbVars
<1>6. HistoryTyped'
  BY <1>0, <1>1, <1>4, <1>5 DEF HistoryTyped, TableTyped, UsedTyped, JobTyped, TurnTyped, dbVars
<1>7. MovesOn BY <1>1, <1>5 DEF MovesOn
<1> QED BY <1>6, <1>7, MovesOnStep

LEMMA TurnMade ==
    ASSUME NEW t \in TurnRec, NEW n \in 0..MaxDialogs,
           NEW step \in {"idle", "arrived", "read", "built", "asking", "answered", "pruning",
                         "saved"}
    PROVE  /\ [t EXCEPT !.step = step, !.cursor = n] \in TurnRec
           /\ [t EXCEPT !.step = step, !.cursor = n].cursor = n
           /\ [t EXCEPT !.step = step, !.cursor = n].seen = t.seen
           /\ [t EXCEPT !.step = step, !.cursor = n].step = step
BY DEF TurnRec

\* A turn that is not touched, of a session whose rows and job are as they were.
LEMMA ReadingStays ==
    ASSUME NEW s \in Sessions, Reading(s), turn'[s] = turn[s], rows'[s] = rows[s],
           file'[s] = file[s], pruned'[s] = pruned[s], waived'[s] = waived[s],
           turn'[s].cursor <= used'.rows,
           pending[s] = NoJob /\ coro[Own(s)] = NoCoro =>
               pending'[s] = NoJob /\ coro'[Own(s)] = NoCoro
    PROVE  Reading(s)'
<1>1. Told(s, turn[s].cursor)' /\ turn'[s].cursor <= used'.rows
  BY DEF Reading, Told
<1>2. \A d \in turn'[s].seen : d <= file'[s].through =>
          d \in file'[s].text \union (pruned'[s] \intersect waived'[s])
  BY DEF Reading
<1>3. turn'[s].seen # {} =>
         /\ turn'[s].step = "read"
         /\ \/ turn'[s].seen \subseteq rows'[s] \union pruned'[s]
            \/ rows'[s] = {}
            \/ pending'[s] = NoJob /\ coro'[Own(s)] = NoCoro
  BY DEF Reading
<1> QED BY <1>1, <1>2, <1>3 DEF Reading

\* A turn reads the newest rows.
LEMMA ReadsStep ==
    ASSUME HistoryInv, NEW u \in Sessions, Reads(u) PROVE HistoryInv'
<1>0. HistoryTyped /\ Sound /\ Holders BY DEF HistoryInv
<1>1. UNCHANGED <<dbVars, jobVars, failVars, resetting, missing, tainted, used>>
      /\ turn[u].step = "arrived"
  BY DEF Reads
<1>2. turn \in [Sessions -> TurnRec] /\ turn[u].seen = {} /\ rows[u] \subseteq Ids
  BY <1>0, <1>1, TableFields DEF Sound, Reading, HistoryTyped, TurnTyped
<1>3. PICK t \in TurnRec : /\ turn' = [turn EXCEPT ![u] = t]
                           /\ t.cursor = turn[u].cursor
                           /\ t.seen \subseteq rows[u]
                           /\ t.seen # {} => t.step = "read"
  <2>1. CASE turn' = [turn EXCEPT ![u].step = "built"]
    <3>1. [turn[u] EXCEPT !.step = "built"] \in TurnRec BY <1>2 DEF TurnRec
    <3> QED BY <1>2, <2>1, <3>1 DEF TurnRec
  <2>2. CASE turn' = [turn EXCEPT ![u].step = "read", ![u].seen = Newest(Window, rows[u])]
    <3>1. Newest(Window, rows[u]) \subseteq rows[u] BY PartsOfRows
    <3>2. PICK n : n = Newest(Window, rows[u]) OBVIOUS
    <3>3. PICK t : t = [turn[u] EXCEPT !.step = "read", !.seen = n] OBVIOUS
    <3>4. t \in TurnRec /\ t.cursor = turn[u].cursor /\ t.seen = n /\ t.step = "read"
      BY <1>2, <3>1, <3>2, <3>3 DEF TurnRec
    <3>5. turn' = [turn EXCEPT ![u] = t] BY <1>2, <2>2, <3>2, <3>3
    <3> QED BY <3>1, <3>2, <3>4, <3>5
  <2> QED BY <2>1, <2>2 DEF Reads
<1>4. TurnTyped' /\ \A s \in Sessions : turn'[s] = IF s = u THEN t ELSE turn[s]
  BY <1>2, <1>3 DEF TurnTyped
<1>5. HistoryTyped'
  BY <1>0, <1>1, <1>4
     DEF HistoryTyped, TableTyped, UsedTyped, HolderTyped, JobTyped, FailTyped, Registered,
     dbVars, jobVars, failVars
<1>6. HeldOn BY <1>0, ReadsHolds
<1>7. CoroStep /\ ReqStep BY <1>0, <1>1, StillCoros, StillReqs DEF dbVars, jobVars
<1>8. ASSUME NEW s \in Sessions PROVE Tells(s)' /\ Reading(s)' /\ Pends(s)'
  <2>1. Tells(s) /\ Reading(s) /\ Pends(s) BY <1>0 DEF Sound
  <2>2. Tells(s)' BY <1>1, <2>1 DEF Tells, Owed, dbVars
  <2>3. Pends(s)' BY <1>1, <2>1 DEF Pends, dbVars, jobVars
  <2>4. CASE s # u
    <3>1. turn'[s] = turn[s] /\ turn[s].cursor <= used.rows
      BY <1>4, <2>1, <2>4 DEF Reading
    <3> QED BY <1>1, <2>1, <2>2, <2>3, <3>1, ReadingStays DEF dbVars, jobVars
  <2>5. CASE s = u
    <3>1. turn'[s] = t BY <1>4, <2>5
    <3>2. Told(s, turn[s].cursor)' /\ turn'[s].cursor <= used'.rows
      BY <1>1, <1>3, <2>1, <2>5, <3>1 DEF Reading, Told, dbVars
    <3>3. \A d \in turn'[s].seen : d <= file'[s].through => d \in file'[s].text
      BY <1>1, <1>3, <2>1, <2>5, <3>1 DEF Tells, Owed, dbVars
    <3>4. turn'[s].seen # {} => turn'[s].step = "read" /\ turn'[s].seen \subseteq rows'[s]
      BY <1>1, <1>3, <2>5, <3>1 DEF dbVars
    <3> QED BY <2>2, <2>3, <3>2, <3>3, <3>4 DEF Reading
  <2> QED BY <2>2, <2>3, <2>4, <2>5
<1>9. ResetOnce' BY <1>1 DEF HistoryInv, ResetOnce, dbVars
<1>10. missing' = {} BY <1>1 DEF HistoryInv
<1> QED BY <1>5, <1>6, <1>7, <1>8, <1>9, <1>10, Assemble

\* A row is saved, and the turn may go on to prune up to the cursor of the summary.
LEMMA SavesStep ==
    ASSUME HistoryInv, NEW u \in Sessions, Saves(u) PROVE HistoryInv'
<1>0. HistoryTyped /\ Sound /\ Holders BY DEF HistoryInv
<1>1. UNCHANGED <<file, old, pruned, waived, jobVars, failVars, resetting, missing, tainted>>
      /\ turn[u].step = "answered"
  BY DEF Saves
<1>2. /\ used.rows \in Nat /\ used.rows + 1 \in Ids
      /\ used' = [used EXCEPT !.rows = @ + 1]
      /\ rows' = [rows EXCEPT ![u] = @ \union {used.rows + 1}]
  BY <1>0, BoundsAreNumbers DEF Saves, HistoryTyped, UsedTyped, Ids
<1>3. /\ used'.rows = used.rows + 1 /\ used'.epochs = used.epochs
      /\ used'.faults = used.faults /\ UsedTyped'
  BY <1>0, <1>2, BoundsAreNumbers DEF HistoryTyped, UsedTyped, Ids
<1>4. /\ rows' \in [Sessions -> SUBSET Ids]
      /\ \A s \in Sessions : rows'[s] = IF s = u THEN rows[s] \union {used.rows + 1} ELSE rows[s]
  BY <1>0, <1>2 DEF HistoryTyped, TableTyped
<1>5. turn \in [Sessions -> TurnRec] /\ turn[u].seen = {} /\ file[u].through \in 0..MaxDialogs
  BY <1>0, <1>1, TableFields DEF Sound, Reading, HistoryTyped, TurnTyped
<1>6. PICK t \in TurnRec : /\ turn' = [turn EXCEPT ![u] = t]
                           /\ t.cursor \in {0, file[u].through} /\ t.seen = {}
  <2>1. PICK step \in {"saved", "pruning"}, n \in {0, file[u].through} :
            turn' = [turn EXCEPT ![u].step = step, ![u].cursor = n]
    BY DEF Saves
  <2>2. PICK t : t = [turn[u] EXCEPT !.step = step, !.cursor = n] OBVIOUS
  <2>3. t \in TurnRec /\ t.cursor = n /\ t.seen = turn[u].seen
    <3>1. n \in 0..MaxDialogs
      <4>1. MaxDialogs \in Nat BY BoundsAreNumbers
      <4> QED BY <1>5, <4>1
    <3>2. /\ turn[u] \in TurnRec
          /\ step \in {"idle", "arrived", "read", "built", "asking", "answered", "pruning",
                       "saved"}
      BY <1>5, <2>1
    <3>3. /\ [turn[u] EXCEPT !.step = step, !.cursor = n] \in TurnRec
          /\ [turn[u] EXCEPT !.step = step, !.cursor = n].cursor = n
          /\ [turn[u] EXCEPT !.step = step, !.cursor = n].seen = turn[u].seen
      BY <3>1, <3>2 DEF TurnRec
    <3> QED BY <2>2, <3>3
  <2>4. turn' = [turn EXCEPT ![u] = t] BY <1>5, <2>1, <2>2
  <2> QED BY <1>5, <2>3, <2>4
<1>7. TurnTyped' /\ \A s \in Sessions : turn'[s] = IF s = u THEN t ELSE turn[s]
  BY <1>5, <1>6 DEF TurnTyped
<1>8. HistoryTyped'
  BY <1>0, <1>1, <1>3, <1>4, <1>7
     DEF HistoryTyped, TableTyped, HolderTyped, JobTyped, FailTyped, Registered, jobVars, failVars
<1>9. HeldOn BY <1>0, SavesHolds
<1>10. CoroStep /\ ReqStep BY <1>0, <1>1, StillCoros, StillReqs DEF jobVars
<1>11. ASSUME NEW s \in Sessions PROVE Tells(s)' /\ Reading(s)' /\ Pends(s)'
  <2>1. Tells(s) /\ Reading(s) /\ Pends(s) BY <1>0 DEF Sound
  <2>2. /\ file[s].through \in Nat /\ turn[s].cursor \in Nat
        /\ file[s].text \subseteq Nat
    BY <1>0, TableFields DEF Ids
  <2>3. Tells(s)'
    <3>1. /\ rows'[s] \union pruned'[s] \union old'[s] \subseteq 1..used'.rows
          /\ rows'[s] \intersect old'[s] = {}
      BY <1>1, <1>2, <1>3, <1>4, <2>1 DEF Tells
    <3>2. \A d \in Owed(s)' : d <= file'[s].through => d \in file'[s].text
      BY <1>1, <1>2, <1>4, <2>1, <2>2 DEF Tells, Owed
    <3>3. file'[s].through <= used'.rows
      BY <1>1, <1>2, <1>3, <2>1, <2>2 DEF Tells
    <3> QED BY <1>1, <2>1, <3>1, <3>2, <3>3 DEF Tells
  <2>4. Pends(s)' BY <1>1, <1>3, <2>1 DEF Pends, jobVars
  <2>5. CASE s = u
    <3>1. turn'[s] = t BY <1>7, <2>5
    <3>2. t.cursor <= used'.rows BY <1>2, <1>3, <1>6, <2>1, <2>2, <2>5 DEF Tells
    <3>3. \A d \in rows'[s] : d <= t.cursor => d \in rows[s] /\ d <= file[s].through
      <4>1. file[s].through <= used.rows BY <2>1 DEF Tells
      <4>2. \A d \in rows[s] : d \in Nat /\ ~(d <= 0) BY <1>2, <2>1 DEF Tells
      <4> QED BY <1>2, <1>4, <1>6, <2>2, <2>5, <4>1, <4>2
    <3>4. Told(s, turn[s].cursor)'
      BY <1>1, <2>1, <3>1, <3>3 DEF Tells, Owed, Told
    <3>5. turn'[s].seen = {} BY <1>6, <3>1
    <3> QED BY <2>3, <2>4, <3>1, <3>2, <3>4, <3>5 DEF Reading
  <2>6. CASE s # u
    <3>1. turn'[s].cursor <= used'.rows BY <1>2, <1>3, <1>7, <2>1, <2>2, <2>6 DEF Reading
    <3>2. turn'[s] = turn[s] /\ rows'[s] = rows[s] BY <1>4, <1>7, <2>6
    <3> QED BY <1>1, <2>1, <2>3, <2>4, <3>1, <3>2, ReadingStays DEF jobVars
  <2> QED BY <2>3, <2>4, <2>5, <2>6
<1>12. ResetOnce' BY <1>1, <1>3 DEF HistoryInv, ResetOnce
<1>13. missing' = {} BY <1>1 DEF HistoryInv
<1> QED BY <1>8, <1>9, <1>10, <1>11, <1>12, <1>13, Assemble

\* Rows are deleted of which the summary tells, or which a reset was to take.
LEMMA PruneSound ==
    ASSUME HistoryInv, NEW u \in Sessions, NEW n, Prune(u, n), Told(u, n),
           UNCHANGED <<epoch, resetting, tainted, used, pending>>,
           \A s \in Sessions : /\ turn'[s].seen = turn[s].seen
                               /\ turn'[s].cursor \in {turn[s].cursor, 0}
                               /\ turn'[s].seen # {} => turn'[s].step = turn[s].step
                               /\ pending[s] = NoJob /\ coro[Own(s)] = NoCoro =>
                                      coro'[Own(s)] = NoCoro,
           NEW s \in Sessions
    PROVE  Tells(s)' /\ Reading(s)' /\ Pends(s)'
<1>0. HistoryTyped /\ Tells(s) /\ Reading(s) /\ Pends(s) BY DEF HistoryInv, Sound
<1>1. /\ UNCHANGED <<file, old, waived>>
      /\ rows'[s] \subseteq rows[s] /\ pruned[s] \subseteq pruned'[s]
      /\ rows'[s] \union pruned'[s] = rows[s] \union pruned[s]
      /\ \A d \in pruned'[s] \ pruned[s] : s = u /\ d \in rows[s] /\ d <= n
  BY <1>0, Pruned
<1>2. Tells(s)'
  <2>1. Owed(s)' \subseteq Owed(s) BY <1>1 DEF Owed
  <2>2. pruned'[s] \ waived'[s] \subseteq file'[s].text BY <1>0, <1>1 DEF Tells, Told
  <2>3. rows'[s] \union pruned'[s] \union old'[s] \subseteq 1..used'.rows
    BY <1>0, <1>1 DEF Tells
  <2> QED BY <1>0, <1>1, <2>1, <2>2, <2>3 DEF Tells
<1>3. Reading(s)'
  <2>1. Told(s, turn[s].cursor)' /\ turn'[s].cursor <= used'.rows
    <3>1. used.rows \in Nat BY <1>0, TableFields
    <3>2. \A d \in rows[s] : ~(d <= 0) BY NothingBeforeOne
    <3> QED BY <1>0, <1>1, <3>1, <3>2 DEF Reading, Told
  <2>2. \A d \in turn'[s].seen : d <= file'[s].through =>
            d \in file'[s].text \union (pruned'[s] \intersect waived'[s])
    BY <1>0, <1>1 DEF Reading
  <2>3. turn'[s].seen # {} =>
           /\ turn'[s].step = "read"
           /\ \/ turn'[s].seen \subseteq rows'[s] \union pruned'[s]
              \/ rows'[s] = {}
              \/ pending'[s] = NoJob /\ coro'[Own(s)] = NoCoro
    BY <1>0, <1>1 DEF Reading
  <2> QED BY <2>1, <2>2, <2>3 DEF Reading
<1>4. Pends(s)' BY <1>0, <1>1 DEF Pends
<1> QED BY <1>2, <1>3, <1>4

LEMMA TurnPrunesStep ==
    ASSUME HistoryInv, NEW u \in Sessions, TurnPrunes(u) PROVE HistoryInv'
<1>0. HistoryTyped /\ Sound /\ Holders BY DEF HistoryInv
<1>1. /\ UNCHANGED <<jobVars, failVars, resetting, missing, tainted, used>>
      /\ Prune(u, turn[u].cursor)
      /\ turn' = [turn EXCEPT ![u].step = "saved", ![u].cursor = 0]
      /\ turn[u].step = "pruning"
  BY DEF TurnPrunes
<1>2. Told(u, turn[u].cursor) /\ turn[u].seen = {} BY <1>0, <1>1 DEF Sound, Reading
<1>3. turn \in [Sessions -> TurnRec] BY <1>0 DEF HistoryTyped, TurnTyped
<1>4. [turn[u] EXCEPT !.step = "saved", !.cursor = 0] \in TurnRec
  <2>1. 0 \in 0..MaxDialogs
    <3>1. MaxDialogs \in Nat BY BoundsAreNumbers
    <3> QED BY <3>1
  <2> QED BY <1>3, <2>1, TurnMade
<1>5. /\ TurnTyped'
      /\ \A s \in Sessions : /\ turn'[s].seen = turn[s].seen
                             /\ turn'[s].cursor \in {turn[s].cursor, 0}
                             /\ turn'[s].seen # {} => turn'[s].step = turn[s].step
  <2>1. turn' = [turn EXCEPT ![u] = [turn[u] EXCEPT !.step = "saved", !.cursor = 0]]
    BY <1>1, <1>3
  <2> QED BY <1>2, <1>3, <1>4, <2>1 DEF TurnTyped, TurnRec
<1>6. TableTyped'
  <2>1. rows' \in [Sessions -> SUBSET Ids] /\ pruned' \in [Sessions -> SUBSET Ids]
        /\ UNCHANGED <<file, old, waived>>
    BY <1>0, <1>1, Pruned
  <2> QED BY <1>0, <2>1 DEF TableTyped, HistoryTyped
<1>7. HistoryTyped'
  BY <1>0, <1>1, <1>5, <1>6
     DEF HistoryTyped, UsedTyped, HolderTyped, JobTyped, FailTyped, Registered, jobVars, failVars
<1>8. HeldOn BY <1>0, <1>1, <1>5, PruneHolds DEF jobVars
<1>9. CoroStep /\ ReqStep
  <2>1. UNCHANGED <<file, coro, req>> BY <1>1 DEF Prune, jobVars
  <2> QED BY <1>0, <2>1, StillCoros, StillReqs
<1>10. \A s \in Sessions : Tells(s)' /\ Reading(s)' /\ Pends(s)'
  BY <1>1, <1>2, <1>5, PruneSound DEF jobVars
<1>11. ResetOnce' /\ missing' = {}
  BY <1>1 DEF HistoryInv, ResetOnce, Prune
<1> QED BY <1>7, <1>8, <1>9, <1>10, <1>11, Assemble

LEMMA RequestPrunesStep ==
    ASSUME HistoryInv, NEW r \in Requests, RequestPrunes(r) PROVE HistoryInv'
<1> DEFINE u == req[r].session
<1>0. HistoryTyped /\ Sound /\ Holders BY DEF HistoryInv
<1>1. /\ UNCHANGED <<pending, epoch, failVars, turn, resetting, missing, tainted, used>>
      /\ Prune(u, Last(r)) \/ UNCHANGED dbVars
      /\ Leaves(r, cooling[u]) /\ req[r].step = "pruning"
  BY DEF RequestPrunes
<1>2. u \in Sessions /\ Told(u, Last(r)) BY <1>0, <1>1 DEF Holders, ReqHolds, Last
<1>3. UNCHANGED <<file, old, waived>> BY <1>1 DEF Prune, dbVars
<1>4. /\ HolderTyped' /\ CoroStep /\ ReqStep
      /\ task' \in [Sessions -> Requests \union {None}]
      /\ running' \in [Sessions -> Requests \union {None}]
      /\ active' \in Requests \union {None}
      /\ Registered'
      /\ \A s \in Sessions : pending[s] = NoJob /\ coro[Own(s)] = NoCoro => coro'[Own(s)] = NoCoro
  BY <1>0, <1>1, <1>2, <1>3, LeavesStep
<1>5. CASE UNCHANGED dbVars
  <2>1. HistoryTyped'
    BY <1>0, <1>1, <1>4, <1>5
       DEF HistoryTyped, TableTyped, UsedTyped, JobTyped, TurnTyped, FailTyped, dbVars, failVars
  <2>2. MovesOn BY <1>1, <1>4, <1>5 DEF MovesOn
  <2> QED BY <2>1, <2>2, MovesOnStep
<1>6. CASE Prune(u, Last(r))
  <2>1. TableTyped'
    <3>1. rows' \in [Sessions -> SUBSET Ids] /\ pruned' \in [Sessions -> SUBSET Ids]
      BY <1>0, <1>2, <1>6, Pruned
    <3> QED BY <1>0, <1>3, <3>1 DEF TableTyped, HistoryTyped
  <2>2. HistoryTyped'
    BY <1>0, <1>1, <1>4, <2>1
       DEF HistoryTyped, UsedTyped, JobTyped, TurnTyped, FailTyped, failVars
  <2>3. HeldOn BY <1>0, <1>1, <1>2, <1>6, PruneHolds
  <2>4. \A s \in Sessions : Tells(s)' /\ Reading(s)' /\ Pends(s)'
    BY <1>1, <1>2, <1>4, <1>6, PruneSound
  <2>5. ResetOnce' /\ missing' = {} BY <1>1, <1>3 DEF HistoryInv, ResetOnce
  <2> QED BY <1>4, <2>2, <2>3, <2>4, <2>5, Assemble
<1> QED BY <1>1, <1>5, <1>6

\* A summary is saved.
LEMMA ExtendedStep ==
    ASSUME HistoryInv, NEW r \in Requests, Extended(r) PROVE HistoryInv'
<1>0. HistoryTyped /\ Sound /\ Holders /\ ReqHolds(r) BY DEF HistoryInv, Holders
<1>u. PICK u \in Sessions : u = req[r].session
  <2>1. req[r].step = "asking" BY DEF Extended
  <2> QED BY <1>0, <2>1 DEF ReqHolds
<1>m. PICK m : m = Max(req[r].turns) OBVIOUS
<1>1. /\ UNCHANGED <<rows, old, pruned, waived, running, task, active, epoch, coro, turn,
                     resetting, missing, tainted, used>>
      /\ req[r].step = "asking" /\ coro[Own(u)].step # "loading"
      /\ req' = [req EXCEPT ![r].step = "pruning"]
  BY <1>u DEF Extended
<1>2. Tells(u) /\ Tells(req[r].session) BY <1>0, <1>u DEF Sound
<1>3. /\ u \in Sessions
      /\ file'[u].text = req[r].base.text \union req[r].turns
      /\ file'[u].through = m /\ m \in Nat /\ m <= used.rows /\ file[u].through < m
      /\ \A d \in req[r].turns : d <= m
      /\ Held(u, req[r].epoch, req[r].base, req[r].turns) /\ epoch[u] = req[r].epoch
      /\ \A d \in Owed(u) : d \in file[u].text => d \in file'[u].text
  BY <1>0, <1>2, <1>u, <1>m, ExtendedTells
<1>4. /\ Solid(u, req[r].epoch, req[r].base, req[r].turns)
      /\ ShowsSeen(u, req[r].base, req[r].turns)
      /\ u \notin resetting \union tainted => Fresh(u, req[r].base, req[r].turns)
  BY <1>3 DEF Held
<1>5. /\ req \in [Requests -> ReqRec] /\ file \in [Sessions -> Summary]
      /\ pending \in [Sessions -> Job]
  BY <1>0 DEF HistoryTyped, HolderTyped, TableTyped, JobTyped
<1>6. PICK q \in ReqRec : /\ q.step = "pruning" /\ SameWork(q, req[r])
                          /\ q.cancelled = req[r].cancelled
                          /\ req' = [req EXCEPT ![r] = q]
  <2>1. PICK q : q = [req[r] EXCEPT !.step = "pruning"] OBVIOUS
  <2>2. q \in ReqRec /\ q.step = "pruning" /\ SameWork(q, req[r])
        /\ q.cancelled = req[r].cancelled
    BY <1>5, <2>1 DEF ReqRec, SameWork
  <2>3. req' = [req EXCEPT ![r] = q] BY <1>1, <1>5, <2>1
  <2> QED BY <2>2, <2>3
<1>7. /\ req' \in [Requests -> ReqRec]
      /\ \A p \in Requests : req'[p] = IF p = r THEN q ELSE req[p]
  BY <1>5, <1>6
<1>8. /\ file' \in [Sessions -> Summary]
      /\ \A s \in Sessions : s # u => file'[s] = file[s]
  <2>1. file' = [file EXCEPT ![u] = [text |-> Extends(r), through |-> Last(r)]]
    BY <1>u DEF Extended
  <2>2. Extends(r) \subseteq Ids BY <1>0, ReqFields DEF Extends
  <2>3. Last(r) \in 0..MaxDialogs
    <3>1. used.rows \in 0..MaxDialogs BY <1>0, <1>3, TableFields
    <3>2. MaxDialogs \in Nat BY BoundsAreNumbers
    <3> QED BY <1>3, <1>m, <3>1, <3>2 DEF Last
  <2>4. [text |-> Extends(r), through |-> Last(r)] \in Summary BY <2>2, <2>3 DEF Summary
  <2> QED BY <1>5, <2>1, <2>4
<1>9. /\ pending' \in [Sessions -> Job]
      /\ \A s \in Sessions : s # u => pending'[s] = pending[s]
      /\ pending[u].epoch # req[r].epoch => pending'[u] = pending[u]
      /\ pending'[u].turns \subseteq pending[u].turns
      /\ pending'[u].turns # {} => pending'[u].epoch = pending[u].epoch
  <2> DEFINE left == {d \in pending[u].turns : d > m}
  <2>1. pending' = IF pending[u].epoch # req[r].epoch THEN pending
                   ELSE [pending EXCEPT ![u] = IF left = {} THEN NoJob
                                               ELSE [@ EXCEPT !.turns = left]]
    BY <1>u, <1>m DEF Extended, Last
  <2>2. left \subseteq pending[u].turns OBVIOUS
  <2>3. NoJob \in Job /\ NoJob.turns = {} BY Empties
  <2> HIDE DEF left
  <2>4. /\ [pending[u] EXCEPT !.turns = left] \in Job
        /\ [pending[u] EXCEPT !.turns = left].turns = left
        /\ [pending[u] EXCEPT !.turns = left].epoch = pending[u].epoch
    BY <1>3, <1>5, <2>2 DEF Job
  <2>5. CASE pending[u].epoch # req[r].epoch BY <1>5, <2>1, <2>5
  <2>6. CASE pending[u].epoch = req[r].epoch /\ left = {}
    <3>1. pending' = [pending EXCEPT ![u] = NoJob] BY <2>1, <2>6
    <3> QED BY <1>3, <1>5, <2>3, <2>6, <3>1
  <2>7. CASE pending[u].epoch = req[r].epoch /\ left # {}
    <3>1. pending' = [pending EXCEPT ![u] = [pending[u] EXCEPT !.turns = left]]
      BY <1>5, <2>1, <2>7
    <3> QED BY <1>3, <1>5, <2>2, <2>4, <2>7, <3>1
  <2> QED BY <2>5, <2>6, <2>7
<1>10. HistoryTyped'
  <2>1. FailTyped'
    <3>1. strikes' = [strikes EXCEPT ![u] = 0] BY <1>u DEF Extended
    <3>2. 0 \in 0..FailureLimit
      <4>1. FailureLimit \in Nat \ {0} BY BoundsArePositive
      <4> QED BY <4>1
    <3> QED BY <1>0, <3>1, <3>2 DEF HistoryTyped, FailTyped
  <2>2. HolderTyped'
    <3>1. q.step # "free" BY <1>6
    <3> QED BY <1>0, <1>1, <1>7, <3>1 DEF HistoryTyped, HolderTyped
  <2>3. Registered'
    <3>1. \A p \in Requests : /\ req'[p].session = req[p].session
                              /\ req[p].step # "free" => req'[p].step # "free"
      BY <1>6, <1>7 DEF SameWork
    <3> QED BY <1>0, <1>1, <3>1 DEF HistoryTyped, Registered
  <2> QED BY <1>0, <1>1, <1>8, <1>9, <2>1, <2>2, <2>3
       DEF HistoryTyped, TableTyped, UsedTyped, JobTyped, TurnTyped
<1>11. HeldOn BY <1>0, <1>2, ExtendedHolds
<1>12. CoroStep
  <2>1. ASSUME NEW k \in Coros, coro[k].step = "loading" PROVE file'[k[1]] = file[k[1]]
    <3>1. k[1] \in Sessions /\ k = Own(k[1]) BY <1>0, <2>1, CoroNames DEF Holders, CoroHolds
    <3>2. k[1] # u BY <1>1, <2>1, <3>1
    <3> QED BY <1>8, <3>1, <3>2
  <2> QED BY <1>1, <2>1 DEF CoroStep
<1>13. ReqStep
  <2>2. \A p \in Requests : p # r => \E w \in ReqRec : /\ req'[p] = w /\ w.step = req[p].step
                                                      /\ SameWork(w, req[p])
    BY <1>5, <1>7 DEF SameWork
  <2>3. Told(q.session, Max(q.turns))'
    <3>1. q.session = u /\ Max(q.turns) = m BY <1>6, <1>u, <1>m DEF SameWork
    <3>2. \A d \in rows'[u] : d <= m => d \in file'[u].text
      BY <1>1, <1>3, <1>4, <1>m DEF Solid, Owed
    <3> QED BY <3>1, <3>2 DEF Told
  <2> QED BY <1>1, <1>6, <1>7, <2>2, <2>3 DEF ReqStep
<1>14. ASSUME NEW s \in Sessions, s # u PROVE Tells(s)' /\ Reading(s)' /\ Pends(s)'
  <2>1. Tells(s) /\ Reading(s) /\ Pends(s) BY <1>0 DEF Sound
  <2>2. file'[s] = file[s] /\ pending'[s] = pending[s] BY <1>8, <1>9, <1>14
  <2>3. Tells(s)' BY <1>1, <2>1, <2>2 DEF Tells, Owed
  <2>4. Reading(s)'
    <3>1. turn[s].cursor <= used.rows BY <2>1 DEF Reading
    <3> QED BY <1>1, <2>1, <2>2, <3>1, ReadingStays
  <2>5. Pends(s)' BY <1>1, <2>1, <2>2 DEF Pends
  <2> QED BY <2>3, <2>4, <2>5
<1>15. Tells(u)' /\ Reading(u)' /\ Pends(u)'
  <2>1. Reading(u) /\ Pends(u) BY <1>0, <1>3 DEF Sound
  <2>2. Tells(u)'
    <3>1. \A d \in file'[u].text : d <= m BY <1>3, <1>4, <1>m DEF Solid
    <3>2. \A d \in Owed(u) : d <= m => d \in file'[u].text BY <1>3, <1>4, <1>m DEF Solid
    <3>3. pruned'[u] \ waived'[u] \subseteq file'[u].text
      BY <1>1, <1>2, <1>3 DEF Tells, Owed
    <3>4. u \notin resetting \union tainted => file'[u].text \intersect old[u] = {}
      BY <1>3, <1>4 DEF Fresh
    <3> QED BY <1>1, <1>2, <1>3, <3>1, <3>2, <3>3, <3>4 DEF Tells, Owed
  <2>3. Reading(u)'
    <3>1. Told(u, turn[u].cursor)' /\ turn'[u].cursor <= used'.rows
      <4>1. turn[u].cursor \in Nat /\ turn[u].cursor <= used.rows /\ Told(u, turn[u].cursor)
        BY <1>0, <1>3, <2>1, TableFields DEF Reading
      <4>2. \A d \in rows[u] : d <= turn[u].cursor => d \in file'[u].text \union waived[u]
        BY <1>3, <4>1 DEF Told, Owed
      <4> QED BY <1>1, <4>1, <4>2 DEF Told
    <3>2. \A d \in turn'[u].seen : d <= file'[u].through =>
              d \in file'[u].text \union (pruned'[u] \intersect waived'[u])
      BY <1>1, <1>3, <1>4, <1>m DEF ShowsSeen
    <3>3. turn'[u].seen # {} =>
             /\ turn'[u].step = "read"
             /\ \/ turn'[u].seen \subseteq rows'[u] \union pruned'[u]
                \/ rows'[u] = {}
                \/ pending'[u] = NoJob /\ coro'[Own(u)] = NoCoro
      <4>1. pending[u] = NoJob => pending'[u] = NoJob
        <5>1. NoJob.epoch = 0 BY Empties
        <5>2. req[r].epoch # 0 BY <1>4 DEF Solid
        <5> QED BY <1>9, <5>1, <5>2
      <4> QED BY <1>1, <2>1, <4>1 DEF Reading
    <3> QED BY <3>1, <3>2, <3>3 DEF Reading
  <2>4. Pends(u)' BY <1>1, <1>9, <2>1 DEF Pends
  <2> QED BY <2>2, <2>3, <2>4
<1>16. ResetOnce' /\ missing' = {} BY <1>1 DEF HistoryInv, ResetOnce
<1>17. \A s \in Sessions : Tells(s)' /\ Reading(s)' /\ Pends(s)'
  BY <1>14, <1>15
<1> QED BY <1>10, <1>11, <1>12, <1>13, <1>16, <1>17, Assemble

\* A reset marks the rows of its session.
LEMMA ResetMarksStep ==
    ASSUME HistoryInv, NEW u \in Sessions, ResetMarks(u) PROVE HistoryInv'
<1>0. HistoryTyped /\ Sound /\ Holders BY DEF HistoryInv
<1>1. /\ UNCHANGED <<file, pruned, waived, jobVars, failVars, turn, missing, tainted>>
      /\ "reset" \notin used.faults
      /\ used' = [used EXCEPT !.faults = @ \union {"reset"}]
      /\ resetting' = resetting \union {u}
  BY DEF ResetMarks, May, Fault
<1>2. /\ UsedTyped' /\ used'.rows = used.rows /\ used'.epochs = used.epochs
      /\ "reset" \in used'.faults
  BY <1>0, <1>1 DEF HistoryTyped, UsedTyped
<1>3. /\ rows' \in [Sessions -> SUBSET Ids] /\ old' \in [Sessions -> SUBSET Ids]
      /\ \A s \in Sessions : s # u => rows'[s] = rows[s] /\ old'[s] = old[s]
      /\ \/ rows'[u] = {} /\ old'[u] = old[u] \union rows[u] \union pruned[u]
         \/ rows'[u] = rows[u] /\ old'[u] = old[u]
  <2>1. /\ rows \in [Sessions -> SUBSET Ids] /\ old \in [Sessions -> SUBSET Ids]
        /\ pruned[u] \subseteq Ids
    BY <1>0, TableFields DEF HistoryTyped, TableTyped
  <2>2. CASE /\ rows' = [rows EXCEPT ![u] = {}]
             /\ old' = [old EXCEPT ![u] = @ \union rows[u] \union pruned[u]]
    BY <2>1, <2>2
  <2>3. CASE UNCHANGED <<rows, old>> BY <2>1, <2>3
  <2> QED BY <2>2, <2>3 DEF ResetMarks
<1>4. HistoryTyped'
  BY <1>0, <1>1, <1>2, <1>3
     DEF HistoryTyped, TableTyped, HolderTyped, JobTyped, TurnTyped, FailTyped, Registered,
     jobVars, failVars
<1>5. HeldOn BY <1>0, ResetHolds
<1>6. CoroStep /\ ReqStep BY <1>0, <1>1, StillCoros, StillReqs DEF jobVars
<1>7. ASSUME NEW s \in Sessions PROVE Tells(s)' /\ Reading(s)' /\ Pends(s)'
  <2>1. Tells(s) /\ Reading(s) /\ Pends(s) BY <1>0 DEF Sound
  <2>2. Pends(s)' BY <1>1, <1>2, <1>3, <2>1 DEF Pends, jobVars
  <2>3. turn[s].cursor <= used.rows BY <2>1 DEF Reading
  <2>4. CASE s # u
    <3>1. rows'[s] = rows[s] /\ old'[s] = old[s] BY <1>3, <2>4
    <3>2. Tells(s)' BY <1>1, <1>2, <2>1, <3>1 DEF Tells, Owed
    <3>3. Reading(s)' BY <1>1, <1>2, <2>1, <2>3, <3>1, ReadingStays DEF jobVars
    <3> QED BY <2>2, <3>2, <3>3
  <2>5. CASE s = u
    <3>1. rows'[s] \subseteq rows[s] BY <1>3, <2>5
    <3>2. Tells(s)'
      <4>1. Owed(s)' \subseteq Owed(s) BY <1>1, <3>1 DEF Owed
      <4>2. rows'[s] \intersect old'[s] = {} BY <1>3, <2>1, <2>5 DEF Tells
      <4>3. rows'[s] \union pruned'[s] \union old'[s] \subseteq 1..used'.rows
        BY <1>1, <1>2, <1>3, <2>1, <2>5 DEF Tells
      <4> QED BY <1>1, <1>2, <2>1, <2>5, <4>1, <4>2, <4>3 DEF Tells
    <3>3. Told(s, turn[s].cursor)' /\ turn'[s].cursor <= used'.rows
      BY <1>1, <1>2, <2>1, <3>1 DEF Reading, Told
    <3>4. \A d \in turn'[s].seen : d <= file'[s].through =>
              d \in file'[s].text \union (pruned'[s] \intersect waived'[s])
      BY <1>1, <2>1 DEF Reading
    <3>5. turn'[s].seen # {} =>
             /\ turn'[s].step = "read"
             /\ \/ turn'[s].seen \subseteq rows'[s] \union pruned'[s]
                \/ rows'[s] = {}
                \/ pending'[s] = NoJob /\ coro'[Own(s)] = NoCoro
      BY <1>1, <1>3, <2>1, <2>5 DEF Reading, jobVars
    <3> QED BY <2>2, <3>2, <3>3, <3>4, <3>5 DEF Reading
  <2> QED BY <2>4, <2>5
<1>8. ResetOnce' BY <1>1, <1>2 DEF HistoryInv, ResetOnce
<1>9. missing' = {} BY <1>1 DEF HistoryInv
<1> QED BY <1>4, <1>5, <1>6, <1>7, <1>8, <1>9, Assemble

\* A reset forgets everything else of its session.
LEMMA ResetForgetsStep ==
    ASSUME HistoryInv, NEW u \in Sessions, ResetForgets(u) PROVE HistoryInv'
<1>0. HistoryTyped /\ Sound /\ Holders /\ ResetOnce BY DEF HistoryInv
<1>1. /\ UNCHANGED <<rows, old, turn, missing, active>>
      /\ resetting' = resetting \ {u} /\ u \in resetting
      /\ Cancel(u)
      /\ epoch' = [epoch EXCEPT ![u] = 0]
      /\ pending' = [pending EXCEPT ![u] = NoJob]
      /\ running' = [running EXCEPT ![u] = None]
      /\ task' = [task EXCEPT ![u] = None]
      /\ req' = IF task[u] = None THEN req ELSE [req EXCEPT ![task[u]].cancelled = TRUE]
      /\ strikes' = [strikes EXCEPT ![u] = 0]
      /\ pruned' = [pruned EXCEPT ![u] = {}]
      /\ waived' = [waived EXCEPT ![u] = rows[u]]
      /\ \/ file' = [file EXCEPT ![u] = NoSummary] /\ tainted' = tainted \ {u}
         \/ file' = file /\ tainted' = tainted \union {u}
  BY DEF ResetForgets, Discards
<1>2. /\ coro' \in [Coros -> CoroRec] /\ CoroStep
      /\ \A s \in Sessions : coro'[Own(s)] = coro[Own(s)] \/ coro'[Own(s)] = NoCoro
      /\ coro'[Own(u)] = NoCoro
      /\ UsedTyped' /\ used'.rows = used.rows /\ used'.epochs = used.epochs
      /\ "reset" \in used'.faults <=> "reset" \in used.faults
  <2>1. \A s \in Sessions : s # u => file'[s] = file[s]
    BY <1>0, <1>1 DEF HistoryTyped, TableTyped
  <2> QED BY <1>0, <1>1, <2>1, CancelStep
<1>3. /\ NoSummary \in Summary /\ NoSummary.text = {} /\ NoSummary.through = 0
      /\ NoJob \in Job /\ NoJob.turns = {}
  BY Empties
<1>4. TableTyped' /\ \A s \in Sessions :
          /\ s # u => /\ file'[s] = file[s] /\ pruned'[s] = pruned[s] /\ waived'[s] = waived[s]
                      /\ s \in tainted' <=> s \in tainted
          /\ s = u => /\ pruned'[s] = {} /\ waived'[s] = rows[s]
                      /\ file'[s] = NoSummary \/ (file'[s] = file[s] /\ s \in tainted')
  BY <1>0, <1>1, <1>3 DEF HistoryTyped, TableTyped
<1>5. JobTyped' /\ \A s \in Sessions :
          /\ s # u => epoch'[s] = epoch[s] /\ pending'[s] = pending[s]
          /\ s = u => epoch'[s] = 0 /\ pending'[s] = NoJob
          /\ task'[s] \in {task[s], None} /\ running'[s] \in {running[s], None}
  BY <1>0, <1>1, <1>3 DEF HistoryTyped, JobTyped
<1>6. /\ req' \in [Requests -> ReqRec]
      /\ \A r \in Requests : req'[r].step = req[r].step /\ SameWork(req'[r], req[r])
      /\ \A r \in Requests : req'[r].cancelled => req'[r].step # "free"
  <2>1. req \in [Requests -> ReqRec]
        /\ \A r \in Requests : req[r].cancelled => req[r].step # "free"
    BY <1>0 DEF HistoryTyped, HolderTyped
  <2>2. CASE task[u] = None BY <1>1, <2>1, <2>2 DEF SameWork
  <2>3. CASE task[u] # None
    <3>1. task[u] \in Requests /\ req[task[u]].step # "free"
      BY <1>0, <2>3 DEF HistoryTyped, Registered
    <3>2. PICK q : q = [req[task[u]] EXCEPT !.cancelled = TRUE] OBVIOUS
    <3>3. q \in ReqRec /\ q.step = req[task[u]].step /\ SameWork(q, req[task[u]])
      BY <2>1, <3>1, <3>2 DEF ReqRec, SameWork
    <3>4. req' = [req EXCEPT ![task[u]] = q] BY <1>1, <2>1, <2>3, <3>2
    <3>5. \A r \in Requests : req'[r] = IF r = task[u] THEN q ELSE req[r]
      BY <2>1, <3>1, <3>4
    <3>6. req' \in [Requests -> ReqRec] BY <2>1, <3>1, <3>3, <3>4
    <3>7. \A r \in Requests : req'[r].step = req[r].step /\ SameWork(req'[r], req[r])
      BY <3>3, <3>5 DEF SameWork
    <3>8. \A r \in Requests : req'[r].cancelled => req'[r].step # "free"
      BY <2>1, <3>1, <3>3, <3>5
    <3> QED BY <3>6, <3>7, <3>8
  <2> QED BY <2>2, <2>3
<1>7. HistoryTyped'
  <2>1. FailTyped'
    <3>1. FailureLimit \in Nat BY BoundsArePositive
    <3> QED BY <1>0, <1>1, <3>1 DEF HistoryTyped, FailTyped
  <2>2. Registered'
    <3>1. \A r \in Requests : req'[r].session = req[r].session /\ req'[r].step = req[r].step
      BY <1>6 DEF SameWork
    <3> QED BY <1>0, <1>5, <3>1 DEF HistoryTyped, Registered
  <2>3. HolderTyped' BY <1>2, <1>6 DEF HolderTyped
  <2> QED BY <1>0, <1>1, <1>2, <1>4, <1>5, <2>1, <2>2, <2>3 DEF HistoryTyped, TurnTyped
<1>8. HeldOn BY <1>0, ResetHolds
<1>9. ReqStep BY <1>6 DEF ReqStep
<1>10. ASSUME NEW s \in Sessions, s # u PROVE Tells(s)' /\ Reading(s)' /\ Pends(s)'
  <2>1. Tells(s) /\ Reading(s) /\ Pends(s) BY <1>0 DEF Sound
  <2>2. /\ file'[s] = file[s] /\ pruned'[s] = pruned[s] /\ waived'[s] = waived[s]
        /\ s \in tainted' <=> s \in tainted
        /\ epoch'[s] = epoch[s] /\ pending'[s] = pending[s]
    BY <1>4, <1>5, <1>10
  <2>3. Tells(s)' BY <1>1, <1>2, <1>10, <2>1, <2>2 DEF Tells, Owed
  <2>4. Reading(s)'
    <3>1. turn[s].cursor <= used.rows BY <2>1 DEF Reading
    <3>2. pending[s] = NoJob /\ coro[Own(s)] = NoCoro =>
              pending'[s] = NoJob /\ coro'[Own(s)] = NoCoro
      BY <1>2, <2>2
    <3> QED BY <1>1, <1>2, <2>1, <2>2, <3>1, <3>2, ReadingStays
  <2>5. Pends(s)' BY <1>1, <1>2, <1>10, <2>1, <2>2 DEF Pends
  <2> QED BY <2>3, <2>4, <2>5
<1>11. Tells(u)' /\ Reading(u)' /\ Pends(u)'
  <2>1. Tells(u) /\ Reading(u) /\ Pends(u) /\ waived[u] = {}
    BY <1>0, <1>1 DEF Sound, ResetOnce
  <2>2. /\ pruned'[u] = {} /\ waived'[u] = rows[u] /\ epoch'[u] = 0 /\ pending'[u] = NoJob
        /\ file'[u] = NoSummary \/ (file'[u] = file[u] /\ u \in tainted')
    BY <1>4, <1>5
  <2>3. \A d \in rows[u] \union turn[u].seen : ~(d <= 0)
    <3>1. turn[u].seen \subseteq Ids /\ rows[u] \subseteq Ids BY <1>0, TableFields
    <3>2. MaxDialogs \in Nat BY BoundsAreNumbers
    <3> QED BY <3>1, <3>2 DEF Ids
  <2>4. used.rows \in Nat /\ used.epochs \in Nat BY <1>0, TableFields
  <2>5. Tells(u)' BY <1>1, <1>2, <1>3, <2>1, <2>2, <2>3, <2>4 DEF Tells, Owed
  <2>6. Reading(u)'
    <3>1. Told(u, turn[u].cursor)' BY <1>1, <2>2 DEF Told
    <3>2. \A d \in turn'[u].seen : d <= file'[u].through =>
              d \in file'[u].text \union (pruned'[u] \intersect waived'[u])
      BY <1>1, <1>3, <2>1, <2>2, <2>3 DEF Reading
    <3>3. turn'[u].seen # {} =>
             /\ turn'[u].step = "read"
             /\ \/ turn'[u].seen \subseteq rows'[u] \union pruned'[u]
                \/ rows'[u] = {}
                \/ pending'[u] = NoJob /\ coro'[Own(u)] = NoCoro
      BY <1>1, <1>2, <2>1, <2>2 DEF Reading
    <3>4. turn'[u].cursor <= used'.rows BY <1>1, <1>2, <2>1 DEF Reading
    <3> QED BY <3>1, <3>2, <3>3, <3>4 DEF Reading
  <2>7. Pends(u)' BY <1>2, <1>3, <2>2, <2>4 DEF Pends
  <2> QED BY <2>5, <2>6, <2>7
<1>12. ResetOnce'
  <2>1. "reset" \in used'.faults BY <1>0, <1>1, <1>2 DEF ResetOnce
  <2> QED BY <1>0, <1>1, <1>4, <2>1 DEF ResetOnce
<1>13. missing' = {} BY <1>1 DEF HistoryInv
<1>14. \A s \in Sessions : Tells(s)' /\ Reading(s)' /\ Pends(s)'
  BY <1>10, <1>11
<1> QED BY <1>2, <1>7, <1>8, <1>9, <1>12, <1>13, <1>14, Assemble

\* The process starts again: nothing is held, and a reset that was cut short taints its session.
LEMMA CrashStep == ASSUME HistoryInv, Crash PROVE HistoryInv'
<1>0. HistoryTyped /\ Sound /\ ResetOnce BY DEF HistoryInv
<1>1. /\ UNCHANGED <<rows, file, old, pruned, waived, missing>>
      /\ used' = [used EXCEPT !.faults = @ \union {"crash"}]
      /\ resetting' = {} /\ tainted' = tainted \union resetting /\ active' = None
      /\ pending' = [s \in Sessions |-> NoJob]
      /\ running' = [s \in Sessions |-> None] /\ task' = [s \in Sessions |-> None]
      /\ epoch' = [s \in Sessions |-> 0] /\ strikes' = [s \in Sessions |-> 0]
      /\ coro' = [k \in Coros |-> NoCoro] /\ req' = [r \in Requests |-> NoReq]
      /\ turn' = [s \in Sessions |-> NoTurn]
  BY DEF Crash, Forgotten, Fault, dbVars
<1>2. /\ UsedTyped' /\ used'.rows = used.rows /\ used'.epochs = used.epochs
      /\ "reset" \in used'.faults <=> "reset" \in used.faults
  BY <1>0, <1>1 DEF HistoryTyped, UsedTyped
<1>3. TableTyped' BY <1>0, <1>1 DEF HistoryTyped, TableTyped
<1>4. HolderTyped' BY <1>1, Empties DEF HolderTyped
<1>5. JobTyped' BY <1>1, Empties DEF JobTyped
<1>6. TurnTyped' BY <1>1, Empties DEF TurnTyped
<1>7. FailTyped'
  <2>1. 0 \in 0..FailureLimit BY BoundsArePositive
  <2> QED BY <1>1, <2>1 DEF FailTyped
<1>8. Registered' BY <1>1 DEF Registered
<1>9. Holders' BY <1>1, CoroNames, Empties DEF Holders, CoroHolds, ReqHolds
<1>10. ASSUME NEW s \in Sessions PROVE Tells(s)' /\ Reading(s)' /\ Pends(s)'
  <2>1. Tells(s) BY <1>0 DEF Sound
  <2>2. used.rows \in Nat /\ used.epochs \in Nat BY <1>0, TableFields
  <2>3. turn'[s].seen = {} /\ turn'[s].cursor = 0 /\ epoch'[s] = 0 /\ pending'[s].turns = {}
    BY <1>1, Empties
  <2>4. Tells(s)' BY <1>1, <1>2, <2>1 DEF Tells, Owed
  <2>5. Told(s, turn[s].cursor)'
    <3>1. \A d \in rows'[s] : ~(d <= 0) BY <1>1, NothingBeforeOne
    <3> QED BY <2>3, <3>1 DEF Told
  <2>6. Reading(s)' BY <1>2, <2>2, <2>3, <2>5 DEF Reading
  <2>7. Pends(s)' BY <1>2, <2>2, <2>3 DEF Pends
  <2> QED BY <2>4, <2>6, <2>7
<1>11. ResetOnce' BY <1>0, <1>1, <1>2 DEF ResetOnce
<1>12. missing' = {} BY <1>1 DEF HistoryInv
<1>13. HistoryTyped' BY <1>2, <1>3, <1>4, <1>5, <1>6, <1>7, <1>8 DEF HistoryTyped
<1> QED BY <1>9, <1>10, <1>11, <1>12, <1>13 DEF HistoryInv, Sound

\* A job of a session, from which prompts are filled, has no rows from before a reset.
LEMMA RunningIsFresh ==
    ASSUME HistoryInv, NEW s \in Sessions, s \notin resetting \union tainted,
           running[s] # None, req[running[s]].epoch = epoch[s]
    PROVE  req[running[s]].turns \intersect old[s] = {}
<1>1. PICK r \in Requests : r = running[s] /\ req[r].session = s /\ req[r].step # "free"
  BY DEF HistoryInv, HistoryTyped, JobTyped, Registered
<1>2. Held(s, epoch[s], req[r].base, req[r].turns)
  BY <1>1 DEF HistoryInv, Holders, ReqHolds
<1> QED BY <1>1, <1>2 DEF Held, Fresh

\* What a turn stages.
LEMMA StagedJob ==
    ASSUME HistoryInv, NEW s \in Sessions, NEW omitted \in SUBSET Ids
    PROVE  /\ Staged(s, omitted) \in Job
           /\ omitted \subseteq Staged(s, omitted).turns
           /\ omitted # {} => Staged(s, omitted).epoch = NextEpoch(s)
           /\ omitted = {} => Staged(s, omitted) = pending[s]
           /\ s \notin resetting \union tainted /\ omitted \intersect old[s] = {} =>
                  Staged(s, omitted).turns \intersect old[s] = {}
<1>1. HistoryTyped /\ Pends(s) BY DEF HistoryInv, Sound
<1>2. pending[s] \in Job /\ pending[s].turns \subseteq Ids /\ epoch[s] \in Nat
      /\ used.epochs \in Nat
  BY <1>1, TableFields
<1>3. running[s] # None => req[running[s]].turns \subseteq Ids
  BY <1>1, ReqFields DEF HistoryTyped, JobTyped
<1>4. Base(s) \subseteq Ids BY <1>2, <1>3 DEF Base
<1>5. s \notin resetting \union tainted => Base(s) \intersect old[s] = {}
  BY <1>1, RunningIsFresh DEF Base, Pends
<1>6. CASE omitted = {} BY <1>1, <1>2, <1>6 DEF Staged, Pends
<1>7. CASE omitted # {}
  <2>1. PICK more : /\ more = (IF epoch[s] = 0 THEN {} ELSE Base(s)) OBVIOUS
  <2>2. Staged(s, omitted) = [turns |-> omitted \union more, epoch |-> NextEpoch(s)]
    BY <1>7, <2>1 DEF Staged
  <2>3. NextEpoch(s) \in Nat BY <1>2 DEF NextEpoch
  <2>4. more \subseteq Ids BY <1>4, <2>1
  <2>5. s \notin resetting \union tainted => more \intersect old[s] = {} BY <1>5, <2>1
  <2> QED BY <1>7, <2>2, <2>3, <2>4, <2>5 DEF Job
<1> QED BY <1>6, <1>7

\* A turn builds its prompt, and stages what it leaves out.
LEMMA BuildsStep ==
    ASSUME HistoryInv, NEW u \in Sessions, Builds(u) PROVE HistoryInv'
<1>0. HistoryTyped /\ Sound /\ Holders /\ ResetOnce BY DEF HistoryInv
<1>1. UNCHANGED <<dbVars, running, task, active, coro, req, failVars, resetting>>
  BY DEF Builds
<1>2. /\ turn[u].seen \subseteq Ids /\ pending[u].turns \subseteq Ids
      /\ file[u].through \in 0..MaxDialogs /\ epoch[u] \in Nat /\ used.epochs \in Nat
      /\ used.rows \in Nat
  BY <1>0, TableFields
<1>3. Tells(u) /\ Reading(u) /\ Pends(u) BY <1>0 DEF Sound
<1>4. PICK seen \in SUBSET Ids : seen = turn[u].seen BY <1>2
<1>5. PICK n, shown :
        LET late == {d \in seen \ Newest(n, seen) : d > file[u].through}
            left == Unpersisted(u, Staged(u, late), Newest(n, seen))
        IN /\ pending' = [pending EXCEPT ![u] = Staged(u, late)]
           /\ epoch' = IF late = {} THEN epoch ELSE [epoch EXCEPT ![u] = NextEpoch(u)]
           /\ used' = [used EXCEPT !.epochs = IF epoch'[u] > @ THEN epoch'[u] ELSE @]
           /\ shown \in Projections(Newest(n, seen), left)
           /\ missing' = missing \union
                 ((seen \union pruned[u])
                     \ (file[u].text \union shown \union Spared(u, Newest(n, seen), left)
                            \union (waived[u] \intersect pruned[u])))
           /\ tainted' = IF seen \intersect old[u] = {} THEN tainted ELSE tainted \union {u}
  BY <1>4 DEF Builds
<1>6. PICK kept : kept = Newest(n, seen) OBVIOUS
<1>7. PICK omitted \in SUBSET Ids : omitted = {d \in seen \ kept : d > file[u].through}
  OBVIOUS
<1>8. PICK job \in Job : job = Staged(u, omitted) BY StagedJob
<1>9. /\ omitted \subseteq job.turns
      /\ omitted # {} => job.epoch = NextEpoch(u)
      /\ omitted = {} => job = pending[u]
      /\ u \notin resetting \union tainted /\ omitted \intersect old[u] = {} =>
             job.turns \intersect old[u] = {}
  BY <1>8, StagedJob
<1>29. PICK held : held = Unpersisted(u, job, kept) OBVIOUS
<1>10. /\ pending' = [pending EXCEPT ![u] = job]
       /\ epoch' = IF omitted = {} THEN epoch ELSE [epoch EXCEPT ![u] = NextEpoch(u)]
       /\ used' = [used EXCEPT !.epochs = IF epoch'[u] > @ THEN epoch'[u] ELSE @]
       /\ shown \in Projections(kept, held)
       /\ missing' = missing \union
             ((seen \union pruned[u])
                 \ (file[u].text \union shown \union Spared(u, kept, held)
                        \union (waived[u] \intersect pruned[u])))
       /\ tainted' = IF seen \intersect old[u] = {} THEN tainted ELSE tainted \union {u}
  BY <1>5, <1>6, <1>7, <1>8, <1>29
<1>11. /\ pending' \in [Sessions -> Job] /\ pending'[u] = job
       /\ \A s \in Sessions : s # u => pending'[s] = pending[s]
  BY <1>0, <1>10 DEF HistoryTyped, JobTyped
<1>12. NextEpoch(u) \in Nat \ {0} /\ (NextEpoch(u) = epoch[u] \/ NextEpoch(u) > used.epochs)
  BY <1>2 DEF NextEpoch
<1>13. /\ epoch' \in [Sessions -> Nat]
       /\ \A s \in Sessions : s # u => epoch'[s] = epoch[s]
       /\ epoch'[u] = IF omitted = {} THEN epoch[u] ELSE NextEpoch(u)
  <2>1. epoch \in [Sessions -> Nat] BY <1>0 DEF HistoryTyped, JobTyped
  <2> QED BY <1>10, <1>12, <2>1
<1>14. /\ UsedTyped' /\ used'.rows = used.rows /\ used'.faults = used.faults
       /\ used'.epochs \in Nat /\ used.epochs <= used'.epochs /\ epoch'[u] <= used'.epochs
  <2>1. epoch'[u] \in Nat BY <1>13
  <2>2. used \in [rows : 0..MaxDialogs, epochs : Nat, faults : SUBSET {"lost", "reset", "crash"}]
    BY <1>0 DEF HistoryTyped, UsedTyped
  <2>3. PICK e \in Nat : e = IF epoch'[u] > used.epochs THEN epoch'[u] ELSE used.epochs
    BY <1>2, <2>1
  <2>4. used' = [used EXCEPT !.epochs = e] BY <1>10, <2>3
  <2> QED BY <1>2, <2>1, <2>2, <2>3, <2>4 DEF UsedTyped
<1>15. PICK t \in TurnRec : /\ turn' = [turn EXCEPT ![u] = t]
                            /\ t.cursor = turn[u].cursor /\ t.seen = {}
  <2>1. PICK t : t = [turn[u] EXCEPT !.step = "built", !.seen = {}] OBVIOUS
  <2>2. turn \in [Sessions -> TurnRec] BY <1>0 DEF HistoryTyped, TurnTyped
  <2>3. t \in TurnRec /\ t.cursor = turn[u].cursor /\ t.seen = {}
    BY <2>1, <2>2 DEF TurnRec
  <2>4. turn' = [turn EXCEPT ![u] = t] BY <2>1, <2>2 DEF Builds
  <2> QED BY <2>3, <2>4
<1>16. TurnTyped' /\ \A s \in Sessions : turn'[s] = IF s = u THEN t ELSE turn[s]
  BY <1>0, <1>15 DEF HistoryTyped, TurnTyped
<1>17. HistoryTyped'
  BY <1>0, <1>1, <1>11, <1>13, <1>14, <1>16
     DEF HistoryTyped, TableTyped, HolderTyped, JobTyped, FailTyped, Registered, dbVars,
     failVars
<1>18. Quiet
  <2>1. \A s \in Sessions : epoch'[s] = epoch[s] \/ epoch'[s] > used.epochs
    BY <1>12, <1>13
  <2>2. \A s \in Sessions : turn'[s].seen \subseteq turn[s].seen BY <1>15, <1>16
  <2>3. tainted \subseteq tainted' BY <1>10
  <2> QED BY <1>1, <1>14, <2>1, <2>2, <2>3 DEF Quiet
<1>19. HeldOn BY <1>0, <1>18, QuietHolds
<1>20. CoroStep /\ ReqStep BY <1>0, <1>1, StillCoros, StillReqs DEF dbVars
<1>21. ASSUME NEW s \in Sessions PROVE Tells(s)'
  BY <1>0, <1>1, <1>10, <1>14 DEF Sound, Tells, Owed, dbVars
<1>22. ASSUME NEW s \in Sessions, s # u PROVE Reading(s)' /\ Pends(s)'
  <2>1. Reading(s) /\ Pends(s) BY <1>0 DEF Sound
  <2>2. /\ turn'[s] = turn[s] /\ pending'[s] = pending[s] /\ epoch'[s] = epoch[s]
    BY <1>11, <1>13, <1>16, <1>22
  <2>3. Reading(s)'
    <3>1. turn'[s].cursor <= used'.rows BY <1>14, <2>1, <2>2 DEF Reading
    <3> QED BY <1>1, <2>1, <2>2, <3>1, ReadingStays DEF dbVars
  <2>4. s \in tainted' <=> s \in tainted BY <1>10, <1>22
  <2>5. epoch[s] \in Nat /\ pending[s].epoch \in Nat BY <1>0, TableFields
  <2>6. Pends(s)' BY <1>1, <1>2, <1>14, <2>1, <2>2, <2>4, <2>5 DEF Pends, dbVars
  <2> QED BY <2>3, <2>6
<1>23. Reading(u)'
  <2>1. turn'[u] = t BY <1>16
  <2>2. Told(u, turn[u].cursor)' /\ turn'[u].cursor <= used'.rows
    BY <1>1, <1>3, <1>14, <1>15, <2>1 DEF Reading, Told, dbVars
  <2>3. turn'[u].seen = {} BY <1>15, <2>1
  <2> QED BY <2>2, <2>3 DEF Reading
<1>24. Pends(u)'
  <2>1. job.turns # {} => job.epoch \in 1..used'.epochs
    <3>1. CASE omitted = {} BY <1>2, <1>3, <1>9, <1>14, <3>1 DEF Pends
    <3>2. CASE omitted # {} BY <1>9, <1>12, <1>13, <1>14, <3>2
    <3> QED BY <3>1, <3>2
  <2>2. u \notin resetting' \union tainted' => job.turns \intersect old'[u] = {}
    <3>1. omitted \subseteq seen BY <1>7
    <3>2. u \notin tainted' => seen \intersect old[u] = {} /\ u \notin tainted BY <1>10
    <3> QED BY <1>1, <1>9, <3>1, <3>2 DEF dbVars
  <2> QED BY <1>11, <1>14, <2>1, <2>2 DEF Pends
<1>25. missing' = {}
  <2>1. ASSUME NEW d \in pruned[u]
        PROVE  d \in file[u].text \union (waived[u] \intersect pruned[u])
    BY <1>3 DEF Tells
  <2>2. ASSUME NEW d \in seen, d \notin pruned[u]
        PROVE  \/ d \in file[u].text
               \/ d \in kept \union held /\ d > file[u].through
    <3>1. d \in Nat /\ file[u].through \in Nat
      <4>1. MaxDialogs \in Nat BY BoundsAreNumbers
      <4> QED BY <1>2, <1>4, <2>2, <4>1 DEF Ids
    <3>2. CASE d <= file[u].through BY <1>3, <1>4, <2>2, <3>2 DEF Reading
    <3>3. CASE d > file[u].through
      <4>1. CASE d \in kept BY <3>3, <4>1
      <4>2. CASE d \notin kept
        <5>1. d \in omitted BY <1>7, <2>2, <3>3, <4>2
        <5>2. d \in job.turns BY <1>9, <5>1
        <5> QED BY <1>29, <3>3, <4>2, <5>2 DEF Unpersisted
      <4> QED BY <4>1, <4>2
    <3> QED BY <3>1, <3>2, <3>3
  <2>3. ASSUME NEW d \in seen, d \notin pruned[u], d \in kept \union held,
               d > file[u].through
        PROVE  d \in shown \union Spared(u, kept, held)
    <3>1. CASE held = {} BY <1>10, <2>3, <3>1 DEF Projections
    <3>2. CASE held # {} /\ (d \in held \/ \E e \in kept : e > d)
      BY <2>3, <3>2 DEF Spared
    <3>3. CASE held # {} /\ d \in kept /\ ~\E e \in kept : e > d
      <4>1. PICK m \in 1..Cardinality(kept) : Newest(m, kept) \subseteq shown
        BY <1>10, <3>3 DEF Projections
      <4>2. {e \in kept : e > d} = {} BY <3>3
      <4>3. Cardinality({e \in kept : e > d}) = 0 BY <4>2, FS_EmptySet
      <4>4. 0 < m BY <4>1
      <4>5. d \in Newest(m, kept) BY <3>3, <4>3, <4>4 DEF Newest
      <4> QED BY <4>1, <4>5
    <3> QED BY <2>3, <3>1, <3>2, <3>3
  <2>4. (seen \union pruned[u])
            \ (file[u].text \union shown \union Spared(u, kept, held)
                  \union (waived[u] \intersect pruned[u])) = {}
    BY <2>1, <2>2, <2>3
  <2> QED BY <1>10, <2>4 DEF HistoryInv
<1>26. ResetOnce' BY <1>0, <1>1, <1>14 DEF ResetOnce, dbVars
<1>27. \A s \in Sessions : Tells(s)' /\ Reading(s)' /\ Pends(s)'
  BY <1>21, <1>22, <1>23, <1>24
<1> QED BY <1>17, <1>19, <1>20, <1>25, <1>26, <1>27, Assemble

(***************************************************************************)
(* The invariant holds, and what it says                                   *)
(***************************************************************************)
LEMMA HistoryStarts == ASSUME Init PROVE HistoryInv
<1>1. TableTyped BY Empties DEF Init, TableTyped
<1>2. UsedTyped
  <2>1. 0 \in 0..MaxDialogs BY BoundsAreNumbers
  <2> QED BY <2>1 DEF Init, UsedTyped
<1>3. HolderTyped BY Empties DEF Init, HolderTyped
<1>4. JobTyped BY Empties DEF Init, JobTyped
<1>5. TurnTyped BY Empties DEF Init, TurnTyped
<1>6. FailTyped
  <2>1. 0 \in 0..FailureLimit BY BoundsArePositive
  <2> QED BY <2>1 DEF Init, FailTyped
<1>7. Registered BY DEF Init, Registered
<1>8. Holders BY CoroNames, Empties DEF Init, Holders, CoroHolds, ReqHolds
<1>9. ASSUME NEW s \in Sessions PROVE Tells(s) /\ Reading(s) /\ Pends(s)
  <2>1. /\ rows[s] = {} /\ pruned[s] = {} /\ old[s] = {} /\ waived[s] = {}
        /\ file[s].text = {} /\ file[s].through = 0
        /\ turn[s].seen = {} /\ turn[s].cursor = 0 /\ epoch[s] = 0 /\ pending[s].turns = {}
        /\ used.rows = 0 /\ used.epochs = 0
    BY Empties DEF Init
  <2> QED BY <2>1 DEF Tells, Reading, Pends, Told, Owed
<1>10. ResetOnce BY DEF Init, ResetOnce
<1>11. missing = {} BY DEF Init
<1> QED BY <1>1, <1>2, <1>3, <1>4, <1>5, <1>6, <1>7, <1>8, <1>9, <1>10, <1>11
     DEF HistoryInv, HistoryTyped, Sound

LEMMA HistoryStep == ASSUME HistoryInv, [Next]_vars PROVE HistoryInv'
<1>1. ASSUME NEW s \in Sessions,
             \/ Arrives(s) \/ Reads(s) \/ Builds(s) \/ Asks(s) \/ Answered(s) \/ Saves(s)
             \/ TurnPrunes(s) \/ Ends(s) \/ Refused(s)
      PROVE  HistoryInv'
  BY <1>1, ArrivesStep, ReadsStep, BuildsStep, AsksStep, SavesStep, TurnPrunesStep, EndsStep
<1>2. ASSUME NEW s \in Sessions,
             \/ Wakes(s) \/ Loads(s) \/ CoolsDown(s) \/ ResetMarks(s) \/ ResetForgets(s)
      PROVE  HistoryInv'
  BY <1>2, WakesStep, LoadsStep, IdleStep, ResetMarksStep, ResetForgetsStep
<1>3. ASSUME NEW k \in Coros, NEW r \in Requests, Launches(k, r) PROVE HistoryInv'
  BY <1>3, LaunchesStep
<1>4. ASSUME NEW r \in Requests,
             Extended(r) \/ Outdated(r) \/ Fails(r) \/ RequestPrunes(r) \/ Dies(r)
      PROVE  HistoryInv'
  BY <1>4, ExtendedStep, LeavingStep, RequestPrunesStep
<1>5. CASE BackgroundRuns \/ UNCHANGED vars BY <1>5, IdleStep
<1>6. CASE Crash BY <1>6, CrashStep
<1> QED BY <1>1, <1>2, <1>3, <1>4, <1>5, <1>6 DEF Next

LEMMA HistoryInvHolds == Spec => []HistoryInv
BY HistoryStarts, HistoryStep, PTL DEF Spec

\* Tables, jobs, coroutines, requests and turns have their types, and what is registered for a
\* session is a request of it that is under way (history_policy.py: the module's registries).
THEOREM HistoryTypes == Spec => []TypeOK
<1>1. HistoryInv => TypeOK
  BY DEF HistoryInv, HistoryTyped, TableTyped, HolderTyped, JobTyped, TurnTyped, FailTyped,
     Registered, TypeOK, CoroRec, ReqRec, TurnRec
<1> QED BY <1>1, HistoryInvHolds, PTL

\* For any number of sessions, rows, requests and windows: the summary tells of every row its
\* cursor has passed and of every row that was deleted because of that (_load_durable_
\* history_summary_job, _run_history_summary_job, prune_old_dialogs).
THEOREM SummarySkipsNothing == Spec => []NothingSkipped
<1>1. HistoryInv => NothingSkipped
  BY DEF HistoryInv, Sound, Tells, Owed, NothingSkipped
<1> QED BY <1>1, HistoryInvHolds, PTL

\* And no row falls between the prompt, the summary and the jobs: only while jobs hold rows
\* back does a prompt leave out rows its turn read that the summary does not tell of, and these
\* stand after the cursor, held or kept, and are not the newest
\* (_build_turn_managed_dialog_messages, _unpersisted_history_summary_turns,
\* _resolve_staged_history_projection).
THEOREM PromptsSkipNothing == Spec => []PromptSkipsNothing
<1>1. HistoryInv => PromptSkipsNothing BY DEF HistoryInv, PromptSkipsNothing
<1> QED BY <1>1, HistoryInvHolds, PTL

\* After a reset no summary and no job has a row from before it, whichever requests were under
\* way, for one reset (reset_history_policy_state, _discard_history_summary_jobs: the epoch).
THEOREM ResetsAreFinal == Spec => []ResetIsFinal
<1>1. HistoryInv => ResetIsFinal
  <2>1. SUFFICES ASSUME HistoryInv, NEW s \in Sessions, s \notin resetting \union tainted
                 PROVE  /\ file[s].text \intersect old[s] = {}
                        /\ pending[s].turns \intersect old[s] = {}
                        /\ running[s] # None /\ req[running[s]].epoch = epoch[s] =>
                              req[running[s]].turns \intersect old[s] = {}
    BY DEF ResetIsFinal
  <2>2. Tells(s) /\ Pends(s) BY <2>1 DEF HistoryInv, Sound
  <2> QED BY <2>1, <2>2, RunningIsFresh DEF Tells, Pends
<1> QED BY <1>1, HistoryInvHolds, PTL

LEMMA FileStays ==
    ASSUME HistoryInv, [Next]_vars, NEW s \in Sessions \ resetting, file'[s] # file[s]
    PROVE  \E r \in Requests : Extended(r) /\ req[r].session = s
<1>1. file \in [Sessions -> Summary] BY DEF HistoryInv, HistoryTyped, TableTyped
<1>2. \A r \in Requests : Extended(r) => req[r].session = s
  BY <1>1 DEF Extended
<1>3. \A u \in Sessions : ~ResetForgets(u) BY <1>1 DEF ResetForgets
<1>4. \A u \in Sessions :
          ~(Arrives(u) \/ Reads(u) \/ Builds(u) \/ Asks(u) \/ Answered(u) \/ Saves(u)
            \/ TurnPrunes(u) \/ Ends(u) \/ Refused(u))
  BY DEF Arrives, Reads, Builds, Asks, Answered, Saves, TurnPrunes, Ends, Refused, Prune, dbVars
<1>5. \A u \in Sessions : ~(Wakes(u) \/ Loads(u) \/ CoolsDown(u) \/ ResetMarks(u))
  BY DEF Wakes, Loads, CoolsDown, ResetMarks, dbVars
<1>6. \A k \in Coros, r \in Requests : ~Launches(k, r) BY DEF Launches, dbVars
<1>7. \A r \in Requests : ~(Outdated(r) \/ Fails(r) \/ RequestPrunes(r) \/ Dies(r))
  BY DEF Outdated, Fails, RequestPrunes, Dies, Prune, dbVars
<1>8. ~(BackgroundRuns \/ Crash \/ UNCHANGED vars) BY DEF BackgroundRuns, Crash, vars, dbVars
<1> QED BY <1>2, <1>3, <1>4, <1>5, <1>6, <1>7, <1>8 DEF Next

\* Of two requests of one session the later summary has all that the earlier one told of, but
\* for rows from before a reset, and a later cursor (_run_history_summary_job).
THEOREM SummaryOnlyGrows == Spec => SummaryGrows
<1>1. ASSUME HistoryInv, [Next]_vars, NEW s \in Sessions \ resetting, file'[s] # file[s]
      PROVE  /\ file[s].text \subseteq file'[s].text \union waived[s]
             /\ file[s].through < file'[s].through
  <2>1. PICK r \in Requests : Extended(r) /\ req[r].session = s BY <1>1, FileStays
  <2>2. HistoryTyped /\ ReqHolds(r) /\ Tells(req[r].session)
    BY <1>1, <2>1 DEF HistoryInv, Holders, Sound
  <2>3. /\ file'[s].text = req[r].base.text \union req[r].turns
        /\ file'[s].through = Max(req[r].turns) /\ file[s].through < Max(req[r].turns)
        /\ Held(s, req[r].epoch, req[r].base, req[r].turns) /\ epoch[s] = req[r].epoch
        /\ \A d \in Owed(s) : d \in file[s].text => d \in file'[s].text
    BY <2>1, <2>2, ExtendedTells
  <2>4. file[s].text \subseteq req[r].base.text \union Known(s) BY <1>1, <2>3 DEF Held, Akin
  <2> QED BY <2>3, <2>4 DEF Known, Owed
<1>2. HistoryInv /\ [Next]_vars =>
          [\A s \in Sessions \ resetting :
              file'[s] # file[s] => /\ file[s].text \subseteq file'[s].text \union waived[s]
                                    /\ file[s].through < file'[s].through]_vars
  BY <1>1
<1> QED BY <1>2, HistoryInvHolds, PTL DEF Spec, SummaryGrows

(***************************************************************************)
(* No job is stranded                                                      *)
(***************************************************************************)
\* Something will see to the job of s.
SeenTo(s) ==
    \/ coro[Own(s)] # NoCoro \/ task[s] # None
    \/ \E r \in Requests : req[r].session = s /\ Current(r)
Stranded(s) == s \notin hushed /\ Ready(pending[s].turns) /\ ~cooling[s] /\ ~SeenTo(s)
Busy == \E u \in Sessions : turn[u].step # "idle"

\* Only a turn under way leaves a job to itself, a background run or not; and a job is of the
\* epoch its session is in, or the end of that turn would not schedule it.
JobInv ==
    /\ cooling \in [Sessions -> BOOLEAN] /\ background \in BOOLEAN
    /\ \A s \in Sessions : pending[s].turns # {} => pending[s].epoch = epoch[s]
    /\ \A s \in Sessions : Stranded(s) => Busy

\* Whatever would have seen to the job of s still does, and the job is the same.
Alike(s) ==
    /\ pending'[s] = pending[s] /\ cooling'[s] = cooling[s] /\ epoch'[s] = epoch[s]
    /\ coro[Own(s)] # NoCoro => coro'[Own(s)] # NoCoro
    /\ task'[s] = task[s]
    /\ \A r \in Requests : req[r].session = s =>
           req'[r].session = s /\ req'[r].epoch = req[r].epoch
    /\ s \in hushed => s \in hushed' \/ coro'[Own(s)] # NoCoro

LEMMA AlikeStrands ==
    ASSUME NEW s \in Sessions, Alike(s), Stranded(s)'
    PROVE  Stranded(s)
<1>1. ~SeenTo(s)
  <2>1. ASSUME NEW r \in Requests, req[r].session = s, Current(r)
        PROVE  req'[r].session = s /\ Current(r)'
    BY <2>1 DEF Alike, Current
  <2> QED BY <2>1 DEF Alike, Stranded, SeenTo
<1> QED BY <1>1 DEF Alike, Stranded, SeenTo

\* Hushed, of a session that is not turned away.
LEMMA HushedStays ==
    ASSUME NEW away, Hushed(away), NEW s \in Sessions, s \notin hushed'
    PROVE  /\ s \in hushed => coro'[Own(s)] # NoCoro
           /\ s \in away /\ Ready(pending[s].turns) => coro'[Own(s)] # NoCoro
BY DEF Hushed

LEMMA AsleepIsThere ==
    ASSUME NEW s
    PROVE  Sleeping(s) # NoCoro
BY DEF Sleeping, NoCoro

LEMMA Assembled ==
    ASSUME JobInv, cooling' \in [Sessions -> BOOLEAN], background' \in BOOLEAN,
           \A s \in Sessions : pending'[s].turns # {} => pending'[s].epoch = epoch'[s],
           Busy' \/ \A s \in Sessions : ~Stranded(s)'
    PROVE  JobInv'
BY DEF JobInv

\* A turn that goes on answers for all jobs.
LEMMA TurnGoesOn ==
    ASSUME HistoryInv, NEW u \in Sessions,
           \/ Arrives(u) \/ Reads(u) \/ Asks(u) \/ Answered(u) \/ Saves(u) \/ TurnPrunes(u)
    PROVE  Busy' /\ UNCHANGED <<pending, epoch, cooling, background>>
<1>1. turn \in [Sessions -> TurnRec] BY DEF HistoryInv, HistoryTyped, TurnTyped
<1>2. turn'[u].step # "idle"
  <2>1. CASE Arrives(u) BY <1>1, <2>1 DEF Arrives, TurnRec
  <2>2. CASE Reads(u) BY <1>1, <2>2 DEF Reads, TurnRec
  <2>3. CASE Asks(u) \/ Answered(u) BY <1>1, <2>3 DEF Asks, Answered, TurnRec
  <2>4. CASE Saves(u) BY <1>1, <2>4 DEF Saves, TurnRec
  <2>5. CASE TurnPrunes(u) BY <1>1, <2>5 DEF TurnPrunes, TurnRec
  <2> QED BY <2>1, <2>2, <2>3, <2>4, <2>5
<1> QED BY <1>2 DEF Busy, Arrives, Reads, Asks, Answered, Saves, TurnPrunes, jobVars, failVars

LEMMA TurnBuilds ==
    ASSUME HistoryInv, JobInv, NEW u \in Sessions, Builds(u)
    PROVE  JobInv'
<1>1. /\ turn \in [Sessions -> TurnRec] /\ pending \in [Sessions -> Job]
      /\ epoch \in [Sessions -> Nat]
  BY DEF HistoryInv, HistoryTyped, TurnTyped, JobTyped
<1>2. turn'[u].step # "idle" BY <1>1 DEF Builds, TurnRec
<1>3. PICK omitted :
          /\ pending' = [pending EXCEPT ![u] = Staged(u, omitted)]
          /\ epoch' = IF omitted = {} THEN epoch ELSE [epoch EXCEPT ![u] = NextEpoch(u)]
  BY DEF Builds
<1>4. ASSUME NEW s \in Sessions, pending'[s].turns # {}
      PROVE  pending'[s].epoch = epoch'[s]
  <2>1. CASE s = u /\ omitted # {}
    BY <1>1, <1>3, <2>1 DEF Staged
  <2>2. CASE s # u \/ omitted = {}
    <3>1. pending'[s] = pending[s] /\ epoch'[s] = epoch[s] BY <1>1, <1>3, <2>2 DEF Staged
    <3> QED BY <1>4, <3>1 DEF JobInv
  <2> QED BY <2>1, <2>2
<1>5. UNCHANGED <<cooling, background>> BY DEF Builds, failVars
<1> QED BY <1>2, <1>4, <1>5, Assembled DEF Busy, JobInv

\* When the last turn ends, or a message is refused while there is none, all that can start is
\* started, unless a background run hushes it.
LEMMA AllScheduled ==
    ASSUME HistoryInv, JobInv, NEW c \in [Coros -> CoroRec], NEW fg \in BOOLEAN,
           coro' = Scheduled(c, fg), background => fg,
           \A s \in Sessions : c[Own(s)] = NoCoro \/ c[Own(s)] = coro[Own(s)],
           Hushed(IF background THEN Sessions ELSE {}),
           UNCHANGED <<pending, task, epoch, req, failVars, background>>,
           NEW s \in Sessions, Stranded(s)'
    PROVE  fg /\ ~background
<1>1. /\ s \notin hushed' /\ Ready(pending[s].turns) /\ ~cooling[s] /\ task[s] = None
      /\ coro'[Own(s)] = NoCoro
  BY DEF Stranded, SeenTo, failVars
<1>2. ~background BY <1>1, HushedStays
<1>3. ASSUME ~fg PROVE FALSE
  <2>1. Own(s) \in Coros /\ Own(s)[1] = s /\ Own(s)[2] = "own" BY CoroNames
  <2>2. coro'[Own(s)] = IF Startable(s, c[Own(s)], cooling[s]) THEN Sleeping(s) ELSE c[Own(s)]
    BY <1>3, <2>1 DEF Scheduled
  <2>3. c[Own(s)] = NoCoro BY <1>1, <2>2, AsleepIsThere
  <2>4. epoch[s] = pending[s].epoch BY <1>1, ReadyHasRows DEF JobInv
  <2>5. Startable(s, c[Own(s)], cooling[s]) BY <1>1, <2>3, <2>4 DEF Startable
  <2> QED BY <1>1, <2>2, <2>5, AsleepIsThere
<1> QED BY <1>2, <1>3

LEMMA TurnEnds ==
    ASSUME HistoryInv, JobInv, NEW u \in Sessions, Ends(u) \/ Refused(u)
    PROVE  JobInv'
<1>1. UNCHANGED <<pending, task, epoch, req, failVars, background>> BY DEF Ends, Refused
<1>2. /\ coro \in [Coros -> CoroRec] /\ NoCoro \in CoroRec /\ turn \in [Sessions -> TurnRec]
      /\ NoTurn.step = "idle"
  BY Empties DEF HistoryInv, HistoryTyped, HolderTyped, TurnTyped
<1>3. ASSUME NEW s \in Sessions, Stranded(s)' PROVE Busy'
  <2>1. CASE Ends(u)
    <3> DEFINE asked == \E v \in Sessions \ {u} : turn[v].step = "asking"
    <3>1. coro' = Scheduled(coro, background \/ asked) /\ Hushed(IF background THEN Sessions ELSE {})
      BY <2>1 DEF Ends
    <3>2. (background \/ asked) /\ ~background
      <4>1. (background \/ asked) \in BOOLEAN OBVIOUS
      <4> HIDE DEF asked
      <4> QED BY <1>1, <1>2, <1>3, <3>1, <4>1, AllScheduled
    <3>3. \A v \in Sessions \ {u} : turn'[v] = turn[v] BY <1>2, <2>1 DEF Ends
    <3> QED BY <3>2, <3>3 DEF Busy
  <2>2. CASE Refused(u)
    <3> DEFINE c == [coro EXCEPT ![Own(u)] = NoCoro]
    <3>1. coro' = Scheduled(c, Foreground) /\ Hushed(IF background THEN Sessions ELSE {})
      BY <2>2 DEF Refused
    <3>2. c \in [Coros -> CoroRec] BY <1>2
    <3>3. \A v \in Sessions : c[Own(v)] = NoCoro \/ c[Own(v)] = coro[Own(v)]
      BY <1>2, CoroNames
    <3>4. Foreground \in BOOLEAN /\ (background => Foreground) BY DEF Foreground, JobInv
    <3>5. Foreground /\ ~background
      <4> HIDE DEF c
      <4> QED BY <1>1, <1>3, <3>1, <3>2, <3>3, <3>4, AllScheduled
    <3>6. turn' = turn BY <2>2 DEF Refused
    <3> QED BY <3>5, <3>6 DEF Foreground, Busy
  <2> QED BY <2>1, <2>2
<1> QED BY <1>1, <1>3, Assembled DEF JobInv, failVars

LEMMA CoroMoves ==
    ASSUME HistoryInv, JobInv, NEW u \in Sessions, Wakes(u) \/ Loads(u)
    PROVE  JobInv'
<1>1. /\ UNCHANGED <<pending, task, epoch, req, failVars, turn, background>>
      /\ Hushed({u}) /\ coro' = [coro EXCEPT ![Own(u)] = coro'[Own(u)]]
  BY DEF Wakes, Loads
<1>2. ASSUME NEW s \in Sessions, Stranded(s)' PROVE Stranded(s)
  <2>1. s \notin hushed' /\ Ready(pending[s].turns) /\ coro'[Own(s)] = NoCoro
    BY <1>1, <1>2 DEF Stranded, SeenTo
  <2>2. s # u BY <1>1, <2>1, HushedStays
  <2>3. coro'[Own(s)] = coro[Own(s)]
    BY <1>1, <2>2, CoroNames DEF HistoryInv, HistoryTyped, HolderTyped
  <2>4. Alike(s) BY <1>1, <2>1, <2>3, HushedStays DEF Alike, failVars
  <2> QED BY <1>2, <2>4, AlikeStrands
<1>3. Busy' <=> Busy BY <1>1 DEF Busy
<1> QED BY <1>1, <1>2, <1>3, Assembled DEF JobInv, failVars

\* A loaded job that does not start leaves its session to the turn that is asking.
LEMMA RequestLaunches ==
    ASSUME HistoryInv, JobInv, NEW k \in Coros, NEW r \in Requests, Launches(k, r)
    PROVE  JobInv'
<1> DEFINE u == k[1]
<1>1. /\ u \in Sessions /\ (k[2] = "own" => k = Own(u))
      /\ \A s \in Sessions : Own(s) \in Coros /\ Own(s)[1] = s
  BY CoroNames
<1>2. /\ coro \in [Coros -> CoroRec] /\ req \in [Requests -> ReqRec]
      /\ pending \in [Sessions -> Job] /\ task \in [Sessions -> Requests \union {None}]
      /\ turn \in [Sessions -> TurnRec]
  BY DEF HistoryInv, HistoryTyped, HolderTyped, JobTyped, TurnTyped
<1>3. /\ UNCHANGED <<epoch, failVars, turn, background>> /\ req[r] = NoReq
      /\ coro' = [coro EXCEPT ![k] = NoCoro]
  BY DEF Launches
<1>4. \A s \in Sessions : s # u => coro'[Own(s)] = coro[Own(s)] BY <1>1, <1>2, <1>3
<1>5. \A s \in Sessions : req[r].session # s BY <1>3, NoneIsNoSession DEF NoReq
<1>6. Busy' <=> Busy BY <1>3 DEF Busy
<1>7. CASE Ready(coro[k].turns) /\ ~Foreground
  <2>1. /\ pending' = [pending EXCEPT ![u] = NoJob] /\ task' = [task EXCEPT ![u] = r]
        /\ req' = [req EXCEPT ![r] = [step |-> "asking", session |-> u,
                       epoch |-> coro[k].epoch, base |-> coro[k].base,
                       turns |-> coro[k].turns, cancelled |-> FALSE]]
        /\ hushed' = hushed
    BY <1>7 DEF Launches
  <2>2. pending'[u].turns = {} BY <1>1, <1>2, <2>1, Empties
  <2>3. ~Ready(pending'[u].turns) BY <2>2, ReadyHasRows
  <2>4. ASSUME NEW s \in Sessions, Stranded(s)' PROVE Stranded(s)
    <3>1. s # u BY <2>3, <2>4 DEF Stranded
    <3>2. /\ pending'[s] = pending[s] /\ task'[s] = task[s] /\ coro'[Own(s)] = coro[Own(s)]
      BY <1>1, <1>2, <1>4, <2>1, <3>1
    <3>3. \A q \in Requests : q # r => req'[q] = req[q] BY <1>2, <2>1
    <3>4. Alike(s) BY <1>3, <1>5, <2>1, <3>2, <3>3 DEF Alike, failVars
    <3> QED BY <2>4, <3>4, AlikeStrands
  <2>5. \A s \in Sessions : pending'[s] \in {pending[s], NoJob} BY <1>2, <2>1
  <2>6. \A s \in Sessions : pending'[s].turns # {} => pending'[s].epoch = epoch'[s]
    BY <1>3, <2>5, Empties DEF JobInv
  <2> QED BY <1>3, <1>6, <2>4, <2>6, Assembled DEF JobInv, failVars
<1>8. CASE ~(Ready(coro[k].turns) /\ ~Foreground)
  <2>1. /\ UNCHANGED <<pending, task, req>>
        /\ Hushed(IF background \/ ~Ready(coro[k].turns) THEN {u} ELSE {})
    BY <1>8 DEF Launches
  <2>2. ASSUME NEW s \in Sessions, Stranded(s)' PROVE Stranded(s) \/ Busy
    <3>1. /\ s \notin hushed' /\ Ready(pending[s].turns) /\ coro'[Own(s)] = NoCoro
      BY <2>1, <2>2 DEF Stranded, SeenTo
    <3>2. CASE s = u
      <4>1. ~background /\ Ready(coro[k].turns) BY <2>1, <3>1, <3>2, HushedStays
      <4> QED BY <1>8, <4>1 DEF Foreground, Busy
    <3>3. CASE s # u
      <4>1. s \in hushed => s \in hushed' \/ coro'[Own(s)] # NoCoro BY <2>1, HushedStays
      <4>2. Alike(s) BY <1>3, <1>4, <2>1, <3>3, <4>1 DEF Alike, failVars
      <4> QED BY <2>2, <4>2, AlikeStrands
    <3> QED BY <3>2, <3>3
  <2> QED BY <1>3, <1>6, <2>1, <2>2, Assembled DEF JobInv, failVars
<1> QED BY <1>7, <1>8

\* A request that leaves schedules the next one of its session, unless its turn, a background
\* run, a cooldown or a new epoch keeps it from doing so.
LEMMA LeavingSchedules ==
    ASSUME HistoryInv, JobInv, NEW r \in Requests, NEW cool \in BOOLEAN, Leaves(r, cool),
           req[r].session \in Sessions, cooling' = [cooling EXCEPT ![req[r].session] = cool],
           UNCHANGED <<pending, epoch, turn, background>>
    PROVE  JobInv'
<1> DEFINE u == req[r].session
<1>1. /\ coro \in [Coros -> CoroRec] /\ req \in [Requests -> ReqRec]
      /\ task \in [Sessions -> Requests \union {None}] /\ cooling \in [Sessions -> BOOLEAN]
  BY DEF HistoryInv, HistoryTyped, HolderTyped, JobTyped, JobInv
<1>2. /\ req' = [req EXCEPT ![r] = NoReq] /\ task' = Unregistered(task, u, r)
      /\ Hushed(IF background \/ cool \/ ~Current(r) THEN {u} ELSE {})
      /\ \/ coro' = coro
         \/ coro' = [coro EXCEPT ![Own(u)] = Sleeping(u)]
      /\ (Current(r) /\ ~Foreground /\ task'[u] = None /\ coro[Own(u)] = NoCoro
             /\ Ready(pending[u].turns) /\ ~cool) =>
                coro' = [coro EXCEPT ![Own(u)] = Sleeping(u)]
  BY DEF Leaves
<1>3. /\ \A q \in Requests : q # r => req'[q] = req[q]
      /\ \A s \in Sessions : s # u => task'[s] = task[s] /\ cooling'[s] = cooling[s]
      /\ cooling'[u] = cool /\ cooling' \in [Sessions -> BOOLEAN]
  BY <1>1, <1>2 DEF Unregistered
<1>4. Own(u) \in Coros /\ \A s \in Sessions : Own(s) = Own(u) => s = u BY CoroNames
<1>5. ASSUME NEW s \in Sessions, Stranded(s)' PROVE Stranded(s) \/ Busy
  <2>1. /\ s \notin hushed' /\ Ready(pending[s].turns) /\ coro'[Own(s)] = NoCoro
        /\ ~cooling'[s] /\ task'[s] = None
    BY <1>5 DEF Stranded, SeenTo
  <2>2. CASE s = u
    <3>1. ~background /\ ~cool /\ Current(r) BY <1>2, <2>1, <2>2, HushedStays
    <3>2. coro'[Own(u)] # Sleeping(u) BY <2>1, <2>2, AsleepIsThere
    <3>3. coro' # [coro EXCEPT ![Own(u)] = Sleeping(u)] BY <1>1, <1>4, <3>2
    <3>4. coro[Own(u)] = NoCoro BY <1>2, <2>1, <2>2, <3>3
    <3>5. Foreground BY <1>2, <2>1, <2>2, <3>1, <3>3, <3>4
    <3> QED BY <3>1, <3>5 DEF Foreground, Busy
  <2>3. CASE s # u
    <3>1. coro'[Own(s)] = coro[Own(s)] BY <1>1, <1>2, <1>4, <2>3, CoroNames
    <3>2. Alike(s)
      <4>1. s \in hushed => s \in hushed' \/ coro'[Own(s)] # NoCoro BY <1>2, HushedStays
      <4> QED BY <1>3, <2>3, <3>1, <4>1 DEF Alike
    <3> QED BY <1>5, <3>2, AlikeStrands
  <2> QED BY <2>2, <2>3
<1>6. Busy' <=> Busy BY DEF Busy
<1> QED BY <1>3, <1>5, <1>6, Assembled DEF JobInv

LEMMA RequestLeaves ==
    ASSUME HistoryInv, JobInv, NEW r \in Requests,
           Outdated(r) \/ Fails(r) \/ RequestPrunes(r) \/ Dies(r)
    PROVE  JobInv'
<1>1. req[r].session \in Sessions
  <2>1. req[r].step # "free"
    BY DEF HistoryInv, HistoryTyped, HolderTyped, Outdated, Fails, RequestPrunes, Dies
  <2> QED BY <2>1 DEF HistoryInv, Holders, ReqHolds
<1>2. cooling \in [Sessions -> BOOLEAN] BY DEF JobInv
<1>3. cooling[req[r].session] \in BOOLEAN BY <1>1, <1>2
<1>4. CASE Fails(r)
  <2>1. PICK cool \in BOOLEAN : cooling' = [cooling EXCEPT ![req[r].session] = cool]
    BY <1>4 DEF Fails, Struck
  <2>2. Leaves(r, cool) BY <1>1, <1>2, <1>4, <2>1 DEF Fails
  <2>3. UNCHANGED <<pending, epoch, turn, background>> BY <1>4 DEF Fails
  <2> QED BY <1>1, <2>1, <2>2, <2>3, LeavingSchedules
<1>5. CASE Outdated(r) \/ RequestPrunes(r) \/ Dies(r)
  <2>1. /\ Leaves(r, cooling[req[r].session])
        /\ UNCHANGED <<pending, epoch, turn, background, cooling>>
    BY <1>5 DEF Outdated, RequestPrunes, Dies, failVars
  <2>2. cooling' = [cooling EXCEPT ![req[r].session] = cooling[req[r].session]]
    BY <1>1, <1>2, <2>1
  <2> QED BY <1>1, <1>3, <2>1, <2>2, LeavingSchedules
<1> QED BY <1>4, <1>5

\* A summary is saved: the request that saved it has yet to leave.
LEMMA SummaryIsSaved ==
    ASSUME HistoryInv, JobInv, NEW r \in Requests, Extended(r)
    PROVE  JobInv'
<1> DEFINE u == req[r].session
<1>1. /\ req \in [Requests -> ReqRec] /\ pending \in [Sessions -> Job]
      /\ cooling \in [Sessions -> BOOLEAN] /\ background \in BOOLEAN
  BY DEF HistoryInv, HistoryTyped, HolderTyped, JobTyped, JobInv
<1>2. /\ UNCHANGED <<task, epoch, coro, turn, background, hushed>>
      /\ cooling' = [cooling EXCEPT ![u] = FALSE]
      /\ req' = [req EXCEPT ![r].step = "pruning"]
      /\ Current(r)
      /\ \A s \in Sessions : s # u => pending'[s] = pending[s]
      /\ \/ pending'[u] \in {pending[u], NoJob}
         \/ pending'[u].epoch = pending[u].epoch /\ pending'[u].turns \subseteq pending[u].turns
  BY <1>1 DEF Extended, Savable
<1>3. \A q \in Requests : req'[q].session = req[q].session /\ req'[q].epoch = req[q].epoch
  BY <1>1, <1>2 DEF ReqRec
<1>4. ASSUME NEW s \in Sessions, Stranded(s)' PROVE Stranded(s)
  <2>1. s # u
    <3>1. Current(r)' BY <1>2, <1>3 DEF Current
    <3> QED BY <1>3, <1>4, <3>1 DEF Stranded, SeenTo
  <2>2. Alike(s) BY <1>1, <1>2, <1>3, <2>1 DEF Alike
  <2> QED BY <1>4, <2>2, AlikeStrands
<1>5. ASSUME NEW s \in Sessions, pending'[s].turns # {}
      PROVE  pending'[s].epoch = epoch'[s]
  <2>1. pending[s].turns # {} /\ pending'[s].epoch = pending[s].epoch
    BY <1>2, <1>5, Empties
  <2> QED BY <1>2, <2>1 DEF JobInv
<1>6. Busy' <=> Busy BY <1>2 DEF Busy
<1> QED BY <1>1, <1>2, <1>4, <1>5, <1>6, Assembled DEF JobInv

LEMMA SessionCools ==
    ASSUME HistoryInv, JobInv, NEW u \in Sessions, CoolsDown(u)
    PROVE  JobInv'
<1>1. /\ UNCHANGED <<pending, task, epoch, coro, req, turn, background>>
      /\ cooling' = [cooling EXCEPT ![u] = FALSE] /\ cooling \in [Sessions -> BOOLEAN]
      /\ hushed \subseteq hushed'
      /\ u \notin hushed' => coro[Own(u)] # NoCoro \/ task[u] # None
  BY DEF CoolsDown, jobVars, JobInv
<1>2. ASSUME NEW s \in Sessions, Stranded(s)' PROVE Stranded(s)
  <2>1. s # u BY <1>1, <1>2 DEF Stranded, SeenTo
  <2>2. Alike(s) BY <1>1, <2>1 DEF Alike
  <2> QED BY <1>2, <2>2, AlikeStrands
<1>3. Busy' <=> Busy BY <1>1 DEF Busy
<1> QED BY <1>1, <1>2, <1>3, Assembled DEF JobInv

\* A reset drops the job of its session and touches no other.
LEMMA SessionForgets ==
    ASSUME HistoryInv, JobInv, NEW u \in Sessions, ResetForgets(u)
    PROVE  JobInv'
<1>1. /\ req \in [Requests -> ReqRec] /\ pending \in [Sessions -> Job]
      /\ epoch \in [Sessions -> Nat] /\ task \in [Sessions -> Requests \union {None}]
      /\ cooling \in [Sessions -> BOOLEAN] /\ background \in BOOLEAN
  BY DEF HistoryInv, HistoryTyped, HolderTyped, JobTyped, JobInv
<1>2. /\ Cancel(u) /\ UNCHANGED <<turn, background>>
      /\ epoch' = [epoch EXCEPT ![u] = 0] /\ pending' = [pending EXCEPT ![u] = NoJob]
      /\ task' = [task EXCEPT ![u] = None] /\ cooling' = [cooling EXCEPT ![u] = FALSE]
      /\ hushed' = hushed \ {u}
      /\ \A s \in Sessions : s # u => file'[s] = file[s]
  <2>1. file \in [Sessions -> Summary] BY DEF HistoryInv, HistoryTyped, TableTyped
  <2> QED BY <2>1 DEF ResetForgets, Discards
<1>3. \A q \in Requests : req'[q].session = req[q].session /\ req'[q].epoch = req[q].epoch
  BY <1>1 DEF ResetForgets, Discards, ReqRec
<1>4. pending'[u].turns = {} BY <1>1, <1>2, Empties
<1>5. \A s \in Sessions : s # u => coro'[Own(s)] = coro[Own(s)]
  <2>1. PICK c : \/ coro' = [coro EXCEPT ![Own(u)] = NoCoro]
                 \/ coro' = [coro EXCEPT ![Own(u)] = NoCoro, ![Stray(u)] = c]
    BY <1>2 DEF Cancel
  <2>2. \A s \in Sessions : s # u => Own(s) \in Coros /\ Own(s) \notin {Own(u), Stray(u)}
    BY CoroNames
  <2>3. coro \in [Coros -> CoroRec] BY DEF HistoryInv, HistoryTyped, HolderTyped
  <2> QED BY <2>1, <2>2, <2>3
<1>6. ASSUME NEW s \in Sessions, Stranded(s)' PROVE Stranded(s)
  <2>1. s # u BY <1>4, <1>6, ReadyHasRows DEF Stranded
  <2>2. Alike(s) BY <1>1, <1>2, <1>3, <1>5, <2>1 DEF Alike
  <2> QED BY <1>6, <2>2, AlikeStrands
<1>7. ASSUME NEW s \in Sessions, pending'[s].turns # {}
      PROVE  pending'[s].epoch = epoch'[s]
  <2>1. s # u BY <1>4, <1>7
  <2> QED BY <1>1, <1>2, <1>7, <2>1 DEF JobInv
<1>8. Busy' <=> Busy BY <1>2 DEF Busy
<1> QED BY <1>1, <1>2, <1>6, <1>7, <1>8, Assembled DEF JobInv

LEMMA JobsStart == ASSUME Init PROVE JobInv
<1>1. /\ cooling \in [Sessions -> BOOLEAN] /\ background \in BOOLEAN
      /\ \A s \in Sessions : pending[s].turns = {}
  BY Empties DEF Init
<1> QED BY <1>1, ReadyHasRows DEF JobInv, Stranded

LEMMA JobStep == ASSUME HistoryInv, JobInv, [Next]_vars PROVE JobInv'
<1>1. ASSUME NEW s \in Sessions,
             \/ Arrives(s) \/ Reads(s) \/ Asks(s) \/ Answered(s) \/ Saves(s) \/ TurnPrunes(s)
      PROVE  JobInv'
  <2>1. Busy' /\ UNCHANGED <<pending, epoch, cooling, background>> BY <1>1, TurnGoesOn
  <2> QED BY <2>1, Assembled DEF JobInv
<1>2. ASSUME NEW s \in Sessions,
             \/ Builds(s) \/ Ends(s) \/ Refused(s) \/ Wakes(s) \/ Loads(s) \/ CoolsDown(s)
             \/ ResetForgets(s)
      PROVE  JobInv'
  BY <1>2, TurnBuilds, TurnEnds, CoroMoves, SessionCools, SessionForgets
<1>3. ASSUME NEW k \in Coros, NEW r \in Requests, Launches(k, r) PROVE JobInv'
  BY <1>3, RequestLaunches
<1>4. ASSUME NEW r \in Requests,
             Extended(r) \/ Outdated(r) \/ Fails(r) \/ RequestPrunes(r) \/ Dies(r)
      PROVE  JobInv'
  BY <1>4, SummaryIsSaved, RequestLeaves
<1>5. CASE (\E s \in Sessions : ResetMarks(s)) \/ BackgroundRuns \/ UNCHANGED vars
  <2>1. /\ UNCHANGED <<pending, task, epoch, coro, req, cooling, turn, hushed>>
        /\ background' \in BOOLEAN
    BY <1>5 DEF ResetMarks, BackgroundRuns, vars, jobVars, failVars, JobInv
  <2>2. \A s \in Sessions : Alike(s) BY <2>1 DEF Alike
  <2>3. Busy' <=> Busy BY <2>1 DEF Busy
  <2> QED BY <2>1, <2>2, <2>3, AlikeStrands, Assembled DEF JobInv
<1>6. CASE Crash
  <2>1. /\ cooling' \in [Sessions -> BOOLEAN] /\ background' \in BOOLEAN
        /\ \A s \in Sessions : pending'[s].turns = {}
    BY <1>6, Empties DEF Crash, Forgotten
  <2> QED BY <2>1, ReadyHasRows, Assembled DEF Stranded
<1> QED BY <1>1, <1>2, <1>3, <1>4, <1>5, <1>6 DEF Next

\* For any number of sessions and requests: when nothing is going on, a job that is ready and
\* not in hushed (see NoJobStranded) has a coroutine or a request to see to it, in whichever order turns ended, requests failed and sessions were reset
\* (schedule_pending_history_summary_jobs, the finally clause of _run_history_summary_job).
THEOREM JobsAreNotStranded == Spec => []NoJobStranded
<1>1. JobInv => NoJobStranded
  BY DEF JobInv, NoJobStranded, Stranded, SeenTo, Busy
<1>2. HistoryInv /\ JobInv /\ [Next]_vars => JobInv' BY JobStep
<1> QED BY <1>1, <1>2, JobsStart, HistoryInvHolds, PTL DEF Spec

=============================================================================
