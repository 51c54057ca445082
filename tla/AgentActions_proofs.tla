-------------------------- MODULE AgentActions_proofs --------------------------
(***************************************************************************)
(* For any set of side effects and any bounds: nothing whose outcome is not *)
(* known is forgotten or begun again, and no approval is used after it was  *)
(* withdrawn.                                                              *)
(***************************************************************************)
EXTENDS AgentActions, TLAPS

\* What the steps do to a run: change its status, turn and pending approval,
\* settle or open one record, or repair all of them.
Keeps(run, next) == \A k \in Keys : Unsettled(run, k) => Unsettled(next, k)

LEMMA NoRunType == NoRun \in Runs
BY BoundsAssumption DEF NoRun, Runs, RecordStates

LEMMA RunType ==
    ASSUME NEW run \in Runs
    PROVE  /\ run.status \in {"none", "running", "paused", "over"}
           /\ run.turn \in 0 .. MaxTurns
           /\ run.pending \in 0 .. MaxAsks
           /\ run.records \in [Keys -> RecordStates]
BY DEF Runs

LEMMA StatusChanged ==
    ASSUME NEW run \in Runs, NEW s \in {"none", "running", "paused", "over"}
    PROVE  /\ [run EXCEPT !.status = s] \in Runs
           /\ Keeps(run, [run EXCEPT !.status = s])
BY DEF Runs, Keeps, Unsettled

LEMMA PendingChanged ==
    ASSUME NEW run \in Runs, NEW p \in 0 .. MaxAsks
    PROVE  /\ [run EXCEPT !.pending = p] \in Runs
           /\ Keeps(run, [run EXCEPT !.pending = p])
BY DEF Runs, Keeps, Unsettled

LEMMA MarkedType ==
    ASSUME NEW run \in Runs, NEW k \in Keys, NEW s \in RecordStates
    PROVE  /\ Marked(run, k, s) \in Runs
           /\ Marked(run, k, s).records[k] = s
           /\ \A j \in Keys \ {k} : Unsettled(run, j) => Unsettled(Marked(run, k, s), j)
BY RunType DEF Marked, Runs, Unsettled

LEMMA RepairedType ==
    ASSUME NEW run \in Runs
    PROVE  Repaired(run) \in Runs /\ Keeps(run, Repaired(run))
BY RunType DEF Repaired, Runs, RecordStates, Keeps, Unsettled

LEMMA DismissedType ==
    ASSUME NEW run \in Runs
    PROVE  Dismissed(run) \in Runs /\ Keeps(run, Dismissed(run))
BY PendingChanged, BoundsAssumption DEF Dismissed, Keeps

LEMMA NewTurnType ==
    ASSUME NEW run \in Runs, NEW t \in 0 .. MaxTurns
    PROVE  NewTurn(run, t) \in Runs /\ Keeps(run, NewTurn(run, t))
<1>1. 0 \in 0 .. MaxAsks
  BY BoundsAssumption
<1>2. NewTurn(run, t) \in Runs
  BY <1>1 DEF NewTurn, Runs
<1>3. NewTurn(run, t).records = run.records
  BY DEF NewTurn, Runs
<1> QED BY <1>2, <1>3 DEF Keeps, Unsettled

LEMMA ContinuedType ==
    ASSUME NEW run \in Runs
    PROVE  Continued(run) \in Runs /\ Keeps(run, Continued(run))
BY StatusChanged DEF Continued

LEMMA KeepsChain ==
    ASSUME NEW a, NEW b, NEW c, Keeps(a, b), Keeps(b, c)
    PROVE  Keeps(a, c)
BY DEF Keeps

\* A key of a side effect in hand is that of a call or of an approved action.
LEMMA KeysAreNotNone == None \notin Keys
BY NoneAssumption DEF Keys

-----------------------------------------------------------------------------
(* The inductive invariant.  What is lost stays recorded because whoever    *)
(* writes the snapshot has read it: the task's state in memory knows every  *)
(* lost side effect too, and what it has in hand is none of them.           *)

KnowsLost(run) == \A k \in lost : Unsettled(run, k)

MemoryKnows == task \in InLoop \cup {"approved"} => KnowsLost(memory)

HandIsRecorded ==
    task \in {"tool", "asked", "approved"} => hand \notin lost /\ Unsettled(disk, hand)

\* The approval that is pending has been asked for and not been withdrawn.
ApprovalIsLive ==
    /\ withdrawn \subseteq 1 .. asks
    /\ approval # None => approval.id \in (1 .. asks) \ withdrawn

IInv == TypeOK /\ LostIsRecorded /\ MemoryKnows /\ HandIsRecorded /\ ApprovalIsLive

THEOREM InitIsInv == Init => IInv
<1> SUFFICES ASSUME Init PROVE IInv
  OBVIOUS
<1> USE DEF Init
<1>1. TypeOK
  <2>1. task \in Tasks /\ hand \in Keys \cup {None} /\ memory \in Runs /\ disk \in Runs
    BY NoRunType DEF Tasks
  <2>2. turns \in 0 .. MaxTurns /\ asks \in 0 .. MaxAsks /\ crashes \in 0 .. MaxCrashes
    BY BoundsAssumption
  <2>3. hand # None <=> task \in {"tool", "asked", "approved"}
    OBVIOUS
  <2> QED BY <2>1, <2>2, <2>3 DEF TypeOK
<1>2. LostIsRecorded /\ MemoryKnows /\ HandIsRecorded /\ ApprovalIsLive
  BY DEF LostIsRecorded, MemoryKnows, KnowsLost, HandIsRecorded, ApprovalIsLive, InLoop
<1> QED BY <1>1, <1>2 DEF IInv

-----------------------------------------------------------------------------
(* Three kinds of steps: the task leaves the session, the loop goes on      *)
(* between two calls, and the task stays as it is.                         *)

LEMMA LeaveStep ==
    ASSUME IInv, Leave, disk' \in Runs, UNCHANGED <<approval, turns, asks, withdrawn>>,
           crashes' \in 0 .. MaxCrashes, orphans' \subseteq Keys, lost' \subseteq Keys,
           \A k \in lost' : Unsettled(disk', k)
    PROVE  IInv'
<1> USE DEF IInv
<1>1. task' = "none" /\ hand' = None /\ memory' = NoRun /\ stopping' = FALSE
  BY DEF Leave
<1>2. TypeOK'
  BY <1>1, NoRunType, KeysAreNotNone DEF TypeOK, Tasks
<1>3. LostIsRecorded'
  BY DEF LostIsRecorded, Unsettled
<1>4. MemoryKnows' /\ HandIsRecorded'
  BY <1>1 DEF MemoryKnows, HandIsRecorded, InLoop
<1>5. ApprovalIsLive'
  BY DEF ApprovalIsLive
<1> QED BY <1>2, <1>3, <1>4, <1>5

LEMMA LoopStep ==
    ASSUME IInv, task' = "model", hand' = None, memory' \in Runs, disk' \in Runs,
           turns' \in 0 .. MaxTurns,
           UNCHANGED <<stopping, approval, orphans, asks, crashes, lost, withdrawn>>,
           \A k \in lost : Unsettled(memory', k) /\ Unsettled(disk', k)
    PROVE  IInv'
<1> USE DEF IInv
<1>1. TypeOK'
  BY KeysAreNotNone DEF TypeOK, Tasks
<1>2. LostIsRecorded' /\ MemoryKnows'
  BY DEF LostIsRecorded, MemoryKnows, KnowsLost, Unsettled
<1>3. HandIsRecorded' /\ ApprovalIsLive'
  BY DEF HandIsRecorded, ApprovalIsLive
<1> QED BY <1>1, <1>2, <1>3

LEMMA DiskStep ==
    ASSUME IInv, UNCHANGED <<task, hand, memory, orphans, counters, lost>>,
           stopping' = stopping \/ stopping' = (task # "none"),
           disk' \in Runs, Keeps(disk, disk'),
           approval' \in Approvals \cup {None}, ApprovalIsLive'
    PROVE  IInv'
<1> USE DEF IInv, counters
<1>1. TypeOK'
  <2>1. asks' = asks /\ asks \in 0 .. MaxAsks /\ withdrawn' \subseteq 1 .. asks'
    BY DEF ApprovalIsLive, TypeOK
  <2>2. withdrawn' \subseteq 1 .. MaxAsks
    BY <2>1, BoundsAssumption
  <2>3. stopping' \in BOOLEAN
    BY DEF TypeOK
  <2>4. task' = "none" => ~stopping'
    BY Zenon DEF TypeOK
  <2>5. /\ task' = task /\ hand' = hand /\ memory' = memory /\ orphans' = orphans
        /\ turns' = turns /\ asks' = asks /\ crashes' = crashes /\ lost' = lost
    OBVIOUS
  <2> QED BY <2>2, <2>3, <2>4, <2>5 DEF TypeOK
<1>2. \A k \in Keys : Unsettled(disk, k) => Unsettled(disk, k)'
  BY DEF Keeps, Unsettled
<1>3. LostIsRecorded'
  BY <1>2 DEF LostIsRecorded, TypeOK
<1>4. MemoryKnows'
  BY DEF MemoryKnows, KnowsLost, Unsettled
<1>5. HandIsRecorded'
  BY <1>2, KeysAreNotNone DEF HandIsRecorded, TypeOK
<1> QED BY <1>1, <1>3, <1>4, <1>5

\* What a write leaves of the lost side effects if it keeps all records, or those
\* of the task's memory.
LEMMA LostOnDisk ==
    ASSUME IInv, NEW run, Keeps(disk, run)
    PROVE  \A k \in lost : Unsettled(run, k)
BY DEF IInv, TypeOK, LostIsRecorded, Keeps

-----------------------------------------------------------------------------
(* Turns                                                                   *)

LEMMA EnterStep ==
    ASSUME IInv, task = "starting", NEW next \in Runs, Keeps(disk, next), Enter(next),
           turns' \in 0 .. MaxTurns
    PROVE  IInv'
<1> USE DEF IInv
<1>1. disk \in Runs /\ hand = None /\ task' = "model" /\ memory' = next
  BY KeysAreNotNone DEF TypeOK, Enter
<1>2. Dismissed(disk) \in Runs /\ Keeps(disk, Dismissed(disk))
  BY <1>1, DismissedType
<1>3. Repaired(Dismissed(disk)) \in Runs /\ Keeps(disk, Repaired(Dismissed(disk)))
  BY <1>2, RepairedType, KeepsChain
<1>4. disk' \in Runs /\ Keeps(disk, disk')
  BY <1>1, <1>2, <1>3 DEF Enter, Keeps
<1>5. \A k \in lost : Unsettled(memory', k) /\ Unsettled(disk', k)
  BY <1>1, <1>4, LostOnDisk
<1> QED BY <1>1, <1>4, <1>5, LoopStep DEF Enter

LEMMA TurnSteps ==
    ASSUME IInv, UserTurn \/ TurnWaits \/ BeginTurn \/ ContinueTurn
    PROVE  IInv'
<1> USE DEF IInv
<1>1. CASE UserTurn
  <2>1. TypeOK'
    BY <1>1 DEF UserTurn, TypeOK, Tasks, counters
  <2>2. LostIsRecorded' /\ MemoryKnows' /\ HandIsRecorded' /\ ApprovalIsLive'
    BY <1>1 DEF UserTurn, LostIsRecorded, MemoryKnows, HandIsRecorded, ApprovalIsLive,
                InLoop, Unsettled, counters
  <2> QED BY <2>1, <2>2
<1>2. CASE TurnWaits
  BY <1>2, LeaveStep DEF TurnWaits, TypeOK, LostIsRecorded, Unsettled, counters
<1>3. disk \in Runs
  BY DEF TypeOK
<1>4. LET prev == Repaired(Dismissed(disk)) IN prev \in Runs /\ Keeps(disk, prev)
  BY <1>3, DismissedType, RepairedType, KeepsChain
<1>5. CASE BeginTurn
  <2>1. turns + 1 \in 0 .. MaxTurns
    BY <1>5, BoundsAssumption DEF BeginTurn, TypeOK
  <2>2. LET next == NewTurn(Repaired(Dismissed(disk)), turns + 1)
        IN  next \in Runs /\ Keeps(disk, next)
    BY <1>4, <2>1, NewTurnType, KeepsChain
  <2> QED BY <1>5, <2>1, <2>2, EnterStep DEF BeginTurn
<1>6. CASE ContinueTurn
  <2>1. LET next == Continued(Repaired(Dismissed(disk)))
        IN  next \in Runs /\ Keeps(disk, next)
    BY <1>4, ContinuedType, KeepsChain
  <2> QED BY <1>6, <2>1, EnterStep DEF ContinueTurn, TypeOK
<1> QED BY <1>1, <1>2, <1>5, <1>6

-----------------------------------------------------------------------------
(* The loop                                                                *)

LEMMA CallKey == ASSUME NEW op \in Ops PROVE <<op, 0>> \in Keys
BY BoundsAssumption DEF Keys

\* A side effect is put in hand: it is open in memory and on disk.
LEMMA StartStep ==
    ASSUME IInv, NEW run \in Runs, NEW k \in Keys, k \notin lost, KnowsLost(run),
           memory' = Marked(run, k, "started"), disk' = memory', hand' = k,
           task' \in {"tool", "approved"},
           UNCHANGED <<stopping, orphans, counters, lost>>,
           approval' \in Approvals \cup {None}, withdrawn' \subseteq 1 .. MaxAsks,
           ApprovalIsLive'
    PROVE  IInv'
<1> USE DEF IInv
<1>1. /\ memory' \in Runs /\ disk' \in Runs
      /\ Unsettled(memory', k)
      /\ \A j \in lost : Unsettled(memory', j)
  <2>1. "started" \in RecordStates /\ lost \subseteq Keys \ {k}
    BY DEF RecordStates, TypeOK
  <2>2. /\ Marked(run, k, "started") \in Runs
        /\ Unsettled(Marked(run, k, "started"), k)
        /\ \A j \in Keys \ {k} : Unsettled(run, j) => Unsettled(Marked(run, k, "started"), j)
    BY <2>1, MarkedType DEF Unsettled
  <2> QED BY <2>1, <2>2 DEF KnowsLost
<1>2. TypeOK'
  <2>1. hand' # None /\ task' \in Tasks /\ task' # "none"
    BY KeysAreNotNone DEF Tasks
  <2>2. /\ stopping' = stopping /\ orphans' = orphans /\ lost' = lost
        /\ turns' = turns /\ asks' = asks /\ crashes' = crashes
    BY DEF counters
  <2> QED BY <1>1, <2>1, <2>2 DEF TypeOK
<1>3. LostIsRecorded' /\ MemoryKnows' /\ HandIsRecorded'
  BY <1>1 DEF LostIsRecorded, MemoryKnows, KnowsLost, HandIsRecorded, Unsettled
<1> QED BY <1>2, <1>3

\* A side effect in hand is settled: the lost ones stay as they are.
LEMMA SettledHand ==
    ASSUME IInv, task \in {"tool", "asked", "approved"}
    PROVE  LET run == Marked(memory, hand, "settled") IN
           run \in Runs /\ \A k \in lost : Unsettled(run, k)
BY MarkedType, KeysAreNotNone
   DEF IInv, TypeOK, RecordStates, MemoryKnows, KnowsLost, HandIsRecorded, InLoop

LEMMA DiskKnows == ASSUME IInv PROVE disk \in Runs /\ \A k \in lost : Unsettled(disk, k)
BY DEF IInv, TypeOK, LostIsRecorded

LEMMA LoopSteps ==
    ASSUME IInv,
           \/ \E op \in Ops : CallTool(op)
           \/ ToolAsks \/ AskReturns \/ ToolReturns \/ Checkpoint \/ RunEnds
    PROVE  IInv'
<1> USE DEF IInv
<1>1. ASSUME NEW op \in Ops, CallTool(op) PROVE IInv'
  <2>1. <<op, 0>> \notin lost /\ KnowsLost(memory) /\ memory \in Runs
    BY <1>1 DEF CallTool, MayStart, MemoryKnows, KnowsLost, InLoop, TypeOK
  <2>2. ApprovalIsLive' /\ approval' \in Approvals \cup {None} /\ withdrawn' \subseteq 1 .. MaxAsks
    BY <1>1 DEF CallTool, ApprovalIsLive, TypeOK, counters
  <2> QED BY <1>1, <2>1, <2>2, CallKey, StartStep DEF CallTool
<1>2. CASE ToolAsks
  <2>1. asks + 1 \in 1 .. MaxAsks /\ asks' = asks + 1 /\ withdrawn' = 1 .. asks
    BY <1>2, BoundsAssumption DEF ToolAsks, TypeOK
  <2>2. hand[1] \in Ops /\ memory.turn \in 0 .. MaxTurns
    BY <1>2, KeysAreNotNone, RunType DEF ToolAsks, TypeOK, Keys
  <2>3. approval' \in Approvals /\ approval'.id = asks + 1
    BY <1>2, <2>1, <2>2 DEF ToolAsks, Approvals
  <2>4. ApprovalIsLive'
    BY <2>1, <2>3 DEF ApprovalIsLive, TypeOK
  <2>5. TypeOK'
    <3>1. asks' \in 0 .. MaxAsks /\ withdrawn' \subseteq 1 .. MaxAsks
      BY <2>1, BoundsAssumption DEF TypeOK
    <3> QED BY <1>2, <2>3, <3>1 DEF ToolAsks, TypeOK, Tasks
  <2>6. LostIsRecorded' /\ MemoryKnows' /\ HandIsRecorded'
    BY <1>2 DEF ToolAsks, LostIsRecorded, MemoryKnows, KnowsLost, HandIsRecorded,
                InLoop, Unsettled
  <2> QED BY <2>4, <2>5, <2>6
<1>3. CASE AskReturns
  <2> DEFINE settled == [Marked(memory, hand, "settled") EXCEPT !.pending = asks]
  <2>1. settled \in Runs /\ Keeps(Marked(memory, hand, "settled"), settled)
    BY <1>3, SettledHand, PendingChanged DEF AskReturns, TypeOK
  <2>2. LET paused == [settled EXCEPT !.status = "paused"] IN
        paused \in Runs /\ Keeps(Marked(memory, hand, "settled"), paused)
    BY <2>1, StatusChanged, KeepsChain
  <2>3. disk' \in Runs /\ \A k \in lost : Unsettled(disk', k)
    BY <1>3, <2>1, <2>2, SettledHand, DiskKnows DEF AskReturns, Keeps, TypeOK
  <2> QED BY <1>3, <2>3, LeaveStep DEF AskReturns, TypeOK, counters
<1>4. CASE ToolReturns
  <2>1. memory' \in Runs /\ \A k \in lost : Unsettled(memory', k)
    BY <1>4, SettledHand DEF ToolReturns
  <2>2. disk' \in Runs /\ \A k \in lost : Unsettled(disk', k)
    BY <1>4, <2>1, DiskKnows DEF ToolReturns
  <2> QED BY <1>4, <2>1, <2>2, LoopStep DEF ToolReturns, TypeOK, counters
<1>5. CASE Checkpoint
  <2>1. hand = None /\ memory \in Runs /\ \A k \in lost : Unsettled(memory, k)
    BY <1>5, KeysAreNotNone DEF Checkpoint, TypeOK, MemoryKnows, KnowsLost, InLoop
  <2> QED BY <1>5, <2>1, LoopStep DEF Checkpoint, TypeOK, control, counters
<1>6. CASE RunEnds
  <2>1. memory \in Runs /\ \A k \in lost : Unsettled(memory, k)
    BY <1>6 DEF RunEnds, TypeOK, MemoryKnows, KnowsLost, InLoop
  <2>2. PICK status \in {"over", "paused"} : disk' \in {disk, [memory EXCEPT !.status = status]}
    BY <1>6 DEF RunEnds
  <2>3. [memory EXCEPT !.status = status] \in Runs /\ Keeps(memory, [memory EXCEPT !.status = status])
    BY <2>1, StatusChanged
  <2>4. lost \subseteq Keys
    BY DEF TypeOK
  <2>5. disk' \in Runs /\ \A k \in lost : Unsettled(disk', k)
    BY <2>1, <2>2, <2>3, <2>4, DiskKnows DEF Keeps
  <2> QED BY <1>6, <2>5, LeaveStep DEF RunEnds, TypeOK, counters
<1> QED BY <1>1, <1>2, <1>3, <1>4, <1>5, <1>6

-----------------------------------------------------------------------------
(* Decisions                                                               *)

LEMMA Consumed ==
    ASSUME IInv, approval # None, approval' = None,
           withdrawn' = withdrawn \cup {approval.id}, asks' = asks
    PROVE  ApprovalIsLive' /\ withdrawn' \subseteq 1 .. MaxAsks
<1>1. approval.id \in 1 .. asks /\ withdrawn \subseteq 1 .. asks
  BY DEF IInv, ApprovalIsLive
<1>2. asks \in 0 .. MaxAsks
  BY DEF IInv, TypeOK
<1>3. withdrawn' \subseteq 1 .. asks
  BY <1>1
<1>4. 1 .. asks \subseteq 1 .. MaxAsks
  BY <1>2, BoundsAssumption
<1>5. ApprovalIsLive'
  BY <1>3 DEF ApprovalIsLive
<1> QED BY <1>3, <1>4, <1>5

LEMMA DecisionSteps ==
    ASSUME IInv,
           \/ Allow \/ AllowNotStarted \/ ApprovedReturns \/ Reject
           \/ Resume \/ ResumeFails \/ DecideNothing \/ Expire
    PROVE  IInv'
<1> USE DEF IInv
<1>1. disk \in Runs /\ Keeps(disk, disk)
  BY DEF TypeOK, Keeps
<1>2. CASE Allow
  <2> DEFINE k == <<approval.op, approval.turn>>
  <2>1. approval \in Approvals /\ approval # None
    BY <1>2 DEF Allow, Consume, TypeOK
  <2>2. k \in Keys
    BY <2>1 DEF Approvals, Keys
  <2>3. k \notin lost /\ KnowsLost(disk)
    BY <1>2 DEF Allow, MayStart, LostIsRecorded, KnowsLost
  <2>4. ApprovalIsLive' /\ approval' = None /\ withdrawn' \subseteq 1 .. MaxAsks
    BY <1>2, Consumed DEF Allow, Consume, counters
  <2>5. /\ memory' = Marked(disk, k, "started") /\ disk' = memory' /\ hand' = k
        /\ task' = "approved" /\ UNCHANGED <<stopping, orphans, counters, lost>>
    BY <1>2 DEF Allow
  <2> HIDE DEF k
  <2> QED BY <1>1, <2>2, <2>3, <2>4, <2>5, StartStep
<1>3. CASE AllowNotStarted
  <2>1. ApprovalIsLive' /\ approval' = None
    BY <1>3, Consumed DEF AllowNotStarted, Consume, counters
  <2> QED BY <1>1, <1>3, <2>1, DiskStep DEF AllowNotStarted, control
<1>4. CASE ApprovedReturns
  <2> DEFINE settled == Marked(memory, hand, "settled")
             done == [settled EXCEPT !.pending = 0]
  <2>1. task = "approved" /\ stopping = stopping' /\ ~stopping
    BY <1>4 DEF ApprovedReturns
  <2>2. settled \in Runs /\ \A k \in lost : Unsettled(settled, k)
    BY <2>1, SettledHand
  <2>3. 0 \in 0 .. MaxAsks /\ lost \subseteq Keys
    BY BoundsAssumption DEF TypeOK
  <2>4. done \in Runs /\ Keeps(settled, done)
    BY <2>2, <2>3, PendingChanged
  <2>5. disk' \in {disk, done}
    BY <1>4 DEF ApprovedReturns
  <2>6. disk' \in Runs /\ \A k \in lost : Unsettled(disk', k)
    BY <2>2, <2>3, <2>4, <2>5, DiskKnows DEF Keeps
  <2>7. /\ task' \in {"resuming", "none"} /\ hand' = None /\ memory' = NoRun
        /\ approval' = approval /\ orphans' = orphans /\ lost' = lost /\ withdrawn' = withdrawn
        /\ turns' = turns /\ asks' = asks /\ crashes' = crashes
    BY <1>4 DEF ApprovedReturns, counters
  <2>8. TypeOK'
    BY <2>1, <2>6, <2>7, NoRunType DEF TypeOK, Tasks
  <2>9. LostIsRecorded' /\ MemoryKnows' /\ HandIsRecorded' /\ ApprovalIsLive'
    BY <2>6, <2>7 DEF LostIsRecorded, MemoryKnows, HandIsRecorded, ApprovalIsLive,
                      InLoop, Unsettled
  <2> QED BY <2>8, <2>9
<1>5. CASE Reject
  <2>1. ApprovalIsLive' /\ approval' = None /\ withdrawn' \subseteq 1 .. MaxAsks
    BY <1>5, Consumed DEF Reject, Consume, counters
  <2>2. /\ task = "none" /\ task' = "resuming" /\ hand' = hand /\ memory' = memory
        /\ disk' = disk /\ stopping' = stopping /\ orphans' = orphans /\ lost' = lost
        /\ turns' = turns /\ asks' = asks /\ crashes' = crashes
    BY <1>5 DEF Reject, Consume, counters
  <2>3. TypeOK'
    BY <2>1, <2>2 DEF TypeOK, Tasks
  <2>4. LostIsRecorded' /\ MemoryKnows' /\ HandIsRecorded'
    BY <2>2 DEF LostIsRecorded, MemoryKnows, HandIsRecorded, InLoop, Unsettled
  <2> QED BY <2>1, <2>3, <2>4
<1>6. Repaired(disk) \in Runs /\ Keeps(disk, Repaired(disk))
  BY <1>1, RepairedType
<1>7. CASE Resume
  <2> DEFINE running == [Repaired(disk) EXCEPT !.status = "running"]
             back == [Repaired(disk) EXCEPT !.status = "running", !.pending = 0]
  <2>1. 0 \in 0 .. MaxAsks
    BY BoundsAssumption
  <2>2. running \in Runs /\ Keeps(disk, running)
    BY <1>6, StatusChanged, KeepsChain
  <2>3. back = [running EXCEPT !.pending = 0]
    BY <1>6 DEF Runs
  <2>4. back \in Runs /\ Keeps(disk, back)
    BY <2>1, <2>2, <2>3, PendingChanged, KeepsChain
  <2>5. memory' = back /\ disk' \in {disk, Repaired(disk), back}
    BY <1>7 DEF Resume
  <2> HIDE DEF back
  <2>6. /\ memory' \in Runs /\ disk' \in Runs
        /\ \A k \in lost : Unsettled(memory', k) /\ Unsettled(disk', k)
    BY <1>1, <1>6, <2>4, <2>5, LostOnDisk
  <2>7. task' = "model" /\ hand' = None /\ turns' \in 0 .. MaxTurns
    BY <1>7, KeysAreNotNone DEF Resume, TypeOK, counters
  <2> QED BY <1>7, <2>6, <2>7, LoopStep DEF Resume, counters
<1>8. CASE ResumeFails
  <2>1. disk' \in Runs /\ \A k \in lost : Unsettled(disk', k)
    BY <1>1, <1>6, <1>8, LostOnDisk DEF ResumeFails
  <2> QED BY <1>8, <2>1, LeaveStep DEF ResumeFails, TypeOK, counters
<1>9. CASE DecideNothing
  <2>1. 0 \in 0 .. MaxAsks
    BY BoundsAssumption
  <2>2. disk' \in Runs /\ Keeps(disk, disk')
    BY <1>1, <1>9, <2>1, PendingChanged DEF DecideNothing
  <2> QED BY <1>9, <2>2, DiskStep DEF DecideNothing, control, TypeOK, ApprovalIsLive, counters
<1>10. CASE Expire
  <2>1. ApprovalIsLive' /\ approval' = None
    BY <1>10, Consumed DEF Expire, counters
  <2> QED BY <1>1, <1>10, <2>1, DiskStep DEF Expire, control
<1> QED BY <1>2, <1>3, <1>4, <1>5, <1>7, <1>8, <1>9, <1>10

-----------------------------------------------------------------------------
(* Controls, and the end of the process                                    *)

LEMMA ControlSteps ==
    ASSUME IInv,
           \/ ControlLooks \/ Stop \/ TurnDropped \/ LoopInterrupted \/ ApprovedInterrupted
           \/ \E k \in orphans : OrphanEnds(k)
           \/ Clear \/ Crash
    PROVE  IInv'
<1> USE DEF IInv
<1>1. disk \in Runs /\ 0 \in 0 .. MaxAsks /\ lost \subseteq Keys
  BY BoundsAssumption DEF TypeOK
<1>2. LET d == [disk EXCEPT !.status = "paused", !.pending = 0] IN d \in Runs /\ Keeps(disk, d)
  <2>1. LET d == [disk EXCEPT !.status = "paused"] IN d \in Runs /\ Keeps(disk, d)
    BY <1>1, StatusChanged
  <2>2. [disk EXCEPT !.status = "paused", !.pending = 0]
            = [[disk EXCEPT !.status = "paused"] EXCEPT !.pending = 0]
    BY <1>1 DEF Runs
  <2> QED BY <1>1, <2>1, <2>2, PendingChanged, KeepsChain
<1>3. LET d == [disk EXCEPT !.status = "over", !.pending = 0] IN d \in Runs /\ Keeps(disk, d)
  <2>1. LET d == [disk EXCEPT !.status = "over"] IN d \in Runs /\ Keeps(disk, d)
    BY <1>1, StatusChanged
  <2>2. [disk EXCEPT !.status = "over", !.pending = 0]
            = [[disk EXCEPT !.status = "over"] EXCEPT !.pending = 0]
    BY <1>1 DEF Runs
  <2> QED BY <1>1, <2>1, <2>2, PendingChanged, KeepsChain
<1>4. CASE ControlLooks
  BY <1>2, <1>4, DiskStep DEF ControlLooks, control, TypeOK, ApprovalIsLive, counters
<1>5. CASE Stop
  <2>1. disk' \in Runs /\ Keeps(disk, disk')
    BY <1>1, <1>3, <1>5 DEF Stop, Keeps
  <2>2. approval' = None /\ ApprovalIsLive'
    BY <1>5 DEF Stop, Discarded, ApprovalIsLive, counters
  <2> QED BY <1>5, <2>1, <2>2, DiskStep DEF Stop, counters
<1>6. CASE TurnDropped
  BY <1>6, LeaveStep, DiskKnows DEF TurnDropped, TypeOK, counters
<1>7. CASE LoopInterrupted
  <2> DEFINE cut == IF task = "model" THEN memory ELSE Marked(memory, hand, "uncertain")
             lostNow == IF task = "tool" THEN lost \cup {hand} ELSE lost
  <2>1. memory \in Runs /\ KnowsLost(memory)
    BY <1>7 DEF LoopInterrupted, TypeOK, MemoryKnows
  <2>2. task # "model" => hand \in Keys /\ Unsettled(disk, hand)
    BY <1>7 DEF LoopInterrupted, TypeOK, HandIsRecorded, InLoop
  <2>3. lostNow \subseteq Keys /\ \A k \in lostNow : Unsettled(disk, k)
    BY <1>1, <1>7, <2>2, DiskKnows DEF LoopInterrupted, InLoop
  <2>4. cut \in Runs /\ \A k \in lostNow : Unsettled(cut, k)
    <3>1. CASE task = "model"
      BY <2>1, <3>1 DEF KnowsLost
    <3>2. CASE task # "model"
      <4>1. LET run == Marked(memory, hand, "uncertain") IN
            /\ run \in Runs /\ run.records[hand] = "uncertain"
            /\ \A k \in Keys \ {hand} : Unsettled(memory, k) => Unsettled(run, k)
        BY <2>1, <2>2, <3>2, MarkedType DEF RecordStates
      <4> QED BY <1>1, <2>1, <3>2, <4>1 DEF KnowsLost, Unsettled
    <3> QED BY <3>1, <3>2
  <2>5. lost' = lostNow /\ disk' \in {disk, [cut EXCEPT !.status = "over"]} /\ Leave
    BY <1>7 DEF LoopInterrupted
  <2>6. UNCHANGED <<approval, orphans, counters, withdrawn>>
    BY <1>7 DEF LoopInterrupted
  <2> HIDE DEF cut, lostNow
  <2>7. LET d == [cut EXCEPT !.status = "over"] IN d \in Runs /\ Keeps(cut, d)
    BY <2>4, StatusChanged
  <2>8. disk' \in Runs /\ \A k \in lost' : Unsettled(disk', k)
    BY <1>1, <2>3, <2>4, <2>5, <2>7 DEF Keeps
  <2> QED BY <2>3, <2>5, <2>6, <2>8, LeaveStep DEF TypeOK, counters
<1>8. task \in {"tool", "approved"} => hand \in Keys /\ Unsettled(disk, hand)
  BY KeysAreNotNone DEF TypeOK, HandIsRecorded
<1>9. CASE ApprovedInterrupted
  <2>1. /\ lost' = lost \cup {hand} /\ orphans' = orphans \cup {hand} /\ disk' = disk /\ Leave
        /\ task = "approved" /\ UNCHANGED <<approval, counters, withdrawn>>
    BY <1>9 DEF ApprovedInterrupted
  <2>2. lost' \subseteq Keys /\ orphans' \subseteq Keys /\ \A k \in lost' : Unsettled(disk', k)
    BY <1>8, <2>1, DiskKnows DEF TypeOK
  <2> QED BY <1>1, <2>1, <2>2, LeaveStep DEF TypeOK, counters
<1>10. ASSUME NEW k \in orphans, OrphanEnds(k) PROVE IInv'
  <2>1. TypeOK'
    BY <1>10 DEF OrphanEnds, TypeOK, control, counters
  <2>2. LostIsRecorded' /\ MemoryKnows' /\ HandIsRecorded' /\ ApprovalIsLive'
    BY <1>10 DEF OrphanEnds, LostIsRecorded, MemoryKnows, KnowsLost, HandIsRecorded,
                 ApprovalIsLive, Unsettled, control, counters
  <2> QED BY <2>1, <2>2
<1>11. CASE Clear
  <2>1. lost = {}
    BY <1>1, <1>11, DiskKnows DEF Clear, MayClear
  <2>2. Leave /\ disk' = NoRun /\ UNCHANGED <<approval, orphans, counters, lost, withdrawn>>
    BY <1>11, KeysAreNotNone DEF Clear, MayClear, Leave, control, TypeOK
  <2> QED BY <2>1, <2>2, NoRunType, LeaveStep DEF TypeOK, counters
<1>12. CASE Crash
  <2>1. /\ lost' = IF task \in {"tool", "approved"} THEN lost \cup {hand} ELSE lost
        /\ orphans' = {} /\ disk' = disk /\ Leave /\ UNCHANGED <<approval, turns, asks, withdrawn>>
    BY <1>12 DEF Crash
  <2>2. lost' \subseteq Keys /\ \A k \in lost' : Unsettled(disk', k)
    BY <1>1, <1>8, <2>1, DiskKnows
  <2>3. crashes' \in 0 .. MaxCrashes
    BY <1>12, BoundsAssumption DEF Crash, TypeOK
  <2> QED BY <1>1, <2>1, <2>2, <2>3, LeaveStep
<1> QED BY <1>4, <1>5, <1>6, <1>7, <1>9, <1>10, <1>11, <1>12

-----------------------------------------------------------------------------
(* Theorems                                                                *)

THEOREM NextKeepsInv == IInv /\ [Next]_vars => IInv'
<1> SUFFICES ASSUME IInv, [Next]_vars PROVE IInv'
  OBVIOUS
<1>1. CASE UNCHANGED vars
  BY <1>1 DEF IInv, TypeOK, LostIsRecorded, MemoryKnows, KnowsLost, HandIsRecorded,
              ApprovalIsLive, Unsettled, InLoop, Tasks, vars, control, counters
<1>2. CASE Next
  BY <1>2, TurnSteps, LoopSteps, DecisionSteps, ControlSteps DEF Next
<1> QED BY <1>1, <1>2

THEOREM RunInvariant == Spec => []IInv
<1>1. Init => IInv
  BY InitIsInv
<1>2. IInv /\ [Next]_vars => IInv'
  BY NextKeepsInv
<1> QED BY <1>1, <1>2, PTL DEF Spec

\* The run's state keeps its types, and a task that leaves the session leaves
\* nothing behind.
THEOREM ActionTypes == Spec => []TypeOK
<1>1. IInv => TypeOK
  BY DEF IInv
<1> QED BY <1>1, RunInvariant, PTL

\* Whatever was cut off stays on record: writes that fail, interrupts, restarts,
\* repairs, new turns and /clear never lose it.
THEOREM LostStaysRecorded == Spec => []LostIsRecorded
<1>1. IInv => LostIsRecorded
  BY DEF IInv
<1> QED BY <1>1, RunInvariant, PTL

\* A side effect begins where CallTool or Allow begins it, and both look at the
\* records first.
LEMMA Begins ==
    ASSUME IInv, Next, task' # task, task' \in {"tool", "approved"}
    PROVE  \/ \E op \in Ops : CallTool(op)
           \/ Allow
BY DEF Next, UserTurn, TurnWaits, BeginTurn, ContinueTurn, Enter, ToolAsks, AskReturns,
       ToolReturns, Checkpoint, RunEnds, AllowNotStarted, ApprovedReturns, Reject, Resume,
       ResumeFails, DecideNothing, Expire, ControlLooks, Stop, TurnDropped, LoopInterrupted,
       ApprovedInterrupted, OrphanEnds, Clear, Crash, Leave, control

\* Nothing that was cut off is begun again under its key.
THEOREM NothingIsReplayed == Spec => NoReplay
<1>1. IInv /\ [Next]_vars =>
        [task' # task /\ task' \in {"tool", "approved"} => hand' \notin lost]_vars
  <2> SUFFICES ASSUME IInv, Next, task' # task, task' \in {"tool", "approved"}
               PROVE  hand' \notin lost
    BY DEF vars, control
  <2>1. ASSUME NEW op \in Ops, CallTool(op) PROVE hand' \notin lost
    BY <2>1 DEF CallTool, MayStart, IInv, MemoryKnows, KnowsLost, InLoop
  <2>2. CASE Allow
    BY <2>2 DEF Allow, MayStart, IInv, LostIsRecorded
  <2> QED BY <2>1, <2>2, Begins
<1> QED BY <1>1, RunInvariant, PTL DEF Spec, NoReplay

\* No approval is acted on twice, or after it was withdrawn.
THEOREM WithdrawnApprovalsNeverRun == Spec => WithdrawnNeverRuns
<1>1. IInv /\ [Next]_vars =>
        [task' # task /\ task' = "approved" =>
            approval # None /\ approval.id \notin withdrawn]_vars
  <2> SUFFICES ASSUME IInv, Next, task' # task, task' = "approved"
               PROVE  approval # None /\ approval.id \notin withdrawn
    BY DEF vars, control
  <2>1. \A op \in Ops : ~CallTool(op)
    BY DEF CallTool
  <2>2. Allow
    BY <2>1, Begins
  <2> QED BY <2>2 DEF Allow, Consume, IInv, ApprovalIsLive
<1> QED BY <1>1, RunInvariant, PTL DEF Spec, WithdrawnNeverRuns
=============================================================================
