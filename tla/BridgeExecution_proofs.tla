----------------------- MODULE BridgeExecution_proofs -----------------------
(***************************************************************************)
(* Proofs about BridgeExecution, for any number of calls, requests,        *)
(* records and messages.  A request that keeps its record has one claimed  *)
(* call at most, and the record shows how far that call is; a refusal on   *)
(* its way to a client, or returned by it, is still what the record says.  *)
(* The record also counts the messages that call has sent, so that a       *)
(* receipt, and the outcome a client draws from it, are true of them.      *)
(***************************************************************************)
EXTENDS BridgeExecution, TLAPS, WellFoundedInduction

BridgeTypeOK ==
    /\ wire \in [Calls -> {"none", "request", "handled"} \union Dispositions]
    /\ result \in [Calls -> Results]
    /\ handling \in [Calls -> {"none", "duplicate", "preparing", "accepted",
                               "running", "lost"} \union Terminal]
    /\ records \in [Requests -> Records]
    /\ forgotten \subseteq Requests

Kept(c) == RequestOf[c] \notin forgotten

\* The record of a request shows how far its claimed call is.
RecordMirrors ==
    \A c \in Calls :
        Kept(c) /\ Claimed(c) => records[RequestOf[c]].state = handling[c]

ClaimedOnce ==
    \A c, d \in Calls :
        /\ Kept(c) /\ Claimed(c) /\ Claimed(d)
        /\ RequestOf[c] = RequestOf[d]
        => c = d

\* The answer recorded is a refusal only of a refused request.
RefusalIsRecorded ==
    \A r \in Requests \ forgotten :
        records[r].response = "rejected" => records[r].state = "rejected"

RefusalStands ==
    \A c \in Calls :
        Kept(c) /\ (wire[c] = "rejected" \/ result[c] = "rejected")
        => records[RequestOf[c]].state = "rejected"

BridgeInv ==
    /\ BridgeTypeOK
    /\ RecordMirrors
    /\ ClaimedOnce
    /\ RefusalIsRecorded
    /\ RefusalStands

-----------------------------------------------------------------------------
(* The store's updates.                                                    *)

(* A blank record and a new one have the type of records.                  *)
LEMMA NewRecords ==
    /\ Blank \in Records
    /\ Blank.state = "none"
    /\ Blank.response = "unknown"
    /\ \A print \in Prints :
          /\ NewRecord(print) \in Records
          /\ NewRecord(print).state = "preparing"
          /\ NewRecord(print).response = "unknown"
<1>1. (CHOOSE p \in Prints : TRUE) \in Prints
  BY BridgeAssumption
<1> QED BY <1>1 DEF Blank, NewRecord, Records, States, Deliveries, Terminal

(* What counting messages does to a record leaves its state and its        *)
(* answer alone.                                                           *)
LEMMA CountingFacts ==
    ASSUME NEW rec \in Records
    PROVE  /\ Started(rec) \in Records
           /\ Started(rec).state = rec.state
           /\ Started(rec).response = rec.response
           /\ Landed(rec) \in Records
           /\ Landed(rec).state = rec.state
           /\ Landed(rec).response = rec.response
           /\ Refreshed(rec) \in Records
           /\ Refreshed(rec).state = rec.state
           /\ Refreshed(rec).response = rec.response
           /\ Succeeded(rec) \in Records
           /\ Succeeded(rec).state = "succeeded"
           /\ Succeeded(rec).response = rec.response
<1>1. /\ Started(rec) \in Records
      /\ Started(rec).state = rec.state
      /\ Started(rec).response = rec.response
  <2>1. /\ rec.attempts + 1 \in Nat
        /\ rec.inflight + 1 \in Nat
        /\ "pending" \in Deliveries
    BY DEF Records, Deliveries
  <2> QED BY <2>1 DEF Started, Records
<1>2. /\ Landed(rec) \in Records
      /\ Landed(rec).state = rec.state
      /\ Landed(rec).response = rec.response
  BY DEF Landed, Records
<1>3. /\ Refreshed(rec) \in Records
      /\ Refreshed(rec).state = rec.state
      /\ Refreshed(rec).response = rec.response
  BY DEF Refreshed, Records, Deliveries
<1>4. /\ Succeeded(rec) \in Records
      /\ Succeeded(rec).state = "succeeded"
      /\ Succeeded(rec).response = rec.response
  BY DEF Succeeded, Records, Deliveries, States, Terminal
<1> QED BY <1>1, <1>2, <1>3, <1>4

(* Update changes one record, when there is one, and no other.             *)
LEMMA UpdateFacts ==
    ASSUME BridgeTypeOK, NEW r \in Requests, NEW f \in Records
    PROVE  /\ Update(r, f) \in [Requests -> Records]
           /\ \A q \in Requests \ {r} : Update(r, f)[q] = records[q]
           /\ Live(r) => /\ Update(r, f)[r].state = f.state
                         /\ Update(r, f)[r].response = f.response
           /\ ~Live(r) => Update(r, f)[r] = records[r]
<1>1. /\ [f EXCEPT !.old = FALSE] \in Records
      /\ [f EXCEPT !.old = FALSE].state = f.state
      /\ [f EXCEPT !.old = FALSE].response = f.response
  BY DEF Records
<1> QED BY <1>1 DEF Update, BridgeTypeOK, Live

-----------------------------------------------------------------------------
(* The two kinds of steps.                                                 *)

\* A step keeps what the record of r shows.
RecordStays(r) ==
    /\ records'[r].state = records[r].state
    /\ \/ records'[r].response = records[r].response
       \/ ~Live(r) /\ records'[r].response = "unknown"

\* A step keeps what a client of the call has been, or will be, told.
ToldStays(c) ==
    wire'[c] = "rejected" \/ result'[c] = "rejected" =>
        \/ wire[c] = "rejected"
        \/ result[c] = "rejected"
        \/ records[RequestOf[c]].state = "rejected"

QuietStep ==
    /\ forgotten \subseteq forgotten'
    /\ \A r \in Requests \ forgotten' : RecordStays(r)
    /\ \A c \in Calls : Claimed(c)' => handling'[c] = handling[c]
    /\ \A c \in Calls : Kept(c)' => ToldStays(c)

(* A step that moves no claimed call and no kept record preserves the      *)
(* invariant, whatever else it loses.                                      *)
LEMMA QuietKeepsInv ==
    ASSUME BridgeInv, BridgeTypeOK', QuietStep
    PROVE  BridgeInv'
<1>1. \A c \in Calls : Kept(c)' => Kept(c) /\ RecordStays(RequestOf[c])
  BY BridgeAssumption DEF QuietStep, Kept
<1>2. \A c \in Calls : Claimed(c)' => Claimed(c) /\ handling'[c] = handling[c]
  BY DEF QuietStep, Claimed
<1>3. RecordMirrors'
  BY <1>1, <1>2 DEF RecordMirrors, BridgeInv, RecordStays, Kept
<1>4. ClaimedOnce'
  BY <1>1, <1>2 DEF ClaimedOnce, BridgeInv, Kept
<1>5. RefusalIsRecorded'
  BY DEF RefusalIsRecorded, BridgeInv, QuietStep, RecordStays
<1>6. RefusalStands'
  BY <1>1 DEF RefusalStands, BridgeInv, QuietStep, ToldStays, RecordStays, Kept
<1> QED BY <1>3, <1>4, <1>5, <1>6 DEF BridgeInv

\* The claimed call c moves on to s, and its record, if kept, with it.
MoveStep(c, s, f) ==
    /\ handling[c] \in {"preparing", "accepted", "running"}
    /\ f \in Records
    /\ f.state = s
    /\ Kept(c) /\ f.response = "rejected" => s = "rejected"
    /\ records' = Update(RequestOf[c], f)
    /\ handling' = [handling EXCEPT ![c] = s]
    /\ \A d \in Calls : wire'[d] = "rejected" =>
                            wire[d] = "rejected" \/ (d = c /\ s = "rejected")
    /\ UNCHANGED <<result, forgotten>>

(* A move of a claimed call preserves the invariant, and moves no record   *)
(* that has come to its end.                                               *)
LEMMA MoveKeepsInv ==
    ASSUME BridgeInv, NEW c \in Calls,
           NEW s \in {"accepted", "running"} \union Terminal, NEW f,
           wire' \in [Calls -> {"none", "request", "handled"} \union Dispositions],
           MoveStep(c, s, f)
    PROVE  /\ BridgeInv'
           /\ \A r \in Requests :
                 records[r].state \in Terminal /\ r \notin forgotten'
                 => RecordStays(r)
<1> DEFINE r == RequestOf[c]
<1>0. r \in Requests /\ f \in Records /\ BridgeTypeOK
  BY BridgeAssumption DEF MoveStep, BridgeInv
<1>1. /\ records' \in [Requests -> Records]
      /\ \A q \in Requests \ {r} : records'[q] = records[q]
      /\ Live(r) => records'[r].state = s /\ records'[r].response = f.response
      /\ ~Live(r) => records'[r] = records[r]
  BY <1>0, UpdateFacts DEF MoveStep
<1>2. /\ handling'[c] = s
      /\ \A d \in Calls \ {c} : handling'[d] = handling[d]
      /\ Claimed(c)
  BY DEF MoveStep, BridgeInv, BridgeTypeOK, Claimed
<1>3. BridgeTypeOK'
  BY <1>1 DEF MoveStep, BridgeInv, BridgeTypeOK, Terminal
<1>4. Kept(c) => /\ records[r].state = handling[c]
                 /\ Live(r)
                 /\ records[r].state \notin Terminal
  BY <1>2 DEF BridgeInv, RecordMirrors, MoveStep, Live, Terminal
<1>5. \A d \in Calls : Kept(d)' <=> Kept(d)
  BY DEF Kept, MoveStep
<1>6. \A d \in Calls \ {c} :
         Kept(d) /\ Claimed(d) => RequestOf[d] \in Requests \ {r}
  BY <1>2, BridgeAssumption DEF BridgeInv, ClaimedOnce
<1>7. RecordMirrors'
  <2>1. Kept(c) => records'[r].state = handling'[c]
    BY <1>1, <1>2, <1>4
  <2>2. \A d \in Calls \ {c} :
           Kept(d) /\ Claimed(d)' => records'[RequestOf[d]].state = handling'[d]
    BY <1>1, <1>2, <1>6 DEF BridgeInv, RecordMirrors, Claimed
  <2> QED BY <2>1, <2>2, <1>5 DEF RecordMirrors
<1>8. ClaimedOnce'
  BY <1>2, <1>5 DEF BridgeInv, ClaimedOnce, Claimed, Kept
<1>9. RefusalIsRecorded'
  <2>1. r \notin forgotten /\ records'[r].response = "rejected" =>
           records'[r].state = "rejected"
    BY <1>1, <1>4 DEF MoveStep, Kept
  <2> QED BY <2>1, <1>1 DEF BridgeInv, RefusalIsRecorded, MoveStep
<1>10. RefusalStands'
  <2>1. \A d \in Calls : Kept(d) /\ RequestOf[d] = r => Kept(c)
    BY DEF Kept
  <2>2. ASSUME NEW d \in Calls, Kept(d)', wire'[d] = "rejected" \/ result'[d] = "rejected"
        PROVE  records'[RequestOf[d]].state = "rejected"
    <3>1. \/ wire[d] = "rejected" \/ result[d] = "rejected"
          \/ d = c /\ s = "rejected"
      BY <2>2 DEF MoveStep
    <3>2. CASE d = c /\ s = "rejected"
      BY <3>2, <2>2, <1>1, <1>4, <1>5
    <3>3. CASE wire[d] = "rejected" \/ result[d] = "rejected"
      <4>1. records[RequestOf[d]].state = "rejected"
        BY <3>3, <2>2, <1>5 DEF BridgeInv, RefusalStands
      <4>2. RequestOf[d] # r
        BY <4>1, <2>1, <2>2, <1>4, <1>5 DEF Terminal
      <4> QED BY <4>1, <4>2, <1>1, BridgeAssumption
    <3> QED BY <3>1, <3>2, <3>3
  <2> QED BY <2>2 DEF RefusalStands
<1>11. \A q \in Requests :
          records[q].state \in Terminal /\ q \notin forgotten' => RecordStays(q)
  BY <1>1, <1>4 DEF MoveStep, Kept, RecordStays
<1> QED BY <1>3, <1>7, <1>8, <1>9, <1>10, <1>11 DEF BridgeInv

-----------------------------------------------------------------------------
(* Every step is of one of the two kinds, except a claim.                  *)

\* What has come to its end stays as it is while it is kept.
EndsStay ==
    \A r \in Requests :
        records[r].state \in Terminal /\ r \notin forgotten' => RecordStays(r)

(* Pruning, by a claim or by a status, forgets what it drops.              *)
LEMMA PruneFacts ==
    ASSUME BridgeInv, NEW rs,
           {q \in Requests : records[q].old} \subseteq rs, Forget(rs)
    PROVE  /\ Pruned \in [Requests -> Records]
           /\ forgotten \subseteq forgotten'
           /\ forgotten' \subseteq Requests
           /\ \A r \in Requests \ forgotten' :
                 \/ Pruned[r] = records[r]
                 \/ ~Live(r) /\ Pruned[r] = Blank
           /\ \A r \in Requests \ forgotten' : r \in rs => ~Live(r)
BY NewRecords DEF BridgeInv, BridgeTypeOK, Pruned, Forget

(* A step that prunes, or changes nothing of the store, is quiet when it   *)
(* leaves the calls and the answers on their way alone.                    *)
LEMMA StatusKeepsInv ==
    ASSUME BridgeInv, NEW c \in Calls, AskStatus(c)
    PROVE  BridgeInv' /\ EndsStay
<1>1. /\ records' = Pruned
      /\ Forget({q \in Requests : records[q].old})
      /\ UNCHANGED <<wire, result, handling>>
  BY DEF AskStatus
<1>2. /\ Pruned \in [Requests -> Records]
      /\ forgotten \subseteq forgotten'
      /\ forgotten' \subseteq Requests
      /\ \A r \in Requests \ forgotten' :
            Pruned[r] = records[r] \/ (~Live(r) /\ Pruned[r] = Blank)
  BY <1>1, PruneFacts
<1>3. \A r \in Requests \ forgotten' : RecordStays(r)
  BY <1>1, <1>2, NewRecords DEF RecordStays, Live
<1>4. BridgeTypeOK'
  BY <1>1, <1>2 DEF BridgeInv, BridgeTypeOK
<1>5. QuietStep
  BY <1>1, <1>2, <1>3 DEF QuietStep, ToldStays
<1> QED BY <1>3, <1>4, <1>5, QuietKeepsInv DEF EndsStay

(* A repeated request is answered with what its record says.               *)
LEMMA RepeatKeepsInv ==
    ASSUME BridgeInv, NEW c \in Calls, Repeat(c)
    PROVE  BridgeInv' /\ EndsStay
<1> DEFINE r == RequestOf[c]
<1>0. r \in Requests
  BY BridgeAssumption
<1>1. /\ records' = Pruned
      /\ Forget({q \in Requests : records[q].old})
      /\ handling' = [handling EXCEPT ![c] = "duplicate"]
      /\ UNCHANGED result
      /\ Pruned[r].state # "none"
      /\ wire' = [wire EXCEPT ![c] =
                     IF Pruned[r].print = PrintOf[c]
                     THEN Pruned[r].response ELSE "conflict"]
  BY DEF Repeat, Remembered, clientVars
<1>2. /\ Pruned \in [Requests -> Records]
      /\ forgotten \subseteq forgotten'
      /\ forgotten' \subseteq Requests
      /\ \A q \in Requests \ forgotten' :
            Pruned[q] = records[q] \/ (~Live(q) /\ Pruned[q] = Blank)
  BY <1>1, PruneFacts
<1>3. \A q \in Requests \ forgotten' : RecordStays(q)
  BY <1>1, <1>2, NewRecords DEF RecordStays, Live
<1>4. Pruned[r].response \in Dispositions
  BY <1>0, <1>2 DEF Records, Dispositions
<1>5. BridgeTypeOK'
  BY <1>1, <1>2, <1>4 DEF BridgeInv, BridgeTypeOK, Dispositions
<1>6. ASSUME NEW d \in Calls, Kept(d)'
      PROVE  ToldStays(d)
  <2>1. CASE d # c
    BY <2>1, <1>1 DEF ToldStays, BridgeInv, BridgeTypeOK
  <2>2. CASE d = c
    <3>1. Pruned[r] = records[r]
      BY <1>0, <1>1, <1>2, <1>6, <2>2, NewRecords DEF Kept
    <3>2. Pruned[r].response = "rejected" => records[r].state = "rejected"
      BY <3>1, <1>0, <1>2, <1>6, <2>2 DEF Kept, BridgeInv, RefusalIsRecorded
    <3> QED BY <3>2, <2>2, <1>1 DEF ToldStays, BridgeInv, BridgeTypeOK
  <2> QED BY <2>1, <2>2
<1>7. QuietStep
  BY <1>1, <1>2, <1>3, <1>6
     DEF QuietStep, Claimed, BridgeInv, BridgeTypeOK
<1> QED BY <1>3, <1>5, <1>7, QuietKeepsInv DEF EndsStay

(* A claim makes a record where none is kept: if the request had one, it   *)
(* has been forgotten.                                                     *)
LEMMA ClaimKeepsInv ==
    ASSUME BridgeInv, NEW c \in Calls, Claim(c)
    PROVE  BridgeInv' /\ EndsStay
<1> DEFINE r == RequestOf[c]
           rs == {q \in Requests : records[q].old} \union Evicted
<1>0. r \in Requests /\ PrintOf[c] \in Prints
  BY BridgeAssumption
<1>1. /\ wire' = [wire EXCEPT ![c] = "handled"]
      /\ handling' = [handling EXCEPT ![c] = "preparing"]
      /\ Pruned[r].state = "none"
      /\ records' = [q \in Requests |->
                        IF q = r THEN NewRecord(PrintOf[c])
                        ELSE IF q \in Evicted THEN Blank ELSE Pruned[q]]
      /\ UNCHANGED result
      /\ Forget(rs)
  BY DEF Claim, Remembered, clientVars
<1>2. /\ Pruned \in [Requests -> Records]
      /\ forgotten \subseteq forgotten'
      /\ forgotten' \subseteq Requests
      /\ \A q \in Requests \ forgotten' :
            Pruned[q] = records[q] \/ (~Live(q) /\ Pruned[q] = Blank)
      /\ \A q \in Requests \ forgotten' : q \in rs => ~Live(q)
  BY <1>1, PruneFacts
<1> HIDE DEF rs
<1>3. \A q \in Requests \ {r} : q \notin forgotten' => RecordStays(q)
  BY <1>1, <1>2, NewRecords DEF RecordStays, Live, rs
<1>4. r \notin forgotten' => ~Live(r)
  BY <1>0, <1>1, <1>2, NewRecords DEF Live
<1>5. /\ records'[r].state = "preparing"
      /\ records'[r].response = "unknown"
      /\ records' \in [Requests -> Records]
  BY <1>0, <1>1, <1>2, NewRecords
<1>6. BridgeTypeOK'
  BY <1>1, <1>2, <1>5 DEF BridgeInv, BridgeTypeOK
<1>7. /\ handling'[c] = "preparing"
      /\ \A d \in Calls \ {c} : handling'[d] = handling[d]
  BY <1>1 DEF BridgeInv, BridgeTypeOK
<1>8. \A d \in Calls : Kept(d)' => Kept(d)
  BY <1>2 DEF Kept
<1>9. \A d \in Calls \ {c} : Kept(d)' /\ Claimed(d)' => RequestOf[d] # r
  BY <1>4, <1>7, <1>8 DEF BridgeInv, RecordMirrors, Claimed, Live, Kept
<1>10. RecordMirrors'
  <2>1. \A d \in Calls \ {c} :
           Kept(d)' /\ Claimed(d)' => records'[RequestOf[d]].state = handling'[d]
    BY <1>3, <1>7, <1>8, <1>9, BridgeAssumption
       DEF BridgeInv, RecordMirrors, Claimed, Kept, RecordStays
  <2> QED BY <2>1, <1>5, <1>7 DEF RecordMirrors
<1>11. ClaimedOnce'
  BY <1>7, <1>8, <1>9 DEF BridgeInv, ClaimedOnce, Claimed, Kept
<1>12. RefusalIsRecorded'
  BY <1>2, <1>3, <1>5 DEF BridgeInv, RefusalIsRecorded, RecordStays
<1>13. RefusalStands'
  <2>1. ASSUME NEW d \in Calls, Kept(d)', wire'[d] = "rejected" \/ result'[d] = "rejected"
        PROVE  records'[RequestOf[d]].state = "rejected"
    <3>1. wire[d] = "rejected" \/ result[d] = "rejected"
      BY <2>1, <1>1 DEF BridgeInv, BridgeTypeOK
    <3>2. records[RequestOf[d]].state = "rejected"
      BY <3>1, <2>1, <1>8 DEF BridgeInv, RefusalStands
    <3>3. RequestOf[d] # r
      BY <3>2, <2>1, <1>4 DEF Live, Kept
    <3> QED BY <3>2, <3>3, <2>1, <1>3, BridgeAssumption DEF RecordStays, Kept
  <2> QED BY <2>1 DEF RefusalStands
<1>14. EndsStay
  BY <1>3, <1>4 DEF EndsStay, Live, Terminal
<1> QED BY <1>6, <1>10, <1>11, <1>12, <1>13, <1>14 DEF BridgeInv

(* Settling, cancelling, running and ending an execution move its call.    *)
LEMMA ServerMoves ==
    ASSUME BridgeInv, NEW c \in Calls,
           \/ Reject(c) \/ Fault(c) \/ Queue(c) \/ Cancel(c)
           \/ Run(c) \/ Succeed(c) \/ Fail(c)
    PROVE  BridgeInv' /\ EndsStay
<1> DEFINE rec == records[RequestOf[c]]
<1>0. rec \in Records /\ BridgeTypeOK
  BY BridgeAssumption DEF BridgeInv, BridgeTypeOK
<1>1. Kept(c) /\ Claimed(c) /\ rec.response = "rejected" => handling[c] = "rejected"
  BY BridgeAssumption DEF BridgeInv, RefusalIsRecorded, RecordMirrors, Kept
<1>2. \A s \in States, a \in {"accepted", "rejected", "unknown"} :
         /\ [rec EXCEPT !.state = s, !.response = a] \in Records
         /\ [rec EXCEPT !.state = s, !.response = a].state = s
         /\ [rec EXCEPT !.state = s, !.response = a].response = a
         /\ [rec EXCEPT !.state = s] \in Records
         /\ [rec EXCEPT !.state = s].state = s
         /\ [rec EXCEPT !.state = s].response = rec.response
  BY <1>0 DEF Records
<1>3. ASSUME NEW s \in {"accepted", "rejected", "unknown"}, Settle(c, s, s)
      PROVE  BridgeInv' /\ EndsStay
  <2>1. MoveStep(c, s, [rec EXCEPT !.state = s, !.response = s])
    BY <1>0, <1>2, <1>3
       DEF Settle, MoveStep, States, Terminal, clientVars, BridgeTypeOK
  <2>2. wire' \in [Calls -> {"none", "request", "handled"} \union Dispositions]
    BY <1>0, <1>3 DEF Settle, BridgeTypeOK, Dispositions
  <2> QED BY <2>1, <2>2, MoveKeepsInv DEF EndsStay, Terminal
<1>4. CASE Cancel(c)
  <2>1. MoveStep(c, "unknown",
                 [rec EXCEPT !.state = "unknown", !.response = "unknown"])
    BY <1>0, <1>2, <1>4
       DEF Cancel, MoveStep, States, Terminal, clientVars, BridgeTypeOK
  <2>2. wire' \in [Calls -> {"none", "request", "handled"} \union Dispositions]
    BY <1>0, <1>4 DEF Cancel, BridgeTypeOK
  <2> QED BY <2>1, <2>2, MoveKeepsInv DEF EndsStay, Terminal
<1>5. CASE Run(c)
  <2>1. MoveStep(c, "running", [rec EXCEPT !.state = "running"])
    BY <1>0, <1>1, <1>2, <1>5
       DEF Run, MoveStep, States, Claimed, clientVars
  <2>2. wire' \in [Calls -> {"none", "request", "handled"} \union Dispositions]
    BY <1>0, <1>5 DEF Run, BridgeTypeOK
  <2> QED BY <2>1, <2>2, MoveKeepsInv DEF EndsStay
<1>6. CASE Succeed(c)
  <2>1. MoveStep(c, "succeeded", Succeeded(rec))
    BY <1>0, <1>1, <1>6, CountingFacts DEF Succeed, MoveStep, Claimed, clientVars
  <2>2. wire' \in [Calls -> {"none", "request", "handled"} \union Dispositions]
    BY <1>0, <1>6 DEF Succeed, BridgeTypeOK
  <2> QED BY <2>1, <2>2, MoveKeepsInv DEF EndsStay, Terminal
<1>7. CASE Fail(c)
  <2>1. MoveStep(c, "failed", [rec EXCEPT !.state = "failed"])
    BY <1>0, <1>1, <1>2, <1>7
       DEF Fail, MoveStep, States, Terminal, Claimed, clientVars
  <2>2. wire' \in [Calls -> {"none", "request", "handled"} \union Dispositions]
    BY <1>0, <1>7 DEF Fail, BridgeTypeOK
  <2> QED BY <2>1, <2>2, MoveKeepsInv DEF EndsStay, Terminal
<1> QED BY <1>3, <1>4, <1>5, <1>6, <1>7 DEF Reject, Fault, Queue

(* Counting a message moves no call and no state.                          *)
LEMMA MessagesAreQuiet ==
    ASSUME BridgeInv, NEW c \in Calls,
           Send(c) \/ Confirm(c) \/ Land(c) \/ Miss(c)
    PROVE  BridgeInv' /\ EndsStay
<1> DEFINE r == RequestOf[c]
           rec == records[r]
<1>0. r \in Requests /\ rec \in Records /\ BridgeTypeOK
  BY BridgeAssumption DEF BridgeInv, BridgeTypeOK
<1>1. UNCHANGED <<wire, result, handling, forgotten>>
  BY DEF Send, Confirm, Land, Miss, clientVars
<1>2. \E f \in Records : /\ f.state = rec.state
                         /\ f.response = rec.response
                         /\ records' = Update(r, f)
  <2>1. CASE Send(c)
    BY <1>0, <2>1, CountingFacts DEF Send
  <2>2. CASE Confirm(c)
    <3>1. [Landed(rec) EXCEPT !.confirmed = @ + 1] \in Records
      BY <1>0, CountingFacts DEF Records
    <3>2. /\ [Landed(rec) EXCEPT !.confirmed = @ + 1].state = rec.state
          /\ [Landed(rec) EXCEPT !.confirmed = @ + 1].response = rec.response
      BY <1>0, CountingFacts DEF Records
    <3> QED BY <2>2, <3>1, <3>2, CountingFacts DEF Confirm
  <2>3. CASE Land(c)
    BY <1>0, <2>3, CountingFacts DEF Land
  <2>4. CASE Miss(c)
    <3>1. [Landed(rec) EXCEPT !.lost = @ + 1] \in Records
      BY <1>0, CountingFacts DEF Records
    <3>2. /\ [Landed(rec) EXCEPT !.lost = @ + 1].state = rec.state
          /\ [Landed(rec) EXCEPT !.lost = @ + 1].response = rec.response
      BY <1>0, CountingFacts DEF Records
    <3> QED BY <2>4, <3>1, <3>2, CountingFacts DEF Miss
  <2> QED BY <2>1, <2>2, <2>3, <2>4
<1>3. PICK f \in Records : /\ f.state = rec.state
                          /\ f.response = rec.response
                          /\ records' = Update(r, f)
  BY <1>2
<1>4. /\ records' \in [Requests -> Records]
      /\ \A q \in Requests : RecordStays(q)
  <2>1. /\ records' \in [Requests -> Records]
        /\ \A q \in Requests \ {r} : records'[q] = records[q]
        /\ Live(r) => /\ records'[r].state = f.state
                      /\ records'[r].response = f.response
        /\ ~Live(r) => records'[r] = rec
    BY <1>0, <1>3, UpdateFacts
  <2>2. RecordStays(r)
    BY <1>3, <2>1 DEF RecordStays
  <2> QED BY <2>1, <2>2 DEF RecordStays
<1>5. BridgeTypeOK'
  BY <1>1, <1>4 DEF BridgeInv, BridgeTypeOK
<1>6. QuietStep
  BY <1>1, <1>4 DEF QuietStep, ToldStays
<1> QED BY <1>4, <1>5, <1>6, QuietKeepsInv DEF EndsStay

(* The client alone: a refusal it returns is one it was sent.              *)
LEMMA ClientKeepsInv ==
    ASSUME BridgeInv, NEW c \in Calls,
           \/ Post(c) \/ PostRefused(c) \/ Lose(c) \/ PostFails(c)
           \/ Accepted(c) \/ NotAccepted(c) \/ StatusLost(c)
           \/ StatusPending(c) \/ StatusDecides(c) \/ Deadline(c)
    PROVE  BridgeInv' /\ EndsStay
<1>1. UNCHANGED <<handling, records, forgotten>>
  BY DEF Post, PostRefused, Lose, PostFails, Accepted, NotAccepted, StatusLost,
         StatusPending, StatusDecides, Deadline, storeVars
<1>2. \/ wire' = wire
      \/ wire' = [wire EXCEPT ![c] = "request"]
      \/ wire' = [wire EXCEPT ![c] = "none"]
  BY DEF Post, PostRefused, Lose, PostFails, Accepted, NotAccepted, StatusLost,
         StatusPending, StatusDecides, Deadline, BridgeInv, BridgeTypeOK
<1>3. \/ result' = result
      \/ \E what \in Results \ {"rejected"} : result' = [result EXCEPT ![c] = what]
      \/ wire[c] = "rejected" /\ result' = [result EXCEPT ![c] = "rejected"]
  BY DEF Post, PostRefused, Lose, PostFails, Accepted, NotAccepted, StatusLost,
         StatusPending, StatusDecides, Deadline, Return, Results, clientVars
<1>4. /\ wire' \in [Calls -> {"none", "request", "handled"} \union Dispositions]
      /\ \A d \in Calls : wire'[d] = "rejected" => wire[d] = "rejected"
  BY <1>2 DEF BridgeInv, BridgeTypeOK
<1>5. /\ result' \in [Calls -> Results]
      /\ \A d \in Calls : result'[d] = "rejected" =>
                             result[d] = "rejected" \/ wire[d] = "rejected"
  BY <1>3 DEF BridgeInv, BridgeTypeOK, Results
<1>6. BridgeTypeOK'
  BY <1>1, <1>4, <1>5 DEF BridgeInv, BridgeTypeOK
<1>7. QuietStep /\ EndsStay
  BY <1>1, <1>4, <1>5 DEF QuietStep, EndsStay, RecordStays, ToldStays
<1> QED BY <1>6, <1>7, QuietKeepsInv

(* Growing old changes nothing that is kept.                               *)
LEMMA AgeKeepsInv ==
    ASSUME BridgeInv, NEW r \in Requests, Age(r)
    PROVE  BridgeInv' /\ EndsStay
<1>1. /\ records' = [records EXCEPT ![r].old = TRUE]
      /\ UNCHANGED <<wire, result, handling, forgotten>>
  BY DEF Age, clientVars
<1>2. /\ records' \in [Requests -> Records]
      /\ \A q \in Requests : RecordStays(q)
  BY <1>1 DEF BridgeInv, BridgeTypeOK, Records, RecordStays
<1>3. BridgeTypeOK'
  BY <1>1, <1>2 DEF BridgeInv, BridgeTypeOK
<1>4. QuietStep
  BY <1>1, <1>2 DEF QuietStep, ToldStays
<1> QED BY <1>2, <1>3, <1>4, QuietKeepsInv DEF EndsStay

(* A restart forgets every request that has a record.                      *)
LEMMA RestartKeepsInv ==
    ASSUME BridgeInv, Restart
    PROVE  BridgeInv' /\ EndsStay
<1>1. /\ records' = [r \in Requests |-> Blank]
      /\ wire' = [c \in Calls |-> "none"]
      /\ handling' = [c \in Calls |->
                         IF handling[c] \in {"preparing", "accepted", "running"}
                         THEN "lost" ELSE handling[c]]
      /\ UNCHANGED result
      /\ forgotten' = forgotten \union {r \in Requests : Live(r)}
  BY DEF Restart, Forget
<1>2. BridgeTypeOK'
  BY <1>1, NewRecords DEF BridgeInv, BridgeTypeOK
<1>3. \A r \in Requests \ forgotten' : RecordStays(r)
  BY <1>1, NewRecords DEF RecordStays, Live
<1>4. \A c \in Calls : Claimed(c)' => handling'[c] = handling[c]
  BY <1>1 DEF Claimed
<1>5. QuietStep
  BY <1>1, <1>3, <1>4 DEF QuietStep, ToldStays
<1> QED BY <1>2, <1>3, <1>5, QuietKeepsInv DEF EndsStay

(* Every step preserves the invariant and what has come to its end.        *)
LEMMA BridgeStep ==
    ASSUME BridgeInv, [Next]_vars
    PROVE  BridgeInv' /\ EndsStay
<1>1. CASE UNCHANGED vars
  BY <1>1 DEF vars, clientVars, storeVars, BridgeInv, BridgeTypeOK,
              RecordMirrors, ClaimedOnce, RefusalIsRecorded, RefusalStands,
              Kept, Claimed, EndsStay, RecordStays
<1>2. ASSUME NEW c \in Calls, ClientStep(c) PROVE BridgeInv' /\ EndsStay
  BY <1>2, ClientKeepsInv, StatusKeepsInv DEF ClientStep
<1>3. ASSUME NEW c \in Calls, ServerStep(c) PROVE BridgeInv' /\ EndsStay
  BY <1>3, RepeatKeepsInv, ClaimKeepsInv, ServerMoves, MessagesAreQuiet
     DEF ServerStep
<1> QED BY <1>1, <1>2, <1>3, AgeKeepsInv, RestartKeepsInv DEF Next

(* The store is empty and nothing has been asked at first.                 *)
LEMMA BridgeStart == Init => BridgeInv
<1> SUFFICES ASSUME Init PROVE BridgeInv
  OBVIOUS
<1>1. BridgeTypeOK
  BY NewRecords DEF Init, BridgeTypeOK, Results
<1>2. \A c \in Calls : ~Claimed(c)
  BY DEF Init, Claimed
<1> QED BY <1>1, <1>2, NewRecords
        DEF Init, BridgeInv, RecordMirrors, ClaimedOnce, RefusalIsRecorded,
            RefusalStands

(* The invariant holds in every behaviour of client and server.            *)
LEMMA BridgeInvariance == Spec => []BridgeInv
<1>1. BridgeInv /\ [Next]_vars => BridgeInv'
  BY BridgeStep
<1> QED BY <1>1, BridgeStart, PTL DEF Spec

-----------------------------------------------------------------------------
(* What follows.                                                           *)

(* However many calls race on a request, its command is queued once while  *)
(* the store keeps its record (execution.py:112-142).                      *)
THEOREM CommandsQueuedOnce == Spec => []QueuedOnce
<1>1. BridgeInv => QueuedOnce
  BY DEF BridgeInv, ClaimedOnce, QueuedOnce, Queued, Claimed, Kept
<1> QED BY <1>1, BridgeInvariance, PTL

(* A refused command has not been queued by any call of its request, and   *)
(* will not be (gscore_adapter.py:464-481).                                *)
THEOREM RefusalsAreFinal == Spec => []RefusalIsFinal
<1>1. ASSUME BridgeInv PROVE RefusalIsFinal
  <2> SUFFICES ASSUME NEW c \in Calls, NEW d \in Calls,
                      result[c] = "rejected", RequestOf[d] = RequestOf[c],
                      RequestOf[c] \notin forgotten, Queued(d)
               PROVE  FALSE
    BY DEF RefusalIsFinal
  <2>1. records[RequestOf[c]].state = "rejected"
    BY <1>1 DEF BridgeInv, RefusalStands, Kept
  <2>2. records[RequestOf[d]].state = handling[d]
    BY <1>1 DEF BridgeInv, RecordMirrors, Kept, Queued, Claimed
  <2> QED BY <2>1, <2>2 DEF Queued
<1> QED BY <1>1, BridgeInvariance, PTL

(* A record that has come to its end keeps its state and its answer until  *)
(* the store drops it (execution.py:144-189).                              *)
THEOREM EndsAreFinal == Spec => TerminalIsFinal
<1>1. ASSUME BridgeInv, [Next]_vars
      PROVE  [\A r \in Requests :
                 records[r].state \in Terminal /\ r \notin forgotten'
                 => /\ records'[r].state = records[r].state
                    /\ records'[r].response = records[r].response]_vars
  BY <1>1, BridgeStep DEF EndsStay, RecordStays, Live, Terminal
<1> QED BY <1>1, BridgeInvariance, PTL DEF Spec, TerminalIsFinal

-----------------------------------------------------------------------------
(* The messages of an execution and what a client is told of them.         *)

Zero == [going |-> 0, started |-> 0, confirmed |-> 0]

MessagesTyped ==
    /\ pc \in [Calls -> {"idle", "posted", "polling", "done"}]
    /\ view \in [Calls ->
                   {"none", "pending", "delivered", "no_output", "failed"}]
    /\ sends \in [Calls -> [going : Nat, started : Nat, confirmed : Nat]]

\* A call is posted once, before the server knows of it.
PostedOnce ==
    \A c \in Calls :
        /\ pc[c] = "idle" => wire[c] = "none" /\ handling[c] = "none"
        /\ wire[c] = "request" => handling[c] = "none"

\* Messages are sent by an execution only, and none lands after a restart.
SendOK(h, s) ==
    /\ h \notin {"running", "succeeded", "failed", "lost"} => s = Zero
    /\ h = "lost" => s.going = 0
    /\ s.going + s.confirmed <= s.started

Sending == \A c \in Calls : SendOK(handling[c], sends[c])

\* The receipt in a record says what became of the messages s.
Matches(rec, s) ==
    /\ rec.attempts = s.started
    /\ rec.confirmed = s.confirmed
    /\ rec.inflight = s.going
    /\ rec.delivery = "pending" <=> s.going > 0
    /\ rec.delivery = "observed" <=>
          s.going = 0 /\ s.started > 0 /\ s.confirmed = s.started
    /\ rec.delivery \in {"no_output", "not_attempted"} <=> s.started = 0

Counted ==
    \A c \in Calls :
        Kept(c) /\ Claimed(c) => Matches(records[RequestOf[c]], sends[c])

\* A record that is kept was made by a call.
RecordIsClaimed ==
    \A r \in Requests \ forgotten : Live(r) =>
        \E c \in Calls : RequestOf[c] = r /\ Claimed(c)

\* Some call of c's request shows what c is told.
Shows(c, what) ==
    \E d \in Calls :
        /\ RequestOf[d] = RequestOf[c]
        /\ what = "delivered" => sends[d].confirmed > 0
        /\ what = "no_output" => handling[d] = "succeeded"
        /\ what = "failed" => handling[d] \in {"failed", "rejected"}

Outcomes == {"delivered", "no_output", "failed"}

ToldIsShown ==
    \A c \in Calls : \A what \in Outcomes :
        Kept(c) /\ (view[c] = what \/ result[c] = what) => Shows(c, what)

CountInv ==
    /\ MessagesTyped
    /\ PostedOnce
    /\ Sending
    /\ Counted
    /\ RecordIsClaimed
    /\ ToldIsShown

(* A kept record of a claimed call is in the store.                        *)
LEMMA KeptIsLive ==
    ASSUME BridgeInv, NEW c \in Calls, Kept(c), Claimed(c)
    PROVE  Live(RequestOf[c])
BY DEF BridgeInv, RecordMirrors, Live, Claimed

\* The record of r is gone, or counts as it did.
CountsStay(r) ==
    \/ ~Live(r)'
    \/ /\ Live(r)
       /\ records'[r].attempts = records[r].attempts
       /\ records'[r].confirmed = records[r].confirmed
       /\ records'[r].inflight = records[r].inflight
       /\ records'[r].delivery = records[r].delivery

(* A step that counts no message and moves no call preserves the counts.   *)
LEMMA QuietKeepsCounts ==
    ASSUME BridgeInv, CountInv, BridgeInv', MessagesTyped', PostedOnce',
           sends' = sends,
           forgotten \subseteq forgotten',
           \A r \in Requests \ forgotten' : CountsStay(r),
           \A c \in Calls :
              \/ handling'[c] = handling[c]
              \/ handling[c] = "none" /\ handling'[c] = "duplicate",
           \A c \in Calls : \A what \in Outcomes :
              Kept(c)' /\ (view'[c] = what \/ result'[c] = what) =>
                 view[c] = what \/ result[c] = what \/ Shows(c, what)
    PROVE  CountInv'
<1>1. \A c \in Calls : Kept(c)' => Kept(c)
  BY DEF Kept
<1>2. \A c \in Calls : Claimed(c)' <=> Claimed(c)
  BY DEF Claimed
<1>3. Sending'
  BY DEF Sending, SendOK, CountInv
<1>4. Counted'
  <2> SUFFICES ASSUME NEW c \in Calls, Kept(c)', Claimed(c)'
               PROVE  Matches(records'[RequestOf[c]], sends'[c])
    BY DEF Counted
  <2>1. PICK r \in Requests : r = RequestOf[c]
    BY BridgeAssumption
  <2>2. Live(r)' /\ r \notin forgotten'
    BY <2>1 DEF BridgeInv, RecordMirrors, Live, Claimed, Kept
  <2>3. Matches(records[r], sends[c])
    BY <1>1, <1>2, <2>1 DEF CountInv, Counted
  <2> QED BY <2>1, <2>2, <2>3 DEF CountsStay, Matches
<1>5. RecordIsClaimed'
  BY <1>2 DEF RecordIsClaimed, CountInv, CountsStay
<1>6. ToldIsShown'
  <2> SUFFICES ASSUME NEW c \in Calls, NEW what \in Outcomes,
                      Kept(c)', view'[c] = what \/ result'[c] = what
               PROVE  Shows(c, what)'
    BY DEF ToldIsShown
  <2>1. Shows(c, what)
    BY <1>1 DEF CountInv, ToldIsShown
  <2> QED BY <2>1 DEF Shows
<1> QED BY <1>3, <1>4, <1>5, <1>6 DEF CountInv

\* The call c moves on to s with messages t, and its record to f.
CountedMove(c, s, t, f) ==
    /\ handling[c] \in {"preparing", "accepted", "running", "succeeded", "failed"}
    /\ s \in {"accepted", "running"} \union Terminal
    /\ handling[c] \in {"succeeded", "failed"} => s = handling[c]
    /\ handling' = [handling EXCEPT ![c] = s]
    /\ sends' = [sends EXCEPT ![c] = t]
    /\ t \in [going : Nat, started : Nat, confirmed : Nat]
    /\ t.confirmed >= sends[c].confirmed
    /\ SendOK(s, t)
    /\ f \in Records
    /\ records' = Update(RequestOf[c], f)
    /\ Kept(c) => Matches(f, t) /\ f.state = s
    /\ \A d \in Calls : wire'[d] = wire[d] \/ (d = c /\ wire'[d] # "request")
    /\ UNCHANGED <<clientVars, forgotten>>

(* A call that moves on, or a message of it, keeps the counts true.        *)
LEMMA MoveKeepsCounts ==
    ASSUME BridgeInv, CountInv, NEW c \in Calls, NEW s, NEW t, NEW f,
           CountedMove(c, s, t, f)
    PROVE  CountInv'
<1>0. PICK r \in Requests : r = RequestOf[c]
  BY BridgeAssumption
<1>1. /\ handling \in [Calls -> {"none", "duplicate", "preparing", "accepted",
                                 "running", "lost"} \union Terminal]
      /\ sends \in [Calls -> [going : Nat, started : Nat, confirmed : Nat]]
      /\ records \in [Requests -> Records]
  BY DEF BridgeInv, BridgeTypeOK, CountInv, MessagesTyped
<1>2. /\ handling'[c] = s /\ sends'[c] = t
      /\ \A d \in Calls \ {c} : handling'[d] = handling[d] /\ sends'[d] = sends[d]
      /\ UNCHANGED <<pc, view, result, forgotten>>
  BY <1>1 DEF CountedMove, clientVars
<1>3. Claimed(c) /\ Claimed(c)' /\ \A d \in Calls \ {c} : Claimed(d)' <=> Claimed(d)
  BY <1>2 DEF Claimed, CountedMove, Terminal
<1>4. \A d \in Calls : Kept(d)' <=> Kept(d)
  BY <1>2 DEF Kept
<1>5. /\ \A q \in Requests \ {r} : records'[q] = records[q]
      /\ Live(r) => records'[r] = [f EXCEPT !.old = FALSE]
      /\ ~Live(r) => records'[r] = records[r]
  BY <1>0, <1>1 DEF CountedMove, Update
<1>6. MessagesTyped'
  BY <1>1, <1>2 DEF CountedMove, CountInv, MessagesTyped
<1>7. PostedOnce'
  <2>1. ASSUME NEW d \in Calls
        PROVE  /\ pc'[d] = "idle" => wire'[d] = "none" /\ handling'[d] = "none"
               /\ wire'[d] = "request" => handling'[d] = "none"
    <3>1. /\ pc[d] = "idle" => wire[d] = "none" /\ handling[d] = "none"
          /\ wire[d] = "request" => handling[d] = "none"
      BY DEF CountInv, PostedOnce
    <3>2. CASE d = c
      BY <1>2, <3>1, <3>2 DEF CountedMove
    <3>3. CASE d # c
      BY <1>2, <3>1, <3>3 DEF CountedMove
    <3> QED BY <3>2, <3>3
  <2> QED BY <2>1 DEF PostedOnce
<1>8. Sending'
  BY <1>2 DEF CountedMove, CountInv, Sending
<1>9. Counted'
  <2> SUFFICES ASSUME NEW d \in Calls, Kept(d), Claimed(d)'
               PROVE  Matches(records'[RequestOf[d]], sends'[d])
    BY <1>4 DEF Counted
  <2>1. CASE d = c
    <3>1. Live(r)
      BY <1>0, <1>3, <2>1, KeptIsLive
    <3>2. records'[r] = [f EXCEPT !.old = FALSE]
      BY <1>5, <3>1
    <3>3. Matches(f, t) /\ f \in Records
      BY <2>1 DEF CountedMove
    <3>4. Matches([f EXCEPT !.old = FALSE], t)
      BY <3>3 DEF Matches, Records
    <3> QED BY <1>0, <1>2, <2>1, <3>2, <3>4
  <2>2. CASE d # c
    <3>1. Claimed(d)
      BY <1>3, <2>2
    <3>2. PICK q \in Requests : q = RequestOf[d]
      BY BridgeAssumption
    <3>3. q # r
      BY <1>0, <1>3, <2>2, <3>1, <3>2 DEF BridgeInv, ClaimedOnce
    <3>4. Matches(records[q], sends[d])
      BY <3>1, <3>2 DEF CountInv, Counted
    <3>5. records'[q] = records[q] /\ sends'[d] = sends[d]
      BY <1>2, <1>5, <2>2, <3>3
    <3> QED BY <3>2, <3>4, <3>5
  <2> QED BY <2>1, <2>2
<1>10. RecordIsClaimed'
  <2> SUFFICES ASSUME NEW q \in Requests \ forgotten, Live(q)'
               PROVE  \E d \in Calls : RequestOf[d] = q /\ Claimed(d)'
    BY <1>2 DEF RecordIsClaimed
  <2>1. CASE q = r
    BY <1>0, <1>3, <2>1
  <2>2. CASE q # r
    <3>1. Live(q)
      BY <1>5, <2>2 DEF Live
    <3>2. PICK d \in Calls : RequestOf[d] = q /\ Claimed(d)
      BY <3>1 DEF CountInv, RecordIsClaimed
    <3>3. Claimed(d)'
      BY <1>3, <3>2
    <3> QED BY <3>2, <3>3
  <2> QED BY <2>1, <2>2
<1>11. ToldIsShown'
  <2> SUFFICES ASSUME NEW d \in Calls, NEW what \in Outcomes,
                      Kept(d), view[d] = what \/ result[d] = what
               PROVE  Shows(d, what)'
    BY <1>2, <1>4 DEF ToldIsShown
  <2>1. Shows(d, what)
    BY DEF CountInv, ToldIsShown
  <2>2. PICK e \in Calls :
            /\ RequestOf[e] = RequestOf[d]
            /\ what = "delivered" => sends[e].confirmed > 0
            /\ what = "no_output" => handling[e] = "succeeded"
            /\ what = "failed" => handling[e] \in {"failed", "rejected"}
    BY <2>1 DEF Shows
  <2>3. sends[e].confirmed > 0 => sends'[e].confirmed > 0
    BY <1>1, <1>2 DEF CountedMove
  <2>4. handling[e] \in {"succeeded", "failed", "rejected"} => handling'[e] = handling[e]
    BY <1>2 DEF CountedMove
  <2> QED BY <2>2, <2>3, <2>4 DEF Shows
<1> QED BY <1>6, <1>7, <1>8, <1>9, <1>10, <1>11 DEF CountInv

\* A record that pruning keeps counts as it did.
PrunedCounts ==
    /\ records' = Pruned
    /\ Forget({q \in Requests : records[q].old})

(* What pruning keeps counts as it did.                                    *)
LEMMA PruningKeepsCounts ==
    ASSUME BridgeInv, PrunedCounts
    PROVE  /\ forgotten \subseteq forgotten'
           /\ \A r \in Requests \ forgotten' : CountsStay(r)
           /\ \A r \in Requests \ forgotten' :
                 Live(r)' => Live(r) /\ Pruned[r] = records[r]
<1>1. /\ forgotten \subseteq forgotten'
      /\ \A r \in Requests \ forgotten' :
            Pruned[r] = records[r] \/ (~Live(r) /\ Pruned[r] = Blank)
  BY PruneFacts DEF PrunedCounts
<1>2. \A r \in Requests \ forgotten' :
         Live(r)' => Live(r) /\ Pruned[r] = records[r]
  BY <1>1, NewRecords DEF Live, PrunedCounts
<1>3. \A r \in Requests \ forgotten' : CountsStay(r)
  BY <1>2 DEF CountsStay, PrunedCounts
<1> QED BY <1>1, <1>2, <1>3

(* A status answer says what some call of the request shows.               *)
LEMMA StatusShows ==
    ASSUME BridgeInv, CountInv, NEW c \in Calls, NEW what \in Outcomes,
           Kept(c), Live(RequestOf[c]), StatusOf(records[RequestOf[c]]) = what
    PROVE  Shows(c, what)
<1>1. PICK r \in Requests : r = RequestOf[c]
  BY BridgeAssumption
<1>2. PICK d \in Calls : RequestOf[d] = r /\ Claimed(d)
  BY <1>1 DEF CountInv, RecordIsClaimed, Kept
<1>3. records[r].state = handling[d] /\ Matches(records[r], sends[d])
  BY <1>1, <1>2 DEF BridgeInv, RecordMirrors, CountInv, Counted, Kept
<1>4. /\ records[r] \in Records
      /\ sends[d] \in [going : Nat, started : Nat, confirmed : Nat]
  BY DEF BridgeInv, BridgeTypeOK, CountInv, MessagesTyped
<1>5. what = "delivered" => sends[d].confirmed > 0
  <2>1. what = "delivered" =>
           records[r].confirmed > 0 \/ records[r].delivery = "observed"
    BY <1>1 DEF StatusOf
  <2> QED BY <2>1, <1>3, <1>4 DEF Matches
<1>6. what = "no_output" => handling[d] = "succeeded"
  BY <1>1, <1>3 DEF StatusOf
<1>7. what = "failed" => handling[d] \in {"failed", "rejected"}
  BY <1>1, <1>3 DEF StatusOf
<1> QED BY <1>1, <1>2, <1>5, <1>6, <1>7 DEF Shows

(* A snapshot taken for a client is true of the execution.                 *)
LEMMA StatusKeepsCounts ==
    ASSUME BridgeInv, CountInv, NEW c \in Calls, AskStatus(c)
    PROVE  CountInv'
<1>0. PICK r \in Requests : r = RequestOf[c]
  BY BridgeAssumption
<1>1. /\ PrunedCounts
      /\ UNCHANGED <<pc, result, wire, handling, sends>>
      /\ view' = [view EXCEPT ![c] = IF Pruned[r].state = "none" THEN "none"
                                     ELSE StatusOf(Pruned[r])]
  BY <1>0 DEF AskStatus, PrunedCounts
<1>2. BridgeInv'
  BY StatusKeepsInv
<1>3. PICK rec : rec = Pruned[r]
  OBVIOUS
<1>4. StatusOf(rec) \in {"pending", "delivered", "no_output", "failed"}
  BY DEF StatusOf
<1>5. MessagesTyped'
  BY <1>1, <1>3, <1>4 DEF MessagesTyped, CountInv
<1>6. PostedOnce'
  BY <1>1 DEF PostedOnce, CountInv
<1>7. ASSUME NEW d \in Calls, NEW what \in Outcomes,
             Kept(d)', view'[d] = what \/ result'[d] = what
      PROVE  view[d] = what \/ result[d] = what \/ Shows(d, what)
  <2>1. CASE d # c \/ result[d] = what
    BY <1>1, <1>7, <2>1 DEF CountInv, MessagesTyped
  <2>2. CASE d = c /\ view'[c] = what
    <3>1. view'[c] = IF rec.state = "none" THEN "none" ELSE StatusOf(rec)
      BY <1>1, <1>3 DEF CountInv, MessagesTyped
    <3>2. rec.state # "none" /\ StatusOf(rec) = what
      BY <3>1, <2>2 DEF Outcomes
    <3>3. r \notin forgotten'
      BY <1>0, <1>7, <2>2 DEF Kept
    <3>4. Live(r)'
      BY <1>1, <1>3, <3>2 DEF Live, PrunedCounts
    <3>5. Live(r) /\ rec = records[r] /\ forgotten \subseteq forgotten'
      BY <1>1, <1>3, <3>3, <3>4, PruningKeepsCounts
    <3>6. Kept(c)
      BY <1>0, <3>3, <3>5 DEF Kept
    <3> QED BY <1>0, <2>2, <3>2, <3>5, <3>6, StatusShows
  <2> QED BY <1>1, <1>7, <2>1, <2>2
<1>8. /\ forgotten \subseteq forgotten'
      /\ \A q \in Requests \ forgotten' : CountsStay(q)
  BY <1>1, PruningKeepsCounts
<1>9. sends' = sends /\ handling' = handling
  BY <1>1
<1> QED BY <1>2, <1>5, <1>6, <1>7, <1>8, <1>9, QuietKeepsCounts

(* A repeated request moves no message.                                    *)
LEMMA RepeatKeepsCounts ==
    ASSUME BridgeInv, CountInv, NEW c \in Calls, Repeat(c)
    PROVE  CountInv'
<1>0. PICK r \in Requests : r = RequestOf[c]
  BY BridgeAssumption
<1>1. /\ PrunedCounts
      /\ UNCHANGED <<pc, view, result, sends>>
      /\ wire[c] = "request"
      /\ wire' = [wire EXCEPT ![c] = IF Pruned[r].print = PrintOf[c]
                                     THEN Pruned[r].response ELSE "conflict"]
      /\ handling' = [handling EXCEPT ![c] = "duplicate"]
  BY <1>0 DEF Repeat, PrunedCounts, clientVars
<1>2. BridgeInv'
  BY RepeatKeepsInv
<1>3. handling[c] = "none" /\ pc[c] # "idle"
  BY <1>1 DEF CountInv, PostedOnce
<1>4. /\ handling'[c] = "duplicate"
      /\ \A d \in Calls \ {c} : handling'[d] = handling[d] /\ wire'[d] = wire[d]
      /\ wire'[c] # "request"
  <2>1. Pruned \in [Requests -> Records]
    BY PruneFacts, <1>1 DEF PrunedCounts
  <2>2. PICK rec \in Records : rec = Pruned[r]
    BY <2>1
  <2>3. rec.response # "request"
    BY DEF Records
  <2> QED BY <1>1, <2>2, <2>3 DEF BridgeInv, BridgeTypeOK
<1>5. MessagesTyped'
  BY <1>1 DEF MessagesTyped, CountInv
<1>6. PostedOnce'
  BY <1>1, <1>3, <1>4 DEF PostedOnce, CountInv
<1>7. /\ forgotten \subseteq forgotten'
      /\ \A q \in Requests \ forgotten' : CountsStay(q)
  BY <1>1, PruningKeepsCounts
<1>8. \A d \in Calls : \/ handling'[d] = handling[d]
                       \/ handling[d] = "none" /\ handling'[d] = "duplicate"
  BY <1>3, <1>4
<1>9. sends' = sends /\ view' = view /\ result' = result
  BY <1>1
<1> QED BY <1>2, <1>5, <1>6, <1>7, <1>8, <1>9, QuietKeepsCounts

(* What a client returns is what it was told.                              *)
LEMMA ClientKeepsCounts ==
    ASSUME BridgeInv, CountInv, NEW c \in Calls,
           \/ Post(c) \/ PostRefused(c) \/ Lose(c) \/ PostFails(c)
           \/ Accepted(c) \/ NotAccepted(c) \/ StatusLost(c)
           \/ StatusPending(c) \/ StatusDecides(c) \/ Deadline(c)
    PROVE  CountInv'
<1>1. UNCHANGED <<handling, sends, records, forgotten>>
  BY DEF Post, PostRefused, Lose, PostFails, Accepted, NotAccepted, StatusLost,
         StatusPending, StatusDecides, Deadline, storeVars
<1>2. BridgeInv'
  BY ClientKeepsInv
<1>3. /\ \/ pc' = pc
         \/ \E p \in {"posted", "polling", "done"} : pc' = [pc EXCEPT ![c] = p]
      /\ \/ view' = view
         \/ view' = [view EXCEPT ![c] = "none"]
  BY DEF Post, PostRefused, Lose, PostFails, Accepted, NotAccepted, StatusLost,
         StatusPending, StatusDecides, Deadline, Return, clientVars
<1>4. \/ wire' = wire
      \/ wire' = [wire EXCEPT ![c] = "none"] /\ pc' = pc
      \/ wire' = [wire EXCEPT ![c] = "none"] /\ pc'[c] # "idle"
      \/ pc[c] = "idle" /\ pc'[c] = "posted" /\ wire' = [wire EXCEPT ![c] = "request"]
  BY DEF Post, PostRefused, Lose, PostFails, Accepted, NotAccepted, StatusLost,
         StatusPending, StatusDecides, Deadline, Return, clientVars, BridgeInv,
         BridgeTypeOK, CountInv, MessagesTyped
<1>5. MessagesTyped'
  BY <1>1, <1>3 DEF MessagesTyped, CountInv
<1>6. PostedOnce'
  <2>1. \A d \in Calls : pc'[d] = "idle" => pc[d] = "idle"
    BY <1>3 DEF CountInv, MessagesTyped
  <2>2. \A d \in Calls : wire'[d] = wire[d] \/ wire'[d] = "none"
                         \/ (wire'[d] = "request" /\ pc[d] = "idle" /\ pc'[d] # "idle")
    BY <1>4 DEF BridgeInv, BridgeTypeOK
  <2> QED BY <1>1, <2>1, <2>2 DEF PostedOnce, CountInv
<1>7. \A d \in Calls : \A what \in Outcomes :
         view'[d] = what \/ result'[d] = what =>
            view[d] = what \/ result[d] = what
  <2>1. \A d \in Calls : \A what \in Outcomes : view'[d] = what => view[d] = what
    BY <1>3 DEF CountInv, MessagesTyped, Outcomes
  <2>2. \/ result' = result
        \/ result' = [result EXCEPT ![c] = view[c]]
        \/ \E s \in Results \ Outcomes : result' = [result EXCEPT ![c] = s]
    BY DEF Post, PostRefused, Lose, PostFails, Accepted, NotAccepted, StatusLost,
           StatusPending, StatusDecides, Deadline, Return, clientVars, Results,
           Outcomes
  <2>3. \A d \in Calls : \A what \in Outcomes :
           result'[d] = what => view[d] = what \/ result[d] = what
    BY <2>2 DEF BridgeInv, BridgeTypeOK
  <2> QED BY <2>1, <2>3
<1>8. \A q \in Requests \ forgotten' : CountsStay(q)
  BY <1>1 DEF CountsStay, Live
<1> QED BY <1>1, <1>2, <1>5, <1>6, <1>7, <1>8, QuietKeepsCounts

(* Growing old counts nothing.                                             *)
LEMMA AgeKeepsCounts ==
    ASSUME BridgeInv, CountInv, NEW r \in Requests, Age(r)
    PROVE  CountInv'
<1>1. /\ records' = [records EXCEPT ![r].old = TRUE]
      /\ UNCHANGED <<pc, view, result, wire, handling, sends, forgotten>>
  BY DEF Age, clientVars
<1>2. BridgeInv'
  BY AgeKeepsInv
<1>3. MessagesTyped' /\ PostedOnce'
  BY <1>1 DEF MessagesTyped, PostedOnce, CountInv
<1>4. ASSUME NEW q \in Requests PROVE CountsStay(q)
  <2>1. CASE q = r
    <3>1. PICK rec \in Records : rec = records[r]
      BY DEF BridgeInv, BridgeTypeOK
    <3>2. records'[r] = [rec EXCEPT !.old = TRUE]
      BY <1>1, <3>1 DEF BridgeInv, BridgeTypeOK
    <3>3. Live(r)
      BY DEF Age
    <3> QED BY <2>1, <3>1, <3>2, <3>3 DEF CountsStay, Records
  <2>2. CASE q # r
    <3>1. records'[q] = records[q]
      BY <1>1, <2>2 DEF BridgeInv, BridgeTypeOK
    <3> QED BY <3>1 DEF CountsStay, Live
  <2> QED BY <2>1, <2>2
<1> QED BY <1>1, <1>2, <1>3, <1>4, QuietKeepsCounts

(* A claim starts a record that counts nothing, as its call has sent       *)
(* nothing yet.                                                            *)
LEMMA ClaimKeepsCounts ==
    ASSUME BridgeInv, CountInv, NEW c \in Calls, Claim(c)
    PROVE  CountInv'
<1> DEFINE rs == {q \in Requests : records[q].old} \union Evicted
<1>0. PICK r \in Requests, print \in Prints : r = RequestOf[c] /\ print = PrintOf[c]
  BY BridgeAssumption
<1>1. /\ wire[c] = "request"
      /\ wire' = [wire EXCEPT ![c] = "handled"]
      /\ handling' = [handling EXCEPT ![c] = "preparing"]
      /\ Pruned[r].state = "none"
      /\ records' = [q \in Requests |->
                        IF q = r THEN NewRecord(print)
                        ELSE IF q \in Evicted THEN Blank ELSE Pruned[q]]
      /\ UNCHANGED <<pc, view, result, sends>>
      /\ Forget(rs)
  BY <1>0 DEF Claim, Remembered, clientVars
<1>2. /\ Pruned \in [Requests -> Records]
      /\ forgotten \subseteq forgotten'
      /\ \A q \in Requests \ forgotten' :
            Pruned[q] = records[q] \/ (~Live(q) /\ Pruned[q] = Blank)
      /\ \A q \in Requests \ forgotten' : q \in rs => ~Live(q)
  BY <1>1, PruneFacts
<1>3. \A q \in Requests \ forgotten' : q # r =>
         \/ ~Live(q)'
         \/ Live(q) /\ records'[q] = records[q]
  BY <1>1, <1>2, NewRecords DEF Live
<1>4. r \notin forgotten' => ~Live(r)
  BY <1>1, <1>2, NewRecords DEF Live
<1> HIDE DEF rs
<1>5. PICK rec : rec = NewRecord(print)
  OBVIOUS
<1>6. records'[r] = rec /\ Matches(rec, Zero)
  <2>1. PICK blank \in Records : blank = Blank
    BY NewRecords
  <2>2. /\ blank.attempts = 0 /\ blank.confirmed = 0 /\ blank.inflight = 0
        /\ blank.delivery = "not_attempted"
    BY <2>1 DEF Blank
  <2>3. PICK prepared : prepared = [blank EXCEPT !.state = "preparing"]
    OBVIOUS
  <2>4. /\ prepared.attempts = 0 /\ prepared.confirmed = 0
        /\ prepared.inflight = 0 /\ prepared.delivery = "not_attempted"
        /\ prepared \in Records
    BY <2>2, <2>3 DEF Records, States
  <2>5. rec = [prepared EXCEPT !.print = print]
    BY <1>5, <2>1, <2>3, Zenon DEF NewRecord
  <2>6. /\ rec.attempts = 0 /\ rec.confirmed = 0 /\ rec.inflight = 0
        /\ rec.delivery = "not_attempted"
    BY <2>4, <2>5 DEF Records
  <2>7. Matches(rec, Zero)
    BY <2>6 DEF Matches, Zero
  <2> QED BY <1>1, <1>5, <2>7
<1>7. handling[c] = "none" /\ pc[c] # "idle" /\ sends[c] = Zero
  BY <1>1 DEF CountInv, PostedOnce, Sending, SendOK
<1>8. /\ handling'[c] = "preparing" /\ wire'[c] = "handled"
      /\ \A d \in Calls \ {c} : handling'[d] = handling[d] /\ wire'[d] = wire[d]
  BY <1>1 DEF BridgeInv, BridgeTypeOK
<1>9. \A d \in Calls : Kept(d)' => Kept(d)
  BY <1>2 DEF Kept
<1>10. MessagesTyped'
  BY <1>1 DEF CountInv, MessagesTyped
<1>11. PostedOnce'
  BY <1>1, <1>7, <1>8 DEF CountInv, PostedOnce
<1>12. Sending'
  BY <1>1, <1>7, <1>8 DEF CountInv, Sending, SendOK, Zero
<1>13. Counted'
  <2> SUFFICES ASSUME NEW d \in Calls, Kept(d)', Claimed(d)'
               PROVE  Matches(records'[RequestOf[d]], sends'[d])
    BY DEF Counted
  <2>1. CASE d = c
    BY <1>0, <1>1, <1>6, <1>7, <2>1
  <2>2. CASE d # c
    <3>1. PICK q \in Requests : q = RequestOf[d]
      BY BridgeAssumption
    <3>2. Claimed(d) /\ Kept(d) /\ q \notin forgotten'
      BY <1>8, <1>9, <2>2, <3>1 DEF Claimed, Kept
    <3>3. Live(q) /\ Matches(records[q], sends[d])
      BY <3>1, <3>2, KeptIsLive DEF CountInv, Counted
    <3>4. q # r
      BY <1>4, <3>2, <3>3
    <3>5. Live(q)'
      BY <1>8, <2>2, <3>1, <3>2, ClaimKeepsInv
         DEF BridgeInv, RecordMirrors, Kept, Claimed, Live
    <3> QED BY <1>1, <1>3, <3>1, <3>2, <3>3, <3>4, <3>5
  <2> QED BY <2>1, <2>2
<1>14. RecordIsClaimed'
  <2> SUFFICES ASSUME NEW q \in Requests, q \notin forgotten', Live(q)'
               PROVE  \E d \in Calls : RequestOf[d] = q /\ Claimed(d)'
    BY DEF RecordIsClaimed
  <2>1. CASE q = r
    BY <1>0, <1>8, <2>1 DEF Claimed
  <2>2. CASE q # r
    <3>1. Live(q) /\ q \notin forgotten
      BY <1>2, <1>3, <2>2
    <3>2. PICK d \in Calls : RequestOf[d] = q /\ Claimed(d)
      BY <3>1 DEF CountInv, RecordIsClaimed
    <3>3. Claimed(d)'
      BY <1>0, <1>8, <2>2, <3>2 DEF Claimed
    <3> QED BY <3>2, <3>3
  <2> QED BY <2>1, <2>2
<1>15. ToldIsShown'
  <2> SUFFICES ASSUME NEW d \in Calls, NEW what \in Outcomes, Kept(d)',
                      view[d] = what \/ result[d] = what
               PROVE  Shows(d, what)'
    BY <1>1 DEF ToldIsShown
  <2>1. Shows(d, what)
    BY <1>9 DEF CountInv, ToldIsShown
  <2>2. \A e \in Calls : handling[e] # "none" => handling'[e] = handling[e]
    BY <1>7, <1>8
  <2> QED BY <1>1, <2>1, <2>2 DEF Shows
<1> QED BY <1>10, <1>11, <1>12, <1>13, <1>14, <1>15 DEF CountInv

(* Settling, cancelling, running and ending an execution count no message. *)
LEMMA MovesKeepCounts ==
    ASSUME BridgeInv, CountInv, NEW c \in Calls,
           \/ Reject(c) \/ Fault(c) \/ Queue(c) \/ Cancel(c)
           \/ Run(c) \/ Succeed(c) \/ Fail(c)
    PROVE  CountInv'
<1>0. PICK rec \in Records, t \in [going : Nat, started : Nat, confirmed : Nat] :
         rec = records[RequestOf[c]] /\ t = sends[c]
  BY BridgeAssumption DEF BridgeInv, BridgeTypeOK, CountInv, MessagesTyped
<1>1. /\ SendOK(handling[c], t)
      /\ Kept(c) /\ Claimed(c) => Matches(rec, t)
      /\ sends = [sends EXCEPT ![c] = t]
  BY <1>0 DEF CountInv, Sending, Counted, MessagesTyped
<1>2. \A s \in States, a \in {"accepted", "rejected", "unknown"} :
         /\ [rec EXCEPT !.state = s, !.response = a] \in Records
         /\ [rec EXCEPT !.state = s, !.response = a].state = s
         /\ Matches(rec, t) => Matches([rec EXCEPT !.state = s, !.response = a], t)
         /\ [rec EXCEPT !.state = s] \in Records
         /\ [rec EXCEPT !.state = s].state = s
         /\ Matches(rec, t) => Matches([rec EXCEPT !.state = s], t)
  <2> TAKE s \in States, a \in {"accepted", "rejected", "unknown"}
  <2>1. PICK g \in Records : g = [rec EXCEPT !.state = s]
    BY DEF Records
  <2>2. /\ g.state = s /\ g.delivery = rec.delivery
        /\ g.attempts = rec.attempts /\ g.confirmed = rec.confirmed
        /\ g.inflight = rec.inflight
    BY <2>1 DEF Records
  <2>3. PICK h \in Records : h = [g EXCEPT !.response = a]
    BY DEF Records
  <2>4. /\ h.state = s /\ h.delivery = rec.delivery
        /\ h.attempts = rec.attempts /\ h.confirmed = rec.confirmed
        /\ h.inflight = rec.inflight
    BY <2>2, <2>3 DEF Records
  <2>5. Matches(rec, t) => Matches(g, t) /\ Matches(h, t)
    BY <2>2, <2>4 DEF Matches
  <2>6. h = [rec EXCEPT !.state = s, !.response = a]
    BY <2>1, <2>3, Zenon
  <2>7. g.state = s /\ h.state = s
    BY <2>2, <2>4
  <2> QED BY <2>1, <2>5, <2>6, <2>7, Zenon
<1>3. ASSUME NEW s \in {"accepted", "rejected", "unknown"}, Settle(c, s, s)
      PROVE  CountInv'
  <2>1. PICK f \in Records : f = [rec EXCEPT !.state = s, !.response = s]
    BY <1>2 DEF States, Terminal
  <2>2. f.state = s /\ (Matches(rec, t) => Matches(f, t))
    BY <1>2, <2>1 DEF States, Terminal
  <2>3. /\ handling[c] = "preparing"
        /\ handling' = [handling EXCEPT ![c] = s]
        /\ records' = Update(RequestOf[c], f)
        /\ UNCHANGED <<clientVars, sends, forgotten>>
        /\ wire' = [wire EXCEPT ![c] = IF @ = "handled" THEN s ELSE @]
    BY <1>0, <1>3, <2>1 DEF Settle
  <2>4. \A d \in Calls : wire'[d] = wire[d] \/ (d = c /\ wire'[d] # "request")
    BY <2>3 DEF BridgeInv, BridgeTypeOK
  <2>5. SendOK(s, t)
    BY <1>1, <2>3 DEF SendOK, Zero
  <2>6. CountedMove(c, s, t, f)
    BY <1>0, <1>1, <2>2, <2>3, <2>4, <2>5 DEF CountedMove, Terminal, Claimed
  <2> QED BY <2>6, MoveKeepsCounts
<1>4. CASE Cancel(c)
  <2>1. PICK f \in Records : f = [rec EXCEPT !.state = "unknown", !.response = "unknown"]
    BY <1>2 DEF States, Terminal
  <2>2. f.state = "unknown" /\ (Matches(rec, t) => Matches(f, t))
    BY <1>2, <2>1 DEF States, Terminal
  <2>3. /\ handling[c] = "preparing"
        /\ handling' = [handling EXCEPT ![c] = "unknown"]
        /\ records' = Update(RequestOf[c], f)
        /\ UNCHANGED <<clientVars, sends, forgotten>>
        /\ wire' = [wire EXCEPT ![c] = "none"]
    BY <1>0, <1>4, <2>1 DEF Cancel
  <2>4. \A d \in Calls : wire'[d] = wire[d] \/ (d = c /\ wire'[d] # "request")
    BY <2>3 DEF BridgeInv, BridgeTypeOK
  <2>5. SendOK("unknown", t)
    BY <1>1, <2>3 DEF SendOK, Zero
  <2>6. CountedMove(c, "unknown", t, f)
    BY <1>0, <1>1, <2>2, <2>3, <2>4, <2>5 DEF CountedMove, Terminal, Claimed
  <2> QED BY <2>6, MoveKeepsCounts
<1>5. ASSUME NEW s \in {"running", "failed"}, NEW h \in {"accepted", "running"},
             handling[c] = h, h = "accepted" <=> s = "running",
             handling' = [handling EXCEPT ![c] = s],
             records' = Update(RequestOf[c], [rec EXCEPT !.state = s]),
             UNCHANGED <<clientVars, wire, sends, forgotten>>
      PROVE  CountInv'
  <2>1. PICK f \in Records : f = [rec EXCEPT !.state = s]
    BY <1>2 DEF States, Terminal
  <2>2. f.state = s /\ (Matches(rec, t) => Matches(f, t))
    BY <1>2, <2>1 DEF States, Terminal
  <2>3. SendOK(s, t)
    BY <1>1, <1>5 DEF SendOK, Zero
  <2>4. CountedMove(c, s, t, f)
    BY <1>0, <1>1, <1>5, <2>1, <2>2, <2>3 DEF CountedMove, Terminal, Claimed
  <2> QED BY <2>4, MoveKeepsCounts
<1>6. CASE Run(c)
  BY <1>0, <1>5, <1>6 DEF Run
<1>7. CASE Fail(c)
  BY <1>0, <1>5, <1>7 DEF Fail
<1>8. CASE Succeed(c)
  <2>1. PICK f \in Records : f = Succeeded(rec)
    BY CountingFacts
  <2>2. /\ f.state = "succeeded"
        /\ Matches(rec, t) /\ SendOK("running", t) => Matches(f, t)
    BY <2>1 DEF Succeeded, Matches, SendOK, Records, States, Terminal, Deliveries
  <2>3. /\ handling[c] = "running"
        /\ handling' = [handling EXCEPT ![c] = "succeeded"]
        /\ records' = Update(RequestOf[c], f)
        /\ UNCHANGED <<clientVars, wire, sends, forgotten>>
    BY <1>0, <1>8, <2>1 DEF Succeed
  <2>4. SendOK("succeeded", t) /\ SendOK("running", t)
    BY <1>1, <2>3 DEF SendOK, Zero
  <2>5. CountedMove(c, "succeeded", t, f)
    BY <1>0, <1>1, <2>2, <2>3, <2>4 DEF CountedMove, Terminal, Claimed
  <2> QED BY <2>5, MoveKeepsCounts
<1> QED BY <1>3, <1>4, <1>6, <1>7, <1>8 DEF Reject, Fault, Queue

(* A message that is sent, or lands, is counted in the record.             *)
LEMMA MessagesKeepCounts ==
    ASSUME BridgeInv, CountInv, NEW c \in Calls,
           Send(c) \/ Confirm(c) \/ Land(c) \/ Miss(c)
    PROVE  CountInv'
<1>0. PICK rec \in Records, t \in [going : Nat, started : Nat, confirmed : Nat] :
         rec = records[RequestOf[c]] /\ t = sends[c]
  BY BridgeAssumption DEF BridgeInv, BridgeTypeOK, CountInv, MessagesTyped
<1>1. PICK s : s = handling[c]
  OBVIOUS
<1>2. /\ SendOK(s, t)
      /\ Kept(c) /\ Claimed(c) => Matches(rec, t) /\ rec.state = s
  BY <1>0, <1>1 DEF CountInv, Sending, Counted, BridgeInv, RecordMirrors
<1>3. s \in {"running", "succeeded", "failed"}
  <2>1. t.going > 0 => s \in {"running", "succeeded", "failed"}
    BY <1>0, <1>2 DEF SendOK, Zero
  <2> QED BY <1>0, <1>1, <2>1 DEF Send, Confirm, Land, Miss
<1>4. Claimed(c) /\ handling = [handling EXCEPT ![c] = s]
  BY <1>1, <1>3 DEF Claimed, BridgeInv, BridgeTypeOK
<1>5. UNCHANGED <<clientVars, wire, handling, forgotten>>
  BY DEF Send, Confirm, Land, Miss
<1>6. ASSUME NEW f \in Records, NEW u \in [going : Nat, started : Nat, confirmed : Nat],
             sends' = [sends EXCEPT ![c] = u],
             records' = Update(RequestOf[c], f),
             f.state = rec.state,
             u.confirmed >= t.confirmed,
             u.going + u.confirmed <= u.started,
             Matches(rec, t) => Matches(f, u)
      PROVE  CountInv'
  <2>1. SendOK(s, u)
    BY <1>3, <1>6 DEF SendOK
  <2>2. CountedMove(c, s, u, f)
    BY <1>0, <1>1, <1>2, <1>3, <1>4, <1>5, <1>6, <2>1 DEF CountedMove, Terminal
  <2> QED BY <2>2, MoveKeepsCounts
<1>7. t.going \in Nat /\ t.started \in Nat /\ t.confirmed \in Nat
      /\ t.going + t.confirmed <= t.started
  BY <1>0, <1>2 DEF SendOK
<1>8. CASE Send(c)
  <2>1. PICK u : u = [going |-> t.going + 1, started |-> t.started + 1,
                      confirmed |-> t.confirmed]
    OBVIOUS
  <2>2. sends' = [sends EXCEPT ![c] = u]
    BY <1>0, <1>8, <2>1 DEF Send, CountInv, MessagesTyped
  <2>3. PICK f \in Records : f = Started(rec)
    BY CountingFacts
  <2>4. f.state = rec.state /\ (Matches(rec, t) => Matches(f, u))
    BY <1>7, <2>1, <2>3 DEF Started, Matches, Records
  <2>5. records' = Update(RequestOf[c], f)
    BY <1>0, <1>8, <2>3 DEF Send
  <2>6. /\ u \in [going : Nat, started : Nat, confirmed : Nat]
        /\ u.confirmed >= t.confirmed
        /\ u.going + u.confirmed <= u.started
    BY <1>7, <2>1
  <2> QED BY <1>6, <2>2, <2>4, <2>5, <2>6
<1>9. ASSUME NEW f \in Records, NEW n \in {0, 1}, NEW u,
             t.going > 0,
             u = [going |-> t.going - 1, started |-> t.started,
                  confirmed |-> t.confirmed + n],
             sends' = [sends EXCEPT ![c] = u],
             records' = Update(RequestOf[c], Refreshed(f)),
             f.state = rec.state,
             f.attempts = rec.attempts,
             f.confirmed = rec.confirmed + n,
             f.inflight = Landed(rec).inflight
      PROVE  CountInv'
  <2>1. /\ u \in [going : Nat, started : Nat, confirmed : Nat]
        /\ u.confirmed >= t.confirmed
        /\ u.going + u.confirmed <= u.started
        /\ u.going = t.going - 1 /\ u.started = t.started
        /\ u.confirmed = t.confirmed + n
    BY <1>7, <1>9
  <2>3. PICK g \in Records : g = Refreshed(f)
    BY <1>9, CountingFacts
  <2>4. /\ g.state = f.state /\ g.attempts = f.attempts
        /\ g.confirmed = f.confirmed /\ g.inflight = f.inflight
        /\ g.delivery = CASE f.inflight > 0 -> "pending"
                          [] f.inflight = 0 /\ f.confirmed = f.attempts -> "observed"
                          [] OTHER -> IF f.confirmed > 0 THEN "partial"
                                      ELSE IF f.lost = f.attempts THEN "failed"
                                      ELSE "unobserved"
    BY <1>9, <2>3 DEF Refreshed, Records
  <2>5. Landed(rec).inflight = IF rec.inflight = 0 THEN 0 ELSE rec.inflight - 1
    BY DEF Landed, Records
  <2>6. ASSUME Matches(rec, t) PROVE Matches(g, u)
    <3>1. /\ f.attempts = t.started /\ f.confirmed = t.confirmed + n
          /\ f.inflight = t.going - 1
      BY <1>7, <1>9, <2>5, <2>6 DEF Matches
    <3>2. t.started > 0
      BY <1>7, <1>9
    <3>3. g.delivery = "pending" <=> t.going - 1 > 0
      BY <1>7, <1>9, <2>4, <3>1
    <3>4. g.delivery = "observed" <=> t.going - 1 = 0 /\ t.confirmed + n = t.started
      BY <1>7, <1>9, <2>4, <3>1
    <3>5. g.delivery \notin {"no_output", "not_attempted"}
      BY <1>7, <1>9, <2>4, <3>1
    <3> QED BY <1>7, <1>9, <2>1, <2>4, <3>1, <3>2, <3>3, <3>4, <3>5 DEF Matches
  <2>7. records' = Update(RequestOf[c], g)
    BY <1>9, <2>3
  <2>8. sends' = [sends EXCEPT ![c] = u] /\ g.state = rec.state
    BY <1>9, <2>4
  <2> QED BY <1>6, <2>1, <2>6, <2>7, <2>8
<1>10. Landed(rec) \in Records /\ Landed(rec).state = rec.state
       /\ Landed(rec).attempts = rec.attempts /\ Landed(rec).confirmed = rec.confirmed
  BY CountingFacts DEF Landed, Records
<1>11. PICK landed \in Records : landed = Landed(rec)
  BY <1>10
<1>12. CASE Confirm(c)
  <2>0. landed.confirmed + 1 \in Nat
    BY DEF Records
  <2>1. PICK f \in Records : f = [landed EXCEPT !.confirmed = @ + 1]
    BY <2>0 DEF Records
  <2>2. /\ f.state = rec.state /\ f.attempts = rec.attempts
        /\ f.confirmed = rec.confirmed + 1 /\ f.inflight = Landed(rec).inflight
    BY <1>10, <1>11, <2>1 DEF Records
  <2>3. /\ t.going > 0
        /\ records' = Update(RequestOf[c], Refreshed(f))
    BY <1>0, <1>11, <1>12, <2>1 DEF Confirm
  <2>4. PICK u : u = [going |-> t.going - 1, started |-> t.started,
                      confirmed |-> t.confirmed + 1]
    OBVIOUS
  <2>5. sends' = [sends EXCEPT ![c] = u]
    BY <1>0, <1>12, <2>4 DEF Confirm, CountInv, MessagesTyped
  <2> QED BY <1>9, <2>2, <2>3, <2>4, <2>5
<1>13. ASSUME sends' = [sends EXCEPT ![c].going = @ - 1]
       PROVE  sends' = [sends EXCEPT ![c] =
                           [going |-> t.going - 1, started |-> t.started,
                            confirmed |-> t.confirmed + 0]]
  <2>1. [t EXCEPT !.going = @ - 1] = [going |-> t.going - 1, started |-> t.started,
                                      confirmed |-> t.confirmed + 0]
    BY <1>7
  <2>2. sends' = [sends EXCEPT ![c] = [t EXCEPT !.going = @ - 1]]
    BY <1>0, <1>13 DEF CountInv, MessagesTyped
  <2> QED BY <2>1, <2>2
<1>14. CASE Land(c)
  <2>1. t.going > 0 /\ sends' = [sends EXCEPT ![c].going = @ - 1]
    BY <1>0, <1>14 DEF Land
  <2>2. records' = Update(RequestOf[c], Refreshed(landed))
    BY <1>0, <1>11, <1>14 DEF Land
  <2>3. landed.confirmed = rec.confirmed + 0
    BY <1>10, <1>11 DEF Records
  <2> QED BY <1>9, <1>10, <1>11, <1>13, <2>1, <2>2, <2>3
<1>15. CASE Miss(c)
  <2>1. t.going > 0 /\ sends' = [sends EXCEPT ![c].going = @ - 1]
    BY <1>0, <1>15 DEF Miss
  <2>0. landed.lost + 1 \in Nat
    BY DEF Records
  <2>2. PICK f \in Records : f = [landed EXCEPT !.lost = @ + 1]
    BY <2>0 DEF Records
  <2>3. records' = Update(RequestOf[c], Refreshed(f))
    BY <1>0, <1>11, <1>15, <2>2 DEF Miss
  <2>4. /\ f.state = rec.state /\ f.attempts = rec.attempts
        /\ f.confirmed = rec.confirmed + 0 /\ f.inflight = Landed(rec).inflight
    BY <1>10, <1>11, <2>2 DEF Records
  <2> QED BY <1>9, <1>13, <2>1, <2>3, <2>4
<1> QED BY <1>8, <1>12, <1>14, <1>15

(* A restart keeps no record, and forgets every call that had one.         *)
LEMMA RestartKeepsCounts ==
    ASSUME BridgeInv, CountInv, Restart
    PROVE  CountInv'
<1>1. /\ records' = [r \in Requests |-> Blank]
      /\ wire' = [c \in Calls |-> "none"]
      /\ view' = [c \in Calls |-> "none"]
      /\ handling' = [c \in Calls |->
                         IF handling[c] \in {"preparing", "accepted", "running"}
                         THEN "lost" ELSE handling[c]]
      /\ sends' = [c \in Calls |-> [sends[c] EXCEPT !.going = 0]]
      /\ forgotten' = forgotten \union {r \in Requests : Live(r)}
      /\ UNCHANGED <<pc, result>>
  BY DEF Restart, Forget
<1>2. \A r \in Requests : ~Live(r)'
  BY <1>1, NewRecords DEF Live
<1>3. ASSUME NEW c \in Calls
      PROVE  /\ sends'[c] \in [going : Nat, started : Nat, confirmed : Nat]
             /\ sends'[c].going = 0
             /\ sends'[c].started = sends[c].started
             /\ sends'[c].confirmed = sends[c].confirmed
             /\ sends[c] = Zero => sends'[c] = Zero
  <2>1. PICK t \in [going : Nat, started : Nat, confirmed : Nat] : t = sends[c]
    BY DEF CountInv, MessagesTyped
  <2> QED BY <1>1, <2>1 DEF Zero
<1>4. MessagesTyped'
  BY <1>1, <1>3 DEF CountInv, MessagesTyped
<1>5. PostedOnce'
  BY <1>1 DEF CountInv, PostedOnce
<1>6. Sending'
  <2> SUFFICES ASSUME NEW c \in Calls PROVE SendOK(handling'[c], sends'[c])
    BY DEF Sending
  <2>1. SendOK(handling[c], sends[c])
    BY DEF CountInv, Sending
  <2>2. sends[c].going \in Nat /\ sends[c].started \in Nat /\ sends[c].confirmed \in Nat
    BY DEF CountInv, MessagesTyped
  <2>3. sends'[c].going + sends'[c].confirmed <= sends'[c].started
    BY <1>3, <2>1, <2>2 DEF SendOK
  <2>4. handling'[c] \notin {"running", "succeeded", "failed", "lost"} =>
           sends'[c] = Zero
    BY <1>1, <1>3, <2>1 DEF SendOK
  <2> QED BY <1>3, <2>3, <2>4 DEF SendOK
<1>7. \A c \in Calls : Kept(c)' => Kept(c) /\ ~Claimed(c)
  <2> SUFFICES ASSUME NEW c \in Calls, Kept(c)', Claimed(c) PROVE FALSE
    BY <1>1 DEF Kept
  <2>1. Kept(c) /\ ~Live(RequestOf[c])
    BY <1>1, BridgeAssumption DEF Kept
  <2> QED BY <2>1, KeptIsLive
<1>8. Counted'
  BY <1>1, <1>7 DEF Counted, Claimed
<1>9. RecordIsClaimed'
  BY <1>2 DEF RecordIsClaimed
<1>10. ToldIsShown'
  <2> SUFFICES ASSUME NEW c \in Calls, NEW what \in Outcomes, Kept(c)',
                      result[c] = what
               PROVE  Shows(c, what)'
    BY <1>1 DEF ToldIsShown, Outcomes
  <2>1. Shows(c, what)
    BY <1>7 DEF CountInv, ToldIsShown
  <2>2. \A d \in Calls : handling[d] \in {"succeeded", "failed", "rejected"} =>
           handling'[d] = handling[d]
    BY <1>1
  <2> QED BY <1>3, <2>1, <2>2 DEF Shows
<1> QED BY <1>4, <1>5, <1>6, <1>8, <1>9, <1>10 DEF CountInv

(* Every step keeps the counts true.                                       *)
LEMMA CountStep ==
    ASSUME BridgeInv, CountInv, [Next]_vars
    PROVE  CountInv'
<1>1. CASE UNCHANGED vars
  BY <1>1 DEF vars, clientVars, storeVars, CountInv, MessagesTyped, PostedOnce,
              Sending, Counted, RecordIsClaimed, ToldIsShown, Shows, Kept,
              Claimed, Live
<1>2. ASSUME NEW c \in Calls, ClientStep(c) PROVE CountInv'
  BY <1>2, ClientKeepsCounts, StatusKeepsCounts DEF ClientStep
<1>3. ASSUME NEW c \in Calls, ServerStep(c) PROVE CountInv'
  BY <1>3, RepeatKeepsCounts, ClaimKeepsCounts, MovesKeepCounts, MessagesKeepCounts
     DEF ServerStep
<1> QED BY <1>1, <1>2, <1>3, AgeKeepsCounts, RestartKeepsCounts DEF Next

(* Nothing has been sent at first.                                         *)
LEMMA CountStart == Init => CountInv
<1> SUFFICES ASSUME Init PROVE CountInv
  OBVIOUS
<1>1. \A c \in Calls : ~Claimed(c) /\ sends[c] = Zero
  BY DEF Init, Claimed, Zero
<1>2. \A r \in Requests : ~Live(r)
  BY NewRecords DEF Init, Live
<1>3. MessagesTyped /\ PostedOnce
  BY DEF Init, MessagesTyped, PostedOnce
<1>4. Sending
  <2>1. PICK z \in [going : Nat, started : Nat, confirmed : Nat] : z = Zero
    BY DEF Zero
  <2>2. z.going = 0 /\ z.confirmed = 0 /\ z.started = 0
    BY <2>1 DEF Zero
  <2>3. z.going + z.confirmed <= z.started
    BY <2>2
  <2>4. \A c \in Calls : handling[c] = "none"
    BY DEF Init
  <2>5. SendOK("none", z)
    BY <2>1, <2>3 DEF SendOK
  <2> QED BY <1>1, <2>1, <2>4, <2>5 DEF Sending
<1>5. ToldIsShown
  BY DEF Init, ToldIsShown, Outcomes
<1> QED BY <1>1, <1>2, <1>3, <1>4, <1>5 DEF CountInv, Counted, RecordIsClaimed

(* The counts are true in every behaviour of client and server.            *)
LEMMA CountInvariance == Spec => [](BridgeInv /\ CountInv)
<1>1. BridgeInv /\ CountInv /\ [Next]_vars => CountInv'
  BY CountStep
<1> QED BY <1>1, CountStart, BridgeInvariance, PTL DEF Spec

(* The receipt in a record agrees with the messages of the execution, sent *)
(* at once or one after another (execution.py:188-217).                    *)
THEOREM ReceiptsAreTrue == Spec => []ReceiptIsTrue
<1>1. ASSUME BridgeInv, CountInv PROVE ReceiptIsTrue
  <2> SUFFICES ASSUME NEW c \in Calls, Queued(c), Kept(c)
               PROVE  Matches(records[RequestOf[c]], sends[c])
    BY DEF ReceiptIsTrue, Matches, Kept
  <2>1. Claimed(c)
    BY DEF Queued, Claimed
  <2> QED BY <1>1, <2>1 DEF CountInv, Counted
<1> QED BY <1>1, CountInvariance, PTL

(* What the model is told of an execution is so, whichever call of the     *)
(* request it was that executed (gscore_adapter.py:520-563).               *)
THEOREM OutcomesAreTrue == Spec => []OutcomeIsTrue
<1>1. ASSUME BridgeInv, CountInv PROVE OutcomeIsTrue
  <2> SUFFICES ASSUME NEW c \in Calls, Kept(c)
               PROVE  /\ result[c] = "delivered" =>
                            \E d \in Calls : /\ RequestOf[d] = RequestOf[c]
                                             /\ sends[d].confirmed > 0
                      /\ result[c] = "no_output" =>
                            \E d \in Calls : /\ RequestOf[d] = RequestOf[c]
                                             /\ handling[d] = "succeeded"
                      /\ result[c] = "failed" =>
                            \E d \in Calls :
                               /\ RequestOf[d] = RequestOf[c]
                               /\ handling[d] \in {"failed", "rejected"}
                               /\ \A e \in Calls : RequestOf[e] = RequestOf[c] =>
                                     handling[e] \notin {"preparing", "accepted",
                                                         "running", "succeeded"}
    BY DEF OutcomeIsTrue, Kept
  <2>1. \A what \in Outcomes : result[c] = what => Shows(c, what)
    BY <1>1 DEF CountInv, ToldIsShown
  <2>2. result[c] = "delivered" =>
           \E d \in Calls : RequestOf[d] = RequestOf[c] /\ sends[d].confirmed > 0
    BY <2>1 DEF Shows, Outcomes
  <2>3. result[c] = "no_output" =>
           \E d \in Calls : RequestOf[d] = RequestOf[c] /\ handling[d] = "succeeded"
    BY <2>1 DEF Shows, Outcomes
  <2>4. ASSUME result[c] = "failed"
        PROVE  \E d \in Calls :
                  /\ RequestOf[d] = RequestOf[c]
                  /\ handling[d] \in {"failed", "rejected"}
                  /\ \A e \in Calls : RequestOf[e] = RequestOf[c] =>
                        handling[e] \notin {"preparing", "accepted",
                                            "running", "succeeded"}
    <3>1. PICK d \in Calls : /\ RequestOf[d] = RequestOf[c]
                             /\ handling[d] \in {"failed", "rejected"}
      BY <2>1, <2>4 DEF Shows, Outcomes
    <3>2. ASSUME NEW e \in Calls, RequestOf[e] = RequestOf[c],
                 handling[e] \in {"preparing", "accepted", "running", "succeeded"}
          PROVE  FALSE
      <4>1. Claimed(d) /\ Claimed(e)
        BY <3>1, <3>2 DEF Claimed
      <4>2. d = e
        BY <1>1, <3>1, <3>2, <4>1 DEF BridgeInv, ClaimedOnce, Kept
      <4> QED BY <3>1, <3>2, <4>2
    <3> QED BY <3>1, <3>2
  <2> QED BY <2>2, <2>3, <2>4
<1> QED BY <1>1, CountInvariance, PTL

-----------------------------------------------------------------------------
(* The order of the store.  KeptOf goes through it from the oldest id on;  *)
(* what holds of all its values is proved by the least one it fails for.   *)

LEMMA LeastNumber ==
    ASSUME NEW S \in SUBSET Nat, S # {}
    PROVE  \E n \in S : \A m \in S : n <= m
<1>1. IsWellFoundedOn(OpToRel(<, Nat), Nat) BY NatLessThanWellFounded
<1>2. PICK n \in S : \A m \in S : ~(<<m, n>> \in OpToRel(<, Nat))
  BY <1>1, WFMin
<1>3. \A m \in S : ~(m < n) BY <1>2 DEF OpToRel
<1> QED BY <1>3

\* Without a least number at which it fails, a fact holds up to N.
LEMMA UpTo ==
    ASSUME NEW N \in Nat, NEW Good \in SUBSET (0 .. N), 0 \in Good,
           \A n \in 1 .. N : n - 1 \in Good => n \in Good
    PROVE  \A n \in 0 .. N : n \in Good
<1> SUFFICES ASSUME (0 .. N) \ Good # {} PROVE FALSE
  OBVIOUS
<1> DEFINE Bad == (0 .. N) \ Good
<1>0. Bad \in SUBSET Nat /\ Bad # {} OBVIOUS
<1>1. PICK n \in Bad : \A m \in Bad : n <= m
  <2> HIDE DEF Bad
  <2> QED BY <1>0, LeastNumber
<1>2. n \in 1 .. N /\ n - 1 \in 0 .. N /\ ~(n <= n - 1) BY <1>1
<1>3. n - 1 \in Good BY <1>1, <1>2
<1> QED BY <1>1, <1>2, <1>3

\* The next value of KeptOf.
KeptWith(kept, id) == IF records[id].old THEN kept ELSE Append(kept, id)

(* The definition of KeptOf determines it.                                 *)
LEMMA KeptIsDefined ==
    ASSUME order \in Seq(Requests)
    PROVE  /\ KeptOf[0] = <<>>
           /\ \A n \in 1 .. Len(order) :
                 KeptOf[n] = KeptWith(KeptOf[n - 1], order[n])
<1> DEFINE N == Len(order)
           P(f, n) == f = [m \in 0 .. n |->
                              IF m = 0 THEN <<>> ELSE KeptWith(f[m - 1], order[m])]
           Good == {n \in 0 .. N : \E f : P(f, n)}
<1>1. N \in Nat OBVIOUS
<1>2. 0 \in Good
  <2>1. P([m \in 0 .. 0 |-> <<>>], 0) OBVIOUS
  <2>2. \E f : P(f, 0)
    <3> HIDE DEF P
    <3> QED BY <2>1
  <2> HIDE DEF P
  <2> QED BY <1>1, <2>2
<1>3. ASSUME NEW n \in 1 .. N, n - 1 \in Good PROVE n \in Good
  <2>1. PICK f : P(f, n - 1) BY <1>3
  <2> DEFINE g == [m \in 0 .. n |-> IF m = n THEN KeptWith(f[n - 1], order[n]) ELSE f[m]]
  <2>2. ASSUME NEW m \in 0 .. n
        PROVE  g[m] = IF m = 0 THEN <<>> ELSE KeptWith(g[m - 1], order[m])
    <3>1. CASE m = n
      <4>1. n - 1 \in 0 .. n /\ n - 1 # n /\ n # 0 BY <1>3
      <4>2. g[n - 1] = f[n - 1] BY <4>1
      <4> QED BY <3>1, <4>1, <4>2
    <3>2. CASE m # n
      <4>1. m \in 0 .. (n - 1) /\ (m # 0 => m - 1 \in 0 .. n /\ m - 1 # n) BY <1>3, <3>2
      <4>2. f[m] = IF m = 0 THEN <<>> ELSE KeptWith(f[m - 1], order[m])
        BY <2>1, <4>1
      <4>3. g[m] = f[m] /\ (m # 0 => g[m - 1] = f[m - 1]) BY <3>2, <4>1
      <4> QED BY <4>2, <4>3
    <3> QED BY <3>1, <3>2
  <2>3. P(g, n) BY <2>2
  <2> HIDE DEF g, P
  <2> QED BY <2>3
<1>4. N \in Good
  <2> HIDE DEF Good
  <2>1. Good \in SUBSET (0 .. N) BY DEF Good
  <2> HIDE DEF N
  <2>2. \A n \in 0 .. N : n \in Good BY <1>1, <1>2, <1>3, <2>1, UpTo
  <2> QED BY <1>1, <2>2
<1>5. PICK f : P(f, N) BY <1>4
<1>6. KeptOf = CHOOSE g : P(g, N) BY DEF KeptOf, KeptWith
<1>7. P(CHOOSE g : P(g, N), N)
  <2> HIDE DEF P
  <2> QED BY <1>5
<1>8. KeptOf = [m \in 0 .. N |->
                   IF m = 0 THEN <<>> ELSE KeptWith(KeptOf[m - 1], order[m])]
  <2> HIDE DEF KeptWith
  <2> QED BY <1>6, <1>7
<1> QED BY <1>1, <1>8

\* The ids s are those of the n oldest records that have not expired, each once.
KeepsFresh(s, n) ==
    /\ s \in Seq(Requests) /\ Len(s) <= n
    /\ \A i \in 1 .. Len(s) :
          \E j \in 1 .. n : s[i] = order[j] /\ ~records[order[j]].old
    /\ \A j \in 1 .. n : ~records[order[j]].old =>
          \E i \in 1 .. Len(s) : s[i] = order[j]
    /\ \A i, j \in 1 .. Len(s) : s[i] = s[j] => i = j

(* Pruning drops every id whose record has expired, and no other.          *)
LEMMA KeptFacts ==
    ASSUME StoreOK
    PROVE  KeepsFresh(PrunedOrder, Len(order))
<1> DEFINE N == Len(order)
           Good == {n \in 0 .. N : KeepsFresh(KeptOf[n], n)}
<1>1. order \in Seq(Requests) /\ N \in Nat BY DEF StoreOK
<1>2. 0 \in Good
  <2>1. KeepsFresh(<<>>, 0) BY DEF KeepsFresh
  <2> QED BY <1>1, <2>1, KeptIsDefined
<1>3. ASSUME NEW n \in 1 .. N, n - 1 \in Good PROVE n \in Good
  <2> DEFINE s == KeptOf[n - 1]
             id == order[n]
  <2>1. KeptOf[n] = KeptWith(s, id) BY <1>1, KeptIsDefined
  <2>2. KeepsFresh(s, n - 1) BY <1>3
  <2>3. id \in Requests /\ n \in Nat /\ n - 1 \in Nat BY <1>1
  <2> HIDE DEF s
  <2>4. CASE records[id].old
    <3>1. KeptOf[n] = s BY <2>1, <2>4 DEF KeptWith
    <3>2. KeepsFresh(s, n)
      <4>1. ASSUME NEW j \in 1 .. n, ~records[order[j]].old
            PROVE  \E i \in 1 .. Len(s) : s[i] = order[j]
        <5>1. j \in 1 .. (n - 1) BY <2>3, <2>4, <4>1
        <5> QED BY <2>2, <4>1, <5>1 DEF KeepsFresh
      <4>2. 1 .. (n - 1) \subseteq 1 .. n /\ (Len(s) <= n - 1 => Len(s) <= n)
        BY <2>2, <2>3 DEF KeepsFresh
      <4> QED BY <2>2, <4>1, <4>2 DEF KeepsFresh
    <3> QED BY <1>1, <3>1, <3>2
  <2>5. CASE ~records[id].old
    <3> DEFINE t == Append(s, id)
    <3>1. KeptOf[n] = t BY <2>1, <2>5 DEF KeptWith
    <3>2. /\ s \in Seq(Requests) /\ Len(s) \in Nat /\ Len(s) <= n - 1
          /\ t \in Seq(Requests) /\ Len(t) = Len(s) + 1 /\ t[Len(t)] = id
          /\ \A i \in 1 .. Len(s) : t[i] = s[i]
      BY <2>2, <2>3 DEF KeepsFresh
    <3> HIDE DEF t
    <3>3. \A i \in 1 .. Len(t) : i = Len(t) \/ i \in 1 .. Len(s) BY <3>2
    <3>4. \A j \in 1 .. n : j = n \/ j \in 1 .. (n - 1) BY <2>3
    <3>5. ASSUME NEW i \in 1 .. Len(s) PROVE t[i] # id
      <4>1. PICK j \in 1 .. (n - 1) : s[i] = order[j] BY <2>2 DEF KeepsFresh
      <4>2. j # n /\ j \in 1 .. N /\ n \in 1 .. N BY <1>1, <2>3
      <4>3. order[j] # id BY <4>2 DEF StoreOK
      <4> QED BY <3>2, <4>1, <4>3
    <3>6. KeepsFresh(t, n)
      <4>1. Len(t) <= n BY <2>3, <3>2
      <4>2. ASSUME NEW i \in 1 .. Len(t)
            PROVE  \E j \in 1 .. n : t[i] = order[j] /\ ~records[order[j]].old
        <5>1. CASE i = Len(t) BY <2>3, <2>5, <3>2, <5>1
        <5>2. CASE i \in 1 .. Len(s)
          <6>1. PICK j \in 1 .. (n - 1) : s[i] = order[j] /\ ~records[order[j]].old
            BY <2>2, <5>2 DEF KeepsFresh
          <6> QED BY <2>3, <3>2, <5>2, <6>1
        <5> QED BY <3>3, <5>1, <5>2
      <4>3. ASSUME NEW j \in 1 .. n, ~records[order[j]].old
            PROVE  \E i \in 1 .. Len(t) : t[i] = order[j]
        <5>1. CASE j = n BY <3>2, <5>1
        <5>2. CASE j \in 1 .. (n - 1)
          <6>1. PICK i \in 1 .. Len(s) : s[i] = order[j]
            BY <2>2, <4>3, <5>2 DEF KeepsFresh
          <6> QED BY <3>2, <6>1
        <5> QED BY <3>4, <5>1, <5>2
      <4>4. ASSUME NEW i \in 1 .. Len(t), NEW j \in 1 .. Len(t), t[i] = t[j]
            PROVE  i = j
        <5>1. CASE i \in 1 .. Len(s) /\ j \in 1 .. Len(s)
          BY <2>2, <3>2, <4>4, <5>1 DEF KeepsFresh
        <5>2. CASE i = Len(t) \/ j = Len(t) BY <3>2, <3>3, <3>5, <4>4, <5>2
        <5> QED BY <3>3, <5>1, <5>2
      <4> QED BY <3>2, <4>1, <4>2, <4>3, <4>4 DEF KeepsFresh
    <3> QED BY <1>1, <3>1, <3>6
  <2> QED BY <2>4, <2>5
<1>4. N \in Good
  <2>1. Good \in SUBSET (0 .. N) OBVIOUS
  <2> HIDE DEF Good
  <2> HIDE DEF N
  <2>2. \A n \in 0 .. N : n \in Good BY <1>1, <1>2, <1>3, <2>1, UpTo
  <2> QED BY <1>1, <2>2
<1> QED BY <1>4 DEF PrunedOrder

(* After pruning, too, the order holds the ids that have a record.         *)
LEMMA PrunedStore ==
    ASSUME BridgeTypeOK, StoreOK
    PROVE  /\ PrunedOrder \in Seq(Requests) /\ Len(PrunedOrder) <= MaxRecords
           /\ \A i, j \in 1 .. Len(PrunedOrder) : PrunedOrder[i] = PrunedOrder[j] => i = j
           /\ \A r \in Requests : Pruned[r].state # "none" <=>
                 \E i \in 1 .. Len(PrunedOrder) : PrunedOrder[i] = r
<1> DEFINE s == PrunedOrder
<1>1. /\ order \in Seq(Requests) /\ Len(order) \in Nat /\ Len(order) <= MaxRecords
      /\ MaxRecords \in Nat
  BY BridgeAssumption DEF StoreOK
<1>2. KeepsFresh(s, Len(order)) BY KeptFacts
<1>3. s \in Seq(Requests) /\ Len(s) <= MaxRecords BY <1>1, <1>2 DEF KeepsFresh
<1>4. ASSUME NEW r \in Requests
      PROVE  Pruned[r].state # "none" <=> \E i \in 1 .. Len(s) : s[i] = r
  <2>1. Pruned[r].state # "none" <=> Live(r) /\ ~records[r].old
    BY NewRecords DEF Pruned, Live
  <2>2. Live(r) <=> \E j \in 1 .. Len(order) : order[j] = r BY DEF StoreOK
  <2>3. ASSUME Live(r), ~records[r].old PROVE \E i \in 1 .. Len(s) : s[i] = r
    <3>1. PICK j \in 1 .. Len(order) : order[j] = r BY <2>2, <2>3
    <3> QED BY <1>2, <2>3, <3>1 DEF KeepsFresh
  <2>4. ASSUME NEW i \in 1 .. Len(s), s[i] = r PROVE Live(r) /\ ~records[r].old
    <3>1. PICK j \in 1 .. Len(order) : s[i] = order[j] /\ ~records[order[j]].old
      BY <1>2 DEF KeepsFresh
    <3> QED BY <2>2, <2>4, <3>1
  <2> QED BY <2>1, <2>3, <2>4
<1> QED BY <1>2, <1>3, <1>4 DEF KeepsFresh

\* What a step does to the store: nothing that counts, a pruning, or more than that.
LEMMA StoreStays ==
    ASSUME StoreOK, order' = order, \A r \in Requests : Live(r)' <=> Live(r)
    PROVE  StoreOK'
BY DEF StoreOK

LEMMA StorePrunes ==
    ASSUME BridgeTypeOK, StoreOK, records' = Pruned, order' = PrunedOrder
    PROVE  StoreOK'
BY PrunedStore DEF StoreOK, Live

LEMMA StoreUpdates ==
    ASSUME BridgeTypeOK, StoreOK, NEW r \in Requests, NEW f \in Records,
           Live(r) => f.state # "none", records' = Update(r, f), order' = order
    PROVE  StoreOK'
<1>1. /\ \A q \in Requests \ {r} : records'[q] = records[q]
      /\ Live(r) => records'[r].state = f.state
      /\ ~Live(r) => records'[r] = records[r]
  BY UpdateFacts
<1>2. ASSUME NEW q \in Requests PROVE Live(q)' <=> Live(q)
  <2>1. CASE q # r BY <1>1, <2>1 DEF Live
  <2>2. CASE q = r BY <1>1, <2>2 DEF Live
  <2> QED BY <2>1, <2>2
<1> QED BY <1>2, StoreStays

(* A claim makes room first: of a full store the oldest record goes.       *)
LEMMA StoreClaims ==
    ASSUME BridgeTypeOK, StoreOK, NEW c \in Calls, Claim(c)
    PROVE  StoreOK'
<1> DEFINE r == RequestOf[c]
           s == PrunedOrder
           kept == IF Evicted = {} THEN s ELSE Tail(s)
<1>1. /\ r \in Requests /\ PrintOf[c] \in Prints /\ MaxRecords \in Nat /\ MaxRecords > 0
  BY BridgeAssumption
<1>2. /\ Pruned[r].state = "none" /\ order' = Append(kept, r)
      /\ records' = [q \in Requests |->
                        IF q = r THEN NewRecord(PrintOf[c])
                        ELSE IF q \in Evicted THEN Blank ELSE Pruned[q]]
  BY DEF Claim, Remembered, RoomFor
<1>3. /\ s \in Seq(Requests) /\ Len(s) \in Nat /\ Len(s) <= MaxRecords
      /\ \A i, j \in 1 .. Len(s) : s[i] = s[j] => i = j
      /\ \A q \in Requests : Pruned[q].state # "none" <=>
            \E i \in 1 .. Len(s) : s[i] = q
  BY PrunedStore
<1>4. Evicted = IF Len(s) >= MaxRecords THEN {Head(s)} ELSE {} BY DEF Evicted
<1> HIDE DEF s
<1>5. /\ kept \in Seq(Requests) /\ Len(kept) \in Nat /\ Len(kept) < MaxRecords
      /\ \A i, j \in 1 .. Len(kept) : kept[i] = kept[j] => i = j
      /\ \A q \in Requests :
            (\E i \in 1 .. Len(kept) : kept[i] = q) <=>
                q \notin Evicted /\ \E i \in 1 .. Len(s) : s[i] = q
  <2>1. CASE Len(s) >= MaxRecords
    <3>1. Len(s) > 0 /\ s # <<>> BY <1>1, <1>3, <2>1
    <3>2. /\ kept = Tail(s) /\ Evicted = {s[1]} BY <1>3, <1>4, <2>1, <3>1
    <3>3. /\ Tail(s) \in Seq(Requests) /\ Len(Tail(s)) = Len(s) - 1
          /\ \A i \in 1 .. (Len(s) - 1) : Tail(s)[i] = s[i + 1]
      BY <1>3, <3>1
    <3>4. /\ \A i \in 1 .. (Len(s) - 1) : i + 1 \in 1 .. Len(s) /\ i + 1 # 1
          /\ \A i \in 1 .. Len(s) : i # 1 => i - 1 \in 1 .. (Len(s) - 1) /\ (i - 1) + 1 = i
          /\ 1 \in 1 .. Len(s)
      BY <1>3, <3>1
    <3> HIDE DEF kept
    <3>5. \A i, j \in 1 .. Len(kept) : kept[i] = kept[j] => i = j
      <4>1. ASSUME NEW i \in 1 .. Len(kept), NEW j \in 1 .. Len(kept), kept[i] = kept[j]
            PROVE  i = j
        <5>1. i + 1 = j + 1 BY <1>3, <3>2, <3>3, <3>4, <4>1
        <5> QED BY <1>3, <3>2, <3>3, <5>1
      <4> QED BY <4>1
    <3>6. ASSUME NEW q \in Requests
          PROVE  (\E i \in 1 .. Len(kept) : kept[i] = q) <=>
                     q \notin Evicted /\ \E i \in 1 .. Len(s) : s[i] = q
      <4>1. ASSUME NEW i \in 1 .. Len(kept), kept[i] = q
            PROVE  q # s[1] /\ \E j \in 1 .. Len(s) : s[j] = q
        BY <1>3, <3>2, <3>3, <3>4, <4>1
      <4>2. ASSUME NEW i \in 1 .. Len(s), s[i] = q, q # s[1]
            PROVE  \E j \in 1 .. Len(kept) : kept[j] = q
        <5>1. i - 1 \in 1 .. (Len(s) - 1) /\ (i - 1) + 1 = i BY <3>4, <4>2
        <5> QED BY <3>2, <3>3, <4>2, <5>1
      <4> QED BY <3>2, <4>1, <4>2
    <3> QED BY <1>1, <1>3, <3>2, <3>3, <3>5, <3>6
  <2>2. CASE ~(Len(s) >= MaxRecords)
    <3>1. kept = s /\ Evicted = {} BY <1>4, <2>2
    <3> HIDE DEF kept
    <3> QED BY <1>1, <1>3, <2>2, <3>1
  <2> QED BY <2>1, <2>2
<1> HIDE DEF kept
<1>6. /\ order' \in Seq(Requests) /\ Len(order') = Len(kept) + 1 /\ order'[Len(order')] = r
      /\ \A i \in 1 .. Len(kept) : order'[i] = kept[i]
      /\ \A i \in 1 .. Len(order') : i = Len(order') \/ i \in 1 .. Len(kept)
  BY <1>1, <1>2, <1>5
<1>7. \A i \in 1 .. Len(kept) : kept[i] # r
  BY <1>1, <1>2, <1>3, <1>5
<1>8. ASSUME NEW i \in 1 .. Len(order'), NEW j \in 1 .. Len(order'), order'[i] = order'[j]
      PROVE  i = j
  <2>1. CASE i \in 1 .. Len(kept) /\ j \in 1 .. Len(kept) BY <1>5, <1>6, <1>8, <2>1
  <2>2. CASE i = Len(order') \/ j = Len(order') BY <1>6, <1>7, <1>8, <2>2
  <2> QED BY <1>6, <2>1, <2>2
<1>9. ASSUME NEW q \in Requests
      PROVE  Live(q)' <=> \E i \in 1 .. Len(order') : order'[i] = q
  <2>1. CASE q = r
    <3>1. Live(q)' BY <1>1, <1>2, <2>1, NewRecords DEF Live
    <3>2. Len(order') \in 1 .. Len(order') BY <1>5, <1>6
    <3> QED BY <1>6, <2>1, <3>1, <3>2
  <2>2. CASE q # r
    <3>1. Live(q)' <=> q \notin Evicted /\ Pruned[q].state # "none"
      BY <1>2, <2>2, NewRecords DEF Live
    <3>2. (\E i \in 1 .. Len(order') : order'[i] = q) <=>
              \E i \in 1 .. Len(kept) : kept[i] = q
      <4>1. 1 .. Len(kept) \subseteq 1 .. Len(order') BY <1>5, <1>6
      <4> QED BY <1>6, <2>2, <4>1
    <3> QED BY <1>3, <1>5, <3>1, <3>2
  <2> QED BY <2>1, <2>2
<1>10. Len(order') <= MaxRecords BY <1>1, <1>5, <1>6
<1> QED BY <1>6, <1>8, <1>9, <1>10 DEF StoreOK

(* Every step keeps the store in order.                                    *)
LEMMA StoreStep ==
    ASSUME BridgeInv, StoreOK, [Next]_vars
    PROVE  StoreOK'
<1>0. BridgeTypeOK /\ records \in [Requests -> Records] BY DEF BridgeInv, BridgeTypeOK
<1>1. CASE UNCHANGED vars
  BY <1>1, StoreStays DEF vars, storeVars, Live
<1>2. ASSUME NEW c \in Calls, ClientStep(c) PROVE StoreOK'
  <2>1. CASE AskStatus(c) BY <1>0, <2>1, StorePrunes DEF AskStatus
  <2>2. CASE ~AskStatus(c)
    <3>1. UNCHANGED storeVars
      BY <1>2, <2>2 DEF ClientStep, Post, PostRefused, Lose, PostFails, Accepted, NotAccepted,
         StatusLost, StatusPending, StatusDecides, Deadline
    <3> QED BY <3>1, StoreStays DEF storeVars, Live
  <2> QED BY <2>1, <2>2
<1>3. ASSUME NEW c \in Calls, ServerStep(c) PROVE StoreOK'
  <2> DEFINE rec == records[RequestOf[c]]
  <2>1. RequestOf[c] \in Requests /\ rec \in Records BY <1>0, BridgeAssumption
  <2>2. CASE Repeat(c) BY <1>0, <2>2, StorePrunes DEF Repeat
  <2>3. CASE Claim(c) BY <1>0, <2>3, StoreClaims
  <2>4. CASE Reject(c) \/ Fault(c) \/ Queue(c) \/ Cancel(c) \/ Run(c) \/ Fail(c)
    <3>1. PICK s \in States \ {"none"}, answer \in {"accepted", "rejected", "unknown"} :
             /\ records' = Update(RequestOf[c], [rec EXCEPT !.state = s, !.response = answer])
             /\ order' = order
      <4>1. CASE Reject(c) \/ Fault(c) \/ Queue(c) \/ Cancel(c)
        BY <4>1 DEF Reject, Fault, Queue, Cancel, Settle, States, Terminal
      <4>2. CASE Run(c) \/ Fail(c)
        <5>1. PICK s \in {"running", "failed"} :
                 records' = Update(RequestOf[c], [rec EXCEPT !.state = s]) /\ order' = order
          BY <4>2 DEF Run, Fail
        <5>2. rec.response \in {"accepted", "rejected", "unknown"} BY <2>1 DEF Records
        <5>3. [rec EXCEPT !.state = s] = [rec EXCEPT !.state = s, !.response = rec.response]
          BY <2>1 DEF Records
        <5> QED BY <5>1, <5>2, <5>3 DEF States, Terminal
      <4> QED BY <2>4, <4>1, <4>2
    <3> DEFINE f == [rec EXCEPT !.state = s, !.response = answer]
    <3>2. f \in Records /\ f.state = s BY <2>1 DEF Records
    <3> HIDE DEF f, rec
    <3>3. records' = Update(RequestOf[c], f) BY <3>1 DEF f
    <3> QED BY <1>0, <2>1, <3>1, <3>2, <3>3, StoreUpdates
  <2>5. ASSUME NEW f \in Records, f.state \in {rec.state, "succeeded"},
               records' = Update(RequestOf[c], f), order' = order
        PROVE  StoreOK'
    <3>1. Live(RequestOf[c]) => f.state # "none" BY <2>5 DEF Live
    <3> HIDE DEF rec
    <3> QED BY <1>0, <2>1, <2>5, <3>1, StoreUpdates
  <2>6. CASE Succeed(c) BY <2>1, <2>5, <2>6, CountingFacts DEF Succeed
  <2>7. CASE Send(c) BY <2>1, <2>5, <2>7, CountingFacts DEF Send
  <2>8. CASE Land(c) BY <2>1, <2>5, <2>8, CountingFacts DEF Land
  <2>9. CASE Confirm(c) \/ Miss(c)
    <3>1. PICK g \in {[Landed(rec) EXCEPT !.confirmed = @ + 1],
                      [Landed(rec) EXCEPT !.lost = @ + 1]} :
             records' = Update(RequestOf[c], Refreshed(g)) /\ order' = order
      BY <2>9 DEF Confirm, Miss
    <3>2. g \in Records /\ g.state = rec.state
      <4>1. PICK q \in Records : q = Landed(rec) /\ q.state = rec.state
        BY <2>1, CountingFacts
      <4> QED BY <3>1, <4>1 DEF Records
    <3> HIDE DEF rec
    <3> QED BY <2>5, <3>1, <3>2, CountingFacts
  <2> QED BY <1>3, <2>2, <2>3, <2>4, <2>6, <2>7, <2>8, <2>9 DEF ServerStep
<1>4. ASSUME NEW r \in Requests, Age(r) PROVE StoreOK'
  <2>1. records' = [records EXCEPT ![r].old = TRUE] /\ order' = order BY <1>4 DEF Age
  <2>2. \A q \in Requests : records'[q].state = records[q].state BY <1>0, <2>1 DEF Records
  <2> QED BY <2>1, <2>2, StoreStays DEF Live
<1>5. CASE Restart
  <2>1. order' = <<>> /\ \A r \in Requests : ~Live(r)'
    BY <1>5, NewRecords DEF Restart, Live
  <2>2. 0 <= MaxRecords BY BridgeAssumption
  <2> QED BY <2>1, <2>2 DEF StoreOK
<1> QED BY <1>1, <1>2, <1>3, <1>4, <1>5 DEF Next

\* What BridgeTypeOK and MessagesTyped leave out.
RestTyped == seen \in [Calls -> BOOLEAN] /\ restarts \in 0 .. MaxRestarts

LEMMA RestStep ==
    ASSUME RestTyped, [Next]_vars
    PROVE  RestTyped'
<1>1. CASE UNCHANGED vars BY <1>1 DEF vars, clientVars, RestTyped
<1>2. ASSUME NEW c \in Calls, ClientStep(c) PROVE RestTyped'
  BY <1>2 DEF RestTyped, ClientStep, Post, PostRefused, Lose, PostFails, Accepted, NotAccepted,
     AskStatus, StatusLost, StatusPending, StatusDecides, Deadline, clientVars
<1>3. ASSUME NEW c \in Calls, ServerStep(c) PROVE RestTyped'
  BY <1>3 DEF RestTyped, ServerStep, Repeat, Claim, Reject, Fault, Queue, Settle, Cancel, Run,
     Succeed, Fail, Send, Confirm, Land, Miss, clientVars
<1>4. ASSUME NEW r \in Requests, Age(r) PROVE RestTyped'
  BY <1>4 DEF RestTyped, Age, clientVars
<1>5. CASE Restart
  BY <1>5, BridgeAssumption DEF RestTyped, Restart
<1> QED BY <1>1, <1>2, <1>3, <1>4, <1>5 DEF Next

(* The bridge's variables have their types; the ids the store has in order *)
(* are those with a record, each once, and never more than its limit,      *)
(* however records are claimed, expire, are evicted or lost with the       *)
(* process (execution.py:112-142, 254-258).                                *)
THEOREM StoreMatchesOrder == Spec => []TypeOK
<1>1. BridgeInv /\ CountInv /\ RestTyped /\ StoreOK => TypeOK
  BY DEF BridgeInv, BridgeTypeOK, CountInv, MessagesTyped, RestTyped, TypeOK
<1>2. Init => RestTyped /\ StoreOK
  <2> SUFFICES ASSUME Init PROVE RestTyped /\ StoreOK
    OBVIOUS
  <2>1. 0 <= MaxRecords /\ 0 \in 0 .. MaxRestarts BY BridgeAssumption
  <2>2. \A r \in Requests : ~Live(r) BY NewRecords DEF Init, Live
  <2> QED BY <2>1, <2>2 DEF Init, RestTyped, StoreOK
<1>3. BridgeInv /\ RestTyped /\ StoreOK /\ [Next]_vars => RestTyped' /\ StoreOK'
  BY RestStep, StoreStep
<1> QED BY <1>1, <1>2, <1>3, CountInvariance, PTL DEF Spec

=============================================================================
