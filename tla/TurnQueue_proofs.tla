-------------------------- MODULE TurnQueue_proofs --------------------------
(***************************************************************************)
(* Proofs about the turn queue, for any conversations, deliveries, workers *)
(* and sizes of the queue and its caches.                                  *)
(***************************************************************************)
EXTENDS TurnQueue, SequenceTheorems, FiniteSetTheorems, TLAPS

(* The worker a conversation names is alive and is that conversation's.    *)
WorkersAreNamed ==
    \A c \in Conversations : workerTask[c] # None =>
        /\ workerPc[workerTask[c]] # "gone"
        /\ workerOf[workerTask[c]] = c

LiveWorkers ==
    \A w \in Workers : workerPc[w] # "gone" =>
        /\ workerOf[w] \in Conversations
        /\ workerTask[workerOf[w]] = w

(* A worker awaits the process of a turn of its own conversation, and a    *)
(* process is awaited until it has released the turn's leases.             *)
WorkersAwait ==
    \A w \in Workers : workerPc[w] = "processing" =>
        /\ turnOf[w] \in Deliveries
        /\ ConversationOf[turnOf[w]] = workerOf[w]

ProcessesAreAwaited ==
    \A d \in Deliveries : Processing(d) =>
        \E w \in Workers : workerPc[w] = "processing" /\ turnOf[w] = d

(* What waits has been submitted to that conversation, once, and is not    *)
(* processed yet; the conversation has a worker, and it will be woken.     *)
QueueIsFresh ==
    /\ \A d \in Deliveries \ submitted : processPc[d] = "none"
    /\ \A c \in Conversations : \A i \in 1..Len(pending[c]) :
          /\ ConversationOf[pending[c][i]] = c
          /\ pending[c][i] \in submitted
          /\ processPc[pending[c][i]] = "none"
          /\ \A j \in 1..Len(pending[c]) :
                pending[c][i] = pending[c][j] => i = j

QueueIsWoken ==
    \A c \in Conversations :
        pending[c] # <<>> => wake[c] /\ workerTask[c] # None

QueueInv ==
    /\ QueueTypeOK
    /\ WorkersAreNamed
    /\ LiveWorkers
    /\ WorkersAwait
    /\ ProcessesAreAwaited
    /\ QueueIsFresh
    /\ QueueIsWoken

-----------------------------------------------------------------------------
(* Facts about the sequences the queue is made of.                         *)

(* Every non-empty set of positions has a first one.                       *)
LEMMA FirstPosition ==
    ASSUME NEW S \in SUBSET Nat, S # {}
    PROVE  \E i \in S : \A j \in S : i <= j
<1>1. PICK i \in S : \A j \in S : ~(<<j, i>> \in OpToRel(<, Nat))
  BY WFMin, NatLessThanWellFounded
<1>2. \A j \in S : ~(j < i)
  BY <1>1 DEF OpToRel
<1> QED BY <1>2

(* DropAt takes one element out and keeps the others in their order.       *)
LEMMA DropAtFacts ==
    ASSUME NEW S, NEW s \in Seq(S), NEW i \in 1..Len(s)
    PROVE  /\ DropAt(s, i) \in Seq(S)
           /\ Len(DropAt(s, i)) = Len(s) - 1
           /\ \A j \in 1..(Len(s) - 1) :
                 DropAt(s, i)[j] = IF j < i THEN s[j] ELSE s[j + 1]
<1> DEFINE a == SubSeq(s, 1, i - 1)
           b == SubSeq(s, i + 1, Len(s))
<1>1. /\ a \in Seq(S)
      /\ Len(a) = i - 1
      /\ \A j \in 1..(i - 1) : a[j] = s[j]
  <2>1. \A j \in 1..(i - 1) : s[j] \in S
    OBVIOUS
  <2>2. Len(a) = IF 1 <= i - 1 THEN (i - 1) - 1 + 1 ELSE 0
    BY <2>1, SubSeqProperties
  <2>3. \A j \in 1..((i - 1) - 1 + 1) : a[j] = s[1 + j - 1]
    BY <2>1, SubSeqProperties
  <2>4. a \in Seq(S)
    BY <2>1, SubSeqProperties
  <2> HIDE DEF a
  <2> QED BY <2>2, <2>3, <2>4
<1>2. /\ b \in Seq(S)
      /\ Len(b) = Len(s) - i
      /\ \A j \in 1..(Len(s) - i) : b[j] = s[i + j]
  <2>1. \A j \in (i + 1)..Len(s) : s[j] \in S
    OBVIOUS
  <2>2. Len(b) = IF i + 1 <= Len(s) THEN Len(s) - (i + 1) + 1 ELSE 0
    BY <2>1, SubSeqProperties
  <2>3. \A j \in 1..(Len(s) - (i + 1) + 1) : b[j] = s[(i + 1) + j - 1]
    BY <2>1, SubSeqProperties
  <2>4. b \in Seq(S)
    BY <2>1, SubSeqProperties
  <2> HIDE DEF b
  <2> QED BY <2>2, <2>3, <2>4
<1> HIDE DEF a, b
<1>3. /\ a \o b \in Seq(S)
      /\ Len(a \o b) = Len(a) + Len(b)
      /\ \A j \in 1..(Len(a) + Len(b)) :
            (a \o b)[j] = IF j <= Len(a) THEN a[j] ELSE b[j - Len(a)]
  BY <1>1, <1>2, ConcatProperties
<1>4. DropAt(s, i) = a \o b
  BY DEF DropAt, a, b
<1>5. Len(a) + Len(b) = Len(s) - 1 /\ Len(s) \in Nat /\ i \in Nat
  BY <1>1, <1>2
<1>6. ASSUME NEW j \in 1..(Len(s) - 1)
      PROVE  DropAt(s, i)[j] = IF j < i THEN s[j] ELSE s[j + 1]
  <2>1. CASE j < i
    BY <1>1, <1>3, <1>4, <1>5, <2>1
  <2>2. CASE j >= i
    <3>1. DropAt(s, i)[j] = b[j - (i - 1)]
      BY <1>1, <1>3, <1>4, <1>5, <2>2
    <3>2. j - (i - 1) \in 1..(Len(s) - i) /\ i + (j - (i - 1)) = j + 1
      BY <1>5, <2>2
    <3> QED BY <1>2, <2>2, <3>1, <3>2
  <2> QED BY <1>5, <2>1, <2>2
<1>7. DropAt(s, i) \in Seq(S) /\ Len(DropAt(s, i)) = Len(s) - 1
  BY <1>3, <1>4, <1>5
<1> QED BY <1>6, <1>7

(* The turn at j was at j too, or at j + 1 when the turn at v went.        *)
KeptAt(rest, q, v, j) ==
    /\ j < v => j \in 1..Len(q) /\ rest[j] = q[j]
    /\ j >= v => j + 1 \in 1..Len(q) /\ rest[j] = q[j + 1]

(* The turn a full queue gives up: the oldest that may be given up, or the *)
(* oldest of all.                                                          *)
LEMMA VictimAtFacts ==
    ASSUME QueueTypeOK, NEW c \in Conversations, ~Room(c)
    PROVE  /\ VictimAt(c) \in 1..Len(pending[c])
           /\ Len(pending[c]) = MaxPending
           /\ Sacrifices(c) = {} => VictimAt(c) = 1
           /\ Sacrifices(c) # {} =>
                 /\ VictimAt(c) \in Sacrifices(c)
                 /\ \A j \in Sacrifices(c) : VictimAt(c) <= j
<1>1. /\ pending[c] \in Seq(Deliveries) /\ Len(pending[c]) \in Nat
      /\ Len(pending[c]) = MaxPending /\ 1 <= MaxPending
  BY QueueAssumption DEF QueueTypeOK, Room
<1>2. CASE Sacrifices(c) = {}
  BY <1>1, <1>2 DEF VictimAt
<1>3. CASE Sacrifices(c) # {}
  <2>1. Sacrifices(c) \in SUBSET Nat /\ Sacrifices(c) \subseteq 1..Len(pending[c])
    BY <1>1 DEF Sacrifices
  <2>2. \E i \in Sacrifices(c) : \A j \in Sacrifices(c) : i <= j
    BY <1>3, <2>1, FirstPosition
  <2>3. VictimAt(c) = CHOOSE i \in Sacrifices(c) :
                            \A j \in Sacrifices(c) : i <= j
    BY <1>3 DEF VictimAt
  <2>4. /\ VictimAt(c) \in Sacrifices(c)
        /\ \A j \in Sacrifices(c) : VictimAt(c) <= j
    BY <2>2, <2>3, Zenon
  <2> QED BY <1>1, <1>3, <2>1, <2>4
<1> QED BY <1>2, <1>3

(* A turn joins what is left of the queue when at most one turn, at some   *)
(* position v, has been taken out to make room.                            *)
LEMMA EnqueuedFacts ==
    ASSUME QueueTypeOK, NEW c \in Conversations, NEW d \in Deliveries
    PROVE  \E rest \in Seq(Deliveries), v \in Nat :
              /\ Enqueued(c, d) = Append(rest, d)
              /\ Len(rest) < MaxPending
              /\ \A j \in 1..Len(rest) : KeptAt(rest, pending[c], v, j)
<1> USE QueueAssumption
<1> DEFINE q == pending[c]
<1>1. q \in Seq(Deliveries) /\ Len(q) <= MaxPending /\ Len(q) \in Nat
  BY DEF QueueTypeOK
<1>2. CASE Room(c)
  <2>1. Enqueued(c, d) = Append(q, d) /\ Len(q) < MaxPending
    BY <1>2 DEF Enqueued, Room
  <2>2. \A j \in 1..Len(q) : KeptAt(q, q, Len(q) + 1, j)
    BY <1>1 DEF KeptAt
  <2>3. Len(q) + 1 \in Nat
    BY <1>1
  <2> QED BY <1>1, <2>1, <2>2, <2>3, Zenon
<1>3. CASE ~Room(c)
  <2>1. VictimAt(c) \in 1..Len(q)
    BY <1>3, VictimAtFacts
  <2>2. Enqueued(c, d) = Append(DropAt(q, VictimAt(c)), d)
    BY <1>3 DEF Enqueued
  <2>3. PICK v \in 1..Len(q) : Enqueued(c, d) = Append(DropAt(q, v), d)
    BY <2>1, <2>2
  <2> DEFINE rest == DropAt(q, v)
  <2>4. /\ rest \in Seq(Deliveries)
        /\ Len(rest) = Len(q) - 1
        /\ \A j \in 1..(Len(q) - 1) :
              rest[j] = IF j < v THEN q[j] ELSE q[j + 1]
    BY <1>1, DropAtFacts
  <2>5. Enqueued(c, d) = Append(rest, d)
    BY <2>3
  <2> HIDE DEF rest
  <2>6. ASSUME NEW j \in 1..Len(rest)
        PROVE  KeptAt(rest, q, v, j)
    BY <1>1, <2>4 DEF KeptAt
  <2>7. v \in Nat /\ Len(rest) < MaxPending
    BY <1>1, <2>4
  <2> QED BY <2>4, <2>5, <2>6, <2>7, Zenon
<1> QED BY <1>2, <1>3

(* Only the tail of a sequence of one element is empty.                    *)
LEMMA TailFacts ==
    ASSUME NEW S, NEW s \in Seq(S), s # <<>>, Tail(s) # <<>>
    PROVE  Len(s) > 1
<1>1. Tail(s) \in Seq(S) /\ Len(Tail(s)) = Len(s) - 1
  BY HeadTailProperties
<1>2. Len(s) \in Nat /\ Len(s) # 0
  BY EmptySeq
<1>3. Len(Tail(s)) # 0
  BY <1>1, EmptySeq
<1> QED BY <1>1, <1>2, <1>3

-----------------------------------------------------------------------------
(* The invariant holds at first and every step keeps it.                   *)

(* The queue's invariant holds before anything is submitted.               *)
LEMMA QueueStart == Init => QueueInv
BY QueueAssumption
   DEF Init, QueueInv, QueueTypeOK, WorkersAreNamed, LiveWorkers,
       WorkersAwait, ProcessesAreAwaited, Processing, QueueIsFresh,
       QueueIsWoken

(* Steps that touch nothing of the queue's own: the caches, the duties of  *)
(* submit, the leases and the group's log.                                 *)
queueVars == <<conversationVars, workerVars, processPc, submitted>>

(* A step that leaves these variables alone preserves the invariant.       *)
LEMMA QueueUntouched ==
    ASSUME QueueInv, UNCHANGED queueVars
    PROVE  QueueInv'
BY DEF queueVars, conversationVars, workerVars, QueueInv, QueueTypeOK,
       WorkersAreNamed, LiveWorkers, WorkersAwait, ProcessesAreAwaited,
       Processing, QueueIsFresh, QueueIsWoken

(* A submit that adds no turn only marks its delivery as submitted.        *)
LEMMA NothingAdded ==
    ASSUME QueueInv, NEW d \in Deliveries,
           submitted' = submitted \cup {d},
           UNCHANGED <<pending, workerTask, active, workerVars, processPc>>,
           \/ UNCHANGED wake
           \/ /\ wake' = [wake EXCEPT ![ConversationOf[d]] = TRUE]
              /\ ConversationOf[d] \in Conversations
    PROVE  QueueInv'
<1> USE DEF workerVars, QueueInv
<1>1. QueueTypeOK'
  BY DEF QueueTypeOK
<1>2. (WorkersAreNamed /\ LiveWorkers /\ WorkersAwait)'
  BY DEF WorkersAreNamed, LiveWorkers, WorkersAwait
<1>3. ProcessesAreAwaited'
  BY DEF ProcessesAreAwaited, Processing
<1>4. QueueIsFresh'
  BY DEF QueueIsFresh
<1>5. QueueIsWoken'
  BY DEF QueueIsWoken, QueueTypeOK
<1> QED BY <1>1, <1>2, <1>3, <1>4, <1>5

(* An accepted turn joins the queue as a delivery never seen before, and   *)
(* its conversation has a worker from then on.                             *)
LEMMA AcceptKeepsInv ==
    ASSUME QueueInv, NEW d \in Deliveries, Accept(d)
    PROVE  QueueInv'
<1> USE QueueAssumption DEF QueueInv
<1> DEFINE c == ConversationOf[d]
<1>1. c \in Conversations /\ d \notin submitted /\ processPc[d] = "none"
  BY DEF Accept, Fresh, Considered, QueueIsFresh
<1>2. PICK rest \in Seq(Deliveries), v \in Nat :
          /\ Enqueued(c, d) = Append(rest, d)
          /\ Len(rest) < MaxPending
          /\ \A j \in 1..Len(rest) : KeptAt(rest, pending[c], v, j)
  BY <1>1, EnqueuedFacts
<1>3. /\ pending' = [pending EXCEPT ![c] = Append(rest, d)]
      /\ wake' = [wake EXCEPT ![c] = TRUE]
      /\ submitted' = submitted \cup {d}
      /\ UNCHANGED <<active, processPc>>
      /\ \E w \in Workers : EnsureWorker(c, w)
  BY <1>2 DEF Accept, Return
<1>4. /\ Append(rest, d) \in Seq(Deliveries)
      /\ Len(Append(rest, d)) = Len(rest) + 1
      /\ \A j \in 1..Len(rest) : Append(rest, d)[j] = rest[j]
      /\ Append(rest, d)[Len(rest) + 1] = d
      /\ Len(rest) \in Nat
  BY <1>2, AppendProperties
<1>5. PICK w \in Workers : EnsureWorker(c, w)
  BY <1>3
<1>6. /\ workerTask' \in [Conversations -> Workers \cup {None}]
      /\ workerPc' \in [Workers -> {"gone", "ready", "idle", "timedOut",
                                    "processing"}]
      /\ workerOf' \in [Workers -> Conversations \cup {None}]
      /\ turnOf' \in [Workers -> Deliveries \cup {None}]
  <2>1. CASE WorkerLives(c)
    <3>1. UNCHANGED <<workerTask, workerPc, workerOf, turnOf>>
      BY <1>5, <2>1 DEF EnsureWorker, workerVars
    <3> QED BY <3>1 DEF QueueTypeOK
  <2>2. CASE ~WorkerLives(c)
    <3>1. /\ workerTask' = [workerTask EXCEPT ![c] = w]
          /\ workerPc' = [workerPc EXCEPT ![w] = "ready"]
          /\ workerOf' = [workerOf EXCEPT ![w] = c]
          /\ turnOf' = [turnOf EXCEPT ![w] = None]
      BY <1>5, <2>2 DEF EnsureWorker
    <3> QED BY <1>1, <3>1 DEF QueueTypeOK
  <2> QED BY <2>1, <2>2
<1>7. QueueTypeOK'
  <2>1. pending' \in [Conversations -> Seq(Deliveries)]
    BY <1>3, <1>4 DEF QueueTypeOK
  <2>2. \A u \in Conversations : Len(pending'[u]) <= MaxPending
    BY <1>1, <1>2, <1>3, <1>4 DEF QueueTypeOK
  <2> QED BY <1>3, <1>6, <2>1, <2>2 DEF QueueTypeOK
<1>8. /\ WorkersAreNamed' /\ LiveWorkers' /\ WorkersAwait'
      /\ ProcessesAreAwaited'
      /\ workerTask'[c] # None
      /\ \A u \in Conversations : workerTask[u] # None => workerTask'[u] # None
  <2>1. CASE WorkerLives(c)
    <3>1. UNCHANGED <<workerTask, workerPc, workerOf, turnOf>>
      BY <1>5, <2>1 DEF EnsureWorker, workerVars
    <3>2. WorkersAreNamed' /\ LiveWorkers' /\ WorkersAwait'
      BY <3>1 DEF WorkersAreNamed, LiveWorkers, WorkersAwait
    <3>3. ProcessesAreAwaited'
      BY <1>3, <3>1 DEF ProcessesAreAwaited, Processing
    <3> QED BY <2>1, <3>1, <3>2, <3>3 DEF WorkerLives
  <2>2. CASE ~WorkerLives(c)
    <3>1. /\ workerPc[w] = "gone"
          /\ workerTask' = [workerTask EXCEPT ![c] = w]
          /\ workerPc' = [workerPc EXCEPT ![w] = "ready"]
          /\ workerOf' = [workerOf EXCEPT ![w] = c]
          /\ turnOf' = [turnOf EXCEPT ![w] = None]
      BY <1>5, <2>2 DEF EnsureWorker
    <3>2. workerTask[c] = None
      BY <1>1, <2>2 DEF WorkerLives, WorkersAreNamed
    <3>3. \A u \in Conversations : workerTask[u] # w
      BY <3>1 DEF WorkersAreNamed
    <3>4. WorkersAreNamed'
      BY <1>1, <3>1, <3>3 DEF WorkersAreNamed, QueueTypeOK
    <3>5. LiveWorkers'
      BY <1>1, <3>1, <3>2 DEF LiveWorkers, QueueTypeOK
    <3>6. WorkersAwait'
      BY <3>1 DEF WorkersAwait, QueueTypeOK
    <3>7. ProcessesAreAwaited'
      BY <1>3, <3>1 DEF ProcessesAreAwaited, Processing, QueueTypeOK
    <3>8. \A u \in Conversations :
             u = c \/ workerTask[u] # None => workerTask'[u] # None
      BY <1>1, <3>1 DEF QueueTypeOK
    <3> QED BY <1>1, <3>4, <3>5, <3>6, <3>7, <3>8
  <2> QED BY <2>1, <2>2
<1>9. QueueIsFresh'
  <2>1. \A e \in Deliveries \ submitted' : processPc'[e] = "none"
    BY <1>3 DEF QueueIsFresh
  <2>2. ASSUME NEW u \in Conversations, u # c
        PROVE  pending'[u] = pending[u]
    BY <1>3, <2>2 DEF QueueTypeOK
  <2>3. ASSUME NEW j \in 1..Len(rest)
        PROVE  \E k \in 1..Len(pending[c]) : rest[j] = pending[c][k]
    <3>1. KeptAt(rest, pending[c], v, j) /\ (j < v \/ j >= v)
      BY <1>2, <1>4
    <3> QED BY <3>1 DEF KeptAt
  <2>4. \A j \in 1..Len(rest) :
           /\ ConversationOf[rest[j]] = c
           /\ rest[j] \in submitted
           /\ processPc[rest[j]] = "none"
    BY <1>1, <2>3 DEF QueueIsFresh
  <2>5. \A j, k \in 1..Len(rest) : rest[j] = rest[k] => j = k
    <3>1. \A j, k \in 1..Len(pending[c]) :
             pending[c][j] = pending[c][k] => j = k
      BY <1>1 DEF QueueIsFresh
    <3>2. ASSUME NEW j \in 1..Len(rest), NEW k \in 1..Len(rest),
                 rest[j] = rest[k]
          PROVE  j = k
      <4>1. KeptAt(rest, pending[c], v, j) /\ KeptAt(rest, pending[c], v, k)
        BY <1>2
      <4>2. j \in Nat /\ k \in Nat
        BY <1>4
      <4>3. CASE j < v /\ k < v
        BY <3>1, <3>2, <4>1, <4>3 DEF KeptAt
      <4>4. CASE j < v /\ k >= v
        <5>1. j = k + 1
          BY <3>1, <3>2, <4>1, <4>4 DEF KeptAt
        <5> QED BY <4>2, <4>4, <5>1
      <4>5. CASE j >= v /\ k < v
        <5>1. j + 1 = k
          BY <3>1, <3>2, <4>1, <4>5 DEF KeptAt
        <5> QED BY <4>2, <4>5, <5>1
      <4>6. CASE j >= v /\ k >= v
        <5>1. j + 1 = k + 1
          BY <3>1, <3>2, <4>1, <4>6 DEF KeptAt
        <5> QED BY <4>2, <5>1
      <4> QED BY <4>2, <4>3, <4>4, <4>5, <4>6
    <3> QED BY <3>2
  <2>6. \A j \in 1..(Len(rest) + 1) :
           /\ ConversationOf[Append(rest, d)[j]] = c
           /\ Append(rest, d)[j] \in submitted'
           /\ processPc'[Append(rest, d)[j]] = "none"
    BY <1>1, <1>3, <1>4, <2>4
  <2>7. \A j, k \in 1..(Len(rest) + 1) :
           Append(rest, d)[j] = Append(rest, d)[k] => j = k
    BY <1>1, <1>4, <2>4, <2>5
  <2>8. pending'[c] = Append(rest, d) /\ Len(pending'[c]) = Len(rest) + 1
    BY <1>1, <1>3, <1>4 DEF QueueTypeOK
  <2>9. ASSUME NEW u \in Conversations, NEW i \in 1..Len(pending'[u])
        PROVE  /\ ConversationOf[pending'[u][i]] = u
               /\ pending'[u][i] \in submitted'
               /\ processPc'[pending'[u][i]] = "none"
               /\ \A j \in 1..Len(pending'[u]) :
                     pending'[u][i] = pending'[u][j] => i = j
    <3>1. CASE u = c
      BY <2>6, <2>7, <2>8, <2>9, <3>1
    <3>2. CASE u # c
      BY <1>3, <2>2, <2>9, <3>2 DEF QueueIsFresh
    <3> QED BY <3>1, <3>2
  <2> QED BY <2>1, <2>9 DEF QueueIsFresh
<1>10. QueueIsWoken'
  BY <1>1, <1>3, <1>8 DEF QueueIsWoken, QueueTypeOK
<1> QED BY <1>7, <1>8, <1>9, <1>10

(* The worker takes the oldest turn once the turn before it is done.       *)
LEMMA TakeKeepsInv ==
    ASSUME QueueInv, NEW w \in Workers, TakeTurn(w)
    PROVE  QueueInv'
<1> USE QueueAssumption DEF QueueInv
<1> DEFINE c == workerOf[w]
           d == Head(pending[c])
           rest == Tail(pending[c])
<1>1. /\ workerPc[w] # "gone"
      /\ c \in Conversations /\ workerTask[c] = w
      /\ \A e \in Deliveries : Processing(e) =>
            ~(workerPc[w] = "processing" /\ turnOf[w] = e)
  BY DEF TakeTurn, AtLoopTop, LiveWorkers, Processing
<1>2. /\ pending' = [pending EXCEPT ![c] = rest]
      /\ wake' = [wake EXCEPT ![c] = MoreWaiting(c)]
      /\ active' = [active EXCEPT ![c] = d]
      /\ turnOf' = [turnOf EXCEPT ![w] = d]
      /\ workerPc' = [workerPc EXCEPT ![w] = "processing"]
      /\ processPc' = [processPc EXCEPT ![d] = "running"]
      /\ UNCHANGED <<workerTask, workerOf, submitted>>
  BY DEF TakeTurn, callVars
<1>3. /\ pending[c] \in Seq(Deliveries) /\ pending[c] # <<>>
      /\ Len(pending[c]) \in Nat /\ Len(pending[c]) >= 1
      /\ d \in Deliveries /\ d = pending[c][1]
      /\ rest \in Seq(Deliveries)
      /\ Len(rest) = Len(pending[c]) - 1
      /\ \A j \in 1..(Len(pending[c]) - 1) :
            rest[j] = pending[c][j + 1]
  <2>1. pending[c] \in Seq(Deliveries) /\ pending[c] # <<>>
    BY <1>1 DEF TakeTurn, QueueTypeOK
  <2> QED BY <2>1, HeadTailProperties
<1>4. ConversationOf[d] = c /\ d \in submitted /\ processPc[d] = "none"
  BY <1>1, <1>3 DEF QueueIsFresh
<1> HIDE DEF c, d, rest
<1>5. QueueTypeOK'
  <2>1. pending' \in [Conversations -> Seq(Deliveries)]
    BY <1>2, <1>3 DEF QueueTypeOK
  <2>2. \A u \in Conversations : Len(pending'[u]) <= MaxPending
    BY <1>1, <1>2, <1>3 DEF QueueTypeOK
  <2>3. wake' \in [Conversations -> BOOLEAN]
    BY <1>1, <1>2 DEF MoreWaiting, QueueTypeOK
  <2> QED BY <1>2, <1>3, <2>1, <2>2, <2>3 DEF QueueTypeOK
<1>6. WorkersAreNamed' /\ LiveWorkers'
  BY <1>1, <1>2 DEF WorkersAreNamed, LiveWorkers, QueueTypeOK
<1>7. WorkersAwait'
  BY <1>2, <1>3, <1>4 DEF WorkersAwait, QueueTypeOK, c
<1>8. ProcessesAreAwaited'
  <2>1. ASSUME NEW e \in Deliveries, Processing(e)'
        PROVE  \E u \in Workers : workerPc'[u] = "processing" /\ turnOf'[u] = e
    <3>1. CASE e = d
      BY <1>2, <3>1 DEF QueueTypeOK
    <3>2. CASE e # d
      <4>1. Processing(e)
        BY <1>2, <2>1, <3>2 DEF Processing, QueueTypeOK
      <4>2. PICK u \in Workers : workerPc[u] = "processing" /\ turnOf[u] = e
        BY <4>1 DEF ProcessesAreAwaited
      <4>3. u # w
        BY <1>1, <4>1, <4>2
      <4> QED BY <1>2, <4>2, <4>3 DEF QueueTypeOK
    <3> QED BY <3>1, <3>2
  <2> QED BY <2>1 DEF ProcessesAreAwaited
<1>9. QueueIsFresh'
  <2>1. \A e \in Deliveries \ submitted' : processPc'[e] = "none"
    BY <1>2, <1>3, <1>4 DEF QueueIsFresh, QueueTypeOK
  <2>2. ASSUME NEW u \in Conversations, NEW i \in 1..Len(pending'[u])
        PROVE  /\ ConversationOf[pending'[u][i]] = u
               /\ pending'[u][i] \in submitted'
               /\ processPc'[pending'[u][i]] = "none"
               /\ \A j \in 1..Len(pending'[u]) :
                     pending'[u][i] = pending'[u][j] => i = j
    <3>1. CASE u = c
      <4>1. /\ pending'[u] = rest
            /\ Len(pending'[u]) = Len(pending[c]) - 1
        BY <1>2, <1>3, <3>1 DEF QueueTypeOK
      <4>2. \A j \in 1..Len(pending'[u]) :
               /\ pending'[u][j] = pending[c][j + 1]
               /\ j + 1 \in 1..Len(pending[c])
               /\ j + 1 # 1
        BY <1>3, <4>1
      <4>3. \A j \in 1..Len(pending'[u]) : pending'[u][j] # d
        BY <1>1, <1>3, <4>2 DEF QueueIsFresh
      <4>4. \A j \in 1..Len(pending'[u]) :
               /\ ConversationOf[pending[c][j + 1]] = c
               /\ pending[c][j + 1] \in submitted
               /\ processPc[pending[c][j + 1]] = "none"
        BY <1>1, <4>2 DEF QueueIsFresh
      <4>5. \A j \in 1..Len(pending'[u]) :
               pending[c][i + 1] = pending[c][j + 1] => i + 1 = j + 1
        BY <1>1, <2>2, <4>2 DEF QueueIsFresh
      <4>6. processPc'[pending'[u][i]] = processPc[pending'[u][i]]
        <5>1. pending'[u][i] \in Deliveries
          BY <2>2, <1>5 DEF QueueTypeOK
        <5> QED BY <1>2, <2>2, <4>3, <5>1 DEF QueueTypeOK
      <4>7. \A j \in 1..Len(pending'[u]) : i + 1 = j + 1 => i = j
        BY <1>3, <2>2, <4>1
      <4>8. pending'[u][i] = pending[c][i + 1]
        BY <2>2, <4>2
      <4>9. /\ ConversationOf[pending'[u][i]] = u
            /\ pending'[u][i] \in submitted'
            /\ processPc'[pending'[u][i]] = "none"
        BY <1>2, <2>2, <3>1, <4>4, <4>6, <4>8
      <4>10. ASSUME NEW j \in 1..Len(pending'[u]), pending'[u][i] = pending'[u][j]
             PROVE  i = j
        BY <4>2, <4>5, <4>7, <4>8, <4>10
      <4> QED BY <4>9, <4>10
    <3>2. CASE u # c
      <4>1. pending'[u] = pending[u]
        BY <1>2, <3>2 DEF QueueTypeOK
      <4>2. /\ ConversationOf[pending[u][i]] = u
            /\ pending[u][i] \in submitted
            /\ processPc[pending[u][i]] = "none"
            /\ \A j \in 1..Len(pending[u]) :
                  pending[u][i] = pending[u][j] => i = j
        BY <2>2, <4>1 DEF QueueIsFresh
      <4>3. pending[u][i] # d
        BY <1>4, <3>2, <4>2
      <4> QED BY <1>2, <1>3, <4>1, <4>2, <4>3 DEF QueueTypeOK
    <3> QED BY <3>1, <3>2
  <2> QED BY <2>1, <2>2 DEF QueueIsFresh
<1>10. QueueIsWoken'
  <2>1. ASSUME NEW u \in Conversations, pending'[u] # <<>>
        PROVE  wake'[u] /\ workerTask'[u] # None
    <3>1. CASE u = c
      <4>1. Len(pending[c]) > 1
        <5>1. pending'[u] = rest
          BY <1>2, <3>1 DEF QueueTypeOK
        <5>2. pending[c] \in Seq(Deliveries) /\ pending[c] # <<>>
          BY <1>3
        <5> QED BY <2>1, <5>1, <5>2, TailFacts DEF rest
      <4>2. wake[c]
        BY <1>1, <1>3 DEF QueueIsWoken
      <4>3. wake'[c] = TRUE
        BY <1>1, <1>2, <4>1, <4>2 DEF MoreWaiting, QueueTypeOK
      <4>4. workerTask'[c] # None
        BY <1>1, <1>2
      <4> QED BY <3>1, <4>3, <4>4
    <3>2. CASE u # c
      BY <1>2, <2>1, <3>2 DEF QueueIsWoken, QueueTypeOK
    <3> QED BY <3>1, <3>2
  <2> QED BY <2>1 DEF QueueIsWoken
<1> QED BY <1>5, <1>6, <1>7, <1>8, <1>9, <1>10

(* A worker that finds nothing to do waits; it awaits no process then.     *)
LEMMA IdleKeepsInv ==
    ASSUME QueueInv, NEW w \in Workers, GoIdle(w)
    PROVE  QueueInv'
<1> USE QueueAssumption DEF QueueInv
<1> DEFINE c == workerOf[w]
<1>1. /\ workerPc[w] # "gone"
      /\ c \in Conversations /\ workerTask[c] = w
      /\ pending[c] = <<>>
      /\ \A e \in Deliveries : Processing(e) =>
            ~(workerPc[w] = "processing" /\ turnOf[w] = e)
  BY DEF GoIdle, AtLoopTop, LiveWorkers, Processing
<1>2. /\ wake' = [wake EXCEPT ![c] = FALSE]
      /\ active' = [active EXCEPT ![c] = IF @ = turnOf[w] THEN None ELSE @]
      /\ turnOf' = [turnOf EXCEPT ![w] = None]
      /\ workerPc' = [workerPc EXCEPT ![w] = "idle"]
      /\ UNCHANGED <<pending, workerTask, workerOf, processPc, submitted>>
  BY DEF GoIdle, callVars
<1> HIDE DEF c
<1>3. QueueTypeOK'
  BY <1>1, <1>2 DEF QueueTypeOK
<1>4. WorkersAreNamed' /\ LiveWorkers' /\ WorkersAwait'
  BY <1>1, <1>2 DEF WorkersAreNamed, LiveWorkers, WorkersAwait, QueueTypeOK
<1>5. ASSUME NEW e \in Deliveries, Processing(e)'
      PROVE  \E u \in Workers : workerPc'[u] = "processing" /\ turnOf'[u] = e
  <2>1. Processing(e)
    BY <1>2, <1>5 DEF Processing
  <2>2. PICK u \in Workers : workerPc[u] = "processing" /\ turnOf[u] = e
    BY <2>1 DEF ProcessesAreAwaited
  <2>3. u # w
    BY <1>1, <2>1, <2>2
  <2> QED BY <1>2, <2>2, <2>3 DEF QueueTypeOK
<1>6. QueueIsFresh'
  BY <1>2 DEF QueueIsFresh
<1>7. QueueIsWoken'
  BY <1>1, <1>2 DEF QueueIsWoken, QueueTypeOK
<1> QED BY <1>3, <1>4, <1>5, <1>6, <1>7 DEF ProcessesAreAwaited

(* The timer of an idle worker goes off (turn_queue.py:304): the worker    *)
(* is about to retire, and is woken already if a turn is pending.          *)
LEMMA TimeOutKeepsInv ==
    ASSUME QueueInv, NEW w \in Workers, TimeOut(w)
    PROVE  QueueInv'
<1> USE DEF QueueInv
<1>1. /\ workerPc[w] = "idle"
      /\ workerPc' = [workerPc EXCEPT ![w] = "timedOut"]
      /\ UNCHANGED <<pending, wake, workerTask, active, workerOf, turnOf,
                     processPc, submitted>>
  BY DEF TimeOut, conversationVars, callVars
<1>2. QueueTypeOK'
  BY <1>1 DEF QueueTypeOK
<1>3. WorkersAreNamed' /\ LiveWorkers' /\ WorkersAwait'
  BY <1>1 DEF WorkersAreNamed, LiveWorkers, WorkersAwait, QueueTypeOK
<1>4. ProcessesAreAwaited'
  BY <1>1 DEF ProcessesAreAwaited, Processing, QueueTypeOK
<1>5. QueueIsFresh' /\ QueueIsWoken'
  BY <1>1 DEF QueueIsFresh, QueueIsWoken
<1> QED BY <1>2, <1>3, <1>4, <1>5

(* A worker retires only when nothing is pending and nothing woke it after *)
(* its timer went off, so the conversation needs no worker.                *)
LEMMA RetireKeepsInv ==
    ASSUME QueueInv, NEW w \in Workers, Retire(w)
    PROVE  QueueInv'
<1> USE QueueAssumption DEF QueueInv
<1> DEFINE c == workerOf[w]
<1>1. /\ workerPc[w] = "timedOut"
      /\ c \in Conversations /\ workerTask[c] = w
      /\ pending[c] = <<>>
  BY DEF Retire, StaysOn, LiveWorkers
<1>2. /\ workerTask' = [workerTask EXCEPT ![c] = None]
      /\ workerPc' = [workerPc EXCEPT ![w] = "gone"]
      /\ workerOf' = [workerOf EXCEPT ![w] = None]
      /\ UNCHANGED <<pending, wake, active, turnOf, processPc, submitted>>
  BY <1>1 DEF Retire, callVars
<1> HIDE DEF c
<1>3. QueueTypeOK'
  BY <1>1, <1>2 DEF QueueTypeOK
<1>4. WorkersAreNamed'
  <2>1. \A u \in Conversations : u # c => workerTask[u] # w
    BY <1>1 DEF WorkersAreNamed, c
  <2> QED BY <1>1, <1>2, <2>1 DEF WorkersAreNamed, QueueTypeOK
<1>5. LiveWorkers' /\ WorkersAwait'
  BY <1>1, <1>2 DEF LiveWorkers, WorkersAwait, QueueTypeOK
<1>6. ProcessesAreAwaited'
  BY <1>1, <1>2 DEF ProcessesAreAwaited, Processing, QueueTypeOK
<1>7. QueueIsFresh'
  BY <1>2 DEF QueueIsFresh
<1>8. QueueIsWoken'
  BY <1>1, <1>2 DEF QueueIsWoken, QueueTypeOK
<1> QED BY <1>3, <1>4, <1>5, <1>6, <1>7, <1>8

(* A process moves on: from running to releasing to done.                  *)
LEMMA ProcessKeepsInv ==
    ASSUME QueueInv, NEW d \in Deliveries, ProcessStep(d)
    PROVE  QueueInv'
<1> USE DEF QueueInv
<1>1. /\ Processing(d)
      /\ \E pc \in {"releasing", "done"} :
            processPc' = [processPc EXCEPT ![d] = pc]
      /\ UNCHANGED <<pending, wake, workerTask, active, workerPc, workerOf,
                     turnOf, submitted>>
  BY DEF ProcessStep, FinishProcessor, ReleaseProcessed, Processing,
         conversationVars, workerVars, callVars
<1>2. processPc[d] # "none"
  BY <1>1 DEF Processing
<1>3. \A e \in Deliveries : e # d => processPc'[e] = processPc[e]
  BY <1>1 DEF QueueTypeOK
<1>4. QueueTypeOK'
  BY <1>1 DEF QueueTypeOK
<1>5. WorkersAreNamed' /\ LiveWorkers' /\ WorkersAwait'
  BY <1>1 DEF WorkersAreNamed, LiveWorkers, WorkersAwait
<1>6. ProcessesAreAwaited'
  BY <1>1, <1>3 DEF ProcessesAreAwaited, Processing
<1>7. QueueIsFresh'
  <2>1. \A c \in Conversations : \A i \in 1..Len(pending[c]) :
           pending[c][i] # d /\ pending[c][i] \in Deliveries
    BY <1>2 DEF QueueIsFresh, QueueTypeOK
  <2>2. d \in submitted
    BY <1>2 DEF QueueIsFresh
  <2> QED BY <1>1, <1>3, <2>1, <2>2 DEF QueueIsFresh
<1>8. QueueIsWoken'
  BY <1>1 DEF QueueIsWoken
<1> QED BY <1>4, <1>5, <1>6, <1>7, <1>8

(* Every step of the queue preserves the invariant: one case per action    *)
(* of Next.                                                                *)
LEMMA QueueStep ==
    ASSUME QueueInv, [Next]_vars
    PROVE  QueueInv'
<1> USE QueueAssumption
<1>1. CASE UNCHANGED vars
  BY <1>1, QueueUntouched DEF vars, queueVars, callVars
<1>2. ASSUME NEW d \in Deliveries, Ignore(d) \/ SkipDuplicate(d) \/ Refuse(d)
      PROVE  QueueInv'
  <2>1. /\ submitted' = submitted \cup {d}
        /\ UNCHANGED <<pending, wake, workerTask, active, workerVars,
                       processPc>>
    BY <1>2 DEF Ignore, SkipDuplicate, Refuse, Return, conversationVars
  <2> QED BY <2>1, NothingAdded
<1>3. ASSUME NEW d \in Deliveries, Accept(d)
      PROVE  QueueInv'
  BY <1>3, AcceptKeepsInv
<1>4. ASSUME NEW d \in Deliveries, SpawnFails(d)
      PROVE  QueueInv'
  <2>1. /\ submitted' = submitted \cup {d}
        /\ wake' = [wake EXCEPT ![ConversationOf[d]] = TRUE]
        /\ ConversationOf[d] \in Conversations
        /\ UNCHANGED <<pending, workerTask, active, workerVars, processPc>>
    BY <1>4 DEF SpawnFails, Return
  <2> QED BY <2>1, NothingAdded
<1>5. ASSUME NEW d \in Deliveries, CleanUp(d)
      PROVE  QueueInv'
  <2>1. UNCHANGED queueVars
    BY <1>5 DEF CleanUp, ReleaseDropped, TellDropped, TellRejected,
                ReleaseOwn, Discharge, queueVars
  <2> QED BY <2>1, QueueUntouched
<1>6. ASSUME NEW d \in Deliveries, ProcessStep(d)
      PROVE  QueueInv'
  BY <1>6, ProcessKeepsInv
<1>7. ASSUME NEW w \in Workers, WorkerStep(w) \/ TimeOut(w) \/ Retire(w)
      PROVE  QueueInv'
  BY <1>7, TakeKeepsInv, IdleKeepsInv, TimeOutKeepsInv, RetireKeepsInv
     DEF WorkerStep
<1>8. CASE DedupeAges \/ \E g \in Groups : ContextAges(g)
  <2>1. UNCHANGED queueVars
    BY <1>8 DEF DedupeAges, ContextAges, queueVars, callVars
  <2> QED BY <2>1, QueueUntouched
<1> QED BY <1>1, <1>2, <1>3, <1>4, <1>5, <1>6, <1>7, <1>8
        DEF Next, Submit

-----------------------------------------------------------------------------
(* What follows for every behaviour of the queue.                          *)

(* The invariant holds in every behaviour of the queue.                    *)
LEMMA QueueInvariance == Spec => []QueueInv
<1>1. QueueInv /\ [Next]_vars => QueueInv'
  BY QueueStep
<1> QED BY <1>1, QueueStart, PTL DEF Spec

(* The queue's own state keeps its types; no queue grows past its bound.   *)
THEOREM QueueTypes == Spec => []QueueTypeOK
<1>1. QueueInv => QueueTypeOK
  BY DEF QueueInv
<1> QED BY <1>1, QueueInvariance, PTL

(* However submits, timers and retirements interleave, a conversation has  *)
(* one live worker at most.                                                *)
THEOREM WorkerIsOne == Spec => []OneWorker
<1>1. QueueInv => OneWorker
  BY DEF QueueInv, LiveWorkers, OneWorker
<1> QED BY <1>1, QueueInvariance, PTL

(* A process is awaited by its conversation's one worker.                  *)
LEMMA SerialisedHolds == QueueInv => Serialised
<1>1. ASSUME QueueInv, NEW d \in Deliveries, NEW e \in Deliveries,
             ConversationOf[d] = ConversationOf[e],
             Processing(d), Processing(e)
      PROVE  d = e
  <2>1. PICK v \in Workers : workerPc[v] = "processing" /\ turnOf[v] = d
    BY <1>1 DEF QueueInv, ProcessesAreAwaited
  <2>2. PICK w \in Workers : workerPc[w] = "processing" /\ turnOf[w] = e
    BY <1>1 DEF QueueInv, ProcessesAreAwaited
  <2>3. workerOf[v] = workerOf[w]
    BY <1>1, <2>1, <2>2 DEF QueueInv, WorkersAwait
  <2>4. v = w
    BY <1>1, <2>1, <2>2, <2>3 DEF QueueInv, LiveWorkers
  <2> QED BY <2>1, <2>2, <2>4
<1> QED BY <1>1 DEF Serialised

(* Two turns of a conversation are never processed at once.                *)
THEOREM TurnsAreSerial == Spec => []Serialised
BY SerialisedHolds, QueueInvariance, PTL

(* A turn that waits has a worker, and the worker's wake event is set when *)
(* it waits or is about to retire: no wake-up is lost.                     *)
THEOREM NoLostWakeup == Spec => []PendingIsServed
<1>1. QueueInv => PendingIsServed
  BY DEF QueueInv, QueueIsWoken, WorkersAreNamed, PendingIsServed, WorkerLives
<1> QED BY <1>1, QueueInvariance, PTL
-----------------------------------------------------------------------------
(* The calls of submit, which answer for a turn, its lease and its sender  *)
(* after the queue has decided: what each of them still owes.              *)

Live(d) == Waiting(d) \/ Processing(d)

DropDuties == {<<"releaseDropped", "tellDropped">>, <<"tellDropped">>, <<>>}

OwnDuties ==
    {<<"tellRejected", "releaseOwn">>, <<"tellRejected">>, <<"releaseOwn">>,
     <<>>}

CallTyped ==
    /\ duties \in [Deliveries -> Seq(Duty)]
    /\ dropped \in [Deliveries -> Deliveries \cup {None}]
    /\ notified \in [Deliveries -> {"no", "replaced", "queue_full"}]
    /\ lease \in [Deliveries -> {"none", "held", "released"}]

(* What has not been submitted yet has no past.                            *)
CallsAreFresh ==
    \A d \in Deliveries \ submitted :
        /\ duties[d] = <<>> /\ dropped[d] = None /\ notified[d] = "no"
        /\ d \in Leased => lease[d] = "held"

(* A turn that was dropped is out of the queue for good, and the call that *)
(* dropped it tells its sender.                                            *)
DropsAreTold ==
    \A e, d \in Deliveries : dropped[e] = d =>
        /\ d \in submitted /\ ~Waiting(d) /\ processPc[d] = "none"
        /\ duties[e] \in DropDuties
        /\ duties[e] = <<>> => notified[d] = "replaced"

(* A call that owes something on its own account never had a turn queued.  *)
OwnCallsEnd ==
    \A d \in Deliveries : dropped[d] = None =>
        /\ duties[d] \in OwnDuties
        /\ duties[d] # <<>> =>
              ~Waiting(d) /\ processPc[d] = "none" /\ ~Dropped(d)

TellsAreLast ==
    \A d \in Deliveries : notified[d] # "no" =>
        ~Waiting(d) /\ processPc[d] = "none"

(* A turn that is processed is its conversation's active turn.             *)
ActiveIsAwaited ==
    \A w \in Workers : workerPc[w] = "processing" =>
        active[workerOf[w]] = turnOf[w]

CallInv ==
    /\ CallTyped
    /\ CallsAreFresh
    /\ DropsAreTold
    /\ OwnCallsEnd
    /\ TellsAreLast
    /\ LeaseCoversTurn
    /\ LeaseHasOwner
    /\ ActiveIsAwaited
    /\ InFlightOnce

(* The element of a sequence of one.                                       *)
LEMMA OneElement == \A x : x \in Elements(<<x>>)
<1>1. ASSUME NEW x PROVE x \in Elements(<<x>>)
  <2>1. Len(<<x>>) = 1 /\ <<x>>[1] = x
    OBVIOUS
  <2>2. 1 \in 1..Len(<<x>>)
    BY <2>1
  <2> QED BY <2>1, <2>2 DEF Elements
<1> QED BY <1>1

(* The duties a call may owe, one by one.                                  *)
LEMMA DutyFacts ==
    /\ DropDuties \cup OwnDuties \subseteq Seq(Duty)
    /\ \A s \in DropDuties : s # <<>> =>
          /\ Tail(s) \in DropDuties
          /\ Head(s) = "releaseDropped" =>
                /\ "tellDropped" \in Elements(Tail(s)) /\ Tail(s) # <<>>
          /\ Head(s) = "tellDropped" => Tail(s) = <<>>
                                        /\ "releaseDropped" \notin Elements(s)
          /\ Head(s) \in {"releaseDropped", "tellDropped"}
          /\ "tellDropped" \in Elements(s)
    /\ \A s \in OwnDuties : s # <<>> =>
          /\ Tail(s) \in OwnDuties
          /\ Head(s) = "tellRejected" =>
                ("releaseOwn" \in Elements(s) => "releaseOwn" \in Elements(Tail(s)))
          /\ Head(s) \in {"tellRejected", "releaseOwn"}
<1>1. DropDuties \cup OwnDuties \subseteq Seq(Duty)
  BY DEF DropDuties, OwnDuties, Duty
<1>2. ASSUME NEW s \in DropDuties, s # <<>>
      PROVE  /\ Tail(s) \in DropDuties
             /\ Head(s) = "releaseDropped" =>
                   /\ "tellDropped" \in Elements(Tail(s)) /\ Tail(s) # <<>>
             /\ Head(s) = "tellDropped" => Tail(s) = <<>>
                                           /\ "releaseDropped" \notin Elements(s)
             /\ Head(s) \in {"releaseDropped", "tellDropped"}
             /\ "tellDropped" \in Elements(s)
  <2>1. CASE s = <<"releaseDropped", "tellDropped">>
    <3>1. /\ Tail(s) = <<"tellDropped">> /\ Head(s) = "releaseDropped"
          /\ Len(s) = 2 /\ s[2] = "tellDropped"
      BY <2>1
    <3>2. "tellDropped" \in Elements(Tail(s))
      BY <3>1, OneElement, Zenon
    <3>3. "tellDropped" \in Elements(s)
      BY <3>1 DEF Elements
    <3>4. Tail(s) \in DropDuties
      BY <3>1 DEF DropDuties
    <3>5. Tail(s) # <<>>
      <4>1. Len(Tail(s)) = 1 /\ Len(<<>>) = 0
        BY <3>1
      <4> QED BY <4>1
    <3> QED BY <3>1, <3>2, <3>3, <3>4, <3>5
  <2>2. CASE s = <<"tellDropped">>
    <3>1. /\ Tail(s) = <<>> /\ Head(s) = "tellDropped"
          /\ Len(s) = 1 /\ s[1] = "tellDropped"
      BY <2>2
    <3> QED BY <3>1 DEF DropDuties, Elements
  <2> QED BY <1>2, <2>1, <2>2 DEF DropDuties
<1>3. ASSUME NEW s \in OwnDuties, s # <<>>
      PROVE  /\ Tail(s) \in OwnDuties
             /\ Head(s) = "tellRejected" =>
                   ("releaseOwn" \in Elements(s) => "releaseOwn" \in Elements(Tail(s)))
             /\ Head(s) \in {"tellRejected", "releaseOwn"}
  <2>1. CASE s = <<"tellRejected", "releaseOwn">>
    <3>1. Tail(s) = <<"releaseOwn">> /\ Head(s) = "tellRejected"
      BY <2>1
    <3>3. "releaseOwn" \in Elements(Tail(s))
      BY <3>1, OneElement, Zenon
    <3>4. Tail(s) \in OwnDuties
      BY <3>1 DEF OwnDuties
    <3> QED BY <3>1, <3>3, <3>4
  <2>2. CASE s = <<"tellRejected">>
    <3>1. /\ Tail(s) = <<>> /\ Head(s) = "tellRejected"
          /\ Len(s) = 1 /\ s[1] = "tellRejected"
      BY <2>2
    <3> QED BY <3>1 DEF OwnDuties, Elements
  <2>3. CASE s = <<"releaseOwn">>
    <3>1. Tail(s) = <<>> /\ Head(s) = "releaseOwn"
      BY <2>3
    <3> QED BY <3>1 DEF OwnDuties
  <2> QED BY <1>3, <2>1, <2>2, <2>3 DEF OwnDuties
<1> QED BY <1>1, <1>2, <1>3

(* What waits in a conversation was submitted to it.                       *)
LEMMA WaitingFacts ==
    ASSUME QueueInv, NEW d \in Deliveries, Waiting(d)
    PROVE  d \in submitted /\ processPc[d] = "none" /\ ~Processing(d)
BY QueueAssumption
   DEF QueueInv, QueueTypeOK, QueueIsFresh, Waiting, Elements, Processing

(* Every place of a queue holds a delivery of its conversation.            *)
LEMMA InQueueWaits ==
    ASSUME QueueInv, NEW c \in Conversations, NEW i \in 1..Len(pending[c])
    PROVE  /\ pending[c][i] \in Deliveries
           /\ ConversationOf[pending[c][i]] = c
           /\ Waiting(pending[c][i])
<1>1. pending[c] \in Seq(Deliveries)
  BY DEF QueueInv, QueueTypeOK
<1>2. pending[c][i] \in Deliveries /\ ConversationOf[pending[c][i]] = c
  BY <1>1 DEF QueueInv, QueueIsFresh
<1> QED BY <1>2 DEF Waiting, Elements

(* A step that leaves the queues alone leaves the same turns waiting.      *)
LEMMA SameWaiting ==
    ASSUME UNCHANGED pending
    PROVE  \A e \in Deliveries : Waiting(e)' = Waiting(e)
BY DEF Waiting

(* An accepted turn waits, and only the turn given up for it waits no more.*)
LEMMA AcceptedWaits ==
    ASSUME QueueInv, NEW d \in Deliveries, NEW drop, Accept(d),
           drop = Victim(ConversationOf[d])
    PROVE  /\ \A e \in Deliveries :
                 Waiting(e)' <=> e = d \/ (Waiting(e) /\ e # drop)
           /\ drop # None => drop \in Deliveries /\ Waiting(drop) /\ drop # d
<1> DEFINE c == ConversationOf[d]
           q == pending[c]
<1>1. /\ c \in Conversations /\ q \in Seq(Deliveries) /\ Len(q) \in Nat
      /\ pending' = [pending EXCEPT ![c] = Enqueued(c, d)]
      /\ pending \in [Conversations -> Seq(Deliveries)]
  BY QueueAssumption DEF QueueInv, QueueTypeOK, Accept
<1>2. d \notin submitted
  BY DEF Accept, Fresh, Considered
<1>3. /\ drop # None => drop \in Deliveries /\ Waiting(drop) /\ drop # d
      /\ \A x : x \in Elements(Enqueued(c, d)) <=>
                   x = d \/ (x \in Elements(q) /\ x # drop)
  <2>1. CASE Room(c)
    <3>1. Enqueued(c, d) = Append(q, d) /\ drop = None
      BY <2>1 DEF Enqueued, Victim
    <3>2. /\ Len(Append(q, d)) = Len(q) + 1
          /\ \A j \in 1..Len(q) : Append(q, d)[j] = q[j]
          /\ Append(q, d)[Len(q) + 1] = d
      BY <1>1, AppendProperties
    <3>3. \A x \in Elements(q) : x # None
      BY <1>1, QueueAssumption DEF Elements
    <3>4. \A x : x \in Elements(Append(q, d)) <=> x = d \/ x \in Elements(q)
      BY <1>1, <3>2 DEF Elements
    <3> QED BY <3>1, <3>3, <3>4
  <2>2. CASE ~Room(c)
    <3> DEFINE v == VictimAt(c)
               r == DropAt(q, v)
    <3>1. v \in 1..Len(q)
      BY <1>1, <2>2, VictimAtFacts DEF QueueInv
    <3>2. drop = q[v] /\ Enqueued(c, d) = Append(r, d)
      BY <2>2 DEF Enqueued, Victim
    <3>3. /\ r \in Seq(Deliveries) /\ Len(r) = Len(q) - 1
          /\ \A j \in 1..(Len(q) - 1) :
                r[j] = IF j < v THEN q[j] ELSE q[j + 1]
      BY <1>1, <3>1, DropAtFacts
    <3>4. \A i, j \in 1..Len(q) : q[i] = q[j] => i = j
      BY <1>1 DEF QueueInv, QueueIsFresh
    <3> HIDE DEF r, v, q, c
    <3>5. \A x : x \in Elements(r) <=> x \in Elements(q) /\ x # q[v]
      <4>1. ASSUME NEW j \in 1..Len(r)
            PROVE  \E i \in 1..Len(q) : i # v /\ r[j] = q[i]
        <5>1. CASE j < v
          BY <1>1, <3>1, <3>3, <4>1, <5>1
        <5>2. CASE ~(j < v)
          <6>1. r[j] = q[j + 1] /\ j + 1 \in 1..Len(q) /\ j + 1 # v
            BY <1>1, <3>1, <3>3, <4>1, <5>2
          <6> QED BY <6>1
        <5> QED BY <5>1, <5>2
      <4>2. ASSUME NEW i \in 1..Len(q), i # v
            PROVE  \E j \in 1..Len(r) : r[j] = q[i]
        <5>1. CASE i < v
          <6>1. i \in 1..Len(r) /\ i \in 1..(Len(q) - 1)
            BY <1>1, <3>1, <3>3, <4>2, <5>1
          <6> QED BY <3>3, <5>1, <6>1
        <5>2. CASE ~(i < v)
          <6>1. i - 1 \in 1..Len(r) /\ ~(i - 1 < v) /\ (i - 1) + 1 = i
            BY <1>1, <3>1, <3>3, <4>2, <5>2
          <6>2. r[i - 1] = q[i]
            BY <1>1, <3>3, <6>1
          <6> QED BY <6>1, <6>2
        <5> QED BY <5>1, <5>2
      <4>3. ASSUME NEW x, x \in Elements(r)
            PROVE  x \in Elements(q) /\ x # q[v]
        BY <3>1, <3>4, <4>1, <4>3 DEF Elements
      <4>4. ASSUME NEW x, x \in Elements(q), x # q[v]
            PROVE  x \in Elements(r)
        BY <4>2, <4>4 DEF Elements
      <4> QED BY <4>3, <4>4
    <3>6. /\ Len(Append(r, d)) = Len(r) + 1
          /\ \A j \in 1..Len(r) : Append(r, d)[j] = r[j]
          /\ Append(r, d)[Len(r) + 1] = d
      BY <3>3, AppendProperties
    <3>7. Len(r) \in Nat
      BY <3>3, LenProperties
    <3>8. \A x : x \in Elements(Append(r, d)) <=> x = d \/ x \in Elements(r)
      BY <3>6, <3>7 DEF Elements
    <3>9. drop \in Deliveries /\ Waiting(drop)
      BY <1>1, <3>1, <3>2, InQueueWaits DEF q
    <3>10. drop # d
      BY <1>2, <3>9, WaitingFacts
    <3> QED BY <3>2, <3>5, <3>8, <3>9, <3>10
  <2> QED BY <2>1, <2>2
<1> HIDE DEF c, q
<1>4. ASSUME NEW e \in Deliveries
      PROVE  Waiting(e)' <=> e = d \/ (Waiting(e) /\ e # drop)
  <2>1. ConversationOf[e] \in Conversations
    BY QueueAssumption
  <2>2. CASE ConversationOf[e] = c
    <3>1. Waiting(e)' <=> e \in Elements(Enqueued(c, d))
      BY <1>1, <2>2 DEF Waiting
    <3>2. Waiting(e) <=> e \in Elements(q)
      BY <2>2 DEF Waiting, q
    <3> QED BY <1>3, <3>1, <3>2
  <2>3. CASE ConversationOf[e] # c
    <3>1. pending'[ConversationOf[e]] = pending[ConversationOf[e]]
      BY <1>1, <2>1, <2>3
    <3>2. Waiting(e)' <=> Waiting(e)
      BY <3>1 DEF Waiting
    <3>3. e # d
      BY <2>3 DEF c
    <3>4. drop # None => ConversationOf[drop] = c
      <4>1. CASE Room(c)
        BY <4>1 DEF Victim, c
      <4>2. CASE ~Room(c)
        <5>1. VictimAt(c) \in 1..Len(pending[c])
          BY <1>1, <4>2, VictimAtFacts DEF QueueInv
        <5>2. drop = pending[c][VictimAt(c)]
          BY <4>2 DEF Victim, c
        <5> QED BY <1>1, <5>1, <5>2, InQueueWaits
      <4> QED BY <4>1, <4>2
    <3>5. e # drop
      BY <2>3, <3>4, QueueAssumption
    <3> QED BY <3>2, <3>3, <3>5
  <2> QED BY <2>2, <2>3
<1> QED BY <1>3, <1>4

(* A turn that is taken waits no more.                                     *)
LEMMA TakenWaits ==
    ASSUME QueueInv, NEW w \in Workers, NEW d, TakeTurn(w),
           d = Head(pending[workerOf[w]])
    PROVE  /\ d \in Deliveries /\ Waiting(d) /\ ConversationOf[d] = workerOf[w]
           /\ \A e \in Deliveries : Waiting(e)' <=> Waiting(e) /\ e # d
<1> DEFINE c == workerOf[w]
           q == pending[c]
<1>1. /\ c \in Conversations /\ q \in Seq(Deliveries) /\ Len(q) \in Nat
      /\ q # <<>>
      /\ pending' = [pending EXCEPT ![c] = Tail(q)]
      /\ pending \in [Conversations -> Seq(Deliveries)]
  BY DEF QueueInv, QueueTypeOK, TakeTurn, AtLoopTop, LiveWorkers
<1>2. /\ 1 \in 1..Len(q) /\ d = q[1]
      /\ Tail(q) \in Seq(Deliveries) /\ Len(Tail(q)) = Len(q) - 1
      /\ \A j \in 1..(Len(q) - 1) : Tail(q)[j] = q[j + 1]
  <2>1. Tail(q) \in Seq(Deliveries) /\ Len(Tail(q)) = Len(q) - 1
    BY <1>1, HeadTailProperties
  <2>2. \A j \in 1..(Len(q) - 1) : Tail(q)[j] = q[j + 1]
    BY <1>1, HeadTailProperties
  <2>3. Len(q) # 0
    BY <1>1, EmptySeq
  <2> QED BY <1>1, <2>1, <2>2, <2>3
<1>3. d \in Deliveries /\ Waiting(d) /\ ConversationOf[d] = c
  BY <1>1, <1>2, InQueueWaits
<1>4. \A i, j \in 1..Len(q) : q[i] = q[j] => i = j
  BY <1>1 DEF QueueInv, QueueIsFresh
<1> HIDE DEF q, c
<1>5. \A x : x \in Elements(Tail(q)) <=> x \in Elements(q) /\ x # d
  <2>1. ASSUME NEW j \in 1..Len(Tail(q))
        PROVE  j + 1 \in 1..Len(q) /\ j + 1 # 1 /\ Tail(q)[j] = q[j + 1]
    BY <1>1, <1>2
  <2>2. ASSUME NEW i \in 1..Len(q), i # 1
        PROVE  \E j \in 1..Len(Tail(q)) : Tail(q)[j] = q[i]
    <3>1. i - 1 \in 1..Len(Tail(q)) /\ (i - 1) + 1 = i
      BY <1>1, <1>2, <2>2
    <3>2. Tail(q)[i - 1] = q[i]
      BY <2>1, <3>1
    <3> QED BY <3>1, <3>2
  <2>3. ASSUME NEW x, x \in Elements(Tail(q))
        PROVE  x \in Elements(q) /\ x # d
    BY <1>2, <1>4, <2>1, <2>3 DEF Elements
  <2>4. ASSUME NEW x, x \in Elements(q), x # d
        PROVE  x \in Elements(Tail(q))
    <3>1. PICK i \in 1..Len(q) : x = q[i]
      BY <2>4 DEF Elements
    <3>2. PICK j \in 1..Len(Tail(q)) : Tail(q)[j] = q[i]
      BY <1>2, <2>2, <2>4, <3>1
    <3> QED BY <3>1, <3>2 DEF Elements
  <2> QED BY <2>3, <2>4
<1>6. ASSUME NEW e \in Deliveries
      PROVE  Waiting(e)' <=> Waiting(e) /\ e # d
  <2>1. ConversationOf[e] \in Conversations
    BY QueueAssumption
  <2>2. CASE ConversationOf[e] = c
    <3>1. Waiting(e)' <=> e \in Elements(Tail(q))
      BY <1>1, <2>2 DEF Waiting
    <3>2. Waiting(e) <=> e \in Elements(q)
      BY <2>2 DEF Waiting, q
    <3> QED BY <1>5, <3>1, <3>2
  <2>3. CASE ConversationOf[e] # c
    <3>1. pending'[ConversationOf[e]] = pending[ConversationOf[e]]
      BY <1>1, <2>1, <2>3
    <3>2. Waiting(e)' <=> Waiting(e)
      BY <3>1 DEF Waiting
    <3> QED BY <1>3, <2>3, <3>2
  <2> QED BY <2>2, <2>3
<1> QED BY <1>3, <1>6 DEF c

-----------------------------------------------------------------------------
(* The calls' invariant holds at first and every step keeps it.            *)

(* Nobody owes anything before anything is submitted.                      *)
LEMMA CallStart == Init => CallInv
<1> SUFFICES ASSUME Init PROVE CallInv
  OBVIOUS
<1>1. \A d \in Deliveries : ~Waiting(d) /\ ~Processing(d)
  <2>1. \A d \in Deliveries : pending[ConversationOf[d]] = <<>>
    BY QueueAssumption DEF Init
  <2>2. Elements(<<>>) = {}
    BY DEF Elements
  <2> QED BY <2>1, <2>2 DEF Init, Waiting, Processing
<1>2. /\ duties = [d \in Deliveries |-> <<>>]
      /\ dropped = [d \in Deliveries |-> None]
      /\ notified = [d \in Deliveries |-> "no"]
      /\ lease = [d \in Deliveries |-> IF d \in Leased THEN "held" ELSE "none"]
      /\ submitted = {}
      /\ processPc = [d \in Deliveries |-> "none"]
      /\ workerPc = [w \in Workers |-> "gone"]
  BY DEF Init
<1>3. None \notin Deliveries
  BY QueueAssumption
<1>4. <<>> \in DropDuties /\ <<>> \in OwnDuties /\ <<>> \in Seq(Duty)
  BY DEF DropDuties, OwnDuties
<1>5. CallTyped /\ CallsAreFresh
  BY <1>2, <1>4 DEF CallTyped, CallsAreFresh
<1>6. DropsAreTold /\ OwnCallsEnd /\ TellsAreLast
  BY <1>2, <1>3, <1>4 DEF DropsAreTold, OwnCallsEnd, TellsAreLast
<1>7. LeaseCoversTurn /\ LeaseHasOwner
  BY <1>1, <1>2, QueueAssumption DEF LeaseCoversTurn, LeaseHasOwner
<1>8. ActiveIsAwaited /\ InFlightOnce
  BY <1>1, <1>2 DEF ActiveIsAwaited, InFlightOnce
<1> QED BY <1>5, <1>6, <1>7, <1>8 DEF CallInv

(* What the calls' invariant is about.                                     *)
turnVars == <<pending, active, workerVars, processPc, submitted, duties,
              dropped, notified, lease>>

(* A step that leaves the turns and the calls alone preserves it.          *)
LEMMA CallUntouched ==
    ASSUME CallInv, UNCHANGED turnVars
    PROVE  CallInv'
<1>1. UNCHANGED <<pending, active, workerPc, workerOf, turnOf, processPc,
                  submitted, duties, dropped, notified, lease>>
  BY DEF turnVars, workerVars
<1> QED
  BY <1>1
     DEF CallInv, CallTyped, CallsAreFresh, DropsAreTold, OwnCallsEnd,
         TellsAreLast, LeaseCoversTurn, LeaseHasOwner, ActiveIsAwaited,
         InFlightOnce, Waiting, Processing, Dropped

(* A call that adds no turn owes at most a word to its sender and its own  *)
(* lease.                                                                  *)
LEMMA ReturnKeepsCalls ==
    ASSUME QueueInv, CallInv, NEW d \in Deliveries, NEW rejected \in BOOLEAN,
           d \notin submitted, Return(d, None, rejected, FALSE),
           UNCHANGED <<pending, active, workerVars, processPc>>
    PROVE  CallInv'
<1> USE QueueAssumption
<1>1. PICK s : s = DutiesOf(None, rejected, d \in Leased)
  OBVIOUS
<1>2. s \in OwnDuties /\ (d \in Leased => "releaseOwn" \in Elements(s))
  <2> DEFINE word == IF rejected THEN <<"tellRejected">> ELSE <<>>
             own == IF d \in Leased THEN <<"releaseOwn">> ELSE <<>>
  <2>1. s = (<<>> \o word) \o own
    BY <1>1 DEF DutiesOf
  <2>2. CASE rejected /\ d \in Leased
    <3>1. s = <<"tellRejected", "releaseOwn">>
      <4>1. <<>> \o <<"tellRejected">> = <<"tellRejected">>
        OBVIOUS
      <4>2. <<"tellRejected">> \o <<"releaseOwn">> = <<"tellRejected", "releaseOwn">>
        <5>0. {<<"tellRejected">>, <<"releaseOwn">>,
               <<"tellRejected", "releaseOwn">>} \subseteq Seq(Duty)
          BY DutyFacts DEF OwnDuties
        <5>1. PICK a \in Seq(Duty) : a = <<"tellRejected">>
          BY <5>0, Zenon
        <5>2. PICK b \in Seq(Duty) : b = <<"releaseOwn">>
          BY <5>0, Zenon
        <5>3. PICK ab \in Seq(Duty) : ab = <<"tellRejected", "releaseOwn">>
          BY <5>0, Zenon
        <5>4. /\ Len(a) = 1 /\ a[1] = "tellRejected"
              /\ Len(b) = 1 /\ b[1] = "releaseOwn"
              /\ Len(ab) = 2 /\ ab[1] = "tellRejected" /\ ab[2] = "releaseOwn"
          BY <5>1, <5>2, <5>3
        <5>5. /\ a \o b \in Seq(Duty)
              /\ Len(a \o b) = Len(a) + Len(b)
              /\ \A i \in 1..(Len(a) + Len(b)) :
                    (a \o b)[i] = IF i <= Len(a) THEN a[i] ELSE b[i - Len(a)]
          BY ConcatProperties
        <5>6. Len(a \o b) = Len(ab)
          BY <5>4, <5>5
        <5>7. \A i \in 1..Len(a \o b) : (a \o b)[i] = ab[i]
          BY <5>4, <5>5
        <5>8. a \o b = ab
          BY <5>5, <5>6, <5>7, SeqEqual
        <5> QED BY <5>1, <5>2, <5>3, <5>8
      <4>3. s = (<<>> \o <<"tellRejected">>) \o <<"releaseOwn">>
        BY <2>1, <2>2
      <4> QED BY <4>1, <4>2, <4>3, Zenon
    <3>2. Len(s) = 2 /\ s[2] = "releaseOwn"
      BY <3>1
    <3> QED BY <3>1, <3>2 DEF OwnDuties, Elements
  <2>3. CASE rejected /\ d \notin Leased
    <3>1. s = <<"tellRejected">>
      BY <2>1, <2>3
    <3> QED BY <2>3, <3>1 DEF OwnDuties
  <2>4. CASE ~rejected /\ d \in Leased
    <3>1. s = <<"releaseOwn">>
      BY <2>1, <2>4
    <3> QED BY <3>1, OneElement DEF OwnDuties
  <2>5. CASE ~rejected /\ d \notin Leased
    <3>1. s = <<>>
      BY <2>1, <2>5
    <3> QED BY <2>5, <3>1 DEF OwnDuties
  <2> QED BY <2>2, <2>3, <2>4, <2>5
<1>3. /\ submitted' = submitted \cup {d}
      /\ dropped' = [dropped EXCEPT ![d] = None]
      /\ duties' = [duties EXCEPT ![d] = s]
      /\ UNCHANGED <<notified, lease, active, workerPc, workerOf, turnOf,
                     processPc, pending>>
  BY <1>1 DEF Return, workerVars
<1>4. /\ \A e \in Deliveries : Waiting(e)' = Waiting(e)
      /\ \A e \in Deliveries : Processing(e)' = Processing(e)
  BY <1>3, SameWaiting DEF Processing
<1>5. ~Waiting(d) /\ processPc[d] = "none" /\ ~Processing(d)
  BY WaitingFacts DEF QueueInv, QueueIsFresh, Processing
<1>6. dropped[d] = None /\ dropped' = dropped /\ ~Dropped(d)
      /\ notified[d] = "no" /\ (d \in Leased => lease[d] = "held")
  BY <1>3 DEF CallInv, CallTyped, CallsAreFresh, DropsAreTold, Dropped
<1>7. \A e \in Deliveries : /\ e = d => duties'[e] = s
                            /\ e # d => duties'[e] = duties[e]
  BY <1>3 DEF CallInv, CallTyped
<1>8. CallTyped'
  BY <1>2, <1>3, DutyFacts DEF CallInv, CallTyped
<1>9. CallsAreFresh'
  BY <1>3, <1>6, <1>7 DEF CallInv, CallsAreFresh
<1>10. DropsAreTold'
  BY <1>3, <1>4, <1>6, <1>7 DEF CallInv, DropsAreTold
<1>11. OwnCallsEnd'
  <2>1. \A e \in Deliveries : Dropped(e)' = Dropped(e)
    BY <1>6 DEF Dropped
  <2> QED BY <1>2, <1>3, <1>4, <1>5, <1>6, <1>7, <2>1 DEF CallInv, OwnCallsEnd
<1>12. TellsAreLast' /\ LeaseCoversTurn'
  BY <1>3, <1>4, <1>6 DEF CallInv, TellsAreLast, LeaseCoversTurn
<1>13. LeaseHasOwner'
  BY <1>2, <1>3, <1>4, <1>6, <1>7 DEF CallInv, LeaseHasOwner, CallsAreFresh
<1>14. ActiveIsAwaited' /\ InFlightOnce'
  BY <1>3, <1>4 DEF CallInv, ActiveIsAwaited, InFlightOnce
<1> QED BY <1>8, <1>9, <1>10, <1>11, <1>12, <1>13, <1>14 DEF CallInv

(* A worker that is started is not processing anything.                    *)
LEMMA EnsuredIsAwaited ==
    ASSUME QueueTypeOK, ActiveIsAwaited, NEW c, NEW w \in Workers,
           EnsureWorker(c, w), UNCHANGED active
    PROVE  ActiveIsAwaited'
<1>1. CASE UNCHANGED <<workerTask, workerVars>>
  BY <1>1 DEF ActiveIsAwaited, workerVars
<1>2. CASE /\ workerPc' = [workerPc EXCEPT ![w] = "ready"]
           /\ workerOf' = [workerOf EXCEPT ![w] = c]
           /\ turnOf' = [turnOf EXCEPT ![w] = None]
  BY <1>2 DEF ActiveIsAwaited, QueueTypeOK
<1> QED BY <1>1, <1>2 DEF EnsureWorker

(* The turn in flight is what _has_dedupe_locked looks at.                 *)
LEMMA LiveIsInFlight ==
    ASSUME QueueInv, ActiveIsAwaited, NEW d \in Deliveries, NEW e \in Deliveries,
           KeyOf[e] = KeyOf[d], Waiting(e) \/ Processing(e)
    PROVE  InFlight(ConversationOf[d], KeyOf[d])
<1>1. ConversationOf[e] = ConversationOf[d]
  BY KeyAssumption
<1>2. CASE Waiting(e)
  BY <1>1, <1>2 DEF Waiting, InFlight
<1>3. CASE Processing(e)
  <2>1. PICK w \in Workers : workerPc[w] = "processing" /\ turnOf[w] = e
    BY <1>3 DEF QueueInv, ProcessesAreAwaited
  <2>2. active[ConversationOf[d]] = e
    BY <1>1, <2>1 DEF QueueInv, WorkersAwait, ActiveIsAwaited
  <2>3. e # None
    BY QueueAssumption
  <2> QED BY <2>2, <2>3 DEF InFlight
<1> QED BY <1>2, <1>3

(* An accepted turn takes its lease into the queue, and the call that      *)
(* displaced another turn owes that turn's lease and sender their due.     *)
LEMMA AcceptKeepsCalls ==
    ASSUME QueueInv, CallInv, NEW d \in Deliveries, Accept(d)
    PROVE  CallInv'
<1>1. PICK drop : drop = Victim(ConversationOf[d])
  OBVIOUS
<1>2. PICK s : s = DutiesOf(drop, FALSE, FALSE)
  OBVIOUS
<1>3. /\ \A e \in Deliveries : Waiting(e)' <=> e = d \/ (Waiting(e) /\ e # drop)
      /\ drop # None => drop \in Deliveries /\ Waiting(drop) /\ drop # d
  BY <1>1, AcceptedWaits
<1>4. /\ submitted' = submitted \cup {d}
      /\ dropped' = [dropped EXCEPT ![d] = drop]
      /\ duties' = [duties EXCEPT ![d] = s]
      /\ UNCHANGED <<notified, lease, active, processPc>>
  BY <1>1, <1>2 DEF Accept, Return
<1>5. /\ drop = None => s = <<>>
      /\ drop # None => s = <<"releaseDropped", "tellDropped">>
  BY <1>2 DEF DutiesOf
<1>6. /\ s \in DropDuties /\ s \in Seq(Duty)
      /\ drop = None => s = <<>> /\ s \in OwnDuties
      /\ drop # None => s # <<>> /\ "releaseDropped" \in Elements(s)
  <2>1. <<"releaseDropped", "tellDropped">> \in DropDuties /\ <<>> \in DropDuties
        /\ <<>> \in OwnDuties
    BY DEF DropDuties, OwnDuties
  <2>2. /\ <<"releaseDropped", "tellDropped">> # <<>>
        /\ "releaseDropped" \in Elements(<<"releaseDropped", "tellDropped">>)
    <3>1. PICK t : t = <<"releaseDropped", "tellDropped">>
      OBVIOUS
    <3>2. Len(t) = 2 /\ t[1] = "releaseDropped"
      BY <3>1
    <3>3. "releaseDropped" \in Elements(t)
      BY <3>2 DEF Elements
    <3>4. t # <<>>
      BY <3>2
    <3> QED BY <3>1, <3>3, <3>4
  <2> QED BY <1>5, <2>1, <2>2, DutyFacts
<1>7. /\ d \notin submitted /\ ~Waiting(d) /\ dropped[d] = None
      /\ notified[d] = "no" /\ (d \in Leased => lease[d] = "held")
      /\ None \notin Deliveries /\ processPc[d] = "none" /\ ~Dropped(d)
  <2>1. d \notin submitted
    BY DEF Accept, Fresh, Considered
  <2> QED BY <2>1, WaitingFacts, QueueAssumption
          DEF CallInv, CallsAreFresh, DropsAreTold, Dropped, QueueInv, QueueIsFresh
<1>8. \A e \in Deliveries :
         /\ e = d => duties'[e] = s /\ dropped'[e] = drop
         /\ e # d => duties'[e] = duties[e] /\ dropped'[e] = dropped[e]
  BY <1>4 DEF CallInv, CallTyped
<1>9. \A e \in Deliveries : Processing(e)' = Processing(e)
  BY <1>4 DEF Processing
<1>10. drop # None => drop \in submitted /\ processPc[drop] = "none"
  BY <1>3, WaitingFacts
<1>11. CallTyped'
  BY <1>3, <1>4, <1>6 DEF CallInv, CallTyped
<1>12. CallsAreFresh'
  BY <1>4, <1>8 DEF CallInv, CallsAreFresh
<1>13. DropsAreTold'
  <2> SUFFICES ASSUME NEW e \in Deliveries, NEW x \in Deliveries, dropped'[e] = x
               PROVE  /\ x \in submitted' /\ ~Waiting(x)' /\ processPc'[x] = "none"
                      /\ duties'[e] \in DropDuties
                      /\ duties'[e] = <<>> => notified'[x] = "replaced"
    BY DEF DropsAreTold
  <2>1. CASE e = d
    BY <1>3, <1>4, <1>6, <1>7, <1>8, <1>10, <2>1
  <2>2. CASE e # d
    <3>1. dropped[e] = x
      BY <1>8, <2>2
    <3>2. /\ x \in submitted /\ ~Waiting(x) /\ processPc[x] = "none"
          /\ duties[e] \in DropDuties
          /\ duties[e] = <<>> => notified[x] = "replaced"
      BY <3>1 DEF CallInv, DropsAreTold
    <3> QED BY <1>3, <1>4, <1>7, <1>8, <2>2, <3>2
  <2> QED BY <2>1, <2>2
<1>14. OwnCallsEnd'
  <2> SUFFICES ASSUME NEW e \in Deliveries, dropped'[e] = None
               PROVE  /\ duties'[e] \in OwnDuties
                      /\ duties'[e] # <<>> => /\ ~Waiting(e)' /\ processPc'[e] = "none"
                                              /\ ~Dropped(e)'
    BY DEF OwnCallsEnd
  <2>1. CASE e = d
    BY <1>6, <1>8, <2>1
  <2>2. CASE e # d
    <3>1. dropped[e] = None /\ duties'[e] = duties[e]
      BY <1>8, <2>2
    <3>2. /\ duties[e] \in OwnDuties
          /\ duties[e] # <<>> => ~Waiting(e) /\ processPc[e] = "none" /\ ~Dropped(e)
      BY <3>1 DEF CallInv, OwnCallsEnd
    <3>3. ~Waiting(e) /\ ~Dropped(e) => ~Dropped(e)'
      BY <1>3, <1>7, <1>8 DEF Dropped
    <3> QED BY <1>3, <1>4, <2>2, <3>1, <3>2, <3>3
  <2> QED BY <2>1, <2>2
<1>15. TellsAreLast' /\ LeaseCoversTurn'
  <2>1. TellsAreLast'
    BY <1>3, <1>4, <1>7 DEF CallInv, TellsAreLast
  <2>2. LeaseCoversTurn'
    BY <1>3, <1>4, <1>7, QueueAssumption DEF CallInv, LeaseCoversTurn
  <2> QED BY <2>1, <2>2
<1>16. LeaseHasOwner'
  <2> SUFFICES ASSUME NEW e \in Leased \cap submitted', lease'[e] = "held"
               PROVE  \/ Waiting(e)' \/ Processing(e)'
                      \/ "releaseOwn" \in Elements(duties'[e])
                      \/ \E x \in Deliveries :
                            dropped'[x] = e /\ "releaseDropped" \in Elements(duties'[x])
    BY DEF LeaseHasOwner
  <2>0. e \in Deliveries
    BY QueueAssumption
  <2>1. CASE e = d
    BY <1>3, <2>0, <2>1
  <2>2. CASE e # d /\ e = drop
    BY <1>6, <1>7, <1>8, <2>0, <2>2
  <2>3. CASE e # d /\ e # drop
    <3>1. \/ Waiting(e) \/ Processing(e)
          \/ "releaseOwn" \in Elements(duties[e])
          \/ \E x \in Deliveries :
                dropped[x] = e /\ "releaseDropped" \in Elements(duties[x])
      BY <1>4, <2>3 DEF CallInv, LeaseHasOwner
    <3>2. CASE Waiting(e) \/ Processing(e)
      BY <1>3, <1>9, <2>0, <2>3, <3>2
    <3>3. CASE "releaseOwn" \in Elements(duties[e])
      BY <1>8, <2>0, <2>3, <3>3
    <3>4. CASE \E x \in Deliveries :
                  dropped[x] = e /\ "releaseDropped" \in Elements(duties[x])
      BY <1>7, <1>8, <2>0, <3>4
    <3> QED BY <3>1, <3>2, <3>3, <3>4
  <2> QED BY <2>1, <2>2, <2>3
<1>17. ActiveIsAwaited'
  <2>1. \E w \in Workers : EnsureWorker(ConversationOf[d], w)
    BY DEF Accept
  <2> QED BY <1>4, <2>1, EnsuredIsAwaited DEF CallInv, QueueInv
<1>18. InFlightOnce'
  <2>1. \A e \in Deliveries : Waiting(e)' \/ Processing(e)'
                                => e = d \/ Waiting(e) \/ Processing(e)
    BY <1>3, <1>9
  <2>2. \A e \in Deliveries :
           KeyOf[e] = KeyOf[d] => ~Waiting(e) /\ ~Processing(e)
    <3>1. ~InFlight(ConversationOf[d], KeyOf[d])
      BY DEF Accept, Fresh
    <3> QED BY <3>1, LiveIsInFlight DEF CallInv
  <2> QED BY <2>1, <2>2 DEF CallInv, InFlightOnce
<1> QED BY <1>11, <1>12, <1>13, <1>14, <1>15, <1>16, <1>17, <1>18 DEF CallInv

(* What a duty is done for: the dropped turn, or the call's own.           *)
LEMMA DutyOwner ==
    ASSUME CallInv, NEW d \in Deliveries, duties[d] # <<>>
    PROVE  /\ d \in submitted
           /\ Tail(duties[d]) \in Seq(Duty)
           /\ Head(duties[d]) \in {"releaseDropped", "tellDropped"} =>
                 /\ dropped[d] \in Deliveries
                 /\ duties[d] \in DropDuties
           /\ Head(duties[d]) \in {"tellRejected", "releaseOwn"} =>
                 /\ dropped[d] = None /\ duties[d] \in OwnDuties
                 /\ ~Waiting(d) /\ processPc[d] = "none" /\ ~Dropped(d)
<1>1. dropped[d] \in Deliveries \cup {None} /\ duties[d] \in Seq(Duty)
  BY DEF CallInv, CallTyped
<1>2. d \in submitted
  BY DEF CallInv, CallsAreFresh
<1>3. CASE dropped[d] \in Deliveries
  <2>1. duties[d] \in DropDuties
    BY <1>3 DEF CallInv, DropsAreTold
  <2>2. /\ Head(duties[d]) \in {"releaseDropped", "tellDropped"}
        /\ Tail(duties[d]) \in DropDuties
    BY <2>1, DutyFacts
  <2>3. Tail(duties[d]) \in Seq(Duty)
    BY <2>2, DutyFacts
  <2> QED BY <1>2, <1>3, <2>1, <2>2, <2>3
<1>4. CASE dropped[d] = None
  <2>1. /\ duties[d] \in OwnDuties
        /\ ~Waiting(d) /\ processPc[d] = "none" /\ ~Dropped(d)
    BY <1>4 DEF CallInv, OwnCallsEnd
  <2>2. /\ Head(duties[d]) \in {"tellRejected", "releaseOwn"}
        /\ Tail(duties[d]) \in OwnDuties
    BY <2>1, DutyFacts
  <2>3. Tail(duties[d]) \in Seq(Duty)
    BY <2>2, DutyFacts
  <2> QED BY <1>2, <1>4, <2>1, <2>2, <2>3
<1> QED BY <1>1, <1>3, <1>4

(* The finally clause does its duties in order, and each is done once.     *)
LEMMA CleanUpKeepsCalls ==
    ASSUME QueueInv, CallInv, NEW d \in Deliveries, CleanUp(d)
    PROVE  CallInv'
<1>1. PICK duty \in {"releaseDropped", "tellDropped", "tellRejected", "releaseOwn"} :
          /\ Discharge(d, duty)
          /\ duty = "releaseDropped" => lease' = LeaseReleased(dropped[d])
                                        /\ notified' = notified
          /\ duty = "tellDropped" =>
                notified' = [notified EXCEPT ![dropped[d]] = "replaced"] /\ lease' = lease
          /\ duty = "tellRejected" =>
                notified' = [notified EXCEPT ![d] = "queue_full"] /\ lease' = lease
          /\ duty = "releaseOwn" => lease' = LeaseReleased(d) /\ notified' = notified
  BY DEF CleanUp, ReleaseDropped, TellDropped, TellRejected, ReleaseOwn, Tell
<1>2. PICK s : s = duties[d]
  OBVIOUS
<1>3. PICK x : x = dropped[d]
  OBVIOUS
<1>4. /\ s # <<>> /\ Head(s) = duty
      /\ duties' = [duties EXCEPT ![d] = Tail(s)]
      /\ UNCHANGED <<pending, active, workerPc, workerOf, turnOf, processPc,
                     submitted, dropped>>
  BY <1>1, <1>2 DEF Discharge, conversationVars, workerVars
<1>5. /\ d \in submitted /\ Tail(s) \in Seq(Duty)
      /\ duty \in {"releaseDropped", "tellDropped"} => x \in Deliveries /\ s \in DropDuties
      /\ duty \in {"tellRejected", "releaseOwn"} =>
            /\ x = None /\ s \in OwnDuties
            /\ ~Waiting(d) /\ processPc[d] = "none" /\ ~Dropped(d)
  BY <1>2, <1>3, <1>4, DutyOwner
<1>6. /\ \A e \in Deliveries : Waiting(e)' = Waiting(e)
      /\ \A e \in Deliveries : Processing(e)' = Processing(e)
      /\ \A e \in Deliveries : Dropped(e)' = Dropped(e)
  BY <1>4, SameWaiting DEF Processing, Dropped
<1>7. x \in Deliveries => x \in submitted /\ ~Waiting(x) /\ processPc[x] = "none"
                          /\ ~Processing(x) /\ Dropped(x)
  BY <1>3 DEF CallInv, DropsAreTold, Dropped, Processing
<1>8. \A e \in Deliveries : /\ e = d => duties'[e] = Tail(s)
                            /\ e # d => duties'[e] = duties[e]
  BY <1>4 DEF CallInv, CallTyped
<1>9. \A e \in Deliveries :
         /\ lease'[e] = lease[e] \/ lease'[e] = "released"
         /\ lease'[e] # lease[e] => \/ duty = "releaseDropped" /\ e = x
                                    \/ duty = "releaseOwn" /\ e = d
         /\ duty = "releaseDropped" /\ e = x => lease'[e] # "held"
         /\ duty = "releaseOwn" /\ e = d => lease'[e] # "held"
  BY <1>1, <1>3, <1>5 DEF LeaseReleased, CallInv, CallTyped
<1>10. \A e \in Deliveries :
          /\ duty = "tellDropped" /\ e = x => notified'[e] = "replaced"
          /\ notified'[e] # notified[e] => \/ duty = "tellDropped" /\ e = x
                                           \/ duty = "tellRejected" /\ e = d
  BY <1>1, <1>3, <1>5 DEF CallInv, CallTyped
<1>11. CallTyped'
  <2>1. lease' \in [Deliveries -> {"none", "held", "released"}]
    BY <1>1, <1>3, <1>5 DEF LeaseReleased, CallInv, CallTyped
  <2>2. notified' \in [Deliveries -> {"no", "replaced", "queue_full"}]
    BY <1>1, <1>3, <1>5 DEF CallInv, CallTyped
  <2>3. duties' \in [Deliveries -> Seq(Duty)]
    BY <1>4, <1>5 DEF CallInv, CallTyped
  <2> QED BY <1>4, <2>1, <2>2, <2>3 DEF CallInv, CallTyped
<1>12. CallsAreFresh'
  <2> SUFFICES ASSUME NEW e \in Deliveries \ submitted'
               PROVE  /\ duties'[e] = <<>> /\ dropped'[e] = None /\ notified'[e] = "no"
                      /\ e \in Leased => lease'[e] = "held"
    BY DEF CallsAreFresh
  <2>1. e \notin submitted /\ e # d /\ (x \in Deliveries => e # x)
    BY <1>4, <1>5, <1>7
  <2>2. /\ duties[e] = <<>> /\ dropped[e] = None /\ notified[e] = "no"
        /\ e \in Leased => lease[e] = "held"
    BY <2>1 DEF CallInv, CallsAreFresh
  <2> QED BY <1>4, <1>5, <1>8, <1>9, <1>10, <2>1, <2>2
<1>13. DropsAreTold'
  <2> SUFFICES ASSUME NEW e \in Deliveries, NEW y \in Deliveries, dropped'[e] = y
               PROVE  /\ y \in submitted' /\ ~Waiting(y)' /\ processPc'[y] = "none"
                      /\ duties'[e] \in DropDuties
                      /\ duties'[e] = <<>> => notified'[y] = "replaced"
    BY DEF DropsAreTold
  <2>1. /\ y \in submitted /\ ~Waiting(y) /\ processPc[y] = "none"
        /\ duties[e] \in DropDuties
        /\ duties[e] = <<>> => notified[y] = "replaced"
        /\ Dropped(y)
    BY <1>4 DEF CallInv, DropsAreTold, Dropped
  <2>2. notified[y] = "replaced" => notified'[y] = "replaced"
    BY <1>5, <1>10, <2>1
  <2>3. CASE e # d
    BY <1>4, <1>6, <1>8, <2>1, <2>2, <2>3
  <2>4. CASE e = d
    <3>1. y = x /\ duty \in {"releaseDropped", "tellDropped"} /\ s \in DropDuties
      BY <1>2, <1>3, <1>4, <1>5, <2>1, <2>4, QueueAssumption
    <3>2. Tail(s) \in DropDuties /\ (duty = "releaseDropped" => Tail(s) # <<>>)
      BY <1>4, <3>1, DutyFacts
    <3>3. Tail(s) = <<>> => notified'[y] = "replaced"
      BY <1>10, <3>1, <3>2
    <3> QED BY <1>4, <1>6, <1>8, <2>1, <2>4, <3>2, <3>3
  <2> QED BY <2>3, <2>4
<1>14. OwnCallsEnd'
  <2> SUFFICES ASSUME NEW e \in Deliveries, dropped'[e] = None
               PROVE  /\ duties'[e] \in OwnDuties
                      /\ duties'[e] # <<>> => /\ ~Waiting(e)' /\ processPc'[e] = "none"
                                              /\ ~Dropped(e)'
    BY DEF OwnCallsEnd
  <2>1. /\ duties[e] \in OwnDuties
        /\ duties[e] # <<>> => ~Waiting(e) /\ processPc[e] = "none" /\ ~Dropped(e)
    BY <1>4 DEF CallInv, OwnCallsEnd
  <2>2. CASE e = d
    <3>1. Tail(s) \in OwnDuties
      BY <1>2, <1>4, <2>1, <2>2, DutyFacts
    <3> QED BY <1>2, <1>4, <1>6, <1>8, <2>1, <2>2, <3>1
  <2> QED BY <1>4, <1>6, <1>8, <2>1, <2>2
<1>15. TellsAreLast'
  <2> SUFFICES ASSUME NEW e \in Deliveries, notified'[e] # "no"
               PROVE  ~Waiting(e)' /\ processPc'[e] = "none"
    BY DEF TellsAreLast
  <2>1. CASE notified'[e] = notified[e]
    BY <1>4, <1>6, <2>1 DEF CallInv, TellsAreLast
  <2>2. CASE notified'[e] # notified[e]
    BY <1>4, <1>5, <1>6, <1>7, <1>10, <2>2
  <2> QED BY <2>1, <2>2
<1>16. LeaseCoversTurn'
  <2> SUFFICES ASSUME NEW e \in Leased, Waiting(e)' \/ processPc'[e] = "running"
               PROVE  lease'[e] = "held"
    BY DEF LeaseCoversTurn
  <2>1. e \in Deliveries /\ (Waiting(e) \/ processPc[e] = "running")
    BY <1>4, <1>6, QueueAssumption
  <2>2. lease[e] = "held"
    BY <2>1 DEF CallInv, LeaseCoversTurn
  <2>3. lease'[e] = lease[e]
    BY <1>5, <1>7, <1>9, <2>1
  <2> QED BY <2>2, <2>3
<1>17. LeaseHasOwner'
  <2> SUFFICES ASSUME NEW e \in Leased \cap submitted', lease'[e] = "held"
               PROVE  \/ Waiting(e)' \/ Processing(e)'
                      \/ "releaseOwn" \in Elements(duties'[e])
                      \/ \E y \in Deliveries :
                            dropped'[y] = e /\ "releaseDropped" \in Elements(duties'[y])
    BY DEF LeaseHasOwner
  <2>1. e \in Deliveries /\ e \in submitted
    BY <1>4, QueueAssumption
  <2>2. /\ lease[e] = "held"
        /\ ~(duty = "releaseDropped" /\ e = x) /\ ~(duty = "releaseOwn" /\ e = d)
    BY <1>9, <2>1
  <2>3. \/ Waiting(e) \/ Processing(e)
        \/ "releaseOwn" \in Elements(duties[e])
        \/ \E y \in Deliveries :
              dropped[y] = e /\ "releaseDropped" \in Elements(duties[y])
    BY <2>1, <2>2 DEF CallInv, LeaseHasOwner
  <2>4. CASE Waiting(e) \/ Processing(e)
    BY <1>6, <2>1, <2>4
  <2>5. CASE "releaseOwn" \in Elements(duties[e])
    <3>1. CASE e # d
      BY <1>8, <2>1, <2>5, <3>1
    <3>2. CASE e = d
      <4>1. x = None
        <5>1. CASE x \in Deliveries
          <6>1. s \in DropDuties
            BY <1>2, <1>3, <5>1 DEF CallInv, DropsAreTold
          <6>2. \A t \in DropDuties : "releaseOwn" \notin Elements(t)
            <7>1. \A t \in DropDuties : \A i \in 1..Len(t) :
                     t[i] \in {"releaseDropped", "tellDropped"}
              BY DEF DropDuties
            <7> QED BY <7>1 DEF Elements
          <6> QED BY <1>2, <2>5, <3>2, <6>1, <6>2
        <5> QED BY <1>3, <5>1 DEF CallInv, CallTyped
      <4>2. s \in OwnDuties /\ duty = "tellRejected"
        <5>1. s \in OwnDuties
          BY <1>2, <1>3, <4>1 DEF CallInv, OwnCallsEnd
        <5>2. duty \in {"tellRejected", "releaseOwn"}
          BY <1>4, <5>1, DutyFacts
        <5> QED BY <2>2, <3>2, <5>1, <5>2
      <4>3. "releaseOwn" \in Elements(Tail(s))
        BY <1>2, <1>4, <2>5, <3>2, <4>2, DutyFacts
      <4> QED BY <1>8, <3>2, <4>3
    <3> QED BY <3>1, <3>2
  <2>6. CASE \E y \in Deliveries :
                dropped[y] = e /\ "releaseDropped" \in Elements(duties[y])
    <3>1. PICK y \in Deliveries :
              dropped[y] = e /\ "releaseDropped" \in Elements(duties[y])
      BY <2>6
    <3>2. CASE y # d
      BY <1>4, <1>8, <3>1, <3>2
    <3>3. CASE y = d
      <4>1. x = e /\ s \in DropDuties
        BY <1>2, <1>3, <2>1, <3>1, <3>3 DEF CallInv, DropsAreTold
      <4>2. duty = "tellDropped"
        BY <1>4, <2>2, <4>1, DutyFacts
      <4> QED BY <1>2, <1>4, <3>1, <3>3, <4>1, <4>2, DutyFacts
    <3> QED BY <3>2, <3>3
  <2> QED BY <2>3, <2>4, <2>5, <2>6
<1>18. ActiveIsAwaited' /\ InFlightOnce'
  BY <1>4, <1>6 DEF CallInv, ActiveIsAwaited, InFlightOnce
<1> QED BY <1>11, <1>12, <1>13, <1>14, <1>15, <1>16, <1>17, <1>18 DEF CallInv

(* A turn that is taken from the queue keeps its lease while it runs.      *)
LEMMA TakeKeepsCalls ==
    ASSUME QueueInv, CallInv, NEW w \in Workers, TakeTurn(w)
    PROVE  CallInv'
<1>1. PICK d : d = Head(pending[workerOf[w]])
  OBVIOUS
<1>2. /\ d \in Deliveries /\ Waiting(d) /\ ConversationOf[d] = workerOf[w]
      /\ \A e \in Deliveries : Waiting(e)' <=> Waiting(e) /\ e # d
  BY <1>1, TakenWaits
<1>3. /\ active' = [active EXCEPT ![workerOf[w]] = d]
      /\ turnOf' = [turnOf EXCEPT ![w] = d]
      /\ workerPc' = [workerPc EXCEPT ![w] = "processing"]
      /\ processPc' = [processPc EXCEPT ![d] = "running"]
      /\ UNCHANGED <<workerOf, submitted, duties, dropped, notified, lease>>
  BY <1>1 DEF TakeTurn, callVars
<1>4. /\ workerPc[w] # "gone" /\ workerOf[w] \in Conversations
      /\ processPc \in [Deliveries -> {"none", "running", "releasing", "done"}]
      /\ active \in [Conversations -> Deliveries \cup {None}]
      /\ turnOf \in [Workers -> Deliveries \cup {None}]
      /\ workerPc \in [Workers -> {"gone", "ready", "idle", "timedOut", "processing"}]
  BY DEF TakeTurn, AtLoopTop, QueueInv, LiveWorkers, QueueTypeOK
<1>5. /\ \A e \in Deliveries : e # d => processPc'[e] = processPc[e]
      /\ processPc'[d] = "running"
      /\ \A e \in Deliveries : Processing(e)' <=> Processing(e) \/ e = d
  BY <1>2, <1>3, <1>4 DEF Processing
<1>6. CallTyped' /\ CallsAreFresh'
  BY <1>3 DEF CallInv, CallTyped, CallsAreFresh
<1>7. \A e \in Deliveries : Dropped(e)' = Dropped(e)
  BY <1>3 DEF Dropped
<1>8. DropsAreTold' /\ OwnCallsEnd' /\ TellsAreLast'
  <2>1. DropsAreTold'
    BY <1>2, <1>3, <1>5 DEF CallInv, DropsAreTold
  <2>2. OwnCallsEnd'
    BY <1>2, <1>3, <1>5, <1>7 DEF CallInv, OwnCallsEnd
  <2>3. TellsAreLast'
    BY <1>2, <1>3, <1>5 DEF CallInv, TellsAreLast
  <2> QED BY <2>1, <2>2, <2>3
<1>9. LeaseCoversTurn'
  BY <1>2, <1>3, <1>5, QueueAssumption DEF CallInv, LeaseCoversTurn
<1>10. LeaseHasOwner'
  BY <1>2, <1>3, <1>5, QueueAssumption DEF CallInv, LeaseHasOwner
<1>11. ActiveIsAwaited'
  <2>1. \A v \in Workers : v # w /\ workerPc[v] = "processing" => workerOf[v] # workerOf[w]
    BY <1>4 DEF QueueInv, LiveWorkers
  <2>2. \A v \in Workers : workerPc[v] = "processing" => workerOf[v] \in Conversations
    BY DEF QueueInv, LiveWorkers
  <2> QED BY <1>3, <1>4, <2>1, <2>2 DEF CallInv, ActiveIsAwaited
<1>12. InFlightOnce'
  <2>1. \A e \in Deliveries : Waiting(e)' \/ Processing(e)' => Waiting(e) \/ Processing(e)
    BY <1>2, <1>5
  <2> QED BY <2>1 DEF CallInv, InFlightOnce
<1> QED BY <1>6, <1>8, <1>9, <1>10, <1>11, <1>12 DEF CallInv

(* A worker that waits, gives up or retires awaits no turn.                *)
LEMMA RestKeepsCalls ==
    ASSUME QueueInv, CallInv, NEW w \in Workers,
           GoIdle(w) \/ TimeOut(w) \/ Retire(w)
    PROVE  CallInv'
<1>1. UNCHANGED <<pending, processPc, submitted, duties, dropped, notified, lease>>
  BY DEF GoIdle, TimeOut, Retire, callVars, conversationVars
<1>2. /\ \A e \in Deliveries : Waiting(e)' = Waiting(e)
      /\ \A e \in Deliveries : Processing(e)' = Processing(e)
      /\ \A e \in Deliveries : Dropped(e)' = Dropped(e)
  BY <1>1, SameWaiting DEF Processing, Dropped
<1>3. CallTyped' /\ CallsAreFresh' /\ DropsAreTold' /\ OwnCallsEnd' /\ TellsAreLast'
  BY <1>1, <1>2
     DEF CallInv, CallTyped, CallsAreFresh, DropsAreTold, OwnCallsEnd, TellsAreLast
<1>4. LeaseCoversTurn' /\ LeaseHasOwner' /\ InFlightOnce'
  BY <1>1, <1>2, QueueAssumption DEF CallInv, LeaseCoversTurn, LeaseHasOwner, InFlightOnce
<1>5. ActiveIsAwaited'
  <2>1. /\ workerPc \in [Workers -> {"gone", "ready", "idle", "timedOut", "processing"}]
        /\ turnOf \in [Workers -> Deliveries \cup {None}]
        /\ active \in [Conversations -> Deliveries \cup {None}]
        /\ workerOf \in [Workers -> Conversations \cup {None}]
    BY DEF QueueInv, QueueTypeOK
  <2>2. CASE GoIdle(w)
    <3>1. /\ active' = [active EXCEPT ![workerOf[w]] = IF @ = turnOf[w] THEN None ELSE @]
          /\ turnOf' = [turnOf EXCEPT ![w] = None]
          /\ workerPc' = [workerPc EXCEPT ![w] = "idle"]
          /\ workerPc[w] # "gone"
          /\ UNCHANGED workerOf
      BY <2>2 DEF GoIdle, AtLoopTop
    <3>2. \A v \in Workers : v # w /\ workerPc[v] = "processing" =>
             workerOf[v] # workerOf[w] /\ workerOf[v] \in Conversations
      BY <3>1 DEF QueueInv, LiveWorkers
    <3> QED BY <2>1, <3>1, <3>2 DEF CallInv, ActiveIsAwaited
  <2>3. CASE TimeOut(w)
    BY <2>1, <2>3 DEF CallInv, ActiveIsAwaited, TimeOut, conversationVars
  <2>4. CASE Retire(w)
    BY <2>1, <2>4 DEF CallInv, ActiveIsAwaited, Retire
  <2> QED BY <2>2, <2>3, <2>4
<1> QED BY <1>3, <1>4, <1>5 DEF CallInv

(* The lease of a processed turn is released when its process ends.        *)
LEMMA ProcessKeepsCalls ==
    ASSUME QueueInv, CallInv, NEW d \in Deliveries, ProcessStep(d)
    PROVE  CallInv'
<1>1. /\ Processing(d)
      /\ \/ processPc' = [processPc EXCEPT ![d] = "releasing"] /\ UNCHANGED lease
         \/ processPc' = [processPc EXCEPT ![d] = "done"] /\ lease' = LeaseReleased(d)
      /\ UNCHANGED <<pending, active, workerPc, workerOf, turnOf, submitted,
                     duties, dropped, notified>>
  BY DEF ProcessStep, FinishProcessor, ReleaseProcessed, Processing, callVars,
         conversationVars, workerVars
<1>2. /\ processPc \in [Deliveries -> {"none", "running", "releasing", "done"}]
      /\ lease \in [Deliveries -> {"none", "held", "released"}]
  BY DEF QueueInv, QueueTypeOK, CallInv, CallTyped
<1>3. /\ processPc[d] # "none" /\ d \in submitted /\ ~Waiting(d)
  BY <1>1, WaitingFacts DEF Processing, QueueInv, QueueIsFresh
<1>4. /\ \A e \in Deliveries : Waiting(e)' = Waiting(e)
      /\ \A e \in Deliveries : Dropped(e)' = Dropped(e)
      /\ \A e \in Deliveries : e # d => processPc'[e] = processPc[e] /\ lease'[e] = lease[e]
      /\ processPc'[d] \in {"releasing", "done"}
      /\ processPc'[d] = "done" => lease'[d] # "held"
  <2>1. \A e \in Deliveries : Waiting(e)' = Waiting(e)
    BY <1>1, SameWaiting
  <2>2. \A e \in Deliveries : Dropped(e)' = Dropped(e)
    BY <1>1 DEF Dropped
  <2>3. /\ \A e \in Deliveries : e # d => processPc'[e] = processPc[e] /\ lease'[e] = lease[e]
        /\ processPc'[d] \in {"releasing", "done"}
        /\ processPc'[d] = "done" => lease'[d] # "held"
    BY <1>1, <1>2 DEF LeaseReleased
  <2> QED BY <2>1, <2>2, <2>3
<1>5. \A e \in Deliveries : Processing(e)' => Processing(e)
  BY <1>1, <1>4 DEF Processing
<1>6. CallTyped'
  BY <1>1, <1>2 DEF CallInv, CallTyped, LeaseReleased
<1>7. CallsAreFresh' /\ TellsAreLast'
  BY <1>1, <1>3, <1>4 DEF CallInv, CallsAreFresh, TellsAreLast
<1>8. DropsAreTold' /\ OwnCallsEnd'
  <2>1. DropsAreTold'
    BY <1>1, <1>3, <1>4 DEF CallInv, DropsAreTold
  <2>2. OwnCallsEnd'
    BY <1>1, <1>3, <1>4 DEF CallInv, OwnCallsEnd
  <2> QED BY <2>1, <2>2
<1>9. LeaseCoversTurn'
  BY <1>1, <1>3, <1>4, QueueAssumption DEF CallInv, LeaseCoversTurn
<1>10. LeaseHasOwner'
  <2> SUFFICES ASSUME NEW e \in Leased \cap submitted', lease'[e] = "held"
               PROVE  \/ Waiting(e)' \/ Processing(e)'
                      \/ "releaseOwn" \in Elements(duties'[e])
                      \/ \E y \in Deliveries :
                            dropped'[y] = e /\ "releaseDropped" \in Elements(duties'[y])
    BY DEF LeaseHasOwner
  <2>1. e \in Deliveries
    BY QueueAssumption
  <2>2. CASE e = d
    BY <1>4, <2>2 DEF Processing
  <2>3. CASE e # d
    <3>1. Processing(e)' = Processing(e)
      BY <1>4, <2>1, <2>3 DEF Processing
    <3> QED BY <1>1, <1>4, <2>1, <2>3, <3>1 DEF CallInv, LeaseHasOwner
  <2> QED BY <2>2, <2>3
<1>11. ActiveIsAwaited' /\ InFlightOnce'
  BY <1>1, <1>4, <1>5 DEF CallInv, ActiveIsAwaited, InFlightOnce
<1> QED BY <1>6, <1>7, <1>8, <1>9, <1>10, <1>11 DEF CallInv

(* Every step of the queue preserves the calls' invariant.                 *)
LEMMA CallStep ==
    ASSUME QueueInv, CallInv, [Next]_vars
    PROVE  CallInv'
<1>1. CASE UNCHANGED vars
  BY <1>1, CallUntouched DEF vars, turnVars, conversationVars, workerVars, callVars
<1>2. ASSUME NEW d \in Deliveries, Submit(d)
      PROVE  CallInv'
  <2>1. CASE Ignore(d) \/ SkipDuplicate(d)
    <3>1. /\ d \notin submitted /\ Return(d, None, FALSE, FALSE)
          /\ UNCHANGED <<pending, active, workerVars, processPc>>
      BY <2>1 DEF Ignore, SkipDuplicate, Considered, conversationVars
    <3> QED BY <3>1, ReturnKeepsCalls
  <2>2. CASE Refuse(d) \/ SpawnFails(d)
    <3>1. /\ d \notin submitted /\ Return(d, None, TRUE, FALSE)
          /\ UNCHANGED <<pending, active, workerVars, processPc>>
      BY <2>2 DEF Refuse, SpawnFails, Fresh, Considered, conversationVars
    <3> QED BY <3>1, ReturnKeepsCalls
  <2>3. CASE Accept(d)
    BY <2>3, AcceptKeepsCalls
  <2> QED BY <1>2, <2>1, <2>2, <2>3 DEF Submit
<1>3. ASSUME NEW w \in Workers, WorkerStep(w) \/ TimeOut(w) \/ Retire(w)
      PROVE  CallInv'
  BY <1>3, TakeKeepsCalls, RestKeepsCalls DEF WorkerStep
<1>4. CASE DedupeAges \/ \E g \in Groups : ContextAges(g)
  <2>1. UNCHANGED turnVars
    BY <1>4 DEF DedupeAges, ContextAges, turnVars, conversationVars, workerVars, callVars
  <2> QED BY <2>1, CallUntouched
<1> QED BY <1>1, <1>2, <1>3, <1>4, CleanUpKeepsCalls, ProcessKeepsCalls DEF Next

(* Both invariants hold in every behaviour of the queue.                   *)
LEMMA CallInvariance == Spec => [](QueueInv /\ CallInv)
<1>1. Init => QueueInv /\ CallInv
  BY QueueStart, CallStart
<1>2. QueueInv /\ CallInv /\ [Next]_vars => (QueueInv /\ CallInv)'
  BY QueueStep, CallStep
<1> QED BY <1>1, <1>2, PTL DEF Spec

(* However often a message is delivered and whatever the two caches have   *)
(* forgotten, a conversation never has the same message in flight twice.   *)
THEOREM MessagesFlyOnce == Spec => []InFlightOnce
<1>1. CallInv => InFlightOnce
  BY DEF CallInv
<1> QED BY <1>1, CallInvariance, PTL

(* A turn that waits or runs holds its lease, and a lease that is held has *)
(* a turn or a call left that will release it.                             *)
THEOREM LeasesFollowTurns == Spec => []LeaseFollowsTurn
<1>1. CallInv => LeaseFollowsTurn
  BY DEF CallInv, LeaseFollowsTurn
<1> QED BY <1>1, CallInvariance, PTL

(* A sender who was told that the request is off is not answered as well,  *)
(* and whoever's turn was dropped has been told or is about to be.         *)
THEOREM TellingIsFinal == Spec => []ToldIsFinal
<1>1. ASSUME CallInv PROVE ToldIsFinal
  <2> SUFFICES ASSUME NEW d \in Deliveries
               PROVE  /\ notified[d] # "no" => processPc[d] = "none" /\ ~Waiting(d)
                      /\ Dropped(d) =>
                            \/ notified[d] = "replaced"
                            \/ \E e \in Deliveries :
                                  dropped[e] = d /\ "tellDropped" \in Elements(duties[e])
    BY DEF ToldIsFinal
  <2>1. notified[d] # "no" => processPc[d] = "none" /\ ~Waiting(d)
    BY <1>1 DEF CallInv, TellsAreLast
  <2>2. ASSUME Dropped(d), notified[d] # "replaced"
        PROVE  \E e \in Deliveries : dropped[e] = d /\ "tellDropped" \in Elements(duties[e])
    <3>1. PICK e \in Deliveries : dropped[e] = d
      BY <2>2 DEF Dropped
    <3>2. duties[e] \in DropDuties /\ duties[e] # <<>>
      BY <1>1, <2>2, <3>1 DEF CallInv, DropsAreTold
    <3> QED BY <3>1, <3>2, DutyFacts
  <2> QED BY <2>1, <2>2
<1> QED BY <1>1, CallInvariance, PTL

-----------------------------------------------------------------------------
(* The queue implements SerialTurns, as far as safety goes: its steps are  *)
(* steps of SerialTurns or leave what SerialTurns sees alone.              *)

(* What became of a turn, one case at a time.                              *)
Fates ==
    \A d \in Deliveries :
        /\ processPc[d] = "done" => Fate(d) = "finished"
        /\ Processing(d) => Fate(d) = "running"
        /\ Waiting(d) => Fate(d) = "waiting"
        /\ Dropped(d) => Fate(d) = "replaced"
        /\ d \in submitted /\ ~Dropped(d) /\ ~Waiting(d) /\ processPc[d] = "none"
              => Fate(d) = "declined"
        /\ d \notin submitted => Fate(d) = "unseen"

(* The cases of Fate exclude each other.                                   *)
LEMMA FatesAreKnown == QueueInv /\ CallInv => Fates
<1> SUFFICES ASSUME QueueInv, CallInv, NEW d \in Deliveries
             PROVE  /\ processPc[d] = "done" => Fate(d) = "finished"
                    /\ Processing(d) => Fate(d) = "running"
                    /\ Waiting(d) => Fate(d) = "waiting"
                    /\ Dropped(d) => Fate(d) = "replaced"
                    /\ d \in submitted /\ ~Dropped(d) /\ ~Waiting(d) /\ processPc[d] = "none"
                          => Fate(d) = "declined"
                    /\ d \notin submitted => Fate(d) = "unseen"
  BY DEF Fates
<1>1. Waiting(d) => d \in submitted /\ processPc[d] = "none"
  BY WaitingFacts
<1>2. Dropped(d) => d \in submitted /\ ~Waiting(d) /\ processPc[d] = "none"
  BY DEF CallInv, DropsAreTold, Dropped
<1>3. d \notin submitted => processPc[d] = "none"
  BY DEF QueueInv, QueueIsFresh
<1>4. processPc[d] \in {"none", "running", "releasing", "done"}
  BY DEF QueueInv, QueueTypeOK
<1>5. Processing(d) <=> processPc[d] \in {"running", "releasing"}
  BY DEF Processing
<1>6. CASE processPc[d] = "done"
  BY <1>1, <1>2, <1>3, <1>5, <1>6 DEF Fate
<1>7. CASE Processing(d)
  BY <1>1, <1>2, <1>3, <1>5, <1>7 DEF Fate
<1>8. CASE Waiting(d)
  BY <1>1, <1>2, <1>5, <1>8 DEF Fate
<1>9. CASE Dropped(d)
  BY <1>1, <1>2, <1>5, <1>9 DEF Fate
<1>10. CASE d \in submitted /\ ~Dropped(d) /\ ~Waiting(d) /\ processPc[d] = "none"
  BY <1>5, <1>10 DEF Fate
<1>11. CASE d \notin submitted
  BY <1>1, <1>2, <1>3, <1>5, <1>11 DEF Fate
<1> QED BY <1>4, <1>5, <1>6, <1>7, <1>8, <1>9, <1>10, <1>11

(* The turns of a conversation that run, as SerialTurns sees them.         *)
Runs(c) == {d \in Deliveries : ConversationOf[d] = c /\ Processing(d)}

Ran == [c \in Conversations |-> Runs(c)]
Became == [d \in Deliveries |-> Fate(d)]

(* The queue starts where SerialTurns starts.                              *)
LEMMA SerialStart == Init => Serial!Init
<1> SUFFICES ASSUME Init PROVE Serial!Init
  OBVIOUS
<1>1. Fates
  BY QueueStart, CallStart, FatesAreKnown
<1>2. \A d \in Deliveries : Fate(d) = "unseen" /\ ~Processing(d)
  BY <1>1 DEF Init, Fates, Processing
<1>3. \A c \in Conversations : Runs(c) = {}
  BY <1>2 DEF Runs
<1> QED BY <1>2, <1>3 DEF Serial!Init, Init, Runs

(* What a delivery's fate does not depend on may change.                   *)
LEMMA SameFates ==
    ASSUME Fates, Fates', QueueInv, NEW d \in Deliveries,
           Waiting(d)' <=> Waiting(d), Dropped(d)' <=> Dropped(d),
           d \in submitted' <=> d \in submitted,
           \/ processPc'[d] = processPc[d]
           \/ Processing(d) /\ Processing(d)'
    PROVE  Fate(d)' = Fate(d)
<1>1. processPc[d] \in {"none", "running", "releasing", "done"}
  BY DEF QueueInv, QueueTypeOK
<1>2. /\ processPc[d] = "done" => Fate(d) = "finished"
      /\ Processing(d) => Fate(d) = "running"
      /\ Waiting(d) => Fate(d) = "waiting"
      /\ Dropped(d) => Fate(d) = "replaced"
      /\ d \in submitted /\ ~Dropped(d) /\ ~Waiting(d) /\ processPc[d] = "none"
            => Fate(d) = "declined"
      /\ d \notin submitted => Fate(d) = "unseen"
  BY DEF Fates
<1>3. /\ processPc'[d] = "done" => Fate(d)' = "finished"
      /\ Processing(d)' => Fate(d)' = "running"
      /\ Waiting(d)' => Fate(d)' = "waiting"
      /\ Dropped(d)' => Fate(d)' = "replaced"
      /\ d \in submitted' /\ ~Dropped(d)' /\ ~Waiting(d)' /\ processPc'[d] = "none"
            => Fate(d)' = "declined"
      /\ d \notin submitted' => Fate(d)' = "unseen"
  BY DEF Fates
<1>4. /\ Processing(d) <=> processPc[d] \in {"running", "releasing"}
      /\ Processing(d)' <=> processPc'[d] \in {"running", "releasing"}
  BY DEF Processing
<1>5. CASE Processing(d) /\ Processing(d)'
  BY <1>2, <1>3, <1>5
<1>6. CASE processPc'[d] = processPc[d]
  BY <1>1, <1>2, <1>3, <1>4, <1>6
<1> QED BY <1>5, <1>6

(* What SerialTurns sees does not change.                                  *)
LEMMA SerialStutters ==
    ASSUME Fates, Fates', QueueInv, UNCHANGED <<pending, submitted, dropped>>,
           \A d \in Deliveries : \/ processPc'[d] = processPc[d]
                                 \/ Processing(d) /\ Processing(d)'
    PROVE  UNCHANGED Serial!vars
<1>1. \A d \in Deliveries : Waiting(d)' = Waiting(d) /\ Dropped(d)' = Dropped(d)
  BY SameWaiting DEF Dropped
<1>2. \A d \in Deliveries : Fate(d)' = Fate(d)
  BY <1>1, SameFates
<1>3. \A d \in Deliveries : Processing(d)' = Processing(d)
  BY DEF Processing
<1>4. Became' = Became
  BY <1>2 DEF Became
<1>5. Ran' = Ran
  BY <1>3 DEF Ran, Runs
<1> QED BY <1>4, <1>5 DEF Serial!vars, Became, Ran, Runs

(* A submit that adds no turn declines its delivery.                       *)
LEMMA SerialDeclines ==
    ASSUME Fates, Fates', QueueInv, CallInv, NEW d \in Deliveries,
           d \notin submitted, submitted' = submitted \cup {d},
           dropped' = [dropped EXCEPT ![d] = None],
           UNCHANGED <<pending, processPc>>
    PROVE  Serial!Decline(d)
<1>1. dropped' = dropped /\ processPc[d] = "none" /\ ~Waiting(d) /\ ~Dropped(d)
  BY WaitingFacts
     DEF CallInv, CallTyped, CallsAreFresh, DropsAreTold, Dropped, QueueInv, QueueIsFresh
<1>2. \A e \in Deliveries : Waiting(e)' = Waiting(e) /\ Dropped(e)' = Dropped(e)
  BY <1>1, SameWaiting DEF Dropped
<1>3. Fate(d) = "unseen"
  BY DEF Fates
<1>4. Fate(d)' = "declined"
  BY <1>1, <1>2 DEF Fates
<1>5. \A e \in Deliveries : e # d => Fate(e)' = Fate(e)
  BY <1>2, SameFates
<1>6. Became[d] = "unseen" /\ Became' = [Became EXCEPT ![d] = "declined"]
  BY <1>3, <1>4, <1>5 DEF Became
<1>7. Ran' = Ran
  BY DEF Ran, Runs, Processing
<1> QED BY <1>6, <1>7 DEF Serial!Decline, Became, Ran, Runs

(* An accepted turn joins the queue or displaces the turn VictimAt names.  *)
LEMMA SerialAccepts ==
    ASSUME Fates, Fates', QueueInv, CallInv, NEW d \in Deliveries, Accept(d)
    PROVE  Serial!Join(d) \/ \E i \in 1..MaxPending : Serial!Displace(d, i)
<1>1. PICK drop : drop = Victim(ConversationOf[d])
  OBVIOUS
<1>2. PICK c \in Conversations : c = ConversationOf[d]
  BY QueueAssumption
<1>3. /\ \A e \in Deliveries : Waiting(e)' <=> e = d \/ (Waiting(e) /\ e # drop)
      /\ drop # None => drop \in Deliveries /\ Waiting(drop) /\ drop # d
  BY <1>1, AcceptedWaits
<1>4. /\ submitted' = submitted \cup {d}
      /\ dropped' = [dropped EXCEPT ![d] = drop]
      /\ processPc' = processPc
      /\ pending' = [pending EXCEPT ![c] = Enqueued(c, d)]
      /\ pending \in [Conversations -> Seq(Deliveries)]
      /\ dropped \in [Deliveries -> Deliveries \cup {None}]
      /\ Room(c) \/ Yields(c, d)
  BY <1>1, <1>2 DEF Accept, Return, QueueInv, QueueTypeOK, CallInv, CallTyped
<1>5. /\ d \notin submitted /\ ~Waiting(d) /\ dropped[d] = None
      /\ None \notin Deliveries
  <2>1. d \notin submitted
    BY DEF Accept, Fresh, Considered
  <2> QED BY <2>1, WaitingFacts, QueueAssumption DEF CallInv, CallsAreFresh
<1>6. \A e \in Deliveries : Dropped(e)' <=> Dropped(e) \/ e = drop
  BY <1>4, <1>5 DEF Dropped
<1>7. Fate(d) = "unseen" /\ Fate(d)' = "waiting"
  BY <1>3, <1>5 DEF Fates
<1>8. drop # None => Fate(drop)' = "replaced"
  BY <1>3, <1>6 DEF Fates
<1>9. ASSUME NEW e \in Deliveries, e # d, e # drop
      PROVE  Fate(e)' = Fate(e)
  <2>1. /\ Waiting(e)' <=> Waiting(e)
        /\ Dropped(e)' <=> Dropped(e)
        /\ e \in submitted' <=> e \in submitted
        /\ processPc'[e] = processPc[e]
    BY <1>3, <1>4, <1>6, <1>9
  <2> QED BY <2>1, SameFates
<1>10. Ran' = Ran
  BY <1>4 DEF Ran, Runs, Processing
<1>11. Became[d] = "unseen"
  BY <1>7 DEF Became
<1>12. CASE Room(c)
  <2>1. drop = None /\ Enqueued(c, d) = Append(pending[c], d)
        /\ Len(pending[c]) < MaxPending
    BY <1>1, <1>2, <1>12 DEF Victim, Enqueued, Room
  <2>2. Became' = [Became EXCEPT ![d] = "waiting"]
    BY <1>5, <1>7, <1>9, <2>1 DEF Became
  <2>3. pending' = [pending EXCEPT ![c] = Append(pending[c], d)]
    BY <1>4, <2>1
  <2>4. Serial!Join(d)
    BY <1>2, <1>10, <1>11, <2>1, <2>2, <2>3 DEF Serial!Join, Became, Ran, Runs
  <2> QED BY <2>4
<1>13. CASE ~Room(c)
  <2>1. PICK v \in 1..Len(pending[c]) :
            /\ v = VictimAt(c)
            /\ Len(pending[c]) = MaxPending
            /\ Sacrifices(c) = {} => v = 1
            /\ Sacrifices(c) # {} => v \in Sacrifices(c) /\ \A j \in Sacrifices(c) : v <= j
    BY <1>13, VictimAtFacts DEF QueueInv
  <2>2. /\ drop = pending[c][v]
        /\ Enqueued(c, d) = Append(DropAt(pending[c], v), d)
    BY <1>1, <1>2, <1>13, <2>1 DEF Victim, Enqueued
  <2>3. drop \in Deliveries /\ drop # d
    <3>1. drop \in Deliveries
      BY <1>4, <2>1, <2>2
    <3> QED BY <1>3, <1>5, <3>1
  <2>4. Became' = [Became EXCEPT ![d] = "waiting", ![drop] = "replaced"]
    BY <1>5, <1>7, <1>8, <1>9, <2>3 DEF Became
  <2>5. pending' = [pending EXCEPT ![c] = Append(DropAt(pending[c], v), d)]
    BY <1>4, <2>2
  <2>6. Serial!Spare(c) = Sacrifices(c)
    BY DEF Serial!Spare, Sacrifices
  <2>7. Serial!Without(pending[c], v) = DropAt(pending[c], v)
    BY DEF Serial!Without, DropAt
  <2>8. IF Serial!Spare(c) = {}
        THEN v = 1 /\ d \in MustKeep
        ELSE v \in Serial!Spare(c) /\ \A j \in Serial!Spare(c) : v <= j
    BY <1>4, <1>13, <2>1, <2>6 DEF Yields
  <2>9. v \in 1..MaxPending
    BY <2>1
  <2>10. Serial!Displace(d, v)
    <3>1. pending' = [pending EXCEPT ![c] = Append(Serial!Without(pending[c], v), d)]
      BY <2>5, <2>7
    <3> HIDE DEF Serial!Without, Serial!Spare
    <3> QED BY <1>2, <1>10, <1>11, <2>1, <2>2, <2>4, <2>8, <2>9, <3>1
            DEF Serial!Displace, Became, Ran, Runs
  <2> QED BY <2>9, <2>10
<1> QED BY <1>12, <1>13

(* The worker takes the oldest turn when no other one runs.                *)
LEMMA SerialStarts ==
    ASSUME Fates, Fates', QueueInv, CallInv, NEW w \in Workers, TakeTurn(w)
    PROVE  \E c \in Conversations : Serial!Start(c)
<1>1. PICK d : d = Head(pending[workerOf[w]])
  OBVIOUS
<1>2. PICK c : c = workerOf[w]
  OBVIOUS
<1>3. /\ d \in Deliveries /\ Waiting(d) /\ ConversationOf[d] = c
      /\ \A e \in Deliveries : Waiting(e)' <=> Waiting(e) /\ e # d
  BY <1>1, <1>2, TakenWaits
<1>4. /\ pending[c] # <<>>
      /\ pending' = [pending EXCEPT ![c] = Tail(pending[c])]
      /\ processPc' = [processPc EXCEPT ![d] = "running"]
      /\ UNCHANGED <<submitted, dropped>>
      /\ c \in Conversations
      /\ processPc \in [Deliveries -> {"none", "running", "releasing", "done"}]
      /\ workerPc[w] = "processing" => processPc[turnOf[w]] = "done"
      /\ workerPc[w] # "gone"
  BY <1>1, <1>2 DEF TakeTurn, AtLoopTop, callVars, QueueInv, QueueTypeOK, LiveWorkers
<1>5. Runs(c) = {}
  <2>1. ASSUME NEW e \in Runs(c) PROVE FALSE
    <3>1. e \in Deliveries /\ ConversationOf[e] = c /\ Processing(e)
      BY <2>1 DEF Runs
    <3>2. PICK v \in Workers : workerPc[v] = "processing" /\ turnOf[v] = e
      BY <3>1 DEF QueueInv, ProcessesAreAwaited
    <3>3. v = w
      BY <1>2, <1>4, <3>1, <3>2 DEF QueueInv, WorkersAwait, LiveWorkers
    <3> QED BY <1>4, <3>1, <3>2, <3>3 DEF Processing
  <2> QED BY <2>1
<1>6. /\ processPc[d] = "none"
      /\ processPc'[d] = "running"
      /\ \A e \in Deliveries : e # d => processPc'[e] = processPc[e]
  BY <1>3, <1>4, WaitingFacts
<1>7. \A e \in Deliveries : Processing(e)' <=> Processing(e) \/ e = d
  BY <1>6 DEF Processing
<1>8. Fate(d)' = "running"
  BY <1>3, <1>7 DEF Fates
<1>9. \A e \in Deliveries : e # d => Fate(e)' = Fate(e)
  <2>1. \A e \in Deliveries : Dropped(e)' = Dropped(e)
    BY <1>4 DEF Dropped
  <2>2. ASSUME NEW e \in Deliveries, e # d
        PROVE  Fate(e)' = Fate(e)
    <3>1. /\ Waiting(e)' <=> Waiting(e)
          /\ Dropped(e)' <=> Dropped(e)
          /\ e \in submitted' <=> e \in submitted
          /\ processPc'[e] = processPc[e]
      BY <1>3, <1>4, <1>6, <2>1, <2>2
    <3> QED BY <3>1, SameFates
  <2> QED BY <2>2
<1>10. Became' = [Became EXCEPT ![d] = "running"]
  BY <1>8, <1>9 DEF Became
<1>11. Ran' = [Ran EXCEPT ![c] = {d}]
  <2>1. Runs(c)' = {d}
    BY <1>3, <1>5, <1>7 DEF Runs
  <2>2. \A u \in Conversations : u # c => Runs(u)' = Runs(u)
    BY <1>3, <1>7 DEF Runs
  <2> QED BY <1>4, <2>1, <2>2 DEF Ran
<1>12. Ran[c] = {}
  BY <1>4, <1>5 DEF Ran
<1>13. Serial!Start(c)
  BY <1>1, <1>2, <1>4, <1>10, <1>11, <1>12 DEF Serial!Start, Became, Ran, Runs
<1> QED BY <1>4, <1>13

(* The only turn that runs is finished when its lease is released.         *)
LEMMA SerialFinishes ==
    ASSUME Fates, Fates', QueueInv, CallInv, Serialised, NEW d \in Deliveries,
           ReleaseProcessed(d)
    PROVE  Serial!Finish(ConversationOf[d])
<1>1. PICK c \in Conversations : c = ConversationOf[d]
  BY QueueAssumption
<1>2. /\ processPc[d] = "releasing"
      /\ processPc' = [processPc EXCEPT ![d] = "done"]
      /\ UNCHANGED <<pending, submitted, dropped>>
      /\ processPc \in [Deliveries -> {"none", "running", "releasing", "done"}]
  BY DEF ReleaseProcessed, conversationVars, QueueInv, QueueTypeOK
<1>3. /\ processPc'[d] = "done"
      /\ \A e \in Deliveries : e # d => processPc'[e] = processPc[e]
      /\ Processing(d)
  BY <1>2 DEF Processing
<1>4. Runs(c) = {d}
  BY <1>1, <1>3 DEF Runs, Serialised
<1>5. \A e \in Deliveries : Processing(e)' <=> Processing(e) /\ e # d
  BY <1>3 DEF Processing
<1>6. Fate(d)' = "finished"
  BY <1>3 DEF Fates
<1>7. \A e \in Deliveries : e # d => Fate(e)' = Fate(e)
  <2>1. \A e \in Deliveries : Dropped(e)' = Dropped(e) /\ Waiting(e)' = Waiting(e)
    BY <1>2, SameWaiting DEF Dropped
  <2> QED BY <1>2, <1>3, <2>1, SameFates
<1>8. Ran' = [Ran EXCEPT ![c] = {}]
  <2>1. Runs(c)' = {}
    BY <1>4, <1>5 DEF Runs
  <2>2. \A u \in Conversations : u # c => Runs(u)' = Runs(u)
    BY <1>1, <1>5 DEF Runs
  <2> QED BY <2>1, <2>2 DEF Ran
<1>9. Ran[c] = {d}
  BY <1>4 DEF Ran
<1>10. Became' = [e \in Deliveries |-> IF e \in Ran[c] THEN "finished" ELSE Became[e]]
  BY <1>6, <1>7, <1>9 DEF Became
<1>11. Serial!Finish(c)
  BY <1>2, <1>8, <1>9, <1>10 DEF Serial!Finish, Became, Ran, Runs
<1> QED BY <1>1, <1>11

(* Every step of the queue is a step of SerialTurns or leaves it alone.    *)
LEMMA SerialStep ==
    ASSUME Fates, Fates', QueueInv, CallInv, Serialised, [Next]_vars
    PROVE  Serial!Next \/ UNCHANGED Serial!vars
<1>1. CASE UNCHANGED vars
  BY <1>1, SerialStutters DEF vars, conversationVars, callVars
<1>2. ASSUME NEW d \in Deliveries, Submit(d)
      PROVE  Serial!Next
  <2>1. CASE Ignore(d) \/ SkipDuplicate(d) \/ Refuse(d) \/ SpawnFails(d)
    <3>1. /\ d \notin submitted /\ submitted' = submitted \cup {d}
          /\ dropped' = [dropped EXCEPT ![d] = None]
          /\ UNCHANGED <<pending, processPc>>
      BY <2>1 DEF Ignore, SkipDuplicate, Refuse, SpawnFails, Fresh, Considered, Return,
                  conversationVars
    <3>2. Serial!Decline(d)
      BY <3>1, SerialDeclines
    <3> QED BY <3>2 DEF Serial!Next
  <2>2. CASE Accept(d)
    BY <2>2, SerialAccepts DEF Serial!Next
  <2> QED BY <1>2, <2>1, <2>2 DEF Submit
<1>3. ASSUME NEW d \in Deliveries, CleanUp(d)
      PROVE  UNCHANGED Serial!vars
  <2>1. UNCHANGED <<pending, processPc, submitted, dropped>>
    BY <1>3 DEF CleanUp, ReleaseDropped, TellDropped, TellRejected, ReleaseOwn, Discharge,
                conversationVars
  <2> QED BY <2>1, SerialStutters
<1>4. ASSUME NEW d \in Deliveries, ProcessStep(d)
      PROVE  Serial!Next \/ UNCHANGED Serial!vars
  <2>1. CASE FinishProcessor(d)
    <3>1. /\ UNCHANGED <<pending, submitted, dropped>>
          /\ processPc[d] = "running"
          /\ processPc' = [processPc EXCEPT ![d] = "releasing"]
          /\ processPc \in [Deliveries -> {"none", "running", "releasing", "done"}]
      BY <2>1 DEF FinishProcessor, conversationVars, callVars, QueueInv, QueueTypeOK
    <3>2. \A e \in Deliveries : \/ processPc'[e] = processPc[e]
                                \/ Processing(e) /\ Processing(e)'
      BY <3>1 DEF Processing
    <3> QED BY <3>1, <3>2, SerialStutters
  <2>2. CASE ReleaseProcessed(d)
    <3>1. Serial!Finish(ConversationOf[d]) /\ ConversationOf[d] \in Conversations
      BY <2>2, SerialFinishes, QueueAssumption
    <3> QED BY <3>1 DEF Serial!Next
  <2> QED BY <1>4, <2>1, <2>2 DEF ProcessStep
<1>5. ASSUME NEW w \in Workers, TakeTurn(w)
      PROVE  Serial!Next
  <2>1. \E c \in Conversations : Serial!Start(c)
    BY <1>5, SerialStarts
  <2> QED BY <2>1 DEF Serial!Next
<1>6. ASSUME NEW w \in Workers, GoIdle(w) \/ TimeOut(w) \/ Retire(w)
      PROVE  UNCHANGED Serial!vars
  <2>1. UNCHANGED <<pending, processPc, submitted, dropped>>
    BY <1>6 DEF GoIdle, TimeOut, Retire, conversationVars, callVars
  <2> QED BY <2>1, SerialStutters
<1>7. CASE DedupeAges \/ \E g \in Groups : ContextAges(g)
  <2>1. UNCHANGED <<pending, processPc, submitted, dropped>>
    BY <1>7 DEF DedupeAges, ContextAges, conversationVars, callVars
  <2> QED BY <2>1, SerialStutters
<1> QED BY <1>1, <1>2, <1>3, <1>4, <1>5, <1>6, <1>7 DEF Next, WorkerStep

(* The queue implements the safety of SerialTurns: turns of a conversation *)
(* run one at a time and oldest first, and a full queue gives up the       *)
(* oldest turn that may be given up, whatever workers, caches and calls do.*)
THEOREM QueueRefinesSerialTurns == Spec => Serial!Init /\ [][Serial!Next]_(Serial!vars)
<1>1. QueueInv => Serialised
  BY SerialisedHolds
<1>2. QueueInv /\ CallInv => Fates
  BY FatesAreKnown
<1>3. /\ QueueInv /\ CallInv /\ Fates /\ Serialised /\ Fates' /\ [Next]_vars
      => [Serial!Next]_(Serial!vars)
  BY SerialStep
<1>4. Spec => [](QueueInv /\ CallInv)
  BY CallInvariance
<1> QED BY <1>1, <1>2, <1>3, <1>4, SerialStart, PTL DEF Spec

-----------------------------------------------------------------------------
(* The types of the rest: the caches, the records and the groups' logs.    *)

Entries == [id : Keys, message : MessageIds]

CachesTyped ==
    /\ dedupe \in Seq(Keys) /\ Len(dedupe) <= DedupeSize + 1
    /\ handled \in Seq(Keys) /\ Len(handled) <= HandledSize

LogsTyped ==
    /\ context \in [Groups -> [unread : Seq(Entries), recent : Seq(Entries)]]
    /\ recordId \in [Deliveries -> Keys \cup {None}]
    /\ accepted \in Seq(Deliveries)

(* A part of a sequence is a sequence, and no longer.                      *)
LEMMA PartFacts ==
    ASSUME NEW S, NEW s \in Seq(S), NEW m \in Nat, m >= 1, NEW n \in Nat, n <= Len(s)
    PROVE  /\ SubSeq(s, m, n) \in Seq(S)
           /\ Len(SubSeq(s, m, n)) = IF m <= n THEN n - m + 1 ELSE 0
<1>1. \A i \in m..n : s[i] \in S
  OBVIOUS
<1> QED BY <1>1, SubSeqProperties

(* What is left of a sequence that is cut to a size.                       *)
LEMMA NewestFacts ==
    ASSUME NEW S, NEW s \in Seq(S), NEW size \in Nat
    PROVE  Newest(s, size) \in Seq(S) /\ Len(Newest(s, size)) <= size
<1>1. Len(s) \in Nat
  OBVIOUS
<1>2. CASE Len(s) > size
  <2>0. PICK len \in Nat : len = Len(s)
    BY <1>1
  <2>1. PICK m \in Nat : m = Len(s) - size + 1 /\ m >= 1
    <3>1. len - size + 1 \in Nat /\ len - size + 1 >= 1
      BY <1>2, <2>0
    <3> QED BY <2>0, <3>1
  <2>2. Newest(s, size) = SubSeq(s, m, Len(s))
    BY <1>2, <2>1 DEF Newest
  <2>3. /\ SubSeq(s, m, Len(s)) \in Seq(S)
        /\ Len(SubSeq(s, m, Len(s))) = IF m <= Len(s) THEN Len(s) - m + 1 ELSE 0
    BY <1>1, <2>1, PartFacts
  <2> QED BY <1>1, <2>1, <2>2, <2>3
<1>3. CASE ~(Len(s) > size)
  BY <1>1, <1>3 DEF Newest
<1> QED BY <1>2, <1>3

(* The caches keep within their sizes whatever key they are given.         *)
LEMMA KeysRemembered ==
    ASSUME CachesTyped, NEW k \in Keys
    PROVE  /\ RememberKey(k) \in Seq(Keys) /\ Len(RememberKey(k)) <= DedupeSize + 1
           /\ MarkHandled(k) \in Seq(Keys) /\ Len(MarkHandled(k)) <= HandledSize
<1> USE QueueAssumption DEF CachesTyped
<1>1. PICK r \in Seq(Keys) : r = Remembered /\ Len(r) <= DedupeSize
  BY NewestFacts DEF Remembered
<1>2. Append(r, k) \in Seq(Keys) /\ Len(Append(r, k)) = Len(r) + 1 /\ Len(r) \in Nat
  BY AppendProperties
<1>3. RememberKey(k) = r \/ RememberKey(k) = Append(r, k)
  BY <1>1 DEF RememberKey
<1>4. Append(handled, k) \in Seq(Keys)
  BY AppendProperties
<1>5. PICK h \in Seq(Keys) : h = Newest(Append(handled, k), HandledSize) /\ Len(h) <= HandledSize
  BY <1>4, NewestFacts
<1>6. MarkHandled(k) = handled \/ MarkHandled(k) = h
  BY <1>5 DEF MarkHandled
<1>7. RememberKey(k) \in Seq(Keys) /\ Len(RememberKey(k)) <= DedupeSize + 1
  <2>1. DedupeSize \in Nat /\ Len(r) <= DedupeSize + 1 /\ Len(r) + 1 <= DedupeSize + 1
    BY <1>1, <1>2
  <2>2. CASE RememberKey(k) = r
    BY <2>1, <2>2
  <2>3. CASE RememberKey(k) = Append(r, k)
    BY <1>2, <2>1, <2>3
  <2> QED BY <1>3, <2>2, <2>3
<1>8. MarkHandled(k) \in Seq(Keys) /\ Len(MarkHandled(k)) <= HandledSize
  BY <1>5, <1>6
<1> QED BY <1>7, <1>8

(* The first of a set of positions is one of them.                         *)
LEMMA FirstIsIn ==
    ASSUME NEW S \in SUBSET Nat, S # {}
    PROVE  Log!First(S) \in S
<1>1. \E i \in S : \A j \in S : i <= j
  BY FirstPosition
<1>2. Log!First(S) = CHOOSE i \in S : \A j \in S : i <= j
  BY DEF Log!First
<1> QED BY <1>1, <1>2, Zenon

(* Every operation on a group's log yields a log.                          *)
LEMMA LastRecordsTyped ==
    ASSUME NEW s \in Seq(Entries)
    PROVE  Log!LastRecords(s) \in Seq(Entries)
<1>1. Log!LastRecords(s) = Newest(s, HistoryLimit)
  BY DEF Log!LastRecords, Newest
<1> QED BY <1>1, NewestFacts, QueueAssumption

(* Removing a record from a log leaves records.                            *)
LEMMA DropIdTyped ==
    ASSUME NEW s \in Seq(Entries), NEW id
    PROVE  Log!DropId(s, id) \in Seq(Entries)
<1>1. CASE Log!OfId(s, id) = {}
  BY <1>1 DEF Log!DropId
<1>2. CASE Log!OfId(s, id) # {}
  <2>1. Log!OfId(s, id) \subseteq 1..Len(s) /\ Log!OfId(s, id) \in SUBSET Nat
    BY DEF Log!OfId
  <2>2. PICK i \in 1..Len(s) : i = Log!First(Log!OfId(s, id))
    BY <1>2, <2>1, FirstIsIn
  <2>3. Log!DropId(s, id) = SubSeq(s, 1, i - 1) \o SubSeq(s, i + 1, Len(s))
    BY <1>2, <2>2 DEF Log!DropId
  <2>4. i - 1 \in Nat /\ i + 1 \in Nat /\ Len(s) \in Nat /\ i - 1 <= Len(s) /\ i + 1 >= 1
    OBVIOUS
  <2>5. SubSeq(s, 1, i - 1) \in Seq(Entries) /\ SubSeq(s, i + 1, Len(s)) \in Seq(Entries)
    BY <2>4, PartFacts
  <2> QED BY <2>3, <2>5, ConcatProperties
<1> QED BY <1>1, <1>2

LogType == [unread : Seq(Entries), recent : Seq(Entries)]

(* Recording, removing and consuming yield logs; so does expiry, below.    *)
LEMMA LogOperations ==
    ASSUME NEW log \in LogType, NEW entry \in Entries
    PROVE  /\ Log!Recorded(log, entry) \in LogType
           /\ Log!RecordedId(log, entry) \in Keys
           /\ \A id : Log!Removed(log, id) \in LogType /\ Log!Consumed(log, id) \in LogType
<1>1. log.unread \in Seq(Entries) /\ log.recent \in Seq(Entries)
  BY DEF LogType
<1>2. Log!Recorded(log, entry) \in LogType
  <2>1. /\ Log!LastRecords(Append(log.unread, entry)) \in Seq(Entries)
        /\ Log!LastRecords(Append(log.recent, entry)) \in Seq(Entries)
    BY <1>1, LastRecordsTyped, AppendProperties
  <2> QED BY <2>1 DEF Log!Recorded, LogType
<1>3. Log!RecordedId(log, entry) \in Keys
  <2>1. CASE Log!Known(log, entry.message) = {}
    BY <2>1 DEF Log!RecordedId, Entries
  <2>2. CASE Log!Known(log, entry.message) # {}
    <3>1. /\ Log!Known(log, entry.message) \subseteq 1..Len(log.recent)
          /\ Log!Known(log, entry.message) \in SUBSET Nat
      BY <1>1 DEF Log!Known
    <3>2. PICK i \in 1..Len(log.recent) : i = Log!First(Log!Known(log, entry.message))
      BY <2>2, <3>1, FirstIsIn
    <3>3. Log!RecordedId(log, entry) = log.recent[i].id
      BY <2>2, <3>2 DEF Log!RecordedId
    <3>4. log.recent[i] \in Entries
      BY <1>1
    <3> QED BY <3>3, <3>4 DEF Entries
  <2> QED BY <2>1, <2>2
<1>4. ASSUME NEW id PROVE Log!Removed(log, id) \in LogType
  BY <1>1, DropIdTyped DEF Log!Removed, LogType
<1>5. ASSUME NEW id PROVE Log!Consumed(log, id) \in LogType
  <2>1. CASE Log!OfId(log.unread, id) = {}
    BY <2>1 DEF Log!Consumed
  <2>2. CASE Log!OfId(log.unread, id) # {}
    <3>1. /\ Log!OfId(log.unread, id) \subseteq 1..Len(log.unread)
          /\ Log!OfId(log.unread, id) \in SUBSET Nat
      BY <1>1 DEF Log!OfId
    <3>2. PICK i \in 1..Len(log.unread) : i = Log!First(Log!OfId(log.unread, id))
      BY <2>2, <3>1, FirstIsIn
    <3>3. i + 1 \in Nat /\ i + 1 >= 1 /\ Len(log.unread) \in Nat
      BY <1>1
    <3>4. SubSeq(log.unread, i + 1, Len(log.unread)) \in Seq(Entries)
      BY <1>1, <3>3, PartFacts
    <3>5. Log!Consumed(log, id)
            = [log EXCEPT !.unread = SubSeq(log.unread, i + 1, Len(log.unread))]
      BY <2>2, <3>2 DEF Log!Consumed
    <3> QED BY <3>4, <3>5 DEF LogType
  <2> QED BY <2>1, <2>2
<1> QED BY <1>2, <1>3, <1>4, <1>5

(* The oldest record of a log that has one can expire.                     *)
LEMMA ExpiredTyped ==
    ASSUME NEW log \in LogType, log.recent # <<>>
    PROVE  Log!Expired(log) \in LogType
<1>1. log.unread \in Seq(Entries) /\ log.recent \in Seq(Entries)
  BY DEF LogType
<1>2. Tail(log.recent) \in Seq(Entries)
  BY <1>1, HeadTailProperties
<1>3. log.unread # <<>> => Tail(log.unread) \in Seq(Entries)
  BY <1>1, HeadTailProperties
<1> QED BY <1>1, <1>2, <1>3 DEF Log!Expired, LogType

(* What a submit does with the logs keeps them logs.                       *)
LEMMA LogSteps ==
    ASSUME LogsTyped, NEW d \in Deliveries
    PROVE  /\ ContextWith(d) \in [Groups -> LogType]
           /\ RecordIdFor(d) \in Keys \cup {None}
           /\ \A ctx \in [Groups -> LogType] : \A e \in Deliveries : \A id :
                 ContextWithout(ctx, e, id) \in [Groups -> LogType]
<1> USE QueueAssumption
<1>1. context \in [Groups -> LogType]
  BY DEF LogsTyped, LogType
<1>2. \A e \in Deliveries : GroupOf[ConversationOf[e]] \in Groups \cup {None}
  OBVIOUS
<1>3. Entry(d) \in Entries
  BY DEF Entry, Entries
<1>4. PICK g \in Groups \cup {None} : g = GroupOf[ConversationOf[d]]
  BY <1>2
<1>5. g # None => /\ context[g] \in LogType
                  /\ Log!Recorded(context[g], Entry(d)) \in LogType
                  /\ Log!RecordedId(context[g], Entry(d)) \in Keys
  BY <1>1, <1>3, LogOperations
<1>6. ContextWith(d) \in [Groups -> LogType]
  BY <1>1, <1>4, <1>5 DEF ContextWith
<1>7. RecordIdFor(d) \in Keys \cup {None}
  BY <1>4, <1>5 DEF RecordIdFor
<1>8. ASSUME NEW ctx \in [Groups -> LogType], NEW e \in Deliveries, NEW id
      PROVE  ContextWithout(ctx, e, id) \in [Groups -> LogType]
  <2>1. PICK h \in Groups \cup {None} : h = GroupOf[ConversationOf[e]]
    BY <1>2
  <2>2. h # None => Log!Removed(ctx[h], id) \in LogType
    BY <1>3, LogOperations
  <2> QED BY <2>1, <2>2 DEF ContextWithout
<1> QED BY <1>6, <1>7, <1>8

RestTyped == CachesTyped /\ LogsTyped

(* The caches and logs start empty.                                        *)
LEMMA RestStart == Init => RestTyped
<1> SUFFICES ASSUME Init PROVE RestTyped
  OBVIOUS
<1> USE QueueAssumption
<1>1. CachesTyped
  BY DEF Init, CachesTyped
<1>2. Log!EmptyLog \in LogType
  BY DEF Log!EmptyLog, LogType
<1>3. LogsTyped
  BY <1>2 DEF Init, LogsTyped, LogType
<1> QED BY <1>1, <1>3 DEF RestTyped

(* What the caches and the logs do in one step.                            *)
CacheStep ==
    /\ \/ dedupe' = dedupe
       \/ \E k \in Keys : dedupe' = RememberKey(k)
       \/ dedupe # <<>> /\ dedupe' = Tail(dedupe)
    /\ \/ handled' = handled
       \/ \E k \in Keys : handled' = MarkHandled(k)

LogStep ==
    /\ context' \in [Groups -> LogType]
    /\ recordId' \in [Deliveries -> Keys \cup {None}]
    /\ accepted' \in Seq(Deliveries)

(* A step of the caches keeps their types and sizes.                       *)
LEMMA CacheStepTyped ==
    ASSUME CachesTyped, CacheStep
    PROVE  CachesTyped'
<1>1. dedupe' \in Seq(Keys) /\ Len(dedupe') <= DedupeSize + 1
  <2>1. CASE dedupe' = dedupe
    BY <2>1 DEF CachesTyped
  <2>2. CASE \E k \in Keys : dedupe' = RememberKey(k)
    BY <2>2, KeysRemembered
  <2>3. CASE dedupe # <<>> /\ dedupe' = Tail(dedupe)
    <3>1. PICK n \in Nat : n = Len(dedupe) /\ n <= DedupeSize + 1
      BY DEF CachesTyped
    <3>2. Tail(dedupe) \in Seq(Keys) /\ Len(Tail(dedupe)) = n - 1
      BY <2>3, <3>1, HeadTailProperties DEF CachesTyped
    <3> QED BY <2>3, <3>1, <3>2, QueueAssumption
  <2> QED BY <2>1, <2>2, <2>3 DEF CacheStep
<1>2. handled' \in Seq(Keys) /\ Len(handled') <= HandledSize
  BY KeysRemembered DEF CacheStep, CachesTyped
<1> QED BY <1>1, <1>2 DEF CachesTyped

(* submit remembers a key at most, and records or rolls back its message.  *)
LEMMA SubmitTyped ==
    ASSUME RestTyped, QueueInv, NEW d \in Deliveries, Submit(d)
    PROVE  CacheStep /\ LogStep
<1> USE QueueAssumption
<1>1. KeyOf[d] \in Keys /\ LogsTyped /\ context \in [Groups -> LogType]
  BY DEF RestTyped, LogsTyped, LogType
<1>2. CASE Ignore(d) \/ SkipDuplicate(d) \/ Refuse(d)
  <2>1. CacheStep
    BY <1>1, <1>2 DEF Ignore, SkipDuplicate, Refuse, cacheVars, CacheStep
  <2>2. UNCHANGED <<context, recordId, accepted>>
    BY <1>2 DEF Ignore, SkipDuplicate, Refuse
  <2> QED BY <1>1, <2>1, <2>2 DEF LogStep, LogsTyped
<1>3. CASE Accept(d)
  <2>1. CacheStep
    BY <1>1, <1>3 DEF Accept, CacheStep
  <2>2. PICK drop : drop = Victim(ConversationOf[d])
    OBVIOUS
  <2>3. /\ recordId' = [e \in Deliveries |-> IF e = d THEN RecordIdFor(d)
                                            ELSE IF e = drop THEN None ELSE recordId[e]]
        /\ accepted' = Append(accepted, d)
        /\ context' = IF drop = None THEN ContextWith(d)
                      ELSE ContextWithout(ContextWith(d), drop, recordId[drop])
    BY <1>3, <2>2 DEF Accept
  <2>4. drop = None \/ drop \in Deliveries
    BY <1>3, <2>2, AcceptedWaits
  <2>5. ContextWith(d) \in [Groups -> LogType] /\ RecordIdFor(d) \in Keys \cup {None}
    BY <1>1, LogSteps
  <2>6. context' \in [Groups -> LogType]
    BY <1>1, <2>3, <2>4, <2>5, LogSteps
  <2>7. recordId' \in [Deliveries -> Keys \cup {None}]
    BY <1>1, <2>3, <2>5 DEF LogsTyped
  <2>8. accepted' \in Seq(Deliveries)
    BY <1>1, <2>3, AppendProperties DEF LogsTyped
  <2> QED BY <2>1, <2>6, <2>7, <2>8 DEF LogStep
<1>4. CASE SpawnFails(d)
  <2>1. CacheStep
    BY <1>1, <1>4 DEF SpawnFails, CacheStep
  <2>2. /\ context' = ContextWithout(ContextWith(d), d, RecordIdFor(d))
        /\ UNCHANGED <<recordId, accepted>>
    BY <1>4 DEF SpawnFails
  <2>3. ContextWith(d) \in [Groups -> LogType]
    BY <1>1, LogSteps
  <2>4. context' \in [Groups -> LogType]
    BY <1>1, <2>2, <2>3, LogSteps
  <2> QED BY <1>1, <2>1, <2>2, <2>4 DEF LogStep, LogsTyped
<1> QED BY <1>2, <1>3, <1>4 DEF Submit

(* The finally clause marks messages as handled and touches no log.        *)
LEMMA CleanUpTyped ==
    ASSUME CallInv, NEW d \in Deliveries, CleanUp(d)
    PROVE  CacheStep /\ UNCHANGED <<context, recordId, accepted>>
<1>1. UNCHANGED <<dedupe, context, recordId, accepted>>
  BY DEF CleanUp, ReleaseDropped, TellDropped, TellRejected, ReleaseOwn, Discharge
<1>2. handled' = handled \/ \E k \in Keys : handled' = MarkHandled(k)
  <2>1. CASE ReleaseDropped(d) \/ ReleaseOwn(d)
    BY <2>1 DEF ReleaseDropped, ReleaseOwn
  <2>2. CASE TellRejected(d)
    <3>1. handled' = MarkHandled(KeyOf[d]) /\ KeyOf[d] \in Keys
      BY <2>2, QueueAssumption DEF TellRejected, Tell
    <3> QED BY <3>1
  <2>3. CASE TellDropped(d)
    <3>1. duties[d] # <<>> /\ Head(duties[d]) = "tellDropped"
          /\ handled' = MarkHandled(KeyOf[dropped[d]])
      BY <2>3 DEF TellDropped, Tell, Discharge
    <3>2. dropped[d] \in Deliveries
      BY <3>1, DutyOwner
    <3>3. KeyOf[dropped[d]] \in Keys
      BY <3>2, QueueAssumption
    <3> QED BY <3>1, <3>3
  <2> QED BY <2>1, <2>2, <2>3 DEF CleanUp
<1> QED BY <1>1, <1>2 DEF CacheStep

(* What a step of the queue may do to its caches and logs.                 *)
LEMMA StepOfTheRest ==
    ASSUME QueueInv, CallInv, RestTyped, [Next]_vars
    PROVE  CacheStep /\ LogStep
<1> USE QueueAssumption
<1>0. /\ CachesTyped /\ LogsTyped /\ context \in [Groups -> LogType]
      /\ recordId \in [Deliveries -> Keys \cup {None}]
      /\ accepted \in Seq(Deliveries)
  BY DEF RestTyped, LogsTyped, LogType
<1>1. CacheStep /\ LogStep
  <2>1. CASE UNCHANGED vars
    BY <1>0, <2>1 DEF vars, cacheVars, callVars, CacheStep, LogStep
  <2>2. ASSUME NEW d \in Deliveries, Submit(d)
        PROVE  CacheStep /\ LogStep
    BY <2>2, SubmitTyped
  <2>3. ASSUME NEW d \in Deliveries, CleanUp(d)
        PROVE  CacheStep /\ LogStep
    BY <1>0, <2>3, CleanUpTyped DEF LogStep
  <2>4. ASSUME NEW d \in Deliveries, ProcessStep(d)
        PROVE  CacheStep /\ LogStep
    <3>1. UNCHANGED <<dedupe, handled, recordId, accepted>>
      BY <2>4 DEF ProcessStep, FinishProcessor, ReleaseProcessed, cacheVars, callVars
    <3>2. context' \in [Groups -> LogType]
      <4>1. CASE UNCHANGED context
        BY <1>0, <4>1
      <4>2. CASE ~UNCHANGED context
        <5>1. PICK g : /\ g = GroupOf[ConversationOf[d]] /\ g # None
                       /\ context' = [context EXCEPT ![g] = Log!Consumed(@, recordId[d])]
          BY <2>4, <4>2 DEF ProcessStep, FinishProcessor, ReleaseProcessed
        <5>2. g \in Groups
          BY <5>1
        <5>3. Entry(d) \in Entries
          BY DEF Entry, Entries
        <5>4. Log!Consumed(context[g], recordId[d]) \in LogType
          BY <1>0, <5>2, <5>3, LogOperations
        <5> QED BY <1>0, <5>1, <5>2, <5>4
      <4> QED BY <4>1, <4>2
    <3> QED BY <1>0, <3>1, <3>2 DEF CacheStep, LogStep
  <2>5. ASSUME NEW w \in Workers, WorkerStep(w) \/ TimeOut(w) \/ Retire(w)
        PROVE  CacheStep /\ LogStep
    BY <1>0, <2>5
       DEF WorkerStep, TakeTurn, GoIdle, TimeOut, Retire, cacheVars, callVars, CacheStep, LogStep
  <2>6. CASE DedupeAges
    BY <1>0, <2>6 DEF DedupeAges, callVars, CacheStep, LogStep
  <2>7. ASSUME NEW g \in Groups, ContextAges(g)
        PROVE  CacheStep /\ LogStep
    <3>1. /\ context[g].recent # <<>>
          /\ context' = [context EXCEPT ![g] = Log!Expired(@)]
          /\ UNCHANGED <<dedupe, handled, recordId, accepted>>
      BY <2>7 DEF ContextAges, cacheVars, callVars
    <3>2. Log!Expired(context[g]) \in LogType
      <4>1. context[g] \in LogType
        BY <1>0
      <4> QED BY <3>1, <4>1, ExpiredTyped
    <3> QED BY <1>0, <3>1, <3>2 DEF CacheStep, LogStep
  <2> QED BY <2>1, <2>2, <2>3, <2>4, <2>5, <2>6, <2>7 DEF Next
<1> QED BY <1>1

(* Every step of the queue keeps the types of its caches and logs.         *)
LEMMA RestStep ==
    ASSUME QueueInv, CallInv, RestTyped, [Next]_vars
    PROVE  RestTyped'
<1>1. CacheStep /\ LogStep
  BY StepOfTheRest
<1>2. CachesTyped'
  BY <1>1, CacheStepTyped DEF RestTyped
<1>3. LogsTyped'
  BY <1>1 DEF LogStep, LogsTyped, LogType
<1> QED BY <1>2, <1>3 DEF RestTyped

(* Every variable keeps its type; the queues and the caches keep within    *)
(* their sizes.                                                            *)
THEOREM AllTypes == Spec => []TypeOK
<1>1. Init => RestTyped
  BY RestStart
<1>2. QueueInv /\ CallInv /\ RestTyped /\ [Next]_vars => RestTyped'
  BY RestStep
<1>3. QueueInv /\ CallInv /\ RestTyped => TypeOK
  <2> SUFFICES ASSUME QueueInv, CallInv, RestTyped PROVE TypeOK
    OBVIOUS
  <2>1. QueueTypeOK
    BY DEF QueueInv
  <2>2. CallTypeOK
    BY DEF CallInv, CallTyped, RestTyped, CachesTyped, LogsTyped, CallTypeOK
  <2>3. context \in [Groups -> Log!Logs(Keys, MessageIds)]
    BY DEF RestTyped, LogsTyped, Log!Logs, Entries
  <2> QED BY <2>1, <2>2, <2>3 DEF TypeOK
<1> QED BY <1>1, <1>2, <1>3, CallInvariance, PTL DEF Spec
-----------------------------------------------------------------------------
(* The groups' logs: what is left of a log is in its order, and what is    *)
(* unread is the end of what is recent.                                    *)

(* t is what is left of s without its first k records.                     *)
Cut(t, s, k) ==
    /\ Len(s) = k + Len(t)
    /\ \A i \in 1..Len(t) : t[i] = s[k + i]

(* What is in t is in s, and in the same order.                            *)
Keeps(t, s) ==
    /\ \A i \in 1..Len(t) : \E k \in 1..Len(s) : t[i] = s[k]
    /\ \A i, j \in 1..Len(t) : i < j =>
          \E k, l \in 1..Len(s) : k < l /\ t[i] = s[k] /\ t[j] = s[l]

(* No message and no id is recorded twice.                                 *)
OnceEach(s) ==
    \A i, j \in 1..Len(s) : i < j =>
        s[i].id # s[j].id /\ s[i].message # s[j].message

GoodLog(log) ==
    /\ OnceEach(log.recent)
    /\ \E k \in Nat : Cut(log.unread, log.recent, k)

(* A sequence keeps itself, and a part of a part is a part.                *)
LEMMA KeepsAll ==
    ASSUME NEW S, NEW s \in Seq(S)
    PROVE  Keeps(s, s)
BY DEF Keeps

(* Keeping is transitive.                                                  *)
LEMMA KeepsKept ==
    ASSUME NEW S, NEW r \in Seq(S), NEW s \in Seq(S), NEW t \in Seq(S),
           Keeps(t, s), Keeps(s, r)
    PROVE  Keeps(t, r)
<1>1. \A i \in 1..Len(t) : \E k \in 1..Len(r) : t[i] = r[k]
  BY DEF Keeps
<1>2. ASSUME NEW i \in 1..Len(t), NEW j \in 1..Len(t), i < j
      PROVE  \E k, l \in 1..Len(r) : k < l /\ t[i] = r[k] /\ t[j] = r[l]
  <2>1. PICK k \in 1..Len(s), l \in 1..Len(s) : k < l /\ t[i] = s[k] /\ t[j] = s[l]
    BY <1>2 DEF Keeps
  <2>2. PICK x \in 1..Len(r), y \in 1..Len(r) : x < y /\ s[k] = r[x] /\ s[l] = r[y]
    BY <2>1 DEF Keeps
  <2> QED BY <2>1, <2>2
<1> QED BY <1>1, <1>2 DEF Keeps

(* What is left of a sequence that starts later.                           *)
LEMMA CutKeeps ==
    ASSUME NEW S, NEW s \in Seq(S), NEW t \in Seq(S), NEW k \in Nat, Cut(t, s, k)
    PROVE  Keeps(t, s)
<1>1. Len(s) \in Nat /\ Len(t) \in Nat /\ Len(s) = k + Len(t)
  BY DEF Cut
<1>2. \A i \in 1..Len(t) : k + i \in 1..Len(s) /\ t[i] = s[k + i]
  BY <1>1 DEF Cut
<1>3. \A i, j \in 1..Len(t) : i < j => k + i < k + j
  BY <1>1
<1> QED BY <1>2, <1>3 DEF Keeps

(* The records of a log that keeps others are as different as those.       *)
LEMMA KeepsOnce ==
    ASSUME NEW S, NEW s \in Seq(S), NEW t \in Seq(S), Keeps(t, s), OnceEach(s)
    PROVE  OnceEach(t)
<1>1. ASSUME NEW i \in 1..Len(t), NEW j \in 1..Len(t), i < j
      PROVE  t[i].id # t[j].id /\ t[i].message # t[j].message
  <2>1. PICK k \in 1..Len(s), l \in 1..Len(s) : k < l /\ t[i] = s[k] /\ t[j] = s[l]
    BY <1>1 DEF Keeps
  <2> QED BY <2>1 DEF OnceEach
<1> QED BY <1>1 DEF OnceEach

(* Records at different places have different ids and messages.            *)
LEMMA OncePlaces ==
    ASSUME NEW S, NEW s \in Seq(S), OnceEach(s),
           NEW i \in 1..Len(s), NEW j \in 1..Len(s),
           s[i].id = s[j].id \/ s[i].message = s[j].message
    PROVE  i = j
<1>1. ~(i < j) /\ ~(j < i)
  BY DEF OnceEach
<1> QED BY <1>1

(* The newest records are a cut, at the limit when anything was cut off.   *)
LEMMA LastRecordsFacts ==
    ASSUME NEW s \in Seq(Entries)
    PROVE  \E t \in Seq(Entries), k \in Nat :
              /\ Log!LastRecords(s) = t /\ Cut(t, s, k)
              /\ Len(t) <= HistoryLimit
              /\ k # 0 => Len(t) = HistoryLimit
<1>1. Len(s) \in Nat /\ HistoryLimit \in Nat /\ HistoryLimit >= 1
  BY QueueAssumption
<1>2. CASE Len(s) > HistoryLimit
  <2>1. PICK len \in Nat : len = Len(s)
    BY <1>1
  <2>2. PICK k \in Nat : k = len - HistoryLimit
    <3>1. len - HistoryLimit \in Nat
      BY <1>1, <1>2, <2>1
    <3> QED BY <3>1
  <2>3. PICK t : t = SubSeq(s, k + 1, len)
    OBVIOUS
  <2>4. Log!LastRecords(s) = t
    BY <1>2, <2>1, <2>2, <2>3 DEF Log!LastRecords
  <2>5. \A i \in (k + 1)..len : s[i] \in Entries
    BY <2>1
  <2>6. k + 1 \in Nat /\ k + 1 <= len /\ len - (k + 1) + 1 = HistoryLimit
    BY <1>1, <1>2, <2>1, <2>2
  <2>7. /\ t \in Seq(Entries) /\ Len(t) = HistoryLimit
        /\ \A i \in 1..HistoryLimit : t[i] = s[(k + 1) + i - 1]
    BY <2>3, <2>5, <2>6, SubSeqProperties
  <2>8. \A i \in 1..Len(t) : t[i] = s[k + i]
    <3>1. \A i \in 1..HistoryLimit : (k + 1) + i - 1 = k + i
      BY <1>1
    <3> QED BY <2>7, <3>1
  <2>9. Len(s) = k + Len(t)
    BY <1>1, <2>1, <2>2, <2>7
  <2> QED BY <1>1, <2>4, <2>7, <2>8, <2>9 DEF Cut
<1>3. CASE ~(Len(s) > HistoryLimit)
  <2>1. Log!LastRecords(s) = s
    BY <1>3 DEF Log!LastRecords
  <2>2. Cut(s, s, 0) /\ Len(s) <= HistoryLimit
    BY <1>1, <1>3 DEF Cut
  <2> QED BY <1>1, <2>1, <2>2
<1> QED BY <1>2, <1>3

(* t is s without its record p.                                            *)
Without(t, s, p) ==
    /\ Len(t) = Len(s) - 1
    /\ \A j \in 1..Len(t) : t[j] = IF j < p THEN s[j] ELSE s[j + 1]

(* A removal takes the record of that id out, if there is one.             *)
LEMMA DropIdFacts ==
    ASSUME NEW s \in Seq(Entries), NEW id, OnceEach(s)
    PROVE  \/ /\ \A i \in 1..Len(s) : s[i].id # id
              /\ Log!DropId(s, id) = s
           \/ \E p \in 1..Len(s) :
                 s[p].id = id /\ Without(Log!DropId(s, id), s, p)
<1>1. CASE Log!OfId(s, id) = {}
  BY <1>1 DEF Log!DropId, Log!OfId
<1>2. CASE Log!OfId(s, id) # {}
  <2>1. Log!OfId(s, id) \subseteq 1..Len(s) /\ Log!OfId(s, id) \in SUBSET Nat
    BY DEF Log!OfId
  <2>2. PICK p \in Log!OfId(s, id) : p = Log!First(Log!OfId(s, id))
    BY <1>2, <2>1, FirstIsIn
  <2>3. p \in 1..Len(s) /\ s[p].id = id
    BY <2>2 DEF Log!OfId
  <2>4. Log!DropId(s, id) = DropAt(s, p)
    BY <1>2, <2>2 DEF Log!DropId, DropAt
  <2>5. Without(Log!DropId(s, id), s, p)
    <3>1. /\ Len(DropAt(s, p)) = Len(s) - 1
          /\ \A j \in 1..(Len(s) - 1) :
                DropAt(s, p)[j] = IF j < p THEN s[j] ELSE s[j + 1]
      BY <2>3, DropAtFacts
    <3> QED BY <2>4, <3>1 DEF Without
  <2> QED BY <2>3, <2>5
<1> QED BY <1>1, <1>2

(* Taking one record out keeps the others.                                 *)
LEMMA WithoutKeeps ==
    ASSUME NEW S, NEW s \in Seq(S), NEW t \in Seq(S), NEW p \in 1..Len(s),
           Without(t, s, p)
    PROVE  Keeps(t, s)
<1>1. Len(s) \in Nat /\ Len(t) = Len(s) - 1 /\ Len(t) \in Nat /\ p \in Nat
  BY DEF Without
<1> DEFINE at(j) == IF j < p THEN j ELSE j + 1
<1>2. ASSUME NEW j \in 1..Len(t)
      PROVE  at(j) \in 1..Len(s) /\ at(j) # p /\ t[j] = s[at(j)]
  <2>1. j \in Nat /\ j >= 1 /\ j <= Len(t)
    BY <1>1
  <2>2. t[j] = IF j < p THEN s[j] ELSE s[j + 1]
    BY DEF Without
  <2> QED BY <1>1, <2>1, <2>2
<1>3. \A i, j \in 1..Len(t) : i < j => at(i) < at(j)
  BY <1>1
<1> HIDE DEF at
<1> QED BY <1>2, <1>3 DEF Keeps

(* What is left was somewhere else.                                        *)
LEMMA WithoutLeaves ==
    ASSUME NEW S, NEW s \in Seq(S), NEW t \in Seq(S), NEW p \in 1..Len(s),
           Without(t, s, p), NEW j \in 1..Len(t)
    PROVE  \E k \in 1..Len(s) : k # p /\ t[j] = s[k]
<1>1. Len(s) \in Nat /\ Len(t) = Len(s) - 1 /\ Len(t) \in Nat /\ p \in Nat
  BY DEF Without
<1>2. j \in Nat /\ j >= 1 /\ j <= Len(t)
  BY <1>1
<1>3. t[j] = IF j < p THEN s[j] ELSE s[j + 1]
  BY DEF Without
<1> QED BY <1>1, <1>2, <1>3
(* A record is added to a log that has none of its message, or of its id.  *)
LEMMA RecordedFacts ==
    ASSUME NEW log \in LogType, NEW entry \in Entries, GoodLog(log),
           \A i \in 1..Len(log.recent) :
              log.recent[i].id = entry.id => log.recent[i].message = entry.message
    PROVE  /\ GoodLog(Log!Recorded(log, entry))
           /\ \/ /\ Log!Recorded(log, entry) = log
                 /\ \E i \in 1..Len(log.recent) :
                       /\ log.recent[i].message = entry.message
                       /\ Log!RecordedId(log, entry) = log.recent[i].id
              \/ /\ \A i \in 1..Len(log.recent) : log.recent[i].message # entry.message
                 /\ Log!RecordedId(log, entry) = entry.id
                 /\ Log!Recorded(log, entry) =
                      [unread |-> Log!LastRecords(Append(log.unread, entry)),
                       recent |-> Log!LastRecords(Append(log.recent, entry))]
                 /\ Keeps(Log!Recorded(log, entry).recent, Append(log.recent, entry))
                 /\ OnceEach(Append(log.recent, entry))
<1> DEFINE r == log.recent
           u == log.unread
           known == Log!Known(log, entry.message)
<1>1. /\ r \in Seq(Entries) /\ u \in Seq(Entries) /\ Len(r) \in Nat /\ Len(u) \in Nat
      /\ OnceEach(r)
  BY DEF LogType, GoodLog
<1>2. known \subseteq 1..Len(r) /\ known \in SUBSET Nat
  BY <1>1 DEF Log!Known
<1>3. CASE known # {}
  <2>1. PICK i \in known : i = Log!First(known)
    BY <1>2, <1>3, FirstIsIn
  <2>2. i \in 1..Len(r) /\ r[i].message = entry.message
    BY <2>1 DEF Log!Known
  <2>3. Log!RecordedId(log, entry) = r[i].id
    BY <1>3, <2>1 DEF Log!RecordedId
  <2>4. Log!Recorded(log, entry) = log
    BY <1>3 DEF Log!Recorded
  <2> QED BY <2>2, <2>3, <2>4
<1>4. CASE known = {}
  <2>1. \A i \in 1..Len(r) : r[i].message # entry.message /\ r[i].id # entry.id
    BY <1>4 DEF Log!Known
  <2>2. /\ Log!RecordedId(log, entry) = entry.id
        /\ Log!Recorded(log, entry) =
             [unread |-> Log!LastRecords(Append(u, entry)),
              recent |-> Log!LastRecords(Append(r, entry))]
    BY <1>4 DEF Log!RecordedId, Log!Recorded
  <2>0. PICK k \in Nat : Cut(u, r, k)
    BY DEF GoodLog
  <2> HIDE DEF known, r, u
  <2>3. PICK R \in Seq(Entries) : R = Append(r, entry)
    BY <1>1, AppendProperties
  <2>4. PICK U \in Seq(Entries) : U = Append(u, entry)
    BY <1>1, AppendProperties
  <2>5. /\ Len(R) = Len(r) + 1 /\ R[Len(r) + 1] = entry
        /\ \A i \in 1..Len(r) : R[i] = r[i]
    BY <1>1, <2>3, AppendProperties
  <2>6. /\ Len(U) = Len(u) + 1 /\ U[Len(u) + 1] = entry
        /\ \A i \in 1..Len(u) : U[i] = u[i]
    BY <1>1, <2>4, AppendProperties
  <2>7. OnceEach(R)
    <3>1. ASSUME NEW i \in 1..Len(R), NEW j \in 1..Len(R), i < j
          PROVE  R[i].id # R[j].id /\ R[i].message # R[j].message
      <4>1. i \in 1..Len(r)
        BY <1>1, <2>5, <3>1
      <4>2. CASE j = Len(r) + 1
        BY <2>1, <2>5, <4>1, <4>2
      <4>3. CASE j # Len(r) + 1
        <5>1. j \in 1..Len(r)
          BY <1>1, <2>5, <4>3
        <5> QED BY <1>1, <2>5, <3>1, <4>1, <5>1 DEF OnceEach
      <4> QED BY <4>2, <4>3
    <3> QED BY <3>1 DEF OnceEach
  <2>8. PICK Lr \in Seq(Entries), a \in Nat :
            /\ Log!LastRecords(R) = Lr /\ Cut(Lr, R, a)
            /\ Len(Lr) <= HistoryLimit /\ (a # 0 => Len(Lr) = HistoryLimit)
    BY LastRecordsFacts
  <2>9. PICK Lu \in Seq(Entries), b \in Nat :
            /\ Log!LastRecords(U) = Lu /\ Cut(Lu, U, b)
            /\ Len(Lu) <= HistoryLimit /\ (b # 0 => Len(Lu) = HistoryLimit)
    BY LastRecordsFacts
  <2>10. Len(Lr) \in Nat /\ Len(Lu) \in Nat /\ HistoryLimit \in Nat
    BY QueueAssumption
  <2>11. Cut(U, R, k)
    <3>1. Len(R) = k + Len(U)
      BY <1>1, <2>5, <2>6, <2>0 DEF Cut
    <3>2. ASSUME NEW i \in 1..Len(U)
          PROVE  U[i] = R[k + i]
      <4>1. CASE i = Len(u) + 1
        <5>1. k + i = Len(r) + 1
          BY <1>1, <2>0, <4>1 DEF Cut
        <5> QED BY <2>5, <2>6, <4>1, <5>1
      <4>2. CASE i # Len(u) + 1
        <5>1. i \in 1..Len(u) /\ k + i \in 1..Len(r)
          BY <1>1, <2>6, <2>0, <4>2 DEF Cut
        <5> QED BY <2>5, <2>6, <2>0, <5>1 DEF Cut
      <4> QED BY <4>1, <4>2
    <3> QED BY <3>1, <3>2 DEF Cut
  <2>12. PICK x \in Nat : x = k + b - a
    <3>1. /\ Len(R) = a + Len(Lr) /\ Len(U) = b + Len(Lu)
          /\ Len(R) = k + Len(U)
      BY <2>8, <2>9, <2>11 DEF Cut
    <3>2. a + Len(Lr) = k + (b + Len(Lu))
      BY <3>1
    <3>3. k + b - a \in Nat
      BY <2>8, <2>9, <2>10, <3>2
    <3> QED BY <3>3
  <2>13. Cut(Lu, Lr, x)
    <3>1. Len(Lr) = x + Len(Lu)
      <4>1. /\ Len(R) = a + Len(Lr) /\ Len(U) = b + Len(Lu)
            /\ Len(R) = k + Len(U)
        BY <2>8, <2>9, <2>11 DEF Cut
      <4>2. a + Len(Lr) = k + (b + Len(Lu))
        BY <4>1
      <4> QED BY <2>10, <2>12, <4>2
    <3>2. ASSUME NEW i \in 1..Len(Lu)
          PROVE  Lu[i] = Lr[x + i]
      <4>1. b + i \in 1..Len(U) /\ x + i \in 1..Len(Lr)
        BY <2>9, <2>10, <3>1 DEF Cut
      <4>2. Lu[i] = U[b + i] /\ U[b + i] = R[k + (b + i)] /\ Lr[x + i] = R[a + (x + i)]
        BY <2>8, <2>9, <2>11, <4>1 DEF Cut
      <4>3. k + (b + i) = a + (x + i)
        BY <2>12
      <4> QED BY <4>2, <4>3
    <3> QED BY <3>1, <3>2 DEF Cut
  <2>14. Keeps(Lr, R)
    BY <2>8, CutKeeps
  <2>15. OnceEach(Lr)
    BY <2>7, <2>14, KeepsOnce
  <2>16. Log!Recorded(log, entry) = [unread |-> Lu, recent |-> Lr]
    BY <2>2, <2>3, <2>4, <2>8, <2>9
  <2>17. GoodLog(Log!Recorded(log, entry))
    BY <2>13, <2>15, <2>16 DEF GoodLog
  <2>18. /\ Keeps(Log!Recorded(log, entry).recent, Append(r, entry))
         /\ OnceEach(Append(r, entry))
    BY <2>3, <2>7, <2>14, <2>16
  <2> QED BY <2>1, <2>2, <2>17, <2>18 DEF r, u
<1> QED BY <1>3, <1>4

(* A removal leaves no record of that id and keeps the others.             *)
LEMMA RemovedFacts ==
    ASSUME NEW log \in LogType, NEW id, GoodLog(log)
    PROVE  /\ GoodLog(Log!Removed(log, id))
           /\ Keeps(Log!Removed(log, id).recent, log.recent)
           /\ \A i \in 1..Len(Log!Removed(log, id).recent) :
                 Log!Removed(log, id).recent[i].id # id
<1> DEFINE r == log.recent
           u == log.unread
<1>1. r \in Seq(Entries) /\ u \in Seq(Entries) /\ Len(r) \in Nat /\ Len(u) \in Nat
  BY DEF LogType
<1>2. PICK k \in Nat : Cut(u, r, k)
  BY DEF GoodLog
<1>3. OnceEach(r) /\ OnceEach(u)
  <2>1. OnceEach(r)
    BY DEF GoodLog
  <2>2. Keeps(u, r)
    BY <1>1, <1>2, CutKeeps
  <2> QED BY <1>1, <2>1, <2>2, KeepsOnce
<1>4. PICK R \in Seq(Entries) : R = Log!DropId(r, id)
  BY <1>1, DropIdTyped
<1>5. PICK U \in Seq(Entries) : U = Log!DropId(u, id)
  BY <1>1, DropIdTyped
<1>6. Log!Removed(log, id) = [unread |-> U, recent |-> R]
  BY <1>4, <1>5 DEF Log!Removed
<1> HIDE DEF r, u
<1>7. \/ (\A i \in 1..Len(r) : r[i].id # id) /\ R = r
      \/ \E p \in 1..Len(r) : r[p].id = id /\ Without(R, r, p)
  BY <1>1, <1>3, <1>4, DropIdFacts
<1>8. \/ (\A i \in 1..Len(u) : u[i].id # id) /\ U = u
      \/ \E p \in 1..Len(u) : u[p].id = id /\ Without(U, u, p)
  BY <1>1, <1>3, <1>5, DropIdFacts
<1>9. \A i \in 1..Len(u) : k + i \in 1..Len(r) /\ u[i] = r[k + i]
  BY <1>1, <1>2 DEF Cut
<1>10. CASE (\A i \in 1..Len(r) : r[i].id # id) /\ R = r
  <2>1. U = u
    BY <1>8, <1>9, <1>10
  <2>2. Keeps(R, r)
    BY <1>1, <1>10, KeepsAll
  <2> QED BY <1>2, <1>3, <1>6, <1>10, <2>1, <2>2 DEF GoodLog, r
<1>11. CASE \E p \in 1..Len(r) : r[p].id = id /\ Without(R, r, p)
  <2>1. PICK p \in 1..Len(r) : r[p].id = id /\ Without(R, r, p)
    BY <1>11
  <2>2. Keeps(R, r) /\ \A j \in 1..Len(R) : \E i \in 1..Len(r) : i # p /\ R[j] = r[i]
    <3>1. /\ r \in Seq(Entries) /\ R \in Seq(Entries)
          /\ p \in 1..Len(r) /\ Without(R, r, p)
      BY <1>1, <2>1
    <3>2. \A j \in 1..Len(R) : \E i \in 1..Len(r) : i # p /\ R[j] = r[i]
      <4>1. ASSUME NEW j \in 1..Len(R)
            PROVE  \E i \in 1..Len(r) : i # p /\ R[j] = r[i]
        BY <3>1, WithoutLeaves
      <4> QED BY <4>1
    <3>3. Keeps(R, r)
      BY <3>1, WithoutKeeps
    <3> QED BY <3>2, <3>3
  <2>3. \A i \in 1..Len(r) : r[i].id = id => i = p
    BY <1>1, <1>3, <2>1, OncePlaces
  <2>4. \A j \in 1..Len(R) : R[j].id # id
    BY <2>2, <2>3
  <2>5. OnceEach(R)
    BY <1>1, <1>3, <2>2, KeepsOnce
  <2>6. \E x \in Nat : Cut(U, R, x)
    <3>1. CASE (\A i \in 1..Len(u) : u[i].id # id) /\ U = u
      <4>1. p <= k
        <5>1. CASE ~(p <= k)
          <6>1. p - k \in 1..Len(u) /\ k + (p - k) = p
            BY <1>1, <1>2, <5>1 DEF Cut
          <6> QED BY <1>9, <2>1, <3>1, <6>1
        <5> QED BY <5>1
      <4>2. PICK x \in Nat : x = k - 1
        <5>1. k - 1 \in Nat
          BY <4>1
        <5> QED BY <5>1
      <4>3. Len(R) = x + Len(U)
        BY <1>1, <1>2, <2>1, <3>1, <4>2 DEF Cut, Without
      <4>4. ASSUME NEW i \in 1..Len(U)
            PROVE  U[i] = R[x + i]
        <5>1. x + i \in 1..Len(R) /\ ~(x + i < p) /\ (x + i) + 1 = k + i
          BY <4>1, <4>2, <4>3
        <5>2. R[x + i] = r[(x + i) + 1]
          BY <2>1, <5>1 DEF Without
        <5> QED BY <1>9, <3>1, <5>1, <5>2
      <4> QED BY <4>3, <4>4 DEF Cut
    <3>2. CASE \E q \in 1..Len(u) : u[q].id = id /\ Without(U, u, q)
      <4>1. PICK q \in 1..Len(u) : u[q].id = id /\ Without(U, u, q)
        BY <3>2
      <4>2. k + q = p
        BY <1>9, <2>3, <4>1
      <4>3. Len(R) = k + Len(U) /\ Len(U) = Len(u) - 1
        BY <1>1, <1>2, <2>1, <4>1 DEF Cut, Without
      <4>4. ASSUME NEW i \in 1..Len(U)
            PROVE  U[i] = R[k + i]
        <5>1. /\ k + i \in 1..Len(R) /\ (k + i < p <=> i < q)
              /\ i \in 1..Len(u) /\ i + 1 \in 1..Len(u)
          BY <1>1, <4>2, <4>3
        <5>2. R[k + i] = IF k + i < p THEN r[k + i] ELSE r[(k + i) + 1]
          BY <2>1, <5>1 DEF Without
        <5>3. U[i] = IF i < q THEN u[i] ELSE u[i + 1]
          BY <4>1 DEF Without
        <5>4. u[i] = r[k + i] /\ u[i + 1] = r[k + (i + 1)] /\ k + (i + 1) = (k + i) + 1
          BY <1>9, <5>1
        <5> QED BY <5>1, <5>2, <5>3, <5>4
      <4> QED BY <4>3, <4>4 DEF Cut
    <3> QED BY <1>8, <3>1, <3>2
  <2> QED BY <1>6, <2>2, <2>4, <2>5, <2>6 DEF GoodLog, r
<1> QED BY <1>7, <1>10, <1>11

(* A consumption cuts the unread records after the one of that id.         *)
LEMMA ConsumedFacts ==
    ASSUME NEW log \in LogType, NEW id, GoodLog(log)
    PROVE  /\ GoodLog(Log!Consumed(log, id))
           /\ Log!Consumed(log, id).recent = log.recent
           /\ \/ /\ \A i \in 1..Len(log.unread) : log.unread[i].id # id
                 /\ Log!Consumed(log, id) = log
              \/ \E p \in 1..Len(log.unread) :
                    /\ log.unread[p].id = id
                    /\ Cut(Log!Consumed(log, id).unread, log.unread, p)
<1> DEFINE r == log.recent
           u == log.unread
<1>1. /\ r \in Seq(Entries) /\ u \in Seq(Entries) /\ Len(r) \in Nat /\ Len(u) \in Nat
      /\ OnceEach(r)
  BY DEF LogType, GoodLog
<1>2. PICK k \in Nat : Cut(u, r, k)
  BY DEF GoodLog
<1>3. CASE Log!OfId(u, id) = {}
  BY <1>3 DEF Log!Consumed, Log!OfId
<1>4. CASE Log!OfId(u, id) # {}
  <2>1. Log!OfId(u, id) \subseteq 1..Len(u) /\ Log!OfId(u, id) \in SUBSET Nat
    BY DEF Log!OfId
  <2>2. PICK p \in Log!OfId(u, id) : p = Log!First(Log!OfId(u, id))
    BY <1>4, <2>1, FirstIsIn
  <2>3. p \in 1..Len(u) /\ u[p].id = id
    BY <2>2 DEF Log!OfId
  <2>4. PICK t : t = SubSeq(u, p + 1, Len(u))
    OBVIOUS
  <2>5. Log!Consumed(log, id) = [log EXCEPT !.unread = t]
    BY <1>4, <2>2, <2>4 DEF Log!Consumed
  <2>6. /\ Log!Consumed(log, id).recent = r
        /\ Log!Consumed(log, id).unread = t
    BY <2>5 DEF LogType
  <2> HIDE DEF r, u
  <2>7. Cut(t, u, p)
    <3>1. \A i \in (p + 1)..Len(u) : u[i] \in Entries
      BY <1>1, <2>3
    <3>2. p \in Nat /\ p + 1 \in Nat /\ Len(u) \in Nat /\ p <= Len(u)
      BY <1>1, <2>3
    <3>3. /\ Len(t) = IF p + 1 <= Len(u) THEN Len(u) - (p + 1) + 1 ELSE 0
          /\ \A i \in 1..(Len(u) - (p + 1) + 1) : t[i] = u[(p + 1) + i - 1]
      BY <2>4, <3>1, <3>2, SubSeqProperties
    <3>4. Len(u) = p + Len(t) /\ Len(t) = Len(u) - (p + 1) + 1
      BY <3>2, <3>3
    <3>5. \A i \in 1..Len(t) : (p + 1) + i - 1 = p + i
      BY <3>2
    <3> QED BY <3>3, <3>4, <3>5 DEF Cut
  <2>8. Cut(t, r, k + p)
    <3>1. Len(r) = k + Len(u) /\ Len(u) = p + Len(t) /\ p \in Nat
      BY <1>2, <2>3, <2>7 DEF Cut
    <3>2. Len(t) \in Nat
      BY <1>1, <2>3, <3>1
    <3>3. ASSUME NEW i \in 1..Len(t)
          PROVE  t[i] = r[(k + p) + i]
      <4>1. p + i \in 1..Len(u) /\ k + (p + i) = (k + p) + i
        BY <1>1, <3>1, <3>2
      <4> QED BY <1>2, <2>7, <4>1 DEF Cut
    <3> QED BY <1>1, <3>1, <3>2, <3>3 DEF Cut
  <2>9. k + p \in Nat
    BY <1>1, <2>3
  <2>10. GoodLog(Log!Consumed(log, id))
    BY <1>1, <2>6, <2>8, <2>9 DEF GoodLog
  <2> QED BY <2>3, <2>6, <2>7, <2>10 DEF r, u
<1> QED BY <1>3, <1>4

(* What is left of a sequence that loses its first record.                 *)
LEMMA TailCuts ==
    ASSUME NEW S, NEW s \in Seq(S), s # <<>>
    PROVE  Tail(s) \in Seq(S) /\ Cut(Tail(s), s, 1)
<1>1. PICK t \in Seq(S) : t = Tail(s) /\ Len(t) = Len(s) - 1
  BY HeadTailProperties
<1>2. \A i \in 1..Len(t) : t[i] = s[i + 1] /\ i + 1 = 1 + i
  BY <1>1, HeadTailProperties
<1> QED BY <1>1, <1>2 DEF Cut

(* The oldest record leaves both parts of the log it is in.                *)
LEMMA ExpiredFacts ==
    ASSUME NEW log \in LogType, log.recent # <<>>, GoodLog(log)
    PROVE  /\ GoodLog(Log!Expired(log))
           /\ Keeps(Log!Expired(log).recent, log.recent)
<1>1. PICK r \in Seq(Entries) : r = log.recent /\ r # <<>> /\ OnceEach(r)
  BY DEF LogType, GoodLog
<1>2. PICK u \in Seq(Entries) : u = log.unread
  BY DEF LogType
<1>3. PICK k \in Nat : Cut(u, r, k)
  BY <1>1, <1>2 DEF GoodLog
<1>4. PICK t \in Seq(Entries) : t = Tail(r) /\ Cut(t, r, 1)
  BY <1>1, TailCuts
<1>5. PICK v : v = IF u # <<>> /\ u[1] = r[1] THEN Tail(u) ELSE u
  OBVIOUS
<1>6. Log!Expired(log) = [unread |-> v, recent |-> t]
  BY <1>1, <1>2, <1>4, <1>5 DEF Log!Expired
<1>7. Keeps(t, r) /\ OnceEach(t)
  <2>1. Keeps(t, r)
    BY <1>4, CutKeeps
  <2> QED BY <1>1, <2>1, KeepsOnce
<1>8. /\ Len(r) \in Nat /\ Len(u) \in Nat /\ Len(t) \in Nat
      /\ Len(r) = k + Len(u) /\ Len(r) = 1 + Len(t)
      /\ \A i \in 1..Len(u) : u[i] = r[k + i]
      /\ \A i \in 1..Len(t) : t[i] = r[1 + i]
  BY <1>3, <1>4 DEF Cut
<1>9. CASE u # <<>> /\ u[1] = r[1]
  <2>1. PICK w \in Seq(Entries) : w = Tail(u) /\ Cut(w, u, 1)
    BY <1>9, TailCuts
  <2>2. /\ v = w /\ Len(w) \in Nat /\ Len(u) = 1 + Len(w)
        /\ \A i \in 1..Len(w) : w[i] = u[1 + i]
    BY <1>5, <1>9, <2>1 DEF Cut
  <2>3. k = 0
    <3>1. 1 \in 1..Len(u) /\ k + 1 \in 1..Len(r) /\ 1 \in 1..Len(r)
      BY <1>8, <2>2
    <3>2. r[k + 1] = r[1]
      BY <1>8, <1>9, <3>1
    <3>3. k + 1 = 1
      BY <1>1, <3>1, <3>2, OncePlaces
    <3> QED BY <3>3
  <2>4. Cut(w, t, 0)
    <3>1. ASSUME NEW i \in 1..Len(w)
          PROVE  w[i] = t[0 + i]
      <4>1. 1 + i \in 1..Len(u) /\ i \in 1..Len(t) /\ 0 + (1 + i) = 1 + i /\ 0 + i = i
        BY <1>8, <2>2, <2>3
      <4> QED BY <1>8, <2>2, <2>3, <4>1
    <3> QED BY <1>8, <2>2, <2>3, <3>1 DEF Cut
  <2> QED BY <1>1, <1>6, <1>7, <2>2, <2>4 DEF GoodLog
<1>10. CASE ~(u # <<>> /\ u[1] = r[1])
  <2>1. v = u
    BY <1>5, <1>10
  <2>2. k >= 1
    <3>1. CASE u = <<>>
      <4>1. Len(u) = 0
        BY <3>1
      <4> QED BY <1>8, <4>1
    <3>2. CASE u # <<>> /\ k = 0
      <4>1. 1 \in 1..Len(u) /\ k + 1 = 1
        BY <1>8, <3>2, EmptySeq
      <4> QED BY <1>8, <1>10, <3>2, <4>1
    <3> QED BY <3>1, <3>2
  <2>3. PICK x \in Nat : x = k - 1
    <3>1. k - 1 \in Nat
      BY <2>2
    <3> QED BY <3>1
  <2>4. Cut(u, t, x)
    <3>1. ASSUME NEW i \in 1..Len(u)
          PROVE  u[i] = t[x + i]
      <4>1. x + i \in 1..Len(t) /\ 1 + (x + i) = k + i
        BY <1>8, <2>2, <2>3
      <4> QED BY <1>8, <4>1
    <3>2. Len(t) = x + Len(u)
      BY <1>8, <2>3
    <3> QED BY <3>1, <3>2 DEF Cut
  <2> QED BY <1>1, <1>6, <1>7, <2>1, <2>4 DEF GoodLog
<1> QED BY <1>9, <1>10

(* What keeps a sequence with one more at its end, and not that one, keeps *)
(* the sequence.                                                           *)
LEMMA KeepsOld ==
    ASSUME NEW s \in Seq(Entries), NEW t \in Seq(Entries), NEW e \in Entries,
           Keeps(t, Append(s, e)), \A i \in 1..Len(t) : t[i].id # e.id
    PROVE  Keeps(t, s)
<1>1. PICK a \in Seq(Entries) : a = Append(s, e)
  BY AppendProperties
<1>2. /\ Len(a) = Len(s) + 1 /\ Len(s) \in Nat /\ a[Len(s) + 1] = e
      /\ \A i \in 1..Len(s) : a[i] = s[i]
  BY <1>1, AppendProperties
<1>3. Keeps(t, a)
  BY <1>1
<1>4. ASSUME NEW i \in 1..Len(t), NEW k \in 1..Len(a), t[i] = a[k]
      PROVE  k \in 1..Len(s) /\ t[i] = s[k]
  <2>1. k # Len(s) + 1
    BY <1>2, <1>4
  <2> QED BY <1>2, <1>4, <2>1
<1>5. \A i \in 1..Len(t) : \E k \in 1..Len(s) : t[i] = s[k]
  BY <1>3, <1>4 DEF Keeps
<1>6. ASSUME NEW i \in 1..Len(t), NEW j \in 1..Len(t), i < j
      PROVE  \E k, l \in 1..Len(s) : k < l /\ t[i] = s[k] /\ t[j] = s[l]
  <2>1. PICK k \in 1..Len(a), l \in 1..Len(a) : k < l /\ t[i] = a[k] /\ t[j] = a[l]
    BY <1>3, <1>6 DEF Keeps
  <2> QED BY <1>4, <2>1
<1> QED BY <1>5, <1>6 DEF Keeps

-----------------------------------------------------------------------------
(* The logs belong to what was accepted, whichever bots share them and     *)
(* whatever grows old.                                                     *)

(* The message of a record was accepted in its group, and not dropped.     *)
RecordsAreKept ==
    \A g \in Groups : \A r \in Elements(context[g].recent) :
        \E d \in Elements(accepted) :
            /\ KeyOf[d] = r.id /\ MessageIdOf[d] = r.message
            /\ GroupOf[ConversationOf[d]] = g /\ ~Dropped(d)

LogsAreGood == \A g \in Groups : GoodLog(context[g])

(* A waiting turn knows the record that was made under its own key, so     *)
(* that the record goes when the turn is dropped.                          *)
WaitingKnowsRecord ==
    \A d \in Deliveries : \A g \in Groups :
        Waiting(d) /\ GroupOf[ConversationOf[d]] = g =>
            \A r \in Elements(context[g].recent) :
                r.id = KeyOf[d] => recordId[d] = r.id

InFlightIsAccepted ==
    /\ Elements(accepted) \subseteq submitted
    /\ \A d \in Deliveries : Live(d) => d \in Elements(accepted)

LogInv ==
    /\ RecordsAreKept
    /\ LogsAreGood
    /\ WaitingKnowsRecord
    /\ InFlightIsAccepted

(* The log of a group is a log, and a record under a delivery's key is one *)
(* of its message.                                                         *)
LEMMA LogOfGroup ==
    ASSUME LogsTyped, RecordsAreKept, LogsAreGood, NEW g \in Groups
    PROVE  /\ context[g] \in LogType /\ GoodLog(context[g])
           /\ context[g].recent \in Seq(Entries)
           /\ context[g].unread \in Seq(Entries)
           /\ OnceEach(context[g].recent)
           /\ \A d \in Deliveries : \A i \in 1..Len(context[g].recent) :
                 context[g].recent[i].id = KeyOf[d]
                     => context[g].recent[i].message = MessageIdOf[d]
<1>1. context[g] \in LogType /\ GoodLog(context[g])
  BY DEF LogsTyped, LogType, LogsAreGood
<1>2. /\ context[g].recent \in Seq(Entries) /\ context[g].unread \in Seq(Entries)
      /\ OnceEach(context[g].recent)
  BY <1>1 DEF LogType, GoodLog
<1>3. ASSUME NEW d \in Deliveries, NEW i \in 1..Len(context[g].recent),
             context[g].recent[i].id = KeyOf[d]
      PROVE  context[g].recent[i].message = MessageIdOf[d]
  <2>0. context[g].recent[i] \in Elements(context[g].recent)
    BY DEF Elements
  <2>1. PICK e \in Elements(accepted) :
            /\ KeyOf[e] = context[g].recent[i].id
            /\ MessageIdOf[e] = context[g].recent[i].message
    BY <2>0 DEF RecordsAreKept
  <2>2. e \in Deliveries
    BY <2>1 DEF LogsTyped, Elements
  <2> QED BY <1>3, <2>1, <2>2, KeyAssumption
<1> QED BY <1>1, <1>2, <1>3

(* What becomes of a group's log when a delivery of the group is recorded. *)
LEMMA RecordedLog ==
    ASSUME LogsTyped, RecordsAreKept, LogsAreGood, NEW d \in Deliveries,
           NEW g \in Groups, GroupOf[ConversationOf[d]] = g,
           NEW R, R = Log!Recorded(context[g], Entry(d))
    PROVE  /\ R \in LogType /\ GoodLog(R) /\ Entry(d) \in Entries
           /\ \/ /\ R = context[g]
                 /\ \E i \in 1..Len(context[g].recent) :
                       /\ context[g].recent[i].message = MessageIdOf[d]
                       /\ RecordIdFor(d) = context[g].recent[i].id
              \/ /\ \A i \in 1..Len(context[g].recent) :
                       context[g].recent[i].message # MessageIdOf[d]
                 /\ RecordIdFor(d) = KeyOf[d]
                 /\ Keeps(R.recent, Append(context[g].recent, Entry(d)))
                 /\ OnceEach(Append(context[g].recent, Entry(d)))
<1>1. Entry(d) \in Entries /\ Entry(d).id = KeyOf[d] /\ Entry(d).message = MessageIdOf[d]
  BY QueueAssumption DEF Entry, Entries
<1>2. RecordIdFor(d) = Log!RecordedId(context[g], Entry(d))
  BY QueueAssumption DEF RecordIdFor
<1>3. /\ context[g] \in LogType /\ GoodLog(context[g])
      /\ \A i \in 1..Len(context[g].recent) :
            context[g].recent[i].id = Entry(d).id
                => context[g].recent[i].message = Entry(d).message
  BY <1>1, LogOfGroup
<1>4. R \in LogType
  BY <1>1, <1>3, LogOperations
<1>5. PICK e \in Entries : e = Entry(d)
  BY <1>1
<1>6. PICK log \in LogType : log = context[g]
  BY <1>3
<1>7. /\ GoodLog(log)
      /\ \A i \in 1..Len(log.recent) :
            log.recent[i].id = e.id => log.recent[i].message = e.message
  BY <1>3, <1>5, <1>6
<1>8. /\ GoodLog(Log!Recorded(log, e))
      /\ \/ /\ Log!Recorded(log, e) = log
            /\ \E i \in 1..Len(log.recent) :
                  /\ log.recent[i].message = e.message
                  /\ Log!RecordedId(log, e) = log.recent[i].id
         \/ /\ \A i \in 1..Len(log.recent) : log.recent[i].message # e.message
            /\ Log!RecordedId(log, e) = e.id
            /\ Keeps(Log!Recorded(log, e).recent, Append(log.recent, e))
            /\ OnceEach(Append(log.recent, e))
  BY <1>7, RecordedFacts
<1> QED BY <1>1, <1>2, <1>4, <1>5, <1>6, <1>8

(* The record a delivery is given is the one under its key, if there is.   *)
LEMMA RecordIdIsOwn ==
    ASSUME LogsTyped, RecordsAreKept, LogsAreGood, NEW d \in Deliveries,
           NEW g \in Groups, GroupOf[ConversationOf[d]] = g,
           NEW i \in 1..Len(context[g].recent), context[g].recent[i].id = KeyOf[d]
    PROVE  RecordIdFor(d) = KeyOf[d]
<1>1. PICK R : R = Log!Recorded(context[g], Entry(d))
  OBVIOUS
<1>2. context[g].recent[i].message = MessageIdOf[d]
  BY LogOfGroup
<1>3. PICK j \in 1..Len(context[g].recent) :
          /\ context[g].recent[j].message = MessageIdOf[d]
          /\ RecordIdFor(d) = context[g].recent[j].id
  BY <1>1, <1>2, RecordedLog
<1>4. context[g].recent \in Seq(Entries) /\ OnceEach(context[g].recent)
  BY LogOfGroup
<1>5. i = j
  BY <1>2, <1>3, <1>4, OncePlaces
<1> QED BY <1>3, <1>5

(* A record has an id, and it is no one's missing id.                      *)
LEMMA RecordIdIsKey ==
    ASSUME LogsTyped, NEW d \in Deliveries, GroupOf[ConversationOf[d]] # None
    PROVE  RecordIdFor(d) \in Keys /\ RecordIdFor(d) # None
<1>1. PICK g \in Groups : g = GroupOf[ConversationOf[d]]
  BY QueueAssumption
<1>2. context[g] \in LogType /\ Entry(d) \in Entries
  BY QueueAssumption DEF LogsTyped, LogType, Entry, Entries
<1>3. RecordIdFor(d) = Log!RecordedId(context[g], Entry(d))
  BY <1>1 DEF RecordIdFor
<1> QED BY <1>2, <1>3, LogOperations, QueueAssumption

(* The logs that a step leaves as they are stay good and are kept.         *)
LEMMA SameLog ==
    ASSUME LogsTyped, RecordsAreKept, LogsAreGood, NEW h \in Groups,
           context'[h] = context[h]
    PROVE  GoodLog(context'[h]) /\ Keeps(context'[h].recent, context[h].recent)
<1>1. GoodLog(context[h]) /\ context[h].recent \in Seq(Entries)
  BY LogOfGroup
<1> QED BY <1>1, KeepsAll

(* What a call that does not queue its turn leaves of the logs: a record   *)
(* that was made is taken back, or one that was there goes with it.        *)
LEMMA SpawnMovesLog ==
    ASSUME LogsTyped, RecordsAreKept, LogsAreGood, NEW d \in Deliveries,
           SpawnFails(d), NEW h \in Groups
    PROVE  GoodLog(context'[h]) /\ Keeps(context'[h].recent, context[h].recent)
<1>1. context' = ContextWithout(ContextWith(d), d, RecordIdFor(d))
  BY DEF SpawnFails
<1>2. PICK g : g = GroupOf[ConversationOf[d]] /\ g \in Groups \cup {None}
  BY QueueAssumption
<1>3. CASE g = None \/ g # h
  <2>1. context'[h] = context[h]
    BY <1>1, <1>2, <1>3 DEF ContextWithout, ContextWith, LogsTyped
  <2> QED BY <2>1, SameLog
<1>4. CASE g # None /\ g = h
  <2>1. PICK R : R = Log!Recorded(context[h], Entry(d))
    OBVIOUS
  <2>2. PICK id : id = RecordIdFor(d) /\ id # None
    BY <1>2, <1>4, RecordIdIsKey
  <2>3. context'[h] = Log!Removed(R, id)
    <3>1. ContextWith(d) = [context EXCEPT ![h] = R]
      BY <1>2, <1>4, <2>1 DEF ContextWith
    <3>2. context' = [ContextWith(d) EXCEPT ![h] = Log!Removed(@, id)]
      BY <1>1, <1>2, <1>4, <2>2 DEF ContextWithout
    <3>3. ContextWith(d) \in [Groups -> LogType]
      BY LogSteps
    <3> QED BY <3>1, <3>2, <3>3
  <2>4. /\ R \in LogType /\ GoodLog(R) /\ Entry(d) \in Entries
        /\ \/ R = context[h]
           \/ /\ RecordIdFor(d) = KeyOf[d]
              /\ Keeps(R.recent, Append(context[h].recent, Entry(d)))
    BY <1>2, <1>4, <2>1, RecordedLog
  <2>5. PICK T : T = Log!Removed(R, id)
    OBVIOUS
  <2>6. /\ GoodLog(T) /\ Keeps(T.recent, R.recent)
        /\ \A i \in 1..Len(T.recent) : T.recent[i].id # id
    BY <2>4, <2>5, RemovedFacts
  <2>7. T \in LogType
    BY <2>4, <2>5, LogOperations
  <2>8. /\ T.recent \in Seq(Entries) /\ R.recent \in Seq(Entries)
        /\ context[h].recent \in Seq(Entries)
    BY <2>4, <2>7, LogOfGroup DEF LogType
  <2>9. CASE R = context[h]
    BY <2>3, <2>5, <2>6, <2>9
  <2>10. CASE /\ RecordIdFor(d) = KeyOf[d]
              /\ Keeps(R.recent, Append(context[h].recent, Entry(d)))
    <3>1. Append(context[h].recent, Entry(d)) \in Seq(Entries)
      BY <2>4, <2>8, AppendProperties
    <3>2. Keeps(T.recent, Append(context[h].recent, Entry(d)))
      BY <2>6, <2>8, <2>10, <3>1, KeepsKept
    <3>3. \A i \in 1..Len(T.recent) : T.recent[i].id # Entry(d).id
      BY <2>2, <2>6, <2>10 DEF Entry
    <3>4. Keeps(T.recent, context[h].recent)
      BY <2>4, <2>8, <3>2, <3>3, KeepsOld
    <3> QED BY <2>3, <2>5, <2>6, <3>4
  <2> QED BY <2>4, <2>9, <2>10
<1> QED BY <1>2, <1>3, <1>4

(* The turn that is given up is of the same conversation.                  *)
LEMMA VictimIsNear ==
    ASSUME QueueInv, NEW d \in Deliveries, Accept(d), NEW drop,
           drop = Victim(ConversationOf[d]), drop # None
    PROVE  /\ drop \in Deliveries /\ Waiting(drop) /\ drop # d
           /\ ConversationOf[drop] = ConversationOf[d]
<1>1. drop \in Deliveries /\ Waiting(drop) /\ drop # d
  BY AcceptedWaits
<1>2. PICK c \in Conversations : c = ConversationOf[d]
  BY QueueAssumption
<1>3. ~Room(c) /\ drop = pending[c][VictimAt(c)]
  BY <1>2 DEF Victim
<1>4. VictimAt(c) \in 1..Len(pending[c])
  BY <1>3, VictimAtFacts DEF QueueInv
<1>5. ConversationOf[pending[c][VictimAt(c)]] = c
  BY <1>4, InQueueWaits
<1> QED BY <1>1, <1>2, <1>3, <1>5

(* What accepting does to the logs: the other groups' are left alone, the  *)
(* message is recorded, and the record of the turn given up goes.          *)
LEMMA AcceptedLog ==
    ASSUME QueueInv, LogsTyped, NEW d \in Deliveries, Accept(d), NEW drop,
           drop = Victim(ConversationOf[d]), NEW h \in Groups
    PROVE  IF GroupOf[ConversationOf[d]] # h
           THEN context'[h] = context[h]
           ELSE IF drop = None \/ recordId[drop] = None
                THEN context'[h] = Log!Recorded(context[h], Entry(d))
                ELSE context'[h] = Log!Removed(Log!Recorded(context[h], Entry(d)),
                                               recordId[drop])
<1>1. context' = IF drop = None THEN ContextWith(d)
                 ELSE ContextWithout(ContextWith(d), drop, recordId[drop])
  BY DEF Accept
<1>2. PICK g : g = GroupOf[ConversationOf[d]] /\ g \in Groups \cup {None}
  BY QueueAssumption
<1>3. drop # None => GroupOf[ConversationOf[drop]] = g
  BY <1>2, VictimIsNear
<1>4. context \in [Groups -> LogType] /\ None \notin Groups
  BY QueueAssumption DEF LogsTyped, LogType
<1>5. PICK W \in [Groups -> LogType] : W = ContextWith(d)
  BY LogSteps
<1>6. W = IF g = None THEN context
          ELSE [context EXCEPT ![g] = Log!Recorded(@, Entry(d))]
  BY <1>2, <1>5 DEF ContextWith
<1>7. /\ g # h => W[h] = context[h]
      /\ g = h => W[h] = Log!Recorded(context[h], Entry(d))
  BY <1>4, <1>6
<1>8. CASE drop = None
  BY <1>1, <1>2, <1>5, <1>7, <1>8
<1>9. CASE drop # None
  <2>1. context' = IF g = None \/ recordId[drop] = None THEN W
                   ELSE [W EXCEPT ![g] = Log!Removed(@, recordId[drop])]
    BY <1>1, <1>3, <1>5, <1>9 DEF ContextWithout
  <2>2. /\ g # h => context'[h] = W[h]
        /\ g = h /\ recordId[drop] = None => context'[h] = W[h]
        /\ g = h /\ recordId[drop] # None
              => context'[h] = Log!Removed(W[h], recordId[drop])
    BY <1>4, <2>1
  <2> QED BY <1>2, <1>7, <1>9, <2>2
<1> QED BY <1>8, <1>9

(* An accepted message joins its group's log unless it is there already.   *)
LEMMA AcceptMovesLog ==
    ASSUME QueueInv, LogsTyped, RecordsAreKept, LogsAreGood,
           NEW d \in Deliveries, Accept(d), NEW h \in Groups
    PROVE  /\ GoodLog(context'[h])
           /\ \/ Keeps(context'[h].recent, context[h].recent)
              \/ /\ GroupOf[ConversationOf[d]] = h
                 /\ Keeps(context'[h].recent, Append(context[h].recent, Entry(d)))
<1>1. PICK drop : drop = Victim(ConversationOf[d])
  OBVIOUS
<1>2. CASE GroupOf[ConversationOf[d]] # h
  <2>1. context'[h] = context[h]
    BY <1>1, <1>2, AcceptedLog
  <2> QED BY <2>1, SameLog
<1>3. CASE GroupOf[ConversationOf[d]] = h
  <2>1. PICK R : R = Log!Recorded(context[h], Entry(d))
    OBVIOUS
  <2>2. \/ context'[h] = R
        \/ \E id : context'[h] = Log!Removed(R, id)
    BY <1>1, <1>3, <2>1, AcceptedLog
  <2>3. /\ R \in LogType /\ GoodLog(R) /\ Entry(d) \in Entries
        /\ R = context[h] \/ Keeps(R.recent, Append(context[h].recent, Entry(d)))
    BY <1>3, <2>1, RecordedLog
  <2>4. R.recent \in Seq(Entries) /\ context[h].recent \in Seq(Entries)
    BY <2>3, LogOfGroup DEF LogType
  <2>5. GoodLog(context'[h]) /\ Keeps(context'[h].recent, R.recent)
    <3>1. CASE context'[h] = R
      BY <2>3, <2>4, <3>1, KeepsAll
    <3>2. CASE \E id : context'[h] = Log!Removed(R, id)
      BY <2>3, <3>2, RemovedFacts
    <3> QED BY <2>2, <3>1, <3>2
  <2>6. CASE R = context[h]
    BY <2>5, <2>6
  <2>7. CASE Keeps(R.recent, Append(context[h].recent, Entry(d)))
    <3>1. context'[h].recent \in Seq(Entries)
      <4>1. context'[h] \in LogType
        BY <2>2, <2>3, LogOperations
      <4> QED BY <4>1 DEF LogType
    <3>2. Append(context[h].recent, Entry(d)) \in Seq(Entries)
      BY <2>3, <2>4, AppendProperties
    <3>3. Keeps(context'[h].recent, Append(context[h].recent, Entry(d)))
      BY <2>4, <2>5, <2>7, <3>1, <3>2, KeepsKept
    <3> QED BY <1>3, <2>5, <3>3
  <2> QED BY <2>3, <2>6, <2>7
<1> QED BY <1>2, <1>3

(* The record that the turn given up was told of is gone.                  *)
LEMMA VictimLosesRecord ==
    ASSUME QueueInv, LogsTyped, RecordsAreKept, LogsAreGood,
           NEW d \in Deliveries, Accept(d), NEW drop,
           drop = Victim(ConversationOf[d]), drop # None,
           NEW h \in Groups, GroupOf[ConversationOf[d]] = h,
           NEW r \in Elements(context'[h].recent), recordId[drop] # None
    PROVE  r.id # recordId[drop]
<1>1. PICK R : R = Log!Recorded(context[h], Entry(d))
  OBVIOUS
<1>2. context'[h] = Log!Removed(R, recordId[drop])
  BY <1>1, AcceptedLog
<1>3. R \in LogType /\ GoodLog(R)
  BY <1>1, RecordedLog
<1>4. \A i \in 1..Len(context'[h].recent) : context'[h].recent[i].id # recordId[drop]
  BY <1>2, <1>3, RemovedFacts
<1> QED BY <1>4 DEF Elements

(* What is appended is in the sequence, after what was.                    *)
LEMMA AppendedElements ==
    ASSUME NEW S, NEW s \in Seq(S), NEW e \in S
    PROVE  \A x : x \in Elements(Append(s, e)) <=> x \in Elements(s) \/ x = e
<1>1. PICK a \in Seq(S) : a = Append(s, e)
  BY AppendProperties
<1>2. /\ Len(a) = Len(s) + 1 /\ Len(s) \in Nat /\ a[Len(s) + 1] = e
      /\ \A i \in 1..Len(s) : a[i] = s[i]
  BY <1>1, AppendProperties
<1>3. ASSUME NEW x, x \in Elements(a)
      PROVE  x \in Elements(s) \/ x = e
  <2>1. PICK i \in 1..Len(a) : x = a[i]
    BY <1>3 DEF Elements
  <2>2. i = Len(s) + 1 \/ i \in 1..Len(s)
    BY <1>2
  <2> QED BY <1>2, <2>1, <2>2 DEF Elements
<1>4. ASSUME NEW x, x \in Elements(s)
      PROVE  x \in Elements(a)
  <2>1. PICK i \in 1..Len(s) : x = s[i]
    BY <1>4 DEF Elements
  <2>2. i \in 1..Len(a) /\ x = a[i]
    BY <1>2, <2>1
  <2> QED BY <2>2 DEF Elements
<1>5. e \in Elements(a)
  <2>1. Len(s) + 1 \in 1..Len(a)
    BY <1>2
  <2> QED BY <1>2, <2>1 DEF Elements
<1> QED BY <1>1, <1>3, <1>4, <1>5

(* Keeping keeps the elements.                                             *)
LEMMA KeptElements ==
    ASSUME NEW s, NEW t, Keeps(t, s)
    PROVE  Elements(t) \subseteq Elements(s)
BY DEF Keeps, Elements

(* A waiting or running turn is one the queue accepted.                    *)
LEMMA AcceptKeepsLogs ==
    ASSUME QueueInv, CallInv, LogsTyped, LogInv, NEW d \in Deliveries, Accept(d)
    PROVE  LogInv'
<1> USE DEF LogInv
<1>1. PICK drop : drop = Victim(ConversationOf[d])
  OBVIOUS
<1>2. /\ \A e \in Deliveries : Waiting(e)' <=> e = d \/ (Waiting(e) /\ e # drop)
      /\ drop # None => drop \in Deliveries /\ Waiting(drop) /\ drop # d
  BY <1>1, AcceptedWaits
<1>3. /\ submitted' = submitted \cup {d}
      /\ dropped' = [dropped EXCEPT ![d] = drop]
      /\ recordId' = [e \in Deliveries |-> IF e = d THEN RecordIdFor(d)
                                          ELSE IF e = drop THEN None ELSE recordId[e]]
      /\ accepted' = Append(accepted, d)
      /\ UNCHANGED processPc
  BY <1>1 DEF Accept, Return
<1>4. /\ d \notin submitted /\ None \notin Deliveries /\ ~Dropped(d)
      /\ dropped \in [Deliveries -> Deliveries \cup {None}]
      /\ accepted \in Seq(Deliveries)
  BY QueueAssumption
     DEF Accept, Fresh, Considered, CallInv, CallTyped, DropsAreTold, Dropped, LogsTyped
<1>5. \A x : x \in Elements(accepted') <=> x \in Elements(accepted) \/ x = d
  BY <1>3, <1>4, AppendedElements
<1>6. \A e \in Deliveries : Dropped(e)' <=> Dropped(e) \/ e = drop
  <2>1. dropped[d] = None
    BY <1>4 DEF CallInv, CallsAreFresh
  <2>2. \A x \in Deliveries : dropped'[x] = IF x = d THEN drop ELSE dropped[x]
    BY <1>3, <1>4
  <2> QED BY <1>4, <2>1, <2>2 DEF Dropped
<1>7. \A e \in Deliveries : KeyOf[e] = KeyOf[d] => ~Live(e)
  <2>1. ~InFlight(ConversationOf[d], KeyOf[d])
    BY DEF Accept, Fresh
  <2> QED BY <2>1, LiveIsInFlight DEF CallInv, Live
<1>8. LogsAreGood'
  BY AcceptMovesLog DEF LogsAreGood
<1>9. ASSUME NEW g \in Groups, NEW r \in Elements(context'[g].recent)
      PROVE  \/ r \in Elements(context[g].recent)
             \/ r = Entry(d) /\ GroupOf[ConversationOf[d]] = g
  <2>1. CASE Keeps(context'[g].recent, context[g].recent)
    BY <1>9, <2>1, KeptElements
  <2>2. CASE /\ GroupOf[ConversationOf[d]] = g
             /\ Keeps(context'[g].recent, Append(context[g].recent, Entry(d)))
    <3>1. context[g].recent \in Seq(Entries) /\ Entry(d) \in Entries
      BY LogOfGroup, QueueAssumption DEF Entry, Entries
    <3>2. r \in Elements(Append(context[g].recent, Entry(d)))
      BY <1>9, <2>2, KeptElements
    <3> QED BY <2>2, <3>1, <3>2, AppendedElements
  <2> QED BY <2>1, <2>2, AcceptMovesLog
<1>10. RecordsAreKept'
  <2> SUFFICES ASSUME NEW g \in Groups, NEW r \in Elements(context'[g].recent)
               PROVE  \E e \in Elements(accepted') :
                         /\ KeyOf[e] = r.id /\ MessageIdOf[e] = r.message
                         /\ GroupOf[ConversationOf[e]] = g /\ ~Dropped(e)'
    BY DEF RecordsAreKept
  <2>1. CASE r = Entry(d) /\ GroupOf[ConversationOf[d]] = g
    <3>1. KeyOf[d] = r.id /\ MessageIdOf[d] = r.message
      BY <2>1 DEF Entry
    <3>2. ~Dropped(d)'
      BY <1>2, <1>4, <1>6
    <3> QED BY <1>5, <2>1, <3>1, <3>2
  <2>2. CASE r \in Elements(context[g].recent)
    <3>1. PICK e \in Elements(accepted) :
              /\ KeyOf[e] = r.id /\ MessageIdOf[e] = r.message
              /\ GroupOf[ConversationOf[e]] = g /\ ~Dropped(e)
      BY <2>2 DEF RecordsAreKept
    <3>2. e \in Deliveries /\ e \in Elements(accepted')
      <4>1. e \in Deliveries
        BY <1>4, <3>1 DEF Elements
      <4> QED BY <1>5, <3>1, <4>1
    <3>3. e # drop
      <4> SUFFICES ASSUME e = drop PROVE FALSE
        OBVIOUS
      <4>1. drop # None /\ Waiting(drop) /\ ConversationOf[drop] = ConversationOf[d]
        BY <1>1, <1>2, <1>4, <3>2, VictimIsNear
      <4>2. recordId[drop] = r.id
        BY <2>2, <3>1, <3>2, <4>1 DEF WaitingKnowsRecord
      <4>3. recordId[drop] # None
        BY <3>1, <3>2, <4>2, QueueAssumption
      <4> QED BY <1>1, <3>1, <4>1, <4>2, <4>3, VictimLosesRecord
    <3> QED BY <1>6, <3>1, <3>2, <3>3
  <2> QED BY <1>9, <2>1, <2>2
<1>11. WaitingKnowsRecord'
  <2> SUFFICES ASSUME NEW e \in Deliveries, NEW g \in Groups, Waiting(e)',
                      GroupOf[ConversationOf[e]] = g,
                      NEW r \in Elements(context'[g].recent), r.id = KeyOf[e]
               PROVE  recordId'[e] = r.id
    BY DEF WaitingKnowsRecord
  <2>1. CASE e = d
    <3>1. RecordIdFor(d) = KeyOf[d]
      <4>1. CASE r \in Elements(context[g].recent)
        <5>1. PICK i \in 1..Len(context[g].recent) : context[g].recent[i] = r
          BY <4>1 DEF Elements
        <5> QED BY <2>1, <5>1, RecordIdIsOwn
      <4>2. CASE r \notin Elements(context[g].recent)
        <5>1. ~(Keeps(context'[g].recent, context[g].recent))
          BY <4>2, KeptElements
        <5>2. PICK R : R = Log!Recorded(context[g], Entry(d))
          OBVIOUS
        <5>3. RecordIdFor(d) = KeyOf[d] \/ R = context[g]
          BY <2>1, <5>2, RecordedLog
        <5>4. R # context[g]
          <6>1. context'[g] = R \/ \E id : context'[g] = Log!Removed(R, id)
            BY <1>1, <2>1, <5>2, AcceptedLog
          <6>2. context[g] \in LogType /\ GoodLog(context[g])
                /\ context[g].recent \in Seq(Entries)
            BY LogOfGroup
          <6> QED BY <5>1, <6>1, <6>2, KeepsAll, RemovedFacts
        <5> QED BY <5>3, <5>4
      <4> QED BY <4>1, <4>2
    <3> QED BY <1>3, <2>1, <3>1
  <2>2. CASE e # d
    <3>1. Waiting(e) /\ e # drop /\ recordId'[e] = recordId[e]
      BY <1>2, <1>3, <2>2
    <3>2. r # Entry(d)
      BY <1>7, <3>1 DEF Entry, Live
    <3> QED BY <1>9, <3>1, <3>2 DEF WaitingKnowsRecord
  <2> QED BY <2>1, <2>2
<1>12. InFlightIsAccepted'
  <2>1. \A e \in Deliveries : Live(e)' => e = d \/ Live(e)
    BY <1>2, <1>3 DEF Live, Processing
  <2> QED BY <1>3, <1>5, <2>1 DEF InFlightIsAccepted
<1> QED BY <1>8, <1>10, <1>11, <1>12

(* A step that accepts nothing and adds no record, and after which nothing *)
(* is in flight that was not, leaves the logs to their messages.           *)
LEMMA LogsStay ==
    ASSUME QueueInv, CallInv, LogsTyped, LogInv, UNCHANGED <<accepted, recordId>>,
           submitted \subseteq submitted',
           \A d \in Deliveries : Dropped(d)' => Dropped(d),
           \A d \in Deliveries : (Waiting(d)' => Waiting(d)) /\ (Live(d)' => Live(d)),
           \A g \in Groups :
              GoodLog(context'[g]) /\ Keeps(context'[g].recent, context[g].recent)
    PROVE  LogInv'
<1> USE DEF LogInv
<1>1. \A g \in Groups :
         Elements(context'[g].recent) \subseteq Elements(context[g].recent)
  BY KeptElements
<1>2. \A d \in Elements(accepted) : d \in Deliveries
  BY DEF LogsTyped, Elements
<1>3. RecordsAreKept'
  <2> SUFFICES ASSUME NEW g \in Groups, NEW r \in Elements(context'[g].recent)
               PROVE  \E e \in Elements(accepted') :
                         /\ KeyOf[e] = r.id /\ MessageIdOf[e] = r.message
                         /\ GroupOf[ConversationOf[e]] = g /\ ~Dropped(e)'
    BY DEF RecordsAreKept
  <2>1. PICK e \in Elements(accepted) :
            /\ KeyOf[e] = r.id /\ MessageIdOf[e] = r.message
            /\ GroupOf[ConversationOf[e]] = g /\ ~Dropped(e)
    BY <1>1 DEF RecordsAreKept
  <2>2. e \in Elements(accepted') /\ ~Dropped(e)'
    BY <1>2, <2>1
  <2> QED BY <2>1, <2>2
<1>4. LogsAreGood'
  BY DEF LogsAreGood
<1>5. WaitingKnowsRecord'
  BY <1>1 DEF WaitingKnowsRecord
<1>6. InFlightIsAccepted'
  BY DEF InFlightIsAccepted
<1> QED BY <1>3, <1>4, <1>5, <1>6

(* Taking a delivery that was never submitted into account drops nothing.  *)
LEMMA NothingDropped ==
    ASSUME CallInv, NEW d \in Deliveries, dropped' = [dropped EXCEPT ![d] = None]
    PROVE  \A e \in Deliveries : Dropped(e)' => Dropped(e)
BY QueueAssumption DEF CallInv, CallTyped, Dropped

(* The answered turn of a group consumes unread records and no others.     *)
LEMMA ProcessMovesLog ==
    ASSUME LogsTyped, RecordsAreKept, LogsAreGood, NEW d \in Deliveries,
           ProcessStep(d), NEW h \in Groups
    PROVE  GoodLog(context'[h]) /\ Keeps(context'[h].recent, context[h].recent)
<1>1. CASE UNCHANGED context
  BY <1>1, SameLog
<1>2. CASE ~UNCHANGED context
  <2>1. PICK g : /\ g = GroupOf[ConversationOf[d]] /\ g # None
                 /\ context' = [context EXCEPT ![g] = Log!Consumed(@, recordId[d])]
    BY <1>2 DEF ProcessStep, FinishProcessor, ReleaseProcessed
  <2>2. CASE g # h
    <3>1. context'[h] = context[h]
      BY <2>1, <2>2 DEF LogsTyped
    <3> QED BY <3>1, SameLog
  <2>3. CASE g = h
    <3>1. context'[h] = Log!Consumed(context[h], recordId[d])
      BY <2>1, <2>3 DEF LogsTyped
    <3>2. /\ context[h] \in LogType /\ GoodLog(context[h])
          /\ context[h].recent \in Seq(Entries)
      BY LogOfGroup
    <3>3. /\ GoodLog(context'[h]) /\ context'[h].recent = context[h].recent
      BY <3>1, <3>2, ConsumedFacts
    <3> QED BY <3>2, <3>3, KeepsAll
  <2> QED BY <2>2, <2>3
<1> QED BY <1>1, <1>2

(* Nothing is recorded at first.                                           *)
LEMMA LogStart == Init => LogInv
<1> SUFFICES ASSUME Init PROVE LogInv
  OBVIOUS
<1>1. /\ \A g \in Groups : context[g] = [unread |-> <<>>, recent |-> <<>>]
      /\ accepted = <<>>
  BY DEF Init, Log!EmptyLog
<1>2. \A g \in Groups : /\ context[g].recent = <<>> /\ context[g].unread = <<>>
                        /\ Len(context[g].recent) = 0 /\ Len(context[g].unread) = 0
  BY <1>1
<1>3. RecordsAreKept /\ WaitingKnowsRecord
  BY <1>2 DEF RecordsAreKept, WaitingKnowsRecord, Elements
<1>4. LogsAreGood
  <2>1. ASSUME NEW g \in Groups PROVE GoodLog(context[g])
    <3>1. Cut(context[g].unread, context[g].recent, 0)
      BY <1>2 DEF Cut
    <3>2. OnceEach(context[g].recent)
      BY <1>2 DEF OnceEach
    <3> QED BY <3>1, <3>2 DEF GoodLog
  <2> QED BY <2>1 DEF LogsAreGood
<1>5. InFlightIsAccepted
  <2>1. \A d \in Deliveries : ~Live(d)
    BY QueueAssumption DEF Init, Live, Waiting, Processing, Elements
  <2>2. Elements(accepted) = {}
    BY <1>1 DEF Elements
  <2> QED BY <2>1, <2>2 DEF InFlightIsAccepted
<1> QED BY <1>3, <1>4, <1>5 DEF LogInv

(* Every step of the queue keeps the logs to their messages.               *)
LEMMA LogInvStep ==
    ASSUME QueueInv, CallInv, LogsTyped, LogInv, [Next]_vars
    PROVE  LogInv'
<1> USE QueueAssumption
<1>0. RecordsAreKept /\ LogsAreGood
  BY DEF LogInv
<1>1. ASSUME UNCHANGED context
      PROVE  \A g \in Groups :
                GoodLog(context'[g]) /\ Keeps(context'[g].recent, context[g].recent)
  BY <1>0, <1>1, SameLog
<1>2. ASSUME UNCHANGED <<pending, processPc>>
      PROVE  \A d \in Deliveries : (Waiting(d)' => Waiting(d)) /\ (Live(d)' => Live(d))
  BY <1>2 DEF Waiting, Processing, Live
<1>3. CASE UNCHANGED vars
  <2>1. /\ UNCHANGED <<context, accepted, recordId, pending, processPc, submitted>>
        /\ \A d \in Deliveries : Dropped(d)' => Dropped(d)
    BY <1>3 DEF vars, conversationVars, callVars, Dropped
  <2> QED BY <1>1, <1>2, <2>1, LogsStay
<1>4. ASSUME NEW d \in Deliveries, Submit(d)
      PROVE  LogInv'
  <2>1. CASE Accept(d)
    BY <2>1, AcceptKeepsLogs
  <2>2. CASE Ignore(d) \/ SkipDuplicate(d) \/ Refuse(d)
    <3>1. /\ UNCHANGED <<context, accepted, recordId, pending, processPc>>
          /\ dropped' = [dropped EXCEPT ![d] = None]
          /\ submitted' = submitted \cup {d}
      BY <2>2 DEF Ignore, SkipDuplicate, Refuse, Return, conversationVars
    <3>2. \A e \in Deliveries : Dropped(e)' => Dropped(e)
      BY <3>1, NothingDropped
    <3> QED BY <1>1, <1>2, <3>1, <3>2, LogsStay
  <2>3. CASE SpawnFails(d)
    <3>1. /\ UNCHANGED <<accepted, recordId, pending, processPc>>
          /\ dropped' = [dropped EXCEPT ![d] = None]
          /\ submitted' = submitted \cup {d}
      BY <2>3 DEF SpawnFails, Return
    <3>2. \A e \in Deliveries : Dropped(e)' => Dropped(e)
      BY <3>1, NothingDropped
    <3>3. \A g \in Groups :
             GoodLog(context'[g]) /\ Keeps(context'[g].recent, context[g].recent)
      BY <1>0, <2>3, SpawnMovesLog
    <3> QED BY <1>2, <3>1, <3>2, <3>3, LogsStay
  <2> QED BY <1>4, <2>1, <2>2, <2>3 DEF Submit
<1>5. ASSUME NEW d \in Deliveries, CleanUp(d)
      PROVE  LogInv'
  <2>1. /\ UNCHANGED <<context, accepted, recordId, pending, processPc, submitted>>
        /\ UNCHANGED dropped
    BY <1>5
       DEF CleanUp, ReleaseDropped, TellDropped, TellRejected, ReleaseOwn,
           Discharge, conversationVars
  <2>2. \A e \in Deliveries : Dropped(e)' => Dropped(e)
    BY <2>1 DEF Dropped
  <2> QED BY <1>1, <1>2, <2>1, <2>2, LogsStay
<1>6. ASSUME NEW d \in Deliveries, ProcessStep(d)
      PROVE  LogInv'
  <2>1. UNCHANGED <<accepted, recordId, pending, submitted, dropped>>
    BY <1>6
       DEF ProcessStep, FinishProcessor, ReleaseProcessed, conversationVars, callVars
  <2>2. \A e \in Deliveries : Processing(e)' => Processing(e)
    BY <1>6 DEF ProcessStep, FinishProcessor, ReleaseProcessed, Processing,
                QueueInv, QueueTypeOK
  <2>3. \A e \in Deliveries : /\ Dropped(e)' => Dropped(e)
                              /\ (Waiting(e)' => Waiting(e)) /\ (Live(e)' => Live(e))
    BY <2>1, <2>2 DEF Dropped, Waiting, Live
  <2>4. \A g \in Groups :
           GoodLog(context'[g]) /\ Keeps(context'[g].recent, context[g].recent)
    BY <1>0, <1>6, ProcessMovesLog
  <2> QED BY <2>1, <2>3, <2>4, LogsStay
<1>7. ASSUME NEW w \in Workers, WorkerStep(w) \/ TimeOut(w) \/ Retire(w)
      PROVE  LogInv'
  <2>1. /\ UNCHANGED <<context, accepted, recordId, submitted, dropped>>
    BY <1>7 DEF WorkerStep, TakeTurn, GoIdle, TimeOut, Retire, callVars
  <2>2. \A e \in Deliveries : (Waiting(e)' => Waiting(e)) /\ (Live(e)' => Live(e))
    <3>1. CASE TakeTurn(w)
      <4>1. PICK d : d = Head(pending[workerOf[w]])
        OBVIOUS
      <4>2. /\ d \in Deliveries /\ Waiting(d)
            /\ \A e \in Deliveries : Waiting(e)' <=> Waiting(e) /\ e # d
        BY <3>1, <4>1, TakenWaits
      <4>3. processPc' = [processPc EXCEPT ![d] = "running"]
        BY <3>1, <4>1 DEF TakeTurn
      <4>4. \A e \in Deliveries : e # d => (Processing(e)' => Processing(e))
        BY <4>2, <4>3 DEF Processing, QueueInv, QueueTypeOK
      <4> QED BY <4>2, <4>4 DEF Live
    <3>2. CASE GoIdle(w) \/ TimeOut(w) \/ Retire(w)
      <4>1. UNCHANGED <<pending, processPc>>
        BY <3>2 DEF GoIdle, TimeOut, Retire, conversationVars
      <4> QED BY <1>2, <4>1
    <3> QED BY <1>7, <3>1, <3>2 DEF WorkerStep
  <2>3. \A e \in Deliveries : Dropped(e)' => Dropped(e)
    BY <2>1 DEF Dropped
  <2> QED BY <1>1, <2>1, <2>2, <2>3, LogsStay
<1>8. CASE DedupeAges
  <2>1. /\ UNCHANGED <<context, accepted, recordId, pending, processPc, submitted>>
        /\ \A d \in Deliveries : Dropped(d)' => Dropped(d)
    BY <1>8 DEF DedupeAges, conversationVars, callVars, Dropped
  <2> QED BY <1>1, <1>2, <2>1, LogsStay
<1>9. ASSUME NEW g \in Groups, ContextAges(g)
      PROVE  LogInv'
  <2>1. /\ UNCHANGED <<accepted, recordId, pending, processPc, submitted>>
        /\ \A d \in Deliveries : Dropped(d)' => Dropped(d)
        /\ context[g].recent # <<>>
        /\ context' = [context EXCEPT ![g] = Log!Expired(@)]
    BY <1>9 DEF ContextAges, conversationVars, callVars, Dropped
  <2>2. ASSUME NEW h \in Groups
        PROVE  GoodLog(context'[h]) /\ Keeps(context'[h].recent, context[h].recent)
    <3>1. CASE h # g
      <4>1. context'[h] = context[h]
        BY <2>1, <3>1 DEF LogsTyped
      <4> QED BY <1>0, <4>1, SameLog
    <3>2. CASE h = g
      <4>1. context'[h] = Log!Expired(context[h])
        BY <2>1, <3>2 DEF LogsTyped
      <4>2. context[h] \in LogType /\ GoodLog(context[h])
        BY <1>0, LogOfGroup
      <4> QED BY <2>1, <3>2, <4>1, <4>2, ExpiredFacts
    <3> QED BY <3>1, <3>2
  <2> QED BY <1>2, <2>1, <2>2, LogsStay
<1> QED BY <1>3, <1>4, <1>5, <1>6, <1>7, <1>8, <1>9 DEF Next

(* All the invariants of the queue hold together.                          *)
LEMMA LogInvariance == Spec => [](QueueInv /\ CallInv /\ RestTyped /\ LogInv)
<1>1. Init => RestTyped /\ LogInv
  BY RestStart, LogStart
<1>2. QueueInv /\ CallInv /\ RestTyped /\ LogInv /\ [Next]_vars
      => RestTyped' /\ LogInv'
  BY RestStep, LogInvStep DEF RestTyped
<1> QED BY <1>1, <1>2, CallInvariance, PTL DEF Spec

(* Whatever bots share a group's log, whatever is dropped, rolled back,    *)
(* delivered again or grown old, no record in it is left behind by a       *)
(* message that was replaced or refused.                                   *)
THEOREM ContextOutlivesNoTurn == Spec => []ContextIsOfKeptTurns
<1>1. LogInv => ContextIsOfKeptTurns
  <2> SUFFICES ASSUME LogInv, NEW g \in Groups, NEW r \in Elements(context[g].recent)
               PROVE  \E d \in Elements(accepted) : KeyOf[d] = r.id /\ ~Dropped(d)
    BY DEF ContextIsOfKeptTurns
  <2>1. PICK d \in Elements(accepted) : KeyOf[d] = r.id /\ ~Dropped(d)
    BY DEF LogInv, RecordsAreKept
  <2> QED BY <2>1
<1> QED BY <1>1, LogInvariance, PTL

-----------------------------------------------------------------------------
(* The log of a group is cut at the right place for each turn, when one    *)
(* bot serves the group, nothing in the log grows old, no message is       *)
(* accepted twice, and the log can hold what is in flight and two more.    *)

OneBot ==
    \A c, e \in Conversations :
        GroupOf[c] = GroupOf[e] /\ GroupOf[c] # None => c = e

AcceptedOnce ==
    \A i, j \in 1..Len(accepted) :
        KeyOf[accepted[i]] = KeyOf[accepted[j]] => i = j

(* The log ends in the records of the queue q, and before them of d.       *)
Ends(u, q) ==
    /\ Len(q) <= Len(u)
    /\ \A k \in 1..Len(q) : u[Len(u) - Len(q) + k] = Entry(q[k])

Precedes(u, q, d) ==
    /\ Len(q) < Len(u)
    /\ u[Len(u) - Len(q)] = Entry(d)

UnreadEndsInQueue ==
    \A c \in Conversations : \A g \in Groups : GroupOf[c] = g =>
        /\ Ends(context[g].unread, pending[c])
        /\ \A d \in Deliveries :
              processPc[d] = "running" /\ ConversationOf[d] = c =>
                  Precedes(context[g].unread, pending[c], d)

(* A turn that waits or runs has a record of its own.                      *)
OwnRecord ==
    \A d \in Deliveries : \A g \in Groups :
        /\ Waiting(d) \/ processPc[d] = "running"
        /\ GroupOf[ConversationOf[d]] = g
        => recordId[d] = KeyOf[d]

(* The records are in the order their messages were accepted in.           *)
Ordered(s, acc) ==
    \A i, j \in 1..Len(s) : i < j =>
        \E p, q \in 1..Len(acc) :
            p < q /\ KeyOf[acc[p]] = s[i].id /\ KeyOf[acc[q]] = s[j].id

InOrder == \A g \in Groups : Ordered(context[g].recent, accepted)

TimelyInv ==
    /\ UnreadEndsInQueue
    /\ OwnRecord
    /\ InOrder

(* What is unread of a good log names each record once, too.               *)
LEMMA GoodUnread ==
    ASSUME NEW log \in LogType, GoodLog(log)
    PROVE  OnceEach(log.unread) /\ log.unread \in Seq(Entries)
<1>1. /\ log.recent \in Seq(Entries) /\ log.unread \in Seq(Entries)
      /\ OnceEach(log.recent)
  BY DEF LogType, GoodLog
<1>2. PICK k \in Nat : Cut(log.unread, log.recent, k)
  BY DEF GoodLog
<1>3. Keeps(log.unread, log.recent)
  BY <1>1, <1>2, CutKeeps
<1> QED BY <1>1, <1>3, KeepsOnce

(* The log that ends in the queue ends in it when one more is recorded and *)
(* queued: the limit cuts off none of them.                                *)
LEMMA QueuedEnds ==
    ASSUME NEW q \in Seq(Deliveries), NEW u \in Seq(Entries), NEW d \in Deliveries,
           Ends(u, q), Len(q) <= MaxPending, HistoryLimit >= MaxPending + 2,
           NEW L, L = Log!LastRecords(Append(u, Entry(d)))
    PROVE  /\ Ends(L, Append(q, d))
           /\ \A e \in Deliveries : Precedes(u, q, e) => Precedes(L, Append(q, d), e)
<1>0. Entry(d) \in Entries /\ MaxPending \in Nat /\ HistoryLimit \in Nat
  BY QueueAssumption DEF Entry, Entries
<1>1. PICK U \in Seq(Entries) : U = Append(u, Entry(d))
  BY <1>0, AppendProperties
<1>2. PICK Q \in Seq(Deliveries) : Q = Append(q, d)
  BY AppendProperties
<1>3. /\ Len(U) = Len(u) + 1 /\ U[Len(u) + 1] = Entry(d) /\ Len(u) \in Nat
      /\ \A i \in 1..Len(u) : U[i] = u[i]
  BY <1>0, <1>1, AppendProperties
<1>4. /\ Len(Q) = Len(q) + 1 /\ Q[Len(q) + 1] = d /\ Len(q) \in Nat
      /\ \A i \in 1..Len(q) : Q[i] = q[i]
  BY <1>2, AppendProperties
<1>5. PICK T \in Seq(Entries), a \in Nat :
          /\ Log!LastRecords(U) = T /\ Cut(T, U, a) /\ (a # 0 => Len(T) = HistoryLimit)
  BY LastRecordsFacts
<1>6. L = T /\ Len(T) \in Nat /\ Len(U) = a + Len(T)
  BY <1>1, <1>5 DEF Cut
<1>7. Len(q) <= Len(u)
  BY DEF Ends
<1>8. Len(Q) <= Len(T) /\ (Len(q) < Len(u) => Len(Q) < Len(T))
  BY <1>0, <1>3, <1>4, <1>5, <1>6, <1>7
<1>9. ASSUME NEW k \in 1..Len(Q)
      PROVE  T[Len(T) - Len(Q) + k] = Entry(Q[k])
  <2>1. PICK x \in 1..Len(T) : x = Len(T) - Len(Q) + k
    <3>1. Len(T) - Len(Q) + k \in 1..Len(T)
      BY <1>4, <1>6, <1>8
    <3> QED BY <3>1
  <2>2. T[x] = U[a + x] /\ a + x = Len(u) - Len(q) + k
    <3>1. T[x] = U[a + x]
      BY <1>5, <2>1 DEF Cut
    <3>2. /\ Len(U) = Len(u) + 1 /\ Len(Q) = Len(q) + 1 /\ k \in Nat
          /\ Len(u) \in Nat /\ Len(q) \in Nat
      BY <1>3, <1>4
    <3>3. a + x = Len(U) - Len(Q) + k
      BY <1>3, <1>4, <1>6, <2>1, <3>2
    <3>4. Len(U) - Len(Q) = Len(u) - Len(q)
      BY <3>2
    <3>5. a + x = Len(u) - Len(q) + k
      BY <3>3, <3>4
    <3> QED BY <3>1, <3>5
  <2>3. CASE k = Len(q) + 1
    <3>1. a + x = Len(u) + 1
      BY <1>3, <1>4, <2>2, <2>3
    <3> QED BY <1>3, <1>4, <2>1, <2>2, <2>3, <3>1
  <2>4. CASE k # Len(q) + 1
    <3>1. k \in 1..Len(q)
      BY <1>4, <2>4
    <3>2. a + x \in 1..Len(u)
      BY <1>3, <1>4, <1>7, <2>2, <3>1
    <3>3. U[a + x] = u[Len(u) - Len(q) + k]
      BY <1>3, <2>2, <3>2
    <3>4. u[Len(u) - Len(q) + k] = Entry(q[k])
      BY <3>1 DEF Ends
    <3> QED BY <1>4, <2>1, <2>2, <3>1, <3>3, <3>4
  <2> QED BY <2>3, <2>4
<1>10. ASSUME NEW e \in Deliveries, Precedes(u, q, e)
       PROVE  Precedes(T, Q, e)
  <2>1. Len(q) < Len(u) /\ u[Len(u) - Len(q)] = Entry(e)
    BY <1>10 DEF Precedes
  <2>2. PICK x \in 1..Len(T) : x = Len(T) - Len(Q)
    <3>1. Len(T) - Len(Q) \in 1..Len(T)
      BY <1>4, <1>6, <1>8, <2>1
    <3> QED BY <3>1
  <2>3. T[x] = U[a + x] /\ a + x = Len(u) - Len(q)
    <3>1. T[x] = U[a + x]
      BY <1>5, <2>2 DEF Cut
    <3>2. /\ Len(U) = Len(u) + 1 /\ Len(Q) = Len(q) + 1
          /\ Len(u) \in Nat /\ Len(q) \in Nat
      BY <1>3, <1>4
    <3>3. a + x = Len(U) - Len(Q)
      BY <1>6, <2>2, <3>2
    <3> QED BY <3>1, <3>2, <3>3
  <2>4. a + x \in 1..Len(u)
    BY <1>3, <1>4, <2>1, <2>3
  <2>5. T[Len(T) - Len(Q)] = Entry(e)
    BY <1>3, <2>1, <2>2, <2>3, <2>4
  <2> QED BY <1>8, <2>1, <2>5 DEF Precedes
<1>11. Ends(T, Q)
  BY <1>8, <1>9 DEF Ends
<1> QED BY <1>2, <1>6, <1>10, <1>11

(* Taking one turn out of the queue and its record out of the log.         *)
LEMMA DroppedEnds ==
    ASSUME NEW q \in Seq(Deliveries), NEW u \in Seq(Entries), NEW d \in Deliveries,
           NEW v \in 1..Len(q), OnceEach(u), Ends(u, Append(q, d)),
           NEW R, R = Log!DropId(u, KeyOf[q[v]])
    PROVE  /\ Ends(R, Append(DropAt(q, v), d))
           /\ \A e \in Deliveries :
                 Precedes(u, Append(q, d), e) => Precedes(R, Append(DropAt(q, v), d), e)
<1>1. PICK Q \in Seq(Deliveries) : Q = Append(q, d)
  BY AppendProperties
<1>2. /\ Len(Q) = Len(q) + 1 /\ Q[Len(q) + 1] = d /\ Len(q) \in Nat /\ Len(u) \in Nat
      /\ \A i \in 1..Len(q) : Q[i] = q[i]
  BY <1>1, AppendProperties
<1>3. PICK s \in Seq(Deliveries) :
          /\ s = DropAt(q, v) /\ Len(s) = Len(q) - 1
          /\ \A j \in 1..(Len(q) - 1) : s[j] = IF j < v THEN q[j] ELSE q[j + 1]
  BY DropAtFacts
<1>4. PICK S \in Seq(Deliveries) : S = Append(s, d)
  BY AppendProperties
<1>5. /\ Len(S) = Len(s) + 1 /\ S[Len(s) + 1] = d /\ Len(S) = Len(q)
      /\ \A i \in 1..Len(s) : S[i] = s[i]
  <2>1. Len(S) = Len(s) + 1 /\ S[Len(s) + 1] = d /\ \A i \in 1..Len(s) : S[i] = s[i]
    BY <1>4, AppendProperties
  <2> QED BY <1>2, <1>3, <2>1
<1>6. \A k \in 1..Len(S) : S[k] = IF k < v THEN Q[k] ELSE Q[k + 1]
  <2> SUFFICES ASSUME NEW k \in 1..Len(S)
               PROVE  S[k] = IF k < v THEN Q[k] ELSE Q[k + 1]
    OBVIOUS
  <2>1. CASE k = Len(q)
    <3>1. ~(k < v) /\ k = Len(s) + 1 /\ k + 1 = Len(q) + 1
      BY <1>2, <1>3, <2>1
    <3> QED BY <1>2, <1>5, <3>1
  <2>2. CASE k # Len(q)
    <3>1. k \in 1..(Len(q) - 1) /\ k \in 1..Len(s) /\ k \in 1..Len(q) /\ k + 1 \in 1..Len(q)
      BY <1>2, <1>3, <1>5, <2>2
    <3> QED BY <1>2, <1>3, <1>5, <3>1
  <2> QED BY <2>1, <2>2
<1>7. Ends(u, Q)
  BY <1>1
<1>8. Len(Q) <= Len(u) /\ \A k \in 1..Len(Q) : u[Len(u) - Len(Q) + k] = Entry(Q[k])
  BY <1>7 DEF Ends
<1>9. PICK P \in 1..Len(u) : P = Len(u) - Len(Q) + v
  <2>1. Len(u) - Len(Q) + v \in 1..Len(u)
    BY <1>2, <1>8
  <2> QED BY <2>1
<1>10. u[P].id = KeyOf[q[v]]
  <2>1. v \in 1..Len(Q) /\ Q[v] = q[v]
    BY <1>2
  <2>2. u[P] = Entry(q[v])
    BY <1>8, <1>9, <2>1
  <2> QED BY <2>2 DEF Entry
<1>11. Without(R, u, P)
  <2>1. PICK p \in 1..Len(u) : u[p].id = KeyOf[q[v]] /\ Without(R, u, p)
    BY <1>10, DropIdFacts
  <2>2. p = P
    BY <1>10, <2>1, OncePlaces
  <2> QED BY <2>1, <2>2
<1>12. Len(R) = Len(u) - 1 /\ \A j \in 1..Len(R) : R[j] = IF j < P THEN u[j] ELSE u[j + 1]
  BY <1>11 DEF Without
<1>13. Ends(R, S)
  <2>1. Len(S) <= Len(R)
    BY <1>2, <1>5, <1>8, <1>12
  <2>2. ASSUME NEW k \in 1..Len(S)
        PROVE  R[Len(R) - Len(S) + k] = Entry(S[k])
    <3>1. PICK x \in 1..Len(R) : x = Len(R) - Len(S) + k
      <4>1. Len(R) - Len(S) + k \in 1..Len(R)
        BY <1>2, <1>5, <1>12, <2>1
      <4> QED BY <4>1
    <3>2. /\ x = Len(u) - Len(Q) + k /\ x + 1 = Len(u) - Len(Q) + (k + 1)
          /\ (x < P <=> k < v) /\ k \in 1..Len(Q) /\ k + 1 \in 1..Len(Q)
      BY <1>2, <1>5, <1>9, <1>12, <3>1
    <3>3. R[x] = IF x < P THEN u[x] ELSE u[x + 1]
      BY <1>12
    <3>4. u[x] = Entry(Q[k]) /\ u[x + 1] = Entry(Q[k + 1])
      BY <1>8, <3>2
    <3> QED BY <1>6, <3>1, <3>2, <3>3, <3>4
  <2> QED BY <2>1, <2>2 DEF Ends
<1>14. ASSUME NEW e \in Deliveries, Precedes(u, Q, e)
       PROVE  Precedes(R, S, e)
  <2>1. Len(Q) < Len(u) /\ u[Len(u) - Len(Q)] = Entry(e)
    BY <1>14 DEF Precedes
  <2>2. PICK x \in 1..Len(R) : x = Len(R) - Len(S)
    <3>1. Len(R) - Len(S) \in 1..Len(R)
      BY <1>2, <1>5, <1>12, <2>1
    <3> QED BY <3>1
  <2>3. x = Len(u) - Len(Q) /\ x < P /\ Len(S) < Len(R)
    BY <1>2, <1>5, <1>9, <1>12, <2>1, <2>2
  <2>4. R[x] = u[x]
    BY <1>12, <2>3
  <2> QED BY <2>1, <2>2, <2>3, <2>4 DEF Precedes
<1> QED BY <1>1, <1>3, <1>4, <1>13, <1>14

(* The turn that is taken from the queue comes before the rest of it.      *)
LEMMA TakenEnds ==
    ASSUME NEW q \in Seq(Deliveries), NEW u \in Seq(Entries), q # <<>>, Ends(u, q)
    PROVE  Ends(u, Tail(q)) /\ Precedes(u, Tail(q), Head(q))
<1>1. PICK t \in Seq(Deliveries) : t = Tail(q) /\ Cut(t, q, 1)
  BY TailCuts
<1>2. /\ Len(q) = 1 + Len(t) /\ Len(t) \in Nat /\ Len(u) \in Nat
      /\ \A k \in 1..Len(t) : t[k] = q[1 + k]
  BY <1>1 DEF Cut
<1>3. Len(q) <= Len(u) /\ \A k \in 1..Len(q) : u[Len(u) - Len(q) + k] = Entry(q[k])
  BY DEF Ends
<1>4. ASSUME NEW k \in 1..Len(t)
      PROVE  u[Len(u) - Len(t) + k] = Entry(t[k])
  <2>1. 1 + k \in 1..Len(q) /\ Len(u) - Len(t) + k = Len(u) - Len(q) + (1 + k)
    BY <1>2
  <2>2. u[Len(u) - Len(q) + (1 + k)] = Entry(q[1 + k])
    BY <1>3, <2>1
  <2> QED BY <1>2, <2>1, <2>2
<1>5. Ends(u, t)
  <2>1. Len(t) <= Len(u)
    BY <1>2, <1>3
  <2> QED BY <1>4, <2>1 DEF Ends
<1>6. Precedes(u, t, Head(q))
  <2>1. 1 \in 1..Len(q) /\ Len(u) - Len(q) + 1 = Len(u) - Len(t) /\ Len(t) < Len(u)
    BY <1>2, <1>3
  <2>2. u[Len(u) - Len(q) + 1] = Entry(q[1]) /\ q[1] = Head(q)
    BY <1>3, <2>1
  <2> QED BY <2>1, <2>2 DEF Precedes
<1> QED BY <1>1, <1>5, <1>6

(* The turn that is answered consumes what came before the queue.          *)
LEMMA ConsumedEnds ==
    ASSUME NEW q \in Seq(Deliveries), NEW u \in Seq(Entries), NEW d \in Deliveries,
           OnceEach(u), Ends(u, q), Precedes(u, q, d), NEW t,
           \/ (\A i \in 1..Len(u) : u[i].id # KeyOf[d]) /\ t = u
           \/ \E p \in 1..Len(u) : u[p].id = KeyOf[d] /\ Cut(t, u, p)
    PROVE  Ends(t, q)
<1>1. Len(q) \in Nat /\ Len(u) \in Nat /\ Len(q) < Len(u) /\ u[Len(u) - Len(q)] = Entry(d)
  BY DEF Precedes
<1>2. PICK x \in 1..Len(u) : x = Len(u) - Len(q)
  <2>1. Len(u) - Len(q) \in 1..Len(u)
    BY <1>1
  <2> QED BY <2>1
<1>3. u[x].id = KeyOf[d]
  BY <1>1, <1>2 DEF Entry
<1>4. PICK p \in 1..Len(u) : u[p].id = KeyOf[d] /\ Cut(t, u, p)
  BY <1>3
<1>5. p = x
  BY <1>3, <1>4, OncePlaces
<1>6. Len(u) = x + Len(t) /\ \A i \in 1..Len(t) : t[i] = u[x + i]
  BY <1>4, <1>5 DEF Cut
<1>7. PICK len : len = Len(t)
  OBVIOUS
<1>8. \A k \in 1..Len(q) : u[Len(u) - Len(q) + k] = Entry(q[k])
  BY DEF Ends
<1>9. Len(t) = Len(q)
  <2>1. Len(t) \in Nat
    BY <1>6, <1>7, SMT
  <2> QED BY <1>1, <1>2, <1>6, <2>1
<1>10. ASSUME NEW k \in 1..Len(q)
       PROVE  t[Len(t) - Len(q) + k] = Entry(q[k])
  <2>1. Len(t) - Len(q) + k = k /\ Len(u) - Len(q) + k = x + k /\ k \in 1..Len(t)
    BY <1>1, <1>2, <1>9
  <2> QED BY <1>6, <1>8, <2>1
<1> QED BY <1>1, <1>9, <1>10 DEF Ends

-----------------------------------------------------------------------------
(* The log stays cut at the right places.                                  *)

(* Records that are kept stay in their order, also when more is accepted.  *)
LEMMA OrderedKeeps ==
    ASSUME NEW s \in Seq(Entries), NEW t \in Seq(Entries),
           NEW acc \in Seq(Deliveries), Keeps(t, s), Ordered(s, acc)
    PROVE  Ordered(t, acc)
<1>1. ASSUME NEW i \in 1..Len(t), NEW j \in 1..Len(t), i < j
      PROVE  \E p, q \in 1..Len(acc) :
                p < q /\ KeyOf[acc[p]] = t[i].id /\ KeyOf[acc[q]] = t[j].id
  <2>1. PICK k \in 1..Len(s), l \in 1..Len(s) : k < l /\ t[i] = s[k] /\ t[j] = s[l]
    BY <1>1 DEF Keeps
  <2>2. PICK p \in 1..Len(acc), q \in 1..Len(acc) :
            p < q /\ KeyOf[acc[p]] = s[k].id /\ KeyOf[acc[q]] = s[l].id
    BY <2>1 DEF Ordered
  <2> QED BY <2>1, <2>2
<1> QED BY <1>1 DEF Ordered

(* Accepting one more leaves the others where they were.                   *)
LEMMA OrderedGrows ==
    ASSUME NEW s \in Seq(Entries), NEW acc \in Seq(Deliveries),
           NEW d \in Deliveries, Ordered(s, acc)
    PROVE  Ordered(s, Append(acc, d))
<1>1. PICK A \in Seq(Deliveries) : A = Append(acc, d)
  BY AppendProperties
<1>2. \A i \in 1..Len(acc) : i \in 1..Len(A) /\ A[i] = acc[i]
  BY <1>1, AppendProperties
<1>3. ASSUME NEW i \in 1..Len(s), NEW j \in 1..Len(s), i < j
      PROVE  \E p, q \in 1..Len(A) :
                p < q /\ KeyOf[A[p]] = s[i].id /\ KeyOf[A[q]] = s[j].id
  <2>1. PICK p \in 1..Len(acc), q \in 1..Len(acc) :
            p < q /\ KeyOf[acc[p]] = s[i].id /\ KeyOf[acc[q]] = s[j].id
    BY <1>3 DEF Ordered
  <2> QED BY <1>2, <2>1
<1>4. Ordered(s, A)
  BY <1>3 DEF Ordered
<1> QED BY <1>1, <1>4

(* The record of what is accepted last comes last.                         *)
LEMMA OrderedAppends ==
    ASSUME NEW s \in Seq(Entries), NEW acc \in Seq(Deliveries), NEW d \in Deliveries,
           Ordered(s, acc),
           \A i \in 1..Len(s) : \E p \in 1..Len(acc) : KeyOf[acc[p]] = s[i].id
    PROVE  Ordered(Append(s, Entry(d)), Append(acc, d))
<1>0. Entry(d) \in Entries /\ Entry(d).id = KeyOf[d]
  BY QueueAssumption DEF Entry, Entries
<1>1. PICK A \in Seq(Deliveries) : A = Append(acc, d)
  BY AppendProperties
<1>2. /\ Len(A) = Len(acc) + 1 /\ Len(acc) \in Nat /\ A[Len(acc) + 1] = d
      /\ \A i \in 1..Len(acc) : A[i] = acc[i]
  BY <1>1, AppendProperties
<1>3. PICK S \in Seq(Entries) : S = Append(s, Entry(d))
  BY <1>0, AppendProperties
<1>4. /\ Len(S) = Len(s) + 1 /\ Len(s) \in Nat /\ S[Len(s) + 1] = Entry(d)
      /\ \A i \in 1..Len(s) : S[i] = s[i]
  BY <1>0, <1>3, AppendProperties
<1>5. \A i \in 1..Len(acc) : i \in 1..Len(A) /\ i < Len(acc) + 1
  BY <1>2
<1>6. ASSUME NEW i \in 1..Len(S), NEW j \in 1..Len(S), i < j
      PROVE  \E p, q \in 1..Len(A) :
                p < q /\ KeyOf[A[p]] = S[i].id /\ KeyOf[A[q]] = S[j].id
  <2>1. i \in 1..Len(s)
    BY <1>4, <1>6
  <2>2. CASE j = Len(s) + 1
    <3>1. PICK p \in 1..Len(acc) : KeyOf[acc[p]] = s[i].id
      BY <2>1
    <3>2. Len(acc) + 1 \in 1..Len(A)
      BY <1>2
    <3>3. KeyOf[A[p]] = S[i].id /\ KeyOf[A[Len(acc) + 1]] = S[j].id
      BY <1>0, <1>2, <1>4, <2>1, <2>2, <3>1
    <3> QED BY <1>5, <3>2, <3>3
  <2>3. CASE j # Len(s) + 1
    <3>1. j \in 1..Len(s)
      BY <1>4, <2>3
    <3>2. PICK p \in 1..Len(acc), q \in 1..Len(acc) :
              p < q /\ KeyOf[acc[p]] = s[i].id /\ KeyOf[acc[q]] = s[j].id
      BY <1>6, <2>1, <3>1 DEF Ordered
    <3> QED BY <1>2, <1>4, <1>5, <2>1, <3>1, <3>2
  <2> QED BY <2>2, <2>3
<1>7. Ordered(S, A)
  BY <1>6 DEF Ordered
<1> QED BY <1>1, <1>3, <1>7

(* Every record's message is among the accepted ones.                      *)
LEMMA RecordsAccepted ==
    ASSUME LogInv, NEW g \in Groups, NEW i \in 1..Len(context[g].recent)
    PROVE  \E p \in 1..Len(accepted) :
              /\ KeyOf[accepted[p]] = context[g].recent[i].id
              /\ MessageIdOf[accepted[p]] = context[g].recent[i].message
              /\ GroupOf[ConversationOf[accepted[p]]] = g
<1>1. context[g].recent[i] \in Elements(context[g].recent)
  BY DEF Elements
<1>2. PICK d \in Elements(accepted) :
          /\ KeyOf[d] = context[g].recent[i].id
          /\ MessageIdOf[d] = context[g].recent[i].message
          /\ GroupOf[ConversationOf[d]] = g
  BY <1>1 DEF LogInv, RecordsAreKept
<1>3. PICK p \in 1..Len(accepted) : d = accepted[p]
  BY DEF Elements
<1> QED BY <1>2, <1>3

(* Steps that leave the log, the queue and the accepted messages alone.    *)
LEMMA TimelyStays ==
    ASSUME TimelyInv, UNCHANGED <<context, pending, accepted, recordId>>,
           \A d \in Deliveries : processPc'[d] = "running" => processPc[d] = "running"
    PROVE  TimelyInv'
<1> USE DEF TimelyInv
<1>1. UnreadEndsInQueue'
  BY DEF UnreadEndsInQueue
<1>2. OwnRecord'
  BY DEF OwnRecord, Waiting
<1>3. InOrder'
  BY DEF InOrder
<1> QED BY <1>1, <1>2, <1>3

(* A conversation without a worker has nothing queued and nothing running. *)
LEMMA WorkerlessIsIdle ==
    ASSUME QueueInv, NEW c \in Conversations, ~WorkerLives(c)
    PROVE  /\ pending[c] = <<>>
           /\ \A d \in Deliveries : ConversationOf[d] = c => ~Processing(d)
<1>1. pending[c] = <<>>
  BY DEF QueueInv, QueueIsWoken, WorkersAreNamed, WorkerLives
<1>2. ASSUME NEW d \in Deliveries, ConversationOf[d] = c, Processing(d)
      PROVE  FALSE
  <2>1. PICK w \in Workers : workerPc[w] = "processing" /\ turnOf[w] = d
    BY <1>2 DEF QueueInv, ProcessesAreAwaited
  <2>2. workerOf[w] = c /\ workerTask[c] = w
    BY <1>2, <2>1 DEF QueueInv, WorkersAwait, LiveWorkers
  <2>3. w # None
    BY QueueAssumption
  <2> QED BY <2>1, <2>2, <2>3 DEF WorkerLives
<1> QED BY <1>1, <1>2

(* A worker is only missed where nothing waits or runs, so that the record *)
(* that goes with a failed start is no turn's in flight.                   *)
LEMMA SpawnKeepsTimely ==
    ASSUME OneBot, QueueInv, RestTyped, LogInv, TimelyInv,
           NEW d \in Deliveries, SpawnFails(d)
    PROVE  TimelyInv'
<1> USE QueueAssumption
<1>0. LogsTyped /\ RecordsAreKept /\ LogsAreGood /\ UnreadEndsInQueue /\ OwnRecord /\ InOrder
  BY DEF RestTyped, LogInv, TimelyInv
<1>1. PICK c \in Conversations : c = ConversationOf[d] /\ ~WorkerLives(c)
  BY DEF SpawnFails
<1>2. /\ UNCHANGED <<pending, processPc, recordId, accepted>>
      /\ context' = ContextWithout(ContextWith(d), d, RecordIdFor(d))
  BY DEF SpawnFails
<1>3. context' \in [Groups -> LogType] /\ context \in [Groups -> LogType]
  BY <1>0, <1>2, LogSteps DEF LogsTyped, LogType
<1>4. \A g \in Groups : GroupOf[c] # g => context'[g] = context[g]
  BY <1>1, <1>2, <1>3 DEF ContextWithout, ContextWith
<1>5. UnreadEndsInQueue'
  <2> SUFFICES ASSUME NEW e \in Conversations, NEW g \in Groups, GroupOf[e] = g
               PROVE  /\ Ends(context'[g].unread, pending[e])
                      /\ \A x \in Deliveries :
                            processPc[x] = "running" /\ ConversationOf[x] = e =>
                                Precedes(context'[g].unread, pending[e], x)
    BY <1>2 DEF UnreadEndsInQueue
  <2>1. CASE GroupOf[c] = g
    <3>1. e = c
      BY <2>1 DEF OneBot
    <3>2. pending[e] = <<>> /\ \A x \in Deliveries : ConversationOf[x] = e => ~Processing(x)
      BY <1>1, <3>1, WorkerlessIsIdle
    <3>3. Ends(context'[g].unread, pending[e])
      <4>1. Len(context'[g].unread) \in Nat
        BY <1>3 DEF LogType
      <4>2. Len(pending[e]) = 0
        BY <3>2
      <4> QED BY <4>1, <4>2 DEF Ends
    <3> QED BY <3>2, <3>3 DEF Processing
  <2>2. CASE GroupOf[c] # g
    <3>1. context'[g] = context[g]
      BY <1>4, <2>2
    <3> QED BY <1>0, <3>1 DEF UnreadEndsInQueue
  <2> QED BY <2>1, <2>2
<1>6. OwnRecord'
  BY <1>0, <1>2 DEF OwnRecord, Waiting
<1>7. InOrder'
  <2>1. ASSUME NEW g \in Groups
        PROVE  Ordered(context'[g].recent, accepted')
    <3>1. Keeps(context'[g].recent, context[g].recent)
      BY <1>0, SpawnMovesLog
    <3>2. /\ context'[g].recent \in Seq(Entries) /\ context[g].recent \in Seq(Entries)
          /\ accepted \in Seq(Deliveries)
      BY <1>0, <1>3 DEF LogType, LogsTyped
    <3> QED BY <1>0, <1>2, <3>1, <3>2, OrderedKeeps DEF InOrder
  <2> QED BY <2>1 DEF InOrder
<1> QED BY <1>5, <1>6, <1>7 DEF TimelyInv

(* What is accepted is not in the log yet, for a message of the log was    *)
(* accepted before.                                                        *)
LEMMA AcceptedIsNew ==
    ASSUME OneBot, LogsTyped, LogInv, NEW d \in Deliveries, Accept(d),
           AcceptedOnce', NEW g \in Groups, GroupOf[ConversationOf[d]] = g,
           NEW i \in 1..Len(context[g].recent)
    PROVE  context[g].recent[i].message # MessageIdOf[d]
<1> SUFFICES ASSUME context[g].recent[i].message = MessageIdOf[d]
             PROVE  FALSE
  OBVIOUS
<1>1. PICK p \in 1..Len(accepted) :
          /\ MessageIdOf[accepted[p]] = MessageIdOf[d]
          /\ GroupOf[ConversationOf[accepted[p]]] = g
  BY RecordsAccepted
<1>2. accepted \in Seq(Deliveries) /\ accepted[p] \in Deliveries
  BY DEF LogsTyped
<1>3. ConversationOf[accepted[p]] = ConversationOf[d]
  BY <1>1, <1>2, QueueAssumption DEF OneBot
<1>4. KeyOf[accepted[p]] = KeyOf[d]
  BY <1>1, <1>2, <1>3, KeyAssumption
<1>5. accepted' = Append(accepted, d)
  BY DEF Accept
<1>6. /\ Len(accepted') = Len(accepted) + 1 /\ Len(accepted) \in Nat
      /\ accepted'[Len(accepted) + 1] = d /\ accepted'[p] = accepted[p]
  BY <1>2, <1>5, AppendProperties
<1>7. p \in 1..Len(accepted') /\ Len(accepted) + 1 \in 1..Len(accepted')
  BY <1>6
<1>8. p = Len(accepted) + 1
  BY <1>4, <1>6, <1>7 DEF AcceptedOnce
<1> QED BY <1>6, <1>8

(* What accepting does to the queue and to the unread records: the turn    *)
(* and its record join them at the end, and those of the turn given up go. *)
LEMMA AcceptKeepsEnds ==
    ASSUME OneBot, HistoryLimit >= MaxPending + 2, QueueInv, LogsTyped, LogInv,
           UnreadEndsInQueue, OwnRecord, NEW d \in Deliveries, Accept(d), AcceptedOnce'
    PROVE  UnreadEndsInQueue'
<1> USE QueueAssumption
<1>0. RecordsAreKept /\ LogsAreGood
  BY DEF LogInv
<1>1. PICK c \in Conversations : c = ConversationOf[d]
  OBVIOUS
<1>2. PICK drop : drop = Victim(c)
  OBVIOUS
<1>3. /\ pending' = [pending EXCEPT ![c] = Enqueued(c, d)]
      /\ UNCHANGED processPc
      /\ pending \in [Conversations -> Seq(Deliveries)]
      /\ pending[c] \in Seq(Deliveries) /\ Len(pending[c]) <= MaxPending
  BY <1>1 DEF Accept, QueueInv, QueueTypeOK
<1> SUFFICES ASSUME NEW e \in Conversations, NEW g \in Groups, GroupOf[e] = g
             PROVE  /\ Ends(context'[g].unread, pending'[e])
                    /\ \A x \in Deliveries :
                          processPc[x] = "running" /\ ConversationOf[x] = e =>
                              Precedes(context'[g].unread, pending'[e], x)
  BY <1>3 DEF UnreadEndsInQueue
<1>4. CASE e # c
  <2>1. GroupOf[c] # g
    BY <1>4 DEF OneBot
  <2>2. context'[g] = context[g]
    BY <1>1, <1>2, <2>1, AcceptedLog
  <2>3. pending'[e] = pending[e]
    BY <1>3, <1>4
  <2> QED BY <2>2, <2>3 DEF UnreadEndsInQueue
<1>5. CASE e = c
  <2>1. PICK q \in Seq(Deliveries) : q = pending[c] /\ Len(q) <= MaxPending
    BY <1>3
  <2>2. PICK u \in Seq(Entries) : u = context[g].unread
    BY <1>0, LogOfGroup
  <2>3. PICK R : R = Log!Recorded(context[g], Entry(d))
    OBVIOUS
  <2>4. R \in LogType /\ GoodLog(R)
    BY <1>0, <1>1, <1>5, <2>3, RecordedLog
  <2>5. PICK L : L = Log!LastRecords(Append(u, Entry(d)))
    OBVIOUS
  <2>6. R.unread = L
    <3>1. Log!Known(context[g], MessageIdOf[d]) = {}
      BY <1>1, <1>5, AcceptedIsNew DEF Log!Known
    <3>2. Entry(d).message = MessageIdOf[d]
      BY DEF Entry
    <3>3. R = [unread |-> L, recent |-> Log!LastRecords(Append(context[g].recent, Entry(d)))]
      BY <2>2, <2>3, <2>5, <3>1, <3>2 DEF Log!Recorded
    <3> QED BY <3>3
  <2>7. L \in Seq(Entries) /\ OnceEach(L)
    BY <2>4, <2>6, GoodUnread
  <2>8. /\ Ends(u, q)
        /\ \A x \in Deliveries :
              processPc[x] = "running" /\ ConversationOf[x] = c => Precedes(u, q, x)
    BY <1>5, <2>1, <2>2 DEF UnreadEndsInQueue
  <2>9. /\ Ends(L, Append(q, d))
        /\ \A x \in Deliveries : Precedes(u, q, x) => Precedes(L, Append(q, d), x)
    BY <2>1, <2>5, <2>8, QueuedEnds
  <2>10. CASE Room(c)
    <3>1. pending'[e] = Append(q, d)
      BY <1>3, <1>5, <2>1, <2>10 DEF Enqueued
    <3>2. context'[g] = R
      <4>1. drop = None
        BY <1>2, <2>10 DEF Victim
      <4>2. drop = Victim(ConversationOf[d]) /\ GroupOf[ConversationOf[d]] = g
        BY <1>1, <1>2, <1>5
      <4>3. context'[g] = Log!Recorded(context[g], Entry(d))
        BY <4>1, <4>2, AcceptedLog
      <4> QED BY <2>3, <4>3
    <3> QED BY <1>5, <2>6, <2>8, <2>9, <3>1, <3>2
  <2>11. CASE ~Room(c)
    <3>1. VictimAt(c) \in 1..Len(q)
      BY <2>1, <2>11, VictimAtFacts DEF QueueInv
    <3>2. PICK v \in 1..Len(q) : v = VictimAt(c)
      BY <3>1
    <3>3. pending'[e] = Append(DropAt(q, v), d)
      BY <1>3, <1>5, <2>1, <2>11, <3>2 DEF Enqueued
    <3>4. drop = q[v] /\ drop \in Deliveries
      BY <1>2, <2>1, <2>11, <3>2 DEF Victim
    <3>5. Waiting(drop) /\ ConversationOf[drop] = c
      BY <1>1, <1>2, <3>4, VictimIsNear
    <3>6. recordId[drop] = KeyOf[drop] /\ recordId[drop] # None
      <4>1. recordId[drop] = KeyOf[drop]
        BY <1>5, <3>4, <3>5 DEF OwnRecord
      <4>2. KeyOf[drop] \in Keys
        BY <3>4
      <4> QED BY <4>1, <4>2
    <3>7. context'[g] = Log!Removed(R, recordId[drop])
      <4>1. drop # None
        BY <3>4
      <4> QED BY <1>1, <1>2, <1>5, <2>3, <3>6, <4>1, AcceptedLog
    <3>8. PICK U : U = Log!DropId(L, KeyOf[q[v]])
      OBVIOUS
    <3>9. context'[g].unread = U
      BY <2>6, <3>4, <3>6, <3>7, <3>8 DEF Log!Removed
    <3>10. /\ Ends(U, Append(DropAt(q, v), d))
           /\ \A x \in Deliveries :
                 Precedes(L, Append(q, d), x) => Precedes(U, Append(DropAt(q, v), d), x)
      BY <2>7, <2>9, <3>8, DroppedEnds
    <3> QED BY <1>5, <2>8, <2>9, <3>3, <3>9, <3>10
  <2> QED BY <2>10, <2>11
<1> QED BY <1>4, <1>5

(* Accepting keeps every turn to its own record, and the log in order.     *)
LEMMA AcceptKeepsTimely ==
    ASSUME OneBot, HistoryLimit >= MaxPending + 2, QueueInv, RestTyped, LogInv,
           TimelyInv, NEW d \in Deliveries, Accept(d), AcceptedOnce'
    PROVE  TimelyInv'
<1> USE QueueAssumption
<1>0. /\ LogsTyped /\ RecordsAreKept /\ LogsAreGood
      /\ UnreadEndsInQueue /\ OwnRecord /\ InOrder
  BY DEF RestTyped, LogInv, TimelyInv
<1>1. PICK drop : drop = Victim(ConversationOf[d])
  OBVIOUS
<1>2. /\ \A e \in Deliveries : Waiting(e)' <=> e = d \/ (Waiting(e) /\ e # drop)
      /\ drop # None => drop \in Deliveries /\ Waiting(drop) /\ drop # d
  BY <1>1, AcceptedWaits
<1>3. /\ recordId' = [e \in Deliveries |-> IF e = d THEN RecordIdFor(d)
                                          ELSE IF e = drop THEN None ELSE recordId[e]]
      /\ accepted' = Append(accepted, d)
      /\ UNCHANGED processPc
      /\ accepted \in Seq(Deliveries)
  BY <1>0, <1>1 DEF Accept, LogsTyped
<1>4. UnreadEndsInQueue'
  BY <1>0, AcceptKeepsEnds
<1>5. OwnRecord'
  <2> SUFFICES ASSUME NEW e \in Deliveries, NEW g \in Groups,
                      Waiting(e)' \/ processPc[e] = "running",
                      GroupOf[ConversationOf[e]] = g
               PROVE  recordId'[e] = KeyOf[e]
    BY <1>3 DEF OwnRecord
  <2>1. CASE e = d
    <3>1. PICK R : R = Log!Recorded(context[g], Entry(d))
      OBVIOUS
    <3>2. RecordIdFor(d) = KeyOf[d]
      BY <1>0, <2>1, <3>1, RecordedLog, AcceptedIsNew
    <3> QED BY <1>3, <2>1, <3>2
  <2>2. CASE e # d
    <3>1. e # drop
      <4>1. CASE Waiting(e)'
        BY <1>2, <2>2, <4>1
      <4>2. CASE processPc[e] = "running"
        <5>1. ~Waiting(e)
          BY <4>2, WaitingFacts DEF Processing
        <5> QED BY <1>2, <5>1
      <4> QED BY <4>1, <4>2
    <3>2. recordId'[e] = recordId[e] /\ (Waiting(e)' => Waiting(e))
      BY <1>2, <1>3, <2>2, <3>1
    <3> QED BY <1>0, <3>2 DEF OwnRecord
  <2> QED BY <2>1, <2>2
<1>6. InOrder'
  <2> SUFFICES ASSUME NEW g \in Groups
               PROVE  Ordered(context'[g].recent, Append(accepted, d))
    BY <1>3 DEF InOrder
  <2>1. PICK s \in Seq(Entries) : s = context[g].recent /\ Ordered(s, accepted)
    BY <1>0, LogOfGroup DEF InOrder
  <2>2. PICK t \in Seq(Entries) : t = context'[g].recent
    <3>1. LogsTyped'
      <4>1. RestTyped'
        BY SubmitTyped, <1>0, CacheStepTyped DEF Submit, RestTyped, LogStep, LogsTyped, LogType
      <4> QED BY <4>1 DEF RestTyped
    <3> QED BY <3>1 DEF LogsTyped
  <2>3. CASE Keeps(t, s)
    <3>1. Ordered(t, accepted)
      BY <1>3, <2>1, <2>3, OrderedKeeps
    <3> QED BY <1>3, <2>2, <3>1, OrderedGrows
  <2>4. CASE Keeps(t, Append(s, Entry(d)))
    <3>1. \A i \in 1..Len(s) : \E p \in 1..Len(accepted) : KeyOf[accepted[p]] = s[i].id
      BY <2>1, RecordsAccepted
    <3>2. Ordered(Append(s, Entry(d)), Append(accepted, d))
      BY <1>3, <2>1, <3>1, OrderedAppends
    <3>3. Entry(d) \in Entries
      BY DEF Entry, Entries
    <3>4. Append(s, Entry(d)) \in Seq(Entries) /\ Append(accepted, d) \in Seq(Deliveries)
      BY <1>3, <3>3, AppendProperties
    <3> QED BY <2>2, <2>4, <3>2, <3>4, OrderedKeeps
  <2> QED BY <1>0, <2>1, <2>2, <2>3, <2>4, AcceptMovesLog
<1> QED BY <1>4, <1>5, <1>6 DEF TimelyInv

(* The turn that is taken runs, and its record comes before the queue's.   *)
LEMMA TakeKeepsTimely ==
    ASSUME QueueInv, CallInv, RestTyped, LogInv, TimelyInv,
           NEW w \in Workers, TakeTurn(w)
    PROVE  TimelyInv'
<1> USE QueueAssumption
<1>0. /\ LogsTyped /\ RecordsAreKept /\ LogsAreGood
      /\ UnreadEndsInQueue /\ OwnRecord /\ InOrder
  BY DEF RestTyped, LogInv, TimelyInv
<1>1. PICK d : d = Head(pending[workerOf[w]])
  OBVIOUS
<1>2. /\ d \in Deliveries /\ Waiting(d) /\ ConversationOf[d] = workerOf[w]
      /\ \A e \in Deliveries : Waiting(e)' <=> Waiting(e) /\ e # d
  BY <1>1, TakenWaits
<1>3. PICK c \in Conversations : c = workerOf[w]
  BY <1>2
<1>4. /\ UNCHANGED <<context, recordId, accepted>>
      /\ pending' = [pending EXCEPT ![c] = Tail(@)] /\ pending[c] # <<>>
      /\ processPc' = [processPc EXCEPT ![d] = "running"]
      /\ pending \in [Conversations -> Seq(Deliveries)]
      /\ processPc \in [Deliveries -> {"none", "running", "releasing", "done"}]
  BY <1>1, <1>3 DEF TakeTurn, callVars, QueueInv, QueueTypeOK
<1>5. \A x \in Deliveries : ConversationOf[x] = c => processPc[x] # "running"
  <2> SUFFICES ASSUME NEW x \in Deliveries, ConversationOf[x] = c, processPc[x] = "running"
               PROVE  FALSE
    OBVIOUS
  <2>1. PICK v \in Workers : workerPc[v] = "processing" /\ turnOf[v] = x
    BY DEF QueueInv, ProcessesAreAwaited, Processing
  <2>2. workerOf[v] = c /\ workerTask[c] = v
    BY <2>1 DEF QueueInv, WorkersAwait, LiveWorkers
  <2>3. workerPc[w] # "gone"
    BY DEF TakeTurn, AtLoopTop
  <2>4. workerTask[c] = w
    BY <1>3, <2>3 DEF QueueInv, LiveWorkers
  <2>5. workerPc[w] = "processing" /\ turnOf[w] = x
    BY <2>1, <2>2, <2>4
  <2>6. processPc[turnOf[w]] = "done"
    BY <2>5 DEF TakeTurn, AtLoopTop
  <2> QED BY <2>5, <2>6
<1>6. UnreadEndsInQueue'
  <2> SUFFICES ASSUME NEW e \in Conversations, NEW g \in Groups, GroupOf[e] = g
               PROVE  /\ Ends(context[g].unread, pending'[e])
                      /\ \A x \in Deliveries :
                            processPc'[x] = "running" /\ ConversationOf[x] = e =>
                                Precedes(context[g].unread, pending'[e], x)
    BY <1>4 DEF UnreadEndsInQueue
  <2>1. CASE e = c
    <3>1. PICK q \in Seq(Deliveries) : q = pending[c] /\ q # <<>>
      BY <1>4
    <3>2. PICK u \in Seq(Entries) : u = context[g].unread
      BY <1>0, LogOfGroup
    <3>3. Ends(u, q)
      BY <1>0, <2>1, <3>1, <3>2 DEF UnreadEndsInQueue
    <3>4. Ends(u, Tail(q)) /\ Precedes(u, Tail(q), Head(q))
      BY <3>1, <3>3, TakenEnds
    <3>5. pending'[e] = Tail(q) /\ d = Head(q)
      BY <1>1, <1>3, <1>4, <2>1, <3>1
    <3>6. \A x \in Deliveries :
             processPc'[x] = "running" /\ ConversationOf[x] = e => x = d
      BY <1>4, <1>5, <2>1
    <3> QED BY <3>2, <3>4, <3>5, <3>6
  <2>2. CASE e # c
    <3>1. pending'[e] = pending[e]
      BY <1>4, <2>2
    <3>2. \A x \in Deliveries :
             processPc'[x] = "running" /\ ConversationOf[x] = e => processPc[x] = "running"
      BY <1>2, <1>3, <1>4, <2>2
    <3> QED BY <1>0, <3>1, <3>2 DEF UnreadEndsInQueue
  <2> QED BY <2>1, <2>2
<1>7. OwnRecord'
  <2>1. \A e \in Deliveries : Waiting(e)' \/ processPc'[e] = "running"
                                => Waiting(e) \/ processPc[e] = "running"
    BY <1>2, <1>4
  <2> QED BY <1>0, <1>4, <2>1 DEF OwnRecord
<1>8. InOrder'
  BY <1>0, <1>4 DEF InOrder
<1> QED BY <1>6, <1>7, <1>8 DEF TimelyInv

(* The answered turn consumes its own record and those before it, and      *)
(* leaves those of the queue.                                              *)
LEMMA ProcessKeepsTimely ==
    ASSUME OneBot, QueueInv, RestTyped, LogInv, TimelyInv,
           NEW d \in Deliveries, ProcessStep(d)
    PROVE  TimelyInv'
<1> USE QueueAssumption
<1>0. /\ LogsTyped /\ RecordsAreKept /\ LogsAreGood
      /\ UnreadEndsInQueue /\ OwnRecord /\ InOrder
  BY DEF RestTyped, LogInv, TimelyInv
<1>1. UNCHANGED <<pending, accepted, recordId>>
  BY DEF ProcessStep, FinishProcessor, ReleaseProcessed, conversationVars, callVars
<1>2. \A x \in Deliveries : processPc'[x] = "running" => processPc[x] = "running" /\ x # d
  BY DEF ProcessStep, FinishProcessor, ReleaseProcessed, QueueInv, QueueTypeOK
<1>3. CASE UNCHANGED context
  BY <1>1, <1>2, <1>3, TimelyStays
<1>4. CASE ~UNCHANGED context
  <2>1. PICK g \in Groups :
            /\ g = GroupOf[ConversationOf[d]] /\ processPc[d] = "running"
            /\ context' = [context EXCEPT ![g] = Log!Consumed(@, recordId[d])]
    BY <1>4 DEF ProcessStep, FinishProcessor, ReleaseProcessed
  <2>2. /\ context'[g] = Log!Consumed(context[g], recordId[d])
        /\ \A h \in Groups : h # g => context'[h] = context[h]
    BY <1>0, <2>1 DEF LogsTyped
  <2>3. recordId[d] = KeyOf[d]
    BY <1>0, <2>1 DEF OwnRecord
  <2>4. PICK log \in LogType : log = context[g] /\ GoodLog(log)
    BY <1>0, LogOfGroup
  <2>5. PICK T : T = Log!Consumed(log, KeyOf[d])
    OBVIOUS
  <2>6. /\ T.recent = log.recent
        /\ \/ (\A i \in 1..Len(log.unread) : log.unread[i].id # KeyOf[d]) /\ T = log
           \/ \E p \in 1..Len(log.unread) :
                 log.unread[p].id = KeyOf[d] /\ Cut(T.unread, log.unread, p)
    BY <2>4, <2>5, ConsumedFacts
  <2>7. context'[g] = T
    BY <2>2, <2>3, <2>4, <2>5
  <2>8. UnreadEndsInQueue'
    <3> SUFFICES ASSUME NEW e \in Conversations, NEW h \in Groups, GroupOf[e] = h
                 PROVE  /\ Ends(context'[h].unread, pending[e])
                        /\ \A x \in Deliveries :
                              processPc'[x] = "running" /\ ConversationOf[x] = e =>
                                  Precedes(context'[h].unread, pending[e], x)
      BY <1>1 DEF UnreadEndsInQueue
    <3>1. CASE h # g
      <4>1. context'[h] = context[h]
        BY <2>2, <3>1
      <4> QED BY <1>0, <1>2, <4>1 DEF UnreadEndsInQueue
    <3>2. CASE h = g
      <4>1. e = ConversationOf[d]
        BY <2>1, <3>2 DEF OneBot
      <4>2. PICK q \in Seq(Deliveries) : q = pending[e]
        BY DEF QueueInv, QueueTypeOK
      <4>3. PICK u \in Seq(Entries) : u = log.unread /\ OnceEach(u)
        BY <2>4, GoodUnread
      <4>4. Ends(u, q) /\ Precedes(u, q, d)
        BY <1>0, <2>1, <2>4, <3>2, <4>1, <4>2, <4>3 DEF UnreadEndsInQueue
      <4>5. \/ (\A i \in 1..Len(u) : u[i].id # KeyOf[d]) /\ T.unread = u
            \/ \E p \in 1..Len(u) : u[p].id = KeyOf[d] /\ Cut(T.unread, u, p)
        BY <2>6, <4>3
      <4>6. Ends(T.unread, q)
        BY <4>3, <4>4, <4>5, ConsumedEnds
      <4>7. \A x \in Deliveries : ConversationOf[x] = e => processPc'[x] # "running"
        <5>1. Serialised
          BY SerialisedHolds
        <5> QED BY <1>2, <2>1, <4>1, <5>1 DEF Serialised, Processing
      <4> QED BY <2>7, <3>2, <4>2, <4>6, <4>7
    <3> QED BY <3>1, <3>2
  <2>9. OwnRecord'
    BY <1>0, <1>1, <1>2 DEF OwnRecord, Waiting
  <2>10. InOrder'
    <3>1. \A h \in Groups : context'[h].recent = context[h].recent
      BY <2>2, <2>4, <2>6, <2>7
    <3> QED BY <1>0, <1>1, <3>1 DEF InOrder
  <2> QED BY <2>8, <2>9, <2>10 DEF TimelyInv
<1> QED BY <1>3, <1>4

(* Nothing waits, runs or is recorded at first.                            *)
LEMMA TimelyStart == Init => TimelyInv
<1> SUFFICES ASSUME Init PROVE TimelyInv
  OBVIOUS
<1>1. /\ \A g \in Groups : context[g] = [unread |-> <<>>, recent |-> <<>>]
      /\ \A c \in Conversations : pending[c] = <<>>
      /\ \A d \in Deliveries : processPc[d] = "none"
  BY DEF Init, Log!EmptyLog
<1>2. \A g \in Groups : Len(context[g].recent) = 0 /\ Len(context[g].unread) = 0
  BY <1>1
<1>3. UnreadEndsInQueue
  <2>1. ASSUME NEW c \in Conversations, NEW g \in Groups
        PROVE  Ends(context[g].unread, pending[c])
    <3>1. Len(pending[c]) = 0 /\ Len(context[g].unread) = 0
      BY <1>1, <1>2
    <3>2. PICK u, q : u = context[g].unread /\ q = pending[c]
      OBVIOUS
    <3>3. Len(q) = 0 /\ Len(u) = 0
      BY <3>1, <3>2
    <3>4. Ends(u, q)
      BY <3>3 DEF Ends
    <3> QED BY <3>2, <3>4
  <2>2. \A d \in Deliveries : processPc[d] # "running"
    BY <1>1
  <2> QED BY <2>1, <2>2 DEF UnreadEndsInQueue
<1>4. OwnRecord
  <2>1. \A d \in Deliveries : ~Waiting(d)
    BY <1>1, QueueAssumption DEF Waiting, Elements
  <2> QED BY <1>1, <2>1 DEF OwnRecord
<1>5. InOrder
  BY <1>2 DEF InOrder, Ordered
<1> QED BY <1>3, <1>4, <1>5 DEF TimelyInv

(* Every step that accepts no message twice keeps the logs cut right.      *)
LEMMA TimelyStep ==
    ASSUME OneBot, HistoryLimit >= MaxPending + 2, "records" \notin Expiring,
           QueueInv, CallInv, RestTyped, LogInv, TimelyInv,
           AcceptedOnce', [Next]_vars
    PROVE  TimelyInv'
<1>1. CASE UNCHANGED vars \/ DedupeAges
  <2>1. UNCHANGED <<context, pending, accepted, recordId, processPc>>
    BY <1>1 DEF vars, DedupeAges, conversationVars, callVars
  <2> QED BY <2>1, TimelyStays
<1>2. ASSUME NEW d \in Deliveries, Submit(d)
      PROVE  TimelyInv'
  <2>1. CASE Ignore(d) \/ SkipDuplicate(d) \/ Refuse(d)
    <3>1. UNCHANGED <<context, pending, accepted, recordId, processPc>>
      BY <2>1 DEF Ignore, SkipDuplicate, Refuse, conversationVars
    <3> QED BY <3>1, TimelyStays
  <2> QED BY <1>2, <2>1, AcceptKeepsTimely, SpawnKeepsTimely DEF Submit
<1>3. ASSUME NEW d \in Deliveries, CleanUp(d)
      PROVE  TimelyInv'
  <2>1. UNCHANGED <<context, pending, accepted, recordId, processPc>>
    BY <1>3
       DEF CleanUp, ReleaseDropped, TellDropped, TellRejected, ReleaseOwn,
           Discharge, conversationVars
  <2> QED BY <2>1, TimelyStays
<1>4. ASSUME NEW w \in Workers, WorkerStep(w) \/ TimeOut(w) \/ Retire(w)
      PROVE  TimelyInv'
  <2>1. CASE GoIdle(w) \/ TimeOut(w) \/ Retire(w)
    <3>1. UNCHANGED <<context, pending, accepted, recordId, processPc>>
      BY <2>1 DEF GoIdle, TimeOut, Retire, conversationVars, callVars
    <3> QED BY <3>1, TimelyStays
  <2> QED BY <1>4, <2>1, TakeKeepsTimely DEF WorkerStep
<1>5. ASSUME NEW g \in Groups, ContextAges(g)
      PROVE  FALSE
  BY <1>5 DEF ContextAges
<1> QED BY <1>1, <1>2, <1>3, <1>4, <1>5, ProcessKeepsTimely DEF Next

(* The first of a set of positions is before the others.                   *)
LEMMA FirstIsLeast ==
    ASSUME NEW S \in SUBSET Nat, NEW i \in S
    PROVE  Log!First(S) \in S /\ Log!First(S) <= i
<1>1. \E x \in S : \A j \in S : x <= j
  BY FirstPosition
<1>2. Log!First(S) = CHOOSE x \in S : \A j \in S : x <= j
  BY DEF Log!First
<1>3. \A j \in S : Log!First(S) <= j
  BY <1>1, <1>2, Zenon
<1> QED BY <1>3, FirstIsIn

(* What a running turn sees of the log was accepted before it.             *)
LEMMA NothingComesEarly ==
    ASSUME QueueInv, RestTyped, LogInv, TimelyInv, AcceptedOnce
    PROVE  NoFutureContext
<1> USE QueueAssumption
<1>0. /\ LogsTyped /\ RecordsAreKept /\ LogsAreGood
      /\ UnreadEndsInQueue /\ OwnRecord /\ InOrder
  BY DEF RestTyped, LogInv, TimelyInv
<1> SUFFICES ASSUME NEW d \in Deliveries, NEW g \in Groups,
                    processPc[d] = "running", GroupOf[ConversationOf[d]] = g,
                    NEW r \in Log!Visible(context[g].unread, recordId[d], MessageIdOf[d])
             PROVE  \E e \in Deliveries : KeyOf[e] = r.id /\ Earlier(e, d)
  BY DEF NoFutureContext
<1>1. PICK u \in Seq(Entries), s \in Seq(Entries) :
          u = context[g].unread /\ s = context[g].recent /\ Ordered(s, accepted)
  BY <1>0, LogOfGroup DEF InOrder
<1>2. PICK k \in Nat : Cut(u, s, k)
  BY <1>0, <1>1 DEF LogsAreGood, GoodLog
<1>3. PICK q \in Seq(Deliveries) : q = pending[ConversationOf[d]]
  BY DEF QueueInv, QueueTypeOK
<1>4. Precedes(u, q, d)
  BY <1>0, <1>1, <1>3 DEF UnreadEndsInQueue
<1>5. PICK n \in 1..Len(u) : u[n] = Entry(d)
  <2>1. Len(u) - Len(q) \in 1..Len(u) /\ u[Len(u) - Len(q)] = Entry(d)
    BY <1>4 DEF Precedes
  <2> QED BY <2>1
<1>6. PICK at : at = Log!OfId(u, recordId[d]) \cup {i \in 1..Len(u) : u[i].message = MessageIdOf[d]}
  OBVIOUS
<1>7. at \in SUBSET Nat /\ at \subseteq 1..Len(u) /\ n \in at
  <2>1. Entry(d).message = MessageIdOf[d]
    BY DEF Entry
  <2> QED BY <1>5, <1>6, <2>1 DEF Log!OfId
<1>8. Log!First(at) \in 1..Len(u) /\ Log!First(at) <= n
  BY <1>7, FirstIsLeast
<1>9. PICK i \in 1..(Log!First(at) - 1) : r = u[i]
  <2>1. PICK id, m : id = recordId[d] /\ m = MessageIdOf[d]
    OBVIOUS
  <2>2. r \in Log!Visible(u, id, m)
    BY <1>1, <2>1
  <2>3. at # {}
    BY <1>7
  <2>4. at = Log!OfId(u, id) \cup {i \in 1..Len(u) : u[i].message = m}
    BY <1>6, <2>1
  <2>5. Log!Visible(u, id, m) = {u[i] : i \in 1..(Log!First(at) - 1)}
    BY <2>3, <2>4, Zenon DEF Log!Visible
  <2> QED BY <2>2, <2>5
<1>10. i \in 1..Len(u) /\ i < n
  BY <1>8, <1>9
<1>11. /\ k + i \in 1..Len(s) /\ k + n \in 1..Len(s) /\ k + i < k + n
       /\ u[i] = s[k + i] /\ u[n] = s[k + n]
  <2>1. /\ Len(s) = k + Len(u) /\ Len(u) \in Nat
        /\ \A j \in 1..Len(u) : u[j] = s[k + j]
    BY <1>2 DEF Cut
  <2> QED BY <1>10, <2>1
<1>12. PICK x \in 1..Len(accepted), y \in 1..Len(accepted) :
           x < y /\ KeyOf[accepted[x]] = r.id /\ KeyOf[accepted[y]] = KeyOf[d]
  <2>1. PICK x \in 1..Len(accepted), y \in 1..Len(accepted) :
            x < y /\ KeyOf[accepted[x]] = s[k + i].id /\ KeyOf[accepted[y]] = s[k + n].id
    <3>1. PICK a \in 1..Len(s), b \in 1..Len(s) : a = k + i /\ b = k + n /\ a < b
      BY <1>11
    <3>2. \E x, y \in 1..Len(accepted) :
              x < y /\ KeyOf[accepted[x]] = s[a].id /\ KeyOf[accepted[y]] = s[b].id
      BY <1>1, <3>1 DEF Ordered
    <3> QED BY <3>1, <3>2
  <2>2. s[k + n].id = KeyOf[d]
    BY <1>5, <1>11 DEF Entry
  <2> QED BY <1>9, <1>11, <2>1, <2>2
<1>13. PICK z \in 1..Len(accepted) : accepted[z] = d
  BY DEF LogInv, InFlightIsAccepted, Live, Processing, Elements
<1>14. z = y
  BY <1>12, <1>13 DEF AcceptedOnce
<1>15. accepted[x] \in Deliveries
  BY <1>0 DEF LogsTyped
<1> QED BY <1>12, <1>13, <1>14, <1>15 DEF Earlier

(* What waits has its record among the unread ones.                        *)
LEMMA NothingIsMissed ==
    ASSUME QueueInv, RestTyped, LogInv, TimelyInv
    PROVE  WaitingIsUnread
<1> USE QueueAssumption
<1>0. /\ LogsTyped /\ RecordsAreKept /\ LogsAreGood
      /\ UnreadEndsInQueue /\ OwnRecord /\ InOrder
  BY DEF RestTyped, LogInv, TimelyInv
<1> SUFFICES ASSUME NEW d \in Deliveries, NEW g \in Groups, Waiting(d),
                    GroupOf[ConversationOf[d]] = g
             PROVE  \E r \in Elements(context[g].unread) : r.id = recordId[d]
  BY DEF WaitingIsUnread
<1>1. PICK u \in Seq(Entries) : u = context[g].unread
  BY <1>0, LogOfGroup
<1>2. PICK q \in Seq(Deliveries) : q = pending[ConversationOf[d]]
  BY DEF QueueInv, QueueTypeOK
<1>3. PICK k \in 1..Len(q) : q[k] = d
  BY <1>2 DEF Waiting, Elements
<1>4. Ends(u, q)
  BY <1>0, <1>1, <1>2 DEF UnreadEndsInQueue
<1>5. Len(u) - Len(q) + k \in 1..Len(u) /\ u[Len(u) - Len(q) + k] = Entry(d)
  BY <1>3, <1>4 DEF Ends
<1>6. Entry(d) \in Elements(u)
  BY <1>5 DEF Elements
<1>7. recordId[d] = KeyOf[d] /\ Entry(d).id = KeyOf[d]
  BY <1>0 DEF OwnRecord, Entry
<1> QED BY <1>1, <1>6, <1>7

(* Where one bot serves each group, a log that can hold what is in flight  *)
(* and two more, whose records do not grow old, is cut at the right place  *)
(* for every turn, as long as no message is accepted twice.                *)
THEOREM ContextStaysTimely ==
    ASSUME OneBot, HistoryLimit >= MaxPending + 2, "records" \notin Expiring
    PROVE  Spec /\ []AcceptedOnce => []ContextIsTimely
<1>1. QueueInv /\ CallInv /\ RestTyped /\ LogInv /\ TimelyInv /\ AcceptedOnce' /\ [Next]_vars
      => TimelyInv'
  BY TimelyStep
<1>2. QueueInv /\ RestTyped /\ LogInv /\ TimelyInv /\ AcceptedOnce => ContextIsTimely
  BY NothingComesEarly, NothingIsMissed DEF ContextIsTimely
<1>3. Init => TimelyInv
  BY TimelyStart
<1> QED BY <1>1, <1>2, <1>3, LogInvariance, PTL DEF Spec

-----------------------------------------------------------------------------
(* A message is accepted once as long as the cache of handled messages     *)
(* has room for every key.                                                 *)

NothingForgotten == IsFiniteSet(Keys) /\ Cardinality(Keys) <= HandledSize

(* No key is handled twice, and every accepted message is handled.         *)
HandledInv ==
    /\ \A i, j \in 1..Len(handled) : handled[i] = handled[j] => i = j
    /\ \A i \in 1..Len(accepted) : KeyOf[accepted[i]] \in Elements(handled)
    /\ AcceptedOnce

(* A sequence in which no key comes twice is no longer than there are keys.*)
LEMMA NoLongerThanKeys ==
    ASSUME NothingForgotten, NEW h \in Seq(Keys),
           \A i, j \in 1..Len(h) : h[i] = h[j] => i = j
    PROVE  Len(h) <= HandledSize
<1>1. PICK n \in Nat : n = Len(h)
  OBVIOUS
<1>2. h \in [1..n -> Keys]
  BY <1>1
<1>3. IsFiniteSet(1..n) /\ Cardinality(1..n) = n
  BY FS_Interval
<1>4. ~(Cardinality(Keys) < n)
  <2> SUFFICES ASSUME Cardinality(Keys) < n PROVE FALSE
    OBVIOUS
  <2>1. IsFiniteSet(Keys) /\ Cardinality(Keys) < Cardinality(1..n)
    BY <1>3 DEF NothingForgotten
  <2>2. \E x, y \in 1..n : x # y /\ h[x] = h[y]
    BY <1>2, <1>3, <2>1, FS_PigeonHole
  <2> QED BY <1>1, <2>2
<1>5. Cardinality(Keys) \in Nat
  BY FS_CardinalityType DEF NothingForgotten
<1> QED BY <1>1, <1>4, <1>5, QueueAssumption DEF NothingForgotten

(* With room for every key a handled one is remembered for good.           *)
LEMMA HandledIsKept ==
    ASSUME NothingForgotten, CachesTyped, HandledInv, NEW k \in Keys
    PROVE  LET H == MarkHandled(k) IN
           /\ \A i, j \in 1..Len(H) : H[i] = H[j] => i = j
           /\ Elements(handled) \subseteq Elements(H) /\ k \in Elements(H)
<1>1. PICK h \in Seq(Keys) : h = handled /\ \A i, j \in 1..Len(h) : h[i] = h[j] => i = j
  BY DEF CachesTyped, HandledInv
<1>2. CASE k \in Elements(h)
  <2>1. MarkHandled(k) = h
    BY <1>1, <1>2 DEF MarkHandled
  <2> QED BY <1>1, <1>2, <2>1
<1>3. CASE k \notin Elements(h)
  <2>1. PICK H \in Seq(Keys) :
            /\ H = Append(h, k) /\ Len(H) = Len(h) + 1
            /\ \A i \in 1..Len(h) : H[i] = h[i]
            /\ H[Len(h) + 1] = k
    BY AppendProperties
  <2>2. \A i \in 1..Len(h) : h[i] # k
    BY <1>3 DEF Elements
  <2>3. \A i, j \in 1..Len(H) : H[i] = H[j] => i = j
    <3>1. \A i \in 1..Len(H) : i \in 1..Len(h) \/ i = Len(h) + 1
      BY <2>1
    <3> QED BY <1>1, <2>1, <2>2, <3>1
  <2>4. Len(H) <= HandledSize
    BY <2>3, NoLongerThanKeys
  <2>5. MarkHandled(k) = H
    <3>1. ~(Len(H) > HandledSize)
      BY <2>4, QueueAssumption
    <3> QED BY <1>1, <1>3, <2>1, <3>1 DEF MarkHandled, Newest
  <2>6. \A x : x \in Elements(H) <=> x \in Elements(h) \/ x = k
    BY <2>1, AppendedElements
  <2> QED BY <1>1, <2>3, <2>5, <2>6
<1> QED BY <1>2, <1>3

(* Only submit accepts, and it marks what it accepts.                      *)
LEMMA OnlySubmitAccepts ==
    ASSUME CallInv, [Next]_vars
    PROVE  \/ accepted' = accepted
           \/ \E d \in Deliveries :
                 /\ accepted' = Append(accepted, d)
                 /\ KeyOf[d] \notin Elements(handled)
                 /\ handled' = MarkHandled(KeyOf[d])
<1>1. CASE UNCHANGED vars
  BY <1>1 DEF vars
<1>2. ASSUME NEW d \in Deliveries, Submit(d)
      PROVE  \/ accepted' = accepted
             \/ /\ accepted' = Append(accepted, d)
                /\ KeyOf[d] \notin Elements(handled)
                /\ handled' = MarkHandled(KeyOf[d])
  <2>1. CASE Accept(d)
    BY <2>1 DEF Accept, Fresh, Considered, AlreadyHandled
  <2>2. CASE Ignore(d) \/ SkipDuplicate(d) \/ Refuse(d) \/ SpawnFails(d)
    BY <2>2 DEF Ignore, SkipDuplicate, Refuse, SpawnFails
  <2> QED BY <1>2, <2>1, <2>2 DEF Submit
<1>3. ASSUME NEW d \in Deliveries, CleanUp(d)
      PROVE  accepted' = accepted
  BY <1>3, CleanUpTyped
<1>4. ASSUME NEW d \in Deliveries, ProcessStep(d)
      PROVE  accepted' = accepted
  BY <1>4 DEF ProcessStep, FinishProcessor, ReleaseProcessed, cacheVars, callVars
<1>5. ASSUME NEW w \in Workers, WorkerStep(w) \/ TimeOut(w) \/ Retire(w)
      PROVE  accepted' = accepted
  BY <1>5 DEF WorkerStep, TakeTurn, GoIdle, TimeOut, Retire
<1>6. ASSUME DedupeAges \/ \E g \in Groups : ContextAges(g)
      PROVE  accepted' = accepted
  BY <1>6 DEF DedupeAges, ContextAges
<1> QED BY <1>1, <1>2, <1>3, <1>4, <1>5, <1>6 DEF Next

(* What was never handled was never accepted, so nothing is accepted again.*)
LEMMA HandledStep ==
    ASSUME NothingForgotten, QueueInv, CallInv, RestTyped, HandledInv, [Next]_vars
    PROVE  HandledInv'
<1>0. CachesTyped /\ accepted \in Seq(Deliveries)
  BY DEF RestTyped, LogsTyped
<1>1. /\ \A i, j \in 1..Len(handled') : handled'[i] = handled'[j] => i = j
      /\ Elements(handled) \subseteq Elements(handled')
  <2>1. CASE handled' = handled
    BY <2>1 DEF HandledInv
  <2>2. ASSUME NEW k \in Keys, handled' = MarkHandled(k)
        PROVE  <1>1
    BY <1>0, <2>2, HandledIsKept
  <2> QED BY <2>1, <2>2, StepOfTheRest DEF CacheStep
<1>2. CASE accepted' = accepted
  BY <1>1, <1>2 DEF HandledInv, AcceptedOnce
<1>3. ASSUME NEW d \in Deliveries, accepted' = Append(accepted, d),
             KeyOf[d] \notin Elements(handled), handled' = MarkHandled(KeyOf[d])
      PROVE  HandledInv'
  <2>1. PICK n \in Nat : n = Len(accepted)
    BY <1>0
  <2>2. /\ Len(accepted') = n + 1 /\ accepted'[n + 1] = d
        /\ \A i \in 1..n : accepted'[i] = accepted[i]
    BY <1>0, <1>3, <2>1, AppendProperties
  <2>3. \A i \in 1..(n + 1) : i \in 1..n \/ i = n + 1
    BY <2>1
  <2>4. KeyOf[d] \in Elements(handled')
    <3>1. KeyOf[d] \in Keys
      BY QueueAssumption
    <3> QED BY <1>0, <1>3, <3>1, HandledIsKept
  <2>5. \A i \in 1..n : KeyOf[accepted[i]] \in Elements(handled)
    BY <2>1 DEF HandledInv
  <2>6. \A i, j \in 1..n : KeyOf[accepted[i]] = KeyOf[accepted[j]] => i = j
    BY <2>1 DEF HandledInv, AcceptedOnce
  <2>7. \A i \in 1..n : KeyOf[accepted[i]] # KeyOf[d]
    BY <1>3, <2>5
  <2>8. \A i, j \in 1..(n + 1) : KeyOf[accepted'[i]] = KeyOf[accepted'[j]] => i = j
    BY <2>2, <2>3, <2>6, <2>7
  <2>9. \A i \in 1..(n + 1) : KeyOf[accepted'[i]] \in Elements(handled')
    BY <1>1, <2>2, <2>3, <2>4, <2>5
  <2> QED BY <1>1, <2>2, <2>8, <2>9 DEF HandledInv, AcceptedOnce
<1> QED BY <1>2, <1>3, OnlySubmitAccepts

(* No message is accepted twice, whatever is delivered again and whatever  *)
(* the dedupe cache has forgotten, while the cache of handled messages has *)
(* room for the keys of all messages there are.                            *)
THEOREM MessagesAreAcceptedOnce ==
    ASSUME NothingForgotten
    PROVE  Spec => []AcceptedOnce
<1>1. Init => HandledInv
  <2> SUFFICES ASSUME Init PROVE HandledInv
    OBVIOUS
  <2>1. Len(handled) = 0 /\ Len(accepted) = 0
    BY DEF Init
  <2> QED BY <2>1 DEF HandledInv, AcceptedOnce
<1>2. QueueInv /\ CallInv /\ RestTyped /\ HandledInv /\ [Next]_vars => HandledInv'
  BY HandledStep
<1>3. HandledInv => AcceptedOnce
  BY DEF HandledInv
<1> QED BY <1>1, <1>2, <1>3, LogInvariance, PTL DEF Spec

(* So a turn sees the messages before it and none after it, in a log of a  *)
(* bot's own, long enough, that does not grow old, as long as the cache of *)
(* handled messages forgets none.                                          *)
THEOREM ContextIsTimelyWhileRemembered ==
    ASSUME OneBot, HistoryLimit >= MaxPending + 2, "records" \notin Expiring,
           NothingForgotten
    PROVE  Spec => []ContextIsTimely
<1>1. Spec => []AcceptedOnce
  BY MessagesAreAcceptedOnce
<1>2. Spec /\ []AcceptedOnce => []ContextIsTimely
  BY ContextStaysTimely
<1> QED BY <1>1, <1>2

=============================================================================
