---------------------------- MODULE SerialTurns ----------------------------
(***************************************************************************)
(* What the turn queue promises the rest of the program, without workers,  *)
(* wake-ups, caches or leases: a conversation has one turn running at most *)
(* and runs its waiting turns oldest first; when MaxPending turns wait, a  *)
(* new one takes the place of the oldest turn that may be given up, or of  *)
(* the oldest one if none may; and no turn that waits waits for ever.      *)
(***************************************************************************)
EXTENDS Naturals, Sequences, FiniteSets

CONSTANTS Conversations, Deliveries, ConversationOf, MustKeep, MaxPending

VARIABLES
    waiting,   \* [Conversations -> Seq(Deliveries)]
    running,   \* [Conversations -> the turns that run]
    fate       \* [Deliveries -> what became of it]

vars == <<waiting, running, fate>>

Fates == {"unseen", "waiting", "running", "finished", "replaced", "declined"}

TypeOK ==
    /\ waiting \in [Conversations -> Seq(Deliveries)]
    /\ running \in [Conversations -> SUBSET Deliveries]
    /\ fate \in [Deliveries -> Fates]

Init ==
    /\ waiting = [c \in Conversations |-> <<>>]
    /\ running = [c \in Conversations |-> {}]
    /\ fate = [d \in Deliveries |-> "unseen"]

Spare(c) == {i \in 1..Len(waiting[c]) : waiting[c][i] \notin MustKeep}

Without(s, i) == SubSeq(s, 1, i - 1) \o SubSeq(s, i + 1, Len(s))

Decline(d) ==
    /\ fate[d] = "unseen"
    /\ fate' = [fate EXCEPT ![d] = "declined"]
    /\ UNCHANGED <<waiting, running>>

Join(d) ==
    LET c == ConversationOf[d] IN
    /\ fate[d] = "unseen"
    /\ Len(waiting[c]) < MaxPending
    /\ waiting' = [waiting EXCEPT ![c] = Append(@, d)]
    /\ fate' = [fate EXCEPT ![d] = "waiting"]
    /\ UNCHANGED running

Displace(d, i) ==
    LET c == ConversationOf[d] IN
    /\ fate[d] = "unseen"
    /\ Len(waiting[c]) = MaxPending
    /\ i \in 1..MaxPending
    /\ IF Spare(c) = {}
       THEN i = 1 /\ d \in MustKeep
       ELSE i \in Spare(c) /\ \A j \in Spare(c) : i <= j
    /\ waiting' = [waiting EXCEPT ![c] = Append(Without(@, i), d)]
    /\ fate' = [fate EXCEPT ![d] = "waiting", ![waiting[c][i]] = "replaced"]
    /\ UNCHANGED running

Start(c) ==
    /\ running[c] = {}
    /\ waiting[c] # <<>>
    /\ running' = [running EXCEPT ![c] = {Head(waiting[c])}]
    /\ waiting' = [waiting EXCEPT ![c] = Tail(@)]
    /\ fate' = [fate EXCEPT ![Head(waiting[c])] = "running"]

Finish(c) ==
    /\ running[c] # {}
    /\ running' = [running EXCEPT ![c] = {}]
    /\ fate' = [d \in Deliveries |->
                  IF d \in running[c] THEN "finished" ELSE fate[d]]
    /\ UNCHANGED waiting

Next ==
    \/ \E d \in Deliveries :
          Decline(d) \/ Join(d) \/ \E i \in 1..MaxPending : Displace(d, i)
    \/ \E c \in Conversations : Start(c) \/ Finish(c)

Spec ==
    /\ Init /\ [][Next]_vars
    /\ \A c \in Conversations : WF_vars(Start(c)) /\ WF_vars(Finish(c))
=============================================================================
