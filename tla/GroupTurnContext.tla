-------------------------- MODULE GroupTurnContext --------------------------
(***************************************************************************)
(* chatinter/group_turn_context.py: what a group has said lately, kept in  *)
(* memory and shared by every conversation (bot) of the group.  A group's  *)
(* log is a record of two sequences of the same records, oldest first:     *)
(*   recent  every message recorded lately (_recent_records)               *)
(*   unread  those no answered turn has consumed yet (_records)            *)
(* A record keeps its own id and the platform's message id; the text, the  *)
(* nickname and the timestamp decide nothing here.  The module holds only  *)
(* operators on one group's log; TurnQueue holds the logs.                 *)
(***************************************************************************)
EXTENDS Naturals, Sequences

CONSTANT HistoryLimit       \* get_chat_history_limit(), at least 1

EmptyLog == [unread |-> <<>>, recent |-> <<>>]

Logs(Ids, Messages) ==
    LET Records == Seq([id : Ids, message : Messages])
    IN  [unread : Records, recent : Records]

LastRecords(s) ==
    IF Len(s) > HistoryLimit
    THEN SubSeq(s, Len(s) - HistoryLimit + 1, Len(s))
    ELSE s

OfId(s, id) == {i \in 1..Len(s) : s[i].id = id}

First(S) == CHOOSE i \in S : \A j \in S : i <= j

(* The record a platform message already has, whoever recorded it.         *)
Known(log, message) ==
    {i \in 1..Len(log.recent) : log.recent[i].message = message}

RecordedId(log, entry) ==
    IF Known(log, entry.message) # {}
    THEN log.recent[First(Known(log, entry.message))].id
    ELSE entry.id

Recorded(log, entry) ==
    IF Known(log, entry.message) # {}
    THEN log
    ELSE [unread |-> LastRecords(Append(log.unread, entry)),
          recent |-> LastRecords(Append(log.recent, entry))]

DropId(s, id) ==
    LET at == OfId(s, id)
    IN  IF at = {} THEN s
        ELSE SubSeq(s, 1, First(at) - 1) \o SubSeq(s, First(at) + 1, Len(s))

Removed(log, id) ==
    [unread |-> DropId(log.unread, id), recent |-> DropId(log.recent, id)]

(* Mutant: the consumption takes one record too many.                      *)
ConsumedOneMore(log, id) ==
    LET at == OfId(log.unread, id)
    IN  IF at = {} THEN log
        ELSE [log EXCEPT !.unread = SubSeq(@, First(at) + 2, Len(@))]

(* An answered turn consumes its own record and all that came before it.   *)
Consumed(log, id) ==
    LET at == OfId(log.unread, id)
    IN  IF at = {} THEN log
        ELSE [log EXCEPT !.unread = SubSeq(@, First(at) + 1, Len(@))]

(* The oldest record reaches its time to live.  Every reader and writer    *)
(* prunes expired records first, so a record is gone as soon as it is old. *)
Expired(log) ==
    [unread |-> IF log.unread # <<>> /\ log.unread[1] = log.recent[1]
                THEN Tail(log.unread) ELSE log.unread,
     recent |-> Tail(log.recent)]

(* What a turn sees of one part of the log: the records before its own, or *)
(* every other record when its own is no longer there.                     *)
Visible(s, id, message) ==
    LET at == OfId(s, id) \cup {i \in 1..Len(s) : s[i].message = message}
    IN  IF at = {} THEN {s[i] : i \in 1..Len(s)}
        ELSE {s[i] : i \in 1..(First(at) - 1)}
=============================================================================
