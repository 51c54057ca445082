---------------------------- MODULE MCTurnQueue ----------------------------
(***************************************************************************)
(* Instances of TurnQueue for TLC.  Messages are named by the key of their *)
(* first delivery; a redelivery is a further delivery with the same key.   *)
(***************************************************************************)
EXTENDS TurnQueue, TLC

CONSTANTS c1, c2, g1, d1, d2, d3, d4

Identity == [d \in Deliveries |-> d]

(* Every delivery is a message of its own, in one conversation.            *)
AllInC1 == [d \in Deliveries |-> c1]

(* Two bots of one group: d1 and d2 are one message of the group, seen by  *)
(* both bots under the same platform id; d3 and d4 are further messages.   *)
Bots == [d \in Deliveries |-> IF d \in {d1, d3} THEN c1 ELSE c2]
SharedId == [d \in Deliveries |-> IF d = d2 THEN d1 ELSE d]

(* d4 delivers d1 again.                                                   *)
Again == [d \in Deliveries |-> IF d = d4 THEN d1 ELSE d]

ForTheBot == [d \in Deliveries |-> 2]

(* d4 is idle talk of the group, which the queue ignores.                  *)
LastIgnored == [d \in Deliveries |-> IF d = d4 THEN 0 ELSE 2]

PrivateChat == [c \in Conversations |-> None]
OneGroup == [c \in Conversations |-> g1]

AnyDelivery == Permutations(Deliveries)
=============================================================================
