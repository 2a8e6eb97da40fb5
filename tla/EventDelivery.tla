---------------------------- MODULE EventDelivery ----------------------------
(***************************************************************************)
(* An event's whole way: a producer's Outbox and its relays, the stream,   *)
(* and the Inbox of one consumer, which reads what the relays stored.      *)
(***************************************************************************)
EXTENDS Outbox

CONSTANTS Worker, Nothing, MaxSlot, MaxDeliver, OffContract, MaxFaults, ConsumerFaults

VARIABLES status, deliveries, hand, count, step, consumed, work, faults

(* The stream as the consumer sees it. *)
Messages == [i \in 1..MaxSlot |-> IF i <= Len(stream) THEN stream[i] ELSE Nothing]

Consumer == INSTANCE Inbox WITH Event <- Id, content <- Messages, Faults <- ConsumerFaults

(* What the constants are. *)
Bounds ==
  /\ MaxEvent \in Nat /\ MaxAttempts \in Nat /\ MaxLapses \in Nat
  /\ Consumer!InboxAssumption

consumer == <<status, deliveries, hand, count, step, consumed, work, faults>>
allVars  == <<vars, consumer>>

DeliveryInit == Init /\ Consumer!Init

(* A relay or the bus takes a step; it may store a message, which finds    *)
(* room: MaxSlot bounds the stream.                                        *)
Produce == Next /\ Len(stream') <= MaxSlot /\ UNCHANGED consumer

Consume == UNCHANGED vars /\ Consumer!ConsumerNext

DeliverySpec == DeliveryInit /\ [][Produce \/ Consume]_allVars

-----------------------------------------------------------------------------
(* Properties. *)

(* "An event can never describe a write that did not happen, and a write   *)
(* can never go unannounced" (outbox.ts:82-85), and its handling is once   *)
(* only (consumer.ts:67): whatever relays and workers crash, answers are   *)
(* lost and windows lapse, the pipeline does the work of an event at most  *)
(* once, and only after the producer committed it.                         *)
Promise == INSTANCE EventHandling WITH Event <- Id, announced <- {e \in Id : row[e] # "absent"}

PipelineKeepsPromise == Promise!AbstractSpec

(* A row is deleted (purgePublished) when nothing more depends on it: its  *)
(* event was handled, or the consumer still has a message of it to handle  *)
(* or has given one up.                                                    *)
PurgedIsAccountedFor ==
  \A e \in Id : row[e] = "purged" =>
    \/ e \in consumed
    \/ \E i \in DOMAIN stream : stream[i] = e /\ status[i] # "acked"

(* No row is taken for sent, or deleted as done with, whose event is not   *)
(* on its way to having been handled, and the stream has it once, and once *)
(* more at most for each lapse of its duplicate window (relay.ts:82-84).   *)
SentAreAccountedFor == TypeOK /\ SentIsOnStream /\ PurgedIsAccountedFor /\ OnStreamOnce
=============================================================================
