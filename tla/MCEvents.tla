------------------------------- MODULE MCEvents -------------------------------
(* EventDelivery for TLC, with everything that may go wrong on both sides  *)
(* of the stream (the relays are alike, and so are the workers); and       *)
(* CallEvents on one replica: Redis loses the registry while the node is   *)
(* handed over, or an owner with a longer queue may give an event up and   *)
(* hashes expire.  Which of the three is chosen initially.                 *)
EXTENDS EventDelivery, TLC

CONSTANTS Call, Replica, NoOne, NoCall, c1, c2

VARIABLES nodeUp, channel, owner, queue, job, epoch, announced, slips, hash, index, part

calls == <<nodeUp, channel, owner, queue, job, epoch, announced, slips, hash, index>>

(* For symmetry reduction. *)
Alike == Permutations(Relay) \cup Permutations(Worker)

FirstAndLater == [c \in Call |-> IF c = c1 THEN "first" ELSE "later"]
LaterAndNever == [c \in Call |-> IF c = c1 THEN "later" ELSE "never"]

Rebuilt ==
  INSTANCE CallEvents WITH
    Says <- FirstAndLater, MaxQueue <- 2, Faults <- {"redis", "handover"}, MaxFaults <- 2, faults <- slips

Steady ==
  INSTANCE CallEvents WITH
    Says <- LaterAndNever, MaxQueue <- 3, Faults <- {"task", "expiry"}, MaxFaults <- 2, faults <- slips

ASSUME DeliveryAssumption == Bounds

ASSUME CallsAssumption == Rebuilt!EventsAssumption /\ Steady!EventsAssumption

(* A second call comes only while no more than one task waits.             *)
Short == channel'[c2] = "none" \/ \A r \in Replica : Len(queue'[r]) <= 1

EventsInit == DeliveryInit /\ Rebuilt!Init /\ part \in {"delivery", "rebuild", "steady"}

EventsNext ==
  /\ CASE part = "delivery" -> (Produce \/ Consume) /\ UNCHANGED calls
       [] part = "rebuild"  -> Rebuilt!Next /\ Short /\ UNCHANGED allVars
       [] part = "steady"   -> Steady!Next /\ UNCHANGED allVars
  /\ UNCHANGED part

EventsSpec == EventsInit /\ [][EventsNext]_<<allVars, calls, part>>

(* Each property is of one of the three. *)

QueueTypeOK == part = "steady" => Steady!TypeOK

(* NoneMissing, of a registry that is rebuilt.                             *)
RebuildMissesNone == part = "rebuild" => Rebuilt!NoneMissing

(* AnnouncedFirst, of a node that keeps its owner.                         *)
SteadyAnnouncedFirst == part = "steady" => Steady!AnnouncedFirst

(* AnnouncedInOrder, of a node that keeps its owner.                       *)
SteadyInOrder == [][part = "steady" => \A c \in Call : Steady!InOrder(c)]_calls

(* What the registry shows was announced and none that is up is announced  *)
(* as over or forgotten: of a node that keeps its owner, of one that       *)
(* changes owners, and of a registry that was lost.                        *)
RegistryIsRight == QueueTypeOK /\ SteadyAnnouncedFirst /\ RebuildMissesNone /\ Rebuilt!OnlyEndedHungUp
=============================================================================
