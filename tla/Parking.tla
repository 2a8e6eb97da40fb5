------------------------------ MODULE Parking ------------------------------
(***************************************************************************)
(* Parking a live call in a slot of a lot (services/call-control/src/      *)
(* call-operations.ts, park): the slots the node has calls in are read, the*)
(* first that is neither occupied nor reserved in Redis is reserved for a  *)
(* while, the change audited, and the call sent to the slot's number, where*)
(* valet_park puts it in an empty slot and joins it to the call in an      *)
(* occupied one (services/telephony-config/src/xml.ts).                    *)
(***************************************************************************)
EXTENDS Integers, FiniteSets

CONSTANTS
  ParkAsker,   \* who park calls
  Live,        \* calls that may be parked
  MaxSlot,     \* the lot's slots
  Timely,      \* a reservation outlives the moves and the look it is for
  Dialled      \* those that a phone sends to a slot's number itself

ASSUME ParkingAssumption ==
  /\ MaxSlot \in Nat \ {0} /\ Timely \in BOOLEAN /\ Dialled \subseteq Live
  /\ "none" \notin Live

Space == 1..MaxSlot

VARIABLES
  spot,        \* the node: the call in each slot
  whereto,     \* the slot each call is on its way to; 0 when none
  reserved,    \* the slots reserved in Redis
  parking,     \* what each asker is at
  left,        \* the calls that are over, or were taken back
  blind,       \* history: the calls sent to a slot the node had refused to list
  met          \* history: who came to a slot, with whom it was joined to there

parkVars == <<spot, whereto, reserved, parking, left, blind, met>>

NoPark == [at |-> "idle", call |-> "none", taken |-> {}, listed |-> TRUE, slot |-> 0]

ParkTypeOK ==
  /\ spot \in [Space -> Live \cup {"none"}] /\ whereto \in [Live -> 0..MaxSlot]
  /\ reserved \subseteq Space /\ left \cup blind \subseteq Live /\ met \subseteq Live \X Live
  /\ \A a \in ParkAsker : /\ parking[a].at \in {"idle", "look", "reserve", "audit", "send"}
                          /\ parking[a].slot \in 0..(MaxSlot + 1) /\ parking[a].taken \subseteq Space
                          /\ parking[a].listed \in BOOLEAN
  /\ \A c \in Live : Cardinality({s \in Space : spot[s] = c}) <= 1

ParkInit ==
  /\ spot = [s \in Space |-> "none"] /\ whereto = [c \in Live |-> 0]
  /\ reserved = {} /\ parking = [a \in ParkAsker |-> NoPark] /\ left = {}
  /\ blind = {} /\ met = {}

-----------------------------------------------------------------------------
InSpot(c) == \E s \in Space : spot[s] = c

Sets(a, p) == parking' = [parking EXCEPT ![a] = p]

Park(a, c) ==
  /\ parking[a].at = "idle" /\ c \in Live \ (left \cup Dialled)
  /\ Sets(a, [NoPark EXCEPT !.at = "look", !.call = c])
  /\ UNCHANGED <<spot, whereto, reserved, left, blind, met>>

(* valet_info: the node lists the slots it has calls in; or refuses, which *)
(* is read as a lot that is empty; or is not reached, and nothing is done. *)
ListSlots(a) ==
  /\ parking[a].at = "look"
  /\ \/ \E listed \in BOOLEAN :
          LET occupied == IF listed THEN {s \in Space : spot[s] # "none"} ELSE {}
          IN  Sets(a, [parking[a] EXCEPT !.at = "reserve", !.slot = 1,
                                         !.taken = occupied, !.listed = listed])
     \/ Sets(a, NoPark)
  /\ UNCHANGED <<spot, whereto, reserved, left, blind, met>>

(* Defective: the reservation is set whether or not there is one.          *)
ReserveOver(a) ==
  LET p == parking[a]
  IN  /\ p.at = "reserve"
      /\ \/ p.slot > MaxSlot /\ Sets(a, NoPark) /\ UNCHANGED reserved
         \/ p.slot \in p.taken /\ Sets(a, [p EXCEPT !.slot = @ + 1]) /\ UNCHANGED reserved
         \/ /\ p.slot \in Space \ p.taken
            /\ reserved' = reserved \cup {p.slot} /\ Sets(a, [p EXCEPT !.at = "audit"])
      /\ UNCHANGED <<spot, whereto, left, blind, met>>

(* SET NX of one candidate after the other; none is left: the lot is full. *)
Reserve(a) ==
  LET p == parking[a]
  IN  /\ p.at = "reserve"
      /\ \/ p.slot > MaxSlot /\ Sets(a, NoPark) /\ UNCHANGED reserved
         \/ /\ p.slot \in p.taken \cup reserved
            /\ Sets(a, [p EXCEPT !.slot = @ + 1]) /\ UNCHANGED reserved
         \/ /\ p.slot \in Space \ (p.taken \cup reserved)
            /\ reserved' = reserved \cup {p.slot} /\ Sets(a, [p EXCEPT !.at = "audit"])
      /\ UNCHANGED <<spot, whereto, left, blind, met>>

(* Nothing unaudited: without the audit nothing is done.                   *)
AuditPark(a) ==
  /\ parking[a].at = "audit"
  /\ \/ Sets(a, [parking[a] EXCEPT !.at = "send"])
     \/ Sets(a, NoPark)
  /\ UNCHANGED <<spot, whereto, reserved, left, blind, met>>

(* The node is told, unless the call is gone or the command fails: the     *)
(* call leaves where it was.                                               *)
SendTo(a) ==
  LET p == parking[a]
  IN  /\ p.at = "send" /\ Sets(a, NoPark)
      /\ \/ /\ p.call \notin left /\ whereto' = [whereto EXCEPT ![p.call] = p.slot]
            /\ spot' = [s \in Space |-> IF spot[s] = p.call THEN "none" ELSE spot[s]]
            /\ blind' = IF p.listed THEN blind \ {p.call} ELSE blind \cup {p.call}
         \/ UNCHANGED <<spot, whereto, blind>>
      /\ UNCHANGED <<reserved, left, met>>

(* A phone transfers a call to the slot's number itself.                   *)
DialSlot(c, s) ==
  /\ c \in Dialled \ left /\ ~InSpot(c) /\ whereto[c] = 0
  /\ whereto' = [whereto EXCEPT ![c] = s]
  /\ UNCHANGED <<spot, reserved, parking, left, blind, met>>

(* valet_park: the dialplan has the call at the slot.                      *)
Arrive(c) ==
  /\ whereto[c] # 0 /\ whereto' = [whereto EXCEPT ![c] = 0]
  /\ LET s == whereto[c]
     IN  \/ /\ spot[s] = "none" /\ spot' = [spot EXCEPT ![s] = c] /\ UNCHANGED <<left, met>>
         \/ /\ spot[s] # "none" /\ spot' = [spot EXCEPT ![s] = "none"]
            /\ met' = met \cup {<<c, spot[s]>>} /\ left' = left \cup {c, spot[s]}
  /\ UNCHANGED <<reserved, parking, blind>>

(* Somebody dials the slot to take the call, or its caller hangs up.       *)
Leave(c) ==
  /\ c \notin left /\ left' = left \cup {c}
  /\ spot' = [s \in Space |-> IF spot[s] = c THEN "none" ELSE spot[s]]
  /\ whereto' = [whereto EXCEPT ![c] = 0]
  /\ UNCHANGED <<reserved, parking, blind, met>>

(* The reservation's time is up.                                           *)
LapseSlot(s) ==
  /\ s \in reserved /\ reserved' = reserved \ {s}
  /\ Timely => /\ \A a \in ParkAsker :
                    /\ ~(parking[a].at \in {"audit", "send"} /\ parking[a].slot = s)
                    /\ ~(/\ parking[a].at = "reserve" /\ parking[a].listed
                         /\ s \notin parking[a].taken /\ spot[s] # "none")
               /\ \A c \in Live : whereto[c] # s
  /\ UNCHANGED <<spot, whereto, parking, left, blind, met>>

ParkNext ==
  \/ \E a \in ParkAsker : \/ \E c \in Live : Park(a, c)
                          \/ ListSlots(a) \/ Reserve(a) \/ AuditPark(a) \/ SendTo(a)
  \/ \E c \in Live : Arrive(c) \/ Leave(c) \/ \E s \in Space : DialSlot(c, s)
  \/ \E s \in Space : LapseSlot(s)

ParkSpec == ParkInit /\ [][ParkNext]_parkVars

-----------------------------------------------------------------------------
(* Two that the service parks do not meet in one slot, which would join    *)
(* two callers, but when the node had refused to list its slots to the     *)
(* later of them: what the node has not listed yet is reserved, and what is*)
(* no longer reserved is listed (call-operations.ts:629-653).              *)
NeverTwoInOne == \A p \in met : p[1] \in Dialled \cup blind \/ p[2] \in Dialled

(* The same with no such exception, as docs/decisions.md:166 has it: it    *)
(* does not hold, for a refusal counts as an empty lot.                    *)
ParksNeverMeet == \A p \in met : {p[1], p[2]} \cap Dialled # {}

(* The same of the calls that phones park: it does not hold, for a phone   *)
(* reserves nothing.                                                       *)
NoneMeet == met = {}
=============================================================================
