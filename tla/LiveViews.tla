------------------------------ MODULE LiveViews ------------------------------
(***************************************************************************)
(* What the realtime hub shows of a tenant's live calls (services/api-     *)
(* gateway/src/realtime/user-calls.ts, presence.ts, calls.ts): a person's  *)
(* view of the legs that are theirs, or bridged to theirs, and the         *)
(* presence of the extensions.  Both are loaded once and from then on kept *)
(* by the events alone, as the client keeps what it was sent.              *)
(*                                                                         *)
(* Legs and their events are call-control's.                               *)
(***************************************************************************)
EXTENDS FiniteSets

CONSTANTS
  Leg, NoLeg,
  Extension, NoExtension,
  OnExtension,   \* the extension a leg belongs to, if any
  Placed,        \* legs the node placed (outbound)
  Mine,          \* the extensions in the person's scope
  Unnamed        \* whether legs may be bridged before an event has named their tenant

ASSUME ViewsAssumption ==
  /\ NoLeg \notin Leg /\ NoExtension \notin Extension
  /\ OnExtension \in [Leg -> Extension \cup {NoExtension}]
  /\ Placed \subseteq Leg /\ Mine \subseteq Extension /\ Unnamed \in BOOLEAN

VARIABLES
  legs,      \* the tenant's legs (CallsTracker.legs)
  shown,     \* CallsView.shown
  client,    \* the legs the person's client shows
  status,    \* registration and do not disturb of each extension
  lights     \* the presence a client shows of it

viewVars == <<legs, shown, client, status, lights>>

(* queue: whether it is in a queue of the person's scope.                  *)
LegState ==
  [state : {"ringing", "up"}, bridgedTo : Leg \cup {NoLeg}, queue : BOOLEAN]

(* A leg no event of which has named the tenant, and one that is over.     *)
Unknown == [state |-> "unknown", bridgedTo |-> NoLeg, queue |-> FALSE]
Over    == [state |-> "over", bridgedTo |-> NoLeg, queue |-> FALSE]

Presence == {"idle", "ringing", "on_call", "dnd", "offline"}

Known == {l \in Leg : legs[l] \notin {Unknown, Over}}

ViewsTypeOK ==
  /\ legs \in [Leg -> LegState \cup {Unknown, Over}]
  /\ shown \in SUBSET Leg
  /\ client \in [Leg -> LegState \cup {Unknown}]
  /\ status \in [Extension -> [registered : BOOLEAN, dnd : BOOLEAN]]
  /\ lights \in [Extension -> Presence]

ViewsInit ==
  /\ legs = [l \in Leg |-> Unknown]
  /\ shown = {}
  /\ client = [l \in Leg |-> Unknown]
  /\ status = [x \in Extension |-> [registered |-> TRUE, dnd |-> FALSE]]
  /\ lights = [x \in Extension |-> "idle"]

-----------------------------------------------------------------------------
(* Which legs are theirs, which belong to the view, and an extension's     *)
(* state.                                                                  *)

Owns(ls, l) == OnExtension[l] \in Mine \/ ls[l].queue

Halves(ls, l) == {k \in Known : ls[l].bridgedTo = k \/ ls[k].bridgedTo = l}

(* CallsView.load. *)
Loaded ==
  LET own == {l \in Known : Owns(legs, l)}
  IN  own \cup UNION {Halves(legs, l) : l \in own}

StateOf(ls, s, x) ==
  LET on == {l \in Leg : OnExtension[l] = x /\ ls[l] \notin {Unknown, Over}}
  IN  CASE \E l \in on : ls[l].state # "ringing" \/ l \notin Placed -> "on_call"
        [] on # {} /\ \A l \in on : ls[l].state = "ringing" /\ l \in Placed -> "ringing"
        [] on = {} /\ ~s[x].registered -> "offline"
        [] on = {} /\ s[x].registered /\ s[x].dnd -> "dnd"
        [] OTHER -> "idle"

(* apply of TenantPresence: the extension of the leg, and no other.        *)
Lights(l) ==
  lights' = [x \in Extension |-> IF x = OnExtension[l] THEN StateOf(legs', status, x) ELSE lights[x]]

(* Shows what is new as it stands, and what changed.                       *)
Shows(new, changed) ==
  /\ shown' = shown \cup new
  /\ client' = [l \in Leg |-> IF l \in (new \ shown) \cup (changed \cap (shown \cup new))
                              THEN legs'[l] ELSE client[l]]

-----------------------------------------------------------------------------
(* The events, each applied to the legs, to the view and to presence. *)

(* Defective: the other half is not looked for.                            *)
StartsAlone(l, s) ==
  /\ legs[l] = Unknown /\ ~s.queue
  /\ legs' = [legs EXCEPT ![l] = s]
  /\ Shows(IF Owns(legs', l) THEN {l} ELSE {}, {l})
  /\ Lights(l)
  /\ UNCHANGED status

(* call.channel.created, or identified with its state so far, which does   *)
(* not include the queue.  A bridge comes after both legs are identified.  *)
Starts(l, s) ==
  /\ legs[l] = Unknown /\ ~s.queue
  /\ Unnamed \/ s.bridgedTo \in Known \cup {NoLeg}
  /\ legs' = [legs EXCEPT ![l] = s]
  /\ LET other == {k \in Known : k = s.bridgedTo}
         theirs == \E k \in other : k \in shown /\ Owns(legs, k)
     IN  Shows(IF Owns(legs', l) THEN {l} \cup other ELSE IF theirs THEN {l} ELSE {}, {l})
  /\ Lights(l)
  /\ UNCHANGED status

Answers(l) ==
  /\ l \in Known
  /\ legs' = [legs EXCEPT ![l].state = "up"]
  /\ Shows({}, {l})
  /\ Lights(l)
  /\ UNCHANGED status

(* The other leg is one whose tenant is known (channel-handler.ts identi-  *)
(* fies it first).                                                         *)
Bridges(l, k) ==
  /\ {l, k} \subseteq Known /\ l # k
  /\ legs' = [legs EXCEPT ![l].bridgedTo = k]
  /\ Shows((IF Owns(legs, l) THEN {k} ELSE {}) \cup (IF Owns(legs, k) THEN {l} ELSE {}), {l})
  /\ Lights(l)
  /\ UNCHANGED status

(* It enters a queue, of the person's scope or not.                        *)
Queued(l, q) ==
  /\ l \in Known
  /\ legs' = [legs EXCEPT ![l].queue = q]
  /\ Shows(IF Owns(legs', l) THEN {l} \cup Halves(legs, l) ELSE {}, {l})
  /\ Lights(l)
  /\ UNCHANGED status

(* Hung up, or lost with its node.                                         *)
Ends(l) ==
  /\ l \in Known
  /\ legs' = [legs EXCEPT ![l] = Over]
  /\ shown' = shown \ {l}
  /\ client' = [client EXCEPT ![l] = Unknown]
  /\ Lights(l)
  /\ UNCHANGED status

(* applyStatus.                                                            *)
StatusChanges(x, s) ==
  /\ status' = [status EXCEPT ![x] = s]
  /\ lights' = [lights EXCEPT ![x] = StateOf(legs, status', x)]
  /\ UNCHANGED <<legs, shown, client>>

(* The person subscribes, or does so again: the view is loaded anew.       *)
Subscribes ==
  /\ shown' = Loaded
  /\ client' = [l \in Leg |-> IF l \in Loaded THEN legs[l] ELSE Unknown]
  /\ UNCHANGED <<legs, status, lights>>

ViewsNext ==
  \/ \E l \in Leg : Answers(l) \/ Ends(l) \/ (\E s \in LegState : Starts(l, s))
  \/ \E l, k \in Leg : Bridges(l, k)
  \/ \E l \in Leg, q \in BOOLEAN : Queued(l, q)
  \/ \E x \in Extension, r, d \in BOOLEAN : StatusChanges(x, [registered |-> r, dnd |-> d])
  \/ Subscribes

ViewsSpec == ViewsInit /\ [][ViewsNext]_viewVars

-----------------------------------------------------------------------------
(* Properties. *)

(* Kept by events, the view has what it would have if it were loaded now,  *)
(* and "never loses half of a call mid-way" (user-calls.ts:29): theirs and *)
(* the legs bridged to theirs, whichever half said so and in what order.   *)
ViewIsComplete == Loaded \subseteq shown /\ shown \subseteq Known

(* ... and the client, which has only been sent starts, changes and ends,  *)
(* shows those legs as they stand.                                         *)
ClientAgrees ==
  client = [l \in Leg |-> IF l \in shown THEN legs[l] ELSE Unknown]

(* Presence kept by changes is that of the calls and statuses there are.   *)
PresenceAgrees == \A x \in Extension : lights[x] = StateOf(legs, status, x)

(* The views that are kept by events are those of the calls there are, and *)
(* so is what the client makes of them.                                    *)
ViewsAgree == ViewsTypeOK /\ ViewIsComplete /\ ClientAgrees /\ PresenceAgrees
=============================================================================
