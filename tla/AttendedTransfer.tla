-------------------------- MODULE AttendedTransfer --------------------------
(***************************************************************************)
(* An attended transfer from a person's portal (services/call-control/src/ *)
(* call-operations.ts: consult, completeTransfer and cancelTransfer): the  *)
(* other party waits with music while the person's own leg dials a         *)
(* colleague, and is then joined to the colleague or to the person again.  *)
(* Each is a series of commands to the media node, chosen by what the      *)
(* registry says, which follows the node's events; people hang up and      *)
(* answer meanwhile, and the node's scheduler calls the person back when a *)
(* party waited for too long.  What the node does with a command is what   *)
(* FreeSWITCH does; the legs are one person's.                             *)
(***************************************************************************)
EXTENDS Naturals, Sequences, FiniteSets

Ext == INSTANCE SequencesExt

CONSTANTS
  Request,     \* requests in progress at once
  Other,       \* legs that calls make, besides the first two
  MayFail,     \* steps that may fail, or before which the service may die
  MaxAsks,     \* bound: requests
  MaxFails     \* bound: failures

Channel == {"person", "party"} \cup Other

Steps == {"stay", "note", "hold", "schedule", "dial", "join", "forget", "kill", "back", "drop",
          "unstay", "clear"}

ASSUME AttendedTransferAssumption ==
  /\ "none" \notin Channel /\ {"person", "party"} \cap Other = {}
  /\ MayFail \subseteq Steps /\ MaxAsks \in Nat /\ MaxFails \in Nat

VARIABLES
  up,          \* the legs that are up
  joined,      \* the pairs that talk
  rings,       \* <<leg, leg>>: who calls whom, not answered yet
  music,       \* the legs that wait with music
  stays,       \* park_after_bridge of the person's leg
  timer,       \* the legs whose ring-back is scheduled
  used,        \* the legs of Other that calls were made with
  mine,        \* those of the person's own phone, made by a ring-back
  unseen,      \* the node's events the registry has not seen
  known,       \* the registry: its calls
  named,       \* the registry: bridgedTo of each
  held,        \* the registry: consultHeld of the person's leg
  move,        \* what each request is at
  asks, fails

node == <<up, joined, rings, music, stays, timer, used, mine, unseen>>
registered == <<known, named, held>>
transferVars == <<node, registered, move, asks, fails>>

Idle == [op |-> "none", at |-> "idle", waiting |-> "none", other |-> "none"]

TransferTypeOK ==
  /\ up \subseteq Channel /\ joined \subseteq SUBSET up /\ rings \subseteq up \X up
  /\ \A p \in joined : Cardinality(p) = 2
  /\ \A l \in up : Cardinality({p \in joined : l \in p}) + Cardinality({c \in rings : l \in {c[1], c[2]}})
                   + (IF l \in music THEN 1 ELSE 0) <= 1
  /\ music \subseteq up /\ timer \subseteq Channel /\ used \subseteq Other /\ mine \subseteq used /\ stays \in BOOLEAN
  /\ known \subseteq Channel /\ named \in [Channel -> Channel \cup {"none"}] /\ held \in Channel \cup {"none"}
  /\ asks \in 0..MaxAsks /\ fails \in 0..MaxFails

(* They talk; the registry has the other leg on the leg that called.       *)
TransferInit ==
  /\ up = {"person", "party"} /\ joined = {up} /\ rings = {} /\ music = {}
  /\ stays = FALSE /\ timer = {} /\ used = {} /\ mine = {} /\ unseen = <<>>
  /\ known = up
  /\ \E caller \in up :
       named = [l \in Channel |-> IF l = caller THEN CHOOSE o \in up : o # l ELSE "none"]
  /\ held = "none"
  /\ move = [r \in Request |-> Idle]
  /\ asks = 0 /\ fails = 0

-----------------------------------------------------------------------------
(* The media node.                                                         *)

(* Who was talking to one of S, or was rung by one: they end when S goes   *)
(* elsewhere, but for the person's own leg once it is told to stay.        *)
LeftBy(S) ==
  {l \in up \ S : /\ \/ \E p \in joined : l \in p /\ p \cap S # {}
                     \/ \E c \in rings : c[2] = l /\ c[1] \in S
                  /\ ~(l = "person" /\ stays)}

(* What becomes of the legs: who ends, talks to whom, calls whom, waits,   *)
(* and what leg is made.  A leg that does leaves what it was in.           *)
Still == [ending |-> {}, talking |-> {}, calling |-> {}, waiting |-> {}, made |-> {}]

Says(kind, legs) == Ext!SetToSeq({[is |-> kind, of |-> l, with |-> "none"] : l \in legs})

Becomes(m) ==
  LET moved == m.waiting \cup {p[1] : p \in m.talking \cup m.calling} \cup {p[2] : p \in m.talking}
      out   == m.ending \cup LeftBy(moved \cup m.ending)
      away  == moved \cup out
  IN  /\ up' = (up \cup m.made) \ out /\ used' = used \cup m.made
      /\ joined' = {p \in joined : p \cap away = {}} \cup {{p[1], p[2]} : p \in m.talking}
      /\ rings' = {c \in rings : {c[1], c[2]} \cap away = {}} \cup m.calling
      /\ music' = (music \ away) \cup m.waiting
      /\ unseen' = unseen \o Says("made", m.made)
                      \o Ext!SetToSeq({[is |-> "bridged", of |-> p[1], with |-> p[2]] : p \in m.talking})
                      \o Says("ended", out)

(* A leg no call has had (bound: the legs of Other).                       *)
Fresh == {l \in Other \ used : l = CHOOSE o \in Other \ used : TRUE}

(* Somebody hangs up.  A call that is not taken ends its caller's too.     *)
HangUp(l) ==
  /\ l \in up
  /\ Becomes([Still EXCEPT !.ending = {l} \cup {c[1] : c \in {d \in rings : d[2] = l}}])
  /\ UNCHANGED <<stays, timer, mine, registered, move, asks, fails>>

PickUp(c) ==
  /\ c \in rings
  /\ Becomes([Still EXCEPT !.talking = {c}])
  /\ UNCHANGED <<stays, timer, mine, registered, move, asks, fails>>

(* sched_api: whoever waits calls the person's number, wherever it is by   *)
(* now.                                                                    *)
RingBack(l) ==
  /\ l \in timer /\ timer' = timer \ {l}
  /\ \/ /\ l \in up
        /\ \E f \in Fresh : /\ Becomes([Still EXCEPT !.calling = {<<l, f>>}, !.made = {f}])
                            /\ mine' = mine \cup {f}
     \/ l \notin up /\ UNCHANGED <<up, joined, rings, music, used, unseen, mine>>
  /\ UNCHANGED <<stays, registered, move, asks, fails>>

(* The registry, event by event (channel-handler.ts).                      *)
Hear ==
  /\ unseen # <<>> /\ unseen' = Tail(unseen)
  /\ LET e == Head(unseen)
     IN  /\ known' = IF e.is = "made" THEN known \cup {e.of}
                     ELSE IF e.is = "ended" THEN known \ {e.of} ELSE known
         /\ named' = IF e.is = "bridged" /\ e.of \in known THEN [named EXCEPT ![e.of] = e.with]
                     ELSE IF e.is = "ended" THEN [named EXCEPT ![e.of] = "none"] ELSE named
         /\ held' = IF e.is = "ended" /\ e.of = "person" THEN "none" ELSE held
  /\ UNCHANGED <<up, joined, rings, music, stays, timer, used, mine, move, asks, fails>>

-----------------------------------------------------------------------------
(* Reading the registry.                                                   *)

(* Whom the person's leg names, or who names the person's leg.             *)
BridgedWith(except) ==
  IF named["person"] \notin {"none", except} THEN {named["person"]}
  ELSE {l \in known \ {"person", except} : named[l] = "person"}

(* A leg of the call is answered by the time a bridge of it is heard.      *)
Consult(r) ==
  /\ ~(held # "none" /\ held \in known)
  /\ \E w \in BridgedWith("none") \cap known :
       move' = [move EXCEPT ![r] = [op |-> "consult", at |-> "stay", waiting |-> w, other |-> "none"]]

Complete(r) ==
  /\ held \in known
  /\ \E c \in (BridgedWith(held) \cap known) \ {held} :
       move' = [move EXCEPT ![r] = [op |-> "complete", at |-> "join", waiting |-> held, other |-> c]]

Cancel(r) ==
  /\ held \in known
  /\ move' = [move EXCEPT ![r] = [op |-> "cancel", at |-> "back", waiting |-> held, other |-> "none"]]

AskFor(r) ==
  /\ move[r].at = "idle" /\ "person" \in known
  /\ asks < MaxAsks /\ asks' = asks + 1
  /\ Consult(r) \/ Complete(r) \/ Cancel(r)
  /\ UNCHANGED <<node, registered, fails>>

-----------------------------------------------------------------------------
(* The commands, each once the one before was carried out.                 *)

Then(r, step) ==
  move' = [move EXCEPT ![r] = IF step = "idle" THEN Idle ELSE [@ EXCEPT !.at = step]]

(* A command for a leg that is gone: "no such call", and nothing more.     *)
NoSuch(r, legs) == ~(legs \subseteq up) /\ Then(r, "idle") /\ UNCHANGED <<node, held>>

(* park_after_bridge of the person's leg.                                  *)
Stays(r, step, value, next) ==
  /\ move[r].at = step
  /\ \/ NoSuch(r, {"person"})
     \/ /\ "person" \in up /\ stays' = value /\ Then(r, next)
        /\ UNCHANGED <<up, joined, rings, music, timer, used, mine, unseen, held>>
  /\ UNCHANGED <<known, named, asks, fails>>

(* Defective: the registry is not told.                                    *)
UnstayBefore(r) == Stays(r, "unstay", FALSE, "idle")

Stay(r) == Stays(r, "stay", TRUE, "note")

Unstay(r) == Stays(r, "unstay", FALSE, "clear")

(* updateCall: the registry knows who waits, or that nobody does.          *)
Notes(r, step, value, next) ==
  /\ move[r].at = step /\ Then(r, next)
  /\ held' = IF "person" \in known THEN value ELSE held
  /\ UNCHANGED <<node, known, named, asks, fails>>

Remember(r) == Notes(r, "note", move[r].waiting, "hold") \/ Notes(r, "clear", "none", "idle")

(* consult: music for whoever waits.                                       *)
Hold(r) ==
  LET w == move[r].waiting
  IN  /\ move[r].at = "hold"
      /\ \/ NoSuch(r, {w})
         \/ /\ w \in up /\ Becomes([Still EXCEPT !.waiting = {w}])
            /\ Then(r, "schedule")
            /\ UNCHANGED <<stays, timer, mine, held>>
      /\ UNCHANGED <<known, named, asks, fails>>

(* Defective: the task is one for the person's leg.                        *)
ScheduleOther(r) ==
  /\ move[r].at = "schedule" /\ timer' = timer \cup {"person"} /\ Then(r, "dial")
  /\ UNCHANGED <<up, joined, rings, music, stays, used, mine, unseen, registered, asks, fails>>

Schedule(r) ==
  /\ move[r].at = "schedule" /\ timer' = timer \cup {move[r].waiting} /\ Then(r, "dial")
  /\ UNCHANGED <<up, joined, rings, music, stays, used, mine, unseen, registered, asks, fails>>

Dial(r) ==
  /\ move[r].at = "dial"
  /\ \/ NoSuch(r, {"person"})
     \/ /\ "person" \in up
        /\ \E f \in Fresh : Becomes([Still EXCEPT !.calling = {<<"person", f>>}, !.made = {f}])
        /\ Then(r, "idle")
        /\ UNCHANGED <<stays, timer, mine, held>>
  /\ UNCHANGED <<known, named, asks, fails>>

(* completeTransfer, cancelTransfer: uuid_bridge.                          *)
Bridge(r, step, a, b, next) ==
  /\ move[r].at = step
  /\ \/ NoSuch(r, {a, b})
     \/ /\ {a, b} \subseteq up /\ Becomes([Still EXCEPT !.talking = {<<a, b>>}])
        /\ Then(r, next)
        /\ UNCHANGED <<stays, timer, mine, held>>
  /\ UNCHANGED <<known, named, asks, fails>>

Join(r) == Bridge(r, "join", move[r].waiting, move[r].other, "forget")

Back(r) == Bridge(r, "back", "person", move[r].waiting, "drop")

(* cancelRingBack.                                                         *)
Forgets(r, step, next) ==
  /\ move[r].at = step /\ timer' = timer \ {move[r].waiting} /\ Then(r, next)
  /\ UNCHANGED <<up, joined, rings, music, stays, used, mine, unseen, registered, asks, fails>>

(* Defective: only a completed transfer cancels it.                        *)
ForgetCompleted(r) ==
  \/ Forgets(r, "forget", "kill")
  \/ move[r].at = "drop" /\ Then(r, "unstay") /\ UNCHANGED <<node, registered, asks, fails>>

Forget(r) == Forgets(r, "forget", "kill") \/ Forgets(r, "drop", "unstay")

(* completeTransfer: the person leaves, unless they have.                  *)
Kill(r) ==
  /\ move[r].at = "kill" /\ Then(r, "idle")
  /\ IF "person" \in up THEN Becomes([Still EXCEPT !.ending = {"person"}])
     ELSE UNCHANGED <<up, joined, rings, music, used, unseen>>
  /\ UNCHANGED <<stays, timer, mine, registered, asks, fails>>

Commands(r) ==
  Stay(r) \/ Remember(r) \/ Hold(r) \/ Schedule(r) \/ Dial(r)
  \/ Join(r) \/ Back(r) \/ Forget(r) \/ Kill(r) \/ Unstay(r)

(* A command fails, or the service dies before it: what was done stays     *)
(* done.  A ring-back that could not be cancelled is only logged.          *)
Fail(r) ==
  /\ move[r].at \in MayFail /\ fails < MaxFails /\ fails' = fails + 1
  /\ \/ Then(r, "idle")
     \/ move[r].at = "forget" /\ Then(r, "kill")
     \/ move[r].at = "drop" /\ Then(r, "unstay")
  /\ UNCHANGED <<node, registered, asks>>

TransferNext ==
  \/ \E l \in Channel : HangUp(l) \/ RingBack(l)
  \/ \E c \in rings : PickUp(c)
  \/ Hear
  \/ \E r \in Request : AskFor(r) \/ Commands(r) \/ Fail(r)

(* The node, its events and the service go on; nobody need answer, hang up *)
(* or press anything.                                                      *)
TransferSpec ==
  /\ TransferInit /\ [][TransferNext]_transferVars
  /\ \A l \in Channel : WF_transferVars(RingBack(l))
  /\ WF_transferVars(Hear)
  /\ \A r \in Request : WF_transferVars(Commands(r))

-----------------------------------------------------------------------------
(* Whoever waits is not left waiting, whatever becomes of the transfer     *)
(* afterwards: after a while they call the person again.                   *)
NobodyWaitsForGood == <>[](music = {})

(* Whoever was joined to somebody is not taken away again by the ring-back *)
(* of when they waited, once the request that joined them is through.      *)
NobodyTornAway ==
  [][\A l \in Channel :
       l \in timer \ timer' /\ l \in up /\ (\E p \in joined : l \in p)
         => \E r \in Request : move[r].at \in {"forget", "drop"} /\ move[r].waiting = l]_transferVars

(* A transfer ends nobody's call but those it is to end: the person's own  *)
(* ringing back, of a completed one the person's leg, of a cancelled one   *)
(* the colleague's.                                                        *)
OnlyTheyLeave ==
  [][\A r \in Request :
       move[r] # move'[r] =>
         up \ up' \subseteq mine \cup (CASE move[r].op = "complete" -> {"person"}
                                        [] move[r].op = "cancel"   -> Other
                                        [] OTHER                      -> {})]_transferVars

(* While the registry says that somebody waits for this person, there is a *)
(* way back: the person's leg stays up when the others leave.              *)
HeldMeansStays ==
  held # "none" /\ "person" \in up => stays \/ \E r \in Request : move[r].at = "clear"

(* A transfer takes nobody away from whom they were joined to, and ends    *)
(* nobody's call but those it is to end.                                   *)
TransfersKeepThem == NobodyTornAway /\ OnlyTheyLeave
=============================================================================
