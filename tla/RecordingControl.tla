-------------------------- MODULE RecordingControl --------------------------
(***************************************************************************)
(* Starting, stopping, pausing and resuming the recording of a call in     *)
(* progress, with a console's buttons (services/call-control/src/          *)
(* recording-control.ts) and a phone's feature codes (telephony/           *)
(* freeswitch/scripts/recording_control.lua).  Each reads which recording  *)
(* the call has from its channel, asks recording-service, which decides    *)
(* and audits (services/recording-service/src/routes/internal.routes.ts,   *)
(* repo/recording.repo.ts), and has the node do what it was told.  A copy  *)
(* of call-control takes a call's requests one at a time; the copies, and  *)
(* the feature codes, know nothing of one another.                         *)
(***************************************************************************)
EXTENDS Naturals, FiniteSets

CONSTANTS
  Asker,      \* who presses buttons and feature codes
  Copy,       \* of each: the process that takes its requests in turn
  Code,       \* those that press feature codes
  MaxId,      \* bound: recordings of the call
  MaxPresses,   \* bound: requests
  MaxFault    \* bound: failures of the node or of its commands

ASSUME RecordingControlAssumption ==
  /\ Code \subseteq Asker /\ \A a \in Asker : Copy[a] \in Asker
  /\ MaxId \in Nat \ {0} /\ MaxPresses \in Nat /\ MaxFault \in Nat

Id == 1..MaxId

VARIABLES
  recording,   \* recording-service's rows of the call
  permitted,     \* whether the call's rule allows on demand
  var,         \* the channel's cuc_recording_id; 0 when unset
  tape,        \* what the node does with each: off, on or masked
  display,       \* what the live views were told: off, on or paused
  request,     \* what each is at
  audits,      \* how many changes of each were audited
  done,        \* how many the node has done
  presses, faults,
  mixed        \* history: whether two copies were at the call at once

onNode == <<var, tape, display, done>>
counts == <<presses, faults, mixed>>
controlVars == <<recording, permitted, onNode, request, audits, counts>>

NoRow  == [at |-> "none", ruled |-> FALSE, paused |-> FALSE]
NoWish == [at |-> "idle", wish |-> "none", id |-> 0, verb |-> "none"]

(* A button says which; a code toggles.                                    *)
Wishes(a) == IF a \in Code THEN {"record", "toggle"} ELSE {"start", "stop", "pause", "resume"}

ControlTypeOK ==
  /\ recording \in [Id -> [at : {"none", "running", "stopped"}, ruled : BOOLEAN, paused : BOOLEAN]]
  /\ var \in {0} \cup Id /\ tape \in [Id -> {"off", "on", "masked"}] /\ display \in {"off", "on", "paused"}
  /\ \A a \in Asker :
       /\ request[a].at \in {"idle", "read", "stopping", "starting", "toggling", "told", "done"}
       /\ request[a].wish \in Wishes(a) \cup {"none"}
       /\ request[a].id \in {0} \cup Id /\ request[a].verb \in {"none", "start", "stop", "mask", "unmask"}
  /\ permitted \in BOOLEAN /\ mixed \in BOOLEAN
  /\ presses \in 0..MaxPresses /\ faults \in 0..MaxFault
  /\ \A i \in Id : recording[i].paused => recording[i].at = "running"

(* A rule may record the call from its start; its context may allow more.  *)
ControlInit ==
  /\ \E ruled \in BOOLEAN :
       /\ recording = [i \in Id |-> IF ruled /\ i = 1 THEN [NoRow EXCEPT !.at = "running", !.ruled = TRUE]
                                    ELSE NoRow]
       /\ var = IF ruled THEN 1 ELSE 0
       /\ tape = [i \in Id |-> IF ruled /\ i = 1 THEN "on" ELSE "off"]
       /\ display = IF ruled THEN "on" ELSE "off"
       /\ audits = [i \in Id |-> IF ruled /\ i = 1 THEN 1 ELSE 0]
       /\ done = audits
  /\ permitted \in BOOLEAN
  /\ request = [a \in Asker |-> NoWish]
  /\ presses = 0 /\ faults = 0 /\ mixed = FALSE

-----------------------------------------------------------------------------
Busy(c) == \E a \in Asker : Copy[a] = c /\ request[a].at # "idle"

(* Defective: whatever its copy is at.  What the channel says is read when *)
(* the request's turn comes.                                               *)
Press(a, wish) ==
  /\ request[a].at = "idle" /\ wish \in Wishes(a)
  /\ presses < MaxPresses /\ presses' = presses + 1
  /\ request' = [request EXCEPT ![a] = [at |-> "read", wish |-> wish, id |-> var, verb |-> "none"]]
  /\ mixed' = (mixed \/ \E c \in {Copy[b] : b \in Asker} \ {Copy[a]} : Busy(c))
  /\ UNCHANGED <<recording, permitted, onNode, audits, faults>>

(* withLock: a copy has one at a time.                                     *)
Begin(a, wish) == ~Busy(Copy[a]) /\ Press(a, wish)

(* A refusal, a failure, or the end of it.                                 *)
Leaves(a) == request' = [request EXCEPT ![a] = NoWish]

Turns(a, at) == request' = [request EXCEPT ![a].at = at]

Running(i) == i # 0 /\ recording[i].at = "running"

OnDemand == {i \in Id : Running(i) /\ ~recording[i].ruled}

(* POST control: plain reads decide which transaction is tried, if any.    *)
Decide(a) ==
  LET r == request[a]
      live == Running(r.id)
  IN  /\ r.at = "read"
      /\ CASE r.wish = "start"                  -> IF live \/ OnDemand # {} \/ ~permitted THEN Leaves(a)
                                                   ELSE Turns(a, "starting")
           [] r.wish = "record" /\ ~live         -> IF permitted THEN Turns(a, "starting") ELSE Leaves(a)
           [] r.wish \in {"record", "stop"}      -> IF live /\ ~recording[r.id].ruled
                                                   THEN Turns(a, "stopping") ELSE Leaves(a)
           [] OTHER                              -> IF live /\ (permitted \/ ~recording[r.id].ruled)
                                                   THEN Turns(a, "toggling") ELSE Leaves(a)
      /\ UNCHANGED <<recording, permitted, onNode, audits, counts>>

(* Written with its audit record, which is what the node is then told.     *)
Told(a, i, verb, new) ==
  /\ recording' = [recording EXCEPT ![i] = new]
  /\ audits' = [audits EXCEPT ![i] = @ + 1]
  /\ request' = [request EXCEPT ![a] = [@ EXCEPT !.at = "told", !.id = i, !.verb = verb]]

Refused(a) == Leaves(a) /\ UNCHANGED <<recording, audits>>

(* startOnDemand. *)
StartOnDemand(a) ==
  /\ request[a].at = "starting"
  /\ \E i \in Id : /\ recording[i].at = "none" /\ \A j \in Id : j < i => recording[j].at # "none"
                   /\ Told(a, i, "start", [NoRow EXCEPT !.at = "running"])
  /\ UNCHANGED <<permitted, onNode, counts>>

(* stopOnDemand, under the row's lock.                                     *)
StopOnDemand(a) ==
  LET i == request[a].id
  IN  /\ request[a].at = "stopping"
      /\ IF Running(i) THEN Told(a, i, "stop", [recording[i] EXCEPT !.at = "stopped", !.paused = FALSE])
         ELSE Refused(a)
      /\ UNCHANGED <<permitted, onNode, counts>>

(* togglePause, under the row's lock.                                      *)
TogglePause(a) ==
  LET i == request[a].id
      wrong == \/ request[a].wish = "pause" /\ recording[i].paused
               \/ request[a].wish = "resume" /\ ~recording[i].paused
  IN  /\ request[a].at = "toggling"
      /\ IF Running(i) /\ ~wrong
         THEN Told(a, i, IF recording[i].paused THEN "unmask" ELSE "mask", [recording[i] EXCEPT !.paused = ~@])
         ELSE Refused(a)
      /\ UNCHANGED <<permitted, onNode, counts>>

(* uuid_record: the node starts, stops, silences or hears again a file.  A *)
(* start or a stop it tells by itself.                                     *)
Tape(verb, old) ==
  CASE verb = "start" -> "on"
    [] verb = "stop"  -> "off"
    [] verb = "mask"  -> IF old = "off" THEN "off" ELSE "masked"
    [] OTHER          -> IF old = "off" THEN "off" ELSE "on"

Record(a) ==
  LET r == request[a]
  IN  /\ r.at = "told"
      /\ tape' = [tape EXCEPT ![r.id] = Tape(r.verb, @)]
      /\ display' = IF r.verb \in {"start", "stop"} THEN Tape(r.verb, "off") ELSE display
      /\ done' = [done EXCEPT ![r.id] = @ + 1]
      /\ Turns(a, "done")
      /\ UNCHANGED <<recording, permitted, var, audits, counts>>

(* uuid_setvar, or the event that tells of a pause.                        *)
Note(a) ==
  LET r == request[a]
  IN  /\ r.at = "done"
      /\ var' = CASE r.verb = "start" -> r.id [] r.verb = "stop" -> 0 [] OTHER -> var
      /\ display' = CASE r.verb = "mask" -> "paused" [] r.verb = "unmask" -> "on" [] OTHER -> display
      /\ Leaves(a)
      /\ UNCHANGED <<recording, permitted, tape, done, audits, counts>>

(* recording-service or the node is not reached, or will not.  What was    *)
(* changed before stays so.                                                *)
FailControl(a) ==
  /\ request[a].at \in {"read", "told", "done"} /\ faults < MaxFault
  /\ faults' = faults + 1 /\ Leaves(a)
  /\ UNCHANGED <<recording, permitted, onNode, audits, presses, mixed>>

(* The rules may change meanwhile.                                         *)
ChangeRule ==
  /\ faults < MaxFault /\ faults' = faults + 1
  /\ permitted' = ~permitted
  /\ UNCHANGED <<recording, onNode, request, audits, presses, mixed>>

ControlNext ==
  \/ \E a \in Asker : \/ \E wish \in Wishes(a) : Begin(a, wish)
                      \/ Decide(a) \/ StartOnDemand(a) \/ StopOnDemand(a) \/ TogglePause(a)
                      \/ Record(a) \/ Note(a) \/ FailControl(a)
  \/ ChangeRule

ControlSpec == ControlInit /\ [][ControlNext]_controlVars

-----------------------------------------------------------------------------
(* Properties. *)

Quiet == \A a \in Asker : request[a].at = "idle"

(* What the node should do with a recording.                               *)
Meant(i) == IF ~Running(i) THEN "off" ELSE IF recording[i].paused THEN "masked" ELSE "on"

(* "Nothing happens on the node that was not audited first"                *)
(* (recording-control.ts), whoever asks for what at once.                  *)
NothingUnaudited == \A i \in Id : done[i] <= audits[i]

(* "Two people pressing Pause at once pause it once and the second is      *)
(* refused, instead of resuming it again" (recording.repo.ts): a button    *)
(* never has the node do the opposite.                                     *)
ButtonsMeanIt ==
  \A a \in Asker \ Code :
    request[a].at \in {"told", "done"} =>
      request[a].verb = CASE request[a].wish = "pause" -> "mask" [] request[a].wish = "resume" -> "unmask"
                          [] OTHER -> request[a].wish

(* "Two quick presses see each other's result" (recording-control.ts): of  *)
(* requests one process took, if none failed, the node does in the end     *)
(* what the rows say, one recording at most was started on demand, and the *)
(* channel and the live views say which and how.                           *)
NodeAgrees ==
  Quiet /\ ~mixed /\ faults = 0 =>
    /\ \A i \in Id : tape[i] = Meant(i)
    /\ Cardinality(OnDemand) <= 1
    /\ \A i \in Id : Running(i) <=> var = i
    /\ display = IF var = 0 THEN "off" ELSE IF recording[var].paused THEN "paused" ELSE "on"

(* Without that condition neither holds (the README says which runs show   *)
(* it): that what is paused is not heard, and that a second start is       *)
(* refused "even if the channel has not been told its id yet".             *)
PausedIsMasked == Quiet /\ faults = 0 => \A i \in Id : recording[i].paused => tape[i] # "on"

OneOnDemand == Cardinality(OnDemand) <= 1

(* Whoever presses what at once, the node does what was asked, audited and *)
(* written down, and nothing else.                                         *)
ControlAgrees == ControlTypeOK /\ NothingUnaudited /\ ButtonsMeanIt /\ NodeAgrees
=============================================================================
