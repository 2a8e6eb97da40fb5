------------------------- MODULE CallServicesProofs -------------------------
(***************************************************************************)
(* What holds of the services that act on calls and on what calls leave,   *)
(* for any number of requests, calls, slots, recordings and messages:      *)
(*   - the recordings of a call: the node and the views are at what the    *)
(*     rows say once a request is through, and every change is audited;    *)
(*   - parking: two calls parked by the service meet in one slot only if   *)
(*     the node had refused to list its slots to the later of them, while  *)
(*     reservations last as long as what they are for;                     *)
(*   - transcription: no try of a message is made by two transcribers;     *)
(*   - recordings and messages: a file leaves its node only once it is     *)
(*     stored whole, and of a message the only copy is not deleted;        *)
(*   - attended transfers: nobody is taken from the one they were joined   *)
(*     to, nor hung up on but by a request for that, whatever people and   *)
(*     the node do while a request is between two commands;                *)
(*   - where everybody is: held, parked or taken as they are said to be.   *)
(***************************************************************************)
EXTENDS RecordingControl, CallPlaces, CallAudio, FiniteSetTheorems, TLAPS

-----------------------------------------------------------------------------
(* Recording control.  Between requests the rows, the channel's variable,  *)
(* the node and the views agree.  A request takes them apart in one order, *)
(* so that what it found and what it has done say where the others are.    *)

ControlStages == {"idle", "read", "stopping", "starting", "toggling", "told", "done"}

Wish == {"start", "stop", "pause", "resume", "record", "toggle", "none"}

ControlRow == [at : {"none", "running", "stopped"}, ruled : BOOLEAN, paused : BOOLEAN]

ControlRequest ==
  [at : ControlStages, wish : Wish, id : {0} \cup Id, verb : {"none", "start", "stop", "mask", "unmask"}]

(* What each part of the state is.                                         *)
ControlShape ==
  /\ recording \in [Id -> ControlRow] /\ request \in [Asker -> ControlRequest]
  /\ var \in {0} \cup Id /\ tape \in [Id -> {"off", "on", "masked"}] /\ display \in {"off", "on", "paused"}
  /\ permitted \in BOOLEAN /\ mixed \in BOOLEAN
  /\ audits \in [Id -> Nat] /\ done \in [Id -> Nat]
  /\ presses \in 0..MaxPresses /\ faults \in 0..MaxFault
  /\ \A i \in Id : recording[i].paused => recording[i].at = "running"
  /\ \A a \in Asker : request[a].wish \in Wishes(a) \cup {"none"}
  /\ \A a \in Asker : request[a].at \in {"stopping", "toggling", "told", "done"} => request[a].id # 0

(* Changes audited that the node has still to be told.                     *)
Open(i) == {a \in Asker : request[a].at = "told" /\ request[a].id = i}

OpenAreAudited ==
  \A i \in Id : IsFiniteSet(Open(i)) /\ done[i] + Cardinality(Open(i)) <= audits[i]

(* A button is only where its wish leads.                                  *)
ButtonsLead ==
  \A a \in Asker \ Code :
    LET r == request[a]
    IN  /\ r.at # "idle" => r.wish # "none"
        /\ r.at = "starting" => r.wish = "start"
        /\ r.at = "stopping" => r.wish = "stop"
        /\ r.at = "toggling" => r.wish \in {"pause", "resume"}

(* While one copy only was at the call, so is one request only.            *)
OneAtATime ==
  ~mixed => \A a, b \in Asker : request[a].at # "idle" /\ request[b].at # "idle" => a = b

(* The channel, the node and the views are at what the rows say; or all    *)
(* but the recording of the request under way are.                         *)
Alone(i) == \A j \in Id \ {i} : ~Running(j) /\ tape[j] = "off"

Shows(i, sound, shown) == Alone(i) /\ tape[i] = sound /\ display = shown

Settled ==
  \/ var = 0 /\ display = "off" /\ \A j \in Id : ~Running(j) /\ tape[j] = "off"
  \/ /\ var # 0 /\ Running(var)
     /\ Shows(var, Meant(var), IF recording[var].paused THEN "paused" ELSE "on")

(* What the one request under way finds, or has left half done.            *)
UnderWay(a) ==
  LET r == request[a]
      i == r.id
      its == recording[i]
  IN  CASE r.at = "read"     -> Settled /\ i = var
        [] r.at = "starting" -> Settled /\ var = 0
        [] r.at = "stopping" -> Settled /\ i = var
        [] r.at = "toggling" -> Settled /\ i = var
        [] r.at = "told" ->
             CASE r.verb = "start"  -> var = 0 /\ Running(i) /\ ~its.paused /\ Shows(i, "off", "off")
               [] r.verb = "stop"   -> var = i /\ ~Running(i) /\ Alone(i)
               [] r.verb = "mask"   -> var = i /\ Running(i) /\ its.paused /\ Shows(i, "on", "on")
               [] r.verb = "unmask" -> var = i /\ Running(i) /\ ~its.paused /\ Shows(i, "masked", "paused")
               [] OTHER             -> FALSE
        [] r.at = "done" ->
             CASE r.verb = "start"  -> var = 0 /\ Running(i) /\ ~its.paused /\ Shows(i, "on", "on")
               [] r.verb = "stop"   -> var = i /\ ~Running(i) /\ Shows(i, "off", "off")
               [] r.verb = "mask"   -> var = i /\ Running(i) /\ its.paused /\ Shows(i, "masked", "on")
               [] r.verb = "unmask" -> var = i /\ Running(i) /\ ~its.paused /\ Shows(i, "on", "paused")
               [] OTHER             -> FALSE
        [] OTHER -> TRUE

HalfDone ==
  ~mixed /\ faults = 0 =>
    /\ Quiet => Settled
    /\ \A a \in Asker : UnderWay(a)

ControlInv == ControlShape /\ OpenAreAudited /\ ButtonsLead /\ ButtonsMeanIt /\ OneAtATime /\ HalfDone

LEMMA ControlStarts == ControlInit => ControlInv
<1> SUFFICES ASSUME ControlInit PROVE ControlInv
  OBVIOUS
<1>1. NoRow \in ControlRow /\ NoWish \in ControlRequest
  BY DEF NoRow, NoWish, ControlRow, ControlRequest, ControlStages, Wish
<1>2. 1 \in Id
  BY RecordingControlAssumption DEF Id
<1>3. NoRow.at = "none" /\ ~NoRow.ruled /\ ~NoRow.paused /\ \A i \in Id : i # 0
  BY DEF NoRow, Id
<1>4. \A a \in Asker : request[a] = NoWish /\ request[a].at = "idle" /\ request[a].wish = "none"
  BY DEF ControlInit, NoWish
<1>5. PICK ruled \in BOOLEAN :
        /\ recording = [i \in Id |-> IF ruled /\ i = 1 THEN [NoRow EXCEPT !.at = "running", !.ruled = TRUE]
                                     ELSE NoRow]
        /\ var = IF ruled THEN 1 ELSE 0
        /\ tape = [i \in Id |-> IF ruled /\ i = 1 THEN "on" ELSE "off"]
        /\ display = IF ruled THEN "on" ELSE "off"
        /\ audits = [i \in Id |-> IF ruled /\ i = 1 THEN 1 ELSE 0]
        /\ done = audits
  BY DEF ControlInit
<1>6. /\ [NoRow EXCEPT !.at = "running", !.ruled = TRUE] \in ControlRow
      /\ [NoRow EXCEPT !.at = "running", !.ruled = TRUE].at = "running"
      /\ ~[NoRow EXCEPT !.at = "running", !.ruled = TRUE].paused
  BY <1>1, <1>3 DEF ControlRow
<1>7. recording \in [Id -> ControlRow]
  BY <1>1, <1>5, <1>6
<1>8. \A i \in Id : ~recording[i].paused
  BY <1>3, <1>5, <1>6
<1>9. ControlShape
  <2>1. audits \in [Id -> Nat] /\ done \in [Id -> Nat] /\ tape \in [Id -> {"off", "on", "masked"}]
    BY <1>5
  <2>2. var \in {0} \cup Id /\ display \in {"off", "on", "paused"}
    BY <1>2, <1>5
  <2>3. request \in [Asker -> ControlRequest]
    BY <1>1 DEF ControlInit
  <2>4. permitted \in BOOLEAN /\ mixed = FALSE /\ presses \in 0..MaxPresses /\ faults \in 0..MaxFault
    BY RecordingControlAssumption DEF ControlInit
  <2> QED BY <1>4, <1>7, <1>8, <2>1, <2>2, <2>3, <2>4 DEF ControlShape
<1>10. OpenAreAudited
  <2>1. \A i \in Id : Open(i) = {}
    BY <1>4 DEF Open
  <2>2. \A i \in Id : done[i] + 0 <= audits[i]
    BY <1>5, <1>9 DEF ControlShape
  <2> QED BY <2>1, <2>2, FS_EmptySet DEF OpenAreAudited
<1>11. ButtonsLead /\ ButtonsMeanIt /\ OneAtATime
  BY <1>4 DEF ButtonsLead, ButtonsMeanIt, OneAtATime
<1>12. Settled
  <2>1. CASE ruled
    <3>1. var = 1 /\ Running(1) /\ ~recording[1].paused /\ tape[1] = "on" /\ display = "on"
      <4>1. recording[1] = [NoRow EXCEPT !.at = "running", !.ruled = TRUE]
        BY <2>1, <1>2, <1>5
      <4>2. var = 1 /\ tape[1] = "on" /\ display = "on"
        BY <2>1, <1>2, <1>5
      <4> QED BY <4>1, <4>2, <1>2, <1>6, <1>8 DEF Running
    <3>2. Alone(1)
      BY <2>1, <1>2, <1>3, <1>5 DEF Alone, Running
    <3> QED BY <3>1, <3>2 DEF Settled, Shows, Meant
  <2>2. CASE ~ruled
    BY <2>2, <1>3, <1>5 DEF Settled, Running
  <2> QED BY <2>1, <2>2
<1>13. HalfDone
  BY <1>4, <1>12 DEF HalfDone, UnderWay
<1> QED BY <1>9, <1>10, <1>11, <1>13 DEF ControlInv

(* How each step leaves the requests: one of them goes on, or none.        *)
LEMMA WishesAreWishes == \A a \in Asker : Wishes(a) \cup {"none"} \subseteq Wish
  BY DEF Wishes, Wish

LEMMA ControlShapeStep == ControlShape /\ [ControlNext]_controlVars => ControlShape'
<1> SUFFICES ASSUME ControlShape, [ControlNext]_controlVars PROVE ControlShape'
  OBVIOUS
<1> USE DEF onNode, counts
<1>0. \A i \in Id : i # 0 /\ i \in Nat
  BY DEF Id
<1>1. NoWish \in ControlRequest /\ NoWish.wish = "none" /\ NoWish.at = "idle"
  BY DEF NoWish, ControlRequest, ControlStages, Wish
<1>2. ASSUME NEW a \in Asker, Leaves(a),
             UNCHANGED <<recording, permitted, var, tape, display, done, audits, presses, faults, mixed>>
      PROVE  ControlShape'
  BY <1>1, <1>2 DEF ControlShape, Leaves
<1>3. ASSUME NEW a \in Asker, NEW at \in ControlStages, Turns(a, at),
             at \in {"stopping", "toggling", "told", "done"} => request[a].id # 0
      PROVE  /\ request' \in [Asker -> ControlRequest]
             /\ \A b \in Asker : request'[b].wish = request[b].wish /\ request'[b].id = request[b].id
             /\ \A b \in Asker : request'[b].at \in {"stopping", "toggling", "told", "done"} => request'[b].id # 0
  BY <1>3 DEF ControlShape, Turns, ControlRequest
<1>4. ASSUME NEW a \in Asker, NEW i \in Id, NEW verb \in {"start", "stop", "mask", "unmask"}, NEW new \in ControlRow,
             new.paused => new.at = "running", Told(a, i, verb, new), UNCHANGED <<permitted, var, tape, display, done, presses, faults, mixed>>
      PROVE  ControlShape'
  <2>1. recording' \in [Id -> ControlRow] /\ \A j \in Id : recording'[j].paused => recording'[j].at = "running"
    BY <1>4 DEF Told, ControlShape
  <2>2. audits' \in [Id -> Nat]
    BY <1>4 DEF Told, ControlShape
  <2>3. request' \in [Asker -> ControlRequest] /\ \A b \in Asker : request'[b].wish = request[b].wish
    <3> DEFINE turned == [request[a] EXCEPT !.at = "told", !.id = i, !.verb = verb]
    <3>1. request \in [Asker -> ControlRequest] /\ request' = [request EXCEPT ![a] = turned]
      BY <1>4 DEF Told, ControlShape
    <3>2. turned \in ControlRequest /\ turned.wish = request[a].wish
      <4>1. request[a] \in ControlRequest
        BY <3>1
      <4>2. "told" \in ControlStages
        BY DEF ControlStages
      <4> QED BY <4>1, <4>2 DEF ControlRequest
    <3> QED BY <3>1, <3>2
  <2>4. \A b \in Asker : request'[b].at \in {"stopping", "toggling", "told", "done"} => request'[b].id # 0
    BY <1>4, <1>0 DEF Told, ControlShape, ControlRequest
  <2> QED BY <1>4, <2>1, <2>2, <2>3, <2>4 DEF ControlShape
<1>5. ASSUME NEW a \in Asker, NEW wish \in Wishes(a), Begin(a, wish) PROVE ControlShape'
  <2>1. request' = [request EXCEPT ![a] = [at |-> "read", wish |-> wish, id |-> var, verb |-> "none"]]
    BY <1>5 DEF Begin, Press
  <2>2. [at |-> "read", wish |-> wish, id |-> var, verb |-> "none"] \in ControlRequest
    BY WishesAreWishes DEF ControlShape, ControlRequest, ControlStages
  <2>3. presses' \in 0..MaxPresses /\ mixed' \in BOOLEAN
    BY <1>5, RecordingControlAssumption DEF Begin, Press, ControlShape, Busy
  <2>4. UNCHANGED <<recording, permitted, var, tape, display, done, audits, faults>>
    BY <1>5 DEF Begin, Press
  <2>5. /\ request' \in [Asker -> ControlRequest]
        /\ \A b \in Asker : request'[b].wish \in Wishes(b) \cup {"none"}
        /\ \A b \in Asker : request'[b].at \in {"stopping", "toggling", "told", "done"} => request'[b].id # 0
    BY <2>1, <2>2 DEF ControlShape
  <2>6. \A b \in Asker : (Wishes(b) \cup {"none"})' = Wishes(b) \cup {"none"}
    BY DEF Wishes
  <2> QED BY <2>3, <2>4, <2>5, <2>6 DEF ControlShape
<1>6. ASSUME NEW a \in Asker, Decide(a) PROVE ControlShape'
  <2>1. \/ Leaves(a) \/ Turns(a, "starting")
        \/ Running(request[a].id) /\ (Turns(a, "stopping") \/ Turns(a, "toggling"))
    BY <1>6 DEF Decide
  <2>2. UNCHANGED <<recording, permitted, var, tape, display, done, audits, presses, faults, mixed>>
    BY <1>6 DEF Decide
  <2>3. CASE Leaves(a)
    BY <2>2, <2>3, <1>2
  <2>4. ASSUME NEW at \in {"starting", "stopping", "toggling"}, Turns(a, at),
               at \in {"stopping", "toggling"} => request[a].id # 0 PROVE ControlShape'
    <3>1. at \in ControlStages
      BY DEF ControlStages
    <3> QED BY <2>2, <2>4, <3>1, <1>3 DEF ControlShape, Wishes
  <2> QED BY <2>1, <2>3, <2>4 DEF Running
<1>7. ASSUME NEW a \in Asker, StartOnDemand(a) PROVE ControlShape'
  <2>1. [NoRow EXCEPT !.at = "running"] \in ControlRow /\ [NoRow EXCEPT !.at = "running"].at = "running"
    BY DEF NoRow, ControlRow
  <2> QED BY <1>7, <2>1, <1>4 DEF StartOnDemand
<1>8. ASSUME NEW a \in Asker, StopOnDemand(a) PROVE ControlShape'
  <2> DEFINE i == request[a].id
  <2>1. CASE ~Running(i)
    BY <1>8, <2>1, <1>2 DEF StopOnDemand, Refused
  <2>2. CASE Running(i)
    <3>1. i \in Id
      BY <2>2 DEF ControlShape, ControlRequest, Running
    <3>2. recording[i] \in ControlRow
      BY <3>1 DEF ControlShape
    <3>3. [recording[i] EXCEPT !.at = "stopped", !.paused = FALSE] \in ControlRow
          /\ ~[recording[i] EXCEPT !.at = "stopped", !.paused = FALSE].paused
      BY <3>2 DEF ControlRow
    <3> QED BY <1>8, <2>2, <3>1, <3>3, <1>4 DEF StopOnDemand
  <2> QED BY <2>1, <2>2
<1>9. ASSUME NEW a \in Asker, TogglePause(a) PROVE ControlShape'
  <2> DEFINE i == request[a].id
             new == [recording[i] EXCEPT !.paused = ~@]
             verb == IF recording[i].paused THEN "unmask" ELSE "mask"
  <2>1. CASE Refused(a)
    BY <1>9, <2>1, <1>2 DEF TogglePause, Refused
  <2>2. CASE Running(i) /\ Told(a, i, verb, new)
    <3>1. i \in Id
      BY <2>2 DEF ControlShape, ControlRequest, Running
    <3>2. recording[i] \in ControlRow
      BY <3>1 DEF ControlShape
    <3>3. new \in ControlRow /\ new.at = "running"
      BY <2>2, <3>2 DEF ControlRow, Running
    <3>4. verb \in {"start", "stop", "mask", "unmask"}
      OBVIOUS
    <3>5. UNCHANGED <<permitted, var, tape, display, done, presses, faults, mixed>>
      BY <1>9 DEF TogglePause
    <3> HIDE DEF i, new, verb
    <3> QED BY <2>2, <3>1, <3>3, <3>4, <3>5, <1>4
  <2> QED BY <1>9, <2>1, <2>2 DEF TogglePause
<1>10. ASSUME NEW a \in Asker, Record(a) PROVE ControlShape'
  <2>1. request[a].id \in Id /\ request[a] \in ControlRequest
    BY <1>10 DEF Record, ControlShape, ControlRequest
  <2>2. \A verb, old \in {"off", "on", "masked"} : Tape(verb, old) \in {"off", "on", "masked"}
    BY DEF Tape
  <2>3. Tape(request[a].verb, tape[request[a].id]) \in {"off", "on", "masked"}
    BY <2>1 DEF Tape, ControlShape
  <2>4. display' \in {"off", "on", "paused"}
    BY <1>10 DEF Record, Tape, ControlShape
  <2>5. tape' \in [Id -> {"off", "on", "masked"}]
    BY <1>10, <2>3 DEF Record, ControlShape
  <2>6. done' \in [Id -> Nat]
    <3>1. done' = [done EXCEPT ![request[a].id] = @ + 1]
      BY <1>10 DEF Record
    <3>2. done[request[a].id] + 1 \in Nat /\ done \in [Id -> Nat]
      BY <2>1 DEF ControlShape
    <3> QED BY <3>1, <3>2
  <2>7. Turns(a, "done") /\ "done" \in ControlStages /\ request[a].id # 0
    BY <1>10, <2>1, <1>0 DEF Record, ControlStages
  <2>8. UNCHANGED <<recording, permitted, var, audits, presses, faults, mixed>>
    BY <1>10 DEF Record
  <2> QED BY <2>4, <2>5, <2>6, <2>7, <2>8, <1>3 DEF ControlShape, Wishes
<1>11. ASSUME NEW a \in Asker, Note(a) PROVE ControlShape'
  <2>1. var' \in {0} \cup Id
    BY <1>11 DEF Note, ControlShape, ControlRequest
  <2>2. display' \in {"off", "on", "paused"}
    BY <1>11 DEF Note, ControlShape
  <2>3. Leaves(a) /\ UNCHANGED <<recording, permitted, tape, done, audits, presses, faults, mixed>>
    BY <1>11 DEF Note
  <2> QED BY <2>1, <2>2, <2>3, <1>1 DEF Leaves, ControlShape
<1>12. ASSUME NEW a \in Asker, FailControl(a) PROVE ControlShape'
  <2>1. faults' \in 0..MaxFault
    BY <1>12, RecordingControlAssumption DEF FailControl, ControlShape
  <2>2. Leaves(a) /\ UNCHANGED <<recording, permitted, var, tape, display, done, audits, presses, mixed>>
    BY <1>12 DEF FailControl
  <2> QED BY <2>1, <2>2, <1>1 DEF Leaves, ControlShape
<1>13. CASE ChangeRule
  <2>1. faults' \in 0..MaxFault
    BY <1>13, RecordingControlAssumption DEF ChangeRule, ControlShape
  <2> QED BY <1>13, <2>1 DEF ChangeRule, ControlShape, Wishes
<1>14. CASE UNCHANGED controlVars
  BY <1>14 DEF controlVars, ControlShape, Wishes
<1> QED BY <1>5, <1>6, <1>7, <1>8, <1>9, <1>10, <1>11, <1>12, <1>13, <1>14 DEF ControlNext

LEMMA OpenStep ==
  ASSUME ControlShape, OpenAreAudited, [ControlNext]_controlVars PROVE OpenAreAudited'
<1> USE DEF onNode, counts
<1>1. ASSUME \A i \in Id : Open(i)' \subseteq Open(i), audits' = audits, done' = done
      PROVE  OpenAreAudited'
  <2> SUFFICES ASSUME NEW i \in Id
               PROVE  IsFiniteSet(Open(i)') /\ done[i] + Cardinality(Open(i)') <= audits[i]
    BY <1>1 DEF OpenAreAudited
  <2>1. IsFiniteSet(Open(i)) /\ done[i] + Cardinality(Open(i)) <= audits[i] /\ done[i] \in Nat /\ audits[i] \in Nat
    BY DEF OpenAreAudited, ControlShape
  <2>2. IsFiniteSet(Open(i)') /\ Cardinality(Open(i)') <= Cardinality(Open(i))
    BY <1>1, <2>1, FS_Subset
  <2>3. Cardinality(Open(i)') \in Nat /\ Cardinality(Open(i)) \in Nat
    BY <2>1, <2>2, FS_CardinalityType
  <2> QED BY <2>1, <2>2, <2>3
<1>2. ASSUME NEW a \in Asker, NEW new \in ControlRequest, new.at # "told",
             request' = [request EXCEPT ![a] = new]
      PROVE  \A i \in Id : Open(i)' \subseteq Open(i) \ {a}
  BY <1>2 DEF Open, ControlShape
<1>3. NoWish \in ControlRequest /\ NoWish.at = "idle"
  BY DEF NoWish, ControlRequest, ControlStages, Wish
<1>4. ASSUME NEW a \in Asker, Leaves(a) \/ \E at \in ControlStages \ {"told"} : Turns(a, at)
      PROVE  \A i \in Id : Open(i)' \subseteq Open(i) \ {a}
  <2>1. CASE Leaves(a)
    BY <2>1, <1>2, <1>3 DEF Leaves
  <2>2. ASSUME NEW at \in ControlStages \ {"told"}, Turns(a, at) PROVE \A i \in Id : Open(i)' \subseteq Open(i) \ {a}
    <3>1. [request[a] EXCEPT !.at = at] \in ControlRequest /\ [request[a] EXCEPT !.at = at].at # "told"
      BY DEF ControlShape, ControlRequest
    <3> QED BY <2>2, <3>1, <1>2 DEF Turns
  <2> QED BY <1>4, <2>1, <2>2
<1>5. ASSUME NEW a \in Asker, NEW i \in Id, NEW verb, NEW new, request[a].at # "told",
             Told(a, i, verb, new), done' = done
      PROVE  OpenAreAudited'
  <2> SUFFICES ASSUME NEW j \in Id
               PROVE  IsFiniteSet(Open(j)') /\ done[j] + Cardinality(Open(j)') <= audits'[j]
    BY <1>5 DEF OpenAreAudited
  <2>1. IsFiniteSet(Open(j)) /\ done[j] + Cardinality(Open(j)) <= audits[j] /\ done[j] \in Nat /\ audits[j] \in Nat
    BY DEF OpenAreAudited, ControlShape
  <2>2. audits' = [audits EXCEPT ![i] = @ + 1] /\ audits \in [Id -> Nat]
    BY <1>5 DEF Told, ControlShape
  <2>3. Open(j)' = IF j = i THEN Open(j) \cup {a} ELSE Open(j)
    BY <1>5 DEF Open, Told, ControlShape, ControlRequest
  <2>4. a \notin Open(j)
    BY <1>5 DEF Open
  <2>5. Cardinality(Open(j)) \in Nat
    BY <2>1, FS_CardinalityType
  <2>6. CASE j = i
    <3>1. IsFiniteSet(Open(j) \cup {a}) /\ Cardinality(Open(j) \cup {a}) = Cardinality(Open(j)) + 1
      BY <2>1, <2>4, FS_AddElement
    <3> QED BY <2>1, <2>2, <2>3, <2>5, <2>6, <3>1
  <2>7. CASE j # i
    BY <2>1, <2>2, <2>3, <2>7
  <2> QED BY <2>6, <2>7
<1>6. ASSUME NEW a \in Asker, Record(a) PROVE OpenAreAudited'
  <2> SUFFICES ASSUME NEW j \in Id
               PROVE  IsFiniteSet(Open(j)') /\ done'[j] + Cardinality(Open(j)') <= audits[j]
    BY <1>6 DEF OpenAreAudited, Record
  <2>1. IsFiniteSet(Open(j)) /\ done[j] + Cardinality(Open(j)) <= audits[j] /\ done[j] \in Nat /\ audits[j] \in Nat
    BY DEF OpenAreAudited, ControlShape
  <2>2. Open(j)' \subseteq Open(j) \ {a}
    BY <1>4, <1>6 DEF Record, ControlStages
  <2>3. done' = [done EXCEPT ![request[a].id] = @ + 1] /\ done \in [Id -> Nat]
    BY <1>6 DEF Record, ControlShape
  <2>4. Cardinality(Open(j)) \in Nat /\ IsFiniteSet(Open(j)') /\ Cardinality(Open(j)') \in Nat
        /\ Cardinality(Open(j)') <= Cardinality(Open(j))
    BY <2>1, <2>2, FS_Subset, FS_CardinalityType
  <2>5. CASE j = request[a].id
    <3>1. a \in Open(j)
      BY <1>6, <2>5 DEF Open, Record
    <3>2. IsFiniteSet(Open(j) \ {a}) /\ Cardinality(Open(j) \ {a}) = Cardinality(Open(j)) - 1
      BY <2>1, <3>1, FS_RemoveElement
    <3>3. Cardinality(Open(j)') <= Cardinality(Open(j) \ {a})
      BY <2>2, <3>2, FS_Subset
    <3> QED BY <2>1, <2>3, <2>4, <2>5, <3>2, <3>3
  <2>6. CASE j # request[a].id
    BY <2>1, <2>3, <2>4, <2>6
  <2> QED BY <2>5, <2>6
<1>7. ASSUME NEW a \in Asker, NEW wish \in Wishes(a), Begin(a, wish) PROVE OpenAreAudited'
  <2>1. [at |-> "read", wish |-> wish, id |-> var, verb |-> "none"] \in ControlRequest
    BY WishesAreWishes DEF ControlShape, ControlRequest, ControlStages
  <2> QED BY <2>1, <1>7, <1>1, <1>2 DEF Begin, Press
<1>8. ASSUME NEW a \in Asker, Decide(a) PROVE OpenAreAudited'
  <2>1. Leaves(a) \/ \E at \in ControlStages \ {"told"} : Turns(a, at)
    BY <1>8 DEF Decide, ControlStages
  <2> QED BY <1>8, <2>1, <1>1, <1>4 DEF Decide
<1>9. ASSUME NEW a \in Asker, StartOnDemand(a) PROVE OpenAreAudited'
  BY <1>9, <1>5 DEF StartOnDemand
<1>10. ASSUME NEW a \in Asker, Refused(a), done' = done PROVE OpenAreAudited'
  BY <1>10, <1>1, <1>4 DEF Refused
<1>11. ASSUME NEW a \in Asker, StopOnDemand(a) PROVE OpenAreAudited'
  <2>1. CASE Running(request[a].id)
    <3>1. request[a].id \in Id
      BY <2>1 DEF ControlShape, ControlRequest, Running
    <3> QED BY <1>11, <2>1, <3>1, <1>5 DEF StopOnDemand
  <2>2. CASE ~Running(request[a].id)
    BY <1>11, <2>2, <1>10 DEF StopOnDemand
  <2> QED BY <2>1, <2>2
<1>12. ASSUME NEW a \in Asker, TogglePause(a) PROVE OpenAreAudited'
  <2>1. CASE Refused(a)
    BY <1>12, <2>1, <1>10 DEF TogglePause
  <2>2. CASE ~Refused(a)
    <3> DEFINE verb == IF recording[request[a].id].paused THEN "unmask" ELSE "mask"
               new == [recording[request[a].id] EXCEPT !.paused = ~@]
    <3>1. Running(request[a].id) /\ Told(a, request[a].id, verb, new)
      BY <1>12, <2>2 DEF TogglePause
    <3>2. request[a].id \in Id
      BY <3>1 DEF ControlShape, ControlRequest, Running
    <3> HIDE DEF verb, new
    <3> QED BY <1>12, <3>1, <3>2, <1>5 DEF TogglePause
  <2> QED BY <2>1, <2>2
<1>13. ASSUME NEW a \in Asker, Note(a) \/ FailControl(a) PROVE OpenAreAudited'
  <2>1. Leaves(a) /\ audits' = audits /\ done' = done
    BY <1>13 DEF Note, FailControl
  <2> QED BY <2>1, <1>1, <1>4
<1>14. CASE ChangeRule \/ UNCHANGED controlVars
  <2>1. request' = request /\ audits' = audits /\ done' = done
    BY <1>14 DEF ChangeRule, controlVars
  <2> QED BY <2>1, <1>1 DEF Open
<1> QED BY <1>6, <1>7, <1>8, <1>9, <1>11, <1>12, <1>13, <1>14 DEF ControlNext

LEMMA ButtonStep ==
  ASSUME ControlShape, ButtonsLead, ButtonsMeanIt, [ControlNext]_controlVars
  PROVE  ButtonsLead' /\ ButtonsMeanIt'
<1> USE DEF onNode, counts, ButtonsLead, ButtonsMeanIt
<1>1. ASSUME NEW a \in Asker, NEW new \in ControlRequest,
             request' = [request EXCEPT ![a] = new],
             a \notin Code =>
               /\ new.at # "idle" => new.wish # "none"
               /\ new.at = "starting" => new.wish = "start"
               /\ new.at = "stopping" => new.wish = "stop"
               /\ new.at = "toggling" => new.wish \in {"pause", "resume"}
               /\ new.at \in {"told", "done"} =>
                    new.verb = CASE new.wish = "pause" -> "mask" [] new.wish = "resume" -> "unmask" [] OTHER -> new.wish
      PROVE  ButtonsLead' /\ ButtonsMeanIt'
  <2> SUFFICES ASSUME NEW b \in Asker \ Code
               PROVE  /\ request'[b].at # "idle" => request'[b].wish # "none"
                      /\ request'[b].at = "starting" => request'[b].wish = "start"
                      /\ request'[b].at = "stopping" => request'[b].wish = "stop"
                      /\ request'[b].at = "toggling" => request'[b].wish \in {"pause", "resume"}
                      /\ request'[b].at \in {"told", "done"} =>
                           request'[b].verb = CASE request'[b].wish = "pause" -> "mask"
                                                [] request'[b].wish = "resume" -> "unmask"
                                                [] OTHER -> request'[b].wish
    OBVIOUS
  <2>1. CASE a = b
    <3>1. request'[b] = new
      BY <1>1, <2>1 DEF ControlShape
    <3> QED BY <3>1, <1>1, <2>1
  <2>2. CASE a # b
    <3>1. request'[b] = request[b]
      BY <1>1, <2>2 DEF ControlShape
    <3> QED BY <3>1
  <2> QED BY <2>1, <2>2
<1>2. ASSUME NEW a \in Asker, Leaves(a) PROVE ButtonsLead' /\ ButtonsMeanIt'
  <2>1. NoWish \in ControlRequest /\ NoWish.at = "idle"
    BY DEF NoWish, ControlRequest, ControlStages, Wish
  <2> QED BY <1>1, <1>2, <2>1 DEF Leaves
<1>3. ASSUME NEW a \in Asker, NEW at \in {"starting", "stopping", "toggling", "done"}, Turns(a, at),
             request[a].at # "idle",
             a \notin Code =>
               /\ at = "starting" => request[a].wish = "start"
               /\ at = "stopping" => request[a].wish = "stop"
               /\ at = "toggling" => request[a].wish \in {"pause", "resume"}
               /\ at = "done" => request[a].at = "told"
      PROVE  ButtonsLead' /\ ButtonsMeanIt'
  <2> DEFINE new == [request[a] EXCEPT !.at = at]
  <2>1. new \in ControlRequest /\ new.at = at /\ new.wish = request[a].wish /\ new.verb = request[a].verb
    BY DEF ControlShape, ControlRequest, ControlStages
  <2>2. request' = [request EXCEPT ![a] = new]
    BY <1>3 DEF Turns
  <2> HIDE DEF new
  <2> QED BY <2>1, <2>2, <1>1, <1>3
<1>4. ASSUME NEW a \in Asker, NEW i \in Id, NEW verb \in {"start", "stop", "mask", "unmask"}, NEW its,
             Told(a, i, verb, its), request[a].at # "idle",
             a \notin Code =>
               verb = CASE request[a].wish = "pause" -> "mask" [] request[a].wish = "resume" -> "unmask"
                        [] OTHER -> request[a].wish
      PROVE  ButtonsLead' /\ ButtonsMeanIt'
  <2> DEFINE new == [request[a] EXCEPT !.at = "told", !.id = i, !.verb = verb]
  <2>0. request[a] \in ControlRequest
    BY DEF ControlShape
  <2>1. new \in ControlRequest /\ new.at = "told" /\ new.wish = request[a].wish /\ new.verb = verb
    <3>1. new.at = "told" /\ new.wish = request[a].wish /\ new.verb = verb
      BY <2>0 DEF ControlRequest
    <3>2. new \in ControlRequest
      BY <2>0 DEF ControlRequest, ControlStages
    <3> QED BY <3>1, <3>2
  <2>2. request' = [request EXCEPT ![a] = new]
    BY <1>4 DEF Told
  <2> HIDE DEF new
  <2> QED BY <2>1, <2>2, <1>1, <1>4
<1>5. ASSUME NEW a \in Asker, a \notin Code
      PROVE  request[a].wish \in {"start", "stop", "pause", "resume", "none"}
  BY <1>5 DEF ControlShape, Wishes
<1>6. ASSUME NEW a \in Asker, NEW wish \in Wishes(a), Begin(a, wish) PROVE ButtonsLead' /\ ButtonsMeanIt'
  <2> DEFINE new == [at |-> "read", wish |-> wish, id |-> var, verb |-> "none"]
  <2>1. new \in ControlRequest /\ new.at = "read" /\ (a \notin Code => new.wish # "none")
    BY WishesAreWishes DEF ControlShape, ControlRequest, ControlStages, Wishes
  <2>2. request' = [request EXCEPT ![a] = new]
    BY <1>6 DEF Begin, Press
  <2> HIDE DEF new
  <2> QED BY <2>1, <2>2, <1>1
<1>7. ASSUME NEW a \in Asker, Decide(a) PROVE ButtonsLead' /\ ButtonsMeanIt'
  <2>1. CASE Leaves(a)
    BY <2>1, <1>2
  <2>2. CASE Turns(a, "starting") /\ request[a].wish \in {"start", "record"}
    BY <2>2, <1>3, <1>5, <1>7 DEF Decide
  <2>3. CASE Turns(a, "stopping") /\ request[a].wish \in {"record", "stop"}
    BY <2>3, <1>3, <1>5, <1>7 DEF Decide
  <2>4. CASE Turns(a, "toggling") /\ request[a].wish \notin {"start", "record", "stop"}
    BY <2>4, <1>3, <1>5, <1>7 DEF Decide
  <2> QED BY <1>7, <2>1, <2>2, <2>3, <2>4 DEF Decide
<1>8. ASSUME NEW a \in Asker, StartOnDemand(a) PROVE ButtonsLead' /\ ButtonsMeanIt'
  BY <1>8, <1>4 DEF StartOnDemand
<1>9. ASSUME NEW a \in Asker, StopOnDemand(a) PROVE ButtonsLead' /\ ButtonsMeanIt'
  <2>1. CASE Running(request[a].id)
    <3>1. request[a].id \in Id
      BY <2>1 DEF ControlShape, ControlRequest, Running
    <3> QED BY <1>9, <2>1, <3>1, <1>4 DEF StopOnDemand
  <2>2. CASE ~Running(request[a].id)
    BY <1>9, <2>2, <1>2 DEF StopOnDemand, Refused
  <2> QED BY <2>1, <2>2
<1>10. ASSUME NEW a \in Asker, TogglePause(a) PROVE ButtonsLead' /\ ButtonsMeanIt'
  <2> DEFINE i == request[a].id
             verb == IF recording[i].paused THEN "unmask" ELSE "mask"
             new == [recording[i] EXCEPT !.paused = ~@]
  <2>1. CASE Refused(a)
    BY <2>1, <1>2 DEF Refused
  <2>2. CASE ~Refused(a)
    <3>1. /\ Running(i) /\ Told(a, i, verb, new) /\ request[a].at = "toggling"
          /\ ~(request[a].wish = "pause" /\ recording[i].paused)
          /\ ~(request[a].wish = "resume" /\ ~recording[i].paused)
      BY <1>10, <2>2 DEF TogglePause
    <3>2. i \in Id
      BY <3>1 DEF ControlShape, ControlRequest, Running
    <3>3. a \notin Code => verb = CASE request[a].wish = "pause" -> "mask" [] request[a].wish = "resume" -> "unmask"
                                     [] OTHER -> request[a].wish
      BY <3>1
    <3>4. verb \in {"start", "stop", "mask", "unmask"}
      OBVIOUS
    <3> HIDE DEF i, verb, new
    <3> QED BY <3>1, <3>2, <3>3, <3>4, <1>4
  <2> QED BY <2>1, <2>2
<1>11. ASSUME NEW a \in Asker, Record(a) PROVE ButtonsLead' /\ ButtonsMeanIt'
  BY <1>11, <1>3 DEF Record
<1>12. ASSUME NEW a \in Asker, Note(a) \/ FailControl(a) PROVE ButtonsLead' /\ ButtonsMeanIt'
  BY <1>12, <1>2 DEF Note, FailControl
<1>13. CASE ChangeRule \/ UNCHANGED controlVars
  BY <1>13 DEF ChangeRule, controlVars
<1> QED BY <1>6, <1>7, <1>8, <1>9, <1>10, <1>11, <1>12, <1>13 DEF ControlNext

(* Two copies never at the call, and each at one request at a time.        *)
LEMMA OneStep ==
  ASSUME ControlShape, OneAtATime, [ControlNext]_controlVars PROVE OneAtATime'
<1> USE DEF onNode, counts, OneAtATime
<1>1. ASSUME mixed' = mixed, \A b \in Asker : request'[b].at # "idle" => request[b].at # "idle"
      PROVE  OneAtATime'
  BY <1>1
<1>2. ASSUME NEW a \in Asker, Leaves(a), mixed' = mixed PROVE OneAtATime'
  <2>1. NoWish.at = "idle"
    BY DEF NoWish
  <2>2. \A b \in Asker : request'[b] = IF b = a THEN NoWish ELSE request[b]
    BY <1>2 DEF Leaves, ControlShape
  <2> QED BY <1>1, <1>2, <2>1, <2>2
<1>3. ASSUME NEW a \in Asker, NEW new, request[a].at # "idle", request' = [request EXCEPT ![a] = new], mixed' = mixed
      PROVE  OneAtATime'
  <2>1. \A b \in Asker : b # a => request'[b] = request[b]
    BY <1>3 DEF ControlShape
  <2> QED BY <1>1, <1>3, <2>1
<1>4. ASSUME NEW a \in Asker, NEW wish \in Wishes(a), Begin(a, wish) PROVE OneAtATime'
  <2> SUFFICES ASSUME ~mixed' PROVE \A b \in Asker : request'[b].at # "idle" => b = a
    OBVIOUS
  <2>1. ~Busy(Copy[a]) /\ \A c \in {Copy[b] : b \in Asker} \ {Copy[a]} : ~Busy(c)
    BY <1>4 DEF Begin, Press
  <2>2. \A b \in Asker : ~Busy(Copy[b])
    BY <2>1
  <2>3. \A b \in Asker : request[b].at = "idle"
    BY <2>2 DEF Busy
  <2>4. \A b \in Asker : b # a => request'[b] = request[b]
    BY <1>4 DEF Begin, Press, ControlShape
  <2> QED BY <2>3, <2>4
<1>5. ASSUME NEW a \in Asker, Decide(a) PROVE OneAtATime'
  <2>1. mixed' = mixed /\ request[a].at # "idle"
    BY <1>5 DEF Decide
  <2>2. Leaves(a) \/ \E at \in ControlStages : Turns(a, at)
    BY <1>5 DEF Decide, ControlStages
  <2> QED BY <2>1, <2>2, <1>2, <1>3 DEF Turns
<1>6. ASSUME NEW a \in Asker, StartOnDemand(a) \/ StopOnDemand(a) \/ TogglePause(a) PROVE OneAtATime'
  <2>1. mixed' = mixed /\ request[a].at # "idle"
    BY <1>6 DEF StartOnDemand, StopOnDemand, TogglePause
  <2>2. Leaves(a) \/ \E new : request' = [request EXCEPT ![a] = new]
    BY <1>6 DEF StartOnDemand, StopOnDemand, TogglePause, Told, Refused
  <2> QED BY <2>1, <2>2, <1>2, <1>3
<1>7. ASSUME NEW a \in Asker, Record(a) PROVE OneAtATime'
  BY <1>7, <1>3 DEF Record, Turns
<1>8. ASSUME NEW a \in Asker, Note(a) \/ FailControl(a) PROVE OneAtATime'
  BY <1>8, <1>2 DEF Note, FailControl
<1>9. CASE ChangeRule \/ UNCHANGED controlVars
  BY <1>9, <1>1 DEF ChangeRule, controlVars
<1> QED BY <1>4, <1>5, <1>6, <1>7, <1>8, <1>9 DEF ControlNext

(* The row whose recording a settled call has is the one that runs.        *)
LEMMA SettledRuns ==
  ASSUME ControlShape, Settled
  PROVE  /\ \A j \in Id : Running(j) <=> var = j
         /\ \A j \in Id : tape[j] = Meant(j)
         /\ display = IF var = 0 THEN "off" ELSE IF recording[var].paused THEN "paused" ELSE "on"
         /\ OnDemand \subseteq {var}
<1>0. \A i \in Id : i # 0
  BY DEF Id
<1>1. \A j \in Id : Running(j) <=> var = j
  BY <1>0 DEF Settled, Shows, Alone, ControlShape
<1>2. \A j \in Id : tape[j] = Meant(j)
  BY <1>0, <1>1 DEF Settled, Shows, Alone, ControlShape, Meant
<1>3. display = IF var = 0 THEN "off" ELSE IF recording[var].paused THEN "paused" ELSE "on"
  BY <1>0 DEF Settled, Shows
<1> QED BY <1>1, <1>2, <1>3 DEF OnDemand

(* What the one request leaves is all there is.                            *)
LEMMA OnlyOne ==
  ASSUME ControlShape, ControlShape', OneAtATime, ~mixed,
         NEW a \in Asker, request[a].at # "idle" \/ Quiet,
         \A b \in Asker \ {a} : request'[b] = request[b],
         request'[a].at = "idle" => Settled', UnderWay(a)'
  PROVE  (Quiet => Settled)' /\ \A b \in Asker : UnderWay(b)'
<1>1. \A b \in Asker \ {a} : request'[b].at = "idle"
  BY DEF OneAtATime, Quiet
<1>2. \A b \in Asker \ {a} : UnderWay(b)'
  BY <1>1 DEF UnderWay
<1>3. (Quiet => Settled)'
  <2>1. Quiet' => request'[a].at = "idle"
    BY DEF Quiet
  <2>2. Quiet' => Settled'
    BY <2>1
  <2> QED BY <2>2
<1>4. ASSUME NEW b \in Asker PROVE UnderWay(b)'
  <2>1. CASE b = a
    <3>1. UnderWay(a)'
      OBVIOUS
    <3> QED BY <2>1, <3>1
  <2>2. CASE b # a
    BY <1>2, <2>2
  <2> QED BY <2>1, <2>2
<1> QED BY <1>3, <1>4

LEMMA HalfStep ==
  ASSUME ControlShape, ControlShape', OneAtATime, HalfDone, [ControlNext]_controlVars
  PROVE  HalfDone'
<1> USE DEF onNode, counts
<1> SUFFICES ASSUME ~mixed', faults' = 0 PROVE (Quiet => Settled)' /\ \A b \in Asker : UnderWay(b)'
  BY DEF HalfDone
<1>1. CASE UNCHANGED controlVars
  BY <1>1 DEF HalfDone, controlVars, Quiet, Settled, UnderWay, Running, Shows, Alone, Meant
<1>2. CASE ControlNext
  <2>1. ~mixed /\ faults = 0 /\ ~ChangeRule /\ \A a \in Asker : ~FailControl(a)
    <3>1. ~ChangeRule /\ \A a \in Asker : ~FailControl(a)
      BY DEF FailControl, ChangeRule, ControlShape
    <3>2. PICK a \in Asker : \/ \E wish \in Wishes(a) : Begin(a, wish)
                             \/ Decide(a) \/ StartOnDemand(a) \/ StopOnDemand(a) \/ TogglePause(a)
                             \/ Record(a) \/ Note(a)
      BY <1>2, <3>1 DEF ControlNext
    <3>3. faults' = faults
      BY <3>2 DEF Begin, Press, Decide, StartOnDemand, StopOnDemand, TogglePause, Record, Note
    <3>4. mixed' = mixed \/ \E wish \in Wishes(a) : Press(a, wish)
      BY <3>2 DEF Begin, Decide, StartOnDemand, StopOnDemand, TogglePause, Record, Note
    <3>5. ~mixed
      BY <3>4, Zenon DEF Press
    <3> QED BY <3>1, <3>3, <3>5
  <2>2. (Quiet => Settled) /\ \A a \in Asker : UnderWay(a)
    BY <2>1 DEF HalfDone
  <2>3. \A i \in Id : i # 0
    BY DEF Id
  <2>4. \A a, b \in Asker : request[a].at # "idle" /\ request[b].at # "idle" => a = b
    BY <2>1 DEF OneAtATime
  <2>5. ASSUME UNCHANGED <<recording, var, tape, display>>, Settled PROVE Settled'
    BY <2>5 DEF Settled, Running, Shows, Alone, Meant
  <2>6. NoWish.at = "idle"
    BY DEF NoWish
  <2>7. ASSUME NEW a \in Asker, Leaves(a)
        PROVE  request'[a].at = "idle" /\ UnderWay(a)' /\ \A b \in Asker \ {a} : request'[b] = request[b]
    <3>1. request'[a].at = "idle" /\ \A b \in Asker \ {a} : request'[b] = request[b]
      BY <2>6, <2>7 DEF Leaves, ControlShape
    <3> QED BY <3>1 DEF UnderWay
  <2>8. ASSUME NEW a \in Asker, NEW at, Turns(a, at)
        PROVE  /\ request'[a].at = at /\ request'[a].id = request[a].id /\ request'[a].verb = request[a].verb
               /\ \A b \in Asker \ {a} : request'[b] = request[b]
    BY <2>8 DEF Turns, ControlShape, ControlRequest
  <2>9. ASSUME NEW a \in Asker, NEW i \in Id, NEW verb, NEW new, Told(a, i, verb, new)
        PROVE  /\ request'[a].at = "told" /\ request'[a].id = i /\ request'[a].verb = verb
               /\ recording'[i] = new /\ \A j \in Id \ {i} : recording'[j] = recording[j]
               /\ \A b \in Asker \ {a} : request'[b] = request[b]
    BY <2>9 DEF Told, ControlShape, ControlRequest
  <2>10. ASSUME NEW a \in Asker, NEW wish \in Wishes(a), Begin(a, wish)
         PROVE  (Quiet => Settled)' /\ \A b \in Asker : UnderWay(b)'
    <3>1. Quiet
      <4>1. ~Busy(Copy[a]) /\ \A c \in {Copy[b] : b \in Asker} \ {Copy[a]} : ~Busy(c)
        BY <2>10 DEF Begin, Press
      <4>2. \A b \in Asker : ~Busy(Copy[b])
        BY <4>1
      <4> QED BY <4>2 DEF Busy, Quiet
    <3>2. Settled'
      BY <2>2, <2>5, <2>10, <3>1 DEF Begin, Press
    <3>3. request'[a].at = "read" /\ request'[a].id = var' /\ \A b \in Asker \ {a} : request'[b] = request[b]
      BY <2>10 DEF Begin, Press, ControlShape
    <3>4. UnderWay(a)'
      BY <3>2, <3>3 DEF UnderWay
    <3> QED BY <3>1, <3>2, <3>3, <3>4, <2>1, OnlyOne
  <2>11. ASSUME NEW a \in Asker, Decide(a)
         PROVE  (Quiet => Settled)' /\ \A b \in Asker : UnderWay(b)'
    <3>1. Settled /\ request[a].id = var /\ request[a].at = "read"
      BY <2>2, <2>11 DEF Decide, UnderWay
    <3>2. Settled' /\ var' = var
      BY <2>5, <2>11, <3>1 DEF Decide
    <3>3. CASE Leaves(a)
      BY <2>1, <2>7, <3>1, <3>2, <3>3, OnlyOne
    <3>4. CASE Turns(a, "starting") /\ ~Running(var)
      <4>1. var' = 0
        BY <3>1, <3>2, <3>4 DEF Settled
      <4>2. UnderWay(a)'
        BY <2>8, <3>2, <3>4, <4>1 DEF UnderWay
      <4> QED BY <2>1, <2>8, <3>1, <3>2, <3>4, <4>2, OnlyOne
    <3>5. ASSUME NEW at \in {"stopping", "toggling"}, Turns(a, at)
          PROVE  (Quiet => Settled)' /\ \A b \in Asker : UnderWay(b)'
      <4>1. UnderWay(a)'
        BY <2>8, <3>1, <3>2, <3>5 DEF UnderWay
      <4> QED BY <2>1, <2>8, <3>1, <3>2, <3>5, <4>1, OnlyOne
    <3> QED BY <2>11, <3>1, <3>3, <3>4, <3>5 DEF Decide
  <2>12. ASSUME NEW a \in Asker, StartOnDemand(a)
         PROVE  (Quiet => Settled)' /\ \A b \in Asker : UnderWay(b)'
    <3>1. Settled /\ var = 0 /\ request[a].at = "starting"
      BY <2>2, <2>12 DEF StartOnDemand, UnderWay
    <3>2. display = "off" /\ \A j \in Id : ~Running(j) /\ tape[j] = "off"
      BY <3>1 DEF Settled
    <3>3. PICK i \in Id : Told(a, i, "start", [NoRow EXCEPT !.at = "running"])
      BY <2>12 DEF StartOnDemand
    <3>4. [NoRow EXCEPT !.at = "running"].at = "running" /\ ~[NoRow EXCEPT !.at = "running"].paused
      BY DEF NoRow
    <3>5. var' = 0 /\ tape' = tape /\ display' = display
      BY <2>12, <3>1 DEF StartOnDemand
    <3>6. Running(i)' /\ ~recording'[i].paused /\ \A j \in Id \ {i} : ~Running(j)'
      <4>1. recording'[i] = [NoRow EXCEPT !.at = "running"] /\ \A j \in Id \ {i} : recording'[j] = recording[j]
        BY <2>9, <3>3
      <4> QED BY <2>3, <3>2, <3>4, <4>1 DEF Running
    <3>7. Shows(i, "off", "off")'
      BY <3>2, <3>5, <3>6 DEF Shows, Alone
    <3>8. UnderWay(a)'
      BY <2>9, <3>3, <3>5, <3>6, <3>7 DEF UnderWay
    <3> QED BY <2>1, <2>9, <3>1, <3>3, <3>8, OnlyOne
  <2>13. ASSUME NEW a \in Asker, StopOnDemand(a)
         PROVE  (Quiet => Settled)' /\ \A b \in Asker : UnderWay(b)'
    <3>1. Settled /\ request[a].id = var /\ request[a].at = "stopping"
      BY <2>2, <2>13 DEF StopOnDemand, UnderWay
    <3>2. var' = var /\ tape' = tape /\ display' = display
      BY <2>13 DEF StopOnDemand
    <3>3. CASE ~Running(request[a].id)
      <4>1. Leaves(a) /\ recording' = recording
        BY <2>13, <3>3 DEF StopOnDemand, Refused
      <4> QED BY <2>1, <2>5, <2>7, <3>1, <3>2, <4>1, OnlyOne
    <3>4. CASE Running(request[a].id)
      <4>1. PICK i \in Id : i = request[a].id
        BY <3>1, <3>4 DEF ControlShape, Running
      <4>2. PICK new : new = [recording[i] EXCEPT !.at = "stopped", !.paused = FALSE]
        OBVIOUS
      <4>3. new.at = "stopped"
        BY <4>2 DEF ControlShape, ControlRow
      <4>4. Told(a, i, "stop", new)
        BY <2>13, <3>4, <4>1, <4>2 DEF StopOnDemand
      <4>5. recording'[i].at = "stopped" /\ \A j \in Id \ {i} : recording'[j] = recording[j]
        BY <2>9, <4>3, <4>4
      <4>6. Alone(i)
        BY <2>3, <3>1, <4>1 DEF Settled, Shows
      <4>7. ~Running(i)' /\ Alone(i)'
        BY <3>2, <4>5, <4>6 DEF Alone, Running
      <4>8. request'[a].at = "told" /\ request'[a].id = i /\ request'[a].verb = "stop"
            /\ \A b \in Asker \ {a} : request'[b] = request[b]
        BY <2>9, <4>4
      <4>9. UnderWay(a)'
        BY <3>1, <3>2, <4>1, <4>7, <4>8 DEF UnderWay
      <4> QED BY <2>1, <3>1, <4>8, <4>9, OnlyOne
    <3> QED BY <3>3, <3>4
  <2>14. ASSUME NEW a \in Asker, TogglePause(a)
         PROVE  (Quiet => Settled)' /\ \A b \in Asker : UnderWay(b)'
    <3>1. Settled /\ request[a].id = var /\ request[a].at = "toggling"
      BY <2>2, <2>14 DEF TogglePause, UnderWay
    <3>2. var' = var /\ tape' = tape /\ display' = display
      BY <2>14 DEF TogglePause
    <3>3. CASE Refused(a)
      <4>1. Leaves(a) /\ recording' = recording
        BY <3>3 DEF Refused
      <4> QED BY <2>1, <2>5, <2>7, <3>1, <3>2, <4>1, OnlyOne
    <3>4. CASE ~Refused(a)
      <4>0. Running(request[a].id)
        BY <2>14, <3>4 DEF TogglePause
      <4>1. PICK i \in Id : i = request[a].id
        BY <3>1, <4>0 DEF ControlShape, Running
      <4>2. PICK new : new = [recording[i] EXCEPT !.paused = ~@]
        OBVIOUS
      <4>3. Told(a, i, IF recording[i].paused THEN "unmask" ELSE "mask", new)
        BY <2>14, <3>4, <4>1, <4>2 DEF TogglePause
      <4>4. new.at = "running" /\ (new.paused <=> ~recording[i].paused)
        BY <4>0, <4>1, <4>2 DEF ControlShape, ControlRow, Running
      <4>5. Shows(i, IF recording[i].paused THEN "masked" ELSE "on", IF recording[i].paused THEN "paused" ELSE "on")
        BY <2>3, <3>1, <4>0, <4>1 DEF Settled, Meant
      <4>6. recording'[i] = new /\ \A j \in Id \ {i} : recording'[j] = recording[j]
        BY <2>9, <4>3
      <4>7. Running(i)' /\ (recording'[i].paused <=> ~recording[i].paused)
        BY <2>3, <4>4, <4>6 DEF Running
      <4>8. request'[a].at = "told" /\ request'[a].id = i
            /\ request'[a].verb = (IF recording[i].paused THEN "unmask" ELSE "mask")
            /\ \A b \in Asker \ {a} : request'[b] = request[b]
        BY <2>9, <4>3
      <4>9. Alone(i)'
        BY <3>2, <4>5, <4>6 DEF Shows, Alone, Running
      <4>10. CASE recording[i].paused
        <5>1. Shows(i, "masked", "paused")'
          BY <3>2, <4>5, <4>9, <4>10 DEF Shows
        <5>2. UnderWay(a)'
          BY <3>1, <3>2, <4>1, <4>7, <4>8, <4>10, <5>1 DEF UnderWay
        <5> QED BY <2>1, <3>1, <4>8, <5>2, OnlyOne
      <4>11. CASE ~recording[i].paused
        <5>1. Shows(i, "on", "on")'
          BY <3>2, <4>5, <4>9, <4>11 DEF Shows
        <5>2. UnderWay(a)'
          BY <3>1, <3>2, <4>1, <4>7, <4>8, <4>11, <5>1 DEF UnderWay
        <5> QED BY <2>1, <3>1, <4>8, <5>2, OnlyOne
      <4> QED BY <4>10, <4>11
    <3> QED BY <3>3, <3>4
  <2>15. ASSUME NEW a \in Asker, Record(a)
         PROVE  (Quiet => Settled)' /\ \A b \in Asker : UnderWay(b)'
    <3>1. request[a].at = "told" /\ UnderWay(a)
      BY <2>2, <2>15 DEF Record
    <3>2. PICK i \in Id : i = request[a].id
      BY <3>1 DEF ControlShape, ControlRequest
    <3>3. recording' = recording /\ var' = var
      BY <2>15 DEF Record
    <3>4. /\ request'[a].at = "done" /\ request'[a].id = i /\ request'[a].verb = request[a].verb
          /\ \A b \in Asker \ {a} : request'[b] = request[b]
      BY <2>8, <2>15, <3>2 DEF Record
    <3>5. \A j \in Id \ {i} : tape'[j] = tape[j]
      BY <2>15, <3>2 DEF Record, ControlShape
    <3>6. tape'[i] = Tape(request[a].verb, tape[i])
      BY <2>15, <3>2 DEF Record, ControlShape
    <3>7. display' = IF request[a].verb \in {"start", "stop"} THEN Tape(request[a].verb, "off") ELSE display
      BY <2>15 DEF Record
    <3>8. Alone(i) => Alone(i)'
      BY <3>3, <3>5 DEF Alone, Running
    <3>9. (Running(i) <=> Running(i)') /\ (recording[i].paused <=> recording'[i].paused)
      BY <3>3 DEF Running
    <3>10. CASE request[a].verb = "start"
      <4>1. var = 0 /\ Running(i) /\ ~recording[i].paused /\ Shows(i, "off", "off")
        BY <3>1, <3>2, <3>10 DEF UnderWay
      <4>2. Shows(i, "on", "on")'
        BY <3>6, <3>7, <3>8, <3>10, <4>1 DEF Shows, Tape
      <4>3. UnderWay(a)'
        BY <3>3, <3>4, <3>9, <3>10, <4>1, <4>2 DEF UnderWay
      <4> QED BY <2>1, <3>1, <3>4, <4>3, OnlyOne
    <3>11. CASE request[a].verb = "stop"
      <4>1. var = i /\ ~Running(i) /\ Alone(i)
        BY <3>1, <3>2, <3>11 DEF UnderWay
      <4>2. Shows(i, "off", "off")'
        BY <3>6, <3>7, <3>8, <3>11, <4>1 DEF Shows, Tape
      <4>3. UnderWay(a)'
        BY <3>3, <3>4, <3>9, <3>11, <4>1, <4>2 DEF UnderWay
      <4> QED BY <2>1, <3>1, <3>4, <4>3, OnlyOne
    <3>12. CASE request[a].verb = "mask"
      <4>1. var = i /\ Running(i) /\ recording[i].paused /\ Shows(i, "on", "on")
        BY <3>1, <3>2, <3>12 DEF UnderWay
      <4>2. Shows(i, "masked", "on")'
        BY <3>6, <3>7, <3>8, <3>12, <4>1 DEF Shows, Tape
      <4>3. UnderWay(a)'
        BY <3>3, <3>4, <3>9, <3>12, <4>1, <4>2 DEF UnderWay
      <4> QED BY <2>1, <3>1, <3>4, <4>3, OnlyOne
    <3>13. CASE request[a].verb = "unmask"
      <4>1. var = i /\ Running(i) /\ ~recording[i].paused /\ Shows(i, "masked", "paused")
        BY <3>1, <3>2, <3>13 DEF UnderWay
      <4>2. Shows(i, "on", "paused")'
        BY <3>6, <3>7, <3>8, <3>13, <4>1 DEF Shows, Tape
      <4>3. UnderWay(a)'
        BY <3>3, <3>4, <3>9, <3>13, <4>1, <4>2 DEF UnderWay
      <4> QED BY <2>1, <3>1, <3>4, <4>3, OnlyOne
    <3>14. request[a].verb \in {"start", "stop", "mask", "unmask"}
      BY <3>1 DEF UnderWay
    <3> QED BY <3>10, <3>11, <3>12, <3>13, <3>14
  <2>16. ASSUME NEW a \in Asker, Note(a)
         PROVE  (Quiet => Settled)' /\ \A b \in Asker : UnderWay(b)'
    <3>1. request[a].at = "done" /\ UnderWay(a)
      BY <2>2, <2>16 DEF Note
    <3>2. PICK i \in Id : i = request[a].id
      BY <3>1 DEF ControlShape, ControlRequest
    <3>3. recording' = recording /\ tape' = tape /\ Leaves(a)
      BY <2>16 DEF Note
    <3>4. /\ var' = CASE request[a].verb = "start" -> i [] request[a].verb = "stop" -> 0 [] OTHER -> var
          /\ display' = CASE request[a].verb = "mask" -> "paused" [] request[a].verb = "unmask" -> "on" [] OTHER -> display
      BY <2>16, <3>2 DEF Note
    <3>5. Alone(i) => Alone(i)'
      BY <3>3 DEF Alone, Running
    <3>6. (Running(i) <=> Running(i)') /\ (recording[i].paused <=> recording'[i].paused) /\ tape'[i] = tape[i]
      BY <3>3 DEF Running
    <3>7. Settled'
      <4>1. CASE request[a].verb = "start"
        <5>1. Running(i) /\ ~recording[i].paused /\ Shows(i, "on", "on")
          BY <3>1, <3>2, <4>1 DEF UnderWay
        <5>2. var' = i /\ Running(i)' /\ ~recording'[i].paused /\ Shows(i, "on", "on")'
          BY <3>4, <3>5, <3>6, <4>1, <5>1 DEF Shows
        <5> QED BY <2>3, <5>2 DEF Settled, Meant
      <4>2. CASE request[a].verb = "stop"
        <5>1. ~Running(i) /\ Shows(i, "off", "off")
          BY <3>1, <3>2, <4>2 DEF UnderWay
        <5>2. var' = 0 /\ ~Running(i)' /\ Shows(i, "off", "off")'
          BY <3>4, <3>5, <3>6, <4>2, <5>1 DEF Shows
        <5> QED BY <5>2 DEF Settled, Shows, Alone
      <4>3. CASE request[a].verb = "mask"
        <5>1. var = i /\ Running(i) /\ recording[i].paused /\ Shows(i, "masked", "on")
          BY <3>1, <3>2, <4>3 DEF UnderWay
        <5>2. var' = i /\ Running(i)' /\ recording'[i].paused /\ Shows(i, "masked", "paused")'
          BY <3>4, <3>5, <3>6, <4>3, <5>1 DEF Shows
        <5> QED BY <2>3, <5>2 DEF Settled, Meant
      <4>4. CASE request[a].verb = "unmask"
        <5>1. var = i /\ Running(i) /\ ~recording[i].paused /\ Shows(i, "on", "paused")
          BY <3>1, <3>2, <4>4 DEF UnderWay
        <5>2. var' = i /\ Running(i)' /\ ~recording'[i].paused /\ Shows(i, "on", "on")'
          BY <3>4, <3>5, <3>6, <4>4, <5>1 DEF Shows
        <5> QED BY <2>3, <5>2 DEF Settled, Meant
      <4>5. request[a].verb \in {"start", "stop", "mask", "unmask"}
        BY <3>1 DEF UnderWay
      <4> QED BY <4>1, <4>2, <4>3, <4>4, <4>5
    <3> QED BY <2>1, <2>7, <3>1, <3>3, <3>7, OnlyOne
  <2> QED BY <1>2, <2>1, <2>10, <2>11, <2>12, <2>13, <2>14, <2>15, <2>16 DEF ControlNext
<1> QED BY <1>1, <1>2

LEMMA ControlStep == ControlInv /\ [ControlNext]_controlVars => ControlInv'
<1> SUFFICES ASSUME ControlInv, [ControlNext]_controlVars PROVE ControlInv'
  OBVIOUS
<1>1. ControlShape'
  BY ControlShapeStep DEF ControlInv
<1>2. OpenAreAudited' /\ ButtonsLead' /\ ButtonsMeanIt' /\ OneAtATime' /\ HalfDone'
  BY <1>1, OpenStep, ButtonStep, OneStep, HalfStep DEF ControlInv
<1> QED BY <1>1, <1>2 DEF ControlInv

LEMMA ControlImplies == ControlInv => ControlAgrees
<1> SUFFICES ASSUME ControlInv PROVE ControlAgrees
  OBVIOUS
<1>1. ControlTypeOK
  <2>1. \A a \in Asker : request[a] \in ControlRequest
    BY DEF ControlInv, ControlShape
  <2>2. recording \in [Id -> [at : {"none", "running", "stopped"}, ruled : BOOLEAN, paused : BOOLEAN]]
    BY DEF ControlInv, ControlShape, ControlRow
  <2> QED BY <2>1, <2>2 DEF ControlInv, ControlShape, ControlTypeOK, ControlRequest, ControlStages
<1>2. NothingUnaudited
  <2> SUFFICES ASSUME NEW i \in Id PROVE done[i] <= audits[i]
    BY DEF NothingUnaudited
  <2>1. Cardinality(Open(i)) \in Nat /\ done[i] + Cardinality(Open(i)) <= audits[i]
    BY FS_CardinalityType DEF ControlInv, OpenAreAudited
  <2> QED BY <2>1 DEF ControlInv, ControlShape
<1>3. NodeAgrees
  <2> SUFFICES ASSUME Quiet, ~mixed, faults = 0
               PROVE  /\ \A i \in Id : tape[i] = Meant(i)
                      /\ Cardinality(OnDemand) <= 1
                      /\ \A i \in Id : Running(i) <=> var = i
                      /\ display = IF var = 0 THEN "off" ELSE IF recording[var].paused THEN "paused" ELSE "on"
    BY DEF NodeAgrees
  <2>1. Settled
    BY DEF ControlInv, HalfDone
  <2>2. Cardinality({var}) = 1 /\ IsFiniteSet({var})
    BY FS_Singleton
  <2>3. OnDemand \subseteq {var}
    BY <2>1, SettledRuns DEF ControlInv
  <2>4. Cardinality(OnDemand) <= 1
    BY <2>2, <2>3, FS_Subset
  <2> QED BY <2>1, <2>4, SettledRuns DEF ControlInv
<1> QED BY <1>1, <1>2, <1>3 DEF ControlInv, ControlAgrees

(* The node, the variable and the views are at what the rows of a call's   *)
(* recordings say whenever nothing is under way that one request only was  *)
(* at, and nothing is changed that was not audited first (call-control,    *)
(* recording-control.ts, start, stop, pause and resume).                   *)
THEOREM ControlAgreesHolds == ControlSpec => []ControlAgrees
  BY ControlStarts, ControlStep, ControlImplies, PTL DEF ControlSpec

-----------------------------------------------------------------------------
(* Parking.  A slot has one claim at most, of an asker that reserved it or *)
(* of a call on its way to it; a claimed slot is reserved, and has no      *)
(* parked call in it if the node had listed its slots to who claims it;    *)
(* and a slot listed as empty is still reserved when a call was parked in  *)
(* it since.                                                               *)

Parked == Live \ Dialled

Claims(a) == parking[a].at \in {"audit", "send"}

ParkStages == {"idle", "look", "reserve", "audit", "send"}

ParkRequests == [at : ParkStages, call : Parked \cup {"none"}, taken : SUBSET Space,
                 listed : BOOLEAN, slot : 0..(MaxSlot + 1)]

ParkShape ==
  /\ spot \in [Space -> Live \cup {"none"}] /\ whereto \in [Live -> 0..MaxSlot]
  /\ reserved \subseteq Space /\ parking \in [ParkAsker -> ParkRequests]
  /\ \A a \in ParkAsker : parking[a].at # "idle" => parking[a].call \in Parked
  /\ \A a \in ParkAsker : Claims(a) => parking[a].slot \in Space

(* A slot has one claim at most.                                           *)
OneClaim ==
  /\ \A a, b \in ParkAsker : Claims(a) /\ Claims(b) /\ a # b => parking[a].slot # parking[b].slot
  /\ \A a \in ParkAsker, c \in Parked : Claims(a) => whereto[c] # parking[a].slot
  /\ \A c, d \in Parked : c # d /\ whereto[c] # 0 => whereto[c] # whereto[d]

(* A claimed slot is reserved, and has no parked call in it, if the node   *)
(* had listed its slots before the claim.                                  *)
ClaimedIsFree ==
  /\ \A a \in ParkAsker :
       Claims(a) => /\ parking[a].slot \in reserved
                    /\ parking[a].listed => spot[parking[a].slot] \notin Parked
  /\ \A c \in Parked :
       whereto[c] # 0 => /\ whereto[c] \in reserved
                         /\ c \notin blind => spot[whereto[c]] \notin Parked

(* What was listed as empty and is no longer is still reserved.            *)
SeenIsReserved ==
  \A a \in ParkAsker, s \in Space :
    /\ parking[a].at = "reserve" /\ parking[a].listed
    /\ s \notin parking[a].taken /\ spot[s] \in Parked
    => s \in reserved

(* Who came to an occupied slot is over, and is not sent anywhere again.   *)
MetAreOver == \A p \in met : p[1] \in left

ParkInv == ParkShape /\ OneClaim /\ ClaimedIsFree /\ SeenIsReserved /\ MetAreOver /\ NeverTwoInOne

LEMMA ParkStarts == ParkInit => ParkInv
<1> SUFFICES ASSUME ParkInit PROVE ParkInv
  OBVIOUS
<1>1. NoPark \in ParkRequests
  BY ParkingAssumption DEF NoPark, ParkRequests, ParkStages, Space
<1>2. ParkShape
  BY <1>1, ParkingAssumption DEF ParkInit, ParkShape, Claims, NoPark, Space
<1>3. (\A a \in ParkAsker : parking[a].at = "idle") /\ (\A c \in Live : whereto[c] = 0)
  BY DEF ParkInit, NoPark
<1>4. OneClaim /\ ClaimedIsFree /\ SeenIsReserved
  BY <1>3 DEF OneClaim, ClaimedIsFree, SeenIsReserved, Claims, Parked
<1>5. MetAreOver /\ NeverTwoInOne
  BY DEF ParkInit, MetAreOver, NeverTwoInOne
<1> QED BY <1>2, <1>4, <1>5 DEF ParkInv

(* An asker goes on without a claim of its own, and is told of nothing     *)
(* empty that it was not.                                                  *)
LEMMA AskerKeeps ==
  ASSUME ParkInv, NEW a \in ParkAsker, NEW p \in ParkRequests, Sets(a, p),
         UNCHANGED <<spot, whereto, reserved, left, blind, met>>,
         p.at # "idle" => p.call \in Parked,
         p.at \in {"audit", "send"} => /\ Claims(a) /\ p.slot = parking[a].slot
                                        /\ p.listed = parking[a].listed,
         p.at = "reserve" /\ p.listed =>
           \A s \in Space : s \notin p.taken /\ spot[s] \in Parked => s \in reserved
  PROVE  ParkInv'
<1>1. /\ parking' \in [ParkAsker -> ParkRequests] /\ parking'[a] = p
      /\ \A b \in ParkAsker \ {a} : parking'[b] = parking[b]
  BY DEF Sets, ParkInv, ParkShape
<1>2. \A b \in ParkAsker : Claims(b)' => /\ Claims(b) /\ parking'[b].slot = parking[b].slot
                                      /\ parking'[b].listed = parking[b].listed
  BY <1>1 DEF Claims
<1>3. ParkShape'
  BY <1>1, <1>2 DEF ParkInv, ParkShape
<1>4. OneClaim'
  BY <1>2 DEF ParkInv, OneClaim
<1>5. ClaimedIsFree'
  BY <1>2 DEF ParkInv, ClaimedIsFree
<1>6. SeenIsReserved'
  BY <1>1 DEF ParkInv, SeenIsReserved
<1> QED BY <1>3, <1>4, <1>5, <1>6 DEF ParkInv, MetAreOver, NeverTwoInOne

(* What changing fields of a record, one after the other, does.            *)
LEMMA CalledRequest ==
  ASSUME NEW r \in ParkRequests, NEW c \in Parked
  PROVE  LET p == [r EXCEPT !.at = "look", !.call = c]
         IN  p \in ParkRequests /\ p.at = "look" /\ p.call = c
<1> DEFINE q == [r EXCEPT !.at = "look"]
<1>1. q \in ParkRequests /\ q.at = "look"
  BY DEF ParkRequests, ParkStages
<1>2. /\ [q EXCEPT !.call = c] \in ParkRequests
      /\ [q EXCEPT !.call = c].at = "look" /\ [q EXCEPT !.call = c].call = c
  BY <1>1 DEF ParkRequests
<1>3. [r EXCEPT !.at = "look", !.call = c] = [q EXCEPT !.call = c]
  OBVIOUS
<1> QED BY <1>2, <1>3

Answered(r, S, b) == [r EXCEPT !.at = "reserve", !.slot = 1, !.taken = S, !.listed = b]

LEMMA ListedRequest ==
  ASSUME NEW r \in ParkRequests, NEW S \in SUBSET Space, NEW b \in BOOLEAN
  PROVE  /\ Answered(r, S, b) \in ParkRequests /\ Answered(r, S, b).at = "reserve"
         /\ Answered(r, S, b).call = r.call /\ Answered(r, S, b).taken = S
         /\ Answered(r, S, b).listed = b
<1> DEFINE q == [r EXCEPT !.at = "reserve"]
           u == [q EXCEPT !.slot = 1]
           v == [u EXCEPT !.taken = S]
<1>1. q \in ParkRequests /\ q.at = "reserve" /\ q.call = r.call
  BY DEF ParkRequests, ParkStages
<1>2. u \in ParkRequests /\ u.at = "reserve" /\ u.call = r.call
  <2>1. 1 \in 0..(MaxSlot + 1)
    BY ParkingAssumption
  <2> HIDE DEF q
  <2> QED BY <1>1, <2>1 DEF ParkRequests
<1>3. v \in ParkRequests /\ v.at = "reserve" /\ v.call = r.call /\ v.taken = S
  <2> HIDE DEF u
  <2> QED BY <1>2 DEF ParkRequests
<1>4. /\ [v EXCEPT !.listed = b] \in ParkRequests /\ [v EXCEPT !.listed = b].at = "reserve"
      /\ [v EXCEPT !.listed = b].call = r.call /\ [v EXCEPT !.listed = b].taken = S
      /\ [v EXCEPT !.listed = b].listed = b
  <2> HIDE DEF v
  <2> QED BY <1>3 DEF ParkRequests
<1>5. Answered(r, S, b) = [v EXCEPT !.listed = b]
  BY DEF Answered
<1> QED BY <1>4, <1>5

(* The node's answer gives up the request, or has it go on to reserve one  *)
(* of the slots that were not listed as occupied.                          *)
LEMMA ListsRequest ==
  ASSUME NEW a \in ParkAsker, ListSlots(a), parking[a] \in ParkRequests
  PROVE  \E p \in ParkRequests :
           /\ Sets(a, p) /\ p.at \in {"idle", "reserve"}
           /\ p.at = "reserve" => p.call = parking[a].call
           /\ p.at = "reserve" /\ p.listed => p.taken = {s \in Space : spot[s] # "none"}
<1>1. CASE Sets(a, NoPark)
  <2>1. NoPark \in ParkRequests /\ NoPark.at = "idle"
    BY ParkingAssumption DEF NoPark, ParkRequests, ParkStages, Space
  <2> QED BY <1>1, <2>1
<1>2. CASE ~Sets(a, NoPark)
  <2>1. PICK listed \in BOOLEAN, S \in SUBSET Space :
          /\ listed => S = {s \in Space : spot[s] # "none"}
          /\ Sets(a, Answered(parking[a], S, listed))
    BY <1>2 DEF ListSlots, Answered
  <2>2. /\ Answered(parking[a], S, listed) \in ParkRequests
        /\ Answered(parking[a], S, listed).at = "reserve"
        /\ Answered(parking[a], S, listed).call = parking[a].call
        /\ Answered(parking[a], S, listed).taken = S
        /\ Answered(parking[a], S, listed).listed = listed
    BY <2>1, ListedRequest
  <2> QED BY <2>1, <2>2
<1> QED BY <1>1, <1>2

LEMMA ParkKeeps ==
  ASSUME ParkInv, NEW a \in ParkAsker, NEW c \in Live, Park(a, c)
  PROVE  ParkInv'
<1> DEFINE p == [NoPark EXCEPT !.at = "look", !.call = c]
<1>1. NoPark \in ParkRequests /\ c \in Parked
  BY ParkingAssumption DEF Park, NoPark, ParkRequests, ParkStages, Parked, Space
<1>2. p \in ParkRequests /\ p.at = "look" /\ p.call = c
  BY <1>1, CalledRequest
<1> HIDE DEF p
<1>3. Sets(a, p) /\ UNCHANGED <<spot, whereto, reserved, left, blind, met>>
  BY DEF Park, p
<1> QED BY <1>1, <1>2, <1>3, AskerKeeps

LEMMA ListKeeps ==
  ASSUME ParkInv, NEW a \in ParkAsker, ListSlots(a)
  PROVE  ParkInv'
<1>1. /\ parking[a] \in ParkRequests /\ parking[a].call \in Parked
      /\ UNCHANGED <<spot, whereto, reserved, left, blind, met>>
  BY DEF ParkInv, ParkShape, ListSlots
<1>2. PICK p \in ParkRequests :
        /\ Sets(a, p) /\ p.at \in {"idle", "reserve"}
        /\ p.at = "reserve" => p.call = parking[a].call
        /\ p.at = "reserve" /\ p.listed => p.taken = {s \in Space : spot[s] # "none"}
  BY <1>1, ListsRequest
<1>3. p.at = "reserve" /\ p.listed => \A s \in Space : s \notin p.taken => spot[s] \notin Parked
  BY <1>2, ParkingAssumption DEF Parked
<1> QED BY <1>1, <1>2, <1>3, AskerKeeps

LEMMA AuditKeeps ==
  ASSUME ParkInv, NEW a \in ParkAsker, AuditPark(a)
  PROVE  ParkInv'
<1> DEFINE p == [parking[a] EXCEPT !.at = "send"]
<1>1. parking[a] \in ParkRequests /\ parking[a].call \in Parked /\ Claims(a)
  BY DEF ParkInv, ParkShape, AuditPark, Claims
<1>2. /\ p \in ParkRequests /\ p.at = "send"
      /\ p.call = parking[a].call /\ p.slot = parking[a].slot
      /\ p.listed = parking[a].listed
  BY <1>1 DEF ParkRequests, ParkStages
<1>3. NoPark \in ParkRequests /\ NoPark.at = "idle"
  BY ParkingAssumption DEF NoPark, ParkRequests, ParkStages, Space
<1>4. CASE Sets(a, p)
  BY <1>1, <1>2, <1>4, AskerKeeps DEF AuditPark
<1>5. CASE Sets(a, NoPark)
  BY <1>3, <1>5, AskerKeeps DEF AuditPark
<1> QED BY <1>4, <1>5 DEF AuditPark

(* A reservation is a claim nobody had: neither reserved nor occupied.     *)
LEMMA ReserveKeeps ==
  ASSUME ParkInv, NEW a \in ParkAsker, Reserve(a)
  PROVE  ParkInv'
<1> DEFINE p == parking[a]
<1>1. /\ p \in ParkRequests /\ p.at = "reserve" /\ p.call \in Parked
      /\ p.taken \subseteq Space /\ p.slot \in 0..(MaxSlot + 1)
  BY DEF ParkInv, ParkShape, Reserve, ParkRequests
<1>2. CASE Sets(a, NoPark) /\ reserved' = reserved
  <2>1. NoPark \in ParkRequests /\ NoPark.at = "idle"
    BY ParkingAssumption DEF NoPark, ParkRequests, ParkStages, Space
  <2> QED BY <1>2, <2>1, AskerKeeps DEF Reserve
<1>3. CASE /\ p.slot \in p.taken \cup reserved
           /\ Sets(a, [p EXCEPT !.slot = @ + 1]) /\ reserved' = reserved
  <2> DEFINE q == [p EXCEPT !.slot = p.slot + 1]
  <2>1. p.slot + 1 \in 0..(MaxSlot + 1)
    BY <1>1, <1>3, ParkingAssumption DEF ParkInv, ParkShape, Space
  <2>2. /\ q \in ParkRequests /\ q.at = "reserve" /\ q.call = p.call
        /\ q.taken = p.taken /\ q.listed = p.listed
        /\ [p EXCEPT !.slot = @ + 1] = q
    BY <1>1, <2>1 DEF ParkRequests
  <2>3. q.listed => \A s \in Space : s \notin q.taken /\ spot[s] \in Parked => s \in reserved
    BY <1>1, <2>2 DEF ParkInv, SeenIsReserved
  <2> HIDE DEF q
  <2> QED BY <1>1, <1>3, <2>2, <2>3, AskerKeeps DEF Reserve
<1>4. CASE /\ p.slot \in Space \ (p.taken \cup reserved)
           /\ reserved' = reserved \cup {p.slot} /\ Sets(a, [p EXCEPT !.at = "audit"])
  <2> DEFINE q == [p EXCEPT !.at = "audit"]
  <2>1. q \in ParkRequests /\ q.at = "audit" /\ q.call = p.call /\ q.slot = p.slot
        /\ q.listed = p.listed
    BY <1>1 DEF ParkRequests, ParkStages
  <2> HIDE DEF q
  <2>2. /\ parking' \in [ParkAsker -> ParkRequests] /\ parking'[a] = q
        /\ \A b \in ParkAsker \ {a} : parking'[b] = parking[b]
    BY <1>4, <2>1 DEF Sets, ParkInv, ParkShape, q
  <2>3. UNCHANGED <<spot, whereto, left, blind, met>> /\ reserved' = reserved \cup {p.slot}
    BY <1>4 DEF Reserve
  <2>4. p.listed => spot[p.slot] \notin Parked
    BY <1>1, <1>4 DEF ParkInv, SeenIsReserved
  <2>5. /\ \A b \in ParkAsker : Claims(b) => parking[b].slot # p.slot
        /\ \A c \in Parked : whereto[c] # p.slot
    BY <1>4, ParkingAssumption DEF ParkInv, ClaimedIsFree, Space
  <2>6. \A b \in ParkAsker : /\ Claims(b)' => b = a \/ Claims(b)
                             /\ b # a => parking'[b] = parking[b]
    BY <2>2 DEF Claims
  <2>7. ParkShape'
    BY <1>1, <1>4, <2>1, <2>2, <2>3, <2>6 DEF ParkInv, ParkShape
  <2>8. OneClaim'
    BY <2>1, <2>2, <2>3, <2>5, <2>6 DEF ParkInv, OneClaim
  <2>9. ClaimedIsFree'
    BY <2>1, <2>2, <2>3, <2>4, <2>6 DEF ParkInv, ClaimedIsFree
  <2>10. SeenIsReserved'
    BY <2>1, <2>2, <2>3 DEF ParkInv, SeenIsReserved
  <2> QED BY <2>3, <2>7, <2>8, <2>9, <2>10 DEF ParkInv, MetAreOver, NeverTwoInOne
<1> QED BY <1>2, <1>3, <1>4 DEF Reserve

(* The claim passes from the asker to the call, which leaves its slot.     *)
LEMMA SendKeeps ==
  ASSUME ParkInv, NEW a \in ParkAsker, SendTo(a)
  PROVE  ParkInv'
<1> DEFINE p == parking[a]
           Sent == /\ whereto' = [whereto EXCEPT ![p.call] = p.slot]
                   /\ spot' = [s \in Space |-> IF spot[s] = p.call THEN "none" ELSE spot[s]]
                   /\ blind' = IF p.listed THEN blind \ {p.call} ELSE blind \cup {p.call}
<1>1. NoPark \in ParkRequests /\ NoPark.at = "idle"
  BY ParkingAssumption DEF NoPark, ParkRequests, ParkStages, Space
<1>2. CASE UNCHANGED <<spot, whereto, blind>>
  BY <1>1, <1>2, AskerKeeps DEF SendTo
<1>3. CASE p.call \notin left /\ Sent
  <2>1. Claims(a) /\ p.call \in Parked /\ p.call \in Live /\ p.slot \in Space /\ p.slot \in 0..MaxSlot
    BY ParkingAssumption DEF SendTo, Claims, ParkInv, ParkShape, Parked, Space
  <2>2. /\ parking' \in [ParkAsker -> ParkRequests] /\ parking'[a] = NoPark
        /\ \A b \in ParkAsker \ {a} : parking'[b] = parking[b]
    BY <1>1 DEF SendTo, Sets, ParkInv, ParkShape
  <2>3. \A b \in ParkAsker : Claims(b)' => b # a /\ Claims(b) /\ parking'[b] = parking[b]
    BY <1>1, <2>2 DEF Claims
  <2>4. /\ whereto' \in [Live -> 0..MaxSlot] /\ whereto'[p.call] = p.slot
        /\ \A c \in Live \ {p.call} : whereto'[c] = whereto[c]
    BY <1>3, <2>1 DEF ParkInv, ParkShape
  <2>5. /\ spot' \in [Space -> Live \cup {"none"}]
        /\ \A s \in Space : spot'[s] \in Parked => spot[s] \in Parked
    BY <1>3, ParkingAssumption DEF ParkInv, ParkShape, Parked
  <2>6. UNCHANGED <<reserved, left, met>> /\ Parked \subseteq Live
    BY DEF SendTo, Parked
  <2>7. ParkShape'
    BY <1>1, <2>2, <2>3, <2>4, <2>5, <2>6 DEF ParkInv, ParkShape
  <2>8. OneClaim'
    BY <2>1, <2>3, <2>4, <2>6 DEF ParkInv, OneClaim
  <2>9. ClaimedIsFree'
    <3>1. \A b \in ParkAsker : Claims(b) => parking[b].slot \in Space
      BY DEF ParkInv, ParkShape
    <3>2. \A c \in Live : whereto[c] # 0 => whereto[c] \in Space
      BY ParkingAssumption DEF ParkInv, ParkShape, Space
    <3>3. \A b \in ParkAsker :
            Claims(b) => /\ parking[b].slot \in reserved
                         /\ parking[b].listed => spot'[parking[b].slot] \notin Parked
      BY <2>5, <3>1 DEF ParkInv, ClaimedIsFree
    <3>4. ASSUME NEW c \in Parked, whereto'[c] # 0
          PROVE  /\ whereto'[c] \in reserved
                 /\ c \notin blind' => spot'[whereto'[c]] \notin Parked
      <4>1. CASE c = p.call
        BY <1>3, <2>1, <2>4, <3>3, <4>1
      <4>2. CASE c # p.call
        <5>1. c \in Live /\ whereto'[c] = whereto[c] /\ (c \notin blind' => c \notin blind)
          BY <1>3, <2>4, <2>6, <4>2
        <5> QED BY <2>5, <3>2, <3>4, <5>1 DEF ParkInv, ClaimedIsFree
      <4> QED BY <4>1, <4>2
    <3> QED BY <2>3, <2>6, <3>3, <3>4 DEF ClaimedIsFree
  <2>10. SeenIsReserved'
    BY <1>1, <2>2, <2>5, <2>6 DEF ParkInv, SeenIsReserved
  <2>11. MetAreOver' /\ NeverTwoInOne'
    BY <1>3, <2>6 DEF ParkInv, MetAreOver, NeverTwoInOne
  <2> QED BY <2>7, <2>8, <2>9, <2>10, <2>11 DEF ParkInv
<1> QED BY <1>2, <1>3 DEF SendTo

(* What a phone does to its own call claims nothing.                       *)
LEMMA DialKeeps ==
  ASSUME ParkInv, NEW c \in Live, NEW s \in Space, DialSlot(c, s)
  PROVE  ParkInv'
<1>1. /\ whereto' \in [Live -> 0..MaxSlot] /\ Parked \subseteq Live
      /\ \A d \in Parked : whereto'[d] = whereto[d]
  BY ParkingAssumption DEF DialSlot, ParkInv, ParkShape, Parked, Space
<1>2. UNCHANGED <<spot, reserved, parking, left, blind, met>>
  BY DEF DialSlot
<1>3. ParkShape'
  BY <1>1, <1>2 DEF ParkInv, ParkShape, Claims
<1>4. OneClaim'
  BY <1>1, <1>2 DEF ParkInv, OneClaim, Claims
<1>5. ClaimedIsFree'
  BY <1>1, <1>2 DEF ParkInv, ClaimedIsFree, Claims
<1>6. SeenIsReserved'
  BY <1>2 DEF ParkInv, SeenIsReserved
<1> QED BY <1>2, <1>3, <1>4, <1>5, <1>6 DEF ParkInv, MetAreOver, NeverTwoInOne

(* A parked call finds its slot empty, or somebody a phone put there.      *)
LEMMA ArriveKeeps ==
  ASSUME ParkInv, NEW c \in Live, Arrive(c)
  PROVE  ParkInv'
<1> DEFINE s == whereto[c]
<1>1. /\ s \in Space /\ UNCHANGED <<reserved, parking, blind>>
      /\ whereto' \in [Live -> 0..MaxSlot] /\ whereto'[c] = 0
      /\ \A d \in Live \ {c} : whereto'[d] = whereto[d]
  BY ParkingAssumption DEF Arrive, ParkInv, ParkShape, Space
<1>2. Parked \subseteq Live
  BY DEF Parked
<1>3. OneClaim'
  BY <1>1, <1>2, ParkingAssumption DEF ParkInv, OneClaim, Claims, ParkShape, Space
<1>4. CASE spot[s] = "none" /\ spot' = [spot EXCEPT ![s] = c] /\ UNCHANGED <<left, met>>
  <2>1. /\ spot' \in [Space -> Live \cup {"none"}] /\ spot'[s] = c
        /\ \A t \in Space \ {s} : spot'[t] = spot[t]
    BY <1>1, <1>4 DEF ParkInv, ParkShape
  <2>2. ParkShape'
    BY <1>1, <1>4, <2>1 DEF ParkInv, ParkShape, Claims
  <2>3. c \in Parked => s \in reserved
    BY <1>1, ParkingAssumption DEF ParkInv, ClaimedIsFree, Space
  <2>4. /\ \A a \in ParkAsker : Claims(a) /\ c \in Parked => parking[a].slot # s
        /\ \A d \in Parked \ {c} : c \in Parked /\ whereto[d] # 0 => whereto[d] # s
    BY DEF ParkInv, OneClaim
  <2>5. /\ \A a \in ParkAsker : Claims(a) => parking[a].slot \in Space
        /\ \A d \in Live : whereto[d] # 0 => whereto[d] \in Space
    BY ParkingAssumption DEF ParkInv, ParkShape, Space
  <2>6. ClaimedIsFree'
    BY <1>1, <1>2, <2>1, <2>4, <2>5 DEF ParkInv, ClaimedIsFree, Claims
  <2>7. SeenIsReserved'
    BY <1>1, <2>1, <2>3 DEF ParkInv, SeenIsReserved
  <2> QED BY <1>1, <1>3, <1>4, <2>2, <2>6, <2>7 DEF ParkInv, MetAreOver, NeverTwoInOne
<1>5. CASE /\ spot[s] # "none" /\ spot' = [spot EXCEPT ![s] = "none"]
           /\ met' = met \cup {<<c, spot[s]>>} /\ left' = left \cup {c, spot[s]}
  <2>1. /\ spot' \in [Space -> Live \cup {"none"}] /\ spot[s] \in Live
        /\ \A t \in Space : spot'[t] \in Parked => spot[t] \in Parked
    BY <1>1, <1>5, ParkingAssumption DEF ParkInv, ParkShape, Parked
  <2>2. ParkShape'
    BY <1>1, <1>5, <2>1 DEF ParkInv, ParkShape, Claims
  <2>3. /\ \A a \in ParkAsker : Claims(a) => parking[a].slot \in Space
        /\ \A d \in Live : whereto[d] # 0 => whereto[d] \in Space
    BY ParkingAssumption DEF ParkInv, ParkShape, Space
  <2>4. ClaimedIsFree'
    BY <1>1, <1>2, <2>1, <2>3 DEF ParkInv, ClaimedIsFree, Claims
  <2>5. SeenIsReserved'
    BY <1>1, <2>1 DEF ParkInv, SeenIsReserved
  <2>6. c \in Dialled \cup blind \/ spot[s] \in Dialled
    <3>1. c \in Parked \ blind => spot[s] \notin Parked
      BY <1>1, ParkingAssumption DEF ParkInv, ClaimedIsFree, Space
    <3> QED BY <2>1, <3>1 DEF Parked
  <2>7. MetAreOver' /\ NeverTwoInOne'
    <3>1. met' = met \cup {<<c, spot[s]>>} /\ left' = left \cup {c, spot[s]} /\ blind' = blind
      BY <1>1, <1>5
    <3>2. <<c, spot[s]>>[1] = c /\ <<c, spot[s]>>[2] = spot[s]
      OBVIOUS
    <3> QED BY <2>6, <3>1, <3>2 DEF ParkInv, MetAreOver, NeverTwoInOne
  <2> QED BY <1>3, <2>2, <2>4, <2>5, <2>7 DEF ParkInv
<1> QED BY <1>4, <1>5 DEF Arrive

LEMMA LeaveKeeps ==
  ASSUME ParkInv, NEW c \in Live, Leave(c)
  PROVE  ParkInv'
<1>1. /\ whereto' \in [Live -> 0..MaxSlot] /\ UNCHANGED <<reserved, parking, blind, met>>
      /\ \A d \in Live : whereto'[d] \in {0, whereto[d]}
  BY ParkingAssumption DEF Leave, ParkInv, ParkShape
<1>2. /\ spot' \in [Space -> Live \cup {"none"}] /\ left' = left \cup {c}
      /\ \A s \in Space : spot'[s] \in Parked => spot[s] \in Parked
  BY ParkingAssumption DEF Leave, ParkInv, ParkShape, Parked
<1>3. Parked \subseteq Live
  BY DEF Parked
<1>4. ParkShape'
  BY <1>1, <1>2 DEF ParkInv, ParkShape, Claims
<1>5. OneClaim'
  BY <1>1, <1>3, ParkingAssumption DEF ParkInv, OneClaim, Claims, ParkShape, Space
<1>6. ClaimedIsFree'
  <2>1. /\ \A a \in ParkAsker : Claims(a) => parking[a].slot \in Space
        /\ \A d \in Live : whereto[d] # 0 => whereto[d] \in Space
    BY ParkingAssumption DEF ParkInv, ParkShape, Space
  <2> QED BY <1>1, <1>2, <1>3, <2>1 DEF ParkInv, ClaimedIsFree, Claims
<1>7. SeenIsReserved'
  BY <1>1, <1>2 DEF ParkInv, SeenIsReserved
<1> QED BY <1>1, <1>2, <1>4, <1>5, <1>6, <1>7 DEF ParkInv, MetAreOver, NeverTwoInOne

(* A reservation that lasts long enough lapses when nothing rests on it.   *)
LEMMA LapseKeeps ==
  ASSUME ParkInv, Timely, NEW s \in Space, LapseSlot(s)
  PROVE  ParkInv'
<1>1. UNCHANGED <<spot, whereto, parking, left, blind, met>> /\ reserved' = reserved \ {s}
  BY DEF LapseSlot
<1>2. /\ \A a \in ParkAsker : Claims(a) => parking[a].slot # s
      /\ \A c \in Live : whereto[c] # s
      /\ \A a \in ParkAsker :
           parking[a].at = "reserve" /\ parking[a].listed /\ s \notin parking[a].taken => spot[s] = "none"
  BY DEF LapseSlot, Claims
<1>3. ParkShape'
  BY <1>1 DEF ParkInv, ParkShape, Claims
<1>4. OneClaim'
  BY <1>1 DEF ParkInv, OneClaim, Claims
<1>5. ClaimedIsFree'
  BY <1>1, <1>2 DEF ParkInv, ClaimedIsFree, Claims, Parked
<1>6. SeenIsReserved'
  BY <1>1, <1>2, ParkingAssumption DEF ParkInv, SeenIsReserved, Parked
<1> QED BY <1>1, <1>3, <1>4, <1>5, <1>6 DEF ParkInv, MetAreOver, NeverTwoInOne

LEMMA ParkStep ==
  ASSUME ParkInv, Timely, [ParkNext]_parkVars
  PROVE  ParkInv'
<1>1. ASSUME NEW a \in ParkAsker, NEW c \in Live, Park(a, c) PROVE ParkInv'
  BY <1>1, ParkKeeps
<1>2. ASSUME NEW a \in ParkAsker, ListSlots(a) PROVE ParkInv'
  BY <1>2, ListKeeps
<1>3. ASSUME NEW a \in ParkAsker, Reserve(a) PROVE ParkInv'
  BY <1>3, ReserveKeeps
<1>4. ASSUME NEW a \in ParkAsker, AuditPark(a) PROVE ParkInv'
  BY <1>4, AuditKeeps
<1>5. ASSUME NEW a \in ParkAsker, SendTo(a) PROVE ParkInv'
  BY <1>5, SendKeeps
<1>6. ASSUME NEW c \in Live, NEW s \in Space, DialSlot(c, s) PROVE ParkInv'
  BY <1>6, DialKeeps
<1>7. ASSUME NEW c \in Live, Arrive(c) PROVE ParkInv'
  BY <1>7, ArriveKeeps
<1>8. ASSUME NEW c \in Live, Leave(c) PROVE ParkInv'
  BY <1>8, LeaveKeeps
<1>9. ASSUME NEW s \in Space, LapseSlot(s) PROVE ParkInv'
  BY <1>9, LapseKeeps
<1>10. CASE UNCHANGED parkVars
  BY <1>10 DEF parkVars, ParkInv, ParkShape, OneClaim, ClaimedIsFree, SeenIsReserved, Claims,
    MetAreOver, NeverTwoInOne
<1> QED BY <1>1, <1>2, <1>3, <1>4, <1>5, <1>6, <1>7, <1>8, <1>9, <1>10 DEF ParkNext

(* Two calls that the service parks do not meet in one slot, unless the    *)
(* node had refused to list its slots to the later of them, while the      *)
(* reservations outlive what they are for (call-operations.ts, park).      *)
THEOREM NeverTwoInOneAlways == Timely /\ ParkSpec => []NeverTwoInOne
<1> SUFFICES ASSUME Timely PROVE ParkSpec => []NeverTwoInOne
  OBVIOUS
<1>1. ParkInit => ParkInv
  BY ParkStarts
<1>2. ParkInv /\ [ParkNext]_parkVars => ParkInv'
  BY ParkStep
<1>3. ParkInv => NeverTwoInOne
  BY DEF ParkInv
<1> QED BY <1>1, <1>2, <1>3, PTL DEF ParkSpec

-----------------------------------------------------------------------------
(* Transcription.  A message's attempts count up with every claim of it,   *)
(* and are only reset before anybody can have claimed it: so whoever holds *)
(* a try has one that was counted, and a new one is greater than all.      *)

Working(t) == transcriber[t].at \in {"taken", "answered"}

TextPlaces == {"idle", "looked", "taken", "answered"}

TextStates == [at : TextPlaces, letter : {0} \cup Left, try : Nat, heard : {"none", "text", "error", "no engine"}]

(* What of the types the argument needs.                                   *)
TextShape ==
  /\ text \in [Left -> {"none", "pending", "working", "done", "failed", "gone"}]
  /\ tries \in [Left -> Nat]
  /\ transcriber \in [Transcriber -> TextStates]
  /\ \A t \in Transcriber : transcriber[t].at # "idle" => transcriber[t].letter \in Left

(* Nobody is at a message that is not ready yet.                           *)
OnlyReady == \A t \in Transcriber : transcriber[t].at # "idle" => text[transcriber[t].letter] # "none"

(* Whoever works on a message has a try that was counted.                  *)
Counted == \A t \in Transcriber : Working(t) => transcriber[t].try <= tries[transcriber[t].letter]

TextInv == TextShape /\ OnlyReady /\ Counted /\ OneGetsIt

(* What changing fields of a record, one after the other, does.            *)
LEMMA TakenState ==
  ASSUME NEW r \in TextStates
  PROVE  LET s == [[r EXCEPT !.at = "taken"] EXCEPT !.try = @ + 1]
         IN  /\ s \in TextStates
             /\ s.at = "taken" /\ s.letter = r.letter /\ s.try = r.try + 1
<1> DEFINE q == [r EXCEPT !.at = "taken"]
<1>1. q \in TextStates /\ q.at = "taken" /\ q.letter = r.letter /\ q.try = r.try
  BY DEF TextStates, TextPlaces
<1>2. r.try + 1 \in Nat
  <2>1. r.try \in Nat
    BY DEF TextStates
  <2> QED BY <2>1
<1>3. [q EXCEPT !.try = r.try + 1] \in TextStates
  BY <1>1, <1>2 DEF TextStates
<1>4. [q EXCEPT !.try = @ + 1] = [q EXCEPT !.try = r.try + 1]
  BY <1>1
<1>5. /\ [q EXCEPT !.try = r.try + 1].at = "taken" /\ [q EXCEPT !.try = r.try + 1].letter = r.letter
      /\ [q EXCEPT !.try = r.try + 1].try = r.try + 1
  BY <1>1 DEF TextStates
<1> QED BY <1>3, <1>4, <1>5

LEMMA AnsweredState ==
  ASSUME NEW r \in TextStates, NEW heard \in {"text", "error", "no engine"}
  PROVE  LET s == [[r EXCEPT !.at = "answered"] EXCEPT !.heard = heard]
         IN  /\ s \in TextStates
             /\ s.at = "answered" /\ s.letter = r.letter /\ s.try = r.try
  BY DEF TextStates, TextPlaces

LEMMA TwoFields ==
  ASSUME NEW f \in [Transcriber -> TextStates], NEW t \in Transcriber
  PROVE  /\ [f EXCEPT ![t].at = "taken", ![t].try = @ + 1]
               = [f EXCEPT ![t] = [[f[t] EXCEPT !.at = "taken"] EXCEPT !.try = @ + 1]]
         /\ \A heard : [f EXCEPT ![t].at = "answered", ![t].heard = heard]
               = [f EXCEPT ![t] = [[f[t] EXCEPT !.at = "answered"] EXCEPT !.heard = heard]]
  OBVIOUS

(* The initial states.                                                     *)
LEMMA TextStarts == TranscriptionInit => TextInv
  BY DEF TranscriptionInit, TextInv, TextShape, OnlyReady, Counted, OneGetsIt, Working, Free, TextStates, TextPlaces

(* A message's attempts are reset while nobody is at it.                   *)
LEMMA AskKeeps ==
  ASSUME TextInv, ~Overlapping, NEW m \in Left, AskForText(m)
  PROVE  TextInv'
<1>1. /\ text[m] = "none" /\ text' = [text EXCEPT ![m] = "pending"]
      /\ tries' = [tries EXCEPT ![m] = 0] /\ transcriber' = transcriber
  BY DEF AskForText
<1>2. \A t \in Transcriber : transcriber[t].at # "idle" => transcriber[t].letter # m
  BY <1>1 DEF TextInv, OnlyReady
<1>3. TextShape'
  BY <1>1 DEF TextInv, TextShape, TextStates, TextPlaces
<1>4. OnlyReady'
  BY <1>1 DEF TextInv, TextShape, OnlyReady, TextStates, TextPlaces
<1>5. Counted'
  BY <1>1, <1>2 DEF TextInv, TextShape, Counted, Working, TextStates, TextPlaces
<1>6. OneGetsIt'
  BY <1>1 DEF TextInv, OneGetsIt
<1> QED BY <1>3, <1>4, <1>5, <1>6 DEF TextInv

(* A transcriber looks for the oldest that waits.                          *)
LEMMA LookKeeps ==
  ASSUME TextInv, NEW t \in Transcriber, Look(t)
  PROVE  TextInv'
<1>1. PICK m \in Left :
        /\ text[m] \in {"pending", "working"}
        /\ transcriber' = [transcriber EXCEPT ![t] = [Free EXCEPT !.at = "looked", !.letter = m, !.try = tries[m]]]
  BY DEF Look, LookAt
<1>2. text' = text /\ tries' = tries
  BY DEF Look, LookAt
<1>3. TextShape' /\ OnlyReady'
  BY <1>1, <1>2 DEF TextInv, TextShape, OnlyReady, Free, TextStates, TextPlaces
<1>4. Counted'
  BY <1>1, <1>2 DEF TextInv, TextShape, Counted, Working, Free, TextStates, TextPlaces
<1>5. OneGetsIt'
  BY <1>1, <1>2 DEF TextInv, TextShape, OneGetsIt, Free, TextStates, TextPlaces
<1> QED BY <1>3, <1>4, <1>5 DEF TextInv

(* A claim makes a try greater than any there was.                         *)
LEMMA TakeKeeps ==
  ASSUME TextInv, NEW t \in Transcriber, Take(t)
  PROVE  TextInv'
<1> DEFINE m == transcriber[t].letter
<1>1. CASE /\ text[m] \in {"pending", "working"} /\ tries[m] = transcriber[t].try
           /\ text' = [text EXCEPT ![m] = "working"]
           /\ tries' = [tries EXCEPT ![m] = @ + 1]
           /\ transcriber' = [transcriber EXCEPT ![t].at = "taken", ![t].try = @ + 1]
  <2>1. m \in Left /\ transcriber[t].try = tries[m] /\ transcriber[t].at = "looked"
    BY <1>1 DEF Take, TextInv, TextShape
  <2>2. /\ transcriber' \in [Transcriber -> TextStates]
        /\ transcriber'[t].at = "taken" /\ transcriber'[t].letter = m
        /\ transcriber'[t].try = tries[m] + 1
        /\ \A u \in Transcriber \ {t} : transcriber'[u] = transcriber[u]
    <3> DEFINE s == [[transcriber[t] EXCEPT !.at = "taken"] EXCEPT !.try = @ + 1]
    <3>1. transcriber \in [Transcriber -> TextStates] /\ transcriber[t] \in TextStates
      BY DEF TextInv, TextShape
    <3>2. transcriber' = [transcriber EXCEPT ![t] = s]
      BY <1>1, <3>1, TwoFields
    <3>3. s \in TextStates /\ s.at = "taken" /\ s.letter = m /\ s.try = transcriber[t].try + 1
      BY <3>1, TakenState
    <3>4. transcriber'[t] = s /\ \A u \in Transcriber \ {t} : transcriber'[u] = transcriber[u]
      BY <3>1, <3>2
    <3>5. transcriber' \in [Transcriber -> TextStates]
      BY <3>1, <3>2, <3>3
    <3> HIDE DEF s
    <3> QED BY <3>3, <3>4, <3>5, <2>1
  <2>3. /\ tries' \in [Left -> Nat] /\ tries'[m] = tries[m] + 1
        /\ \A n \in Left \ {m} : tries'[n] = tries[n]
    BY <1>1, <2>1 DEF TextInv, TextShape
  <2>4. /\ text' \in [Left -> {"none", "pending", "working", "done", "failed", "gone"}]
        /\ \A n \in Left : text[n] # "none" => text'[n] # "none"
    BY <1>1, <2>1 DEF TextInv, TextShape
  <2>5. \A u \in Transcriber : /\ transcriber[u].try \in Nat /\ tries[m] \in Nat
                               /\ Working(u) => transcriber[u].letter \in Left
                               /\ Working(u) => transcriber[u].try <= tries[transcriber[u].letter]
    BY <2>1 DEF TextInv, TextShape, TextStates, Working, Counted
  <2>6. TextShape' /\ OnlyReady'
    BY <1>1, <2>1, <2>2, <2>3, <2>4, <2>5 DEF TextInv, TextShape, OnlyReady
  <2>7. ASSUME NEW u \in Transcriber, Working(u)'
        PROVE  transcriber'[u].try <= tries'[transcriber'[u].letter]
    <3>1. CASE u = t
      BY <3>1, <2>2, <2>3, <2>5
    <3>2. CASE u # t
      <4>1. Working(u) /\ transcriber'[u] = transcriber[u]
        BY <3>2, <2>2, <2>7 DEF Working
      <4>2. CASE transcriber[u].letter = m
        BY <4>1, <4>2, <2>3, <2>5
      <4>3. CASE transcriber[u].letter # m
        BY <4>1, <4>3, <2>3, <2>5
      <4> QED BY <4>2, <4>3
    <3> QED BY <3>1, <3>2
  <2>8. \A u \in Transcriber \ {t} :
           Working(u)' /\ transcriber'[u].letter = m => transcriber'[u].try # tries[m] + 1
    <3> SUFFICES ASSUME NEW u \in Transcriber \ {t}, Working(u)', transcriber'[u].letter = m
                 PROVE  transcriber'[u].try # tries[m] + 1
      OBVIOUS
    <3>1. Working(u) /\ transcriber'[u] = transcriber[u]
      BY <2>2 DEF Working
    <3> QED BY <3>1, <2>5
  <2>9. OneGetsIt'
    BY <2>2, <2>8 DEF TextInv, OneGetsIt, Working
  <2> QED BY <2>6, <2>7, <2>9 DEF TextInv, Counted
<1>2. CASE transcriber' = [transcriber EXCEPT ![t] = Free] /\ text' = text /\ tries' = tries
  <2>1. TextShape' /\ OnlyReady'
    BY <1>2 DEF TextInv, TextShape, OnlyReady, Free, TextStates, TextPlaces
  <2>2. Counted' /\ OneGetsIt'
    BY <1>2 DEF TextInv, TextShape, Counted, OneGetsIt, Working, Free, TextStates, TextPlaces
  <2> QED BY <2>1, <2>2 DEF TextInv
<1> QED BY <1>1, <1>2 DEF Take

(* Transcribers go on with the try they have, or are freed.                *)
NoNewTry ==
  /\ transcriber' \in [Transcriber -> TextStates]
  /\ \A u \in Transcriber :
       /\ transcriber'[u].at # "idle" =>
            transcriber[u].at # "idle" /\ transcriber'[u].letter = transcriber[u].letter
       /\ Working(u)' => Working(u) /\ transcriber'[u].try = transcriber[u].try

(* What finishes, dies or is discarded frees a transcriber or ends a       *)
(* message: no try is made.                                                *)
LEMMA OthersKeep ==
  ASSUME TextInv,
         tries' = tries,
         text' \in [Left -> {"none", "pending", "working", "done", "failed", "gone"}],
         \A m \in Left : text[m] # "none" => text'[m] # "none",
         \/ transcriber' = transcriber
         \/ \E t \in Transcriber : transcriber' = [transcriber EXCEPT ![t] = Free]
         \/ \E t \in Transcriber, heard \in {"text", "error", "no engine"} :
              /\ Working(t)
              /\ transcriber' = [transcriber EXCEPT ![t].at = "answered", ![t].heard = heard]
  PROVE  TextInv'
<1>1. NoNewTry
  <2>1. CASE transcriber' = transcriber
    BY <2>1 DEF TextInv, TextShape, Working, NoNewTry
  <2>2. ASSUME NEW t \in Transcriber, transcriber' = [transcriber EXCEPT ![t] = Free]
        PROVE  NoNewTry
    BY <2>2 DEF NoNewTry, TextInv, TextShape, Working, Free, TextStates, TextPlaces
  <2>3. ASSUME NEW t \in Transcriber, NEW heard \in {"text", "error", "no engine"}, Working(t),
               transcriber' = [transcriber EXCEPT ![t].at = "answered", ![t].heard = heard]
        PROVE  NoNewTry
    <3> DEFINE s == [[transcriber[t] EXCEPT !.at = "answered"] EXCEPT !.heard = heard]
    <3>1. transcriber \in [Transcriber -> TextStates] /\ transcriber[t] \in TextStates
      BY DEF TextInv, TextShape
    <3>2. transcriber' = [transcriber EXCEPT ![t] = s]
      BY <2>3, <3>1, TwoFields
    <3>3. s \in TextStates /\ s.at = "answered" /\ s.letter = transcriber[t].letter /\ s.try = transcriber[t].try
      BY ZenonT(60), <3>1, AnsweredState
    <3>4. transcriber'[t] = s /\ \A u \in Transcriber \ {t} : transcriber'[u] = transcriber[u]
      BY <3>1, <3>2
    <3>5. transcriber' \in [Transcriber -> TextStates]
      BY <3>1, <3>2, <3>3
    <3> HIDE DEF s
    <3>6. \A u \in Transcriber : Working(u)' => Working(u) /\ transcriber'[u].try = transcriber[u].try
      BY <3>3, <3>4, <2>3 DEF Working
    <3>7. transcriber[t].at # "idle"
      BY <2>3 DEF Working
    <3>8. \A u \in Transcriber : /\ transcriber'[u].letter = transcriber[u].letter
                                 /\ transcriber'[u].at # "idle" => transcriber[u].at # "idle"
      BY <3>3, <3>4, <3>7
    <3>9. ASSUME NEW u \in Transcriber
          PROVE  /\ transcriber'[u].at # "idle" =>
                      transcriber[u].at # "idle" /\ transcriber'[u].letter = transcriber[u].letter
                 /\ Working(u)' => Working(u) /\ transcriber'[u].try = transcriber[u].try
      BY <3>6, <3>8
    <3> QED BY <3>5, <3>9 DEF NoNewTry
  <2>4. CASE \E t \in Transcriber : transcriber' = [transcriber EXCEPT ![t] = Free]
    <3>1. PICK t \in Transcriber : transcriber' = [transcriber EXCEPT ![t] = Free]
      BY <2>4
    <3> QED BY <3>1, <2>2
  <2>5. CASE \E t \in Transcriber, heard \in {"text", "error", "no engine"} :
               /\ Working(t)
               /\ transcriber' = [transcriber EXCEPT ![t].at = "answered", ![t].heard = heard]
    <3>1. PICK t \in Transcriber, heard \in {"text", "error", "no engine"} :
            /\ Working(t)
            /\ transcriber' = [transcriber EXCEPT ![t].at = "answered", ![t].heard = heard]
      BY <2>5
    <3> QED BY <3>1, <2>3
  <2> QED BY <2>1, <2>4, <2>5
<1>2. TextShape' /\ OnlyReady'
  BY <1>1 DEF NoNewTry, TextInv, TextShape, OnlyReady
<1>3. Counted'
  BY <1>1 DEF NoNewTry, TextInv, TextShape, Counted, Working, TextStates
<1>4. OneGetsIt'
  <2> SUFFICES ASSUME NEW t \in Transcriber, NEW u \in Transcriber, t # u, Working(t)', Working(u)',
                      transcriber'[t].letter = transcriber'[u].letter
               PROVE  transcriber'[t].try # transcriber'[u].try
    BY DEF OneGetsIt, Working
  <2>1. /\ transcriber'[t].at # "idle" /\ transcriber'[u].at # "idle"
        /\ Working(t) /\ Working(u)
    BY <1>1 DEF NoNewTry, Working
  <2>2. /\ transcriber[t].letter = transcriber[u].letter
        /\ transcriber'[t].try = transcriber[t].try /\ transcriber'[u].try = transcriber[u].try
    BY <1>1, <2>1 DEF NoNewTry
  <2>3. transcriber[t].try # transcriber[u].try
    <3>1. {transcriber[t].at, transcriber[u].at} \subseteq {"taken", "answered"}
      BY <2>1 DEF Working
    <3> QED BY <2>2, <3>1 DEF TextInv, OneGetsIt
  <2> QED BY <2>2, <2>3
<1> QED BY <1>2, <1>3, <1>4 DEF TextInv

(* Every step keeps it.                                                    *)
LEMMA TextStep == ~Overlapping /\ TextInv /\ [TranscriptionNext]_transcriptionVars => TextInv'
<1> SUFFICES ASSUME ~Overlapping, TextInv, [TranscriptionNext]_transcriptionVars
             PROVE  TextInv'
  OBVIOUS
<1> USE DEF TextInv, TextShape
<1>1. ASSUME NEW m \in Left, AskForText(m) PROVE TextInv'
  BY <1>1, AskKeeps
<1>2. ASSUME NEW m \in Left, Discard(m) PROVE TextInv'
  BY <1>2, OthersKeep DEF Discard
<1>3. ASSUME NEW m \in Left, Lapse(m) PROVE TextInv'
  BY <1>3, OthersKeep DEF Lapse
<1>4. ASSUME NEW t \in Transcriber, Look(t) PROVE TextInv'
  BY <1>4, LookKeeps
<1>5. ASSUME NEW t \in Transcriber, Take(t) PROVE TextInv'
  BY <1>5, TakeKeeps
<1>6. ASSUME NEW t \in Transcriber, Transcribe(t) PROVE TextInv'
  BY <1>6, OthersKeep DEF Transcribe, Working
<1>7. ASSUME NEW t \in Transcriber, Finish(t) PROVE TextInv'
  <2>1. After(t) \in {"done", "pending", "failed"}
    BY DEF After
  <2>2. /\ text' \in [Left -> {"none", "pending", "working", "done", "failed", "gone"}]
        /\ \A m \in Left : text[m] # "none" => text'[m] # "none"
    BY <1>7, <2>1 DEF Finish
  <2> QED BY <1>7, <2>2, OthersKeep DEF Finish
<1>8. ASSUME NEW t \in Transcriber, Perish(t) PROVE TextInv'
  BY <1>8, OthersKeep DEF Perish
<1>9. CASE UNCHANGED transcriptionVars
  BY <1>9, OthersKeep DEF transcriptionVars
<1> QED
  BY <1>1, <1>2, <1>3, <1>4, <1>5, <1>6, <1>7, <1>8, <1>9 DEF TranscriptionNext, Transcribing

(* "Only one of several transcribers gets any one message": no try of a    *)
(* message is made twice, while a message is completed by one request at a *)
(* time.                                                                   *)
THEOREM OneGetsItAlways == ~Overlapping /\ TranscriptionSpec => []OneGetsIt
<1> SUFFICES ASSUME ~Overlapping PROVE TranscriptionSpec => []OneGetsIt
  OBVIOUS
<1>1. TranscriptionInit => TextInv
  BY TextStarts
<1>2. TextInv /\ [TranscriptionNext]_transcriptionVars => TextInv'
  BY TextStep
<1>3. TextInv => OneGetsIt
  BY DEF TextInv
<1> QED BY <1>1, <1>2, <1>3, PTL DEF TranscriptionSpec

-----------------------------------------------------------------------------
(* Recordings and messages on their way into storage.  The length of a     *)
(* file that is closed is known to everyone who has it, and once anyone    *)
(* takes it for stored it stays in storage until it is deleted there.      *)

Stage == {"idle", "read", "asked", "stored", "waiting", "answered", "drop"}

UploadRow == [at : Stage, length : 0..MaxLength]

RequestRow == [file : File, length : 1..MaxLength, at : {"sent", "checked", "seen"}, heard : BOOLEAN]

(* A file that is written no more, and one that is in storage whole, or    *)
(* whose object was deleted there.                                         *)
Closed(f) == file[f].at \in {"closed", "gone"}

InStorage(f) == Closed(f) /\ (object[f] = file[f].length \/ f \in dropped)

(* The uploader is at files that are closed only, and knows their length.  *)
SpoolAgrees ==
  \A f \in File :
    /\ upload[f].at # "idle" => f \notin settled /\ upload[f].length = file[f].length
    /\ upload[f].at # "idle" \/ f \in settled => file[f].at = "closed"
    /\ upload[f].at \in {"asked", "stored"} => file[f].length > 0
    /\ object[f] \in {0, file[f].length}
    /\ object[f] # 0 => Closed(f)

(* A request says the length of its file, and of one that is heard the     *)
(* uploader waits for the answer.                                          *)
RequestsAgree ==
  \A h \in handling :
    /\ Closed(h.file) /\ h.length = file[h.file].length
    /\ h.heard => upload[h.file].at = "waiting"
    /\ \A g \in handling : g.heard /\ h.heard /\ g.file = h.file => g = h

(* What is taken for stored is.                                            *)
Taken(f) ==
  \/ row[f] \in {"ready", "expired"} \/ upload[f].at \in {"answered", "drop"}
  \/ f \in settled \/ file[f].at = "gone"

TakenAreStored ==
  /\ \A f \in File : Taken(f) => InStorage(f)
  /\ \A h \in handling : h.at # "sent" => InStorage(h.file)

(* What is due was ready once.                                             *)
DueWasReady ==
  /\ \A f \in sweep.due : row[f] \in {"ready", "expired", "removed"}
  /\ sweep.at = "deleted" => sweep.file \in sweep.due

(* Of a file whose requests end before the uploader comes back to it one   *)
(* is handled at a time, and nothing is put once the row is ready.         *)
OneRequestEach ==
  \A f \in File \ Slow :
    /\ \A g, h \in handling : g.file = f /\ h.file = f => g = h
    /\ upload[f].at \in {"read", "asked", "stored"} => \A h \in handling : h.file # f
    /\ upload[f].at \in {"asked", "stored"} => row[f] \notin {"ready", "expired"}
    /\ \A h \in handling : h.file = f /\ h.at = "seen" => row[f] \notin {"ready", "expired"}
    /\ row[f] = "expired" => object[f] = 0
    /\ sweep.at = "deleted" /\ sweep.file = f /\ row[f] = "ready" => object[f] = 0

(* What was announced is ready, unless it is gone, and no request is about *)
(* to say it again.                                                        *)
AnnouncedIsReady ==
  \A f \in File \ raced :
    announced[f] # 0 =>
      /\ announced[f] = 1 /\ row[f] \in {"ready", "expired", "removed"}
      /\ \A h \in handling : h.file = f => h.at # "seen"

UploadsInv ==
  /\ UploadsTypeOK /\ SpoolAgrees /\ RequestsAgree /\ TakenAreStored
  /\ DueWasReady /\ OneRequestEach /\ AnnouncedIsReady


LEMMA UploadsStart == UploadsInit => UploadsInv
<1> SUFFICES ASSUME UploadsInit PROVE UploadsInv
  OBVIOUS
<1> USE UploadsAssumption DEF UploadsInit
<1>1. sweep \in [due : SUBSET (File \ Message), at : {"idle", "listed", "deleted"}, file : File]
  BY DEF NoSweep
<1>2. UploadsTypeOK
  BY <1>1 DEF UploadsTypeOK, Resting
<1>3. SpoolAgrees /\ RequestsAgree /\ TakenAreStored /\ AnnouncedIsReady
  BY DEF SpoolAgrees, RequestsAgree, TakenAreStored, Taken, AnnouncedIsReady, Resting
<1>4. DueWasReady /\ OneRequestEach
  BY DEF DueWasReady, OneRequestEach, Resting, NoSweep
<1> QED BY <1>2, <1>3, <1>4 DEF UploadsInv

(* The node writes a file.                                                 *)
LEMMA RecordingKeeps ==
  ASSUME UploadsInv, NEW f \in File, Recording(f)
  PROVE  UploadsInv'
<1> USE DEF UploadsInv
<1>1. CASE Register(f)
  <2> USE <1>1 DEF Register, news, spool, storage, jobs
  <2>1. UploadsTypeOK' /\ SpoolAgrees' /\ RequestsAgree'
    BY DEF UploadsTypeOK, SpoolAgrees, RequestsAgree, Closed
  <2>2. TakenAreStored' /\ DueWasReady'
    BY DEF UploadsTypeOK, TakenAreStored, Taken, DueWasReady, InStorage, Closed
  <2>3. OneRequestEach' /\ AnnouncedIsReady'
    BY DEF UploadsTypeOK, OneRequestEach, AnnouncedIsReady
  <2> QED BY <2>1, <2>2, <2>3
<1>2. ASSUME NEW at \in {"open", "closed"}, NEW length \in 0..MaxLength,
             file[f].at \in {"none", "open"}, Recorded(f, at, length)
      PROVE  UploadsInv'
  <2> USE <1>2 DEF Recorded, rows, news, storage, jobs
  <2>1. PICK n \in [at : {"open", "closed"}, length : 0..MaxLength] : n = [at |-> at, length |-> length]
    OBVIOUS
  <2>2. file' = [file EXCEPT ![f] = n] /\ upload[f].at = "idle" /\ f \notin settled /\ object[f] = 0
    BY <2>1 DEF SpoolAgrees, Closed, UploadsTypeOK
  <2>3. \A h \in handling : h.file # f
    BY DEF RequestsAgree, Closed
  <2>4. UploadsTypeOK' /\ SpoolAgrees'
    BY <2>2 DEF UploadsTypeOK, SpoolAgrees, Closed
  <2>5. RequestsAgree'
    BY <2>2, <2>3 DEF UploadsTypeOK, RequestsAgree, Closed
  <2>6. row[f] \notin {"ready", "expired"}
    BY DEF TakenAreStored, Taken, InStorage, Closed
  <2>7. TakenAreStored' /\ DueWasReady'
    BY <2>2, <2>3, <2>6 DEF UploadsTypeOK, TakenAreStored, Taken, DueWasReady, InStorage, Closed
  <2>8. OneRequestEach' /\ AnnouncedIsReady'
    BY <2>2 DEF UploadsTypeOK, OneRequestEach, AnnouncedIsReady
  <2> QED BY <2>4, <2>5, <2>7, <2>8
<1>3. CASE StartRecord(f)
  BY <1>2, <1>3, UploadsAssumption DEF StartRecord
<1>4. CASE WriteAudio(f)
  BY <1>2, <1>4, UploadsAssumption DEF WriteAudio, UploadsTypeOK
<1>5. CASE StopRecord(f)
  BY <1>2, <1>5 DEF StopRecord, UploadsTypeOK
<1> QED BY <1>1, <1>3, <1>4, <1>5 DEF Recording

(* The uploader goes on with a file, or leaves it; what it puts is what it *)
(* read.                                                                   *)
LEMMA UploaderKeeps ==
  ASSUME UploadsInv, NEW f \in File, NEW u \in UploadRow,
         upload' = [upload EXCEPT ![f] = u], upload[f].at \notin {"idle", "waiting"},
         u.at # "idle" => u.length = upload[f].length, u.at # "waiting", u.at # "read",
         u.at = "asked" => upload[f].length > 0 /\ row[f] \notin {"ready", "expired"}
                             /\ upload[f].at = "read",
         u.at = "stored" => upload[f].at = "asked",
         u.at \in {"answered", "drop"} => InStorage(f),
         \/ object' = object
         \/ upload[f].at = "asked" /\ object' = [object EXCEPT ![f] = upload[f].length],
         UNCHANGED <<rows, file, settled, dropped, handling, jobs>>, upsets' \in 0..MaxUpset
  PROVE  UploadsInv'
<1> USE DEF UploadsInv, UploadsTypeOK, UploadRow, Stage, rows, news, jobs
<1>1. upload' \in [File -> UploadRow] /\ object' \in [File -> 0..MaxLength]
  OBVIOUS
<1>2. \A g \in File \ {f} : upload'[g] = upload[g] /\ object'[g] = object[g]
  OBVIOUS
<1>3. upload'[f] = u /\ file[f].at = "closed" /\ f \notin settled /\ upload[f].length = file[f].length
  BY DEF SpoolAgrees
<1>4. object'[f] \in {object[f], file[f].length} /\ (object'[f] # object[f] => upload[f].at = "asked")
  BY <1>3
<1> HIDE DEF UploadRow, Stage
<1>5. UploadsTypeOK'
  BY <1>1, <1>2, <1>3 DEF UploadRow, Stage
<1>6. SpoolAgrees'
  BY <1>2, <1>3, <1>4 DEF SpoolAgrees, Closed
<1>7. RequestsAgree'
  BY <1>2, <1>3 DEF RequestsAgree, Closed
<1>8. TakenAreStored'
  BY <1>2, <1>3, <1>4 DEF TakenAreStored, Taken, InStorage, Closed
<1>9. OneRequestEach'
  BY <1>2, <1>3, <1>4 DEF OneRequestEach
<1>10. DueWasReady' /\ AnnouncedIsReady'
  BY DEF DueWasReady, AnnouncedIsReady
<1> QED BY <1>5, <1>6, <1>7, <1>8, <1>9, <1>10

(* The service ends a request, and the uploader may hear of it.            *)
LEMMA DoneKeeps ==
  ASSUME UploadsInv, NEW h \in handling, NEW at \in {"idle", "answered", "drop"},
         Done(h), Answer(h, at), at # "idle" => InStorage(h.file),
         UNCHANGED <<rows, file, settled, storage, jobs>>, upsets' \in 0..MaxUpset
  PROVE  UploadsInv'
<1> USE DEF UploadsInv, UploadsTypeOK, rows, news, storage, jobs
<1> DEFINE f == h.file
<1>1. f \in File /\ h \notin handling' /\ handling' \subseteq handling
  BY DEF Done
<1>0. upload[f] \in UploadRow
  BY <1>1 DEF UploadRow, Stage
<1>2. PICK n \in UploadRow :
        /\ n = IF at = "idle" THEN Resting ELSE [upload[f] EXCEPT !.at = at]
        /\ n.at = at /\ (at # "idle" => n.length = upload[f].length)
  <2>1. CASE at = "idle"
    <3>1. Resting \in UploadRow /\ Resting.at = "idle"
      BY UploadsAssumption DEF UploadRow, Stage, Resting
    <3> QED BY <2>1, <3>1
  <2>2. CASE at # "idle"
    <3>1. /\ [upload[f] EXCEPT !.at = at] \in UploadRow /\ [upload[f] EXCEPT !.at = at].at = at
          /\ [upload[f] EXCEPT !.at = at].length = upload[f].length
      BY <1>0 DEF UploadRow, Stage
    <3> QED BY <2>2, <3>1
  <2> QED BY <2>1, <2>2
<1>3. /\ upload' \in [File -> UploadRow]
      /\ \A g \in File \ {f} : upload'[g] = upload[g]
      /\ upload'[f] = upload[f] \/ (upload[f].at = "waiting" /\ h.heard /\ upload'[f] = n)
  <2>1. CASE ~h.heard
    BY <2>1, <1>1 DEF Answer, UploadRow, Stage
  <2>2. CASE h.heard
    <3>1. upload' = [upload EXCEPT ![f] = n]
      BY <2>2, <1>1, <1>2 DEF Answer
    <3> QED BY <3>1, <2>2, <1>1 DEF RequestsAgree, UploadRow, Stage
  <2> QED BY <2>1, <2>2
<1>4. h.heard => upload[f].at = "waiting" /\ \A g \in handling' : g.heard => g.file # f
  BY <1>1 DEF RequestsAgree
<1> HIDE DEF f
<1>5. UploadsTypeOK'
  BY ZenonT(60), <1>1, <1>2, <1>3 DEF UploadRow, Stage, SpoolAgrees
<1>6. SpoolAgrees'
  <2> SUFFICES ASSUME NEW g \in File
               PROVE  /\ upload'[g].at # "idle" => g \notin settled /\ upload'[g].length = file[g].length
                      /\ upload'[g].at # "idle" \/ g \in settled => file[g].at = "closed"
                      /\ upload'[g].at \in {"asked", "stored"} => file[g].length > 0
    BY DEF SpoolAgrees, Closed
  <2> QED BY SMTT(40), <1>2, <1>3 DEF SpoolAgrees
<1>7. RequestsAgree'
  BY <1>1, <1>2, <1>3, <1>4 DEF RequestsAgree, Closed
<1>8. TakenAreStored'
  BY <1>1, <1>2, <1>3 DEF TakenAreStored, Taken, InStorage, Closed, f
<1>9. \A g \in File : upload'[g].at \in {"read", "asked", "stored"} => upload[g].at = upload'[g].at
  BY <1>2, <1>3
<1>10. OneRequestEach'
  BY <1>1, <1>9 DEF OneRequestEach
<1>11. DueWasReady' /\ AnnouncedIsReady'
  BY <1>1 DEF DueWasReady, AnnouncedIsReady
<1> QED BY <1>5, <1>6, <1>7, <1>8, <1>10, <1>11

(* The service goes on with a request.                                     *)
LEMMA ProgressKeeps ==
  ASSUME UploadsInv, NEW h \in handling, NEW at \in {"checked", "seen"},
         Progress(h, at), InStorage(h.file),
         at = "seen" => row[h.file] \in {"pending", "failed"},
         UNCHANGED <<rows, spool, storage, jobs, upsets>>
  PROVE  UploadsInv'
<1> USE DEF UploadsInv, UploadsTypeOK, rows, news, spool, storage, jobs
<1>0. h \in RequestRow
  BY DEF RequestRow
<1>1. PICK n \in RequestRow : n = [h EXCEPT !.at = at]
  BY <1>0 DEF RequestRow
<1>2. n.file = h.file /\ n.length = h.length /\ n.heard = h.heard /\ n.at = at
  BY <1>1
<1>3. /\ handling' \subseteq RequestRow /\ \A g \in handling' : (g \in handling /\ g # h) \/ g = n
  BY <1>1 DEF Progress, RequestRow
<1>4. UploadsTypeOK' /\ SpoolAgrees' /\ DueWasReady'
  BY <1>3 DEF RequestRow, SpoolAgrees, DueWasReady, Closed
<1>5. RequestsAgree'
  BY <1>2, <1>3 DEF RequestsAgree, Closed
<1>6. TakenAreStored'
  BY <1>2, <1>3 DEF TakenAreStored, Taken, InStorage, Closed
<1>7. OneRequestEach'
  BY SMTT(40), <1>2, <1>3 DEF OneRequestEach
<1>8. AnnouncedIsReady'
  BY <1>2, <1>3 DEF AnnouncedIsReady
<1> QED BY <1>4, <1>5, <1>6, <1>7, <1>8

(* The uploader gives up waiting for files, or forgets all.                *)
LEMMA UnheardKeeps ==
  ASSUME UploadsInv, NEW files \in SUBSET File, handling' = Unheard(files),
         upload' \in [File -> UploadRow], settled' \subseteq settled,
         \A f \in files : upload'[f] = Resting,
         \A f \in File \ files : upload'[f] = upload[f],
         UNCHANGED <<rows, file, storage, jobs>>, upsets' \in 0..MaxUpset
  PROVE  UploadsInv'
<1> USE DEF UploadsInv, UploadsTypeOK, rows, news, storage, jobs
<1>1. ASSUME NEW h \in handling
      PROVE  [h EXCEPT !.heard = @ /\ h.file \notin files] \in RequestRow
  <2>1. h \in RequestRow
    BY DEF RequestRow
  <2> QED BY <2>1 DEF RequestRow
<1>2. ASSUME NEW g \in handling'
      PROVE  g \in RequestRow /\ \E h \in handling :
               /\ g = [h EXCEPT !.heard = @ /\ h.file \notin files] /\ g.file = h.file /\ g.length = h.length /\ g.at = h.at
               /\ g.heard => h.heard /\ h.file \notin files
  <2>1. PICK h \in handling : g = [h EXCEPT !.heard = @ /\ h.file \notin files]
    BY DEF Unheard
  <2>2. h \in RequestRow
    BY DEF RequestRow
  <2>3. g.heard <=> h.heard /\ h.file \notin files
    BY <2>1, <2>2, Zenon DEF RequestRow
  <2> QED BY <1>1, <2>1, <2>2, <2>3 DEF RequestRow
<1>3. /\ \A g \in handling' : \E h \in handling :
           /\ g.file = h.file /\ g.length = h.length /\ g.at = h.at
           /\ g.heard => h.heard /\ h.file \notin files
      /\ handling' \subseteq RequestRow
  BY <1>2
<1>4. \A f \in File \ files : upload'[f] = upload[f]
  OBVIOUS
<1>5. \A f \in files : upload'[f].at = "idle"
  BY DEF Resting
<1>6. UploadsTypeOK'
  BY <1>3, <1>4, <1>5 DEF RequestRow, UploadRow, Stage
<1>7. SpoolAgrees'
  BY <1>4, <1>5 DEF SpoolAgrees, Closed
<1>8. RequestsAgree'
  <2>1. ASSUME NEW g \in handling' PROVE Closed(g.file) /\ g.length = file[g.file].length
                                         /\ (g.heard => upload'[g.file].at = "waiting")
    BY <1>3, <1>4 DEF RequestsAgree
  <2>2. ASSUME NEW g1 \in handling', NEW g2 \in handling', g1.heard, g2.heard, g1.file = g2.file
        PROVE  g1 = g2
    <3>1. PICK h1 \in handling : /\ g1 = [h1 EXCEPT !.heard = @ /\ h1.file \notin files]
                                 /\ g1.file = h1.file /\ h1.heard
      BY <1>2, <2>2
    <3>2. PICK h2 \in handling : /\ g2 = [h2 EXCEPT !.heard = @ /\ h2.file \notin files]
                                 /\ g2.file = h2.file /\ h2.heard
      BY <1>2, <2>2
    <3>3. h1 = h2
      BY <3>1, <3>2, <2>2 DEF RequestsAgree
    <3> QED BY <3>1, <3>2, <3>3
  <2> QED BY <2>1, <2>2 DEF RequestsAgree, Closed
<1>9. TakenAreStored'
  BY <1>3, <1>4, <1>5 DEF TakenAreStored, Taken, InStorage, Closed
<1>10. OneRequestEach'
  <2>1. ASSUME NEW f \in File \ Slow, NEW g1 \in handling', NEW g2 \in handling', g1.file = f, g2.file = f
        PROVE  g1 = g2
    <3>1. PICK h1 \in handling : g1 = [h1 EXCEPT !.heard = @ /\ h1.file \notin files] /\ g1.file = h1.file
      BY <1>2
    <3>2. PICK h2 \in handling : g2 = [h2 EXCEPT !.heard = @ /\ h2.file \notin files] /\ g2.file = h2.file
      BY <1>2
    <3>3. h1 = h2
      BY <3>1, <3>2, <2>1 DEF OneRequestEach
    <3> QED BY <3>1, <3>2, <3>3
  <2>2. ASSUME NEW f \in File \ Slow
        PROVE  /\ upload'[f].at \in {"read", "asked", "stored"} => \A h \in handling' : h.file # f
               /\ upload'[f].at \in {"asked", "stored"} => row[f] \notin {"ready", "expired"}
               /\ \A h \in handling' : h.file = f /\ h.at = "seen" => row[f] \notin {"ready", "expired"}
    BY <1>3, <1>4, <1>5 DEF OneRequestEach
  <2> QED BY <2>1, <2>2 DEF OneRequestEach
<1>11. DueWasReady' /\ AnnouncedIsReady'
  BY <1>3 DEF DueWasReady, AnnouncedIsReady
<1> QED BY <1>6, <1>7, <1>8, <1>9, <1>10, <1>11

(* The sweeps, and people who delete: rows and objects change, and what is *)
(* deleted is dropped.                                                     *)
LEMMA RowsKeep ==
  ASSUME UploadsInv, UNCHANGED <<spool, handling>>, UploadsTypeOK',
         dropped \subseteq dropped',
         \A f \in File : object'[f] = object[f] \/ (object'[f] = 0 /\ f \in dropped'),
         \A f \in File : row'[f] = "ready" => row[f] = "ready",
         \A f \in File : row'[f] = "expired" =>
                           row[f] = "expired" \/ (row[f] = "ready" /\ sweep.at = "deleted" /\ sweep.file = f),
         \A f \in File : row[f] \in {"ready", "expired", "removed"} => row'[f] \in {"ready", "expired", "removed"},
         \A f \in sweep'.due : f \in sweep.due \/ row[f] = "ready",
         sweep'.at = "deleted" => sweep'.file \in sweep'.due
                                    /\ (sweep' = sweep \/ object'[sweep'.file] = 0),
         UNCHANGED news
  PROVE  UploadsInv'
<1> USE DEF UploadsInv, spool, news
<1>1. SpoolAgrees'
  BY DEF SpoolAgrees, Closed
<1>2. RequestsAgree'
  BY DEF RequestsAgree, Closed
<1>3. TakenAreStored'
  BY DEF UploadsTypeOK, TakenAreStored, Taken, InStorage, Closed
<1>4. DueWasReady'
  BY DEF UploadsTypeOK, DueWasReady
<1>5. OneRequestEach'
  BY DEF UploadsTypeOK, OneRequestEach
<1>6. AnnouncedIsReady'
  BY DEF UploadsTypeOK, AnnouncedIsReady
<1> QED BY <1>1, <1>2, <1>3, <1>4, <1>5, <1>6

LEMMA SweepingKeeps ==
  ASSUME UploadsInv, NEW f \in File,
         \/ FailStalePending(f) \/ Deleting(f) \/ ListDue \/ DeleteAudio(f) \/ MarkExpired \/ FailSweep
  PROVE  UploadsInv'
<1> DEFINE SweepRow == [due : SUBSET (File \ Message), at : {"idle", "listed", "deleted"}, file : File]
<1>0. NoSweep \in SweepRow /\ NoSweep.due = {} /\ NoSweep.at = "idle"
  BY UploadsAssumption DEF NoSweep
<1> USE DEF UploadsInv, UploadsTypeOK, rows, news, spool, storage, jobs, DueWasReady
<1>1. CASE FailStalePending(f)
  BY <1>1, RowsKeep DEF FailStalePending, Failed
<1>2. CASE LoadRow(f)
  <2>1. deleting' \in [File -> {"idle", "loaded", "emptied"}]
    BY <1>2 DEF LoadRow
  <2> QED BY <1>2, <2>1, RowsKeep DEF LoadRow
<1>3. CASE EmptyRow(f)
  BY <1>3, RowsKeep, UploadsAssumption DEF EmptyRow
<1>4. CASE RemoveRow(f)
  BY <1>4, RowsKeep DEF RemoveRow
<1>5. CASE ListDue
  <2>1. PICK due \in SUBSET {g \in File \ Message : row[g] = "ready"} :
          due # {} /\ sweep' = [sweep EXCEPT !.due = due, !.at = "listed"]
    BY <1>5 DEF ListDue
  <2>2. sweep' \in SweepRow /\ sweep'.due = due /\ sweep'.at = "listed"
    BY <2>1
  <2> QED BY <1>5, <2>1, <2>2, RowsKeep DEF ListDue
<1>6. CASE DeleteAudio(f)
  <2>1. sweep' \in SweepRow /\ sweep'.due = sweep.due /\ sweep'.file = f
    BY <1>6 DEF DeleteAudio
  <2>2. object' \in [File -> 0..MaxLength] /\ object'[f] = 0 /\ dropped' \subseteq File
    BY <1>6, UploadsAssumption DEF DeleteAudio
  <2> QED BY <1>6, <2>1, <2>2, RowsKeep DEF DeleteAudio
<1>7. CASE MarkExpired
  <2>1. sweep' \in SweepRow /\ sweep'.due \subseteq sweep.due /\ sweep'.at # "deleted"
    BY <1>7, <1>0 DEF MarkExpired, NextDue
  <2> QED BY <1>7, <2>1, RowsKeep DEF MarkExpired
<1>8. CASE FailSweep
  <2>1. sweep' \in SweepRow /\ sweep'.due = {} /\ sweep'.at = "idle"
    BY <1>8, <1>0 DEF FailSweep
  <2>2. upsets' \in 0..MaxUpset
    BY <1>8, UploadsAssumption DEF FailSweep, Upset
  <2> QED BY <1>8, <2>1, <2>2, RowsKeep DEF FailSweep
<1> HIDE DEF UploadsInv, UploadsTypeOK, DueWasReady
<1>9. Deleting(f) => LoadRow(f) \/ EmptyRow(f) \/ RemoveRow(f)
  BY DEF Deleting
<1> QED BY <1>1, <1>2, <1>3, <1>4, <1>5, <1>6, <1>7, <1>8, <1>9

LEMMA GoesTo ==
  ASSUME UploadsTypeOK, NEW f \in File, NEW at \in Stage, Goes(f, at)
  PROVE  \E u \in UploadRow :
           upload' = [upload EXCEPT ![f] = u] /\ u.at = at /\ u.length = upload[f].length
<1> DEFINE u == [upload[f] EXCEPT !.at = at]
<1>1. upload[f] \in UploadRow
  BY DEF UploadsTypeOK, UploadRow, Stage
<1>2. u \in UploadRow /\ u.at = at /\ u.length = upload[f].length
  BY <1>1 DEF UploadRow
<1> QED BY <1>2 DEF Goes

LEMMA RestsAt ==
  ASSUME NEW f \in File, Rests(f)
  PROVE  \E u \in UploadRow : upload' = [upload EXCEPT ![f] = u] /\ u.at = "idle"
<1>1. Resting \in UploadRow /\ Resting.at = "idle"
  BY UploadsAssumption DEF Resting, UploadRow, Stage
<1> QED BY <1>1 DEF Rests

(* The uploader goes on: one step of it at a time.                         *)
LEMMA UploadingKeeps ==
  ASSUME ~Stalls, UploadsInv, NEW f \in File, Uploading(f)
  PROVE  UploadsInv'
<1> USE DEF UploadsInv, UploadsTypeOK, rows, news, storage, jobs
<1>0. upload[f] \in UploadRow /\ file[f].length \in 0..MaxLength /\ object[f] \in 0..MaxLength
  BY DEF UploadRow, Stage
<1>1. CASE Choose(f)
  <2> USE <1>1 DEF Choose
  <2>1. PICK n \in UploadRow : n = [at |-> "read", length |-> file[f].length]
    BY <1>0 DEF UploadRow, Stage
  <2>2. upload' = [upload EXCEPT ![f] = n] /\ n.at = "read" /\ n.length = file[f].length
          /\ file[f].at = "closed"
    BY <2>1
  <2>3. UploadsTypeOK' /\ SpoolAgrees'
    BY <2>2 DEF UploadRow, Stage, SpoolAgrees, Closed
  <2>4. RequestsAgree' /\ TakenAreStored'
    BY <2>2 DEF RequestsAgree, TakenAreStored, Taken, InStorage, Closed
  <2>5. DueWasReady' /\ OneRequestEach' /\ AnnouncedIsReady'
    BY <2>2 DEF DueWasReady, OneRequestEach, AnnouncedIsReady
  <2> QED BY <2>3, <2>4, <2>5
<1>2. CASE TellEmpty(f)
  <2> USE <1>2 DEF TellEmpty
  <2>2. PICK n \in UploadRow : upload' = [upload EXCEPT ![f] = n] /\ n.at = "drop" /\ n.length = 0
    BY GoesTo DEF Stage
  <2> USE DEF Failed
  <2>3. file[f].at = "closed" /\ file[f].length = 0 /\ object[f] = 0
    BY DEF SpoolAgrees
  <2>4. UploadsTypeOK' /\ SpoolAgrees'
    BY <2>2, <2>3 DEF UploadRow, Stage, SpoolAgrees, Closed
  <2>5. RequestsAgree' /\ TakenAreStored'
    BY <2>2, <2>3 DEF RequestsAgree, TakenAreStored, Taken, InStorage, Closed
  <2>6. DueWasReady' /\ OneRequestEach' /\ AnnouncedIsReady'
    BY <2>2 DEF DueWasReady, OneRequestEach, AnnouncedIsReady
  <2> QED BY <2>4, <2>5, <2>6
<1>3. CASE Ask(f)
  <2> USE <1>3 DEF Ask
  <2>1. CASE row[f] \in {"pending", "failed"}
    <3>1. Goes(f, "asked")
      BY <2>1
    <3>2. PICK u \in UploadRow : upload' = [upload EXCEPT ![f] = u] /\ u.at = "asked" /\ u.length = upload[f].length
      BY <3>1, GoesTo DEF Stage
    <3> QED BY <2>1, <3>2, UploaderKeeps
  <2>2. CASE row[f] \in {"ready", "expired"}
    <3>1. Goes(f, "drop") /\ InStorage(f)
      BY <2>2 DEF TakenAreStored, Taken
    <3>2. PICK u \in UploadRow : upload' = [upload EXCEPT ![f] = u] /\ u.at = "drop" /\ u.length = upload[f].length
      BY <3>1, GoesTo DEF Stage
    <3> QED BY <3>1, <3>2, UploaderKeeps
  <2>3. CASE row[f] \notin {"pending", "failed", "ready", "expired"}
    <3>1. PICK u \in UploadRow : upload' = [upload EXCEPT ![f] = u] /\ u.at = "idle"
      BY <2>3, RestsAt
    <3> QED BY <3>1, UploaderKeeps
  <2> QED BY <2>1, <2>2, <2>3
<1>4. CASE Put(f)
  <2> USE <1>4 DEF Put
  <2>1. CASE file[f].length = upload[f].length
    <3>1. PICK u \in UploadRow : upload' = [upload EXCEPT ![f] = u] /\ u.at = "stored" /\ u.length = upload[f].length
      BY <2>1, GoesTo DEF Stage
    <3> QED BY <2>1, <3>1, UploaderKeeps
  <2>2. CASE file[f].length # upload[f].length
    <3>1. PICK u \in UploadRow : upload' = [upload EXCEPT ![f] = u] /\ u.at = "idle"
      BY <2>2, RestsAt
    <3> QED BY <2>2, <3>1, UploaderKeeps
  <2> QED BY <2>1, <2>2
<1>5. CASE SendComplete(f)
  <2> USE <1>5 DEF SendComplete
  <2>1. PICK u \in UploadRow : upload' = [upload EXCEPT ![f] = u] /\ u.at = "waiting" /\ u.length = upload[f].length
    BY GoesTo DEF Stage
  <2>2. upload[f].length = file[f].length /\ file[f].at = "closed" /\ file[f].length \in 1..MaxLength
          /\ f \notin settled
    BY <1>0, UploadsAssumption DEF SpoolAgrees
  <2>3. PICK n \in RequestRow : n = [file |-> f, length |-> upload[f].length, at |-> "sent", heard |-> TRUE]
    BY <2>2 DEF RequestRow
  <2>4. /\ handling' = handling \cup {n}
        /\ n.file = f /\ n.length = file[f].length /\ n.at = "sent" /\ n.heard
    BY <2>2, <2>3
  <2>5. UploadsTypeOK'
    BY <2>1, <2>2, <2>4 DEF UploadRow, Stage, RequestRow
  <2>6. SpoolAgrees' /\ DueWasReady'
    BY <2>1, <2>2 DEF SpoolAgrees, DueWasReady, Closed
  <2>7. RequestsAgree'
    BY <2>1, <2>2, <2>4 DEF RequestsAgree, Closed
  <2>8. TakenAreStored'
    BY <2>1, <2>2, <2>4 DEF TakenAreStored, Taken, InStorage, Closed
  <2>9. OneRequestEach'
    BY <2>1, <2>4 DEF OneRequestEach
  <2>10. AnnouncedIsReady'
    BY <2>4 DEF AnnouncedIsReady
  <2> QED BY <2>5, <2>6, <2>7, <2>8, <2>9, <2>10
<1>6. CASE Compare(f)
  <2> USE <1>6 DEF Compare
  <2>1. InStorage(f)
    BY DEF TakenAreStored, Taken
  <2>2. CASE file[f].length = upload[f].length
    <3>1. PICK u \in UploadRow : upload' = [upload EXCEPT ![f] = u] /\ u.at = "drop" /\ u.length = upload[f].length
      BY <2>2, GoesTo DEF Stage
    <3> QED BY <2>1, <3>1, UploaderKeeps
  <2>3. CASE file[f].length # upload[f].length
    <3>1. PICK u \in UploadRow : upload' = [upload EXCEPT ![f] = u] /\ u.at = "idle"
      BY <2>3, RestsAt
    <3> QED BY <3>1, UploaderKeeps
  <2> QED BY <2>2, <2>3
<1>7. CASE Unlink(f)
  <2> USE <1>7 DEF Unlink, Rests, Closed
  <2>1. file' = [file EXCEPT ![f].at = "gone"] /\ InStorage(f) /\ file[f].at = "closed"
    BY DEF SpoolAgrees, TakenAreStored, Taken
  <2>2. PICK n \in UploadRow : n = Resting /\ n.at = "idle"
    BY UploadsAssumption DEF UploadRow, Stage, Resting
  <2>3. /\ upload' = [upload EXCEPT ![f] = n]
        /\ \A g \in File : file'[g].length = file[g].length
        /\ \A g \in File \ {f} : file'[g] = file[g]
        /\ file'[f].at = "gone"
    BY <2>2
  <2>4. UploadsTypeOK'
    BY <2>2, <2>3, <2>1 DEF UploadRow, Stage, SpoolAgrees
  <2>5. SpoolAgrees'
    BY <2>2, <2>3, <2>1 DEF SpoolAgrees
  <2>6. RequestsAgree'
    BY <2>2, <2>3, <2>1 DEF RequestsAgree
  <2>7. TakenAreStored'
    BY <2>2, <2>3, <2>1 DEF TakenAreStored, Taken, InStorage
  <2>8. DueWasReady' /\ OneRequestEach' /\ AnnouncedIsReady'
    BY <2>2, <2>3 DEF DueWasReady, OneRequestEach, AnnouncedIsReady
  <2> QED BY <2>4, <2>5, <2>6, <2>7, <2>8
<1> HIDE DEF UploadsInv, UploadsTypeOK
<1> QED BY <1>1, <1>2, <1>3, <1>4, <1>5, <1>6, <1>7 DEF Uploading

LEMMA Upsets == ASSUME UploadsTypeOK, Upset PROVE upsets' \in 0..MaxUpset
BY UploadsAssumption DEF UploadsTypeOK, Upset

(* The uploader fails, gives up or begins anew.                            *)
LEMMA FailingKeeps ==
  ASSUME UploadsInv,
         \/ RestartUploader \/ \E f \in File : FailUpload(f) \/ GiveUp(f) \/ CannotUnlink(f)
  PROVE  UploadsInv'
<1>0. UploadsTypeOK
  BY DEF UploadsInv
<1>1. CASE RestartUploader
  <2>1. Resting \in UploadRow
    BY UploadsAssumption DEF Resting, UploadRow, Stage
  <2>2. upload' \in [File -> UploadRow] /\ \A f \in File : upload'[f] = Resting
    BY <1>1, <2>1 DEF RestartUploader
  <2>3. upsets' \in 0..MaxUpset
    BY <1>0, <1>1, Upsets DEF RestartUploader
  <2> QED BY <1>1, <2>2, <2>3, UnheardKeeps DEF RestartUploader
<1>2. ASSUME NEW f \in File, FailUpload(f) PROVE UploadsInv'
  <2>1. PICK u \in UploadRow : upload' = [upload EXCEPT ![f] = u] /\ u.at = "idle"
    BY <1>2, RestsAt DEF FailUpload
  <2>2. upsets' \in 0..MaxUpset
    BY <1>0, <1>2, Upsets DEF FailUpload
  <2>3. \/ object' = object
        \/ upload[f].at = "asked" /\ object' = [object EXCEPT ![f] = upload[f].length]
    BY <1>2 DEF FailUpload
  <2> QED BY <1>2, <2>1, <2>2, <2>3, UploaderKeeps DEF FailUpload
<1>3. ASSUME NEW f \in File, GiveUp(f) PROVE UploadsInv'
  <2>1. upload' = [upload EXCEPT ![f] = Resting] /\ Resting \in UploadRow
    BY <1>3, UploadsAssumption DEF GiveUp, Rests, Resting, UploadRow, Stage
  <2>2. upload \in [File -> UploadRow]
    BY <1>0 DEF UploadsTypeOK, UploadRow, Stage
  <2>3. upsets' \in 0..MaxUpset
    BY <1>0, <1>3, Upsets DEF GiveUp
  <2> DEFINE files == {f}
  <2>4. /\ files \in SUBSET File /\ handling' = Unheard(files) /\ settled' = settled
        /\ upload' \in [File -> UploadRow]
        /\ \A g \in files : upload'[g] = Resting
        /\ \A g \in File \ files : upload'[g] = upload[g]
    BY <1>3, <2>1, <2>2 DEF GiveUp
  <2> HIDE DEF files
  <2> QED BY <1>3, <2>3, <2>4, UnheardKeeps DEF GiveUp
<1>4. ASSUME NEW f \in File, CannotUnlink(f) PROVE UploadsInv'
  <2> USE DEF UploadsInv, UploadsTypeOK, rows, news, storage, jobs
  <2>1. PICK u \in UploadRow : upload' = [upload EXCEPT ![f] = u] /\ u.at = "idle"
    BY <1>4, RestsAt DEF CannotUnlink
  <2>2. upsets' \in 0..MaxUpset
    BY <1>0, <1>4, Upsets DEF CannotUnlink
  <2>3. file[f].at = "closed" /\ InStorage(f) /\ settled' = settled \cup {f}
    BY <1>4 DEF CannotUnlink, SpoolAgrees, TakenAreStored, Taken
  <2> USE <1>4 DEF CannotUnlink
  <2>4. UploadsTypeOK' /\ SpoolAgrees'
    BY <2>1, <2>2, <2>3 DEF UploadRow, Stage, SpoolAgrees, Closed
  <2>5. RequestsAgree' /\ TakenAreStored'
    BY <2>1, <2>3 DEF RequestsAgree, TakenAreStored, Taken, InStorage, Closed
  <2>6. DueWasReady' /\ OneRequestEach' /\ AnnouncedIsReady'
    BY <2>1 DEF DueWasReady, OneRequestEach, AnnouncedIsReady
  <2> QED BY <2>4, <2>5, <2>6
<1> QED BY <1>1, <1>2, <1>3, <1>4

(* The service handles a request.                                          *)
LEMMA CompletingKeeps ==
  ASSUME UploadsInv, NEW h \in handling, Completing(h) \/ RollBack(h)
  PROVE  UploadsInv'
<1>0. UploadsTypeOK /\ h.file \in File /\ h.length = file[h.file].length /\ Closed(h.file)
  BY DEF UploadsInv, UploadsTypeOK, RequestsAgree
<1>1. upsets \in 0..MaxUpset /\ \A f \in File : Taken(f) => InStorage(f)
  BY DEF UploadsInv, UploadsTypeOK, TakenAreStored
<1>2. h.at # "sent" => InStorage(h.file)
  BY DEF UploadsInv, TakenAreStored
<1>3. CASE Check(h)
  <2>1. ASSUME Done(h) /\ Answer(h, "drop"), row[h.file] = "ready" PROVE UploadsInv'
    BY <1>0, <1>1, <1>3, <2>1, DoneKeeps DEF Check, Taken
  <2>2. ASSUME Progress(h, "checked"), UNCHANGED upload, object[h.file] = h.length PROVE UploadsInv'
    BY <1>0, <1>3, <2>2, ProgressKeeps DEF Check, InStorage, spool
  <2>3. ASSUME Done(h) /\ Answer(h, "idle") PROVE UploadsInv'
    BY <1>1, <1>3, <2>3, DoneKeeps DEF Check
  <2> QED BY <1>3, <2>1, <2>2, <2>3 DEF Check
<1>4. CASE ReadRow(h)
  <2>1. ASSUME Progress(h, "seen"), UNCHANGED upload, row[h.file] \in {"pending", "failed"} PROVE UploadsInv'
    BY <1>2, <1>4, <2>1, ProgressKeeps DEF ReadRow, spool
  <2>2. ASSUME NEW at \in {"drop", "answered"}, Done(h) /\ Answer(h, at) PROVE UploadsInv'
    BY <1>1, <1>2, <1>4, <2>2, DoneKeeps DEF ReadRow
  <2>3. ASSUME Done(h) /\ Answer(h, "idle") PROVE UploadsInv'
    BY <1>1, <1>4, <2>3, DoneKeeps DEF ReadRow
  <2> QED BY <1>4, <2>1, <2>2, <2>3 DEF ReadRow
<1>5. CASE MarkReady(h)
  <2> DEFINE f == h.file
  <2> USE DEF UploadsInv, UploadsTypeOK, storage, jobs
  <2>1. /\ f \in File /\ h \notin handling' /\ handling' \subseteq handling /\ h.length \in 0..MaxLength
        /\ InStorage(f) /\ h.at = "seen"
    BY <1>0, <1>2, <1>5 DEF MarkReady, Done
  <2>2. /\ upload' \in [File -> UploadRow]
        /\ \A g \in File \ {f} : upload'[g] = upload[g]
        /\ \/ ~h.heard /\ upload'[f] = upload[f]
           \/ upload[f].at = "waiting" /\ h.heard /\ upload'[f].at = "answered"
                /\ upload'[f].length = upload[f].length
    <3>1. CASE ~h.heard
      BY <3>1, <1>5 DEF MarkReady, Answer, UploadRow, Stage
    <3>2. CASE h.heard
      <4>1. Goes(f, "answered")
        BY <3>2, <1>5 DEF MarkReady, Answer, Goes
      <4>2. PICK u \in UploadRow : upload' = [upload EXCEPT ![f] = u] /\ u.at = "answered" /\ u.length = upload[f].length
        BY ZenonT(60), <4>1, <2>1, GoesTo DEF Stage
      <4> QED BY <3>2, <4>2, <2>1 DEF RequestsAgree, UploadRow, Stage
    <3> QED BY <3>1, <3>2
  <2>3. /\ row' \in [File -> {"none", "pending", "ready", "failed", "expired", "removed"}]
        /\ size' \in [File -> 0..MaxLength]
        /\ \A g \in File \ {f} : row'[g] = row[g] /\ size'[g] = size[g]
        /\ row'[f] \in {"ready", "removed"} /\ (row[f] = "removed" => row'[f] = "removed")
    <3>1. CASE row[f] = "removed"
      BY <1>5, <2>1, <3>1 DEF MarkReady
    <3>2. CASE row[f] # "removed"
      <4>1. row' = [row EXCEPT ![f] = "ready"] /\ size' = [size EXCEPT ![f] = h.length]
        BY <1>5, <3>2 DEF MarkReady
      <4> QED BY <2>1, <3>2, <4>1
    <3> QED BY <3>1, <3>2
  <2>4. /\ announced' = [announced EXCEPT ![f] = @ + 1] /\ raced \subseteq raced' /\ raced' \subseteq File
        /\ f \notin raced' => \A g \in handling \ {h} : g.file = f => g.at # "seen"
    BY <1>5, <2>1 DEF MarkReady
  <2>5. UNCHANGED <<file, settled, object, dropped, sweep, deleting, upsets>>
    BY <1>5 DEF MarkReady
  <2>6. h.heard => \A g \in handling' : g.heard => g.file # f
    BY <2>1 DEF RequestsAgree
  <2> HIDE DEF f
  <2>7. \A g \in File : file[g].at = "gone" => upload'[g].at = "idle" /\ g \notin settled
    BY SMTT(40), <2>1, <2>2 DEF SpoolAgrees
  <2>8. announced' \in [File -> Nat]
    BY <2>1, <2>4
  <2>9. UploadsTypeOK'
    BY <2>1, <2>2, <2>3, <2>4, <2>5, <2>7, <2>8 DEF UploadRow, Stage
  <2>10. SpoolAgrees'
    BY <2>1, <2>2, <2>5 DEF SpoolAgrees, Closed
  <2>11. RequestsAgree'
    BY <2>1, <2>2, <2>5, <2>6 DEF RequestsAgree, Closed
  <2>12. TakenAreStored'
    <3>1. \A g \in File : Taken(g) \/ g = f => InStorage(g)
      BY <2>1 DEF TakenAreStored
    <3>2. \A g \in File : InStorage(g) => InStorage(g)'
      BY <2>5 DEF InStorage, Closed
    <3>3. \A g \in File : Taken(g)' => Taken(g) \/ g = f
      BY <2>2, <2>3, <2>5 DEF Taken
    <3> QED BY <2>1, <3>1, <3>2, <3>3 DEF TakenAreStored
  <2>13. DueWasReady'
    BY <2>1, <2>3, <2>5 DEF DueWasReady
  <2>14. OneRequestEach'
    BY <2>1, <2>2, <2>3, <2>5 DEF OneRequestEach, DueWasReady, f
  <2>15. AnnouncedIsReady'
    BY <2>1, <2>3, <2>4 DEF AnnouncedIsReady, f
  <2> QED BY <2>9, <2>10, <2>11, <2>12, <2>13, <2>14, <2>15
<1>6. CASE RollBack(h)
  <2>1. upsets' \in 0..MaxUpset
    BY <1>0, <1>6, Upsets DEF RollBack
  <2> QED BY <1>6, <2>1, DoneKeeps DEF RollBack
<1> QED BY <1>3, <1>4, <1>5, <1>6 DEF Completing

(* Every step keeps it.                                                    *)
LEMMA UploadsStep == ~Stalls /\ UploadsInv /\ [UploadsNext]_uploadsVars => UploadsInv'
<1> SUFFICES ASSUME ~Stalls, UploadsInv, [UploadsNext]_uploadsVars PROVE UploadsInv'
  OBVIOUS
<1>1. ASSUME NEW f \in File, Recording(f) \/ Uploading(f) PROVE UploadsInv'
  BY <1>1, RecordingKeeps, UploadingKeeps
<1>2. ASSUME NEW f \in File, FailStalePending(f) \/ Deleting(f) \/ DeleteAudio(f) PROVE UploadsInv'
  BY <1>2, SweepingKeeps
<1>3. CASE ListDue \/ MarkExpired \/ FailSweep
  BY <1>3, SweepingKeeps, UploadsAssumption
<1>4. ASSUME NEW h \in handling, Completing(h) \/ RollBack(h) PROVE UploadsInv'
  BY <1>4, CompletingKeeps
<1>5. CASE RestartUploader \/ \E f \in File : FailUpload(f) \/ GiveUp(f) \/ CannotUnlink(f)
  BY <1>5, FailingKeeps
<1>6. CASE UNCHANGED uploadsVars
  BY <1>6 DEF uploadsVars, rows, news, spool, storage, jobs, UploadsInv, UploadsTypeOK, SpoolAgrees,
              RequestsAgree, TakenAreStored, Taken, DueWasReady, OneRequestEach, AnnouncedIsReady, InStorage, Closed
<1> QED BY <1>1, <1>2, <1>3, <1>4, <1>5, <1>6 DEF UploadsNext, Sweeping, Failing

LEMMA UploadsImply == UploadsInv => UploadsTypeOK /\ NothingLost /\ ExpiredHasNone /\ AnnouncedOnce
<1> SUFFICES ASSUME UploadsInv PROVE UploadsTypeOK /\ NothingLost /\ ExpiredHasNone /\ AnnouncedOnce
  OBVIOUS
<1>1. NothingLost
  BY DEF UploadsInv, TakenAreStored, Taken, InStorage, NothingLost
<1>2. ExpiredHasNone
  BY DEF UploadsInv, OneRequestEach, ExpiredHasNone
<1>3. AnnouncedOnce
  BY DEF UploadsInv, UploadsTypeOK, AnnouncedIsReady, AnnouncedOnce
<1> QED BY <1>1, <1>2, <1>3 DEF UploadsInv

-----------------------------------------------------------------------------
(* Messages told of by mail: what was sent is what was emailed.            *)

MailStages == {"idle", "settings", "message", "composed", "sent", "followed"}

VoicemailShape ==
  /\ announce \in [Announcer -> [at : {"idle", "asked", "listed", "counted"},
                                 event : [box : 0..MaxBox, named : BOOLEAN],
                                 listed : BOOLEAN, count : Counts]]
  /\ mailer \in [at : MailStages, letter : Letter \cup {"none"},
                 after : {"keep", "mark_read", "delete"}, attach : BOOLEAN, audio : BOOLEAN]
  /\ emailed \in [plain : SUBSET Letter, audio : SUBSET Letter]
  /\ disposed \in [read : SUBSET Letter, deleted : SUBSET Letter]
  /\ \A m \in Letter : letter[m].at \in {"pending", "ready", "failed"} => letter[m].box # 0

SentIsEmailed ==
  mailer.at = "sent" =>
    mailer.letter \in emailed.plain /\ (mailer.audio => mailer.letter \in emailed.audio)

VoicemailInv == VoicemailTypeOK /\ VoicemailShape /\ SentIsEmailed /\ OnlyCopyKept

NewsRow == [at : {"idle", "asked", "listed", "counted"}, event : [box : 0..MaxBox, named : BOOLEAN],
            listed : BOOLEAN, count : Counts]

MailRow == [at : MailStages, letter : Letter \cup {"none"},
            after : {"keep", "mark_read", "delete"}, attach : BOOLEAN, audio : BOOLEAN]

LetterRow == [at : {"none", "pending", "ready", "failed", "removed"}, box : 0..made, read : BOOLEAN]

LEMMA CountsAreCounts ==
  /\ Dark \in Counts /\ \A b : Now(b) \in Counts
  /\ NoNews \in NewsRow /\ NoMail \in MailRow
<1>1. \A S \in SUBSET Letter : Cardinality(S) \in 0..Cardinality(Letter)
  BY VoicemailAssumption, FS_Subset, FS_CardinalityType
<1>2. Cardinality(Letter) \in Nat
  BY VoicemailAssumption, FS_CardinalityType
<1>3. Dark \in Counts
  BY <1>2 DEF Dark, Counts
<1>4. \A b : Now(b) \in Counts
  BY <1>1 DEF Now, Counts
<1>5. NoNews \in NewsRow
  BY <1>3, VoicemailAssumption DEF NoNews, NewsRow
<1>6. NoMail \in MailRow
  BY DEF NoMail, MailRow, MailStages
<1> QED BY <1>3, <1>4, <1>5, <1>6

LEMMA VoicemailStart == VoicemailInit => VoicemailInv
<1> SUFFICES ASSUME VoicemailInit PROVE VoicemailInv
  OBVIOUS
<1> USE VoicemailAssumption, CountsAreCounts DEF VoicemailInit
<1>1. VoicemailShape
  BY DEF VoicemailShape, NewsRow, MailRow, NoEntry
<1>2. \A p \in Announcer : announce[p] = NoNews /\ NoNews.at = "idle" /\ NoNews.count \in Counts
  BY DEF NoNews
<1>3. letter \in [Letter -> [at : {"none", "pending", "ready", "failed", "removed"},
                            box : 0..made, read : BOOLEAN]]
  BY DEF NoEntry
<1>4. VoicemailTypeOK
  <2>1. box \in {0, made} /\ made \in 0..MaxBox /\ changed \subseteq Change /\ created \subseteq Letter
          /\ trouble \in 0..MaxTrouble /\ lamp \in Counts
    OBVIOUS
  <2>2. /\ mailer.at \in {"idle", "settings", "message", "composed", "sent", "followed"}
        /\ mailer.at # "idle" => mailer.letter \in created
        /\ emailed.plain \subseteq Letter /\ emailed.audio \subseteq Letter
        /\ disposed.read \subseteq Letter /\ disposed.deleted \subseteq Letter
    BY DEF NoMail
  <2> QED BY <1>2, <1>3, <2>1, <2>2 DEF VoicemailTypeOK
<1> QED BY <1>1, <1>4 DEF VoicemailInv, SentIsEmailed, OnlyCopyKept, NoMail

LEMMA Troubles == ASSUME VoicemailTypeOK, InTrouble PROVE trouble' \in 0..MaxTrouble
BY VoicemailAssumption DEF VoicemailTypeOK, InTrouble

(* Mailboxes and messages come, change and go.                             *)
LEMMA BoxesKeep ==
  ASSUME VoicemailInv, box' \in {0, made'}, made' \in 0..MaxBox, made <= made',
         after' \in {"keep", "mark_read", "delete"}, attach' \in BOOLEAN,
         letter' \in [Letter -> [at : {"none", "pending", "ready", "failed", "removed"},
                                 box : 0..made', read : BOOLEAN]],
         \A m \in Letter : letter'[m].at \in {"pending", "ready", "failed"} => letter'[m].box # 0,
         changed \subseteq changed', changed' \subseteq Change,
         created \subseteq created', created' \subseteq Letter,
         UNCHANGED <<announce, lamp, mail, trouble>>
  PROVE  VoicemailInv'
<1> USE DEF VoicemailInv, mail
<1>1. VoicemailShape'
  BY DEF VoicemailShape
<1>2. VoicemailTypeOK'
  BY DEF VoicemailTypeOK
<1> QED BY <1>1, <1>2 DEF SentIsEmailed, OnlyCopyKept

(* A message becomes another row.                                          *)
LEMMA RowsOfLetters ==
  ASSUME VoicemailInv, NEW m \in Letter, NEW r \in LetterRow, letter' = [letter EXCEPT ![m] = r],
         r.at \in {"pending", "ready", "failed"} => r.box # 0
  PROVE  /\ letter' \in [Letter -> LetterRow]
         /\ \A l \in Letter : letter'[l].at \in {"pending", "ready", "failed"} => letter'[l].box # 0
BY DEF VoicemailInv, VoicemailTypeOK, VoicemailShape, LetterRow

LEMMA LettersKeep ==
  ASSUME VoicemailInv, NEW m \in Letter, NEW r \in LetterRow, letter' = [letter EXCEPT ![m] = r],
         r.at \in {"pending", "ready", "failed"} => r.box # 0,
         changed \subseteq changed', changed' \subseteq Change,
         created \subseteq created', created' \subseteq Letter,
         UNCHANGED <<boxes, announce, lamp, mail, trouble>>
  PROVE  VoicemailInv'
<1>1. /\ letter' \in [Letter -> LetterRow]
      /\ \A l \in Letter : letter'[l].at \in {"pending", "ready", "failed"} => letter'[l].box # 0
  BY RowsOfLetters
<1> QED BY <1>1, BoxesKeep DEF VoicemailInv, VoicemailTypeOK, boxes, LetterRow

(* What is announced of a message is of its mailbox.                       *)
LEMMA Changed ==
  ASSUME VoicemailInv, NEW m \in Letter, letter[m].at \in {"pending", "ready", "failed"}, Changes(m)
  PROVE  changed \subseteq changed' /\ changed' \subseteq Change
<1>1. letter[m].box \in 0..made /\ letter[m].box # 0 /\ made \in 0..MaxBox
  BY DEF VoicemailInv, VoicemailTypeOK, VoicemailShape
<1>2. letter[m].box \in Box
  BY <1>1, VoicemailAssumption DEF Box
<1>3. [box |-> letter[m].box, named |-> FALSE] \in Change
  BY <1>2 DEF Change
<1> QED BY <1>3 DEF VoicemailInv, VoicemailTypeOK, Changes

LEMMA ReadsAndRemoves ==
  ASSUME VoicemailInv, NEW m \in Letter, Read(m) \/ (Remove(m) /\ letter[m].at # "removed")
  PROVE  /\ \E r \in LetterRow : /\ letter' = [letter EXCEPT ![m] = r]
                                 /\ r.at \in {"pending", "ready", "failed"} => r.box # 0
         /\ changed \subseteq changed' /\ changed' \subseteq Change
<1>1. letter[m] \in LetterRow
  BY DEF VoicemailInv, VoicemailTypeOK, LetterRow
<1>2. CASE Read(m)
  <2> DEFINE r == [letter[m] EXCEPT !.read = TRUE]
  <2>1. r \in LetterRow /\ r.box = letter[m].box
    BY <1>1 DEF LetterRow
  <2>2. letter' = [letter EXCEPT ![m] = r] /\ letter[m].at = "ready" /\ ChangesIfUnread(m)
    BY <1>2 DEF Read, Store
  <2>3. r.box # 0
    BY <2>1, <2>2 DEF VoicemailInv, VoicemailShape
  <2> QED BY <2>1, <2>2, <2>3, Changed DEF ChangesIfUnread, VoicemailInv, VoicemailTypeOK
<1>3. CASE Remove(m) /\ letter[m].at # "removed"
  <2> DEFINE r == [NoEntry EXCEPT !.at = "removed"]
  <2>1. made \in Nat
    BY VoicemailAssumption DEF VoicemailInv, VoicemailTypeOK
  <2>4. NoEntry \in LetterRow
    BY <2>1 DEF LetterRow, NoEntry
  <2>3. r \in LetterRow /\ r.at = "removed"
    BY <2>4 DEF LetterRow
  <2>2. /\ letter' = [letter EXCEPT ![m] = r] /\ ChangesIfUnread(m)
        /\ letter[m].at \in {"pending", "ready", "failed"}
    BY <1>1, <1>3 DEF Remove, Store, LetterRow
  <2> QED BY <2>3, <2>2, Changed DEF ChangesIfUnread, VoicemailInv, VoicemailTypeOK
<1> QED BY <1>2, <1>3

LEMMA UsedKeeps ==
  ASSUME VoicemailInv, Used
  PROVE  VoicemailInv'
<1> USE VoicemailAssumption
<1>0. /\ box \in {0, made} /\ made \in 0..MaxBox /\ changed \subseteq Change /\ created \subseteq Letter
      /\ after \in {"keep", "mark_read", "delete"} /\ attach \in BOOLEAN
      /\ \A m \in Letter : letter[m] \in LetterRow
      /\ letter \in [Letter -> LetterRow]
      /\ \A m \in Letter : letter[m].at \in {"pending", "ready", "failed"} => letter[m].box # 0
  BY DEF VoicemailInv, VoicemailTypeOK, VoicemailShape, LetterRow
<1>1. CASE CreateMailbox
  <2>1. [box |-> made + 1, named |-> TRUE] \in Change /\ made + 1 \in 0..MaxBox /\ made <= made + 1
    BY <1>0, <1>1 DEF CreateMailbox, Change, Box
  <2>2. letter \in [Letter -> [at : {"none", "pending", "ready", "failed", "removed"},
                               box : 0..(made + 1), read : BOOLEAN]]
    BY <1>0 DEF LetterRow
  <2> QED BY <1>0, <1>1, <2>1, <2>2, BoxesKeep DEF CreateMailbox
<1>2. CASE RemoveMailbox
  <2>1. [box |-> box, named |-> TRUE] \in Change
    BY <1>0, <1>2 DEF RemoveMailbox, Change, Box
  <2>2. /\ box' = 0 /\ made' = made /\ changed' = changed \cup {[box |-> box, named |-> TRUE]}
        /\ UNCHANGED <<after, attach, letter, created, announce, lamp, mail, trouble>>
    BY <1>2 DEF RemoveMailbox
  <2>3. letter' \in [Letter -> [at : {"none", "pending", "ready", "failed", "removed"},
                                box : 0..made', read : BOOLEAN]]
    BY <1>0, <2>2 DEF LetterRow
  <2>4. box' \in {0, made'} /\ made' \in 0..MaxBox /\ made <= made'
    BY <1>0, <2>2
  <2>5. /\ after' \in {"keep", "mark_read", "delete"} /\ attach' \in BOOLEAN
        /\ changed \subseteq changed' /\ changed' \subseteq Change
        /\ created \subseteq created' /\ created' \subseteq Letter
    BY <1>0, <2>1, <2>2
  <2>6. \A m \in Letter : letter'[m].at \in {"pending", "ready", "failed"} => letter'[m].box # 0
    BY <1>0, <2>2
  <2> QED BY <2>2, <2>3, <2>4, <2>5, <2>6, BoxesKeep
<1>3. ASSUME NEW what \in {"keep", "mark_read", "delete"}, NEW audio \in BOOLEAN, ChooseEmail(what, audio)
      PROVE  VoicemailInv'
  BY <1>0, <1>3, BoxesKeep DEF ChooseEmail, LetterRow, events
<1>4. ASSUME NEW m \in Letter, CreateMessage(m) PROVE VoicemailInv'
  <2> DEFINE r == [at |-> "pending", box |-> box, read |-> FALSE]
  <2>1. r \in LetterRow /\ r.box # 0
    BY <1>0, <1>4 DEF LetterRow, CreateMessage
  <2> QED BY <1>0, <1>4, <2>1, LettersKeep DEF CreateMessage, Store, events
<1>5. ASSUME NEW m \in Letter, CompleteMessage(m) PROVE VoicemailInv'
  <2> DEFINE r == [letter[m] EXCEPT !.at = "ready"]
  <2>1. r \in LetterRow /\ r.box # 0
    BY <1>0, <1>5 DEF LetterRow, CompleteMessage
  <2>2. changed \subseteq changed' /\ changed' \subseteq Change
    BY <1>5, Changed DEF CompleteMessage
  <2> QED BY <1>0, <1>5, <2>1, <2>2, LettersKeep DEF CompleteMessage, Store
<1>6. ASSUME NEW m \in Letter, FailMessage(m) PROVE VoicemailInv'
  <2> DEFINE r == [letter[m] EXCEPT !.at = "failed"]
  <2>1. r \in LetterRow /\ r.box # 0
    BY <1>0, <1>6 DEF LetterRow, FailMessage
  <2> QED BY <1>0, <1>6, <2>1, LettersKeep DEF FailMessage, Store, events
<1>7. ASSUME NEW m \in Letter, MarkRead(m) \/ RemoveMessage(m) PROVE VoicemailInv'
  <2>1. Read(m) \/ (Remove(m) /\ letter[m].at # "removed")
    BY <1>7 DEF MarkRead, RemoveMessage
  <2> QED BY <1>0, <1>7, <2>1, ReadsAndRemoves, LettersKeep DEF MarkRead, RemoveMessage
<1> QED BY <1>1, <1>2, <1>3, <1>4, <1>5, <1>6, <1>7 DEF Used, CreateMailbox

(* The lamp is announced.                                                  *)
LEMMA AnnouncersKeep ==
  ASSUME VoicemailInv, NEW p \in Announcer, NEW n \in NewsRow, announce' = [announce EXCEPT ![p] = n],
         p = "consumer" /\ n.at # "idle" => n.event \in changed,
         \/ changed' = changed
         \/ p = "consumer" /\ n.at = "idle" /\ changed' \subseteq changed,
         lamp' \in Counts, trouble' \in 0..MaxTrouble,
         UNCHANGED <<boxes, letter, created, mail>>
  PROVE  VoicemailInv'
<1> USE DEF VoicemailInv, mail, boxes
<1>1. announce' \in [Announcer -> NewsRow] /\ \A q \in Announcer \ {p} : announce'[q] = announce[q]
  BY DEF VoicemailShape, NewsRow
<1>2. announce'[p] = n
  BY DEF VoicemailShape
<1>3. VoicemailShape'
  BY <1>1 DEF VoicemailShape, NewsRow
<1>4. \A q \in Announcer : q = "consumer" /\ announce'[q].at # "idle" => announce'[q].event \in changed'
  BY <1>1, <1>2 DEF VoicemailTypeOK
<1>5. \A q \in Announcer : announce'[q].at \in {"idle", "asked", "listed", "counted"} /\ announce'[q].count \in Counts
  BY <1>1 DEF NewsRow
<1>6. VoicemailTypeOK'
  BY <1>4, <1>5 DEF VoicemailTypeOK
<1> QED BY <1>3, <1>6 DEF SentIsEmailed, OnlyCopyKept

LEMMA LampKeeps ==
  ASSUME VoicemailInv,
         \/ (\E e \in changed : Heard(e)) \/ Renew \/ LoseLamp
         \/ \E p \in Announcer : Announcing(p) \/ AnnounceFails(p)
  PROVE  VoicemailInv'
<1> USE VoicemailAssumption
<1>0. /\ NoNews \in NewsRow /\ NoNews.at = "idle" /\ "consumer" \in Announcer /\ "pass" \in Announcer
      /\ \A p \in Announcer : announce[p] \in NewsRow
      /\ lamp \in Counts /\ Dark \in Counts /\ trouble \in 0..MaxTrouble /\ VoicemailTypeOK
      /\ changed \subseteq Change /\ box \in 0..MaxBox
  BY CountsAreCounts DEF VoicemailInv, VoicemailTypeOK, VoicemailShape, NewsRow, NoNews, Announcer
<1>1. ASSUME NEW e \in changed, Heard(e) PROVE VoicemailInv'
  <2> DEFINE n == [NoNews EXCEPT !.at = "asked", !.event = e]
  <2>1. e \in [box : 0..MaxBox, named : BOOLEAN]
    BY <1>0 DEF Change, Box
  <2>2. n \in NewsRow /\ n.event = e
    BY <1>0, <2>1 DEF NewsRow, NoNews
  <2> QED BY <1>0, <1>1, <2>2, AnnouncersKeep DEF Heard, events
<1>2. CASE Renew
  <2> DEFINE n == [announce["pass"] EXCEPT !.at = "asked"]
  <2>1. n \in NewsRow
    BY <1>0 DEF NewsRow
  <2> QED BY <1>0, <1>2, <2>1, AnnouncersKeep DEF Renew, Reaches, events
<1>3. CASE LoseLamp
  <2>1. trouble' \in 0..MaxTrouble
    BY <1>0, <1>3, Troubles DEF LoseLamp
  <2> QED BY <1>0, <1>3, <2>1 DEF LoseLamp, VoicemailInv, VoicemailTypeOK, VoicemailShape, SentIsEmailed,
            OnlyCopyKept, boxes, events, mail
<1>4. ASSUME NEW p \in Announcer, AnnounceFails(p) PROVE VoicemailInv'
  <2>1. trouble' \in 0..MaxTrouble
    BY <1>0, <1>4, Troubles DEF AnnounceFails
  <2> QED BY <1>0, <1>4, <2>1, AnnouncersKeep DEF AnnounceFails, events
<1>5. ASSUME NEW p \in Announcer, List(p) PROVE VoicemailInv'
  <2> DEFINE wanted == IF p = "pass" THEN box ELSE announce[p].event.box
             n == [announce[p] EXCEPT !.at = "listed", !.event.box = wanted,
                                      !.listed = wanted # 0 /\ wanted = box]
  <2>1. announce' = [announce EXCEPT ![p] = n] /\ UNCHANGED <<boxes, letter, events, lamp, mail, trouble>>
    BY <1>5 DEF List
  <2>2. wanted \in 0..MaxBox /\ announce[p].at = "asked"
    BY <1>0, <1>5 DEF NewsRow, List
  <2>3. n \in NewsRow /\ n.event.box = wanted /\ n.event.named = announce[p].event.named
    BY <1>0, <2>2 DEF NewsRow
  <2>4. p = "consumer" => n.event = announce[p].event /\ announce[p].event \in changed
    <3>1. p = "consumer" => announce[p].event \in changed
      BY <1>0, <2>2 DEF VoicemailTypeOK
    <3>2. p = "consumer" => n.event = announce[p].event
      BY <1>0, <2>3 DEF NewsRow
    <3> QED BY <3>1, <3>2
  <2> HIDE DEF n
  <2> QED BY <1>0, <2>1, <2>3, <2>4, AnnouncersKeep DEF events
<1>6. ASSUME NEW p \in Announcer, Count(p) PROVE VoicemailInv'
  <2> DEFINE n == [announce[p] EXCEPT !.at = "counted",
                     !.count = IF announce[p].listed THEN Now(announce[p].event.box) ELSE Dark]
  <2>1. announce' = [announce EXCEPT ![p] = n] /\ announce[p].at = "listed"
    BY <1>6 DEF Count
  <2>2. n \in NewsRow /\ n.event = announce[p].event
    BY <1>0, CountsAreCounts DEF NewsRow
  <2>3. p = "consumer" => announce[p].event \in changed
    BY <1>0, <2>1 DEF VoicemailTypeOK
  <2> HIDE DEF n
  <2> QED BY <1>0, <1>6, <2>1, <2>2, <2>3, AnnouncersKeep DEF Count, events
<1>7. ASSUME NEW p \in Announcer, Light(p) PROVE VoicemailInv'
  <2>1. lamp' \in Counts
    BY <1>0, <1>7 DEF Light, NewsRow
  <2> QED BY <1>0, <1>7, <2>1, AnnouncersKeep DEF Light
<1> QED BY <1>1, <1>2, <1>3, <1>4, <1>5, <1>6, <1>7 DEF Announcing

(* The mail is made, sent and followed up.                                 *)
LEMMA MailersKeep ==
  ASSUME VoicemailInv, mailer' \in MailRow, created' \subseteq created,
         mailer'.at # "idle" => mailer'.letter \in created',
         mailer'.at = "sent" =>
           mailer'.letter \in emailed'.plain /\ (mailer'.audio => mailer'.letter \in emailed'.audio),
         emailed' \in [plain : SUBSET Letter, audio : SUBSET Letter],
         emailed.plain \subseteq emailed'.plain, emailed.audio \subseteq emailed'.audio,
         trouble' \in 0..MaxTrouble,
         UNCHANGED <<boxes, letter, changed, announce, lamp, disposed>>
  PROVE  VoicemailInv'
<1> USE DEF VoicemailInv, boxes
<1>1. VoicemailShape'
  BY DEF VoicemailShape, MailRow
<1>2. mailer'.at \in {"idle", "settings", "message", "composed", "sent", "followed"}
  BY DEF MailRow, MailStages
<1>3. VoicemailTypeOK'
  BY <1>2 DEF VoicemailTypeOK
<1> QED BY <1>1, <1>3 DEF SentIsEmailed, OnlyCopyKept

LEMMA MailKeeps ==
  ASSUME VoicemailInv, MailStep \/ FollowUpFails \/ MailFails
  PROVE  VoicemailInv'
<1>0. /\ NoMail \in MailRow /\ NoMail.at = "idle" /\ mailer \in MailRow
      /\ created \subseteq Letter /\ trouble \in 0..MaxTrouble /\ VoicemailTypeOK
      /\ emailed \in [plain : SUBSET Letter, audio : SUBSET Letter]
      /\ after \in {"keep", "mark_read", "delete"} /\ attach \in BOOLEAN
      /\ mailer.at # "idle" => mailer.letter \in created
  BY CountsAreCounts DEF VoicemailInv, VoicemailTypeOK, VoicemailShape, MailRow, NoMail
<1>1. ASSUME NEW m \in Letter, MailBegins(m) PROVE VoicemailInv'
  <2>1. [NoMail EXCEPT !.at = "settings", !.letter = m] \in MailRow
    BY <1>0 DEF MailRow, MailStages
  <2>2. mailer' \in MailRow /\ mailer'.at = "settings" /\ mailer'.letter = m
    BY <1>0, <1>1, <2>1 DEF MailBegins, MailRow
  <2> QED BY <1>0, <1>1, <2>2, MailersKeep DEF MailBegins, events
<1>2. ASSUME Consumed, UNCHANGED <<boxes, letter, changed, announce, lamp, emailed, disposed, trouble>>
      PROVE  VoicemailInv'
  BY <1>0, <1>2, MailersKeep DEF Consumed
<1>3. CASE ReadSettings
  <2> DEFINE n == [mailer EXCEPT !.at = "message", !.after = after, !.attach = attach]
  <2>1. n \in MailRow /\ n.at = "message" /\ n.letter = mailer.letter
    BY <1>0 DEF MailRow, MailStages
  <2>2. ASSUME mailer' = n, UNCHANGED created PROVE VoicemailInv'
    BY <1>0, <1>3, <2>1, <2>2, MailersKeep DEF ReadSettings
  <2>3. CASE Consumed
    BY <1>2, <1>3, <2>3 DEF ReadSettings
  <2> QED BY <1>3, <2>2, <2>3 DEF ReadSettings
<1>4. CASE Compose
  <2>1. ASSUME NEW fits \in BOOLEAN, UNCHANGED created,
               mailer' = [mailer EXCEPT !.at = "composed", !.audio = mailer.attach /\ fits]
        PROVE  VoicemailInv'
    <3>1. mailer' \in MailRow /\ mailer'.at = "composed" /\ mailer'.letter = mailer.letter
      BY <1>0, <2>1 DEF MailRow, MailStages
    <3>2. /\ mailer.at = "message" /\ created' = created
          /\ UNCHANGED <<boxes, letter, changed, announce, lamp, emailed, disposed, trouble>>
      BY <1>4, <2>1 DEF Compose
    <3> QED BY <1>0, <3>1, <3>2, MailersKeep
  <2>2. CASE Consumed
    BY <1>2, <1>4, <2>2 DEF Compose
  <2> QED BY <1>4, <2>1, <2>2 DEF Compose
<1>5. CASE Send
  <2>1. /\ mailer' \in MailRow /\ mailer'.at = "sent" /\ mailer'.letter = mailer.letter
        /\ mailer'.audio = mailer.audio
    BY <1>0, <1>5 DEF Send, Mailing, MailRow, MailStages
  <2>2. /\ emailed'.plain = emailed.plain \cup {mailer.letter}
        /\ emailed'.audio = IF mailer.audio THEN emailed.audio \cup {mailer.letter} ELSE emailed.audio
    BY <1>5 DEF Send
  <2>3. emailed' \in [plain : SUBSET Letter, audio : SUBSET Letter]
    BY <1>0, <1>5 DEF Send
  <2> QED BY <1>0, <1>5, <2>1, <2>2, <2>3, MailersKeep DEF Send, events
<1>6. CASE FollowUp
  <2> DEFINE m == mailer.letter
  <2>1. /\ m \in Letter /\ mailer.at = "sent"
        /\ m \in emailed.plain /\ (mailer.audio => m \in emailed.audio)
    BY <1>0, <1>6 DEF FollowUp, VoicemailInv, SentIsEmailed
  <2>2. /\ mailer' \in MailRow /\ mailer'.at = "followed" /\ mailer'.letter = m
        /\ UNCHANGED <<boxes, created, announce, lamp, emailed, trouble>>
    BY <1>0, <1>6 DEF FollowUp, Mailing, MailRow, MailStages
  <2>3. disposed \in [read : SUBSET Letter, deleted : SUBSET Letter] /\ OnlyCopyKept
    BY DEF VoicemailInv, VoicemailShape
  <2>4. /\ disposed' \in [read : SUBSET Letter, deleted : SUBSET Letter]
        /\ disposed'.deleted \subseteq emailed.audio /\ disposed'.read \subseteq emailed.plain
        /\ UNCHANGED <<letter, changed>> \/ Read(m) \/ (Remove(m) /\ letter[m].at # "removed")
    <3>1. CASE UNCHANGED <<letter, changed, disposed>>
      BY <2>3, <3>1 DEF OnlyCopyKept
    <3>2. CASE /\ letter[m].at = "ready" /\ mailer.audio
               /\ Remove(m) /\ disposed' = [disposed EXCEPT !.deleted = @ \cup {m}]
      BY <2>1, <2>3, <3>2 DEF OnlyCopyKept
    <3>3. CASE Read(m) /\ disposed' = [disposed EXCEPT !.read = @ \cup {m}]
      BY <2>1, <2>3, <3>3 DEF OnlyCopyKept
    <3> QED BY <1>6, <3>1, <3>2, <3>3 DEF FollowUp
  <2>5. /\ letter' \in [Letter -> LetterRow] /\ changed' \subseteq Change
        /\ \A l \in Letter : letter'[l].at \in {"pending", "ready", "failed"} => letter'[l].box # 0
        /\ changed \subseteq changed'
    <3>1. CASE UNCHANGED <<letter, changed>>
      BY <3>1 DEF VoicemailInv, VoicemailTypeOK, VoicemailShape, LetterRow
    <3>2. CASE Read(m) \/ (Remove(m) /\ letter[m].at # "removed")
      BY <2>1, <3>2, ReadsAndRemoves, RowsOfLetters
    <3> QED BY <2>4, <3>1, <3>2
  <2> USE DEF VoicemailInv, boxes
  <2>6. VoicemailShape'
    BY <2>2, <2>4, <2>5 DEF VoicemailShape, MailRow
  <2>7. mailer'.at # "idle" => mailer'.letter \in created'
    BY <1>0, <2>1, <2>2
  <2>8. VoicemailTypeOK'
    BY <2>2, <2>4, <2>5, <2>7 DEF VoicemailTypeOK, LetterRow
  <2> QED BY <2>2, <2>4, <2>6, <2>8 DEF SentIsEmailed, OnlyCopyKept
<1>7. CASE FollowUpFails
  <2>1. mailer' \in MailRow /\ mailer'.at = "followed" /\ mailer'.letter = mailer.letter
    BY <1>0, <1>7 DEF FollowUpFails, Mailing, MailRow, MailStages
  <2>2. trouble' \in 0..MaxTrouble
    BY <1>0, <1>7, Troubles DEF FollowUpFails
  <2> QED BY <1>0, <1>7, <2>1, <2>2, MailersKeep DEF FollowUpFails, events
<1>8. CASE CommitMail
  BY <1>2, <1>8 DEF CommitMail
<1>9. CASE MailFails
  <2>1. trouble' \in 0..MaxTrouble
    BY <1>0, <1>9, Troubles DEF MailFails
  <2> QED BY <1>0, <1>9, <2>1, MailersKeep DEF MailFails, events
<1> QED BY <1>1, <1>3, <1>4, <1>5, <1>6, <1>7, <1>8, <1>9 DEF MailStep

(* Every step keeps it.                                                    *)
LEMMA VoicemailStep == VoicemailInv /\ [VoicemailNext]_voicemailVars => VoicemailInv'
<1> SUFFICES ASSUME VoicemailInv, [VoicemailNext]_voicemailVars PROVE VoicemailInv'
  OBVIOUS
<1>1. CASE UNCHANGED voicemailVars
  BY <1>1 DEF voicemailVars, boxes, events, mail, VoicemailInv, VoicemailTypeOK, VoicemailShape,
              SentIsEmailed, OnlyCopyKept
<1> QED BY <1>1, UsedKeeps, LampKeeps, MailKeeps DEF VoicemailNext, Trouble

(* A recording leaves its node only once it is stored whole, a row that    *)
(* has expired has no audio, and each is announced once, while no file     *)
(* that is still written is taken for abandoned; and of a voicemail the    *)
(* only copy is kept.                                                      *)
THEOREM NoAudioLostHolds == ~Stalls /\ UploadsSpec /\ VoicemailSpec => []NoAudioLost
<1> SUFFICES ASSUME ~Stalls PROVE UploadsSpec /\ VoicemailSpec => []NoAudioLost
  OBVIOUS
<1>1. UploadsInit => UploadsInv
  BY UploadsStart
<1>2. UploadsInv /\ [UploadsNext]_uploadsVars => UploadsInv'
  BY UploadsStep
<1>3. VoicemailInit => VoicemailInv
  BY VoicemailStart
<1>4. VoicemailInv /\ [VoicemailNext]_voicemailVars => VoicemailInv'
  BY VoicemailStep
<1>5. UploadsInv /\ VoicemailInv => NoAudioLost
  BY UploadsImply DEF VoicemailInv, NoAudioLost
<1> QED BY <1>1, <1>2, <1>3, <1>4, <1>5, PTL DEF UploadsSpec, VoicemailSpec

-----------------------------------------------------------------------------
(* Attended transfers. The node keeps its legs in one place each (Wired)   *)
(* and tells the registry of what it did (UnseenRight); what the registry  *)
(* and the requests speak of is there and is neither the person nor a      *)
(* ring-back (PlaceInv). With one request at a time the person's leg stays *)
(* until nobody waits (StaysInHand), a ring-back is scheduled only for who *)
(* is held (TimersRight), nobody else is up but who the person or the one  *)
(* held talks to (PartiesRight), and who is there is known at each command *)
(* (StageRight).                                                           *)
Legs(c) == {c[1], c[2]}

(* A leg is in one pair that talks, or in one call that rings, or it waits *)
(* with music, or none of these.                                           *)
Wired(U, J, R, M) ==
  /\ M \subseteq U
  /\ \A p \in J : \E a, b \in U : a # b /\ p = {a, b}
  /\ \A c \in R : c \in U \X U /\ c[1] # c[2]
  /\ \A p, q \in J : p \cap q # {} => p = q
  /\ \A c, d \in R : Legs(c) \cap Legs(d) # {} => c = d
  /\ \A p \in J, c \in R : p \cap Legs(c) = {}
  /\ \A p \in J : p \cap M = {}
  /\ \A c \in R : Legs(c) \cap M = {}

Lone(l, J, R, M) == (\A p \in J : l \notin p) /\ (\A c \in R : l \notin Legs(c)) /\ l \notin M

LEMMA LegsPart ==
  ASSUME NEW U, NEW J, NEW R, NEW M, Wired(U, J, R, M), NEW away, NEW out \in SUBSET away, NEW new
  PROVE  LET V == (U \cup new) \ out
             K == {p \in J : p \cap away = {}}
             Q == {c \in R : Legs(c) \cap away = {}}
             N == M \ away
         IN  /\ Wired(V, K, Q, N)
             /\ \A l \in away : Lone(l, K, Q, N)
             /\ \A l : l \notin U => Lone(l, K, Q, N)
<1> DEFINE V == (U \cup new) \ out
           K == {p \in J : p \cap away = {}}
           Q == {c \in R : Legs(c) \cap away = {}}
           N == M \ away
<1>1. N \subseteq V
  BY DEF Wired
<1>2. \A p \in K : \E a, b \in V : a # b /\ p = {a, b}
  BY DEF Wired
<1>3. \A c \in Q : c \in V \X V /\ c[1] # c[2]
  <2> SUFFICES ASSUME NEW c \in Q PROVE c \in V \X V /\ c[1] # c[2]
    OBVIOUS
  <2>1. c \in U \X U /\ c[1] # c[2] /\ c[1] \notin away /\ c[2] \notin away
    BY DEF Wired, Legs
  <2> QED BY <2>1
<1>4. /\ \A p, q \in K : p \cap q # {} => p = q
      /\ \A p \in K, c \in Q : p \cap Legs(c) = {}
      /\ \A p \in K : p \cap N = {}
  BY DEF Wired
<1>5. /\ \A c, d \in Q : Legs(c) \cap Legs(d) # {} => c = d
      /\ \A c \in Q : Legs(c) \cap N = {}
  BY DEF Wired
<1>6. \A l \in away : Lone(l, K, Q, N)
  BY DEF Lone
<1>7. \A l : l \notin U => Lone(l, K, Q, N)
  <2>1. ASSUME NEW l, l \notin U, NEW c \in R PROVE l \notin Legs(c)
    <3>1. c \in U \X U
      BY DEF Wired
    <3> QED BY <2>1, <3>1 DEF Legs
  <2> QED BY <2>1 DEF Lone, Wired
<1>8. Wired(V, K, Q, N)
  BY <1>1, <1>2, <1>3, <1>4, <1>5 DEF Wired
<1> QED BY <1>6, <1>7, <1>8

LEMMA LegsTalk ==
  ASSUME NEW U, NEW J, NEW R, NEW M, Wired(U, J, R, M),
         NEW a \in U, NEW b \in U, a # b, Lone(a, J, R, M), Lone(b, J, R, M)
  PROVE  Wired(U, J \cup {{a, b}}, R, M)
<1>1. \A p \in J : p \cap {a, b} = {}
  BY DEF Lone
<1>2. \A c \in R : {a, b} \cap Legs(c) = {}
  BY DEF Lone
<1>3. {a, b} \cap M = {}
  BY DEF Lone
<1>4. \A p, q \in J \cup {{a, b}} : p \cap q # {} => p = q
  BY <1>1 DEF Wired
<1>5. \A p \in J \cup {{a, b}} : \E x, y \in U : x # y /\ p = {x, y}
  BY DEF Wired
<1>6. /\ \A p \in J \cup {{a, b}}, c \in R : p \cap Legs(c) = {}
      /\ \A p \in J \cup {{a, b}} : p \cap M = {}
  BY <1>2, <1>3 DEF Wired
<1> QED BY <1>4, <1>5, <1>6 DEF Wired

LEMMA LegsCall ==
  ASSUME NEW U, NEW J, NEW R, NEW M, Wired(U, J, R, M),
         NEW a \in U, NEW b \in U, a # b, Lone(a, J, R, M), Lone(b, J, R, M)
  PROVE  Wired(U, J, R \cup {<<a, b>>}, M)
<1>1. Legs(<<a, b>>) = {a, b} /\ <<a, b>> \in U \X U
  BY DEF Legs
<1>2. \A c \in R \cup {<<a, b>>} : c \in U \X U /\ c[1] # c[2]
  BY <1>1 DEF Wired
<1>3. \A c \in R : Legs(c) \cap {a, b} = {}
  BY DEF Lone
<1>4. \A p \in J : p \cap {a, b} = {}
  BY DEF Lone
<1>5. \A c, d \in R \cup {<<a, b>>} : Legs(c) \cap Legs(d) # {} => c = d
  BY <1>1, <1>3 DEF Wired
<1>6. /\ \A p \in J, c \in R \cup {<<a, b>>} : p \cap Legs(c) = {}
      /\ \A c \in R \cup {<<a, b>>} : Legs(c) \cap M = {}
  BY <1>1, <1>4 DEF Wired, Lone
<1> QED BY <1>2, <1>5, <1>6 DEF Wired

LEMMA LegsWait ==
  ASSUME NEW U, NEW J, NEW R, NEW M, Wired(U, J, R, M), NEW a \in U, Lone(a, J, R, M)
  PROVE  Wired(U, J, R, M \cup {a})
BY DEF Wired, Lone

(* At most one of these is one of the things that TransferTypeOK counts.   *)
LEMMA LegsAreCounted ==
  ASSUME Wired(up, joined, rings, music)
  PROVE  /\ joined \subseteq SUBSET up /\ rings \subseteq up \X up /\ music \subseteq up
         /\ \A p \in joined : Cardinality(p) = 2
         /\ \A l \in up :
              Cardinality({p \in joined : l \in p}) + Cardinality({c \in rings : l \in {c[1], c[2]}})
                + (IF l \in music THEN 1 ELSE 0) <= 1
<1>1. joined \subseteq SUBSET up /\ rings \subseteq up \X up /\ music \subseteq up
  BY DEF Wired
<1>2. ASSUME NEW p \in joined PROVE Cardinality(p) = 2
  <2>1. PICK a, b \in up : a # b /\ p = {a, b}
    BY DEF Wired
  <2>2. IsFiniteSet({a}) /\ Cardinality({a}) = 1
    BY FS_Singleton
  <2>3. Cardinality({a} \cup {b}) = 2
    BY <2>1, <2>2, FS_AddElement
  <2> QED BY <2>1, <2>3
<1>3. ASSUME NEW l \in up
      PROVE  Cardinality({p \in joined : l \in p}) + Cardinality({c \in rings : l \in {c[1], c[2]}})
               + (IF l \in music THEN 1 ELSE 0) <= 1
  <2> DEFINE J == {p \in joined : l \in p}
             R == {c \in rings : l \in {c[1], c[2]}}
  <2>1. Cardinality({}) = 0 /\ \A x : Cardinality({x}) = 1
    BY FS_EmptySet, FS_Singleton
  <2>2. J = {} \/ \E p \in joined : l \in p /\ J = {p}
    BY DEF Wired
  <2>3. R = {} \/ \E c \in rings : l \in Legs(c) /\ R = {c}
    <3>1. \A c, d \in R : c = d
      BY DEF Wired, Legs
    <3> QED BY <3>1 DEF Legs
  <2>4. l \in music => J = {} /\ R = {}
    BY <2>2, <2>3 DEF Wired
  <2>5. J = {} \/ R = {}
    BY <2>2, <2>3 DEF Wired
  <2>6. Cardinality(J) \in {0, 1} /\ (J = {} => Cardinality(J) = 0)
    BY <2>1, <2>2
  <2>7. Cardinality(R) \in {0, 1} /\ (R = {} => Cardinality(R) = 0)
    BY <2>1, <2>3
  <2> HIDE DEF J, R
  <2>8. Cardinality(J) + Cardinality(R) + (IF l \in music THEN 1 ELSE 0) <= 1
    BY <2>4, <2>5, <2>6, <2>7
  <2> QED BY <2>8 DEF J, R
<1> QED BY <1>1, <1>2, <1>3

(* What becomes of the legs when those of S go where they talk (J), call   *)
(* (R) or wait (M), with a leg of F made, and E are to end.                *)
Ending(S, E) == E \cup LeftBy(S \cup E)

LegsChange(S, E, F, J, R, M) ==
  /\ up' = (up \cup F) \ Ending(S, E) /\ used' = used \cup F
  /\ joined' = {p \in joined : p \cap (S \cup Ending(S, E)) = {}} \cup J
  /\ rings' = {c \in rings : Legs(c) \cap (S \cup Ending(S, E)) = {}} \cup R
  /\ music' = (music \ (S \cup Ending(S, E))) \cup M

Tells(F, B, O) == unseen' = unseen \o Says("made", F) \o Ext!SetToSeq(B) \o Says("ended", O)

Bridged(a, b) == [is |-> "bridged", of |-> a, with |-> b]

LEMMA BecomesWhat ==
  ASSUME NEW m, Becomes(m),
         NEW S, S = m.waiting \cup {p[1] : p \in m.talking \cup m.calling} \cup {p[2] : p \in m.talking},
         NEW J, J = {{p[1], p[2]} : p \in m.talking},
         NEW B, B = {[is |-> "bridged", of |-> p[1], with |-> p[2]] : p \in m.talking}
  PROVE  LegsChange(S, m.ending, m.made, J, m.calling, m.waiting) /\ Tells(m.made, B, Ending(S, m.ending))
BY DEF Becomes, LegsChange, Tells, Ending, Legs

LEMMA EndsChanges ==
  ASSUME NEW E, Becomes([Still EXCEPT !.ending = E])
  PROVE  LegsChange({}, E, {}, {}, {}, {}) /\ Tells({}, {}, Ending({}, E))
<1> DEFINE m == [Still EXCEPT !.ending = E]
<1>1. m.ending = E /\ m.talking = {} /\ m.calling = {} /\ m.waiting = {} /\ m.made = {}
  BY DEF Still
<1>2. Becomes(m)
  OBVIOUS
<1> HIDE DEF m
<1>3. /\ {} = m.waiting \cup {p[1] : p \in m.talking \cup m.calling} \cup {p[2] : p \in m.talking}
      /\ {} = {{p[1], p[2]} : p \in m.talking}
      /\ {} = {[is |-> "bridged", of |-> p[1], with |-> p[2]] : p \in m.talking}
  BY <1>1
<1>4. LegsChange({}, m.ending, m.made, {}, m.calling, m.waiting) /\ Tells(m.made, {}, Ending({}, m.ending))
  BY <1>2, <1>3, BecomesWhat
<1> QED BY <1>1, <1>4

LEMMA TalkChanges ==
  ASSUME NEW a, NEW b, Becomes([Still EXCEPT !.talking = {<<a, b>>}])
  PROVE  LegsChange({a, b}, {}, {}, {{a, b}}, {}, {}) /\ Tells({}, {Bridged(a, b)}, Ending({a, b}, {}))
<1> DEFINE m == [Still EXCEPT !.talking = {<<a, b>>}]
<1>1. m.ending = {} /\ m.talking = {<<a, b>>} /\ m.calling = {} /\ m.waiting = {} /\ m.made = {}
  BY DEF Still
<1>2. Becomes(m)
  OBVIOUS
<1> HIDE DEF m
<1>3. /\ {a, b} = m.waiting \cup {p[1] : p \in m.talking \cup m.calling} \cup {p[2] : p \in m.talking}
      /\ {{a, b}} = {{p[1], p[2]} : p \in m.talking}
      /\ {Bridged(a, b)} = {[is |-> "bridged", of |-> p[1], with |-> p[2]] : p \in m.talking}
  BY <1>1 DEF Bridged
<1>4. /\ LegsChange({a, b}, m.ending, m.made, {{a, b}}, m.calling, m.waiting)
      /\ Tells(m.made, {Bridged(a, b)}, Ending({a, b}, m.ending))
  BY <1>2, <1>3, BecomesWhat
<1> QED BY <1>1, <1>4

LEMMA CallChanges ==
  ASSUME NEW a, NEW f, Becomes([Still EXCEPT !.calling = {<<a, f>>}, !.made = {f}])
  PROVE  LegsChange({a}, {}, {f}, {}, {<<a, f>>}, {}) /\ Tells({f}, {}, Ending({a}, {}))
<1> DEFINE m == [Still EXCEPT !.calling = {<<a, f>>}, !.made = {f}]
<1>1. m.ending = {} /\ m.talking = {} /\ m.calling = {<<a, f>>} /\ m.waiting = {} /\ m.made = {f}
  BY DEF Still
<1>2. Becomes(m)
  OBVIOUS
<1> HIDE DEF m
<1>3. /\ {a} = m.waiting \cup {p[1] : p \in m.talking \cup m.calling} \cup {p[2] : p \in m.talking}
      /\ {} = {{p[1], p[2]} : p \in m.talking}
      /\ {} = {[is |-> "bridged", of |-> p[1], with |-> p[2]] : p \in m.talking}
  BY <1>1
<1>4. LegsChange({a}, m.ending, m.made, {}, m.calling, m.waiting) /\ Tells(m.made, {}, Ending({a}, m.ending))
  BY <1>2, <1>3, BecomesWhat
<1> QED BY <1>1, <1>4

LEMMA WaitChanges ==
  ASSUME NEW w, Becomes([Still EXCEPT !.waiting = {w}])
  PROVE  LegsChange({w}, {}, {}, {}, {}, {w}) /\ Tells({}, {}, Ending({w}, {}))
<1> DEFINE m == [Still EXCEPT !.waiting = {w}]
<1>1. m.ending = {} /\ m.talking = {} /\ m.calling = {} /\ m.waiting = {w} /\ m.made = {}
  BY DEF Still
<1>2. Becomes(m)
  OBVIOUS
<1> HIDE DEF m
<1>3. /\ {w} = m.waiting \cup {p[1] : p \in m.talking \cup m.calling} \cup {p[2] : p \in m.talking}
      /\ {} = {{p[1], p[2]} : p \in m.talking}
      /\ {} = {[is |-> "bridged", of |-> p[1], with |-> p[2]] : p \in m.talking}
  BY <1>1
<1>4. LegsChange({w}, m.ending, m.made, {}, m.calling, m.waiting) /\ Tells(m.made, {}, Ending({w}, m.ending))
  BY <1>2, <1>3, BecomesWhat
<1> QED BY <1>1, <1>4

-----------------------------------------------------------------------------
(* What the node keeps, and what it has said that the registry has not     *)
(* heard.                                                                  *)

Event == [is : {"made", "bridged", "ended"}, of : Channel, with : Channel \cup {"none"}]

(* What an event says: of an ended leg, that it is not up; of a bridge,    *)
(* that two legs talk, and the person's not with its own ring-back.        *)
EventRight(e) ==
  /\ e.of \in Other => e.of \in used
  /\ e.is = "made" => e.of \in Other
  /\ e.is = "ended" => e.of \notin up
  /\ e.is = "bridged" => /\ e.with \in Channel \ {e.of} /\ (e.with \in Other => e.with \in used)
                         /\ e.of = "person" => e.with \notin mine
                         /\ e.with = "person" => e.of \notin mine

UnseenRight == unseen \in Seq({e \in Event : EventRight(e)})

(* A leg of Other was called by the person, unless it is a ring-back's.    *)
RingsRight == \A c \in rings : c[2] \in Other /\ (c[2] \in mine <=> c[1] # "person")

NodeRight ==
  /\ up \subseteq Channel /\ IsFiniteSet(up) /\ used \subseteq Other /\ up \cap Other \subseteq used /\ mine \subseteq used
  /\ timer \subseteq Channel \ {"person"} /\ timer \cap Other \subseteq used /\ stays \in BOOLEAN
  /\ Wired(up, joined, rings, music) /\ RingsRight

LEMMA LeftByUp == \A S : LeftBy(S) \subseteq up \ S
BY DEF LeftBy

(* The four kinds of change keep legs in one place each.                   *)
LEMMA EndsWired ==
  ASSUME Wired(up, joined, rings, music), NEW E, LegsChange({}, E, {}, {}, {}, {})
  PROVE  Wired(up, joined, rings, music)'
<1>1. Wired((up \cup {}) \ Ending({}, E), {p \in joined : p \cap ({} \cup Ending({}, E)) = {}},
            {c \in rings : Legs(c) \cap ({} \cup Ending({}, E)) = {}}, music \ ({} \cup Ending({}, E)))
  BY LegsPart
<1> QED BY <1>1 DEF LegsChange, Wired, Legs

LEMMA TalkWired ==
  ASSUME Wired(up, joined, rings, music), NEW a \in up, NEW b \in up, a # b,
         LegsChange({a, b}, {}, {}, {{a, b}}, {}, {})
  PROVE  Wired(up, joined, rings, music)'
<1> DEFINE O == Ending({a, b}, {})
           A == {a, b} \cup O
           V == (up \cup {}) \ O
           K == {p \in joined : p \cap A = {}}
           Q == {c \in rings : Legs(c) \cap A = {}}
           N == music \ A
<1>1. O \subseteq up \ {a, b}
  BY DEF LeftBy, Ending
<1>2. Wired(V, K, Q, N) /\ \A l \in A : Lone(l, K, Q, N)
  BY LegsPart
<1>3. Wired(V, K \cup {{a, b}}, Q, N)
  BY <1>1, <1>2, LegsTalk
<1>4. up' = V /\ joined' = K \cup {{a, b}} /\ rings' = Q /\ music' = N
  BY DEF LegsChange
<1> HIDE DEF V, K, Q, N
<1> QED BY <1>3, <1>4 DEF Wired, Legs

LEMMA CallWired ==
  ASSUME Wired(up, joined, rings, music), NEW a \in up, NEW f, f \notin up,
         LegsChange({a}, {}, {f}, {}, {<<a, f>>}, {})
  PROVE  Wired(up, joined, rings, music)'
<1> DEFINE O == Ending({a}, {})
           A == {a} \cup O
           V == (up \cup {f}) \ O
           K == {p \in joined : p \cap A = {}}
           Q == {c \in rings : Legs(c) \cap A = {}}
           N == music \ A
<1>1. O \subseteq up \ {a}
  BY DEF LeftBy, Ending
<1>2. Wired(V, K, Q, N) /\ Lone(a, K, Q, N) /\ Lone(f, K, Q, N)
  BY LegsPart
<1>3. Wired(V, K, Q \cup {<<a, f>>}, N)
  BY <1>1, <1>2, LegsCall
<1>4. up' = V /\ joined' = K /\ rings' = Q \cup {<<a, f>>} /\ music' = N
  BY DEF LegsChange
<1> HIDE DEF V, K, Q, N
<1> QED BY <1>3, <1>4 DEF Wired, Legs

LEMMA WaitWired ==
  ASSUME Wired(up, joined, rings, music), NEW w \in up, LegsChange({w}, {}, {}, {}, {}, {w})
  PROVE  Wired(up, joined, rings, music)'
<1> DEFINE O == Ending({w}, {})
           A == {w} \cup O
           V == (up \cup {}) \ O
           K == {p \in joined : p \cap A = {}}
           Q == {c \in rings : Legs(c) \cap A = {}}
           N == music \ A
<1>1. O \subseteq up \ {w}
  BY DEF LeftBy, Ending
<1>2. Wired(V, K, Q, N) /\ Lone(w, K, Q, N)
  BY LegsPart
<1>3. Wired(V, K, Q, N \cup {w})
  BY <1>1, <1>2, LegsWait
<1>4. up' = V /\ joined' = K /\ rings' = Q /\ music' = N \cup {w}
  BY DEF LegsChange
<1> HIDE DEF V, K, Q, N
<1> QED BY <1>3, <1>4 DEF Wired, Legs

LEMMA SeqGrows ==
  ASSUME NEW A, NEW B, A \subseteq B, NEW s \in Seq(A)
  PROVE  s \in Seq(B)
OBVIOUS

LEMMA SeqJoins ==
  ASSUME NEW A, NEW s \in Seq(A), NEW t \in Seq(A)
  PROVE  s \o t \in Seq(A)
OBVIOUS

(* The elements of a finite set in some order are a sequence of them.      *)
LEMMA InOrder ==
  ASSUME NEW S, IsFiniteSet(S)
  PROVE  Ext!SetToSeq(S) \in Seq(S)
<1>1. Cardinality(S) \in Nat /\ ExistsBijection(1..Cardinality(S), S)
  BY FS_CardinalityType
<1>2. PICK f \in [1..Cardinality(S) -> S] : Ext!IsInjective(f)
  BY <1>1 DEF ExistsBijection, Bijection, Injection, IsInjective, Ext!IsInjective
<1>3. Ext!Cardinality(S) = Cardinality(S)
  BY DEF Cardinality, Ext!Cardinality
<1>4. Ext!SetToSeq(S) \in [1..Cardinality(S) -> S]
  BY <1>2, <1>3 DEF Ext!SetToSeq
<1> QED BY <1>1, <1>4

Said(kind, l) == [is |-> kind, of |-> l, with |-> "none"]

LEMMA SaysInOrder ==
  ASSUME NEW kind, NEW who, IsFiniteSet(who)
  PROVE  Says(kind, who) \in Seq({Said(kind, l) : l \in who})
<1> DEFINE T == {Said(kind, l) : l \in who}
           f == [l \in who |-> Said(kind, l)]
<1>1. f \in Bijection(who, T)
  <2>1. \A l \in who : f[l].of = l
    BY DEF Said
  <2>2. f \in [who -> T] /\ \A t \in T : \E l \in who : f[l] = t
    OBVIOUS
  <2> QED BY <2>1, <2>2 DEF Bijection, Injection, Surjection, IsInjective
<1>2. IsFiniteSet(T)
  BY <1>1, FS_Bijection DEF ExistsBijection
<1>3. Says(kind, who) = Ext!SetToSeq(T)
  BY DEF Says, Said
<1> QED BY <1>2, <1>3, InOrder

(* What the registry is told of a change is right when it was, and what    *)
(* was still to be told stays right.                                       *)
LEMMA UnseenStays ==
  ASSUME UnseenRight, NEW F, NEW B, NEW O, Tells(F, B, O), IsFiniteSet(F), IsFiniteSet(B), IsFiniteSet(O),
         NEW P, P = {e \in Event : EventRight(e)}', {e \in Event : EventRight(e)} \subseteq P,
         {Said("made", l) : l \in F} \subseteq P, B \subseteq P, {Said("ended", l) : l \in O} \subseteq P
  PROVE  UnseenRight'
<1>1. unseen \in Seq(P)
  BY SeqGrows DEF UnseenRight
<1>2. Says("made", F) \in Seq(P) /\ Says("ended", O) \in Seq(P)
  <2>1. Says("made", F) \in Seq({Said("made", l) : l \in F})
    BY SaysInOrder
  <2>2. Says("ended", O) \in Seq({Said("ended", l) : l \in O})
    BY SaysInOrder
  <2> QED BY <2>1, <2>2, SeqGrows
<1>3. Ext!SetToSeq(B) \in Seq(P)
  BY InOrder, SeqGrows
<1>4. unseen' \in Seq(P)
  BY <1>1, <1>2, <1>3, SeqJoins DEF Tells
<1> QED BY <1>4 DEF UnseenRight

-----------------------------------------------------------------------------
(* What a change does to the legs.                                         *)

LEMMA UpAfter ==
  ASSUME NEW S, NEW E, NEW F, NEW J, NEW R, NEW M, LegsChange(S, E, F, J, R, M)
  PROVE  /\ up' \subseteq up \cup F
         /\ \A l \in up : l \notin E /\ l \notin LeftBy(S \cup E) => l \in up'
         /\ \A l \in S \ E : l \in up => l \in up'
         /\ up \ up' \subseteq Ending(S, E)
BY DEF LegsChange, Ending, LeftBy

LEMMA MusicStays ==
  ASSUME Wired(up, joined, rings, music), NEW S, NEW E, NEW F, NEW J, NEW R, NEW M,
         LegsChange(S, E, F, J, R, M), NEW l \in music, l \notin S \cup E
  PROVE  l \in music'
<1>1. l \notin LeftBy(S \cup E)
  BY DEF LeftBy, Wired, Legs
<1> QED BY <1>1 DEF LegsChange, Ending

Tied(x, b) == {x, b} \in joined \/ <<b, x>> \in rings

(* Nobody else leaves two who talk or call.                                *)
LEMMA TiesStay ==
  ASSUME Wired(up, joined, rings, music), NEW S, NEW E, NEW F, NEW J, NEW R, NEW M,
         LegsChange(S, E, F, J, R, M), NEW x, NEW b, Tied(x, b), x \notin S \cup E, b \notin S \cup E
  PROVE  Tied(x, b)'
<1>1. CASE {x, b} \in joined
  <2>1. x \notin LeftBy(S \cup E) /\ b \notin LeftBy(S \cup E)
    <3>1. \A p \in joined : x \in p \/ b \in p => p = {x, b}
      BY <1>1 DEF Wired
    <3>2. \A c \in rings : c[2] # x /\ c[2] # b
      BY <1>1 DEF Wired, Legs
    <3> QED BY <3>1, <3>2 DEF LeftBy
  <2> QED BY <1>1, <2>1 DEF LegsChange, Ending, Tied
<1>2. CASE <<b, x>> \in rings
  <2>1. Legs(<<b, x>>) = {b, x}
    BY DEF Legs
  <2>2. x \notin LeftBy(S \cup E) /\ b \notin LeftBy(S \cup E)
    <3>1. \A p \in joined : x \notin p /\ b \notin p
      BY <1>2, <2>1 DEF Wired
    <3>2. \A c \in rings : c[2] = x \/ c[2] = b => c = <<b, x>>
      BY <1>2, <2>1 DEF Wired, Legs
    <3> QED BY <3>1, <3>2 DEF LeftBy
  <2> QED BY <1>2, <2>1, <2>2 DEF LegsChange, Ending, Tied
<1> QED BY <1>1, <1>2 DEF Tied

(* Whoever is left by whom they talk to, or are called by, ends.           *)
LEMMA LeftBehind ==
  ASSUME Wired(up, joined, rings, music), NEW S, NEW E, NEW x, NEW b, Tied(x, b),
         b \in S \cup E, x \notin S \cup E, x # "person"
  PROVE  x \in Ending(S, E)
<1>1. x \in up
  BY DEF Tied, Wired
<1> QED BY <1>1 DEF Tied, LeftBy, Ending

LEMMA NewTies ==
  ASSUME NEW S, NEW E, NEW F, NEW J, NEW R, NEW M, LegsChange(S, E, F, J, R, M), NEW x, NEW b, Tied(x, b)'
  PROVE  Tied(x, b) \/ {x, b} \in J \/ <<b, x>> \in R
BY DEF LegsChange, Tied

(* The facts about legs, the node's events and what is fresh that no       *)
(* change can take away.                                                   *)
LEMMA LegsStayRight ==
  ASSUME NodeRight, UnseenRight, NEW S, NEW E \in SUBSET up, NEW F \in SUBSET (Other \ used), IsFiniteSet(F),
         NEW J, NEW R, NEW M, LegsChange(S, E, F, J, R, M),
         NEW B, IsFiniteSet(B), Tells(F, B, Ending(S, E)),
         mine \subseteq mine', mine' \subseteq mine \cup F, B \subseteq {e \in Event : EventRight(e)}'
  PROVE  /\ up' \subseteq Channel /\ IsFiniteSet(up') /\ used' \subseteq Other /\ up' \cap Other \subseteq used'
         /\ mine' \subseteq used' /\ UnseenRight' /\ up' \cap used \subseteq up /\ used \subseteq used'
<1> DEFINE O == Ending(S, E)
<1>1. O \subseteq up /\ up' = (up \cup F) \ O /\ used' = used \cup F
  BY DEF LegsChange, Ending, LeftBy
<1>2. up' \subseteq Channel /\ used' \subseteq Other /\ up' \cap Other \subseteq used' /\ mine' \subseteq used'
  BY <1>1 DEF NodeRight, Channel
<1>3. IsFiniteSet(up') /\ IsFiniteSet(O)
  <2>1. IsFiniteSet(up \cup F)
    BY FS_Union DEF NodeRight
  <2> QED BY <1>1, <2>1, FS_Subset DEF NodeRight
<1>4. {e \in Event : EventRight(e)} \subseteq {e \in Event : EventRight(e)}'
  <2> SUFFICES ASSUME NEW e \in Event, EventRight(e) PROVE EventRight(e)'
    BY DEF Event
  <2>1. e.of \in Channel /\ (e.of \notin F) /\ (e.of \in Other => e.of \in used')
    BY <1>1, AttendedTransferAssumption DEF Event, EventRight, Channel
  <2>2. e.is = "ended" => e.of \notin up'
    BY <1>1, <2>1 DEF EventRight
  <2>3. e.is = "bridged" => e.with \notin F /\ (e.with \in Other => e.with \in used')
    BY <1>1 DEF EventRight
  <2> QED BY <2>1, <2>2, <2>3 DEF EventRight
<1>5. {Said("made", l) : l \in F} \subseteq {e \in Event : EventRight(e)}'
  <2> SUFFICES ASSUME NEW l \in F PROVE Said("made", l) \in Event /\ EventRight(Said("made", l))'
    BY DEF Event
  <2> QED BY <1>1 DEF Said, Event, Channel, EventRight
<1>6. {Said("ended", l) : l \in O} \subseteq {e \in Event : EventRight(e)}'
  <2> SUFFICES ASSUME NEW l \in O PROVE Said("ended", l) \in Event /\ EventRight(Said("ended", l))'
    BY DEF Event
  <2>1. l \in Channel /\ l \notin up' /\ (l \in Other => l \in used')
    BY <1>1 DEF NodeRight
  <2> QED BY <2>1 DEF Said, Event, EventRight
<1>7. UnseenRight'
  BY ZenonT(60), <1>3, <1>4, <1>5, <1>6, UnseenStays
<1> QED BY <1>1, <1>2, <1>3, <1>7

(* Legs are made fresh, and nobody's kind changes.                         *)
LegsKeep ==
  /\ up' \subseteq up \cup (Other \ used) /\ used \subseteq used'
  /\ mine \subseteq mine' /\ mine' \subseteq mine \cup (Other \ used)

LEMMA MadeIsFresh ==
  ASSUME NodeRight, NEW f \in Fresh
  PROVE  f \in Other \ used /\ f \notin up /\ f \notin timer /\ f \notin mine /\ f \notin {"person", "party", "none"}
BY AttendedTransferAssumption DEF NodeRight, Fresh, Channel

LEMMA EndsKeep ==
  ASSUME NodeRight, UnseenRight, NEW E \in SUBSET up, Becomes([Still EXCEPT !.ending = E]),
         UNCHANGED <<mine, timer, stays>>
  PROVE  NodeRight' /\ UnseenRight' /\ LegsKeep
<1>1. LegsChange({}, E, {}, {}, {}, {}) /\ Tells({}, {}, Ending({}, E))
  BY EndsChanges
<1>2. Wired(up, joined, rings, music)'
  BY <1>1, EndsWired DEF NodeRight
<1>3. /\ up' \subseteq Channel /\ IsFiniteSet(up') /\ used' \subseteq Other /\ up' \cap Other \subseteq used'
      /\ mine' \subseteq used' /\ UnseenRight' /\ used \subseteq used'
  BY <1>1, LegsStayRight, FS_EmptySet
<1>4. up' \subseteq up /\ rings' \subseteq rings
  BY <1>1 DEF LegsChange
<1> QED BY <1>2, <1>3, <1>4 DEF NodeRight, RingsRight, LegsKeep

LEMMA TalkKeeps ==
  ASSUME NodeRight, UnseenRight, NEW a \in up, NEW b \in up, a # b,
         a = "person" => b \notin mine, b = "person" => a \notin mine,
         Becomes([Still EXCEPT !.talking = {<<a, b>>}]), UNCHANGED <<mine, timer, stays>>
  PROVE  NodeRight' /\ UnseenRight' /\ LegsKeep
<1>1. LegsChange({a, b}, {}, {}, {{a, b}}, {}, {}) /\ Tells({}, {Bridged(a, b)}, Ending({a, b}, {}))
  BY TalkChanges
<1>2. Wired(up, joined, rings, music)'
  BY <1>1, TalkWired DEF NodeRight
<1>3. Bridged(a, b) \in {e \in Event : EventRight(e)}'
  <2>1. a \in Channel /\ b \in Channel /\ (a \in Other => a \in used) /\ (b \in Other => b \in used) /\ used' = used
    BY <1>1 DEF NodeRight, LegsChange
  <2> QED BY <2>1 DEF Bridged, Event, EventRight
<1>4. /\ up' \subseteq Channel /\ IsFiniteSet(up') /\ used' \subseteq Other /\ up' \cap Other \subseteq used'
      /\ mine' \subseteq used' /\ UnseenRight' /\ used \subseteq used'
  <2>1. IsFiniteSet({}) /\ IsFiniteSet({Bridged(a, b)})
    BY FS_EmptySet, FS_Singleton
  <2>2. {Bridged(a, b)} \subseteq {e \in Event : EventRight(e)}'
    BY <1>3
  <2> QED BY <1>1, <2>1, <2>2, LegsStayRight
<1>5. up' \subseteq up /\ rings' \subseteq rings
  BY <1>1 DEF LegsChange
<1> QED BY <1>2, <1>4, <1>5 DEF NodeRight, RingsRight, LegsKeep

LEMMA CallKeeps ==
  ASSUME NodeRight, UnseenRight, NEW a \in up, NEW f \in Fresh,
         Becomes([Still EXCEPT !.calling = {<<a, f>>}, !.made = {f}]),
         mine' = IF a = "person" THEN mine ELSE mine \cup {f}, timer' \subseteq timer, stays' = stays
  PROVE  NodeRight' /\ UnseenRight' /\ LegsKeep
<1>1. LegsChange({a}, {}, {f}, {}, {<<a, f>>}, {}) /\ Tells({f}, {}, Ending({a}, {}))
  BY CallChanges
<1>2. f \in Other \ used /\ f \notin up /\ f \notin mine
  BY MadeIsFresh
<1>3. Wired(up, joined, rings, music)'
  BY <1>1, <1>2, CallWired DEF NodeRight
<1>4. /\ up' \subseteq Channel /\ IsFiniteSet(up') /\ used' \subseteq Other /\ up' \cap Other \subseteq used'
      /\ mine' \subseteq used' /\ UnseenRight' /\ used \subseteq used'
  <2>1. IsFiniteSet({}) /\ IsFiniteSet({f}) /\ {f} \in SUBSET (Other \ used)
    BY <1>2, FS_EmptySet, FS_Singleton
  <2> QED BY <1>1, <2>1, LegsStayRight
<1>5. up' \subseteq up \cup {f} /\ rings' \subseteq rings \cup {<<a, f>>}
  BY <1>1 DEF LegsChange
<1>6. RingsRight'
  <2> SUFFICES ASSUME NEW c \in rings' PROVE c[2] \in Other /\ (c[2] \in mine' <=> c[1] # "person")
    BY DEF RingsRight
  <2>1. CASE c = <<a, f>>
    BY <1>2, <2>1
  <2>2. CASE c \in rings
    <3>1. c[2] \in up
      BY <2>2 DEF NodeRight, Wired
    <3> QED BY <1>2, <2>2, <3>1 DEF NodeRight, RingsRight
  <2> QED BY <1>5, <2>1, <2>2
<1> QED BY <1>2, <1>3, <1>4, <1>5, <1>6 DEF NodeRight, LegsKeep

LEMMA WaitKeeps ==
  ASSUME NodeRight, UnseenRight, NEW w \in up, Becomes([Still EXCEPT !.waiting = {w}]),
         UNCHANGED <<mine, timer, stays>>
  PROVE  NodeRight' /\ UnseenRight' /\ LegsKeep
<1>1. LegsChange({w}, {}, {}, {}, {}, {w}) /\ Tells({}, {}, Ending({w}, {}))
  BY WaitChanges
<1>2. Wired(up, joined, rings, music)'
  BY <1>1, WaitWired DEF NodeRight
<1>3. /\ up' \subseteq Channel /\ IsFiniteSet(up') /\ used' \subseteq Other /\ up' \cap Other \subseteq used'
      /\ mine' \subseteq used' /\ UnseenRight' /\ used \subseteq used'
  BY <1>1, LegsStayRight, FS_EmptySet
<1>4. up' \subseteq up /\ rings' \subseteq rings
  BY <1>1 DEF LegsChange
<1> QED BY <1>2, <1>3, <1>4 DEF NodeRight, RingsRight, LegsKeep

-----------------------------------------------------------------------------
(* What the registry and the requests have of the legs.                    *)

RegistryRight ==
  /\ known \subseteq Channel /\ known \cap Other \subseteq used /\ ("person" \in up => "person" \in known)
  /\ named \in [Channel -> Channel \cup {"none"}]
  /\ \A l \in Channel : named[l] # l /\ (named[l] \in Other => named[l] \in used)
  /\ named["person"] \notin mine /\ \A m \in mine : named[m] # "person"
  /\ \A l \in Other \ used : named[l] = "none"
  /\ held \in (Channel \cup {"none"}) \ ({"person"} \cup mine)
  /\ held \in Other => held \in used
  /\ held \in up => held \in known

Consulting == {"stay", "note", "hold", "schedule", "dial"}
Joining == {"join", "forget", "kill"}
Cancelling == {"back", "drop", "unstay", "clear"}

MoveRow ==
  [op : {"none", "consult", "complete", "cancel"}, at : {"idle"} \cup Steps,
   waiting : Channel \cup {"none"}, other : Channel \cup {"none"}]

(* Somebody a request speaks of is neither the person nor a ring-back.     *)
Names(l) == l \in Channel \ ({"person"} \cup mine) /\ (l \in Other => l \in used)

RowRight(m) ==
  /\ m \in MoveRow
  /\ m.at # "idle" => Names(m.waiting) /\ (m.waiting \in up => m.waiting \in known)
  /\ m.at \in Consulting => m.op = "consult"
  /\ m.at \in Joining => m.op = "complete"
  /\ m.at \in Cancelling => m.op = "cancel"
  /\ m.at = "join" => Names(m.other) /\ m.other # m.waiting

MovesRight == move \in [Request -> MoveRow] /\ \A r \in Request : RowRight(move[r])

PlaceInv ==
  /\ NodeRight /\ UnseenRight /\ RegistryRight /\ MovesRight
  /\ asks \in 0..MaxAsks /\ fails \in 0..MaxFails

LEMMA RowStays ==
  ASSUME NodeRight, LegsKeep, known' = known, NEW m, RowRight(m)
  PROVE  RowRight(m)'
<1>1. \A l : Names(l) => Names(l)'
  BY DEF Names, LegsKeep
<1>2. \A l : Names(l) /\ l \in up' => l \in up
  BY AttendedTransferAssumption DEF Names, LegsKeep, Channel
<1> QED BY <1>1, <1>2 DEF RowRight

LEMMA MovesStay ==
  ASSUME NodeRight, MovesRight, LegsKeep, known' = known, move' = move
  PROVE  MovesRight'
BY RowStays DEF MovesRight

LEMMA RegistryStays ==
  ASSUME NodeRight, RegistryRight, LegsKeep, UNCHANGED registered
  PROVE  RegistryRight'
<1>1. known' = known /\ named' = named /\ held' = held
  BY DEF registered
<1>2. "person" \in up' => "person" \in up
  BY AttendedTransferAssumption DEF LegsKeep
<1>3. held \in up' => held \in up
  BY AttendedTransferAssumption DEF LegsKeep, RegistryRight, Channel
<1>4. named["person"] \notin mine' /\ \A m \in mine' : named[m] # "person"
  BY DEF LegsKeep, RegistryRight, Channel
<1> QED BY <1>1, <1>2, <1>3, <1>4 DEF RegistryRight, LegsKeep

-----------------------------------------------------------------------------
(* Each step keeps these: first those of the node.                         *)
LEMMA NodeStepPlaces ==
  ASSUME PlaceInv, NodeRight', UnseenRight', LegsKeep, UNCHANGED <<registered, move, asks, fails>>
  PROVE  PlaceInv' /\ LegsKeep
BY MovesStay, RegistryStays DEF PlaceInv, registered

LEMMA HangUpKeeps ==
  ASSUME NodeRight, UnseenRight, NEW l, HangUp(l)
  PROVE  NodeRight' /\ UnseenRight' /\ LegsKeep
<1> DEFINE E == {l} \cup {c[1] : c \in {d \in rings : d[2] = l}}
<1>1. E \in SUBSET up
  BY DEF HangUp, NodeRight, Wired
<1> QED BY <1>1, EndsKeep DEF HangUp

LEMMA RingIsPair ==
  ASSUME NodeRight, NEW c \in rings
  PROVE  /\ c = <<c[1], c[2]>> /\ c[1] \in up /\ c[2] \in up /\ c[1] # c[2]
         /\ c[2] \in Other /\ c[2] # "person" /\ (c[2] \in mine <=> c[1] # "person")
<1>1. c \in up \X up /\ c[1] # c[2] /\ c[2] \in Other /\ (c[2] \in mine <=> c[1] # "person")
  BY DEF NodeRight, Wired, RingsRight
<1> QED BY <1>1, AttendedTransferAssumption

LEMMA PickUpKeeps ==
  ASSUME NodeRight, UnseenRight, NEW c, PickUp(c)
  PROVE  NodeRight' /\ UnseenRight' /\ LegsKeep
<1>1. /\ c \in rings /\ Becomes([Still EXCEPT !.talking = {<<c[1], c[2]>>}])
      /\ UNCHANGED <<mine, timer, stays>>
  BY RingIsPair DEF PickUp
<1> QED BY <1>1, RingIsPair, TalkKeeps

LEMMA NodeStays ==
  ASSUME NodeRight, UnseenRight, UNCHANGED <<up, joined, rings, music, used, mine, unseen>>,
         timer' \subseteq Channel \ {"person"}, timer' \cap Other \subseteq used, stays' \in BOOLEAN
  PROVE  NodeRight' /\ UnseenRight' /\ LegsKeep
<1>1. UnseenRight'
  BY DEF UnseenRight, EventRight
<1>2. Wired(up, joined, rings, music)' /\ RingsRight'
  BY DEF NodeRight, Wired, Legs, RingsRight
<1> QED BY <1>1, <1>2 DEF NodeRight, LegsKeep

LEMMA RingBackKeeps ==
  ASSUME NodeRight, UnseenRight, NEW l, RingBack(l)
  PROVE  NodeRight' /\ UnseenRight' /\ LegsKeep
<1>1. l \in timer /\ timer' = timer \ {l} /\ stays' = stays /\ l # "person"
  BY DEF RingBack, NodeRight
<1>2. CASE l \in up
  <2>1. PICK f \in Fresh : Becomes([Still EXCEPT !.calling = {<<l, f>>}, !.made = {f}]) /\ mine' = mine \cup {f}
    BY <1>2 DEF RingBack
  <2> QED BY <1>1, <1>2, <2>1, CallKeeps
<1>3. CASE l \notin up
  BY <1>1, <1>3, NodeStays DEF RingBack, NodeRight
<1> QED BY <1>2, <1>3

LEMMA NodePlaces ==
  ASSUME PlaceInv, NEW l, HangUp(l) \/ RingBack(l) \/ PickUp(l)
  PROVE  PlaceInv' /\ LegsKeep
<1>1. NodeRight' /\ UnseenRight' /\ LegsKeep
  BY HangUpKeeps, RingBackKeeps, PickUpKeeps DEF PlaceInv
<1>2. UNCHANGED <<registered, move, asks, fails>>
  BY DEF HangUp, RingBack, PickUp
<1> QED BY <1>1, <1>2, NodeStepPlaces

(* Event by event the registry is told nothing that is not so.             *)
LEMMA HearPlaces ==
  ASSUME PlaceInv, Hear
  PROVE  PlaceInv' /\ LegsKeep
<1> DEFINE e == Head(unseen)
           P == {x \in Event : EventRight(x)}
<1>1. unseen \in Seq(P) /\ unseen # <<>> /\ unseen' = Tail(unseen)
  BY DEF PlaceInv, UnseenRight, Hear
<1>2. e \in P /\ unseen' \in Seq(P)
  BY <1>1
<1>3. e \in Event /\ EventRight(e)
  BY <1>2
<1>4. /\ known' = IF e.is = "made" THEN known \cup {e.of} ELSE IF e.is = "ended" THEN known \ {e.of} ELSE known
      /\ named' = IF e.is = "bridged" /\ e.of \in known THEN [named EXCEPT ![e.of] = e.with]
                  ELSE IF e.is = "ended" THEN [named EXCEPT ![e.of] = "none"] ELSE named
      /\ held' = IF e.is = "ended" /\ e.of = "person" THEN "none" ELSE held
      /\ UNCHANGED <<up, joined, rings, music, stays, timer, used, mine, move, asks, fails>>
  BY DEF Hear
<1> HIDE DEF e, P
<1>5. P' = P
  BY <1>4 DEF P, Event, EventRight
<1>6. NodeRight' /\ UnseenRight'
  BY <1>2, <1>4, <1>5 DEF PlaceInv, NodeRight, Wired, Legs, RingsRight, UnseenRight, P
<1>7. e.of \in Channel /\ (e.of \in Other => e.of \in used) /\ (e.is = "ended" => e.of \notin up)
  BY <1>3 DEF Event, EventRight
<1>8. RegistryRight'
  <2>1. named' \in [Channel -> Channel \cup {"none"}]
    BY <1>3, <1>4, <1>7 DEF PlaceInv, RegistryRight, EventRight
  <2>2. ASSUME NEW l \in Channel
        PROVE  \/ named'[l] = named[l] \/ named'[l] = "none"
               \/ l = e.of /\ e.is = "bridged" /\ e.of \in known /\ named'[l] = e.with
    BY <1>4, <1>7 DEF PlaceInv, RegistryRight
  <2>3. ASSUME NEW l \in Channel PROVE named'[l] # l /\ (named'[l] \in Other => named'[l] \in used')
    BY <1>3, <1>4, <2>2, AttendedTransferAssumption DEF PlaceInv, RegistryRight, EventRight, Channel
  <2>4. named'["person"] \notin mine'
    BY <1>3, <1>4, <2>2, AttendedTransferAssumption DEF PlaceInv, RegistryRight, EventRight, Channel, NodeRight
  <2>5. \A m \in mine' : named'[m] # "person"
    BY <1>3, <1>4, <2>2, AttendedTransferAssumption DEF PlaceInv, RegistryRight, EventRight, Channel, NodeRight
  <2>6. \A l \in Other \ used' : named'[l] = "none"
    BY <1>4, <1>7, <2>2 DEF PlaceInv, RegistryRight, Channel
  <2>7. /\ known' \subseteq Channel /\ known' \cap Other \subseteq used' /\ ("person" \in up' => "person" \in known')
        /\ (held' \in up' => held' \in known')
    BY <1>4, <1>7, AttendedTransferAssumption DEF PlaceInv, RegistryRight, NodeRight
  <2>8. held' \in (Channel \cup {"none"}) \ ({"person"} \cup mine') /\ (held' \in Other => held' \in used')
    BY <1>4, AttendedTransferAssumption DEF PlaceInv, RegistryRight, NodeRight, Channel
  <2> QED BY <2>1, <2>3, <2>4, <2>5, <2>6, <2>7, <2>8 DEF RegistryRight
<1>9. MovesRight'
  <2>1. ASSUME NEW m, RowRight(m) PROVE RowRight(m)'
    BY <1>4, <1>7, <2>1 DEF RowRight, Names
  <2> QED BY <1>4, <2>1 DEF PlaceInv, MovesRight
<1>10. LegsKeep
  BY <1>4 DEF LegsKeep
<1> QED BY <1>4, <1>6, <1>8, <1>9, <1>10 DEF PlaceInv

(* One request goes on, as its row says; the others are where they were.   *)
LEMMA MovesGoOn ==
  ASSUME NodeRight, MovesRight, LegsKeep, known' = known,
         NEW r \in Request, NEW m, RowRight(m)', move' = [move EXCEPT ![r] = m]
  PROVE  MovesRight'
<1>1. ASSUME NEW q \in Request, NEW n, n = move'[q] PROVE RowRight(n)'
  <2>1. CASE q = r
    <3>1. n = m
      BY <1>1, <2>1 DEF MovesRight
    <3> QED BY <3>1
  <2>2. CASE q # r
    <3>1. n = move[q]
      BY <1>1, <2>2 DEF MovesRight
    <3>2. RowRight(n)
      BY <3>1 DEF MovesRight
    <3> QED BY <3>2, RowStays
  <2> QED BY <2>1, <2>2
<1>2. \A q \in Request : RowRight(move[q])'
  BY <1>1 DEF RowRight, Names
<1>3. m \in MoveRow
  BY DEF RowRight, MoveRow, Channel
<1> QED BY <1>2, <1>3 DEF MovesRight, MoveRow, Channel

(* A request that is taken on speaks of legs of calls the registry has.    *)
LEMMA AskPlaces ==
  ASSUME PlaceInv, NEW r \in Request, AskFor(r)
  PROVE  PlaceInv' /\ LegsKeep
<1>1. /\ UNCHANGED <<up, joined, rings, music, stays, timer, used, mine, unseen, known, named, held, fails>>
      /\ asks < MaxAsks /\ asks' = asks + 1 /\ "person" \in known
  BY DEF AskFor, node, registered
<1>2. NodeRight' /\ UnseenRight' /\ LegsKeep
  BY <1>1, NodeStays DEF PlaceInv, NodeRight
<1>3. RegistryRight'
  BY <1>1, <1>2, RegistryStays DEF PlaceInv, registered
<1>4. asks' \in 0..MaxAsks /\ fails' \in 0..MaxFails
  BY <1>1, AttendedTransferAssumption DEF PlaceInv
<1>5. \A l \in known : l # "person" /\ l \notin mine => Names(l)
  BY DEF PlaceInv, RegistryRight, Names
<1>6. held \in known => held # "person" /\ held \notin mine
  BY DEF PlaceInv, RegistryRight
<1>7. \A x, w : w \in BridgedWith(x) \cap known => w # "person" /\ w \notin mine
  BY <1>1 DEF BridgedWith, PlaceInv, RegistryRight
<1>8. PICK m : RowRight(m) /\ move' = [move EXCEPT ![r] = m]
  <2>1. CASE Consult(r)
    <3>1. PICK w \in BridgedWith("none") \cap known :
            move' = [move EXCEPT ![r] = [op |-> "consult", at |-> "stay", waiting |-> w, other |-> "none"]]
      BY <2>1 DEF Consult
    <3> DEFINE m == [op |-> "consult", at |-> "stay", waiting |-> w, other |-> "none"]
    <3>2. RowRight(m)
      BY <1>5, <1>7 DEF RowRight, MoveRow, Names, Consulting, Joining, Cancelling, Steps
    <3> QED BY <3>1, <3>2
  <2>2. CASE Complete(r)
    <3>1. PICK c \in (BridgedWith(held) \cap known) \ {held} :
            held \in known /\ move' = [move EXCEPT ![r] = [op |-> "complete", at |-> "join", waiting |-> held, other |-> c]]
      BY <2>2 DEF Complete
    <3> DEFINE m == [op |-> "complete", at |-> "join", waiting |-> held, other |-> c]
    <3>2. Names(held) /\ Names(c) /\ c # held
      BY <1>5, <1>6, <1>7, <3>1
    <3>3. RowRight(m)
      BY <3>1, <3>2 DEF RowRight, MoveRow, Names, Consulting, Joining, Cancelling, Steps
    <3> QED BY <3>1, <3>3
  <2>3. CASE Cancel(r)
    <3> DEFINE m == [op |-> "cancel", at |-> "back", waiting |-> held, other |-> "none"]
    <3>1. held \in known /\ move' = [move EXCEPT ![r] = m]
      BY <2>3 DEF Cancel
    <3>2. RowRight(m)
      BY <1>5, <1>6, <3>1 DEF RowRight, MoveRow, Names, Consulting, Joining, Cancelling, Steps
    <3> QED BY <3>1, <3>2
  <2> QED BY <2>1, <2>2, <2>3 DEF AskFor
<1>9. MovesRight'
  <2>1. RowRight(m)'
    BY <1>1, <1>2, <1>8, RowStays DEF PlaceInv
  <2> QED BY <1>1, <1>2, <1>8, <2>1, MovesGoOn DEF PlaceInv
<1> QED BY <1>2, <1>3, <1>4, <1>9 DEF PlaceInv

GoesOn(at, next) ==
  \/ next = "idle"
  \/ /\ next # "join"
     /\ {at, next} \subseteq Consulting \/ {at, next} \subseteq Joining \/ {at, next} \subseteq Cancelling

LEMMA ThenPlaces ==
  ASSUME NodeRight, MovesRight, LegsKeep, known' = known,
         NEW r \in Request, NEW next, GoesOn(move[r].at, next), Then(r, next)
  PROVE  MovesRight'
<1> DEFINE m == IF next = "idle" THEN Idle ELSE [move[r] EXCEPT !.at = next]
<1>1. move' = [move EXCEPT ![r] = m]
  BY DEF Then, MovesRight
<1>2. RowRight(move[r]) /\ move[r] \in MoveRow
  BY DEF MovesRight
<1>3. CASE next = "idle"
  <2>1. RowRight(Idle)
    BY DEF RowRight, Idle, MoveRow, Consulting, Joining, Cancelling
  <2> QED BY <1>1, <1>3, <2>1, RowStays, MovesGoOn
<1>4. CASE next # "idle"
  <2>1. /\ m \in MoveRow /\ m.at = next /\ m.op = move[r].op /\ m.waiting = move[r].waiting
    BY <1>2, <1>4 DEF MoveRow, GoesOn, Consulting, Joining, Cancelling, Steps
  <2>2. move[r].at # "idle" /\ next # "join"
    BY <1>4 DEF GoesOn, Consulting, Joining, Cancelling
  <2>3. RowRight(m)
    BY <1>2, <1>4, <2>1, <2>2 DEF RowRight, GoesOn, Consulting, Joining, Cancelling
  <2> HIDE DEF m
  <2> QED BY <1>1, <2>3, RowStays, MovesGoOn
<1> QED BY <1>3, <1>4

(* What a command leaves of the registry and of the rest.                  *)
LEMMA CommandPlaces ==
  ASSUME PlaceInv, NodeRight', UnseenRight', LegsKeep, NEW r \in Request, NEW next,
         GoesOn(move[r].at, next), Then(r, next), UNCHANGED <<registered, asks, fails>>
  PROVE  PlaceInv' /\ LegsKeep
BY ThenPlaces, RegistryStays DEF PlaceInv, registered

LEMMA NoSuchPlaces ==
  ASSUME PlaceInv, NEW r \in Request, NEW who, NoSuch(r, who), UNCHANGED <<known, named, asks, fails>>
  PROVE  PlaceInv' /\ LegsKeep
<1>1. UNCHANGED <<up, joined, rings, music, stays, timer, used, mine, unseen, held>> /\ Then(r, "idle")
  BY DEF NoSuch, node
<1>2. NodeRight' /\ UnseenRight' /\ LegsKeep
  BY <1>1, NodeStays DEF PlaceInv, NodeRight
<1> QED BY <1>1, <1>2, CommandPlaces DEF GoesOn, registered

LEMMA StaysPlaces ==
  ASSUME PlaceInv, NEW r \in Request, Stay(r) \/ Unstay(r)
  PROVE  PlaceInv' /\ LegsKeep
<1>1. CASE NoSuch(r, {"person"}) /\ UNCHANGED <<known, named, asks, fails>>
  BY <1>1, NoSuchPlaces
<1>2. CASE ~NoSuch(r, {"person"})
  <2>1. PICK next : /\ UNCHANGED <<up, joined, rings, music, timer, used, mine, unseen, held, known, named, asks, fails>>
                    /\ stays' \in BOOLEAN /\ Then(r, next) /\ GoesOn(move[r].at, next)
    BY <1>2 DEF Stay, Unstay, Stays, GoesOn, Consulting, Cancelling
  <2>2. NodeRight' /\ UnseenRight' /\ LegsKeep
    BY <2>1, NodeStays DEF PlaceInv, NodeRight
  <2> QED BY <2>1, <2>2, CommandPlaces DEF registered
<1> QED BY <1>1, <1>2 DEF Stay, Unstay, Stays

LEMMA RememberPlaces ==
  ASSUME PlaceInv, NEW r \in Request, Remember(r)
  PROVE  PlaceInv' /\ LegsKeep
<1>1. PICK next, value : /\ UNCHANGED <<node, known, named, asks, fails>> /\ Then(r, next) /\ GoesOn(move[r].at, next)
                         /\ value = "none" \/ (value = move[r].waiting /\ move[r].at # "idle")
                         /\ held' = IF "person" \in known THEN value ELSE held
  BY DEF Remember, Notes, GoesOn, Consulting, Cancelling
<1>2. NodeRight' /\ UnseenRight' /\ LegsKeep
  BY <1>1, NodeStays DEF PlaceInv, NodeRight, node
<1>3. MovesRight'
  BY <1>1, <1>2, ThenPlaces DEF PlaceInv
<1>4. RegistryRight'
  <2>1. RowRight(move[r])
    BY DEF PlaceInv, MovesRight
  <2>2. value \in (Channel \cup {"none"}) \ ({"person"} \cup mine) /\ (value \in Other => value \in used)
        /\ (value \in up => value \in known)
    BY <1>1, <2>1, AttendedTransferAssumption DEF RowRight, Names, PlaceInv, NodeRight, Channel
  <2> QED BY <1>1, <2>2 DEF PlaceInv, RegistryRight, node
<1> QED BY <1>1, <1>2, <1>3, <1>4 DEF PlaceInv

LEMMA HoldPlaces ==
  ASSUME PlaceInv, NEW r \in Request, Hold(r)
  PROVE  PlaceInv' /\ LegsKeep
<1> DEFINE w == move[r].waiting
<1>1. CASE NoSuch(r, {w})
  BY <1>1, NoSuchPlaces DEF Hold
<1>2. CASE ~NoSuch(r, {w})
  <2>1. /\ move[r].at = "hold" /\ w \in up /\ Becomes([Still EXCEPT !.waiting = {w}]) /\ Then(r, "schedule")
        /\ UNCHANGED <<stays, timer, mine, held, known, named, asks, fails>>
    BY <1>2 DEF Hold
  <2>2. NodeRight' /\ UnseenRight' /\ LegsKeep
    BY <2>1, WaitKeeps DEF PlaceInv
  <2> QED BY <2>1, <2>2, CommandPlaces DEF registered, GoesOn, Consulting
<1> QED BY <1>1, <1>2

LEMMA SchedulePlaces ==
  ASSUME PlaceInv, NEW r \in Request, Schedule(r) \/ Forget(r)
  PROVE  PlaceInv' /\ LegsKeep
<1>1. move[r].at # "idle"
  BY DEF Schedule, Forget, Forgets
<1>2. Names(move[r].waiting)
  BY <1>1 DEF PlaceInv, MovesRight, RowRight
<1>3. PICK next : /\ UNCHANGED <<up, joined, rings, music, stays, used, mine, unseen, registered, asks, fails>>
                  /\ Then(r, next) /\ GoesOn(move[r].at, next)
                  /\ timer' \subseteq timer \cup {move[r].waiting}
  BY DEF Schedule, Forget, Forgets, GoesOn, Consulting, Joining, Cancelling
<1>4. NodeRight' /\ UnseenRight' /\ LegsKeep
  BY <1>2, <1>3, NodeStays DEF PlaceInv, NodeRight, Names
<1> QED BY <1>3, <1>4, CommandPlaces

LEMMA DialPlaces ==
  ASSUME PlaceInv, NEW r \in Request, Dial(r)
  PROVE  PlaceInv' /\ LegsKeep
<1>1. CASE NoSuch(r, {"person"})
  BY <1>1, NoSuchPlaces DEF Dial
<1>2. CASE ~NoSuch(r, {"person"})
  <2>1. PICK f \in Fresh :
          /\ move[r].at = "dial" /\ "person" \in up /\ Becomes([Still EXCEPT !.calling = {<<"person", f>>}, !.made = {f}])
          /\ Then(r, "idle") /\ UNCHANGED <<stays, timer, mine, held, known, named, asks, fails>>
    BY <1>2 DEF Dial
  <2>2. NodeRight' /\ UnseenRight' /\ LegsKeep
    BY <2>1, CallKeeps DEF PlaceInv
  <2> QED BY <2>1, <2>2, CommandPlaces DEF registered, GoesOn
<1> QED BY <1>1, <1>2

LEMMA BridgePlaces ==
  ASSUME PlaceInv, NEW r \in Request, NEW step, NEW a, NEW b, NEW next, Bridge(r, step, a, b, next),
         a # b, a = "person" => b \notin mine, b # "person", GoesOn(step, next)
  PROVE  PlaceInv' /\ LegsKeep
<1>1. CASE NoSuch(r, {a, b})
  BY <1>1, NoSuchPlaces DEF Bridge
<1>2. CASE ~NoSuch(r, {a, b})
  <2>1. /\ move[r].at = step /\ {a, b} \subseteq up /\ Becomes([Still EXCEPT !.talking = {<<a, b>>}])
        /\ Then(r, next) /\ UNCHANGED <<stays, timer, mine, held, known, named, asks, fails>>
    BY <1>2 DEF Bridge
  <2>2. NodeRight' /\ UnseenRight' /\ LegsKeep
    BY <2>1, TalkKeeps DEF PlaceInv
  <2> QED BY <2>1, <2>2, CommandPlaces DEF registered
<1> QED BY <1>1, <1>2

LEMMA JoinPlaces ==
  ASSUME PlaceInv, NEW r \in Request, Join(r) \/ Back(r)
  PROVE  PlaceInv' /\ LegsKeep
<1>1. RowRight(move[r])
  BY DEF PlaceInv, MovesRight
<1>2. CASE Join(r)
  <2>1. move[r].waiting # move[r].other /\ move[r].waiting # "person" /\ move[r].other # "person"
    BY <1>1, <1>2 DEF Join, Bridge, RowRight, Names
  <2>2. Bridge(r, "join", move[r].waiting, move[r].other, "forget") /\ GoesOn("join", "forget")
    BY <1>2 DEF Join, GoesOn, Joining
  <2> QED BY <2>1, <2>2, BridgePlaces
<1>3. CASE Back(r)
  <2>1. move[r].waiting # "person" /\ move[r].waiting \notin mine
    BY <1>1, <1>3 DEF Back, Bridge, RowRight, Names
  <2>2. Bridge(r, "back", "person", move[r].waiting, "drop") /\ GoesOn("back", "drop")
    BY <1>3 DEF Back, GoesOn, Cancelling
  <2> QED BY <2>1, <2>2, BridgePlaces
<1> QED BY <1>2, <1>3

LEMMA KillPlaces ==
  ASSUME PlaceInv, NEW r \in Request, Kill(r)
  PROVE  PlaceInv' /\ LegsKeep
<1>1. Then(r, "idle") /\ UNCHANGED <<stays, timer, mine, registered, asks, fails>>
  BY DEF Kill
<1>2. NodeRight' /\ UnseenRight' /\ LegsKeep
  <2>1. CASE "person" \in up
    BY <1>1, <2>1, EndsKeep DEF Kill, PlaceInv
  <2>2. CASE "person" \notin up
    BY <1>1, <2>2, NodeStays DEF Kill, PlaceInv, NodeRight
  <2> QED BY <2>1, <2>2
<1> QED BY <1>1, <1>2, CommandPlaces DEF GoesOn

LEMMA FailPlaces ==
  ASSUME PlaceInv, NEW r \in Request, Fail(r)
  PROVE  PlaceInv' /\ LegsKeep
<1>1. PICK next : /\ UNCHANGED <<node, registered, asks>> /\ Then(r, next) /\ GoesOn(move[r].at, next)
                  /\ fails < MaxFails /\ fails' = fails + 1
  BY DEF Fail, GoesOn, Joining, Cancelling
<1>2. NodeRight' /\ UnseenRight' /\ LegsKeep
  BY <1>1, NodeStays DEF PlaceInv, NodeRight, node
<1>3. MovesRight' /\ RegistryRight'
  BY <1>1, <1>2, ThenPlaces, RegistryStays DEF PlaceInv, registered
<1> QED BY <1>1, <1>2, <1>3, AttendedTransferAssumption DEF PlaceInv

LEMMA PlaceStep ==
  ASSUME PlaceInv, [TransferNext]_transferVars
  PROVE  PlaceInv' /\ LegsKeep
<1>1. CASE TransferNext
  BY <1>1, NodePlaces, HearPlaces, AskPlaces, StaysPlaces, RememberPlaces, HoldPlaces, SchedulePlaces, DialPlaces,
     JoinPlaces, KillPlaces, FailPlaces DEF TransferNext, Commands
<1>2. CASE UNCHANGED transferVars
  <2>1. NodeRight' /\ UnseenRight' /\ LegsKeep
    BY <1>2, NodeStays DEF PlaceInv, NodeRight, transferVars, node
  <2> QED BY <1>2, <2>1, NodeStepPlaces DEF transferVars
<1> QED BY <1>1, <1>2

LEMMA PlaceStarts == TransferInit => PlaceInv
<1> SUFFICES ASSUME TransferInit PROVE PlaceInv
  OBVIOUS
<1>1. up = {"person", "party"} /\ IsFiniteSet(up)
  <2>1. IsFiniteSet({"person"} \cup {"party"})
    BY FS_Singleton, FS_AddElement
  <2>2. {"person"} \cup {"party"} = {"person", "party"} /\ up = {"person", "party"}
    BY DEF TransferInit
  <2> QED BY <2>1, <2>2
<1>2. Wired(up, joined, rings, music)
  <2>1. joined = {{"person", "party"}} /\ rings = {} /\ music = {} /\ "person" # "party"
    BY DEF TransferInit
  <2> QED BY <1>1, <2>1 DEF Wired
<1>3. NodeRight
  BY <1>1, <1>2, AttendedTransferAssumption DEF TransferInit, NodeRight, RingsRight, Channel
<1>4. UnseenRight
  BY DEF TransferInit, UnseenRight
<1>5. RegistryRight
  <2>1. PICK caller \in up : named = [l \in Channel |-> IF l = caller THEN CHOOSE o \in up : o # l ELSE "none"]
    BY DEF TransferInit
  <2>2. (CHOOSE o \in up : o # caller) \in up \ {caller}
    BY <1>1, <2>1
  <2>3. \A l \in Channel : named[l] = IF l = caller THEN CHOOSE o \in up : o # caller ELSE "none"
    <3>1. ASSUME NEW l \in Channel PROVE named[l] = IF l = caller THEN CHOOSE o \in up : o # l ELSE "none"
      BY <2>1
    <3>2. ASSUME NEW l \in Channel PROVE named[l] = IF l = caller THEN CHOOSE o \in up : o # caller ELSE "none"
      <4>1. CASE l = caller
        BY <3>1, <4>1
      <4>2. CASE l # caller
        BY <3>1, <4>2
      <4> QED BY <4>1, <4>2
    <3> QED BY <3>2
  <2>4. named \in [Channel -> Channel \cup {"none"}]
    BY <1>1, <2>1, <2>2, <2>3 DEF Channel
  <2>5. \A l \in Channel : named[l] # l /\ named[l] \notin Other
    BY <1>1, <2>1, <2>2, <2>3, AttendedTransferAssumption DEF Channel
  <2>6. \A l \in Other : named[l] = "none"
    BY <1>1, <2>1, <2>3, AttendedTransferAssumption DEF Channel
  <2> QED BY <1>1, <2>4, <2>5, <2>6, AttendedTransferAssumption DEF TransferInit, RegistryRight, Channel
<1>6. MovesRight
  <2>1. RowRight(Idle) /\ Idle \in MoveRow
    BY DEF RowRight, Idle, MoveRow, Consulting, Joining, Cancelling
  <2> QED BY <2>1 DEF TransferInit, MovesRight
<1> QED BY <1>3, <1>4, <1>5, <1>6, AttendedTransferAssumption DEF TransferInit, PlaceInv

LEMMA PlacesAreTyped == PlaceInv => TransferTypeOK
<1> SUFFICES ASSUME PlaceInv PROVE TransferTypeOK
  OBVIOUS
<1>1. Wired(up, joined, rings, music)
  BY DEF PlaceInv, NodeRight
<1> QED BY <1>1, LegsAreCounted DEF PlaceInv, NodeRight, RegistryRight, TransferTypeOK

-----------------------------------------------------------------------------
(* One request at a time: the person's leg stays until the registry says   *)
(* that nobody waits.                                                      *)
OneAsks == \A r, s \in Request : r = s

StaysInHand == \A r \in Request : move[r].at \in {"note", "hold"} => stays \/ "person" \notin up

LEMMA ThenIs ==
  ASSUME MovesRight, NEW r \in Request, NEW next, Then(r, next)
  PROVE  /\ move'[r].at = next
         /\ next # "idle" => /\ move'[r].waiting = move[r].waiting
                             /\ move'[r].other = move[r].other /\ move'[r].op = move[r].op
<1>1. move'[r] = IF next = "idle" THEN Idle ELSE [move[r] EXCEPT !.at = next]
  BY DEF Then, MovesRight
<1> QED BY <1>1 DEF Idle, MovesRight, MoveRow

(* A step that leaves that mark and this way back, or makes both.          *)
LEMMA StaysSame ==
  ASSUME PlaceInv, LegsKeep, StaysInHand, UNCHANGED <<stays, move>>
  PROVE  StaysInHand' /\ (HeldMeansStays /\ held' \in {held, "none"} => HeldMeansStays')
<1>1. "person" \in up' => "person" \in up
  BY AttendedTransferAssumption DEF LegsKeep
<1> QED BY <1>1 DEF StaysInHand, HeldMeansStays

LEMMA StaysThen ==
  ASSUME PlaceInv, OneAsks, LegsKeep, StaysInHand, UNCHANGED stays, NEW r \in Request, NEW next, Then(r, next),
         next = "note" => FALSE, next = "hold" => move[r].at = "note"
  PROVE  StaysInHand' /\ (HeldMeansStays /\ held' \in {held, "none"} /\ move[r].at # "clear" => HeldMeansStays')
<1>1. "person" \in up' => "person" \in up
  BY AttendedTransferAssumption DEF LegsKeep
<1>2. move'[r].at = next /\ \A s \in Request : s = r
  BY ThenIs DEF PlaceInv, OneAsks
<1> QED BY <1>1, <1>2 DEF StaysInHand, HeldMeansStays

LEMMA WayStep ==
  ASSUME PlaceInv, OneAsks, StaysInHand, TransferNext
  PROVE  StaysInHand' /\ (HeldMeansStays /\ "clear" \notin MayFail => HeldMeansStays')
<1>1. PlaceInv' /\ LegsKeep
  BY PlaceStep
<1>2. ASSUME NEW l, HangUp(l) \/ RingBack(l) \/ PickUp(l) PROVE UNCHANGED <<stays, held, move>>
  BY <1>2 DEF HangUp, RingBack, PickUp, registered
<1>3. CASE Hear
  BY <1>1, <1>3, StaysSame DEF Hear
<1>4. ASSUME NEW r \in Request, AskFor(r) PROVE StaysInHand' /\ (HeldMeansStays => HeldMeansStays')
  <2>1. UNCHANGED <<stays, up, held>> /\ move[r].at = "idle" /\ move'[r].at \in {"stay", "join", "back"}
    BY <1>4 DEF AskFor, Consult, Complete, Cancel, node, registered, PlaceInv, MovesRight
  <2>2. \A s \in Request : s = r
    BY DEF OneAsks
  <2> QED BY <2>1, <2>2 DEF StaysInHand, HeldMeansStays
<1>5. ASSUME NEW r \in Request, Stay(r) \/ Unstay(r) PROVE StaysInHand' /\ (HeldMeansStays => HeldMeansStays')
  <2>1. CASE NoSuch(r, {"person"}) /\ UNCHANGED <<known, named, asks, fails>>
    BY <1>1, <1>5, <2>1, StaysThen DEF NoSuch, node, Stay, Unstay, Stays
  <2>2. CASE ~NoSuch(r, {"person"}) /\ Stay(r)
    <3>1. "person" \in up /\ stays' = TRUE
      BY <2>2 DEF Stay, Stays
    <3> QED BY <3>1 DEF StaysInHand, HeldMeansStays
  <2>3. CASE ~NoSuch(r, {"person"}) /\ Unstay(r)
    <3>1. Then(r, "clear") /\ \A s \in Request : s = r
      BY <2>3 DEF Unstay, Stays, OneAsks
    <3>2. move'[r].at = "clear"
      BY <3>1, ThenIs DEF PlaceInv
    <3> QED BY <3>1, <3>2 DEF StaysInHand, HeldMeansStays
  <2> QED BY <1>5, <2>1, <2>2, <2>3 DEF Stay, Unstay, Stays
<1>6. ASSUME NEW r \in Request, Remember(r) PROVE StaysInHand' /\ (HeldMeansStays => HeldMeansStays')
  <2>1. /\ UNCHANGED <<stays, up, known>> /\ ("person" \in up => "person" \in known)
        /\ \A s \in Request : s = r
    BY <1>6 DEF Remember, Notes, node, OneAsks, PlaceInv, RegistryRight
  <2>2. CASE Notes(r, "note", move[r].waiting, "hold")
    <3>1. move'[r].at = "hold" /\ move[r].at = "note"
      BY <2>2, ThenIs DEF Notes, PlaceInv
    <3> QED BY <2>1, <3>1 DEF StaysInHand, HeldMeansStays
  <2>3. CASE Notes(r, "clear", "none", "idle")
    <3>1. move'[r].at = "idle" /\ held' = IF "person" \in known THEN "none" ELSE held
      BY <2>3, ThenIs DEF Notes, PlaceInv
    <3> QED BY <2>1, <3>1 DEF StaysInHand, HeldMeansStays
  <2> QED BY <1>6, <2>2, <2>3 DEF Remember
<1>7. ASSUME NEW r \in Request, Hold(r) \/ Schedule(r) \/ Dial(r) \/ Join(r) \/ Back(r) \/ Forget(r) \/ Kill(r)
      PROVE  StaysInHand' /\ (HeldMeansStays => HeldMeansStays')
  <2>1. PICK next : Then(r, next) /\ UNCHANGED <<stays, held>> /\ next \notin {"note", "hold"} /\ move[r].at # "clear"
    BY <1>7 DEF Hold, Schedule, Dial, Join, Back, Bridge, Forget, Forgets, Kill, NoSuch, node, registered
  <2> QED BY <1>1, <2>1, StaysThen
<1>8. ASSUME NEW r \in Request, Fail(r)
      PROVE  StaysInHand' /\ (HeldMeansStays /\ "clear" \notin MayFail => HeldMeansStays')
  <2>1. PICK next : Then(r, next) /\ UNCHANGED <<stays, held>> /\ next \notin {"note", "hold"} /\ move[r].at \in MayFail
    BY <1>8 DEF Fail, node, registered
  <2> QED BY <1>1, <2>1, StaysThen
<1> QED BY <1>1, <1>2, <1>3, <1>4, <1>5, <1>6, <1>7, <1>8, StaysSame DEF TransferNext, Commands

-----------------------------------------------------------------------------
(* Who is up for whom.  Legs that were neither the person's nor made by a  *)
(* ring-back; and the legs up that a ring-back is scheduled for.           *)
Callers == up \ ({"person"} \cup mine)
Alive == timer \cap up

(* A ring-back is scheduled for the one who is held only, and they wait    *)
(* with music, unless they were just joined and it is about to be          *)
(* cancelled.                                                              *)
TimersRight ==
  \A l \in Alive :
    /\ l \in music \/ \E r \in Request : move[r].at \in {"forget", "drop"} /\ move[r].waiting = l
    /\ held = l \/ "person" \notin known

(* Besides whoever is held there is one caller at most, the person's or    *)
(* theirs.                                                                 *)
PartiesRight ==
  /\ "person" \in known => \A x, y \in Callers \ {held} : x = y
  /\ {"person", held} \subseteq up => \A x \in Callers \ {held} : Tied(x, "person") \/ Tied(x, held)
  /\ held \in Other \cap up => "party" \notin up

(* Who is there at each stage of a request.                                *)
StageRight(m) ==
  /\ m.at \in Steps \ {"stay", "note", "clear"} /\ "person" \in known => held = m.waiting
  /\ m.at \in {"stay", "note"} => held \notin up
  /\ m.at = "stay" /\ {"person", m.waiting} \subseteq up => Callers \subseteq {m.waiting}
  /\ m.at \in {"note", "hold"} /\ m.waiting \in up => Callers \subseteq {m.waiting}
  /\ m.at = "schedule" => m.waiting \in music \/ m.waiting \notin up
  /\ m.at = "join" /\ {m.waiting, m.other} \subseteq up => Callers \subseteq {m.waiting, m.other}
  /\ m.at \in {"schedule", "dial", "drop", "unstay", "clear"} => Callers \subseteq {m.waiting}
  /\ m.at \in {"schedule", "dial", "forget", "kill"} => \A x \in Callers : ~Tied(x, "person")
  /\ m.at \in {"stay", "note", "hold", "schedule", "kill", "unstay", "clear"} => Alive = {}
  /\ m.at \in {"join", "forget", "back", "drop"} => Alive \subseteq {m.waiting}

StagesRight == \A r \in Request : StageRight(move[r])

KeepInv == PlaceInv /\ StaysInHand /\ TimersRight /\ PartiesRight /\ StagesRight

(* What people and the scheduler do to the legs while a request is at one  *)
(* of its commands.                                                        *)
LegsSettle ==
  /\ Callers' \subseteq Callers /\ Alive' \subseteq Alive /\ ("person" \in up' => "person" \in up)
  /\ \A l \in music \cap up' : l \in music' \/ (l \in Alive /\ l \notin timer')
  /\ \A x \in Callers' : Tied(x, "person")' => Tied(x, "person")
  /\ {"person", held} \subseteq up' =>
       \A x \in Callers' \ {held}, b \in {"person", held} : Tied(x, b) => Tied(x, b)'

LEMMA CallersUp ==
  ASSUME PlaceInv, LegsKeep
  PROVE  /\ up' \cap {"person", "party"} \subseteq up /\ (held \in up' => held \in up)
         /\ \A l : Names(l) /\ l \in up' => l \in up
         /\ \A l : Names(l) /\ l \in up => l \in Callers
BY AttendedTransferAssumption DEF LegsKeep, PlaceInv, RegistryRight, Channel, Names, Callers

LEMMA SettledKeeps ==
  ASSUME KeepInv, LegsKeep, LegsSettle, UNCHANGED <<known, held, move>>
  PROVE  TimersRight' /\ PartiesRight' /\ StagesRight'
<1>1. /\ up' \cap {"person", "party"} \subseteq up /\ (held \in up' => held \in up)
      /\ \A l : Names(l) /\ l \in up' => l \in up
  BY CallersUp DEF KeepInv
<1>2. TimersRight'
  <2> SUFFICES ASSUME NEW l \in Alive'
               PROVE  /\ l \in music' \/ \E r \in Request : move[r].at \in {"forget", "drop"} /\ move[r].waiting = l
                      /\ held = l \/ "person" \notin known
    BY DEF TimersRight
  <2>1. l \in Alive /\ l \in timer' /\ l \in up'
    BY DEF LegsSettle, Alive
  <2> QED BY <2>1 DEF KeepInv, TimersRight, LegsSettle
<1>3. PartiesRight'
  BY <1>1 DEF KeepInv, PartiesRight, LegsSettle
<1>4. ASSUME NEW r \in Request PROVE StageRight(move[r])'
  <2>1. StageRight(move[r]) /\ RowRight(move[r])
    BY DEF KeepInv, StagesRight, PlaceInv, MovesRight
  <2>2. move[r].at # "idle" => Names(move[r].waiting)
    BY <2>1 DEF RowRight
  <2>3. move[r].at = "join" => Names(move[r].other)
    BY <2>1 DEF RowRight
  <2> DEFINE m == move[r]
  <2>4. move'[r] = m
    OBVIOUS
  <2> HIDE DEF m
  <2>5. StageRight(m) /\ (m.at # "idle" => Names(m.waiting)) /\ (m.at = "join" => Names(m.other))
    BY <2>1, <2>2, <2>3 DEF m
  <2>6. m.at = "schedule" => m.waiting \in music' \/ m.waiting \notin up'
    BY <1>1, <2>5 DEF StageRight, LegsSettle
  <2>7. m.at = "join" /\ {m.waiting, m.other} \subseteq up' => Callers' \subseteq {m.waiting, m.other}
    BY <1>1, <2>5 DEF StageRight, LegsSettle
  <2>8. /\ m.at \in {"schedule", "dial", "drop", "unstay", "clear"} => Callers' \subseteq {m.waiting}
        /\ m.at \in {"schedule", "dial", "forget", "kill"} => \A x \in Callers' : ~Tied(x, "person")'
        /\ m.at \in {"stay", "note", "hold", "schedule", "kill", "unstay", "clear"} => Alive' = {}
        /\ m.at \in {"join", "forget", "back", "drop"} => Alive' \subseteq {m.waiting}
    BY <2>5 DEF StageRight, LegsSettle
  <2>9. /\ m.at \in Steps \ {"stay", "note", "clear"} /\ "person" \in known => held = m.waiting
        /\ m.at \in {"stay", "note"} => held \notin up'
        /\ m.at = "stay" /\ {"person", m.waiting} \subseteq up' => Callers' \subseteq {m.waiting}
        /\ m.at \in {"note", "hold"} /\ m.waiting \in up' => Callers' \subseteq {m.waiting}
    BY <1>1, <2>5 DEF StageRight, LegsSettle, Steps
  <2> QED BY <2>4, <2>6, <2>7, <2>8, <2>9 DEF StageRight, m
<1> QED BY <1>2, <1>3, <1>4 DEF StagesRight

LEMMA HangUpSettles ==
  ASSUME PlaceInv, NEW l, HangUp(l)
  PROVE  LegsSettle
<1> DEFINE E == {l} \cup {c[1] : c \in {d \in rings : d[2] = l}}
<1>1. LegsChange({}, E, {}, {}, {}, {}) /\ UNCHANGED <<timer, mine>>
  BY EndsChanges DEF HangUp
<1>2. Wired(up, joined, rings, music)
  BY DEF PlaceInv, NodeRight
<1> HIDE DEF E
<1>3. /\ up' \subseteq up /\ (\A x \in up' : x \notin Ending({}, E)) /\ E \subseteq Ending({}, E)
      /\ joined' \subseteq joined /\ rings' \subseteq rings
  BY <1>1 DEF LegsChange, Ending
<1>4. \A m \in music \cap up' : m \in music'
  BY <1>1, <1>3 DEF LegsChange
<1>5. \A x, b \in up' : Tied(x, b) => Tied(x, b)'
  BY <1>1, <1>2, <1>3, TiesStay
<1>6. \A x : Tied(x, "person")' => Tied(x, "person")
  BY <1>3 DEF Tied
<1> QED BY <1>1, <1>3, <1>4, <1>5, <1>6 DEF LegsSettle, Callers, Alive

LEMMA PickUpSettles ==
  ASSUME PlaceInv, NEW c, PickUp(c)
  PROVE  LegsSettle
<1> DEFINE a == c[1]
           b == c[2]
<1>1. /\ c = <<a, b>> /\ <<a, b>> \in rings /\ a # b /\ b # "person"
      /\ Becomes([Still EXCEPT !.talking = {<<a, b>>}]) /\ UNCHANGED <<timer, mine>>
  BY RingIsPair DEF PickUp, PlaceInv
<1> HIDE DEF a, b
<1>2. LegsChange({a, b}, {}, {}, {{a, b}}, {}, {})
  BY <1>1, TalkChanges
<1>3. Wired(up, joined, rings, music)
  BY DEF PlaceInv, NodeRight
<1>4. up' \subseteq up /\ {a, b} \in joined'
  BY <1>2 DEF LegsChange
<1>5. Legs(<<a, b>>) = {a, b}
  BY DEF Legs
<1>6. \A m \in music : m \in music'
  <2> SUFFICES ASSUME NEW m \in music PROVE m \in music'
    OBVIOUS
  <2>1. m \notin {a, b}
    BY <1>1, <1>3, <1>5 DEF Wired
  <2> QED BY <1>2, <1>3, <2>1, MusicStays
<1>7. ASSUME NEW x, NEW y, Tied(x, y) PROVE Tied(x, y)'
  <2>1. CASE x \notin {a, b} /\ y \notin {a, b}
    BY <1>2, <1>3, <1>7, <2>1, TiesStay
  <2>2. CASE x \in {a, b} \/ y \in {a, b}
    <3>1. {x, y} \notin joined
      BY <1>1, <1>3, <1>5, <2>2 DEF Wired
    <3>2. <<y, x>> \in rings
      BY <1>7, <3>1 DEF Tied
    <3>3. Legs(<<y, x>>) = {x, y}
      BY DEF Legs
    <3>4. <<y, x>> = <<a, b>>
      BY <1>1, <1>3, <1>5, <2>2, <3>2, <3>3 DEF Wired
    <3>5. {x, y} = {a, b}
      BY <3>4
    <3> QED BY <1>4, <3>5 DEF Tied
  <2> QED BY <2>1, <2>2
<1>8. ASSUME NEW x, Tied(x, "person")' PROVE Tied(x, "person")
  <2>1. Tied(x, "person") \/ {x, "person"} = {a, b}
    BY <1>2, <1>8 DEF LegsChange, Tied
  <2>2. CASE {x, "person"} = {a, b}
    <3>1. a = "person" /\ x = b
      BY <1>1, <2>2
    <3> QED BY <1>1, <3>1 DEF Tied
  <2> QED BY <2>1, <2>2
<1> QED BY <1>1, <1>4, <1>6, <1>7, <1>8 DEF LegsSettle, Callers, Alive

LEMMA RingBackSettles ==
  ASSUME PlaceInv, TimersRight, NEW l, RingBack(l)
  PROVE  LegsSettle
<1>1. l \in timer /\ timer' = timer \ {l} /\ l # "person"
  BY DEF RingBack, PlaceInv, NodeRight
<1>2. CASE l \notin up
  <2>1. UNCHANGED <<up, joined, rings, music, mine>>
    BY <1>2 DEF RingBack
  <2> QED BY <1>1, <2>1 DEF LegsSettle, Callers, Alive, Tied
<1>3. CASE l \in up
  <2>1. PICK f \in Fresh : Becomes([Still EXCEPT !.calling = {<<l, f>>}, !.made = {f}]) /\ mine' = mine \cup {f}
    BY <1>3 DEF RingBack
  <2>2. LegsChange({l}, {}, {f}, {}, {<<l, f>>}, {})
    BY <2>1, CallChanges
  <2>3. f \notin up /\ f \notin timer /\ f # "person"
    BY MadeIsFresh DEF PlaceInv
  <2>4. Wired(up, joined, rings, music)
    BY DEF PlaceInv, NodeRight
  <2>5. up' \subseteq up \cup {f} /\ \A x \in up' : x \in Ending({l}, {}) => FALSE
    BY <2>2 DEF LegsChange
  <2>6. Callers' \subseteq Callers /\ Alive' \subseteq Alive /\ ("person" \in up' => "person" \in up)
    BY <1>1, <2>1, <2>3, <2>5 DEF Callers, Alive
  <2>7. \A m \in music : m \in music' \/ (m \in Alive /\ m \notin timer')
    <3> SUFFICES ASSUME NEW m \in music, m # l PROVE m \in music'
      BY <1>1, <1>3 DEF Alive
    <3> QED BY <2>2, <2>4, MusicStays
  <2>8. ASSUME NEW x, Tied(x, "person")' PROVE Tied(x, "person")
    <3>1. Tied(x, "person") \/ <<"person", x>> = <<l, f>>
      BY <2>2, <2>8 DEF LegsChange, Tied
    <3> QED BY <1>1, <3>1
  <2>9. ASSUME {"person", held} \subseteq up', NEW x \in Callers' \ {held}, NEW b \in {"person", held}, Tied(x, b)
        PROVE  Tied(x, b)'
    <3>1. "person" \in known
      BY <2>6, <2>9 DEF PlaceInv, RegistryRight
    <3>2. held = l
      BY <1>1, <1>3, <3>1 DEF TimersRight, Alive
    <3>3. x # "person" /\ x \in up'
      BY DEF Callers
    <3>4. b # l
      BY <2>4, <2>5, <2>9, <3>2, <3>3, LeftBehind
    <3> QED BY <2>2, <2>4, <2>9, <3>2, <3>4, TiesStay
  <2> QED BY <2>6, <2>7, <2>8, <2>9 DEF LegsSettle
<1> QED BY <1>2, <1>3

(* A command that cancels a ring-back does not fail.                       *)
Cancels == {"forget", "drop"} \cap MayFail = {}

(* The one request goes on as m.                                           *)
LEMMA StagesGoOn ==
  ASSUME OneAsks, NEW r \in Request, NEW m, m = move'[r], StageRight(m)'
  PROVE  StagesRight'
<1> SUFFICES ASSUME NEW q \in Request PROVE StageRight(move[q])'
  BY DEF StagesRight
<1>1. move'[q] = m
  BY DEF OneAsks
<1> QED BY <1>1 DEF StageRight

LEMMA StageNow ==
  ASSUME KeepInv, NEW r \in Request, NEW m, m = move[r]
  PROVE  /\ StageRight(m) /\ RowRight(m)
         /\ m.at # "idle" => Names(m.waiting)
         /\ m.at = "join" => Names(m.other) /\ m.other # m.waiting
BY DEF KeepInv, StagesRight, PlaceInv, MovesRight, RowRight

(* A step that only tells where the request is.                            *)
StaysPut == UNCHANGED <<up, joined, rings, music, timer, mine, known, held>>

LEMMA RestsKeep ==
  ASSUME KeepInv, OneAsks, StaysPut, NEW r \in Request, NEW m, m = move'[r], StageRight(m),
         move[r].at \notin {"forget", "drop"}
  PROVE  TimersRight' /\ PartiesRight' /\ StagesRight'
<1>1. Callers' = Callers /\ Alive' = Alive /\ \A x, b : Tied(x, b)' = Tied(x, b)
  BY DEF StaysPut, Callers, Alive, Tied
<1>2. StageRight(m)'
  BY <1>1 DEF StaysPut, StageRight
<1>3. StagesRight'
  BY <1>2, StagesGoOn
<1>4. TimersRight'
  <2>1. \A l \in Alive : l \in music /\ (held = l \/ "person" \notin known)
    BY DEF KeepInv, TimersRight, OneAsks
  <2> QED BY <1>1, <2>1 DEF StaysPut, TimersRight
<1>5. PartiesRight'
  BY <1>1 DEF StaysPut, KeepInv, PartiesRight
<1> QED BY <1>3, <1>4, <1>5

LEMMA IdleIsRight == StageRight(Idle)
BY DEF StageRight, Idle, Steps

LEMMA GoesIdle ==
  ASSUME KeepInv, OneAsks, StaysPut, NEW r \in Request, Then(r, "idle"), move[r].at \notin {"forget", "drop"}
  PROVE  TimersRight' /\ PartiesRight' /\ StagesRight'
<1>1. move'[r] = Idle
  BY DEF Then, KeepInv, PlaceInv, MovesRight
<1> QED BY <1>1, IdleIsRight, RestsKeep

LEMMA HearSettles ==
  ASSUME KeepInv, OneAsks, Hear
  PROVE  TimersRight' /\ PartiesRight' /\ StagesRight'
<1> DEFINE e == Head(unseen)
<1>1. e \in Event /\ EventRight(e)
  BY DEF KeepInv, PlaceInv, UnseenRight, Hear
<1>2. /\ known' = IF e.is = "made" THEN known \cup {e.of} ELSE IF e.is = "ended" THEN known \ {e.of} ELSE known
      /\ held' = IF e.is = "ended" /\ e.of = "person" THEN "none" ELSE held
      /\ UNCHANGED <<up, joined, rings, music, timer, mine, move>>
  BY DEF Hear
<1> HIDE DEF e
<1>3. "person" \in known' => "person" \in known /\ held' = held
  BY <1>1, <1>2, AttendedTransferAssumption DEF EventRight
<1>4. held' \in {held, "none"} /\ "none" \notin up /\ ("person" \in up => "person" \in known')
  BY <1>1, <1>2, AttendedTransferAssumption DEF EventRight, KeepInv, PlaceInv, NodeRight, RegistryRight
<1>5. Callers' = Callers /\ Alive' = Alive /\ \A x, b : Tied(x, b)' = Tied(x, b)
  BY <1>2 DEF Callers, Alive, Tied
<1>6. TimersRight'
  BY <1>2, <1>3, <1>5 DEF KeepInv, TimersRight
<1>7. PartiesRight'
  BY <1>2, <1>3, <1>4, <1>5 DEF KeepInv, PartiesRight
<1>8. ASSUME NEW r \in Request, NEW m, m = move[r] PROVE StageRight(m)'
  <2>1. StageRight(m)
    BY <1>8, StageNow
  <2> QED BY <1>2, <1>3, <1>4, <1>5, <2>1 DEF StageRight
<1>9. StagesRight'
  <2>1. ASSUME NEW r \in Request PROVE StagesRight'
    <3>1. ASSUME NEW m, m = move'[r] PROVE StagesRight'
      <4>1. StageRight(m)'
        BY <1>2, <1>8, <3>1
      <4> QED BY <3>1, <4>1, StagesGoOn
    <3> QED BY <3>1
  <2> QED BY <2>1 DEF StagesRight
<1> QED BY <1>6, <1>7, <1>9

(* A request is taken on for whoever is held, or when nobody is.           *)
LEMMA AskSettles ==
  ASSUME KeepInv, OneAsks, NEW r \in Request, AskFor(r)
  PROVE  TimersRight' /\ PartiesRight' /\ StagesRight'
<1>1. StaysPut /\ "person" \in known /\ move[r].at = "idle"
  BY DEF AskFor, node, registered, StaysPut
<1>2. \A l \in Alive : held = l
  BY <1>1 DEF KeepInv, TimersRight
<1>3. \A x, y \in Callers \ {held} : x = y
  BY <1>1 DEF KeepInv, PartiesRight
<1>4. RowRight(move'[r])
  <2>1. PlaceInv' /\ UNCHANGED <<up, known, used, mine>>
    BY AskPlaces DEF KeepInv, AskFor, node, registered
  <2>2. ASSUME NEW m, m = move'[r] PROVE RowRight(m)
    <3>1. RowRight(m)'
      <4>1. RowRight(move[r])'
        BY <2>1 DEF PlaceInv, MovesRight
      <4> QED BY <2>2, <4>1 DEF RowRight, Names
    <3> QED BY <2>1, <3>1 DEF RowRight, Names
  <2> QED BY <2>2
<1>5. ASSUME NEW l, Names(l), l \in up PROVE l \in Callers
  BY <1>5 DEF Names, Callers
<1>6. ASSUME NEW m, m = move'[r] PROVE StageRight(m)
  <2>1. move \in [Request -> MoveRow]
    BY DEF KeepInv, PlaceInv, MovesRight
  <2>2. CASE Consult(r)
    <3>1. PICK w : m = [op |-> "consult", at |-> "stay", waiting |-> w, other |-> "none"]
      BY <1>6, <2>1, <2>2 DEF Consult
    <3>2. held \notin up
      BY <2>2, AttendedTransferAssumption DEF Consult, KeepInv, PlaceInv, RegistryRight, NodeRight
    <3>3. Alive = {} /\ held \notin Callers
      BY <1>2, <3>2 DEF Alive, Callers
    <3>4. Names(w)
      BY <1>4, <1>6, <3>1 DEF RowRight
    <3>5. w \in up => Callers \subseteq {w}
      BY <1>3, <1>5, <3>3, <3>4
    <3> QED BY <3>1, <3>2, <3>3, <3>5 DEF StageRight
  <2>3. CASE Complete(r)
    <3>1. PICK c : m = [op |-> "complete", at |-> "join", waiting |-> held, other |-> c]
      BY <1>6, <2>1, <2>3 DEF Complete
    <3>2. Names(c) /\ c # held
      BY <1>4, <1>6, <3>1 DEF RowRight
    <3>3. c \in up => Callers \subseteq {held, c}
      BY <1>3, <1>5, <3>2
    <3> QED BY <1>2, <3>1, <3>3 DEF StageRight
  <2>4. CASE Cancel(r)
    <3>1. m = [op |-> "cancel", at |-> "back", waiting |-> held, other |-> "none"]
      BY <1>6, <2>1, <2>4 DEF Cancel
    <3> QED BY <1>2, <3>1 DEF StageRight
  <2> QED BY <2>2, <2>3, <2>4 DEF AskFor
<1> QED BY <1>1, <1>6, RestsKeep

(* Whom a request may end the call of.                                     *)
MayLeave(m) ==
  mine \cup (CASE m.op = "complete" -> {"person"}
               [] m.op = "cancel"   -> Other
               [] OTHER             -> {})

LEMMA NoSuchSettles ==
  ASSUME KeepInv, OneAsks, NEW r \in Request, NEW who, NoSuch(r, who), UNCHANGED known,
         move[r].at \notin {"forget", "drop"}
  PROVE  TimersRight' /\ PartiesRight' /\ StagesRight' /\ up' = up
BY GoesIdle DEF NoSuch, node, StaysPut

LEMMA StaySettles ==
  ASSUME KeepInv, OneAsks, NEW r \in Request, Stay(r) \/ Unstay(r)
  PROVE  TimersRight' /\ PartiesRight' /\ StagesRight' /\ up' = up
<1>1. CASE NoSuch(r, {"person"}) /\ UNCHANGED known
  BY <1>1, NoSuchSettles DEF Stay, Unstay, Stays
<1>2. CASE ~NoSuch(r, {"person"})
  <2>1. /\ "person" \in up /\ StaysPut
        /\ \/ move[r].at = "stay" /\ Then(r, "note")
           \/ move[r].at = "unstay" /\ Then(r, "clear")
    BY <1>2 DEF Stay, Unstay, Stays, StaysPut
  <2>2. StageRight(move[r])
    BY DEF KeepInv, StagesRight
  <2>3. ASSUME NEW m, m = move'[r] PROVE StageRight(m)
    <3>1. /\ m.waiting = move[r].waiting
          /\ \/ move[r].at = "stay" /\ m.at = "note"
             \/ move[r].at = "unstay" /\ m.at = "clear"
      BY <2>1, <2>3, ThenIs DEF KeepInv, PlaceInv
    <3> QED BY <2>1, <2>2, <3>1 DEF StageRight
  <2> QED BY <2>1, <2>3, RestsKeep DEF StaysPut
<1> QED BY <1>1, <1>2 DEF Stay, Unstay, Stays

(* The registry has who waits, before they do; and no longer, when they    *)
(* are with the person again.                                              *)
LEMMA RememberSettles ==
  ASSUME KeepInv, OneAsks, NEW r \in Request, Remember(r)
  PROVE  TimersRight' /\ PartiesRight' /\ StagesRight' /\ up' = up
<1> DEFINE w == move[r].waiting
<1>1. /\ UNCHANGED <<up, joined, rings, music, timer, mine, known>>
      /\ \/ move[r].at = "note" /\ Then(r, "hold") /\ held' = IF "person" \in known THEN w ELSE held
         \/ move[r].at = "clear" /\ Then(r, "idle") /\ held' = IF "person" \in known THEN "none" ELSE held
  BY DEF Remember, Notes, node
<1>2. Callers' = Callers /\ Alive' = Alive /\ \A x, b : Tied(x, b)' = Tied(x, b)
  BY <1>1 DEF Callers, Alive, Tied
<1>3. StageRight(move[r]) /\ Names(w) /\ "none" \notin up /\ ("person" \in up => "person" \in known)
  BY <1>1, AttendedTransferAssumption DEF KeepInv, StagesRight, PlaceInv, MovesRight, RowRight, NodeRight, RegistryRight
<1>4. Alive = {}
  BY <1>1, <1>3 DEF StageRight
<1>5. TimersRight'
  BY <1>2, <1>4 DEF TimersRight
<1>6. CASE move[r].at = "note"
  <2>1. /\ Then(r, "hold") /\ ("person" \in known => held' = w) /\ ("person" \notin known => held' = held)
    BY <1>1, <1>6
  <2>2. /\ move'[r].at = "hold" /\ move'[r].waiting = w
    BY <2>1, ThenIs DEF KeepInv, PlaceInv
  <2>3. held \notin up /\ (w \in up => Callers \subseteq {w})
    BY <1>3, <1>6 DEF StageRight
  <2>4. StagesRight'
    <3>1. ASSUME NEW m, m = move'[r] PROVE StagesRight'
      <4>1. StageRight(m)'
        BY <1>1, <1>2, <1>4, <2>1, <2>2, <2>3, <3>1 DEF StageRight
      <4> QED BY <3>1, <4>1, StagesGoOn
    <3> QED BY <3>1
  <2>5. held \notin Callers /\ (w \notin up => w \notin Callers)
    BY <2>3 DEF Callers
  <2>6. "person" \in known => \A x, y \in Callers \ {w} : x = y
    BY <2>3, <2>5 DEF KeepInv, PartiesRight
  <2>7. w \in Other \cap up => "party" \notin up
    <3>1. "party" \in up => "party" \in Callers
      BY AttendedTransferAssumption DEF Callers, KeepInv, PlaceInv, NodeRight
    <3> QED BY <2>3, <3>1, AttendedTransferAssumption
  <2>8. PartiesRight'
    BY <1>1, <1>2, <1>3, <2>1, <2>3, <2>6, <2>7 DEF KeepInv, PartiesRight
  <2> QED BY <1>1, <1>5, <2>4, <2>8
<1>7. CASE move[r].at = "clear"
  <2>1. Then(r, "idle") /\ held' = IF "person" \in known THEN "none" ELSE held
    BY <1>1, <1>7
  <2>2. move'[r] = Idle
    BY <2>1 DEF Then, KeepInv, PlaceInv, MovesRight
  <2>3. StagesRight'
    <3>1. StageRight(Idle)'
      BY DEF StageRight, Idle, Steps
    <3> QED BY <2>2, <3>1, StagesGoOn
  <2>4. Callers \subseteq {w}
    BY <1>3, <1>7 DEF StageRight
  <2>5. PartiesRight'
    BY <1>1, <1>2, <1>3, <2>1, <2>4 DEF KeepInv, PartiesRight
  <2> QED BY <1>1, <1>5, <2>3, <2>5
<1> QED BY <1>1, <1>6, <1>7

(* Whoever waits is alone with their music.                                *)
LEMMA HoldSettles ==
  ASSUME KeepInv, OneAsks, NEW r \in Request, Hold(r)
  PROVE  TimersRight' /\ PartiesRight' /\ StagesRight' /\ up \ up' \subseteq MayLeave(move[r])
<1>0. PICK w : w = move[r].waiting
  OBVIOUS
<1>1. CASE NoSuch(r, {w}) /\ UNCHANGED known
  BY <1>0, <1>1, NoSuchSettles DEF Hold
<1>2. CASE ~NoSuch(r, {w})
  <2>1. /\ move[r].at = "hold" /\ w \in up /\ Then(r, "schedule") /\ Becomes([Still EXCEPT !.waiting = {w}])
        /\ UNCHANGED <<timer, mine, known, held>>
    BY <1>0, <1>2 DEF Hold
  <2>2. StageRight(move[r]) /\ Names(w) /\ ("person" \in up => "person" \in known)
    BY <1>0, <2>1 DEF KeepInv, StagesRight, PlaceInv, MovesRight, RowRight, RegistryRight
  <2>3. LegsChange({w}, {}, {}, {}, {}, {w})
    BY <2>1, WaitChanges
  <2>4. Callers \subseteq {w} /\ Alive = {} /\ ("person" \in known => held = w)
    BY <1>0, <2>1, <2>2 DEF StageRight, Steps
  <2>5. up' \subseteq up /\ w \in music' /\ up \ up' \subseteq LeftBy({w})
    BY <2>3 DEF LegsChange, Ending
  <2>6. Callers' \subseteq {w} /\ Alive' = {}
    BY <2>1, <2>4, <2>5 DEF Callers, Alive
  <2>7. ~Tied(w, "person")'
    <3>1. \A p \in joined' : w \notin p
      BY <2>3 DEF LegsChange
    <3>2. <<"person", w>> \notin rings'
      <4>1. Legs(<<"person", w>>) = {"person", w}
        BY DEF Legs
      <4> QED BY <2>3, <4>1 DEF LegsChange
    <3> QED BY <3>1, <3>2 DEF Tied
  <2>8. move'[r].at = "schedule" /\ move'[r].waiting = w
    BY <1>0, <2>1, ThenIs DEF KeepInv, PlaceInv
  <2>9. StagesRight'
    <3>1. ASSUME NEW m, m = move'[r] PROVE StagesRight'
      <4>1. StageRight(m)'
        BY <2>1, <2>4, <2>5, <2>6, <2>7, <2>8, <3>1 DEF StageRight
      <4> QED BY <3>1, <4>1, StagesGoOn
    <3> QED BY <3>1
  <2>10. TimersRight' /\ PartiesRight'
    BY <2>1, <2>2, <2>4, <2>5, <2>6 DEF TimersRight, PartiesRight, KeepInv
  <2>11. up \ up' \subseteq mine
    <3>1. "person" \in LeftBy({w}) => FALSE
      BY <2>1 DEF LeftBy, KeepInv, StaysInHand
    <3>2. LeftBy({w}) \subseteq up \ {w}
      BY LeftByUp
    <3> QED BY <2>4, <2>5, <3>1, <3>2 DEF Callers
  <2> QED BY <2>9, <2>10, <2>11 DEF MayLeave
<1> QED BY <1>0, <1>1, <1>2 DEF Hold

LEMMA ScheduleSettles ==
  ASSUME KeepInv, OneAsks, NEW r \in Request, Schedule(r)
  PROVE  TimersRight' /\ PartiesRight' /\ StagesRight' /\ up' = up
<1> DEFINE w == move[r].waiting
<1>1. /\ move[r].at = "schedule" /\ timer' = timer \cup {w} /\ Then(r, "dial")
      /\ UNCHANGED <<up, joined, rings, music, mine, known, held>>
  BY DEF Schedule, registered
<1>2. StageRight(move[r])
  BY DEF KeepInv, StagesRight
<1>3. Callers' = Callers /\ \A x, b : Tied(x, b)' = Tied(x, b)
  BY <1>1 DEF Callers, Tied
<1>4. Alive = {} /\ Alive' \subseteq Alive \cup {w}
  BY <1>1, <1>2 DEF StageRight, Alive
<1>5. move'[r].at = "dial" /\ move'[r].waiting = w
  BY <1>1, ThenIs DEF KeepInv, PlaceInv
<1>6. /\ Callers \subseteq {w} /\ (w \in music \/ w \notin up) /\ ("person" \in known => held = w)
      /\ \A x \in Callers : ~Tied(x, "person")
  BY <1>1, <1>2 DEF StageRight, Steps
<1>7. StagesRight'
  <2>1. ASSUME NEW m, m = move'[r] PROVE StagesRight'
    <3>1. StageRight(m)'
      BY <1>1, <1>3, <1>5, <1>6, <2>1 DEF StageRight
    <3> QED BY <2>1, <3>1, StagesGoOn
  <2> QED BY <2>1
<1>8. TimersRight'
  BY <1>1, <1>4, <1>6 DEF TimersRight, Alive
<1>9. PartiesRight'
  BY <1>1, <1>3 DEF PartiesRight, KeepInv
<1> QED BY <1>1, <1>7, <1>8, <1>9

LEMMA LeftIsTied ==
  ASSUME NodeRight, NEW S, NEW x \in LeftBy(S)
  PROVE  x \in up \ S /\ \E b \in S : Tied(x, b)
<1>1. x \in up \ S /\ ((\E p \in joined : x \in p /\ p \cap S # {}) \/ \E c \in rings : c[2] = x /\ c[1] \in S)
  BY DEF LeftBy
<1>2. ASSUME NEW p \in joined, x \in p, p \cap S # {} PROVE \E b \in S : Tied(x, b)
  <2>1. PICK b \in S : b \in p /\ b # x
    BY <1>1, <1>2
  <2>2. PICK y, z \in up : p = {y, z}
    BY <1>2 DEF NodeRight, Wired
  <2>3. p = {x, b}
    BY <1>2, <2>1, <2>2
  <2> QED BY <1>2, <2>1, <2>3 DEF Tied
<1>3. ASSUME NEW c \in rings, c[2] = x, c[1] \in S PROVE \E b \in S : Tied(x, b)
  BY <1>3, RingIsPair DEF Tied
<1> QED BY <1>1, <1>2, <1>3

(* The colleague is the person's own call.                                 *)
LEMMA DialSettles ==
  ASSUME KeepInv, OneAsks, NEW r \in Request, Dial(r)
  PROVE  TimersRight' /\ PartiesRight' /\ StagesRight' /\ up \ up' \subseteq MayLeave(move[r])
<1>1. CASE NoSuch(r, {"person"}) /\ UNCHANGED known
  BY <1>1, NoSuchSettles DEF Dial
<1>2. CASE ~NoSuch(r, {"person"})
  <2>0. PICK w : w = move[r].waiting
    OBVIOUS
  <2>1. PICK f \in Fresh :
          /\ move[r].at = "dial" /\ "person" \in up /\ Then(r, "idle")
          /\ Becomes([Still EXCEPT !.calling = {<<"person", f>>}, !.made = {f}])
          /\ UNCHANGED <<timer, mine, known, held>>
    BY <1>2 DEF Dial
  <2>2. StageRight(move[r]) /\ "person" \in known
    BY <2>1 DEF KeepInv, StagesRight, PlaceInv, RegistryRight
  <2>3. LegsChange({"person"}, {}, {f}, {}, {<<"person", f>>}, {})
    BY <2>1, CallChanges
  <2>4. f \notin timer /\ f \notin mine
    BY MadeIsFresh DEF KeepInv, PlaceInv
  <2>5. Callers \subseteq {w} /\ held = w /\ \A x \in Callers : ~Tied(x, "person")
    BY <2>0, <2>1, <2>2 DEF StageRight, Steps
  <2>6. /\ up' \subseteq up \cup {f} /\ up \ up' \subseteq LeftBy({"person"})
        /\ <<"person", f>> \in rings' /\ ("person" \in up' => "person" \in up)
    BY <2>1, <2>3 DEF LegsChange, Ending
  <2>7. Callers' \subseteq {w, f} /\ Alive' \subseteq Alive
    BY <2>1, <2>4, <2>5, <2>6 DEF Callers, Alive
  <2>8. TimersRight'
    <3>1. \A l \in Alive : l \in music /\ held = l /\ l # "person"
      BY <2>1, <2>2 DEF KeepInv, TimersRight, OneAsks, Alive, PlaceInv, NodeRight
    <3>2. \A l \in Alive : l \in music'
      BY <2>3, <3>1, MusicStays DEF KeepInv, PlaceInv, NodeRight
    <3> QED BY <2>1, <2>7, <3>1, <3>2 DEF TimersRight
  <2>9. PartiesRight'
    <3>1. Tied(f, "person")'
      BY <2>6 DEF Tied
    <3>2. held \in Other \cap up' => "party" \notin up'
      <4>1. LegsKeep
        BY DialPlaces DEF KeepInv
      <4> QED BY <4>1, CallersUp DEF KeepInv, PartiesRight
    <3> QED BY <2>1, <2>5, <2>7, <3>1, <3>2 DEF PartiesRight
  <2>10. StagesRight'
    <3>1. move'[r] = Idle
      BY <2>1 DEF Then, KeepInv, PlaceInv, MovesRight
    <3>2. StageRight(Idle)'
      BY DEF StageRight, Idle, Steps
    <3> QED BY <3>1, <3>2, StagesGoOn
  <2>11. up \ up' \subseteq mine
    <3> SUFFICES ASSUME NEW x \in LeftBy({"person"}) PROVE x \in mine
      BY <2>6
    <3>1. x \in up \ {"person"} /\ Tied(x, "person")
      BY LeftIsTied DEF KeepInv, PlaceInv
    <3> QED BY <2>5, <3>1 DEF Callers
  <2> QED BY <2>8, <2>9, <2>10, <2>11 DEF MayLeave
<1> QED BY <1>1, <1>2 DEF Dial

(* Nobody is up but who is joined, the person and the ring-backs.          *)
LEMMA JoinSettles ==
  ASSUME KeepInv, OneAsks, NEW r \in Request, Join(r)
  PROVE  TimersRight' /\ PartiesRight' /\ StagesRight' /\ up \ up' \subseteq MayLeave(move[r])
<1>0. PICK w, c : w = move[r].waiting /\ c = move[r].other
  OBVIOUS
<1>1. CASE NoSuch(r, {w, c}) /\ UNCHANGED known
  BY <1>0, <1>1, NoSuchSettles DEF Join, Bridge
<1>2. CASE ~NoSuch(r, {w, c})
  <2>1. /\ move[r].at = "join" /\ w \in up /\ c \in up /\ Becomes([Still EXCEPT !.talking = {<<w, c>>}])
        /\ Then(r, "forget") /\ UNCHANGED <<timer, mine, known, held>>
    BY <1>0, <1>2 DEF Join, Bridge
  <2>2. StageRight(move[r]) /\ RowRight(move[r]) /\ ("person" \in up => "person" \in known)
    BY <2>1 DEF KeepInv, StagesRight, PlaceInv, MovesRight, RegistryRight
  <2>3. LegsChange({w, c}, {}, {}, {{w, c}}, {}, {})
    BY <2>1, TalkChanges
  <2>4. Callers \subseteq {w, c} /\ Alive \subseteq {w} /\ ("person" \in known => held = w)
    BY <1>0, <2>1, <2>2 DEF StageRight, Steps
  <2>5. w # "person" /\ c # "person" /\ move[r].op = "complete"
    BY <1>0, <2>1, <2>2 DEF RowRight, Names, Joining
  <2>6. up' \subseteq up /\ {w, c} \in joined' /\ w \in up' /\ c \in up'
    BY <2>1, <2>3 DEF LegsChange, Ending, LeftBy
  <2>7. Callers' \subseteq {w, c} /\ Alive' \subseteq {w}
    BY <2>1, <2>4, <2>6 DEF Callers, Alive
  <2>8. \A x \in Callers' : ~Tied(x, "person")'
    <3> SUFFICES ASSUME NEW x \in {w, c} PROVE ~Tied(x, "person")'
      BY <2>7
    <3>1. {x, "person"} \notin joined'
      BY <2>3, <2>5 DEF LegsChange
    <3>2. <<"person", x>> \notin rings'
      <4>1. Legs(<<"person", x>>) = {"person", x}
        BY DEF Legs
      <4> QED BY <2>3, <4>1 DEF LegsChange
    <3> QED BY <3>1, <3>2 DEF Tied
  <2>9. move'[r].at = "forget" /\ move'[r].waiting = w
    BY <1>0, <2>1, ThenIs DEF KeepInv, PlaceInv
  <2>10. StagesRight'
    <3>1. ASSUME NEW m, m = move'[r] PROVE StagesRight'
      <4>1. StageRight(m)'
        BY <2>1, <2>4, <2>7, <2>8, <2>9, <3>1 DEF StageRight
      <4> QED BY <3>1, <4>1, StagesGoOn
    <3> QED BY <3>1
  <2>11. TimersRight'
    BY <2>1, <2>4, <2>7, <2>9 DEF TimersRight
  <2>12. PartiesRight'
    <3>1. \A x \in Callers' \ {w} : x = c
      BY <2>7
    <3>2. Tied(c, w)'
      <4>1. {c, w} = {w, c}
        OBVIOUS
      <4> QED BY <2>6, <4>1 DEF Tied
    <3>3. held \in Other \cap up' => "party" \notin up'
      BY <2>6 DEF KeepInv, PartiesRight
    <3>4. "person" \in up' => "person" \in up
      BY <2>6
    <3> QED BY <2>1, <2>2, <2>4, <3>1, <3>2, <3>3, <3>4 DEF PartiesRight
  <2>13. up \ up' \subseteq mine \cup {"person"}
    BY <2>4, <2>6 DEF Callers
  <2> QED BY <2>5, <2>10, <2>11, <2>12, <2>13 DEF MayLeave
<1> QED BY <1>0, <1>1, <1>2 DEF Join, Bridge

(* The colleague, whoever they talk to or are called by, is left.          *)
LEMMA BackSettles ==
  ASSUME KeepInv, OneAsks, NEW r \in Request, Back(r)
  PROVE  TimersRight' /\ PartiesRight' /\ StagesRight' /\ up \ up' \subseteq MayLeave(move[r])
<1>0. PICK w : w = move[r].waiting
  OBVIOUS
<1>1. CASE NoSuch(r, {"person", w}) /\ UNCHANGED known
  BY <1>0, <1>1, NoSuchSettles DEF Back, Bridge
<1>2. CASE ~NoSuch(r, {"person", w})
  <2>1. /\ move[r].at = "back" /\ "person" \in up /\ w \in up /\ Becomes([Still EXCEPT !.talking = {<<"person", w>>}])
        /\ Then(r, "drop") /\ UNCHANGED <<timer, mine, known, held>>
    BY <1>0, <1>2 DEF Back, Bridge
  <2>2. StageRight(move[r]) /\ RowRight(move[r]) /\ "person" \in known
    BY <2>1 DEF KeepInv, StagesRight, PlaceInv, MovesRight, RegistryRight
  <2>3. LegsChange({"person", w}, {}, {}, {{"person", w}}, {}, {})
    BY <2>1, TalkChanges
  <2>4. Alive \subseteq {w} /\ held = w
    BY <1>0, <2>1, <2>2 DEF StageRight, Steps
  <2>5. w # "person" /\ Names(w) /\ move[r].op = "cancel"
    BY <1>0, <2>1, <2>2 DEF RowRight, Names, Cancelling
  <2>6. up' = up \ Ending({"person", w}, {}) /\ w \in up' /\ "person" \in up'
    BY <2>1, <2>3 DEF LegsChange, Ending, LeftBy
  <2>7. Callers' \subseteq {w}
    <3> SUFFICES ASSUME NEW x \in Callers', x # w PROVE FALSE
      OBVIOUS
    <3>1. x \in Callers /\ x # "person" /\ x \in up'
      BY <2>1, <2>6 DEF Callers
    <3>2. Tied(x, "person") \/ Tied(x, w)
      BY <2>1, <2>4, <3>1 DEF KeepInv, PartiesRight
    <3>3. Wired(up, joined, rings, music)
      BY DEF KeepInv, PlaceInv, NodeRight
    <3>4. x \in Ending({"person", w}, {})
      BY <3>1, <3>2, <3>3, LeftBehind
    <3> QED BY <2>6, <3>1, <3>4
  <2>8. Alive' \subseteq {w}
    BY <2>1, <2>4, <2>6 DEF Alive
  <2>9. move'[r].at = "drop" /\ move'[r].waiting = w
    BY <1>0, <2>1, ThenIs DEF KeepInv, PlaceInv
  <2>10. StagesRight'
    <3>1. ASSUME NEW m, m = move'[r] PROVE StagesRight'
      <4>1. StageRight(m)'
        BY <2>1, <2>4, <2>7, <2>8, <2>9, <3>1 DEF StageRight
      <4> QED BY <3>1, <4>1, StagesGoOn
    <3> QED BY <3>1
  <2>11. TimersRight'
    BY <2>1, <2>4, <2>8, <2>9 DEF TimersRight
  <2>12. PartiesRight'
    <3>1. held \in Other \cap up' => "party" \notin up'
      BY <2>6 DEF KeepInv, PartiesRight
    <3> QED BY <2>1, <2>4, <2>7, <3>1 DEF PartiesRight
  <2>13. up \ up' \subseteq Other
    <3> SUFFICES ASSUME NEW x \in up, x \notin up', x \notin Other PROVE FALSE
      OBVIOUS
    <3>1. x = "party"
      BY <2>6 DEF KeepInv, PlaceInv, NodeRight, Channel
    <3>2. w \in Other
      BY <2>5, <2>6, <3>1 DEF Names, Channel
    <3> QED BY <2>1, <2>4, <3>1, <3>2 DEF KeepInv, PartiesRight
  <2> QED BY <2>5, <2>10, <2>11, <2>12, <2>13 DEF MayLeave
<1> QED BY <1>0, <1>1, <1>2 DEF Back, Bridge

LEMMA ForgetSettles ==
  ASSUME KeepInv, OneAsks, NEW r \in Request, Forget(r)
  PROVE  TimersRight' /\ PartiesRight' /\ StagesRight' /\ up' = up
<1>0. PICK w : w = move[r].waiting
  OBVIOUS
<1>1. /\ timer' = timer \ {w} /\ UNCHANGED <<up, joined, rings, music, mine, known, held>>
      /\ \/ move[r].at = "forget" /\ Then(r, "kill")
         \/ move[r].at = "drop" /\ Then(r, "unstay")
  BY <1>0 DEF Forget, Forgets, registered
<1>2. StageRight(move[r])
  BY DEF KeepInv, StagesRight
<1>3. Callers' = Callers /\ \A x, b : Tied(x, b)' = Tied(x, b)
  BY <1>1 DEF Callers, Tied
<1>4. Alive' = {}
  BY <1>0, <1>1, <1>2 DEF StageRight, Alive
<1>5. StagesRight'
  <2>1. ASSUME NEW m, m = move'[r] PROVE StagesRight'
    <3>1. /\ m.waiting = w
          /\ \/ move[r].at = "forget" /\ m.at = "kill"
             \/ move[r].at = "drop" /\ m.at = "unstay"
      BY <1>0, <1>1, <2>1, ThenIs DEF KeepInv, PlaceInv
    <3>2. StageRight(m)'
      BY <1>0, <1>1, <1>2, <1>3, <1>4, <3>1 DEF StageRight, Steps
    <3> QED BY <2>1, <3>2, StagesGoOn
  <2> QED BY <2>1
<1> QED BY <1>1, <1>3, <1>4, <1>5 DEF TimersRight, PartiesRight, KeepInv

LEMMA KillSettles ==
  ASSUME KeepInv, OneAsks, NEW r \in Request, Kill(r)
  PROVE  TimersRight' /\ PartiesRight' /\ StagesRight' /\ up \ up' \subseteq MayLeave(move[r])
<1>1. move[r].at = "kill" /\ Then(r, "idle") /\ UNCHANGED <<timer, mine, known, held>>
  BY DEF Kill, registered
<1>2. StageRight(move[r]) /\ RowRight(move[r])
  BY DEF KeepInv, StagesRight, PlaceInv, MovesRight
<1>3. CASE "person" \notin up
  <2>1. StaysPut /\ up' = up
    BY <1>1, <1>3 DEF Kill, StaysPut
  <2> QED BY <1>1, <2>1, GoesIdle
<1>4. CASE "person" \in up
  <2>1. LegsChange({}, {"person"}, {}, {}, {}, {})
    BY <1>4, EndsChanges DEF Kill
  <2>2. up' = up \ ({"person"} \cup LeftBy({"person"}))
    BY <2>1 DEF LegsChange, Ending
  <2>3. Callers' \subseteq Callers /\ Alive' \subseteq Alive /\ "person" \notin up'
    BY <1>1, <2>2 DEF Callers, Alive
  <2>4. Alive = {} /\ \A x \in Callers : ~Tied(x, "person")
    BY <1>1, <1>2 DEF StageRight
  <2>5. TimersRight' /\ PartiesRight'
    BY <1>1, <2>2, <2>3, <2>4 DEF TimersRight, PartiesRight, KeepInv
  <2>6. StagesRight'
    <3>1. move'[r] = Idle
      BY <1>1 DEF Then, KeepInv, PlaceInv, MovesRight
    <3>2. StageRight(Idle)'
      BY DEF StageRight, Idle, Steps
    <3> QED BY <3>1, <3>2, StagesGoOn
  <2>7. up \ up' \subseteq mine \cup {"person"}
    <3> SUFFICES ASSUME NEW x \in LeftBy({"person"}) PROVE x \in mine
      BY <2>2
    <3>1. x \in up \ {"person"} /\ Tied(x, "person")
      BY LeftIsTied DEF KeepInv, PlaceInv
    <3> QED BY <2>4, <3>1 DEF Callers
  <2>8. move[r].op = "complete"
    BY <1>1, <1>2 DEF RowRight, Joining
  <2> QED BY <2>5, <2>6, <2>7, <2>8 DEF MayLeave
<1> QED BY <1>3, <1>4

LEMMA FailSettles ==
  ASSUME KeepInv, OneAsks, Cancels, NEW r \in Request, Fail(r)
  PROVE  TimersRight' /\ PartiesRight' /\ StagesRight' /\ up' = up
<1>1. StaysPut /\ up' = up /\ Then(r, "idle") /\ move[r].at \notin {"forget", "drop"}
  BY DEF Fail, Cancels, StaysPut, node, registered
<1> QED BY <1>1, GoesIdle

LEMMA NodeSettles ==
  ASSUME KeepInv, NEW l, HangUp(l) \/ RingBack(l) \/ PickUp(l)
  PROVE  TimersRight' /\ PartiesRight' /\ StagesRight' /\ move' = move
<1>1. LegsSettle
  BY HangUpSettles, RingBackSettles, PickUpSettles DEF KeepInv
<1>2. LegsKeep
  BY NodePlaces DEF KeepInv
<1>3. UNCHANGED <<known, held, move>>
  BY DEF HangUp, RingBack, PickUp, registered
<1> QED BY <1>1, <1>2, <1>3, SettledKeeps

LEMMA KeepStep ==
  ASSUME KeepInv, OneAsks, Cancels, [TransferNext]_transferVars
  PROVE  KeepInv' /\ \A r \in Request : move[r] # move'[r] => up \ up' \subseteq MayLeave(move[r])
<1>1. CASE TransferNext
  <2>1. PlaceInv' /\ StaysInHand'
    BY <1>1, PlaceStep, WayStep DEF KeepInv
  <2>2. ASSUME NEW r \in Request, AskFor(r) PROVE up' = up
    BY <2>2 DEF AskFor, node
  <2>3. \A r, s \in Request : r = s
    BY DEF OneAsks
  <2>4. Hear => move' = move
    BY DEF Hear
  <2>5. /\ TimersRight' /\ PartiesRight' /\ StagesRight'
        /\ move' = move \/ \E r \in Request : up \ up' \subseteq MayLeave(move[r])
    BY <1>1, <2>2, <2>4, NodeSettles, HearSettles, AskSettles, StaySettles, RememberSettles, HoldSettles, ScheduleSettles,
       DialSettles, JoinSettles, BackSettles, ForgetSettles, KillSettles, FailSettles DEF TransferNext, Commands
  <2> QED BY <2>1, <2>3, <2>5 DEF KeepInv
<1>2. CASE UNCHANGED transferVars
  <2>1. PlaceInv' /\ LegsKeep
    BY <1>2, PlaceStep DEF KeepInv
  <2>2. LegsSettle /\ UNCHANGED <<known, held, move, stays, up>>
    BY <1>2 DEF transferVars, node, registered, LegsSettle, Callers, Alive, Tied
  <2>3. TimersRight' /\ PartiesRight' /\ StagesRight'
    BY <2>1, <2>2, SettledKeeps
  <2> QED BY <2>1, <2>2, <2>3, StaysSame DEF KeepInv
<1> QED BY <1>1, <1>2

LEMMA KeepStarts == TransferInit => KeepInv
<1> SUFFICES ASSUME TransferInit PROVE KeepInv
  OBVIOUS
<1>1. /\ up = {"person", "party"} /\ timer = {} /\ mine = {} /\ held = "none"
      /\ \A r \in Request : move[r] = Idle
  BY DEF TransferInit
<1>2. Alive = {} /\ \A x \in Callers : x = "party"
  BY <1>1 DEF Alive, Callers
<1>3. "none" \notin up
  BY <1>1, AttendedTransferAssumption DEF Channel
<1>4. TimersRight /\ PartiesRight
  BY <1>1, <1>2, <1>3, AttendedTransferAssumption DEF TimersRight, PartiesRight
<1>5. StagesRight /\ StaysInHand
  BY <1>1, IdleIsRight DEF StagesRight, StaysInHand, Idle
<1> QED BY <1>4, <1>5, PlaceStarts DEF KeepInv

(* A joined leg does not wait, so that its ring-back is being cancelled.   *)
LEMMA TimersAreCancelled ==
  ASSUME KeepInv, NEW l \in timer, l \in up, \E p \in joined : l \in p
  PROVE  \E r \in Request : move[r].at \in {"forget", "drop"} /\ move[r].waiting = l
<1>1. l \notin music
  BY DEF KeepInv, PlaceInv, NodeRight, Wired
<1> QED BY <1>1 DEF KeepInv, TimersRight, Alive

(* While a person's requests come one at a time and cancelling a ring-back *)
(* does not fail, a transfer takes nobody away from whom they were joined  *)
(* to, and ends nobody's call but those it is to end: the person's own     *)
(* when it is completed, the colleague's when it is called off             *)
(* (completeTransfer, cancelTransfer and cancelRingBack of call-           *)
(* operations.ts). Whatever people do between two of its commands, and     *)
(* whichever of the others fail.                                           *)
THEOREM TransfersKeep == OneAsks /\ Cancels /\ TransferSpec => TransfersKeepThem
<1> SUFFICES ASSUME OneAsks, Cancels PROVE TransferSpec => TransfersKeepThem
  OBVIOUS
<1> DEFINE Torn == \A l \in Channel :
                     l \in timer \ timer' /\ l \in up /\ (\E p \in joined : l \in p)
                       => \E r \in Request : move[r].at \in {"forget", "drop"} /\ move[r].waiting = l
           Ended == \A r \in Request :
                     move[r] # move'[r] =>
                       up \ up' \subseteq mine \cup (CASE move[r].op = "complete" -> {"person"}
                                                      [] move[r].op = "cancel"   -> Other
                                                      [] OTHER                      -> {})
<1>1. KeepInv /\ [TransferNext]_transferVars => KeepInv' /\ [Torn]_transferVars /\ [Ended]_transferVars
  <2> SUFFICES ASSUME KeepInv, [TransferNext]_transferVars PROVE KeepInv' /\ Torn /\ Ended
    OBVIOUS
  <2>1. Torn
    BY TimersAreCancelled
  <2>2. KeepInv' /\ \A r \in Request : move[r] # move'[r] => up \ up' \subseteq MayLeave(move[r])
    BY KeepStep
  <2> QED BY <2>1, <2>2 DEF MayLeave
<1>2. TransferInit => KeepInv
  BY KeepStarts
<1> QED BY <1>1, <1>2, PTL DEF TransferSpec, TransfersKeepThem, NobodyTornAway, OnlyTheyLeave

-----------------------------------------------------------------------------
(* Where everybody is: what ParkTypeOK and TranscriptionTypeOK say besides *)
(* the types that the arguments above need.                                *)

(* A call is in one slot at most, and in none while it is on its way.      *)
ParkMarks ==
  /\ ParkShape /\ left \subseteq Live /\ blind \subseteq Live /\ met \subseteq Live \X Live
  /\ \A s, u \in Space : spot[s] = spot[u] /\ spot[s] # "none" => s = u
  /\ \A c \in Live : whereto[c] # 0 => ~InSpot(c)

LEMMA AskerMarks ==
  ASSUME ParkMarks, NEW a \in ParkAsker, NEW p \in ParkRequests, Sets(a, p),
         UNCHANGED <<spot, whereto, left, blind, met>>, reserved' \subseteq Space,
         p.at # "idle" => p.call \in Parked, p.at \in {"audit", "send"} => p.slot \in Space
  PROVE  ParkMarks'
<1>1. /\ parking' \in [ParkAsker -> ParkRequests] /\ parking'[a] = p
      /\ \A b \in ParkAsker \ {a} : parking'[b] = parking[b]
  BY DEF Sets, ParkMarks, ParkShape
<1>2. ParkShape'
  BY <1>1 DEF ParkMarks, ParkShape, Claims
<1> QED BY <1>2 DEF ParkMarks, InSpot

LEMMA NoParkIs == NoPark \in ParkRequests /\ NoPark.at = "idle"
BY ParkingAssumption DEF NoPark, ParkRequests, ParkStages, Space

LEMMA ReserveMarks ==
  ASSUME ParkMarks, NEW a \in ParkAsker, Reserve(a)
  PROVE  ParkMarks'
<1>0. PICK p \in ParkRequests : p = parking[a]
  BY DEF ParkMarks, ParkShape
<1>1. p.at = "reserve" /\ p.call \in Parked /\ UNCHANGED <<spot, whereto, left, blind, met>>
  BY <1>0 DEF Reserve, ParkMarks, ParkShape
<1>2. CASE Sets(a, NoPark) /\ UNCHANGED reserved
  BY <1>1, <1>2, NoParkIs, AskerMarks DEF ParkMarks, ParkShape
<1>3. CASE p.slot \in p.taken \cup reserved /\ Sets(a, [p EXCEPT !.slot = @ + 1]) /\ UNCHANGED reserved
  <2> DEFINE q == [p EXCEPT !.slot = @ + 1]
  <2>1. p.slot \in Space
    BY <1>3 DEF ParkRequests, ParkMarks, ParkShape
  <2>2. p.slot + 1 \in 0..(MaxSlot + 1)
    BY <2>1, ParkingAssumption DEF Space
  <2>3. q \in ParkRequests /\ q.at = p.at /\ q.call = p.call
    BY <2>2 DEF ParkRequests
  <2>4. Sets(a, q)
    BY <1>3
  <2> HIDE DEF q
  <2> QED BY <1>1, <1>3, <2>3, <2>4, AskerMarks DEF ParkMarks, ParkShape
<1>4. CASE p.slot \in Space /\ reserved' = reserved \cup {p.slot} /\ Sets(a, [p EXCEPT !.at = "audit"])
  <2> DEFINE q == [p EXCEPT !.at = "audit"]
  <2>1. q \in ParkRequests /\ q.call = p.call /\ q.slot = p.slot
    BY DEF ParkRequests, ParkStages
  <2>2. Sets(a, q) /\ reserved' \subseteq Space
    BY <1>4 DEF ParkMarks, ParkShape
  <2> HIDE DEF q
  <2> QED BY <1>1, <1>4, <2>1, <2>2, AskerMarks
<1> QED BY <1>0, <1>2, <1>3, <1>4 DEF Reserve

LEMMA AuditMarks ==
  ASSUME ParkMarks, NEW a \in ParkAsker, AuditPark(a)
  PROVE  ParkMarks'
<1>1. UNCHANGED <<spot, whereto, reserved, left, blind, met>> /\ reserved \subseteq Space
  BY DEF AuditPark, ParkMarks, ParkShape
<1>2. CASE Sets(a, NoPark)
  BY <1>1, <1>2, NoParkIs, AskerMarks
<1>3. CASE Sets(a, [parking[a] EXCEPT !.at = "send"])
  <2> DEFINE q == [parking[a] EXCEPT !.at = "send"]
  <2>1. q \in ParkRequests /\ q.call = parking[a].call /\ q.slot = parking[a].slot
    BY DEF ParkMarks, ParkShape, ParkRequests, ParkStages
  <2>2. parking[a].call \in Parked /\ parking[a].slot \in Space
    BY DEF AuditPark, ParkMarks, ParkShape, Claims
  <2>3. Sets(a, q)
    BY <1>3
  <2> HIDE DEF q
  <2> QED BY <1>1, <2>1, <2>2, <2>3, AskerMarks
<1> QED BY <1>2, <1>3 DEF AuditPark

LEMMA SendMarks ==
  ASSUME ParkMarks, NEW a \in ParkAsker, SendTo(a)
  PROVE  ParkMarks'
<1>1. CASE UNCHANGED <<spot, whereto, blind>>
  BY <1>1, NoParkIs, AskerMarks DEF SendTo, ParkMarks, ParkShape
<1>2. CASE ~UNCHANGED <<spot, whereto, blind>>
  <2>0. PICK p \in ParkRequests : p = parking[a]
    BY DEF ParkMarks, ParkShape
  <2>1. /\ whereto' = [whereto EXCEPT ![p.call] = p.slot] /\ p.call \in Live /\ p.slot \in Space
        /\ spot' = [s \in Space |-> IF spot[s] = p.call THEN "none" ELSE spot[s]]
        /\ UNCHANGED <<reserved, left, met>> /\ Sets(a, NoPark)
        /\ blind' \subseteq blind \cup {p.call}
    BY <1>2, <2>0 DEF SendTo, ParkMarks, ParkShape, Parked, Claims
  <2>2. /\ whereto' \in [Live -> 0..MaxSlot] /\ spot' \in [Space -> Live \cup {"none"}]
        /\ \A c \in Live \ {p.call} : whereto'[c] = whereto[c]
        /\ \A s \in Space : spot'[s] \in {spot[s], "none"} /\ spot'[s] # p.call
    BY <2>1, ParkingAssumption DEF ParkMarks, ParkShape, Space
  <2>3. /\ parking' \in [ParkAsker -> ParkRequests] /\ parking'[a].at = "idle"
        /\ \A b \in ParkAsker \ {a} : parking'[b] = parking[b]
    BY <2>1, NoParkIs DEF Sets, ParkMarks, ParkShape
  <2>4. ParkShape'
    BY <2>1, <2>2, <2>3 DEF ParkMarks, ParkShape, Claims
  <2> QED BY <2>1, <2>2, <2>4, ParkingAssumption DEF ParkMarks, InSpot
<1> QED BY <1>1, <1>2

LEMMA ArriveMarks ==
  ASSUME ParkMarks, NEW c \in Live, Arrive(c)
  PROVE  ParkMarks'
<1>0. PICK s \in Space : s = whereto[c]
  BY ParkingAssumption DEF Arrive, ParkMarks, ParkShape, Space
<1>1. /\ whereto' \in [Live -> 0..MaxSlot] /\ whereto'[c] = 0 /\ UNCHANGED <<reserved, parking, blind>>
      /\ \A d \in Live \ {c} : whereto'[d] = whereto[d]
  BY ParkingAssumption DEF Arrive, ParkMarks, ParkShape
<1>2. c # "none" /\ whereto[c] # 0 /\ \A u \in Space : spot[u] # c
  BY ParkingAssumption DEF Arrive, ParkMarks, InSpot
<1>3. CASE spot[s] = "none" /\ spot' = [spot EXCEPT ![s] = c] /\ UNCHANGED <<left, met>>
  <2>1. /\ spot' \in [Space -> Live \cup {"none"}] /\ spot'[s] = c
        /\ \A u \in Space \ {s} : spot'[u] = spot[u]
    BY <1>3 DEF ParkMarks, ParkShape
  <2>2. ParkShape'
    BY <1>1, <2>1 DEF ParkMarks, ParkShape, Claims
  <2> QED BY <1>1, <1>2, <1>3, <2>1, <2>2 DEF ParkMarks, InSpot
<1>4. CASE /\ spot[s] # "none" /\ spot' = [spot EXCEPT ![s] = "none"]
           /\ met' = met \cup {<<c, spot[s]>>} /\ left' = left \cup {c, spot[s]}
  <2>1. /\ spot' \in [Space -> Live \cup {"none"}] /\ spot[s] \in Live
        /\ \A u \in Space : spot'[u] \in {spot[u], "none"}
    BY <1>4 DEF ParkMarks, ParkShape
  <2>2. ParkShape'
    BY <1>1, <2>1 DEF ParkMarks, ParkShape, Claims
  <2> QED BY <1>1, <1>4, <2>1, <2>2, ParkingAssumption DEF ParkMarks, InSpot
<1> QED BY <1>0, <1>3, <1>4 DEF Arrive

LEMMA LeaveMarks ==
  ASSUME ParkMarks, NEW c \in Live, Leave(c)
  PROVE  ParkMarks'
<1>1. /\ whereto' \in [Live -> 0..MaxSlot] /\ UNCHANGED <<reserved, parking, blind, met>>
      /\ \A d \in Live : whereto'[d] \in {0, whereto[d]}
  BY ParkingAssumption DEF Leave, ParkMarks, ParkShape
<1>2. /\ spot' \in [Space -> Live \cup {"none"}] /\ left' = left \cup {c}
      /\ \A s \in Space : spot'[s] \in {spot[s], "none"}
  BY DEF Leave, ParkMarks, ParkShape
<1>3. ParkShape'
  BY <1>1, <1>2 DEF ParkMarks, ParkShape, Claims
<1> QED BY <1>1, <1>2, <1>3, ParkingAssumption DEF ParkMarks, InSpot

LEMMA ParkMarksStep == ParkMarks /\ [ParkNext]_parkVars => ParkMarks'
<1> SUFFICES ASSUME ParkMarks, [ParkNext]_parkVars PROVE ParkMarks'
  OBVIOUS
<1>1. ASSUME NEW a \in ParkAsker, NEW c \in Live, Park(a, c) PROVE ParkMarks'
  <2> DEFINE q == [NoPark EXCEPT !.at = "look", !.call = c]
  <2>1. c \in Parked /\ Sets(a, q) /\ UNCHANGED <<spot, whereto, reserved, left, blind, met>>
    BY <1>1 DEF Park, Parked
  <2>2. q \in ParkRequests /\ q.at = "look" /\ q.call = c
    BY <2>1, NoParkIs, CalledRequest
  <2> HIDE DEF q
  <2> QED BY <2>1, <2>2, AskerMarks DEF ParkMarks, ParkShape
<1>2. ASSUME NEW a \in ParkAsker, ListSlots(a) PROVE ParkMarks'
  <2>1. /\ UNCHANGED <<spot, whereto, reserved, left, blind, met>> /\ reserved \subseteq Space
        /\ parking[a] \in ParkRequests /\ parking[a].call \in Parked
    BY <1>2 DEF ListSlots, ParkMarks, ParkShape
  <2>2. PICK p \in ParkRequests :
          /\ Sets(a, p) /\ p.at \in {"idle", "reserve"}
          /\ p.at = "reserve" => p.call = parking[a].call
    BY <1>2, <2>1, ListsRequest
  <2> QED BY <2>1, <2>2, AskerMarks
<1>3. ASSUME NEW a \in ParkAsker, Reserve(a) \/ AuditPark(a) \/ SendTo(a) PROVE ParkMarks'
  BY <1>3, ReserveMarks, AuditMarks, SendMarks
<1>4. ASSUME NEW c \in Live, Arrive(c) \/ Leave(c) PROVE ParkMarks'
  BY <1>4, ArriveMarks, LeaveMarks
<1>5. ASSUME NEW c \in Live, NEW s \in Space, DialSlot(c, s) PROVE ParkMarks'
  <2>1. /\ whereto' \in [Live -> 0..MaxSlot] /\ UNCHANGED <<spot, reserved, parking, left, blind, met>>
        /\ \A d \in Live \ {c} : whereto'[d] = whereto[d]
        /\ ~InSpot(c)
    BY <1>5, ParkingAssumption DEF DialSlot, ParkMarks, ParkShape, Space
  <2>2. ParkShape'
    BY <2>1 DEF ParkMarks, ParkShape, Claims
  <2> QED BY <2>1, <2>2 DEF ParkMarks, InSpot
<1>6. ASSUME NEW s \in Space, LapseSlot(s) PROVE ParkMarks'
  BY <1>6 DEF LapseSlot, ParkMarks, ParkShape, Claims, InSpot
<1>7. CASE UNCHANGED parkVars
  BY <1>7 DEF parkVars, ParkMarks, ParkShape, Claims, InSpot
<1> QED BY <1>1, <1>2, <1>3, <1>4, <1>5, <1>6, <1>7 DEF ParkNext

LEMMA ParkMarksStart == ParkInit => ParkMarks
<1> SUFFICES ASSUME ParkInit PROVE ParkMarks
  OBVIOUS
<1>1. ParkShape
  BY ParkStarts DEF ParkInv
<1> QED BY <1>1 DEF ParkInit, ParkMarks, InSpot

LEMMA ParksAreTyped == ParkMarks => ParkTypeOK
<1> SUFFICES ASSUME ParkMarks PROVE ParkTypeOK
  OBVIOUS
<1>1. ASSUME NEW c \in Live PROVE Cardinality({s \in Space : spot[s] = c}) <= 1
  <2> DEFINE S == {s \in Space : spot[s] = c}
  <2>1. S = {} \/ \E s \in Space : S = {s}
    BY ParkingAssumption DEF ParkMarks
  <2>2. Cardinality({}) = 0 /\ \A s : Cardinality({s}) = 1
    BY FS_EmptySet, FS_Singleton
  <2> HIDE DEF S
  <2>3. Cardinality(S) \in {0, 1}
    BY <2>1, <2>2
  <2>4. Cardinality(S) <= 1
    BY <2>3
  <2> QED BY <2>4 DEF S
<1>2. ASSUME NEW a \in ParkAsker
      PROVE  /\ parking[a].at \in {"idle", "look", "reserve", "audit", "send"}
             /\ parking[a].slot \in 0..(MaxSlot + 1) /\ parking[a].taken \subseteq Space
             /\ parking[a].listed \in BOOLEAN
  BY DEF ParkMarks, ParkShape, ParkRequests, ParkStages
<1> QED BY <1>1, <1>2 DEF ParkMarks, ParkShape, ParkTypeOK

(* What was taken long ago is still being worked on, or is gone; whoever   *)
(* works on a message has made a try of it.                                *)
TextMarks ==
  /\ stale \in [Left -> BOOLEAN] /\ lapses \in 0..MaxLapses
  /\ \A m \in Left : stale[m] => text[m] \in {"working", "gone"}
  /\ \A t \in Transcriber : Working(t) => transcriber[t].try >= 1

LEMMA TextMarksStep ==
  ASSUME ~Overlapping, TextInv, TextMarks, [TranscriptionNext]_transcriptionVars
  PROVE  TextMarks'
<1>1. ASSUME NEW m \in Left, AskForText(m) \/ Discard(m) \/ Lapse(m) PROVE TextMarks'
  <2>1. transcriber' = transcriber /\ text \in [Left -> {"none", "pending", "working", "done", "failed", "gone"}]
    BY <1>1 DEF AskForText, Discard, Lapse, TextInv, TextShape
  <2>2. stale' \in [Left -> BOOLEAN] /\ lapses' \in 0..MaxLapses
    <3>1. stale' \in [Left -> BOOLEAN]
      BY <1>1 DEF AskForText, Discard, Lapse, TextMarks
    <3>2. lapses' = lapses \/ (lapses < MaxLapses /\ lapses' = lapses + 1)
      BY <1>1 DEF AskForText, Discard, Lapse
    <3> QED BY <3>1, <3>2, TranscriptionAssumption DEF TextMarks
  <2>3. ASSUME NEW n \in Left, stale'[n] PROVE text'[n] \in {"working", "gone"}
    BY <1>1, <2>1, <2>3 DEF AskForText, Discard, Lapse, TextMarks
  <2> QED BY <2>1, <2>2, <2>3 DEF TextMarks, Working
<1>2. ASSUME NEW t \in Transcriber, Look(t) PROVE TextMarks'
  <2>1. PICK m \in Left :
          transcriber' = [transcriber EXCEPT ![t] = [Free EXCEPT !.at = "looked", !.letter = m, !.try = tries[m]]]
    BY <1>2 DEF Look, LookAt
  <2>2. UNCHANGED <<text, stale, lapses>>
    BY <1>2 DEF Look, LookAt
  <2>3. transcriber'[t].at = "looked" /\ \A u \in Transcriber \ {t} : transcriber'[u] = transcriber[u]
    <3> DEFINE s == [Free EXCEPT !.at = "looked", !.letter = m, !.try = tries[m]]
    <3>1. s.at = "looked"
      BY DEF Free
    <3>2. transcriber' = [transcriber EXCEPT ![t] = s] /\ transcriber \in [Transcriber -> TextStates]
      BY <2>1 DEF TextInv, TextShape
    <3> HIDE DEF s
    <3> QED BY <3>1, <3>2
  <2> QED BY <2>2, <2>3 DEF TextMarks, Working
<1>3. ASSUME NEW t \in Transcriber, Take(t) PROVE TextMarks'
  <2> DEFINE Freed == transcriber' = [transcriber EXCEPT ![t] = Free] /\ UNCHANGED <<text, stale, lapses>>
  <2>1. CASE Freed
    BY <2>1 DEF TextMarks, Working, Free, TextInv, TextShape
  <2>2. CASE ~Freed
    <3>1. PICK m \in Left :
            /\ text' = [text EXCEPT ![m] = "working"] /\ stale' = [stale EXCEPT ![m] = FALSE] /\ lapses' = lapses
            /\ transcriber' = [transcriber EXCEPT ![t].at = "taken", ![t].try = @ + 1]
      BY <1>3, <2>2 DEF Take, TextInv, TextShape
    <3>2. transcriber[t] \in TextStates /\ transcriber \in [Transcriber -> TextStates]
      BY DEF TextInv, TextShape
    <3> DEFINE s == [[transcriber[t] EXCEPT !.at = "taken"] EXCEPT !.try = @ + 1]
    <3>3. transcriber' = [transcriber EXCEPT ![t] = s] /\ s.try = transcriber[t].try + 1
      BY <3>1, <3>2, TwoFields, TakenState
    <3> HIDE DEF s
    <3>4. transcriber[t].try \in Nat
      BY <3>2 DEF TextStates
    <3>5. transcriber'[t].try >= 1 /\ \A u \in Transcriber \ {t} : transcriber'[u] = transcriber[u]
      BY <3>2, <3>3, <3>4
    <3>6. /\ stale' \in [Left -> BOOLEAN] /\ \A n \in Left : stale'[n] => text'[n] \in {"working", "gone"}
      BY <3>1 DEF TextMarks, TextInv, TextShape
    <3> QED BY <3>1, <3>5, <3>6 DEF TextMarks, Working
  <2> QED BY <2>1, <2>2
<1>4. ASSUME NEW t \in Transcriber, Transcribe(t) PROVE TextMarks'
  <2>1. PICK heard \in {"text", "error", "no engine"} :
          /\ transcriber' = [transcriber EXCEPT ![t].at = "answered", ![t].heard = heard]
          /\ Working(t) /\ UNCHANGED <<text, stale, lapses>>
    BY <1>4 DEF Transcribe, Working
  <2>2. transcriber[t] \in TextStates /\ transcriber \in [Transcriber -> TextStates]
    BY DEF TextInv, TextShape
  <2> DEFINE s == [[transcriber[t] EXCEPT !.at = "answered"] EXCEPT !.heard = heard]
  <2>3. transcriber' = [transcriber EXCEPT ![t] = s] /\ s.try = transcriber[t].try
    BY <2>1, <2>2, TwoFields, AnsweredState
  <2> HIDE DEF s
  <2>4. transcriber'[t].try = transcriber[t].try /\ \A u \in Transcriber \ {t} : transcriber'[u] = transcriber[u]
    BY <2>2, <2>3
  <2> QED BY <2>1, <2>4 DEF TextMarks, Working
<1>5. ASSUME NEW t \in Transcriber, Finish(t) \/ Perish(t) PROVE TextMarks'
  <2>1. transcriber' = [transcriber EXCEPT ![t] = Free] /\ lapses' \in 0..MaxLapses
    BY <1>5, TranscriptionAssumption DEF Finish, Perish, TextMarks
  <2>2. \A u \in Transcriber : Working(u)' => Working(u) /\ transcriber'[u] = transcriber[u]
    BY <2>1 DEF Working, Free, TextInv, TextShape
  <2>3. stale' \in [Left -> BOOLEAN] /\ \A n \in Left : stale'[n] => text'[n] \in {"working", "gone"}
    BY <1>5 DEF Finish, Perish, TextMarks, TextInv, TextShape
  <2> QED BY <2>1, <2>2, <2>3 DEF TextMarks
<1>6. CASE UNCHANGED transcriptionVars
  BY <1>6 DEF transcriptionVars, TextMarks, Working
<1> QED BY <1>1, <1>2, <1>3, <1>4, <1>5, <1>6 DEF TranscriptionNext, Transcribing

LEMMA TextMarksStart == TranscriptionInit => TextMarks
BY TranscriptionAssumption DEF TranscriptionInit, TextMarks, Working, Free

LEMMA TextsAreTyped == TextInv /\ TextMarks => TranscriptionTypeOK
<1> SUFFICES ASSUME TextInv, TextMarks PROVE TranscriptionTypeOK
  OBVIOUS
<1>1. ASSUME NEW t \in Transcriber
      PROVE  /\ transcriber[t].at \in {"idle", "looked", "taken", "answered"}
             /\ transcriber[t].heard \in {"none", "text", "error", "no engine"}
             /\ transcriber[t].at \in {"taken", "answered"} => transcriber[t].try \in 1..tries[transcriber[t].letter]
  <2>1. transcriber[t] \in TextStates /\ (transcriber[t].at # "idle" => transcriber[t].letter \in Left)
    BY DEF TextInv, TextShape
  <2>2. Working(t) => transcriber[t].try \in 1..tries[transcriber[t].letter]
    <3>1. ASSUME Working(t)
          PROVE  /\ transcriber[t].try \in Nat /\ tries[transcriber[t].letter] \in Nat
                 /\ transcriber[t].try >= 1 /\ transcriber[t].try <= tries[transcriber[t].letter]
      BY <2>1, <3>1 DEF TextInv, TextShape, Counted, TextMarks, TextStates, Working
    <3> QED BY <3>1
  <2> QED BY <2>1, <2>2 DEF Working, TextStates, TextPlaces
<1> QED BY <1>1 DEF TextInv, TextShape, TextMarks, TranscriptionTypeOK

(* Who is held, parked or taken is where they are said to be, and the      *)
(* caller of whom the registry says so has a way back (call-operations.ts, *)
(* transcriber.ts): while a person's requests come one at a time, what     *)
(* ends a cancelled one does not fail, and no message is completed twice   *)
(* at once.                                                                *)
THEOREM PlacesAgreeHolds ==
  OneAsks /\ "clear" \notin MayFail /\ ~Overlapping /\ TransferSpec /\ ParkSpec /\ TranscriptionSpec => []PlacesAgree
<1> SUFFICES ASSUME OneAsks, "clear" \notin MayFail, ~Overlapping
             PROVE  TransferSpec /\ ParkSpec /\ TranscriptionSpec => []PlacesAgree
  OBVIOUS
<1> DEFINE TransferMarks == PlaceInv /\ StaysInHand /\ HeldMeansStays
<1>1. TransferInit => TransferMarks
  <2>1. TransferInit => StaysInHand /\ HeldMeansStays
    BY DEF TransferInit, StaysInHand, HeldMeansStays, Idle
  <2> QED BY <2>1, PlaceStarts
<1>2. TransferMarks /\ [TransferNext]_transferVars => TransferMarks'
  <2>1. CASE TransferNext
    BY <2>1, PlaceStep, WayStep
  <2>2. CASE UNCHANGED transferVars
    BY <2>2, PlaceStep, StaysSame DEF transferVars, node, registered
  <2> QED BY <2>1, <2>2
<1>3. ParkInit => ParkMarks
  BY ParkMarksStart
<1>4. ParkMarks /\ [ParkNext]_parkVars => ParkMarks'
  BY ParkMarksStep
<1>5. TranscriptionInit => TextInv /\ TextMarks
  BY TextStarts, TextMarksStart
<1>6. TextInv /\ TextMarks /\ [TranscriptionNext]_transcriptionVars => TextInv' /\ TextMarks'
  BY TextStep, TextMarksStep
<1>7. TransferMarks /\ ParkMarks /\ TextInv /\ TextMarks => PlacesAgree
  BY PlacesAreTyped, ParksAreTyped, TextsAreTyped DEF PlacesAgree
<1> QED BY <1>1, <1>2, <1>3, <1>4, <1>5, <1>6, <1>7, PTL DEF TransferSpec, ParkSpec, TranscriptionSpec
=============================================================================
