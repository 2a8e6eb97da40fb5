----------------------------- MODULE MCRealtime -----------------------------
(* What the console shows of calls, what its buttons do, and what is kept  *)
(* of calls, for TLC.  Which instance it is is chosen initially: of        *)
(* RealtimeHub, connections logging in and going, or subscribers who are   *)
(* logged in as events come and the feed is lost, or the same with rights  *)
(* revoked and no events; of LiveViews, the views of a tenant's calls; of  *)
(* RecordingControl, the buttons of a recording; of Uploads, a file; of    *)
(* Voicemail, a lamp, or the emails of one mailbox; of Transcription; of   *)
(* AttendedTransfer; or of Parking.                                        *)
EXTENDS RealtimeHub, LiveViews, RecordingControl, CallAudio, CallPlaces, TLC

CONSTANTS k1, k2, u1, u2, l1, l2, l3, x1, x2, p1, p2, c1

VARIABLE part

(* A phone's leg, a trunk's, and the leg of a phone of somebody else.      *)
Where == l1 :> x1 @@ l2 :> NoExtension @@ l3 :> x2

(* Two persons at one copy of call-control, and a feature code.            *)
Copies == p1 :> p1 @@ p2 :> p1 @@ c1 :> c1

(* One connection of each user has logged in, and the feed is live.        *)
LoggedIn ==
  /\ registry = 0 /\ bus = 0 /\ losses = 0 /\ seenLive = TRUE /\ feed = seenLive
  /\ socket = [c \in Conn |-> "open"]
  /\ actor = k1 :> u1 @@ k2 :> u2
  /\ verifying = [c \in Conn |-> Nobody] /\ perUser = [u \in User |-> 1] /\ allowed = User
  /\ asked = 0 /\ attempt = [a \in Attempt |-> NoAttempt]
  /\ inFlight = [p \in Slot |-> 0] /\ wanted = [p \in Slot |-> 0]
  /\ sub = [p \in Slot |-> NoSub]
  /\ tracker = [a \in Attempt |-> NoTracker]
  /\ holders = [a \in Attempt |-> 0] /\ shared = 0

Streams == {"logins", "streams", "rights"}

Lamps == VoicemailNext /\ UNCHANGED <<mail, after, attach>>

Emails == VoicemailNext /\ UNCHANGED <<announce, lamp>> /\ made' <= 1

(* Two changes, or one with the feed lost before or after it.              *)
Happens == registry' + losses' <= 2

RealtimeInit ==
  /\ ViewsInit /\ ControlInit /\ UploadsInit /\ VoicemailInit /\ TranscriptionInit
  /\ TransferInit /\ ParkInit
  /\ \/ part \in {"logins", "views", "buttons", "lamp", "emails", "texts", "transfer", "park"} \cup File /\ HubInit
     \/ part \in {"streams", "rights"} /\ LoggedIn
  /\ part # "buttons" => permitted /\ var = 0
  /\ part # "transfer" => named["person"] = "party"

RealtimeNext ==
  /\ CASE part = "logins"  -> HubNext /\ source' = source /\ link' = link /\ asked' = asked
       [] part = "streams" -> HubNext /\ Happens /\ verifying' = verifying /\ allowed' = allowed
       [] part = "rights"  -> HubNext /\ verifying' = verifying /\ source' = source /\ link' = link
       [] part = "views"   -> ViewsNext
       [] part = "buttons" -> ControlNext
       [] part = "lamp"    -> Lamps
       [] part = "emails"  -> Emails
       [] part = "texts"   -> TranscriptionNext
       [] part = "transfer" -> TransferNext
       [] part = "park"    -> ParkNext
       [] OTHER            -> UploadsNext /\ \A f \in File \ {part} : row'[f] = "none"
  /\ part \notin Streams => UNCHANGED hubVars
  /\ part # "views" => UNCHANGED viewVars
  /\ part # "buttons" => UNCHANGED controlVars
  /\ part \notin File => UNCHANGED uploadsVars
  /\ part \notin {"lamp", "emails"} => UNCHANGED voicemailVars
  /\ part # "texts" => UNCHANGED transcriptionVars
  /\ part # "transfer" => UNCHANGED transferVars
  /\ part # "park" => UNCHANGED parkVars
  /\ UNCHANGED part

allVars == <<hubVars, viewVars, controlVars, uploadsVars, voicemailVars, transcriptionVars,
             transferVars, parkVars, part>>

(* HubFairness, where rights are revoked, and the fairness of the others,  *)
(* each of its part.                                                       *)
RealtimeSpec ==
  /\ RealtimeInit /\ [][RealtimeNext]_allVars
  /\ WF_hubVars(part = "rights" /\ Watch)
  /\ \A a \in Attempt : WF_hubVars(part = "rights" /\ AttemptStep(a))
  /\ \A p \in Slot : WF_hubVars(part = "rights" /\ Recheck(p))
  /\ \A f \in File :
       /\ WF_uploadsVars(part = f /\ Uploading(f))
       /\ WF_uploadsVars(part = f /\ \E h \in handling : Completing(h))
  /\ WF_voicemailVars(part = "lamp" /\ (Renew \/ Announcing("pass")))
  /\ WF_voicemailVars(part = "lamp" /\ ((\E e \in changed : Heard(e)) \/ Announcing("consumer")))
  /\ \A t \in Transcriber : WF_transcriptionVars(part = "texts" /\ Transcribing(t))
  /\ \A l \in Channel : WF_transferVars(part = "transfer" /\ RingBack(l))
  /\ WF_transferVars(part = "transfer" /\ Hear)
  /\ \A r \in Request : WF_transferVars(part = "transfer" /\ Commands(r))
  /\ \A m \in Left : WF_transcriptionVars(part = "texts" /\ Lapse(m) /\ ~InHand(m))

(* Voicemail's LampCatchesUp and GoneIsDark, of the lamp.                  *)
LampFollowsMailbox == <>[](part = "lamp" /\ box # 0 => lamp = Now(box))

LampOfGoneIsDark == <>[](part = "lamp" /\ box = 0 => lamp.new = 0)
=============================================================================
