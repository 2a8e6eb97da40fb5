------------------------------ MODULE Voicemail ------------------------------
(***************************************************************************)
(* The mailboxes of one extension, its phones' message-waiting lamp and the *)
(* emails that say a message was left (services/voicemail-service/src/repo/ *)
(* message.repo.ts, mailbox.repo.ts and routes/internal.routes.ts; services *)
(* /telephony-config/src/mwi.ts and consumers/voicemail.consumer.ts;       *)
(* services/notification-service/src/consumers/voicemail.consumer.ts).     *)
(* What an event says is read again when it is handled, and every so often  *)
(* all lamps are announced anew.  Events wait as a set: each is handled    *)
(* until its handler succeeds, in any order.                               *)
(***************************************************************************)
EXTENDS Naturals, FiniteSets

CONSTANTS
  Letter,      \* the messages callers leave
  MaxBox,      \* bound: mailboxes the extension has one after another
  MaxTrouble   \* bound: handlers that fail, and lamps lost

ASSUME VoicemailAssumption == IsFiniteSet(Letter) /\ MaxBox \in Nat \ {0} /\ MaxTrouble \in Nat

Box == 1..MaxBox

(* Who announces lamps: the consumer of mwi_changed and the renewing pass. *)
Announcer == {"consumer", "pass"}

VARIABLES
  box,       \* the extension's mailbox; 0 when it has none
  made,      \* how many it has had
  after,     \* what the mailbox does with a message that was emailed
  attach,    \* whether it attaches the audio; both are chosen anew at any time
  letter,    \* the rows of messages
  changed,   \* the mwi_changed events that wait: of which mailbox, and whether
             \* the event names the extension
  created,   \* the messages whose created event waits
  announce,  \* where each announcer is and what it has read
  lamp,      \* what phones are told: new and saved messages
  mailer,    \* where the mail consumer is and what it has read
  emailed,   \* history: messages emailed, and with their audio
  disposed,  \* history: messages the mailer marked read or deleted
  trouble

boxes  == <<box, made, after, attach>>
events == <<changed, created>>
mail   == <<mailer, emailed, disposed>>
voicemailVars == <<boxes, letter, events, announce, lamp, mail, trouble>>

Dark    == [new |-> 0, saved |-> 0]
NoNews  == [at |-> "idle", event |-> [box |-> 0, named |-> FALSE], listed |-> FALSE, count |-> Dark]
NoMail  == [at |-> "idle", letter |-> "none", after |-> "keep", attach |-> FALSE, audio |-> FALSE]
NoEntry == [at |-> "none", box |-> 0, read |-> FALSE]

Counts == [new : 0..Cardinality(Letter), saved : 0..Cardinality(Letter)]
Change == [box : Box, named : BOOLEAN]

VoicemailTypeOK ==
  /\ box \in {0, made} /\ made \in 0..MaxBox
  /\ after \in {"keep", "mark_read", "delete"} /\ attach \in BOOLEAN
  /\ letter \in [Letter -> [at : {"none", "pending", "ready", "failed", "removed"},
                            box : 0..made, read : BOOLEAN]]
  /\ changed \subseteq Change /\ created \subseteq Letter
  /\ \A p \in Announcer :
       /\ announce[p].at \in {"idle", "asked", "listed", "counted"}
       /\ announce[p].count \in Counts
       /\ p = "consumer" /\ announce[p].at # "idle" => announce[p].event \in changed
  /\ lamp \in Counts
  /\ mailer.at \in {"idle", "settings", "message", "composed", "sent", "followed"}
  /\ mailer.at # "idle" => mailer.letter \in created
  /\ emailed.plain \subseteq Letter /\ emailed.audio \subseteq Letter
  /\ disposed.read \subseteq Letter /\ disposed.deleted \subseteq Letter
  /\ trouble \in 0..MaxTrouble

VoicemailInit ==
  /\ box = 0 /\ made = 0 /\ after = "keep" /\ attach = FALSE
  /\ letter = [m \in Letter |-> NoEntry]
  /\ changed = {} /\ created = {}
  /\ announce = [p \in Announcer |-> NoNews] /\ lamp = Dark
  /\ mailer = NoMail
  /\ emailed = [plain |-> {}, audio |-> {}] /\ disposed = [read |-> {}, deleted |-> {}]
  /\ trouble = 0

InTrouble == trouble < MaxTrouble /\ trouble' = trouble + 1

-----------------------------------------------------------------------------
(* voicemail-service: each a transaction with its events.  Changes of one  *)
(* message that overlap write and announce the same.                       *)

(* MailboxRepo.create and remove name the extension in their event.        *)
CreateMailbox ==
  /\ box = 0 /\ made < MaxBox
  /\ box' = made + 1 /\ made' = made + 1
  /\ changed' = changed \cup {[box |-> made + 1, named |-> TRUE]}
  /\ UNCHANGED <<after, attach, letter, created, announce, lamp, mail, trouble>>

(* Its messages stay. *)
RemoveMailbox ==
  /\ box # 0
  /\ box' = 0
  /\ changed' = changed \cup {[box |-> box, named |-> TRUE]}
  /\ UNCHANGED <<made, after, attach, letter, created, announce, lamp, mail, trouble>>

(* updateEmailSettings. *)
ChooseEmail(what, audio) ==
  /\ box # 0 /\ <<what, audio>> # <<after, attach>>
  /\ after' = what /\ attach' = audio
  /\ UNCHANGED <<box, made, letter, events, announce, lamp, mail, trouble>>

Store(m, row) == letter' = [letter EXCEPT ![m] = row]

(* A caller is to be recorded. *)
CreateMessage(m) ==
  /\ box # 0 /\ letter[m].at = "none"
  /\ Store(m, [at |-> "pending", box |-> box, read |-> FALSE])
  /\ UNCHANGED <<boxes, events, announce, lamp, mail, trouble>>

Changes(m) == changed' = changed \cup {[box |-> letter[m].box, named |-> FALSE]}

(* Its audio is in storage; also of one the sweep had given up.            *)
CompleteMessage(m) ==
  /\ letter[m].at \in {"pending", "failed"}
  /\ Store(m, [letter[m] EXCEPT !.at = "ready"])
  /\ Changes(m) /\ created' = created \cup {m}
  /\ UNCHANGED <<boxes, announce, lamp, mail, trouble>>

(* fail and failStalePending. *)
FailMessage(m) ==
  /\ letter[m].at = "pending"
  /\ Store(m, [letter[m] EXCEPT !.at = "failed"])
  /\ UNCHANGED <<boxes, events, announce, lamp, mail, trouble>>

ChangesIfUnread(m) == IF letter[m].read THEN UNCHANGED changed ELSE Changes(m)

(* A message is listened to once it is ready.                              *)
Read(m) == letter[m].at = "ready" /\ Store(m, [letter[m] EXCEPT !.read = TRUE]) /\ ChangesIfUnread(m)

Remove(m) ==
  letter[m].at # "none" /\ Store(m, [NoEntry EXCEPT !.at = "removed"]) /\ ChangesIfUnread(m)

MarkRead(m) ==
  /\ ~letter[m].read /\ Read(m)
  /\ UNCHANGED <<boxes, created, announce, lamp, mail, trouble>>

RemoveMessage(m) ==
  /\ letter[m].at # "removed" /\ Remove(m)
  /\ UNCHANGED <<boxes, created, announce, lamp, mail, trouble>>

-----------------------------------------------------------------------------
(* The lamp.  telephony-config asks for one mailbox or for all, of which   *)
(* voicemail-service lists the mailboxes first and counts then.            *)

Now(b) ==
  LET waiting(read) == {m \in Letter : letter[m].at = "ready" /\ letter[m].box = b /\ letter[m].read = read}
  IN  [new |-> Cardinality(waiting(FALSE)), saved |-> Cardinality(waiting(TRUE))]

Reaches(p, at) == announce' = [announce EXCEPT ![p].at = at]

Heard(e) ==
  /\ announce["consumer"].at = "idle" /\ e \in changed
  /\ announce' = [announce EXCEPT !["consumer"] = [NoNews EXCEPT !.at = "asked", !.event = e]]
  /\ UNCHANGED <<boxes, letter, events, lamp, mail, trouble>>

(* The renewing pass has no event. *)
Renew ==
  /\ announce["pass"].at = "idle" /\ Reaches("pass", "asked")
  /\ UNCHANGED <<boxes, letter, events, lamp, mail, trouble>>

List(p) ==
  /\ announce[p].at = "asked"
  /\ LET wanted == IF p = "pass" THEN box ELSE announce[p].event.box
     IN  announce' = [announce EXCEPT ![p] =
           [@ EXCEPT !.at = "listed", !.event.box = wanted, !.listed = wanted # 0 /\ wanted = box]]
  /\ UNCHANGED <<boxes, letter, events, lamp, mail, trouble>>

(* Defective: what is saved is counted as new, and what is new as saved.   *)
CountSwapped(p) ==
  /\ announce[p].at = "listed"
  /\ LET now == Now(announce[p].event.box)
     IN  announce' = [announce EXCEPT ![p] =
           [@ EXCEPT !.at = "counted",
                     !.count = IF announce[p].listed THEN [new |-> now.saved, saved |-> now.new] ELSE Dark]]
  /\ UNCHANGED <<boxes, letter, events, lamp, mail, trouble>>

Count(p) ==
  /\ announce[p].at = "listed"
  /\ announce' = [announce EXCEPT ![p] =
       [@ EXCEPT !.at = "counted", !.count = IF announce[p].listed THEN Now(announce[p].event.box) ELSE Dark]]
  /\ UNCHANGED <<boxes, letter, events, lamp, mail, trouble>>

(* pua_publish; of a mailbox that is gone, when the extension is named.    *)
Light(p) ==
  /\ announce[p].at = "counted"
  /\ lamp' = IF announce[p].listed \/ announce[p].event.named THEN announce[p].count ELSE lamp
  /\ changed' = IF p = "consumer" THEN changed \ {announce[p].event} ELSE changed
  /\ announce' = [announce EXCEPT ![p] = NoNews]
  /\ UNCHANGED <<boxes, letter, created, mail, trouble>>

(* The service or the edge is not reached; the event is delivered again.   *)
AnnounceFails(p) ==
  /\ announce[p].at # "idle" /\ InTrouble
  /\ announce' = [announce EXCEPT ![p] = NoNews]
  /\ UNCHANGED <<boxes, letter, events, lamp, mail>>

(* OpenSIPs' presence table is lost. *)
LoseLamp ==
  /\ lamp # Dark /\ InTrouble
  /\ lamp' = Dark
  /\ UNCHANGED <<boxes, letter, events, announce, mail>>

-----------------------------------------------------------------------------
(* The email, of a mailbox that has an address.                            *)

Mailing(at) == mailer' = [mailer EXCEPT !.at = at]

(* The handler's transaction commits, and the event is consumed.           *)
Consumed == created' = created \ {mailer.letter} /\ mailer' = NoMail

MailBegins(m) ==
  /\ mailer.at = "idle" /\ m \in created
  /\ mailer' = [NoMail EXCEPT !.at = "settings", !.letter = m]
  /\ UNCHANGED <<boxes, letter, events, announce, lamp, emailed, disposed, trouble>>

(* A mailbox that is gone is dropped quietly.                              *)
ReadSettings ==
  /\ mailer.at = "settings"
  /\ IF box # 0 /\ letter[mailer.letter].box = box
     THEN mailer' = [mailer EXCEPT !.at = "message", !.after = after, !.attach = attach] /\ UNCHANGED created
     ELSE Consumed
  /\ UNCHANGED <<boxes, letter, changed, announce, lamp, emailed, disposed, trouble>>

(* So is a message that is gone.  Its audio may be too large, or gone when *)
(* it is fetched.                                                          *)
Compose ==
  /\ mailer.at = "message"
  /\ IF letter[mailer.letter].at = "ready"
     THEN /\ \E fits \in BOOLEAN : mailer' = [mailer EXCEPT !.at = "composed", !.audio = mailer.attach /\ fits]
          /\ UNCHANGED created
     ELSE Consumed
  /\ UNCHANGED <<boxes, letter, changed, announce, lamp, emailed, disposed, trouble>>

Send ==
  /\ mailer.at = "composed"
  /\ emailed' = [plain |-> emailed.plain \cup {mailer.letter},
                 audio |-> IF mailer.audio THEN emailed.audio \cup {mailer.letter} ELSE emailed.audio]
  /\ Mailing("sent")
  /\ UNCHANGED <<boxes, letter, events, announce, lamp, disposed, trouble>>

(* Deleted only when the audio was really attached; else marked read.  The *)
(* message may be gone.                                                    *)
FollowUp ==
  LET m == mailer.letter
  IN  /\ mailer.at = "sent"
      /\ CASE letter[m].at # "ready" \/ mailer.after = "keep" -> UNCHANGED <<letter, changed, disposed>>
           [] letter[m].at = "ready" /\ mailer.after = "delete" /\ mailer.audio ->
                Remove(m) /\ disposed' = [disposed EXCEPT !.deleted = @ \cup {m}]
           [] OTHER -> Read(m) /\ disposed' = [disposed EXCEPT !.read = @ \cup {m}]
      /\ Mailing("followed")
      /\ UNCHANGED <<boxes, created, announce, lamp, emailed, trouble>>

(* A follow-up that fails is not tried again.                              *)
FollowUpFails ==
  /\ mailer.at = "sent" /\ InTrouble /\ Mailing("followed")
  /\ UNCHANGED <<boxes, letter, events, announce, lamp, emailed, disposed>>

CommitMail ==
  /\ mailer.at = "followed" /\ Consumed
  /\ UNCHANGED <<boxes, letter, changed, announce, lamp, emailed, disposed, trouble>>

(* A service or the relay is not reached, or the commit fails: the event   *)
(* is delivered again.                                                     *)
MailFails ==
  /\ mailer.at \in {"settings", "message", "composed", "followed"} /\ InTrouble
  /\ mailer' = NoMail
  /\ UNCHANGED <<boxes, letter, events, announce, lamp, emailed, disposed>>

-----------------------------------------------------------------------------
Used ==
  \/ CreateMailbox \/ RemoveMailbox
  \/ \E what \in {"keep", "mark_read", "delete"}, audio \in BOOLEAN : ChooseEmail(what, audio)
  \/ \E m \in Letter : \/ CreateMessage(m) \/ CompleteMessage(m) \/ FailMessage(m)
                       \/ MarkRead(m) \/ RemoveMessage(m)

Announcing(p) == List(p) \/ Count(p) \/ Light(p)

MailStep == (\E m \in Letter : MailBegins(m)) \/ ReadSettings \/ Compose \/ Send \/ FollowUp \/ CommitMail

Trouble == (\E p \in Announcer : AnnounceFails(p)) \/ LoseLamp \/ FollowUpFails \/ MailFails

VoicemailNext ==
  \/ Used
  \/ (\E e \in changed : Heard(e)) \/ Renew
  \/ \E p \in Announcer : Announcing(p)
  \/ MailStep \/ Trouble

(* The pass is repeated, and both consumers pull again.                    *)
VoicemailFairness ==
  /\ WF_voicemailVars(Renew \/ Announcing("pass"))
  /\ WF_voicemailVars((\E e \in changed : Heard(e)) \/ Announcing("consumer"))
  /\ WF_voicemailVars(MailStep)

VoicemailSpec == VoicemailInit /\ [][VoicemailNext]_voicemailVars /\ VoicemailFairness

-----------------------------------------------------------------------------
(* Properties. *)

(* "A missed event or a presence table lost with its database would leave  *)
(* a lamp wrong, so every mailbox is also announced on a timer" (mwi.ts):  *)
(* however events, passes and changes overlap, the lamp of an extension    *)
(* that has a mailbox in the end shows that mailbox's messages.            *)
LampCatchesUp == <>[](box # 0 => lamp = Now(box))

(* "Delete happens only when the audio was really attached, so a too-large *)
(* recording is never destroyed on the strength of an email that does not  *)
(* contain it" (consumers/voicemail.consumer.ts), and none is marked read  *)
(* that was not emailed, whatever is chosen or redelivered meanwhile.      *)
OnlyCopyKept == disposed.deleted \subseteq emailed.audio /\ disposed.read \subseteq emailed.plain

(* It does not hold (the README says which run shows it) that "the lamp of *)
(* a mailbox that is gone goes out" (mailbox.repo.ts).                     *)
GoneIsDark == <>[](box = 0 => lamp.new = 0)
=============================================================================
