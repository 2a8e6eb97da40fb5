------------------------------ MODULE Uploads ------------------------------
(***************************************************************************)
(* Call recordings and voicemail messages: FreeSWITCH writes each to a     *)
(* spool file named by the id of its row, the node's uploader stores it and *)
(* only then deletes it, and recording-service expires it (services/       *)
(* recording-service/src/uploader/uploader.ts and client.ts, retention.ts, *)
(* repo/recording.repo.ts, routes/*.ts; services/voicemail-service/src/    *)
(* routes/upload.routes.ts, repo/message.repo.ts).  What a file or an      *)
(* object holds is its length.  The uploader's requests are answered, fail, *)
(* or are given up while the service still handles them.                   *)
(***************************************************************************)
EXTENDS Naturals, FiniteSets

CONSTANTS
  File,        \* spool files
  Message,     \* those that are voicemail messages; the others are recordings
  MaxLength,   \* bound: how much is written to a file
  MaxUpset,    \* bound: failures, crashes and requests given up
  Stalls,      \* FreeSWITCH may write nothing for so long that a file looks abandoned
  Slow         \* files of which a request given up may still be handled when the
               \* uploader comes back to them

ASSUME UploadsAssumption ==
  File # {} /\ Message \subseteq File /\ Slow \subseteq File
    /\ MaxLength \in Nat \ {0} /\ MaxUpset \in Nat /\ Stalls \in BOOLEAN

VARIABLES
  row,        \* a file's row: none, pending, ready, failed, expired or removed
  size,       \* what a ready row says its length is
  file,       \* the spool file: whether it is there, written, and how long
  object,     \* the length of what storage holds; 0 for nothing
  upload,     \* what the uploader is at with a file, and the length it read
  settled,    \* files it knows only the delete of is left
  handling,   \* requests to complete that the service is handling
  sweep,      \* the retention sweep: what is due, and what it is at
  deleting,   \* what a person's delete of a row is at
  announced,  \* how many events said a row is ready
  dropped,    \* history: whose object was deleted
  raced,      \* history: of which two requests read the row before either wrote it
  upsets

spool   == <<file, upload, settled>>
news    == <<announced, raced>>
rows    == <<row, size, news>>
storage == <<object, dropped>>
jobs    == <<sweep, deleting>>
uploadsVars == <<rows, spool, storage, handling, jobs, upsets>>

Resting == [at |-> "idle", length |-> 0]
NoSweep == [due |-> {}, at |-> "idle", file |-> CHOOSE f \in File : TRUE]

UploadsTypeOK ==
  /\ row \in [File -> {"none", "pending", "ready", "failed", "expired", "removed"}]
  /\ size \in [File -> 0..MaxLength] /\ object \in [File -> 0..MaxLength]
  /\ file \in [File -> [at : {"none", "open", "closed", "gone"}, length : 0..MaxLength]]
  /\ upload \in [File -> [at : {"idle", "read", "asked", "stored", "waiting", "answered", "drop"},
                          length : 0..MaxLength]]
  /\ settled \subseteq File /\ dropped \subseteq File /\ raced \subseteq File
  /\ handling \subseteq [file : File, length : 1..MaxLength, at : {"sent", "checked", "seen"}, heard : BOOLEAN]
  /\ sweep \in [due : SUBSET (File \ Message), at : {"idle", "listed", "deleted"}, file : File]
  /\ deleting \in [File -> {"idle", "loaded", "emptied"}]
  /\ announced \in [File -> Nat] /\ upsets \in 0..MaxUpset
  /\ \A f \in File : file[f].at = "gone" => upload[f].at = "idle" /\ f \notin settled

UploadsInit ==
  /\ row = [f \in File |-> "none"] /\ size = [f \in File |-> 0]
  /\ announced = [f \in File |-> 0] /\ raced = {}
  /\ file = [f \in File |-> [at |-> "none", length |-> 0]]
  /\ object = [f \in File |-> 0] /\ dropped = {}
  /\ upload = [f \in File |-> Resting] /\ settled = {}
  /\ handling = {} /\ sweep = NoSweep /\ deleting = [f \in File |-> "idle"]
  /\ upsets = 0

Upset == upsets < MaxUpset /\ upsets' = upsets + 1

-----------------------------------------------------------------------------
(* The node.  A row is there before the file is.                           *)

Register(f) ==
  /\ row[f] = "none"
  /\ row' = [row EXCEPT ![f] = "pending"]
  /\ UNCHANGED <<size, news, spool, storage, handling, jobs, upsets>>

There(f) == file[f].at \in {"open", "closed"}

Recorded(f, at, length) ==
  /\ file' = [file EXCEPT ![f] = [at |-> at, length |-> length]]
  /\ UNCHANGED <<rows, upload, settled, storage, handling, jobs, upsets>>

StartRecord(f) == row[f] # "none" /\ file[f].at = "none" /\ Recorded(f, "open", 0)

WriteAudio(f) ==
  file[f].at = "open" /\ file[f].length < MaxLength /\ Recorded(f, "open", file[f].length + 1)

StopRecord(f) == file[f].at = "open" /\ Recorded(f, "closed", file[f].length)

-----------------------------------------------------------------------------
(* The uploader. *)

Goes(f, at) == upload' = [upload EXCEPT ![f].at = at]

Rests(f) == upload' = [upload EXCEPT ![f] = Resting]

(* scanOnce: a file whose header is closed, or untouched for long.         *)
Choose(f) ==
  /\ upload[f].at = "idle" /\ f \notin settled
  /\ file[f].at = "closed" \/ (file[f].at = "open" /\ Stalls)
  /\ f \in Slow \/ \A h \in handling : h.file # f
  /\ upload' = [upload EXCEPT ![f] = [at |-> "read", length |-> file[f].length]]
  /\ UNCHANGED <<rows, file, settled, storage, handling, jobs, upsets>>

(* RecordingRepo.fail, MessageRepo.fail.                                   *)
Failed(f) == row' = [row EXCEPT ![f] = IF @ = "pending" THEN "failed" ELSE @]

(* Of an empty file the service is told, and it is dropped.                *)
TellEmpty(f) ==
  /\ upload[f].at = "read" /\ upload[f].length = 0
  /\ Failed(f) /\ Goes(f, "drop")
  /\ UNCHANGED <<size, news, file, settled, storage, handling, jobs, upsets>>

(* Defective: nothing is asked of what is no longer pending.               *)
AskPending(f) ==
  /\ upload[f].at = "read" /\ upload[f].length > 0
  /\ IF row[f] \in {"ready", "expired", "failed"} THEN Goes(f, "drop")
     ELSE IF row[f] = "pending" THEN Goes(f, "asked") ELSE Rests(f)
  /\ UNCHANGED <<rows, file, settled, storage, handling, jobs, upsets>>

(* POST upload-url: one that has been stored is a duplicate, and one that  *)
(* is not known is tried again.                                            *)
Ask(f) ==
  /\ upload[f].at = "read" /\ upload[f].length > 0
  /\ CASE row[f] \in {"pending", "failed"} -> Goes(f, "asked")
       [] row[f] \in {"ready", "expired"}  -> Goes(f, "drop")
       [] OTHER                            -> Rests(f)
  /\ UNCHANGED <<rows, file, settled, storage, handling, jobs, upsets>>

(* Storage refuses what is not what was read.                              *)
Put(f) ==
  /\ upload[f].at = "asked"
  /\ IF file[f].length = upload[f].length
     THEN object' = [object EXCEPT ![f] = upload[f].length] /\ Goes(f, "stored")
     ELSE Rests(f) /\ UNCHANGED object
  /\ UNCHANGED <<rows, file, settled, handling, dropped, jobs, upsets>>

(* POST complete. *)
SendComplete(f) ==
  /\ upload[f].at = "stored"
  /\ handling' = handling \cup {[file |-> f, length |-> upload[f].length, at |-> "sent",
                                heard |-> TRUE]}
  /\ Goes(f, "waiting")
  /\ UNCHANGED <<rows, file, settled, storage, jobs, upsets>>

(* What changed since was still being written: tried again.                *)
Compare(f) ==
  /\ upload[f].at = "answered"
  /\ IF file[f].length = upload[f].length THEN Goes(f, "drop") ELSE Rests(f)
  /\ UNCHANGED <<rows, file, settled, storage, handling, jobs, upsets>>

(* removeLocal. *)
Unlink(f) ==
  /\ upload[f].at = "drop" \/ (upload[f].at = "idle" /\ f \in settled)
  /\ file' = [file EXCEPT ![f].at = "gone"]
  /\ settled' = settled \ {f} /\ Rests(f)
  /\ UNCHANGED <<rows, storage, handling, jobs, upsets>>

CannotUnlink(f) ==
  /\ upload[f].at = "drop" /\ Upset
  /\ settled' = settled \cup {f} /\ Rests(f)
  /\ UNCHANGED <<rows, file, storage, handling, jobs>>

(* A request that fails, or whose answer is lost.  fetch gives a PUT no    *)
(* time limit, the services' requests 15 s.                                *)
FailUpload(f) ==
  /\ upload[f].at \in {"read", "asked", "stored"} /\ Upset
  /\ Rests(f)
  /\ object' = IF upload[f].at = "asked" /\ file[f].length = upload[f].length
               THEN [object EXCEPT ![f] = upload[f].length] ELSE object
  /\ UNCHANGED <<rows, file, settled, dropped, handling, jobs>>

Unheard(files) == {[h EXCEPT !.heard = @ /\ h.file \notin files] : h \in handling}

GiveUp(f) ==
  /\ upload[f].at = "waiting" /\ Upset /\ Rests(f)
  /\ handling' = Unheard({f})
  /\ UNCHANGED <<rows, file, settled, storage, jobs>>

RestartUploader ==
  /\ Upset /\ upload' = [f \in File |-> Resting] /\ settled' = {}
  /\ handling' = Unheard(File)
  /\ UNCHANGED <<rows, file, storage, jobs>>

-----------------------------------------------------------------------------
(* The service handles a request to complete. *)

(* The uploader hears of it if it still waits.                             *)
Answer(h, at) ==
  upload' = IF ~h.heard THEN upload
            ELSE [upload EXCEPT ![h.file] = IF at = "idle" THEN Resting ELSE [@ EXCEPT !.at = at]]

Progress(h, at) == handling' = (handling \ {h}) \cup {[h EXCEPT !.at = at]}

Done(h) == handling' = handling \ {h}

(* What storage holds must be what was sent.  Of a message that is ready   *)
(* the uploader is told so before anything is looked at.                   *)
Check(h) ==
  /\ h.at = "sent"
  /\ CASE h.file \in Message /\ row[h.file] = "ready" -> Done(h) /\ Answer(h, "drop")
       [] row[h.file] # "removed" /\ object[h.file] = h.length
            /\ ~(h.file \in Message /\ row[h.file] = "ready") -> Progress(h, "checked") /\ UNCHANGED upload
       [] OTHER -> Done(h) /\ Answer(h, "idle")
  /\ UNCHANGED <<rows, file, settled, storage, jobs, upsets>>

(* Defective: what was given up stays so.                                  *)
ReadPending(h) ==
  /\ h.at = "checked"
  /\ CASE row[h.file] = "pending" -> Progress(h, "seen") /\ UNCHANGED upload
       [] row[h.file] = "ready" -> Done(h) /\ Answer(h, "answered")
       [] OTHER -> Done(h) /\ Answer(h, "idle")
  /\ UNCHANGED <<rows, file, settled, storage, jobs, upsets>>

(* The transaction's plain read.  A ready row is left as it is, and a      *)
(* message's uploader told that it is.                                     *)
ReadRow(h) ==
  /\ h.at = "checked"
  /\ CASE row[h.file] \in {"pending", "failed"} -> Progress(h, "seen") /\ UNCHANGED upload
       [] row[h.file] = "ready" ->
            Done(h) /\ Answer(h, IF h.file \in Message THEN "drop" ELSE "answered")
       [] OTHER -> Done(h) /\ Answer(h, "idle")
  /\ UNCHANGED <<rows, file, settled, storage, jobs, upsets>>

(* Its write and event; no row is written that has been removed.           *)
MarkReady(h) ==
  /\ h.at = "seen"
  /\ IF row[h.file] = "removed" THEN UNCHANGED <<row, size>>
     ELSE row' = [row EXCEPT ![h.file] = "ready"] /\ size' = [size EXCEPT ![h.file] = h.length]
  /\ announced' = [announced EXCEPT ![h.file] = @ + 1]
  /\ raced' = raced \cup {g.file : g \in {g \in handling \ {h} : g.file = h.file /\ g.at = "seen"}}
  /\ Done(h) /\ Answer(h, "answered")
  /\ UNCHANGED <<file, settled, storage, jobs, upsets>>

RollBack(h) ==
  /\ h.at = "seen" /\ Upset /\ Done(h) /\ Answer(h, "idle")
  /\ UNCHANGED <<rows, file, settled, storage, jobs>>

-----------------------------------------------------------------------------
(* The retention job: a pass lists what is due, and deletes an object      *)
(* before its row says so.  What was never uploaded is failed.             *)

ListDue ==
  /\ sweep = NoSweep
  /\ \E due \in SUBSET {f \in File \ Message : row[f] = "ready"} :
       due # {} /\ sweep' = [sweep EXCEPT !.due = due, !.at = "listed"]
  /\ UNCHANGED <<rows, spool, storage, handling, deleting, upsets>>

DeleteAudio(f) ==
  /\ sweep.at = "listed" /\ f \in sweep.due
  /\ object' = [object EXCEPT ![f] = 0] /\ dropped' = dropped \cup {f}
  /\ sweep' = [sweep EXCEPT !.at = "deleted", !.file = f]
  /\ UNCHANGED <<rows, spool, handling, deleting, upsets>>

(* Ends the turn of the file it is at.                                     *)
NextDue ==
  sweep' = IF sweep.due = {sweep.file} THEN NoSweep
           ELSE [sweep EXCEPT !.at = "listed", !.due = @ \ {sweep.file}]

MarkExpired ==
  /\ sweep.at = "deleted"
  /\ row' = [row EXCEPT ![sweep.file] = IF @ = "ready" THEN "expired" ELSE @]
  /\ NextDue
  /\ UNCHANGED <<size, news, spool, storage, handling, deleting, upsets>>

(* An object that cannot be deleted is left for the next pass; an error or *)
(* a crash ends the pass.                                                  *)
FailSweep ==
  /\ sweep.at \in {"listed", "deleted"} /\ Upset
  /\ sweep' = NoSweep
  /\ UNCHANGED <<rows, spool, storage, handling, deleting>>

FailStalePending(f) ==
  /\ row[f] = "pending"
  /\ Failed(f)
  /\ UNCHANGED <<size, news, spool, storage, handling, jobs, upsets>>

(* DELETE a recording: its audio, then its row.  A message's audio stays.  *)
LoadRow(f) ==
  /\ deleting[f] = "idle" /\ row[f] \notin {"none", "removed"}
  /\ deleting' = [deleting EXCEPT ![f] = IF f \in Message THEN "emptied" ELSE "loaded"]
  /\ UNCHANGED <<rows, spool, storage, handling, sweep, upsets>>

EmptyRow(f) ==
  /\ deleting[f] = "loaded"
  /\ object' = [object EXCEPT ![f] = 0] /\ dropped' = dropped \cup {f}
  /\ deleting' = [deleting EXCEPT ![f] = "emptied"]
  /\ UNCHANGED <<rows, spool, handling, sweep, upsets>>

RemoveRow(f) ==
  /\ deleting[f] = "emptied"
  /\ row' = [row EXCEPT ![f] = "removed"]
  /\ deleting' = [deleting EXCEPT ![f] = "idle"]
  /\ UNCHANGED <<size, news, spool, storage, handling, sweep, upsets>>

-----------------------------------------------------------------------------
Recording(f) == Register(f) \/ StartRecord(f) \/ WriteAudio(f) \/ StopRecord(f)

Uploading(f) ==
  \/ Choose(f) \/ TellEmpty(f) \/ Ask(f) \/ Put(f) \/ SendComplete(f) \/ Compare(f) \/ Unlink(f)

Completing(h) == Check(h) \/ ReadRow(h) \/ MarkReady(h)

Sweeping == MarkExpired \/ \E f \in File : DeleteAudio(f)

Deleting(f) == LoadRow(f) \/ EmptyRow(f) \/ RemoveRow(f)

Failing ==
  \/ RestartUploader \/ FailSweep
  \/ \E f \in File : FailUpload(f) \/ GiveUp(f) \/ CannotUnlink(f)
  \/ \E h \in handling : RollBack(h)

UploadsNext ==
  \/ \E f \in File : Recording(f) \/ Uploading(f) \/ FailStalePending(f) \/ Deleting(f)
  \/ \E h \in handling : Completing(h)
  \/ ListDue \/ Sweeping \/ Failing

(* The uploader scans again and again, and what is being handled goes on.  *)
UploadsFairness ==
  /\ \A f \in File : WF_uploadsVars(Uploading(f))
  /\ \A f \in File : WF_uploadsVars(\E h \in handling : h.file = f /\ Completing(h))

UploadsSpec == UploadsInit /\ [][UploadsNext]_uploadsVars /\ UploadsFairness

-----------------------------------------------------------------------------
(* Properties. *)

(* "A file leaves the spool only after the service has confirmed the       *)
(* stored object matches" (uploader.ts): audio that has left the node is   *)
(* in storage whole, unless it was deleted there, or its row was.  So it   *)
(* is while no file is taken for abandoned that is not.                    *)
NothingLost ==
  \A f \in File : file[f].at = "gone" => object[f] = file[f].length \/ f \in dropped

(* "A row never claims deleted audio still exists nor the reverse"         *)
(* (retention.ts): an expired row has none, unless a request the uploader  *)
(* gave up completed it while the uploader was at its file again.          *)
ExpiredHasNone == \A f \in File \ Slow : row[f] = "expired" => object[f] = 0

(* "Completing a recording that is already ready returns it unchanged (a   *)
(* retried request)" (recording.repo.ts): however long a request that was  *)
(* given up goes on, a row is announced as ready once, unless its retry    *)
(* read the row before it was written: the transaction reads plainly.      *)
AnnouncedOnce == \A f \in File \ raced : announced[f] <= 1

(* Whatever failed, what was recorded is in the end stored and said to be, *)
(* also when it had been given up as never uploaded.                       *)
RecordingsArrive ==
  <>[](\A f \in File :
         (file[f].at \in {"closed", "gone"} /\ file[f].length > 0 /\ row[f] # "removed")
           => file[f].at = "gone" /\ row[f] \in {"ready", "expired"})

(* It does not hold (the README says which runs show it) that the audio of *)
(* a removed row is in storage no more, nor that it leaves the node.       *)
NoOrphans == \A f \in File \ Message : row[f] = "removed" => object[f] = 0

RemovedLeavesNode == \A f \in File : row[f] = "removed" ~> ~There(f)
=============================================================================
