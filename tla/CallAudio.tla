----------------------------- MODULE CallAudio -----------------------------
(***************************************************************************)
(* What is kept of calls: the recordings and messages on their way into    *)
(* storage (Uploads) and the messages that are told of by mail, and marked *)
(* or deleted after (Voicemail).  They meet in the message a mail is about: *)
(* its audio is fetched from storage.                                      *)
(***************************************************************************)
EXTENDS Uploads, Voicemail

(* No audio is lost: a recording leaves its node only once it is stored    *)
(* whole, and of a voicemail the only copy is kept.                        *)
NoAudioLost ==
  /\ UploadsTypeOK /\ NothingLost /\ ExpiredHasNone /\ AnnouncedOnce
  /\ VoicemailTypeOK /\ OnlyCopyKept
=============================================================================
