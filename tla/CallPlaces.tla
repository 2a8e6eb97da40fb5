---------------------------- MODULE CallPlaces ----------------------------
(***************************************************************************)
(* Where the services that act on live calls have everybody: who is held   *)
(* while a colleague is asked (AttendedTransfer), who is parked in which   *)
(* slot (Parking), and which messages are being transcribed by whom        *)
(* (Transcription).                                                        *)
(***************************************************************************)
EXTENDS AttendedTransfer, Parking, Transcription

(* Who is held, parked or taken is where they are said to be, and the      *)
(* caller of whom the registry says so has a way back.                     *)
PlacesAgree == TransferTypeOK /\ HeldMeansStays /\ ParkTypeOK /\ TranscriptionTypeOK
=============================================================================
