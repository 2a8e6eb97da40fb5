---------------------------- MODULE Transcription ----------------------------
(***************************************************************************)
(* The transcribers of voicemail messages (services/voicemail-service/src/ *)
(* transcriber.ts; claimTranscription, finishTranscription and complete of *)
(* repo/message.repo.ts).  Each takes the oldest message that waits, or    *)
(* that was taken long ago and not finished, has an engine turn it into    *)
(* text, which may take many seconds, and stores the text.                 *)
(***************************************************************************)
EXTENDS Naturals, FiniteSets

CONSTANTS
  Transcriber,  \* one in each copy of the service
  MaxLetter,    \* bound: messages, numbered from the oldest
  MaxAttempts,  \* how often a message is tried before it is marked failed
  MaxLapses,    \* bound: transcribers that die or are slow
  Overlapping   \* whether a message may be completed by two requests at once

ASSUME TranscriptionAssumption ==
  /\ MaxLetter \in Nat \ {0} /\ MaxAttempts \in Nat \ {0}
  /\ MaxLapses \in Nat /\ Overlapping \in BOOLEAN

Left == 1..MaxLetter

VARIABLES
  text,        \* a message's transcript_status; none before it is ready
  tries,       \* its transcript_attempts
  stale,       \* whether it was taken long ago
  transcriber, \* where each is, with what message and which try of it
  lapses

transcriptionVars == <<text, tries, stale, transcriber, lapses>>

Free == [at |-> "idle", letter |-> 0, try |-> 0, heard |-> "none"]

TranscriptionTypeOK ==
  /\ text \in [Left -> {"none", "pending", "working", "done", "failed", "gone"}]
  /\ \A m \in Left : tries[m] \in Nat /\ stale[m] \in BOOLEAN
  /\ \A t \in Transcriber :
       /\ transcriber[t].at \in {"idle", "looked", "taken", "answered"}
       /\ transcriber[t].heard \in {"none", "text", "error", "no engine"}
       /\ transcriber[t].at \in {"taken", "answered"} => transcriber[t].try \in 1..tries[transcriber[t].letter]
  /\ lapses \in 0..MaxLapses
  /\ \A m \in Left : stale[m] => text[m] \in {"working", "gone"}

TranscriptionInit ==
  /\ text = [m \in Left |-> "none"] /\ tries = [m \in Left |-> 0] /\ stale = [m \in Left |-> FALSE]
  /\ transcriber = [t \in Transcriber |-> Free]
  /\ lapses = 0

(* complete, of a message whose mailbox or tenant asked for it.            *)
AskForText(m) ==
  /\ text[m] = "none" \/ (Overlapping /\ text[m] # "gone")
  /\ text' = [text EXCEPT ![m] = "pending"]
  /\ tries' = [tries EXCEPT ![m] = 0] /\ stale' = [stale EXCEPT ![m] = FALSE]
  /\ UNCHANGED <<transcriber, lapses>>

Discard(m) ==
  /\ text[m] # "gone"
  /\ text' = [text EXCEPT ![m] = "gone"]
  /\ UNCHANGED <<tries, stale, transcriber, lapses>>

(* The oldest of some messages, if any. *)
Oldest(letters, m) == m \in letters /\ \A n \in letters : m <= n

LookAt(t, letters) ==
  /\ transcriber[t].at = "idle"
  /\ \E m \in letters :
       /\ Oldest(letters, m)
       /\ transcriber' = [transcriber EXCEPT ![t] = [Free EXCEPT !.at = "looked", !.letter = m, !.try = tries[m]]]
  /\ UNCHANGED <<text, tries, stale, lapses>>

(* Defective: what was taken and not finished stays so.                    *)
LookPending(t) == LookAt(t, {m \in Left : text[m] = "pending"})

Look(t) == LookAt(t, {m \in Left : text[m] = "pending" \/ (text[m] = "working" /\ stale[m])})

(* Defective: whoever took it meanwhile.                                   *)
TakeAnyway(t) ==
  LET m == transcriber[t].letter
  IN  /\ transcriber[t].at = "looked"
      /\ IF text[m] \in {"pending", "working"}
         THEN /\ text' = [text EXCEPT ![m] = "working"] /\ stale' = [stale EXCEPT ![m] = FALSE]
              /\ tries' = [tries EXCEPT ![m] = transcriber[t].try + 1]
              /\ transcriber' = [transcriber EXCEPT ![t].at = "taken", ![t].try = @ + 1]
         ELSE transcriber' = [transcriber EXCEPT ![t] = Free] /\ UNCHANGED <<text, tries, stale>>
      /\ UNCHANGED lapses

(* If nobody took it meanwhile; else it looks again.                       *)
Take(t) ==
  LET m == transcriber[t].letter
  IN  /\ transcriber[t].at = "looked"
      /\ IF text[m] \in {"pending", "working"} /\ tries[m] = transcriber[t].try
         THEN /\ text' = [text EXCEPT ![m] = "working"] /\ stale' = [stale EXCEPT ![m] = FALSE]
              /\ tries' = [tries EXCEPT ![m] = @ + 1]
              /\ transcriber' = [transcriber EXCEPT ![t].at = "taken", ![t].try = @ + 1]
         ELSE transcriber' = [transcriber EXCEPT ![t] = Free] /\ UNCHANGED <<text, tries, stale>>
      /\ UNCHANGED lapses

(* The engine answers, fails, or is no longer configured.                  *)
Transcribe(t) ==
  /\ transcriber[t].at = "taken"
  /\ \E heard \in {"text", "error", "no engine"} :
       transcriber' = [transcriber EXCEPT ![t].at = "answered", ![t].heard = heard]
  /\ UNCHANGED <<text, tries, stale, lapses>>

After(t) ==
  CASE transcriber[t].heard = "text" -> "done"
    [] transcriber[t].heard = "error" /\ transcriber[t].try < MaxAttempts -> "pending"
    [] OTHER -> "failed"

(* finishTranscription, of a message somebody works on.                    *)
Finish(t) ==
  LET m == transcriber[t].letter
  IN  /\ transcriber[t].at = "answered"
      /\ IF text[m] = "working"
         THEN text' = [text EXCEPT ![m] = After(t)] /\ stale' = [stale EXCEPT ![m] = FALSE]
         ELSE UNCHANGED <<text, stale>>
      /\ transcriber' = [transcriber EXCEPT ![t] = Free]
      /\ UNCHANGED <<tries, lapses>>

(* It dies, or what it would write fails. *)
Perish(t) ==
  /\ transcriber[t].at # "idle"
  /\ lapses < MaxLapses /\ lapses' = lapses + 1
  /\ transcriber' = [transcriber EXCEPT ![t] = Free]
  /\ UNCHANGED <<text, tries, stale>>

InHand(m) ==
  \E t \in Transcriber :
    transcriber[t].at \in {"taken", "answered"} /\ transcriber[t].letter = m /\ transcriber[t].try = tries[m]

(* staleAfterMs pass: sooner or later when nobody works on it any more.    *)
Lapse(m) ==
  /\ text[m] = "working" /\ ~stale[m]
  /\ IF InHand(m) THEN lapses < MaxLapses /\ lapses' = lapses + 1 ELSE UNCHANGED lapses
  /\ stale' = [stale EXCEPT ![m] = TRUE]
  /\ UNCHANGED <<text, tries, transcriber>>

Transcribing(t) == Look(t) \/ Take(t) \/ Transcribe(t) \/ Finish(t)

TranscriptionNext ==
  \/ \E m \in Left : AskForText(m) \/ Discard(m) \/ Lapse(m)
  \/ \E t \in Transcriber : Transcribing(t) \/ Perish(t)

(* Each drains what waits at every interval, and time passes.              *)
TranscriptionFairness ==
  /\ \A t \in Transcriber : WF_transcriptionVars(Transcribing(t))
  /\ \A m \in Left : WF_transcriptionVars(Lapse(m) /\ ~InHand(m))

TranscriptionSpec ==
  TranscriptionInit /\ [][TranscriptionNext]_transcriptionVars /\ TranscriptionFairness

-----------------------------------------------------------------------------
(* Properties. *)

(* "Only one of several transcribers gets any one message"                 *)
(* (claimTranscription), until it is taken for abandoned: no try of a      *)
(* message is made twice.                                                  *)
OneGetsIt ==
  \A t, u \in Transcriber :
    (t # u /\ {transcriber[t].at, transcriber[u].at} \subseteq {"taken", "answered"}
       /\ transcriber[t].letter = transcriber[u].letter)
    => transcriber[t].try # transcriber[u].try

(* A text that was stored stays, whatever one who was overtaken still       *)
(* reports (finishTranscription writes where the status is working).       *)
TextStays == [][\A m \in Left : text[m] = "done" => text'[m] \in {"done", "gone"}]_transcriptionVars

(* No message waits for ever: its text is stored, or it is given up, also   *)
(* when transcribers die with it.                                          *)
AllTranscribed == <>[](\A m \in Left : text[m] \notin {"pending", "working"})

(* What does not hold (the README says which runs show it): that a message *)
(* is tried maxAttempts times at most, and that a text that was heard of a *)
(* message that has none is stored.                                        *)
TriedAtMost == \A m \in Left : tries[m] <= MaxAttempts

TextIsUsed ==
  [][\A t \in Transcriber :
       Finish(t) /\ transcriber[t].heard = "text"
         => text'[transcriber[t].letter] \in {"done", "gone"}]_transcriptionVars

(* Every message asked for is transcribed or given up, and a text that was *)
(* stored stays.                                                           *)
TextsArrive == AllTranscribed /\ TextStays
=============================================================================
