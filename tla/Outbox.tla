-------------------------------- MODULE Outbox --------------------------------
(***************************************************************************)
(* The transactional outbox and its relays (packages/events/src/outbox.ts, *)
(* relay.ts, bus.ts).  A service's process commits a row with the write it *)
(* describes; every copy of the service runs a relay, which selects the    *)
(* unsent rows, publishes each to the stream and then marks it sent.       *)
(*                                                                         *)
(* The stream (NATS JetStream) drops a message whose id it has seen within *)
(* its duplicate window.  A publish that was not answered may still arrive.*)
(***************************************************************************)
EXTENDS Naturals, Sequences, FiniteSets

CONSTANTS
  Relay,        \* the running relays, one per copy of the service
  MaxEvent,     \* events are 1..MaxEvent, in the order they are enqueued
  BatchSize,    \* batchSize
  MaxAttempts,  \* maxAttempts
  MaxLapses,    \* bound: how often the duplicate window of an event lapses
  Poison,       \* events whose message the stream refuses, whenever it is sent
  Faults        \* which of "lost", "db", "crash", "window" may happen

Id == 1..MaxEvent

VARIABLES
  row,       \* the outbox row of an event
  attempts,  \* its attempts column
  due,       \* whether its next_attempt_at has come
  held,      \* the rows a relay selected and has still to publish
  read,      \* the attempts it read of each
  phase,     \* where the relay is with the oldest of them
  stream,    \* the messages on the stream
  window,    \* the message ids the stream still recognises
  late,      \* events with a message on its way that nobody waits for
  lapsed     \* history: how often an event's duplicate window has lapsed

outbox == <<row, attempts, due>>
bus    == <<stream, window, late, lapsed>>
relays == <<held, read, phase>>
vars   == <<outbox, relays, bus>>

TypeOK ==
  /\ row \in [Id -> {"absent", "unsent", "sent", "purged"}]
  /\ attempts \in [Id -> 0..MaxAttempts]
  /\ due \in [Id -> BOOLEAN]
  /\ held \in [Relay -> SUBSET Id]
  /\ read \in [Relay -> [Id -> 0..MaxAttempts]]
  /\ \A r \in Relay : \A e \in held[r] : read[r][e] < MaxAttempts
  /\ phase \in [Relay -> {"idle", "selecting", "sending", "marking", "failing"}]
  /\ stream \in Seq(Id)
  /\ window \in SUBSET Id
  /\ late \in SUBSET Id
  /\ lapsed \in [Id -> 0..MaxLapses]

Init ==
  /\ row = [e \in Id |-> "absent"]
  /\ attempts = [e \in Id |-> 0]
  /\ due = [e \in Id |-> TRUE]
  /\ held = [r \in Relay |-> {}]
  /\ read = [r \in Relay |-> [e \in Id |-> 0]]
  /\ phase = [r \in Relay |-> "idle"]
  /\ stream = <<>>
  /\ window = {}
  /\ late = {}
  /\ lapsed = [e \in Id |-> 0]

OnStream == {stream[i] : i \in DOMAIN stream}

(* The relay is publishing e: the rows it selected, oldest first. *)
Current(r, e) == e \in held[r] /\ \A f \in held[r] : e <= f

-----------------------------------------------------------------------------
(* enqueueEvent, in the transaction of the write it describes. *)
Enqueue(e) ==
  /\ row[e] = "absent" /\ \A f \in Id : f < e => row[f] # "absent"
  /\ row' = [row EXCEPT ![e] = "unsent"]
  /\ UNCHANGED <<attempts, due, relays, bus>>

Claimable(e) == row[e] = "unsent" /\ attempts[e] < MaxAttempts /\ due[e]

(* Rows whose lock another relay's SELECT holds: only while it executes,   *)
(* for it is a transaction of its own.                                     *)
Locked == UNION {held[r] : r \in {s \in Relay : phase[s] = "selecting"}}

(* The relay has selected the rows S. *)
Select(r, S) ==
  /\ held' = [held EXCEPT ![r] = S]
  /\ read' = [read EXCEPT ![r] = [e \in Id |-> IF e \in S THEN attempts[e] ELSE 0]]
  /\ phase' = [phase EXCEPT ![r] = "selecting"]
  /\ UNCHANGED <<outbox, bus>>

(* SELECT ... FOR UPDATE SKIP LOCKED begins; a pass that finds nothing     *)
(* changes nothing.                                                        *)
Claim(r) ==
  /\ phase[r] = "idle"
  /\ LET open == {e \in Id \ Locked : Claimable(e)}
     IN  /\ open # {}
         /\ Select(r, {e \in open : Cardinality({f \in open : f < e}) < BatchSize})

(* ... and returns, and its locks are gone. *)
Selected(r) ==
  /\ phase[r] = "selecting"
  /\ phase' = [phase EXCEPT ![r] = "sending"]
  /\ UNCHANGED <<outbox, held, read, bus>>

(* The server stores a message unless it recognises its id. *)
Arrive(e) ==
  /\ stream' = IF e \in window THEN stream ELSE Append(stream, e)
  /\ window' = window \cup {e}
  /\ UNCHANGED lapsed

(* Defective: the publish is not waited for. *)
PublishedUnawaited(r, e) ==
  /\ phase[r] = "sending" /\ Current(r, e)
  /\ late' = late \cup {e}
  /\ phase' = [phase EXCEPT ![r] = "marking"]
  /\ UNCHANGED <<outbox, held, read, stream, window, lapsed>>

(* bus.publish is acknowledged, as new or as a duplicate. *)
Published(r, e) ==
  /\ phase[r] = "sending" /\ Current(r, e) /\ e \notin Poison
  /\ Arrive(e)
  /\ phase' = [phase EXCEPT ![r] = "marking"]
  /\ UNCHANGED <<outbox, held, read, late>>

(* bus.publish rejects: the server refused the message. *)
Refused(r, e) ==
  /\ phase[r] = "sending" /\ Current(r, e) /\ e \in Poison
  /\ phase' = [phase EXCEPT ![r] = "failing"]
  /\ UNCHANGED <<outbox, held, read, bus>>

(* bus.publish rejects for want of an answer: the message may be lost, on  *)
(* its way, or on the stream already.                                      *)
Unanswered(r, e) ==
  /\ "lost" \in Faults
  /\ phase[r] = "sending" /\ Current(r, e)
  /\ late' = late \cup ({e} \ Poison)
  /\ phase' = [phase EXCEPT ![r] = "failing"]
  /\ UNCHANGED <<outbox, held, read, stream, window, lapsed>>

(* The relay's loop goes on to the next row. *)
NextRow(r, e) ==
  /\ held' = [held EXCEPT ![r] = @ \ {e}]
  /\ read' = [read EXCEPT ![r][e] = 0]
  /\ phase' = [phase EXCEPT ![r] = IF held[r] = {e} THEN "idle" ELSE "sending"]

(* UPDATE outbox SET published_at. *)
Marked(e) == [row EXCEPT ![e] = IF @ = "unsent" THEN "sent" ELSE @]

MarkSent(r, e) ==
  /\ phase[r] = "marking" /\ Current(r, e)
  /\ row' = Marked(e)
  /\ NextRow(r, e)
  /\ UNCHANGED <<attempts, due, bus>>

(* The UPDATE rejects, executed or not: the publish counts as failed. *)
MarkFails(r, e) ==
  /\ "db" \in Faults
  /\ phase[r] = "marking" /\ Current(r, e)
  /\ row' \in {row, Marked(e)}
  /\ phase' = [phase EXCEPT ![r] = "failing"]
  /\ UNCHANGED <<attempts, due, held, read, bus>>

(* Defective: the failure is logged and nothing else. *)
RecordFailureLogsOnly(r, e) ==
  /\ phase[r] = "failing" /\ Current(r, e)
  /\ NextRow(r, e)
  /\ UNCHANGED <<outbox, bus>>

(* recordFailure: from the attempts read when the row was claimed. *)
Recorded(r, e) ==
  /\ attempts' = [attempts EXCEPT ![e] = read[r][e] + 1]
  /\ due' = [due EXCEPT ![e] = FALSE]

RecordFailure(r, e) ==
  /\ phase[r] = "failing" /\ Current(r, e)
  /\ Recorded(r, e)
  /\ NextRow(r, e)
  /\ UNCHANGED <<row, bus>>

(* The pass ends here: runOnce of the next one selects anew. *)
Abandon(r) ==
  /\ held' = [held EXCEPT ![r] = {}]
  /\ read' = [read EXCEPT ![r] = [e \in Id |-> 0]]
  /\ phase' = [phase EXCEPT ![r] = "idle"]

(* The database fails the SELECT, or the UPDATE of recordFailure, which   *)
(* may have executed: runOnce rejects.                                     *)
PassFails(r) ==
  /\ "db" \in Faults
  /\ phase[r] \in {"selecting", "failing"}
  /\ \/ UNCHANGED <<attempts, due>>
     \/ phase[r] = "failing" /\ \E e \in Id : Current(r, e) /\ Recorded(r, e)
  /\ Abandon(r)
  /\ UNCHANGED <<row, bus>>

(* The process dies and starts again; what it was sending may yet arrive.  *)
Crash(r) ==
  /\ "crash" \in Faults
  /\ phase[r] # "idle"
  /\ late' = IF phase[r] = "sending" THEN late \cup {e \in Id \ Poison : Current(r, e)} ELSE late
  /\ Abandon(r)
  /\ UNCHANGED <<outbox, stream, window, lapsed>>

BackoffOver(e) ==
  /\ ~due[e]
  /\ due' = [due EXCEPT ![e] = TRUE]
  /\ UNCHANGED <<row, attempts, relays, bus>>

LateArrives(e) ==
  /\ e \in late
  /\ Arrive(e)
  /\ late' = late \ {e}
  /\ UNCHANGED <<outbox, relays>>

LateLost(e) ==
  /\ e \in late
  /\ late' = late \ {e}
  /\ UNCHANGED <<outbox, relays, stream, window, lapsed>>

(* The duplicate window has passed. *)
WindowLapses(e) ==
  /\ "window" \in Faults
  /\ e \in window
  /\ lapsed[e] < MaxLapses
  /\ lapsed' = [lapsed EXCEPT ![e] = @ + 1]
  /\ window' = window \ {e}
  /\ UNCHANGED <<outbox, relays, stream, late>>

(* purgePublished: rows sent retentionDays ago, longer than any pass takes. *)
Purge(e) ==
  /\ row[e] = "sent" /\ \A r \in Relay : e \notin held[r]
  /\ row' = [row EXCEPT ![e] = "purged"]
  /\ UNCHANGED <<attempts, due, relays, bus>>

PublishStep(r, e) ==
  \/ Published(r, e) \/ Refused(r, e) \/ Unanswered(r, e)
  \/ MarkSent(r, e) \/ MarkFails(r, e) \/ RecordFailure(r, e)

RelayStep(r) ==
  \/ Claim(r) \/ Selected(r) \/ PassFails(r)
  \/ \E e \in Id : PublishStep(r, e)

Next ==
  \/ \E r \in Relay : RelayStep(r) \/ Crash(r)
  \/ \E e \in Id :
       Enqueue(e) \/ BackoffOver(e) \/ LateArrives(e) \/ LateLost(e) \/ WindowLapses(e) \/ Purge(e)

Spec == Init /\ [][Next]_vars

(* run() goes on until it is stopped, and a backoff is a time.  Nothing is *)
(* assumed of the bus: every publish may go unanswered.                    *)
Fairness ==
  /\ \A r \in Relay : WF_vars(RelayStep(r))
  /\ \A e \in Id : WF_vars(BackoffOver(e))

FairSpec == Spec /\ Fairness

(* Relays die, and passes fail, only so often: in the end every step that  *)
(* ends a pass is the one that has done its last row.                      *)
Calm ==
  <>[][\A r \in Relay : Crash(r) \/ PassFails(r) =>
         \E e \in Id : MarkSent(r, e) \/ RecordFailure(r, e)]_vars

-----------------------------------------------------------------------------
(* Properties. *)

(* "Publish first, then mark sent" (relay.ts:76): no crash, lost answer or *)
(* second relay leaves a row marked sent whose event never got to the      *)
(* stream: such an event would be lost without a trace.                    *)
SentIsOnStream == \A e \in Id : row[e] \in {"sent", "purged"} => e \in OnStream

(* "The server collapses a republish inside the stream's duplicate window" *)
(* (relay.ts:82-84): while the window holds, an event is on the stream     *)
(* once, however many relays publish it and however often, and each lapse  *)
(* of the window adds one copy at most.                                    *)
OnStreamOnce ==
  \A e \in Id : Cardinality({i \in DOMAIN stream : stream[i] = e}) <= 1 + lapsed[e]

(* Events "reach the bus in the order [the service] enqueued them"         *)
(* (outbox.ts:13-15, docs/architecture/06-services.md:255).                *)
PublishedInOrder ==
  \A i, j \in DOMAIN stream : i < j => stream[i] <= stream[j]

(* "FOR UPDATE SKIP LOCKED lets several relay instances share the outbox   *)
(* without publishing the same row twice" (relay.ts:113-114): no two       *)
(* relays have the same row to publish.                                    *)
NoSharedRow ==
  \A r, s \in Relay : r # s => held[r] \cap held[s] = {}

Parked(e) == row[e] = "unsent" /\ attempts[e] = MaxAttempts

(* "Parked, not dropped" and no hot loop (relay.ts:79,184): every row is   *)
(* in the end sent or parked, and stays so, even when relays overwrite one *)
(* another's attempts with counts read earlier, die, or fail to note what  *)
(* they did, so long as that comes to an end.                              *)
EveryRowSettles ==
  Calm => <>[](\A e \in Id : row[e] = "unsent" => Parked(e))
=============================================================================
