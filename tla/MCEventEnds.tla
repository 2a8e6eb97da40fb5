----------------------------- MODULE MCEventEnds -----------------------------
(* Outbox and Inbox for TLC, each on its own with everything that may go   *)
(* wrong; which of the two runs is chosen initially, and the other rests.  *)
(* The workers are not declared symmetric, for liveness is checked.        *)
EXTENDS Inbox

CONSTANTS Relay, MaxEvent, BatchSize, MaxAttempts, MaxLapses, Poison

VARIABLES row, attempts, due, held, read, phase, stream, window, late, lapsed, relaying

(* The stream refuses the oldest row, which so stands before the others in *)
(* every batch it is selected with.                                        *)
OldestRefused == {1}

WorkerFaults == {"transaction", "commit", "answer", "slow", "crash"}

Producer == INSTANCE Outbox WITH Faults <- {"lost", "db", "crash", "window"}

producer == <<row, attempts, due, held, read, phase, stream, window, late, lapsed>>

EndsInit == relaying \in BOOLEAN /\ Init /\ Producer!Init

EndsNext ==
  /\ \/ relaying /\ Producer!Next /\ UNCHANGED vars
     \/ ~relaying /\ Next /\ UNCHANGED producer
  /\ UNCHANGED relaying

EndsSpec ==
  EndsInit /\ [][EndsNext]_<<vars, producer, relaying>> /\ Fairness /\ Producer!Fairness

(* "Parked, not dropped" (relay.ts:79,184): every row is in the end sent   *)
(* or parked.                                                              *)
EveryRowSettles == Producer!EveryRowSettles
=============================================================================
