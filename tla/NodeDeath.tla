------------------------------ MODULE NodeDeath ------------------------------
(***************************************************************************)
(* The death of a media node (services/call-control/src/node-failure.ts):  *)
(* its heartbeat key expires, and the replica that claims the death goes   *)
(* through the node's calls, announcing each as lost, in the outbox, and   *)
(* then removing it from the registry; meanwhile the node may come back,   *)
(* be owned again and take new calls (CallEvents).                         *)
(*                                                                         *)
(* The key expires only once the node is down and no replica owns it       *)
(* (NodeLiveness).  The leases the watcher hands over last are the subject *)
(* of AffinityLeases.                                                      *)
(***************************************************************************)
EXTENDS CallEvents

CONSTANT Midway  \* whether a node may be owned again while a watcher is at work on its death

ASSUME DeathAssumption == Midway \in BOOLEAN /\ EventsAssumption

VARIABLES
  connected,  \* replicas whose event socket to the node is up
  alive,      \* whether fsnode:{id} exists
  claim,      \* nodelost:{id}
  sweep       \* where a replica's watcher is

watch == <<alive, claim, sweep>>
deathVars == <<vars, connected, watch>>

Sweep == [at : {"idle", "claiming", "claimed", "calls", "got", "ended"},
          rows : SUBSET Call, call : Call \cup {NoCall}]

Rest == [at |-> "idle", rows |-> {}, call |-> NoCall]

DeathTypeOK ==
  /\ connected \in SUBSET Replica
  /\ alive \in BOOLEAN /\ claim \in Replica \cup {NoOne}
  /\ sweep \in [Replica -> Sweep]
  /\ \A r \in Replica : sweep[r].at \in {"got", "ended"} <=> sweep[r].call # NoCall
  /\ ~nodeUp => connected = {}

DeathInit ==
  /\ Init
  /\ connected = Replica /\ alive = TRUE /\ claim = NoOne
  /\ sweep = [r \in Replica |-> Rest]

Resting(r) == sweep[r] = Rest

Goes(r, a) == sweep' = [sweep EXCEPT ![r].at = a]

-----------------------------------------------------------------------------
(* The node, its sockets and its heartbeats. *)

Die ==
  /\ NodeDies
  /\ connected' = {}
  /\ UNCHANGED watch

Return ==
  /\ NodeReturns
  /\ UNCHANGED <<connected, watch>>

Connect(r) ==
  /\ nodeUp /\ r \notin connected
  /\ connected' = connected \cup {r}
  /\ UNCHANGED <<vars, watch>>

(* onAcquired heartbeats at once, which ends an earlier death's claim.     *)
Own(r) ==
  /\ r \in connected
  /\ Midway \/ \A q \in Replica : Resting(q)
  /\ Acquire(r)
  /\ alive' = TRUE /\ claim' = NoOne
  /\ UNCHANGED <<connected, sweep>>

(* ... and then by a timer. *)
Heartbeat ==
  /\ owner # NoOne
  /\ alive' = TRUE /\ claim' = NoOne
  /\ UNCHANGED <<vars, connected, sweep>>

KeyExpires ==
  /\ ~nodeUp /\ owner = NoOne /\ Drained
  /\ alive' = FALSE
  /\ UNCHANGED <<vars, connected, claim, sweep>>

(* The claim's TTL is longer than a sweep takes. *)
ClaimLapses ==
  /\ claim # NoOne => sweep[claim].at \in {"idle", "claiming"}
  /\ claim' = NoOne
  /\ UNCHANGED <<vars, connected, alive, sweep>>

-----------------------------------------------------------------------------
(* The watcher. *)

(* Defective: a node without a socket is dead.                             *)
LookAtSocket(r) ==
  /\ Resting(r) /\ r \notin connected
  /\ Goes(r, "claiming")
  /\ UNCHANGED <<vars, connected, alive, claim>>

(* pass: the node's socket is down and its key has expired ... *)
Look(r) ==
  /\ Resting(r) /\ r \notin connected /\ ~alive
  /\ Goes(r, "claiming")
  /\ UNCHANGED <<vars, connected, alive, claim>>

(* ... claimNodeLoss. *)
Claim(r) ==
  /\ sweep[r].at = "claiming"
  /\ claim' = IF claim = NoOne THEN r ELSE claim
  /\ Goes(r, IF claim = NoOne THEN "claimed" ELSE "idle")
  /\ UNCHANGED <<vars, connected, alive>>

(* handle: callsForNode. *)
SweepStarts(r) ==
  /\ sweep[r].at = "claimed"
  /\ sweep' = [sweep EXCEPT ![r].at = "calls", ![r].rows = index]
  /\ UNCHANGED <<vars, connected, alive, claim>>

(* Defective: the call is removed before it is announced.                  *)
SweepGetsAndEnds(r, c) ==
  /\ sweep[r].at = "calls" /\ c \in sweep[r].rows /\ HasCall(c)
  /\ EndCall(c)
  /\ sweep' = [sweep EXCEPT ![r] = [at |-> "got", rows |-> @.rows \ {c}, call |-> c]]
  /\ UNCHANGED <<node, owner, queue, job, epoch, announced, faults, connected, alive, claim>>

(* getCall finds the call ... *)
SweepGets(r, c) ==
  /\ sweep[r].at = "calls" /\ c \in sweep[r].rows /\ HasCall(c)
  /\ sweep' = [sweep EXCEPT ![r] = [at |-> "got", rows |-> @.rows \ {c}, call |-> c]]
  /\ UNCHANGED <<vars, connected, alive, claim>>

(* ... or its hash has expired. *)
SweepDrops(r, c) ==
  /\ sweep[r].at = "calls" /\ c \in sweep[r].rows /\ ~HasCall(c)
  /\ EndCall(c)
  /\ sweep' = [sweep EXCEPT ![r].rows = @ \ {c}]
  /\ UNCHANGED <<node, owner, queue, job, epoch, announced, faults, connected, alive, claim>>

SweepAnnounces(r) ==
  /\ sweep[r].at = "got"
  /\ Announce(sweep[r].call, "lost")
  /\ Goes(r, "ended")
  /\ UNCHANGED <<node, owner, queue, job, epoch, faults, registry, connected, alive, claim>>

SweepEnds(r) ==
  /\ sweep[r].at = "ended"
  /\ EndCall(sweep[r].call)
  /\ sweep' = [sweep EXCEPT ![r].at = "calls", ![r].call = NoCall]
  /\ UNCHANGED <<node, owner, queue, job, epoch, announced, faults, connected, alive, claim>>

(* forgetNodeCalls. *)
SweepForgets(r) ==
  /\ sweep[r].at = "calls" /\ sweep[r].rows = {}
  /\ ForgetNodeCalls
  /\ sweep' = [sweep EXCEPT ![r] = Rest]
  /\ UNCHANGED <<node, owner, queue, job, epoch, announced, faults, connected, alive, claim>>

(* The database or Redis fails: the pass is given up, the claim stays.     *)
SweepFails(r) ==
  /\ Fault("task")
  /\ ~Resting(r)
  /\ sweep' = [sweep EXCEPT ![r] = Rest]
  /\ UNCHANGED <<node, owner, queue, job, epoch, announced, registry, connected, alive, claim>>

Dead(r) ==
  /\ owner = r \/ queue[r] # <<>> \/ ~Resting(r)
  /\ Dies(r)
  /\ sweep' = [sweep EXCEPT ![r] = Rest]
  /\ UNCHANGED <<connected, alive, claim>>

SweepStep(r) ==
  \/ Look(r) \/ Claim(r) \/ SweepStarts(r) \/ SweepAnnounces(r) \/ SweepEnds(r) \/ SweepForgets(r)
  \/ \E c \in Call : SweepGets(r, c) \/ SweepDrops(r, c)

(* The node's calls, its owner's tasks and its losing it.  It is a call    *)
(* still up, hours long, whose hash expires.                               *)
Ordinary ==
  /\ UNCHANGED <<connected, watch>>
  /\ \/ \E c \in Call : Ring(c) \/ Answer(c) \/ Hangup(c)
     \/ \E c \in Call : Live(c) /\ CallExpires(c)
     \/ Lose
     \/ \E r \in Replica : QueueStep(r)

DeathNext ==
  \/ Ordinary \/ Die \/ Return \/ Heartbeat \/ KeyExpires \/ ClaimLapses
  \/ \E r \in Replica : Connect(r) \/ Own(r) \/ SweepStep(r) \/ SweepFails(r) \/ Dead(r)

DeathSpec == DeathInit /\ [][DeathNext]_deathVars

DeathFairness ==
  /\ WF_deathVars(Lose /\ ~nodeUp /\ UNCHANGED <<connected, watch>>)
  /\ WF_deathVars(Heartbeat) /\ WF_deathVars(KeyExpires) /\ WF_deathVars(ClaimLapses)
  /\ \A r \in Replica :
       /\ WF_deathVars(UNCHANGED <<connected, watch>> /\ QueueStep(r))
       /\ WF_deathVars(Connect(r)) /\ WF_deathVars(Own(r)) /\ WF_deathVars(SweepStep(r))

FairDeathSpec == DeathSpec /\ DeathFairness

-----------------------------------------------------------------------------
(* Properties. *)

(* "A node this process can still talk to is not dead" (node-failure.ts:   *)
(* 20-21): no call is announced as lost while it is up.                    *)
OnlyDeadCallsLost == \A c \in Call : "lost" \in announced[c] => ~Live(c)

(* "Every leg the node carried is announced as call.lost" (node-failure.ts:*)
(* 53): a call the registry had when its node died is announced as over,   *)
(* as lost or, after a return, as hung up, though watchers die midway.     *)
LostCallsEnd ==
  \A c \in Call :
    channel[c] = "lost" /\ HasCall(c) ~> announced[c] \cap {"lost", "hungup"} # {}

(* "Exactly one claims each death" (node-failure.ts:50): no two watchers   *)
(* are at a node's calls at once, whichever death each has seen.           *)
OneSweeps ==
  \A r, s \in Replica :
    sweep[r].at \notin {"idle", "claiming"} /\ sweep[s].at \notin {"idle", "claiming"} => r = s

(* One watcher at a time goes through the calls of a dead node, and what   *)
(* it announces as lost is over.                                           *)
SweepsAreRight == DeathTypeOK /\ OneSweeps /\ OnlyDeadCallsLost
=============================================================================
