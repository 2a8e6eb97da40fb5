--------------------------- MODULE AffinityLeases ---------------------------
(***************************************************************************)
(* Affinity (services/call-control/src/affinity/manager.ts, packages/      *)
(* affinity, node-drain.ts): each queue, parking lot and conference is     *)
(* pinned to the media node its Redis lease names.  Any replica acquires,  *)
(* renews and releases leases; an operator drains a node and a watcher     *)
(* finds one dead, and its leases are handed over; after a loss of Redis   *)
(* every replica sets again the leases it was renewing.                    *)
(***************************************************************************)
EXTENDS Naturals, FiniteSets

CONSTANTS
  Replica, Node, Lease, NoNode, NoLease,
  Request,     \* HTTP requests for leases under way at a time
  Home,        \* the replica each is sent to
  Faults,      \* which of "drain", "death", "crash", "redis" may happen
  MaxFaults    \* bound: how many of them happen

ASSUME LeasesAssumption ==
  /\ NoNode \notin Node /\ NoLease \notin Lease
  /\ Home \in [Request -> Replica]
  /\ MaxFaults \in Nat
  /\ Faults \subseteq {"drain", "death", "crash", "redis"}

VARIABLES
  up,          \* nodes that run, with their sockets and their owners' heartbeats
  alive,       \* nodes with an fsnode:{id} key
  known,       \* fsnodes: the nodes that have sent a heartbeat
  draining,    \* fsnodes:draining
  lease,       \* aff:{tenant}:{kind}:{id}, the node a resource is pinned to
  tracked,     \* renewals: the node each replica renews each lease for
  leaked,      \* intervals that run and are no longer in renewals
  request,     \* where each request is
  work,        \* the hand-over each replica is at
  restoring,   \* the renewals a replica has still to set again
  lost,        \* replicas that have not noticed the new registry:epoch
  drained,     \* history: nodes whose drain was answered, and not undone since
  seen,        \* history: the nodes a request's lease was on since it began
  overtaken,   \* history: acquires about to write a node that was marked after they chose it
  stray,       \* history: leases that such acquires have won, and not been freed since
  faults       \* faults so far

nodes   == <<up, alive, known, draining, drained>>
renewing == <<tracked, leaked>>
redo    == <<restoring, lost>>
history == <<seen, overtaken, stray>>
vars    == <<nodes, lease, renewing, request, work, redo, history, faults>>

Holder == Node \cup {NoNode}

RequestState ==
  [at : {"idle", "got", "choose", "set", "reread", "won", "release", "answered"},
   lease : Lease \cup {NoLease}, node : Holder]

HandOverState ==
  [at : {"idle", "list", "release"}, node : Holder, rows : SUBSET Lease, drain : BOOLEAN]

Waiting == [at |-> "idle", lease |-> NoLease, node |-> NoNode]

Resting == [at |-> "idle", node |-> NoNode, rows |-> {}, drain |-> FALSE]

NodeTypeOK ==
  /\ up \subseteq Node /\ alive \subseteq known /\ known \subseteq Node
  /\ draining \subseteq Node /\ drained \subseteq Node

PinTypeOK ==
  /\ lease \in [Lease -> Holder]
  /\ tracked \in [Replica -> [Lease -> Holder]]
  /\ leaked \in [Replica -> SUBSET (Lease \X Node)]

(* A request under way is for a lease, and from its choice on for a node.  *)
Sound(s) ==
  /\ s.at # "idle" => s.lease \in Lease
  /\ s.at \in {"set", "won", "release", "answered"} => s.node \in Node

RequestTypeOK ==
  /\ request \in [Request -> RequestState]
  /\ \A q \in Request : Sound(request[q])

WorkTypeOK ==
  /\ work \in [Replica -> HandOverState]
  /\ \A r \in Replica : work[r].drain => work[r].node \in Node
  /\ restoring \in [Replica -> SUBSET (Lease \X Node)]
  /\ lost \subseteq Replica

SystemTypeOK ==
  NodeTypeOK /\ PinTypeOK /\ RequestTypeOK /\ WorkTypeOK /\ faults \in 0..MaxFaults

LeaseTypeOK ==
  /\ SystemTypeOK
  /\ seen \in [Request -> SUBSET Holder] /\ overtaken \subseteq Request /\ stray \subseteq Lease

LeaseInit ==
  /\ up = Node /\ alive = Node /\ known = Node
  /\ draining = {} /\ drained = {}
  /\ lease = [l \in Lease |-> NoNode]
  /\ tracked = [r \in Replica |-> [l \in Lease |-> NoNode]]
  /\ leaked = [r \in Replica |-> {}]
  /\ request = [q \in Request |-> Waiting]
  /\ work = [r \in Replica |-> Resting]
  /\ restoring = [r \in Replica |-> {}] /\ lost = {}
  /\ seen = [q \in Request |-> {}] /\ overtaken = {} /\ stray = {}
  /\ faults = 0

Fault(k) == k \in Faults /\ faults < MaxFaults /\ faults' = faults + 1

(* liveNodeIds: status "up". *)
InService == alive \ draining

Running(r) == leaked[r] \cup {<<l, tracked[r][l]>> : l \in {k \in Lease : tracked[r][k] # NoNode}}

Track(r, l, n) == tracked' = [tracked EXCEPT ![r][l] = n]

-----------------------------------------------------------------------------
(* acquire, by request q at its home. *)

At(q, a) == request' = [request EXCEPT ![q].at = a]

(* Defective: the replica's own renewals say who holds the lease.          *)
AskMemory(q, l) ==
  /\ request[q].at = "idle"
  /\ LET n == tracked[Home[q]][l]
     IN  request' = [request EXCEPT ![q] = [at |-> IF n = NoNode THEN "got" ELSE "answered",
                                            lease |-> l,
                                            node |-> IF n = NoNode THEN lease[l] ELSE n]]
  /\ UNCHANGED <<nodes, lease, renewing, work, redo, faults>>

(* getOwner ... *)
Ask(q, l) ==
  /\ request[q].at = "idle"
  /\ request' = [request EXCEPT ![q] = [at |-> "got", lease |-> l, node |-> lease[l]]]
  /\ UNCHANGED <<nodes, lease, renewing, work, redo, faults>>

(* ... and its reply: a renewal for another node is dropped. *)
Got(q) ==
  /\ request[q].at = "got"
  /\ LET r == Home[q]  l == request[q].lease  n == request[q].node
     IN  /\ IF tracked[r][l] # n THEN Track(r, l, NoNode) ELSE UNCHANGED tracked
         /\ At(q, IF n # NoNode THEN "answered" ELSE "choose")
  /\ UNCHANGED <<nodes, lease, leaked, work, redo, faults>>

(* chooseNode: the preferred one or the one with the fewest calls.         *)
Choose(q) ==
  /\ request[q].at = "choose"
  /\ IF InService = {} THEN request' = [request EXCEPT ![q] = Waiting]
     ELSE \E n \in InService : request' = [request EXCEPT ![q].at = "set", ![q].node = n]
  /\ UNCHANGED <<nodes, lease, renewing, work, redo, faults>>

(* SET NX. *)
SetLease(q) ==
  /\ request[q].at = "set"
  /\ LET l == request[q].lease
     IN  IF lease[l] = NoNode
           THEN lease' = [lease EXCEPT ![l] = request[q].node] /\ At(q, "won")
           ELSE UNCHANGED lease /\ At(q, "reread")
  /\ UNCHANGED <<nodes, renewing, work, redo, faults>>

(* The race is lost: the winner, or an error if it is gone by now.         *)
Reread(q) ==
  /\ request[q].at = "reread"
  /\ LET n == lease[request[q].lease]
     IN  request' = [request EXCEPT ![q] = IF n = NoNode THEN Waiting
                                          ELSE [@ EXCEPT !.at = "answered", !.node = n]]
  /\ UNCHANGED <<nodes, lease, renewing, work, redo, faults>>

(* The reload commands have been sent: startRenewing, which puts the new   *)
(* interval in the place of another one without stopping it.               *)
StartRenewing(q) ==
  /\ request[q].at = "won"
  /\ LET r == Home[q]  l == request[q].lease
     IN  /\ leaked' = [leaked EXCEPT ![r] =
                         @ \cup (IF tracked[r][l] = NoNode THEN {} ELSE {<<l, tracked[r][l]>>})]
         /\ Track(r, l, request[q].node)
  /\ At(q, "answered")
  /\ UNCHANGED <<nodes, lease, work, redo, faults>>

Answer(q) ==
  /\ request[q].at = "answered"
  /\ request' = [request EXCEPT ![q] = Waiting]
  /\ UNCHANGED <<nodes, lease, renewing, work, redo, faults>>

-----------------------------------------------------------------------------
(* release, by request q. *)

Release(q, l) ==
  /\ request[q].at = "idle"
  /\ LET r == Home[q]
         n == IF tracked[r][l] # NoNode THEN tracked[r][l] ELSE lease[l]
     IN  /\ n # NoNode
         /\ Track(r, l, NoNode)
         /\ request' = [request EXCEPT ![q] = [at |-> "release", lease |-> l, node |-> n]]
  /\ UNCHANGED <<nodes, lease, leaked, work, redo, faults>>

(* RELEASE_SCRIPT. *)
Freed(l, n) == lease' = [lease EXCEPT ![l] = IF @ = n THEN NoNode ELSE @]

Released(q) ==
  /\ request[q].at = "release"
  /\ Freed(request[q].lease, request[q].node)
  /\ request' = [request EXCEPT ![q] = Waiting]
  /\ UNCHANGED <<nodes, renewing, work, redo, faults>>

-----------------------------------------------------------------------------
(* The renewal intervals, and the owner's renewHeldBy: a lease somebody    *)
(* renews stays; the interval of one that has gone elsewhere stops itself. *)

Stops(r, l) ==
  /\ tracked[r][l] \notin {NoNode, lease[l]}
  /\ Track(r, l, NoNode)
  /\ UNCHANGED <<nodes, lease, leaked, request, work, redo, faults>>

Lapses(l) ==
  /\ lease[l] \in Node \ up
  /\ \A r \in Replica : <<l, lease[l]>> \notin Running(r)
  /\ lease' = [lease EXCEPT ![l] = NoNode]
  /\ UNCHANGED <<nodes, renewing, request, work, redo, faults>>

-----------------------------------------------------------------------------
(* Draining a node, and its death: handOver. *)

Draining(n) == \E r \in Replica : work[r].drain /\ work[r].node = n

(* Defective: the leases are handed over, and the node is not marked.      *)
DrainUnmarked(r, n) ==
  /\ Fault("drain") /\ work[r] = Resting
  /\ ~Draining(n)
  /\ work' = [work EXCEPT ![r] = [Resting EXCEPT !.at = "list", !.node = n, !.drain = TRUE]]
  /\ UNCHANGED <<nodes, lease, renewing, request, redo>>

(* setDraining(true): the mark first. *)
Drain(r, n) ==
  /\ Fault("drain") /\ work[r] = Resting
  /\ ~Draining(n)
  /\ draining' = draining \cup {n}
  /\ work' = [work EXCEPT ![r] = [Resting EXCEPT !.at = "list", !.node = n, !.drain = TRUE]]
  /\ UNCHANGED <<up, alive, known, drained, lease, renewing, request, redo>>

(* Once its drains have been answered. *)
Undrain(n) ==
  /\ n \in drained /\ ~Draining(n)
  /\ draining' = draining \ {n} /\ drained' = drained \ {n}
  /\ UNCHANGED <<up, alive, known, lease, renewing, request, work, redo, faults>>

(* A watcher's pass; whichever replica has the claim (NodeDeath).          *)
Watch(r, n) ==
  /\ n \in known \ (up \cup alive) /\ work[r] = Resting
  /\ work' = [work EXCEPT ![r] = [Resting EXCEPT !.at = "list", !.node = n]]
  /\ UNCHANGED <<nodes, lease, renewing, request, redo, faults>>

(* Defective: only those this replica renews.                              *)
ListTracked(r) ==
  /\ work[r].at = "list"
  /\ work' = [work EXCEPT ![r].at = "release",
                          ![r].rows = {l \in Lease : work[r].node \in {lease[l]} \cap {tracked[r][l]}}]
  /\ UNCHANGED <<nodes, lease, renewing, request, redo, faults>>

(* leasesHeldBy. *)
List(r) ==
  /\ work[r].at = "list"
  /\ work' = [work EXCEPT ![r].at = "release", ![r].rows = {l \in Lease : lease[l] = work[r].node}]
  /\ UNCHANGED <<nodes, lease, renewing, request, redo, faults>>

HandOver(r, l) ==
  /\ work[r].at = "release" /\ l \in work[r].rows
  /\ Freed(l, work[r].node)
  /\ IF tracked[r][l] = work[r].node THEN Track(r, l, NoNode) ELSE UNCHANGED tracked
  /\ work' = [work EXCEPT ![r].rows = @ \ {l}]
  /\ UNCHANGED <<nodes, leaked, request, redo, faults>>

HandedOver(r) ==
  /\ work[r].at = "release" /\ work[r].rows = {}
  /\ work' = [work EXCEPT ![r] = Resting]
  /\ drained' = drained \cup (IF work[r].drain THEN {work[r].node} ELSE {})
  /\ UNCHANGED <<up, alive, known, draining, lease, renewing, request, redo, faults>>

-----------------------------------------------------------------------------
(* Nodes and their heartbeats. *)

Dies(n) ==
  /\ n \in up /\ Fault("death")
  /\ up' = up \ {n}
  /\ UNCHANGED <<alive, known, draining, drained, lease, renewing, request, work, redo>>

KeyExpires(n) ==
  /\ n \in alive \ up
  /\ alive' = alive \ {n}
  /\ UNCHANGED <<up, known, draining, drained, lease, renewing, request, work, redo, faults>>

Returns(n) ==
  /\ n \notin up
  /\ up' = up \cup {n}
  /\ UNCHANGED <<alive, known, draining, drained, lease, renewing, request, work, redo, faults>>

Heartbeat(n) ==
  /\ n \in up \ alive
  /\ alive' = alive \cup {n} /\ known' = known \cup {n}
  /\ UNCHANGED <<up, draining, drained, lease, renewing, request, work, redo, faults>>

-----------------------------------------------------------------------------
(* Crashes, and the loss of Redis. *)

Crash(r) ==
  /\ Fault("crash")
  /\ tracked' = [tracked EXCEPT ![r] = [l \in Lease |-> NoNode]]
  /\ leaked' = [leaked EXCEPT ![r] = {}]
  /\ request' = [q \in Request |-> IF Home[q] = r THEN Waiting ELSE request[q]]
  /\ work' = [work EXCEPT ![r] = Resting]
  /\ restoring' = [restoring EXCEPT ![r] = {}] /\ lost' = lost \ {r}
  /\ UNCHANGED <<nodes, lease>>

RedisLost ==
  /\ Fault("redis")
  /\ alive' = {} /\ known' = {} /\ draining' = {}
  /\ lease' = [l \in Lease |-> NoNode]
  /\ lost' = Replica
  /\ UNCHANGED <<up, drained, renewing, request, work, restoring>>

(* The new epoch is noticed: restore goes through the renewals.            *)
Restore(r) ==
  /\ r \in lost /\ restoring[r] = {}
  /\ restoring' = [restoring EXCEPT ![r] =
                     {<<l, tracked[r][l]>> : l \in {k \in Lease : tracked[r][k] # NoNode}}]
  /\ lost' = lost \ {r}
  /\ UNCHANGED <<nodes, lease, renewing, request, work, faults>>

(* Defective: SET without NX.                                              *)
SetAgainAnyway(r, l, n) ==
  /\ <<l, n>> \in restoring[r]
  /\ restoring' = [restoring EXCEPT ![r] = @ \ {<<l, n>>}]
  /\ lease' = [lease EXCEPT ![l] = n]
  /\ UNCHANGED <<nodes, renewing, request, work, lost, faults>>

(* SET NX, or, when another node has it, the renewal is dropped; one that  *)
(* has been started since is no longer in renewals, and runs on.           *)
SetAgain(r, l, n) ==
  /\ <<l, n>> \in restoring[r]
  /\ restoring' = [restoring EXCEPT ![r] = @ \ {<<l, n>>}]
  /\ lease' = [lease EXCEPT ![l] = IF @ = NoNode THEN n ELSE @]
  /\ IF lease[l] \in {NoNode, n} THEN UNCHANGED renewing
     ELSE /\ Track(r, l, NoNode)
          /\ leaked' = [leaked EXCEPT ![r] =
                          @ \cup (IF tracked[r][l] \in {NoNode, n} THEN {} ELSE {<<l, tracked[r][l]>>})]
  /\ UNCHANGED <<nodes, request, work, lost, faults>>

-----------------------------------------------------------------------------
RequestStep(q) ==
  \/ Got(q) \/ Choose(q) \/ SetLease(q) \/ Reread(q) \/ StartRenewing(q) \/ Answer(q) \/ Released(q)
  \/ \E l \in Lease : Ask(q, l) \/ Release(q, l)

HandOverStep(r) == List(r) \/ HandedOver(r) \/ \E l \in Lease : HandOver(r, l)

NodeStep(n) == Dies(n) \/ KeyExpires(n) \/ Returns(n) \/ Heartbeat(n) \/ Undrain(n)

RestoreStep(r) == Restore(r) \/ \E l \in Lease, n \in Node : SetAgain(r, l, n)

ReplicaStep(r) ==
  \/ HandOverStep(r) \/ RestoreStep(r) \/ Crash(r)
  \/ \E n \in Node : Drain(r, n) \/ Watch(r, n)
  \/ \E l \in Lease : Stops(r, l)

Step ==
  \/ \E q \in Request : RequestStep(q)
  \/ \E r \in Replica : ReplicaStep(r)
  \/ \E n \in Node : NodeStep(n)
  \/ \E l \in Lease : Lapses(l)
  \/ RedisLost

Chosen(q) == request[q].at = "set"

Seen ==
  /\ seen' = [q \in Request |-> IF request'[q].at = "idle" THEN {}
                                ELSE seen[q] \cup {lease'[request'[q].lease]}]
  /\ overtaken' = {q \in Request : /\ Chosen(q)'
                                   /\ \/ q \in overtaken
                                      \/ Chosen(q) /\ request[q].node \in draining' \ draining}
  /\ stray' = {l \in Lease : /\ lease'[l] # NoNode
                             /\ \/ l \in stray
                                \/ \E q \in overtaken : request[q].lease = l /\ request'[q].at = "won"}

LeaseNext == Step /\ Seen

LeaseSpec == LeaseInit /\ [][LeaseNext]_vars

(* Keys expire, a request under way, a restore and a hand-over go on, and  *)
(* each of the watchers' passes looks at every node.                       *)
LeaseFairness ==
  /\ \A n \in Node : WF_vars(KeyExpires(n) /\ Seen) /\ WF_vars(Heartbeat(n) /\ Seen)
  /\ \A l \in Lease : WF_vars(Lapses(l) /\ Seen)
  /\ \A q \in Request : WF_vars(request[q] # Waiting /\ RequestStep(q) /\ Seen)
  /\ \A r \in Replica : WF_vars(HandOverStep(r) /\ Seen) /\ WF_vars(RestoreStep(r) /\ Seen)
  /\ \A n \in Node : SF_vars(\E r \in Replica : Watch(r, n) /\ Seen)

FairLeaseSpec == LeaseSpec /\ LeaseFairness

-----------------------------------------------------------------------------
(* Properties. *)

(* "Redis, not this replica's memory, says who holds it": acquire sends a  *)
(* call to a node that has held the lease since it was asked, and never to *)
(* one the lease was handed over from before (affinity/manager.ts:205-207).*)
AnswersHolder ==
  \A q \in Request : request[q].at = "answered" => request[q].node \in seen[q]

(* A lease passes from one node to another only by becoming free: neither  *)
(* a lost race nor a restore takes it from a node that has it (manager.ts, *)
(* restore: "a lease someone else has since taken is theirs").             *)
NeverSnatched ==
  [][\A l \in Lease : lease'[l] \in {lease[l], NoNode} \/ lease[l] = NoNode]_vars

(* A hand-over frees the leases of its node only, though the list it goes  *)
(* by is old (packages/affinity registry.ts, RELEASE_SCRIPT).              *)
FreesOnlyItsOwn ==
  [][\A r \in Replica, l \in Lease :
       (l \in work[r].rows \ work'[r].rows /\ lease'[l] # lease[l])
         => lease[l] = work[r].node]_vars

(* A lease changes nodes in no other way than by being free in between,    *)
(* and is freed with no other node than its own.                           *)
LeasesStay == NeverSnatched /\ FreesOnlyItsOwn

(* A drain frees what its node had and keeps new leases away, though its   *)
(* list is old when it goes by it (node-drain.ts:61-75): a drained node    *)
(* has only what an acquire wrote that had chosen it before the mark.      *)
DrainedHoldsNone == \A n \in drained, l \in Lease : lease[l] = n => l \in stray

(* "A lease acquired mid-drain would land on a node being emptied"         *)
(* (node-drain.ts:65), and the mark is to keep such leases away.           *)
DrainedIsEmpty == \A n \in drained, l \in Lease : lease[l] # n

(* "A drain outlives the node's restart, so it never rejoins by accident"  *)
(* (docs/architecture/04-high-availability.md, section 6).                 *)
NeverRejoins == drained \cap InService = {}

(* "Releases the lease and stops renewing it" (manager.ts:67), through the *)
(* renewals map, "renewal timers this replica is running, keyed by lease": *)
(* no interval runs that is not in it.                                     *)
RenewalsTracked == \A r \in Replica : leaked[r] = {}

(* Leases do not stay on dead nodes (manager.ts:45-46, node-failure.ts):   *)
(* when some are there, a time comes when none is, and all the resources   *)
(* can be reached again.                                                   *)
DeadLeasesLeave ==
  (\E l \in Lease : lease[l] \in Node \ up) ~> (\A l \in Lease : lease[l] \notin Node \ up)
=============================================================================
