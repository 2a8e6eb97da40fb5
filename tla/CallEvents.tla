------------------------------ MODULE CallEvents ------------------------------
(***************************************************************************)
(* What call-control makes of one media node's channel events              *)
(* (channel-handler.ts, serial.ts, registry-rebuild.ts, main.ts): the      *)
(* node's owner handles them one at a time, each in two steps, an outbox   *)
(* row and then the registry; a new owner first catches up on the node's   *)
(* calls; and when Redis has lost the registry one replica rebuilds it,    *)
(* beside the events.                                                      *)
(*                                                                         *)
(* The node has at most one owner (NodeOwnership).  Channels and their     *)
(* events are FreeSWITCH's.                                                *)
(***************************************************************************)
EXTENDS Naturals, Sequences, CallRegistry

CONSTANTS
  Replica,       \* call-control replicas
  NoOne,         \* no replica
  NoCall,        \* no call
  Says,          \* when a call's channel names its tenant: "first", "later", "never"
  MaxQueue,      \* bound: tasks an owner has waiting
  MaxFaults,     \* bound: how many faults happen
  Faults         \* which of "crash", "handover", "lag", "task", "redis", "death", "expiry" may happen

(* What the constants are. *)
EventsAssumption ==
  /\ NoOne \notin Replica /\ NoCall \notin Call /\ MaxQueue \in Nat /\ MaxFaults \in Nat
  /\ Says \in [Call -> {"first", "later", "never"}]
  /\ Faults \subseteq {"crash", "handover", "lag", "task", "redis", "death", "expiry"}

VARIABLES
  nodeUp,      \* whether the media node runs
  channel,     \* the node's channels
  owner,       \* the replica that owns the node
  queue,       \* serial.ts: a replica's tasks for the node, the first one under way
  job,         \* where it is with it, and with its rebuild
  epoch,       \* whether registry:epoch is there
  announced,   \* history: the events enqueued for each call
  faults       \* faults so far

node   == <<nodeUp, channel>>
vars   == <<node, owner, queue, job, epoch, announced, faults, registry>>

Process == Replica \X {"events", "rebuild"}

Events(r)  == <<r, "events">>
Rebuild(r) == <<r, "rebuild">>

Kind == {"created", "answered", "bridged", "hungup"}

Sync == [kind |-> "sync", call |-> NoCall, peer |-> NoCall]

Task == [kind : Kind, call : Call, peer : Call] \cup {Sync}

(* known: tenantFor's answer; rows: calls still to look at; live: what     *)
(* the node listed; fresh: calls that started after it was asked; call,    *)
(* dump: the row in hand and its uuid_dump.                                *)
Job == [at : {"idle", "identify", "peer", "identifyPeer", "write", "apply",
              "rows", "create", "update", "ending", "endApply"},
        known : BOOLEAN, rows : SUBSET Call, live : SUBSET Call,
        fresh : SUBSET Call, call : Call \cup {NoCall}, dump : SUBSET Field]

Idle == [at |-> "idle", known |-> FALSE, rows |-> {}, live |-> {}, fresh |-> {},
         call |-> NoCall, dump |-> {}]

TypeOK ==
  /\ RegistryTypeOK
  /\ nodeUp \in BOOLEAN /\ epoch \in BOOLEAN
  /\ channel \in [Call -> {"none", "ringing", "answered", "bridged", "gone", "lost"}]
  /\ owner \in Replica \cup {NoOne}
  /\ \A r \in Replica : queue[r] \in Seq(Task) /\ Len(queue[r]) <= MaxQueue + 1
  /\ job \in [Process -> Job]
  /\ announced \in [Call -> SUBSET (Kind \cup {"identified", "lost"})]
  /\ faults \in 0..MaxFaults

Init ==
  /\ RegistryInit
  /\ nodeUp = TRUE /\ epoch = TRUE
  /\ channel = [c \in Call |-> "none"]
  /\ owner \in Replica
  /\ queue = [r \in Replica |-> <<>>]
  /\ job = [p \in Process |-> Idle]
  /\ announced = [c \in Call |-> {}]
  /\ faults = 0

Live(c) == channel[c] \in {"ringing", "answered", "bridged"}

(* What the node says of a live channel. *)
Facts(c) ==
  (IF Says[c] = "first" \/ (Says[c] = "later" /\ channel[c] # "ringing")
     THEN {"tenant"} ELSE {})
  \cup (CASE channel[c] = "answered" -> {"answered"}
          [] channel[c] = "bridged"  -> {"answered", "bridged"}
          [] OTHER -> {})

Fault(k) == k \in Faults /\ faults < MaxFaults /\ faults' = faults + 1

(* An earlier owner is done with what it has queued, unless it may lag.    *)
Drained == "lag" \in Faults \/ \A r \in Replica : queue[r] = <<>>

Announce(c, k) == announced' = [announced EXCEPT ![c] = @ \cup {k}]

-----------------------------------------------------------------------------
(* The media node. *)

(* Defective: events are handled as they come, a later one first.          *)
RaiseUnordered(k, c, d) ==
  /\ owner # NoOne => Len(queue[owner]) < MaxQueue
  /\ queue' = [r \in Replica |->
                 LET t == [kind |-> k, call |-> c, peer |-> d]
                 IN  IF r # owner THEN queue[r]
                     ELSE IF job[Events(r)].at = "idle" THEN <<t>> \o queue[r]
                     ELSE <<Head(queue[r]), t>> \o Tail(queue[r])]
  /\ UNCHANGED <<nodeUp, owner, job, epoch, announced, faults, registry>>

(* The node raises an event: the owner queues it, every other replica      *)
(* drops it.                                                               *)
Raise(k, c, d) ==
  /\ owner # NoOne => Len(queue[owner]) < MaxQueue
  /\ queue' = [r \in Replica |->
                 IF r = owner THEN Append(queue[r], [kind |-> k, call |-> c, peer |-> d])
                 ELSE queue[r]]
  /\ UNCHANGED <<nodeUp, owner, job, epoch, announced, faults, registry>>

Ring(c) ==
  /\ nodeUp /\ channel[c] = "none"
  /\ channel' = [channel EXCEPT ![c] = "ringing"]
  /\ Raise("created", c, c)

Answer(c) ==
  /\ nodeUp /\ channel[c] = "ringing"
  /\ channel' = [channel EXCEPT ![c] = "answered"]
  /\ Raise("answered", c, c)

Bridge(c, d) ==
  /\ nodeUp /\ channel[c] = "answered" /\ c # d /\ Live(d)
  /\ channel' = [channel EXCEPT ![c] = "bridged"]
  /\ Raise("bridged", c, d)

Hangup(c) ==
  /\ nodeUp /\ Live(c)
  /\ channel' = [channel EXCEPT ![c] = "gone"]
  /\ Raise("hungup", c, c)

NodeDies ==
  /\ nodeUp /\ Fault("death")
  /\ nodeUp' = FALSE
  /\ channel' = [c \in Call |-> IF Live(c) THEN "lost" ELSE channel[c]]
  /\ UNCHANGED <<owner, queue, job, epoch, announced, registry>>

(* It is back once its owner has seen its socket close.                    *)
NodeReturns ==
  /\ ~nodeUp /\ owner = NoOne /\ Drained
  /\ nodeUp' = TRUE
  /\ UNCHANGED <<channel, owner, queue, job, epoch, announced, faults, registry>>

-----------------------------------------------------------------------------
(* Ownership and crashes. *)

(* The owner gives the node up: its socket closed, it shuts down, or its   *)
(* lease lapsed.  What it has queued it still does.                        *)
Lose ==
  /\ owner # NoOne
  /\ IF nodeUp THEN Fault("handover") ELSE UNCHANGED faults
  /\ owner' = NoOne
  /\ UNCHANGED <<node, queue, job, epoch, announced, registry>>

(* onAcquired. *)
Acquire(r) ==
  /\ owner = NoOne /\ nodeUp
  /\ Drained
  /\ owner' = r
  /\ queue' = [queue EXCEPT ![r] = Append(@, Sync)]
  /\ UNCHANGED <<node, job, epoch, announced, faults, registry>>

(* Process r dies, and what it had queued with it.                         *)
Dies(r) ==
  /\ Fault("crash")
  /\ owner' = IF owner = r THEN NoOne ELSE owner
  /\ queue' = [queue EXCEPT ![r] = <<>>]
  /\ job' = [job EXCEPT ![Events(r)] = Idle, ![Rebuild(r)] = Idle]
  /\ UNCHANGED <<node, epoch, announced, registry>>

CallExpires(c) ==
  /\ Fault("expiry") /\ HasCall(c)
  /\ ExpireCall(c)
  /\ UNCHANGED <<node, owner, queue, job, epoch, announced>>

Crash(r) == (owner = r \/ queue[r] # <<>> \/ job[Rebuild(r)] # Idle) /\ Dies(r)

-----------------------------------------------------------------------------
(* handleEvent: the steps of one task. *)

At(p, a) == job' = [job EXCEPT ![p].at = a]

(* The task is done: the next one starts. *)
Done(r) ==
  /\ queue' = [queue EXCEPT ![r] = Tail(@)]
  /\ job' = [job EXCEPT ![Events(r)] = Idle]

(* The first task of r's queue is a t and stands at a. *)
Handles(r, t, a) ==
  queue[r] # <<>> /\ t = Head(queue[r]) /\ job[Events(r)].at = a

(* Whether the event says the tenant.                                      *)
Told(t) == Says[t.call] = "first" \/ (Says[t.call] = "later" /\ t.kind # "created")

(* After tenantFor: the other leg of a bridge is identified as well.       *)
Onward(t, known) == IF t.kind = "bridged" /\ known THEN "peer" ELSE "write"

(* tenantFor: what the event says is attached, or the registry is read.    *)
TenantFor(r, t) ==
  /\ Handles(r, t, "idle") /\ t.kind \in {"answered", "bridged", "hungup"}
  /\ LET known == Told(t) \/ TenantOf(t.call)
         next  == IF Told(t) /\ Attaches(t.call) THEN "identify" ELSE Onward(t, known)
     IN  job' = [job EXCEPT ![Events(r)] = [Idle EXCEPT !.at = next, !.known = known]]
  /\ IF Told(t) THEN AttachTenant(t.call) ELSE UNCHANGED registry
  /\ UNCHANGED <<node, owner, queue, epoch, announced, faults>>

(* identify: the call that was attached is announced to its tenant.        *)
Identify(r, t) ==
  /\ Handles(r, t, "identify")
  /\ Announce(t.call, "identified")
  /\ At(Events(r), Onward(t, TRUE))
  /\ UNCHANGED <<node, owner, queue, epoch, faults, registry>>

AttachPeer(r, t) ==
  /\ Handles(r, t, "peer")
  /\ AttachTenant(t.peer)
  /\ At(Events(r), IF Attaches(t.peer) THEN "identifyPeer" ELSE "write")
  /\ UNCHANGED <<node, owner, queue, epoch, announced, faults>>

IdentifyPeer(r, t) ==
  /\ Handles(r, t, "identifyPeer")
  /\ Announce(t.peer, "identified")
  /\ At(Events(r), "write")
  /\ UNCHANGED <<node, owner, queue, epoch, faults, registry>>

(* enqueueEvent: the outbox row. *)
Write(r, t) ==
  /\ \/ Handles(r, t, "write")
     \/ Handles(r, t, "idle") /\ t.kind = "created"
  /\ Announce(t.call, t.kind)
  /\ At(Events(r), "apply")
  /\ UNCHANGED <<node, owner, queue, epoch, faults, registry>>

(* ... and then the registry. *)
Apply(r, t) ==
  /\ Handles(r, t, "apply")
  /\ CASE t.kind = "created" -> CreateCall(t.call, Told(t))
       [] t.kind = "hungup"  -> EndCall(t.call)
       [] OTHER              -> UpdateCall(t.call, {t.kind})
  /\ Done(r)
  /\ UNCHANGED <<node, owner, epoch, announced, faults>>

(* The database or Redis fails: the task is given up (serial.ts).          *)
TaskFails(r) ==
  /\ Fault("task")
  /\ queue[r] # <<>>
  /\ Done(r)
  /\ UNCHANGED <<node, owner, epoch, announced, registry>>

-----------------------------------------------------------------------------
(* rebuildNode, by process p: the owner's sync or the rebuild.             *)

(* "show channels". *)
List(p) ==
  job' = [job EXCEPT ![p] =
            [Idle EXCEPT !.at = "rows", !.live = {c \in Call : Live(c)},
                         !.rows = {c \in Call : Live(c)},
                         !.fresh = {c \in Call : channel[c] = "none"}]]

(* hasCall, then uuid_dump: a call the registry has is left as it is, one  *)
(* that is over since the list is left out.                                *)
Row(p, c) ==
  /\ job[p].at = "rows" /\ c \in job[p].rows /\ nodeUp
  /\ job' = [job EXCEPT ![p].rows = @ \ {c},
                        ![p].at = IF HasCall(c) \/ ~Live(c) THEN "rows" ELSE "create",
                        ![p].call = IF HasCall(c) \/ ~Live(c) THEN NoCall ELSE c,
                        ![p].dump = IF HasCall(c) THEN {} ELSE Facts(c)]
  /\ UNCHANGED <<node, owner, queue, epoch, announced, faults, registry>>

(* createCall with the state "ringing".                                    *)
RebuildCall(p) ==
  /\ job[p].at = "create"
  /\ CreateCall(job[p].call, "tenant" \in job[p].dump)
  /\ job' = [job EXCEPT ![p].at = IF job[p].dump \subseteq {"tenant"} THEN "rows" ELSE "update"]
  /\ UNCHANGED <<node, owner, queue, epoch, announced, faults>>

(* updateCall with its answer and its bridge.                              *)
RebuildChanges(p) ==
  /\ job[p].at = "update"
  /\ UpdateCall(job[p].call, job[p].dump \ {"tenant"})
  /\ At(p, "rows")
  /\ UNCHANGED <<node, owner, queue, epoch, announced, faults>>

(* syncNode, the first task of a new owner. *)
SyncStarts(r) ==
  /\ Handles(r, Sync, "idle") /\ nodeUp
  /\ List(Events(r))
  /\ UNCHANGED <<node, owner, queue, epoch, announced, faults, registry>>

(* Defective: the sync adds calls and ends none.                           *)
SyncAddsOnly(r) ==
  /\ Handles(r, Sync, "rows") /\ job[Events(r)].rows = {}
  /\ job' = [job EXCEPT ![Events(r)].at = "ending"]
  /\ UNCHANGED <<node, owner, queue, epoch, announced, faults, registry>>

(* The rows are done: callsForNode. *)
SyncCalls(r) ==
  /\ Handles(r, Sync, "rows") /\ job[Events(r)].rows = {}
  /\ job' = [job EXCEPT ![Events(r)].at = "ending", ![Events(r)].rows = index \ job[Events(r)].live]
  /\ UNCHANGED <<node, owner, queue, epoch, announced, faults, registry>>

(* A call that started after the node was asked is left alone.             *)
SyncSpares(r, c) ==
  /\ Handles(r, Sync, "ending") /\ c \in job[Events(r)].rows
  /\ HasCall(c) /\ c \in job[Events(r)].fresh
  /\ job' = [job EXCEPT ![Events(r)].rows = @ \ {c}]
  /\ UNCHANGED <<node, owner, queue, epoch, announced, faults, registry>>

(* Defective: one that started since the node was asked is ended as well.  *)
SyncEndsFresh(r, c) ==
  /\ Handles(r, Sync, "ending") /\ c \in job[Events(r)].rows
  /\ Announce(c, "hungup")
  /\ job' = [job EXCEPT ![Events(r)].rows = @ \ {c}, ![Events(r)].at = "endApply",
                        ![Events(r)].call = c]
  /\ UNCHANGED <<node, owner, queue, epoch, faults, registry>>

(* Another the node no longer has is ended as by a hangup: the outbox row  *)
SyncEnds(r, c) ==
  /\ Handles(r, Sync, "ending") /\ c \in job[Events(r)].rows
  /\ ~(HasCall(c) /\ c \in job[Events(r)].fresh)
  /\ Announce(c, "hungup")
  /\ job' = [job EXCEPT ![Events(r)].rows = @ \ {c}, ![Events(r)].at = "endApply",
                        ![Events(r)].call = c]
  /\ UNCHANGED <<node, owner, queue, epoch, faults, registry>>

(* ... and the registry. *)
SyncEnded(r) ==
  /\ Handles(r, Sync, "endApply")
  /\ EndCall(job[Events(r)].call)
  /\ At(Events(r), "ending")
  /\ UNCHANGED <<node, owner, queue, epoch, announced, faults>>

SyncDone(r) ==
  /\ Handles(r, Sync, "ending") /\ job[Events(r)].rows = {}
  /\ Done(r)
  /\ UNCHANGED <<node, owner, epoch, announced, faults, registry>>

(* The node does not answer: the sync is given up.                         *)
SyncFails(r) ==
  /\ \E a \in {"idle", "rows"} : Handles(r, Sync, a)
  /\ ~nodeUp
  /\ Done(r)
  /\ UNCHANGED <<node, owner, epoch, announced, faults, registry>>

-----------------------------------------------------------------------------
(* Redis loses the registry, its epoch with it. *)

RedisLost ==
  /\ Fault("redis")
  /\ LoseRegistry /\ epoch' = FALSE
  /\ UNCHANGED <<node, owner, queue, job, announced>>

(* check: the replica that claims the epoch reads the node, if it is up.   *)
ClaimEpoch(r) ==
  /\ ~epoch /\ job[Rebuild(r)] = Idle
  /\ epoch' = TRUE
  /\ IF nodeUp THEN List(Rebuild(r)) ELSE UNCHANGED job
  /\ UNCHANGED <<node, owner, queue, announced, faults, registry>>

RebuildDone(r) ==
  /\ job[Rebuild(r)].at = "rows" /\ (job[Rebuild(r)].rows = {} \/ ~nodeUp)
  /\ job' = [job EXCEPT ![Rebuild(r)] = Idle]
  /\ UNCHANGED <<node, owner, queue, epoch, announced, faults, registry>>

-----------------------------------------------------------------------------
NodeNext ==
  \/ \E c \in Call : Ring(c) \/ Answer(c) \/ Hangup(c) \/ \E d \in Call : Bridge(c, d)
  \/ NodeReturns

(* The task a replica is at. *)
Current(r) == {queue[r][i] : i \in {1} \cap DOMAIN queue[r]}

(* One step of a replica's queue. *)
TaskStep(r) ==
  \/ \E t \in Current(r) :
       TenantFor(r, t) \/ Identify(r, t) \/ AttachPeer(r, t) \/ IdentifyPeer(r, t)
         \/ Write(r, t) \/ Apply(r, t)
  \/ SyncStarts(r) \/ SyncCalls(r) \/ SyncEnded(r) \/ SyncDone(r) \/ SyncFails(r)
  \/ \E c \in Call : SyncSpares(r, c) \/ SyncEnds(r, c)

ReadStep(p) ==
  RebuildCall(p) \/ RebuildChanges(p) \/ \E c \in Call : Row(p, c)

QueueStep(r) == TaskStep(r) \/ ReadStep(Events(r))

RebuildStep(r) == ClaimEpoch(r) \/ ReadStep(Rebuild(r)) \/ RebuildDone(r)

FaultNext ==
  \/ NodeDies \/ RedisLost
  \/ \E r \in Replica : Crash(r) \/ TaskFails(r)
  \/ \E c \in Call : CallExpires(c)

Next ==
  \/ NodeNext \/ Lose \/ FaultNext
  \/ \E r \in Replica : QueueStep(r) \/ RebuildStep(r) \/ Acquire(r)

Spec == Init /\ [][Next]_vars

(* A task whose turn has come runs, and every pass tries to own the node.  *)
Fairness == \A r \in Replica : WF_vars(QueueStep(r)) /\ WF_vars(Acquire(r))

FairSpec == Spec /\ Fairness

-----------------------------------------------------------------------------
(* Properties. *)

(* The owner has nothing left to do.                                       *)
Quiet ==
  /\ owner # NoOne /\ nodeUp /\ epoch
  /\ \A r \in Replica : queue[r] = <<>> /\ job[Rebuild(r)] = Idle

(* However often the node changes owners, whatever is queued when a        *)
(* replica dies between its two steps: once the owner has caught up, the   *)
(* registry has the node's calls, and no others (registry-rebuild.ts,      *)
(* syncNode).                                                              *)
InStep == Quiet => Registered = {c \in Call : Live(c)} /\ index = Registered

(* ... and as they stand: the answers and bridges the node has are         *)
(* recorded, and no others.                                                *)
StateInStep ==
  Quiet => \A c \in Call : Live(c) => hash[c] \ {"tenant"} = Facts(c) \ {"tenant"}

(* ... and it does catch up: no call that is over stays in the live view   *)
(* of a node that runs, though its hangup was dropped.                     *)
EndedCallsLeave == \A c \in Call : channel[c] = "gone" ~> ~HasCall(c) \/ ~nodeUp

(* A rebuild brings back every call that is up (registry-rebuild.ts).      *)
NoneMissing == Quiet => \A c \in Call : Live(c) => HasCall(c) /\ c \in index

(* A sync ends "calls the registry still holds that the node no longer     *)
(* has, and that started before the node was asked" (registry-rebuild.ts:  *)
(* 112-114): no call is announced as hung up while it is up, a rebuild     *)
(* adding calls beside the sync or not.                                    *)
OnlyEndedHungUp == \A c \in Call : "hungup" \in announced[c] => ~Live(c)

(* What the live view shows of a call is in the outbox first: nothing the  *)
(* registry records goes unannounced (channel-handler.ts: "in that order").*)
AnnouncedFirst ==
  \A c \in Registered :
    "created" \in announced[c] /\ hash[c] \ {"tenant"} \subseteq announced[c]

(* A call whose tenant the registry knows starts in the tenant's live view:*)
(* its tenant was known when it was created, or it was announced since     *)
(* (channel-handler.ts, identify).                                         *)
TenantAnnounced ==
  Quiet => \A c \in Registered :
    TenantOf(c) => Says[c] = "first" \/ "identified" \in announced[c]

(* "Handling them in that order is what keeps the outbox (and so every     *)
(* consumer, the realtime hub most of all) in step with the call"          *)
(* (serial.ts:5-9): no event of a call is written before its creation or   *)
(* after its hangup.                                                       *)
InOrder(c) ==
  LET new == announced'[c] \ announced[c]
  IN  /\ new # {} => "hungup" \notin announced[c]
      /\ "created" \in new => announced[c] = {}

AnnouncedInOrder == [][\A c \in Call : InOrder(c)]_vars

(* "The rebuild never overwrites a call live events recreated"             *)
(* (redis/registry.ts, hasCall).                                           *)
NeverOverwrites ==
  [][\A r \in Replica :
       RebuildCall(Rebuild(r)) => ~HasCall(job[Rebuild(r)].call)]_vars
=============================================================================
