# conductor-uc in TLA+

conductor-uc is a multi-tenant unified-communications platform. Around third-party
media nodes (FreeSWITCH) and SIP edges (OpenSIPS) it runs TypeScript services that
share nothing but MariaDB (each its own schema, through Kysely), NATS JetStream (the
event bus) and Redis (live state). This directory models the protocols between those
processes, checks them with TLC and proves the most important results with TLAPS.

Contents: [the system](#the-system), [the plan](#plan), [the modules](#modules),
[the runs](#runs), [bounds](#bounds), [fairness](#fairness),
[assumptions](#assumptions), [proofs](#proofs),
[where code and claims differ](#where-the-code-and-its-claims-differ),
[what is not modelled](#what-is-not-modelled).

## The system

Paths are relative to `src/`.

### call-control (`services/call-control`)

Several replicas run at a time. Each keeps an event socket to **every** media node.

| part | state | operations | correct when |
|---|---|---|---|
| node ownership (`node-ownership.ts`, `main.ts`) | Redis `nodeowner:{id}` with a 6 s expiry; per replica the nodes it owns, the sockets that are up, a shared pass in progress | a pass every 2 s and at each connect or disconnect: claim, renew or release per node; shutdown; crash | one replica acts for a node; its lease is renewed in time; after a crash another takes over |
| node liveness (`redis/registry.ts`, `main.ts`) | Redis `fsnode:{id}`, 10 s; `fsnodes` | heartbeat on acquisition, every 3 s, and on the node's own event | a live node is not declared dead |
| call events (`channel-handler.ts`, `serial.ts`) | a queue per node; outbox rows; Redis `call:{uuid}` and `node:{id}:calls` | created, answered, bridged, hung up; tenant attached late | registry and announcements agree with the node, in the call's order |
| rebuild and sync (`registry-rebuild.ts`) | `registry:epoch` | a new owner's sync; one replica's rebuild after Redis lost its data | every live call comes back; only calls that are over are ended |
| node death (`node-failure.ts`) | Redis `nodelost:{id}` | every replica watches; one claims the death, announces each call as lost, removes it, hands leases over | one sweep at a time; nothing alive is announced as lost; every lost call is |
| affinity and drain (`affinity/manager.ts`, `packages/affinity`, `node-drain.ts`) | Redis `aff:{tenant}:{kind}:{id}`, `fsnodes:draining`; per replica the renewal timers | acquire, release, renew, restore, drain, undrain, hand over | an answer names the holder; a lease is never taken from its holder; a drained or dead node keeps none |
| call operations, recording, monitoring | none between requests | a request, FreeSWITCH commands, an outbox row | the commands go to the call's node |

The parts meet in shared state: ownership decides whose callbacks feed call events and
who heartbeats; the heartbeat key is what node death looks at; node death and drain end
by handing affinity leases over; the loss of Redis sets off both the rebuild and the
restoring of leases. What is hard is that every decision is read from one place, awaited
and acted upon later, with several replicas doing the same.

### The event pipeline (`packages/events`)

A service writes an event to its `outbox` table in the transaction of the change the event
describes (`outbox.ts`). Every copy of the service runs a relay (`relay.ts`) that selects
unsent rows, publishes each to JetStream and marks it. Every consuming service has a
durable consumer (`consumer.ts`) whose handler runs in one transaction with an insert into
`consumed_events`. Hard: several relays and workers, crashes between publishing and marking
or committing and acknowledging, lost answers, the duplicate window, back-off and the
delivery limit. Correct: an event is announced exactly with its write, and handled at most
once, and a fault or two does not lose it.

### What users see and do

| part | state | operations | correct when |
|---|---|---|---|
| realtime hub (`services/api-gateway/src/realtime`) | connections, subscriptions, shared trackers, the feed | log in, subscribe, snapshot, events, recheck of rights | a subscriber who has a snapshot misses nothing after it; none stays after its rights end |
| live views (same) | a person's legs, presence | call events in any order | the view is that of a fresh snapshot |
| recording control (`call-control/src/recording-control.ts`) | the recording's row, the channel, the node | start, stop, pause, resume, by button or code | row, node and audit agree |
| call operations (`call-control/src/call-operations.ts`) | Redis marks, the node's calls | attended transfer, parking | nobody held is left for good; two parked calls do not meet while the node lists its slots |
| recordings and voicemail files (`recording-service`, `voicemail-service`) | spool files, rows, objects | upload, complete, retry, delete, expire | a file goes only when all of it is stored |
| mailboxes (`voicemail-service`, `telephony-config/src/mwi.ts`, `notification-service`) | messages, lamps, mails | leave, read, move, delete, announce | the lamp follows the mailbox, the only copy is kept |
| transcription (`voicemail-service`) | claims on messages | take, finish, fail, take again | one transcriber at a time; every message ends |

### Accounts and configuration

| part | state | operations | correct when |
|---|---|---|---|
| sessions (`identity-service/src/auth`) | sessions, factors, reset links | login, refresh, reuse, logout, reset, disable | a chain has one live token; revoked is signed out |
| signing keys (`identity-service/src/repo/signing-key.repo.ts`) | keys, the gateways' cache | stage, promote, rotate, revoke, fetch | one key signs; it is held before it is used; tokens verify until they expire |
| organisations (`org-service`) | status, grace | create, suspend, resume, request, cancel, delete | deleted once, after its grace, without tenants |
| certificates (`org-service`, `telephony-config/src/certificate-sync.ts`) | rows, leases, files | want, lease, issue, renew, serve | one worker leases a name; what is held stays served |
| projection (`telephony-config`) | a read model, OpenSIPS' tables, what it has loaded | events, passes | all three end as configured |

The parts not listed are in `PROJECT.json` under `components` with the reason they are left
out, and at the [end](#what-is-not-modelled) of this page. `hazards` there lists each place that is
hard to test, with the properties that would catch it going wrong.

## Plan

Done, in this order: ownership, liveness, outbox, inbox, their composition, call events, node
death, affinity; then what users see and do; then accounts and configuration. Proved on the way:
what [Proofs](#proofs) says. Left, in the order it would be taken:

1. the CDR service (a call announced as lost and its late record), pickup, queue and monitor control;
2. suspension of tenants and the remaining tables in Projection; brands and domain verification.

## Modules

| module | models | composition |
|---|---|---|
| `NodeOwnership` | `node-ownership.ts`; callbacks and shutdown of `main.ts`; ioredis' resend and give-up | - |
| `NodeLiveness` | heartbeats, key expiry, the watcher's look and claim | EXTENDS NodeOwnership |
| `Outbox` | `outbox.ts`, `relay.ts`, the publishing half of `bus.ts`, the stream | - |
| `EventHandling` | the abstract promise: announce with the write, handle at most once, after | - |
| `Inbox` | `consumer.ts` and the JetStream consumer's side | implements EventHandling |
| `EventDelivery` | relays, stream and workers together | EXTENDS Outbox, INSTANCE Inbox, implements EventHandling |
| `CallRegistry` | the registry's Redis operations for one node | - |
| `CallEvents` | handling, sync and rebuild of one node's calls | EXTENDS CallRegistry |
| `NodeDeath` | watchers and sweeps beside the events | EXTENDS CallEvents |
| `AffinityLeases` | acquire, release, renew, restore, drain, hand-over | - |
| `RealtimeHub`, `LiveViews` | the gateway's streams; the views kept from call events | - |
| `RecordingControl`, `AttendedTransfer`, `Parking` | operations on live calls | `CallPlaces` EXTENDS the last two and `Transcription` |
| `Uploads`, `Voicemail`, `Transcription` | audio files, lamps and mails, texts | `CallAudio` EXTENDS the first two |
| `SignIn`, `SigningKeys` | identity | - |
| `OrgLifecycle`, `Certificates` | org-service, and who serves the certificates | - |
| `Projection` | telephony-config's tables | - |
| `*Proofs` | theorems | EXTEND the module and TLAPS |
| `MC*` | instances for TLC | EXTEND their modules |

Each code path that awaits is split at its awaits; each Redis command, script or `MULTI` is
one step, as is a database transaction's commit, and each statement outside a transaction.
Definitions marked *Defective* are used by no specification: each is a plausible mistake in
the operation below it, and replacing the operation by it makes the property it is listed with
in `PROJECT.json` fail.

**NodeOwnership.** `claim`/`claimLeft` are the Redis key and its remaining life; `owned`,
`connected` and `check` are a replica's `owned` set, its sockets and, per node, where `checkNode`
stands: a command decided (`FirstCommand`), executed (`ExecRenew`, `ExecClaim`, `ExecRelease`),
answered (`Reply`). `runOnce` shares a running pass, so `RunOnce` does nothing while `PassOpen`.
`Resend` is ioredis sending an executed command again after a reconnect, `Reject` its giving up.
`BeginStop` ... `Exit` follow `stop()` and `shutdown`. `Tick` lets time pass once every replica in
contact with Redis has done what is due, so a timer is at most `Lag` late; one that is `cut` is bound
by nothing. `age` is a history variable. **NodeLiveness** adds the heartbeat key; `Own` wraps each
ownership step with what `onAcquired` does. A node in `Mortal` may die and then stays dead.

**Outbox.** A row is absent, unsent, sent or purged; a relay's `held`, `read` and `phase` are the batch
in `runOnce`, the attempts it read, and where it is in `publishRow`. `late` holds publishes nobody waits
for; `lapsed` is history, how often an event's duplicate window lapsed. Locks last only while the
`SELECT` executes (`Locked`). **Inbox.** `status` and `deliveries` are the server's, `step` where a worker
is in `handleMessage`. `Insert` blocks while another open transaction has inserted the same id.
`work` counts committed handlers.

**CallEvents.** `channel` is what FreeSWITCH has; `queue` is `serial.ts`' tail, `job` the await a task or
rebuild stands at. A hash is the set of facts recorded beyond creation. `announced` is the set of events
enqueued for a call. **NodeDeath.** `sweep` is where a watcher is in `pass` and `handle`.
**AffinityLeases.** `tracked` is the `renewals` map, `leaked` intervals that run and are no longer in it;
`request` an HTTP request in `acquire` or `release`; `work` a hand-over in progress, `restoring` a restore. `overtaken` and
`stray` follow an acquire that chose its node before the node was marked draining, and the lease it then wrote.

**RealtimeHub.** The tenant's state is the number of its last change: `registry` what call-control has
stored, `bus` what the feed has delivered, `sub[p].view` what a client has seen. `attempt` is where a
subscribe stands; `tracker`, `holders` and `shared` the state topics share. **LiveViews** keeps two copies
of a person's view, the gateway's and the client's, and the events of each leg.

**RecordingControl.** What the row, the channel variable and the node each say of a recording. **Uploads.** A
file, an object and a row hold lengths; `handling` are requests the service may still be at after the uploader
gave them up. **Voicemail.** `changed` events wait as a set; the lamp is what the phones were last told.
**Transcription.** Each message's row, and the message and try each transcriber has in hand.
**AttendedTransfer.** The node's legs with whom each is joined to, the marks in Redis, and the request's
remaining commands. **Parking.** The lot's occupants, reservations, and where each asker stands. A `valet_info` that the
node refuses is an empty lot, as in the code, and `blind` are the calls that were then parked.

**SignIn.** A session's `next` and family make the chain of refresh tokens; a request keeps what it read.
**SigningKeys.** Keys with their times; each copy's step with the time it took before its lock; the
gateway's cache and a fetch on its way. **OrgLifecycle.** Rows, the admin's read-then-write requests, and each
copy's pass. **Certificates.** Rows with their leases, workers' batches, and what OpenSIPS and the gateway have.
**Projection.** `source` is what is configured, `deleted` the ids that were removed, `model` the read model, `rows` OpenSIPS' tables, `loaded` what it
has read of them; `job` a handler's transaction, `pass` a reconciliation pass. A pass that adds a missing gateway leaves out its `Attrs`.

## Runs

A run explores several instances where that keeps it one question; which one is chosen in the
initial state (`part`, `names`, `many`, `relaying`, `death` in the MC modules). A property that names a
group is the conjunction of the named parts stated above it in its module.

| run | shows |
|---|---|
| `OwnershipCuts` | Under every fault, cuts from Redis included, two replicas act for a node together only once a lease of theirs has run out (`FreshOwnersExclude`). Exclusion beyond that is not what the code gives: see below. |
| `LivenessMargin` | With Redis in reach and one replica that stays up: one owner (`OneOwner`); a lease never older than interval and lag and takeover within lease + interval + lag (`OwnedInTime`); and no live node declared dead **if** the heartbeat key lived long enough and no process ends while its claim is on its way (`WholeSpec`). Four replicas: an owner and its successor die in turn, a third watches without a socket. |
| `EventEnds` | Two relays, two rows, the older one refused, answers lost, the database failing, relays dying: each row is finally sent or parked (`EveryRowSettles`). Two workers and five kinds of faults: work at most once, no ack before it (`HandledRight`), EventHandling implemented (`KeepsPromise`), and fewer faults than deliveries cannot keep an event from being handled. |
| `Events` | The registry shows only what was announced, live calls come back after a loss, none that is up is announced as hung up (`RegistryIsRight`), announcements keep a call's order (`SteadyInOrder`). Outbox and Inbox together: no row taken for sent or purged whose event is not on its way (`SentAreAccountedFor`), EventHandling end to end (`PipelineKeepsPromise`). |
| `NodeCalls` | Handovers, crashes midway and the node's death: an owner that is done has exactly the node's calls (`TakenOverInStep`); one sweep at a time and only calls that are over announced as lost (`SweepsAreRight`); calls that are over leave, and lost ones are announced (`EveryCallEnds`). |
| `AffinityLeases` | Drains, deaths, crashes and the loss of Redis: answers name a holder, a drained node has no lease but a `stray` one, leases are not snatched and hand-overs free their own (`LeasesStay`), leases leave dead nodes. |
| `Realtime` | Eight parts: the hub (`HubConsistent`, `RevokedStreamsEnd`), the views (`ViewsAgree`), recording by button (`ControlAgrees`), files and mailboxes (`NoAudioLost`, `RecordingsArrive`, `LampFollowsMailbox`), transcription (`OneGetsIt`, `TextsArrive`), attended transfer (`NobodyWaitsForGood`, `TransfersKeepThem`) and parking (`NeverTwoInOne`); `PlacesAgree` relates the marks in Redis to the node's calls. |
| `Configuration` | A phone, mirrored settings, a trunk with routes, an emergency route and a tenant, changed while deliveries and passes fail: the read model is as configured once events are handled (`ModelStands`), and tables and what is loaded catch up (`DriftIsRepaired`). |
| `Organisations` | A reseller and two tenants under a request, two copies of the job and a failure (`DeletionsAreRight`, `DeletionKeepsItsTerms`); two names under two certificate workers (`CertificatesKept`, `NamesAreServed`). |
| `Accounts` | Two requests of one account and an administrator (`SessionsAreRight`); two copies and the operator rotating three keys beside a caching gateway (`KeysAreRight`). |
| `LivenessDeclared` | Expected violation: with the times the code ships, a live node is declared dead after its owner's crash. |
| `RoutesDeclared` | Expected violation: the reconciliation pass removes the gateways of an outbound route. |

`LivenessDeclared`: `node-ownership.ts:23-25` reasons that takeover within 8 s is inside the 10 s
heartbeat expiry. The 8 s (6 s lease + 2 s interval) count from the last *renewal*; the 10 s from the last
*heartbeat*, sent every 3 s, so up to 3 s earlier: 11 s without a heartbeat. The watcher skips nodes it has
a socket to, so the declaration takes a replica without one. `LivenessMargin` and `NeverDeclaredDeadHolds`
say what would suffice: lease + interval + heartbeat interval, and the lag of both timers, 11 s and twice the
lag for the code's values. No expiry of that kind suffices under `LiveSpec`: a replica that ends between Redis' execution of
its claim and the heartbeat it makes on the reply leaves a second lease to run out on the last heartbeat of the first
owner, and each further such death another.

`RoutesDeclared`: `reconcile.ts:245` deletes every gateway whose id is not a carrier trunk's; those
synthesized for a route under its own caller id are listed with the others. `docs/decisions.md:110` says the
pass never touches them.

`CHECK_DEADLOCK FALSE` is given where a behaviour may end: an idle relay, consumer, queue or watcher
polls without changing anything (such polls are not steps), calls have been made once, and faults and
changes are bounded. The ownership runs check deadlock: time always passes.

## Bounds

| bound | where | why it is enough |
|---|---|---|
| `Ttl` 3, `Interval` 1, `Lag` 1 | OwnershipCuts | the smallest times with lease > interval + lag, so every renewal order occurs; `LivenessMargin` has ticks of 2 s (lease 6, interval 2, a timer up to 2 late, heartbeat interval 2), and the theorems any times |
| 2 replicas, 4 in LivenessMargin, 1 node | ownership | owner, contender; there also one that stays and one without a socket. Passes over several nodes matter to `StopTakesNothing` only; the theorems are for any number |
| `MaxEvent` 2, `BatchSize` 2 | EventEnds | a batch that is full and one that is not, a refused row before a good one; the pipeline in Events has one row |
| `MaxAttempts` 3, 2 | EventEnds, Events | attempt counts are overwritten with older ones while a row is neither new nor parked |
| `MaxLapses` 1 | outbox | the stream stores an event twice, which is what handling once is about |
| `MaxSlot`, `MaxDeliver`, `MaxFaults` | inbox | `MaxSlot` bounds the stream (a guard of `Produce`); two messages of one event beside another event, and fewer faults than deliveries: the case the liveness property is about |
| 2 calls | call events | a bridge has two legs, one may be listed while the other starts |
| `MaxQueue` 1 to 3 | call events | how many events wait while a task is under way: 2 lets a call start during a sync, 3 a whole call pass behind one. With liveness checked (NodeCalls) it is 1; in the rebuild a second call comes only while one task waits (`Short`) |
| `MaxFaults` 2 or 3, `MaxBoth` 1 | call events, death, affinity | a fault, and one during the recovery from it |
| 2 connections of 2 users, 2 subscribes, 2 changes or 1 change and 1 loss | RealtimeHub | a subscribe replaced while its snapshot loads, an event before and one after it |
| 3 legs | LiveViews | a phone's, a trunk's, another person's |
| 4 presses, 3 recordings, 1 fault | RecordingControl | a press overtaken by two others, one of which fails |
| lengths up to 2, 3 upsets | Uploads | a file that grows during its upload, and retries of retries |
| 2 mailboxes, 1 message; 2 messages, 2 transcribers | Voicemail, Transcription | a mailbox replaced; an older message and a newer |
| 1 request at a time, 3 in all, 1 failure, 8 legs | AttendedTransfer | consult, complete or cancel, and once more; a second request at once breaks `OnlyTheyLeave` (below) |
| 1 slot, 2 askers, 1 dialled call | Parking | the contended slot; the theorem is for any number |
| 3 sessions, 2 factors, 2 links | SignIn | a token, its rotation and a replay's |
| 3 keys, 9 minutes, publish ahead 4, overlap 3, token life 2, cache 2, delay 1 | SigningKeys | the smallest times that satisfy the module's assumption; the theorem is for any |
| 2 tenants, 2 copies, 1 failure | OrgLifecycle | a tenant of a reseller that is being deleted, and one made meanwhile |
| 2 names, 2 copies, 2 certificates, 2 faults | Certificates | a renewal under a failure |
| 2 or 3 changes, 1 failure | Projection | configured, changed, removed; the tenant and its phone are there from the start, so that a deletion overtakes a change |

`OnlyEndedHungUp` is checked with two faults, so with one loss of Redis during a sync that a handover began.
A second loss between the sync's list and its look at the call breaks it (below).

## Fairness

Safety runs assume none. `Outbox`: weak fairness of each relay's step (the loop in `run()` goes on, a crashed
process is started again) and of back-offs ending; none for publishing successfully. `EveryRowSettles` also
supposes that from some time on no relay dies and no pass is rejected before its last row is done (`Calm`).
`Inbox`: weak fairness of a worker's step (`run()` pulls again) and of ack waits and nak delays, timers of the
server. `CallEvents`: queued tasks run, and a replica with a socket acquires a free node. `NodeDeath`: also
heartbeats, key expiry, the claim's expiry and each watcher's pass. `AffinityLeases`: requests, restores and
hand-overs under way continue, keys expire, and strong fairness for a watcher's look at a node, since the pass goes
through *every* known node each time.

`RealtimeHub`: requests under way are answered, the watch of the feed and the periodic recheck of each
subscription run. `Uploads`: the uploader's scan takes up each file, requests are handled. `Voicemail`: the renewing
pass runs and events are delivered until handled. `Transcription`: a transcriber with nothing in hand takes what
waits, and a silent one's claim lapses. `AttendedTransfer`: the request's next command, the node's scheduler. `Projection`:
events are delivered and the timers fire. `OrgLifecycle`, `Certificates`: the job and the workers' timers. No fault,
request, call, button or operator action is ever fair.

## Assumptions

Each is a constant or a guard that is visible in the module; what happens without it is in the table below.

- One clock: seconds pass alike everywhere (`Tick`); calls' start times are comparable across machines.
- A replica in contact with Redis has its answers within a tick.
- *Drained* (`"lag"` not in `Faults`): a former owner has finished its queue when a new one acquires. Nothing
  in the code waits for it; queues are short against the 6 s lease.
- *Midway* FALSE: a node is owned again only after a sweep of its death is over.
- A death claim outlasts its sweep; an affinity lease that somebody renews does not lapse.
- In `NodeDeath` the heartbeat key expires only for a node that is down and unowned, the property NodeLiveness examines.
- *Prompt* TRUE, *Blips* FALSE: a change is in the registry before its event is on the feed, and the hub sees every loss.
- *Unnamed* FALSE: a leg's tenant is known before it is bridged.
- *Stalls* FALSE: FreeSWITCH does not leave a file it is writing untouched for as long as the uploader waits.
- *Overlapping* FALSE: a message is completed by one request at a time.
- *OneAsks*: a person's requests about a transfer come one at a time. `"forget"`, `"drop"` and `"clear"` not in `MayFail`: a
  transfer's ring-back is cancelled and its mark is removed when it is asked for.
- *Timely* TRUE: a reserved slot's call arrives, and a park that had seen the slot empty has tried it, before the reservation lapses.
- *Whole* TRUE: a reset that has used its link goes through. *Alone* TRUE: one copy of identity-service starts before the others.
- *OneCopy*: telephony-config's consumers run in one copy, as in `infra/compose/docker-compose.yml` (what two do is [below](#where-the-code-and-its-claims-differ)).
- *Hurried* FALSE: a deletion called off is not asked for again within one pass of the job. *InLease* TRUE: a batch of certificates is through before its lease runs out.

## Proofs

Each theorem is for any sets of processes and items and any values of the numeric constants within the
named `ASSUME`s, which TLC evaluates in the runs. What a theorem supposes beyond those stands before its
specification (`InTime /\ LiveSpec => ...`) and is one of the [assumptions](#assumptions) or a
statement of the times; each holds in the run that checks the same property.

| theorem | supposes | states |
|---|---|---|
| `FreshOwnersExcludeEachOther` | nothing | `FreshOwnersExclude` |
| `RenewsInTime`, `AtMostOneActs` | nothing is cut, interval + lag < lease (*InTime*) | `OneOwner` |
| `OwnedInTimeHolds` | *InTime* | `OwnedInTime` |
| `NeverDeclaredDeadHolds` | *InTime*, `WholeSpec`, heartbeat expiry >= lease + interval + lag + heartbeat interval + lag | `NeverDeclaredDead` |
| `AlwaysHandledRight`, `ImplementsEventHandling` | nothing | `HandledRight`, `KeepsPromise` |
| `SentAreAccountedForHolds`, `PipelineImplementsEventHandling` | the bounds are numbers (*Bounds*) | `SentAreAccountedFor`, `PipelineKeepsPromise` |
| `RegistryIsAlwaysRight` | the faults of `MCEvents`, two of them at most (its `MaxFaults <- 2`) | `RegistryIsRight` |
| `EventsAreAnnouncedInOrder` | the same | `SteadyInOrder` |
| `TakenOverInStepHolds` | *Drained*, no task fails, Redis and its hashes stay (*Reliable*) | `TakenOverInStep` |
| `SweepsAreRightHolds` | *Drained*, ~*Midway* | `SweepsAreRight` |
| `AnswersComeFromHolders`, `LeasesAlwaysStay` | nothing | `AnswersHolder`, `LeasesStay` |
| `DrainsAreFinal` | no loss of Redis | `DrainedHoldsNone` |
| `ModelStandsHolds` | *OneCopy* | `ModelStands` |
| `KeysAreRightHolds` (`HeldBeforeUseHolds`, `TokensVerifyHolds` without it) | *Alone* | `KeysAreRight` |
| `SessionsAreRightHolds` | *Whole* | `SessionsAreRight` |
| `DeletionsAreRightHolds`, `GraceHeldHolds` | ~*Hurried* | `DeletionsAreRight`, `GraceHeld` |
| `CertificatesKeptHolds`, `ConsoleStaysServedHolds` | *InLease* | `CertificatesKept`, `ConsoleStaysServed` |
| `OneGetsItAlways` | ~*Overlapping* | `OneGetsIt` |
| `NeverTwoInOneAlways` | *Timely* | `NeverTwoInOne` |
| `ControlAgreesHolds` | nothing | `ControlAgrees` |
| `NoAudioLostHolds` | ~*Stalls* | `NoAudioLost` |
| `TransfersKeep` | *OneAsks*, no command that cancels a ring-back fails (*Cancels*) | `TransfersKeepThem` |
| `PlacesAgreeHolds` | *OneAsks*, a transfer's `"clear"` does not fail, ~*Overlapping* | `PlacesAgree` |
| `HubConsistentHolds` | *Prompt*, ~*Blips* | `HubConsistent` |
| `ViewsAgreeHolds` | ~*Unnamed* | `ViewsAgree` |

**Ownership** (`NodeOwnershipProofs`). *Lease* is the inductive heart: a lease whose history `age` is below
its life is in Redis under that replica's name with exactly the rest to go. `TypeOK /\ Lease` is inductive
under all faults; two fresh owners would both be the one name in the key. That an owner *renews* before its
lease runs out needs the timer: *Timely* relates each check's stage to what is owned and to the age of the
lease (once a check of a pass has executed, no time has passed). `AtMostOneActs` is about who acts on a node: a
replica that stops, or whose release Redis has executed, acts no longer, but has the node in `owned` until the answer,
when another may have it there too (`OwnedByOne`).

**Takeover** (same module, about NodeLiveness). Every step there is a step of ownership, a node's death
or leaves ownership alone (`OwnershipSteps`). *Waits(q, n)* says how long live node `n` may have been missing
something: with a claim in Redis, `q` and what the claim has to live make a lease at most; with none, each
replica that stays connected is about to claim it, or `q` is a lease and the time since its last pass at most.
A tick makes it `Waits(q + 1, n)` (`WaitsTick`), other steps keep it unless somebody claims or renews
(`ClaimEffect`, `WaitsStep`, `WaitsDie`), and it bounds `q` below lease + interval + lag (`WaitsBound`).
`OwnInv` is `Waits(orphan[n], n)` with the types and leases: `OwnedInTime`. `BeatInv` puts a second
quantity into the same measure, *Gap(n)*, how much longer ago than an owner would have let it be the last
heartbeat is. While a claim is between Redis and its replica the gap is only bounded (*InFlight*), which
is where `WholeSpec` is needed: `WaitsStep` resumes only if the claim's replica lives to heartbeat the node.
The bound on the expiry is exact: with one tick less TLC finds a live node declared dead (`HbTtl = 6` in
`LivenessMargin`).

**Events** (`InboxProofs`, `EventsProofs`). Inbox: an event being handled is not yet consumed and in one
worker's hands only, that of a worker past its commit is consumed (*Holding*); work was done once for each
consumed event and never for another, and acknowledged ones are consumed (*Recorded*). Each step is then a
`Handle`, an `Announce` or a stutter. Outbox: whatever is late, held or on the stream has a row (*Known*); what is
about to be marked is on the stream (*Marking*); copies on the stream are counted by lapses (*Counted*).
`DInv` is both with the stream as the consumer's messages, for which `InboxProofs` is instantiated: a
relay's step stores one message there, or none, and its `Announce` is the producer's commit.

**The registry** (`EventsProofs`, about CallEvents as `MCEvents` instantiates it). `RebuiltInv`, with losses of Redis and hand-overs:
a call that is up and not registered is still due, for its creation, a sync, a look or a rebuild (*NoneForgotten*);
a list has every call that was up when it was made and the rows to be ended are over (*JobsRight*, *ListRight*, *EndsRight*); and a
call announced as hung up is not up (*HungIsGone*). The last is where the faults count: a sync ends what is registered and not
on its list, unless its hash says it is newer. Only a rebuild registers a call that started after the list was asked for,
and a rebuild beside a sync takes both faults (*FreshIsLost*, *FaultsCounted*), so the hash stays. With a third, TLC violates `OnlyEndedHungUp` (see [below](#where-the-code-and-its-claims-differ)), so the
number is part of what is stated. `SteadyInv`, without either: the tasks of a call are queued in its events' order
(*InTurn*), what is at the head and what is done of it agree with what was announced and registered (*HeadsRight*, *Shown*), so nothing is
announced before the creation (*NoneBefore*) or after the hangup.

**A node's calls** (`NodeCallsProofs`). `CallsInv` is what every step of a node's events keeps, lost ones and deaths
included: what the registry, the tasks and a list speak of has started, a list is read by the task in hand only,
and a node that is down has no call. `InStepInv` adds what the owner is still going to make of the registry. After its sync
(*CaughtUp*) a live call is registered or its creation waits, and a registered one that is over has its
hangup waiting. During the sync (*Listed*, *Adding*, *Ending*) that holds of the list: what started since is
waiting, what was not up has ended, what is up and listed is registered or yet to be looked at, and
what is registered and over is among the rows to be ended. *Ordered* and *HangupsFollow* say that no creation is handled after its call's hangup,
without which an ended call would stay. `SweepInv`: who sweeps has the claim, an owned node's
key is alive, and what a dead node has left in the registry or a watcher's list is over (*DeadIsOver*, *RowsAreOver*).

**Affinity** (`RoutingProofs`). *FromRedis*: a node that a request has read was its lease's since it began.
The action properties are shown action by action. For drains: a drained node is marked (*Marked*, *Unlost*), who
is about to write a marked node was overtaken (*Overtakes*), and a drain in progress has on its list every lease the node
still has, but stray ones (*Listed*).

**Projection** (same module). By *OneCopy* and the events' numbers a thing is in one handler's hands at a time. What
is not about to be purged has an event pending that no handler has read an older state for (*Fresh*), or the read model is right
and every handler of it is about to say so again (*Fetched*). A thing that is gone stays so, as ids are not used again
(*IdsUsedOnce*), without which a removal delivered again would take the new one along. A tenant's events say what it is, so its
case needs their order, which holds until something fails (*InTurn*). Rules are written or removed before the read model says
so (*RulesWritten*, *RulesRemoved*), and no other handler (`ClearsRules`) and no pass (`PassLeaves`) touches them.

**Accounts** (`AccountsProofs`). `TimeInv` is about times: what is under way was begun a `Delay` ago at most
(*InDelay*), a staged key is in every key set read a delay after it was staged (*StagedIsServed*), so a key
that was published ahead is in every cache by the time it signs (*AheadIsHeld*). `OneInv` adds that a copy
that starts without a key is alone (*StartsAlone*); without *Alone* two of them each make a current key. `SignInInv`: every
session and login under way is by the password there is, or a reset is about to revoke it (*ByThePassword*),
what a disabled account had under way is stale, and a family is the number of its first session.

**Organisations** (`AccountsProofs`). `OrgInv`: requests that read a row before the grace of its deletion
was over are through (*RequestsAreOver*, *NothingBegun*), what a pass has found is due and what it has looked at
has no tenants (*FoundIsDue*), and what a cancelled deletion puts back is what was last written
(*BeforeStands*). `CertInv`: what is due or missing is leased to nobody (*DueIsFree*, *MissingIsFree*), and
what a worker has read of a row it will write as failed still holds (*NoneHeld*).

**Services of a call** (`CallServicesProofs`). Parking: a slot has one claim at most and a claimed slot is
reserved; unless the park that claims it was refused the list, it has no parked call, and a slot seen empty
is still reserved when a call was parked in it since. Calls that met are over (*MetAreOver*).
Transcription: a message's attempts count up with each claim, so a new try is greater than any that somebody
holds. Recording: the changes that are audited and not yet at the node are counted (*OpenAreAudited*); where one request
was alone, its stage and what it decided say exactly how far the rows, the variable, the node and the
views are apart (*UnderWay*), and with none under way they are not (*Settled*). Audio: what is taken for stored, by a
row, the uploader, a request past its check or a file that is gone, is in storage whole or was deleted there
(*TakenAreStored*); the uploader is at closed files only and knows their length (*SpoolAgrees*; here ~*Stalls* is
needed), and so does every request that is being handled, of which it waits for one at most (*RequestsAgree*). That an expired row
has no audio needs that nothing is put once a row is ready, which holds where one request of a file is
handled at a time (*OneRequestEach*), hence not for files in `Slow`; that it is announced once, that no
other request has read the row (*AnnouncedIsReady*). A mail that is sent is what was emailed (*SentIsEmailed*), so
what it is followed up by deletes no only copy.

**Attended transfers** (same module). Four lemmas say what joining, calling, holding or hanging up on legs does to all of them
(`TalkChanges`, `CallChanges`, `WaitChanges`, `EndsChanges`); each keeps a leg in one place (*Wired*), and what the node reports was true and
stays so (*UnseenRight*), in any order the registry hears it. `PlaceInv` is that with what the marks and requests name:
never the person, nor their own ring-back. Those hold for any requests under way at once; the rest is for one. A held leg
has one way back, the person's leg that stays (*StaysInHand*). A scheduled ring-back is of who is held and waits, or was just joined and is
about to be cancelled (*TimersRight*); besides who is held one leg is up at most, in a call with the person or with them (*PartiesRight*);
and at each command of a request it is known who is there (*StageRight*), which `LegsSettle`, what people and the scheduler
do between two commands, leaves true. So bridging two legs ends only those that are to go. *ParkMarks* and *TextMarks* are the
places of parked calls and of messages in hand.

**The hub and the views** (`RealtimeProofs`). `HubInv`: what waits in a subscription or a tracker is the last
change that was published, and without anything waiting a snapshot that was read is at least as new as the bus
(*AllFed*; here *Prompt* is needed); a tracker's holders are counted by its subscriptions, and one in
use has some (*TrackerHeld*); when the feed is neither read nor was seen to be read there is no stream and
nobody about to be given one (*DarkIsEmpty*; here ~*Blips*), so none can outlive a gap of the feed. A user is
counted for each open connection, and for one that closed while its token was verified too (*UsersCounted*): the
limit holds, the count need not be true. `ViewsInv` adds to `ViewsAgree` that a leg is bridged to a named one only.

TLC checked each of these invariants on small instances before it was proved. Every invariant and action property that a
passing run checks is stated by a theorem. Only model-checked: the liveness properties, `DueIsDeleted` in `DeletionKeepsItsTerms`
among them, and the two runs that expect a violation.
Liveness under fairness and `ENABLED` are beyond the prover, and so is induction over data; no module here has a
`RECURSIVE` operator.

## Where the code and its claims differ

`LivenessDeclared` and `RoutesDeclared` are kept as runs. The following were found in the same way; each names the
statement (in the module), the run whose configuration, changed as named, makes TLC violate it, the code, and the words
it is set against. They are properties of the models under the named fault; all are narrow.

| statement | configuration | code | against |
|---|---|---|---|
| `OneOwner` | OwnershipCuts, `Faults = {"cut"}` | an owner that cannot reach Redis keeps acting past its lease, `node-ownership.ts:73` | `node-ownership.ts:37-38` |
| `OwnedByOne` | OwnershipCuts, `Faults = {"flap"}` | a node stays in `owned` until its release is answered, `node-ownership.ts:67-68` | `node-ownership.ts:37-38` |
| `StopTakesNothing` | OwnershipCuts, two nodes, `Faults = {"stop"}` | closing sockets runs passes after `stop()`, `main.ts:163` | `main.ts:421` |
| `NeverDeclaredDead` | LivenessMargin, `SPECIFICATION LiveSpec` | a process that ends within its claim leaves a lease and no heartbeat, `node-ownership.ts:73` | `node-ownership.ts:25-26` |
| `PublishedInOrder` | Outbox by itself, one relay, two rows, `{"lost"}`, `Poison = {}` | a failed row waits while later ones go, `relay.ts:241` | `outbox.ts:13-15`, `docs/architecture/06-services.md:255` |
| `NoSharedRow` | Outbox by itself, two relays, no faults | the select's locks end with it, `relay.ts:115` | `relay.ts:113-114` |
| `TermedOnlyOffContract` | EventEnds, `MaxFaults = 3` | the last delivery's failure is termed, `consumer.ts:177` | `consumer.ts:75-78` |
| `StateInStep` | NodeCalls, `{"crash"}` | a sync leaves known calls as they are, `registry-rebuild.ts:82` | `schema.ts:23-24` |
| `AnnouncedInOrder` | Events, `{"handover"}` | a sync ends and re-creates calls outside their events' order, `registry-rebuild.ts:129` | `serial.ts:6-8` |
| `NeverOverwrites` | Events, `{"redis"}` | the rebuild's look and its write are apart, `registry-rebuild.ts:94` | `redis/registry.ts:60` |
| `TenantAnnounced` | Events | attached, then not announced, `channel-handler.ts:98` | `channel-handler.ts:92-95` |
| `NoneMissing` | Events, one call, two replicas, `{"redis", "crash"}` | the epoch is claimed before the rebuild, `registry-rebuild.ts:169` | `registry-rebuild.ts:43-44` |
| `OnlyEndedHungUp` | Events, one call, two replicas, `MaxFaults = 3` | a hash lost after the list has no start time, `registry-rebuild.ts:128` | `registry-rebuild.ts:112-114` |
| `OnlyDeadCallsLost` | NodeCalls, `Midway = TRUE` | alive is read before the claim, `node-failure.ts:129` | `node-failure.ts:20-21` |
| `EveryCallEnds` | NodeCalls, `Midway = TRUE`, one replica | the list is deleted whole, `node-failure.ts:113` | `node-failure.ts:53` |
| `DrainedIsEmpty` | AffinityLeases | chosen, marked, written, `affinity/manager.ts:217` | `node-drain.ts:65` |
| `NeverRejoins` | AffinityLeases, `{"drain", "redis"}`, `MaxBoth = 2` | the mark is only in Redis, `redis/registry.ts:171` | `docs/architecture/04-high-availability.md:134` |
| `RenewalsTracked` | AffinityLeases, `Home <- OneHome`, `{"drain"}` | a second interval replaces the first in the map, `affinity/manager.ts:197` | `affinity/manager.ts:67` |
| `DeadLeasesLeave` | AffinityLeases, `{"death", "redis"}`, `MaxBoth = 2` | a dead node not in `fsnodes` is not watched while its lease is set again and renewed, `affinity/manager.ts:271` | `affinity/manager.ts:45-46` |
| `UserCountIsTrue` | Realtime | a token verified after its connection closed is counted for good, `hub.ts:585` | `hub.ts:327-336` |
| `StreamsMissNothing` | Realtime, `Prompt = FALSE` or `Blips = TRUE` | the snapshot may be read before the registry is written; a loss between two looks at the feed goes unseen, `hub.ts:277` | `hub.ts:119`, `hub.ts:274` |
| `ViewIsComplete` | Realtime, `Unnamed = TRUE` | `call.channel.identified` carries no queue and no slot, `calls.ts:133` | `calls.ts:129-131` |
| `PausedIsMasked`, `OneOnDemand` | Realtime | the row is decided before, the channel and the node are told after, `recording-control.ts:251-265` | `recording.repo.ts:352`, `recording.repo.ts:399-400` |
| `NothingLost` | Realtime, `Stalls = TRUE` | a file at rest is taken for finished, `uploader.ts:140-154` | `uploader.ts:112` |
| `NoOrphans`, `RemovedLeavesNode` | Realtime | the object is deleted, then the row, with an upload of it between, `recording.routes.ts:341`; a file whose row is gone is asked for again for ever, `uploader.ts:302` | `recording.routes.ts:338-340` |
| `GoneIsDark` | Realtime | the periodic pass publishes the count it listed before the mailbox went, `mwi.ts:81-93` | `mailbox.repo.ts:313` |
| `TriedAtMost` | Realtime | a silent transcriber's message is taken again whatever its attempts, `message.repo.ts:386-396` | `transcriber.ts:33` |
| `TextIsUsed` | Realtime | a text heard after another's failure finds the row not `working`, `message.repo.ts:441` | `transcriber.ts:33` |
| `TextStays` | Realtime, `Overlapping = TRUE` | the second completion sets the text's state anew, `message.repo.ts:317-333` | `message.repo.ts:421-424` |
| `NobodyWaitsForGood` | Realtime, `MayFail = {"schedule"}` | the ring-back is scheduled last, `call-operations.ts:776-779` | `call-operations.ts:757` |
| `NobodyTornAway` | Realtime, `MayFail = {"forget"}` | a `sched_del` that fails is only logged, `call-operations.ts:533-539` | `call-operations.ts:532` |
| `OnlyTheyLeave` | Realtime, `Request = {"q1", "q2"}` | the mark is read, then written, `call-operations.ts:742-759` | `call-control/test/call-operations.route.test.ts:509` |
| `NeverTwoInOne` | Realtime, `Timely = FALSE` | a reservation lapses before its call arrives, `redis/registry.ts:459-468` | `docs/decisions.md:166` |
| `ParksNeverMeet` | Realtime | a `valet_info` that is refused counts as an empty lot, `call-operations.ts:639` | `docs/decisions.md:166` |
| `NoneMeet` | Realtime | a slot that a phone dials is not reserved, `xml.ts:1483-1517` | `docs/decisions.md:166` |
| `DisabledStaysOut` | Accounts | a login that read the account before it was disabled makes its session after, `auth-service.ts:236-268` | `user.repo.ts:240` |
| `OldPasswordEnds` | Accounts, `Whole = FALSE` | the link is used, the password set and the sessions revoked apart, `auth-service.ts:415-424` | `session.repo.ts:109` |
| `OneFactor` | Accounts | two enrolments confirm side by side, `mfa.repo.ts:215-234` | `mfa.repo.ts:105` |
| `OneKeySigns` | Accounts, `Alone = FALSE` | each of two copies finds no key and makes one, `signing-key.repo.ts:311` | `signing-key.repo.ts:393` |
| `NothingNewUnderIt` | Organisations | the parent is read, then the tenant inserted, `org.repo.ts:264` | `org.repo.ts:270` |
| `DeletionStands` | Organisations | a suspension that read the row writes over its deletion, `org.repo.ts:437` | `org.repo.ts:489-544` |
| `DeletionKeepsItsTerms` | Organisations, `Hurried = TRUE` | the claim does not look at the date again, `org.repo.ts:620` | `org.repo.ts:591-594` |
| `CertificatesKept` | Organisations, `InLease = FALSE` | a lease runs out during a batch, `certificate.repo.ts:198` | `certificate-worker.ts:40` |
| `OnlyWanted` | Organisations | `reconcileWanted` adds a name whose reseller was deleted since, `certificate.repo.ts:117` | `org-deletion.ts:46-56` |
| `ModelAgrees` | Configuration, with two consumers that have the same things | a handler saves what it read before another has saved what it read later, `projection.ts:114-140` | `docs/architecture/10-production-topology.md:96` |
| `SecretsCatchUp` | Configuration | a pass writes the secret it read over the one handled since, `reconcile.ts:102-116` | `reconcile.ts:54-58` |
| `GatewaysKeepAttrs` | Configuration, as an invariant | a pass adds a missing gateway without its attrs, `reconcile.ts:237-241` | `opensips-projection.repo.ts:435` |
| `RowsAreLoaded` | Configuration, as a property | rows written and a reload that failed look like nothing new the next time, `projection.ts:501` | `projection.ts:486-493` |
| `RoutesFollowTrunks` | Configuration, as an invariant | a trunk that moves moves its own gateway only, `projection.ts:495-500` | `projection.ts:554-585` |

Seen while modelling, and not statements of a module: a tenant's suspension and resumption handled out of order leave
the earlier one (`org.consumer.ts:90-109`); `mi.call` succeeds if any edge answers (`opensips-mi-client.ts:188`), so the others
reload at their next pass; `recordFailure` reads the row and writes it apart (`certificate.repo.ts:299`); a cancelled
transfer whose last command fails keeps its mark (`call-operations.ts:827`).

## What is not modelled

Within the modelled parts: the per-tenant call index, hold, queue and agent fields of the registry; the figures
heartbeats carry; expiry of affinity leases on running nodes; invitations, step-up factors, recovery codes and log-in
rate limits; settings, PINs, greetings and recording policies (single-row updates); addresses, permissions, blacklists and
tenants' suspension in the projection; brands, domain verification and uploaded certificates; the hub's parsing, pings,
buffer limits and statistics topics. Pickup, blind transfer, click-to-call, queue and monitor control send a command or
two to FreeSWITCH and keep nothing.

Outside them: clock skew; network delays longer than a tick between a connected replica and Redis; FreeSWITCH, OpenSIPS,
JetStream, Redis and MariaDB beyond what the code relies on. The parts left out whole, with the reason, are in
`PROJECT.json`: the CDR service and the statistics (their consumers are Inbox's), the configuration and trunk services (their events
are Projection's input), the XML served to FreeSWITCH, the gateway's proxy, authorisation, the console and the infrastructure.
