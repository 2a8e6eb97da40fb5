----------------------------- MODULE RealtimeHub -----------------------------
(***************************************************************************)
(* The realtime hub of one gateway (services/api-gateway/src/realtime/     *)
(* hub.ts, feed.ts): connections log in and subscribe to a tenant's        *)
(* topics; a subscription is authorized, audited when private, given a     *)
(* snapshot of what call-control has, and from then on every event of the  *)
(* feed.  "calls" reads a snapshot of its own; "presence" stands for the   *)
(* topics whose subscribers share a tracker (presence, queues and the legs *)
(* behind mycalls and supervised).                                         *)
(*                                                                         *)
(* The tenant's state is the number of the last change to it: call-control *)
(* (external) publishes each change and writes it to its registry.         *)
(***************************************************************************)
EXTENDS Naturals, FiniteSets

CONSTANTS
  Conn,              \* connections, each accepted once
  User, Nobody,
  MaxAttempt,        \* bound: subscribes there are
  MaxChange,         \* bound: changes to the tenant's state
  MaxLosses,         \* bound: how often the feed is lost
  MaxPerUser,        \* maxConnectionsPerUser
  MaxSubscriptions,  \* maxSubscriptions
  Prompt,            \* whether a change is in the registry before its event is on the feed
  Blips              \* whether the feed may be lost unseen: before a watch, or during an audit

Attempt == 1..MaxAttempt
Topic   == {"calls", "presence"}
Private == {"calls"}
Slot    == Conn \X Topic

ASSUME HubAssumption ==
  /\ IsFiniteSet(Conn) /\ Conn # {}
  /\ Nobody \notin User /\ Prompt \in BOOLEAN /\ Blips \in BOOLEAN
  /\ {MaxAttempt, MaxChange, MaxLosses, MaxPerUser, MaxSubscriptions} \subseteq Nat

VARIABLES
  registry,   \* the last change call-control has written
  bus,        \* the last it has published
  feed,       \* whether the feed's consumer is reading (feed.live)
  seenLive,   \* feedWasLive
  losses,     \* how often the feed was lost
  socket,     \* the connections
  actor,      \* who each is authenticated as
  verifying,  \* the token of each being verified
  perUser,    \* connections counted for each user
  allowed,    \* the users who hold the topics' permissions
  asked,      \* the subscribes so far
  attempt,    \* where each is, and what it has read
  inFlight,   \* the attempt a connection has under way for a topic
  sub,        \* its subscription to the topic
  tracker,    \* presence trackers, by the attempt that made each
  holders,    \* their subscribers
  shared,     \* the tracker in presenceTrackers
  wanted      \* history: the last attempt for a topic that was not taken back

source   == <<registry, bus>>
link     == <<feed, seenLive, losses>>
logins   == <<socket, actor, verifying, perUser, allowed>>
attempts == <<asked, attempt, inFlight>>
streams  == <<sub, tracker, holders, shared>>
hubVars  == <<source, link, logins, attempts, streams, wanted>>

(* of: its tracker; late: the last event in pending; view: what its client *)
(* shows.                                                                  *)
NoSub     == [id |-> 0, of |-> 0, ready |-> FALSE, late |-> 0, view |-> 0]
NoAttempt == [at |-> "none", slot |-> CHOOSE p \in Slot : TRUE, value |-> 0]
NoTracker == [at |-> "none", value |-> 0, late |-> 0]

HubTypeOK ==
  /\ registry \in 0..MaxChange /\ bus \in 0..MaxChange
  /\ feed \in BOOLEAN /\ seenLive \in BOOLEAN /\ losses \in 0..MaxLosses
  /\ socket \in [Conn -> {"none", "open", "closing", "gone"}]
  /\ actor \in [Conn -> User \cup {Nobody}] /\ verifying \in [Conn -> User \cup {Nobody}]
  /\ perUser \in [User -> 0..Cardinality(Conn)] /\ allowed \in SUBSET User
  /\ asked \in 0..MaxAttempt
  /\ attempt \in [Attempt ->
       [at : {"none", "authorizing", "auditing", "reading", "read", "done"},
        slot : Slot, value : 0..MaxChange]]
  /\ inFlight \in [Slot -> 0..MaxAttempt] /\ wanted \in [Slot -> 0..MaxAttempt]
  /\ sub \in [Slot -> [id : 0..MaxAttempt, of : 0..MaxAttempt, ready : BOOLEAN,
                       late : 0..MaxChange, view : 0..MaxChange]]
  /\ tracker \in [Attempt ->
       [at : {"none", "loading", "read", "loaded", "failed"},
        value : 0..MaxChange, late : 0..MaxChange]]
  /\ holders \in [Attempt -> 0..Cardinality(Slot)] /\ shared \in 0..MaxAttempt

HubInit ==
  /\ registry = 0 /\ bus = 0
  /\ feed = FALSE /\ seenLive = FALSE /\ losses = 0
  /\ socket = [c \in Conn |-> "none"]
  /\ actor = [c \in Conn |-> Nobody] /\ verifying = [c \in Conn |-> Nobody]
  /\ perUser = [u \in User |-> 0] /\ allowed = User
  /\ asked = 0
  /\ attempt = [a \in Attempt |-> NoAttempt]
  /\ inFlight = [p \in Slot |-> 0] /\ wanted = [p \in Slot |-> 0]
  /\ sub = [p \in Slot |-> NoSub]
  /\ tracker = [a \in Attempt |-> NoTracker]
  /\ holders = [a \in Attempt |-> 0] /\ shared = 0

Of(c) == {p \in Slot : p[1] = c}

Subscribed(c) == {p \in Of(c) : sub[p].id # 0}

Newest(late, value) == IF late # 0 THEN late ELSE value

-----------------------------------------------------------------------------
(* Subscriptions and the trackers they share. *)

(* removeSubscription of each, with releasePresence.                       *)
Drops(gone) ==
  /\ sub' = [p \in Slot |-> IF p \in gone THEN NoSub ELSE sub[p]]
  /\ holders' = [a \in Attempt |-> holders[a] - Cardinality({p \in gone : sub[p].of = a})]
  /\ shared' = IF shared # 0 /\ holders'[shared] = 0 THEN 0 ELSE shared

(* The subscription is made: a calls subscription waits for a snapshot of  *)
(* its own; a presence one joins the tracker there is (acquirePresence),   *)
(* and is ready at once when that is loaded, or makes one.                 *)
Creates(a, p) ==
  IF p[2] = "calls"
  THEN /\ sub' = [sub EXCEPT ![p] = [NoSub EXCEPT !.id = a]]
       /\ attempt' = [attempt EXCEPT ![a].at = "reading"]
       /\ UNCHANGED <<tracker, holders, shared>>
  ELSE LET t == IF shared # 0 THEN shared ELSE a
       IN  /\ sub' = [sub EXCEPT ![p] =
                        [NoSub EXCEPT !.id = a, !.of = t, !.ready = tracker[t].at = "loaded",
                                      !.view = IF tracker[t].at = "loaded" THEN tracker[t].value ELSE 0]]
           /\ shared' = t
           /\ holders' = [holders EXCEPT ![t] = @ + 1]
           /\ tracker' = IF shared # 0 THEN tracker ELSE [tracker EXCEPT ![a].at = "loading"]
           /\ attempt' = [attempt EXCEPT ![a].at = "done"]

-----------------------------------------------------------------------------
(* call-control and the feed. *)

Write == registry < MaxChange /\ registry <= bus + 1 /\ registry' = registry + 1
         /\ UNCHANGED <<bus, link, logins, attempts, streams, wanted>>

(* To every subscription, after its snapshot (deliver), and to the tracker *)
(* (dispatchPresence).                                                     *)
Dispatch(k) ==
  /\ sub' = [p \in Slot |->
       IF sub[p].id = 0 \/ (p[2] = "presence" /\ tracker[shared].at # "loaded") THEN sub[p]
       ELSE IF sub[p].ready THEN [sub[p] EXCEPT !.view = k] ELSE [sub[p] EXCEPT !.late = k]]
  /\ tracker' = IF shared = 0 THEN tracker
                ELSE IF tracker[shared].at = "loaded" THEN [tracker EXCEPT ![shared].value = k]
                ELSE [tracker EXCEPT ![shared].late = k]

(* The next event is published; a feed that is not reading never sees it.  *)
Publish ==
  /\ bus < MaxChange /\ bus <= registry /\ (Prompt => bus < registry)
  /\ bus' = bus + 1
  /\ IF feed THEN Dispatch(bus') ELSE UNCHANGED <<sub, tracker>>
  /\ UNCHANGED <<registry, link, logins, attempts, holders, shared, wanted>>

(* It is read again 5 s after a loss at the soonest, every second a watch. *)
FeedStarts ==
  /\ ~feed /\ ~seenLive
  /\ feed' = TRUE
  /\ UNCHANGED <<source, seenLive, losses, logins, attempts, streams, wanted>>

FeedLost ==
  /\ feed /\ losses < MaxLosses
  /\ Blips \/ (seenLive /\ \A a \in Attempt : attempt[a].at # "auditing")
  /\ feed' = FALSE /\ losses' = losses + 1
  /\ UNCHANGED <<source, seenLive, logins, attempts, streams, wanted>>

(* feedWatch: a feed that is no longer live ends every subscription.       *)
Watch ==
  /\ feed # seenLive
  /\ seenLive' = feed
  /\ IF feed THEN UNCHANGED streams ELSE Drops(Slot) /\ UNCHANGED tracker
  /\ UNCHANGED <<source, feed, losses, logins, attempts, wanted>>

-----------------------------------------------------------------------------
(* Connections. *)

Accept(c) ==
  /\ socket[c] = "none"
  /\ socket' = [socket EXCEPT ![c] = "open"]
  /\ UNCHANGED <<source, link, actor, verifying, perUser, allowed, attempts, streams, wanted>>

Authenticate(c, u) ==
  /\ socket[c] = "open" /\ verifying[c] = Nobody
  /\ verifying' = [verifying EXCEPT ![c] = u]
  /\ UNCHANGED <<source, link, socket, actor, perUser, allowed, attempts, streams, wanted>>

Refuses(c) ==
  /\ socket' = [socket EXCEPT ![c] = IF @ = "open" THEN "closing" ELSE @]
  /\ UNCHANGED <<actor, perUser>>

(* handleAuth once the token is verified or refused, the connection        *)
(* perhaps gone by then: a first login counts for its user, a renewal must *)
(* be the same's.                                                          *)
Verified(c) ==
  LET u == verifying[c]
  IN  /\ u # Nobody
      /\ verifying' = [verifying EXCEPT ![c] = Nobody]
      /\ \/ Refuses(c)
         \/ actor[c] = Nobody /\ perUser[u] >= MaxPerUser /\ Refuses(c)
         \/ /\ actor[c] = Nobody /\ perUser[u] < MaxPerUser
            /\ perUser' = [perUser EXCEPT ![u] = @ + 1]
            /\ actor' = [actor EXCEPT ![c] = u]
            /\ UNCHANGED socket
         \/ actor[c] \notin {u, Nobody} /\ Refuses(c)
         \/ actor[c] = u /\ UNCHANGED <<socket, actor, perUser>>
      /\ UNCHANGED <<source, link, allowed, attempts, streams, wanted>>

(* cleanup, whoever closed it and why.                                     *)
Closed(c) ==
  /\ socket[c] \in {"open", "closing"}
  /\ socket' = [socket EXCEPT ![c] = "gone"]
  /\ Drops(Of(c))
  /\ inFlight' = [p \in Slot |-> IF p[1] = c THEN 0 ELSE inFlight[p]]
  /\ wanted' = [p \in Slot |-> IF p[1] = c THEN 0 ELSE wanted[p]]
  /\ perUser' = [u \in User |-> IF u = actor[c] /\ perUser[u] > 0 THEN perUser[u] - 1 ELSE perUser[u]]
  /\ UNCHANGED <<source, link, actor, verifying, allowed, asked, attempt, tracker>>

Revoke(u) ==
  /\ u \in allowed
  /\ allowed' = allowed \ {u}
  /\ UNCHANGED <<source, link, socket, actor, verifying, perUser, attempts, streams, wanted>>

-----------------------------------------------------------------------------
(* Subscribing. *)

(* The subscriptions under way count too, but for one of the same topic.   *)
Room(p) ==
  Cardinality({q \in Of(p[1]) : q # p /\ (sub[q].id # 0 \/ inFlight[q] # 0)}) < MaxSubscriptions

(* A subscribe ends the subscription there was, and takes the place of an  *)
(* earlier one under way.                                                  *)
Subscribe(p) ==
  /\ socket[p[1]] = "open" /\ actor[p[1]] # Nobody /\ asked < MaxAttempt
  /\ Drops({p})
  /\ asked' = asked + 1
  /\ IF Room(p)
     THEN /\ inFlight' = [inFlight EXCEPT ![p] = asked']
          /\ wanted' = [wanted EXCEPT ![p] = asked']
          /\ attempt' = [attempt EXCEPT ![asked'] = [@ EXCEPT !.at = "authorizing", !.slot = p]]
     ELSE UNCHANGED <<inFlight, wanted, attempt>>
  /\ UNCHANGED <<source, link, logins, tracker>>

Unsubscribe(p) ==
  /\ socket[p[1]] = "open" /\ (sub[p].id # 0 \/ inFlight[p] # 0)
  /\ Drops({p})
  /\ inFlight' = [inFlight EXCEPT ![p] = 0]
  /\ wanted' = [wanted EXCEPT ![p] = 0]
  /\ UNCHANGED <<source, link, logins, asked, attempt, tracker>>

(* Neither superseded nor cancelled, and the connection is still there.    *)
Current(a) ==
  LET p == attempt[a].slot IN socket[p[1]] # "gone" /\ inFlight[p] = a

GivesUp(a) == attempt' = [attempt EXCEPT ![a].at = "done"] /\ UNCHANGED streams

Land(a) == inFlight' = [p \in Slot |-> IF inFlight[p] = a THEN 0 ELSE inFlight[p]]

(* The verdict; a lookup that fails refuses.  A private topic is audited.  *)
Authorized(a) ==
  LET p == attempt[a].slot
      c == p[1]
  IN  /\ attempt[a].at = "authorizing"
      /\ \/ ~Current(a) /\ GivesUp(a) /\ UNCHANGED inFlight
         \/ Current(a) /\ GivesUp(a) /\ Land(a)
         \/ /\ Current(a) /\ actor[c] \in allowed /\ feed /\ p[2] \in Private
            /\ attempt' = [attempt EXCEPT ![a].at = "auditing"]
            /\ UNCHANGED <<streams, inFlight>>
         \/ /\ Current(a) /\ actor[c] \in allowed /\ feed /\ p[2] \notin Private
            /\ Land(a) /\ Creates(a, p)
      /\ UNCHANGED <<source, link, logins, asked, wanted>>

(* The audit is recorded, or could not be.                                 *)
Audited(a) ==
  LET p == attempt[a].slot
  IN  /\ attempt[a].at = "auditing"
      /\ \/ Land(a) /\ GivesUp(a)
         \/ Current(a) /\ Land(a) /\ Creates(a, p)
      /\ UNCHANGED <<source, link, logins, asked, wanted>>

(* liveCalls answers what the registry has, or fails.                      *)
Reads(a) ==
  /\ attempt[a].at = "reading"
  /\ \/ attempt' = [attempt EXCEPT ![a].at = "read", ![a].value = registry] /\ UNCHANGED streams
     \/ /\ attempt' = [attempt EXCEPT ![a].at = "done"]
        /\ Drops({p \in Slot : sub[p].id = a}) /\ UNCHANGED tracker
  /\ UNCHANGED <<source, link, logins, asked, inFlight, wanted>>

(* Defective: what waited in pending is forgotten.                         *)
SnapshotAlone(a) ==
  /\ attempt[a].at = "read"
  /\ attempt' = [attempt EXCEPT ![a].at = "done"]
  /\ sub' = [p \in Slot |-> IF sub[p].id # a THEN sub[p]
                            ELSE [sub[p] EXCEPT !.ready = TRUE, !.view = attempt[a].value]]
  /\ UNCHANGED <<source, link, logins, asked, inFlight, tracker, holders, shared, wanted>>

(* The snapshot goes out, then what has waited in pending.                 *)
Snapshot(a) ==
  /\ attempt[a].at = "read"
  /\ attempt' = [attempt EXCEPT ![a].at = "done"]
  /\ sub' = [p \in Slot |->
       IF sub[p].id # a THEN sub[p]
       ELSE [sub[p] EXCEPT !.ready = TRUE, !.late = 0, !.view = Newest(sub[p].late, attempt[a].value)]]
  /\ UNCHANGED <<source, link, logins, asked, inFlight, tracker, holders, shared, wanted>>

TrackerReads(a) ==
  /\ tracker[a].at = "loading"
  /\ tracker' = [tracker EXCEPT ![a].at = "read", ![a].value = registry]
  /\ UNCHANGED <<source, link, logins, attempts, sub, holders, shared, wanted>>

(* It is loaded: pending is applied, and whoever waited gets a snapshot.   *)
TrackerLoads(a) ==
  LET v == Newest(tracker[a].late, tracker[a].value)
  IN  /\ tracker[a].at = "read"
      /\ tracker' = [tracker EXCEPT ![a].at = "loaded", ![a].value = v, ![a].late = 0]
      /\ sub' = [p \in Slot |-> IF sub[p].of # a THEN sub[p]
                                ELSE [sub[p] EXCEPT !.ready = TRUE, !.view = v]]
      /\ UNCHANGED <<source, link, logins, attempts, holders, shared, wanted>>

(* It cannot be loaded: it leaves the map, and its subscribers are told.   *)
TrackerFails(a) ==
  /\ tracker[a].at = "loading"
  /\ tracker' = [tracker EXCEPT ![a].at = "failed"]
  /\ sub' = [p \in Slot |-> IF sub[p].of = a THEN NoSub ELSE sub[p]]
  /\ holders' = [holders EXCEPT ![a] = 0]
  /\ shared' = IF shared = a THEN 0 ELSE shared
  /\ UNCHANGED <<source, link, logins, attempts, wanted>>

(* Defective: only a subscription still on its way is looked at again.     *)
RecheckUnready(p) ==
  /\ sub[p].id # 0 /\ ~sub[p].ready /\ actor[p[1]] \notin allowed
  /\ Drops({p})
  /\ UNCHANGED <<source, link, logins, attempts, tracker, wanted>>

(* recheckSubscriptions: the stream of a person who may no longer see it   *)
(* ends.                                                                   *)
Recheck(p) ==
  /\ sub[p].id # 0 /\ actor[p[1]] \notin allowed
  /\ Drops({p})
  /\ UNCHANGED <<source, link, logins, attempts, tracker, wanted>>

-----------------------------------------------------------------------------
AttemptStep(a) ==
  Authorized(a) \/ Audited(a) \/ Reads(a) \/ Snapshot(a)
    \/ TrackerReads(a) \/ TrackerLoads(a) \/ TrackerFails(a)

ClientStep(c) ==
  \/ Accept(c) \/ Closed(c) \/ \E u \in User : Authenticate(c, u)
  \/ \E p \in Of(c) : Subscribe(p) \/ Unsubscribe(p)

HubNext ==
  \/ Write \/ Publish \/ FeedStarts \/ FeedLost \/ Watch
  \/ \E c \in Conn : ClientStep(c) \/ Verified(c)
  \/ \E u \in User : Revoke(u)
  \/ \E a \in Attempt : AttemptStep(a)
  \/ \E p \in Slot : Recheck(p)

HubSpec == HubInit /\ [][HubNext]_hubVars

(* What is asked for is answered, and the two intervals come round.        *)
HubFairness ==
  /\ WF_hubVars(Watch)
  /\ \A a \in Attempt : WF_hubVars(AttemptStep(a))
  /\ \A p \in Slot : WF_hubVars(Recheck(p))

-----------------------------------------------------------------------------
(* Properties. *)

(* "Events meanwhile wait in pending, so the stream stays in order"        *)
(* (hub.ts:115), and "the feed going down means events may be missed, so   *)
(* no subscriber's view can be trusted any more" (hub.ts:274): while the   *)
(* feed is live, no client that has had its snapshot is behind it, however *)
(* its subscription, its tracker's load and the events came together.      *)
StreamsMissNothing ==
  feed => \A p \in Slot : sub[p].ready => sub[p].view >= bus

(* A tracker outlives each of its subscribers and no subscriber outlives   *)
(* its tracker: one in use is the one events go to (releasePresence).      *)
TrackersHeld ==
  /\ \A p \in Slot : p[2] = "presence" /\ sub[p].id # 0 => sub[p].of = shared
  /\ \A a \in Attempt : holders[a] = Cardinality({p \in Slot : sub[p].of = a})

(* "Unsubscribe also cancels a subscribe for the topic that is still being *)
(* authorized" (hub.ts, onMessage), a later subscribe replaces it, and a   *)
(* connection that is gone has none: a subscription is always that of the  *)
(* last subscribe not taken back.                                          *)
OnlyTheLastAsked ==
  \A p \in Slot : sub[p].id # 0 => sub[p].id = wanted[p]

(* maxConnectionsPerUser holds, though tokens are verified side by side    *)
(* and connections close meanwhile.                                        *)
UserLimitHolds ==
  \A u \in User :
    Cardinality({c \in Conn : socket[c] \in {"open", "closing"} /\ actor[c] = u}) <= MaxPerUser

(* The count of a user's connections (perUser) is that of those there are. *)
UserCountIsTrue ==
  \A u \in User :
    perUser[u] = Cardinality({c \in Conn : socket[c] \in {"open", "closing"} /\ actor[c] = u})

(* "A role taken away ends the stream" (hub.ts:209-211), one that was      *)
(* being set up as it was taken away included, and for good.               *)
RevokedStreamsEnd ==
  <>[](\A p \in Slot : sub[p].id # 0 => actor[p[1]] \in allowed)

(* However logins, subscribes, unsubscribes, loads, cuts and events come   *)
(* together, each client has what it last asked for and all of it, and no  *)
(* user more connections than allowed.                                     *)
HubConsistent ==
  HubTypeOK /\ StreamsMissNothing /\ TrackersHeld /\ OnlyTheLastAsked /\ UserLimitHolds
=============================================================================
