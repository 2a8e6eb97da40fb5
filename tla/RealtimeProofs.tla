--------------------------- MODULE RealtimeProofs ---------------------------
(***************************************************************************)
(* What a console is shown of live calls, for any number of connections,   *)
(* users, subscribes, changes, legs and extensions:                        *)
(*   - the realtime hub: no stream misses an event, whatever comes between *)
(*     its subscribe, its snapshot and the feed; with every change in the  *)
(*     registry before it is published, and a feed that is lost only after *)
(*     a watch saw it live and while nothing is being audited;             *)
(*   - live views: what is kept by events agrees with the calls there are. *)
(***************************************************************************)
EXTENDS RealtimeHub, LiveViews, FiniteSetTheorems, TLAPS

-----------------------------------------------------------------------------
(* The hub.  What waits in a subscription or a tracker is the last of what *)
(* was published, and a snapshot is at least as new as the bus was when it *)
(* was read; a feed is only read again once no stream is left.             *)

AttemptRow ==
  [at : {"none", "authorizing", "auditing", "reading", "read", "done"}, slot : Slot, value : 0..MaxChange]
SubRow ==
  [id : 0..MaxAttempt, of : 0..MaxAttempt, ready : BOOLEAN, late : 0..MaxChange, view : 0..MaxChange]
TrackerRow ==
  [at : {"none", "loading", "read", "loaded", "failed"}, value : 0..MaxChange, late : 0..MaxChange]

(* What each part of the state is; how much is counted comes below.        *)
HubShape ==
  /\ registry \in 0..MaxChange /\ bus \in 0..MaxChange
  /\ feed \in BOOLEAN /\ seenLive \in BOOLEAN /\ losses \in 0..MaxLosses
  /\ socket \in [Conn -> {"none", "open", "closing", "gone"}]
  /\ actor \in [Conn -> User \cup {Nobody}] /\ verifying \in [Conn -> User \cup {Nobody}]
  /\ perUser \in [User -> Nat] /\ allowed \in SUBSET User
  /\ \A c \in Conn : socket[c] = "none" => actor[c] = Nobody /\ verifying[c] = Nobody
  /\ asked \in 0..MaxAttempt
  /\ attempt \in [Attempt -> AttemptRow]
  /\ inFlight \in [Slot -> 0..MaxAttempt] /\ wanted \in [Slot -> 0..MaxAttempt]
  /\ sub \in [Slot -> SubRow]
  /\ tracker \in [Attempt -> TrackerRow]
  /\ holders \in [Attempt -> Nat] /\ shared \in 0..MaxAttempt

As(u)     == {c \in Conn : actor[c] = u}
OpenAs(u) == {c \in Conn : socket[c] \in {"open", "closing"} /\ actor[c] = u}

(* A user is counted for every connection that is open as them, and for no *)
(* more than ever were.                                                    *)
UsersCounted ==
  \A u \in User : /\ Cardinality(OpenAs(u)) <= perUser[u] /\ perUser[u] <= MaxPerUser
                  /\ perUser[u] <= Cardinality(As(u))

(* An attempt that has made nothing yet has no tracker, and the one under  *)
(* way for a topic is the last that was asked for.                         *)
Fresh(a) == attempt[a].at \in {"none", "authorizing", "auditing"}

AttemptsInOrder ==
  /\ \A a \in Attempt : a > asked => attempt[a].at = "none"
  /\ \A a \in Attempt : Fresh(a) => tracker[a] = NoTracker
  /\ \A p \in Slot : inFlight[p] # 0 => inFlight[p] = wanted[p]

(* What a subscription is, of the attempt that made it.                    *)
SubOf(p) ==
  LET s == sub[p]
  IN  IF s.id = 0 THEN s = NoSub
      ELSE /\ s.id = wanted[p] /\ ~Fresh(s.id)
           /\ p[2] = "calls" => /\ s.of = 0
                                /\ attempt[s.id].at \in IF s.ready THEN {"done"} ELSE {"reading", "read"}
           /\ p[2] = "presence" =>
                /\ s.of = shared /\ shared # 0
                /\ attempt[s.id].at = "done" /\ (s.ready <=> tracker[shared].at = "loaded")

Users(a) == {p \in Slot : sub[p].of = a}

(* Of the tracker events go to there are subscribers, and it is in use.    *)
TrackerHeld ==
  /\ shared # 0 => /\ tracker[shared].at \in {"loading", "read", "loaded"} /\ holders[shared] # 0
                   /\ tracker[shared].at = "loaded" => tracker[shared].late = 0
  /\ \A a \in Attempt : holders[a] = Cardinality(Users(a))

(* Nothing that was published since a snapshot was asked for is missed.    *)
CallsFed(p) ==
  sub[p].id # 0 /\ p[2] = "calls" /\ ~sub[p].ready =>
    IF sub[p].late # 0 THEN sub[p].late = bus
    ELSE attempt[sub[p].id].at = "read" => attempt[sub[p].id].value >= bus

TrackerFed ==
  shared # 0 =>
    LET t == tracker[shared]
    IN  IF t.late # 0 THEN t.late = bus ELSE t.at \in {"read", "loaded"} => t.value >= bus

AllFed ==
  feed => /\ \A p \in Slot : (sub[p].ready => sub[p].view >= bus) /\ CallsFed(p)
          /\ TrackerFed

(* While the feed is not read, and was seen not to be, there is no stream; *)
(* nobody is set up by an audit then.                                      *)
DarkIsEmpty ==
  /\ ~feed /\ ~seenLive => shared = 0 /\ \A p \in Slot : sub[p].id = 0
  /\ \A a \in Attempt : attempt[a].at = "auditing" => feed

StreamInv ==
  /\ bus <= registry /\ AttemptsInOrder /\ (\A p \in Slot : SubOf(p)) /\ TrackerHeld
  /\ AllFed /\ DarkIsEmpty

HubInv == HubShape /\ UsersCounted /\ StreamInv

LEMMA HubFacts ==
  /\ IsFiniteSet(Slot) /\ \A p \in Slot : p[1] \in Conn /\ p[2] \in Topic
  /\ NoAttempt \in AttemptRow /\ NoAttempt.at = "none"
  /\ NoSub \in SubRow /\ NoSub.id = 0 /\ NoSub.of = 0 /\ ~NoSub.ready /\ NoSub.late = 0 /\ NoSub.view = 0
  /\ NoTracker \in TrackerRow /\ NoTracker.at = "none" /\ NoTracker.late = 0 /\ NoTracker.value = 0
  /\ \A a \in Attempt : a \in Nat /\ a # 0 /\ a <= MaxAttempt
  /\ MaxAttempt \in Nat /\ MaxChange \in Nat /\ MaxLosses \in Nat /\ MaxPerUser \in Nat /\ Nobody \notin User
<1>1. MaxAttempt \in Nat /\ MaxChange \in Nat /\ MaxLosses \in Nat /\ MaxPerUser \in Nat /\ Nobody \notin User
  BY HubAssumption DEF HubAssumption
<1>2. IsFiniteSet(Topic)
  <2>1. IsFiniteSet({"calls"})
    BY FS_Singleton
  <2>2. IsFiniteSet({"calls"} \cup {"presence"})
    BY <2>1, FS_AddElement
  <2>3. Topic = {"calls"} \cup {"presence"}
    BY DEF Topic
  <2> QED BY <2>2, <2>3
<1>3. IsFiniteSet(Slot)
  BY <1>2, HubAssumption, FS_Product DEF Slot, HubAssumption
<1>4. \A p \in Slot : p[1] \in Conn /\ p[2] \in Topic
  BY DEF Slot
<1>5. (CHOOSE p \in Slot : TRUE) \in Slot
  <2>1. PICK c \in Conn : TRUE
    BY HubAssumption DEF HubAssumption
  <2>2. <<c, "calls">> \in Slot
    BY DEF Slot, Topic
  <2> QED BY <2>2
<1>6. NoAttempt \in AttemptRow /\ NoAttempt.at = "none"
  BY <1>1, <1>5 DEF NoAttempt, AttemptRow
<1>7. NoSub \in SubRow /\ NoSub.id = 0 /\ NoSub.of = 0 /\ ~NoSub.ready /\ NoSub.late = 0 /\ NoSub.view = 0
  BY <1>1 DEF NoSub, SubRow
<1>8. NoTracker \in TrackerRow /\ NoTracker.at = "none" /\ NoTracker.late = 0 /\ NoTracker.value = 0
  BY <1>1 DEF NoTracker, TrackerRow
<1>9. \A a \in Attempt : a \in Nat /\ a # 0 /\ a <= MaxAttempt
  BY <1>1 DEF Attempt
<1> QED BY <1>1, <1>3, <1>4, <1>6, <1>7, <1>8, <1>9

LEMMA HubStarts == HubInit => HubInv
<1> SUFFICES ASSUME HubInit PROVE HubInv
  OBVIOUS
<1> USE HubFacts
<1>1. HubShape
  <2>1. /\ registry \in 0..MaxChange /\ bus \in 0..MaxChange /\ losses \in 0..MaxLosses
        /\ asked \in 0..MaxAttempt /\ shared \in 0..MaxAttempt /\ 0 \in 0..MaxAttempt
    BY DEF HubInit
  <2>2. /\ feed \in BOOLEAN /\ seenLive \in BOOLEAN
        /\ socket \in [Conn -> {"none", "open", "closing", "gone"}]
        /\ actor \in [Conn -> User \cup {Nobody}] /\ verifying \in [Conn -> User \cup {Nobody}]
        /\ perUser \in [User -> Nat] /\ allowed \in SUBSET User
        /\ \A c \in Conn : actor[c] = Nobody /\ verifying[c] = Nobody
    BY DEF HubInit
  <2>3. /\ attempt \in [Attempt -> AttemptRow]
        /\ inFlight \in [Slot -> 0..MaxAttempt] /\ wanted \in [Slot -> 0..MaxAttempt]
    BY <2>1 DEF HubInit
  <2>4. sub \in [Slot -> SubRow] /\ tracker \in [Attempt -> TrackerRow] /\ holders \in [Attempt -> Nat]
    BY DEF HubInit
  <2> QED BY <2>1, <2>2, <2>3, <2>4 DEF HubShape
<1>2. UsersCounted
  <2> SUFFICES ASSUME NEW u \in User
               PROVE  Cardinality(OpenAs(u)) <= perUser[u] /\ perUser[u] <= MaxPerUser /\ perUser[u] <= Cardinality(As(u))
    BY DEF UsersCounted
  <2>1. OpenAs(u) = {} /\ As(u) = {}
    BY DEF HubInit, OpenAs, As
  <2> QED BY <2>1, FS_EmptySet DEF HubInit
<1>3. AttemptsInOrder
  BY DEF HubInit, AttemptsInOrder
<1>4. (\A p \in Slot : SubOf(p)) /\ AllFed /\ DarkIsEmpty /\ bus <= registry
  BY DEF HubInit, SubOf, AllFed, DarkIsEmpty
<1>5. TrackerHeld
  <2>1. \A a \in Attempt : Users(a) = {}
    BY DEF HubInit, Users
  <2> QED BY <2>1, FS_EmptySet DEF HubInit, TrackerHeld
<1> QED BY <1>1, <1>2, <1>3, <1>4, <1>5 DEF HubInv, StreamInv

LEMMA UsersAreFinite == \A a : IsFiniteSet(Users(a)) /\ Users(a) \subseteq Slot /\ Cardinality(Users(a)) \in Nat
  BY HubFacts, FS_Subset, FS_CardinalityType DEF Users

(* What is left when subscriptions end.                                    *)
LEMMA DropsLeave ==
  ASSUME HubShape, \A p \in Slot : SubOf(p), TrackerHeld, NEW gone \in SUBSET Slot, Drops(gone)
  PROVE  /\ sub' \in [Slot -> SubRow] /\ holders' \in [Attempt -> Nat] /\ shared' \in {0, shared}
         /\ \A p \in Slot : sub'[p] = IF p \in gone THEN NoSub ELSE sub[p]
         /\ \A a \in Attempt : holders'[a] = Cardinality(Users(a)')
         /\ shared' # 0 => holders'[shared'] # 0
         /\ \A p \in Slot : sub'[p].of # 0 => shared' = shared
<1> USE HubFacts
<1>1. sub' \in [Slot -> SubRow] /\ \A p \in Slot : sub'[p] = IF p \in gone THEN NoSub ELSE sub[p]
  BY DEF Drops, HubShape
<1>2. ASSUME NEW a \in Attempt
      PROVE  /\ Users(a)' = Users(a) \ gone /\ holders'[a] = Cardinality(Users(a)')
             /\ holders'[a] \in Nat
  <2>1. Users(a)' = Users(a) \ gone
    BY <1>1 DEF Users
  <2>2. {p \in gone : sub[p].of = a} = Users(a) \cap gone
    BY DEF Users
  <2>3. holders'[a] = Cardinality(Users(a)) - Cardinality(Users(a) \cap gone)
    BY <2>2 DEF Drops, TrackerHeld
  <2>4. Cardinality(Users(a) \ gone) = Cardinality(Users(a)) - Cardinality(Users(a) \cap gone)
    BY UsersAreFinite, FS_Difference
  <2>5. Cardinality(Users(a) \ gone) \in Nat
    BY UsersAreFinite, FS_Subset, FS_CardinalityType
  <2> QED BY <2>1, <2>3, <2>4, <2>5
<1>3. holders' \in [Attempt -> Nat]
  BY <1>2 DEF Drops
<1>4. shared' \in {0, shared} /\ (shared' # 0 => holders'[shared'] # 0)
  BY DEF Drops
<1>5. ASSUME NEW p \in Slot, sub'[p].of # 0 PROVE shared' = shared
  <2>1. sub'[p] = sub[p] /\ sub[p].of # 0
    BY <1>1, <1>5
  <2>2. sub[p].of = shared /\ shared # 0 /\ shared \in Attempt
    <3>1. sub[p].id # 0 /\ p[2] \in {"calls", "presence"}
      BY <2>1 DEF SubOf, Topic
    <3>2. sub[p].of = shared /\ shared # 0
      BY <2>1, <3>1 DEF SubOf
    <3> QED BY <3>2 DEF HubShape, Attempt
  <2>3. PICK t \in Attempt : t = shared
    BY <2>2
  <2>4. p \in Users(t)'
    BY <2>1, <2>2, <2>3, <1>1 DEF Users
  <2>5. Users(t) \ gone # {} /\ IsFiniteSet(Users(t) \ gone) /\ holders'[t] = Cardinality(Users(t) \ gone)
    BY <1>2, <2>4, UsersAreFinite, FS_Difference
  <2>6. holders'[t] # 0
    BY <2>5, FS_EmptySet
  <2> QED BY <2>2, <2>3, <2>6 DEF Drops
<1> QED BY <1>1, <1>2, <1>3, <1>4, <1>5

(* A step that ends some streams, makes none and tells none anything.      *)
LEMMA FewerStreams ==
  ASSUME HubShape, StreamInv, NEW gone \in SUBSET Slot, Drops(gone),
         bus' = bus, bus' <= registry', tracker' = tracker, AttemptsInOrder',
         feed' => feed, ~feed' /\ ~seenLive' => (~feed /\ ~seenLive) \/ gone = Slot,
         \A a \in Attempt : attempt'[a].at = "auditing" => feed',
         \A p \in Slot \ gone : sub[p].id # 0 => wanted'[p] = wanted[p] /\ attempt'[sub[p].id] = attempt[sub[p].id]
  PROVE  StreamInv'
<1> USE HubFacts
<1>1. /\ sub' \in [Slot -> SubRow] /\ holders' \in [Attempt -> Nat] /\ shared' \in {0, shared}
      /\ \A p \in Slot : sub'[p] = IF p \in gone THEN NoSub ELSE sub[p]
      /\ \A a \in Attempt : holders'[a] = Cardinality(Users(a)')
      /\ shared' # 0 => holders'[shared'] # 0
      /\ \A p \in Slot : sub'[p].of # 0 => shared' = shared
  BY DropsLeave DEF StreamInv
<1>2. \A p \in Slot : SubOf(p)'
  <2> SUFFICES ASSUME NEW p \in Slot PROVE SubOf(p)'
    OBVIOUS
  <2>1. CASE sub'[p].id = 0
    BY <1>1, <2>1 DEF SubOf, StreamInv
  <2>2. CASE sub'[p].id # 0
    <3>1. sub'[p] = sub[p] /\ sub[p].id # 0 /\ wanted'[p] = wanted[p] /\ attempt'[sub[p].id] = attempt[sub[p].id]
      BY <1>1, <2>2
    <3>2. sub[p].of # 0 => shared' = shared
      BY <1>1, <3>1
    <3> QED BY <3>1, <3>2 DEF SubOf, StreamInv, Fresh
  <2> QED BY <2>1, <2>2
<1>3. TrackerHeld'
  BY <1>1 DEF TrackerHeld, StreamInv
<1>4. AllFed'
  <2> SUFFICES ASSUME feed' PROVE (\A p \in Slot : (sub'[p].ready => sub'[p].view >= bus') /\ CallsFed(p)') /\ TrackerFed'
    BY DEF AllFed
  <2>1. TrackerFed'
    BY <1>1 DEF TrackerFed, AllFed, StreamInv
  <2>2. ASSUME NEW p \in Slot PROVE (sub'[p].ready => sub'[p].view >= bus') /\ CallsFed(p)'
    <3>1. CASE p \in gone
      BY <1>1, <3>1 DEF CallsFed
    <3>2. CASE p \notin gone
      <4>1. sub'[p] = sub[p] /\ (sub[p].id # 0 => attempt'[sub[p].id] = attempt[sub[p].id])
        BY <1>1, <3>2
      <4>2. (sub[p].ready => sub[p].view >= bus) /\ CallsFed(p)
        BY DEF StreamInv, AllFed
      <4> QED BY <4>1, <4>2 DEF CallsFed
    <3> QED BY <3>1, <3>2
  <2> QED BY <2>1, <2>2
<1>5. DarkIsEmpty'
  <2>1. ASSUME ~feed', ~seenLive' PROVE shared' = 0 /\ \A p \in Slot : sub'[p].id = 0
    <3>1. \A p \in Slot : sub'[p].id = 0 /\ sub'[p].of = 0
      BY <1>1, <2>1 DEF StreamInv, DarkIsEmpty, SubOf
    <3>2. CASE shared' # 0
      <4>1. shared' \in Attempt
        BY <1>1, <3>2 DEF HubShape, Attempt
      <4>2. Users(shared)' = {} /\ shared' = shared
        BY <1>1, <3>1, <3>2, <4>1 DEF Users
      <4> QED BY <1>1, <3>2, <4>1, <4>2, FS_EmptySet
    <3> QED BY <3>1, <3>2
  <2> QED BY <2>1 DEF DarkIsEmpty
<1> QED BY <1>2, <1>3, <1>4, <1>5 DEF StreamInv

(* A step that touches no stream ends none.                                *)
LEMMA NoneDropped ==
  ASSUME HubShape, TrackerHeld, UNCHANGED streams
  PROVE  \E gone \in SUBSET Slot : gone = {} /\ Drops(gone)
<1>1. UNCHANGED <<sub, tracker, holders, shared>>
  BY DEF streams
<1>2. PICK gone \in SUBSET Slot : gone = {}
  OBVIOUS
<1>3. sub' = [p \in Slot |-> IF p \in gone THEN NoSub ELSE sub[p]]
  BY <1>1, <1>2 DEF HubShape
<1>4. ASSUME NEW a \in Attempt
      PROVE  holders[a] = holders[a] - Cardinality({p \in gone : sub[p].of = a})
  <2>1. {p \in gone : sub[p].of = a} = {}
    BY <1>2
  <2>2. holders[a] \in Nat
    BY DEF HubShape
  <2> QED BY <2>1, <2>2, FS_EmptySet
<1>5. holders' = [a \in Attempt |-> holders[a] - Cardinality({p \in gone : sub[p].of = a})]
  BY <1>1, <1>4 DEF HubShape
<1>6. shared # 0 => holders'[shared] # 0
  BY <1>1 DEF TrackerHeld
<1>7. Drops(gone)
  BY <1>1, <1>3, <1>5, <1>6 DEF Drops
<1> QED BY <1>2, <1>7

(* So it keeps what holds of the streams.                                  *)
LEMMA SameStreams ==
  ASSUME HubShape, StreamInv, UNCHANGED streams,
         bus' = bus, bus' <= registry', AttemptsInOrder',
         feed' => feed, ~feed' /\ ~seenLive' => ~feed /\ ~seenLive,
         \A a \in Attempt : attempt'[a].at = "auditing" => feed',
         \A p \in Slot : sub[p].id # 0 => wanted'[p] = wanted[p] /\ attempt'[sub[p].id] = attempt[sub[p].id]
  PROVE  StreamInv'
<1>1. PICK gone \in SUBSET Slot : gone = {} /\ Drops(gone)
  BY NoneDropped DEF StreamInv
<1>2. tracker' = tracker
  BY DEF streams
<1> QED BY <1>1, <1>2, FewerStreams

-----------------------------------------------------------------------------
(* The source and the feed.                                                *)

LEMMA WriteKeeps == HubInv /\ Write => HubInv'
<1> SUFFICES ASSUME HubInv, Write PROVE HubInv'
  OBVIOUS
<1> USE HubFacts
<1>1. registry' = registry + 1 /\ registry' \in 0..MaxChange /\ bus' = bus /\ bus \in Nat /\ registry \in Nat
  BY DEF Write, HubInv, HubShape
<1>2. UNCHANGED <<link, logins, attempts, streams, wanted>>
  BY DEF Write
<1>3. UNCHANGED <<feed, seenLive, losses, socket, actor, verifying, perUser, allowed, asked, attempt, inFlight,
                  sub, tracker, holders, shared, wanted>>
  BY <1>2 DEF link, logins, attempts, streams
<1>4. HubShape'
  BY <1>1, <1>3 DEF HubInv, HubShape
<1>5. UsersCounted'
  BY <1>3 DEF HubInv, UsersCounted, OpenAs, As
<1>6. AttemptsInOrder'
  BY <1>3 DEF HubInv, StreamInv, AttemptsInOrder, Fresh
<1>7. bus' <= registry'
  BY <1>1 DEF HubInv, StreamInv
<1>8. StreamInv'
  BY <1>1, <1>2, <1>3, <1>6, <1>7, SameStreams DEF HubInv, StreamInv, DarkIsEmpty
<1> QED BY <1>4, <1>5, <1>8 DEF HubInv

(* The feed is read again when no stream is left from before.              *)
LEMMA FeedStartsKeeps == HubInv /\ FeedStarts => HubInv'
<1> SUFFICES ASSUME HubInv, FeedStarts PROVE HubInv'
  OBVIOUS
<1> USE HubFacts
<1>1. /\ ~feed /\ ~seenLive /\ feed'
      /\ UNCHANGED <<registry, bus, seenLive, losses, socket, actor, verifying, perUser, allowed, asked, attempt, inFlight,
                     sub, tracker, holders, shared, wanted>>
  BY DEF FeedStarts, source, logins, attempts, streams
<1>2. shared = 0 /\ \A p \in Slot : sub[p].id = 0 /\ ~sub[p].ready
  BY <1>1 DEF HubInv, StreamInv, DarkIsEmpty, SubOf
<1>3. HubShape'
  BY <1>1 DEF HubInv, HubShape
<1>4. UsersCounted'
  BY <1>1 DEF HubInv, UsersCounted, OpenAs, As
<1>5. AttemptsInOrder' /\ TrackerHeld' /\ \A p \in Slot : SubOf(p)'
  BY <1>1 DEF HubInv, StreamInv, AttemptsInOrder, Fresh, TrackerHeld, Users, SubOf
<1>6. AllFed' /\ DarkIsEmpty'
  BY <1>1, <1>2 DEF AllFed, CallsFed, TrackerFed, DarkIsEmpty
<1>7. bus' <= registry'
  BY <1>1 DEF HubInv, StreamInv
<1> QED BY <1>3, <1>4, <1>5, <1>6, <1>7 DEF HubInv, StreamInv

LEMMA FeedLostKeeps == ~Blips /\ HubInv /\ FeedLost => HubInv'
<1> SUFFICES ASSUME ~Blips, HubInv, FeedLost PROVE HubInv'
  OBVIOUS
<1> USE HubFacts
<1>1. /\ feed /\ ~feed' /\ seenLive /\ losses' = losses + 1 /\ losses < MaxLosses
      /\ \A a \in Attempt : attempt[a].at # "auditing"
      /\ UNCHANGED <<streams, registry, bus, seenLive, socket, actor, verifying, perUser, allowed, asked, attempt, inFlight, wanted>>
  BY DEF FeedLost, source, logins, attempts
<1>2. UNCHANGED <<sub, tracker, holders, shared>> /\ feed' \in BOOLEAN
  BY <1>1 DEF streams, FeedLost
<1>3. HubShape'
  BY <1>1, <1>2 DEF HubInv, HubShape
<1>4. UsersCounted'
  BY <1>1 DEF HubInv, UsersCounted, OpenAs, As
<1>5. AttemptsInOrder'
  BY <1>1, <1>2 DEF HubInv, StreamInv, AttemptsInOrder, Fresh
<1>6. StreamInv'
  BY <1>1, <1>5, SameStreams DEF HubInv, StreamInv
<1> QED BY <1>3, <1>4, <1>6 DEF HubInv

LEMMA WatchKeeps == HubInv /\ Watch => HubInv'
<1> SUFFICES ASSUME HubInv, Watch PROVE HubInv'
  OBVIOUS
<1> USE HubFacts
<1>1. /\ seenLive' = feed /\ feed # seenLive
      /\ UNCHANGED <<registry, bus, feed, losses, socket, actor, verifying, perUser, allowed, asked, attempt, inFlight, wanted>>
  BY DEF Watch, source, logins, attempts
<1>2. UsersCounted'
  BY <1>1 DEF HubInv, UsersCounted, OpenAs, As
<1>3. tracker' = tracker
  BY DEF Watch, streams
<1>4. AttemptsInOrder'
  BY <1>1, <1>3 DEF HubInv, StreamInv, AttemptsInOrder, Fresh
<1>5. \E gone \in SUBSET Slot : Drops(gone) /\ (~feed => gone = Slot)
  BY NoneDropped DEF Watch, HubInv, StreamInv
<1>6. PICK gone \in SUBSET Slot : Drops(gone) /\ (~feed => gone = Slot)
  BY <1>5
<1>7. HubShape'
  <2>1. sub' \in [Slot -> SubRow] /\ holders' \in [Attempt -> Nat] /\ shared' \in {0, shared}
    BY <1>6, DropsLeave DEF HubInv, StreamInv
  <2> QED BY <1>1, <1>3, <2>1 DEF HubInv, HubShape
<1>8. StreamInv'
  <2>1. ~feed' /\ ~seenLive' => (~feed /\ ~seenLive) \/ gone = Slot
    BY <1>1, <1>6 DEF HubInv, HubShape
  <2> QED BY <1>1, <1>3, <1>4, <1>6, <2>1, FewerStreams DEF HubInv, StreamInv, DarkIsEmpty
<1> QED BY <1>2, <1>7, <1>8 DEF HubInv

-----------------------------------------------------------------------------
(* Connections.                                                            *)

CountsAreFinite ==
  \A u \in User : /\ IsFiniteSet(As(u)) /\ IsFiniteSet(OpenAs(u))
                  /\ Cardinality(As(u)) \in Nat /\ Cardinality(OpenAs(u)) \in Nat

LEMMA CountsFinite == CountsAreFinite /\ CountsAreFinite'
<1>1. \A S \in SUBSET Conn : IsFiniteSet(S) /\ Cardinality(S) \in Nat
  BY HubAssumption, FS_Subset, FS_CardinalityType DEF HubAssumption
<1>2. /\ \A u : As(u) \in SUBSET Conn /\ OpenAs(u) \in SUBSET Conn
      /\ \A u : As(u)' \in SUBSET Conn /\ OpenAs(u)' \in SUBSET Conn
  BY DEF As, OpenAs
<1> QED BY <1>1, <1>2 DEF CountsAreFinite

(* A step of a login alone.                                                *)
LEMMA LoginKeeps ==
  ASSUME HubInv, HubShape', UsersCounted', UNCHANGED <<source, link, attempts, streams, wanted>>
  PROVE  HubInv'
<1>1. UNCHANGED <<registry, bus, feed, seenLive, losses, asked, attempt, inFlight, sub, tracker, holders, shared, wanted>>
  BY DEF source, link, attempts, streams
<1>2. AttemptsInOrder'
  BY <1>1 DEF HubInv, StreamInv, AttemptsInOrder, Fresh
<1>3. StreamInv'
  BY <1>1, <1>2, SameStreams DEF HubInv, StreamInv, DarkIsEmpty
<1> QED BY <1>3 DEF HubInv

LEMMA AcceptKeeps == \A c \in Conn : HubInv /\ Accept(c) => HubInv'
<1> SUFFICES ASSUME NEW c \in Conn, HubInv, Accept(c) PROVE HubInv'
  OBVIOUS
<1>1. /\ socket[c] = "none" /\ UNCHANGED <<source, link, actor, verifying, perUser, allowed, attempts, streams, wanted>>
      /\ socket' \in [Conn -> {"none", "open", "closing", "gone"}]
      /\ socket'[c] = "open" /\ \A d \in Conn \ {c} : socket'[d] = socket[d]
  BY DEF Accept, HubInv, HubShape
<1>2. actor[c] = Nobody
  BY <1>1 DEF HubInv, HubShape
<1>3. \A u \in User : OpenAs(u)' = OpenAs(u) /\ As(u)' = As(u)
  BY <1>1, <1>2, HubFacts DEF OpenAs, As
<1>4. UsersCounted'
  BY <1>1, <1>3 DEF HubInv, UsersCounted
<1>5. HubShape'
  BY <1>1 DEF HubInv, HubShape, source, link, attempts, streams
<1> QED BY <1>1, <1>4, <1>5, LoginKeeps

LEMMA AuthenticateKeeps == \A c \in Conn, u \in User : HubInv /\ Authenticate(c, u) => HubInv'
<1> SUFFICES ASSUME NEW c \in Conn, NEW u \in User, HubInv, Authenticate(c, u) PROVE HubInv'
  OBVIOUS
<1>1. /\ socket[c] = "open" /\ UNCHANGED <<source, link, socket, actor, perUser, allowed, attempts, streams, wanted>>
      /\ verifying' \in [Conn -> User \cup {Nobody}]
      /\ \A d \in Conn \ {c} : verifying'[d] = verifying[d]
  BY DEF Authenticate, HubInv, HubShape
<1>2. UsersCounted'
  BY <1>1 DEF HubInv, UsersCounted, OpenAs, As
<1>3. HubShape'
  BY <1>1 DEF HubInv, HubShape, source, link, attempts, streams
<1> QED BY <1>1, <1>2, <1>3, LoginKeeps

LEMMA RevokeKeeps == \A u \in User : HubInv /\ Revoke(u) => HubInv'
<1> SUFFICES ASSUME NEW u \in User, HubInv, Revoke(u) PROVE HubInv'
  OBVIOUS
<1>1. UNCHANGED <<source, link, socket, actor, verifying, perUser, attempts, streams, wanted>> /\ allowed' \subseteq allowed
  BY DEF Revoke
<1>2. UsersCounted'
  BY <1>1 DEF HubInv, UsersCounted, OpenAs, As
<1>3. HubShape'
  BY <1>1 DEF HubInv, HubShape, source, link, attempts, streams
<1> QED BY <1>1, <1>2, <1>3, LoginKeeps

(* A first login counts for its user before the connection is theirs; one  *)
(* of a connection that is gone by then is counted too.                    *)
LEMMA VerifiedKeeps == \A c \in Conn : HubInv /\ Verified(c) => HubInv'
<1> SUFFICES ASSUME NEW c \in Conn, HubInv, Verified(c) PROVE HubInv'
  OBVIOUS
<1> USE HubFacts
<1>0. PICK u : u = verifying[c]
  OBVIOUS
<1>1. /\ u \in User /\ socket[c] # "none" /\ UNCHANGED <<source, link, allowed, attempts, streams, wanted>>
      /\ verifying' \in [Conn -> User \cup {Nobody}]
      /\ \A d \in Conn : verifying'[d] \in {Nobody, verifying[d]}
  BY <1>0 DEF Verified, HubInv, HubShape
<1>2. CASE Refuses(c)
  <2>1. /\ socket' \in [Conn -> {"none", "open", "closing", "gone"}] /\ UNCHANGED <<actor, perUser>>
        /\ \A d \in Conn : /\ socket'[d] = "none" <=> socket[d] = "none"
                           /\ socket'[d] \in {"open", "closing"} <=> socket[d] \in {"open", "closing"}
    BY <1>2 DEF Refuses, HubInv, HubShape
  <2>2. \A v \in User : OpenAs(v)' = OpenAs(v) /\ As(v)' = As(v)
    BY <2>1 DEF OpenAs, As
  <2>3. UsersCounted'
    BY <2>1, <2>2 DEF HubInv, UsersCounted
  <2>4. HubShape'
    BY <1>1, <2>1 DEF HubInv, HubShape, source, link, attempts, streams
  <2> QED BY <1>1, <2>3, <2>4, LoginKeeps
<1>3. CASE UNCHANGED <<socket, actor, perUser>>
  <2>1. UsersCounted'
    BY <1>3 DEF HubInv, UsersCounted, OpenAs, As
  <2>2. HubShape'
    BY <1>1, <1>3 DEF HubInv, HubShape, source, link, attempts, streams
  <2> QED BY <1>1, <2>1, <2>2, LoginKeeps
<1>4. CASE /\ actor[c] = Nobody /\ perUser[u] < MaxPerUser
           /\ perUser' = [perUser EXCEPT ![u] = @ + 1]
           /\ actor' = [actor EXCEPT ![c] = u]
           /\ UNCHANGED socket
  <2>1. /\ perUser' \in [User -> Nat] /\ perUser'[u] = perUser[u] + 1
        /\ \A v \in User \ {u} : perUser'[v] = perUser[v]
        /\ actor' \in [Conn -> User \cup {Nobody}] /\ actor'[c] = u
        /\ \A d \in Conn \ {c} : actor'[d] = actor[d]
    BY <1>1, <1>4 DEF HubInv, HubShape
  <2>2. \A v \in User \ {u} : OpenAs(v)' = OpenAs(v) /\ As(v)' = As(v)
    BY <1>4, <2>1 DEF OpenAs, As
  <2>3. As(u)' = As(u) \cup {c} /\ c \notin As(u) /\ c \notin OpenAs(u)
        /\ OpenAs(u)' \in {OpenAs(u), OpenAs(u) \cup {c}}
    BY <1>1, <1>4, <2>1 DEF OpenAs, As
  <2>4. /\ Cardinality(As(u)') = Cardinality(As(u)) + 1
        /\ Cardinality(OpenAs(u)') \in {Cardinality(OpenAs(u)), Cardinality(OpenAs(u)) + 1}
    <3>1. IsFiniteSet(As(u)) /\ IsFiniteSet(OpenAs(u))
      BY <1>1, CountsFinite DEF CountsAreFinite
    <3>2. Cardinality(As(u) \cup {c}) = Cardinality(As(u)) + 1
      BY <2>3, <3>1, FS_AddElement
    <3>3. Cardinality(OpenAs(u) \cup {c}) = Cardinality(OpenAs(u)) + 1
      BY <2>3, <3>1, FS_AddElement
    <3> QED BY <2>3, <3>2, <3>3
  <2>5. UsersCounted'
    <3>1. /\ Cardinality(OpenAs(u)) <= perUser[u] /\ perUser[u] <= Cardinality(As(u)) /\ perUser[u] \in Nat
          /\ Cardinality(OpenAs(u)) \in Nat /\ Cardinality(As(u)) \in Nat
      BY <1>1, CountsFinite DEF HubInv, UsersCounted, HubShape, CountsAreFinite
    <3>2. /\ Cardinality(OpenAs(u)') <= perUser'[u] /\ perUser'[u] <= MaxPerUser
          /\ perUser'[u] <= Cardinality(As(u)')
      BY <1>4, <2>1, <2>4, <3>1
    <3> QED BY <2>1, <2>2, <3>2 DEF HubInv, UsersCounted
  <2>6. HubShape'
    BY <1>1, <1>4, <2>1 DEF HubInv, HubShape, source, link, attempts, streams
  <2> QED BY <1>1, <2>5, <2>6, LoginKeeps
<1> QED BY <1>0, <1>2, <1>3, <1>4 DEF Verified

(* An ended connection is no longer counted, nor are its streams.          *)
LEMMA ClosedKeeps == \A c \in Conn : HubInv /\ Closed(c) => HubInv'
<1> SUFFICES ASSUME NEW c \in Conn, HubInv, Closed(c) PROVE HubInv'
  OBVIOUS
<1> USE HubFacts
<1>1. /\ UNCHANGED <<registry, bus, feed, seenLive, losses, actor, verifying, allowed, asked, attempt, tracker>>
      /\ Drops(Of(c)) /\ Of(c) \in SUBSET Slot
      /\ socket[c] \in {"open", "closing"}
  BY DEF Closed, source, link, Of
<1>2. /\ socket' \in [Conn -> {"none", "open", "closing", "gone"}] /\ socket'[c] = "gone"
      /\ \A d \in Conn \ {c} : socket'[d] = socket[d]
  BY DEF Closed, HubInv, HubShape
<1>3. /\ inFlight' \in [Slot -> 0..MaxAttempt] /\ wanted' \in [Slot -> 0..MaxAttempt]
      /\ \A p \in Slot : /\ p \in Of(c) => inFlight'[p] = 0 /\ wanted'[p] = 0
                         /\ p \notin Of(c) => inFlight'[p] = inFlight[p] /\ wanted'[p] = wanted[p]
  BY DEF Closed, HubInv, HubShape, Of
<1>4. /\ perUser' \in [User -> Nat]
      /\ \A u \in User : perUser'[u] = IF u = actor[c] /\ perUser[u] > 0 THEN perUser[u] - 1 ELSE perUser[u]
  BY DEF Closed, HubInv, HubShape
<1>5. UsersCounted'
  <2> SUFFICES ASSUME NEW u \in User
               PROVE  /\ Cardinality(OpenAs(u)') <= perUser'[u] /\ perUser'[u] <= MaxPerUser
                      /\ perUser'[u] <= Cardinality(As(u)')
    BY DEF UsersCounted
  <2>1. /\ Cardinality(OpenAs(u)) <= perUser[u] /\ perUser[u] <= MaxPerUser
        /\ perUser[u] <= Cardinality(As(u)) /\ perUser[u] \in Nat
        /\ IsFiniteSet(OpenAs(u)) /\ Cardinality(OpenAs(u)) \in Nat /\ Cardinality(As(u)) \in Nat
    BY CountsFinite DEF CountsAreFinite, HubInv, HubShape, UsersCounted
  <2>2. As(u)' = As(u)
    BY <1>1 DEF As
  <2>3. CASE u # actor[c]
    <3>1. OpenAs(u)' = OpenAs(u)
      BY <1>1, <1>2, <2>3 DEF OpenAs
    <3> QED BY <1>4, <2>1, <2>2, <2>3, <3>1
  <2>4. CASE u = actor[c]
    <3>1. OpenAs(u)' = OpenAs(u) \ {c} /\ c \in OpenAs(u)
      BY <1>1, <1>2, <2>4 DEF OpenAs
    <3>2. Cardinality(OpenAs(u) \ {c}) = Cardinality(OpenAs(u)) - 1
      BY <2>1, <3>1, FS_RemoveElement
    <3>3. Cardinality(OpenAs(u) \ {c}) \in Nat
      BY <2>1, FS_RemoveElement, FS_CardinalityType
    <3> QED BY <1>4, <2>1, <2>2, <2>4, <3>1, <3>2, <3>3
  <2> QED BY <2>3, <2>4
<1>6. AttemptsInOrder'
  <2>1. ASSUME NEW p \in Slot, inFlight'[p] # 0 PROVE inFlight'[p] = wanted'[p]
    <3>1. p \notin Of(c)
      BY <1>3, <2>1
    <3>2. inFlight'[p] = inFlight[p] /\ wanted'[p] = wanted[p]
      BY <1>3, <3>1
    <3> QED BY <2>1, <3>2 DEF HubInv, StreamInv, AttemptsInOrder
  <2>2. \A a \in Attempt : (a > asked' => attempt'[a].at = "none") /\ (Fresh(a)' => tracker'[a] = NoTracker)
    BY <1>1 DEF HubInv, StreamInv, AttemptsInOrder, Fresh
  <2> QED BY <2>1, <2>2 DEF AttemptsInOrder
<1>7. /\ sub' \in [Slot -> SubRow] /\ holders' \in [Attempt -> Nat] /\ shared' \in {0, shared}
  BY <1>1, DropsLeave DEF HubInv, StreamInv
<1>8. HubShape'
  BY <1>1, <1>2, <1>3, <1>4, <1>7 DEF HubInv, HubShape
<1>9. StreamInv'
  BY <1>1, <1>3, <1>6, FewerStreams DEF HubInv, StreamInv, DarkIsEmpty
<1> QED BY <1>5, <1>8, <1>9 DEF HubInv

-----------------------------------------------------------------------------
(* Subscribing and what takes subscriptions back.                          *)

(* A step that takes one subscription back, and touches no other topic of  *)
(* any connection but that one's.                                          *)
LEMMA TakesBack ==
  ASSUME HubInv, NEW p \in Slot, Drops({p}), AttemptsInOrder',
         UNCHANGED <<registry, bus, feed, seenLive, losses, socket, actor, verifying, perUser, allowed, tracker>>,
         asked' \in 0..MaxAttempt, attempt' \in [Attempt -> AttemptRow],
         inFlight' \in [Slot -> 0..MaxAttempt], wanted' \in [Slot -> 0..MaxAttempt],
         \A a \in Attempt : attempt'[a] = attempt[a] \/ (Fresh(a) /\ attempt'[a].at # "auditing"),
         \A q \in Slot \ {p} : wanted'[q] = wanted[q]
  PROVE  HubInv'
<1> USE HubFacts
<1>1. /\ sub' \in [Slot -> SubRow] /\ holders' \in [Attempt -> Nat] /\ shared' \in {0, shared}
  BY DropsLeave DEF HubInv, StreamInv
<1>2. HubShape'
  BY <1>1 DEF HubInv, HubShape
<1>3. UsersCounted'
  BY DEF HubInv, UsersCounted, OpenAs, As
<1>4. \A q \in Slot \ {p} : sub[q].id # 0 => wanted'[q] = wanted[q] /\ attempt'[sub[q].id] = attempt[sub[q].id]
  <2> SUFFICES ASSUME NEW q \in Slot \ {p}, sub[q].id # 0 PROVE attempt'[sub[q].id] = attempt[sub[q].id]
    OBVIOUS
  <2>1. SubOf(q)
    BY DEF HubInv, StreamInv
  <2>2. sub[q] \in SubRow
    BY DEF HubInv, HubShape
  <2>3. sub[q].id \in Attempt /\ ~Fresh(sub[q].id)
    BY <2>1, <2>2 DEF SubOf, SubRow, Attempt
  <2> QED BY <2>3
<1>5. \A a \in Attempt : attempt'[a].at = "auditing" => feed'
  BY DEF HubInv, StreamInv, DarkIsEmpty
<1>6. PICK gone \in SUBSET Slot : gone = {p}
  OBVIOUS
<1>7. Drops(gone) /\ \A q \in Slot \ gone : q \in Slot \ {p}
  BY <1>6
<1>8. StreamInv'
  BY <1>4, <1>5, <1>7, FewerStreams DEF HubInv, StreamInv
<1> QED BY <1>2, <1>3, <1>8 DEF HubInv

LEMMA RecheckKeeps == \A p \in Slot : HubInv /\ Recheck(p) => HubInv'
<1> SUFFICES ASSUME NEW p \in Slot, HubInv, Recheck(p) PROVE HubInv'
  OBVIOUS
<1>1. /\ UNCHANGED <<registry, bus, feed, seenLive, losses, socket, actor, verifying, perUser, allowed, tracker,
                     asked, attempt, inFlight, wanted>>
      /\ Drops({p})
  BY DEF Recheck, source, link, logins, attempts
<1>2. AttemptsInOrder'
  BY <1>1 DEF HubInv, StreamInv, AttemptsInOrder, Fresh
<1>3. /\ asked' \in 0..MaxAttempt /\ attempt' \in [Attempt -> AttemptRow]
      /\ inFlight' \in [Slot -> 0..MaxAttempt] /\ wanted' \in [Slot -> 0..MaxAttempt]
  BY <1>1 DEF HubInv, HubShape
<1> QED BY <1>1, <1>2, <1>3, TakesBack

LEMMA UnsubscribeKeeps == \A p \in Slot : HubInv /\ Unsubscribe(p) => HubInv'
<1> SUFFICES ASSUME NEW p \in Slot, HubInv, Unsubscribe(p) PROVE HubInv'
  OBVIOUS
<1>1. /\ UNCHANGED <<registry, bus, feed, seenLive, losses, socket, actor, verifying, perUser, allowed, tracker,
                     asked, attempt>>
      /\ Drops({p})
  BY DEF Unsubscribe, source, link, logins
<1>2. /\ inFlight' \in [Slot -> 0..MaxAttempt] /\ wanted' \in [Slot -> 0..MaxAttempt]
      /\ inFlight'[p] = 0
      /\ \A q \in Slot \ {p} : inFlight'[q] = inFlight[q] /\ wanted'[q] = wanted[q]
  <2>1. 0 \in 0..MaxAttempt
    BY HubFacts
  <2> QED BY <2>1 DEF Unsubscribe, HubInv, HubShape
<1>3. AttemptsInOrder'
  BY <1>1, <1>2 DEF HubInv, StreamInv, AttemptsInOrder, Fresh
<1>4. asked' \in 0..MaxAttempt /\ attempt' \in [Attempt -> AttemptRow]
  BY <1>1 DEF HubInv, HubShape
<1> QED BY <1>1, <1>2, <1>3, <1>4, TakesBack

LEMMA SubscribeKeeps == \A p \in Slot : HubInv /\ Subscribe(p) => HubInv'
<1> SUFFICES ASSUME NEW p \in Slot, HubInv, Subscribe(p) PROVE HubInv'
  OBVIOUS
<1> USE HubFacts
<1>1. /\ UNCHANGED <<registry, bus, feed, seenLive, losses, socket, actor, verifying, perUser, allowed, tracker>>
      /\ Drops({p}) /\ asked' = asked + 1 /\ asked < MaxAttempt
  BY DEF Subscribe, source, link, logins
<1>2. asked' \in Attempt /\ asked' \in 0..MaxAttempt /\ asked \in Nat
  BY <1>1 DEF HubInv, HubShape, Attempt
<1>3. PICK a \in Attempt : a = asked + 1
  BY <1>1, <1>2
<1>4. attempt[a].at = "none" /\ Fresh(a) /\ tracker[a] = NoTracker /\ attempt[a] \in AttemptRow
  BY <1>2, <1>3 DEF HubInv, HubShape, StreamInv, AttemptsInOrder, Fresh
<1>5. CASE UNCHANGED <<inFlight, wanted, attempt>>
  <2>1. AttemptsInOrder'
    <3>1. \A b \in Attempt : b > asked' => attempt'[b].at = "none"
      BY <1>1, <1>2, <1>5 DEF HubInv, StreamInv, AttemptsInOrder
    <3> QED BY <1>1, <1>5, <3>1 DEF HubInv, StreamInv, AttemptsInOrder, Fresh
  <2> QED BY <1>1, <1>2, <1>5, <2>1, TakesBack DEF HubInv, HubShape
<1>6. CASE /\ inFlight' = [inFlight EXCEPT ![p] = asked'] /\ wanted' = [wanted EXCEPT ![p] = asked']
           /\ attempt' = [attempt EXCEPT ![asked'] = [@ EXCEPT !.at = "authorizing", !.slot = p]]
  <2>1. /\ inFlight' \in [Slot -> 0..MaxAttempt] /\ wanted' \in [Slot -> 0..MaxAttempt]
        /\ inFlight'[p] = a /\ wanted'[p] = a
        /\ \A q \in Slot \ {p} : inFlight'[q] = inFlight[q] /\ wanted'[q] = wanted[q]
    BY <1>1, <1>2, <1>3, <1>6 DEF HubInv, HubShape
  <2>2. /\ attempt' \in [Attempt -> AttemptRow] /\ attempt'[a].at = "authorizing"
        /\ \A b \in Attempt \ {a} : attempt'[b] = attempt[b]
    <3>1. PICK r : r = [attempt[a] EXCEPT !.at = "authorizing"]
      OBVIOUS
    <3>2. r \in AttemptRow /\ r.at = "authorizing"
      BY <1>4, <3>1 DEF AttemptRow
    <3>3. [r EXCEPT !.slot = p] \in AttemptRow /\ [r EXCEPT !.slot = p].at = "authorizing"
      BY <3>2 DEF AttemptRow
    <3>4. [attempt[a] EXCEPT !.at = "authorizing", !.slot = p] = [r EXCEPT !.slot = p]
      BY <3>1
    <3>5. attempt' = [attempt EXCEPT ![a] = [r EXCEPT !.slot = p]]
      BY <1>1, <1>3, <1>6, <3>4
    <3> QED BY <3>3, <3>5 DEF HubInv, HubShape
  <2>3. AttemptsInOrder'
    <3>1. \A b \in Attempt : b > asked' => attempt'[b].at = "none"
      BY <1>1, <1>2, <1>3, <2>2 DEF HubInv, StreamInv, AttemptsInOrder
    <3>2. \A b \in Attempt : Fresh(b)' => tracker'[b] = NoTracker
      BY <1>1, <1>4, <2>2 DEF HubInv, StreamInv, AttemptsInOrder, Fresh
    <3>3. \A q \in Slot : inFlight'[q] # 0 => inFlight'[q] = wanted'[q]
      BY <2>1 DEF HubInv, StreamInv, AttemptsInOrder
    <3> QED BY <3>1, <3>2, <3>3 DEF AttemptsInOrder
  <2>4. \A b \in Attempt : attempt'[b] = attempt[b] \/ (Fresh(b) /\ attempt'[b].at # "auditing")
    BY <1>4, <2>2
  <2> QED BY <1>1, <1>2, <2>1, <2>2, <2>3, <2>4, TakesBack
<1> QED BY <1>5, <1>6 DEF Subscribe

-----------------------------------------------------------------------------
(* Events and snapshots.                                                   *)

(* What a subscription is, in full.                                        *)
LEMMA SubsAre ==
  ASSUME HubInv
  PROVE  /\ \A p \in Slot : /\ sub[p] \in SubRow /\ SubOf(p) /\ p[2] \in {"calls", "presence"}
                            /\ sub[p].id # 0 => sub[p].id \in Attempt /\ ~Fresh(sub[p].id)
                            /\ sub[p].id = 0 => sub[p] = NoSub
                            /\ sub[p].of # 0 => sub[p].id # 0 /\ p[2] = "presence" /\ sub[p].of = shared
         /\ shared # 0 => shared \in Attempt /\ ~Fresh(shared) /\ tracker[shared] \in TrackerRow
         /\ bus \in Nat /\ registry \in Nat /\ bus <= registry
<1> USE HubFacts
<1>1. ASSUME NEW p \in Slot
      PROVE  /\ sub[p] \in SubRow /\ SubOf(p) /\ p[2] \in {"calls", "presence"}
             /\ sub[p].id # 0 => sub[p].id \in Attempt /\ ~Fresh(sub[p].id)
             /\ sub[p].id = 0 => sub[p] = NoSub
             /\ sub[p].of # 0 => sub[p].id # 0 /\ p[2] = "presence" /\ sub[p].of = shared
  <2>1. sub[p] \in SubRow /\ SubOf(p) /\ p[2] \in {"calls", "presence"}
    BY DEF HubInv, HubShape, StreamInv, Topic
  <2>2. sub[p].id \in 0..MaxAttempt
    BY <2>1 DEF SubRow
  <2>3. sub[p].id # 0 => sub[p].id \in Attempt
    BY <2>2 DEF Attempt
  <2> QED BY <2>1, <2>3 DEF SubOf
<1>2. shared # 0 => shared \in Attempt
  BY DEF HubInv, HubShape, Attempt
<1>3. shared # 0 => ~Fresh(shared) /\ tracker[shared] \in TrackerRow
  BY <1>2 DEF HubInv, HubShape, StreamInv, AttemptsInOrder, TrackerHeld
<1>4. bus \in Nat /\ registry \in Nat /\ bus <= registry
  BY DEF HubInv, HubShape, StreamInv
<1> QED BY <1>1, <1>2, <1>3, <1>4

(* The holders of each tracker are as many when no subscription changes    *)
(* trackers.                                                               *)
LEMMA SameHolders ==
  ASSUME TrackerHeld, UNCHANGED <<holders, shared>>, \A p \in Slot : sub'[p].of = sub[p].of,
         shared # 0 => /\ tracker'[shared].at \in {"loading", "read", "loaded"}
                       /\ tracker'[shared].at = "loaded" => tracker'[shared].late = 0
  PROVE  TrackerHeld'
<1>1. \A a \in Attempt : Users(a)' = Users(a)
  BY DEF Users
<1> QED BY <1>1 DEF TrackerHeld

LEMMA PublishKeeps == Prompt /\ HubInv /\ Publish => HubInv'
<1> SUFFICES ASSUME Prompt, HubInv, Publish PROVE HubInv'
  OBVIOUS
<1> USE HubFacts
<1>1. /\ UNCHANGED <<registry, feed, seenLive, losses, socket, actor, verifying, perUser, allowed, asked, attempt,
                     inFlight, holders, shared, wanted>>
      /\ bus' = bus + 1 /\ bus' \in 0..MaxChange /\ bus' <= registry /\ bus' # 0 /\ bus \in Nat /\ bus' \in Nat
  BY SubsAre DEF Publish, link, logins, attempts, HubInv, HubShape
<1>2. UsersCounted'
  BY <1>1 DEF HubInv, UsersCounted, OpenAs, As
<1>3. CASE ~feed /\ UNCHANGED <<sub, tracker>>
  <2>1. HubShape'
    BY <1>1, <1>3 DEF HubInv, HubShape
  <2>2. AttemptsInOrder' /\ TrackerHeld' /\ DarkIsEmpty' /\ AllFed' /\ \A p \in Slot : SubOf(p)'
    BY <1>1, <1>3 DEF HubInv, StreamInv, AttemptsInOrder, Fresh, TrackerHeld, Users, DarkIsEmpty, AllFed, SubOf
  <2> QED BY <1>1, <1>2, <2>1, <2>2 DEF HubInv, StreamInv
<1>4. CASE feed /\ Dispatch(bus')
  <2>1. ASSUME NEW p \in Slot
        PROVE  /\ sub'[p] \in SubRow /\ sub'[p].id = sub[p].id /\ sub'[p].of = sub[p].of
               /\ sub'[p].ready <=> sub[p].ready
               /\ sub[p].id = 0 => sub'[p] = NoSub
               /\ sub[p].ready => sub'[p].view = bus'
               /\ sub[p].id # 0 /\ ~sub[p].ready /\ p[2] = "calls" => sub'[p].late = bus'
    <3>1. sub[p] \in SubRow /\ SubOf(p)
      BY SubsAre
    <3>2. CASE sub[p].id = 0 \/ (p[2] = "presence" /\ tracker[shared].at # "loaded")
      <4>1. sub'[p] = sub[p]
        BY <1>4, <3>2 DEF Dispatch
      <4>2. ~sub[p].ready /\ (sub[p].id # 0 => p[2] = "presence")
        BY <3>1, <3>2 DEF SubOf
      <4> QED BY <3>1, <4>1, <4>2 DEF SubOf
    <3>3. CASE ~(sub[p].id = 0 \/ (p[2] = "presence" /\ tracker[shared].at # "loaded"))
      <4>1. CASE sub[p].ready
        <5>1. sub'[p] = [sub[p] EXCEPT !.view = bus']
          BY <1>4, <3>3, <4>1 DEF Dispatch
        <5> QED BY <1>1, <3>1, <3>3, <4>1, <5>1 DEF SubRow
      <4>2. CASE ~sub[p].ready
        <5>1. sub'[p] = [sub[p] EXCEPT !.late = bus']
          BY <1>4, <3>3, <4>2 DEF Dispatch
        <5> QED BY <1>1, <3>1, <3>3, <4>2, <5>1 DEF SubRow
      <4> QED BY <4>1, <4>2
    <3> QED BY <3>2, <3>3
  <2>2. sub' \in [Slot -> SubRow]
    BY <1>4, <2>1 DEF Dispatch
  <2>3. /\ tracker' \in [Attempt -> TrackerRow]
        /\ \A a \in Attempt : a # shared => tracker'[a] = tracker[a]
        /\ shared # 0 => /\ tracker'[shared].at = tracker[shared].at
                         /\ tracker[shared].at = "loaded" =>
                              tracker'[shared].late = tracker[shared].late /\ tracker'[shared].value = bus'
                         /\ tracker[shared].at # "loaded" => tracker'[shared].late = bus'
    <3>1. CASE shared = 0
      BY <1>4, <3>1 DEF Dispatch, HubInv, HubShape
    <3>2. CASE shared # 0
      <4>1. shared \in Attempt /\ tracker[shared] \in TrackerRow
        BY <3>2, SubsAre
      <4>2. [tracker[shared] EXCEPT !.value = bus'] \in TrackerRow /\ [tracker[shared] EXCEPT !.late = bus'] \in TrackerRow
        BY <1>1, <4>1 DEF TrackerRow
      <4>3. CASE tracker[shared].at = "loaded"
        <5>1. tracker' = [tracker EXCEPT ![shared] = [tracker[shared] EXCEPT !.value = bus']]
          BY <1>4, <3>2, <4>3 DEF Dispatch
        <5> QED BY <4>1, <4>2, <4>3, <5>1 DEF HubInv, HubShape, TrackerRow
      <4>4. CASE tracker[shared].at # "loaded"
        <5>1. tracker' = [tracker EXCEPT ![shared] = [tracker[shared] EXCEPT !.late = bus']]
          BY <1>4, <3>2, <4>4 DEF Dispatch
        <5> QED BY <4>1, <4>2, <4>4, <5>1 DEF HubInv, HubShape, TrackerRow
      <4> QED BY <4>3, <4>4
    <3> QED BY <3>1, <3>2
  <2>4. HubShape'
    BY <1>1, <2>2, <2>3 DEF HubInv, HubShape
  <2>5. AttemptsInOrder'
    <3>1. \A a \in Attempt : Fresh(a)' => Fresh(a) /\ a # shared
      BY <1>1, SubsAre DEF Fresh
    <3> QED BY <1>1, <2>3, <3>1 DEF HubInv, StreamInv, AttemptsInOrder, Fresh
  <2>6. TrackerHeld'
    BY <1>1, <2>1, <2>3, SameHolders, SubsAre DEF HubInv, StreamInv, TrackerHeld
  <2>7. ASSUME NEW p \in Slot PROVE SubOf(p)'
    <3>1. SubOf(p)
      BY SubsAre
    <3> QED BY <1>1, <2>1, <2>3, <3>1 DEF SubOf, Fresh
  <2>8. AllFed'
    <3>1. \A p \in Slot : (sub'[p].ready => sub'[p].view >= bus') /\ CallsFed(p)'
      BY <1>1, <2>1 DEF CallsFed
    <3>2. TrackerFed'
      BY <1>1, <2>3 DEF TrackerFed, HubInv, StreamInv, TrackerHeld
    <3> QED BY <3>1, <3>2 DEF AllFed
  <2>9. DarkIsEmpty'
    BY <1>1, <1>4 DEF DarkIsEmpty
  <2> QED BY <1>1, <1>2, <2>4, <2>5, <2>6, <2>7, <2>8, <2>9 DEF HubInv, StreamInv
<1> QED BY <1>3, <1>4 DEF Publish

(* One attempt goes on, and no other.                                      *)
LEMMA AttemptMoves ==
  ASSUME HubShape, NEW a \in Attempt, NEW x \in {"authorizing", "auditing", "reading", "read", "done"},
         NEW v \in 0..MaxChange,
         \/ attempt' = [attempt EXCEPT ![a].at = x] /\ v = attempt[a].value
         \/ attempt' = [attempt EXCEPT ![a].at = x, ![a].value = v]
  PROVE  /\ attempt' \in [Attempt -> AttemptRow] /\ attempt'[a].at = x /\ attempt'[a].value = v
         /\ \A b \in Attempt \ {a} : attempt'[b] = attempt[b]
<1>1. attempt[a] \in AttemptRow
  BY DEF HubShape
<1>2. PICK r : r = [attempt[a] EXCEPT !.at = x]
  OBVIOUS
<1>3. r \in AttemptRow /\ r.at = x /\ r.value = attempt[a].value
  BY <1>1, <1>2 DEF AttemptRow
<1>4. CASE attempt' = [attempt EXCEPT ![a].at = x] /\ v = attempt[a].value
  <2>1. attempt' = [attempt EXCEPT ![a] = r]
    BY <1>2, <1>4
  <2> QED BY <1>3, <1>4, <2>1 DEF HubShape
<1>5. CASE attempt' = [attempt EXCEPT ![a].at = x, ![a].value = v]
  <2>1. PICK q : q = [r EXCEPT !.value = v]
    OBVIOUS
  <2>2. q \in AttemptRow /\ q.at = x /\ q.value = v
    BY <1>3, <2>1 DEF AttemptRow
  <2>3. attempt' = [attempt EXCEPT ![a] = q]
    BY <1>2, <1>5, <2>1 DEF HubShape
  <2> QED BY <2>2, <2>3 DEF HubShape
<1> QED BY <1>4, <1>5

LEMMA ReadsKeeps == \A a \in Attempt : HubInv /\ Reads(a) => HubInv'
<1> SUFFICES ASSUME NEW a \in Attempt, HubInv, Reads(a) PROVE HubInv'
  OBVIOUS
<1> USE HubFacts
<1>1. /\ UNCHANGED <<registry, bus, feed, seenLive, losses, socket, actor, verifying, perUser, allowed, asked,
                     inFlight, wanted>>
      /\ attempt[a].at = "reading" /\ attempt[a].value \in 0..MaxChange /\ registry \in 0..MaxChange
  BY DEF Reads, source, link, logins, HubInv, HubShape, AttemptRow
<1>2. UsersCounted'
  BY <1>1 DEF HubInv, UsersCounted, OpenAs, As
<1>3. CASE attempt' = [attempt EXCEPT ![a].at = "read", ![a].value = registry] /\ UNCHANGED streams
  <2>1. /\ attempt' \in [Attempt -> AttemptRow] /\ attempt'[a].at = "read" /\ attempt'[a].value = registry
        /\ \A b \in Attempt \ {a} : attempt'[b] = attempt[b]
    BY <1>1, <1>3, AttemptMoves DEF HubInv
  <2>2. UNCHANGED <<sub, tracker, holders, shared>>
    BY <1>3 DEF streams
  <2>3. HubShape'
    BY <1>1, <2>1, <2>2 DEF HubInv, HubShape
  <2>4. AttemptsInOrder'
    BY <1>1, <2>1, <2>2 DEF HubInv, StreamInv, AttemptsInOrder, Fresh
  <2>5. TrackerHeld'
    BY <2>2, SameHolders DEF HubInv, StreamInv, TrackerHeld
  <2>6. ASSUME NEW p \in Slot PROVE SubOf(p)' /\ (feed => (sub[p].ready => sub[p].view >= bus) /\ CallsFed(p)')
    <3>1. /\ SubOf(p) /\ (sub[p].id # 0 => sub[p].id \in Attempt /\ ~Fresh(sub[p].id))
          /\ bus \in Nat /\ registry \in Nat /\ bus <= registry
      BY SubsAre
    <3>2. CASE sub[p].id = a
      <4>1. SubOf(p)'
        BY <1>1, <2>1, <2>2, <3>1, <3>2 DEF SubOf, Fresh
      <4>2. feed => (sub[p].ready => sub[p].view >= bus) /\ CallsFed(p)
        BY DEF HubInv, StreamInv, AllFed
      <4> QED BY <1>1, <2>1, <2>2, <3>1, <3>2, <4>1, <4>2 DEF CallsFed
    <3>3. CASE sub[p].id # a
      <4>1. sub[p].id # 0 => attempt'[sub[p].id] = attempt[sub[p].id]
        BY <2>1, <3>1, <3>3
      <4>2. SubOf(p)'
        BY <1>1, <2>2, <3>1, <4>1 DEF SubOf, Fresh
      <4>3. feed => (sub[p].ready => sub[p].view >= bus) /\ CallsFed(p)
        BY DEF HubInv, StreamInv, AllFed
      <4> QED BY <1>1, <2>2, <4>1, <4>2, <4>3 DEF CallsFed
    <3> QED BY <3>2, <3>3
  <2>7. AllFed'
    BY <1>1, <2>2, <2>6 DEF AllFed, TrackerFed, HubInv, StreamInv
  <2>8. DarkIsEmpty'
    BY <1>1, <2>1, <2>2 DEF DarkIsEmpty, HubInv, StreamInv
  <2> QED BY <1>1, <1>2, <2>3, <2>4, <2>5, <2>6, <2>7, <2>8 DEF HubInv, StreamInv
<1>4. CASE /\ attempt' = [attempt EXCEPT ![a].at = "done"]
           /\ Drops({p \in Slot : sub[p].id = a}) /\ UNCHANGED tracker
  <2>1. /\ attempt' \in [Attempt -> AttemptRow] /\ attempt'[a].at = "done"
        /\ \A b \in Attempt \ {a} : attempt'[b] = attempt[b]
    BY <1>1, <1>4, AttemptMoves DEF HubInv
  <2>2. PICK gone \in SUBSET Slot : gone = {p \in Slot : sub[p].id = a}
    OBVIOUS
  <2>3. Drops(gone) /\ tracker' = tracker
    BY <1>4, <2>2
  <2>4. sub' \in [Slot -> SubRow] /\ holders' \in [Attempt -> Nat] /\ shared' \in {0, shared}
    BY <2>3, DropsLeave DEF HubInv, StreamInv
  <2>5. HubShape'
    BY <1>1, <2>1, <2>3, <2>4 DEF HubInv, HubShape
  <2>6. AttemptsInOrder'
    BY <1>1, <2>1, <2>3 DEF HubInv, StreamInv, AttemptsInOrder, Fresh
  <2>7. \A p \in Slot \ gone : sub[p].id # 0 => wanted'[p] = wanted[p] /\ attempt'[sub[p].id] = attempt[sub[p].id]
    BY <1>1, <2>1, <2>2, SubsAre
  <2>8. \A b \in Attempt : attempt'[b].at = "auditing" => feed'
    BY <1>1, <2>1 DEF HubInv, StreamInv, DarkIsEmpty
  <2>9. StreamInv'
    BY <1>1, <2>3, <2>6, <2>7, <2>8, FewerStreams DEF HubInv, StreamInv
  <2> QED BY <1>2, <2>5, <2>9 DEF HubInv
<1> QED BY <1>3, <1>4 DEF Reads

(* A snapshot and what waited behind it are as new as the feed.            *)
LEMMA SnapshotKeeps == \A a \in Attempt : HubInv /\ Snapshot(a) => HubInv'
<1> SUFFICES ASSUME NEW a \in Attempt, HubInv, Snapshot(a) PROVE HubInv'
  OBVIOUS
<1> USE HubFacts
<1>1. /\ UNCHANGED <<registry, bus, feed, seenLive, losses, socket, actor, verifying, perUser, allowed, asked,
                     inFlight, wanted, tracker, holders, shared>>
      /\ attempt[a].at = "read" /\ attempt[a].value \in 0..MaxChange
  BY DEF Snapshot, source, link, logins, HubInv, HubShape, AttemptRow
<1>2. UsersCounted'
  BY <1>1 DEF HubInv, UsersCounted, OpenAs, As
<1>3. /\ attempt' \in [Attempt -> AttemptRow] /\ attempt'[a].at = "done"
      /\ \A b \in Attempt \ {a} : attempt'[b] = attempt[b]
  BY <1>1, AttemptMoves DEF HubInv, Snapshot
<1>4. ASSUME NEW p \in Slot
      PROVE  /\ sub'[p] \in SubRow /\ sub'[p].id = sub[p].id /\ sub'[p].of = sub[p].of
             /\ SubOf(p)'
             /\ feed => (sub'[p].ready => sub'[p].view >= bus) /\ CallsFed(p)'
  <2>1. /\ sub[p] \in SubRow /\ SubOf(p) /\ (sub[p].id # 0 => sub[p].id \in Attempt /\ ~Fresh(sub[p].id))
        /\ p[2] \in {"calls", "presence"} /\ bus \in Nat
    BY SubsAre
  <2>2. feed => (sub[p].ready => sub[p].view >= bus) /\ CallsFed(p)
    BY DEF HubInv, StreamInv, AllFed
  <2>3. CASE sub[p].id # a
    <3>1. sub'[p] = sub[p] /\ (sub[p].id # 0 => attempt'[sub[p].id] = attempt[sub[p].id])
      BY <1>3, <2>1, <2>3 DEF Snapshot
    <3>2. SubOf(p)'
      BY <1>1, <2>1, <3>1 DEF SubOf, Fresh
    <3> QED BY <1>1, <2>1, <2>2, <3>1, <3>2 DEF CallsFed
  <2>4. CASE sub[p].id = a
    <3>1. p[2] = "calls" /\ ~sub[p].ready /\ sub[p].of = 0
      BY <1>1, <2>1, <2>4 DEF SubOf
    <3>2. PICK v : v = Newest(sub[p].late, attempt[a].value)
      OBVIOUS
    <3>3. v \in 0..MaxChange /\ (feed => v >= bus)
      BY <1>1, <2>1, <2>2, <2>4, <3>1, <3>2 DEF Newest, CallsFed, SubRow
    <3>4. sub'[p] = [sub[p] EXCEPT !.ready = TRUE, !.late = 0, !.view = v]
      BY <2>4, <3>2 DEF Snapshot
    <3>5. PICK r : r = [sub[p] EXCEPT !.ready = TRUE]
      OBVIOUS
    <3>6. r \in SubRow /\ r.ready /\ r.id = sub[p].id /\ r.of = sub[p].of
      BY <2>1, <3>5 DEF SubRow
    <3>7. PICK q : q = [r EXCEPT !.late = 0]
      OBVIOUS
    <3>8. q \in SubRow /\ q.ready /\ q.id = sub[p].id /\ q.of = sub[p].of
      BY <3>6, <3>7 DEF SubRow
    <3>9. sub'[p] = [q EXCEPT !.view = v]
      BY <2>1, <3>4, <3>5, <3>7 DEF SubRow
    <3>10. sub'[p] \in SubRow /\ sub'[p].ready /\ sub'[p].id = a /\ sub'[p].of = 0 /\ sub'[p].view = v
      BY <2>4, <3>1, <3>3, <3>8, <3>9 DEF SubRow
    <3>11. SubOf(p)'
      BY <1>1, <1>3, <2>1, <2>4, <3>1, <3>10 DEF SubOf, Fresh
    <3> QED BY <1>1, <2>4, <3>1, <3>3, <3>10, <3>11 DEF CallsFed
  <2> QED BY <2>3, <2>4
<1>5. sub' \in [Slot -> SubRow]
  BY <1>4 DEF Snapshot
<1>6. HubShape'
  BY <1>1, <1>3, <1>5 DEF HubInv, HubShape
<1>7. AttemptsInOrder'
  BY <1>1, <1>3 DEF HubInv, StreamInv, AttemptsInOrder, Fresh
<1>8. TrackerHeld'
  BY <1>1, <1>4, SameHolders DEF HubInv, StreamInv, TrackerHeld
<1>9. AllFed'
  BY <1>1, <1>4 DEF AllFed, TrackerFed, HubInv, StreamInv
<1>10. DarkIsEmpty'
  BY <1>1, <1>3, <1>4 DEF DarkIsEmpty, HubInv, StreamInv
<1> QED BY <1>1, <1>2, <1>4, <1>6, <1>7, <1>8, <1>9, <1>10 DEF HubInv, StreamInv

-----------------------------------------------------------------------------
(* Trackers.                                                               *)

LEMMA TrackerReadsKeeps == \A a \in Attempt : HubInv /\ TrackerReads(a) => HubInv'
<1> SUFFICES ASSUME NEW a \in Attempt, HubInv, TrackerReads(a) PROVE HubInv'
  OBVIOUS
<1> USE HubFacts
<1>1. /\ UNCHANGED <<registry, bus, feed, seenLive, losses, socket, actor, verifying, perUser, allowed, asked,
                     attempt, inFlight, wanted, sub, holders, shared>>
      /\ tracker[a].at = "loading" /\ tracker[a] \in TrackerRow /\ registry \in 0..MaxChange
  BY DEF TrackerReads, source, link, logins, attempts, HubInv, HubShape
<1>2. UsersCounted'
  BY <1>1 DEF HubInv, UsersCounted, OpenAs, As
<1>3. /\ tracker' \in [Attempt -> TrackerRow] /\ tracker'[a].at = "read" /\ tracker'[a].value = registry
      /\ tracker'[a].late = tracker[a].late
      /\ \A b \in Attempt \ {a} : tracker'[b] = tracker[b]
  <2>1. PICK r : r = [tracker[a] EXCEPT !.at = "read"]
    OBVIOUS
  <2>2. r \in TrackerRow /\ r.at = "read" /\ r.late = tracker[a].late
    BY <1>1, <2>1 DEF TrackerRow
  <2>3. PICK q : q = [r EXCEPT !.value = registry]
    OBVIOUS
  <2>4. q \in TrackerRow /\ q.at = "read" /\ q.value = registry /\ q.late = tracker[a].late
    BY <1>1, <2>2, <2>3 DEF TrackerRow
  <2>5. tracker' = [tracker EXCEPT ![a] = q]
    BY <2>1, <2>3 DEF TrackerReads, HubInv, HubShape
  <2> QED BY <2>4, <2>5 DEF HubInv, HubShape
<1>4. HubShape'
  BY <1>1, <1>3 DEF HubInv, HubShape
<1>5. AttemptsInOrder'
  <2>1. ~Fresh(a)
    BY <1>1 DEF HubInv, StreamInv, AttemptsInOrder
  <2> QED BY <1>1, <1>3, <2>1 DEF HubInv, StreamInv, AttemptsInOrder, Fresh
<1>6. shared # 0 =>
        /\ shared \in Attempt /\ tracker'[shared].at \in {"read", "loaded", "loading"}
        /\ tracker'[shared].at = "loaded" <=> tracker[shared].at = "loaded"
        /\ tracker'[shared].late = tracker[shared].late
        /\ shared # a => tracker'[shared] = tracker[shared]
  BY <1>1, <1>3, SubsAre DEF HubInv, StreamInv, TrackerHeld
<1>7. TrackerHeld'
  BY <1>1, <1>6, SameHolders DEF HubInv, StreamInv, TrackerHeld
<1>8. \A p \in Slot : SubOf(p)'
  BY <1>1, <1>6, SubsAre DEF SubOf, Fresh
<1>9. AllFed'
  <2>1. feed => TrackerFed'
    BY <1>1, <1>3, <1>6, SubsAre DEF TrackerFed, HubInv, StreamInv, AllFed
  <2> QED BY <1>1, <2>1 DEF AllFed, CallsFed, HubInv, StreamInv
<1>10. DarkIsEmpty'
  BY <1>1 DEF DarkIsEmpty, HubInv, StreamInv
<1> QED BY <1>1, <1>2, <1>4, <1>5, <1>7, <1>8, <1>9, <1>10, SubsAre DEF HubInv, StreamInv

(* Whoever waited gets what was loaded with what came since.               *)
LEMMA TrackerLoadsKeeps == \A a \in Attempt : HubInv /\ TrackerLoads(a) => HubInv'
<1> SUFFICES ASSUME NEW a \in Attempt, HubInv, TrackerLoads(a) PROVE HubInv'
  OBVIOUS
<1> USE HubFacts
<1>0. PICK v : v = Newest(tracker[a].late, tracker[a].value)
  OBVIOUS
<1>1. /\ UNCHANGED <<registry, bus, feed, seenLive, losses, socket, actor, verifying, perUser, allowed, asked,
                     attempt, inFlight, wanted, holders, shared>>
      /\ tracker[a].at = "read" /\ tracker[a] \in TrackerRow /\ v \in 0..MaxChange /\ bus \in Nat /\ bus <= registry
  <2>1. tracker[a].at = "read" /\ tracker[a] \in TrackerRow
    BY DEF TrackerLoads, HubInv, HubShape
  <2>2. v \in 0..MaxChange
    BY <1>0, <2>1 DEF Newest, TrackerRow
  <2> QED BY <2>1, <2>2, SubsAre DEF TrackerLoads, source, link, logins, attempts
<1>2. UsersCounted'
  BY <1>1 DEF HubInv, UsersCounted, OpenAs, As
<1>3. /\ tracker' \in [Attempt -> TrackerRow] /\ tracker'[a].at = "loaded" /\ tracker'[a].value = v
      /\ tracker'[a].late = 0
      /\ \A b \in Attempt \ {a} : tracker'[b] = tracker[b]
  <2>1. PICK r : r = [tracker[a] EXCEPT !.at = "loaded"]
    OBVIOUS
  <2>2. r \in TrackerRow /\ r.at = "loaded"
    BY <1>1, <2>1 DEF TrackerRow
  <2>3. PICK q : q = [r EXCEPT !.value = v]
    OBVIOUS
  <2>4. q \in TrackerRow /\ q.at = "loaded" /\ q.value = v
    BY <1>1, <2>2, <2>3 DEF TrackerRow
  <2>5. PICK t : t = [q EXCEPT !.late = 0]
    OBVIOUS
  <2>6. t \in TrackerRow /\ t.at = "loaded" /\ t.value = v /\ t.late = 0
    BY <2>4, <2>5 DEF TrackerRow
  <2>7. tracker' = [tracker EXCEPT ![a] = t]
    BY <1>0, <2>1, <2>3, <2>5 DEF TrackerLoads, HubInv, HubShape
  <2> QED BY <2>6, <2>7 DEF HubInv, HubShape
<1>4. feed /\ shared = a => v >= bus
  BY <1>0, <1>1, SubsAre DEF Newest, HubInv, StreamInv, AllFed, TrackerFed
<1>5. ASSUME NEW p \in Slot
      PROVE  /\ sub'[p] \in SubRow /\ sub'[p].id = sub[p].id /\ sub'[p].of = sub[p].of
             /\ SubOf(p)' /\ (feed => (sub'[p].ready => sub'[p].view >= bus) /\ CallsFed(p)')
  <2>1. /\ sub[p] \in SubRow /\ SubOf(p) /\ p[2] \in {"calls", "presence"}
        /\ (feed => (sub[p].ready => sub[p].view >= bus) /\ CallsFed(p))
    BY SubsAre DEF HubInv, StreamInv, AllFed
  <2>2. CASE sub[p].of # a
    <3>1. sub'[p] = sub[p]
      BY <2>2 DEF TrackerLoads
    <3>2. p[2] = "presence" /\ sub[p].id # 0 => sub[p].of = shared /\ tracker'[shared] = tracker[shared]
      <4>1. p[2] = "presence" /\ sub[p].id # 0 => sub[p].of = shared /\ shared # 0
        BY <2>1 DEF SubOf
      <4>2. shared # 0 => shared \in Attempt
        BY SubsAre
      <4> QED BY <1>3, <2>2, <4>1, <4>2
    <3>3. SubOf(p)'
      BY <1>1, <2>1, <3>1, <3>2 DEF SubOf, Fresh
    <3> QED BY <1>1, <2>1, <3>1, <3>3 DEF CallsFed
  <2>3. CASE sub[p].of = a
    <3>1. p[2] = "presence" /\ sub[p].id # 0 /\ shared = a
      BY <2>3, SubsAre
    <3>2. PICK r : r = [sub[p] EXCEPT !.ready = TRUE]
      OBVIOUS
    <3>3. r \in SubRow /\ r.ready /\ r.id = sub[p].id /\ r.of = sub[p].of
      BY <2>1, <3>2 DEF SubRow
    <3>4. sub'[p] = [r EXCEPT !.view = v]
      BY <1>0, <2>1, <2>3, <3>2 DEF TrackerLoads, SubRow
    <3>5. sub'[p] \in SubRow /\ sub'[p].ready /\ sub'[p].id = sub[p].id /\ sub'[p].of = a /\ sub'[p].view = v
      BY <1>1, <2>3, <3>3, <3>4 DEF SubRow
    <3>6. SubOf(p)'
      BY <1>1, <1>3, <2>1, <3>1, <3>5 DEF SubOf, Fresh
    <3> QED BY <1>1, <1>4, <2>3, <3>1, <3>5, <3>6 DEF CallsFed
  <2> QED BY <2>2, <2>3
<1>6. sub' \in [Slot -> SubRow]
  BY <1>5 DEF TrackerLoads
<1>7. HubShape'
  BY <1>1, <1>3, <1>6 DEF HubInv, HubShape
<1>8. AttemptsInOrder'
  <2>1. ~Fresh(a)
    BY <1>1 DEF HubInv, StreamInv, AttemptsInOrder
  <2> QED BY <1>1, <1>3, <2>1 DEF HubInv, StreamInv, AttemptsInOrder, Fresh
<1>9. shared # 0 /\ shared # a => shared \in Attempt /\ tracker'[shared] = tracker[shared]
  BY <1>3, SubsAre
<1>10. TrackerHeld'
  BY <1>1, <1>3, <1>5, <1>9, SameHolders DEF HubInv, StreamInv, TrackerHeld
<1>11. AllFed'
  <2>1. feed => TrackerFed'
    BY <1>1, <1>3, <1>4, <1>9 DEF TrackerFed, HubInv, StreamInv, AllFed
  <2> QED BY <1>1, <1>5, <2>1 DEF AllFed
<1>12. DarkIsEmpty'
  BY <1>1, <1>5 DEF DarkIsEmpty, HubInv, StreamInv
<1> QED BY <1>1, <1>2, <1>5, <1>7, <1>8, <1>10, <1>11, <1>12 DEF HubInv, StreamInv

(* A tracker that cannot be loaded takes its subscribers with it.          *)
LEMMA TrackerFailsKeeps == \A a \in Attempt : HubInv /\ TrackerFails(a) => HubInv'
<1> SUFFICES ASSUME NEW a \in Attempt, HubInv, TrackerFails(a) PROVE HubInv'
  OBVIOUS
<1> USE HubFacts
<1>1. /\ UNCHANGED <<registry, bus, feed, seenLive, losses, socket, actor, verifying, perUser, allowed, asked,
                     attempt, inFlight, wanted>>
      /\ tracker[a].at = "loading" /\ tracker[a] \in TrackerRow /\ shared' = IF shared = a THEN 0 ELSE shared
  BY DEF TrackerFails, source, link, logins, attempts, HubInv, HubShape
<1>2. UsersCounted'
  BY <1>1 DEF HubInv, UsersCounted, OpenAs, As
<1>3. /\ tracker' \in [Attempt -> TrackerRow] /\ \A b \in Attempt \ {a} : tracker'[b] = tracker[b]
      /\ holders' \in [Attempt -> Nat] /\ holders'[a] = 0 /\ \A b \in Attempt \ {a} : holders'[b] = holders[b]
  <2>1. [tracker[a] EXCEPT !.at = "failed"] \in TrackerRow
    BY <1>1 DEF TrackerRow
  <2> QED BY <2>1 DEF TrackerFails, HubInv, HubShape
<1>4. sub' \in [Slot -> SubRow] /\ \A p \in Slot : sub'[p] = IF sub[p].of = a THEN NoSub ELSE sub[p]
  BY DEF TrackerFails, HubInv, HubShape
<1>5. shared # 0 /\ shared # a =>
        shared \in Attempt /\ tracker'[shared] = tracker[shared] /\ holders'[shared] = holders[shared]
  BY <1>3, SubsAre
<1>6. shared' \in 0..MaxAttempt
  BY <1>1 DEF HubInv, HubShape
<1>7. HubShape'
  BY <1>1, <1>3, <1>4, <1>6 DEF HubInv, HubShape
<1>8. AttemptsInOrder'
  <2>1. ~Fresh(a)
    BY <1>1 DEF HubInv, StreamInv, AttemptsInOrder
  <2> QED BY <1>1, <1>3, <2>1 DEF HubInv, StreamInv, AttemptsInOrder, Fresh
<1>9. ASSUME NEW p \in Slot
      PROVE  SubOf(p)' /\ (feed => (sub'[p].ready => sub'[p].view >= bus) /\ CallsFed(p)')
  <2>1. /\ SubOf(p) /\ p[2] \in {"calls", "presence"}
        /\ (feed => (sub[p].ready => sub[p].view >= bus) /\ CallsFed(p))
    BY SubsAre DEF HubInv, StreamInv, AllFed
  <2>2. CASE sub[p].of = a
    BY <1>4, <2>2 DEF SubOf, CallsFed
  <2>3. CASE sub[p].of # a
    <3>1. sub'[p] = sub[p]
      BY <1>4, <2>3
    <3>2. p[2] = "presence" /\ sub[p].id # 0 => sub[p].of = shared /\ shared # 0 /\ shared # a
      BY <2>1, <2>3 DEF SubOf
    <3>3. SubOf(p)'
      BY <1>1, <1>5, <2>1, <3>1, <3>2 DEF SubOf, Fresh
    <3> QED BY <1>1, <2>1, <3>1, <3>3 DEF CallsFed
  <2> QED BY <2>2, <2>3
<1>10. TrackerHeld'
  <2>1. Users(a)' = {}
    BY <1>4 DEF Users
  <2>2. \A b \in Attempt \ {a} : Users(b)' = Users(b)
    BY <1>4 DEF Users
  <2>3. \A b \in Attempt : holders'[b] = Cardinality(Users(b)')
    BY <1>3, <2>1, <2>2, FS_EmptySet DEF HubInv, StreamInv, TrackerHeld
  <2>4. shared' # 0 => shared' = shared /\ shared # 0 /\ shared # a
    BY <1>1
  <2> QED BY <1>5, <2>3, <2>4 DEF HubInv, StreamInv, TrackerHeld
<1>11. AllFed'
  <2>1. feed => TrackerFed'
    <3>1. shared' # 0 => shared' = shared /\ shared # 0 /\ shared # a
      BY <1>1
    <3> QED BY <1>1, <1>5, <3>1 DEF TrackerFed, HubInv, StreamInv, AllFed
  <2> QED BY <1>1, <1>9, <2>1 DEF AllFed
<1>12. DarkIsEmpty'
  BY <1>1, <1>4 DEF DarkIsEmpty, HubInv, StreamInv
<1> QED BY <1>1, <1>2, <1>7, <1>8, <1>9, <1>10, <1>11, <1>12, SubsAre DEF HubInv, StreamInv

-----------------------------------------------------------------------------
(* What comes of an attempt that has made nothing yet.                     *)

(* It lands: no topic has it under way any more.                           *)
LEMMA LandLeaves ==
  ASSUME HubInv, NEW a \in Attempt, Land(a), wanted' = wanted
  PROVE  /\ inFlight' \in [Slot -> 0..MaxAttempt]
         /\ \A p \in Slot : inFlight'[p] # 0 => inFlight'[p] = wanted'[p]
<1> USE HubFacts
<1>1. inFlight \in [Slot -> 0..MaxAttempt] /\ 0 \in 0..MaxAttempt
  BY DEF HubInv, HubShape
<1>2. \A p \in Slot : inFlight'[p] = IF inFlight[p] = a THEN 0 ELSE inFlight[p]
  BY DEF Land
<1>3. inFlight' \in [Slot -> 0..MaxAttempt]
  BY <1>1 DEF Land
<1>4. ASSUME NEW p \in Slot, inFlight'[p] # 0 PROVE inFlight'[p] = wanted'[p]
  <2>1. inFlight'[p] = inFlight[p]
    BY <1>2, <1>4
  <2> QED BY <1>4, <2>1 DEF HubInv, StreamInv, AttemptsInOrder
<1> QED BY <1>3, <1>4

(* It gives up, or goes on to be audited while the feed is read.           *)
LEMMA GoesOn ==
  ASSUME HubInv, NEW a \in Attempt, attempt[a].at \in {"authorizing", "auditing"},
         NEW x \in {"auditing", "done"}, attempt' = [attempt EXCEPT ![a].at = x], x = "auditing" => feed,
         Land(a) \/ UNCHANGED inFlight,
         UNCHANGED streams, UNCHANGED <<source, link, logins, asked, wanted>>
  PROVE  HubInv'
<1> USE HubFacts
<1>1. UNCHANGED <<registry, bus, feed, seenLive, losses, socket, actor, verifying, perUser, allowed, asked,
                  wanted, sub, tracker, holders, shared>>
  BY DEF source, link, logins, streams
<1>2. UsersCounted'
  BY <1>1 DEF HubInv, UsersCounted, OpenAs, As
<1>3. /\ attempt' \in [Attempt -> AttemptRow] /\ attempt'[a].at = x
      /\ \A b \in Attempt \ {a} : attempt'[b] = attempt[b]
  <2>1. attempt[a].value \in 0..MaxChange
    BY DEF HubInv, HubShape, AttemptRow
  <2> QED BY <2>1, AttemptMoves DEF HubInv
<1>4. /\ inFlight' \in [Slot -> 0..MaxAttempt]
      /\ \A p \in Slot : inFlight'[p] # 0 => inFlight'[p] = wanted'[p]
  <2>1. CASE Land(a)
    BY <1>1, <2>1, LandLeaves
  <2>2. CASE UNCHANGED inFlight
    BY <1>1, <2>2 DEF HubInv, HubShape, StreamInv, AttemptsInOrder
  <2> QED BY <2>1, <2>2
<1>5. HubShape'
  BY <1>1, <1>3, <1>4 DEF HubInv, HubShape
<1>6. AttemptsInOrder'
  BY <1>1, <1>3, <1>4 DEF HubInv, StreamInv, AttemptsInOrder, Fresh
<1>7. \A p \in Slot : sub[p].id # 0 => attempt'[sub[p].id] = attempt[sub[p].id]
  BY <1>3, SubsAre DEF Fresh
<1>8. \A b \in Attempt : attempt'[b].at = "auditing" => feed'
  BY <1>1, <1>3 DEF HubInv, StreamInv, DarkIsEmpty
<1>9. StreamInv'
  BY <1>1, <1>6, <1>7, <1>8, SameStreams DEF HubInv, StreamInv
<1> QED BY <1>2, <1>5, <1>9 DEF HubInv

(* It makes the subscription, while the feed is read: one whose snapshot   *)
(* is still to be asked for, or of a tracker with all that was published.  *)
LEMMA CreatesKeeps ==
  ASSUME HubInv, NEW a \in Attempt, NEW p \in Slot, attempt[a].at \in {"authorizing", "auditing"},
         inFlight[p] = a, feed, Land(a), Creates(a, p),
         UNCHANGED <<source, link, logins, asked, wanted>>
  PROVE  HubInv'
<1> USE HubFacts
<1>1. UNCHANGED <<registry, bus, feed, seenLive, losses, socket, actor, verifying, perUser, allowed, asked, wanted>>
  BY DEF source, link, logins
<1>2. UsersCounted'
  BY <1>1 DEF HubInv, UsersCounted, OpenAs, As
<1>3. /\ inFlight' \in [Slot -> 0..MaxAttempt]
      /\ \A q \in Slot : inFlight'[q] # 0 => inFlight'[q] = wanted'[q]
  BY <1>1, LandLeaves
<1>4. /\ Fresh(a) /\ wanted[p] = a /\ a # 0 /\ a \in 0..MaxAttempt /\ a <= asked /\ tracker[a] = NoTracker
      /\ attempt[a].value \in 0..MaxChange /\ asked \in Nat
  <2>1. Fresh(a) /\ wanted[p] = a /\ attempt[a].at # "none"
    BY DEF Fresh, HubInv, StreamInv, AttemptsInOrder
  <2>2. a <= asked /\ asked \in Nat
    BY <2>1 DEF HubInv, HubShape, StreamInv, AttemptsInOrder, Attempt
  <2>3. attempt[a].value \in 0..MaxChange
    BY DEF HubInv, HubShape, AttemptRow
  <2> QED BY <2>1, <2>2, <2>3 DEF HubInv, StreamInv, AttemptsInOrder, Attempt
<1>5. sub[p] = NoSub /\ \A q \in Slot : sub[q].id # a
  <2>1. \A q \in Slot : sub[q].id # a
    BY <1>4, SubsAre
  <2>2. sub[p].id = 0
    BY <1>4, <2>1, SubsAre DEF SubOf
  <2> QED BY <2>1, <2>2, SubsAre
<1>6. PICK r : r = [NoSub EXCEPT !.id = a]
  OBVIOUS
<1>7. r \in SubRow /\ r.id = a /\ r.of = 0 /\ ~r.ready /\ r.late = 0 /\ r.view = 0
  BY <1>4, <1>6 DEF SubRow, NoSub
<1>8. ASSUME NEW q \in Slot \ {p}, sub'[q] = sub[q], NEW x \in {"reading", "done"},
             attempt'[a].at = x, \A b \in Attempt \ {a} : attempt'[b] = attempt[b],
             shared # 0 => shared' = shared /\ tracker' = tracker
      PROVE  SubOf(q)' /\ (sub'[q].ready => sub'[q].view >= bus) /\ CallsFed(q)'
  <2>1. /\ SubOf(q) /\ q[2] \in {"calls", "presence"} /\ sub[q].id # a
        /\ (sub[q].ready => sub[q].view >= bus) /\ CallsFed(q)
        /\ sub[q].id # 0 => sub[q].id \in Attempt
    BY <1>5, SubsAre DEF HubInv, StreamInv, AllFed
  <2>2. sub[q].id # 0 => attempt'[sub[q].id] = attempt[sub[q].id]
    BY <1>8, <2>1
  <2>3. SubOf(q)'
    BY <1>1, <1>8, <2>1, <2>2 DEF SubOf, Fresh
  <2> QED BY <1>1, <1>8, <2>1, <2>2, <2>3 DEF CallsFed
<1>9. CASE p[2] = "calls"
  <2>1. /\ sub' = [sub EXCEPT ![p] = r] /\ attempt' = [attempt EXCEPT ![a].at = "reading"]
        /\ UNCHANGED <<tracker, holders, shared>>
    BY <1>6, <1>9 DEF Creates
  <2>2. /\ attempt' \in [Attempt -> AttemptRow] /\ attempt'[a].at = "reading"
        /\ \A b \in Attempt \ {a} : attempt'[b] = attempt[b]
    BY <1>4, <2>1, AttemptMoves DEF HubInv
  <2>3. sub' \in [Slot -> SubRow] /\ sub'[p] = r /\ \A q \in Slot \ {p} : sub'[q] = sub[q]
    BY <1>7, <2>1 DEF HubInv, HubShape
  <2>4. HubShape'
    BY <1>1, <1>3, <2>1, <2>2, <2>3 DEF HubInv, HubShape
  <2>5. AttemptsInOrder'
    <3>1. \A b \in Attempt : (b > asked' => attempt'[b].at = "none") /\ (Fresh(b)' => tracker'[b] = NoTracker)
      BY <1>1, <1>4, <2>1, <2>2 DEF HubInv, StreamInv, AttemptsInOrder, Fresh
    <3> QED BY <1>3, <3>1 DEF AttemptsInOrder
  <2>6. TrackerHeld'
    <3>1. \A q \in Slot : sub'[q].of = sub[q].of
      BY <1>5, <1>7, <2>3
    <3> QED BY <2>1, <3>1, SameHolders DEF HubInv, StreamInv, TrackerHeld
  <2>7. SubOf(p)' /\ (sub'[p].ready => sub'[p].view >= bus) /\ CallsFed(p)'
    BY <1>1, <1>4, <1>7, <1>9, <2>2, <2>3 DEF SubOf, CallsFed, Fresh
  <2>8. \A q \in Slot : SubOf(q)' /\ (sub'[q].ready => sub'[q].view >= bus) /\ CallsFed(q)'
    BY <1>8, <2>1, <2>2, <2>3, <2>7
  <2>9. AllFed'
    BY <1>1, <2>1, <2>8 DEF AllFed, TrackerFed, HubInv, StreamInv
  <2>10. DarkIsEmpty'
    BY <1>1, <2>2 DEF DarkIsEmpty, HubInv, StreamInv
  <2> QED BY <1>1, <1>2, <2>4, <2>5, <2>6, <2>8, <2>9, <2>10, SubsAre DEF HubInv, StreamInv
<1>10. CASE p[2] # "calls"
  <2>0. PICK t : t = IF shared # 0 THEN shared ELSE a
    OBVIOUS
  <2>1. p[2] = "presence" /\ t \in Attempt /\ t # 0
    BY <1>10, <2>0, SubsAre
  <2>2. PICK loaded \in BOOLEAN : loaded <=> tracker[t].at = "loaded"
    OBVIOUS
  <2>3. PICK v : v = IF tracker[t].at = "loaded" THEN tracker[t].value ELSE 0
    OBVIOUS
  <2>4. /\ sub' = [sub EXCEPT ![p] = [NoSub EXCEPT !.id = a, !.of = t, !.ready = tracker[t].at = "loaded", !.view = v]]
        /\ shared' = t /\ holders' = [holders EXCEPT ![t] = @ + 1]
        /\ tracker' = IF shared # 0 THEN tracker ELSE [tracker EXCEPT ![a].at = "loading"]
        /\ attempt' = [attempt EXCEPT ![a].at = "done"]
    BY <1>10, <2>0, <2>3 DEF Creates
  <2>5. /\ attempt' \in [Attempt -> AttemptRow] /\ attempt'[a].at = "done"
        /\ \A b \in Attempt \ {a} : attempt'[b] = attempt[b]
    BY <1>4, <2>4, AttemptMoves DEF HubInv
  <2>6. /\ tracker' \in [Attempt -> TrackerRow]
        /\ \A b \in Attempt \ {t} : tracker'[b] = tracker[b]
        /\ shared # 0 => tracker' = tracker
        /\ shared = 0 => t = a /\ tracker'[t].at = "loading" /\ tracker'[t].late = 0 /\ tracker[t].at = "none"
    <3>1. CASE shared # 0
      BY <2>4, <3>1 DEF HubInv, HubShape
    <3>2. CASE shared = 0
      <4>1. /\ [tracker[a] EXCEPT !.at = "loading"] \in TrackerRow
            /\ [tracker[a] EXCEPT !.at = "loading"].at = "loading"
            /\ [tracker[a] EXCEPT !.at = "loading"].late = 0
        BY <1>4 DEF TrackerRow, NoTracker
      <4> QED BY <1>4, <2>0, <2>4, <3>2, <4>1 DEF HubInv, HubShape
    <3> QED BY <3>1, <3>2
  <2>7. tracker[t] \in TrackerRow /\ v \in 0..MaxChange
    BY <2>1, <2>3 DEF HubInv, HubShape, TrackerRow
  <2>8. loaded => shared # 0 /\ t = shared /\ v >= bus
    <3>1. ASSUME loaded PROVE shared # 0 /\ t = shared /\ v >= bus
      <4>1. shared # 0 /\ t = shared
        BY <2>0, <2>2, <2>6, <3>1
      <4>2. tracker[shared].late = 0 /\ tracker[shared].value >= bus
        BY <2>2, <3>1, <4>1 DEF HubInv, StreamInv, TrackerHeld, AllFed, TrackerFed
      <4> QED BY <2>2, <2>3, <3>1, <4>1, <4>2
    <3> QED BY <3>1
  <2>9. /\ sub' \in [Slot -> SubRow] /\ \A q \in Slot \ {p} : sub'[q] = sub[q]
        /\ sub'[p].id = a /\ sub'[p].of = t /\ (sub'[p].ready <=> loaded)
        /\ loaded => sub'[p].view = v
    <3>1. PICK q : q = [r EXCEPT !.of = t]
      OBVIOUS
    <3>2. q \in SubRow /\ q.id = a /\ q.of = t
      BY <1>7, <2>1, <3>1 DEF SubRow, Attempt
    <3>3. PICK w : w = [q EXCEPT !.ready = tracker[t].at = "loaded"]
      OBVIOUS
    <3>4. w \in SubRow /\ w.id = a /\ w.of = t /\ (w.ready <=> loaded)
      BY <2>2, <3>2, <3>3 DEF SubRow
    <3>5. PICK z : z = [w EXCEPT !.view = v]
      OBVIOUS
    <3>6. z \in SubRow /\ z.id = a /\ z.of = t /\ (z.ready <=> loaded) /\ z.view = v
      BY <2>7, <3>4, <3>5 DEF SubRow
    <3>7. [NoSub EXCEPT !.id = a, !.of = t, !.ready = tracker[t].at = "loaded", !.view = v] = z
      BY <1>6, <3>1, <3>3, <3>5
    <3>8. sub' = [sub EXCEPT ![p] = z]
      BY <2>4, <3>7
    <3> QED BY <3>6, <3>8 DEF HubInv, HubShape
  <2>10. holders' \in [Attempt -> Nat] /\ holders'[t] = holders[t] + 1
         /\ \A b \in Attempt \ {t} : holders'[b] = holders[b]
    BY <2>1, <2>4 DEF HubInv, HubShape
  <2>11. HubShape'
    <3>1. shared' \in 0..MaxAttempt
      BY <2>1, <2>4 DEF Attempt
    <3> QED BY <1>1, <1>3, <2>5, <2>6, <2>9, <2>10, <3>1 DEF HubInv, HubShape
  <2>12. AttemptsInOrder'
    <3>1. \A b \in Attempt : Fresh(b)' => Fresh(b) /\ b # t
      BY <2>0, <2>5, SubsAre DEF Fresh
    <3>2. \A b \in Attempt : Fresh(b)' => tracker'[b] = NoTracker
      BY <2>6, <3>1 DEF HubInv, StreamInv, AttemptsInOrder
    <3>3. \A b \in Attempt : b > asked' => attempt'[b].at = "none"
      BY <1>1, <1>4, <2>5 DEF HubInv, StreamInv, AttemptsInOrder
    <3> QED BY <1>3, <3>2, <3>3 DEF AttemptsInOrder
  <2>13. TrackerHeld'
    <3>0. sub[p].of = 0 /\ \A b \in Attempt : b # 0
      <4>1. \A b \in Attempt : b # 0
        OBVIOUS
      <4>2. NoSub.of = 0
        OBVIOUS
      <4> QED BY <1>5, <4>1, <4>2
    <3>1. Users(t)' = Users(t) \cup {p} /\ p \notin Users(t)
      <4>1. \A q \in Slot : sub'[q].of = t <=> q = p \/ sub[q].of = t
        BY <2>9
      <4> QED BY <2>1, <3>0, <4>1 DEF Users
    <3>2. ASSUME NEW b \in Attempt \ {t} PROVE Users(b)' = Users(b)
      <4>1. \A q \in Slot : sub'[q].of = b <=> sub[q].of = b
        <5>1. sub'[p].of # b /\ sub[p].of # b
          BY <2>9, <3>0
        <5> QED BY <2>9, <5>1
      <4> QED BY <4>1 DEF Users
    <3>3. Cardinality(Users(t) \cup {p}) = Cardinality(Users(t)) + 1
      BY <3>1, UsersAreFinite, FS_AddElement
    <3>4. \A b \in Attempt : holders'[b] = Cardinality(Users(b)')
      BY <2>10, <3>1, <3>2, <3>3 DEF HubInv, StreamInv, TrackerHeld
    <3>5. holders'[t] # 0
      BY <2>1, <2>10 DEF HubInv, HubShape
    <3>6. /\ tracker'[t].at \in {"loading", "read", "loaded"}
          /\ tracker'[t].at = "loaded" => tracker'[t].late = 0
      BY <2>0, <2>6 DEF HubInv, StreamInv, TrackerHeld
    <3> QED BY <2>4, <3>4, <3>5, <3>6 DEF TrackerHeld
  <2>14. SubOf(p)' /\ (sub'[p].ready => sub'[p].view >= bus) /\ CallsFed(p)'
    <3>1. loaded <=> tracker'[t].at = "loaded"
      BY <2>2, <2>6
    <3> QED BY <1>1, <1>4, <2>1, <2>4, <2>5, <2>8, <2>9, <3>1 DEF SubOf, CallsFed, Fresh
  <2>15. \A q \in Slot : SubOf(q)' /\ (sub'[q].ready => sub'[q].view >= bus) /\ CallsFed(q)'
    BY <1>8, <2>0, <2>4, <2>5, <2>6, <2>9, <2>14
  <2>16. AllFed'
    <3>1. TrackerFed'
      BY <1>1, <2>0, <2>4, <2>6 DEF TrackerFed, HubInv, StreamInv, AllFed
    <3> QED BY <1>1, <2>15, <3>1 DEF AllFed
  <2>17. DarkIsEmpty'
    BY <1>1, <2>5 DEF DarkIsEmpty, HubInv, StreamInv
  <2> QED BY <1>1, <1>2, <2>11, <2>12, <2>13, <2>15, <2>16, <2>17, SubsAre DEF HubInv, StreamInv
<1> QED BY <1>9, <1>10

LEMMA AuthorizedKeeps == \A a \in Attempt : HubInv /\ Authorized(a) => HubInv'
<1> SUFFICES ASSUME NEW a \in Attempt, HubInv, Authorized(a) PROVE HubInv'
  OBVIOUS
<1>1. attempt[a].at = "authorizing" /\ UNCHANGED <<source, link, logins, asked, wanted>>
  BY DEF Authorized
<1>2. PICK p \in Slot : p = attempt[a].slot
  BY DEF HubInv, HubShape, AttemptRow
<1>3. CASE GivesUp(a) /\ (Land(a) \/ UNCHANGED inFlight)
  <2>1. PICK x \in {"auditing", "done"} : x = "done"
    OBVIOUS
  <2> QED BY <1>1, <1>3, <2>1, GoesOn DEF GivesUp
<1>4. CASE feed /\ attempt' = [attempt EXCEPT ![a].at = "auditing"] /\ UNCHANGED <<streams, inFlight>>
  <2>1. PICK x \in {"auditing", "done"} : x = "auditing"
    OBVIOUS
  <2> QED BY <1>1, <1>4, <2>1, GoesOn
<1>5. CASE Current(a) /\ feed /\ Land(a) /\ Creates(a, p)
  <2>1. inFlight[p] = a
    BY <1>2, <1>5 DEF Current
  <2> QED BY <1>1, <1>5, <2>1, CreatesKeeps
<1> QED BY <1>2, <1>3, <1>4, <1>5 DEF Authorized

LEMMA AuditedKeeps == \A a \in Attempt : HubInv /\ Audited(a) => HubInv'
<1> SUFFICES ASSUME NEW a \in Attempt, HubInv, Audited(a) PROVE HubInv'
  OBVIOUS
<1>1. attempt[a].at = "auditing" /\ UNCHANGED <<source, link, logins, asked, wanted>>
  BY DEF Audited
<1>2. PICK p \in Slot : p = attempt[a].slot
  BY DEF HubInv, HubShape, AttemptRow
<1>3. CASE Land(a) /\ GivesUp(a)
  <2>1. PICK x \in {"auditing", "done"} : x = "done"
    OBVIOUS
  <2> QED BY <1>1, <1>3, <2>1, GoesOn DEF GivesUp
<1>4. CASE Current(a) /\ Land(a) /\ Creates(a, p)
  <2>1. inFlight[p] = a /\ feed
    BY <1>1, <1>2, <1>4 DEF Current, HubInv, StreamInv, DarkIsEmpty
  <2> QED BY <1>1, <1>4, <2>1, CreatesKeeps
<1> QED BY <1>2, <1>3, <1>4 DEF Audited

-----------------------------------------------------------------------------
LEMMA HubStep == Prompt /\ ~Blips /\ HubInv /\ [HubNext]_hubVars => HubInv'
<1> SUFFICES ASSUME Prompt, ~Blips, HubInv, [HubNext]_hubVars PROVE HubInv'
  OBVIOUS
<1>1. CASE UNCHANGED hubVars
  <2>1. UNCHANGED <<registry, bus, feed, seenLive, losses, socket, actor, verifying, perUser, allowed, asked,
                    attempt, inFlight, wanted, sub, tracker, holders, shared>>
    BY <1>1 DEF hubVars, source, link, logins, attempts, streams
  <2>2. HubShape'
    BY <2>1 DEF HubInv, HubShape
  <2>3. UsersCounted'
    BY <2>1 DEF HubInv, UsersCounted, OpenAs, As
  <2> QED BY <1>1, <2>2, <2>3, LoginKeeps DEF hubVars
<1>2. CASE Write \/ Publish \/ FeedStarts \/ FeedLost \/ Watch
  BY <1>2, WriteKeeps, PublishKeeps, FeedStartsKeeps, FeedLostKeeps, WatchKeeps
<1>3. ASSUME NEW c \in Conn, ClientStep(c) \/ Verified(c) PROVE HubInv'
  <2>1. \A p \in Of(c) : p \in Slot
    BY DEF Of
  <2> QED BY <1>3, <2>1, AcceptKeeps, ClosedKeeps, AuthenticateKeeps, SubscribeKeeps, UnsubscribeKeeps, VerifiedKeeps
          DEF ClientStep
<1>4. ASSUME NEW u \in User, Revoke(u) PROVE HubInv'
  BY <1>4, RevokeKeeps
<1>5. ASSUME NEW a \in Attempt, AttemptStep(a) PROVE HubInv'
  BY <1>5, AuthorizedKeeps, AuditedKeeps, ReadsKeeps, SnapshotKeeps, TrackerReadsKeeps, TrackerLoadsKeeps,
     TrackerFailsKeeps DEF AttemptStep
<1>6. ASSUME NEW p \in Slot, Recheck(p) PROVE HubInv'
  BY <1>6, RecheckKeeps
<1> QED BY <1>1, <1>2, <1>3, <1>4, <1>5, <1>6 DEF HubNext

LEMMA HubImplies == HubInv => HubConsistent
<1> SUFFICES ASSUME HubInv PROVE HubConsistent
  OBVIOUS
<1> USE HubFacts
<1>1. HubTypeOK
  <2>1. perUser \in [User -> 0..Cardinality(Conn)]
    <3>1. ASSUME NEW u \in User PROVE perUser[u] \in 0..Cardinality(Conn)
      <4>1. perUser[u] \in Nat /\ perUser[u] <= Cardinality(As(u))
        BY DEF HubInv, HubShape, UsersCounted
      <4>2. Cardinality(As(u)) <= Cardinality(Conn)
        BY HubAssumption, FS_Subset DEF HubAssumption, As
      <4>3. Cardinality(As(u)) \in Nat /\ Cardinality(Conn) \in Nat
        BY HubAssumption, CountsFinite, FS_CardinalityType DEF HubAssumption, CountsAreFinite
      <4> QED BY <4>1, <4>2, <4>3
    <3> QED BY <3>1 DEF HubInv, HubShape
  <2>2. holders \in [Attempt -> 0..Cardinality(Slot)]
    <3>1. ASSUME NEW a \in Attempt PROVE holders[a] \in 0..Cardinality(Slot)
      <4>1. holders[a] = Cardinality(Users(a)) /\ Cardinality(Users(a)) \in Nat
        BY UsersAreFinite DEF HubInv, StreamInv, TrackerHeld
      <4>2. Cardinality(Users(a)) <= Cardinality(Slot)
        BY UsersAreFinite, FS_Subset
      <4>3. Cardinality(Slot) \in Nat
        BY FS_CardinalityType
      <4> QED BY <4>1, <4>2, <4>3
    <3> QED BY <3>1 DEF HubInv, HubShape
  <2> QED BY <2>1, <2>2 DEF HubInv, HubShape, HubTypeOK, AttemptRow, SubRow, TrackerRow
<1>2. StreamsMissNothing
  BY DEF HubInv, StreamInv, AllFed, StreamsMissNothing
<1>3. TrackersHeld
  <2>1. \A p \in Slot : p[2] = "presence" /\ sub[p].id # 0 => sub[p].of = shared
    BY SubsAre DEF SubOf
  <2> QED BY <2>1 DEF HubInv, StreamInv, TrackerHeld, TrackersHeld, Users
<1>4. OnlyTheLastAsked
  BY SubsAre DEF SubOf, OnlyTheLastAsked
<1>5. UserLimitHolds
  <2> SUFFICES ASSUME NEW u \in User PROVE Cardinality(OpenAs(u)) <= MaxPerUser
    BY DEF UserLimitHolds, OpenAs
  <2> QED BY CountsFinite DEF CountsAreFinite, HubInv, HubShape, UsersCounted
<1> QED BY <1>1, <1>2, <1>3, <1>4, <1>5 DEF HubConsistent

(* However logins, subscribes, unsubscribes, loads, cuts and events come   *)
(* together: while the feed is live, no client that has had its snapshot   *)
(* is behind it, a tracker in use is the one events go to, a subscription  *)
(* is that of the last subscribe not taken back, and no user has more      *)
(* connections than allowed (api-gateway, realtime/hub.ts).                *)
THEOREM HubConsistentHolds == Prompt /\ ~Blips /\ HubSpec => []HubConsistent
<1> SUFFICES ASSUME Prompt, ~Blips PROVE HubSpec => []HubConsistent
  OBVIOUS
<1>1. HubInv /\ [HubNext]_hubVars => HubInv'
  BY HubStep
<1> QED BY <1>1, HubStarts, HubImplies, PTL DEF HubSpec

-----------------------------------------------------------------------------
(* Live views.  Every event changes one leg, and what it changes of the    *)
(* view, of the client and of the lights are those of that leg and of the  *)
(* legs it is bridged to, which are known.                                 *)

(* A leg is bridged to none, or to one an event has named.                 *)
BridgedAreNamed ==
  \A l \in Known : legs[l].bridgedTo # NoLeg => legs[legs[l].bridgedTo] # Unknown

ViewsInv == ViewsAgree /\ BridgedAreNamed

LEMMA StatesDiffer ==
  /\ \A s \in LegState : s # Unknown /\ s # Over
  /\ Unknown # Over
<1>1. Unknown.state = "unknown" /\ Over.state = "over"
  BY DEF Unknown, Over
<1> QED BY <1>1 DEF LegState

LEMMA KnownAreLegs ==
  ASSUME ViewsTypeOK PROVE \A l \in Leg : l \in Known <=> legs[l] \in LegState
  BY StatesDiffer DEF ViewsTypeOK, Known

(* What an extension shows depends on the legs on it alone.                *)
LEMMA StateOfItsLegs ==
  ASSUME NEW ls, NEW ks, NEW s, NEW x, \A l \in Leg : OnExtension[l] = x => ks[l] = ls[l]
  PROVE  StateOf(ks, s, x) = StateOf(ls, s, x)
<1> DEFINE on(m) == {l \in Leg : OnExtension[l] = x /\ m[l] \notin {Unknown, Over}}
<1>1. on(ks) = on(ls) /\ \A l \in on(ls) : ks[l] = ls[l]
  OBVIOUS
<1>2. (\E l \in on(ks) : ks[l].state # "ringing" \/ l \notin Placed)
        <=> (\E l \in on(ls) : ls[l].state # "ringing" \/ l \notin Placed)
  BY <1>1
<1>3. (\A l \in on(ks) : ks[l].state = "ringing" /\ l \in Placed)
        <=> (\A l \in on(ls) : ls[l].state = "ringing" /\ l \in Placed)
  BY <1>1
<1> QED BY <1>1, <1>2, <1>3 DEF StateOf

LEMMA StateOfIsPresence == \A ls, s, x : StateOf(ls, s, x) \in Presence
  BY DEF StateOf, Presence

LEMMA ViewsStart == ViewsInit => ViewsInv
<1> SUFFICES ASSUME ViewsInit PROVE ViewsInv
  OBVIOUS
<1>1. Known = {}
  BY DEF ViewsInit, Known
<1>2. ViewsTypeOK
  BY DEF ViewsInit, ViewsTypeOK, Presence
<1>3. ViewIsComplete
  BY <1>1 DEF ViewsInit, ViewIsComplete, Loaded
<1>4. ClientAgrees
  BY DEF ViewsInit, ClientAgrees
<1>5. PresenceAgrees
  <2> SUFFICES ASSUME NEW x \in Extension PROVE StateOf(legs, status, x) = "idle"
    BY DEF ViewsInit, PresenceAgrees
  <2>1. {l \in Leg : OnExtension[l] = x /\ legs[l] \notin {Unknown, Over}} = {}
    BY <1>1 DEF Known
  <2>2. status[x].registered /\ ~status[x].dnd
    BY DEF ViewsInit
  <2> QED BY <2>1, <2>2 DEF StateOf
<1> QED BY <1>1, <1>2, <1>3, <1>4, <1>5 DEF ViewsInv, ViewsAgree, BridgedAreNamed

(* The leg an event is about is the only one it changes, and no other's    *)
(* extension can show anything else for it.                                *)
LEMMA LightsKeep ==
  ASSUME ViewsTypeOK, PresenceAgrees, NEW l \in Leg, \A k \in Leg \ {l} : legs'[k] = legs[k],
         Lights(l), UNCHANGED status
  PROVE  PresenceAgrees' /\ lights' \in [Extension -> Presence]
<1>1. \A x \in Extension : StateOf(legs, status, x)' = StateOf(legs', status, x)
  BY DEF StateOf
<1>2. ASSUME NEW x \in Extension PROVE lights'[x] = StateOf(legs', status, x)
  <2>1. CASE x = OnExtension[l]
    BY <2>1 DEF Lights
  <2>2. CASE x # OnExtension[l]
    <3>1. \A k \in Leg : OnExtension[k] = x => legs'[k] = legs[k]
      BY <2>2
    <3>2. StateOf(legs', status, x) = StateOf(legs, status, x)
      BY <3>1, StateOfItsLegs
    <3> QED BY <2>2, <3>2 DEF Lights, PresenceAgrees
  <2> QED BY <2>1, <2>2
<1>3. lights' \in [Extension -> Presence]
  BY StateOfIsPresence DEF Lights, ViewsTypeOK
<1> QED BY <1>1, <1>2, <1>3 DEF PresenceAgrees

(* A client that agreed agrees when it is shown what is new and what       *)
(* changed.                                                                *)
LEMMA ShowsKeep ==
  ASSUME ViewsTypeOK, ViewIsComplete, ClientAgrees, NEW l \in Leg, NEW new, new \subseteq Known',
         legs' \in [Leg -> LegState \cup {Unknown, Over}], Known \subseteq Known',
         \A k \in Leg \ {l} : legs'[k] = legs[k], Shows(new, {l})
  PROVE  ClientAgrees' /\ shown' \subseteq Known' /\ client' \in [Leg -> LegState \cup {Unknown}]
<1>1. shown' = shown \cup new /\ shown' \subseteq Known'
  BY DEF Shows, ViewIsComplete
<1>2. ASSUME NEW k \in Leg PROVE client'[k] = IF k \in shown' THEN legs'[k] ELSE Unknown
  <2>1. client'[k] = IF k \in (new \ shown) \cup ({l} \cap (shown \cup new)) THEN legs'[k] ELSE client[k]
    BY DEF Shows
  <2>2. client[k] = IF k \in shown THEN legs[k] ELSE Unknown
    BY DEF ClientAgrees
  <2> QED BY <1>1, <2>1, <2>2
<1>3. ClientAgrees'
  BY <1>2 DEF ClientAgrees, Shows
<1>4. \A k \in Known' : legs'[k] \in LegState
  BY DEF Known
<1>5. client' \in [Leg -> LegState \cup {Unknown}]
  BY <1>1, <1>2, <1>4 DEF Shows
<1> QED BY <1>1, <1>3, <1>5

LEMMA ViewsStep == ~Unnamed /\ ViewsInv /\ [ViewsNext]_viewVars => ViewsInv'
<1> SUFFICES ASSUME ~Unnamed, ViewsInv, [ViewsNext]_viewVars PROVE ViewsInv'
  OBVIOUS
<1> USE DEF ViewsInv, ViewsAgree
<1>0. ViewsAssumption
  BY ViewsAssumption
<1>1. ASSUME NEW l \in Leg, NEW s \in LegState, Starts(l, s) PROVE ViewsInv'
  <2>1. legs' = [legs EXCEPT ![l] = s] /\ legs[l] = Unknown /\ ~s.queue /\ s.bridgedTo \in Known \cup {NoLeg}
    BY <1>1 DEF Starts
  <2>2. legs' \in [Leg -> LegState \cup {Unknown, Over}] /\ \A k \in Leg \ {l} : legs'[k] = legs[k]
    BY <2>1 DEF ViewsTypeOK
  <2>3. legs'[l] = s /\ Known' = Known \cup {l} /\ l \notin Known
    BY <2>1, StatesDiffer DEF Known, ViewsTypeOK
  <2> DEFINE other == {k \in Known : k = s.bridgedTo}
             new == IF Owns(legs', l) THEN {l} \cup other
                    ELSE IF \E k \in other : k \in shown /\ Owns(legs, k) THEN {l} ELSE {}
  <2>4. Shows(new, {l})
    BY <1>1 DEF Starts
  <2>5. new \subseteq Known'
    BY <2>3
  <2>6. BridgedAreNamed'
    <3> SUFFICES ASSUME NEW k \in Known', legs'[k].bridgedTo # NoLeg
                 PROVE  legs'[legs'[k].bridgedTo] # Unknown
      BY DEF BridgedAreNamed
    <3>1. CASE k = l
      <4>1. s.bridgedTo \in Known /\ s.bridgedTo # l
        BY <2>1, <2>3, <3>1
      <4> QED BY <2>2, <2>3, <3>1, <4>1 DEF Known
    <3>2. CASE k # l
      <4>1. k \in Known /\ legs'[k] = legs[k] /\ legs[legs[k].bridgedTo] # Unknown
        BY <2>2, <2>3, <3>2 DEF BridgedAreNamed, Known
      <4>2. legs[k].bridgedTo \in Leg
        BY <4>1, KnownAreLegs, <3>2 DEF Known, LegState
      <4> QED BY <2>1, <2>2, <4>1, <4>2
    <3> QED BY <3>1, <3>2
  <2>7. Loaded' \subseteq shown'
    <3> SUFFICES ASSUME NEW j \in Loaded' PROVE j \in shown'
      OBVIOUS
    <3>1. shown' = shown \cup new
      BY <2>4 DEF Shows
    <3>2. \A k \in Known : Owns(legs', k) <=> Owns(legs, k)
      BY <2>2, <2>3 DEF Owns, Known
    <3>3. CASE j \in Known' /\ Owns(legs', j)
      <4>1. CASE j = l
        BY <3>1, <3>3, <4>1
      <4>2. CASE j # l
        <5>1. j \in Known /\ Owns(legs, j)
          BY <2>3, <3>2, <3>3, <4>2
        <5> QED BY <3>1, <5>1 DEF Loaded, ViewIsComplete
      <4> QED BY <4>1, <4>2
    <3>4. CASE \E k \in Known' : Owns(legs', k) /\ j \in Known' /\ (legs'[k].bridgedTo = j \/ legs'[j].bridgedTo = k)
      <4>1. PICK k \in Known' : Owns(legs', k) /\ j \in Known' /\ (legs'[k].bridgedTo = j \/ legs'[j].bridgedTo = k)
        BY <3>4
      <4>2. \A m \in Known : legs'[m] = legs[m] /\ legs[m].bridgedTo # l
        <5> SUFFICES ASSUME NEW m \in Known PROVE legs'[m] = legs[m] /\ legs[m].bridgedTo # l
          OBVIOUS
        <5>1. legs'[m] = legs[m]
          BY <2>2, <2>3 DEF Known
        <5>2. legs[m].bridgedTo # l
          BY <1>0, <2>1 DEF BridgedAreNamed, ViewsAssumption
        <5> QED BY <5>1, <5>2
      <4>3. CASE k = l
        <5>1. CASE j = l
          BY <3>1, <4>1, <4>3, <5>1
        <5>2. CASE j # l
          <6>1. j \in Known /\ j = s.bridgedTo
            BY <2>3, <4>1, <4>2, <4>3, <5>2
          <6> QED BY <3>1, <4>1, <4>3, <6>1
        <5> QED BY <5>1, <5>2
      <4>4. CASE k # l
        <5>1. k \in Known /\ Owns(legs, k)
          BY <2>3, <3>2, <4>1, <4>4
        <5>2. k \in shown
          BY <5>1 DEF Loaded, ViewIsComplete
        <5>3. CASE j = l
          <6>1. s.bridgedTo = k
            BY <2>3, <4>1, <4>2, <5>1, <5>3
          <6>2. l \in new
            BY <5>1, <5>2, <6>1
          <6> QED BY <3>1, <5>3, <6>2
        <5>4. CASE j # l
          <6>1. j \in Known /\ (legs[k].bridgedTo = j \/ legs[j].bridgedTo = k)
            BY <2>3, <4>1, <4>2, <5>1, <5>4
          <6> QED BY <3>1, <5>1, <6>1 DEF Loaded, Halves, ViewIsComplete
        <5> QED BY <5>3, <5>4
      <4> QED BY <4>3, <4>4
    <3> QED BY <3>3, <3>4 DEF Loaded, Halves
  <2> HIDE DEF new
  <2>8. ClientAgrees' /\ shown' \subseteq Known' /\ client' \in [Leg -> LegState \cup {Unknown}]
    BY <2>2, <2>3, <2>4, <2>5, ShowsKeep
  <2>9. PresenceAgrees' /\ lights' \in [Extension -> Presence] /\ UNCHANGED status
    BY <1>1, <2>2, LightsKeep DEF Starts
  <2>10. shown' \in SUBSET Leg
    BY <2>8 DEF Known
  <2> QED BY <2>2, <2>6, <2>7, <2>8, <2>9, <2>10 DEF ViewsTypeOK, ViewIsComplete
<1>2. ASSUME NEW l \in Known, NEW s \in LegState, legs' = [legs EXCEPT ![l] = s],
             s.bridgedTo \in Known \cup {NoLeg, legs[l].bridgedTo}
      PROVE  /\ legs' \in [Leg -> LegState \cup {Unknown, Over}] /\ \A k \in Leg \ {l} : legs'[k] = legs[k]
             /\ legs'[l] = s /\ Known' = Known /\ BridgedAreNamed'
  <2>1. l \in Leg
    BY DEF Known
  <2>2. legs' \in [Leg -> LegState \cup {Unknown, Over}] /\ (\A k \in Leg \ {l} : legs'[k] = legs[k]) /\ legs'[l] = s
    BY <1>2, <2>1 DEF ViewsTypeOK
  <2>3. Known' = Known
    BY <2>1, <2>2, StatesDiffer DEF Known
  <2>4. \A k \in Leg : legs[k] # Unknown => legs'[k] # Unknown
    BY <2>1, <2>2, StatesDiffer
  <2>5. BridgedAreNamed'
    <3> SUFFICES ASSUME NEW k \in Known, legs'[k].bridgedTo # NoLeg
                 PROVE  legs'[legs'[k].bridgedTo] # Unknown
      BY <2>3 DEF BridgedAreNamed
    <3>1. legs'[k].bridgedTo \in Leg
      BY <2>3, <2>2, KnownAreLegs, StatesDiffer DEF Known, LegState
    <3>2. legs[legs'[k].bridgedTo] # Unknown
      BY <1>2, <2>2 DEF BridgedAreNamed, Known
    <3> QED BY <2>4, <3>1, <3>2
  <2> QED BY <2>2, <2>3, <2>5
<1>3. ASSUME NEW l \in Known, Answers(l) PROVE ViewsInv'
  <2> DEFINE s == [legs[l] EXCEPT !.state = "up"]
  <2>1. l \in Leg /\ legs[l] \in LegState
    BY KnownAreLegs DEF Known
  <2>2. s \in LegState /\ s.bridgedTo = legs[l].bridgedTo /\ s.queue = legs[l].queue
    BY <2>1 DEF LegState
  <2>3. legs' = [legs EXCEPT ![l] = s]
    BY <1>3 DEF Answers
  <2> HIDE DEF s
  <2>4. /\ legs' \in [Leg -> LegState \cup {Unknown, Over}] /\ \A k \in Leg \ {l} : legs'[k] = legs[k]
        /\ legs'[l] = s /\ Known' = Known /\ BridgedAreNamed'
    BY <1>2, <2>2, <2>3
  <2>5. Shows({}, {l}) /\ Lights(l) /\ UNCHANGED status
    BY <1>3 DEF Answers
  <2>6. ClientAgrees' /\ shown' \subseteq Known' /\ client' \in [Leg -> LegState \cup {Unknown}]
    <3> DEFINE none == {}
    <3>1. none \subseteq Known' /\ Known \subseteq Known' /\ Shows(none, {l})
      BY <2>4, <2>5
    <3> HIDE DEF none
    <3> QED BY <2>1, <2>4, <2>5, <3>1, ShowsKeep
  <2>7. PresenceAgrees' /\ lights' \in [Extension -> Presence]
    BY <2>1, <2>4, <2>5, LightsKeep
  <2>8. \A k \in Known : legs'[k].bridgedTo = legs[k].bridgedTo /\ (Owns(legs', k) <=> Owns(legs, k))
    BY <2>2, <2>4 DEF Owns, Known
  <2>9. Loaded' \subseteq shown'
    BY <2>4, <2>5, <2>8 DEF Loaded, Halves, Shows, ViewIsComplete
  <2> QED BY <2>4, <2>5, <2>6, <2>7, <2>9 DEF ViewsTypeOK, ViewIsComplete, Known
<1>4. ASSUME NEW l \in Known, NEW k \in Known, l # k, Bridges(l, k) PROVE ViewsInv'
  <2> DEFINE s == [legs[l] EXCEPT !.bridgedTo = k]
             new == (IF Owns(legs, l) THEN {k} ELSE {}) \cup (IF Owns(legs, k) THEN {l} ELSE {})
  <2>1. l \in Leg /\ legs[l] \in LegState /\ k \in Leg
    BY KnownAreLegs DEF Known
  <2>2. s \in LegState /\ s.bridgedTo = k /\ s.queue = legs[l].queue
    BY <2>1 DEF LegState
  <2>3. legs' = [legs EXCEPT ![l] = s]
    BY <1>4 DEF Bridges
  <2>4. Shows(new, {l}) /\ Lights(l) /\ UNCHANGED status
    BY <1>4 DEF Bridges
  <2> HIDE DEF s
  <2>5. /\ legs' \in [Leg -> LegState \cup {Unknown, Over}] /\ \A m \in Leg \ {l} : legs'[m] = legs[m]
        /\ legs'[l] = s /\ Known' = Known /\ BridgedAreNamed'
    BY <1>2, <2>2, <2>3
  <2>6. new \subseteq Known'
    BY <2>5
  <2>7. ClientAgrees' /\ shown' \subseteq Known' /\ client' \in [Leg -> LegState \cup {Unknown}]
    BY <2>1, <2>4, <2>5, <2>6, ShowsKeep
  <2>8. PresenceAgrees' /\ lights' \in [Extension -> Presence]
    BY <2>1, <2>4, <2>5, LightsKeep
  <2>9. \A m \in Known : (m # l => legs'[m].bridgedTo = legs[m].bridgedTo) /\ (Owns(legs', m) <=> Owns(legs, m))
    BY <2>2, <2>5 DEF Owns, Known
  <2>10. Loaded' \subseteq shown'
    <3> SUFFICES ASSUME NEW j \in Loaded' PROVE j \in shown'
      OBVIOUS
    <3>1. shown' = shown \cup new
      BY <2>4 DEF Shows
    <3>2. CASE j \in Known /\ Owns(legs, j)
      BY <3>1, <3>2 DEF Loaded, ViewIsComplete
    <3>3. CASE \E m \in Known : Owns(legs, m) /\ j \in Known /\ (legs'[m].bridgedTo = j \/ legs'[j].bridgedTo = m)
      <4>1. PICK m \in Known : Owns(legs, m) /\ j \in Known /\ (legs'[m].bridgedTo = j \/ legs'[j].bridgedTo = m)
        BY <3>3
      <4>2. CASE (m = l /\ j = k) \/ (m = k /\ j = l)
        BY <3>1, <4>1, <4>2
      <4>3. CASE ~((m = l /\ j = k) \/ (m = k /\ j = l))
        <5>1. legs[m].bridgedTo = j \/ legs[j].bridgedTo = m
          BY <2>2, <2>5, <2>9, <4>1, <4>3
        <5> QED BY <3>1, <4>1, <5>1 DEF Loaded, Halves, ViewIsComplete
      <4> QED BY <4>2, <4>3
    <3> QED BY <2>5, <2>9, <3>2, <3>3 DEF Loaded, Halves
  <2> HIDE DEF new
  <2> QED BY <2>4, <2>5, <2>7, <2>8, <2>10 DEF ViewsTypeOK, ViewIsComplete, Known
<1>5. ASSUME NEW l \in Known, NEW q \in BOOLEAN, Queued(l, q) PROVE ViewsInv'
  <2> DEFINE s == [legs[l] EXCEPT !.queue = q]
             new == IF Owns(legs', l) THEN {l} \cup Halves(legs, l) ELSE {}
  <2>1. l \in Leg /\ legs[l] \in LegState
    BY KnownAreLegs DEF Known
  <2>2. s \in LegState /\ s.bridgedTo = legs[l].bridgedTo
    BY <2>1 DEF LegState
  <2>3. legs' = [legs EXCEPT ![l] = s]
    BY <1>5 DEF Queued
  <2>4. Shows(new, {l}) /\ Lights(l) /\ UNCHANGED status
    BY <1>5 DEF Queued
  <2> HIDE DEF s
  <2>5. /\ legs' \in [Leg -> LegState \cup {Unknown, Over}] /\ \A m \in Leg \ {l} : legs'[m] = legs[m]
        /\ legs'[l] = s /\ Known' = Known /\ BridgedAreNamed'
    BY <1>2, <2>2, <2>3
  <2>6. new \subseteq Known'
    BY <2>5 DEF Halves
  <2>7. ClientAgrees' /\ shown' \subseteq Known' /\ client' \in [Leg -> LegState \cup {Unknown}]
    BY <2>1, <2>4, <2>5, <2>6, ShowsKeep
  <2>8. PresenceAgrees' /\ lights' \in [Extension -> Presence]
    BY <2>1, <2>4, <2>5, LightsKeep
  <2>9. \A m \in Known : legs'[m].bridgedTo = legs[m].bridgedTo /\ (m # l => (Owns(legs', m) <=> Owns(legs, m)))
    BY <2>2, <2>5 DEF Owns, Known
  <2>10. Loaded' \subseteq shown'
    <3> SUFFICES ASSUME NEW j \in Loaded' PROVE j \in shown'
      OBVIOUS
    <3>1. shown' = shown \cup new
      BY <2>4 DEF Shows
    <3>2. PICK m \in Known : /\ Owns(legs', m) /\ j \in Known
                             /\ j = m \/ legs[m].bridgedTo = j \/ legs[j].bridgedTo = m
      BY <2>5, <2>9 DEF Loaded, Halves
    <3>3. CASE m = l
      BY <3>1, <3>2, <3>3 DEF Halves
    <3>4. CASE m # l
      <4>1. Owns(legs, m)
        BY <2>9, <3>2, <3>4
      <4> QED BY <3>1, <3>2, <4>1 DEF Loaded, Halves, ViewIsComplete
    <3> QED BY <3>3, <3>4
  <2> HIDE DEF new
  <2> QED BY <2>4, <2>5, <2>7, <2>8, <2>10 DEF ViewsTypeOK, ViewIsComplete, Known
<1>6. ASSUME NEW l \in Known, Ends(l) PROVE ViewsInv'
  <2>1. l \in Leg /\ legs' = [legs EXCEPT ![l] = Over] /\ shown' = shown \ {l}
        /\ client' = [client EXCEPT ![l] = Unknown] /\ Lights(l) /\ UNCHANGED status
    BY <1>6 DEF Ends, Known
  <2>2. /\ legs' \in [Leg -> LegState \cup {Unknown, Over}] /\ (\A m \in Leg \ {l} : legs'[m] = legs[m])
        /\ legs'[l] = Over
    BY <2>1 DEF ViewsTypeOK
  <2>3. Known' = Known \ {l} /\ \A m \in Known' : m \in Leg /\ m \in Known /\ legs'[m] = legs[m]
    BY <2>1, <2>2 DEF Known
  <2>4. BridgedAreNamed'
    <3> SUFFICES ASSUME NEW k \in Known', legs[k].bridgedTo # NoLeg PROVE legs'[legs[k].bridgedTo] # Unknown
      BY <2>3 DEF BridgedAreNamed
    <3>1. legs[k].bridgedTo \in Leg /\ legs[legs[k].bridgedTo] # Unknown
      BY <2>3, KnownAreLegs DEF BridgedAreNamed, LegState
    <3> QED BY <2>2, <3>1, StatesDiffer
  <2>5. PresenceAgrees' /\ lights' \in [Extension -> Presence]
    BY <2>1, <2>2, LightsKeep
  <2>6. Loaded' \subseteq shown' /\ shown' \subseteq Known'
    <3>1. \A m \in Known' : Owns(legs', m) <=> Owns(legs, m)
      BY <2>3 DEF Owns
    <3>2. l \notin Loaded' /\ Loaded' \subseteq Loaded
      BY <2>3, <3>1 DEF Loaded, Halves
    <3> QED BY <2>1, <2>3, <3>2 DEF ViewIsComplete
  <2>7. ClientAgrees' /\ client' \in [Leg -> LegState \cup {Unknown}]
    <3>1. client' \in [Leg -> LegState \cup {Unknown}]
      BY <2>1 DEF ViewsTypeOK
    <3>2. \A k \in Leg : client'[k] = IF k \in shown' THEN legs'[k] ELSE Unknown
      BY <2>1, <2>2 DEF ClientAgrees
    <3> QED BY <3>1, <3>2 DEF ClientAgrees
  <2> QED BY <2>1, <2>2, <2>4, <2>5, <2>6, <2>7 DEF ViewsTypeOK, ViewIsComplete, Known
<1>7. ASSUME NEW x \in Extension, NEW r \in BOOLEAN, NEW d \in BOOLEAN,
             StatusChanges(x, [registered |-> r, dnd |-> d])
      PROVE  ViewsInv'
  <2>1. UNCHANGED <<legs, shown, client>> /\ status' = [status EXCEPT ![x] = [registered |-> r, dnd |-> d]]
        /\ lights' = [lights EXCEPT ![x] = StateOf(legs, status', x)]
    BY <1>7 DEF StatusChanges
  <2>2. status' \in [Extension -> [registered : BOOLEAN, dnd : BOOLEAN]] /\ \A y \in Extension \ {x} : status'[y] = status[y]
    BY <2>1 DEF ViewsTypeOK
  <2>3. lights' \in [Extension -> Presence]
    BY <2>1, StateOfIsPresence DEF ViewsTypeOK
  <2>4. \A y \in Extension : StateOf(legs, status, y)' = StateOf(legs, status', y)
    BY <2>1 DEF StateOf
  <2>5. \A y \in Extension \ {x} : StateOf(legs, status', y) = StateOf(legs, status, y)
    BY <2>2 DEF StateOf
  <2>6. PresenceAgrees'
    BY <2>1, <2>4, <2>5 DEF PresenceAgrees, ViewsTypeOK
  <2>7. Known' = Known /\ Loaded' = Loaded
    BY <2>1 DEF Known, Loaded, Halves, Owns
  <2> QED BY <2>1, <2>2, <2>3, <2>6, <2>7 DEF ViewsTypeOK, ViewIsComplete, ClientAgrees, BridgedAreNamed
<1>8. CASE Subscribes
  <2>1. shown' = Loaded /\ client' = [l \in Leg |-> IF l \in Loaded THEN legs[l] ELSE Unknown]
        /\ UNCHANGED <<legs, status, lights>>
    BY <1>8 DEF Subscribes
  <2>2. Known' = Known /\ Loaded' = Loaded /\ Loaded \subseteq Known /\ Known \subseteq Leg
    BY <2>1 DEF Known, Loaded, Halves, Owns
  <2>3. client' \in [Leg -> LegState \cup {Unknown}]
    BY <2>1, <2>2, KnownAreLegs
  <2>4. ClientAgrees'
    BY <2>1 DEF ClientAgrees
  <2>5. PresenceAgrees'
    BY <2>1 DEF PresenceAgrees, StateOf
  <2> QED BY <2>1, <2>2, <2>3, <2>4, <2>5 DEF ViewsTypeOK, ViewIsComplete, BridgedAreNamed
<1>9. CASE UNCHANGED viewVars
  <2>1. UNCHANGED <<legs, shown, client, status, lights>>
    BY <1>9 DEF viewVars
  <2>2. Known' = Known /\ Loaded' = Loaded /\ \A x \in Extension : StateOf(legs, status, x)' = StateOf(legs, status, x)
    BY <2>1 DEF Known, Loaded, Halves, Owns, StateOf
  <2> QED BY <2>1, <2>2 DEF ViewsTypeOK, ViewIsComplete, ClientAgrees, PresenceAgrees, BridgedAreNamed
<1>10. CASE ViewsNext
  <2>1. ASSUME NEW l \in Leg PROVE (Answers(l) => l \in Known) /\ (Ends(l) => l \in Known)
                                  /\ (\A q \in BOOLEAN : Queued(l, q) => l \in Known)
                                  /\ (\A k \in Leg : Bridges(l, k) => l \in Known /\ k \in Known /\ l # k)
    BY DEF Answers, Ends, Queued, Bridges
  <2> QED BY <1>1, <1>3, <1>4, <1>5, <1>6, <1>7, <1>8, <1>10, <2>1 DEF ViewsNext
<1> QED BY <1>9, <1>10

(* The views of calls that are kept by events alone are those that would   *)
(* be loaded now, half calls and all, and the client shows their legs as   *)
(* they stand (api-gateway, realtime/user-calls.ts, presence.ts), as long  *)
(* as a leg is only bridged once its tenant is known.                      *)
THEOREM ViewsAgreeHolds == ~Unnamed /\ ViewsSpec => []ViewsAgree
<1> SUFFICES ASSUME ~Unnamed PROVE ViewsSpec => []ViewsAgree
  OBVIOUS
<1>1. ViewsInv /\ [ViewsNext]_viewVars => ViewsInv'
  BY ViewsStep
<1>2. ViewsInv => ViewsAgree
  BY DEF ViewsInv
<1> QED BY <1>1, <1>2, ViewsStart, PTL DEF ViewsSpec
=============================================================================
