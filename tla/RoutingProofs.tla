---------------------------- MODULE RoutingProofs ----------------------------
(***************************************************************************)
(* Theorems about where calls are sent.  Of AffinityLeases, for any        *)
(* replicas, nodes, leases, requests and faults: whom a call is sent to,   *)
(* how a lease changes hands, and what a drain leaves behind.  Of          *)
(* Projection, for any things, tenants, consumers, changes and failures:   *)
(* what the read model and the rules OpenSIPs routes by come to.           *)
(***************************************************************************)
EXTENDS AffinityLeases, Projection, TLAPS

LEMMA TypeInit == LeaseInit => LeaseTypeOK
  BY LeasesAssumption
  DEF LeaseInit, LeaseTypeOK, SystemTypeOK, NodeTypeOK, PinTypeOK, RequestTypeOK, WorkTypeOK,
      Sound, Waiting, Resting, Holder, RequestState, HandOverState

(* What the helpers of the actions keep. *)
LEMMA RequestSet ==
  ASSUME RequestTypeOK, NEW q \in Request, NEW s \in RequestState, Sound(s),
         request' = [request EXCEPT ![q] = s]
  PROVE  RequestTypeOK'
  BY DEF RequestTypeOK

LEMMA RequestGoesOn ==
  ASSUME RequestTypeOK, NEW q \in Request, NEW a, At(q, a), request[q].at # "idle",
         \/ a \in {"choose", "reread"}
         \/ a \in {"won", "answered"} /\ request[q].node \in Node
  PROVE  RequestTypeOK'
<1> DEFINE s == [request[q] EXCEPT !.at = a]
<1>1. s \in RequestState /\ Sound(s)
  BY DEF RequestTypeOK, RequestState, Sound
<1>2. request' = [request EXCEPT ![q] = s]
  BY DEF At
<1>3. QED
  BY <1>1, <1>2, RequestSet

LEMMA TrackKeeps ==
  ASSUME PinTypeOK, NEW r \in Replica, NEW l \in Lease, NEW n \in Holder, Track(r, l, n)
  PROVE  tracked' \in [Replica -> [Lease -> Holder]]
  BY DEF PinTypeOK, Track

LEMMA WaitingSound == Waiting \in RequestState /\ Sound(Waiting)
  BY DEF Waiting, RequestState, Sound, Holder

(* The actions of a request, of a replica and of the rest, one at a time.  *)
LEMMA RequestTypes ==
  ASSUME SystemTypeOK, NEW q \in Request, RequestStep(q)
  PROVE  SystemTypeOK'
<1> USE LeasesAssumption DEF SystemTypeOK, nodes, renewing, redo
<1>q. request[q] \in RequestState /\ Sound(request[q]) /\ Home[q] \in Replica
  BY DEF RequestTypeOK
<1>1. ASSUME NEW l \in Lease, Ask(q, l) PROVE SystemTypeOK'
  <2> DEFINE s == [at |-> "got", lease |-> l, node |-> lease[l]]
  <2>1. s \in RequestState /\ Sound(s)
    BY DEF RequestState, Sound, PinTypeOK
  <2>2. RequestTypeOK'
    BY <1>1, <2>1, RequestSet DEF Ask
  <2>3. QED
    BY <1>1, <2>2 DEF Ask, NodeTypeOK, PinTypeOK, WorkTypeOK
<1>2. ASSUME Got(q) PROVE SystemTypeOK'
  <2>1. request[q].node # NoNode => request[q].node \in Node
    BY <1>q DEF RequestState, Holder
  <2>2. RequestTypeOK'
    BY <1>2, <2>1, RequestGoesOn DEF Got
  <2>3. tracked' \in [Replica -> [Lease -> Holder]]
    BY <1>2, <1>q, TrackKeeps DEF Got, Sound, PinTypeOK, Holder
  <2>4. QED
    BY <1>2, <2>2, <2>3 DEF Got, NodeTypeOK, PinTypeOK, WorkTypeOK
<1>3. ASSUME Choose(q) PROVE SystemTypeOK'
  <2>1. RequestTypeOK'
    <3>1. CASE InService = {}
      BY <1>3, <3>1, WaitingSound, RequestSet DEF Choose
    <3>2. CASE InService # {}
      <4>1. PICK n \in InService : request' = [request EXCEPT ![q].at = "set", ![q].node = n]
        BY <1>3, <3>2 DEF Choose
      <4> DEFINE s == [request[q] EXCEPT !.at = "set", !.node = n]
      <4>2. s \in RequestState /\ Sound(s)
        BY <1>3, <1>q DEF Choose, RequestState, Sound, InService, NodeTypeOK, Holder
      <4>3. request' = [request EXCEPT ![q] = s]
        BY <4>1
      <4>4. QED
        BY <4>2, <4>3, RequestSet
    <3>3. QED
      BY <3>1, <3>2
  <2>2. QED
    BY <1>3, <2>1 DEF Choose, NodeTypeOK, PinTypeOK, WorkTypeOK
<1>4. ASSUME SetLease(q) PROVE SystemTypeOK'
  <2>1. request[q].lease \in Lease /\ request[q].node \in Node
    BY <1>4, <1>q DEF SetLease, Sound
  <2>2. RequestTypeOK'
    BY <1>4, <2>1, RequestGoesOn DEF SetLease
  <2>3. QED
    BY <1>4, <2>1, <2>2 DEF SetLease, NodeTypeOK, PinTypeOK, WorkTypeOK, Holder
<1>5. ASSUME Reread(q) PROVE SystemTypeOK'
  <2> DEFINE n == lease[request[q].lease]
             s == IF n = NoNode THEN Waiting ELSE [request[q] EXCEPT !.at = "answered", !.node = n]
  <2>1. n \in Holder
    BY <1>5, <1>q DEF Reread, Sound, PinTypeOK
  <2>2. s \in RequestState /\ Sound(s)
    BY <1>5, <1>q, <2>1, WaitingSound DEF Reread, RequestState, Sound, Holder
  <2>3. RequestTypeOK'
    BY <1>5, <2>2, RequestSet DEF Reread
  <2>4. QED
    BY <1>5, <2>3 DEF Reread, NodeTypeOK, PinTypeOK, WorkTypeOK
<1>6. ASSUME StartRenewing(q) PROVE SystemTypeOK'
  <2>1. request[q].lease \in Lease /\ request[q].node \in Node
    BY <1>6, <1>q DEF StartRenewing, Sound
  <2>2. RequestTypeOK'
    BY <1>6, <2>1, RequestGoesOn DEF StartRenewing
  <2>3. tracked' \in [Replica -> [Lease -> Holder]]
    BY <1>6, <1>q, <2>1, TrackKeeps DEF StartRenewing, Holder
  <2>4. leaked' \in [Replica -> SUBSET (Lease \X Node)]
    BY <1>6, <1>q, <2>1 DEF StartRenewing, PinTypeOK, Holder
  <2>5. QED
    BY <1>6, <2>2, <2>3, <2>4 DEF StartRenewing, NodeTypeOK, PinTypeOK, WorkTypeOK
<1>7. ASSUME Answer(q) PROVE SystemTypeOK'
  <2>1. RequestTypeOK'
    BY <1>7, WaitingSound, RequestSet DEF Answer
  <2>2. QED
    BY <1>7, <2>1 DEF Answer, NodeTypeOK, PinTypeOK, WorkTypeOK
<1>8. ASSUME NEW l \in Lease, Release(q, l) PROVE SystemTypeOK'
  <2> DEFINE n == IF tracked[Home[q]][l] # NoNode THEN tracked[Home[q]][l] ELSE lease[l]
             s == [at |-> "release", lease |-> l, node |-> n]
  <2>1. n \in Node
    BY <1>8, <1>q DEF Release, PinTypeOK, Holder
  <2>2. s \in RequestState /\ Sound(s)
    BY <2>1 DEF RequestState, Sound, Holder
  <2>3. RequestTypeOK'
    BY <1>8, <2>2, RequestSet DEF Release
  <2>4. tracked' \in [Replica -> [Lease -> Holder]]
    BY <1>8, <1>q, TrackKeeps DEF Release, Holder
  <2>5. QED
    BY <1>8, <2>3, <2>4 DEF Release, NodeTypeOK, PinTypeOK, WorkTypeOK
<1>9. ASSUME Released(q) PROVE SystemTypeOK'
  <2>1. RequestTypeOK'
    BY <1>9, WaitingSound, RequestSet DEF Released
  <2>2. QED
    BY <1>9, <2>1 DEF Released, Freed, NodeTypeOK, PinTypeOK, WorkTypeOK, Holder
<1>10. QED
  BY <1>1, <1>2, <1>3, <1>4, <1>5, <1>6, <1>7, <1>8, <1>9 DEF RequestStep

LEMMA WorkSet ==
  ASSUME WorkTypeOK, NEW r \in Replica, NEW s \in HandOverState, s.drain => s.node \in Node,
         work' = [work EXCEPT ![r] = s], UNCHANGED redo
  PROVE  WorkTypeOK'
  BY DEF WorkTypeOK, redo

LEMMA ReplicaTypes ==
  ASSUME SystemTypeOK, NEW r \in Replica, ReplicaStep(r)
  PROVE  SystemTypeOK'
<1> USE LeasesAssumption DEF SystemTypeOK, nodes, renewing
<1>w. /\ work[r] \in HandOverState /\ (work[r].drain => work[r].node \in Node)
      /\ Resting \in HandOverState /\ ~Resting.drain
  BY DEF WorkTypeOK, HandOverState, Resting, Holder
<1>1. ASSUME List(r) PROVE SystemTypeOK'
  <2> DEFINE s == [work[r] EXCEPT !.at = "release", !.rows = {l \in Lease : lease[l] = work[r].node}]
  <2>1. s \in HandOverState /\ (s.drain => s.node \in Node)
    BY <1>w DEF HandOverState
  <2>2. work' = [work EXCEPT ![r] = s]
    BY <1>1 DEF List
  <2>3. WorkTypeOK'
    BY <1>1, <2>1, <2>2, WorkSet DEF List
  <2>4. QED
    BY <1>1, <2>3 DEF List, NodeTypeOK, PinTypeOK, RequestTypeOK
<1>2. ASSUME HandedOver(r) PROVE SystemTypeOK'
  <2>1. WorkTypeOK'
    BY <1>2, <1>w, WorkSet DEF HandedOver
  <2>2. NodeTypeOK'
    BY <1>2, <1>w DEF HandedOver, NodeTypeOK
  <2>3. QED
    BY <1>2, <2>1, <2>2 DEF HandedOver, PinTypeOK, RequestTypeOK
<1>3. ASSUME NEW l \in Lease, HandOver(r, l) PROVE SystemTypeOK'
  <2> DEFINE s == [work[r] EXCEPT !.rows = @ \ {l}]
  <2>1. s \in HandOverState /\ (s.drain => s.node \in Node)
    BY <1>w DEF HandOverState
  <2>2. work' = [work EXCEPT ![r] = s]
    BY <1>3 DEF HandOver
  <2>3. WorkTypeOK'
    BY <1>3, <2>1, <2>2, WorkSet DEF HandOver
  <2>4. tracked' \in [Replica -> [Lease -> Holder]]
    BY <1>3, TrackKeeps DEF HandOver, PinTypeOK, Holder
  <2>5. QED
    BY <1>3, <2>3, <2>4 DEF HandOver, Freed, NodeTypeOK, PinTypeOK, RequestTypeOK, Holder
<1>4. ASSUME Restore(r) PROVE SystemTypeOK'
  <2>1. {<<l, tracked[r][l]>> : l \in {k \in Lease : tracked[r][k] # NoNode}} \subseteq Lease \X Node
    BY DEF PinTypeOK, Holder
  <2>2. QED
    BY <1>4, <2>1 DEF Restore, NodeTypeOK, PinTypeOK, RequestTypeOK, WorkTypeOK
<1>5. ASSUME NEW l \in Lease, NEW n \in Node, SetAgain(r, l, n) PROVE SystemTypeOK'
  <2>1. tracked' \in [Replica -> [Lease -> Holder]]
    BY <1>5, TrackKeeps DEF SetAgain, PinTypeOK, Holder
  <2>2. leaked' \in [Replica -> SUBSET (Lease \X Node)]
    BY <1>5 DEF SetAgain, PinTypeOK, Holder
  <2>3. lease' \in [Lease -> Holder]
    BY <1>5 DEF SetAgain, PinTypeOK, Holder
  <2>4. QED
    BY <1>5, <2>1, <2>2, <2>3 DEF SetAgain, NodeTypeOK, PinTypeOK, RequestTypeOK, WorkTypeOK
<1>6. ASSUME Crash(r) PROVE SystemTypeOK'
  <2>1. PinTypeOK'
    BY <1>6 DEF Crash, PinTypeOK, Holder
  <2>2. RequestTypeOK'
    BY <1>6, WaitingSound DEF Crash, RequestTypeOK
  <2>3. WorkTypeOK'
    BY <1>6, <1>w DEF Crash, WorkTypeOK
  <2>4. QED
    BY <1>6, <2>1, <2>2, <2>3 DEF Crash, Fault, NodeTypeOK
<1>7. ASSUME NEW n \in Node, Drain(r, n) PROVE SystemTypeOK'
  <2> DEFINE s == [Resting EXCEPT !.at = "list", !.node = n, !.drain = TRUE]
  <2>1. s \in HandOverState /\ (s.drain => s.node \in Node)
    BY DEF HandOverState, Resting, Holder
  <2>2. WorkTypeOK'
    BY <1>7, <2>1, WorkSet DEF Drain
  <2>3. QED
    BY <1>7, <2>2 DEF Drain, Fault, NodeTypeOK, PinTypeOK, RequestTypeOK
<1>8. ASSUME NEW n \in Node, Watch(r, n) PROVE SystemTypeOK'
  <2> DEFINE s == [Resting EXCEPT !.at = "list", !.node = n]
  <2>1. s \in HandOverState /\ (s.drain => s.node \in Node)
    BY DEF HandOverState, Resting, Holder
  <2>2. WorkTypeOK'
    BY <1>8, <2>1, WorkSet DEF Watch
  <2>3. QED
    BY <1>8, <2>2 DEF Watch, NodeTypeOK, PinTypeOK, RequestTypeOK
<1>9. ASSUME NEW l \in Lease, Stops(r, l) PROVE SystemTypeOK'
  <2>1. tracked' \in [Replica -> [Lease -> Holder]]
    BY <1>9, TrackKeeps DEF Stops, Holder
  <2>2. QED
    BY <1>9, <2>1 DEF Stops, redo, NodeTypeOK, PinTypeOK, RequestTypeOK, WorkTypeOK
<1>10. QED
  BY <1>1, <1>2, <1>3, <1>4, <1>5, <1>6, <1>7, <1>8, <1>9
  DEF ReplicaStep, HandOverStep, RestoreStep

LEMMA OtherTypes ==
  ASSUME SystemTypeOK,
         \/ \E n \in Node : NodeStep(n)
         \/ \E l \in Lease : Lapses(l)
         \/ RedisLost
  PROVE  SystemTypeOK'
<1> USE LeasesAssumption
    DEF SystemTypeOK, NodeTypeOK, PinTypeOK, RequestTypeOK, WorkTypeOK, nodes, renewing, redo, Fault
<1>1. ASSUME NEW n \in Node, NodeStep(n) PROVE SystemTypeOK'
  BY <1>1 DEF NodeStep, Dies, KeyExpires, Returns, Heartbeat, Undrain
<1>2. ASSUME NEW l \in Lease, Lapses(l) PROVE SystemTypeOK'
  BY <1>2 DEF Lapses, Holder
<1>3. ASSUME RedisLost PROVE SystemTypeOK'
  BY <1>3 DEF RedisLost, Holder
<1>4. QED
  BY <1>1, <1>2, <1>3

LEMMA TypeStep == LeaseTypeOK /\ [LeaseNext]_vars => LeaseTypeOK'
<1> SUFFICES ASSUME LeaseTypeOK, [LeaseNext]_vars PROVE LeaseTypeOK'
  OBVIOUS
<1>1. ASSUME LeaseNext PROVE SystemTypeOK'
  BY <1>1, RequestTypes, ReplicaTypes, OtherTypes DEF LeaseNext, Step, LeaseTypeOK
<1>2. ASSUME LeaseNext
      PROVE  /\ seen' \in [Request -> SUBSET Holder]
             /\ overtaken' \subseteq Request /\ stray' \subseteq Lease
  BY <1>1, <1>2
  DEF LeaseNext, Seen, LeaseTypeOK, SystemTypeOK, PinTypeOK, RequestTypeOK, Sound, RequestState
<1>3. ASSUME UNCHANGED vars PROVE LeaseTypeOK'
  BY <1>3
  DEF vars, LeaseTypeOK, SystemTypeOK, NodeTypeOK, PinTypeOK, RequestTypeOK, WorkTypeOK, nodes,
      renewing, redo, history
<1>4. QED
  BY <1>1, <1>2, <1>3 DEF LeaseTypeOK

(* Every variable keeps its type, and a request that names a lease or a    *)
(* node names one there is: a node is chosen only when one is in service   *)
(* (affinity/manager.ts:121).                                              *)
THEOREM TypeCorrect == LeaseSpec => []LeaseTypeOK
  BY TypeInit, TypeStep, PTL DEF LeaseSpec

-----------------------------------------------------------------------------
(* A node is in a request's hand only after it had the lease: read from    *)
(* Redis, or set there.                                                    *)
FromRedis ==
  \A q \in Request :
    \/ request[q].at \in {"won", "answered"}
    \/ request[q].at = "got" /\ request[q].node # NoNode
    => request[q].node \in seen[q]

(* A request that is not at a step of its own keeps its place, or crashes. *)
LEMMA OthersKeep ==
  ASSUME SystemTypeOK, NEW p \in Request, NEW q \in Request, p # q, RequestStep(p)
  PROVE  request'[q] = request[q]
  BY DEF SystemTypeOK, RequestTypeOK, RequestStep, Ask, Got, Choose, SetLease, Reread,
         StartRenewing, Answer, Release, Released, At

LEMMA OtherSteps ==
  ASSUME NEW q \in Request, Step, ~\E p \in Request : RequestStep(p)
  PROVE  request'[q] \in {request[q], Waiting}
<1>1. ASSUME NEW r \in Replica, ReplicaStep(r) PROVE request'[q] \in {request[q], Waiting}
  BY <1>1
  DEF ReplicaStep, HandOverStep, RestoreStep, List, HandedOver, HandOver, Restore, SetAgain, Crash,
      Drain, Watch, Stops
<1>2. ASSUME NEW n \in Node, NodeStep(n) PROVE request' = request
  BY <1>2 DEF NodeStep, Dies, KeyExpires, Returns, Heartbeat, Undrain
<1>3. QED
  BY <1>1, <1>2 DEF Step, Lapses, RedisLost

LEMMA FromRedisStep ==
  LeaseTypeOK /\ FromRedis /\ [LeaseNext]_vars => FromRedis'
<1> SUFFICES ASSUME LeaseTypeOK, FromRedis, [LeaseNext]_vars PROVE FromRedis'
  OBVIOUS
<1>1. CASE UNCHANGED vars
  BY <1>1 DEF vars, history, FromRedis
<1>2. CASE LeaseNext
  <2> SUFFICES ASSUME NEW q \in Request,
                      \/ request'[q].at \in {"won", "answered"}
                      \/ request'[q].at = "got" /\ request'[q].node # NoNode
               PROVE  request'[q].node \in seen'[q]
    BY DEF FromRedis
  <2>1. seen'[q] = seen[q] \cup {lease'[request'[q].lease]}
    BY <1>2 DEF LeaseNext, Seen
  <2>2. request[q] \in RequestState /\ Sound(request[q])
    BY DEF LeaseTypeOK, SystemTypeOK, RequestTypeOK
  <2>3. CASE request'[q] = request[q]
    BY <2>1, <2>3 DEF FromRedis
  <2>4. CASE RequestStep(q)
    <3> USE DEF LeaseTypeOK, SystemTypeOK, RequestTypeOK, PinTypeOK, RequestState, At
    <3>1. ASSUME NEW l \in Lease, Ask(q, l) PROVE request'[q].node \in seen'[q]
      BY <2>1, <3>1 DEF Ask
    <3>2. CASE Got(q)
      BY <2>1, <2>2, <3>2 DEF Got, FromRedis
    <3>3. CASE SetLease(q)
      BY <2>1, <2>2, <3>3 DEF SetLease, Sound
    <3>4. CASE Reread(q)
      BY <2>1, <2>2, <3>4 DEF Reread, Waiting
    <3>5. CASE StartRenewing(q)
      BY <2>1, <2>2, <3>5 DEF StartRenewing, FromRedis
    <3>6. CASE Choose(q) \/ Answer(q) \/ Released(q) \/ \E l \in Lease : Release(q, l)
      BY <2>2, <3>6 DEF Choose, Answer, Released, Release, Waiting
    <3>7. QED
      BY <2>4, <3>1, <3>2, <3>3, <3>4, <3>5, <3>6 DEF RequestStep
  <2>5. CASE request'[q] = Waiting
    BY <2>5 DEF Waiting
  <2>6. QED
    BY <1>2, <2>3, <2>4, <2>5, OthersKeep, OtherSteps DEF LeaseNext, LeaseTypeOK
<1>3. QED
  BY <1>1, <1>2 DEF LeaseNext

(* acquire answers with a node that held the lease while it ran, whatever  *)
(* the replicas remember (affinity/manager.ts:205-214).                    *)
THEOREM AnswersComeFromHolders == LeaseSpec => []AnswersHolder
<1>1. LeaseInit => FromRedis
  BY DEF LeaseInit, FromRedis, Waiting
<1>2. FromRedis => AnswersHolder
  BY DEF FromRedis, AnswersHolder
<1>3. QED
  BY <1>1, <1>2, FromRedisStep, TypeCorrect, PTL DEF LeaseSpec

-----------------------------------------------------------------------------
(* What a step does to the leases. *)

LEMMA LeaseMoves ==
  ASSUME SystemTypeOK, Step, NEW l \in Lease
  PROVE  \/ lease'[l] \in {lease[l], NoNode}
         \/ lease[l] = NoNode
<1> USE DEF SystemTypeOK, PinTypeOK, renewing
<1>1. ASSUME NEW q \in Request, RequestStep(q)
      PROVE  lease'[l] \in {lease[l], NoNode} \/ lease[l] = NoNode
  BY <1>1
  DEF RequestStep, Ask, Got, Choose, SetLease, Reread, StartRenewing, Answer, Release, Released, Freed
<1>2. ASSUME NEW r \in Replica, ReplicaStep(r)
      PROVE  lease'[l] \in {lease[l], NoNode} \/ lease[l] = NoNode
  BY <1>2
  DEF ReplicaStep, HandOverStep, RestoreStep, List, HandedOver, HandOver, Restore, SetAgain, Crash,
      Drain, Watch, Stops, Freed
<1>3. ASSUME NEW n \in Node, NodeStep(n) PROVE lease' = lease
  BY <1>3 DEF NodeStep, Dies, KeyExpires, Returns, Heartbeat, Undrain
<1>4. QED
  BY <1>1, <1>2, <1>3 DEF Step, Lapses, RedisLost

(* No lease passes from one node to another without having been free,      *)
(* whoever restores, releases or acquires (affinity/manager.ts:92-94).     *)
THEOREM LeasesAreNeverSnatched == LeaseSpec => NeverSnatched
<1>1. LeaseTypeOK /\ [LeaseNext]_vars
      => [\A l \in Lease : lease'[l] \in {lease[l], NoNode} \/ lease[l] = NoNode]_vars
  BY LeaseMoves DEF LeaseNext, LeaseTypeOK
<1>2. QED
  BY <1>1, TypeCorrect, PTL DEF LeaseSpec, NeverSnatched

(* A lease that leaves a hand-over's list is only freed from the node that *)
(* is handed over, however old the list (packages/affinity registry.ts:    *)
(* 76-82).                                                                 *)
THEOREM HandOversFreeTheirOwn == LeaseSpec => FreesOnlyItsOwn
<1>1. ASSUME SystemTypeOK, Step, NEW r \in Replica, NEW l \in Lease,
             l \in work[r].rows \ work'[r].rows, lease'[l] # lease[l]
      PROVE  lease[l] = work[r].node
  <2> USE DEF SystemTypeOK, PinTypeOK, WorkTypeOK, HandOverState
  <2>1. ASSUME NEW q \in Request, RequestStep(q) PROVE work' = work
    BY <2>1
    DEF RequestStep, Ask, Got, Choose, SetLease, Reread, StartRenewing, Answer, Release, Released
  <2>2. ASSUME NEW p \in Replica, ReplicaStep(p) PROVE lease[l] = work[r].node
    <3>1. ASSUME NEW k \in Lease, HandOver(p, k) PROVE lease[l] = work[r].node
      BY <1>1, <3>1 DEF HandOver, Freed
    <3>2. CASE ~\E k \in Lease : HandOver(p, k)
      BY <1>1, <2>2, <3>2
      DEF ReplicaStep, HandOverStep, RestoreStep, List, HandedOver, Restore, SetAgain, Crash, Drain,
          Watch, Stops
    <3>3. QED
      BY <3>1, <3>2
  <2>3. ASSUME NEW n \in Node, NodeStep(n) PROVE work' = work
    BY <2>3 DEF NodeStep, Dies, KeyExpires, Returns, Heartbeat, Undrain
  <2>4. QED
    BY <1>1, <2>1, <2>2, <2>3 DEF Step, Lapses, RedisLost
<1>2. LeaseTypeOK /\ [LeaseNext]_vars
      => [\A r \in Replica, l \in Lease :
            (l \in work[r].rows \ work'[r].rows /\ lease'[l] # lease[l])
              => lease[l] = work[r].node]_vars
  BY <1>1 DEF LeaseNext, LeaseTypeOK
<1>3. QED
  BY <1>2, TypeCorrect, PTL DEF LeaseSpec, FreesOnlyItsOwn

-----------------------------------------------------------------------------
(* Draining.  The mark keeps acquires away but those it has overtaken, the *)
(* list takes what there was; a node is undrained only after its drains,   *)
(* and nothing is restored.                                                *)
Marked ==
  /\ drained \subseteq draining
  /\ \A r \in Replica : work[r].drain => work[r].node \in draining /\ work[r].at # "idle"

Overtakes == \A q \in Request : Chosen(q) => request[q].node \notin draining \/ q \in overtaken

Unlost == lost = {} /\ \A r \in Replica : restoring[r] = {}

Listed ==
  \A r \in Replica, l \in Lease :
    work[r].drain /\ work[r].at = "release" /\ lease[l] = work[r].node
      => l \in work[r].rows \/ l \in stray

DrainInv == LeaseTypeOK /\ Marked /\ Overtakes /\ Unlost /\ Listed /\ DrainedHoldsNone

LEMMA DrainInit == LeaseInit => DrainInv
  BY TypeInit
  DEF LeaseInit, DrainInv, Marked, Overtakes, Chosen, Unlost, Listed, DrainedHoldsNone, Resting,
      Waiting

(* A stray lease is one until it is freed. *)
StraysKept == \A l \in Lease : l \in stray /\ lease'[l] # NoNode => l \in stray'

LEMMA StraysStay == Seen => StraysKept
  BY DEF Seen, StraysKept

(* What is marked meanwhile overtakes whoever has chosen it. *)
LEMMA MarksOvertake ==
  ASSUME Overtakes, Seen, \A q \in Request : Chosen(q)' => request'[q] = request[q]
  PROVE  Overtakes'
  BY DEF Overtakes, Seen, Chosen

(* A step of a request leaves a marked node's leases alone, but where it   *)
(* was overtaken.                                                          *)
LEMMA RequestsAvoidMarked ==
  ASSUME DrainInv, Seen, NEW q \in Request, RequestStep(q)
  PROVE  Marked' /\ Overtakes' /\ Unlost' /\ Listed' /\ DrainedHoldsNone'
<1> USE DEF DrainInv, LeaseTypeOK, SystemTypeOK
<1>1. UNCHANGED <<draining, drained, work, restoring, lost>>
  BY DEF RequestStep, Ask, Got, Choose, SetLease, Reread, StartRenewing, Answer, Release, Released,
         nodes, redo
<1>2. \A l \in Lease :
        lease'[l] \in {lease[l], NoNode} \/ lease'[l] \notin draining \/ l \in stray'
  <2>1. CASE SetLease(q)
    <3> SUFFICES ASSUME NEW l \in Lease, lease'[l] \notin {lease[l], NoNode}, lease'[l] \in draining
                 PROVE  l \in stray'
      OBVIOUS
    <3>1. l = request[q].lease /\ request[q].node \in draining /\ request'[q].at = "won"
      BY <2>1 DEF SetLease, At, PinTypeOK, RequestTypeOK, RequestState
    <3>2. q \in overtaken
      BY <2>1, <3>1 DEF SetLease, Overtakes, Chosen
    <3>3. QED
      BY <3>1, <3>2 DEF Seen
  <2>2. CASE Released(q)
    BY <2>2 DEF Released, Freed, PinTypeOK
  <2>3. CASE ~SetLease(q) /\ ~Released(q)
    <3>1. lease' = lease
      BY <2>3 DEF RequestStep, Ask, Got, Choose, Reread, StartRenewing, Answer, Release
    <3>2. QED
      BY <3>1
  <2>4. QED
    BY <2>1, <2>2, <2>3
<1>3. request'[q].at = "set" => request'[q].node \notin draining
  <2>1. request[q] \in RequestState
    BY DEF RequestTypeOK
  <2>2. CASE Choose(q)
    BY <2>1, <2>2 DEF Choose, InService, Waiting, RequestTypeOK, RequestState
  <2>3. CASE Got(q) \/ SetLease(q) \/ StartRenewing(q)
    BY <2>1, <2>3 DEF Got, SetLease, StartRenewing, At, RequestTypeOK, RequestState
  <2>4. CASE Reread(q) \/ Answer(q) \/ Released(q)
    <3> DEFINE s(n) == [request[q] EXCEPT !.at = "answered", !.node = n]
    <3>1. \A n : s(n).at = "answered"
      BY <2>1 DEF RequestState
    <3>2. request'[q] = Waiting \/ \E n : request'[q] = s(n)
      BY <2>4 DEF Reread, Answer, Released, RequestTypeOK
    <3>3. CASE request'[q] = Waiting
      BY <3>3 DEF Waiting
    <3>4. CASE \E n : request'[q] = s(n)
      <4>1. PICK n : request'[q] = s(n)
        BY <3>4
      <4>2. request'[q].at = "answered"
        BY <3>1, <4>1
      <4>3. QED
        BY <4>2
    <3>5. QED
      BY <3>2, <3>3, <3>4
  <2>5. CASE \E l \in Lease : Ask(q, l) \/ Release(q, l)
    BY <2>5 DEF Ask, Release, RequestTypeOK
  <2>6. QED
    BY <2>2, <2>3, <2>4, <2>5 DEF RequestStep
<1>4. \A p \in Request : p # q => request'[p] = request[p]
  BY OthersKeep
<1>5. Marked' /\ Unlost'
  BY <1>1 DEF Marked, Unlost
<1>6. Overtakes'
  BY <1>1, <1>3, <1>4 DEF Overtakes, Chosen, Seen
<1>7. Listed' /\ DrainedHoldsNone'
  BY <1>1, <1>2, StraysStay, LeasesAssumption
  DEF StraysKept, Marked, Listed, DrainedHoldsNone, NodeTypeOK
<1>8. QED
  BY <1>5, <1>6, <1>7

(* No other step has a request choose a node. *)
LEMMA OthersChooseNot ==
  ASSUME \/ \E r \in Replica : ReplicaStep(r)
         \/ \E n \in Node : NodeStep(n)
         \/ \E l \in Lease : Lapses(l)
         \/ RedisLost
  PROVE  \A q \in Request : Chosen(q)' => request'[q] = request[q]
<1>1. ASSUME NEW r \in Replica, ReplicaStep(r)
      PROVE  \A q \in Request : Chosen(q)' => request'[q] = request[q]
  <2>1. CASE Crash(r)
    BY <2>1 DEF Crash, Chosen, Waiting
  <2>2. CASE ~Crash(r)
    BY <1>1, <2>2
    DEF ReplicaStep, HandOverStep, RestoreStep, List, HandedOver, HandOver, Restore, SetAgain, Drain,
        Watch, Stops
  <2>3. QED
    BY <2>1, <2>2
<1>2. ASSUME NEW n \in Node, NodeStep(n) PROVE request' = request
  BY <1>2 DEF NodeStep, Dies, KeyExpires, Returns, Heartbeat, Undrain
<1>3. QED
  BY <1>1, <1>2 DEF Lapses, RedisLost

LEMMA ReplicasKeepMarked ==
  ASSUME DrainInv, StraysKept, NEW r \in Replica, ReplicaStep(r)
  PROVE  Marked' /\ Unlost' /\ Listed' /\ DrainedHoldsNone'
<1> USE LeasesAssumption
    DEF DrainInv, StraysKept, LeaseTypeOK, SystemTypeOK, nodes, redo, renewing, NodeTypeOK,
        PinTypeOK, WorkTypeOK, HandOverState
<1>1. CASE List(r)
  BY <1>1 DEF List, Marked, Unlost, Listed, DrainedHoldsNone
<1>2. CASE HandedOver(r)
  BY <1>2 DEF HandedOver, Marked, Unlost, Listed, DrainedHoldsNone, Resting
<1>3. ASSUME NEW l \in Lease, HandOver(r, l)
      PROVE  Marked' /\ Unlost' /\ Listed' /\ DrainedHoldsNone'
  BY <1>3 DEF HandOver, Freed, Marked, Unlost, Listed, DrainedHoldsNone
<1>4. ~Restore(r) /\ \A l \in Lease, n \in Node : ~SetAgain(r, l, n)
  BY DEF Restore, SetAgain, Unlost
<1>5. CASE Crash(r)
  BY <1>5 DEF Crash, Marked, Unlost, Listed, DrainedHoldsNone, Resting, Waiting
<1>6. ASSUME NEW n \in Node, Drain(r, n)
      PROVE  Marked' /\ Unlost' /\ Listed' /\ DrainedHoldsNone'
  BY <1>6 DEF Drain, Marked, Unlost, Listed, DrainedHoldsNone, Resting
<1>7. ASSUME NEW n \in Node, Watch(r, n)
      PROVE  Marked' /\ Unlost' /\ Listed' /\ DrainedHoldsNone'
  BY <1>7 DEF Watch, Marked, Unlost, Listed, DrainedHoldsNone, Resting
<1>8. ASSUME NEW l \in Lease, Stops(r, l)
      PROVE  Marked' /\ Unlost' /\ Listed' /\ DrainedHoldsNone'
  BY <1>8 DEF Stops, Marked, Unlost, Listed, DrainedHoldsNone
<1>9. QED
  BY <1>1, <1>2, <1>3, <1>4, <1>5, <1>6, <1>7, <1>8 DEF ReplicaStep, HandOverStep, RestoreStep

LEMMA OthersKeepMarked ==
  ASSUME "redis" \notin Faults, DrainInv, StraysKept,
         \/ \E n \in Node : NodeStep(n)
         \/ \E l \in Lease : Lapses(l)
         \/ RedisLost
  PROVE  Marked' /\ Unlost' /\ Listed' /\ DrainedHoldsNone'
<1> USE LeasesAssumption
    DEF DrainInv, StraysKept, LeaseTypeOK, SystemTypeOK, nodes, redo, NodeTypeOK, PinTypeOK,
        WorkTypeOK
<1>1. ASSUME NEW n \in Node, NodeStep(n)
      PROVE  Marked' /\ Unlost' /\ Listed' /\ DrainedHoldsNone'
  <2>1. CASE Undrain(n)
    BY <2>1 DEF Undrain, Draining, Marked, Unlost, Listed, DrainedHoldsNone
  <2>2. CASE ~Undrain(n)
    BY <1>1, <2>2
    DEF NodeStep, Dies, KeyExpires, Returns, Heartbeat, Marked, Unlost, Listed, DrainedHoldsNone
  <2>3. QED
    BY <2>1, <2>2
<1>2. ASSUME NEW l \in Lease, Lapses(l)
      PROVE  Marked' /\ Unlost' /\ Listed' /\ DrainedHoldsNone'
  BY <1>2 DEF Lapses, Marked, Unlost, Listed, DrainedHoldsNone
<1>3. ~RedisLost
  BY DEF RedisLost, Fault
<1>4. QED
  BY <1>1, <1>2, <1>3

LEMMA DrainStep ==
  ASSUME "redis" \notin Faults
  PROVE  DrainInv /\ [LeaseNext]_vars => DrainInv'
<1> SUFFICES ASSUME DrainInv, [LeaseNext]_vars PROVE DrainInv'
  OBVIOUS
<1>1. LeaseTypeOK'
  BY TypeStep DEF DrainInv
<1>2. CASE LeaseNext
  <2>1. Seen /\ StraysKept
    BY <1>2, StraysStay DEF LeaseNext
  <2>2. CASE \E q \in Request : RequestStep(q)
    BY <1>1, <2>1, <2>2, RequestsAvoidMarked DEF DrainInv
  <2>3. CASE ~\E q \in Request : RequestStep(q)
    <3>1. Overtakes'
      BY <1>2, <2>1, <2>3, OthersChooseNot, MarksOvertake DEF LeaseNext, Step, DrainInv
    <3>2. QED
      BY <1>1, <1>2, <2>1, <2>3, <3>1, ReplicasKeepMarked, OthersKeepMarked
      DEF LeaseNext, Step, DrainInv
  <2>4. QED
    BY <2>2, <2>3
<1>3. CASE UNCHANGED vars
  BY <1>1, <1>3
  DEF vars, nodes, redo, history, DrainInv, Marked, Overtakes, Chosen, Unlost, Listed, DrainedHoldsNone
<1>4. QED
  BY <1>2, <1>3

(* While Redis keeps its data, a drained node has no lease and wins none,  *)
(* but from an acquire that had chosen it when it was marked and had yet   *)
(* to write (node-drain.ts:61-75, affinity/manager.ts:215-217), whatever   *)
(* the crashes, the deaths and the drains undone and done again.           *)
THEOREM DrainsAreFinal ==
  ASSUME "redis" \notin Faults
  PROVE  LeaseSpec => []DrainedHoldsNone
<1>1. DrainInv => DrainedHoldsNone
  BY DEF DrainInv
<1>2. QED
  BY <1>1, DrainInit, DrainStep, PTL DEF LeaseSpec

(* Both together, as the run checks them: requests, renewals, restores and *)
(* hand-overs leave a lease where it is.                                   *)
THEOREM LeasesAlwaysStay == LeaseSpec => LeasesStay
BY LeasesAreNeverSnatched, HandOversFreeTheirOwn DEF LeasesStay

-----------------------------------------------------------------------------
(* The projection.  Its rows and the shapes of its jobs and of the pass.   *)

Shaped == (UNION {Shapes[t] : t \in Thing}) \cup {{}}

(* Rows that OpenSIPs can have, of each of its keys one.                   *)
Tabled(rs) == \A r \in rs : r.table \in Tables \ {"mirror"}
Single(rs) == \A r, s \in rs : Same(r, s) => r = s

ProjectionShape ==
  /\ \A t \in Thing : source[t] \in Shapes[t] \cup {{}} /\ model[t] \in Shapes[t] \cup {{}}
  /\ deleted \subseteq Thing /\ changes \in 0..MaxChange /\ failures \in 0..MaxFailure
  /\ Tabled(rows) /\ Tabled(loaded) /\ Single(rows)
  /\ job \in [Worker -> [at : {"idle", "fetched", "cleared", "written"}, event : Nat, thing : Thing, new : Shaped]]
  /\ pass.at \in {"none", "reading", "repairing"} /\ sync.on \in BOOLEAN /\ torn \in BOOLEAN
  /\ pass = [at |-> pass.at, model |-> pass.model, listed |-> pass.listed, read |-> pass.read,
             todo |-> pass.todo, touched |-> pass.touched]
  /\ \A r \in pass.listed \cup pass.todo : r.table \in Compared
  /\ \A t \in Thing : sync.told[t] \in Shapes[t] \cup {{}}

(* An event has a number of its own, and says what its thing was when it   *)
(* was enqueued.                                                           *)
EventShape(e) ==
  /\ e = [n |-> e.n, thing |-> e.thing, gone |-> e.gone, says |-> e.says, failed |-> e.failed]
  /\ e.n \in 1..changes /\ e.thing \in Thing /\ e.failed \in BOOLEAN
  /\ e.says \in Shapes[e.thing] \cup {{}} /\ (e.gone <=> e.says = {})

EventsNumbered ==
  /\ \A e \in pending : EventShape(e)
  /\ \A e, f \in pending : e.n = f.n => e = f

Busy(w) == job[w].at # "idle"
JobOf(w, t) == Busy(w) /\ job[w].thing = t

(* What a consumer is at is an event that is still pending.                *)
Hands(w, e) ==
  /\ e.n = job[w].event /\ e.thing = job[w].thing
  /\ e.gone => job[w].new = {}
  /\ job[w].new = {} /\ Kind[e.thing] # "handling" => e.gone
  /\ Kind[e.thing] = "tenant" => job[w].new = e.says

InHand ==
  \A w \in Worker : Busy(w) =>
    /\ job[w].thing \in Feed[w] /\ job[w].new \in Shapes[job[w].thing] \cup {{}}
    /\ \E e \in pending : Hands(w, e)

(* What is deleted does not come back, and what never was is nowhere.      *)
IdsUsedOnce ==
  /\ \A e \in pending : e.gone /\ Kind[e.thing] # "handling" => e.thing \in deleted
  /\ \A t \in deleted : source[t] = {}
  /\ \A t \in Thing : source[t] = {} /\ t \notin deleted /\ Kind[t] # "handling" =>
       model[t] = {} /\ \A e \in pending : e.thing # t

(* No purge of a tenant is about to take it along.                         *)
Spared(t) == Kind[t] # "handling" /\ \A o \in OfKind("tenant") : t \in Belongs[o] => o \notin deleted

(* The event will make the read model what is configured.                  *)
Fresh(e) == \A w \in Worker : Busy(w) /\ job[w].event = e.n => job[w].new = source[e.thing]

Fetched(t) ==
  \/ \E e \in pending : e.thing = t /\ Fresh(e) /\ (source[t] = {} => e.gone)
  \/ model[t] = source[t] /\ \A w \in Worker : JobOf(w, t) => job[w].new = source[t]

ModelFollows == \A t \in Thing : Spared(t) /\ Kind[t] # "tenant" => Fetched(t)

(* While nothing fails, events are handled in their order, so that the     *)
(* last of a tenant says what it is.                                       *)
Told(t) ==
  \/ model[t] = source[t] /\ \A e \in pending : e.thing # t
  \/ \E e \in pending : e.thing = t /\ e.says = source[t] /\ \A f \in pending : f.thing = t => f.n <= e.n

InTurn ==
  failures = 0 =>
    /\ \A e \in pending : ~e.failed
    /\ \A w \in Worker : Busy(w) => \A e \in pending : e.thing \in Feed[w] => job[w].event <= e.n
    /\ \A t \in OfKind("tenant") : Told(t)

(* A route's rule is there as soon as the read model says so, and none     *)
(* comes back once it was removed.                                         *)
RulesWritten(t) ==
  t \notin deleted =>
    /\ model[t] # {} => RulesOf(t) # {}
    /\ \A w \in Worker : JobOf(w, t) /\ job[w].at = "written" /\ job[w].new # {} => RulesOf(t) # {}

RulesRemoved(t) ==
  /\ \A w \in Worker : JobOf(w, t) /\ job[w].at \in {"cleared", "written"} /\ job[w].new = {} => RulesOf(t) = {}
  /\ source[t] = {} =>
       \/ \E e \in pending : e.thing = t /\ e.gone
       \/ RulesOf(t) = {} /\ \A w \in Worker : JobOf(w, t) => job[w].new = {}

RulesFollow == \A t \in OfKind("route") : Spared(t) => RulesWritten(t) /\ RulesRemoved(t)

ProjectionInv ==
  /\ ProjectionShape /\ EventsNumbered /\ InHand /\ IdsUsedOnce
  /\ ModelFollows /\ InTurn /\ RulesFollow

(* One copy of each consumer runs.                                         *)
OneCopy == \A v, w \in Worker : v # w => Feed[v] \cap Feed[w] = {}

-----------------------------------------------------------------------------
(* No thing is two consumers' at once, and no event.                       *)
LEMMA WorkedAlone ==
  ASSUME OneCopy, InHand, NEW v \in Worker, NEW w \in Worker, Busy(v), Busy(w), job[v].thing = job[w].thing
  PROVE  v = w
BY DEF OneCopy, InHand

LEMMA HandledAlone ==
  ASSUME OneCopy, InHand, EventsNumbered, NEW v \in Worker, NEW w \in Worker, Busy(v), Busy(w),
         job[v].event = job[w].event
  PROVE  v = w
<1>1. PICK e \in pending : Hands(v, e)
  BY DEF InHand
<1>2. PICK f \in pending : Hands(w, f)
  BY DEF InHand
<1>3. e = f
  BY <1>1, <1>2 DEF Hands, EventsNumbered
<1>4. job[v].thing = job[w].thing
  BY <1>1, <1>2, <1>3 DEF Hands
<1>. QED BY <1>4, WorkedAlone

(* Replacing rows leaves one of each key.                                  *)
LEMMA WithoutKeeps ==
  ASSUME NEW rs, NEW gone
  PROVE  /\ Without(rs, gone) \subseteq rs
         /\ Single(rs) => Single(Without(rs, gone))
         /\ Tabled(rs) => Tabled(Without(rs, gone))
BY DEF Without, Single, Tabled

LEMMA UpsertKeeps ==
  ASSUME NEW rs, NEW new, Single(rs), Single(new), Tabled(rs), Tabled(new)
  PROVE  Single(Upsert(rs, new)) /\ Tabled(Upsert(rs, new))
<1>1. Tabled(Upsert(rs, new))
  BY DEF Upsert, Without, Tabled
<1>2. ASSUME NEW r \in Upsert(rs, new), NEW s \in Upsert(rs, new), Same(r, s)
      PROVE  r = s
  BY <1>2 DEF Upsert, Without, Single, Same
<1>. QED BY <1>1, <1>2 DEF Single

(* The rows of a shape, and of what it is projected as.                    *)
LEMMA ShapeRows ==
  ASSUME NEW t \in Thing, NEW shape \in Shapes[t] \cup {{}}
  PROVE  /\ \A row \in shape : /\ row = [table |-> row.table, key |-> row.key, data |-> row.data]
                               /\ row.table \in Tables /\ row.key[1] = t
         /\ Single(shape)
         /\ Kind[t] = "route" /\ shape # {} => \E row \in shape : row.table = "rule"
BY ProjectionAssumption DEF Single, Same

LEMMA RoutedRows ==
  ASSUME NEW t \in Thing, NEW shape \in Shapes[t] \cup {{}}
  PROVE  /\ Tabled(Routed(shape)) /\ Single(Routed(shape))
         /\ \A row \in Routed(shape) : row.key[1] = t
         /\ shape = {} => Routed(shape) = {}
         /\ Kind[t] = "route" /\ shape # {} => \E row \in Routed(shape) : row.table = "rule"
<1>1. \A row \in Routed(shape) : \E r \in shape :
        row.table = r.table /\ row.key = r.key /\ r.table \in {"gateway", "rule"}
  BY ShapeRows DEF Routed, Reachable
<1>2. ASSUME NEW r \in Routed(shape), NEW s \in Routed(shape), Same(r, s)
      PROVE  r = s
  <2>. DEFINE G == {[x EXCEPT !.data = UNION {g.data : g \in Gateway(x.key[2])}] : x \in Reachable(shape)}
              D == {g.key[2] : g \in G}
  <2>1. Routed(shape) = G \cup {[x EXCEPT !.data = D] : x \in {y \in shape : y.table = "rule"}}
    BY DEF Routed
  <2>4. \A x \in G : x.table = "gateway"
    BY ShapeRows DEF Reachable
  <2>2. CASE r.table = "gateway"
    <3>1. PICK x \in Reachable(shape) : r = [x EXCEPT !.data = UNION {g.data : g \in Gateway(x.key[2])}]
      BY <2>1, <2>2, ShapeRows
    <3>2. PICK y \in Reachable(shape) : s = [y EXCEPT !.data = UNION {g.data : g \in Gateway(y.key[2])}]
      BY <2>1, <2>2, <1>2, ShapeRows DEF Same
    <3>3. Same(x, y) /\ x \in shape /\ y \in shape
      BY <3>1, <3>2, <1>2, ShapeRows DEF Same, Reachable
    <3>. QED BY <3>1, <3>2, <3>3, ShapeRows DEF Single
  <2>3. CASE r.table # "gateway"
    <3>. HIDE DEF G, D
    <3>1. PICK x \in shape : x.table = "rule" /\ r = [x EXCEPT !.data = D]
      BY <2>1, <2>3, <2>4
    <3>2. PICK y \in shape : y.table = "rule" /\ s = [y EXCEPT !.data = D]
      BY <2>1, <2>3, <2>4, <1>2 DEF Same
    <3>3. Same(x, y)
      BY <3>1, <3>2, <1>2, ShapeRows DEF Same
    <3>. QED BY <3>1, <3>2, <3>3, ShapeRows DEF Single
  <2>. QED BY <2>2, <2>3
<1>3. ASSUME Kind[t] = "route", shape # {}
      PROVE  \E row \in Routed(shape) : row.table = "rule"
  <2>1. PICK x \in shape : x.table = "rule"
    BY <1>3, ShapeRows
  <2>. DEFINE G == {[y EXCEPT !.data = UNION {g.data : g \in Gateway(y.key[2])}] : y \in Reachable(shape)}
  <2>2. [x EXCEPT !.data = {g.key[2] : g \in G}] \in Routed(shape)
    BY <2>1 DEF Routed
  <2>. QED BY <2>1, <2>2, ShapeRows
<1>4. Tabled(Routed(shape)) /\ \A row \in Routed(shape) : row.key[1] = t
  BY <1>1, ShapeRows DEF Tabled, Tables
<1>5. shape = {} => Routed(shape) = {}
  BY <1>1
<1>. QED BY <1>2, <1>3, <1>4, <1>5 DEF Single

LEMMA ProjectsRows ==
  ASSUME NEW t \in Thing, NEW new \in Shapes[t] \cup {{}}
  PROVE  /\ Tabled(Projects(t, new)) /\ Single(Projects(t, new))
         /\ \A row \in Projects(t, new) : row.key[1] = t
         /\ new = {} => Projects(t, new) = {}
         /\ Kind[t] = "route" /\ new # {} => \E row \in Projects(t, new) : row.table = "rule"
<1>1. CASE Kind[t] = "route"
  BY <1>1, RoutedRows DEF Projects
<1>2. CASE Kind[t] = "emergency"
  BY <1>2, RoutedRows DEF Projects, RoutedEmergency, Tabled, Single
<1>3. CASE Kind[t] \notin {"route", "emergency"}
  BY <1>3, ShapeRows DEF Projects, Tabled, Single
<1>. QED BY <1>1, <1>2, <1>3

-----------------------------------------------------------------------------
(* What is fetched is gone only when it is deleted.                        *)
LEMMA GoneIsDeleted ==
  ASSUME InHand, IdsUsedOnce, NEW w \in Worker, Busy(w), job[w].new = {},
         Kind[job[w].thing] # "handling"
  PROVE  job[w].thing \in deleted
BY DEF InHand, Hands, IdsUsedOnce

(* The rules of a route that stands are cleared by its own consumer only,  *)
(* and when it is gone.                                                    *)
LEMMA ClearsRules ==
  ASSUME ProjectionShape, InHand, IdsUsedOnce, NEW w \in Worker, Busy(w),
         NEW t \in OfKind("route"), Spared(t), NEW g \in Clears(job[w].thing, job[w].new),
         NEW r \in RulesOf(t), Same(r, g)
  PROVE  job[w].thing = t /\ job[w].new = {}
<1>. DEFINE x == job[w].thing
            new == job[w].new
<1>1. x \in Thing /\ g.table = "rule" /\ g.key[1] = t /\ t \in Thing /\ Kind[t] = "route"
  BY DEF ProjectionShape, RulesOf, Same, OfKind
<1>2. \A y \in Thing : \A row \in model[y] : row.key[1] = y
  BY ShapeRows DEF ProjectionShape
<1>3. \A y \in Thing : g \notin Synthesized(y) /\ (g \in RulesOf(y) => y = t)
  BY <1>1 DEF Synthesized, RulesOf
<1>4. CASE Kind[x] = "extension"
  BY <1>4, <1>1, <1>2, WithoutKeeps DEF Clears, ExtensionClears
<1>5. CASE Kind[x] = "trunk"
  BY <1>5, <1>1, <1>2, WithoutKeeps DEF Clears, TrunkClears
<1>6. CASE Kind[x] = "route"
  BY <1>6, <1>1, <1>3 DEF Clears, RouteClears
<1>7. CASE Kind[x] = "emergency"
  BY <1>7, <1>1, <1>3 DEF Clears, EmergencyClears
<1>8. CASE Kind[x] = "tenant"
  <2>1. g \in TenantClears(x, new)
    BY <1>8 DEF Clears
  <2>2. CASE new # {}
    BY <2>1, <2>2, <1>8, <1>1, <1>2, WithoutKeeps DEF TenantClears
  <2>3. CASE new = {}
    <3>1. PICK y \in Belongs[x] \cup {x} :
            g \in IF y \in Routing THEN Synthesized(y) \cup RulesOf(y) ELSE model[y]
      BY <2>1, <2>3 DEF TenantClears, Purged
    <3>2. y \in Thing
      BY <3>1, <1>1, ProjectionAssumption
    <3>3. y = t
      BY <3>1, <3>2, <1>1, <1>2, <1>3
    <3>4. x \in deleted
      BY <2>3, <1>8, GoneIsDeleted
    <3>. QED BY <3>1, <3>3, <3>4, <1>1, <1>8 DEF Spared, OfKind
  <2>. QED BY <2>2, <2>3
<1>9. CASE Kind[x] \notin {"extension", "trunk", "route", "emergency", "tenant"}
  BY <1>9 DEF Clears
<1>. QED BY <1>4, <1>5, <1>6, <1>7, <1>8, <1>9

-----------------------------------------------------------------------------
(* Every step keeps the shapes.                                            *)
JobShape == [at : {"idle", "fetched", "cleared", "written"}, event : Nat, thing : Thing, new : Shaped]

LEMMA NoJobShape == NoJob \in JobShape
<1>1. (CHOOSE t \in Thing : TRUE) \in Thing
  BY ProjectionAssumption
<1>2. {} \in Shaped
  BY DEF Shaped
<1>. QED BY <1>1, <1>2 DEF NoJob, JobShape

LEMMA InitShape == ProjectionInit => ProjectionShape
<1>. SUFFICES ASSUME ProjectionInit PROVE ProjectionShape
  OBVIOUS
<1>1. job \in [Worker -> JobShape]
  BY NoJobShape DEF ProjectionInit
<1>2. \A t \in Thing : sync.told[t] = {}
  BY DEF ProjectionInit, NoSync
<1>3. /\ pass.at = "none" /\ pass.listed = {} /\ pass.todo = {}
      /\ pass = [at |-> pass.at, model |-> pass.model, listed |-> pass.listed, read |-> pass.read,
                 todo |-> pass.todo, touched |-> pass.touched]
  BY DEF ProjectionInit, NoPass
<1>4. \A t \in Thing : source[t] = {} /\ model[t] = {}
  BY DEF ProjectionInit
<1>5. Tabled(rows) /\ Tabled(loaded) /\ Single(rows)
  BY DEF ProjectionInit, Tabled, Single
<1>6. deleted = {} /\ changes \in 0..MaxChange /\ failures \in 0..MaxFailure
  BY ProjectionAssumption DEF ProjectionInit
<1>7. sync.on \in BOOLEAN
  BY DEF ProjectionInit, NoSync
<1>8. torn \in BOOLEAN
  BY DEF ProjectionInit
<1>. QED BY <1>1, <1>2, <1>3, <1>4, <1>5, <1>6, <1>7, <1>8 DEF ProjectionShape, JobShape

LEMMA ReloadShape ==
  ASSUME Tabled(rows), Tabled(loaded), NEW tables, Reload(tables)
  PROVE  Tabled(loaded)'
BY DEF Reload, Tabled

LEMMA ChangeShape ==
  ASSUME ProjectionShape, NEW t \in Thing, Change(t)
  PROVE  ProjectionShape'
<1>1. PICK value \in Shapes[t] \cup {{}} :
        /\ source' = [x \in Thing |-> IF x = t THEN value
                                      ELSE IF value = {} /\ x \in Belongs[t] THEN {} ELSE source[x]]
        /\ deleted' = deleted \cup IF value = {} /\ Kind[t] # "handling" THEN {t} \cup Belongs[t] ELSE {}
  BY DEF Change
<1>2. \A x \in Thing : source[x]' \in Shapes[x] \cup {{}}
  BY <1>1 DEF ProjectionShape
<1>3. deleted' \subseteq Thing /\ changes' \in 0..MaxChange
  BY <1>1, ProjectionAssumption DEF ProjectionShape, Change
<1>. QED BY <1>2, <1>3 DEF ProjectionShape, Change, opensips, Tabled, Single, Same

LEMMA HandleShape ==
  ASSUME ProjectionShape, EventsNumbered, NEW w \in Worker, NEW e \in pending, Handle(w, e)
  PROVE  ProjectionShape'
<1>. DEFINE new == IF e.gone \/ Kind[e.thing] = "tenant" THEN e.says ELSE source[e.thing]
            next == [at |-> "fetched", event |-> e.n, thing |-> e.thing, new |-> new]
<1>1. e.n \in Nat /\ e.thing \in Thing /\ new \in Shapes[e.thing] \cup {{}}
  BY DEF EventsNumbered, EventShape, ProjectionShape
<1>2. next \in JobShape
  <2>1. new \in Shaped
    BY <1>1 DEF Shaped
  <2>. HIDE DEF new
  <2>. QED BY <1>1, <2>1 DEF JobShape
<1>3. job' \in [Worker -> JobShape]
  BY <1>2 DEF Handle, ProjectionShape, JobShape
<1>. QED BY <1>3 DEF ProjectionShape, JobShape, Handle, config, opensips, Tabled, Single, Same

LEMMA ClearShape ==
  ASSUME ProjectionShape, NEW w \in Worker, Clear(w)
  PROVE  ProjectionShape'
<1>1. Tabled(rows') /\ Single(rows')
  BY WithoutKeeps DEF Clear, ProjectionShape
<1>2. job' \in [Worker -> JobShape]
  BY DEF Clear, ProjectionShape, JobShape
<1>. QED BY <1>1, <1>2 DEF ProjectionShape, JobShape, Clear, config, events, Tabled, Single, Same

LEMMA WriteShape ==
  ASSUME ProjectionShape, InHand, NEW w \in Worker, Write(w)
  PROVE  ProjectionShape'
<1>1. job[w].thing \in Thing /\ job[w].new \in Shapes[job[w].thing] \cup {{}}
  BY DEF ProjectionShape, InHand, Write, Busy
<1>2. Tabled(rows') /\ Single(rows')
  BY <1>1, UpsertKeeps, ProjectsRows DEF Write, ProjectionShape
<1>3. job' \in [Worker -> JobShape]
  BY DEF Write, ProjectionShape, JobShape
<1>. QED BY <1>2, <1>3 DEF ProjectionShape, JobShape, Write, config, events, Tabled, Single, Same

LEMMA FinishShape ==
  ASSUME ProjectionShape, InHand, NEW w \in Worker, Finish(w)
  PROVE  ProjectionShape'
<1>1. job[w].thing \in Thing /\ job[w].new \in Shapes[job[w].thing] \cup {{}}
  BY DEF ProjectionShape, InHand, Finish, Busy
<1>2. \A t \in Thing : model[t]' \in Shapes[t] \cup {{}}
  BY <1>1 DEF Finish, Saved, ProjectionShape
<1>3. Tabled(loaded)'
  BY ReloadShape DEF Finish, ProjectionShape
<1>4. job' \in [Worker -> JobShape]
  BY NoJobShape DEF Finish, ProjectionShape, JobShape
<1>. QED BY <1>2, <1>3, <1>4 DEF ProjectionShape, JobShape, Finish, config, Tabled, Single, Same

LEMMA FailShape ==
  ASSUME ProjectionShape, NEW w \in Worker, Fail(w)
  PROVE  ProjectionShape'
<1>1. job' \in [Worker -> JobShape]
  BY NoJobShape DEF Fail, ProjectionShape, JobShape
<1>2. failures' \in 0..MaxFailure
  BY ProjectionAssumption DEF Fail, ProjectionShape
<1>. QED BY <1>1, <1>2 DEF ProjectionShape, JobShape, Fail, config, opensips, Tabled, Single, Same

-----------------------------------------------------------------------------
(* The steps of the passes, which leave the rest alone but for the call    *)
(* handling.                                                               *)
PassStep == Reconciling \/ FailPass \/ AskHandling \/ SyncHandling

LEMMA PassLeaves ==
  ASSUME ProjectionShape, PassStep
  PROVE  /\ UNCHANGED <<source, changes, deleted, pending, job>>
         /\ failures' = failures \/ failures' = failures + 1
         /\ \A t \in Thing : Kind[t] # "handling" => model[t]' = model[t]
         /\ \A t \in Thing : RulesOf(t)' = RulesOf(t)
<1>1. CASE \E r \in pass.todo : Repair(r)
  <2>1. PICK r \in pass.todo : Repair(r)
    BY <1>1
  <2>2. r.table # "rule" /\ Repaired(r).table # "rule"
    BY DEF ProjectionShape, Compared, Repaired
  <2>3. \A t \in Thing : RulesOf(t)' = RulesOf(t)
    BY <2>1, <2>2 DEF Repair, RulesOf, Upsert, Without, Same
  <2>. QED BY <2>1, <2>3 DEF Repair, config, events
<1>2. CASE SyncHandling
  BY <1>2 DEF SyncHandling, config, events, opensips, RulesOf
<1>3. CASE BeginPass \/ Compare \/ FinishPass \/ (\E what \in {"model", "rows"} : Read(what))
             \/ FailPass \/ AskHandling
  BY <1>3 DEF BeginPass, Compare, FinishPass, Read, FailPass, AskHandling, config, events, opensips, RulesOf
<1>. QED BY <1>1, <1>2, <1>3 DEF PassStep, Reconciling

LEMMA PassShape ==
  ASSUME ProjectionShape, PassStep
  PROVE  ProjectionShape'
<1>. USE DEF ProjectionShape
<1>1. CASE BeginPass
  BY <1>1 DEF BeginPass, NoPass, config, events, opensips, Tabled, Single, Same
<1>2. CASE Compare
  <2>1. \A r \in Drift : r.table \in Compared
    BY DEF Drift, OnlyMissing, Without, Desired
  <2>. QED BY <1>2, <2>1 DEF Compare, config, events, opensips, Tabled, Single, Same
<1>3. CASE FinishPass
  <2>1. Tabled(loaded)'
    BY <1>3, ReloadShape DEF FinishPass
  <2>. QED BY <1>3, <2>1 DEF FinishPass, NoPass, config, events, Tabled, Single, Same
<1>4. CASE \E what \in {"model", "rows"} : Read(what)
  <2>1. /\ pass'.at = "reading" /\ pass'.todo = pass.todo
        /\ pass' = [at |-> pass'.at, model |-> pass'.model, listed |-> pass'.listed, read |-> pass'.read,
                    todo |-> pass'.todo, touched |-> pass'.touched]
    BY <1>4 DEF Read
  <2>2. pass'.listed = pass.listed \/ pass'.listed = {r \in rows : r.table \in Compared}
    BY <1>4 DEF Read
  <2>3. \A r \in pass'.listed \cup pass'.todo : r.table \in Compared
    BY <2>1, <2>2
  <2>. QED BY <1>4, <2>1, <2>3 DEF Read, config, events, opensips, Tabled, Single, Same
<1>5. CASE \E r \in pass.todo : Repair(r)
  <2>1. PICK r \in pass.todo : Repair(r)
    BY <1>5
  <2>2. Tabled({Repaired(r)}) /\ Single({Repaired(r)})
    BY DEF Tabled, Single, Compared, Tables, Repaired
  <2>3. Tabled(rows') /\ Single(rows')
    BY <2>1, <2>2, UpsertKeeps, WithoutKeeps DEF Repair
  <2>4. torn' \in BOOLEAN
    BY <2>1 DEF Repair
  <2>. QED BY <2>1, <2>3, <2>4 DEF Repair, config, events, Tabled, Single, Same
<1>6. CASE FailPass
  <2>1. failures' \in 0..MaxFailure
    BY <1>6, ProjectionAssumption DEF FailPass
  <2>2. torn' \in BOOLEAN
    BY <1>6 DEF FailPass
  <2>. QED BY <1>6, <2>1, <2>2 DEF FailPass, NoPass, config, opensips, Tabled, Single, Same
<1>7. CASE AskHandling
  BY <1>7 DEF AskHandling, config, events, opensips, Tabled, Single, Same
<1>8. CASE SyncHandling
  BY <1>8 DEF SyncHandling, NoSync, config, events, opensips, Tabled, Single, Same
<1>. QED BY <1>1, <1>2, <1>3, <1>4, <1>5, <1>6, <1>7, <1>8 DEF PassStep, Reconciling

-----------------------------------------------------------------------------
(* A step at the tables alone, of a handler or a pass.                     *)
LEMMA WorkUnchanged ==
  ASSUME EventsNumbered, InHand, IdsUsedOnce, ModelFollows, InTurn,
         UNCHANGED <<source, changes, deleted, pending>>, failures' = 0 => failures = 0,
         \A t \in Thing : Kind[t] # "handling" => model[t]' = model[t],
         \A w \in Worker : /\ Busy(w)' <=> Busy(w)
                           /\ job[w].thing' = job[w].thing /\ job[w].event' = job[w].event
                           /\ job[w].new' = job[w].new
  PROVE  EventsNumbered' /\ InHand' /\ IdsUsedOnce' /\ ModelFollows' /\ InTurn'
<1>1. EventsNumbered'
  BY DEF EventsNumbered, EventShape
<1>2. InHand'
  BY DEF InHand, Hands
<1>3. IdsUsedOnce'
  BY DEF IdsUsedOnce
<1>4. ModelFollows'
  BY DEF ModelFollows, Spared, Fetched, Fresh, JobOf
<1>5. InTurn'
  BY DEF InTurn, Told, OfKind
<1>. QED BY <1>1, <1>2, <1>3, <1>4, <1>5

LEMMA PassKeeps ==
  ASSUME ProjectionInv, PassStep
  PROVE  ProjectionInv'
<1>. USE DEF ProjectionInv
<1>1. ProjectionShape'
  BY PassShape
<1>2. failures' = 0 => failures = 0
  BY PassLeaves DEF ProjectionShape
<1>3. EventsNumbered' /\ InHand' /\ IdsUsedOnce' /\ ModelFollows' /\ InTurn'
  BY <1>2, PassLeaves, WorkUnchanged DEF Busy
<1>4. RulesFollow'
  BY PassLeaves DEF RulesFollow, RulesWritten, RulesRemoved, Spared, JobOf, Busy, OfKind
<1>. QED BY <1>1, <1>3, <1>4

(* Clear takes the rules of what is gone.                                  *)
LEMMA ClearKeeps ==
  ASSUME ProjectionInv, OneCopy, NEW w \in Worker, Clear(w)
  PROVE  ProjectionInv'
<1>. USE DEF ProjectionInv
<1>1. Busy(w) /\ job[w].at = "fetched" /\ job[w].thing \in Thing
  BY DEF Clear, Busy, ProjectionShape
<1>2. /\ UNCHANGED <<source, changes, deleted, pending, failures, model>>
      /\ \A v \in Worker : v # w => job[v]' = job[v]
      /\ job[w]' = [job[w] EXCEPT !.at = "cleared"]
  BY DEF Clear, config, events, ProjectionShape
<1>3. \A v \in Worker : /\ Busy(v)' <=> Busy(v)
                        /\ job[v].thing' = job[v].thing /\ job[v].event' = job[v].event
                        /\ job[v].new' = job[v].new
  BY <1>1, <1>2 DEF Busy, ProjectionShape
<1>4. ProjectionShape'
  BY ClearShape
<1>5. EventsNumbered' /\ InHand' /\ IdsUsedOnce' /\ ModelFollows' /\ InTurn'
  BY <1>2, <1>3, WorkUnchanged
<1>6. ASSUME NEW t \in OfKind("route"), Spared(t)'
      PROVE  RulesWritten(t)' /\ RulesRemoved(t)'
  <2>1. t \in Thing /\ Kind[t] = "route" /\ Spared(t) /\ RulesWritten(t) /\ RulesRemoved(t)
    BY <1>2, <1>6 DEF OfKind, Spared, RulesFollow
  <2>2. RulesOf(t)' \subseteq RulesOf(t)
    BY DEF Clear, RulesOf, Without
  <2>3. job[w].thing = t /\ job[w].new = {} => RulesOf(t)' = {}
    <3>. SUFFICES ASSUME job[w].thing = t, job[w].new = {} PROVE RulesOf(t)' = {}
      OBVIOUS
    <3>1. RulesOf(t) \subseteq Clears(job[w].thing, job[w].new)
      BY <2>1 DEF Clears, RouteClears
    <3>. QED BY <3>1 DEF Clear, RulesOf, Without, Same
  <2>4. ~(job[w].thing = t /\ job[w].new = {}) => RulesOf(t)' = RulesOf(t)
    BY <1>1, <2>1, <2>2, ClearsRules DEF Clear, RulesOf, Without
  <2>5. job[w].thing = t /\ job[w].new = {} => t \in deleted
    BY <1>1, <2>1, GoneIsDeleted
  <2>6. RulesWritten(t)'
    <3>. SUFFICES ASSUME t \notin deleted
                  PROVE  /\ model[t]' # {} => RulesOf(t)' # {}
                         /\ \A v \in Worker : (JobOf(v, t) /\ job[v].at = "written" /\ job[v].new # {})'
                                                => RulesOf(t)' # {}
      BY <1>2 DEF RulesWritten
    <3>1. RulesOf(t)' = RulesOf(t)
      BY <2>4, <2>5
    <3>2. job[w].at' = "cleared"
      BY <1>2 DEF ProjectionShape
    <3>. QED BY <1>2, <1>3, <2>1, <3>1, <3>2 DEF RulesWritten, JobOf
  <2>7. \A v \in Worker : (JobOf(v, t) /\ job[v].at \in {"cleared", "written"} /\ job[v].new = {})'
                            => RulesOf(t)' = {}
    BY <1>1, <1>2, <1>3, <2>1, <2>2, <2>3 DEF RulesRemoved, JobOf, Busy
  <2>8. RulesRemoved(t)'
    BY <1>2, <1>3, <2>1, <2>2, <2>7 DEF RulesRemoved, JobOf
  <2>. QED BY <2>6, <2>8
<1>. QED BY <1>4, <1>5, <1>6 DEF RulesFollow

(* Write puts the rule of what is there.                                   *)
LEMMA WriteKeeps ==
  ASSUME ProjectionInv, OneCopy, NEW w \in Worker, Write(w)
  PROVE  ProjectionInv'
<1>. USE DEF ProjectionInv
<1>. DEFINE x == job[w].thing
            new == job[w].new
<1>1. Busy(w) /\ job[w].at = "cleared" /\ x \in Thing /\ new \in Shapes[x] \cup {{}}
  BY DEF Write, Busy, ProjectionShape, InHand
<1>2. /\ UNCHANGED <<source, changes, deleted, pending, failures, model>>
      /\ \A v \in Worker : v # w => job[v]' = job[v]
      /\ job[w]' = [job[w] EXCEPT !.at = "written"]
  BY DEF Write, config, events, ProjectionShape
<1>3. \A v \in Worker : /\ Busy(v)' <=> Busy(v)
                        /\ job[v].thing' = job[v].thing /\ job[v].event' = job[v].event
                        /\ job[v].new' = job[v].new
  BY <1>1, <1>2 DEF Busy, ProjectionShape
<1>4. ProjectionShape'
  BY WriteShape
<1>5. EventsNumbered' /\ InHand' /\ IdsUsedOnce' /\ ModelFollows' /\ InTurn'
  BY <1>2, <1>3, WorkUnchanged
<1>6. ASSUME NEW t \in OfKind("route"), Spared(t)'
      PROVE  RulesWritten(t)' /\ RulesRemoved(t)'
  <2>1. t \in Thing /\ Kind[t] = "route" /\ Spared(t) /\ RulesWritten(t) /\ RulesRemoved(t)
    BY <1>2, <1>6 DEF OfKind, Spared, RulesFollow
  <2>2. x # t \/ new = {} => RulesOf(t)' = RulesOf(t)
    <3>. SUFFICES ASSUME x # t \/ new = {} PROVE RulesOf(t)' = RulesOf(t)
      OBVIOUS
    <3>1. \A row \in Projects(x, new) : row.key[1] # t
      BY <1>1, ProjectsRows
    <3>. QED BY <3>1 DEF Write, RulesOf, Upsert, Without, Same
  <2>3. x = t /\ new # {} => RulesOf(t)' # {}
    <3>. SUFFICES ASSUME x = t, new # {} PROVE RulesOf(t)' # {}
      OBVIOUS
    <3>1. PICK row \in Projects(x, new) : row.table = "rule" /\ row.key[1] = t
      BY <1>1, <2>1, ProjectsRows
    <3>. QED BY <3>1 DEF Write, RulesOf, Upsert
  <2>4. x = t /\ new = {} => t \in deleted /\ RulesOf(t) = {}
    BY <1>1, <2>1, GoneIsDeleted DEF RulesRemoved, JobOf
  <2>5. \A v \in Worker : JobOf(v, t) => v = w \/ x # t
    BY <1>1, WorkedAlone DEF JobOf
  <2>6. RulesWritten(t)'
    BY <1>1, <1>2, <1>3, <2>1, <2>2, <2>3, <2>4 DEF RulesWritten, JobOf
  <2>7. \A v \in Worker : (JobOf(v, t) /\ job[v].at \in {"cleared", "written"} /\ job[v].new = {})'
                            => RulesOf(t)' = {}
    BY <1>1, <1>2, <1>3, <2>1, <2>2, <2>4, <2>5 DEF RulesRemoved, JobOf
  <2>8. RulesRemoved(t)'
    BY <1>1, <1>2, <1>3, <2>1, <2>2, <2>7 DEF RulesRemoved, JobOf
  <2>. QED BY <2>6, <2>8
<1>. QED BY <1>4, <1>5, <1>6 DEF RulesFollow

-----------------------------------------------------------------------------
(* A change is told by the last event there is.                            *)
LEMMA ChangeKeeps ==
  ASSUME ProjectionInv, NEW t \in Thing, Change(t)
  PROVE  ProjectionInv'
<1>. USE DEF ProjectionInv
<1>1. PICK value \in Shapes[t] \cup {{}} :
        /\ value # {} => t \notin deleted
        /\ source' = [x \in Thing |-> IF x = t THEN value
                                      ELSE IF value = {} /\ x \in Belongs[t] THEN {} ELSE source[x]]
        /\ pending' = pending \cup {Event(t, value)}
        /\ deleted' = deleted \cup IF value = {} /\ Kind[t] # "handling" THEN {t} \cup Belongs[t] ELSE {}
  BY DEF Change
<1>2. /\ changes' = changes + 1 /\ changes \in Nat
      /\ UNCHANGED <<failures, model, rows, job>>
  BY DEF Change, opensips, ProjectionShape
<1>3. PICK new \in {Event(t, value)} :
        /\ new.n = changes + 1 /\ new.thing = t /\ new.says = value /\ new.gone = (value = {})
        /\ new.failed = FALSE
        /\ new = [n |-> new.n, thing |-> new.thing, gone |-> new.gone, says |-> new.says, failed |-> new.failed]
  BY DEF Event
<1>4. \A e \in pending : e.n \in 1..changes /\ e.thing \in Thing
  BY DEF EventsNumbered, EventShape
<1>5. \A w \in Worker : Busy(w) => job[w].event \in 1..changes
  BY <1>4 DEF InHand, Hands
<1>6. \A x \in Thing : source[x]' = IF x = t THEN value
                                    ELSE IF value = {} /\ x \in Belongs[t] THEN {} ELSE source[x]
  BY <1>1
<1>7. \A x \in Belongs[t] : Kind[t] = "tenant" /\ Kind[x] # "tenant"
  BY ProjectionAssumption
<1>8. pending' = pending \cup {new}
  BY <1>1, <1>3
<1>9. \A x \in Thing : Spared(x)' => Spared(x) /\ (x # t => source[x]' = source[x])
  BY <1>1, <1>6, <1>7 DEF Spared, OfKind
<1>10. ProjectionShape'
  BY ChangeShape
<1>11. EventsNumbered'
  <2>1. EventShape(new)'
    <3>1. new.n \in 1..changes' /\ new.thing \in Thing
      BY <1>2, <1>3
    <3>2. new.failed \in BOOLEAN /\ new.says \in Shapes[new.thing] \cup {{}}
      BY <1>3
    <3>3. new.gone <=> new.says = {}
      BY <1>3, Zenon
    <3>. QED BY <1>3, <3>1, <3>2, <3>3, Zenon DEF EventShape
  <2>2. \A e \in pending : EventShape(e)'
    BY <1>2 DEF EventsNumbered, EventShape
  <2>3. \A e \in pending : e.n # new.n
    BY <1>2, <1>3, <1>4
  <2>. QED BY <1>8, <2>1, <2>2, <2>3 DEF EventsNumbered
<1>12. InHand'
  BY <1>2, <1>8 DEF InHand, Hands, Busy
<1>13. IdsUsedOnce'
  <2>1. \A e \in pending' : e.gone /\ Kind[e.thing] # "handling" => e.thing \in deleted'
    BY <1>1, <1>3, <1>8 DEF IdsUsedOnce
  <2>2. \A x \in deleted' : source[x]' = {}
    BY <1>1, <1>6, ProjectionAssumption DEF IdsUsedOnce, ProjectionShape
  <2>3. ASSUME NEW x \in Thing, source[x]' = {}, x \notin deleted', Kind[x] # "handling"
        PROVE  model[x]' = {} /\ \A e \in pending' : e.thing # x
    <3>1. x # t /\ source[x] = {} /\ x \notin deleted
      BY <1>1, <1>6, <1>7, <2>3
    <3>. QED BY <1>2, <1>3, <1>8, <2>3, <3>1 DEF IdsUsedOnce
  <2>. QED BY <2>1, <2>2, <2>3 DEF IdsUsedOnce
<1>14. ModelFollows'
  <2>. SUFFICES ASSUME NEW x \in Thing, Spared(x)', Kind[x] # "tenant"
                PROVE  Fetched(x)'
    BY DEF ModelFollows
  <2>1. CASE x = t
    <3>1. \A w \in Worker : Busy(w) => job[w].event # new.n
      BY <1>2, <1>3, <1>5
    <3>2. Fresh(new)'
      BY <1>2, <3>1 DEF Fresh, Busy
    <3>. QED BY <1>3, <1>6, <1>8, <2>1, <3>2 DEF Fetched
  <2>2. CASE x # t
    BY <1>2, <1>8, <1>9, <2>2 DEF ModelFollows, Fetched, Fresh, Busy, JobOf
  <2>. QED BY <2>1, <2>2
<1>15. InTurn'
  <2>. SUFFICES ASSUME failures = 0
                PROVE  /\ \A e \in pending' : ~e.failed
                       /\ \A w \in Worker : Busy(w) => \A e \in pending' : e.thing \in Feed[w] => job[w].event <= e.n
                       /\ \A x \in OfKind("tenant") : Told(x)'
    BY <1>2 DEF InTurn, Busy, OfKind
  <2>1. \A e \in pending' : ~e.failed
    BY <1>3, <1>8 DEF InTurn
  <2>2. ASSUME NEW w \in Worker, Busy(w), NEW e \in pending', e.thing \in Feed[w]
        PROVE  job[w].event <= e.n
    BY <1>2, <1>3, <1>5, <1>8, <2>2 DEF InTurn
  <2>3. ASSUME NEW x \in OfKind("tenant")
        PROVE  Told(x)'
    <3>1. CASE x = t
      <4>1. \A f \in pending' : f.n <= new.n
        BY <1>2, <1>3, <1>4, <1>8
      <4>. QED BY <1>3, <1>6, <1>8, <3>1, <4>1 DEF Told
    <3>2. CASE x # t
      <4>1. x \in Thing /\ source[x]' = source[x]
        BY <1>6, <1>7, <3>2 DEF OfKind
      <4>2. \A e \in pending' : e.thing = x <=> e \in pending /\ e.thing = x
        BY <1>3, <1>8, <3>2
      <4>. QED BY <1>2, <1>8, <4>1, <4>2 DEF InTurn, Told
    <3>. QED BY <3>1, <3>2
  <2>. QED BY <2>1, <2>2, <2>3
<1>16. RulesFollow'
  <2>. SUFFICES ASSUME NEW x \in OfKind("route"), Spared(x)'
                PROVE  RulesWritten(x)' /\ RulesRemoved(x)'
    BY DEF RulesFollow, OfKind
  <2>1. x \in Thing /\ Kind[x] = "route" /\ RulesWritten(x) /\ RulesRemoved(x)
    BY <1>9 DEF RulesFollow, OfKind
  <2>2. RulesOf(x)' = RulesOf(x)
    BY <1>2 DEF RulesOf
  <2>3. RulesWritten(x)'
    BY <1>1, <1>2, <2>1, <2>2 DEF RulesWritten, JobOf, Busy
  <2>4. source[x]' = {} => \/ \E e \in pending' : e.thing = x /\ e.gone
                           \/ source[x] = {}
    BY <1>3, <1>6, <1>8, <1>9, <2>1
  <2>5. RulesRemoved(x)'
    BY <1>2, <1>8, <2>1, <2>2, <2>4 DEF RulesRemoved, JobOf, Busy
  <2>. QED BY <2>3, <2>5
<1>. QED BY <1>10, <1>11, <1>12, <1>13, <1>14, <1>15, <1>16

-----------------------------------------------------------------------------
(* Handle takes what is configured by now.                                 *)
LEMMA HandleKeeps ==
  ASSUME ProjectionInv, NEW w \in Worker, NEW e \in pending, Handle(w, e)
  PROVE  ProjectionInv'
<1>. USE DEF ProjectionInv
<1>1. PICK new \in {IF e.gone \/ Kind[e.thing] = "tenant" THEN e.says ELSE source[e.thing]} : TRUE
  OBVIOUS
<1>2. /\ ~Busy(w) /\ e.thing \in Feed[w] /\ \A v \in Worker : job[v].event # e.n
      /\ e.failed \/ \A f \in pending : f.thing \in Feed[w] /\ ~f.failed => e.n <= f.n
  BY DEF Handle, Take, Busy
<1>3. UNCHANGED <<source, changes, deleted, failures, model, rows>>
  BY DEF Handle, config, opensips
<1>4. \/ /\ new = {} /\ ~e.gone /\ Kind[e.thing] # "handling"
         /\ pending' = pending \ {e} /\ job' = job
      \/ /\ new = {} => e.gone \/ Kind[e.thing] = "handling"
         /\ job' = [job EXCEPT ![w] = [at |-> "fetched", event |-> e.n, thing |-> e.thing, new |-> new]]
         /\ pending' = pending
  BY <1>1 DEF Handle
<1>5. \A v \in Worker :
        \/ job[v]' = job[v]
        \/ /\ v = w /\ job[w]'.at = "fetched" /\ job[w]'.event = e.n /\ job[w]'.thing = e.thing
           /\ job[w]'.new = new
  BY <1>4 DEF ProjectionShape
<1>6. /\ e.thing \in Thing /\ e.n \in Nat /\ e.says \in Shapes[e.thing] \cup {{}} /\ (e.gone <=> e.says = {})
      /\ new \in Shapes[e.thing] \cup {{}}
  BY <1>1 DEF EventsNumbered, EventShape, ProjectionShape
<1>7. Kind[e.thing] = "tenant" => new = e.says
  BY <1>1
<1>8. Kind[e.thing] \notin {"tenant", "handling"} => new = source[e.thing]
  BY <1>1, <1>6 DEF IdsUsedOnce
<1>9. pending' \subseteq pending /\ \A f \in pending : f # e => f \in pending' /\ f.n # e.n
  BY <1>4 DEF EventsNumbered
<1>10. e \in pending' \/ (new = {} /\ ~e.gone /\ Kind[e.thing] \notin {"tenant", "handling"})
  BY <1>4, <1>6, <1>7
<1>11. ProjectionShape'
  BY HandleShape
<1>12. EventsNumbered'
  BY <1>3, <1>9 DEF EventsNumbered, EventShape
<1>13. InHand'
  <2>. SUFFICES ASSUME NEW v \in Worker, Busy(v)'
                PROVE  /\ job[v]'.thing \in Feed[v] /\ job[v]'.new \in Shapes[job[v]'.thing] \cup {{}}
                       /\ \E f \in pending' : Hands(v, f)'
    BY DEF InHand
  <2>1. CASE job[v]' = job[v]
    <3>1. PICK f \in pending : Hands(v, f)
      BY <2>1 DEF InHand, Busy
    <3>2. f \in pending'
      BY <1>2, <1>9, <3>1 DEF Hands
    <3>. QED BY <2>1, <3>1, <3>2 DEF InHand, Busy, Hands
  <2>2. CASE job[v]' # job[v]
    <3>1. e \in pending' /\ (new = {} => e.gone \/ Kind[e.thing] = "handling")
      BY <1>4, <2>2
    <3>2. e.gone => new = {}
      BY <1>1, <1>6
    <3>. QED BY <1>2, <1>5, <1>6, <1>7, <2>2, <3>1, <3>2 DEF Hands
  <2>. QED BY <2>1, <2>2
<1>14. IdsUsedOnce'
  BY <1>3, <1>9 DEF IdsUsedOnce
<1>15. ModelFollows'
  <2>. SUFFICES ASSUME NEW t \in Thing, Spared(t), Kind[t] # "tenant"
                PROVE  Fetched(t)'
    BY <1>3 DEF ModelFollows, Spared, OfKind
  <2>1. e.thing = t => new = source[t]
    BY <1>8 DEF Spared
  <2>2. CASE \E f \in pending : f.thing = t /\ Fresh(f) /\ (source[t] = {} => f.gone)
    <3>1. PICK f \in pending : f.thing = t /\ Fresh(f) /\ (source[t] = {} => f.gone)
      BY <2>2
    <3>2. f \in pending'
      BY <1>9, <1>10, <2>1, <3>1
    <3>3. \A v \in Worker : (Busy(v) /\ job[v].event = f.n)' => job[v]'.new = source[t]
      BY <1>5, <1>9, <2>1, <3>1 DEF Fresh, Busy
    <3>. QED BY <1>3, <3>1, <3>2, <3>3 DEF Fetched, Fresh
  <2>3. CASE model[t] = source[t] /\ \A v \in Worker : JobOf(v, t) => job[v].new = source[t]
    BY <1>3, <1>5, <2>1, <2>3 DEF Fetched, JobOf, Busy
  <2>. QED BY <2>2, <2>3 DEF ModelFollows, Fetched
<1>16. InTurn'
  <2>. SUFFICES ASSUME failures = 0
                PROVE  /\ \A f \in pending' : ~f.failed
                       /\ \A v \in Worker : Busy(v)' =>
                            \A f \in pending' : f.thing \in Feed[v] => job[v]'.event <= f.n
                       /\ \A t \in OfKind("tenant") : Told(t)'
    BY <1>3 DEF InTurn, OfKind
  <2>1. \A f \in pending' : ~f.failed
    BY <1>9 DEF InTurn
  <2>2. ASSUME NEW v \in Worker, Busy(v)', NEW f \in pending', f.thing \in Feed[v]
        PROVE  job[v]'.event <= f.n
    <3>1. CASE job[v]' = job[v]
      BY <1>9, <2>2, <3>1 DEF InTurn, Busy
    <3>2. CASE job[v]' # job[v]
      BY <1>2, <1>5, <1>9, <2>2, <3>2 DEF InTurn
    <3>. QED BY <3>1, <3>2
  <2>3. ASSUME NEW t \in OfKind("tenant")
        PROVE  Told(t)'
    <3>1. \A f \in pending : f.thing = t => f \in pending'
      BY <1>9, <1>10 DEF OfKind
    <3>. QED BY <1>3, <1>9, <3>1 DEF InTurn, Told
  <2>. QED BY <2>1, <2>2, <2>3
<1>17. RulesFollow'
  <2>. SUFFICES ASSUME NEW t \in OfKind("route"), Spared(t)
                PROVE  RulesWritten(t)' /\ RulesRemoved(t)'
    BY <1>3 DEF RulesFollow, OfKind, Spared
  <2>1. t \in Thing /\ Kind[t] = "route" /\ RulesWritten(t) /\ RulesRemoved(t)
    BY DEF RulesFollow, OfKind
  <2>2. RulesOf(t)' = RulesOf(t)
    BY <1>3 DEF RulesOf
  <2>3. RulesWritten(t)'
    BY <1>3, <1>5, <2>1, <2>2 DEF RulesWritten, JobOf, Busy
  <2>4. \A v \in Worker : (JobOf(v, t) /\ job[v].at \in {"cleared", "written"} /\ job[v].new = {})'
                            => RulesOf(t)' = {}
    BY <1>5, <2>1, <2>2 DEF RulesRemoved, JobOf, Busy
  <2>5. \A f \in pending : f.thing = t /\ f.gone => f \in pending'
    BY <1>9, <1>10
  <2>6. source[t] = {} => \A v \in Worker : JobOf(v, t)' =>
                          (JobOf(v, t) /\ job[v]' = job[v]) \/ job[v]'.new = {}
    BY <1>5, <1>8, <2>1 DEF JobOf, Busy
  <2>7. RulesRemoved(t)'
    BY <1>3, <2>1, <2>2, <2>4, <2>5, <2>6 DEF RulesRemoved
  <2>. QED BY <2>3, <2>7
<1>. QED BY <1>11, <1>12, <1>13, <1>14, <1>15, <1>16, <1>17

-----------------------------------------------------------------------------
(* Finish saves what was taken.                                            *)
LEMMA FinishKeeps ==
  ASSUME ProjectionInv, OneCopy, NEW w \in Worker, Finish(w)
  PROVE  ProjectionInv'
<1>. USE DEF ProjectionInv
<1>1. Busy(w) /\ job[w].at = "written" /\ job[w].thing \in Thing
  BY DEF Finish, Busy, ProjectionShape
<1>2. PICK e \in pending : Hands(w, e)
  BY <1>1 DEF InHand
<1>3. PICK new \in {job[w].new} : new = job[w].new
  OBVIOUS
<1>4. e.n = job[w].event /\ e.thing = job[w].thing /\ e.thing \in Thing
  BY <1>1, <1>2 DEF Hands
<1>5. UNCHANGED <<source, changes, deleted, failures, rows>>
  BY DEF Finish, config
<1>6. \A f \in pending : f \in pending' <=> f # e
  BY <1>4 DEF Finish, EventsNumbered
<1>7. pending' \subseteq pending
  BY DEF Finish
<1>8. ~Busy(w)' /\ \A v \in Worker : v # w => job[v]' = job[v]
  BY DEF Finish, Busy, NoJob, ProjectionShape
<1>9. \A v \in Worker : Busy(v)' => v # w /\ job[v]' = job[v] /\ Busy(v) /\ job[v].event # e.n /\ job[v].thing # e.thing
  BY <1>1, <1>4, <1>8, HandledAlone, WorkedAlone DEF Busy
<1>10. \A t \in Thing : model[t]' = IF t = e.thing THEN new
                                    ELSE IF Kind[e.thing] = "tenant" /\ new = {} /\ t \in Belongs[e.thing] THEN {}
                                    ELSE model[t]
  BY <1>3, <1>4 DEF Finish, Saved
<1>11. new = {} /\ Kind[e.thing] # "handling" => e.gone /\ e.thing \in deleted
  BY <1>2, <1>3 DEF Hands, IdsUsedOnce
<1>12. ProjectionShape'
  BY FinishShape
<1>13. EventsNumbered'
  BY <1>5, <1>7 DEF EventsNumbered, EventShape
<1>14. InHand'
  <2>. SUFFICES ASSUME NEW v \in Worker, Busy(v)'
                PROVE  /\ job[v]'.thing \in Feed[v] /\ job[v]'.new \in Shapes[job[v]'.thing] \cup {{}}
                       /\ \E f \in pending' : Hands(v, f)'
    BY DEF InHand
  <2>1. PICK f \in pending : Hands(v, f)
    BY <1>9 DEF InHand
  <2>2. f \in pending'
    BY <1>6, <1>9, <2>1 DEF Hands
  <2>. QED BY <1>9, <2>1, <2>2 DEF InHand, Hands
<1>15. IdsUsedOnce'
  BY <1>2, <1>5, <1>7, <1>10 DEF IdsUsedOnce
<1>16. ModelFollows'
  <2>. SUFFICES ASSUME NEW t \in Thing, Spared(t), Kind[t] # "tenant"
                PROVE  Fetched(t)'
    BY <1>5 DEF ModelFollows, Spared, OfKind
  <2>1. t # e.thing => model[t]' = model[t]
    BY <1>4, <1>10, <1>11 DEF Spared, OfKind
  <2>2. CASE \E f \in pending : f.thing = t /\ Fresh(f) /\ (source[t] = {} => f.gone)
    <3>1. PICK f \in pending : f.thing = t /\ Fresh(f) /\ (source[t] = {} => f.gone)
      BY <2>2
    <3>2. CASE f = e
      <4>1. model[t]' = source[t]
        BY <1>1, <1>3, <1>4, <1>10, <3>1, <3>2 DEF Fresh
      <4>. QED BY <1>5, <1>9, <3>1, <3>2, <4>1 DEF Fetched, JobOf
    <3>3. CASE f # e
      BY <1>5, <1>6, <1>9, <3>1, <3>3 DEF Fetched, Fresh
    <3>. QED BY <3>2, <3>3
  <2>3. CASE model[t] = source[t] /\ \A v \in Worker : JobOf(v, t) => job[v].new = source[t]
    <3>1. model[t]' = source[t]
      BY <1>1, <1>3, <1>4, <1>10, <2>1, <2>3 DEF JobOf
    <3>. QED BY <1>5, <1>9, <2>3, <3>1 DEF Fetched, JobOf
  <2>. QED BY <2>2, <2>3 DEF ModelFollows, Fetched
<1>17. InTurn'
  <2>. SUFFICES ASSUME failures = 0
                PROVE  /\ \A f \in pending' : ~f.failed
                       /\ \A v \in Worker : Busy(v)' =>
                            \A f \in pending' : f.thing \in Feed[v] => job[v]'.event <= f.n
                       /\ \A t \in OfKind("tenant") : Told(t)'
    BY <1>5 DEF InTurn, OfKind
  <2>1. \A f \in pending' : ~f.failed
    BY <1>7 DEF InTurn
  <2>2. ASSUME NEW v \in Worker, Busy(v)', NEW f \in pending', f.thing \in Feed[v]
        PROVE  job[v]'.event <= f.n
    BY <1>7, <1>9, <2>2 DEF InTurn
  <2>3. ASSUME NEW t \in OfKind("tenant")
        PROVE  Told(t)'
    <3>1. t \in Thing /\ Kind[t] = "tenant" /\ Told(t)
      BY DEF InTurn, OfKind
    <3>2. CASE t = e.thing
      <4>1. new = e.says
        BY <1>2, <1>3, <3>1, <3>2 DEF Hands
      <4>2. \A f \in pending : f.thing = t => e.n <= f.n /\ f.n \in Nat
        BY <1>1, <1>4, <3>2 DEF InTurn, InHand, EventsNumbered, EventShape
      <4>3. PICK f \in pending : f.thing = t /\ f.says = source[t] /\ \A g \in pending : g.thing = t => g.n <= f.n
        BY <3>1, <3>2 DEF Told
      <4>4. CASE f = e
        <5>1. \A g \in pending : g.thing = t => g = e
          BY <3>2, <4>2, <4>3, <4>4 DEF EventsNumbered
        <5>. QED BY <1>5, <1>6, <1>7, <1>10, <3>1, <3>2, <4>1, <4>3, <4>4, <5>1 DEF Told
      <4>5. CASE f # e
        BY <1>5, <1>6, <1>7, <4>3, <4>5 DEF Told
      <4>. QED BY <4>4, <4>5
    <3>3. CASE t # e.thing
      <4>1. model[t]' = model[t]
        BY <1>4, <1>10, <3>1, <3>3, ProjectionAssumption
      <4>2. \A f \in pending : f.thing = t => f \in pending'
        BY <1>6, <3>3
      <4>. QED BY <1>5, <1>7, <3>1, <4>1, <4>2 DEF Told
    <3>. QED BY <3>2, <3>3
  <2>. QED BY <2>1, <2>2, <2>3
<1>18. RulesFollow'
  <2>. SUFFICES ASSUME NEW t \in OfKind("route"), Spared(t)
                PROVE  RulesWritten(t)' /\ RulesRemoved(t)'
    BY <1>5 DEF RulesFollow, OfKind, Spared
  <2>1. t \in Thing /\ Kind[t] = "route" /\ RulesWritten(t) /\ RulesRemoved(t)
    BY DEF RulesFollow, OfKind
  <2>2. RulesOf(t)' = RulesOf(t)
    BY <1>5 DEF RulesOf
  <2>3. t \notin deleted => (model[t]' # {} => RulesOf(t)' # {})
    BY <1>1, <1>3, <1>4, <1>10, <2>1, <2>2 DEF RulesWritten, JobOf
  <2>4. RulesWritten(t)'
    BY <1>5, <1>9, <2>1, <2>2, <2>3 DEF RulesWritten, JobOf
  <2>5. e.thing = t /\ e.gone => RulesOf(t) = {} /\ \A v \in Worker : ~JobOf(v, t)'
    BY <1>1, <1>2, <1>4, <1>9, <2>1 DEF RulesRemoved, JobOf, Hands
  <2>6. RulesRemoved(t)'
    BY <1>5, <1>6, <1>9, <2>1, <2>2, <2>5 DEF RulesRemoved, JobOf
  <2>. QED BY <2>4, <2>6
<1>. QED BY <1>12, <1>13, <1>14, <1>15, <1>16, <1>17, <1>18

-----------------------------------------------------------------------------
(* Fail gives an event back, to be handled out of its turn.                *)
LEMMA FailKeeps ==
  ASSUME ProjectionInv, NEW w \in Worker, Fail(w)
  PROVE  ProjectionInv'
<1>. USE DEF ProjectionInv
<1>1. failures' # 0
  BY DEF Fail, ProjectionShape
<1>2. UNCHANGED <<source, changes, deleted, model, rows>>
  BY DEF Fail, config, opensips
<1>3. pending' = {[e EXCEPT !.failed = @ \/ e.n = job[w].event] : e \in pending}
  BY DEF Fail
<1>4. \A e \in pending : \E f \in pending' :
        f.n = e.n /\ f.thing = e.thing /\ f.says = e.says /\ f.gone = e.gone
  <2>. SUFFICES ASSUME NEW e \in pending
                PROVE  LET f == [e EXCEPT !.failed = @ \/ e.n = job[w].event]
                       IN  f.n = e.n /\ f.thing = e.thing /\ f.says = e.says /\ f.gone = e.gone
    BY <1>3
  <2>1. e = [n |-> e.n, thing |-> e.thing, gone |-> e.gone, says |-> e.says, failed |-> e.failed]
    BY DEF EventsNumbered, EventShape
  <2>. QED BY <2>1
<1>5. ASSUME NEW f \in pending'
      PROVE  \E e \in pending :
               /\ f = [n |-> e.n, thing |-> e.thing, gone |-> e.gone, says |-> e.says,
                       failed |-> e.failed \/ e.n = job[w].event]
               /\ EventShape(e)
  <2>1. PICK e \in pending : f = [e EXCEPT !.failed = @ \/ e.n = job[w].event]
    BY <1>3
  <2>2. EventShape(e)
    BY DEF EventsNumbered
  <2>3. e = [n |-> e.n, thing |-> e.thing, gone |-> e.gone, says |-> e.says, failed |-> e.failed]
    BY <2>2 DEF EventShape
  <2>. QED BY <2>1, <2>2, <2>3
<1>6. \A v \in Worker : Busy(v)' => Busy(v) /\ job[v]' = job[v]
  BY DEF Fail, Busy, NoJob, ProjectionShape
<1>7. ProjectionShape'
  BY FailShape
<1>8. EventsNumbered'
  <2>1. ASSUME NEW f \in pending'
        PROVE  EventShape(f)'
    <3>1. PICK e \in pending :
            /\ f = [n |-> e.n, thing |-> e.thing, gone |-> e.gone, says |-> e.says,
                    failed |-> e.failed \/ e.n = job[w].event]
            /\ EventShape(e)
      BY <1>5
    <3>2. f.failed \in BOOLEAN
      BY <3>1
    <3>3. /\ f = [n |-> f.n, thing |-> f.thing, gone |-> f.gone, says |-> f.says, failed |-> f.failed]
          /\ f.n = e.n /\ f.thing = e.thing /\ f.says = e.says /\ f.gone = e.gone
      BY <3>1
    <3>. QED BY <1>2, <3>1, <3>2, <3>3 DEF EventShape
  <2>2. ASSUME NEW f \in pending', NEW g \in pending', f.n = g.n
        PROVE  f = g
    BY <1>5, <2>2 DEF EventsNumbered
  <2>. QED BY <2>1, <2>2 DEF EventsNumbered
<1>9. InHand'
  <2>. SUFFICES ASSUME NEW v \in Worker, Busy(v)'
                PROVE  /\ job[v]'.thing \in Feed[v] /\ job[v]'.new \in Shapes[job[v]'.thing] \cup {{}}
                       /\ \E f \in pending' : Hands(v, f)'
    BY DEF InHand
  <2>1. PICK e \in pending : Hands(v, e)
    BY <1>6 DEF InHand
  <2>2. PICK f \in pending' : f.n = e.n /\ f.thing = e.thing /\ f.says = e.says /\ f.gone = e.gone
    BY <1>4
  <2>3. Hands(v, f)'
    BY <1>6, <2>1, <2>2 DEF Hands
  <2>. QED BY <1>6, <2>3 DEF InHand
<1>10. IdsUsedOnce'
  BY <1>2, <1>5 DEF IdsUsedOnce
<1>11. ModelFollows'
  <2>. SUFFICES ASSUME NEW t \in Thing, Spared(t), Kind[t] # "tenant"
                PROVE  Fetched(t)'
    BY <1>2 DEF ModelFollows, Spared, OfKind
  <2>1. CASE \E e \in pending : e.thing = t /\ Fresh(e) /\ (source[t] = {} => e.gone)
    <3>1. PICK e \in pending : e.thing = t /\ Fresh(e) /\ (source[t] = {} => e.gone)
      BY <2>1
    <3>2. PICK f \in pending' : f.n = e.n /\ f.thing = e.thing /\ f.says = e.says /\ f.gone = e.gone
      BY <1>4
    <3>3. Fresh(f)'
      BY <1>2, <1>6, <3>1, <3>2 DEF Fresh
    <3>. QED BY <1>2, <3>1, <3>2, <3>3 DEF Fetched
  <2>2. CASE model[t] = source[t] /\ \A v \in Worker : JobOf(v, t) => job[v].new = source[t]
    BY <1>2, <1>6, <2>2 DEF Fetched, JobOf
  <2>. QED BY <2>1, <2>2 DEF ModelFollows, Fetched
<1>12. InTurn'
  BY <1>1 DEF InTurn
<1>13. RulesFollow'
  <2>. SUFFICES ASSUME NEW t \in OfKind("route"), Spared(t)
                PROVE  RulesWritten(t)' /\ RulesRemoved(t)'
    BY <1>2 DEF RulesFollow, OfKind, Spared
  <2>1. t \in Thing /\ Kind[t] = "route" /\ RulesWritten(t) /\ RulesRemoved(t)
    BY DEF RulesFollow, OfKind
  <2>2. RulesOf(t)' = RulesOf(t)
    BY <1>2 DEF RulesOf
  <2>3. RulesWritten(t)'
    BY <1>2, <1>6, <2>1, <2>2 DEF RulesWritten, JobOf
  <2>4. RulesRemoved(t)'
    BY <1>2, <1>4, <1>6, <2>1, <2>2 DEF RulesRemoved, JobOf
  <2>. QED BY <2>3, <2>4
<1>. QED BY <1>7, <1>8, <1>9, <1>10, <1>11, <1>12, <1>13

-----------------------------------------------------------------------------
LEMMA ProjectionInvInit == ProjectionInit => ProjectionInv
<1>. SUFFICES ASSUME ProjectionInit PROVE ProjectionInv
  OBVIOUS
<1>1. ProjectionShape
  BY InitShape
<1>2. /\ \A t \in Thing : source[t] = {} /\ model[t] = {}
      /\ deleted = {} /\ pending = {} /\ rows = {}
  BY DEF ProjectionInit
<1>3. \A w \in Worker : ~Busy(w)
  BY DEF ProjectionInit, Busy, NoJob
<1>4. EventsNumbered /\ InHand /\ IdsUsedOnce
  BY <1>2, <1>3 DEF EventsNumbered, InHand, IdsUsedOnce
<1>5. ModelFollows /\ InTurn
  BY <1>2, <1>3 DEF ModelFollows, Fetched, JobOf, InTurn, Told, OfKind
<1>6. RulesFollow
  BY <1>2, <1>3 DEF RulesFollow, RulesWritten, RulesRemoved, RulesOf, JobOf, OfKind
<1>. QED BY <1>1, <1>4, <1>5, <1>6 DEF ProjectionInv

LEMMA ProjectionInvStep ==
  ASSUME OneCopy, ProjectionInv, [ProjectionNext]_projectionVars
  PROVE  ProjectionInv'
<1>1. CASE \E t \in Thing : Change(t)
  BY <1>1, ChangeKeeps
<1>2. CASE \E w \in Worker : Working(w)
  <2>1. PICK w \in Worker : Working(w)
    BY <1>2
  <2>2. CASE \E e \in pending : Handle(w, e)
    BY <2>2, HandleKeeps
  <2>3. CASE Clear(w)
    BY <2>3, ClearKeeps
  <2>4. CASE Write(w)
    BY <2>4, WriteKeeps
  <2>5. CASE Finish(w)
    BY <2>5, FinishKeeps
  <2>. QED BY <2>1, <2>2, <2>3, <2>4, <2>5 DEF Working
<1>3. CASE \E w \in Worker : Fail(w)
  BY <1>3, FailKeeps
<1>4. CASE PassStep
  BY <1>4, PassKeeps
<1>5. CASE UNCHANGED projectionVars
  <2>. USE DEF projectionVars, config, events, opensips
  <2>1. ProjectionShape'
    BY <1>5 DEF ProjectionInv, ProjectionShape, Tabled, Single, Same
  <2>2. EventsNumbered' /\ InHand' /\ IdsUsedOnce' /\ ModelFollows' /\ InTurn'
    BY <1>5, WorkUnchanged DEF ProjectionInv, Busy
  <2>3. RulesFollow'
    BY <1>5 DEF ProjectionInv, RulesFollow, RulesWritten, RulesRemoved, RulesOf, Spared, JobOf, Busy, OfKind
  <2>. QED BY <2>1, <2>2, <2>3 DEF ProjectionInv
<1>. QED BY <1>1, <1>2, <1>3, <1>4, <1>5 DEF ProjectionNext, Projecting, PassStep

(* What the invariant says when every event is acknowledged.               *)
LEMMA ModelStandsThen == ProjectionInv => ModelStands
<1>. SUFFICES ASSUME ProjectionInv PROVE ModelStands
  OBVIOUS
<1>. USE DEF ProjectionInv
<1>1. ProjectionTypeOK
  <2>1. \A t \in Thing : {source[t], model[t]} \ {{}} \subseteq Shapes[t]
    BY DEF ProjectionShape
  <2>2. \A e \in pending : e.n \in 1..MaxChange /\ e.thing \in Thing /\ e.failed \in BOOLEAN
    BY ProjectionAssumption DEF EventsNumbered, EventShape, ProjectionShape
  <2>. QED BY <2>1, <2>2 DEF ProjectionTypeOK, ProjectionShape, Tabled, Single, Same
<1>2. ModelAgrees
  <2>. SUFFICES ASSUME Quiet, NEW t \in Thing, ~Exempt(t)
                PROVE  model[t] = source[t]
    BY DEF ModelAgrees
  <2>1. Spared(t) /\ (Kind[t] = "tenant" => failures = 0)
    BY DEF Exempt, Spared, ProjectionShape
  <2>. QED BY <2>1 DEF Quiet, InTurn, Told, OfKind, ModelFollows, Fetched
<1>3. RulesStand
  <2>. SUFFICES ASSUME Quiet, NEW t \in OfKind("route"), ~Exempt(t)
                PROVE  (RulesOf(t) # {}) <=> (source[t] # {})
    BY DEF RulesStand
  <2>1. t \in Thing /\ Kind[t] = "route" /\ Spared(t)
    BY DEF Exempt, Spared, OfKind
  <2>2. model[t] = source[t]
    BY <1>2, <2>1 DEF ModelAgrees
  <2>3. RulesWritten(t) /\ RulesRemoved(t)
    BY <2>1 DEF RulesFollow
  <2>4. t \in deleted => source[t] = {}
    BY DEF IdsUsedOnce
  <2>. QED BY <2>2, <2>3, <2>4 DEF Quiet, RulesWritten, RulesRemoved
<1>. QED BY <1>1, <1>2, <1>3 DEF ModelStands

(* Whatever is delivered again or out of order, and whatever the passes    *)
(* write between, once every event is acknowledged the read model is what  *)
(* the services have configured, and a route has its rule (consumers/*.ts, *)
(* projection.ts).                                                         *)
THEOREM ModelStandsHolds == ASSUME OneCopy PROVE ProjectionSpec => []ModelStands
<1>1. ProjectionInit => ProjectionInv
  BY ProjectionInvInit
<1>2. ProjectionInv /\ [ProjectionNext]_projectionVars => ProjectionInv'
  BY ProjectionInvStep
<1>3. ProjectionInv => ModelStands
  BY ModelStandsThen
<1>. QED BY <1>1, <1>2, <1>3, PTL DEF ProjectionSpec
=============================================================================
