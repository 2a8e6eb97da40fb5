---------------------------- MODULE NodeCallsProofs ----------------------------
(***************************************************************************)
(* Proofs about CallEvents and NodeDeath, for any replicas and calls: who  *)
(* goes through the calls of a dead node is alone at it and announces no   *)
(* call as lost that is up; and an owner that has caught up has exactly    *)
(* the node's calls in the registry, whoever owned the node before.        *)
(***************************************************************************)
EXTENDS MCNodeCalls, TLAPS

(* A channel has started; it is over.                                      *)
Begun(c) == channel[c] # "none"
Ended(c) == channel[c] \in {"gone", "lost"}

Pieces == {"none", "ringing", "answered", "bridged", "gone", "lost"}
Words  == Kind \cup {"identified", "lost"}

Reads  == {"rows", "create", "update", "ending", "endApply"}
Steps  == {"identify", "peer", "identifyPeer", "write", "apply"}
Named  == {"create", "update", "endApply"}
Stages == {"idle"} \cup Reads \cup Steps

CallsShape ==
  /\ hash \in [Call -> (SUBSET Field) \cup {Absent}] /\ index \subseteq Call
  /\ nodeUp \in BOOLEAN /\ channel \in [Call -> Pieces]
  /\ owner \in Replica \cup {NoOne}
  /\ queue \in [Replica -> Seq(Task)]
  /\ job \in [Process -> Job]
  /\ announced \in [Call -> SUBSET Words]

(* What the registry, the tasks and the reader of a list speak of has      *)
(* started.                                                                *)
RegisteredBegun == \A c \in Call : HasCall(c) \/ c \in index => Begun(c)
TasksBegun ==
  \A r \in Replica : \A i \in 1..Len(queue[r]) : queue[r][i].kind # "sync" => Begun(queue[r][i].call)
JobsBegun ==
  \A r \in Replica : \A c \in Call :
    c \in job[Events(r)].rows \cup job[Events(r)].live \/ c = job[Events(r)].call => Begun(c)

(* A list of the node is read by its owner's sync only, the task in hand,  *)
(* and an event is handled when it is.                                     *)
InHand ==
  \A r \in Replica :
    /\ queue[r] = <<>> => job[Events(r)].at = "idle"
    /\ job[Events(r)].at \in Reads => Head(queue[r]) = Sync
    /\ job[Events(r)].at \in Steps => Head(queue[r]) # Sync
    /\ job[Events(r)].at \in Named => job[Events(r)].call \in Call
NoRebuild == \A r \in Replica : job[Rebuild(r)] = Idle

DownHasNone == ~nodeUp => \A c \in Call : ~Live(c)

CallsInv ==
  /\ CallsShape /\ RegisteredBegun /\ TasksBegun /\ JobsBegun
  /\ InHand /\ NoRebuild /\ DownHasNone

(* The steps of CallEvents but for the loss of the registry and what       *)
(* rebuilds it.                                                            *)
ChannelStep == \E c \in Call : Ring(c) \/ Answer(c) \/ Hangup(c) \/ \E d \in Call : Bridge(c, d)

CallsStep ==
  \/ ChannelStep \/ NodeDies \/ NodeReturns \/ Lose
  \/ \E c \in Call : CallExpires(c)
  \/ \E r \in Replica : Acquire(r) \/ Dies(r) \/ TaskFails(r) \/ QueueStep(r)

-----------------------------------------------------------------------------
(* Sequences of tasks. *)

LEMMA Appended ==
  ASSUME NEW s \in Seq(Task), NEW t \in Task
  PROVE  /\ Append(s, t) \in Seq(Task) /\ Len(Append(s, t)) = Len(s) + 1 /\ Append(s, t) # <<>>
         /\ \A i \in 1..Len(s) : Append(s, t)[i] = s[i]
         /\ Append(s, t)[Len(s) + 1] = t
         /\ s # <<>> => Head(Append(s, t)) = Head(s)
         /\ s = <<>> => Head(Append(s, t)) = t
  OBVIOUS

LEMMA Shortened ==
  ASSUME NEW s \in Seq(Task), s # <<>>
  PROVE  /\ Tail(s) \in Seq(Task) /\ Len(s) \in Nat \ {0} /\ Len(Tail(s)) = Len(s) - 1
         /\ \A i \in 1..Len(Tail(s)) : Tail(s)[i] = s[i + 1]
         /\ Head(s) = s[1] /\ Head(s) \in Task
  OBVIOUS

LEMMA Parts ==
  /\ \A r \in Replica : Events(r) \in Process /\ Rebuild(r) \in Process
  /\ \A r, s \in Replica : Events(r) # Rebuild(s) /\ (Events(r) = Events(s) => r = s)
  /\ Idle \in Job /\ Sync \in Task /\ NoCall \notin Call /\ NoOne \notin Replica
  /\ Idle.at = "idle" /\ Idle.rows = {} /\ Idle.live = {} /\ Idle.call = NoCall
  /\ Sync.kind = "sync" /\ Sync \notin [kind : Kind, call : Call, peer : Call]
<1>1. NoCall \notin Call /\ NoOne \notin Replica
  BY DeathAssumption DEF EventsAssumption
<1>2. Idle \in Job /\ Sync \in Task
  BY DEF Idle, Job, Sync, Task, Field
<1>3. \A r \in Replica : Events(r) \in Process /\ Rebuild(r) \in Process
  BY DEF Events, Rebuild, Process
<1>4. \A r, s \in Replica : Events(r) # Rebuild(s) /\ (Events(r) = Events(s) => r = s)
  BY DEF Events, Rebuild
<1>5. Idle.at = "idle" /\ Idle.rows = {} /\ Idle.live = {} /\ Idle.call = NoCall
  BY DEF Idle
<1>6. Sync.kind = "sync" /\ Sync \notin [kind : Kind, call : Call, peer : Call]
  BY <1>1 DEF Sync, Kind
<1> QED BY <1>1, <1>2, <1>3, <1>4, <1>5, <1>6

LEMMA TasksAre ==
  \A t \in Task : t.kind # "sync" => t.kind \in Kind /\ t.call \in Call /\ t.peer \in Call
  BY DEF Task, Sync

LEMMA SyncIs == \A t \in Task : t.kind = "sync" <=> t = Sync
  BY DEF Task, Sync, Kind

-----------------------------------------------------------------------------
(* Each step keeps CallsInv. *)

(* Steps that leave the channels, the tasks and what is made of them, but  *)
(* that take from the registry.                                            *)
LEMMA RegistryShrinks ==
  ASSUME CallsInv,
         UNCHANGED <<node, owner, queue, job>>,
         announced' \in [Call -> SUBSET Words],
         hash' \in [Call -> (SUBSET Field) \cup {Absent}],
         \A c \in Call : hash'[c] # Absent => hash[c] # Absent,
         index' \subseteq index
  PROVE  CallsInv'
<1> USE DEF node
<1>1. CallsShape'
  BY DEF CallsInv, CallsShape
<1>2. RegisteredBegun'
  BY DEF CallsInv, RegisteredBegun, HasCall, Begun
<1>3. TasksBegun' /\ JobsBegun' /\ InHand' /\ NoRebuild' /\ DownHasNone'
  BY DEF CallsInv, TasksBegun, JobsBegun, InHand, NoRebuild, DownHasNone, Begun, Live
<1> QED BY <1>1, <1>2, <1>3 DEF CallsInv

(* How a channel goes on: what has started stays started, and what is over *)
(* stays over.                                                             *)
GoesOn == \A c \in Call : (Begun(c) => Begun(c)') /\ (Ended(c) => Ended(c)')

LEMMA RaiseQueues ==
  ASSUME CallsShape, InHand, NEW k \in Kind, NEW c \in Call, NEW d \in Call, Raise(k, c, d)
  PROVE  /\ queue' \in [Replica -> Seq(Task)]
         /\ \A r \in Replica :
              /\ r # owner => queue'[r] = queue[r]
              /\ r = owner => /\ Len(queue'[r]) = Len(queue[r]) + 1 /\ queue'[r] # <<>>
                              /\ \A i \in 1..Len(queue[r]) : queue'[r][i] = queue[r][i]
                              /\ queue'[r][Len(queue[r]) + 1] = [kind |-> k, call |-> c, peer |-> d]
                              /\ queue[r] # <<>> => Head(queue'[r]) = Head(queue[r])
         /\ \A r \in Replica : Len(queue[r]) \in Nat
         /\ UNCHANGED <<nodeUp, owner, job, epoch, announced, faults, registry>>
<1> DEFINE t == [kind |-> k, call |-> c, peer |-> d]
<1>1. t \in Task
  BY DEF Task
<1>2. queue' = [r \in Replica |-> IF r = owner THEN Append(queue[r], t) ELSE queue[r]]
  BY DEF Raise
<1>3. \A r \in Replica : queue[r] \in Seq(Task) /\ Len(queue[r]) \in Nat
  BY DEF CallsShape
<1> HIDE DEF t
<1>4. queue' \in [Replica -> Seq(Task)]
  <2>1. \A r \in Replica : (IF r = owner THEN Append(queue[r], t) ELSE queue[r]) \in Seq(Task)
    BY <1>1, <1>3, Appended
  <2> QED BY <1>2, <2>1
<1>5. ASSUME NEW r \in Replica, r = owner
      PROVE  /\ Len(queue'[r]) = Len(queue[r]) + 1 /\ queue'[r] # <<>>
             /\ \A i \in 1..Len(queue[r]) : queue'[r][i] = queue[r][i]
             /\ queue'[r][Len(queue[r]) + 1] = t
             /\ queue[r] # <<>> => Head(queue'[r]) = Head(queue[r])
  <2>1. queue'[r] = Append(queue[r], t)
    BY <1>2, <1>5
  <2> QED BY <2>1, <1>1, <1>3, Appended
<1>6. UNCHANGED <<nodeUp, owner, job, epoch, announced, faults, registry>>
  BY DEF Raise
<1> QED BY <1>2, <1>3, <1>4, <1>5, <1>6 DEF t

(* An event is raised by a channel that has started by then.               *)
LEMMA RaiseKeeps ==
  ASSUME CallsInv, NEW k \in Kind, NEW c \in Call, NEW d \in Call, Raise(k, c, d),
         channel' \in [Call -> Pieces], nodeUp, GoesOn, Begun(c)'
  PROVE  CallsInv'
<1>1. /\ queue' \in [Replica -> Seq(Task)]
      /\ \A r \in Replica :
           /\ r # owner => queue'[r] = queue[r]
           /\ r = owner => /\ Len(queue'[r]) = Len(queue[r]) + 1 /\ queue'[r] # <<>>
                           /\ \A i \in 1..Len(queue[r]) : queue'[r][i] = queue[r][i]
                           /\ queue'[r][Len(queue[r]) + 1] = [kind |-> k, call |-> c, peer |-> d]
                           /\ queue[r] # <<>> => Head(queue'[r]) = Head(queue[r])
      /\ \A r \in Replica : Len(queue[r]) \in Nat
      /\ UNCHANGED <<nodeUp, owner, job, epoch, announced, faults, registry>>
  BY RaiseQueues DEF CallsInv
<1>2. CallsShape'
  BY <1>1 DEF CallsInv, CallsShape, registry
<1>3. RegisteredBegun'
  BY <1>1 DEF CallsInv, RegisteredBegun, HasCall, GoesOn, registry
<1>4. TasksBegun'
  <2> SUFFICES ASSUME NEW r \in Replica, NEW i \in 1..Len(queue'[r]), queue'[r][i].kind # "sync"
               PROVE  channel'[queue'[r][i].call] # "none"
    BY DEF TasksBegun, Begun
  <2>0. queue[r] \in Seq(Task)
    BY DEF CallsInv, CallsShape
  <2>1. CASE i \in 1..Len(queue[r])
    <3>1. queue'[r][i] = queue[r][i]
      BY <1>1, <2>1
    <3>2. queue[r][i] \in Task
      BY <2>0, <2>1
    <3> QED BY <3>1, <3>2, <2>1, TasksAre DEF CallsInv, TasksBegun, GoesOn, Begun
  <2>2. CASE i \notin 1..Len(queue[r])
    <3>1. r = owner /\ i = Len(queue[r]) + 1
      BY <1>1, <2>2
    <3>2. queue'[r][i].call = c
      BY <3>1, <1>1
    <3> QED BY <3>2 DEF Begun
  <2> QED BY <2>1, <2>2
<1>5. JobsBegun'
  BY <1>1 DEF CallsInv, JobsBegun, GoesOn
<1>6. InHand'
  BY <1>1 DEF CallsInv, InHand, Reads, Steps, Named
<1>7. NoRebuild' /\ DownHasNone'
  BY <1>1 DEF CallsInv, NoRebuild, DownHasNone
<1> QED BY <1>2, <1>3, <1>4, <1>5, <1>6, <1>7 DEF CallsInv

(* A task that is done, whatever it made of the registry.                  *)
LEMMA DoneKeeps ==
  ASSUME CallsInv, NEW r \in Replica, queue[r] # <<>>, Done(r), UNCHANGED <<node, owner, announced>>,
         hash' \in [Call -> (SUBSET Field) \cup {Absent}], index' \subseteq Call,
         \A c \in Call : hash'[c] # Absent \/ c \in index' => Begun(c)
  PROVE  CallsInv' /\ GoesOn
<1>0. queue \in [Replica -> Seq(Task)] /\ job \in [Process -> Job]
  BY DEF CallsInv, CallsShape
<1>1. queue' = [queue EXCEPT ![r] = Tail(queue[r])] /\ job' = [job EXCEPT ![Events(r)] = Idle]
  BY <1>0 DEF Done
<1>2. /\ Tail(queue[r]) \in Seq(Task) /\ Len(queue[r]) \in Nat \ {0} /\ Len(Tail(queue[r])) = Len(queue[r]) - 1
      /\ \A i \in 1..Len(Tail(queue[r])) : Tail(queue[r])[i] = queue[r][i + 1]
  BY <1>0, Shortened
<1>3. queue' \in [Replica -> Seq(Task)] /\ job' \in [Process -> Job]
  BY <1>0, <1>1, <1>2, Parts
<1>4. /\ job'[Events(r)] = Idle /\ \A s \in Replica : job'[Rebuild(s)] = job[Rebuild(s)]
      /\ \A s \in Replica \ {r} : queue'[s] = queue[s] /\ job'[Events(s)] = job[Events(s)]
      /\ queue'[r] = Tail(queue[r])
  BY <1>0, <1>1, Parts
<1>5. CallsShape'
  BY <1>3 DEF CallsInv, CallsShape, node
<1>6. RegisteredBegun'
  BY DEF RegisteredBegun, HasCall, Begun, node
<1>7. TasksBegun'
  <2>1. \A i \in 1..Len(queue'[r]) : queue'[r][i] = queue[r][i + 1] /\ i + 1 \in 1..Len(queue[r])
    BY <1>2, <1>4
  <2> SUFFICES ASSUME NEW s \in Replica, NEW i \in 1..Len(queue'[s]), queue'[s][i].kind # "sync"
               PROVE  channel[queue'[s][i].call] # "none"
    BY DEF TasksBegun, Begun, node
  <2>2. CASE s = r
    <3>1. queue'[s][i] = queue[r][i + 1] /\ i + 1 \in 1..Len(queue[r])
      BY <2>1, <2>2
    <3> QED BY <3>1 DEF CallsInv, TasksBegun, Begun
  <2>3. CASE s # r
    BY <2>3, <1>4 DEF CallsInv, TasksBegun, Begun
  <2> QED BY <2>2, <2>3
<1>8. JobsBegun'
  BY <1>4, Parts DEF CallsInv, JobsBegun, Begun, node
<1>9. InHand'
  BY <1>4, Parts DEF CallsInv, InHand, Reads, Steps, Named
<1>10. NoRebuild' /\ DownHasNone' /\ GoesOn
  BY <1>4 DEF CallsInv, NoRebuild, DownHasNone, Live, node, GoesOn, Begun, Ended
<1> QED BY <1>5, <1>6, <1>7, <1>8, <1>9, <1>10 DEF CallsInv

LEMMA ChannelMoves ==
  ASSUME CallsInv, NEW c \in Call, NEW what \in Pieces \ {"none"}, channel[c] \notin {"gone", "lost"},
         channel' = [channel EXCEPT ![c] = what]
  PROVE  channel' \in [Call -> Pieces] /\ GoesOn /\ Begun(c)'
<1>1. channel \in [Call -> Pieces]
  BY DEF CallsInv, CallsShape
<1> QED BY <1>1 DEF GoesOn, Begun, Ended, Pieces

LEMMA ChannelStepKeeps ==
  ASSUME CallsInv, ChannelStep
  PROVE  CallsInv' /\ GoesOn
<1>1. ASSUME NEW c \in Call, Ring(c) PROVE CallsInv' /\ GoesOn
  <2>1. channel' = [channel EXCEPT ![c] = "ringing"] /\ nodeUp /\ channel[c] = "none" /\ Raise("created", c, c)
    BY <1>1 DEF Ring
  <2>2. channel' \in [Call -> Pieces] /\ GoesOn /\ Begun(c)'
    BY <2>1, ChannelMoves DEF Pieces
  <2> QED BY <2>1, <2>2, RaiseKeeps DEF Kind
<1>2. ASSUME NEW c \in Call, Answer(c) PROVE CallsInv' /\ GoesOn
  <2>1. channel' = [channel EXCEPT ![c] = "answered"] /\ nodeUp /\ channel[c] = "ringing" /\ Raise("answered", c, c)
    BY <1>2 DEF Answer
  <2>2. channel' \in [Call -> Pieces] /\ GoesOn /\ Begun(c)'
    BY <2>1, ChannelMoves DEF Pieces
  <2> QED BY <2>1, <2>2, RaiseKeeps DEF Kind
<1>3. ASSUME NEW c \in Call, Hangup(c) PROVE CallsInv' /\ GoesOn
  <2>1. channel' = [channel EXCEPT ![c] = "gone"] /\ nodeUp /\ Live(c) /\ Raise("hungup", c, c)
    BY <1>3 DEF Hangup
  <2>2. channel' \in [Call -> Pieces] /\ GoesOn /\ Begun(c)'
    BY <2>1, ChannelMoves DEF Pieces, Live
  <2> QED BY <2>1, <2>2, RaiseKeeps DEF Kind
<1>4. ASSUME NEW c \in Call, NEW d \in Call, Bridge(c, d) PROVE CallsInv' /\ GoesOn
  <2>1. channel' = [channel EXCEPT ![c] = "bridged"] /\ nodeUp /\ channel[c] = "answered" /\ Raise("bridged", c, d)
    BY <1>4 DEF Bridge
  <2>2. channel' \in [Call -> Pieces] /\ GoesOn /\ Begun(c)'
    BY <2>1, ChannelMoves DEF Pieces
  <2> QED BY <2>1, <2>2, RaiseKeeps DEF Kind
<1> QED BY <1>1, <1>2, <1>3, <1>4 DEF ChannelStep

LEMMA NodeStepKeeps ==
  ASSUME CallsInv, NodeDies \/ NodeReturns \/ Lose \/ \E c \in Call : CallExpires(c)
  PROVE  CallsInv' /\ GoesOn
<1>1. CASE NodeDies
  <2>1. /\ nodeUp' = FALSE /\ channel' = [c \in Call |-> IF Live(c) THEN "lost" ELSE channel[c]]
        /\ UNCHANGED <<owner, queue, job, announced, hash, index>>
    BY <1>1 DEF NodeDies, registry
  <2>2. channel' \in [Call -> Pieces] /\ GoesOn /\ \A c \in Call : ~Live(c)'
    BY <2>1 DEF CallsInv, CallsShape, Pieces, GoesOn, Begun, Ended, Live
  <2>3. CallsShape'
    BY <2>1, <2>2 DEF CallsInv, CallsShape
  <2>4. RegisteredBegun' /\ JobsBegun'
    BY <2>1, <2>2 DEF CallsInv, RegisteredBegun, JobsBegun, HasCall, GoesOn
  <2>5. TasksBegun'
    <3>1. \A r \in Replica : queue[r] \in Seq(Task)
      BY DEF CallsInv, CallsShape
    <3>2. \A r \in Replica : \A i \in 1..Len(queue[r]) : queue[r][i] \in Task
      BY <3>1
    <3> QED BY <3>2, <2>1, <2>2, TasksAre DEF CallsInv, TasksBegun, GoesOn, Begun
  <2>6. InHand' /\ NoRebuild' /\ DownHasNone'
    BY <2>1, <2>2 DEF CallsInv, InHand, NoRebuild, DownHasNone
  <2> QED BY <2>2, <2>3, <2>4, <2>5, <2>6 DEF CallsInv
<1>2. CASE NodeReturns \/ Lose
  <2>1. /\ UNCHANGED <<channel, queue, job, announced, hash, index>>
        /\ nodeUp' \in {TRUE, nodeUp} /\ owner' \in {NoOne, owner}
    BY <1>2 DEF NodeReturns, Lose, registry, node
  <2>2. CallsShape'
    BY <2>1 DEF CallsInv, CallsShape
  <2>3. RegisteredBegun' /\ TasksBegun' /\ JobsBegun' /\ InHand' /\ NoRebuild'
    BY <2>1 DEF CallsInv, RegisteredBegun, TasksBegun, JobsBegun, InHand, NoRebuild, HasCall, Begun
  <2>4. DownHasNone' /\ GoesOn
    <3>1. GoesOn /\ \A c \in Call : Live(c)' = Live(c)
      BY <2>1 DEF Live, GoesOn, Begun, Ended
    <3>2. nodeUp' = TRUE \/ nodeUp' = nodeUp
      BY <2>1
    <3>3. DownHasNone'
      BY <3>1, <3>2 DEF CallsInv, DownHasNone
    <3> QED BY <3>1, <3>3
  <2> QED BY <2>2, <2>3, <2>4 DEF CallsInv
<1>3. ASSUME NEW c \in Call, CallExpires(c) PROVE CallsInv' /\ GoesOn
  <2>1. /\ UNCHANGED <<node, owner, queue, job, announced, index>>
        /\ hash' = [hash EXCEPT ![c] = Absent]
    BY <1>3 DEF CallExpires, ExpireCall
  <2>2. /\ hash' \in [Call -> (SUBSET Field) \cup {Absent}]
        /\ \A d \in Call : hash'[d] # Absent => hash[d] # Absent
    BY <2>1 DEF CallsInv, CallsShape
  <2>3. CallsInv'
    BY <2>1, <2>2, RegistryShrinks DEF CallsInv, CallsShape
  <2> QED BY <2>1, <2>3 DEF GoesOn, Begun, Ended, node
<1> QED BY <1>1, <1>2, <1>3

LEMMA ReplicaStepKeeps ==
  ASSUME CallsInv, NEW r \in Replica, Acquire(r) \/ Dies(r) \/ TaskFails(r)
  PROVE  CallsInv' /\ GoesOn
<1>0. queue \in [Replica -> Seq(Task)] /\ job \in [Process -> Job]
  BY DEF CallsInv, CallsShape
<1>1. CASE Acquire(r)
  <2>1. /\ owner = NoOne /\ owner' = r /\ queue' = [queue EXCEPT ![r] = Append(queue[r], Sync)]
        /\ UNCHANGED <<node, job, announced, hash, index>>
    BY <1>1, <1>0 DEF Acquire, registry
  <2> DEFINE longer == Append(queue[r], Sync)
  <2>2. /\ longer \in Seq(Task) /\ Len(longer) = Len(queue[r]) + 1 /\ longer # <<>>
        /\ \A i \in 1..Len(queue[r]) : longer[i] = queue[r][i]
        /\ longer[Len(queue[r]) + 1] = Sync
        /\ queue[r] # <<>> => Head(longer) = Head(queue[r])
    BY <1>0, Appended, Parts
  <2>3. queue' = [queue EXCEPT ![r] = longer]
    BY <2>1
  <2> HIDE DEF longer
  <2>4. CallsShape'
    BY <2>1, <2>2, <2>3, <1>0 DEF CallsInv, CallsShape, node
  <2>5. TasksBegun'
    <3>1. \A s \in Replica : Len(queue[s]) \in Nat
      BY <1>0
    <3> QED BY <2>1, <2>2, <2>3, <3>1, <1>0, Parts DEF CallsInv, TasksBegun, Begun, node
  <2>6. InHand'
    BY <2>1, <2>2, <2>3, <1>0 DEF CallsInv, InHand, Reads, Steps, Named
  <2>7. RegisteredBegun' /\ JobsBegun' /\ NoRebuild' /\ DownHasNone' /\ GoesOn
    BY <2>1 DEF CallsInv, RegisteredBegun, JobsBegun, NoRebuild, DownHasNone, HasCall, Begun, Live, node, GoesOn, Ended
  <2> QED BY <2>4, <2>5, <2>6, <2>7 DEF CallsInv
<1>2. CASE Dies(r)
  <2>1. /\ owner' \in {NoOne, owner} /\ queue' = [queue EXCEPT ![r] = <<>>]
        /\ job' = [job EXCEPT ![Events(r)] = Idle, ![Rebuild(r)] = Idle]
        /\ UNCHANGED <<node, announced, hash, index>>
    BY <1>2 DEF Dies, registry
  <2>2. /\ job' \in [Process -> Job] /\ \A s \in Replica : job'[Events(s)] \in {Idle, job[Events(s)]}
        /\ job'[Events(r)] = Idle
        /\ \A s \in Replica : job'[Rebuild(s)] \in {Idle, job[Rebuild(s)]}
    BY <2>1, <1>0, Parts
  <2>3. /\ queue' \in [Replica -> Seq(Task)] /\ queue'[r] = <<>>
        /\ \A s \in Replica \ {r} : queue'[s] = queue[s] /\ job'[Events(s)] = job[Events(s)]
    BY <2>1, <1>0, Parts
  <2>4. CallsShape'
    BY <2>1, <2>2, <2>3 DEF CallsInv, CallsShape, node
  <2>5. TasksBegun'
    BY <2>1, <2>3 DEF CallsInv, TasksBegun, Begun, node
  <2>6. JobsBegun'
    BY <2>1, <2>2, Parts DEF CallsInv, JobsBegun, Begun, node
  <2>7. InHand'
    BY <2>2, <2>3, Parts DEF CallsInv, InHand, Reads, Steps, Named
  <2>8. RegisteredBegun' /\ NoRebuild' /\ DownHasNone' /\ GoesOn
    BY <2>1, <2>2 DEF CallsInv, RegisteredBegun, NoRebuild, DownHasNone, HasCall, Begun, Live, node, GoesOn, Ended
  <2> QED BY <2>4, <2>5, <2>6, <2>7, <2>8 DEF CallsInv
<1>3. CASE TaskFails(r)
  <2>1. queue[r] # <<>> /\ Done(r) /\ UNCHANGED <<node, owner, announced, hash, index>>
    BY <1>3 DEF TaskFails, registry
  <2> QED BY <2>1, DoneKeeps DEF CallsInv, CallsShape, RegisteredBegun, HasCall
<1> QED BY <1>1, <1>2, <1>3

(* A step of a task, which is not done yet.                                *)
LEMMA WorkKeeps ==
  ASSUME CallsInv, NEW r \in Replica, NEW new \in Job, queue[r] # <<>>,
         UNCHANGED <<node, owner, queue>>, job' = [job EXCEPT ![Events(r)] = new],
         new.at \in Reads => Head(queue[r]) = Sync,
         new.at \in Steps => Head(queue[r]) # Sync,
         new.at \in Named => new.call \in Call,
         \A c \in Call : c \in new.rows \cup new.live \/ c = new.call => Begun(c),
         announced' \in [Call -> SUBSET Words],
         hash' \in [Call -> (SUBSET Field) \cup {Absent}], index' \subseteq Call,
         \A c \in Call : hash'[c] # Absent \/ c \in index' => Begun(c)
  PROVE  CallsInv' /\ GoesOn
<1>0. job \in [Process -> Job]
  BY DEF CallsInv, CallsShape
<1>1. job' \in [Process -> Job]
  BY <1>0, Parts
<1>2. /\ job'[Events(r)] = new /\ \A s \in Replica : job'[Rebuild(s)] = job[Rebuild(s)]
      /\ \A s \in Replica \ {r} : job'[Events(s)] = job[Events(s)]
  BY <1>0, Parts
<1>3. CallsShape'
  BY <1>1 DEF CallsInv, CallsShape, node
<1>4. RegisteredBegun'
  BY DEF RegisteredBegun, HasCall, Begun, node
<1>5. TasksBegun'
  BY DEF CallsInv, TasksBegun, Begun, node
<1>6. JobsBegun'
  BY <1>2 DEF CallsInv, JobsBegun, Begun, node
<1>7. InHand'
  BY <1>2 DEF CallsInv, InHand, Reads, Steps, Named
<1>8. NoRebuild' /\ DownHasNone' /\ GoesOn
  BY <1>2 DEF CallsInv, NoRebuild, DownHasNone, Live, node, GoesOn, Begun, Ended
<1> QED BY <1>3, <1>4, <1>5, <1>6, <1>7, <1>8 DEF CallsInv

LEMMA UpdateIs ==
  ASSUME CallsShape, NEW c \in Call, NEW fields \in SUBSET Field, UpdateCall(c, fields)
  PROVE  /\ hash' \in [Call -> (SUBSET Field) \cup {Absent}] /\ index' = index
         /\ \A d \in Call : hash'[d] # Absent <=> hash[d] # Absent
<1>1. hash' = [hash EXCEPT ![c] = IF HasCall(c) THEN hash[c] \cup fields ELSE hash[c]] /\ index' = index
  BY DEF UpdateCall, CallsShape
<1>2. hash \in [Call -> (SUBSET Field) \cup {Absent}]
  BY DEF CallsShape
<1>3. HasCall(c) => hash[c] \in SUBSET Field /\ hash[c] \cup fields \in SUBSET Field
  BY <1>2 DEF HasCall
<1>4. Absent \notin SUBSET Field
  BY DEF Absent, Field
<1>5. hash' \in [Call -> (SUBSET Field) \cup {Absent}]
  BY <1>1, <1>2, <1>3
<1>6. ASSUME NEW d \in Call PROVE hash'[d] # Absent <=> hash[d] # Absent
  <2>1. CASE d = c /\ HasCall(c)
    BY <2>1, <1>1, <1>2, <1>3, <1>4 DEF HasCall
  <2>2. CASE ~(d = c /\ HasCall(c))
    BY <2>2, <1>1, <1>2
  <2> QED BY <2>1, <2>2
<1> QED BY <1>1, <1>5, <1>6

LEMMA CreateIs ==
  ASSUME CallsShape, NEW c \in Call, NEW told \in BOOLEAN, CreateCall(c, told)
  PROVE  /\ hash' \in [Call -> (SUBSET Field) \cup {Absent}] /\ index' = index \cup {c}
         /\ \A d \in Call : hash'[d] # Absent <=> (d = c \/ hash[d] # Absent)
<1> DEFINE new == (IF HasCall(c) THEN hash[c] \cap {"bridged"} ELSE {}) \cup (IF told THEN {"tenant"} ELSE {})
<1>1. hash' = [hash EXCEPT ![c] = new] /\ index' = index \cup {c}
  BY DEF CreateCall, CallsShape
<1>2. hash \in [Call -> (SUBSET Field) \cup {Absent}]
  BY DEF CallsShape
<1>3. new \in SUBSET Field
  <2>1. {"tenant"} \subseteq Field /\ {"bridged"} \subseteq Field
    BY DEF Field
  <2> QED BY <2>1
<1>4. Absent \notin SUBSET Field
  BY DEF Absent, Field
<1> HIDE DEF new
<1> QED BY <1>1, <1>2, <1>3, <1>4

LEMMA EndIs ==
  ASSUME CallsShape, NEW c \in Call, EndCall(c)
  PROVE  /\ hash' \in [Call -> (SUBSET Field) \cup {Absent}] /\ index' = index \ {c}
         /\ \A d \in Call : hash'[d] # Absent <=> (d # c /\ hash[d] # Absent)
  BY DEF CallsShape, EndCall

LEMMA AnnounceIs ==
  ASSUME CallsShape, NEW c \in Call, NEW k \in Words, Announce(c, k)
  PROVE  announced' \in [Call -> SUBSET Words] /\ announced'[c] = announced[c] \cup {k}
         /\ \A d \in Call \ {c} : announced'[d] = announced[d]
  BY DEF CallsShape, Announce

(* The task in hand. *)
LEMMA HeadIs ==
  ASSUME CallsInv, NEW r \in Replica, NEW t, NEW a, Handles(r, t, a)
  PROVE  /\ queue[r] # <<>> /\ t = Head(queue[r]) /\ t \in Task /\ job[Events(r)].at = a
         /\ t.kind # "sync" => t \in [kind : Kind, call : Call, peer : Call] /\ Begun(t.call)
         /\ job[Events(r)] \in Job
<1>1. queue[r] \in Seq(Task) /\ job[Events(r)] \in Job
  BY Parts DEF CallsInv, CallsShape
<1>2. queue[r] # <<>> /\ t = Head(queue[r]) /\ job[Events(r)].at = a
  BY DEF Handles
<1>3. t \in Task /\ t = queue[r][1] /\ 1 \in 1..Len(queue[r])
  BY <1>1, <1>2, Shortened
<1>4. t.kind # "sync" => Begun(t.call)
  BY <1>3 DEF CallsInv, TasksBegun
<1>5. t.kind # "sync" => t \in [kind : Kind, call : Call, peer : Call]
  BY <1>3 DEF Task, Sync
<1> QED BY <1>1, <1>2, <1>3, <1>4, <1>5

LEMMA AtIs ==
  ASSUME CallsInv, NEW r \in Replica, NEW a, At(Events(r), a), [job[Events(r)] EXCEPT !.at = a] \in Job
  PROVE  LET new == [job[Events(r)] EXCEPT !.at = a]
         IN  /\ job' = [job EXCEPT ![Events(r)] = new] /\ new.at = a
             /\ \A c \in Call : c \in new.rows \cup new.live \/ c = new.call => Begun(c)
<1>1. job \in [Process -> Job]
  BY DEF CallsInv, CallsShape
<1>2. job[Events(r)] \in Job
  BY <1>1, Parts
<1> QED BY <1>1, <1>2 DEF At, CallsInv, JobsBegun, Job

LEMMA StageIs ==
  ASSUME CallsInv, NEW r \in Replica, NEW a \in Stages
  PROVE  [job[Events(r)] EXCEPT !.at = a] \in Job
  BY Parts DEF CallsInv, CallsShape, Job, Stages, Reads, Steps

LEMMA TenantForKeeps ==
  ASSUME CallsInv, NEW r \in Replica, NEW t, TenantFor(r, t)
  PROVE  CallsInv' /\ GoesOn
<1>1. Handles(r, t, "idle") /\ t.kind # "sync"
  BY DEF TenantFor
<1>2. /\ queue[r] # <<>> /\ t \in [kind : Kind, call : Call, peer : Call] /\ Begun(t.call)
      /\ t.call \in Call /\ t = Head(queue[r])
  BY <1>1, HeadIs
<1>3. PICK known \in BOOLEAN, at \in {"identify", "peer", "write"} :
        job' = [job EXCEPT ![Events(r)] = [Idle EXCEPT !.at = at, !.known = known]]
  <2> DEFINE known == Told(t) \/ TenantOf(t.call)
             at == IF Told(t) /\ Attaches(t.call) THEN "identify" ELSE Onward(t, known)
  <2>1. known \in BOOLEAN /\ at \in {"identify", "peer", "write"}
    BY DEF Onward, Told, TenantOf, HasCall
  <2>2. job' = [job EXCEPT ![Events(r)] = [Idle EXCEPT !.at = at, !.known = known]]
    BY DEF TenantFor
  <2> QED BY <2>1, <2>2
<1>4. /\ hash' \in [Call -> (SUBSET Field) \cup {Absent}] /\ index' = index
      /\ \A d \in Call : hash'[d] # Absent <=> hash[d] # Absent
  <2>1. CASE Told(t)
    <3>1. UpdateCall(t.call, {"tenant"}) /\ {"tenant"} \in SUBSET Field
      BY <2>1 DEF TenantFor, AttachTenant, Field
    <3> QED BY <3>1, <1>2, UpdateIs DEF CallsInv
  <2>2. CASE ~Told(t)
    BY <2>2 DEF TenantFor, registry, CallsInv, CallsShape
  <2> QED BY <2>1, <2>2
<1> DEFINE new == [Idle EXCEPT !.at = at, !.known = known]
<1>5. /\ new \in Job /\ new.at \notin Reads \cup Named /\ t # Sync
      /\ \A c \in Call : ~(c \in new.rows \cup new.live \/ c = new.call)
  BY Parts, <1>1 DEF Idle, Job, Reads, Named
<1>6. job' = [job EXCEPT ![Events(r)] = new]
  BY <1>3
<1>7. UNCHANGED <<node, owner, queue, announced>> /\ announced \in [Call -> SUBSET Words] /\ index \subseteq Call
  BY DEF TenantFor, CallsInv, CallsShape
<1>8. \A c \in Call : hash'[c] # Absent \/ c \in index' => Begun(c)
  BY <1>4 DEF CallsInv, RegisteredBegun, HasCall
<1> HIDE DEF new
<1> QED BY <1>2, <1>4, <1>5, <1>6, <1>7, <1>8, WorkKeeps

LEMMA EventKeeps ==
  ASSUME CallsInv, NEW r \in Replica, NEW t \in Current(r),
         Identify(r, t) \/ AttachPeer(r, t) \/ IdentifyPeer(r, t) \/ Write(r, t)
  PROVE  CallsInv' /\ GoesOn
<1> USE DEF CallsInv
<1>1. PICK a \in {"idle"} \cup Steps : Handles(r, t, a) /\ (a = "idle" => t.kind # "sync")
  <2>1. \/ Handles(r, t, "identify") \/ Handles(r, t, "peer") \/ Handles(r, t, "identifyPeer")
        \/ Handles(r, t, "write")
        \/ Handles(r, t, "idle") /\ t.kind = "created"
    BY DEF Identify, AttachPeer, IdentifyPeer, Write
  <2> QED BY <2>1 DEF Steps
<1>2. queue[r] # <<>> /\ t = Head(queue[r]) /\ t \in Task /\ job[Events(r)].at = a
  BY <1>1, HeadIs
<1>3. PICK b \in Steps : At(Events(r), b)
  BY DEF Identify, AttachPeer, IdentifyPeer, Write, Steps, Onward
<1> DEFINE new == [job[Events(r)] EXCEPT !.at = b]
<1>4. new \in Job
  BY <1>3, StageIs DEF Stages
<1>5. /\ job' = [job EXCEPT ![Events(r)] = new] /\ new.at = b
      /\ \A c \in Call : c \in new.rows \cup new.live \/ c = new.call => Begun(c)
  BY <1>3, <1>4, AtIs
<1>6. UNCHANGED <<node, owner, queue>> /\ CallsShape
  BY DEF Identify, AttachPeer, IdentifyPeer, Write
<1>7. t # Sync /\ t.kind \in Kind /\ t.call \in Call /\ t.peer \in Call
  <2>1. t # Sync
    BY <1>1, <1>2, Parts DEF InHand
  <2> QED BY <2>1, <1>2, SyncIs, TasksAre
<1>8. announced' \in [Call -> SUBSET Words]
  <2>1. CASE UNCHANGED announced
    BY <2>1 DEF CallsShape
  <2>2. ASSUME NEW c \in Call, NEW k \in Words, Announce(c, k) PROVE announced' \in [Call -> SUBSET Words]
    BY <2>2, AnnounceIs
  <2> QED BY <2>1, <2>2, <1>7 DEF Identify, AttachPeer, IdentifyPeer, Write, Words
<1>9. /\ hash' \in [Call -> (SUBSET Field) \cup {Absent}] /\ index' = index
      /\ \A d \in Call : hash'[d] # Absent <=> hash[d] # Absent
  <2>1. CASE AttachPeer(r, t)
    <3>1. UpdateCall(t.peer, {"tenant"}) /\ {"tenant"} \in SUBSET Field
      BY <2>1 DEF AttachPeer, AttachTenant, Field
    <3> QED BY <3>1, <1>7, UpdateIs
  <2>2. CASE ~AttachPeer(r, t)
    BY <2>2 DEF Identify, IdentifyPeer, Write, registry, CallsShape
  <2> QED BY <2>1, <2>2
<1>10. \A c \in Call : hash'[c] # Absent \/ c \in index' => Begun(c)
  BY <1>9 DEF RegisteredBegun, HasCall
<1>11. b \notin Reads \cup Named /\ index' \subseteq Call
  BY <1>9 DEF Reads, Steps, Named, CallsShape
<1> HIDE DEF new, CallsInv
<1> QED BY <1>2, <1>4, <1>5, <1>6, <1>7, <1>8, <1>9, <1>10, <1>11, WorkKeeps

LEMMA ApplyKeeps ==
  ASSUME CallsInv, NEW r \in Replica, NEW t \in Current(r), Apply(r, t)
  PROVE  CallsInv' /\ GoesOn
<1>1. Handles(r, t, "apply") /\ Done(r) /\ UNCHANGED <<node, owner, announced>>
  BY DEF Apply
<1>2. queue[r] # <<>> /\ t = Head(queue[r]) /\ t \in Task /\ job[Events(r)].at = "apply"
  BY <1>1, HeadIs
<1>3. t # Sync
  BY <1>2, Parts DEF CallsInv, InHand, Steps
<1>4. t.kind \in Kind /\ t.call \in Call /\ Begun(t.call)
  BY <1>1, <1>2, <1>3, HeadIs, SyncIs, TasksAre
<1>5. /\ hash' \in [Call -> (SUBSET Field) \cup {Absent}] /\ index' \subseteq index \cup {t.call}
      /\ \A d \in Call : hash'[d] # Absent => d = t.call \/ hash[d] # Absent
  <2>1. CASE t.kind = "created"
    <3>1. CreateCall(t.call, Told(t)) /\ Told(t) \in BOOLEAN
      BY <2>1 DEF Apply, Told
    <3> QED BY <3>1, <1>4, CreateIs DEF CallsInv
  <2>2. CASE t.kind = "hungup"
    <3>1. EndCall(t.call)
      BY <2>2 DEF Apply
    <3> QED BY <3>1, <1>4, EndIs DEF CallsInv
  <2>3. CASE t.kind \in {"answered", "bridged"}
    <3>1. UpdateCall(t.call, {t.kind}) /\ {t.kind} \in SUBSET Field
      BY <2>3 DEF Apply, Field
    <3> QED BY <3>1, <1>4, UpdateIs DEF CallsInv
  <2> QED BY <2>1, <2>2, <2>3, <1>4 DEF Kind
<1>6. index' \subseteq Call /\ \A c \in Call : hash'[c] # Absent \/ c \in index' => Begun(c)
  BY <1>4, <1>5 DEF CallsInv, CallsShape, RegisteredBegun, HasCall
<1> QED BY <1>1, <1>2, <1>5, <1>6, DoneKeeps

LEMMA ListIs ==
  ASSUME CallsInv, NEW p, List(p)
  PROVE  LET new == [Idle EXCEPT !.at = "rows", !.live = {c \in Call : Live(c)}, !.rows = {c \in Call : Live(c)},
                                 !.fresh = {c \in Call : channel[c] = "none"}]
         IN  /\ new \in Job /\ job' = [job EXCEPT ![p] = new] /\ new.at = "rows"
             /\ \A c \in Call : c \in new.rows \cup new.live \/ c = new.call => Begun(c)
<1> DEFINE new == [Idle EXCEPT !.at = "rows", !.live = {c \in Call : Live(c)}, !.rows = {c \in Call : Live(c)},
                               !.fresh = {c \in Call : channel[c] = "none"}]
<1>1. job' = [job EXCEPT ![p] = new]
  BY DEF List
<1>2. new \in Job
  BY DEF Idle, Job
<1>3. \A c \in Call : c \in new.rows \cup new.live \/ c = new.call => Begun(c)
  BY Parts DEF Idle, Live, Begun
<1>4. new.at = "rows"
  BY DEF Idle
<1> QED BY <1>1, <1>2, <1>3, <1>4

(* A step of the owner's sync, and what it is at with the list then.       *)
SyncStep(r) ==
  \/ SyncStarts(r) \/ SyncCalls(r) \/ SyncEnded(r)
  \/ ReadStep(Events(r))
  \/ \E c \in Call : SyncSpares(r, c) \/ SyncEnds(r, c)

LEMMA SyncHead ==
  ASSUME CallsInv, NEW r \in Replica, SyncStep(r)
  PROVE  queue[r] # <<>> /\ Head(queue[r]) = Sync /\ UNCHANGED <<node, owner, queue>>
<1> USE DEF CallsInv
<1>1. CASE ReadStep(Events(r))
  <2>1. job[Events(r)].at \in Reads /\ UNCHANGED <<node, owner, queue>>
    BY <1>1 DEF ReadStep, RebuildCall, RebuildChanges, Row, Reads
  <2>2. Head(queue[r]) = Sync
    BY <2>1 DEF InHand
  <2>3. queue[r] # <<>>
    BY <2>1 DEF InHand, Reads
  <2> QED BY <2>1, <2>2, <2>3
<1>2. CASE ~ReadStep(Events(r))
  BY <1>2 DEF SyncStep, SyncStarts, SyncCalls, SyncEnded, SyncSpares, SyncEnds, Handles
<1> QED BY <1>1, <1>2

LEMMA SyncWork ==
  ASSUME CallsInv, NEW r \in Replica, SyncStep(r), NEW new \in Job, new.at \in Reads,
         new.at \in Named => new.call \in Call,
         job' = [job EXCEPT ![Events(r)] = new],
         \A c \in Call : c \in new.rows \cup new.live \/ c = new.call => Begun(c),
         announced' \in [Call -> SUBSET Words],
         hash' \in [Call -> (SUBSET Field) \cup {Absent}], index' \subseteq Call,
         \A c \in Call : hash'[c] # Absent \/ c \in index' => Begun(c)
  PROVE  CallsInv' /\ GoesOn
<1>1. queue[r] # <<>> /\ Head(queue[r]) = Sync /\ UNCHANGED <<node, owner, queue>>
  BY SyncHead
<1>2. new.at \notin Steps
  BY DEF Reads, Steps
<1> QED BY <1>1, <1>2, WorkKeeps

LEMMA SyncKeeps ==
  ASSUME CallsInv, NEW r \in Replica, SyncStep(r)
  PROVE  CallsInv' /\ GoesOn
<1> DEFINE j == job[Events(r)]
<1>0. /\ job \in [Process -> Job] /\ j \in Job /\ CallsShape
      /\ \A c \in Call : c \in j.rows \cup j.live \/ c = j.call => Begun(c)
      /\ \A c \in Call : hash[c] # Absent \/ c \in index => Begun(c)
  BY Parts DEF CallsInv, CallsShape, JobsBegun, RegisteredBegun, HasCall
<1>a. /\ announced \in [Call -> SUBSET Words] /\ index \subseteq Call
      /\ hash \in [Call -> (SUBSET Field) \cup {Absent}]
  BY <1>0 DEF CallsShape
<1>1. CASE SyncStarts(r)
  <2>1. List(Events(r)) /\ UNCHANGED <<announced, hash, index>>
    BY <1>1 DEF SyncStarts, registry
  <2> QED BY <2>1, <1>0, <1>a, ListIs, SyncWork DEF Reads, Named
<1>2. CASE SyncCalls(r)
  <2> DEFINE new == [j EXCEPT !.at = "ending", !.rows = index \ j.live]
  <2>1. job' = [job EXCEPT ![Events(r)] = new] /\ UNCHANGED <<announced, hash, index>>
    BY <1>2, <1>0 DEF SyncCalls, registry
  <2>2. /\ new \in Job /\ new.at \in Reads /\ (new.at \in Named => new.call \in Call)
        /\ \A c \in Call : c \in new.rows \cup new.live \/ c = new.call => Begun(c)
    BY <1>0, <1>a DEF Job, Reads, Named
  <2> HIDE DEF new, j
  <2> QED BY <2>1, <2>2, <1>0, <1>a, SyncWork
<1>3. CASE SyncEnded(r)
  <2>1. /\ EndCall(j.call) /\ At(Events(r), "ending") /\ UNCHANGED announced
    BY <1>3 DEF SyncEnded
  <2> DEFINE new == [j EXCEPT !.at = "ending"]
  <2>2. /\ new \in Job /\ new.at \in Reads /\ (new.at \in Named => new.call \in Call)
        /\ \A c \in Call : c \in new.rows \cup new.live \/ c = new.call => Begun(c)
    BY <1>0 DEF Job, Reads, Named
  <2>3. job' = [job EXCEPT ![Events(r)] = new]
    BY <2>1, <1>0 DEF At
  <2>4. /\ hash' \in [Call -> (SUBSET Field) \cup {Absent}] /\ index' \subseteq index
        /\ \A d \in Call : hash'[d] # Absent => hash[d] # Absent
    BY <2>1, <1>a DEF EndCall
  <2> HIDE DEF new, j
  <2> QED BY <2>1, <2>2, <2>3, <2>4, <1>0, <1>a, SyncWork
<1>4. ASSUME NEW c \in Call, SyncSpares(r, c) \/ SyncEnds(r, c) PROVE CallsInv' /\ GoesOn
  <2>1. PICK new \in {[j EXCEPT !.rows = j.rows \ {c}],
                      [j EXCEPT !.rows = j.rows \ {c}, !.at = "endApply", !.call = c]} :
          job' = [job EXCEPT ![Events(r)] = new]
    BY <1>4, <1>0 DEF SyncSpares, SyncEnds
  <2>2. j.at = "ending" /\ c \in j.rows /\ UNCHANGED <<hash, index>>
    BY <1>4 DEF SyncSpares, SyncEnds, Handles, registry
  <2>3. announced' \in [Call -> SUBSET Words]
    <3>1. CASE SyncSpares(r, c)
      BY <3>1, <1>a DEF SyncSpares
    <3>2. CASE SyncEnds(r, c)
      BY <3>2, <1>0, AnnounceIs DEF SyncEnds, Words, Kind
    <3> QED BY <3>1, <3>2, <1>4
  <2>4. /\ new \in Job /\ new.at \in Reads /\ (new.at \in Named => new.call \in Call)
        /\ \A d \in Call : d \in new.rows \cup new.live \/ d = new.call => Begun(d)
    <3>1. CASE new = [j EXCEPT !.rows = j.rows \ {c}]
      <4>1. new \in Job /\ new.at = "ending" /\ new.live = j.live /\ new.call = j.call /\ new.rows \subseteq j.rows
        BY <3>1, <2>2, <1>0 DEF Job
      <4> QED BY <4>1, <1>0 DEF Reads, Named
    <3>2. CASE new = [j EXCEPT !.rows = j.rows \ {c}, !.at = "endApply", !.call = c]
      <4>1. new \in Job /\ new.at = "endApply" /\ new.live = j.live /\ new.call = c /\ new.rows \subseteq j.rows
        BY <3>2, <2>2, <1>0 DEF Job
      <4> QED BY <4>1, <2>2, <1>0 DEF Reads, Named
    <3> QED BY <2>1, <3>1, <3>2
  <2> HIDE DEF j
  <2> QED BY <2>1, <2>2, <2>3, <2>4, <1>0, <1>a, SyncWork
<1>5. ASSUME NEW c \in Call, Row(Events(r), c) PROVE CallsInv' /\ GoesOn
  <2>1. PICK at \in {"rows", "create"}, call \in {NoCall, c}, dump \in SUBSET Field :
          /\ at = "create" => call = c
          /\ job' = [job EXCEPT ![Events(r)] = [j EXCEPT !.rows = j.rows \ {c}, !.at = at, !.call = call, !.dump = dump]]
    <3> DEFINE at == IF HasCall(c) \/ ~Live(c) THEN "rows" ELSE "create"
               call == IF HasCall(c) \/ ~Live(c) THEN NoCall ELSE c
               dump == IF HasCall(c) THEN {} ELSE Facts(c)
    <3>1. Facts(c) \in SUBSET Field
      BY DEF Facts, Field
    <3>2. job' = [job EXCEPT ![Events(r)] = [j EXCEPT !.rows = j.rows \ {c}, !.at = at, !.call = call, !.dump = dump]]
      BY <1>5, <1>0 DEF Row
    <3> QED BY <3>1, <3>2
  <2>2. c \in j.rows /\ UNCHANGED <<announced, hash, index>>
    BY <1>5 DEF Row, registry
  <2> DEFINE new == [j EXCEPT !.rows = j.rows \ {c}, !.at = at, !.call = call, !.dump = dump]
  <2>3. /\ new \in Job /\ new.at \in Reads /\ (new.at \in Named => new.call \in Call)
        /\ \A d \in Call : d \in new.rows \cup new.live \/ d = new.call => Begun(d)
    BY ZenonT(60), <2>1, <2>2, <1>0, Parts DEF Job, Reads, Named
  <2>4. job' = [job EXCEPT ![Events(r)] = new]
    BY <2>1
  <2> HIDE DEF new, j
  <2> QED BY <2>2, <2>3, <2>4, <1>0, <1>a, SyncWork
<1>6. CASE RebuildCall(Events(r))
  <2>1. /\ CreateCall(j.call, "tenant" \in j.dump) /\ UNCHANGED announced
        /\ \E at \in {"rows", "update"} : job' = [job EXCEPT ![Events(r)] = [j EXCEPT !.at = at]]
    BY <1>6, <1>0 DEF RebuildCall
  <2>2. PICK at \in {"rows", "update"} : job' = [job EXCEPT ![Events(r)] = [j EXCEPT !.at = at]]
    BY <2>1
  <2> DEFINE new == [j EXCEPT !.at = at]
  <2>3. /\ new \in Job /\ new.at \in Reads /\ (new.at \in Named => new.call \in Call)
        /\ \A d \in Call : d \in new.rows \cup new.live \/ d = new.call => Begun(d)
    BY <1>6, <1>0 DEF Job, Reads, Named, RebuildCall, CallsInv, InHand
  <2>4. /\ hash' \in [Call -> (SUBSET Field) \cup {Absent}] /\ index' \subseteq Call
        /\ \A d \in Call : hash'[d] # Absent \/ d \in index' => Begun(d)
    <3>1. j.call \in Call /\ Begun(j.call)
      BY <1>6, <1>0 DEF CallsInv, InHand, RebuildCall, Named
    <3>2. ("tenant" \in j.dump) \in BOOLEAN
      OBVIOUS
    <3>3. /\ hash' \in [Call -> (SUBSET Field) \cup {Absent}] /\ index' = index \cup {j.call}
          /\ \A d \in Call : hash'[d] # Absent <=> (d = j.call \/ hash[d] # Absent)
      BY <3>1, <3>2, <2>1, <1>0, CreateIs
    <3> QED BY <3>1, <3>3, <1>0, <1>a
  <2>5. job' = [job EXCEPT ![Events(r)] = new]
    BY <2>2
  <2> HIDE DEF new, j
  <2> QED BY <2>1, <2>3, <2>4, <2>5, <1>a, SyncWork
<1>7. CASE RebuildChanges(Events(r))
  <2>1. UpdateCall(j.call, j.dump \ {"tenant"}) /\ At(Events(r), "rows") /\ UNCHANGED announced
    BY <1>7 DEF RebuildChanges
  <2> DEFINE new == [j EXCEPT !.at = "rows"]
  <2>2. /\ new \in Job /\ new.at \in Reads /\ (new.at \in Named => new.call \in Call)
        /\ \A c \in Call : c \in new.rows \cup new.live \/ c = new.call => Begun(c)
    BY <1>0 DEF Job, Reads, Named
  <2>3. job' = [job EXCEPT ![Events(r)] = new]
    BY <2>1, <1>0 DEF At
  <2>4. /\ hash' \in [Call -> (SUBSET Field) \cup {Absent}] /\ index' = index
        /\ \A d \in Call : hash'[d] # Absent <=> hash[d] # Absent
    <3>1. j.dump \ {"tenant"} \in SUBSET Field
      BY <1>0 DEF Job
    <3>2. CASE j.call \in Call
      BY <3>1, <3>2, <2>1, <1>0, UpdateIs
    <3>3. CASE j.call \notin Call
      BY <3>3, <2>1, <1>a DEF UpdateCall
    <3> QED BY <3>2, <3>3
  <2> HIDE DEF new, j
  <2> QED BY <2>1, <2>2, <2>3, <2>4, <1>0, <1>a, SyncWork
<1> QED BY <1>1, <1>2, <1>3, <1>4, <1>5, <1>6, <1>7 DEF SyncStep, ReadStep

LEMMA CallsStepKeeps ==
  ASSUME CallsInv, CallsStep
  PROVE  CallsInv' /\ GoesOn
<1>1. CASE ChannelStep
  BY <1>1, ChannelStepKeeps
<1>2. CASE NodeDies \/ NodeReturns \/ Lose \/ \E c \in Call : CallExpires(c)
  BY <1>2, NodeStepKeeps
<1>3. ASSUME NEW r \in Replica, Acquire(r) \/ Dies(r) \/ TaskFails(r) PROVE CallsInv' /\ GoesOn
  BY <1>3, ReplicaStepKeeps
<1>4. ASSUME NEW r \in Replica, QueueStep(r) PROVE CallsInv' /\ GoesOn
  <2>1. ASSUME NEW t \in Current(r), TenantFor(r, t) PROVE CallsInv' /\ GoesOn
    BY <2>1, TenantForKeeps
  <2>2. ASSUME NEW t \in Current(r), Identify(r, t) \/ AttachPeer(r, t) \/ IdentifyPeer(r, t) \/ Write(r, t)
        PROVE  CallsInv' /\ GoesOn
    BY <2>2, EventKeeps
  <2>3. ASSUME NEW t \in Current(r), Apply(r, t) PROVE CallsInv' /\ GoesOn
    BY <2>3, ApplyKeeps
  <2>4. CASE SyncStep(r)
    BY <2>4, SyncKeeps
  <2>5. CASE SyncDone(r) \/ SyncFails(r)
    <3>1. queue[r] # <<>> /\ Done(r) /\ UNCHANGED <<node, owner, announced, hash, index>>
      BY <2>5 DEF SyncDone, SyncFails, Handles, registry
    <3> QED BY <3>1, DoneKeeps DEF CallsInv, CallsShape, RegisteredBegun, HasCall
  <2> QED BY <1>4, <2>1, <2>2, <2>3, <2>4, <2>5 DEF QueueStep, TaskStep, SyncStep
<1> QED BY <1>1, <1>2, <1>3, <1>4 DEF CallsStep

LEMMA CallsStart == Init => CallsInv
<1> SUFFICES ASSUME Init PROVE CallsInv
  OBVIOUS
<1>1. CallsShape
  BY Parts DEF Init, RegistryInit, CallsShape, Absent, Pieces, Process
<1>2. \A c \in Call : channel[c] = "none" /\ ~HasCall(c)
  BY DEF Init, RegistryInit, HasCall
<1>3. \A p \in Process : job[p] = Idle
  BY DEF Init
<1>4. \A r \in Replica : queue[r] = <<>>
  BY DEF Init
<1>5. TasksBegun
  BY <1>4 DEF TasksBegun
<1>6. JobsBegun /\ InHand /\ NoRebuild
  BY <1>3, Parts DEF JobsBegun, InHand, NoRebuild, Reads, Steps, Named
<1>7. RegisteredBegun /\ DownHasNone
  BY <1>2 DEF Init, RegistryInit, RegisteredBegun, DownHasNone
<1> QED BY <1>1, <1>5, <1>6, <1>7 DEF CallsInv

-----------------------------------------------------------------------------
(* The death of the node. *)

(* Who goes through the calls has claimed the death.  While anyone is at   *)
(* it, the key has expired and nobody owns the node.                       *)
SweeperClaimed == \A r \in Replica : sweep[r].at \notin {"idle", "claiming"} => claim = r
OwnedIsAlive   == owner # NoOne => alive
SweptIsDead    == \A r \in Replica : ~Resting(r) => ~alive

(* Of a dead node the registry has none but calls that are over, and       *)
(* nothing is left to be done that would register one.                     *)
DeadIsOver ==
  ~alive => /\ \A r \in Replica : queue[r] = <<>>
            /\ \A c \in Call : c \in index \/ HasCall(c) => Ended(c)
RowsAreOver ==
  \A r \in Replica : \A c \in Call : c \in sweep[r].rows \/ c = sweep[r].call => Ended(c)
LostIsOver == \A c \in Call : "lost" \in announced[c] => Ended(c)

SweepInv ==
  /\ CallsInv /\ DeathTypeOK
  /\ SweeperClaimed /\ OwnedIsAlive /\ SweptIsDead
  /\ DeadIsOver /\ RowsAreOver /\ LostIsOver

LEMMA RestIs == Rest \in Sweep /\ Rest.at = "idle" /\ Rest.rows = {} /\ Rest.call = NoCall
  BY DEF Rest, Sweep

LEMMA SweepStart == DeathInit => SweepInv
<1> SUFFICES ASSUME DeathInit PROVE SweepInv
  OBVIOUS
<1>1. CallsInv
  BY CallsStart DEF DeathInit
<1>2. DeathTypeOK
  BY RestIs DEF DeathInit, Init, DeathTypeOK
<1>3. SweeperClaimed /\ OwnedIsAlive /\ SweptIsDead /\ DeadIsOver
  BY RestIs DEF DeathInit, SweeperClaimed, OwnedIsAlive, SweptIsDead, DeadIsOver, Resting
<1>4. RowsAreOver /\ LostIsOver
  BY RestIs, Parts DEF DeathInit, Init, RowsAreOver, LostIsOver
<1> QED BY <1>1, <1>2, <1>3, <1>4 DEF SweepInv

LEMMA LostStays ==
  ASSUME CallsInv, CallsStep
  PROVE  \A c \in Call : "lost" \in announced'[c] => "lost" \in announced[c]
<1> USE DEF CallsInv
<1>0. announced \in [Call -> SUBSET Words] /\ CallsShape
  BY DEF CallsShape
<1>1. CASE UNCHANGED announced
  BY <1>1
<1>2. ASSUME NEW c, NEW k, k # "lost", Announce(c, k)
      PROVE  \A d \in Call : "lost" \in announced'[d] => "lost" \in announced[d]
  BY <1>2, <1>0 DEF Announce
<1>3. ASSUME NEW r \in Replica, NEW t \in Current(r), Identify(r, t) \/ IdentifyPeer(r, t) \/ Write(r, t)
      PROVE  \E c, k : k # "lost" /\ Announce(c, k)
  <2>1. CASE Identify(r, t) \/ IdentifyPeer(r, t)
    BY <2>1 DEF Identify, IdentifyPeer
  <2>2. CASE Write(r, t)
    <3>1. Announce(t.call, t.kind) /\ \E a \in {"write", "idle"} : Handles(r, t, a)
      BY <2>2 DEF Write
    <3>2. t \in Task
      BY <3>1, HeadIs
    <3>3. t.kind # "lost"
      BY <3>2 DEF Task, Sync, Kind
    <3> QED BY <3>1, <3>3
  <2> QED BY <1>3, <2>1, <2>2
<1>4. ASSUME NEW r \in Replica, NEW c \in Call, SyncEnds(r, c)
      PROVE  Announce(c, "hungup")
  BY <1>4 DEF SyncEnds
<1>5. \/ UNCHANGED announced
      \/ \E r \in Replica : \E t \in Current(r) : Identify(r, t) \/ IdentifyPeer(r, t) \/ Write(r, t)
      \/ \E r \in Replica : \E c \in Call : SyncEnds(r, c)
  <2>1. ASSUME NEW r \in Replica, QueueStep(r)
        PROVE  \/ UNCHANGED announced
               \/ \E t \in Current(r) : Identify(r, t) \/ IdentifyPeer(r, t) \/ Write(r, t)
               \/ \E c \in Call : SyncEnds(r, c)
    BY <2>1 DEF QueueStep, TaskStep, ReadStep, TenantFor, AttachPeer, Apply, SyncStarts, SyncCalls, SyncEnded,
                SyncDone, SyncFails, SyncSpares, RebuildCall, RebuildChanges, Row
  <2>2. CASE ChannelStep
    BY <2>2 DEF ChannelStep, Ring, Answer, Hangup, Bridge, Raise
  <2>3. CASE CallsStep /\ ~ChannelStep /\ ~\E r \in Replica : QueueStep(r)
    BY <2>3 DEF CallsStep, NodeDies, NodeReturns, Lose, CallExpires, Acquire, Dies, TaskFails
  <2> QED BY <2>1, <2>2, <2>3
<1> QED BY <1>1, <1>2, <1>3, <1>4, <1>5

(* Of a dead node no task is left, so that nothing registers a call.       *)
LEMMA DeadStays ==
  ASSUME SweepInv, ~alive, CallsStep, ~\E r \in Replica : Acquire(r)
  PROVE  /\ \A r \in Replica : queue'[r] = <<>>
         /\ \A c \in Call : c \in index' \/ hash'[c] # Absent => Ended(c)'
<1> USE DEF SweepInv
<1>1. /\ owner = NoOne /\ \A r \in Replica : queue[r] = <<>>
      /\ \A c \in Call : c \in index \/ hash[c] # Absent => Ended(c)
      /\ GoesOn /\ CallsShape
  BY CallsStepKeeps DEF OwnedIsAlive, DeadIsOver, HasCall, CallsInv
<1>2. \A r \in Replica : job[Events(r)].at = "idle"
  BY <1>1 DEF CallsInv, InHand
<1>3. ASSUME NEW r \in Replica, QueueStep(r) PROVE FALSE
  <2>1. Current(r) = {}
    BY <1>1 DEF Current
  <2>2. ~ReadStep(Events(r))
    BY <1>2 DEF ReadStep, RebuildCall, RebuildChanges, Row
  <2> QED BY <2>1, <2>2, <1>1, <1>3 DEF QueueStep, TaskStep, SyncStarts, SyncCalls, SyncEnded, SyncDone, SyncFails,
              SyncSpares, SyncEnds, Handles
<1>4. CASE ChannelStep
  <2>1. PICK k \in Kind, c \in Call, d \in Call : Raise(k, c, d)
    <3>1. {"created", "answered", "bridged", "hungup"} \subseteq Kind
      BY DEF Kind
    <3> QED BY <1>4, <3>1 DEF ChannelStep, Ring, Answer, Hangup, Bridge
  <2>2. \A r \in Replica : queue'[r] = queue[r]
    BY <2>1, <1>1, Parts DEF Raise
  <2>3. UNCHANGED <<hash, index>>
    BY <2>1 DEF Raise, registry
  <2> QED BY <2>2, <2>3, <1>1 DEF GoesOn
<1>5. CASE NodeDies \/ NodeReturns \/ Lose
  BY <1>1, <1>5 DEF NodeDies, NodeReturns, Lose, registry, GoesOn
<1>6. ASSUME NEW c \in Call, CallExpires(c)
      PROVE  /\ \A r \in Replica : queue'[r] = <<>>
             /\ \A d \in Call : d \in index' \/ hash'[d] # Absent => Ended(d)'
  BY <1>1, <1>6 DEF CallExpires, ExpireCall, CallsShape, GoesOn
<1>7. ASSUME NEW r \in Replica, Dies(r) \/ TaskFails(r)
      PROVE  /\ \A s \in Replica : queue'[s] = <<>>
             /\ \A d \in Call : d \in index' \/ hash'[d] # Absent => Ended(d)'
  BY <1>1, <1>7 DEF Dies, TaskFails, registry, GoesOn, CallsShape
<1> QED BY <1>3, <1>4, <1>5, <1>6, <1>7 DEF CallsStep

(* What a step of the calls keeps that does not make the node owned.       *)
LEMMA CallsPart ==
  ASSUME SweepInv, CallsStep, owner' = owner \/ owner' = NoOne, UNCHANGED alive
  PROVE  CallsInv' /\ GoesOn /\ OwnedIsAlive' /\ DeadIsOver' /\ LostIsOver'
<1>0. ~\E r \in Replica : Acquire(r)
  BY Parts DEF Acquire
<1>1. CallsInv' /\ GoesOn
  BY CallsStepKeeps DEF SweepInv
<1>2. OwnedIsAlive'
  BY DEF SweepInv, OwnedIsAlive
<1>3. DeadIsOver'
  BY <1>0, DeadStays DEF DeadIsOver, HasCall
<1>4. LostIsOver'
  BY <1>1, LostStays DEF SweepInv, LostIsOver, GoesOn
<1> QED BY <1>1, <1>2, <1>3, <1>4

LEMMA QueueLeaves ==
  ASSUME NEW r \in Replica, QueueStep(r)
  PROVE  UNCHANGED <<node, owner>>
  BY DEF QueueStep, TaskStep, ReadStep, TenantFor, Identify, AttachPeer, IdentifyPeer, Write, Apply, SyncStarts,
         SyncCalls, SyncEnded, SyncDone, SyncFails, SyncSpares, SyncEnds, RebuildCall, RebuildChanges, Row

LEMMA OrdinaryIs ==
  ASSUME Ordinary
  PROVE  CallsStep /\ nodeUp' = nodeUp /\ (owner' = owner \/ owner' = NoOne) /\ UNCHANGED <<connected, watch>>
<1>1. UNCHANGED <<connected, watch>>
  BY DEF Ordinary
<1>2. ASSUME NEW c \in Call, Ring(c) \/ Answer(c) \/ Hangup(c)
      PROVE  CallsStep /\ nodeUp' = nodeUp /\ (owner' = owner \/ owner' = NoOne)
  BY <1>2 DEF CallsStep, ChannelStep, Ring, Answer, Hangup, Raise
<1>3. ASSUME NEW c \in Call, CallExpires(c)
      PROVE  CallsStep /\ nodeUp' = nodeUp /\ (owner' = owner \/ owner' = NoOne)
  BY <1>3 DEF CallsStep, CallExpires, node
<1>4. CASE Lose
  BY <1>1, <1>4 DEF CallsStep, Lose, node
<1>5. ASSUME NEW r \in Replica, QueueStep(r)
      PROVE  CallsStep /\ nodeUp' = nodeUp /\ (owner' = owner \/ owner' = NoOne)
  BY <1>5, QueueLeaves DEF CallsStep, node
<1> QED BY <1>1, <1>2, <1>3, <1>4, <1>5 DEF Ordinary

(* The node, its calls and its sockets, while no watcher does anything.    *)
LEMMA NodeKeeps ==
  ASSUME SweepInv, Ordinary \/ Die \/ Return \/ \E r \in Replica : Connect(r)
  PROVE  SweepInv'
<1>1. /\ CallsStep \/ UNCHANGED vars
      /\ owner' = owner \/ owner' = NoOne
      /\ UNCHANGED watch
      /\ (connected' \in SUBSET Replica /\ (~nodeUp' => connected' = {}))
  <2>0. connected \in SUBSET Replica /\ (~nodeUp => connected = {})
    BY DEF SweepInv, DeathTypeOK
  <2>1. CASE Die
    BY <2>1, <2>0 DEF Die, NodeDies, CallsStep, registry, node
  <2>2. CASE Return
    BY <2>2, <2>0 DEF Return, NodeReturns, CallsStep
  <2>3. CASE Ordinary
    BY <2>3, <2>0, OrdinaryIs
  <2>4. ASSUME NEW r \in Replica, Connect(r)
        PROVE  /\ CallsStep \/ UNCHANGED vars
               /\ owner' = owner \/ owner' = NoOne
               /\ UNCHANGED watch
               /\ connected' \in SUBSET Replica /\ (~nodeUp' => connected' = {})
    BY <2>4, <2>0 DEF Connect, vars, node
  <2> QED BY <2>1, <2>2, <2>3, <2>4
<1>2. CallsInv' /\ GoesOn /\ OwnedIsAlive' /\ DeadIsOver' /\ LostIsOver'
  <2>1. CASE CallsStep
    BY <2>1, <1>1, CallsPart DEF watch
  <2>2. CASE UNCHANGED vars
    <3>1. CallsInv' /\ GoesOn
      BY <2>2 DEF SweepInv, CallsInv, CallsShape, RegisteredBegun, TasksBegun, JobsBegun, InHand, NoRebuild,
                  DownHasNone, HasCall, Begun, Live, GoesOn, Ended, vars, node, registry
    <3>2. OwnedIsAlive' /\ DeadIsOver' /\ LostIsOver'
      BY <2>2, <1>1 DEF SweepInv, OwnedIsAlive, DeadIsOver, LostIsOver, HasCall, Ended, vars, node, registry, watch
    <3> QED BY <3>1, <3>2
  <2> QED BY <2>1, <2>2, <1>1
<1>3. DeathTypeOK'
  BY <1>1 DEF SweepInv, DeathTypeOK, watch
<1>4. SweeperClaimed' /\ SweptIsDead'
  BY <1>1 DEF SweepInv, SweeperClaimed, SweptIsDead, Resting, watch
<1>5. RowsAreOver'
  BY <1>1, <1>2 DEF SweepInv, RowsAreOver, GoesOn, watch
<1> QED BY <1>2, <1>3, <1>4, <1>5 DEF SweepInv

LEMMA UnchangedKeeps ==
  ASSUME CallsInv, UNCHANGED vars
  PROVE  CallsInv' /\ GoesOn
  BY DEF CallsInv, CallsShape, RegisteredBegun, TasksBegun, JobsBegun, InHand, NoRebuild,
         DownHasNone, HasCall, Begun, Live, GoesOn, Ended, vars, node, registry

(* It is owned, its key lives on or expires, or a claim lapses.            *)
LEMMA KeyKeeps ==
  ASSUME SweepInv, ~Midway, "lag" \notin Faults,
         Heartbeat \/ KeyExpires \/ ClaimLapses \/ \E r \in Replica : Own(r)
  PROVE  SweepInv'
<1> USE DEF SweepInv
<1>1. CASE Heartbeat
  <2>1. /\ alive' = TRUE /\ alive = TRUE /\ claim' = NoOne /\ UNCHANGED <<vars, connected, sweep>>
    BY <1>1 DEF Heartbeat, OwnedIsAlive, DeathTypeOK
  <2>2. CallsInv' /\ GoesOn
    BY <2>1, UnchangedKeeps
  <2>3. DeathTypeOK'
    BY <2>1 DEF DeathTypeOK, vars, node
  <2>4. SweeperClaimed' /\ SweptIsDead' /\ OwnedIsAlive' /\ DeadIsOver'
    BY <2>1, RestIs DEF SweeperClaimed, SweptIsDead, OwnedIsAlive, DeadIsOver, Resting
  <2>5. RowsAreOver' /\ LostIsOver'
    BY <2>1 DEF RowsAreOver, LostIsOver, Ended, vars, node
  <2> QED BY <2>2, <2>3, <2>4, <2>5
<1>2. CASE KeyExpires
  <2>1. /\ alive' = FALSE /\ UNCHANGED <<vars, connected, claim, sweep>> /\ ~nodeUp /\ owner = NoOne
        /\ \A r \in Replica : queue[r] = <<>>
    BY <1>2 DEF KeyExpires, Drained
  <2>2. CallsInv' /\ GoesOn
    BY <2>1, UnchangedKeeps
  <2>3. DeathTypeOK'
    BY <2>1 DEF DeathTypeOK, vars, node
  <2>4. SweeperClaimed' /\ SweptIsDead' /\ OwnedIsAlive'
    BY <2>1 DEF SweeperClaimed, SweptIsDead, OwnedIsAlive, Resting, vars
  <2>5. DeadIsOver'
    <3>1. \A c \in Call : c \in index \/ HasCall(c) => Begun(c) /\ ~Live(c) /\ channel[c] \in Pieces
      BY <2>1 DEF CallsInv, CallsShape, RegisteredBegun, DownHasNone
    <3>2. \A c \in Call : c \in index \/ HasCall(c) => Ended(c)
      BY <3>1 DEF Begun, Live, Ended, Pieces
    <3> QED BY <2>1, <3>2 DEF DeadIsOver, HasCall, Ended, vars, node, registry
  <2>6. RowsAreOver' /\ LostIsOver'
    BY <2>1 DEF RowsAreOver, LostIsOver, Ended, vars, node
  <2> QED BY <2>2, <2>3, <2>4, <2>5, <2>6
<1>3. CASE ClaimLapses
  <2>1. /\ claim' = NoOne /\ UNCHANGED <<vars, connected, alive, sweep>>
        /\ claim # NoOne => sweep[claim].at \in {"idle", "claiming"}
    BY <1>3 DEF ClaimLapses
  <2>2. CallsInv' /\ GoesOn
    BY <2>1, UnchangedKeeps
  <2>3. DeathTypeOK'
    BY <2>1 DEF DeathTypeOK, vars, node
  <2>4. SweeperClaimed'
    BY <2>1, Parts DEF SweeperClaimed
  <2>5. SweptIsDead' /\ OwnedIsAlive' /\ DeadIsOver'
    BY <2>1 DEF SweptIsDead, OwnedIsAlive, DeadIsOver, HasCall, Ended, Resting, vars, node, registry
  <2>6. RowsAreOver' /\ LostIsOver'
    BY <2>1 DEF RowsAreOver, LostIsOver, Ended, vars, node
  <2> QED BY <2>2, <2>3, <2>4, <2>5, <2>6
<1>4. ASSUME NEW r \in Replica, Own(r) PROVE SweepInv'
  <2>1. /\ alive' = TRUE /\ claim' = NoOne /\ UNCHANGED <<connected, sweep, nodeUp>> /\ Acquire(r)
        /\ \A q \in Replica : Resting(q)
    BY <1>4 DEF Own, Acquire, node
  <2>2. CallsStep
    BY <2>1 DEF CallsStep
  <2>3. CallsInv' /\ GoesOn
    BY <2>2, CallsStepKeeps
  <2>4. DeathTypeOK'
    BY <2>1 DEF DeathTypeOK
  <2>5. SweeperClaimed' /\ SweptIsDead' /\ OwnedIsAlive' /\ DeadIsOver'
    BY <2>1, RestIs DEF SweeperClaimed, SweptIsDead, OwnedIsAlive, DeadIsOver, Resting
  <2>6. RowsAreOver' /\ LostIsOver'
    BY <2>1, <2>2, <2>3, LostStays DEF RowsAreOver, LostIsOver, GoesOn
  <2> QED BY <2>3, <2>4, <2>5, <2>6
<1> QED BY <1>1, <1>2, <1>3, <1>4

(* A step of a watcher, of a node that is dead.                            *)
LEMMA WatcherKeeps ==
  ASSUME SweepInv, ~alive, NEW r \in Replica, NEW new \in Sweep,
         sweep' = [sweep EXCEPT ![r] = new],
         new.at \in {"got", "ended"} <=> new.call # NoCall,
         new.at \notin {"idle", "claiming"} => claim' = r,
         claim' = claim \/ (claim = NoOne /\ claim' = r),
         \A c \in Call : c \in new.rows \/ c = new.call => Ended(c),
         UNCHANGED <<node, owner, queue, job, connected, alive>>,
         hash' \in [Call -> (SUBSET Field) \cup {Absent}],
         \A c \in Call : hash'[c] # Absent => hash[c] # Absent,
         index' \subseteq index,
         announced' \in [Call -> SUBSET Words],
         \A c \in Call : "lost" \in announced'[c] => "lost" \in announced[c] \/ Ended(c)
  PROVE  SweepInv'
<1> USE DEF SweepInv
<1>0. sweep \in [Replica -> Sweep] /\ sweep'[r] = new /\ \A s \in Replica \ {r} : sweep'[s] = sweep[s]
  BY DEF DeathTypeOK
<1>1. CallsInv'
  BY RegistryShrinks
<1>2. DeathTypeOK'
  <2>1. claim' \in Replica \cup {NoOne}
    BY DEF DeathTypeOK
  <2>2. sweep' \in [Replica -> Sweep]
    BY <1>0
  <2>3. \A s \in Replica : sweep'[s].at \in {"got", "ended"} <=> sweep'[s].call # NoCall
    BY <1>0 DEF DeathTypeOK
  <2> QED BY <2>1, <2>2, <2>3 DEF DeathTypeOK, node
<1>3. SweeperClaimed'
  BY <1>0, Parts DEF SweeperClaimed
<1>4. SweptIsDead' /\ OwnedIsAlive'
  BY DEF SweptIsDead, OwnedIsAlive
<1>5. DeadIsOver' /\ LostIsOver'
  BY DEF DeadIsOver, LostIsOver, HasCall, Ended, node
<1>6. RowsAreOver'
  BY <1>0 DEF RowsAreOver, Ended, node
<1> QED BY <1>1, <1>2, <1>3, <1>4, <1>5, <1>6

LEMMA SweepStepKeeps ==
  ASSUME SweepInv, NEW r \in Replica, SweepStep(r) \/ SweepFails(r)
  PROVE  SweepInv'
<1> USE DEF SweepInv
<1> DEFINE s == sweep[r]
<1>0. /\ sweep \in [Replica -> Sweep] /\ s \in Sweep
      /\ s.at \in {"got", "ended"} <=> s.call # NoCall
      /\ s.at \notin {"idle", "claiming"} => claim = r
      /\ \A c \in Call : c \in s.rows \/ c = s.call => Ended(c)
      /\ claim \in Replica \cup {NoOne}
  BY DEF DeathTypeOK, SweeperClaimed, RowsAreOver
<1>a. /\ hash \in [Call -> (SUBSET Field) \cup {Absent}] /\ CallsShape
      /\ announced \in [Call -> SUBSET Words]
  BY DEF CallsInv, CallsShape
<1>b. s.at # "idle" => ~alive
  BY RestIs DEF SweptIsDead, Resting
<1>c. NoCall \notin Call /\ (UNCHANGED vars => UNCHANGED <<node, owner, queue, job, announced, hash, index>>)
  BY Parts DEF vars, registry
<1>1. CASE Look(r)
  <2> DEFINE new == [s EXCEPT !.at = "claiming"]
  <2>1. /\ ~alive /\ sweep' = [sweep EXCEPT ![r] = new] /\ s = Rest
        /\ UNCHANGED <<vars, connected, alive, claim>>
    BY <1>1, <1>0 DEF Look, Goes, Resting
  <2>2. new \in Sweep /\ new.at = "claiming" /\ new.rows = {} /\ new.call = NoCall
    BY <2>1, RestIs DEF Sweep
  <2> HIDE DEF new, s
  <2> QED BY <2>1, <2>2, <1>a, <1>c, WatcherKeeps
<1>2. CASE Claim(r)
  <2> DEFINE at == IF claim = NoOne THEN "claimed" ELSE "idle"
             new == [s EXCEPT !.at = at]
  <2>1. /\ s.at = "claiming" /\ sweep' = [sweep EXCEPT ![r] = new]
        /\ claim' = IF claim = NoOne THEN r ELSE claim
        /\ UNCHANGED <<vars, connected, alive>>
    BY <1>2, <1>0 DEF Claim, Goes
  <2>2. new \in Sweep /\ new.at = at /\ new.rows = s.rows /\ new.call = s.call
    BY <1>0 DEF Sweep
  <2>3. at \in {"claimed", "idle"} /\ (at = "claimed" => claim' = r)
    BY <2>1
  <2>4. ~alive /\ s.call = NoCall
    BY <2>1, <1>0, <1>b
  <2>5. claim' = claim \/ (claim = NoOne /\ claim' = r)
    BY <2>1
  <2> HIDE DEF new, s, at
  <2> QED BY <2>1, <2>2, <2>3, <2>4, <2>5, <1>0, <1>a, <1>c, WatcherKeeps
<1>3. CASE SweepStarts(r)
  <2> DEFINE new == [s EXCEPT !.at = "calls", !.rows = index]
  <2>1. /\ s.at = "claimed" /\ sweep' = [sweep EXCEPT ![r] = new]
        /\ UNCHANGED <<vars, connected, alive, claim>>
    BY <1>3, <1>0 DEF SweepStarts
  <2>2. /\ new \in Sweep /\ new.at = "calls" /\ new.rows = index /\ new.call = s.call
    BY <1>0, <1>a DEF Sweep, CallsShape
  <2>3. ~alive /\ s.call = NoCall /\ claim = r
    BY <2>1, <1>0, <1>b
  <2>4. \A c \in Call : c \in index => Ended(c)
    BY <2>3 DEF DeadIsOver
  <2> HIDE DEF new, s
  <2> QED BY <2>1, <2>2, <2>3, <2>4, <1>a, <1>c, WatcherKeeps
<1>4. ASSUME NEW c \in Call, SweepGets(r, c) \/ SweepDrops(r, c) PROVE SweepInv'
  <2>1. s.at = "calls" /\ c \in s.rows /\ UNCHANGED <<node, owner, queue, job, announced, connected, alive, claim>>
    BY <1>4 DEF SweepGets, SweepDrops, vars
  <2>2. ~alive /\ s.call = NoCall /\ claim = r
    BY <2>1, <1>0, <1>b
  <2>3. CASE SweepGets(r, c)
    <3> DEFINE new == [at |-> "got", rows |-> s.rows \ {c}, call |-> c]
    <3>1. sweep' = [sweep EXCEPT ![r] = new] /\ UNCHANGED <<hash, index>>
      BY <2>3, <1>0 DEF SweepGets, vars, registry
    <3>2. new \in Sweep /\ new.at = "got" /\ new.rows \subseteq s.rows /\ new.call = c
      BY <1>0 DEF Sweep
    <3> HIDE DEF new, s
    <3> QED BY <2>1, <2>2, <3>1, <3>2, <1>0, <1>a, <1>c, WatcherKeeps
  <2>4. CASE SweepDrops(r, c)
    <3> DEFINE new == [s EXCEPT !.rows = s.rows \ {c}]
    <3>1. sweep' = [sweep EXCEPT ![r] = new] /\ EndCall(c)
      BY <2>4, <1>0 DEF SweepDrops
    <3>2. new \in Sweep /\ new.at = "calls" /\ new.rows \subseteq s.rows /\ new.call = NoCall
      BY <2>1, <2>2, <1>0 DEF Sweep
    <3>3. /\ hash' \in [Call -> (SUBSET Field) \cup {Absent}] /\ index' = index \ {c}
          /\ \A d \in Call : hash'[d] # Absent <=> (d # c /\ hash[d] # Absent)
      BY <3>1, <1>a, EndIs
    <3> HIDE DEF new, s
    <3> QED BY <2>1, <2>2, <3>1, <3>2, <3>3, <1>0, <1>a, <1>c, WatcherKeeps
  <2> QED BY <1>4, <2>3, <2>4
<1>5. CASE SweepAnnounces(r) \/ SweepEnds(r)
  <2>0. s.at \in {"got", "ended"} /\ UNCHANGED <<node, owner, queue, job, connected, alive, claim>>
    BY <1>5 DEF SweepAnnounces, SweepEnds
  <2>1. ~alive /\ claim = r /\ s.call \in Call /\ Ended(s.call)
    <3>1. s.call \in Call
      BY <2>0, <1>0 DEF Sweep
    <3> QED BY <2>0, <3>1, <1>0, <1>b
  <2>2. CASE SweepAnnounces(r)
    <3> DEFINE new == [s EXCEPT !.at = "ended"]
    <3>1. sweep' = [sweep EXCEPT ![r] = new] /\ Announce(s.call, "lost") /\ UNCHANGED <<hash, index>>
      BY <2>2, <1>0 DEF SweepAnnounces, Goes, registry
    <3>2. new \in Sweep /\ new.at = "ended" /\ new.rows = s.rows /\ new.call = s.call
      BY <1>0 DEF Sweep
    <3>3. /\ announced' \in [Call -> SUBSET Words] /\ \A d \in Call \ {s.call} : announced'[d] = announced[d]
      BY <3>1, <2>1, <1>a, AnnounceIs DEF Words
    <3>4. \A c \in Call : "lost" \in announced'[c] => "lost" \in announced[c] \/ Ended(c)
      BY <3>3, <2>1
    <3> HIDE DEF new, s
    <3> QED BY <2>0, <2>1, <3>1, <3>2, <3>3, <3>4, <1>0, <1>a, <1>c, WatcherKeeps
  <2>3. CASE SweepEnds(r)
    <3> DEFINE new == [s EXCEPT !.at = "calls", !.call = NoCall]
    <3>1. sweep' = [sweep EXCEPT ![r] = new] /\ EndCall(s.call) /\ UNCHANGED announced
      BY <2>3, <1>0 DEF SweepEnds
    <3>2. new \in Sweep /\ new.at = "calls" /\ new.rows = s.rows /\ new.call = NoCall
      BY <1>0 DEF Sweep
    <3>3. /\ hash' \in [Call -> (SUBSET Field) \cup {Absent}] /\ index' = index \ {s.call}
          /\ \A d \in Call : hash'[d] # Absent <=> (d # s.call /\ hash[d] # Absent)
      BY <3>1, <2>1, <1>a, EndIs
    <3> HIDE DEF new, s
    <3> QED BY <2>0, <2>1, <3>1, <3>2, <3>3, <1>0, <1>a, <1>c, WatcherKeeps
  <2> QED BY <1>5, <2>2, <2>3
<1>6. CASE SweepForgets(r) \/ SweepFails(r)
  <2>1. /\ sweep' = [sweep EXCEPT ![r] = Rest] /\ s # Rest
        /\ UNCHANGED <<node, owner, queue, job, announced, connected, alive, claim, hash>>
        /\ index' \in {{}, index}
    BY <1>6, RestIs DEF SweepForgets, SweepFails, ForgetNodeCalls, Resting, registry
  <2>2. ~alive
    BY <2>1, RestIs DEF SweptIsDead, Resting
  <2>3. index' \subseteq index
    BY <2>1
  <2> QED BY <2>1, <2>2, <2>3, <1>a, RestIs, <1>c, WatcherKeeps
<1> QED BY <1>1, <1>2, <1>3, <1>4, <1>5, <1>6 DEF SweepStep

LEMMA WatcherDies ==
  ASSUME SweepInv, NEW r \in Replica, Dead(r)
  PROVE  SweepInv'
<1> USE DEF SweepInv
<1>1. /\ Dies(r) /\ CallsStep /\ sweep' = [sweep EXCEPT ![r] = Rest]
      /\ UNCHANGED <<connected, alive, claim, nodeUp>>
      /\ owner' = owner \/ owner' = NoOne
  BY DEF Dead, Dies, CallsStep, node
<1>2. CallsInv' /\ GoesOn /\ OwnedIsAlive' /\ DeadIsOver' /\ LostIsOver'
  BY <1>1, CallsPart
<1>3. sweep \in [Replica -> Sweep] /\ sweep'[r] = Rest /\ \A s \in Replica \ {r} : sweep'[s] = sweep[s]
  BY <1>1 DEF DeathTypeOK
<1>4. DeathTypeOK'
  BY <1>1, <1>3, RestIs DEF DeathTypeOK
<1>5. SweeperClaimed' /\ SweptIsDead'
  BY <1>1, <1>3, RestIs DEF SweeperClaimed, SweptIsDead, Resting
<1>6. RowsAreOver'
  BY <1>2, <1>3, RestIs, Parts DEF RowsAreOver, GoesOn
<1> QED BY <1>2, <1>4, <1>5, <1>6

(* As in the runs, a node is not owned again while a watcher is at work on *)
(* its death (Midway), and who lost it has done what it had queued (lag).  *)
(* Then one watcher at a time goes through the calls of a dead node, and   *)
(* announces none as lost that is up (node-failure.ts:20, :50), for any    *)
(* replicas and calls, whoever dies or fails midway.                       *)
THEOREM SweepsAreRightHolds ==
  ASSUME ~Midway, "lag" \notin Faults
  PROVE  DeathSpec => []SweepsAreRight
<1>1. SweepInv /\ [DeathNext]_deathVars => SweepInv'
  <2> SUFFICES ASSUME SweepInv, [DeathNext]_deathVars PROVE SweepInv'
    OBVIOUS
  <2>1. CASE UNCHANGED deathVars
    <3>1. CallsInv'
      BY <2>1, UnchangedKeeps DEF SweepInv, deathVars
    <3> QED BY <2>1, <3>1 DEF SweepInv, DeathTypeOK, SweeperClaimed, OwnedIsAlive, SweptIsDead, DeadIsOver, RowsAreOver,
               LostIsOver, Resting, HasCall, Ended, deathVars, vars, node, registry, watch
  <2>2. CASE Ordinary \/ Die \/ Return \/ \E r \in Replica : Connect(r)
    BY <2>2, NodeKeeps
  <2>3. CASE Heartbeat \/ KeyExpires \/ ClaimLapses \/ \E r \in Replica : Own(r)
    BY <2>3, KeyKeeps
  <2>4. CASE \E r \in Replica : SweepStep(r) \/ SweepFails(r)
    BY <2>4, SweepStepKeeps
  <2>5. CASE \E r \in Replica : Dead(r)
    BY <2>5, WatcherDies
  <2> QED BY <2>1, <2>2, <2>3, <2>4, <2>5 DEF DeathNext
<1>2. SweepInv => SweepsAreRight
  <2> SUFFICES ASSUME SweepInv PROVE SweepsAreRight
    OBVIOUS
  <2>1. OneSweeps
    BY DEF SweepInv, SweeperClaimed, OneSweeps
  <2>2. OnlyDeadCallsLost
    BY DEF SweepInv, LostIsOver, Ended, Live, OnlyDeadCallsLost
  <2> QED BY <2>1, <2>2 DEF SweepInv, SweepsAreRight
<1> QED BY SweepStart, <1>1, <1>2, PTL DEF DeathSpec

-----------------------------------------------------------------------------
(* An owner that has caught up. *)

(* The calls whose creation, whose hangup the owner has waiting or in hand.*)
Creating == {c \in Call : \E i \in 1..Len(queue[owner]) : queue[owner][i].kind = "created" /\ queue[owner][i].call = c}
Hanging  == {c \in Call : \E i \in 1..Len(queue[owner]) : queue[owner][i].kind = "hungup" /\ queue[owner][i].call = c}

Owned   == owner # NoOne /\ nodeUp
Syncing == queue[owner] # <<>> /\ Head(queue[owner]) = Sync
Read    == job[Events(owner)]

(* Only the owner has tasks; the node's index lists the hashes there are.  *)
OneQueue      == \A r \in Replica : owner # NoOne /\ r # owner => queue[r] = <<>>
IndexIsHashes == \A c \in Call : c \in index <=> HasCall(c)

(* A call's hangup waits behind its creation, and the sync before all; a   *)
(* call that is to be hung up is over, and one that is to be created and   *)
(* is over is to be hung up as well.                                       *)
Ordered ==
  \A i, j \in 1..Len(queue[owner]) :
    queue[owner][i].kind = "created" /\ queue[owner][j].kind = "hungup"
      /\ queue[owner][i].call = queue[owner][j].call => i < j
SyncIsFirst   == \A i \in 1..Len(queue[owner]) : queue[owner][i].kind = "sync" => i = 1
HungIsOver    == \A c \in Hanging : Ended(c)
HangupsFollow == \A c \in Creating : ~Live(c) => c \in Hanging

(* Once the sync is done, what is still to be done makes the registry's    *)
(* calls those that are up.                                                *)
CaughtUp ==
  ~Syncing =>
    \A c \in Call : /\ Live(c) => HasCall(c) \/ c \in Creating
                    /\ HasCall(c) /\ ~Live(c) => c \in Hanging

(* Until then it is the list that was read of the node, what has happened  *)
(* since, and what is left to be looked at: first the calls that were up,  *)
(* then those that were not.                                               *)
Listed ==
  \A c \in Call :
    /\ c \notin Read.fresh => Begun(c)
    /\ c \notin Read.live \cup Read.fresh => Ended(c)
    /\ c \in Read.fresh /\ Begun(c) => c \in Creating
    /\ c \in Read.live /\ ~Live(c) => c \in Hanging

Adding ==
  \A c \in Call :
    c \in Read.live /\ Live(c) => HasCall(c) \/ c \in Read.rows \/ (Read.at = "create" /\ Read.call = c)

Ending ==
  \A c \in Call :
    /\ c \in Read.live /\ Live(c) => HasCall(c)
    /\ c \in Read.rows \/ (Read.at = "endApply" /\ Read.call = c) => c \notin Read.live
    /\ HasCall(c) /\ c \notin Read.live /\ ~Live(c) =>
         c \in Read.rows \/ (Read.at = "endApply" /\ Read.call = c) \/ c \in Hanging

CatchingUp ==
  /\ Read.at \in Reads => Listed
  /\ Read.at \in {"rows", "create", "update"} => Adding
  /\ Read.at \in {"ending", "endApply"} => Ending

OwnerInv == Ordered /\ SyncIsFirst /\ HungIsOver /\ HangupsFollow /\ CaughtUp /\ CatchingUp

InStepInv == CallsInv /\ OneQueue /\ IndexIsHashes /\ epoch /\ (Owned => OwnerInv)

(* As in the runs: no task fails, Redis and the hashes stay, and an owner  *)
(* has done what it had queued before another owns the node.               *)
Reliable == Faults \cap {"lag", "task", "redis", "expiry"} = {}

(* What becomes of what waits when the task in hand is done, ...           *)
LEMMA DoneWaits ==
  ASSUME CallsShape, Ordered, SyncIsFirst, owner \in Replica, queue[owner] # <<>>, owner' = owner,
         queue' = [queue EXCEPT ![owner] = Tail(queue[owner])]
  PROVE  LET t == Head(queue[owner])
         IN  /\ Creating' \subseteq Creating /\ Hanging' \subseteq Hanging
             /\ \A c \in Creating : c \in Creating' \/ (t.kind = "created" /\ t.call = c)
             /\ \A c \in Hanging : c \in Hanging' \/ (t.kind = "hungup" /\ t.call = c)
             /\ t.kind = "created" /\ t.call \in Call => t.call \in Creating
             /\ t.kind = "hungup" /\ t.call \in Call => t.call \in Hanging \ Creating
             /\ Ordered' /\ SyncIsFirst' /\ ~Syncing'
             /\ \A s \in Replica \ {owner} : queue'[s] = queue[s]
<1> DEFINE q == queue[owner]
           p == queue'[owner]
<1>0. queue \in [Replica -> Seq(Task)] /\ q \in Seq(Task)
  BY DEF CallsShape
<1>1. /\ Tail(q) \in Seq(Task) /\ Len(q) \in Nat \ {0} /\ Len(Tail(q)) = Len(q) - 1
      /\ \A i \in 1..Len(Tail(q)) : Tail(q)[i] = q[i + 1]
      /\ Head(q) = q[1]
  BY <1>0, Shortened
<1>2. p = Tail(q) /\ \A s \in Replica \ {owner} : queue'[s] = queue[s]
  BY <1>0
<1>3. /\ p \in Seq(Task) /\ Len(q) \in Nat \ {0} /\ Head(q) = q[1] /\ 1 \in 1..Len(q)
      /\ \A i \in 1..Len(p) : p[i] = q[i + 1] /\ i + 1 \in 1..Len(q)
      /\ \A i \in 1..Len(q) : i = 1 \/ (i - 1 \in 1..Len(p) /\ q[i] = p[i - 1])
  <2>1. Len(p) = Len(q) - 1 /\ Len(q) \in Nat \ {0}
    BY <1>1, <1>2
  <2>2. \A i \in 1..Len(p) : p[i] = q[i + 1] /\ i + 1 \in 1..Len(q)
    BY <1>1, <1>2, <2>1
  <2>3. ASSUME NEW i \in 1..Len(q), i # 1
        PROVE  i - 1 \in 1..Len(p) /\ q[i] = p[i - 1]
    <3>1. i - 1 \in 1..Len(p) /\ (i - 1) + 1 = i
      BY <2>1, <2>3
    <3> QED BY <3>1, <2>2
  <2> QED BY <1>1, <1>2, <2>1, <2>2, <2>3
<1>4. queue'[owner'] = p /\ owner' = owner
  OBVIOUS
<1>5. Creating' \subseteq Creating /\ Hanging' \subseteq Hanging
  BY <1>3, <1>4 DEF Creating, Hanging
<1>6. ASSUME NEW c \in Creating PROVE c \in Creating' \/ (Head(q).kind = "created" /\ Head(q).call = c)
  <2>1. PICK i \in 1..Len(q) : q[i].kind = "created" /\ q[i].call = c
    BY DEF Creating
  <2>2. i = 1 \/ (i - 1 \in 1..Len(p) /\ p[i - 1].kind = "created" /\ p[i - 1].call = c)
    BY <2>1, <1>3
  <2>3. (\E j \in 1..Len(p) : p[j].kind = "created" /\ p[j].call = c) => c \in Creating'
    BY <1>4 DEF Creating
  <2> QED BY <2>1, <2>2, <2>3, <1>3
<1>7. ASSUME NEW c \in Hanging PROVE c \in Hanging' \/ (Head(q).kind = "hungup" /\ Head(q).call = c)
  <2>1. PICK i \in 1..Len(q) : q[i].kind = "hungup" /\ q[i].call = c
    BY DEF Hanging
  <2>2. i = 1 \/ (i - 1 \in 1..Len(p) /\ p[i - 1].kind = "hungup" /\ p[i - 1].call = c)
    BY <2>1, <1>3
  <2>3. (\E j \in 1..Len(p) : p[j].kind = "hungup" /\ p[j].call = c) => c \in Hanging'
    BY <1>4 DEF Hanging
  <2> QED BY <2>1, <2>2, <2>3, <1>3
<1>8. Head(q).kind = "created" /\ Head(q).call \in Call => Head(q).call \in Creating
  BY <1>3 DEF Creating
<1>9. Head(q).kind = "hungup" /\ Head(q).call \in Call => Head(q).call \in Hanging \ Creating
  <2> SUFFICES ASSUME Head(q).kind = "hungup", Head(q).call \in Call PROVE Head(q).call \in Hanging \ Creating
    OBVIOUS
  <2>1. Head(q).call \in Hanging
    BY <1>3 DEF Hanging
  <2>2. \A i \in 1..Len(q) : q[i].kind = "created" /\ q[i].call = Head(q).call => i < 1
    BY <1>3 DEF Ordered
  <2>3. \A i \in 1..Len(q) : ~(i < 1)
    BY <1>3
  <2> QED BY <2>1, <2>2, <2>3 DEF Creating
<1>10. Ordered'
  <2> SUFFICES ASSUME NEW i \in 1..Len(p), NEW j \in 1..Len(p),
                      p[i].kind = "created", p[j].kind = "hungup", p[i].call = p[j].call
               PROVE  i < j
    BY <1>4 DEF Ordered
  <2>1. p[i] = q[i + 1] /\ i + 1 \in 1..Len(q) /\ p[j] = q[j + 1] /\ j + 1 \in 1..Len(q)
    BY <1>3
  <2>2. i + 1 < j + 1
    BY <2>1 DEF Ordered
  <2> QED BY <2>2
<1>11. \A i \in 1..Len(p) : p[i].kind # "sync"
  <2> SUFFICES ASSUME NEW i \in 1..Len(p), p[i].kind = "sync" PROVE FALSE
    OBVIOUS
  <2>1. p[i] = q[i + 1] /\ i + 1 \in 1..Len(q)
    BY <1>3
  <2>2. i + 1 = 1
    BY <2>1 DEF SyncIsFirst
  <2> QED BY <2>2
<1>12. SyncIsFirst'
  BY <1>4, <1>11 DEF SyncIsFirst
<1>13. ~Syncing'
  <2> SUFFICES ASSUME p # <<>> PROVE Head(p) # Sync
    BY <1>4 DEF Syncing
  <2>1. Head(p) = p[1] /\ 1 \in 1..Len(p)
    BY <1>3, Shortened
  <2> QED BY <2>1, <1>11, Parts
<1> HIDE DEF p
<1> QED BY <1>2, <1>5, <1>6, <1>7, <1>8, <1>9, <1>10, <1>12, <1>13

(* ... and when an event is queued.                                        *)
LEMMA RaiseWaits ==
  ASSUME CallsInv, Ordered, SyncIsFirst, owner \in Replica,
         NEW k \in Kind, NEW c \in Call, NEW d \in Call, Raise(k, c, d),
         k = "created" => c \notin Hanging
  PROVE  /\ Creating' = Creating \cup (IF k = "created" THEN {c} ELSE {})
         /\ Hanging' = Hanging \cup (IF k = "hungup" THEN {c} ELSE {})
         /\ Ordered' /\ SyncIsFirst' /\ (~Syncing' => ~Syncing) /\ Read' = Read
         /\ \A s \in Replica \ {owner} : queue'[s] = queue[s]
         /\ UNCHANGED <<nodeUp, owner, hash, index, epoch>>
<1> DEFINE q == queue[owner]
           p == queue'[owner]
           t == [kind |-> k, call |-> c, peer |-> d]
<1>1. /\ \A s \in Replica : s # owner => queue'[s] = queue[s]
      /\ Len(p) = Len(q) + 1 /\ p # <<>> /\ Len(q) \in Nat
      /\ \A i \in 1..Len(q) : p[i] = q[i]
      /\ p[Len(q) + 1] = t
      /\ q # <<>> => Head(p) = Head(q)
      /\ UNCHANGED <<nodeUp, owner, job, epoch, hash, index>>
  BY RaiseQueues DEF CallsInv, registry
<1>2. /\ Len(q) \in Nat /\ Len(p) = Len(q) + 1
      /\ \A i \in 1..Len(p) : i \in 1..Len(q) \/ i = Len(q) + 1
      /\ \A i \in 1..Len(q) : i \in 1..Len(p) /\ p[i] = q[i]
      /\ Len(q) + 1 \in 1..Len(p) /\ p[Len(q) + 1].kind = k /\ p[Len(q) + 1].call = c
  BY <1>1
<1>3. queue'[owner'] = p /\ owner' = owner /\ Read' = Read
  BY <1>1 DEF Read
<1> HIDE DEF p, q
<1>4. Creating' = Creating \cup (IF k = "created" THEN {c} ELSE {})
  <2>1. ASSUME NEW e \in Call
        PROVE  (\E i \in 1..Len(p) : p[i].kind = "created" /\ p[i].call = e)
                 <=> (\E i \in 1..Len(q) : q[i].kind = "created" /\ q[i].call = e) \/ (k = "created" /\ e = c)
    BY <1>2
  <2> QED BY <2>1, <1>3 DEF Creating, q
<1>5. Hanging' = Hanging \cup (IF k = "hungup" THEN {c} ELSE {})
  <2>1. ASSUME NEW e \in Call
        PROVE  (\E i \in 1..Len(p) : p[i].kind = "hungup" /\ p[i].call = e)
                 <=> (\E i \in 1..Len(q) : q[i].kind = "hungup" /\ q[i].call = e) \/ (k = "hungup" /\ e = c)
    BY <1>2
  <2> QED BY <2>1, <1>3 DEF Hanging, q
<1>6. Ordered'
  <2> SUFFICES ASSUME NEW i \in 1..Len(p), NEW j \in 1..Len(p),
                      p[i].kind = "created", p[j].kind = "hungup", p[i].call = p[j].call
               PROVE  i < j
    BY <1>3 DEF Ordered
  <2>1. CASE i \in 1..Len(q) /\ j \in 1..Len(q)
    BY <2>1, <1>2 DEF Ordered, q
  <2>2. CASE i \in 1..Len(q) /\ j = Len(q) + 1
    BY <2>2, <1>2
  <2>3. CASE i = Len(q) + 1
    <3>1. k = "created" /\ p[i].call = c /\ j # i
      BY <2>3, <1>2
    <3>2. j \in 1..Len(q) /\ q[j].kind = "hungup" /\ q[j].call = c
      BY <3>1, <2>3, <1>2
    <3>3. c \in Hanging
      BY <3>2 DEF Hanging, q
    <3> QED BY <3>1, <3>3
  <2> QED BY <2>1, <2>2, <2>3, <1>2
<1>7. SyncIsFirst'
  <2>1. ASSUME NEW i \in 1..Len(p), p[i].kind = "sync" PROVE i = 1
    <3>1. i \in 1..Len(q)
      BY <2>1, <1>2 DEF Kind
    <3> QED BY <2>1, <3>1, <1>2 DEF SyncIsFirst, q
  <2> QED BY <2>1, <1>3 DEF SyncIsFirst
<1>8. ~Syncing' => ~Syncing
  BY <1>1, <1>3 DEF Syncing, p, q
<1> QED BY <1>1, <1>3, <1>4, <1>5, <1>6, <1>7, <1>8

(* An event of a channel, queued, keeps InStepInv.                         *)
LEMMA RaiseInStep ==
  ASSUME InStepInv, CallsInv', GoesOn, NEW k \in Kind, NEW c \in Call, NEW d \in Call, Raise(k, c, d), nodeUp,
         \A e \in Call \ {c} : channel'[e] = channel[e],
         Begun(c)', Live(c)' <=> k # "hungup", k = "created" <=> ~Begun(c), ~Ended(c)
  PROVE  InStepInv'
<1> USE DEF InStepInv
<1>1. CASE owner = NoOne
  <2>1. UNCHANGED <<owner, queue, epoch, hash, index>>
    <3>1. queue \in [Replica -> Seq(Task)]
      BY DEF CallsInv, CallsShape
    <3>2. queue' = [r \in Replica |-> queue[r]]
      BY <1>1, Parts DEF Raise
    <3> QED BY <3>1, <3>2 DEF Raise, registry
  <2> QED BY <1>1, <2>1 DEF OneQueue, IndexIsHashes, HasCall, Owned
<1>2. CASE owner # NoOne
  <2>0. owner \in Replica /\ OwnerInv
    BY <1>2 DEF CallsInv, CallsShape, Owned
  <2>1. k = "created" => c \notin Hanging
    BY <2>0 DEF OwnerInv, HungIsOver
  <2>2. /\ Creating' = Creating \cup (IF k = "created" THEN {c} ELSE {})
        /\ Hanging' = Hanging \cup (IF k = "hungup" THEN {c} ELSE {})
        /\ Ordered' /\ SyncIsFirst' /\ (~Syncing' => ~Syncing) /\ Read' = Read
        /\ \A s \in Replica \ {owner} : queue'[s] = queue[s]
        /\ UNCHANGED <<nodeUp, owner, hash, index, epoch>>
    BY <2>0, <2>1, RaiseWaits DEF OwnerInv
  <2>3. OneQueue' /\ IndexIsHashes'
    BY <2>2 DEF OneQueue, IndexIsHashes, HasCall
  <2>4. /\ \A e \in Call : HasCall(e)' = HasCall(e)
        /\ \A e \in Call \ {c} : Live(e)' = Live(e) /\ Begun(e)' = Begun(e) /\ Ended(e)' = Ended(e)
        /\ Begun(c)' /\ (Live(c)' <=> k # "hungup") /\ (k = "created" <=> ~Begun(c)) /\ ~Ended(c)
        /\ (Live(c) <=> Begun(c)) /\ (Ended(c)' <=> k = "hungup")
    <3>1. channel[c] \in Pieces /\ channel'[c] \in Pieces
      BY DEF CallsInv, CallsShape
    <3> QED BY <3>1, <2>2 DEF HasCall, Live, Begun, Ended, Pieces
  <2>5. HungIsOver' /\ HangupsFollow'
    BY <2>0, <2>2, <2>4 DEF OwnerInv, HungIsOver, HangupsFollow, Creating, Hanging
  <2>6. CaughtUp'
    BY <2>0, <2>2, <2>4 DEF OwnerInv, CaughtUp
  <2>7. c \in Read.live => Begun(c)
    BY <2>0 DEF CallsInv, JobsBegun, Read
  <2>8. Read.at \in Reads => Listed'
    BY <2>0, <2>2, <2>4, <2>7 DEF OwnerInv, CatchingUp, Listed
  <2>9. Read.at \in {"rows", "create", "update"} => Adding'
    BY <2>0, <2>2, <2>4, <2>7 DEF OwnerInv, CatchingUp, Adding
  <2>10. Read.at \in {"ending", "endApply"} => Ending'
    BY <2>0, <2>2, <2>4, <2>7 DEF OwnerInv, CatchingUp, Ending
  <2>11. CatchingUp'
    BY <2>2, <2>8, <2>9, <2>10 DEF CatchingUp
  <2> QED BY <2>2, <2>3, <2>5, <2>6, <2>11 DEF OwnerInv
<1> QED BY <1>1, <1>2

LEMMA ChannelInStep ==
  ASSUME InStepInv, CallsInv', GoesOn, ChannelStep
  PROVE  InStepInv'
<1>0. channel \in [Call -> Pieces] /\ Pieces = {"none", "ringing", "answered", "bridged", "gone", "lost"}
  BY DEF InStepInv, CallsInv, CallsShape, Pieces
<1>1. ASSUME NEW c \in Call, Ring(c) PROVE InStepInv'
  <2>1. Raise("created", c, c) /\ nodeUp /\ channel[c] = "none" /\ channel' = [channel EXCEPT ![c] = "ringing"]
    BY <1>1 DEF Ring
  <2>2. /\ \A e \in Call \ {c} : channel'[e] = channel[e]
        /\ Begun(c)' /\ Live(c)' /\ ~Begun(c) /\ ~Ended(c)
    BY <2>1, <1>0 DEF Begun, Live, Ended
  <2> QED BY <2>1, <2>2, RaiseInStep DEF Kind
<1>2. ASSUME NEW c \in Call, Answer(c) PROVE InStepInv'
  <2>1. Raise("answered", c, c) /\ nodeUp /\ channel[c] = "ringing" /\ channel' = [channel EXCEPT ![c] = "answered"]
    BY <1>2 DEF Answer
  <2>2. /\ \A e \in Call \ {c} : channel'[e] = channel[e]
        /\ Begun(c)' /\ Live(c)' /\ Begun(c) /\ ~Ended(c)
    BY <2>1, <1>0 DEF Begun, Live, Ended
  <2> QED BY <2>1, <2>2, RaiseInStep DEF Kind
<1>3. ASSUME NEW c \in Call, Hangup(c) PROVE InStepInv'
  <2>1. Raise("hungup", c, c) /\ nodeUp /\ Live(c) /\ channel' = [channel EXCEPT ![c] = "gone"]
    BY <1>3 DEF Hangup
  <2>2. /\ \A e \in Call \ {c} : channel'[e] = channel[e]
        /\ Begun(c)' /\ ~Live(c)' /\ Begun(c) /\ ~Ended(c)
    BY <2>1, <1>0 DEF Begun, Live, Ended
  <2> QED BY <2>1, <2>2, RaiseInStep DEF Kind
<1>4. ASSUME NEW c \in Call, NEW d \in Call, Bridge(c, d) PROVE InStepInv'
  <2>1. Raise("bridged", c, d) /\ nodeUp /\ channel[c] = "answered" /\ channel' = [channel EXCEPT ![c] = "bridged"]
    BY <1>4 DEF Bridge
  <2>2. /\ \A e \in Call \ {c} : channel'[e] = channel[e]
        /\ Begun(c)' /\ Live(c)' /\ Begun(c) /\ ~Ended(c)
    BY <2>1, <1>0 DEF Begun, Live, Ended
  <2> QED BY <2>1, <2>2, RaiseInStep DEF Kind
<1> QED BY <1>1, <1>2, <1>3, <1>4 DEF ChannelStep

(* The node dies or is back, and it is given up: nobody owns it.           *)
LEMMA GivenUpInStep ==
  ASSUME InStepInv, CallsInv', NodeDies \/ NodeReturns \/ Lose
  PROVE  InStepInv'
<1>1. UNCHANGED <<queue, hash, index, epoch>> /\ owner' \in {owner, NoOne} /\ ~Owned'
  BY DEF NodeDies, NodeReturns, Lose, registry, Owned
<1> QED BY <1>1 DEF InStepInv, OneQueue, IndexIsHashes, HasCall

(* A replica owns the node: it has nothing to do but the sync.             *)
LEMMA AcquireInStep ==
  ASSUME InStepInv, CallsInv', "lag" \notin Faults, NEW r \in Replica, Acquire(r)
  PROVE  InStepInv'
<1> USE DEF InStepInv
<1>1. /\ owner' = r /\ queue' = [queue EXCEPT ![r] = Append(queue[r], Sync)]
      /\ UNCHANGED <<node, job, epoch, hash, index>>
      /\ \A s \in Replica : queue[s] = <<>>
  BY DEF Acquire, Drained, registry, CallsInv, CallsShape
<1>2. queue'[r] = <<Sync>> /\ \A s \in Replica \ {r} : queue'[s] = <<>>
  <2>1. queue \in [Replica -> Seq(Task)] /\ Append(<<>>, Sync) = <<Sync>>
    BY DEF CallsInv, CallsShape
  <2> QED BY <1>1, <2>1
<1>3. OneQueue' /\ IndexIsHashes' /\ epoch'
  BY <1>1, <1>2 DEF OneQueue, IndexIsHashes, HasCall
<1>4. /\ Len(queue'[owner']) = 1 /\ queue'[owner'][1] = Sync
      /\ queue'[owner'] # <<>> /\ Head(queue'[owner']) = Sync
  BY <1>1, <1>2
<1>5. Ordered' /\ SyncIsFirst'
  BY <1>4 DEF Ordered, SyncIsFirst
<1>6. Creating' = {} /\ Hanging' = {}
  BY <1>4, Parts DEF Creating, Hanging
<1>7. HungIsOver' /\ HangupsFollow'
  BY <1>6 DEF HungIsOver, HangupsFollow
<1>8. CaughtUp'
  BY <1>4 DEF CaughtUp, Syncing
<1>9. Read'.at = "idle"
  BY <1>1 DEF Read, CallsInv, InHand
<1>10. CatchingUp'
  BY <1>9 DEF CatchingUp, Reads
<1> QED BY <1>3, <1>5, <1>7, <1>8, <1>10 DEF OwnerInv

(* A replica dies: the owner, or one that has nothing to do.               *)
LEMMA DiesInStep ==
  ASSUME InStepInv, CallsInv', NEW r \in Replica, Dies(r)
  PROVE  InStepInv'
<1> USE DEF InStepInv
<1>1. /\ queue \in [Replica -> Seq(Task)] /\ job \in [Process -> Job] /\ owner \in Replica \cup {NoOne}
      /\ queue' = [queue EXCEPT ![r] = <<>>] /\ UNCHANGED <<node, epoch, hash, index>>
      /\ owner' = IF owner = r THEN NoOne ELSE owner
      /\ job' = [job EXCEPT ![Events(r)] = Idle, ![Rebuild(r)] = Idle]
  BY DEF Dies, registry, CallsInv, CallsShape
<1>2. OneQueue' /\ IndexIsHashes' /\ epoch'
  BY <1>1 DEF OneQueue, IndexIsHashes, HasCall
<1>3. CASE owner = r \/ owner = NoOne
  BY <1>1, <1>2, <1>3 DEF Owned
<1>4. CASE owner \in Replica \ {r}
  <2>1. owner' = owner /\ queue'[owner] = queue[owner] /\ job'[Events(owner)] = job[Events(owner)]
    BY <1>1, <1>4, Parts
  <2>2. /\ Creating' = Creating /\ Hanging' = Hanging /\ Read' = Read /\ Syncing' = Syncing
        /\ Ordered' = Ordered /\ SyncIsFirst' = SyncIsFirst
    BY <2>1 DEF Creating, Hanging, Read, Syncing, Ordered, SyncIsFirst
  <2>3. Owned' = Owned /\ \A c \in Call : HasCall(c)' = HasCall(c) /\ Live(c)' = Live(c)
                                          /\ Begun(c)' = Begun(c) /\ Ended(c)' = Ended(c)
    BY <1>1, <2>1 DEF Owned, HasCall, Live, Begun, Ended, node
  <2>4. Owned => HungIsOver' /\ HangupsFollow' /\ CaughtUp'
    BY <2>2, <2>3 DEF OwnerInv, HungIsOver, HangupsFollow, CaughtUp, Creating, Hanging
  <2>5. Owned => CatchingUp'
    BY <2>2, <2>3 DEF OwnerInv, CatchingUp, Listed, Adding, Ending
  <2> QED BY <1>2, <2>2, <2>3, <2>4, <2>5 DEF OwnerInv
<1> QED BY <1>1, <1>3, <1>4

(* A step of the task in hand that is no sync, not the last: the registry's*)
(* calls stay.                                                             *)
LEMMA EventInStep ==
  ASSUME InStepInv, CallsInv', Owned, queue[owner] # <<>>, Head(queue[owner]) # Sync,
         UNCHANGED <<node, owner, queue, epoch>>,
         \A c \in Call : hash'[c] # Absent <=> hash[c] # Absent, index' = index
  PROVE  InStepInv'
<1> USE DEF InStepInv
<1>1. /\ Creating' = Creating /\ Hanging' = Hanging /\ Syncing' = Syncing
      /\ Ordered' = Ordered /\ SyncIsFirst' = SyncIsFirst /\ Owned' = Owned
  BY DEF Creating, Hanging, Syncing, Ordered, SyncIsFirst, Owned, node
<1>2. \A c \in Call : (HasCall(c)' <=> HasCall(c)) /\ Live(c)' = Live(c) /\ Ended(c)' = Ended(c)
  BY DEF HasCall, Live, Ended, node
<1>3. OneQueue' /\ IndexIsHashes' /\ epoch'
  BY <1>2 DEF OneQueue, IndexIsHashes
<1>4. HungIsOver' /\ HangupsFollow' /\ CaughtUp'
  BY <1>1, <1>2 DEF OwnerInv, HungIsOver, HangupsFollow, CaughtUp, Creating, Hanging
<1>5. Read'.at \notin Reads
  <2>1. owner' \in Replica /\ Head(queue'[owner']) # Sync
    BY DEF Owned, CallsInv, CallsShape
  <2>2. InHand'
    BY DEF CallsInv
  <2>3. \A r \in Replica : job'[Events(r)].at \in Reads => Head(queue'[r]) = Sync
    BY <2>2 DEF InHand
  <2> QED BY <2>1, <2>3 DEF Read
<1>6. CatchingUp'
  BY <1>5 DEF CatchingUp, Reads
<1> QED BY <1>1, <1>3, <1>4, <1>6 DEF OwnerInv

(* The task in hand is done, and it was no sync: the registry is told.     *)
LEMMA ApplyInStep ==
  ASSUME InStepInv, CallsInv', Owned, NEW t \in Current(owner), Apply(owner, t)
  PROVE  InStepInv'
<1> USE DEF InStepInv
<1>0. owner \in Replica /\ OwnerInv /\ CallsShape
  BY DEF Owned, CallsInv, CallsShape
<1>1. Handles(owner, t, "apply") /\ Done(owner) /\ UNCHANGED <<node, owner, epoch>>
  BY DEF Apply
<1>2. queue[owner] # <<>> /\ t = Head(queue[owner]) /\ t \in Task /\ Read.at = "apply"
  BY <1>0, <1>1, HeadIs DEF Read
<1>3. t # Sync /\ ~Syncing
  BY <1>0, <1>2, Parts DEF CallsInv, InHand, Steps, Read, Syncing
<1>4. t.kind \in Kind /\ t.call \in Call
  BY <1>2, <1>3, SyncIs, TasksAre
<1>5. /\ queue' = [queue EXCEPT ![owner] = Tail(queue[owner])] /\ job' = [job EXCEPT ![Events(owner)] = Idle]
      /\ job \in [Process -> Job]
  BY <1>0, <1>1 DEF Done, CallsShape
<1>6. /\ Creating' \subseteq Creating /\ Hanging' \subseteq Hanging
      /\ \A c \in Creating : c \in Creating' \/ (t.kind = "created" /\ t.call = c)
      /\ \A c \in Hanging : c \in Hanging' \/ (t.kind = "hungup" /\ t.call = c)
      /\ t.kind = "created" => t.call \in Creating
      /\ t.kind = "hungup" => t.call \in Hanging \ Creating
      /\ Ordered' /\ SyncIsFirst' /\ ~Syncing'
      /\ \A s \in Replica \ {owner} : queue'[s] = queue[s]
  BY <1>0, <1>1, <1>2, <1>4, <1>5, DoneWaits DEF OwnerInv
<1>7. Read' = Idle /\ Owned' = Owned
  BY <1>0, <1>1, <1>5, Parts DEF Read, Owned, node
<1>8. OneQueue' /\ epoch'
  BY <1>1, <1>6 DEF OneQueue
<1>9. \A c \in Call : Live(c)' = Live(c) /\ Ended(c)' = Ended(c) /\ ~(Live(c) /\ Ended(c))
  BY <1>1 DEF Live, Ended, node
<1>10. CatchingUp'
  BY <1>7, Parts DEF CatchingUp, Reads
<1>11. HungIsOver'
  BY <1>0, <1>6, <1>9 DEF OwnerInv, HungIsOver, Hanging
<1>12. HangupsFollow'
  BY <1>0, <1>6, <1>9 DEF OwnerInv, HangupsFollow, Creating
<1>13. IndexIsHashes' /\ CaughtUp'
  <2>0. /\ \A c \in Call : Live(c) => HasCall(c) \/ c \in Creating
        /\ \A c \in Call : HasCall(c) /\ ~Live(c) => c \in Hanging
    BY <1>0, <1>3 DEF OwnerInv, CaughtUp
  <2>1. CASE t.kind = "created"
    <3>1. CreateCall(t.call, Told(t)) /\ Told(t) \in BOOLEAN
      BY <2>1 DEF Apply, Told
    <3>2. index' = index \cup {t.call} /\ \A c \in Call : HasCall(c)' <=> (c = t.call \/ HasCall(c))
      BY <3>1, <1>0, <1>4, CreateIs DEF HasCall
    <3>3. ~Live(t.call) => t.call \in Hanging
      BY <1>0, <1>6, <2>1 DEF OwnerInv, HangupsFollow
    <3> QED BY <2>0, <2>1, <3>2, <3>3, <1>6, <1>9 DEF IndexIsHashes, CaughtUp
  <2>2. CASE t.kind = "hungup"
    <3>1. EndCall(t.call)
      BY <2>2 DEF Apply
    <3>2. index' = index \ {t.call} /\ \A c \in Call : HasCall(c)' <=> (c # t.call /\ HasCall(c))
      BY <3>1, <1>0, <1>4, EndIs DEF HasCall
    <3>3. ~Live(t.call)
      BY <1>0, <1>6, <1>9, <2>2, <1>4 DEF OwnerInv, HungIsOver
    <3> QED BY <2>0, <2>2, <3>2, <3>3, <1>6, <1>9 DEF IndexIsHashes, CaughtUp
  <2>3. CASE t.kind \in {"answered", "bridged"}
    <3>1. UpdateCall(t.call, {t.kind}) /\ {t.kind} \in SUBSET Field
      BY <2>3 DEF Apply, Field
    <3>2. index' = index /\ \A c \in Call : HasCall(c)' <=> HasCall(c)
      BY <3>1, <1>0, <1>4, UpdateIs DEF HasCall
    <3> QED BY <2>0, <2>3, <3>2, <1>6, <1>9 DEF IndexIsHashes, CaughtUp
  <2> QED BY <2>1, <2>2, <2>3, <1>4 DEF Kind
<1> QED BY <1>6, <1>8, <1>10, <1>11, <1>12, <1>13 DEF OwnerInv

(* A step of the sync leaves the channels and what waits as they are.      *)
LEMMA SyncLeaves ==
  ASSUME InStepInv, Owned, SyncStep(owner)
  PROVE  /\ owner \in Replica /\ OwnerInv /\ CallsShape /\ Read \in Job
         /\ queue[owner] # <<>> /\ Head(queue[owner]) = Sync /\ Syncing' /\ Owned'
         /\ UNCHANGED <<node, owner, queue, epoch>> /\ Creating' = Creating /\ Hanging' = Hanging
         /\ Ordered' = Ordered /\ SyncIsFirst' = SyncIsFirst
         /\ \A c \in Call : /\ Live(c)' = Live(c) /\ Begun(c)' = Begun(c) /\ Ended(c)' = Ended(c)
                            /\ Live(c) <=> Begun(c) /\ ~Ended(c)
         /\ Read.at \in Named => Read.call \in Call
<1> USE DEF InStepInv
<1>1. owner \in Replica /\ OwnerInv /\ CallsShape /\ CallsInv
  BY DEF Owned, CallsInv, CallsShape
<1>2. queue[owner] # <<>> /\ Head(queue[owner]) = Sync /\ UNCHANGED <<node, owner, queue>>
  BY <1>1, SyncHead
<1>3. epoch' = epoch
  BY DEF SyncStep, SyncStarts, SyncCalls, SyncEnded, ReadStep, RebuildCall, RebuildChanges, Row, SyncSpares, SyncEnds
<1>4. /\ Creating' = Creating /\ Hanging' = Hanging /\ Syncing' /\ Owned'
      /\ Ordered' = Ordered /\ SyncIsFirst' = SyncIsFirst
  BY <1>2 DEF Creating, Hanging, Syncing, Ordered, SyncIsFirst, Owned, node
<1>5. \A c \in Call : /\ Live(c)' = Live(c) /\ Begun(c)' = Begun(c) /\ Ended(c)' = Ended(c)
                      /\ Live(c) <=> Begun(c) /\ ~Ended(c)
  BY <1>1, <1>2 DEF Live, Begun, Ended, node, CallsShape, Pieces
<1>6. Read \in Job /\ (Read.at \in Named => Read.call \in Call)
  BY <1>1, Parts DEF CallsShape, Read, CallsInv, InHand
<1> QED BY <1>1, <1>2, <1>3, <1>4, <1>5, <1>6

LEMMA SyncFrame ==
  ASSUME InStepInv, CallsInv', Owned, SyncStep(owner), IndexIsHashes', CatchingUp'
  PROVE  InStepInv'
<1>1. /\ OwnerInv /\ Syncing' /\ UNCHANGED <<owner, queue, epoch>> /\ Creating' = Creating /\ Hanging' = Hanging
      /\ Ordered' = Ordered /\ SyncIsFirst' = SyncIsFirst
      /\ \A c \in Call : Live(c)' = Live(c) /\ Ended(c)' = Ended(c)
  BY SyncLeaves
<1>2. OneQueue' /\ epoch'
  BY <1>1 DEF InStepInv, OneQueue
<1>3. HungIsOver' /\ HangupsFollow' /\ CaughtUp'
  BY <1>1 DEF OwnerInv, HungIsOver, HangupsFollow, CaughtUp, Creating, Hanging
<1> QED BY <1>1, <1>2, <1>3 DEF InStepInv, OwnerInv

(* The registry's calls stay while the list is read, and while one of it   *)
(* is found over.                                                          *)
LEMMA ReadsOn ==
  ASSUME InStepInv, CallsInv', Owned, SyncStep(owner),
         SyncStarts(owner) \/ SyncCalls(owner) \/ RebuildChanges(Events(owner))
           \/ \E c \in Call : Row(Events(owner), c) \/ SyncSpares(owner, c) \/ SyncEnds(owner, c)
  PROVE  InStepInv'
<1> DEFINE j == Read
           new == Read'
<1>0. /\ owner \in Replica /\ owner' = owner /\ OwnerInv /\ CallsShape /\ j \in Job /\ job \in [Process -> Job]
      /\ Events(owner) \in Process /\ j = job[Events(owner)] /\ new = job'[Events(owner)]
      /\ Creating' = Creating /\ Hanging' = Hanging
      /\ \A c \in Call : /\ Live(c)' = Live(c) /\ Begun(c)' = Begun(c) /\ Ended(c)' = Ended(c)
                         /\ Live(c) <=> Begun(c) /\ ~Ended(c)
      /\ j.at \in Named => j.call \in Call
  BY SyncLeaves, Parts DEF Read, CallsShape
<1>a. index' = index /\ \A c \in Call : HasCall(c)' <=> HasCall(c)
  <2>1. CASE RebuildChanges(Events(owner))
    <3>1. UpdateCall(j.call, j.dump \ {"tenant"}) /\ j.call \in Call /\ j.dump \ {"tenant"} \in SUBSET Field
      BY <2>1, <1>0 DEF RebuildChanges, Named, Job
    <3> QED BY <3>1, <1>0, UpdateIs DEF HasCall
  <2>2. CASE ~RebuildChanges(Events(owner))
    BY <2>2 DEF SyncStarts, SyncCalls, Row, SyncSpares, SyncEnds, registry, HasCall
  <2> QED BY <2>1, <2>2
<1>b. IndexIsHashes' /\ IndexIsHashes
  BY <1>a DEF InStepInv, IndexIsHashes
<1> HIDE DEF j, new
<1>c. SUFFICES CatchingUp'
  BY <1>b, SyncFrame
<1>1. CASE SyncStarts(owner)
  <2>1. new = [Idle EXCEPT !.at = "rows", !.live = {c \in Call : Live(c)}, !.rows = {c \in Call : Live(c)},
                           !.fresh = {c \in Call : channel[c] = "none"}]
    BY <1>1, <1>0 DEF SyncStarts, List
  <2>2. /\ new.at = "rows" /\ new.live = {c \in Call : Live(c)} /\ new.rows = {c \in Call : Live(c)}
        /\ new.fresh = {c \in Call : ~Begun(c)}
    BY <2>1 DEF Idle, Begun
  <2>3. Listed' /\ Adding'
    BY <2>2, <1>0 DEF Listed, Adding, new
  <2> QED BY <2>2, <2>3 DEF CatchingUp, new
<1>2. CASE SyncCalls(owner)
  <2>1. /\ new = [j EXCEPT !.at = "ending", !.rows = index \ j.live] /\ j.at = "rows" /\ j.rows = {}
    BY <1>2, <1>0 DEF SyncCalls, Handles
  <2>2. new.at = "ending" /\ new.rows = index \ j.live /\ new.live = j.live /\ new.fresh = j.fresh
    BY <2>1, <1>0 DEF Job
  <2>3. Listed /\ Adding
    BY <2>1, <1>0 DEF OwnerInv, CatchingUp, Reads, j
  <2>4. Listed'
    BY <2>2, <2>3, <1>0 DEF Listed, new, j
  <2>5. Ending'
    BY <2>1, <2>2, <2>3, <1>0, <1>a, <1>b DEF Adding, Ending, IndexIsHashes, new, j
  <2> QED BY <2>2, <2>4, <2>5 DEF CatchingUp, new
<1>3. CASE RebuildChanges(Events(owner))
  <2>1. new = [j EXCEPT !.at = "rows"] /\ j.at = "update"
    BY <1>3, <1>0 DEF RebuildChanges, At
  <2>2. new.at = "rows" /\ new.rows = j.rows /\ new.live = j.live /\ new.fresh = j.fresh
    BY <2>1, <1>0 DEF Job
  <2>3. Listed /\ Adding
    BY <2>1, <1>0 DEF OwnerInv, CatchingUp, Reads, j
  <2>4. Listed' /\ Adding'
    BY <2>1, <2>2, <2>3, <1>0, <1>a DEF Listed, Adding, new, j
  <2> QED BY <2>2, <2>4 DEF CatchingUp, new
<1>4. ASSUME NEW c \in Call, Row(Events(owner), c) PROVE CatchingUp'
  <2>1. /\ j.at = "rows" /\ c \in j.rows
        /\ new.rows = j.rows \ {c} /\ new.live = j.live /\ new.fresh = j.fresh
        /\ new.at = IF HasCall(c) \/ ~Live(c) THEN "rows" ELSE "create"
        /\ new.call = IF HasCall(c) \/ ~Live(c) THEN NoCall ELSE c
    BY <1>4, <1>0 DEF Row, Job
  <2>3. Listed /\ Adding
    BY <2>1, <1>0 DEF OwnerInv, CatchingUp, Reads, j
  <2>4. Listed'
    BY <2>1, <2>3, <1>0 DEF Listed, new, j
  <2>5. Adding'
    BY <2>1, <2>3, <1>0, <1>a DEF Adding, new, j
  <2> QED BY <2>1, <2>4, <2>5 DEF CatchingUp, new
<1>5. ASSUME NEW c \in Call, SyncSpares(owner, c) PROVE CatchingUp'
  <2>1. /\ j.at = "ending" /\ c \in j.rows /\ HasCall(c) /\ c \in j.fresh
        /\ new = [j EXCEPT !.rows = j.rows \ {c}]
    BY <1>5, <1>0 DEF SyncSpares, Handles
  <2>2. new.at = "ending" /\ new.rows = j.rows \ {c} /\ new.live = j.live /\ new.fresh = j.fresh
    BY <2>1, <1>0 DEF Job
  <2>3. Listed /\ Ending
    BY <2>1, <1>0 DEF OwnerInv, CatchingUp, Reads, j
  <2>4. ~Live(c) => c \in Hanging
    <3>1. Begun(c)
      BY <2>1 DEF InStepInv, CallsInv, RegisteredBegun
    <3>2. c \in Creating
      BY <2>1, <2>3, <3>1 DEF Listed, j
    <3> QED BY <3>2, <1>0 DEF OwnerInv, HangupsFollow
  <2>5. Listed'
    BY <2>2, <2>3, <1>0 DEF Listed, new, j
  <2>6. Ending'
    BY <2>1, <2>2, <2>3, <2>4, <1>0, <1>a DEF Ending, new, j
  <2> QED BY <2>2, <2>5, <2>6 DEF CatchingUp, new
<1>6. ASSUME NEW c \in Call, SyncEnds(owner, c) PROVE CatchingUp'
  <2>1. /\ j.at = "ending" /\ c \in j.rows
        /\ new = [j EXCEPT !.rows = j.rows \ {c}, !.at = "endApply", !.call = c]
    BY <1>6, <1>0 DEF SyncEnds, Handles
  <2>2. new.at = "endApply" /\ new.rows = j.rows \ {c} /\ new.live = j.live /\ new.fresh = j.fresh /\ new.call = c
    BY <2>1, <1>0 DEF Job
  <2>3. Listed /\ Ending
    BY <2>1, <1>0 DEF OwnerInv, CatchingUp, Reads, j
  <2>5. Listed'
    BY <2>2, <2>3, <1>0 DEF Listed, new, j
  <2>6. Ending'
    BY <2>1, <2>2, <2>3, <1>0, <1>a DEF Ending, new, j
  <2> QED BY <2>2, <2>5, <2>6 DEF CatchingUp, new
<1> QED BY <1>1, <1>2, <1>3, <1>4, <1>5, <1>6

(* A call of the list is put back, and one that is over is taken out.      *)
LEMMA ReadsTell ==
  ASSUME InStepInv, CallsInv', Owned, SyncStep(owner), RebuildCall(Events(owner)) \/ SyncEnded(owner)
  PROVE  InStepInv'
<1> DEFINE j == Read
           new == Read'
<1>0. /\ owner \in Replica /\ owner' = owner /\ OwnerInv /\ CallsShape /\ j \in Job /\ job \in [Process -> Job]
      /\ Events(owner) \in Process /\ j = job[Events(owner)] /\ new = job'[Events(owner)]
      /\ Creating' = Creating /\ Hanging' = Hanging
      /\ \A c \in Call : /\ Live(c)' = Live(c) /\ Begun(c)' = Begun(c) /\ Ended(c)' = Ended(c)
                         /\ Live(c) <=> Begun(c) /\ ~Ended(c)
      /\ j.at \in Named => j.call \in Call
  BY SyncLeaves, Parts DEF Read, CallsShape
<1> HIDE DEF j, new
<1>1. CASE RebuildCall(Events(owner))
  <2>1. j.at = "create" /\ j.call \in Call /\ CreateCall(j.call, "tenant" \in j.dump)
    BY <1>1, <1>0 DEF RebuildCall, Named
  <2>2. index' = index \cup {j.call} /\ \A c \in Call : HasCall(c)' <=> (c = j.call \/ HasCall(c))
    <3>1. ("tenant" \in j.dump) \in BOOLEAN
      OBVIOUS
    <3> QED BY <2>1, <3>1, <1>0, CreateIs DEF HasCall
  <2>3. new.at \in {"rows", "update"} /\ new.rows = j.rows /\ new.live = j.live /\ new.fresh = j.fresh
    BY <1>1, <1>0 DEF RebuildCall, Job
  <2>4. Listed /\ Adding
    BY <2>1, <1>0 DEF OwnerInv, CatchingUp, Reads, j
  <2>5. Listed'
    BY <2>3, <2>4, <1>0 DEF Listed, new, j
  <2>6. Adding'
    BY <2>1, <2>2, <2>3, <2>4, <1>0 DEF Adding, new, j
  <2>7. CatchingUp'
    BY <2>3, <2>5, <2>6 DEF CatchingUp, new
  <2>8. IndexIsHashes'
    BY <2>1, <2>2 DEF InStepInv, IndexIsHashes
  <2> QED BY <2>7, <2>8, SyncFrame
<1>2. CASE SyncEnded(owner)
  <2>1. j.at = "endApply" /\ j.call \in Call /\ EndCall(j.call)
    BY <1>2, <1>0 DEF SyncEnded, Handles, Named
  <2>2. index' = index \ {j.call} /\ \A c \in Call : HasCall(c)' <=> (c # j.call /\ HasCall(c))
    BY <2>1, <1>0, EndIs DEF HasCall
  <2>3. new.at = "ending" /\ new.rows = j.rows /\ new.live = j.live /\ new.fresh = j.fresh
    BY <1>2, <1>0 DEF SyncEnded, At, Job
  <2>4. Listed /\ Ending
    BY <2>1, <1>0 DEF OwnerInv, CatchingUp, Reads, j
  <2>5. Listed'
    BY <2>3, <2>4, <1>0 DEF Listed, new, j
  <2>6. Ending'
    BY <2>1, <2>2, <2>3, <2>4, <1>0 DEF Ending, new, j
  <2>7. CatchingUp'
    BY <2>3, <2>5, <2>6 DEF CatchingUp, new
  <2>8. IndexIsHashes'
    BY <2>1, <2>2 DEF InStepInv, IndexIsHashes
  <2> QED BY <2>7, <2>8, SyncFrame
<1> QED BY <1>1, <1>2

(* The sync is done: every call of the list has been looked at.            *)
LEMMA SyncDoneInStep ==
  ASSUME InStepInv, CallsInv', Owned, SyncDone(owner)
  PROVE  InStepInv'
<1> USE DEF InStepInv
<1>0. owner \in Replica /\ OwnerInv /\ CallsShape /\ queue[owner] # <<>> /\ Head(queue[owner]) = Sync
  BY DEF Owned, CallsInv, CallsShape, SyncDone, Handles
<1>1. /\ queue' = [queue EXCEPT ![owner] = Tail(queue[owner])] /\ job' = [job EXCEPT ![Events(owner)] = Idle]
      /\ job \in [Process -> Job] /\ UNCHANGED <<node, owner, epoch, hash, index>>
      /\ Read.at = "ending" /\ Read.rows = {}
  BY <1>0 DEF SyncDone, Done, CallsShape, Handles, Read, registry
<1>2. /\ Creating' = Creating /\ Hanging' = Hanging /\ Ordered' /\ SyncIsFirst' /\ ~Syncing'
      /\ \A s \in Replica \ {owner} : queue'[s] = queue[s]
  <2>1. Sync.kind # "created" /\ Sync.kind # "hungup"
    BY Parts
  <2>2. /\ Creating' \subseteq Creating /\ Hanging' \subseteq Hanging
        /\ Creating \subseteq Creating' /\ Hanging \subseteq Hanging'
        /\ Ordered' /\ SyncIsFirst' /\ ~Syncing'
        /\ \A s \in Replica \ {owner} : queue'[s] = queue[s]
    BY <2>1, <1>0, <1>1, DoneWaits DEF OwnerInv
  <2> QED BY <2>2
<1>3. Read' = Idle
  BY <1>0, <1>1, Parts DEF Read
<1>4. \A c \in Call : /\ Live(c)' = Live(c) /\ Ended(c)' = Ended(c) /\ HasCall(c)' = HasCall(c)
                      /\ ~(Live(c) /\ Ended(c)) /\ (Live(c) => Begun(c))
  BY <1>1 DEF Live, Ended, Begun, HasCall, node
<1>5. OneQueue' /\ IndexIsHashes' /\ epoch'
  BY <1>1, <1>2 DEF OneQueue, IndexIsHashes, HasCall
<1>6. HungIsOver' /\ HangupsFollow'
  BY <1>0, <1>2, <1>4 DEF OwnerInv, HungIsOver, HangupsFollow, Creating, Hanging
<1>7. CatchingUp'
  BY <1>3, Parts DEF CatchingUp, Reads
<1>8. Listed /\ Ending
  BY <1>0, <1>1 DEF OwnerInv, CatchingUp, Reads
<1>9. CaughtUp'
  BY <1>1, <1>2, <1>4, <1>8 DEF CaughtUp, Listed, Ending
<1> QED BY <1>2, <1>5, <1>6, <1>7, <1>9 DEF OwnerInv

(* What a step of a task does to the registry, and to the queues.          *)
RegistryMoves ==
  \/ UNCHANGED registry
  \/ \E c \in Call : \/ \E fields \in SUBSET Field : UpdateCall(c, fields)
                     \/ \E told \in BOOLEAN : CreateCall(c, told)
                     \/ EndCall(c)

LEMMA QueueMoves ==
  ASSUME CallsInv, NEW r \in Replica, QueueStep(r)
  PROVE  /\ RegistryMoves /\ queue[r] # <<>> /\ UNCHANGED <<node, owner, epoch>>
         /\ \A s \in Replica \ {r} : queue'[s] = queue[s]
<1>0. queue \in [Replica -> Seq(Task)] /\ CallsShape
  BY DEF CallsInv, CallsShape
<1>1. UNCHANGED <<node, owner>>
  BY QueueLeaves
<1>2. ASSUME NEW t \in Current(r),
             TenantFor(r, t) \/ Identify(r, t) \/ AttachPeer(r, t) \/ IdentifyPeer(r, t) \/ Write(r, t)
      PROVE  RegistryMoves /\ queue[r] # <<>> /\ UNCHANGED <<queue, epoch>>
  <2>1. queue[r] # <<>> /\ UNCHANGED <<queue, epoch>>
    BY <1>2 DEF TenantFor, Identify, AttachPeer, IdentifyPeer, Write, Handles
  <2>2. TenantFor(r, t) \/ AttachPeer(r, t) => t.call \in Call /\ t.peer \in Call
    <3>1. TenantFor(r, t) => Handles(r, t, "idle") /\ t.kind # "sync"
      BY DEF TenantFor
    <3>2. AttachPeer(r, t) => Handles(r, t, "peer")
      BY DEF AttachPeer
    <3>3. Handles(r, t, "peer") => t.kind # "sync"
      <4> SUFFICES ASSUME Handles(r, t, "peer") PROVE t.kind # "sync"
        OBVIOUS
      <4>1. t = Head(queue[r]) /\ t \in Task /\ job[Events(r)].at = "peer"
        BY HeadIs
      <4>2. t # Sync
        BY <4>1 DEF CallsInv, InHand, Steps
      <4> QED BY <4>1, <4>2, SyncIs
    <3> QED BY <3>1, <3>2, <3>3, HeadIs
  <2>3. {"tenant"} \in SUBSET Field
    BY DEF Field
  <2>4. RegistryMoves
    <3>1. CASE Identify(r, t) \/ IdentifyPeer(r, t) \/ Write(r, t)
      BY <3>1 DEF Identify, IdentifyPeer, Write, RegistryMoves
    <3>2. CASE TenantFor(r, t)
      BY <3>2, <2>2, <2>3 DEF TenantFor, AttachTenant, RegistryMoves
    <3>3. CASE AttachPeer(r, t)
      BY <3>3, <2>2, <2>3 DEF AttachPeer, AttachTenant, RegistryMoves
    <3> QED BY <1>2, <3>1, <3>2, <3>3
  <2> QED BY <2>1, <2>4
<1>3. ASSUME NEW t \in Current(r), Apply(r, t)
      PROVE  RegistryMoves /\ queue[r] # <<>> /\ epoch' = epoch /\ Done(r)
  <2>1. Handles(r, t, "apply") /\ Done(r) /\ epoch' = epoch
    BY <1>3 DEF Apply
  <2>2. queue[r] # <<>> /\ t = Head(queue[r]) /\ t \in Task /\ job[Events(r)].at = "apply"
    BY <2>1, HeadIs
  <2>3. t.kind \in Kind /\ t.call \in Call
    <3>1. t # Sync
      BY <2>2, Parts DEF CallsInv, InHand, Steps
    <3> QED BY <3>1, <2>2, SyncIs, TasksAre
  <2>4. CASE t.kind = "created"
    <3>1. CreateCall(t.call, Told(t)) /\ Told(t) \in BOOLEAN
      BY <1>3, <2>4 DEF Apply, Told
    <3> QED BY <3>1, <2>1, <2>2, <2>3 DEF RegistryMoves
  <2>5. CASE t.kind = "hungup"
    BY <1>3, <2>1, <2>2, <2>3, <2>5 DEF Apply, RegistryMoves
  <2>6. CASE t.kind \in {"answered", "bridged"}
    <3>1. UpdateCall(t.call, {t.kind}) /\ {t.kind} \in SUBSET Field
      BY <1>3, <2>6 DEF Apply, Field
    <3> QED BY <3>1, <2>1, <2>2, <2>3 DEF RegistryMoves
  <2> QED BY <2>3, <2>4, <2>5, <2>6 DEF Kind
<1>4. ASSUME SyncStep(r) PROVE RegistryMoves /\ queue[r] # <<>> /\ UNCHANGED <<queue, epoch>>
  <2>1. queue[r] # <<>> /\ queue' = queue
    BY <1>4, SyncHead
  <2>2. epoch' = epoch
    BY <1>4 DEF SyncStep, SyncStarts, SyncCalls, SyncEnded, ReadStep, RebuildCall, RebuildChanges, Row,
                SyncSpares, SyncEnds
  <2>3. LET j == job[Events(r)] IN j \in Job /\ (j.at \in Named => j.call \in Call)
    BY <1>0, Parts DEF CallsShape, CallsInv, InHand
  <2>4. CASE RebuildCall(Events(r))
    <3>1. job[Events(r)].call \in Call /\ ("tenant" \in job[Events(r)].dump) \in BOOLEAN
      BY <2>3, <2>4 DEF RebuildCall, Named
    <3> QED BY <3>1, <2>1, <2>2, <2>4 DEF RebuildCall, RegistryMoves
  <2>5. CASE RebuildChanges(Events(r))
    <3>1. job[Events(r)].call \in Call /\ job[Events(r)].dump \ {"tenant"} \in SUBSET Field
      BY <2>3, <2>5 DEF RebuildChanges, Named, Job
    <3> QED BY <3>1, <2>1, <2>2, <2>5 DEF RebuildChanges, RegistryMoves
  <2>6. CASE SyncEnded(r)
    BY <2>1, <2>2, <2>3, <2>6 DEF SyncEnded, Handles, Named, RegistryMoves
  <2>7. CASE SyncStarts(r) \/ SyncCalls(r) \/ \E c \in Call : Row(Events(r), c) \/ SyncSpares(r, c) \/ SyncEnds(r, c)
    BY <2>1, <2>2, <2>7 DEF SyncStarts, SyncCalls, Row, SyncSpares, SyncEnds, RegistryMoves
  <2> QED BY <1>4, <2>4, <2>5, <2>6, <2>7 DEF SyncStep, ReadStep
<1>5. ASSUME SyncDone(r) \/ SyncFails(r) PROVE RegistryMoves /\ queue[r] # <<>> /\ epoch' = epoch /\ Done(r)
  BY <1>5 DEF SyncDone, SyncFails, Handles, RegistryMoves
<1>6. Done(r) => \A s \in Replica \ {r} : queue'[s] = queue[s]
  BY <1>0 DEF Done
<1> QED BY <1>1, <1>2, <1>3, <1>4, <1>5, <1>6 DEF QueueStep, TaskStep, SyncStep

LEMMA IndexKept ==
  ASSUME CallsShape, IndexIsHashes, RegistryMoves
  PROVE  IndexIsHashes'
<1>1. CASE UNCHANGED registry
  BY <1>1 DEF registry, IndexIsHashes, HasCall
<1>2. ASSUME NEW c \in Call, NEW fields \in SUBSET Field, UpdateCall(c, fields) PROVE IndexIsHashes'
  BY <1>2, UpdateIs DEF IndexIsHashes, HasCall
<1>3. ASSUME NEW c \in Call, NEW told \in BOOLEAN, CreateCall(c, told) PROVE IndexIsHashes'
  BY <1>3, CreateIs DEF IndexIsHashes, HasCall
<1>4. ASSUME NEW c \in Call, EndCall(c) PROVE IndexIsHashes'
  BY <1>4, EndIs DEF IndexIsHashes, HasCall
<1> QED BY <1>1, <1>2, <1>3, <1>4 DEF RegistryMoves

LEMMA QueueStepInStep ==
  ASSUME InStepInv, CallsInv', NEW r \in Replica, QueueStep(r)
  PROVE  InStepInv'
<1> USE DEF InStepInv
<1>1. /\ RegistryMoves /\ queue[r] # <<>> /\ UNCHANGED <<node, owner, epoch>>
      /\ \A s \in Replica \ {r} : queue'[s] = queue[s]
  BY QueueMoves
<1>2. (owner # NoOne => r = owner) /\ OneQueue'
  BY <1>1 DEF OneQueue
<1>3. IndexIsHashes' /\ CallsShape
  BY <1>1, IndexKept DEF CallsInv
<1>4. Owned' = Owned
  BY <1>1 DEF Owned, node
<1>5. CASE ~Owned
  BY <1>1, <1>2, <1>3, <1>4, <1>5
<1>6. CASE Owned
  <2>0. r = owner /\ nodeUp
    BY <1>2, <1>6 DEF Owned
  <2>1. CASE SyncStep(r)
    BY <2>0, <2>1, <1>6, ReadsOn, ReadsTell DEF SyncStep, ReadStep
  <2>2. CASE SyncDone(r)
    BY <2>0, <2>2, <1>6, SyncDoneInStep
  <2>3. ASSUME NEW t \in Current(r), Apply(r, t) PROVE InStepInv'
    BY <2>0, <2>3, <1>6, ApplyInStep
  <2>4. ASSUME NEW t \in Current(r), TenantFor(r, t) PROVE InStepInv'
    <3>1. Handles(r, t, "idle") /\ t.kind # "sync" /\ UNCHANGED queue
      BY <2>4 DEF TenantFor
    <3>2. Head(queue[r]) # Sync /\ t.call \in Call
      BY <3>1, HeadIs, Parts
    <3>3. index' = index /\ \A c \in Call : hash'[c] # Absent <=> hash[c] # Absent
      <4>1. CASE Told(t)
        <5>1. UpdateCall(t.call, {"tenant"}) /\ {"tenant"} \in SUBSET Field
          BY <2>4, <4>1 DEF TenantFor, AttachTenant, Field
        <5> QED BY <5>1, <3>2, <1>3, UpdateIs
      <4>2. CASE ~Told(t)
        BY <2>4, <4>2 DEF TenantFor, registry
      <4> QED BY <4>1, <4>2
    <3> QED BY <3>1, <3>2, <3>3, <2>0, <1>1, <1>6, EventInStep
  <2>5. ASSUME NEW t \in Current(r), Identify(r, t) \/ AttachPeer(r, t) \/ IdentifyPeer(r, t) \/ Write(r, t)
        PROVE  InStepInv'
    <3>1. PICK a \in {"idle"} \cup Steps : Handles(r, t, a) /\ (a = "idle" => t.kind # "sync")
      <4>1. \/ Handles(r, t, "identify") \/ Handles(r, t, "peer") \/ Handles(r, t, "identifyPeer")
            \/ Handles(r, t, "write")
            \/ Handles(r, t, "idle") /\ t.kind = "created"
        BY <2>5 DEF Identify, AttachPeer, IdentifyPeer, Write
      <4> QED BY <4>1 DEF Steps
    <3>2. queue[r] # <<>> /\ t = Head(queue[r]) /\ t \in Task /\ job[Events(r)].at = a
      BY <3>1, HeadIs
    <3>3. t # Sync
      BY <3>1, <3>2, Parts DEF CallsInv, InHand
    <3>4. t.peer \in Call
      BY <3>2, <3>3, SyncIs, TasksAre
    <3>5. UNCHANGED queue
      BY <2>5 DEF Identify, AttachPeer, IdentifyPeer, Write
    <3>6. index' = index /\ \A c \in Call : hash'[c] # Absent <=> hash[c] # Absent
      <4>1. CASE AttachPeer(r, t)
        <5>1. UpdateCall(t.peer, {"tenant"}) /\ {"tenant"} \in SUBSET Field
          BY <4>1 DEF AttachPeer, AttachTenant, Field
        <5> QED BY <5>1, <3>4, <1>3, UpdateIs
      <4>2. CASE ~AttachPeer(r, t)
        BY <2>5, <4>2 DEF Identify, IdentifyPeer, Write, registry
      <4> QED BY <4>1, <4>2
    <3> QED BY <3>2, <3>3, <3>5, <3>6, <2>0, <1>1, <1>6, EventInStep
  <2>6. ~SyncFails(r)
    BY <2>0 DEF SyncFails
  <2> QED BY <2>1, <2>2, <2>3, <2>4, <2>5, <2>6 DEF QueueStep, TaskStep, SyncStep
<1> QED BY <1>5, <1>6

(* The steps there are when no task fails and Redis keeps what it has.     *)
LEMMA ReliableSteps ==
  ASSUME InStepInv, Reliable, Next
  PROVE  /\ CallsStep
         /\ ChannelStep \/ NodeDies \/ NodeReturns \/ Lose \/ \E r \in Replica : Acquire(r) \/ Dies(r) \/ QueueStep(r)
<1>1. ~RedisLost /\ \A r \in Replica : ~TaskFails(r)
  BY DEF Reliable, RedisLost, TaskFails, Fault
<1>2. \A c \in Call : ~CallExpires(c)
  BY DEF Reliable, CallExpires, Fault
<1>3. ASSUME NEW r \in Replica PROVE ~RebuildStep(r)
  <2>1. epoch /\ job[Rebuild(r)] = Idle
    BY DEF InStepInv, CallsInv, NoRebuild
  <2>2. job[Rebuild(r)].at = "idle"
    BY <2>1, Parts
  <2> QED BY <2>1, <2>2 DEF RebuildStep, ClaimEpoch, ReadStep, RebuildDone, RebuildCall, RebuildChanges, Row
<1>4. \A r \in Replica : Crash(r) => Dies(r)
  BY DEF Crash
<1> QED BY <1>1, <1>2, <1>3, <1>4 DEF Next, NodeNext, FaultNext, ChannelStep, CallsStep

LEMMA InStepStart == Init => InStepInv
<1> SUFFICES ASSUME Init PROVE InStepInv
  OBVIOUS
<1>1. CallsInv /\ owner \in Replica /\ epoch
  BY CallsStart DEF Init
<1>2. /\ \A c \in Call : channel[c] = "none" /\ ~HasCall(c) /\ c \notin index
      /\ \A r \in Replica : queue[r] = <<>> /\ job[Events(r)] = Idle
  BY Parts DEF Init, RegistryInit, HasCall
<1>3. OneQueue /\ IndexIsHashes
  BY <1>2 DEF OneQueue, IndexIsHashes
<1>4. Creating = {} /\ Hanging = {} /\ Ordered /\ SyncIsFirst
  BY <1>1, <1>2 DEF Creating, Hanging, Ordered, SyncIsFirst
<1>5. HungIsOver /\ HangupsFollow /\ CaughtUp
  BY <1>2, <1>4 DEF HungIsOver, HangupsFollow, CaughtUp, Live
<1>6. CatchingUp
  BY <1>1, <1>2, Parts DEF CatchingUp, Read, Reads
<1> QED BY <1>1, <1>3, <1>4, <1>5, <1>6 DEF InStepInv, OwnerInv

LEMMA InStepKept ==
  ASSUME InStepInv, Reliable, [Next]_vars
  PROVE  InStepInv'
<1>1. CASE UNCHANGED vars
  <2>1. CallsInv'
    BY <1>1, UnchangedKeeps DEF InStepInv
  <2>2. /\ Creating' = Creating /\ Hanging' = Hanging /\ Read' = Read /\ Syncing' = Syncing /\ Owned' = Owned
        /\ Ordered' = Ordered /\ SyncIsFirst' = SyncIsFirst /\ OneQueue' = OneQueue /\ epoch' = epoch
        /\ \A c \in Call : HasCall(c)' = HasCall(c) /\ Live(c)' = Live(c) /\ Begun(c)' = Begun(c) /\ Ended(c)' = Ended(c)
    BY <1>1 DEF vars, node, registry, Creating, Hanging, Read, Syncing, Owned, Ordered, SyncIsFirst, OneQueue,
                HasCall, Live, Begun, Ended
  <2>3. IndexIsHashes' = IndexIsHashes
    BY <1>1 DEF vars, registry, IndexIsHashes, HasCall
  <2>4. OwnerInv => HungIsOver' /\ HangupsFollow' /\ CaughtUp'
    BY <2>2 DEF OwnerInv, HungIsOver, HangupsFollow, CaughtUp, Creating, Hanging
  <2>5. OwnerInv => CatchingUp'
    BY <2>2 DEF OwnerInv, CatchingUp, Listed, Adding, Ending
  <2> QED BY <2>1, <2>2, <2>3, <2>4, <2>5 DEF InStepInv, OwnerInv
<1>2. CASE Next
  <2>1. CallsStep
    BY <1>2, ReliableSteps
  <2>2. CallsInv' /\ GoesOn
    BY <2>1, CallsStepKeeps DEF InStepInv
  <2>3. CASE ChannelStep
    BY <2>2, <2>3, ChannelInStep
  <2>4. CASE NodeDies \/ NodeReturns \/ Lose
    BY <2>2, <2>4, GivenUpInStep
  <2>5. ASSUME NEW r \in Replica, Acquire(r) \/ Dies(r) \/ QueueStep(r) PROVE InStepInv'
    BY <2>2, <2>5, AcquireInStep, DiesInStep, QueueStepInStep DEF Reliable
  <2> QED BY <1>2, <2>3, <2>4, <2>5, ReliableSteps
<1> QED BY <1>1, <1>2

(* As in the runs (Reliable): once the owner of a node that runs has       *)
(* nothing left to do, the registry has the node's calls and no others,    *)
(* whichever replicas owned the node before, died or lost it midway        *)
(* (registry-rebuild.ts, syncNode), for any replicas and calls.            *)
THEOREM TakenOverInStepHolds ==
  ASSUME Reliable
  PROVE  CallsSpec => []TakenOverInStep
<1> DEFINE Inv == death = TRUE \/ (death = FALSE /\ InStepInv)
<1>1. CallsInit => Inv
  BY InStepStart DEF CallsInit
<1>2. Inv /\ [CallsNext]_<<deathVars, death>> => Inv'
  <2> SUFFICES ASSUME Inv, [CallsNext]_<<deathVars, death>> PROVE Inv'
    OBVIOUS
  <2>1. death' = death
    BY DEF CallsNext
  <2>2. CASE death = FALSE
    <3>1. InStepInv /\ [Next]_vars
      BY <2>2 DEF CallsNext, deathVars
    <3> QED BY <2>1, <2>2, <3>1, InStepKept
  <2> QED BY <2>1, <2>2
<1>3. Inv => TakenOverInStep
  <2> SUFFICES ASSUME InStepInv, Quiet PROVE InStep
    BY DEF TakenOverInStep, InStep
  <2>1. owner \in Replica /\ Owned /\ queue[owner] = <<>>
    BY DEF Quiet, Owned, InStepInv, CallsInv, CallsShape
  <2>2. Creating = {} /\ Hanging = {} /\ ~Syncing
    BY <2>1 DEF Creating, Hanging, Syncing
  <2>3. \A c \in Call : (Live(c) <=> HasCall(c)) /\ (c \in index <=> HasCall(c))
    BY <2>1, <2>2 DEF InStepInv, OwnerInv, CaughtUp, IndexIsHashes
  <2>4. index \subseteq Call
    BY DEF InStepInv, CallsInv, CallsShape
  <2> QED BY <2>3, <2>4 DEF InStep, Registered
<1> QED BY <1>1, <1>2, <1>3, PTL DEF CallsSpec
=============================================================================
