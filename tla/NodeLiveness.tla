----------------------------- MODULE NodeLiveness -----------------------------
(***************************************************************************)
(* Ownership composed with what it is for: the owner of a FreeSWITCH node  *)
(* heartbeats it (main.ts onAcquired, redis/registry.ts HEARTBEAT), and    *)
(* every replica without a socket to a node declares the node dead once    *)
(* its heartbeat key has expired (node-failure.ts pass).  What is done     *)
(* about a dead node is the subject of NodeDeath.                          *)
(*                                                                         *)
(* It asks whether a live node can be declared dead, and how long a live   *)
(* node goes without an owner; a node that dies does not come back here.   *)
(***************************************************************************)
EXTENDS NodeOwnership

CONSTANTS
  HbTtl,       \* HEARTBEAT_TTL_MS, in ticks
  HbInterval,  \* HEARTBEAT_INTERVAL_MS, in ticks
  Grace,       \* startupGraceMs, in ticks: twice HEARTBEAT_TTL_MS
  Mortal       \* the nodes that may die

ASSUME BeatAssumption ==
  HbTtl \in Nat \ {0} /\ HbInterval \in Nat \ {0} /\ Grace \in Nat /\ Mortal \subseteq Node

VARIABLES
  dead,       \* the nodes that have died
  beatLeft,   \* Redis: ticks until fsnode:{n} expires, 0 when absent
  known,      \* Redis: the set fsnodes, every node ever heartbeaten
  lost,       \* Redis: nodelost:{n}, the replica that claimed the death, or NoOne
  sinceBeat,  \* ticks since the replica's heartbeat timer for a node last fired
  uptime,     \* ticks since the process started, up to Grace
  suspect,    \* nodes a watcher found without a heartbeat and has yet to claim
  orphan      \* history: ticks a node has gone without a claim by a live replica

liveVars == <<dead, beatLeft, known, lost, sinceBeat, uptime, suspect, orphan>>
allVars  == <<vars, liveVars>>

(* How long the lease's expiry and the next pass of another replica take. *)
Takeover == Ttl + Interval + Lag

(* A process that is there holds the node's lease. *)
LiveClaim(n) == \E r \in Replica : mode[r] # "down" /\ claim[n] = r

LiveTypeOK ==
  /\ TypeOK
  /\ dead \in SUBSET Mortal
  /\ beatLeft \in [Node -> 0..HbTtl]
  /\ known \in SUBSET Node
  /\ lost \in [Node -> Replica \cup {NoOne}]
  /\ sinceBeat \in [Replica -> [Node -> 0..(HbInterval + Lag)]]
  /\ uptime \in [Replica -> 0..Grace]
  /\ suspect \in [Replica -> SUBSET Node]
  /\ orphan \in [Node -> 0..(Takeover + 1)]

LiveInit ==
  /\ Init
  /\ dead = {}
  /\ beatLeft = [n \in Node |-> 0]
  /\ known = {}
  /\ lost = [n \in Node |-> NoOne]
  /\ sinceBeat = [r \in Replica |-> [n \in Node |-> 0]]
  /\ uptime = [r \in Replica |-> 0]
  /\ suspect = [r \in Replica |-> {}]
  /\ orphan = [n \in Node |-> 0]

-----------------------------------------------------------------------------
(* Redis executes the HEARTBEAT script for the nodes N: it refreshes the   *)
(* key, records the node and ends an earlier death's claim.                *)
Heartbeat(N) ==
  /\ beatLeft' = [n \in Node |-> IF n \in N THEN HbTtl ELSE beatLeft[n]]
  /\ known' = known \cup N
  /\ lost' = [n \in Node |-> IF n \in N THEN NoOne ELSE lost[n]]

(* A node dies: its sockets close, and every replica's onDisconnect asks   *)
(* for a pass.                                                             *)
Die(n) ==
  /\ n \in Mortal \ dead
  /\ dead' = dead \cup {n}
  /\ connected' = [r \in Replica |-> connected[r] \ {n}]
  /\ check' = [r \in Replica |->
       IF PassOpen(r) \/ n \notin connected[r] THEN check[r]
       ELSE [m \in Node |-> FirstCommand(r, m, connected[r] \ {n})]]
  /\ UNCHANGED <<redis, mode, cut, owned, sincePass, giving, age>>
  /\ UNCHANGED <<beatLeft, known, lost, sinceBeat, uptime, suspect, orphan>>

(* Nothing connects to a dead node.                                        *)
OwnershipStep == Step /\ \A r \in Replica : connected'[r] \cap dead = {}

(* The time a live node has no owner ends.                                 *)
OrphanEnds == orphan' = [n \in Node |-> IF LiveClaim(n)' THEN 0 ELSE orphan[n]]

(* Defective: the first heartbeat waits for the timer. *)
OwnWithoutBeat ==
  /\ OwnershipStep
  /\ sinceBeat' = [r \in Replica |-> [n \in Node |->
       IF n \in owned[r] \cap owned'[r] THEN sinceBeat[r][n] ELSE 0]]
  /\ uptime' = [r \in Replica |-> IF mode'[r] = "down" THEN 0 ELSE uptime[r]]
  /\ suspect' = [r \in Replica |-> IF mode'[r] = "up" THEN suspect[r] ELSE {}]
  /\ OrphanEnds
  /\ UNCHANGED <<dead, beatLeft, known, lost>>

(* A step of ownership.  onAcquired heartbeats the node at once and starts *)
(* its timer; a process that ends forgets its watch.                       *)
Own ==
  /\ OwnershipStep
  /\ LET acquired(r) == owned'[r] \ owned[r]
     IN  /\ Heartbeat(UNION {acquired(r) : r \in Replica})
         /\ sinceBeat' = [r \in Replica |-> [n \in Node |->
              IF n \in acquired(r) \/ n \notin owned'[r] THEN 0 ELSE sinceBeat[r][n]]]
  /\ uptime' = [r \in Replica |-> IF mode'[r] = "down" THEN 0 ELSE uptime[r]]
  /\ suspect' = [r \in Replica |-> IF mode'[r] = "up" THEN suspect[r] ELSE {}]
  /\ OrphanEnds
  /\ UNCHANGED dead

(* The owner's heartbeat timer for the node. *)
BeatTimer(r, n) ==
  /\ n \in owned[r] /\ r \notin cut
  /\ sinceBeat[r][n] >= HbInterval
  /\ Heartbeat({n})
  /\ sinceBeat' = [sinceBeat EXCEPT ![r][n] = 0]
  /\ UNCHANGED <<vars, dead, uptime, suspect, orphan>>

(* FreeSWITCH's own HEARTBEAT event, handled by the owner only. *)
NodeEvent(r, n) ==
  /\ n \in owned[r] /\ n \in connected[r] /\ r \notin cut
  /\ Heartbeat({n})
  /\ UNCHANGED <<vars, dead, sinceBeat, uptime, suspect, orphan>>

(* The watcher's pass finds the node without a heartbeat. *)
Suspect(r, n) ==
  /\ mode[r] = "up" /\ r \notin cut
  /\ uptime[r] >= Grace
  /\ n \in known \ connected[r]
  /\ beatLeft[n] = 0
  /\ suspect' = [suspect EXCEPT ![r] = @ \cup {n}]
  /\ UNCHANGED <<vars, dead, beatLeft, known, lost, sinceBeat, uptime, orphan>>

(* claimNodeLoss, a round trip later: SET nodelost:{n} NX. *)
Declare(r, n) ==
  /\ n \in suspect[r] /\ r \notin cut
  /\ lost' = [lost EXCEPT ![n] = IF @ = NoOne THEN r ELSE @]
  /\ suspect' = [suspect EXCEPT ![r] = @ \ {n}]
  /\ UNCHANGED <<vars, dead, beatLeft, known, sinceBeat, uptime, orphan>>

(* The claim on a death lapses, so that it is looked at again. *)
LossLapses(n) ==
  /\ lost[n] # NoOne
  /\ lost' = [lost EXCEPT ![n] = NoOne]
  /\ UNCHANGED <<vars, dead, beatLeft, known, sinceBeat, uptime, suspect, orphan>>

LiveTick ==
  /\ Tick
  /\ \A r \in Replica \ cut :
       suspect[r] = {} /\ \A n \in owned[r] : sinceBeat[r][n] < HbInterval + Lag
  /\ beatLeft' = [n \in Node |-> Sooner(beatLeft[n])]
  /\ sinceBeat' = [r \in Replica |-> [n \in Node |->
       IF n \in owned[r] THEN Later(sinceBeat[r][n], HbInterval + Lag) ELSE 0]]
  /\ uptime' = [r \in Replica |->
       IF mode[r] = "down" THEN 0 ELSE Later(uptime[r], Grace)]
  /\ orphan' = [n \in Node |->
       IF LiveClaim(n) \/ n \in dead THEN 0 ELSE Later(orphan[n], Takeover + 1)]
  /\ UNCHANGED <<dead, known, lost, suspect>>

LiveNext ==
  \/ LiveTick
  \/ Own
  \/ \E r \in Replica, n \in Node :
       BeatTimer(r, n) \/ NodeEvent(r, n) \/ Suspect(r, n) \/ Declare(r, n)
  \/ \E n \in Node : LossLapses(n) \/ Die(n)

LiveSpec == LiveInit /\ [][LiveNext]_allVars

(* No process ends in the round trip between Redis' execution of its claim *)
(* and the reply, on which it heartbeats the node: a second death then     *)
(* leaves a second lease to run out, on the last heartbeat of the first.   *)
WholeClaims ==
  \A r \in Replica : (\E n \in Node : check[r][n] = "claimed") => mode'[r] # "down"

WholeSpec == LiveInit /\ [][LiveNext /\ WholeClaims]_allVars

-----------------------------------------------------------------------------
(* Properties.  Steady replicas stay connected to every node that lives.   *)

(* "A node whose owner dies is taken over within 8 s" (node-ownership.ts:  *)
(* 23-24): with a replica that stays connected, no node goes unclaimed, or *)
(* claimed by a dead process, for longer than a lease, a pass and the lag. *)
TakenOverInTime ==
  Steady # {} => \A n \in Node : orphan[n] <= Takeover

(* "... inside the node heartbeat's 10 s expiry, so the node is never      *)
(* declared dead for its owner's death" (node-ownership.ts:25-26): with a  *)
(* replica that stays connected, no death is claimed of a node that lives  *)
(* (under WholeSpec, and when the heartbeat key lives long enough).        *)
NeverDeclaredDead ==
  Steady # {} => \A n \in Node \ dead : lost[n] = NoOne

(* A lease is renewed before it runs out, and taken over soon after its    *)
(* owner is gone.                                                          *)
OwnedInTime == LiveTypeOK /\ RenewedInTime /\ TakenOverInTime
=============================================================================
