---------------------------- MODULE NodeOwnership ----------------------------
(***************************************************************************)
(* call-control's ownership of the FreeSWITCH nodes: every replica is      *)
(* connected to every node, and one of them at a time owns a node by a     *)
(* lease in Redis, `nodeowner:{id}` (services/call-control/src/            *)
(* node-ownership.ts, with the callbacks of main.ts and the socket events  *)
(* of esl/client.ts that start a pass).                                    *)
(*                                                                         *)
(* A pass decides a command per node (checkNode), Redis executes it, and   *)
(* the reply changes what this replica believes.  The three are separate   *)
(* steps: replicas interleave between them, the event socket drops between *)
(* them, and Redis becomes unreachable between them.                       *)
(*                                                                         *)
(* Time is counted in ticks, whose length the constants choose.  A replica *)
(* in contact with Redis fires its timer at most Lag ticks late and gets   *)
(* its replies within a tick; one cut from Redis is bound by nothing.      *)
(***************************************************************************)
EXTENDS Naturals, FiniteSets

CONSTANTS
  Replica,   \* call-control processes
  Node,      \* FreeSWITCH nodes
  NoOne,     \* the value of an absent key
  Ttl,       \* NODE_OWNER_TTL_MS, in ticks
  Interval,  \* NODE_OWNER_INTERVAL_MS, in ticks
  Lag,       \* how many ticks late a timer may fire
  Faults,    \* which of "crash", "restart", "cut", "flap", "stop" may happen
  Steady     \* replicas that none of them happens to, their sockets up from the start

ASSUME NoOneAssumption   == NoOne \notin Replica
ASSUME TimeAssumption    == Ttl \in Nat \ {0} /\ Interval \in Nat \ {0} /\ Lag \in Nat
ASSUME FaultsAssumption  == Faults \subseteq {"crash", "restart", "cut", "flap", "stop"}
ASSUME SteadyAssumption  == Steady \subseteq Replica

VARIABLES
  claim,      \* Redis: nodeowner:{n}, a replica or NoOne
  claimLeft,  \* Redis: ticks until nodeowner:{n} expires, 0 when absent
  mode,       \* "up", the phases of a shutdown, or "down"
  cut,        \* the replicas that cannot reach Redis
  connected,  \* the nodes a replica's event socket is up to
  owned,      \* the nodes a replica believes it owns
  check,      \* where the replica's check of a node is
  sincePass,  \* ticks since the replica's timer last fired
  giving,     \* the nodes a stopping replica has still to give up
  age         \* history: ticks since a claim or renewal of the replica's took effect,
              \* Ttl when none did or its own release has since taken effect

redis  == <<claim, claimLeft>>
vars   == <<claim, claimLeft, mode, cut, connected, owned, check, sincePass, giving, age>>

Command == {"release", "renew", "claim"}
Answer  == {"released", "renewed", "refused", "claimed", "taken"}

TypeOK ==
  /\ claim \in [Node -> Replica \cup {NoOne}]
  /\ claimLeft \in [Node -> 0..Ttl]
  /\ mode \in [Replica -> {"up", "stopping", "giving", "closing", "down"}]
  /\ cut \in SUBSET Replica
  /\ connected \in [Replica -> SUBSET Node]
  /\ owned \in [Replica -> SUBSET Node]
  /\ check \in [Replica -> [Node -> {"idle"} \cup Command \cup Answer]]
  /\ sincePass \in [Replica -> 0..(Interval + Lag)]
  /\ giving \in [Replica -> SUBSET Node]
  /\ age \in [Replica -> [Node -> 0..Ttl]]

Init ==
  /\ claim = [n \in Node |-> NoOne]
  /\ claimLeft = [n \in Node |-> 0]
  /\ mode = [r \in Replica |-> "up"]
  /\ cut = {}
  /\ connected = [r \in Replica |-> IF r \in Steady THEN Node ELSE {}]
  /\ owned = [r \in Replica |-> {}]
  /\ check = [r \in Replica |-> [n \in Node |-> "idle"]]
  /\ sincePass \in [Replica -> 0..Interval]   \* they started at different times
  /\ giving = [r \in Replica |-> {}]
  /\ age = [r \in Replica |-> [n \in Node |-> Ttl]]

(* A fault of kind k may happen to replica r. *)
MayFail(r, k) == k \in Faults /\ r \notin Steady

-----------------------------------------------------------------------------
(* A pass over the nodes. *)

(* `running`: a pass is under way until each of its checks has settled. *)
PassOpen(r) == \E n \in Node : check[r][n] # "idle"

(* checkNode up to its first await, when the sockets up are conn. *)
FirstCommand(r, n, conn) ==
  IF n \in conn
    THEN IF n \in owned[r] THEN "renew" ELSE "claim"
    ELSE IF n \in owned[r] THEN "release" ELSE "idle"

(* runOnce: calls that find a pass under way share it. *)
RunOnce(r, conn) ==
  check' = IF PassOpen(r) THEN check
           ELSE [check EXCEPT ![r] = [n \in Node |-> FirstCommand(r, n, conn)]]

TimerFires(r) ==
  /\ mode[r] = "up"
  /\ sincePass[r] >= Interval
  /\ sincePass' = [sincePass EXCEPT ![r] = 0]
  /\ RunOnce(r, connected[r])
  /\ UNCHANGED <<redis, mode, cut, connected, owned, giving, age>>

(* The event socket to n is subscribed: onConnect. *)
Connect(r, n) ==
  /\ mode[r] \in {"up", "stopping", "giving"}
  /\ n \notin connected[r]
  /\ connected' = [connected EXCEPT ![r] = @ \cup {n}]
  /\ RunOnce(r, connected[r] \cup {n})
  /\ UNCHANGED <<redis, mode, cut, owned, sincePass, giving, age>>

(* The event socket to n closes: onDisconnect.  Stopping the clients closes it too. *)
Disconnect(r, n) ==
  /\ mode[r] # "down"
  /\ mode[r] = "closing" \/ MayFail(r, "flap")
  /\ n \in connected[r]
  /\ connected' = [connected EXCEPT ![r] = @ \ {n}]
  /\ RunOnce(r, connected[r] \ {n})
  /\ UNCHANGED <<redis, mode, cut, owned, sincePass, giving, age>>

(* Redis executes the RELEASE script. *)
ExecRelease(r, n) ==
  /\ check[r][n] = "release" /\ r \notin cut
  /\ claim' = [claim EXCEPT ![n] = IF @ = r THEN NoOne ELSE @]
  /\ claimLeft' = [claimLeft EXCEPT ![n] = IF claim[n] = r THEN 0 ELSE @]
  /\ age' = [age EXCEPT ![r][n] = Ttl]
  /\ check' = [check EXCEPT ![r][n] = "released"]
  /\ UNCHANGED <<mode, cut, connected, owned, sincePass, giving>>

(* Redis executes the RENEW script: PEXPIRE only for the holder. *)
ExecRenew(r, n) ==
  /\ check[r][n] = "renew" /\ r \notin cut
  /\ IF claim[n] = r
       THEN /\ claimLeft' = [claimLeft EXCEPT ![n] = Ttl]
            /\ age' = [age EXCEPT ![r][n] = 0]
            /\ check' = [check EXCEPT ![r][n] = "renewed"]
       ELSE /\ check' = [check EXCEPT ![r][n] = "refused"]
            /\ UNCHANGED <<claimLeft, age>>
  /\ UNCHANGED <<claim, mode, cut, connected, owned, sincePass, giving>>

(* Defective: SET PX without NX. *)
ExecClaimAnyway(r, n) ==
  /\ check[r][n] = "claim" /\ r \notin cut
  /\ claim' = [claim EXCEPT ![n] = r]
  /\ claimLeft' = [claimLeft EXCEPT ![n] = Ttl]
  /\ age' = [age EXCEPT ![r][n] = 0]
  /\ check' = [check EXCEPT ![r][n] = "claimed"]
  /\ UNCHANGED <<mode, cut, connected, owned, sincePass, giving>>

(* Defective: SETNX, then PEXPIRE whether or not the key was set. *)
ExecClaimExtends(r, n) ==
  /\ check[r][n] = "claim" /\ r \notin cut
  /\ claimLeft' = [claimLeft EXCEPT ![n] = Ttl]
  /\ IF claim[n] = NoOne
       THEN /\ claim' = [claim EXCEPT ![n] = r]
            /\ age' = [age EXCEPT ![r][n] = 0]
            /\ check' = [check EXCEPT ![r][n] = "claimed"]
       ELSE /\ check' = [check EXCEPT ![r][n] = "taken"]
            /\ UNCHANGED <<claim, age>>
  /\ UNCHANGED <<mode, cut, connected, owned, sincePass, giving>>

(* Redis executes SET NX PX. *)
ExecClaim(r, n) ==
  /\ check[r][n] = "claim" /\ r \notin cut
  /\ IF claim[n] = NoOne
       THEN /\ claim' = [claim EXCEPT ![n] = r]
            /\ claimLeft' = [claimLeft EXCEPT ![n] = Ttl]
            /\ age' = [age EXCEPT ![r][n] = 0]
            /\ check' = [check EXCEPT ![r][n] = "claimed"]
       ELSE /\ check' = [check EXCEPT ![r][n] = "taken"]
            /\ UNCHANGED <<claim, claimLeft, age>>
  /\ UNCHANGED <<mode, cut, connected, owned, sincePass, giving>>

(* Defective: any answer to SET NX counts as having won. *)
ReplyAlwaysWins(r, n) ==
  /\ check[r][n] \in Answer /\ r \notin cut
  /\ owned' = [owned EXCEPT ![r] =
       CASE check[r][n] \in {"claimed", "taken"}    -> @ \cup {n}
         [] check[r][n] \in {"released", "refused"} -> @ \ {n}
         [] OTHER                                   -> @]
  /\ check' = [check EXCEPT ![r][n] = "idle"]
  /\ UNCHANGED <<redis, mode, cut, connected, sincePass, giving, age>>

(* checkNode after its await. *)
Reply(r, n) ==
  /\ check[r][n] \in Answer /\ r \notin cut
  /\ owned' = [owned EXCEPT ![r] =
       CASE check[r][n] = "claimed"                 -> @ \cup {n}
         [] check[r][n] \in {"released", "refused"} -> @ \ {n}
         [] OTHER                                   -> @]
  /\ check' = [check EXCEPT ![r][n] = "idle"]
  /\ UNCHANGED <<redis, mode, cut, connected, sincePass, giving, age>>

(* The client gives a command up (maxRetriesPerRequest): the check rejects, *)
(* whether or not Redis executed it, and what the replica owns is left.     *)
Reject(r, n) ==
  /\ check[r][n] # "idle" /\ r \in cut
  /\ check' = [check EXCEPT ![r][n] = "idle"]
  /\ UNCHANGED <<redis, mode, cut, connected, owned, sincePass, giving, age>>

(* The connection broke before the reply came; the client connects again   *)
(* and sends the unanswered command a second time.                         *)
Resend(r, n) ==
  /\ MayFail(r, "cut")
  /\ check[r][n] \in Answer
  /\ check' = [check EXCEPT ![r][n] =
       CASE @ = "released"               -> "release"
         [] @ \in {"renewed", "refused"} -> "renew"
         [] OTHER                        -> "claim"]
  /\ UNCHANGED <<redis, mode, cut, connected, owned, sincePass, giving, age>>

-----------------------------------------------------------------------------
(* Shutdown: ownership.stop(), then the event sockets are closed. *)

BeginStop(r) ==
  /\ mode[r] = "up" /\ MayFail(r, "stop")
  /\ mode' = [mode EXCEPT ![r] = "stopping"]
  /\ sincePass' = [sincePass EXCEPT ![r] = 0]
  /\ UNCHANGED <<redis, cut, connected, owned, check, giving, age>>

(* The pass that was running has settled: give up what is owned now. *)
BeginGiving(r) ==
  /\ mode[r] = "stopping" /\ ~PassOpen(r)
  /\ mode' = [mode EXCEPT ![r] = "giving"]
  /\ giving' = [giving EXCEPT ![r] = owned[r]]
  /\ UNCHANGED <<redis, cut, connected, owned, check, sincePass, age>>

(* RELEASE, its failure ignored, and lose. *)
GiveUp(r, n) ==
  /\ mode[r] = "giving" /\ n \in giving[r]
  /\ IF r \notin cut /\ claim[n] = r
       THEN /\ claim' = [claim EXCEPT ![n] = NoOne]
            /\ claimLeft' = [claimLeft EXCEPT ![n] = 0]
            /\ age' = [age EXCEPT ![r][n] = Ttl]
       ELSE UNCHANGED <<redis, age>>
  /\ owned' = [owned EXCEPT ![r] = @ \ {n}]
  /\ giving' = [giving EXCEPT ![r] = @ \ {n}]
  /\ UNCHANGED <<mode, cut, connected, check, sincePass>>

(* Every eslClient.stop(): no socket connects any more, each one closes. *)
CloseSockets(r) ==
  /\ mode[r] = "giving" /\ giving[r] = {}
  /\ mode' = [mode EXCEPT ![r] = "closing"]
  /\ UNCHANGED <<redis, cut, connected, owned, check, sincePass, giving, age>>

(* What a process leaves behind when it ends: only what is in Redis. *)
Ended(r) ==
  /\ mode' = [mode EXCEPT ![r] = "down"]
  /\ connected' = [connected EXCEPT ![r] = {}]
  /\ owned' = [owned EXCEPT ![r] = {}]
  /\ check' = [check EXCEPT ![r] = [n \in Node |-> "idle"]]
  /\ sincePass' = [sincePass EXCEPT ![r] = 0]
  /\ giving' = [giving EXCEPT ![r] = {}]
  /\ age' = [age EXCEPT ![r] = [n \in Node |-> Ttl]]
  /\ UNCHANGED <<redis, cut>>

Exit(r) == mode[r] = "closing" /\ connected[r] = {} /\ Ended(r)

Crash(r) == mode[r] # "down" /\ MayFail(r, "crash") /\ Ended(r)

(* A new process: ownership.start() runs a pass, which finds no socket up. *)
Restart(r) ==
  /\ mode[r] = "down" /\ MayFail(r, "restart")
  /\ mode' = [mode EXCEPT ![r] = "up"]
  /\ UNCHANGED <<redis, cut, connected, owned, check, sincePass, giving, age>>

-----------------------------------------------------------------------------
(* Redis and time. *)

CutOff(r) ==
  /\ r \notin cut /\ MayFail(r, "cut")
  /\ cut' = cut \cup {r}
  /\ UNCHANGED <<redis, mode, connected, owned, check, sincePass, giving, age>>

Heal(r) ==
  /\ r \in cut
  /\ cut' = cut \ {r}
  /\ UNCHANGED <<redis, mode, connected, owned, check, sincePass, giving, age>>

(* A replica in contact with Redis has nothing left to do in this tick. *)
Settled(r) ==
  \/ mode[r] = "down"
  \/ r \in cut
  \/ mode[r] = "up" /\ ~PassOpen(r) /\ sincePass[r] < Interval + Lag
  \/ mode[r] = "closing" /\ ~PassOpen(r)

Sooner(t) == IF t > 0 THEN t - 1 ELSE 0
Later(t, most) == IF t < most THEN t + 1 ELSE most

(* A tick passes: keys come closer to their expiry, and expire. *)
Tick ==
  /\ \A r \in Replica : Settled(r)
  /\ claimLeft' = [n \in Node |-> Sooner(claimLeft[n])]
  /\ claim' = [n \in Node |-> IF claimLeft[n] <= 1 THEN NoOne ELSE claim[n]]
  /\ sincePass' = [r \in Replica |->
       IF mode[r] = "up" THEN Later(sincePass[r], Interval + Lag) ELSE sincePass[r]]
  /\ age' = [r \in Replica |-> [n \in Node |-> Later(age[r][n], Ttl)]]
  /\ UNCHANGED <<mode, cut, connected, owned, check, giving>>

PassStep(r) ==
  \/ TimerFires(r)
  \/ \E n \in Node :
       \/ ExecRelease(r, n) \/ ExecRenew(r, n) \/ ExecClaim(r, n)
       \/ Reply(r, n) \/ Reject(r, n)

StopStep(r) ==
  \/ BeginGiving(r) \/ CloseSockets(r) \/ Exit(r)
  \/ \E n \in Node : GiveUp(r, n)

Fault(r) ==
  \/ BeginStop(r) \/ Crash(r) \/ Restart(r) \/ CutOff(r) \/ Heal(r)
  \/ \E n \in Node : Connect(r, n) \/ Disconnect(r, n) \/ Resend(r, n)

(* Everything but the passing of time. *)
Step == \E r \in Replica : PassStep(r) \/ StopStep(r) \/ Fault(r)

Next == Tick \/ Step

Spec == Init /\ [][Next]_vars

-----------------------------------------------------------------------------
(* Properties. *)

(* The replica is up and acts for the node: it handles its events,         *)
(* heartbeats it and renews its leases, and no release of it has executed. *)
Acts(r, n) == mode[r] = "up" /\ n \in owned[r] /\ check[r][n] # "released"

(* No two replicas act for one node while the last claim or renewal of     *)
(* each is younger than the lease and not undone by its own release: even  *)
(* one that was cut from Redis, or whose replies were lost, shares a node  *)
(* with another only once its own lease has run out                        *)
(* (node-ownership.ts checkNode, RENEW, RELEASE).                          *)
FreshOwnersExclude ==
  \A r, s \in Replica, n \in Node :
    (Acts(r, n) /\ Acts(s, n) /\ age[r][n] < Ttl /\ age[s][n] < Ttl) => r = s

(* "Each FreeSWITCH node has exactly one owner, by a lease in Redis"       *)
(* (node-ownership.ts:37-38): at most one replica acts for a node.         *)
OneOwner ==
  \A r, s \in Replica, n \in Node : (Acts(r, n) /\ Acts(s, n)) => r = s

(* The same of what each has in its list of owned nodes: it does not hold, *)
(* for a node stays there until the answer to its release arrives, and the *)
(* next owner may have claimed it by then.                                 *)
OwnedByOne ==
  \A r, s \in Replica, n \in Node :
    (mode[r] = "up" /\ mode[s] = "up" /\ n \in owned[r] \cap owned[s]) => r = s

(* While Redis is in reach, a replica that acts for a node holds its lease *)
(* in Redis, and the lease was renewed no longer ago than one interval and *)
(* the timer's lag (NODE_OWNER_TTL_MS against NODE_OWNER_INTERVAL_MS).     *)
RenewedInTime ==
  \A r \in Replica, n \in Node :
    Acts(r, n) => claim[n] = r /\ claimLeft[n] + Interval + Lag >= Ttl

(* The two facts the theorems of NodeOwnershipProofs rest on.              *)
(* A lease that is younger than its life is in Redis under its replica's   *)
(* name, with exactly the rest of that life to go.                         *)
Lease ==
  \A r \in Replica, n \in Node :
    age[r][n] < Ttl => claim[n] = r /\ claimLeft[n] + age[r][n] = Ttl

(* What the checks of a replica in contact with Redis say of its leases:   *)
(* a renewal or a release is for a node it owns, a claim for one it does   *)
(* not; once a check of a pass has executed no time has passed since.      *)
Checked(r, n) ==
  /\ check[r][n] \in {"release", "renew", "released", "renewed", "refused"} => n \in owned[r]
  /\ check[r][n] \in {"claim", "claimed", "taken"} => n \notin owned[r]
  /\ check[r][n] = "claimed" => age[r][n] = 0
  /\ Acts(r, n) =>
       /\ age[r][n] <= Interval + Lag
       /\ ~PassOpen(r) => age[r][n] <= sincePass[r]
       /\ PassOpen(r) /\ check[r][n] \notin {"renew", "release"} => age[r][n] = 0

Timely ==
  /\ cut = {}
  /\ \A r \in Replica, n \in Node :
       /\ mode[r] = "up" => Checked(r, n)
       /\ mode[r] = "down" => n \notin owned[r] /\ check[r][n] = "idle"

(* "Gives this replica's nodes up first, so another replica takes them at  *)
(* once" (main.ts:421): once it has given its nodes up and closes its      *)
(* event sockets, a replica that is shutting down takes no claim.          *)
StopTakesNothing ==
  [][\A r \in Replica, n \in Node :
       (mode[r] = "closing" /\ claim'[n] = r) => claim[n] = r]_vars
=============================================================================
