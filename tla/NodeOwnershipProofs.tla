------------------------- MODULE NodeOwnershipProofs -------------------------
(***************************************************************************)
(* Theorems about NodeOwnership and NodeLiveness, for every set of         *)
(* replicas and nodes and every value of the time constants.               *)
(***************************************************************************)
EXTENDS NodeLiveness, Integers, TLAPS

(* Updating one entry of a table of tables keeps its type. *)
LEMMA TableUpdate ==
  ASSUME NEW A, NEW B, NEW C, NEW f \in [A -> [B -> C]], NEW a \in A, NEW b \in B, NEW c \in C
  PROVE  [f EXCEPT ![a][b] = c] \in [A -> [B -> C]]
  OBVIOUS

AnyCheck == {"idle"} \cup Command \cup Answer

LEMMA CheckUpdate ==
  ASSUME TypeOK, NEW r \in Replica, NEW n \in Node, NEW c \in AnyCheck
  PROVE  [check EXCEPT ![r][n] = c] \in [Replica -> [Node -> AnyCheck]]
  BY TableUpdate DEF TypeOK, AnyCheck

LEMMA AgeUpdate ==
  ASSUME TypeOK, NEW r \in Replica, NEW n \in Node, NEW t \in 0..Ttl
  PROVE  [age EXCEPT ![r][n] = t] \in [Replica -> [Node -> 0..Ttl]]
  BY TableUpdate DEF TypeOK

LEMMA TtlRange == Ttl \in 0..Ttl /\ 0 \in 0..Ttl
  BY TimeAssumption

LEMMA TypeInit == Init => TypeOK
  BY TimeAssumption, SteadyAssumption DEF Init, TypeOK

LEMMA TypeStep == TypeOK /\ [Next]_vars => TypeOK'
<1> SUFFICES ASSUME TypeOK, [Next]_vars PROVE TypeOK'
  OBVIOUS
<1> USE TimeAssumption DEF TypeOK, Command, Answer, redis
<1>1. CASE Tick
  BY <1>1 DEF Tick, Sooner, Later
<1>2. ASSUME NEW r \in Replica, PassStep(r) PROVE TypeOK'
  <2>1. CASE TimerFires(r)
    BY <2>1 DEF TimerFires, RunOnce, FirstCommand
  <2>2. ASSUME NEW n \in Node, ExecRelease(r, n) PROVE TypeOK'
    <3>1. check' \in [Replica -> [Node -> AnyCheck]]
      BY <2>2, CheckUpdate DEF ExecRelease, AnyCheck
    <3>2. age' \in [Replica -> [Node -> 0..Ttl]]
      BY <2>2, AgeUpdate, TtlRange DEF ExecRelease
    <3>3. QED
      BY <2>2, <3>1, <3>2 DEF ExecRelease, AnyCheck
  <2>3. ASSUME NEW n \in Node, ExecRenew(r, n) PROVE TypeOK'
    <3>1. check' \in [Replica -> [Node -> AnyCheck]]
      <4>1. \E c \in {"renewed", "refused"} : check' = [check EXCEPT ![r][n] = c]
        BY <2>3 DEF ExecRenew
      <4>2. QED
        BY <4>1, CheckUpdate DEF AnyCheck
    <3>2. age' \in [Replica -> [Node -> 0..Ttl]]
      <4>1. age' = age \/ age' = [age EXCEPT ![r][n] = 0]
        BY <2>3 DEF ExecRenew
      <4>2. [age EXCEPT ![r][n] = 0] \in [Replica -> [Node -> 0..Ttl]]
        BY AgeUpdate, TtlRange
      <4>3. QED
        BY <4>1, <4>2
    <3>3. claimLeft' \in [Node -> 0..Ttl]
      <4>1. claimLeft' = claimLeft \/ claimLeft' = [claimLeft EXCEPT ![n] = Ttl]
        BY <2>3 DEF ExecRenew
      <4>2. QED
        BY <4>1, TtlRange
    <3>4. QED
      BY <2>3, <3>1, <3>2, <3>3 DEF ExecRenew, AnyCheck
  <2>4. ASSUME NEW n \in Node, ExecClaim(r, n) PROVE TypeOK'
    <3>1. check' \in [Replica -> [Node -> AnyCheck]]
      <4>1. \E c \in {"claimed", "taken"} : check' = [check EXCEPT ![r][n] = c]
        BY <2>4 DEF ExecClaim
      <4>2. QED
        BY <4>1, CheckUpdate DEF AnyCheck
    <3>2. age' \in [Replica -> [Node -> 0..Ttl]]
      <4>1. age' = age \/ age' = [age EXCEPT ![r][n] = 0]
        BY <2>4 DEF ExecClaim
      <4>2. [age EXCEPT ![r][n] = 0] \in [Replica -> [Node -> 0..Ttl]]
        BY AgeUpdate, TtlRange
      <4>3. QED
        BY <4>1, <4>2
    <3>3. claimLeft' \in [Node -> 0..Ttl] /\ claim' \in [Node -> Replica \cup {NoOne}]
      <4>1. \/ claimLeft' = claimLeft /\ claim' = claim
            \/ claimLeft' = [claimLeft EXCEPT ![n] = Ttl] /\ claim' = [claim EXCEPT ![n] = r]
        BY <2>4 DEF ExecClaim
      <4>2. QED
        BY <4>1, TtlRange
    <3>4. QED
      BY <2>4, <3>1, <3>2, <3>3 DEF ExecClaim, AnyCheck
  <2>5. ASSUME NEW n \in Node, Reply(r, n) PROVE TypeOK'
    <3>1. check' \in [Replica -> [Node -> AnyCheck]]
      BY <2>5, CheckUpdate DEF Reply, AnyCheck
    <3>2. owned' \in [Replica -> SUBSET Node]
      BY <2>5 DEF Reply
    <3>3. QED
      BY <2>5, <3>1, <3>2 DEF Reply, AnyCheck
  <2>6. ASSUME NEW n \in Node, Reject(r, n) PROVE TypeOK'
    BY <2>6 DEF Reject
  <2>7. QED
    BY <1>2, <2>1, <2>2, <2>3, <2>4, <2>5, <2>6 DEF PassStep
<1>3. ASSUME NEW r \in Replica, StopStep(r) PROVE TypeOK'
  <2>1. CASE BeginGiving(r)
    BY <2>1 DEF BeginGiving
  <2>2. CASE CloseSockets(r)
    BY <2>2 DEF CloseSockets
  <2>3. CASE Exit(r)
    BY <2>3 DEF Exit, Ended
  <2>4. ASSUME NEW n \in Node, GiveUp(r, n) PROVE TypeOK'
    <3>1. age' \in [Replica -> [Node -> 0..Ttl]]
      <4>1. age' = age \/ age' = [age EXCEPT ![r][n] = Ttl]
        BY <2>4 DEF GiveUp
      <4>2. [age EXCEPT ![r][n] = Ttl] \in [Replica -> [Node -> 0..Ttl]]
        BY AgeUpdate, TtlRange
      <4>3. QED
        BY <4>1, <4>2
    <3>2. claimLeft' \in [Node -> 0..Ttl] /\ claim' \in [Node -> Replica \cup {NoOne}]
      <4>1. \/ claimLeft' = claimLeft /\ claim' = claim
            \/ claimLeft' = [claimLeft EXCEPT ![n] = 0] /\ claim' = [claim EXCEPT ![n] = NoOne]
        BY <2>4 DEF GiveUp
      <4>2. QED
        BY <4>1, TtlRange
    <3>3. QED
      BY <2>4, <3>1, <3>2 DEF GiveUp
  <2>5. QED
    BY <1>3, <2>1, <2>2, <2>3, <2>4 DEF StopStep
<1>4. ASSUME NEW r \in Replica, Fault(r) PROVE TypeOK'
  <2>1. CASE BeginStop(r)
    BY <2>1 DEF BeginStop
  <2>2. CASE Crash(r)
    BY <2>2 DEF Crash, Ended
  <2>3. CASE Restart(r)
    BY <2>3 DEF Restart
  <2>4. CASE CutOff(r)
    BY <2>4 DEF CutOff
  <2>5. CASE Heal(r)
    BY <2>5 DEF Heal
  <2>6. ASSUME NEW n \in Node, Connect(r, n) PROVE TypeOK'
    BY <2>6 DEF Connect, RunOnce, FirstCommand
  <2>7. ASSUME NEW n \in Node, Disconnect(r, n) PROVE TypeOK'
    BY <2>7 DEF Disconnect, RunOnce, FirstCommand
  <2>8. ASSUME NEW n \in Node, Resend(r, n) PROVE TypeOK'
    BY <2>8 DEF Resend
  <2>9. QED
    BY <1>4, <2>1, <2>2, <2>3, <2>4, <2>5, <2>6, <2>7, <2>8 DEF Fault
<1>5. CASE UNCHANGED vars
  BY <1>5 DEF vars
<1>6. QED
  BY <1>1, <1>2, <1>3, <1>4, <1>5 DEF Next, Step

(* Every reachable state is well typed: in particular no lease outlives    *)
(* its time to live and no timer runs later than its lag.                  *)
THEOREM TypeCorrect == Spec => []TypeOK
  BY TypeInit, TypeStep, PTL DEF Spec

-----------------------------------------------------------------------------
(* Leases exclude one another, whatever happens to the replicas.           *)

LEMMA LeaseInit == Init => Lease
  BY TimeAssumption DEF Init, Lease

LEMMA LeaseStep == TypeOK /\ Lease /\ [Next]_vars => Lease'
<1> SUFFICES ASSUME TypeOK, Lease, [Next]_vars,
                    NEW s \in Replica, NEW m \in Node, age'[s][m] < Ttl
             PROVE  claim'[m] = s /\ claimLeft'[m] + age'[s][m] = Ttl
  BY DEF Lease
<1> DEFINE Goal == claim'[m] = s /\ claimLeft'[m] + age'[s][m] = Ttl
<1>a. age[s][m] < Ttl => claim[m] = s /\ claimLeft[m] + age[s][m] = Ttl
  BY DEF Lease
<1>t. /\ age[s][m] \in 0..Ttl /\ claimLeft[m] \in 0..Ttl /\ s # NoOne
      /\ Ttl \in Nat \ {0}
  BY TimeAssumption, NoOneAssumption DEF TypeOK
<1>0. UNCHANGED <<claim, claimLeft, age>> => Goal
  BY <1>a
<1>1. CASE Tick
  <2>1. age'[s][m] = Later(age[s][m], Ttl)
    BY <1>1 DEF Tick
  <2>2. age[s][m] < Ttl /\ age'[s][m] = age[s][m] + 1
    BY <2>1, <1>t DEF Later
  <2>3. claim[m] = s /\ claimLeft[m] + age[s][m] = Ttl /\ claimLeft[m] > 1
    BY <2>2, <1>a, <1>t
  <2>4. claim'[m] = claim[m] /\ claimLeft'[m] = claimLeft[m] - 1
    BY <1>1, <2>3, <1>t DEF Tick, Sooner
  <2>5. QED
    BY <2>2, <2>3, <2>4, <1>t
<1>2. ASSUME NEW r \in Replica, NEW n \in Node, ExecRelease(r, n) PROVE Goal
  <2>1. <<s, m>> # <<r, n>>
    BY <1>2, <1>t DEF ExecRelease, TypeOK
  <2>2. age'[s][m] = age[s][m]
    BY <1>2, <2>1 DEF ExecRelease, TypeOK
  <2>3. QED
    BY <1>2, <1>a, <2>1, <2>2 DEF ExecRelease, TypeOK
<1>3. ASSUME NEW r \in Replica, NEW n \in Node, ExecRenew(r, n) PROVE Goal
  <2>1. CASE claim[n] # r
    BY <1>3, <2>1, <1>0 DEF ExecRenew
  <2>2. CASE claim[n] = r /\ s = r /\ m = n
    BY <1>3, <2>2, <1>t DEF ExecRenew, TypeOK
  <2>3. CASE claim[n] = r /\ <<s, m>> # <<r, n>>
    <3>1. age'[s][m] = age[s][m]
      BY <1>3, <2>3 DEF ExecRenew, TypeOK
    <3>2. claim' = claim /\ (m # n => claimLeft'[m] = claimLeft[m])
      BY <1>3, <2>3 DEF ExecRenew, TypeOK
    <3>3. QED
      BY <3>1, <3>2, <1>a, <2>3
  <2>4. QED
    BY <2>1, <2>2, <2>3
<1>4. ASSUME NEW r \in Replica, NEW n \in Node, ExecClaim(r, n) PROVE Goal
  <2>1. CASE claim[n] # NoOne
    BY <1>4, <2>1, <1>0 DEF ExecClaim
  <2>2. CASE claim[n] = NoOne /\ s = r /\ m = n
    BY <1>4, <2>2, <1>t DEF ExecClaim, TypeOK
  <2>3. CASE claim[n] = NoOne /\ <<s, m>> # <<r, n>>
    <3>1. age'[s][m] = age[s][m]
      BY <1>4, <2>3 DEF ExecClaim, TypeOK
    <3>2. m # n => claim'[m] = claim[m] /\ claimLeft'[m] = claimLeft[m]
      BY <1>4, <2>3 DEF ExecClaim, TypeOK
    <3>3. QED
      BY <3>1, <3>2, <1>a, <1>t, <2>3
  <2>4. QED
    BY <2>1, <2>2, <2>3
<1>5. ASSUME NEW r \in Replica, NEW n \in Node, GiveUp(r, n) PROVE Goal
  <2>1. CASE ~(r \notin cut /\ claim[n] = r)
    BY <1>5, <2>1, <1>0 DEF GiveUp, redis
  <2>2. CASE r \notin cut /\ claim[n] = r
    <3>1. <<s, m>> # <<r, n>>
      BY <1>5, <2>2, <1>t DEF GiveUp, TypeOK
    <3>2. age'[s][m] = age[s][m]
      BY <1>5, <2>2, <3>1 DEF GiveUp, TypeOK
    <3>3. m # n => claim'[m] = claim[m] /\ claimLeft'[m] = claimLeft[m]
      BY <1>5, <2>2 DEF GiveUp, TypeOK
    <3>4. QED
      BY <3>1, <3>2, <3>3, <1>a, <2>2
  <2>3. QED
    BY <2>1, <2>2
<1>6. ASSUME NEW r \in Replica, Ended(r) PROVE Goal
  <2>1. s # r
    BY <1>6, <1>t DEF Ended, TypeOK
  <2>2. QED
    BY <1>6, <2>1, <1>a DEF Ended, redis, TypeOK
<1>7. ASSUME NEW r \in Replica, PassStep(r) PROVE Goal
  BY <1>7, <1>0, <1>2, <1>3, <1>4 DEF PassStep, TimerFires, Reply, Reject, redis
<1>8. ASSUME NEW r \in Replica, StopStep(r) PROVE Goal
  BY <1>8, <1>0, <1>5, <1>6 DEF StopStep, BeginGiving, CloseSockets, Exit, redis
<1>9. ASSUME NEW r \in Replica, Fault(r) PROVE Goal
  BY <1>9, <1>0, <1>6
     DEF Fault, BeginStop, Crash, Restart, CutOff, Heal, Connect, Disconnect, Resend, redis
<1>10. CASE UNCHANGED vars
  BY <1>10, <1>0 DEF vars
<1>11. QED
  BY <1>1, <1>7, <1>8, <1>9, <1>10 DEF Next, Step

LEMMA LeaseInvariant == Spec => []Lease
  BY TypeCorrect, LeaseInit, LeaseStep, PTL DEF Spec

(* Two replicas that act for one node cannot both have a lease younger     *)
(* than its life (node-ownership.ts: SET NX, and RENEW and RELEASE that    *)
(* compare the holder), whatever crashes, partitions, lost replies and     *)
(* socket failures happen, for every choice of the time constants.         *)
THEOREM FreshOwnersExcludeEachOther == Spec => []FreshOwnersExclude
<1>1. TypeOK /\ Lease => FreshOwnersExclude
  BY DEF Lease, FreshOwnersExclude, TypeOK
<1>2. QED
  BY <1>1, TypeCorrect, LeaseInvariant, PTL

-----------------------------------------------------------------------------
(* With Redis in reach and timers that are not too late, at most one       *)
(* replica acts for a node.                                                *)

LEMMA TimelyInit == Init => Timely
  BY TimeAssumption DEF Init, Timely, Checked, Acts, PassOpen, TypeOK

(* Checked(s, m) is a matter of replica s alone. *)
LEMMA CheckedLocal ==
  ASSUME NEW s \in Replica, NEW m \in Node,
         check'[s] = check[s], owned'[s] = owned[s], mode'[s] = mode[s],
         sincePass'[s] = sincePass[s], age'[s] = age[s], Checked(s, m)
  PROVE  Checked(s, m)'
  BY DEF Checked, Acts, PassOpen

(* A pass that starts finds every lease the replica acts on young enough.  *)
LEMMA CheckedPass ==
  ASSUME NEW s \in Replica, NEW m \in Node, NEW conn, TypeOK, mode[s] = "up",
         Checked(s, m), RunOnce(s, conn), mode' = mode, owned' = owned, age' = age,
         sincePass' = sincePass \/ PassOpen(s) \/ sincePass'[s] = 0
  PROVE  Checked(s, m)'
<1>1. CASE PassOpen(s)
  <2>1. check' = check
    BY <1>1 DEF RunOnce
  <2>2. QED
    BY <1>1, <2>1 DEF Checked, Acts, PassOpen
<1>2. CASE ~PassOpen(s)
  <2>1. check[s][m] = "idle"
    BY <1>2 DEF PassOpen
  <2>2. check'[s][m] = FirstCommand(s, m, conn)
    BY <1>2 DEF RunOnce, TypeOK
  <2>3. m \in owned[s] => check'[s][m] \in {"renew", "release"}
    BY <2>2 DEF FirstCommand
  <2>4. m \notin owned[s] => check'[s][m] \in {"claim", "idle"}
    BY <2>2 DEF FirstCommand
  <2>5. m \in owned[s] => age[s][m] <= Interval + Lag
    BY <2>1 DEF Checked, Acts
  <2>6. QED
    BY <2>3, <2>4, <2>5 DEF Checked, Acts, PassOpen
<1>3. QED
  BY <1>1, <1>2

(* A step of replica r on node n says nothing of another of its nodes,     *)
(* except that the pass may end with it.                                   *)
LEMMA CheckedOther ==
  ASSUME NEW s \in Replica, NEW m \in Node, NEW n \in Node, m # n, TypeOK,
         Checked(s, m), check[s][n] # "idle", check'[s][m] = check[s][m],
         m \in owned'[s] <=> m \in owned[s], mode' = mode, sincePass' = sincePass,
         age'[s][m] = age[s][m]
  PROVE  Checked(s, m)'
<1>1. PassOpen(s)
  BY DEF PassOpen
<1>2. ~PassOpen(s)' => check[s][m] = "idle"
  BY DEF PassOpen
<1>3. sincePass[s] >= 0 /\ age[s][m] \in Nat
  BY TimeAssumption DEF TypeOK
<1>4. QED
  BY <1>1, <1>2, <1>3 DEF Checked, Acts

InTime == "cut" \notin Faults /\ Interval + Lag < Ttl

LEMMA TimelyStep ==
  ASSUME InTime, TypeOK, Lease, Timely, [Next]_vars
  PROVE  Timely'
<1> DEFINE Good(s, m) == /\ mode[s] = "up" => Checked(s, m)
                         /\ mode[s] = "down" => m \notin owned[s] /\ check[s][m] = "idle"
<1> USE TimeAssumption DEF InTime, MayFail
<1>a. cut = {} /\ \A s \in Replica, m \in Node : Good(s, m)
  BY DEF Timely
<1>b. SUFFICES cut' = {} /\ \A s \in Replica, m \in Node : Good(s, m)'
  BY DEF Timely
<1>l. ASSUME NEW s \in Replica, NEW m \in Node, check'[s] = check[s], owned'[s] = owned[s],
             mode'[s] = mode[s], sincePass'[s] = sincePass[s], age'[s] = age[s]
      PROVE  Good(s, m)'
  BY <1>a, <1>l, CheckedLocal
<1>1. CASE Tick
  <2>1. SUFFICES ASSUME NEW s \in Replica, NEW m \in Node PROVE Good(s, m)'
    BY <1>1, <1>a DEF Tick
  <2>2. Settled(s) /\ mode' = mode /\ check' = check /\ owned' = owned
    BY <1>1 DEF Tick
  <2>3. CASE mode[s] = "up"
    <3>1. ~PassOpen(s) /\ sincePass[s] < Interval + Lag /\ check[s][m] = "idle"
      BY <2>2, <2>3, <1>a DEF Settled, PassOpen
    <3>2. sincePass[s] \in Nat /\ age[s][m] \in Nat
      BY DEF TypeOK
    <3>3. sincePass'[s] = sincePass[s] + 1
      BY <1>1, <2>3, <3>1 DEF Tick, Later
    <3>4. age'[s][m] <= age[s][m] + 1 /\ age'[s][m] \in Nat
      BY <1>1, <3>2 DEF Tick, Later, TypeOK
    <3>5. Acts(s, m) => age[s][m] <= sincePass[s]
      BY <1>a, <2>3, <3>1 DEF Checked
    <3>6. ~PassOpen(s)' /\ (Acts(s, m)' => Acts(s, m))
      BY <2>2, <3>1 DEF PassOpen, Acts
    <3>7. Acts(s, m)' => age'[s][m] <= sincePass'[s] /\ sincePass'[s] <= Interval + Lag
      BY <3>1, <3>2, <3>3, <3>4, <3>5, <3>6
    <3>8. sincePass'[s] \in Nat
      BY <3>2, <3>3
    <3>9. Checked(s, m)'
      BY <2>2, <3>1, <3>4, <3>6, <3>7, <3>8 DEF Checked
    <3>10. QED
      BY <2>2, <2>3, <3>9
  <2>4. QED
    BY <1>a, <2>2, <2>3
<1>2. ASSUME NEW r \in Replica, PassStep(r)
      PROVE  cut' = {} /\ \A s \in Replica, m \in Node : Good(s, m)'
  <2>1. CASE TimerFires(r)
    <3>1. ASSUME NEW m \in Node PROVE Good(r, m)'
      <4>1. mode' = mode /\ mode[r] = "up" /\ sincePass'[r] = 0 /\ RunOnce(r, connected[r])
        BY <2>1 DEF TimerFires, TypeOK
      <4>2. QED
        BY <4>1, <2>1, <1>a, CheckedPass DEF TimerFires
    <3>2. ASSUME NEW s \in Replica, s # r, NEW m \in Node PROVE Good(s, m)'
      <4>1. check'[s] = check[s] /\ sincePass'[s] = sincePass[s]
        BY <2>1, <3>2 DEF TimerFires, RunOnce, TypeOK
      <4>2. QED
        BY <2>1, <4>1, <1>l DEF TimerFires
    <3>3. QED
      BY <3>1, <3>2, <2>1, <1>a DEF TimerFires
  <2>2. ASSUME NEW n \in Node,
               ExecRelease(r, n) \/ ExecRenew(r, n) \/ ExecClaim(r, n) \/ Reply(r, n)
        PROVE  cut' = {} /\ \A s \in Replica, m \in Node : Good(s, m)'
    <3>0. /\ cut' = {} /\ mode' = mode /\ sincePass' = sincePass /\ check[r][n] # "idle"
          /\ check[r][n] \in {"release", "renew", "claim"} \/ check[r][n] \in Answer
      BY <2>2, <1>a DEF ExecRelease, ExecRenew, ExecClaim, Reply, redis, Answer
    <3>p. PassOpen(r) /\ sincePass[r] \in Nat
      BY <3>0 DEF PassOpen, TypeOK
    <3>1. ASSUME NEW s \in Replica, s # r, NEW m \in Node PROVE Good(s, m)'
      <4>1. check'[s] = check[s] /\ owned'[s] = owned[s] /\ age'[s] = age[s]
        BY <2>2, <3>1 DEF ExecRelease, ExecRenew, ExecClaim, Reply, redis, TypeOK
      <4>2. QED
        BY <3>0, <4>1, <1>l
    <3>2. ASSUME NEW m \in Node, m # n PROVE Good(r, m)'
      <4>1. /\ check'[r][m] = check[r][m] /\ age'[r][m] = age[r][m]
            /\ m \in owned'[r] <=> m \in owned[r]
        BY <2>2, <3>2 DEF ExecRelease, ExecRenew, ExecClaim, Reply, redis, TypeOK, Answer
      <4>2. QED
        BY <3>0, <3>2, <4>1, <1>a, CheckedOther
    <3>3. Good(r, n)'
      <4>0. mode[r] # "down"
        BY <1>a, <3>0
      <4>1. CASE mode[r] # "up"
        BY <4>0, <4>1, <3>0
      <4>2. CASE mode[r] = "up"
        <5>0. Checked(r, n)
          BY <4>2, <1>a
        <5>1. CASE ExecRelease(r, n)
          <6>1. check'[r][n] = "released" /\ owned' = owned /\ check[r][n] = "release"
            BY <5>1 DEF ExecRelease, TypeOK
          <6>2. QED
            BY <6>1, <5>0, <3>0, <4>2 DEF Checked, Acts
        <5>2. CASE ExecRenew(r, n)
          <6>1. n \in owned[r] /\ check[r][n] = "renew" /\ Acts(r, n)
            BY <5>0, <5>2, <4>2 DEF ExecRenew, Checked, Acts
          <6>2. age[r][n] < Ttl
            BY <6>1, <5>0 DEF Checked, TypeOK
          <6>3. claim[n] = r
            BY <6>2 DEF Lease
          <6>4. check'[r][n] = "renewed" /\ age'[r][n] = 0 /\ owned' = owned
            BY <5>2, <6>3 DEF ExecRenew, TypeOK
          <6>5. PassOpen(r)'
            BY <6>4 DEF PassOpen
          <6>6. QED
            BY <6>1, <6>4, <6>5, <3>0, <4>2 DEF Checked
        <5>3. CASE ExecClaim(r, n)
          <6>1. n \notin owned[r] /\ owned' = owned
            BY <5>0, <5>3 DEF ExecClaim, Checked
          <6>2. \/ check'[r][n] = "claimed" /\ age'[r][n] = 0
                \/ check'[r][n] = "taken"
            BY <5>3 DEF ExecClaim, TypeOK
          <6>3. QED
            BY <6>1, <6>2, <3>0, <4>2 DEF Checked, Acts
        <5>4. CASE Reply(r, n)
          <6>1. /\ check'[r][n] = "idle" /\ age' = age
                /\ owned'[r] = CASE check[r][n] = "claimed" -> owned[r] \cup {n}
                                 [] check[r][n] \in {"released", "refused"} -> owned[r] \ {n}
                                 [] OTHER -> owned[r]
            BY <5>4 DEF Reply, TypeOK
          <6>2. check[r][n] \in Answer
            BY <5>4 DEF Reply
          <6>3. n \in owned'[r] => age[r][n] = 0
            <7>1. CASE check[r][n] = "claimed"
              BY <7>1, <5>0 DEF Checked
            <7>2. CASE check[r][n] \in {"released", "refused"}
              BY <7>2, <6>1
            <7>3. CASE check[r][n] \in {"renewed", "taken"}
              <8>1. owned'[r] = owned[r]
                BY <6>1, <7>3
              <8>2. n \in owned[r] => Acts(r, n)
                BY <7>3, <4>2 DEF Acts
              <8>3. QED
                BY <8>1, <8>2, <7>3, <5>0, <3>p DEF Checked
            <7>4. QED
              BY <7>1, <7>2, <7>3, <6>2 DEF Answer
          <6>4. QED
            BY <6>1, <6>3, <3>0, <3>p, <4>2 DEF Checked, Acts
        <5>5. QED
          BY <2>2, <5>1, <5>2, <5>3, <5>4, <4>2, <3>0
      <4>3. QED
        BY <4>1, <4>2
    <3>4. QED
      BY <3>0, <3>1, <3>2, <3>3
  <2>3. ASSUME NEW n \in Node, Reject(r, n) PROVE FALSE
    BY <2>3, <1>a DEF Reject
  <2>4. QED
    BY <1>2, <2>1, <2>2, <2>3 DEF PassStep
<1>3. ASSUME NEW r \in Replica, Ended(r)
      PROVE  cut' = {} /\ \A s \in Replica, m \in Node : Good(s, m)'
  <2>1. ASSUME NEW s \in Replica, s # r, NEW m \in Node PROVE Good(s, m)'
    <3>1. /\ check'[s] = check[s] /\ owned'[s] = owned[s] /\ mode'[s] = mode[s]
          /\ sincePass'[s] = sincePass[s] /\ age'[s] = age[s]
      BY <1>3, <2>1 DEF Ended, TypeOK
    <3>2. QED
      BY <3>1, <1>l
  <2>2. mode'[r] = "down" /\ owned'[r] = {} /\ \A m \in Node : check'[r][m] = "idle"
    BY <1>3 DEF Ended, TypeOK
  <2>3. QED
    BY <1>3, <1>a, <2>1, <2>2 DEF Ended
<1>4. ASSUME NEW r \in Replica, StopStep(r)
      PROVE  cut' = {} /\ \A s \in Replica, m \in Node : Good(s, m)'
  <2>1. CASE BeginGiving(r) \/ CloseSockets(r) \/ \E n \in Node : GiveUp(r, n)
    <3>1. /\ mode[r] \in {"stopping", "giving"} /\ mode'[r] \in {"giving", "closing"}
          /\ cut' = cut
          /\ \A s \in Replica \ {r} :
               /\ check'[s] = check[s] /\ owned'[s] = owned[s] /\ mode'[s] = mode[s]
               /\ sincePass'[s] = sincePass[s] /\ age'[s] = age[s]
      BY <2>1 DEF BeginGiving, CloseSockets, GiveUp, redis, TypeOK
    <3>2. QED
      BY <3>1, <1>a, <1>l
  <2>2. QED
    BY <1>4, <2>1, <1>3 DEF StopStep, Exit
<1>5. ASSUME NEW r \in Replica, Fault(r)
      PROVE  cut' = {} /\ \A s \in Replica, m \in Node : Good(s, m)'
  <2>1. ASSUME NEW n \in Node, Connect(r, n) \/ Disconnect(r, n)
        PROVE  cut' = {} /\ \A s \in Replica, m \in Node : Good(s, m)'
    <3>1. /\ cut' = cut /\ mode' = mode /\ owned' = owned /\ age' = age
          /\ sincePass' = sincePass /\ mode[r] # "down"
      BY <2>1 DEF Connect, Disconnect, redis
    <3>2. PICK conn : RunOnce(r, conn)
      BY <2>1 DEF Connect, Disconnect
    <3>3. ASSUME NEW m \in Node PROVE Good(r, m)'
      BY <3>1, <3>2, <1>a, CheckedPass
    <3>4. ASSUME NEW s \in Replica, s # r, NEW m \in Node PROVE Good(s, m)'
      <4>1. check'[s] = check[s]
        BY <3>2, <3>4 DEF RunOnce, TypeOK
      <4>2. QED
        BY <3>1, <4>1, <1>l
    <3>5. QED
      BY <3>1, <3>3, <3>4, <1>a
  <2>2. CASE BeginStop(r)
    <3>1. /\ mode'[r] = "stopping" /\ cut' = cut
          /\ \A s \in Replica \ {r} :
               /\ check'[s] = check[s] /\ owned'[s] = owned[s] /\ mode'[s] = mode[s]
               /\ sincePass'[s] = sincePass[s] /\ age'[s] = age[s]
      BY <2>2 DEF BeginStop, TypeOK
    <3>2. QED
      BY <3>1, <1>a, <1>l
  <2>3. CASE Restart(r)
    <3>1. /\ mode[r] = "down" /\ mode'[r] = "up" /\ cut' = cut
          /\ check' = check /\ owned' = owned /\ age' = age /\ sincePass' = sincePass
          /\ \A s \in Replica \ {r} : mode'[s] = mode[s]
      BY <2>3 DEF Restart, TypeOK
    <3>2. ASSUME NEW m \in Node PROVE Good(r, m)'
      BY <3>1, <1>a DEF Checked, Acts
    <3>3. QED
      BY <3>1, <3>2, <1>a, <1>l
  <2>4. CASE Heal(r) \/ CutOff(r) \/ \E n \in Node : Resend(r, n)
    BY <2>4, <1>a DEF Heal, CutOff, Resend
  <2>5. QED
    BY <1>5, <2>1, <2>2, <2>3, <2>4, <1>3 DEF Fault, Crash
<1>6. CASE UNCHANGED vars
  <2>1. /\ check' = check /\ owned' = owned /\ mode' = mode /\ cut' = cut
        /\ sincePass' = sincePass /\ age' = age
    BY <1>6 DEF vars
  <2>2. QED
    BY <2>1, <1>a, <1>l
<1>7. QED
  BY <1>1, <1>2, <1>4, <1>5, <1>6 DEF Next, Step

LEMMA TimelyInvariant ==
  ASSUME InTime
  PROVE  Spec => []Timely
<1>1. TypeOK /\ Lease /\ Timely /\ [Next]_vars => Timely'
  BY TimelyStep
<1>2. QED
  BY <1>1, TypeCorrect, LeaseInvariant, TimelyInit, PTL DEF Spec

LEMMA RenewedNow ==
  ASSUME InTime, TypeOK, Lease, Timely
  PROVE  RenewedInTime
<1> SUFFICES ASSUME NEW r \in Replica, NEW n \in Node, Acts(r, n)
             PROVE  claim[n] = r /\ claimLeft[n] + Interval + Lag >= Ttl
  BY DEF RenewedInTime
<1>1. age[r][n] <= Interval + Lag
  BY DEF Timely, Checked, Acts
<1>2. age[r][n] \in Nat /\ claimLeft[n] \in Nat
  BY TimeAssumption DEF TypeOK
<1>3. claim[n] = r /\ claimLeft[n] + age[r][n] = Ttl
  BY <1>1, <1>2, TimeAssumption DEF Lease, InTime
<1>4. QED
  BY <1>1, <1>2, <1>3, TimeAssumption

(* A replica that acts for a node holds its lease in Redis, renewed no     *)
(* longer ago than an interval and the timer's lag                         *)
(* (node-ownership.ts RENEW, onInterval), when no replica is cut off and   *)
(* an interval and the lag are shorter than the lease.                     *)
THEOREM RenewsInTime ==
  ASSUME "cut" \notin Faults, Interval + Lag < Ttl
  PROVE  Spec => []RenewedInTime
<1>1. InTime
  BY DEF InTime
<1>2. TypeOK /\ Lease /\ Timely => RenewedInTime
  BY <1>1, RenewedNow
<1>3. QED
  BY <1>1, <1>2, TypeCorrect, LeaseInvariant, TimelyInvariant, PTL

(* "Each FreeSWITCH node has exactly one owner" (node-ownership.ts:37-38): *)
(* at most one replica acts for a node, whatever crashes, restarts,        *)
(* shutdowns and socket failures happen, when no replica is cut from Redis *)
(* and timers are in time.  One that is stopping, or whose release Redis   *)
(* has executed, acts no longer: it may still have the node in its list    *)
(* (OwnedByOne).                                                           *)
THEOREM AtMostOneActs ==
  ASSUME "cut" \notin Faults, Interval + Lag < Ttl
  PROVE  Spec => []OneOwner
<1>1. RenewedInTime => OneOwner
  BY DEF RenewedInTime, OneOwner
<1>2. QED
  BY <1>1, RenewsInTime, PTL

-----------------------------------------------------------------------------
(* NodeLiveness.  Its steps are those of ownership, a node's death, and    *)
(* steps that leave ownership alone.                                       *)

(* A process that is not there has no sockets.                             *)
Off == \A r \in Replica : mode[r] = "down" => connected[r] = {}

Base == TypeOK /\ Lease /\ Timely /\ Off

LEMMA OffStep == ASSUME TypeOK, Off, [Next]_vars PROVE Off'
<1> USE DEF Off, TypeOK
<1>1. ASSUME UNCHANGED <<mode, connected>> PROVE Off'
  BY <1>1
<1>2. ASSUME NEW r \in Replica, Ended(r) PROVE Off'
  BY <1>2 DEF Ended
<1>3. ASSUME NEW r \in Replica, UNCHANGED connected, mode'[r] # "down" \/ connected[r] = {},
             \A s \in Replica \ {r} : mode'[s] = mode[s]
      PROVE  Off'
  BY <1>3
<1>4. ASSUME NEW r \in Replica, BeginGiving(r) \/ CloseSockets(r) \/ BeginStop(r) \/ Restart(r)
      PROVE  Off'
  BY <1>3, <1>4 DEF BeginGiving, CloseSockets, BeginStop, Restart
<1>5. ASSUME NEW r \in Replica, NEW n \in Node, Connect(r, n) \/ Disconnect(r, n) PROVE Off'
  <2>1. mode' = mode /\ mode[r] # "down" /\ \A s \in Replica \ {r} : connected'[s] = connected[s]
    BY <1>5 DEF Connect, Disconnect
  <2>2. QED
    BY <2>1
<1>6. ASSUME Tick PROVE Off'
  BY <1>1, <1>6 DEF Tick
<1>7. ASSUME NEW r \in Replica, PassStep(r) PROVE Off'
  BY <1>1, <1>7 DEF PassStep, TimerFires, ExecRelease, ExecRenew, ExecClaim, Reply, Reject
<1>8. ASSUME NEW r \in Replica, StopStep(r) PROVE Off'
  <2>1. ASSUME NEW n \in Node, GiveUp(r, n) PROVE Off'
    BY <1>1, <2>1 DEF GiveUp
  <2>2. QED
    BY <1>2, <1>4, <1>8, <2>1 DEF StopStep, Exit
<1>9. ASSUME NEW r \in Replica, Fault(r) PROVE Off'
  <2>1. ASSUME CutOff(r) \/ Heal(r) \/ \E n \in Node : Resend(r, n) PROVE Off'
    BY <1>1, <2>1 DEF CutOff, Heal, Resend
  <2>2. QED
    BY <1>2, <1>4, <1>5, <1>9, <2>1 DEF Fault, Crash
<1>10. CASE UNCHANGED vars
  BY <1>1, <1>10 DEF vars
<1>11. QED
  BY <1>6, <1>7, <1>8, <1>9, <1>10 DEF Next, Step

LEMMA OwnershipSteps ==
  ASSUME [LiveNext]_allVars
  PROVE  [Next]_vars \/ \E n \in Node : Die(n)
BY DEF LiveNext, LiveTick, Own, OwnershipStep, BeatTimer, NodeEvent, Suspect, Declare, LossLapses,
       Next, allVars

LEMMA DieStep ==
  ASSUME InTime, Base, NEW n \in Node, Die(n)
  PROVE  Base'
<1> USE DEF Base
<1>1. /\ UNCHANGED <<claim, claimLeft, mode, cut, owned, sincePass, giving, age>>
      /\ connected' = [r \in Replica |-> connected[r] \ {n}]
      /\ check' = [r \in Replica |->
           IF PassOpen(r) \/ n \notin connected[r] THEN check[r]
           ELSE [m \in Node |-> FirstCommand(r, m, connected[r] \ {n})]]
  BY DEF Die, redis
<1>2. \A r \in Replica, m \in Node : FirstCommand(r, m, connected[r] \ {n}) \in AnyCheck
  BY DEF FirstCommand, AnyCheck, Command
<1>3. check' \in [Replica -> [Node -> AnyCheck]]
  BY <1>1, <1>2 DEF TypeOK, AnyCheck
<1>4. TypeOK'
  BY <1>1, <1>3 DEF TypeOK, AnyCheck
<1>5. Lease'
  BY <1>1 DEF Lease
<1>6. ASSUME NEW s \in Replica, NEW m \in Node
      PROVE  /\ mode[s] = "up" => Checked(s, m)'
             /\ mode[s] = "down" => m \notin owned[s] /\ check'[s][m] = "idle"
  <2>1. CASE PassOpen(s) \/ n \notin connected[s]
    <3>1. check'[s] = check[s]
      BY <1>1, <2>1
    <3>2. QED
      BY <1>1, <3>1, CheckedLocal DEF Timely
  <2>2. CASE ~PassOpen(s) /\ n \in connected[s]
    <3>1. check'[s][m] = FirstCommand(s, m, connected[s] \ {n}) /\ check[s][m] = "idle"
      BY <1>1, <2>2 DEF PassOpen
    <3>2. m \in owned[s] => check'[s][m] \in {"renew", "release"}
      BY <3>1 DEF FirstCommand
    <3>3. m \notin owned[s] => check'[s][m] \in {"claim", "idle"}
      BY <3>1 DEF FirstCommand
    <3>4. mode[s] = "up" /\ m \in owned[s] => age[s][m] <= Interval + Lag
      BY <3>1 DEF Timely, Checked, Acts
    <3>5. mode[s] = "up" => Checked(s, m)'
      BY <1>1, <3>2, <3>3, <3>4 DEF Checked, Acts, PassOpen
    <3>6. mode[s] # "down"
      BY <2>2 DEF Off
    <3>7. QED
      BY <3>5, <3>6
  <2>3. QED
    BY <2>1, <2>2
<1>7. Timely'
  BY <1>1, <1>6 DEF Timely
<1>8. Off'
  BY <1>1 DEF Off, TypeOK
<1>9. QED
  BY <1>4, <1>5, <1>7, <1>8

LEMMA BaseStep == ASSUME InTime, Base, [LiveNext]_allVars PROVE Base'
<1>1. CASE [Next]_vars
  BY <1>1, TypeStep, LeaseStep, TimelyStep, OffStep DEF Base
<1>2. QED
  BY <1>1, OwnershipSteps, DieStep
-----------------------------------------------------------------------------
(* What a step of ownership does to a node's claim and to the passes of a  *)
(* replica that stays up.                                                  *)

SteadyUp == \A s \in Steady : mode[s] = "up" /\ connected[s] = Node \ dead

(* A key that is there has a time to live, and a renewal on its way to     *)
(* Redis is for a node its sender owns or has given up since.              *)
Claims ==
  /\ \A n \in Node : claim[n] # NoOne => claimLeft[n] >= 1
  /\ \A r \in Replica, n \in Node : check[r][n] = "renew" => n \in owned[r] \/ claim[n] # r

(* The claim stays, goes, or is a live replica's that has just claimed the *)
(* node or owns it.                                                        *)
LEMMA ClaimEffect ==
  ASSUME InTime, Base, Claims, Step, NEW n \in Node
  PROVE  \/ claim'[n] = claim[n] /\ claimLeft'[n] = claimLeft[n]
         \/ claim[n] # NoOne /\ claim'[n] = NoOne
         \/ \E r \in Replica :
              /\ claim'[n] = r /\ claimLeft'[n] = Ttl /\ mode'[r] # "down"
              /\ check'[r][n] = "claimed" \/ n \in owned'[r]
<1> DEFINE Stays == claim'[n] = claim[n] /\ claimLeft'[n] = claimLeft[n]
           Goes  == claim[n] # NoOne /\ claim'[n] = NoOne
           Comes == \E r \in Replica :
                      /\ claim'[n] = r /\ claimLeft'[n] = Ttl /\ mode'[r] # "down"
                      /\ check'[r][n] = "claimed" \/ n \in owned'[r]
<1> USE DEF Base, TypeOK, redis
<1>1. PICK r \in Replica : PassStep(r) \/ StopStep(r) \/ Fault(r)
  BY DEF Step
<1>2. ASSUME NEW m \in Node, ExecRelease(r, m) PROVE Stays \/ Goes
  BY <1>2, NoOneAssumption DEF ExecRelease
<1>3. ASSUME NEW m \in Node, ExecRenew(r, m) PROVE Stays \/ Comes
  <2>1. CASE claim[m] = r /\ m = n
    <3>1. mode[r] # "down" /\ n \in owned[r]
      BY <1>3, <2>1 DEF ExecRenew, Timely, Claims
    <3>2. claim'[n] = r /\ claimLeft'[n] = Ttl /\ mode' = mode /\ owned' = owned
      BY <1>3, <2>1 DEF ExecRenew
    <3>3. QED
      BY <3>1, <3>2
  <2>2. QED
    BY <1>3, <2>1 DEF ExecRenew
<1>4. ASSUME NEW m \in Node, ExecClaim(r, m) PROVE Stays \/ Comes
  <2>1. CASE claim[m] = NoOne /\ m = n
    <3>1. mode[r] # "down"
      BY <1>4, <2>1 DEF ExecClaim, Timely
    <3>2. claim'[n] = r /\ claimLeft'[n] = Ttl /\ mode' = mode /\ check'[r][n] = "claimed"
      BY <1>4, <2>1 DEF ExecClaim
    <3>3. QED
      BY <3>1, <3>2
  <2>2. QED
    BY <1>4, <2>1 DEF ExecClaim
<1>5. ASSUME NEW m \in Node, GiveUp(r, m) PROVE Stays \/ Goes
  BY <1>5, NoOneAssumption DEF GiveUp
<1>6. ASSUME UNCHANGED redis PROVE Stays
  BY <1>6
<1>7. CASE PassStep(r)
  BY <1>7, <1>2, <1>3, <1>4, <1>6 DEF PassStep, TimerFires, Reply, Reject
<1>8. CASE StopStep(r)
  BY <1>8, <1>5, <1>6 DEF StopStep, BeginGiving, CloseSockets, Exit, Ended
<1>9. CASE Fault(r)
  BY <1>9, <1>6 DEF Fault, BeginStop, Crash, Ended, Restart, CutOff, Heal, Connect, Disconnect, Resend
<1>10. QED
  BY <1>1, <1>7, <1>8, <1>9

LEMMA SteadyKept ==
  ASSUME Base, SteadyUp, OwnershipStep, dead' = dead
  PROVE  SteadyUp'
<1> SUFFICES ASSUME NEW s \in Steady PROVE mode'[s] = "up" /\ connected'[s] = Node \ dead
  BY DEF SteadyUp
<1> USE SteadyAssumption DEF Base, TypeOK
<1>1. PICK r \in Replica : PassStep(r) \/ StopStep(r) \/ Fault(r)
  BY DEF OwnershipStep, Step
<1>2. mode[s] = "up" /\ connected[s] = Node \ dead /\ s \in Replica /\ connected'[s] \cap dead = {}
  BY DEF SteadyUp, OwnershipStep
<1>3. CASE PassStep(r)
  BY <1>2, <1>3 DEF PassStep, TimerFires, ExecRelease, ExecRenew, ExecClaim, Reply, Reject
<1>4. CASE StopStep(r)
  BY <1>2, <1>4 DEF StopStep, BeginGiving, CloseSockets, Exit, Ended, GiveUp
<1>5. CASE Fault(r)
  <2>1. ASSUME NEW n \in Node, Connect(r, n) \/ Disconnect(r, n) \/ Resend(r, n)
        PROVE  mode'[s] = "up" /\ connected'[s] = Node \ dead
    BY <1>2, <2>1 DEF Connect, Disconnect, Resend, MayFail
  <2>2. QED
    BY <1>2, <1>5, <2>1 DEF Fault, BeginStop, Crash, Ended, Restart, CutOff, Heal, MayFail
<1>6. QED
  BY <1>1, <1>3, <1>4, <1>5

(* A replica that owns a node and is up holds its claim.                   *)
LEMMA OwnerHolds ==
  ASSUME InTime, Base, NEW r \in Replica, NEW n \in Node, mode[r] = "up", n \in owned[r],
         check[r][n] # "released"
  PROVE  claim[n] = r
<1>1. age[r][n] <= Interval + Lag /\ age[r][n] \in Nat
  BY TimeAssumption DEF Base, Timely, Checked, Acts, TypeOK
<1>2. age[r][n] < Ttl
  BY <1>1, TimeAssumption DEF InTime
<1>3. QED
  BY <1>2 DEF Base, Lease

(* While nobody holds a claim on a live node, a pass that a steady replica *)
(* starts is to claim it, and that replica's timer starts one unless one   *)
(* is under way.                                                           *)
LEMMA SteadyPass ==
  ASSUME InTime, Base, SteadyUp, Step, NEW s \in Steady, NEW n \in Node \ dead,
         claim[n] = NoOne, claim'[n] = NoOne
  PROVE  \/ check'[s][n] = "claim"
         \/ /\ check[s][n] # "claim"
            /\ PassOpen(s)' => PassOpen(s)
            /\ sincePass'[s] = sincePass[s] \/ PassOpen(s)
<1> DEFINE Goal == \/ check'[s][n] = "claim"
                   \/ /\ check[s][n] # "claim"
                      /\ PassOpen(s)' => PassOpen(s)
                      /\ sincePass'[s] = sincePass[s] \/ PassOpen(s)
<1> USE SteadyAssumption DEF TypeOK
<1>1. PICK r \in Replica : PassStep(r) \/ StopStep(r) \/ Fault(r)
  BY DEF Step
<1>2. /\ s \in Replica /\ mode[s] = "up" /\ n \in connected[s] /\ cut = {} /\ TypeOK
  BY DEF SteadyUp, Base, Timely
<1>3. n \in owned[s] => check[s][n] = "released"
  BY <1>2, OwnerHolds, NoOneAssumption
<1>4. ASSUME check'[s] = check[s], sincePass'[s] = sincePass[s] PROVE Goal
  BY <1>4 DEF PassOpen
<1>5. ASSUME NEW conn, n \in conn, RunOnce(s, conn), sincePass'[s] = sincePass[s] \/ sincePass'[s] = 0
      PROVE  Goal
  <2>1. CASE PassOpen(s)
    BY <1>5, <2>1 DEF RunOnce
  <2>2. CASE ~PassOpen(s)
    <3>1. n \notin owned[s]
      BY <1>3, <2>2 DEF PassOpen
    <3>2. check'[s][n] = FirstCommand(s, n, conn)
      BY <1>2, <1>5, <2>2 DEF RunOnce
    <3>3. QED
      BY <1>5, <3>1, <3>2 DEF FirstCommand
  <2>3. QED
    BY <2>1, <2>2
<1>6. ASSUME NEW m \in Node, check[s][m] # "idle", sincePass' = sincePass,
             check[s][n] = "claim" => check'[s][n] = "claim"
      PROVE  Goal
  <2>1. PassOpen(s)
    BY <1>6 DEF PassOpen
  <2>2. QED
    BY <1>6, <2>1
<1>7. CASE r # s
  <2>1. ASSUME NEW conn, RunOnce(r, conn) PROVE check'[s] = check[s]
    BY <1>2, <1>7, <2>1 DEF RunOnce
  <2>2. CASE PassStep(r)
    BY <1>2, <1>4, <1>7, <2>1, <2>2 DEF PassStep, TimerFires, ExecRelease, ExecRenew, ExecClaim, Reply, Reject
  <2>3. CASE StopStep(r)
    BY <1>2, <1>4, <1>7, <2>3 DEF StopStep, BeginGiving, CloseSockets, Exit, Ended, GiveUp
  <2>4. ASSUME NEW m \in Node, Connect(r, m) \/ Disconnect(r, m) PROVE Goal
    BY <1>4, <2>1, <2>4 DEF Connect, Disconnect
  <2>5. ASSUME NEW m \in Node, Resend(r, m) PROVE Goal
    BY <1>2, <1>4, <1>7, <2>5 DEF Resend
  <2>6. ASSUME BeginStop(r) \/ Crash(r) PROVE Goal
    BY <1>2, <1>4, <1>7, <2>6 DEF BeginStop, Crash, Ended
  <2>7. ASSUME Restart(r) \/ CutOff(r) \/ Heal(r) PROVE Goal
    BY <1>4, <2>7 DEF Restart, CutOff, Heal
  <2>8. QED
    BY <1>1, <2>2, <2>3, <2>4, <2>5, <2>6, <2>7 DEF Fault
<1>8. CASE r = s
  <2>1. ASSUME TimerFires(s) PROVE Goal
    BY <1>2, <1>5, <2>1 DEF TimerFires
  <2>2. ASSUME NEW m \in Node, ExecRelease(s, m) \/ ExecRenew(s, m) \/ Reply(s, m) PROVE Goal
    <3>1. check[s][m] # "idle" /\ check[s][m] # "claim" /\ sincePass' = sincePass
      BY <2>2 DEF ExecRelease, ExecRenew, Reply, Answer
    <3>2. m # n => check'[s][n] = check[s][n]
      BY <1>2, <2>2 DEF ExecRelease, ExecRenew, Reply
    <3>3. QED
      BY <1>6, <3>1, <3>2
  <2>3. ASSUME NEW m \in Node, ExecClaim(s, m) PROVE Goal
    <3>1. m # n
      BY <1>2, <2>3, NoOneAssumption DEF ExecClaim
    <3>2. check[s][m] # "idle" /\ sincePass' = sincePass /\ check'[s][n] = check[s][n]
      BY <1>2, <2>3, <3>1 DEF ExecClaim
    <3>3. QED
      BY <1>6, <3>2
  <2>4. CASE PassStep(s)
    BY <1>2, <2>1, <2>2, <2>3, <2>4 DEF PassStep, Reject
  <2>5. ASSUME StopStep(s) PROVE FALSE
    BY <1>2, <2>5 DEF StopStep, BeginGiving, CloseSockets, Exit, GiveUp
  <2>6. ASSUME NEW m \in Node, Connect(s, m) PROVE Goal
    BY <1>2, <1>5, <2>6 DEF Connect
  <2>7. CASE Fault(s)
    BY <1>2, <2>6, <2>7 DEF Fault, BeginStop, Crash, Restart, CutOff, Heal, Disconnect, Resend, MayFail
  <2>8. QED
    BY <1>1, <1>8, <2>4, <2>5, <2>7
<1>9. QED
  BY <1>7, <1>8

LEMMA ClaimsStep == ASSUME InTime, Base, Claims, Step PROVE Claims'
<1> USE DEF Base, TypeOK
<1>1. ASSUME NEW n \in Node, claim'[n] # NoOne PROVE claimLeft'[n] >= 1
  BY <1>1, ClaimEffect, TimeAssumption DEF Claims
<1>2. SUFFICES ASSUME NEW s \in Replica, NEW n \in Node, check'[s][n] = "renew"
               PROVE  n \in owned'[s] \/ claim'[n] # s
  BY <1>1 DEF Claims
<1> DEFINE Goal == n \in owned'[s] \/ claim'[n] # s
<1>3. PICK r \in Replica : PassStep(r) \/ StopStep(r) \/ Fault(r)
  BY DEF Step
<1>4. cut = {} /\ (check[s][n] = "renew" => n \in owned[s] \/ claim[n] # s)
  BY DEF Claims, Timely
<1>5. ASSUME UNCHANGED <<claim, owned>>, check'[s][n] = check[s][n] PROVE Goal
  BY <1>4, <1>5, <1>2
<1>6. ASSUME NEW conn, RunOnce(r, conn), UNCHANGED <<claim, owned>> PROVE Goal
  <2>1. check'[s][n] = check[s][n] \/ check'[s][n] = FirstCommand(s, n, conn)
    BY <1>6 DEF RunOnce
  <2>2. FirstCommand(s, n, conn) = "renew" => n \in owned[s]
    BY DEF FirstCommand
  <2>3. QED
    BY <1>2, <1>5, <1>6, <2>1, <2>2
<1>7. ASSUME NEW m \in Node, \/ ExecRelease(r, m) \/ ExecRenew(r, m) \/ ExecClaim(r, m)
                              \/ Reply(r, m) \/ Reject(r, m)
      PROVE Goal
  <2>1. CASE r = s /\ m = n
    <3>1. check'[s][n] # "renew"
      BY <1>7, <2>1 DEF ExecRelease, ExecRenew, ExecClaim, Reply, Reject
    <3>2. QED
      BY <1>2, <3>1
  <2>2. CASE ~(r = s /\ m = n)
    <3>1. check'[s][n] = check[s][n] /\ (n \in owned[s] => n \in owned'[s])
      BY <1>7, <2>2 DEF ExecRelease, ExecRenew, ExecClaim, Reply, Reject
    <3>2. claim'[n] = s => claim[n] = s
      BY <1>7, <2>2, NoOneAssumption DEF ExecRelease, ExecRenew, ExecClaim, Reply, Reject, redis
    <3>3. QED
      BY <1>2, <1>4, <3>1, <3>2
  <2>3. QED
    BY <2>1, <2>2
<1>8. ASSUME NEW m \in Node, GiveUp(r, m) PROVE Goal
  <2>1. check'[s][n] = check[s][n] /\ (n \in owned[s] => (n \in owned'[s] \/ (r = s /\ m = n)))
    BY <1>8 DEF GiveUp
  <2>2. claim'[n] = s => claim[n] = s /\ ~(r = s /\ m = n)
    BY <1>4, <1>8, NoOneAssumption DEF GiveUp, redis
  <2>3. QED
    BY <1>2, <1>4, <2>1, <2>2
<1>9. ASSUME Ended(r) PROVE Goal
  BY <1>2, <1>4, <1>9 DEF Ended, redis
<1>10. CASE PassStep(r)
  BY <1>6, <1>7, <1>10 DEF PassStep, TimerFires, redis
<1>11. CASE StopStep(r)
  BY <1>5, <1>8, <1>9, <1>11 DEF StopStep, BeginGiving, CloseSockets, Exit, redis
<1>12. CASE Fault(r)
  <2>1. ASSUME NEW m \in Node, Connect(r, m) \/ Disconnect(r, m) PROVE Goal
    BY <1>6, <2>1 DEF Connect, Disconnect, redis
  <2>2. ASSUME NEW m \in Node, Resend(r, m) PROVE FALSE
    BY <2>2 DEF Resend, MayFail, InTime
  <2>3. QED
    BY <1>5, <1>9, <1>12, <2>1, <2>2 DEF Fault, BeginStop, Crash, Restart, CutOff, Heal, redis
<1>13. QED
  BY <1>3, <1>10, <1>11, <1>12
-----------------------------------------------------------------------------
(* How long a live node waits for its next owner.  Of a node for which     *)
(* something has been missing for q ticks, and will be until it has an     *)
(* owner, q is no more than has run of the lease it is under, or than a    *)
(* lease and what has passed since the last pass of any steady replica.    *)
Waits(q, n) ==
  /\ claim[n] # NoOne => q + claimLeft[n] <= Ttl
  /\ claim[n] = NoOne => \A s \in Steady :
       /\ check[s][n] = "claim" => q + 1 <= Takeover
       /\ check[s][n] # "claim" => q + 1 <= Ttl + sincePass[s] /\ (PassOpen(s) => q + 1 <= Ttl)

LEMMA WaitsBound ==
  ASSUME TypeOK, Claims, Steady # {}, NEW q \in Int, NEW n \in Node, Waits(q, n)
  PROVE  q + 1 <= Takeover
<1> USE TimeAssumption DEF Waits, Takeover, TypeOK
<1>1. CASE claim[n] # NoOne
  BY <1>1 DEF Claims
<1>2. CASE claim[n] = NoOne
  <2>1. PICK s \in Steady : TRUE
    OBVIOUS
  <2>2. sincePass[s] <= Interval + Lag /\ sincePass[s] \in Nat
    BY SteadyAssumption
  <2>3. QED
    BY <1>2, <2>1, <2>2
<1>3. QED
  BY <1>1, <1>2

(* Nothing has been missing. *)
LEMMA WaitsFresh ==
  ASSUME TypeOK', NEW q \in Int, NEW n \in Node, q <= 0
  PROVE  Waits(q, n)'
BY TimeAssumption, SteadyAssumption DEF Waits, Takeover, TypeOK

(* A step of ownership other than a claim or a renewal. *)
LEMMA WaitsStep ==
  ASSUME InTime, Base, Base', SteadyUp, Claims, Step, NEW q \in Int, NEW n \in Node \ dead, Waits(q, n),
         \/ claim'[n] = claim[n] /\ claimLeft'[n] = claimLeft[n]
         \/ claim[n] # NoOne /\ claim'[n] = NoOne
  PROVE  Waits(q, n)'
<1> USE TimeAssumption, SteadyAssumption
<1>1. CASE claim'[n] # NoOne
  BY <1>1 DEF Waits
<1>2. CASE claim'[n] = NoOne
  <2>1. SUFFICES ASSUME NEW s \in Steady
        PROVE  /\ check'[s][n] = "claim" => q + 1 <= Takeover
               /\ check'[s][n] # "claim" =>
                    q + 1 <= Ttl + sincePass'[s] /\ (PassOpen(s)' => q + 1 <= Ttl)
    BY <1>2 DEF Waits
  <2>2. /\ sincePass[s] \in Nat /\ sincePass'[s] \in Nat /\ sincePass[s] <= Interval + Lag
        /\ claimLeft[n] \in Nat
    BY DEF Base, TypeOK
  <2>3. CASE claim[n] # NoOne
    <3>1. q + claimLeft[n] <= Ttl /\ claimLeft[n] >= 1
      BY <2>3 DEF Waits, Claims
    <3>2. q + 1 <= Ttl
      BY <2>2, <3>1
    <3>3. QED
      BY <2>2, <3>2 DEF Takeover
  <2>4. CASE claim[n] = NoOne
    <3>1. \/ check'[s][n] = "claim"
          \/ /\ check[s][n] # "claim"
             /\ PassOpen(s)' => PassOpen(s)
             /\ sincePass'[s] = sincePass[s] \/ PassOpen(s)
      BY <1>2, <2>4, SteadyPass
    <3>2. /\ check[s][n] = "claim" => q + 1 <= Takeover
          /\ check[s][n] # "claim" => q + 1 <= Ttl + sincePass[s] /\ (PassOpen(s) => q + 1 <= Ttl)
      BY <2>4 DEF Waits
    <3>3. q + 1 <= Takeover
      BY <2>2, <3>2 DEF Takeover
    <3>4. QED
      BY <2>2, <3>1, <3>2, <3>3
  <2>5. QED
    BY <2>3, <2>4
<1>3. QED
  BY <1>1, <1>2

(* A tick, in which every pass has ended. *)
LEMMA WaitsTick ==
  ASSUME Base, SteadyUp, Claims, Tick, NEW q \in Int, NEW n \in Node \ dead, Waits(q, n)
  PROVE  Waits(q + 1, n)'
<1> USE TimeAssumption, SteadyAssumption
<1>1. /\ claimLeft'[n] = Sooner(claimLeft[n]) /\ claimLeft[n] \in Nat
      /\ claim'[n] = IF claimLeft[n] <= 1 THEN NoOne ELSE claim[n]
  BY DEF Tick, Base, TypeOK
<1>2. CASE claim'[n] # NoOne
  BY <1>1, <1>2 DEF Waits, Sooner
<1>3. CASE claim'[n] = NoOne
  <2>1. SUFFICES ASSUME NEW s \in Steady
        PROVE  check'[s][n] # "claim" /\ q + 1 + 1 <= Ttl + sincePass'[s] /\ ~PassOpen(s)'
    BY <1>3 DEF Waits
  <2>2. mode[s] = "up" /\ cut = {} /\ Settled(s) /\ check' = check
    BY DEF SteadyUp, Base, Timely, Tick
  <2>3. ~PassOpen(s) /\ sincePass[s] < Interval + Lag
    BY <2>2 DEF Settled
  <2>4. ~PassOpen(s)' /\ check[s][n] = "idle" /\ check'[s][n] = "idle"
    BY <2>2, <2>3 DEF PassOpen
  <2>5. sincePass'[s] = sincePass[s] + 1 /\ sincePass[s] \in Nat
    BY <2>2, <2>3 DEF Tick, Later, Base, TypeOK
  <2>6. CASE claim[n] # NoOne
    <3>1. q + claimLeft[n] <= Ttl /\ claimLeft[n] >= 1
      BY <2>6 DEF Waits, Claims
    <3>2. QED
      BY <1>1, <2>4, <2>5, <3>1
  <2>7. CASE claim[n] = NoOne
    <3>1. q + 1 <= Ttl + sincePass[s]
      BY <2>4, <2>7 DEF Waits
    <3>2. QED
      BY <2>4, <2>5, <3>1
  <2>8. QED
    BY <2>6, <2>7
<1>4. QED
  BY <1>2, <1>3

(* The death of a node: the pass it starts is to claim the others. *)
LEMMA WaitsDie ==
  ASSUME InTime, Base, SteadyUp, Claims, NEW m \in Node, Die(m), NEW q \in Int, NEW n \in Node \ dead',
         Waits(q, n)
  PROVE  Waits(q, n)'
<1> USE TimeAssumption, SteadyAssumption
<1>1. /\ UNCHANGED <<claim, claimLeft, owned, sincePass>> /\ n # m /\ n \notin dead
      /\ check' = [r \in Replica |->
           IF PassOpen(r) \/ m \notin connected[r] THEN check[r]
           ELSE [x \in Node |-> FirstCommand(r, x, connected[r] \ {m})]]
  BY DEF Die, redis
<1>2. CASE claim[n] # NoOne
  BY <1>1, <1>2 DEF Waits
<1>3. CASE claim[n] = NoOne
  <2>1. SUFFICES ASSUME NEW s \in Steady
        PROVE  /\ check'[s][n] = "claim" => q + 1 <= Takeover
               /\ check'[s][n] # "claim" =>
                    q + 1 <= Ttl + sincePass'[s] /\ (PassOpen(s)' => q + 1 <= Ttl)
    BY <1>1, <1>3 DEF Waits
  <2>2. /\ check[s][n] = "claim" => q + 1 <= Takeover
        /\ check[s][n] # "claim" => q + 1 <= Ttl + sincePass[s] /\ (PassOpen(s) => q + 1 <= Ttl)
    BY <1>3 DEF Waits
  <2>3. sincePass[s] \in Nat /\ sincePass[s] <= Interval + Lag /\ mode[s] = "up" /\ n \in connected[s]
    BY <1>1 DEF Base, TypeOK, SteadyUp
  <2>4. CASE check'[s] = check[s]
    BY <1>1, <2>2, <2>4 DEF PassOpen
  <2>5. CASE ~PassOpen(s) /\ m \in connected[s]
    <3>1. check[s][n] = "idle" /\ check'[s][n] = FirstCommand(s, n, connected[s] \ {m})
      BY <1>1, <2>5 DEF PassOpen
    <3>2. n \notin owned[s]
      BY <1>3, <2>3, <3>1, OwnerHolds, NoOneAssumption
    <3>3. check'[s][n] = "claim"
      BY <1>1, <2>3, <3>1, <3>2 DEF FirstCommand
    <3>4. q + 1 <= Takeover
      BY <2>2, <2>3, <3>1 DEF Takeover
    <3>5. QED
      BY <3>3, <3>4
  <2>6. QED
    BY <1>1, <2>4, <2>5
<1>4. QED
  BY <1>2, <1>3
-----------------------------------------------------------------------------
(* A node has an owner in time.                                            *)

LEMMA LiveTypeStep == ASSUME LiveTypeOK, TypeOK', [LiveNext]_allVars PROVE LiveTypeOK'
<1> USE TimeAssumption, BeatAssumption DEF LiveTypeOK
<1> DEFINE Others == <<dead, lost, known, suspect, beatLeft, sinceBeat, uptime, orphan>>
<1>h. ASSUME NEW N \in SUBSET Node, Heartbeat(N)
      PROVE  /\ beatLeft' \in [Node -> 0..HbTtl] /\ known' \in SUBSET Node
             /\ lost' \in [Node -> Replica \cup {NoOne}]
  BY <1>h DEF Heartbeat
<1>1. CASE LiveTick
  BY <1>1 DEF LiveTick, Sooner, Later, Takeover
<1>2. CASE Own
  <2>1. PICK N \in SUBSET Node : Heartbeat(N)
    <3>1. UNION {owned'[r] \ owned[r] : r \in Replica} \in SUBSET Node
      BY DEF TypeOK
    <3>2. QED
      BY <1>2, <3>1 DEF Own
  <2>2. sinceBeat' \in [Replica -> [Node -> 0..(HbInterval + Lag)]]
    BY <1>2 DEF Own
  <2>3. /\ uptime' \in [Replica -> 0..Grace] /\ suspect' \in [Replica -> SUBSET Node]
        /\ orphan' \in [Node -> 0..(Takeover + 1)] /\ dead' = dead
    BY <1>2 DEF Own, OrphanEnds, Takeover
  <2>4. QED
    BY <1>h, <2>1, <2>2, <2>3
<1>3. ASSUME NEW r \in Replica, NEW n \in Node, BeatTimer(r, n) PROVE LiveTypeOK'
  <2>1. sinceBeat' \in [Replica -> [Node -> 0..(HbInterval + Lag)]]
    <3>1. 0 \in 0..(HbInterval + Lag)
      OBVIOUS
    <3>2. QED
      BY <1>3, <3>1, TableUpdate DEF BeatTimer
  <2>2. Heartbeat({n}) /\ {n} \in SUBSET Node /\ UNCHANGED <<dead, uptime, suspect, orphan>>
    BY <1>3 DEF BeatTimer
  <2>3. QED
    BY <1>h, <2>1, <2>2
<1>4. ASSUME NEW r \in Replica, NEW n \in Node, NodeEvent(r, n) PROVE LiveTypeOK'
  <2>1. Heartbeat({n}) /\ {n} \in SUBSET Node /\ UNCHANGED <<dead, uptime, suspect, orphan, sinceBeat>>
    BY <1>4 DEF NodeEvent
  <2>2. QED
    BY <1>h, <2>1
<1>5. ASSUME NEW r \in Replica, NEW n \in Node, Suspect(r, n) \/ Declare(r, n) PROVE LiveTypeOK'
  <2>1. UNCHANGED <<dead, known, beatLeft, sinceBeat, uptime, orphan>>
    BY <1>5 DEF Suspect, Declare
  <2>2. suspect' \in [Replica -> SUBSET Node]
    <3>1. /\ suspect[r] \cup {n} \in SUBSET Node /\ suspect[r] \ {n} \in SUBSET Node
      OBVIOUS
    <3>2. \E S \in SUBSET Node : suspect' = [suspect EXCEPT ![r] = S]
      BY <1>5, <3>1 DEF Suspect, Declare
    <3>3. QED
      BY <3>2
  <2>3. lost' \in [Node -> Replica \cup {NoOne}]
    <3>1. CASE Suspect(r, n)
      BY <3>1 DEF Suspect
    <3>2. CASE Declare(r, n)
      <4>1. lost' = [lost EXCEPT ![n] = IF lost[n] = NoOne THEN r ELSE lost[n]]
        BY <3>2 DEF Declare
      <4>2. QED
        BY <4>1
    <3>3. QED
      BY <1>5, <3>1, <3>2
  <2>4. QED
    BY <2>1, <2>2, <2>3
<1>6. ASSUME NEW n \in Node, LossLapses(n) PROVE LiveTypeOK'
  BY <1>6 DEF LossLapses
<1>7. ASSUME NEW n \in Node, Die(n) PROVE LiveTypeOK'
  BY <1>7 DEF Die
<1>8. CASE UNCHANGED allVars
  BY <1>8 DEF allVars, liveVars
<1>9. QED
  BY <1>1, <1>2, <1>3, <1>4, <1>5, <1>6, <1>7, <1>8 DEF LiveNext

(* The time a node has gone without a claim of a live replica.             *)
Orphans ==
  \A n \in Node :
    /\ LiveClaim(n) => orphan[n] = 0
    /\ IF n \in dead THEN orphan[n] <= Takeover ELSE Waits(orphan[n], n)

OwnInv == LiveTypeOK /\ Base /\ SteadyUp /\ Claims /\ Orphans

LEMMA OwnInit == ASSUME InTime PROVE LiveInit => OwnInv
<1> SUFFICES ASSUME LiveInit PROVE OwnInv
  OBVIOUS
<1> USE TimeAssumption, BeatAssumption, SteadyAssumption, NoOneAssumption
<1>1. Base
  BY TypeInit, LeaseInit, TimelyInit DEF LiveInit, Base, Off, Init
<1>2. LiveTypeOK
  BY <1>1 DEF LiveInit, LiveTypeOK, Base, Takeover
<1>3. SteadyUp /\ Claims
  BY DEF LiveInit, Init, SteadyUp, Claims
<1>4. Orphans
  BY <1>1 DEF LiveInit, Init, Orphans, LiveClaim, Waits, PassOpen, Takeover, Base, TypeOK
<1>5. QED
  BY <1>1, <1>2, <1>3, <1>4 DEF OwnInv

LEMMA SteadyClaimsStep ==
  ASSUME InTime, Base, SteadyUp, Claims, [LiveNext]_allVars
  PROVE  SteadyUp' /\ Claims'
<1>1. CASE Own
  BY <1>1, SteadyKept, ClaimsStep DEF Own, OwnershipStep
<1>2. CASE LiveTick
  <2>1. Tick /\ dead' = dead
    BY <1>2 DEF LiveTick
  <2>2. \A n \in Node : claim'[n] # NoOne => claim'[n] = claim[n] /\ claimLeft'[n] >= 1
    BY <2>1 DEF Tick, Sooner, Base, TypeOK
  <2>3. UNCHANGED <<mode, connected, check, owned>>
    BY <2>1 DEF Tick
  <2>4. SteadyUp'
    BY <2>1, <2>3 DEF SteadyUp
  <2>5. Claims'
    BY <2>2, <2>3, NoOneAssumption DEF Claims
  <2>6. QED
    BY <2>4, <2>5
<1>3. ASSUME NEW n \in Node, Die(n) PROVE SteadyUp' /\ Claims'
  <2>1. \A r \in Replica, m \in Node :
          \/ check'[r][m] = check[r][m]
          \/ check'[r][m] = FirstCommand(r, m, connected[r] \ {n})
    BY <1>3 DEF Die
  <2>2. \A r \in Replica, m \in Node, conn \in SUBSET Node :
          FirstCommand(r, m, conn) = "renew" => m \in owned[r]
    BY DEF FirstCommand
  <2>3. UNCHANGED <<claim, claimLeft, owned, mode>> /\ dead' = dead \cup {n}
        /\ connected' = [r \in Replica |-> connected[r] \ {n}]
    BY <1>3 DEF Die, redis
  <2>4. \A r \in Replica : connected[r] \ {n} \in SUBSET Node
    BY DEF Base, TypeOK
  <2>5. Claims'
    BY <2>1, <2>2, <2>3, <2>4 DEF Claims
  <2>6. QED
    BY <2>3, <2>5, SteadyAssumption DEF SteadyUp
<1>4. CASE UNCHANGED <<vars, dead>>
  BY <1>4 DEF vars, SteadyUp, Claims
<1>5. QED
  BY <1>1, <1>2, <1>3, <1>4
     DEF LiveNext, BeatTimer, NodeEvent, Suspect, Declare, LossLapses, allVars, liveVars

LEMMA OrphansStep ==
  ASSUME InTime, Steady # {}, OwnInv, Base', LiveTypeOK', [LiveNext]_allVars
  PROVE  Orphans'
<1> USE TimeAssumption DEF OwnInv
<1>0. \A n \in Node : orphan[n] \in Nat /\ orphan'[n] \in Nat
  BY DEF LiveTypeOK, Takeover
<1>b. \A n \in Node : orphan[n] <= Takeover /\ (n \notin dead => orphan[n] + 1 <= Takeover)
  <2> SUFFICES ASSUME NEW n \in Node, n \notin dead PROVE orphan[n] + 1 <= Takeover
    BY <1>0 DEF Orphans, Takeover
  <2>1. PICK q \in Int : q = orphan[n]
    BY <1>0
  <2>2. Waits(q, n)
    BY <2>1 DEF Orphans
  <2>3. QED
    BY <2>1, <2>2, WaitsBound DEF Base
<1>z. ASSUME NEW n \in Node, orphan'[n] = 0 PROVE Waits(orphan[n], n)'
  <2>1. Waits(0, n)'
    BY WaitsFresh DEF Base
  <2>2. QED
    BY <1>z, <2>1
<1>1. CASE Own
  <2> SUFFICES ASSUME NEW n \in Node
               PROVE  /\ LiveClaim(n)' => orphan'[n] = 0
                      /\ IF n \in dead' THEN orphan'[n] <= Takeover ELSE Waits(orphan[n], n)'
    BY DEF Orphans
  <2>1. dead' = dead /\ Step /\ orphan'[n] = IF LiveClaim(n)' THEN 0 ELSE orphan[n]
    BY <1>1 DEF Own, OwnershipStep, OrphanEnds
  <2>2. CASE LiveClaim(n)'
    BY <1>z, <2>1, <2>2 DEF Takeover
  <2>3. CASE ~LiveClaim(n)' /\ n \notin dead
    <3>1. PICK q \in Int : q = orphan[n]
      BY <1>0
    <3>2. \/ claim'[n] = claim[n] /\ claimLeft'[n] = claimLeft[n]
          \/ claim[n] # NoOne /\ claim'[n] = NoOne
      BY <2>1, <2>3, ClaimEffect DEF LiveClaim
    <3>3. Waits(q, n)
      BY <2>3, <3>1 DEF Orphans
    <3>4. Waits(q, n)'
      BY <2>1, <2>3, <3>2, <3>3, WaitsStep
    <3>5. orphan'[n] = q
      BY <2>1, <2>3, <3>1
    <3>6. QED
      BY <2>1, <2>3, <3>4, <3>5
  <2>4. QED
    BY <1>b, <2>1, <2>2, <2>3
<1>2. CASE LiveTick
  <2> SUFFICES ASSUME NEW n \in Node
               PROVE  /\ LiveClaim(n)' => orphan'[n] = 0
                      /\ IF n \in dead' THEN orphan'[n] <= Takeover ELSE Waits(orphan[n], n)'
    BY DEF Orphans
  <2>1. /\ dead' = dead /\ Tick /\ mode' = mode
        /\ orphan'[n] = IF LiveClaim(n) \/ n \in dead THEN 0 ELSE Later(orphan[n], Takeover + 1)
    BY <1>2 DEF LiveTick, Tick
  <2>2. LiveClaim(n)' => LiveClaim(n)
    BY <2>1, NoOneAssumption DEF LiveClaim, Tick
  <2>3. CASE LiveClaim(n) \/ n \in dead
    BY <1>z, <2>1, <2>3 DEF Takeover
  <2>4. CASE ~LiveClaim(n) /\ n \notin dead
    <3>1. PICK q \in Int : q = orphan[n]
      BY <1>0
    <3>2. Waits(q, n)
      BY <2>4, <3>1 DEF Orphans
    <3>3. Waits(q + 1, n)'
      BY <2>1, <2>4, <3>2, WaitsTick
    <3>4. orphan'[n] = q + 1
      BY <1>0, <1>b, <2>1, <2>4, <3>1 DEF Later, Takeover
    <3>5. QED
      BY <2>1, <2>2, <2>4, <3>3, <3>4
  <2>5. QED
    BY <2>2, <2>3, <2>4
<1>3. ASSUME NEW m \in Node, Die(m) PROVE Orphans'
  <2> SUFFICES ASSUME NEW n \in Node
               PROVE  /\ LiveClaim(n)' => orphan'[n] = 0
                      /\ IF n \in dead' THEN orphan'[n] <= Takeover ELSE Waits(orphan[n], n)'
    BY DEF Orphans
  <2>1. UNCHANGED <<claim, mode, orphan>> /\ dead \subseteq dead'
    BY <1>3 DEF Die, redis
  <2>2. LiveClaim(n)' => orphan'[n] = 0
    BY <2>1 DEF LiveClaim, Orphans
  <2>3. CASE n \notin dead'
    <3>1. PICK q \in Int : q = orphan[n]
      BY <1>0
    <3>2. Waits(q, n)
      BY <2>1, <2>3, <3>1 DEF Orphans
    <3>3. Waits(q, n)'
      BY <1>3, <2>3, <3>2, WaitsDie
    <3>4. QED
      BY <2>1, <2>2, <2>3, <3>1, <3>3
  <2>4. QED
    BY <1>b, <2>1, <2>2, <2>3
<1>4. CASE UNCHANGED <<vars, dead, orphan>>
  BY <1>4 DEF vars, redis, Orphans, LiveClaim, Waits, PassOpen
<1>5. QED
  BY <1>1, <1>2, <1>3, <1>4
     DEF LiveNext, BeatTimer, NodeEvent, Suspect, Declare, LossLapses, allVars, liveVars

LEMMA OwnInvStep ==
  ASSUME InTime, Steady # {}
  PROVE  OwnInv /\ [LiveNext]_allVars => OwnInv'
<1> SUFFICES ASSUME OwnInv, [LiveNext]_allVars PROVE OwnInv'
  OBVIOUS
<1>1. Base'
  BY BaseStep DEF OwnInv
<1>2. LiveTypeOK'
  BY <1>1, LiveTypeStep DEF OwnInv, Base
<1>3. QED
  BY <1>1, <1>2, OrphansStep, SteadyClaimsStep DEF OwnInv

LEMMA OwnInvariant == ASSUME InTime, Steady # {} PROVE LiveSpec => []OwnInv
BY OwnInit, OwnInvStep, PTL DEF LiveSpec

(* Without a steady replica only the types and the leases are kept. *)
LEMMA BaseInvariant == ASSUME InTime PROVE LiveSpec => [](LiveTypeOK /\ Base)
<1>1. LiveInit => LiveTypeOK /\ Base
  BY OwnInit DEF OwnInv
<1>2. LiveTypeOK /\ Base /\ [LiveNext]_allVars => (LiveTypeOK /\ Base)'
  BY BaseStep, LiveTypeStep DEF Base
<1>3. QED
  BY <1>1, <1>2, PTL DEF LiveSpec

(* "A node whose owner dies is taken over within 8 s" (node-ownership.ts:  *)
(* 23-24): while one replica stays connected and timers are in time, no    *)
(* node is without a claim of a live process for longer than a lease, a    *)
(* pass and its lag, and every owner's claim is renewed before it lapses.  *)
THEOREM OwnedInTimeHolds == InTime /\ LiveSpec => []OwnedInTime
<1> SUFFICES ASSUME InTime PROVE LiveSpec => []OwnedInTime
  OBVIOUS
<1>1. Base => RenewedInTime
  BY RenewedNow DEF Base
<1>2. CASE Steady # {}
  <2>1. OwnInv => TakenOverInTime
    <3> SUFFICES ASSUME OwnInv, NEW n \in Node, n \notin dead PROVE orphan[n] <= Takeover
      BY DEF OwnInv, Orphans, TakenOverInTime
    <3>1. PICK q \in Int : q = orphan[n]
      BY TimeAssumption DEF OwnInv, LiveTypeOK, Takeover
    <3>2. Waits(q, n)
      BY <3>1 DEF OwnInv, Orphans
    <3>3. q + 1 <= Takeover
      BY <1>2, <3>2, WaitsBound DEF OwnInv, Base
    <3>4. QED
      BY <3>1, <3>3, TimeAssumption DEF Takeover
  <2>2. OwnInv => OwnedInTime
    BY <1>1, <2>1 DEF OwnInv, OwnedInTime
  <2>3. LiveSpec => []OwnInv
    BY <1>2, OwnInvariant
  <2>4. QED
    BY <2>2, <2>3, PTL
<1>3. CASE Steady = {}
  <2>1. LiveTypeOK /\ Base => OwnedInTime
    BY <1>1, <1>3 DEF TakenOverInTime, OwnedInTime
  <2>2. LiveSpec => [](LiveTypeOK /\ Base)
    BY BaseInvariant
  <2>3. QED
    BY <2>1, <2>2, PTL
<1>4. QED
  BY <1>2, <1>3
-----------------------------------------------------------------------------
(* A live node's heartbeat key outlives the time it is without an owner.   *)

InFlight(n) == \E r \in Replica : check[r][n] = "claimed"

(* How much longer ago than an owner would have let it be the node's last  *)
(* heartbeat is.                                                           *)
Gap(n) == HbTtl - (beatLeft[n] + HbInterval + Lag)

OwnersBeat ==
  \A r \in Replica : \A n \in owned[r] :
    n \in known /\ beatLeft[n] + sinceBeat[r][n] >= HbTtl

(* The last owner's last heartbeat was made while it held the claim that   *)
(* the node's next owner waits for, or has replaced.                       *)
Beats ==
  \A n \in known \ dead :
    Waits(Gap(n), n) \/ (InFlight(n) /\ Gap(n) + 1 <= Takeover)

Watch == \A n \in Node \ dead : lost[n] = NoOne /\ \A r \in Replica : n \notin suspect[r]

BeatInv == OwnInv /\ OwnersBeat /\ Beats /\ Watch

LEMMA WaitsLess ==
  ASSUME TypeOK', NEW p \in Int, NEW q \in Int, NEW n \in Node, Waits(q, n)', p <= q
  PROVE  Waits(p, n)'
<1> USE TimeAssumption, SteadyAssumption DEF Waits, TypeOK
<1>1. claimLeft'[n] \in Nat /\ Takeover \in Nat /\ \A s \in Steady : sincePass'[s] \in Nat
  BY DEF Takeover
<1>2. QED
  BY <1>1

(* A claim on its way back makes its replica the owner, unless the replica *)
(* ends before.                                                            *)
LEMMA FlightKept ==
  ASSUME InTime, Base, Step, NEW s \in Replica, NEW n \in Node,
         check[s][n] = "claimed", mode'[s] # "down"
  PROVE  check'[s][n] = "claimed" \/ n \in owned'[s]
<1> DEFINE Goal == check'[s][n] = "claimed" \/ n \in owned'[s]
<1> USE DEF Base, TypeOK
<1>1. PICK r \in Replica : PassStep(r) \/ StopStep(r) \/ Fault(r)
  BY DEF Step
<1>2. cut = {} /\ PassOpen(s)
  BY DEF Timely, PassOpen
<1>3. ASSUME NEW conn, RunOnce(r, conn) PROVE Goal
  BY <1>2, <1>3 DEF RunOnce
<1>4. CASE PassStep(r)
  <2>1. ASSUME NEW m \in Node, ExecRelease(r, m) \/ ExecRenew(r, m) \/ ExecClaim(r, m) PROVE Goal
    BY SMTT(40), <2>1 DEF ExecRelease, ExecRenew, ExecClaim
  <2>2. ASSUME NEW m \in Node, Reply(r, m) PROVE Goal
    BY <2>2 DEF Reply
  <2>3. QED
    BY <1>2, <1>3, <1>4, <2>1, <2>2 DEF PassStep, TimerFires, Reject
<1>5. ASSUME Ended(r) PROVE Goal
  BY <1>5 DEF Ended
<1>6. CASE StopStep(r)
  BY <1>5, <1>6 DEF StopStep, BeginGiving, CloseSockets, Exit, GiveUp
<1>7. CASE Fault(r)
  <2>1. ASSUME NEW m \in Node, Connect(r, m) \/ Disconnect(r, m) PROVE Goal
    BY <1>3, <2>1 DEF Connect, Disconnect
  <2>2. ASSUME NEW m \in Node, Resend(r, m) PROVE FALSE
    BY <2>2 DEF Resend, MayFail, InTime
  <2>3. QED
    BY <1>5, <1>7, <2>1, <2>2 DEF Fault, BeginStop, Crash, Restart, CutOff, Heal
<1>8. QED
  BY <1>1, <1>4, <1>6, <1>7

LEMMA OwnersBeatStep ==
  ASSUME InTime, LiveTypeOK, Base, OwnersBeat, [LiveNext]_allVars
  PROVE  OwnersBeat'
<1> USE TimeAssumption, BeatAssumption DEF LiveTypeOK, Base, TypeOK
<1>1. CASE Own
  <2> SUFFICES ASSUME NEW r \in Replica, NEW n \in owned'[r]
               PROVE  n \in known' /\ beatLeft'[n] + sinceBeat'[r][n] >= HbTtl
    BY DEF OwnersBeat
  <2>0. n \in Node
    BY <1>1, TypeStep DEF Own, OwnershipStep, Next
  <2> DEFINE N == UNION {owned'[x] \ owned[x] : x \in Replica}
  <2>1. Heartbeat(N)
    BY <1>1 DEF Own
  <2>2. sinceBeat'[r][n] = IF n \in owned'[r] \ owned[r] THEN 0 ELSE sinceBeat[r][n]
    BY <1>1, <2>0 DEF Own
  <2>3. beatLeft'[n] = (IF n \in N THEN HbTtl ELSE beatLeft[n]) /\ known' = known \cup N
    BY <2>0, <2>1 DEF Heartbeat
  <2>4. sinceBeat[r][n] \in Nat /\ beatLeft[n] \in Nat
    BY <2>0
  <2>5. CASE n \in N
    BY <2>2, <2>3, <2>4, <2>5
  <2>6. CASE n \notin N
    <3>1. n \in owned[r]
      BY <2>6
    <3>2. QED
      BY <2>2, <2>3, <2>6, <3>1 DEF OwnersBeat
  <2>7. QED
    BY <2>5, <2>6
<1>2. CASE LiveTick
  <2> SUFFICES ASSUME NEW r \in Replica, NEW n \in owned[r]
               PROVE  n \in known' /\ beatLeft'[n] + sinceBeat'[r][n] >= HbTtl
    BY <1>2 DEF OwnersBeat, LiveTick, Tick
  <2>1. n \in Node /\ cut = {} /\ known' = known
    BY <1>2 DEF LiveTick, Timely
  <2>2. sinceBeat'[r][n] = sinceBeat[r][n] + 1
    BY <1>2, <2>1 DEF LiveTick, Later
  <2>3. beatLeft'[n] = Sooner(beatLeft[n]) /\ sinceBeat[r][n] \in Nat /\ beatLeft[n] \in Nat
    BY <1>2, <2>1 DEF LiveTick
  <2>4. n \in known /\ beatLeft[n] + sinceBeat[r][n] >= HbTtl
    BY DEF OwnersBeat
  <2>5. QED
    BY <2>1, <2>2, <2>3, <2>4 DEF Sooner
<1>3. ASSUME NEW r \in Replica, NEW m \in Node, Heartbeat({m}), UNCHANGED vars,
             sinceBeat' = sinceBeat \/ sinceBeat' = [sinceBeat EXCEPT ![r][m] = 0]
      PROVE  OwnersBeat'
  <2> SUFFICES ASSUME NEW s \in Replica, NEW n \in owned[s]
               PROVE  n \in known' /\ beatLeft'[n] + sinceBeat'[s][n] >= HbTtl
    BY <1>3 DEF OwnersBeat, vars
  <2>0. n \in Node /\ sinceBeat[s][n] \in Nat
    OBVIOUS
  <2>1. sinceBeat'[s][n] \in Nat /\ (n # m => sinceBeat'[s][n] = sinceBeat[s][n])
    <3>1. CASE sinceBeat' = sinceBeat
      BY <2>0, <3>1
    <3>2. CASE sinceBeat' = [sinceBeat EXCEPT ![r][m] = 0]
      <4>1. sinceBeat'[s][n] = IF s = r /\ n = m THEN 0 ELSE sinceBeat[s][n]
        BY <2>0, <3>2
      <4>2. QED
        BY <2>0, <4>1
    <3>3. QED
      BY <1>3, <3>1, <3>2
  <2>2. beatLeft'[n] = (IF n = m THEN HbTtl ELSE beatLeft[n]) /\ known' = known \cup {m}
    BY <1>3, <2>0 DEF Heartbeat
  <2>3. QED
    BY <2>0, <2>1, <2>2 DEF OwnersBeat
<1>4. ASSUME NEW m \in Node, Die(m) PROVE OwnersBeat'
  BY <1>4 DEF Die, OwnersBeat
<1>5. CASE UNCHANGED <<vars, beatLeft, known, sinceBeat>>
  BY <1>5 DEF vars, OwnersBeat
<1>6. QED
  BY <1>1, <1>2, <1>3, <1>4, <1>5
     DEF LiveNext, BeatTimer, NodeEvent, Suspect, Declare, LossLapses, allVars, liveVars

LEMMA BeatsBound ==
  ASSUME BeatInv, Steady # {}, HbTtl >= Takeover + HbInterval + Lag, NEW n \in known \ dead
  PROVE  Gap(n) \in Int /\ Gap(n) + 1 <= Takeover /\ beatLeft[n] > 0
<1> USE TimeAssumption, BeatAssumption
<1>1. n \in Node \ dead /\ beatLeft[n] \in Nat /\ Takeover \in Nat
  BY DEF BeatInv, OwnInv, LiveTypeOK, Takeover
<1>2. PICK q \in Int : q = Gap(n)
  BY <1>1 DEF Gap
<1>3. Gap(n) + 1 <= Takeover
  <2>1. CASE Waits(q, n)
    BY <1>1, <1>2, <2>1, WaitsBound DEF BeatInv, OwnInv, Base
  <2>2. QED
    BY <1>1, <1>2, <2>1 DEF BeatInv, Beats
<1>4. QED
  BY <1>1, <1>2, <1>3 DEF Gap

LEMMA BeatsStep ==
  ASSUME InTime, Steady # {}, HbTtl >= Takeover + HbInterval + Lag,
         BeatInv, Base', LiveTypeOK', OwnersBeat', [LiveNext /\ WholeClaims]_allVars
  PROVE  Beats'
<1> USE TimeAssumption, BeatAssumption
<1> DEFINE Kept(n) == Waits(Gap(n), n) \/ (InFlight(n) /\ Gap(n) + 1 <= Takeover)
<1> SUFFICES ASSUME NEW n \in known' \ dead' PROVE Kept(n)'
  BY DEF Beats
<1>0. /\ n \in Node /\ beatLeft'[n] \in Nat /\ beatLeft[n] \in Nat
      /\ TypeOK /\ TypeOK' /\ InTime /\ Base /\ SteadyUp /\ Claims
  BY DEF LiveTypeOK, BeatInv, OwnInv, Base
<1>1. PICK q \in Int : q = Gap(n)
  BY <1>0 DEF Gap
<1>2. PICK p \in Int : p = Gap(n)'
  BY <1>0 DEF Gap
<1>fresh. ASSUME p <= 0 PROVE Kept(n)'
  BY <1>0, <1>2, <1>fresh, WaitsFresh
<1>less. ASSUME NEW k \in Int, Waits(k, n)', p <= k PROVE Kept(n)'
  BY <1>0, <1>2, <1>less, WaitsLess
<1>3. CASE LiveTick
  <2>1. n \in known \ dead /\ Tick /\ beatLeft'[n] = Sooner(beatLeft[n])
    BY <1>0, <1>3 DEF LiveTick
  <2>2. ~InFlight(n)
    BY <1>0, <2>1 DEF Tick, Settled, Base, Timely, PassOpen, InFlight
  <2>3. Waits(q, n)
    BY <1>1, <2>1, <2>2 DEF BeatInv, Beats
  <2>4. Waits(q + 1, n)'
    BY <1>0, <2>1, <2>3, WaitsTick
  <2>5. p <= q + 1
    BY <1>0, <1>1, <1>2, <2>1 DEF Gap, Sooner
  <2>6. QED
    BY <1>less, <2>4, <2>5
<1>4. CASE Own /\ WholeClaims
  <2>1. CASE \E r \in Replica : n \in owned'[r]
    <3>1. PICK r \in Replica : n \in owned'[r]
      BY <2>1
    <3>2. beatLeft'[n] + sinceBeat'[r][n] >= HbTtl
      BY <3>1 DEF OwnersBeat
    <3>3. sinceBeat'[r][n] \in Nat /\ sinceBeat'[r][n] <= HbInterval + Lag
      BY <1>0 DEF LiveTypeOK
    <3>4. QED
      BY <1>0, <1>2, <1>fresh, <3>2, <3>3 DEF Gap
  <2>2. CASE \A r \in Replica : n \notin owned'[r]
    <3>1. PICK N \in SUBSET Node : Heartbeat(N) /\ n \notin N
      <4>1. UNION {owned'[r] \ owned[r] : r \in Replica} \in SUBSET Node
        BY <1>0 DEF TypeOK
      <4>2. QED
        BY <1>4, <2>2, <4>1 DEF Own
    <3>2. n \in known /\ beatLeft'[n] = beatLeft[n]
      BY <1>0, <3>1 DEF Heartbeat
    <3>3. Step /\ n \in known \ dead
      BY <1>4, <3>2 DEF Own, OwnershipStep
    <3>4. p = q /\ q + 1 <= Takeover
      BY <1>1, <1>2, <3>2, <3>3, BeatsBound DEF Gap
    <3>5. CASE InFlight(n)
      <4>1. PICK s \in Replica : check[s][n] = "claimed"
        BY <3>5 DEF InFlight
      <4>2. mode'[s] # "down"
        BY <1>0, <1>4, <4>1 DEF WholeClaims
      <4>3. check'[s][n] = "claimed"
        BY <1>0, <2>2, <3>3, <4>1, <4>2, FlightKept
      <4>4. QED
        BY <1>2, <3>4, <4>3 DEF InFlight
    <3>6. CASE ~InFlight(n)
      <4>1. Waits(q, n)
        BY <1>1, <3>3, <3>6 DEF BeatInv, Beats
      <4>2. CASE \/ claim'[n] = claim[n] /\ claimLeft'[n] = claimLeft[n]
                 \/ claim[n] # NoOne /\ claim'[n] = NoOne
        <5>1. Waits(q, n)'
          BY <1>0, <3>3, <4>1, <4>2, WaitsStep
        <5>2. QED
          BY <1>2, <3>4, <5>1
      <4>3. CASE \E r \in Replica : check'[r][n] = "claimed" \/ n \in owned'[r]
        BY <1>2, <2>2, <3>4, <4>3 DEF InFlight
      <4>4. QED
        BY <1>0, <3>3, <4>2, <4>3, ClaimEffect
    <3>7. QED
      BY <3>5, <3>6
  <2>3. QED
    BY <2>1, <2>2
<1>5. ASSUME UNCHANGED vars PROVE Waits(q, n) <=> Waits(q, n)'
  BY <1>5 DEF vars, redis, Waits, PassOpen
<1>6. ASSUME UNCHANGED vars PROVE InFlight(n) <=> InFlight(n)'
  BY <1>6 DEF vars, InFlight
<1>7. CASE UNCHANGED <<vars, dead, beatLeft, known>>
  <2>1. p = q /\ n \in known \ dead
    BY <1>1, <1>2, <1>7 DEF Gap
  <2>2. Waits(q, n) \/ (InFlight(n) /\ q + 1 <= Takeover)
    BY <1>1, <2>1 DEF BeatInv, Beats
  <2>3. QED
    BY <1>2, <1>5, <1>6, <1>7, <2>1, <2>2
<1>8. ASSUME NEW m \in Node, Heartbeat({m}), UNCHANGED <<vars, dead>> PROVE Kept(n)'
  <2>1. CASE n = m
    BY <1>0, <1>2, <1>8, <1>fresh, <2>1 DEF Heartbeat, Gap
  <2>2. CASE n # m
    <3>1. p = q /\ n \in known \ dead
      BY <1>0, <1>1, <1>2, <1>8, <2>2 DEF Gap, Heartbeat
    <3>2. Waits(q, n) \/ (InFlight(n) /\ q + 1 <= Takeover)
      BY <1>1, <3>1 DEF BeatInv, Beats
    <3>3. QED
      BY <1>2, <1>5, <1>6, <1>8, <3>1, <3>2
  <2>3. QED
    BY <2>1, <2>2
<1>9. ASSUME NEW m \in Node, Die(m) PROVE Kept(n)'
  <2>1. p = q /\ n \in known \ dead
    BY <1>1, <1>2, <1>9 DEF Gap, Die
  <2>2. Waits(q, n) \/ (InFlight(n) /\ q + 1 <= Takeover)
    BY <1>1, <2>1 DEF BeatInv, Beats
  <2>3. CASE Waits(q, n)
    <3>1. Waits(q, n)'
      BY <1>0, <1>9, <2>3, WaitsDie
    <3>2. QED
      BY <1>2, <2>1, <3>1
  <2>4. CASE InFlight(n) /\ q + 1 <= Takeover
    <3>1. PICK s \in Replica : check[s][n] = "claimed"
      BY <2>4 DEF InFlight
    <3>2. check'[s] = check[s]
      BY <1>0, <1>9, <3>1 DEF Die, PassOpen
    <3>3. QED
      BY <1>2, <2>1, <2>4, <3>1, <3>2 DEF InFlight
  <2>5. QED
    BY <2>2, <2>3, <2>4
<1>10. QED
  BY <1>3, <1>4, <1>7, <1>8, <1>9
     DEF LiveNext, BeatTimer, NodeEvent, Suspect, Declare, LossLapses, allVars, liveVars

LEMMA WatchStep ==
  ASSUME Steady # {}, HbTtl >= Takeover + HbInterval + Lag, BeatInv, LiveTypeOK', [LiveNext]_allVars
  PROVE  Watch'
<1> USE DEF Watch, BeatInv, OwnInv, LiveTypeOK
<1>1. dead \subseteq dead'
  BY DEF LiveNext, LiveTick, Own, BeatTimer, NodeEvent, Suspect, Declare, LossLapses, Die,
         allVars, liveVars
<1>2. ASSUME NEW r \in Replica, NEW m \in Node, Suspect(r, m) PROVE Watch'
  <2>1. m \in dead
    BY <1>2, BeatsBound DEF Suspect
  <2>2. /\ lost' = lost /\ dead' = dead
        /\ \A s \in Replica, n \in Node : n \in suspect'[s] => n \in suspect[s] \/ n = m
    BY <1>2 DEF Suspect
  <2>3. QED
    BY <2>1, <2>2
<1>3. ASSUME NEW r \in Replica, NEW m \in Node, Declare(r, m) PROVE Watch'
  <2>1. m \in dead
    BY <1>3 DEF Declare
  <2>2. \A s \in Replica : suspect'[s] \subseteq suspect[s]
    BY <1>3 DEF Declare
  <2>3. dead' = dead /\ \A n \in Node \ {m} : lost'[n] = lost[n]
    BY <1>3 DEF Declare
  <2>4. QED
    BY <2>1, <2>2, <2>3
<1>4. ASSUME \A n \in Node : lost'[n] = lost[n] \/ lost'[n] = NoOne,
             \A s \in Replica : suspect'[s] \subseteq suspect[s]
      PROVE  Watch'
  BY <1>1, <1>4
<1>5. CASE Own
  BY <1>4, <1>5 DEF Own, Heartbeat
<1>6. QED
  BY <1>2, <1>3, <1>4, <1>5
     DEF LiveNext, LiveTick, BeatTimer, NodeEvent, Heartbeat, LossLapses, Die, allVars, liveVars

(* "... inside the node heartbeat's 10 s expiry, so the node is never      *)
(* declared dead for its owner's death" (node-ownership.ts:25-26): it      *)
(* takes a heartbeat key that lives as long as a lease, a pass, and the    *)
(* heartbeat that the last owner had not yet made, each timer with its     *)
(* lag, and that no process ends between Redis' execution of its claim and *)
(* the heartbeat it makes on the reply.                                    *)
THEOREM NeverDeclaredDeadHolds ==
  InTime /\ HbTtl >= Takeover + HbInterval + Lag /\ WholeSpec => []NeverDeclaredDead
<1> SUFFICES ASSUME InTime, HbTtl >= Takeover + HbInterval + Lag
             PROVE  WholeSpec => []NeverDeclaredDead
  OBVIOUS
<1>1. CASE Steady # {}
  <2>1. LiveInit => BeatInv
    <3> SUFFICES ASSUME LiveInit PROVE BeatInv
      OBVIOUS
    <3>1. OwnInv
      BY OwnInit
    <3>2. OwnersBeat /\ Beats /\ Watch
      BY DEF LiveInit, Init, OwnersBeat, Beats, Watch
    <3>3. QED
      BY <3>1, <3>2 DEF BeatInv
  <2>2. BeatInv /\ [LiveNext /\ WholeClaims]_allVars => BeatInv'
    <3> SUFFICES ASSUME BeatInv, [LiveNext /\ WholeClaims]_allVars PROVE BeatInv'
      OBVIOUS
    <3>1. [LiveNext]_allVars
      OBVIOUS
    <3>2. OwnInv'
      BY <1>1, <3>1, OwnInvStep DEF BeatInv
    <3>3. Base' /\ LiveTypeOK'
      BY <3>2 DEF OwnInv
    <3>4. OwnersBeat'
      BY <3>1, OwnersBeatStep DEF BeatInv, OwnInv
    <3>5. Beats'
      BY <1>1, <3>3, <3>4, BeatsStep
    <3>6. Watch'
      BY <1>1, <3>1, <3>3, WatchStep
    <3>7. QED
      BY <3>2, <3>4, <3>5, <3>6 DEF BeatInv
  <2>3. BeatInv => NeverDeclaredDead
    BY DEF BeatInv, Watch, NeverDeclaredDead
  <2>4. QED
    BY <2>1, <2>2, <2>3, PTL DEF WholeSpec
<1>2. CASE Steady = {}
  <2>1. NeverDeclaredDead
    BY <1>2 DEF NeverDeclaredDead
  <2>2. QED
    BY <2>1, PTL
<1>3. QED
  BY <1>1, <1>2
=============================================================================
