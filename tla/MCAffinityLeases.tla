-------------------------- MODULE MCAffinityLeases --------------------------
(* AffinityLeases for TLC: two requests, one at each replica, and one      *)
(* fault of any kind; or one request and several faults, all but the loss  *)
(* of Redis.  Which of the two is chosen initially.                        *)
EXTENDS AffinityLeases, TLC

CONSTANTS r1, r2, q1, q2,
  MaxBoth  \* bound: faults while there are two requests

TwoHomes == q1 :> r1 @@ q2 :> r2
OneHome  == q1 :> r1 @@ q2 :> r1

VARIABLE many  \* whether there may be several faults

FewRequests == request'[q2] = Waiting /\ ~RedisLost

MCInit == LeaseInit /\ many \in BOOLEAN

MCNext ==
  /\ LeaseNext
  /\ IF many THEN FewRequests ELSE faults' <= MaxBoth
  /\ UNCHANGED many

MCSpec == MCInit /\ [][MCNext]_<<vars, many>> /\ LeaseFairness
=============================================================================
