----------------------------- MODULE MCNodeCalls -----------------------------
(* CallEvents and NodeDeath for TLC: a call from a trunk whose tenant is   *)
(* known later and one whose tenant is known first, while the node changes *)
(* owners; or the node's death with calls on it.  Which of the two is      *)
(* chosen initially.                                                       *)
EXTENDS NodeDeath

CONSTANTS c1, c2

VARIABLE death  \* whether the node dies under a watch

FirstAndLater == [c \in Call |-> IF c = c1 THEN "first" ELSE "later"]
AllFirst      == [c \in Call |-> "first"]

Death ==
  INSTANCE NodeDeath WITH
    Says <- AllFirst, Faults <- {"death", "crash", "task", "expiry"}

CallsInit ==
  \/ death = TRUE /\ DeathInit
  \/ /\ death = FALSE /\ Init
     /\ connected = {} /\ alive = TRUE /\ claim = NoOne /\ sweep = [r \in Replica |-> Rest]

Unwatched == UNCHANGED <<connected, watch>>

CallsNext ==
  /\ IF death THEN Death!DeathNext ELSE Next /\ Unwatched
  /\ UNCHANGED death

(* Fairness and DeathFairness, each of its part.                           *)
Works(r) == (IF death THEN Death!QueueStep(r) ELSE QueueStep(r)) /\ Unwatched

Takes(r) == IF death THEN Own(r) ELSE Acquire(r) /\ Unwatched

CallsSpec ==
  /\ CallsInit /\ [][CallsNext]_<<deathVars, death>>
  /\ \A r \in Replica :
       /\ WF_deathVars(Works(r)) /\ WF_deathVars(Takes(r))
       /\ WF_deathVars(death /\ Connect(r)) /\ WF_deathVars(death /\ SweepStep(r))
  /\ WF_deathVars(death /\ Lose /\ ~nodeUp /\ Unwatched)
  /\ WF_deathVars(death /\ Heartbeat) /\ WF_deathVars(death /\ KeyExpires)
  /\ WF_deathVars(death /\ ClaimLapses)

(* Each property is of one of the two. *)

(* InStep, of a node that changes owners.                                  *)
TakenOverInStep == ~death => InStep

(* A call that is over leaves the registry (EndedCallsLeave, of a node     *)
(* that changes owners), and one the node died with is announced as over   *)
(* (LostCallsEnd, of a node that is watched and whose calls are alike).    *)
Over(c)    == IF death THEN c = c1 /\ channel[c] = "lost" /\ HasCall(c) ELSE channel[c] = "gone"
Settled(c) == IF death THEN announced[c] \cap {"lost", "hungup"} # {} ELSE ~HasCall(c) \/ ~nodeUp

EveryCallEnds == \A c \in Call : Over(c) ~> Settled(c)
=============================================================================
