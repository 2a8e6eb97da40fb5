---------------------------- MODULE EventHandling ----------------------------
(***************************************************************************)
(* What the event pipeline promises (packages/events/README.md): an event  *)
(* is announced with the write it describes, and a consumer's work for it  *)
(* is done at most once, and only for an event that was announced.         *)
(***************************************************************************)
EXTENDS Naturals

CONSTANT Event

VARIABLES
  announced,  \* the events whose writes are committed
  work        \* how often a consumer's work for the event has been committed

AbstractInit ==
  /\ announced = {}
  /\ work = [e \in Event |-> 0]

Announce(e) ==
  /\ announced' = announced \cup {e}
  /\ UNCHANGED work

Handle(e) ==
  /\ e \in announced /\ work[e] = 0
  /\ work' = [work EXCEPT ![e] = 1]
  /\ UNCHANGED announced

AbstractNext == \E e \in Event : Announce(e) \/ Handle(e)

AbstractSpec == AbstractInit /\ [][AbstractNext]_<<announced, work>>
=============================================================================
