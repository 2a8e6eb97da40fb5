-------------------------------- MODULE Inbox --------------------------------
(***************************************************************************)
(* A durable consumer (packages/events/src/consumer.ts): the workers, one  *)
(* per copy of the service, share a JetStream consumer.  Each takes a      *)
(* message, records its event's id in consumed_events and runs the handler *)
(* in one transaction, and answers the message.                            *)
(*                                                                         *)
(* JetStream delivers a message again when its ack wait lapses or it was   *)
(* refused, up to max_deliver times, to any worker; answers may be lost.   *)
(***************************************************************************)
EXTENDS Naturals

CONSTANTS
  Worker,       \* the running consumers
  Event,        \* event ids
  Nothing,      \* the content of a slot of the stream not yet written
  MaxSlot,      \* bound: messages the stream may hold
  MaxDeliver,   \* maxDeliver
  OffContract,  \* events that do not match their contract
  MaxFaults,    \* bound: how many faults happen
  Faults        \* which of "transaction", "commit", "answer", "slow", "crash" may happen

Slot == 1..MaxSlot

ASSUME InboxAssumption ==
  /\ MaxSlot \in Nat /\ MaxDeliver \in Nat \ {0} /\ MaxFaults \in Nat
  /\ Nothing \notin Event /\ OffContract \subseteq Event
  /\ Faults \subseteq {"transaction", "commit", "answer", "slow", "crash"}

VARIABLES
  content,     \* the event of each message, Nothing when it is yet to come
  status,      \* JetStream: what has become of the message
  deliveries,  \* JetStream: how often it was delivered
  hand,        \* the message a worker is handling
  count,       \* message.info.deliveryCount of that delivery
  step,        \* where the worker is with it
  consumed,    \* the ids in consumed_events
  work,        \* history: how often the event's handler has committed
  faults       \* faults so far

server  == <<content, status, deliveries>>
workers == <<hand, count, step>>
db      == <<consumed, work>>
inbox   == <<status, deliveries, workers, db, faults>>
vars    == <<server, workers, db, faults>>

Settled == {"acked", "termed", "exhausted"}

TypeOK ==
  /\ content \in [Slot -> Event \cup {Nothing}]
  /\ status \in [Slot -> {"ready", "out", "refused"} \cup Settled]
  /\ deliveries \in [Slot -> 0..MaxDeliver]
  /\ hand \in [Worker -> Slot \cup {0}]
  /\ count \in [Worker -> 0..MaxDeliver]
  /\ step \in [Worker -> {"idle", "received", "handling", "committed", "failed"}]
  /\ \A w \in Worker : step[w] # "idle" => hand[w] \in Slot /\ content[hand[w]] \in Event
  /\ consumed \in SUBSET Event
  /\ work \in [Event -> Nat]
  /\ faults \in 0..MaxFaults

Init ==
  /\ content = [i \in Slot |-> Nothing]
  /\ status = [i \in Slot |-> "ready"]
  /\ deliveries = [i \in Slot |-> 0]
  /\ hand = [w \in Worker |-> 0]
  /\ count = [w \in Worker |-> 0]
  /\ step = [w \in Worker |-> "idle"]
  /\ consumed = {}
  /\ work = [e \in Event |-> 0]
  /\ faults = 0

(* The event whose message the worker has in hand. *)
EventOf(w) == content[hand[w]]

(* One more fault, of kind k. *)
Fault(k) == k \in Faults /\ faults < MaxFaults /\ faults' = faults + 1

Goes(w, s) == step' = [step EXCEPT ![w] = s]

-----------------------------------------------------------------------------
(* The stream and the server's side of the consumer. *)

(* A message is stored: the relay's work, duplicates included. *)
Store(e) ==
  /\ \E i \in Slot :
       /\ content[i] = Nothing /\ \A j \in Slot : j < i => content[j] # Nothing
       /\ content' = [content EXCEPT ![i] = e]
  /\ UNCHANGED inbox

(* ensure: max_deliver. *)
Deliverable(i) == deliveries[i] < MaxDeliver

(* An answer to a message that is settled comes too late. *)
Becomes(i, s) == status' = [status EXCEPT ![i] = IF @ \in Settled THEN @ ELSE s]

(* A pull is answered with message i: new messages in their order.         *)
Deliver(w, i) ==
  /\ step[w] = "idle"
  /\ content[i] # Nothing /\ status[i] = "ready" /\ Deliverable(i)
  /\ deliveries[i] = 0 => \A j \in Slot : j < i => deliveries[j] > 0
  /\ status' = [status EXCEPT ![i] = "out"]
  /\ deliveries' = [deliveries EXCEPT ![i] = @ + 1]
  /\ hand' = [hand EXCEPT ![w] = i]
  /\ count' = [count EXCEPT ![w] = deliveries'[i]]
  /\ Goes(w, "received")
  /\ UNCHANGED <<content, db, faults>>

(* The ack wait lapses: the answer was lost, or the worker died.           *)
AckWaitLapses(i) ==
  /\ status[i] = "out"
  /\ \A w \in Worker : step[w] # "idle" => hand[w] # i
  /\ Becomes(i, IF Deliverable(i) THEN "ready" ELSE "exhausted")
  /\ UNCHANGED <<content, deliveries, workers, db, faults>>

(* ... or the worker is slow, and is still at it.                          *)
SlowWorker(w) ==
  /\ Fault("slow")
  /\ step[w] # "idle" /\ status[hand[w]] = "out"
  /\ Becomes(hand[w], IF Deliverable(hand[w]) THEN "ready" ELSE "exhausted")
  /\ UNCHANGED <<content, deliveries, workers, db>>

(* The delay of a nak is over. *)
RefusedAgain(i) ==
  /\ status[i] = "refused"
  /\ Becomes(i, IF Deliverable(i) THEN "ready" ELSE "exhausted")
  /\ UNCHANGED <<content, deliveries, workers, db, faults>>

-----------------------------------------------------------------------------
(* handleMessage. *)

(* The message does not match its contract: term. *)
Reject(w) ==
  /\ step[w] = "received" /\ EventOf(w) \in OffContract
  /\ Becomes(hand[w], "termed")
  /\ Goes(w, "idle")
  /\ UNCHANGED <<content, deliveries, hand, count, db, faults>>

(* Defective: the id is looked up first and inserted with the work.        *)
InsertUnlocked(w) ==
  /\ step[w] = "received" /\ EventOf(w) \notin OffContract \cup consumed
  /\ Goes(w, "handling")
  /\ UNCHANGED <<server, hand, count, db, faults>>

(* The INSERT waits for another transaction that inserted the same id.     *)
Unlocked(w) == \A v \in Worker : step[v] = "handling" => EventOf(v) # EventOf(w)

(* INSERT INTO consumed_events: the handler runs. *)
Insert(w) ==
  /\ step[w] = "received" /\ EventOf(w) \notin OffContract \cup consumed /\ Unlocked(w)
  /\ Goes(w, "handling")
  /\ UNCHANGED <<server, hand, count, db, faults>>

(* The INSERT collides: skipped. *)
Skip(w) ==
  /\ step[w] = "received" /\ EventOf(w) \in consumed \ OffContract
  /\ Goes(w, "committed")
  /\ UNCHANGED <<server, hand, count, db, faults>>

Committed(w) ==
  /\ step[w] = "handling"
  /\ consumed' = consumed \cup {EventOf(w)}
  /\ work' = [work EXCEPT ![EventOf(w)] = @ + 1]

(* The handler is done and the transaction commits.                        *)
Commit(w) ==
  /\ Committed(w)
  /\ Goes(w, "committed")
  /\ UNCHANGED <<server, hand, count, faults>>

(* It commits, and the answer of the database is lost.                     *)
CommitUnanswered(w) ==
  /\ Fault("commit")
  /\ Committed(w)
  /\ Goes(w, "failed")
  /\ UNCHANGED <<server, hand, count>>

(* The handler throws, or the database fails: everything is rolled back.   *)
RollBack(w) ==
  /\ Fault("transaction")
  /\ step[w] \in {"received", "handling"} /\ EventOf(w) \notin OffContract
  /\ Goes(w, "failed")
  /\ UNCHANGED <<server, hand, count, db>>

(* Defective: the message is acknowledged before the transaction.          *)
AckFirst(w) ==
  /\ step[w] \in {"received", "committed"}
  /\ Becomes(hand[w], "acked")
  /\ Goes(w, IF step[w] = "committed" THEN "idle" ELSE "received")
  /\ UNCHANGED <<content, deliveries, hand, count, db, faults>>

(* ack. *)
Ack(w) ==
  /\ step[w] = "committed"
  /\ Becomes(hand[w], "acked")
  /\ Goes(w, "idle")
  /\ UNCHANGED <<content, deliveries, hand, count, db, faults>>

(* Defective: a failure is final. *)
RefuseForGood(w) ==
  /\ step[w] = "failed"
  /\ Becomes(hand[w], "termed")
  /\ Goes(w, "idle")
  /\ UNCHANGED <<content, deliveries, hand, count, db, faults>>

(* nak with a delay, or term at the last delivery. *)
Refuse(w) ==
  /\ step[w] = "failed"
  /\ Becomes(hand[w], IF count[w] >= MaxDeliver THEN "termed" ELSE "refused")
  /\ Goes(w, "idle")
  /\ UNCHANGED <<content, deliveries, hand, count, db, faults>>

(* No answer to a message is confirmed: it may be lost. *)
AnswerLost(w) ==
  /\ Fault("answer")
  /\ \/ step[w] \in {"committed", "failed"}
     \/ step[w] = "received" /\ EventOf(w) \in OffContract
  /\ Goes(w, "idle")
  /\ UNCHANGED <<server, hand, count, db>>

(* The process dies; its open transaction is rolled back.                  *)
Crash(w) ==
  /\ Fault("crash")
  /\ step[w] # "idle"
  /\ Goes(w, "idle")
  /\ UNCHANGED <<server, hand, count, db>>

WorkerStep(w) ==
  \/ Reject(w) \/ Insert(w) \/ Skip(w) \/ Commit(w) \/ Ack(w) \/ Refuse(w)
  \/ \E i \in Slot : Deliver(w, i)

FaultStep(w) ==
  SlowWorker(w) \/ CommitUnanswered(w) \/ RollBack(w) \/ AnswerLost(w) \/ Crash(w)

ConsumerNext ==
  \/ \E w \in Worker : WorkerStep(w) \/ FaultStep(w)
  \/ \E i \in Slot : AckWaitLapses(i) \/ RefusedAgain(i)

Next == ConsumerNext \/ \E e \in Event : Store(e)

Spec == Init /\ [][Next]_vars

(* run() pulls again after every pass, and a lapse and a delay are times.  *)
Fairness ==
  /\ \A w \in Worker : WF_vars(WorkerStep(w))
  /\ \A i \in Slot : WF_vars(AckWaitLapses(i)) /\ WF_vars(RefusedAgain(i))

FairSpec == Spec /\ Fairness

-----------------------------------------------------------------------------
(* Properties. *)

(* "A durable JetStream consumer that runs its handler at most once per    *)
(* event" (consumer.ts:67): its committed work, that is, however often the *)
(* message is delivered, to however many workers at once.                  *)
WorkOnce == \A e \in Event : work[e] <= 1

(* The dedupe record and the work survive together (consumer.ts:71-73,     *)
(* 175-176), and a message is acknowledged only once they have: no crash   *)
(* or lost answer leaves an acknowledged message whose work was not done.  *)
AckedOnlyIfConsumed ==
  \A i \in Slot : status[i] = "acked" => content[i] \in consumed /\ work[content[i]] = 1

(* "Only an event the handler can never accept - one that does not match   *)
(* its contract - is termed" (consumer.ts:75-78).                          *)
TermedOnlyOffContract ==
  \A i \in Slot : status[i] = "termed" => content[i] \in OffContract

(* Redeliveries are enough: when fewer faults happen than a message may be *)
(* delivered, the work of every event that matches its contract is done    *)
(* (maxDeliver, nak and ack wait).                                         *)
HandledDespiteFaults ==
  MaxFaults < MaxDeliver =>
    \A i \in Slot :
      content[i] \notin OffContract \cup {Nothing} ~> content[i] \in consumed

(* The consumer does what EventHandling promises, an event being announced *)
(* when its first message is stored.                                       *)
Promise ==
  INSTANCE EventHandling WITH
    announced <- {e \in Event : \E i \in Slot : content[i] = e}

KeepsPromise == Promise!AbstractSpec

(* All of it: the work of an event is done once, whoever is handed it, and *)
(* no message is acknowledged before.                                      *)
HandledRight == TypeOK /\ WorkOnce /\ AckedOnlyIfConsumed
=============================================================================
