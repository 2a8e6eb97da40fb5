----------------------------- MODULE InboxProofs -----------------------------
(***************************************************************************)
(* Theorems about Inbox: for any workers, events, messages, number of      *)
(* deliveries and faults, an event's work is committed at most once, and   *)
(* the consumer implements EventHandling.                                  *)
(***************************************************************************)
EXTENDS Inbox, TLAPS

(* Where the workers are, and what they and the messages say of the        *)
(* database.  A worker between its INSERT and its commit holds the id's    *)
(* lock; that no two do, and none for an id already committed, is what     *)
(* keeps the work from being done twice.                                   *)
Holding ==
  /\ \A w \in Worker : step[w] = "handling" => EventOf(w) \notin consumed
  /\ \A v, w \in Worker :
       step[v] = "handling" /\ step[w] = "handling" /\ EventOf(v) = EventOf(w) => v = w
  /\ \A w \in Worker : step[w] = "committed" => EventOf(w) \in consumed

Recorded ==
  /\ \A e \in Event : work[e] = IF e \in consumed THEN 1 ELSE 0
  /\ \A i \in Slot : status[i] = "acked" => content[i] \in consumed

IInv == TypeOK /\ Holding /\ Recorded

LEMMA IInit == Init => IInv
  BY InboxAssumption DEF Init, IInv, TypeOK, Holding, Recorded, Slot, Settled

-----------------------------------------------------------------------------
(* TypeOK is inductive. *)

LEMMA TypeStep == TypeOK /\ [Next]_vars => TypeOK'
<1> SUFFICES ASSUME TypeOK, [Next]_vars PROVE TypeOK'
  OBVIOUS
<1> USE InboxAssumption DEF TypeOK, Slot, Settled, server, workers, db, inbox, Goes, Fault, EventOf
<1>1. ASSUME NEW e \in Event, Store(e) PROVE TypeOK'
  <2>1. PICK i \in Slot : content[i] = Nothing /\ content' = [content EXCEPT ![i] = e]
    BY <1>1 DEF Store
  <2>2. \A w \in Worker : step[w] # "idle" => hand[w] # i
    BY <2>1
  <2>3. QED
    BY <1>1, <2>1, <2>2 DEF Store
<1>2. ASSUME NEW i \in Slot, AckWaitLapses(i) \/ RefusedAgain(i) PROVE TypeOK'
  BY <1>2 DEF AckWaitLapses, RefusedAgain, Becomes
<1>3. ASSUME NEW w \in Worker, NEW i \in Slot, Deliver(w, i) PROVE TypeOK'
  <2>1. deliveries' \in [Slot -> 0..MaxDeliver] /\ count' \in [Worker -> 0..MaxDeliver]
    BY <1>3 DEF Deliver, Deliverable
  <2>2. content[i] \in Event
    BY <1>3 DEF Deliver
  <2>3. QED
    BY <1>3, <2>1, <2>2 DEF Deliver
<1>4. ASSUME NEW w \in Worker, Reject(w) \/ Insert(w) \/ Skip(w) \/ Ack(w) \/ Refuse(w)
      PROVE  TypeOK'
  BY ZenonT(60), <1>4 DEF Reject, Insert, Skip, Ack, Refuse, Becomes
<1>5. ASSUME NEW w \in Worker, Commit(w) PROVE TypeOK'
  BY <1>5 DEF Commit, Committed
<1>6. ASSUME NEW w \in Worker, CommitUnanswered(w) PROVE TypeOK'
  BY SMTT(40), <1>6 DEF CommitUnanswered, Committed
<1>7. ASSUME NEW w \in Worker, SlowWorker(w) PROVE TypeOK'
  BY <1>7 DEF SlowWorker, Becomes
<1>8. ASSUME NEW w \in Worker, RollBack(w) \/ AnswerLost(w) \/ Crash(w) PROVE TypeOK'
  <2>1. faults' \in 0..MaxFaults
    BY <1>8 DEF RollBack, AnswerLost, Crash
  <2>2. \/ step' = [step EXCEPT ![w] = "idle"]
        \/ step' = [step EXCEPT ![w] = "failed"] /\ step[w] # "idle"
    BY <1>8 DEF RollBack, AnswerLost, Crash
  <2>3. UNCHANGED <<content, status, deliveries, hand, count, consumed, work>>
    BY <1>8 DEF RollBack, AnswerLost, Crash
  <2>4. QED
    BY <2>1, <2>2, <2>3
<1>9. CASE UNCHANGED vars
  BY <1>9 DEF vars
<1>10. QED
  BY <1>1, <1>2, <1>3, <1>4, <1>5, <1>6, <1>7, <1>8, <1>9
     DEF Next, ConsumerNext, WorkerStep, FaultStep

-----------------------------------------------------------------------------
(* The strengthening is inductive. *)

(* While a step stores a message, no event in hand and no acknowledged     *)
(* message changes.                                                        *)
LEMMA StoreKeeps ==
  ASSUME TypeOK, Recorded, NEW e \in Event, Store(e)
  PROVE  /\ \A w \in Worker : step[w] # "idle" => EventOf(w)' = EventOf(w)
         /\ \A i \in Slot : status[i] = "acked" => content'[i] = content[i]
<1>1. PICK i \in Slot : content[i] = Nothing /\ content' = [content EXCEPT ![i] = e]
  BY DEF Store
<1>2. UNCHANGED <<hand, status, step>>
  BY DEF Store, inbox, workers
<1>3. \A j \in Slot : j # i => content'[j] = content[j]
  BY <1>1 DEF TypeOK
<1>4. \A w \in Worker : step[w] # "idle" => hand[w] \in Slot /\ hand[w] # i
  BY <1>1, InboxAssumption DEF TypeOK
<1>5. status[i] # "acked"
  BY <1>1, InboxAssumption DEF Recorded, TypeOK
<1>6. QED
  BY <1>1, <1>2, <1>3, <1>4, <1>5 DEF EventOf

(* A step that leaves the database and the messages' contents alone, takes *)
(* no worker into its transaction and acknowledges only what is consumed.  *)
LEMMA QuietStep ==
  ASSUME IInv, UNCHANGED <<content, consumed, work>>,
         \A w \in Worker : step'[w] \in {"handling", "committed"} =>
           step'[w] = step[w] /\ hand'[w] = hand[w],
         \A i \in Slot : status'[i] = "acked" => content[i] \in consumed
  PROVE  Holding' /\ Recorded'
  BY DEF IInv, Holding, Recorded, EventOf

LEMMA CommitStep ==
  ASSUME IInv, NEW w \in Worker, Committed(w), UNCHANGED <<server, hand>>,
         NEW s \in {"committed", "failed"}, Goes(w, s)
  PROVE  Holding' /\ Recorded'
<1> USE DEF IInv, TypeOK
<1> DEFINE e == EventOf(w)
<1>1. /\ step[w] = "handling" /\ e \in Event /\ e \notin consumed
      /\ consumed' = consumed \cup {e} /\ work' = [work EXCEPT ![e] = @ + 1]
      /\ step' = [step EXCEPT ![w] = s]
  BY DEF Committed, Holding, EventOf, Goes
<1>2. \A v \in Worker : EventOf(v)' = EventOf(v)
  BY DEF EventOf, server
<1>3. \A v \in Worker : v # w /\ step'[v] = "handling" => EventOf(v) # e
  BY <1>1 DEF Holding
<1>4. Holding'
  BY <1>1, <1>2, <1>3 DEF Holding
<1>5. work[e] = 0
  BY <1>1 DEF Recorded
<1>6. Recorded'
  BY <1>1, <1>5 DEF Recorded, server
<1>7. QED
  BY <1>4, <1>6

LEMMA IStep == IInv /\ [Next]_vars => IInv'
<1> SUFFICES ASSUME IInv, [Next]_vars PROVE IInv'
  OBVIOUS
<1>t. TypeOK /\ TypeOK'
  BY TypeStep DEF IInv
<1> DEFINE Kept == Holding' /\ Recorded'
<1> USE <1>t DEF IInv
<1>1. ASSUME NEW e \in Event, Store(e) PROVE Kept
  <2>1. UNCHANGED <<status, step, consumed, work>>
    BY <1>1 DEF Store, inbox, workers, db
  <2>2. QED
    BY <1>1, <2>1, StoreKeeps DEF Holding, Recorded
<1>2. ASSUME NEW i \in Slot, AckWaitLapses(i) \/ RefusedAgain(i) PROVE Kept
  <2>1. /\ UNCHANGED <<content, consumed, work, step, hand>>
        /\ \A j \in Slot : status'[j] = "acked" => status[j] = "acked"
    BY <1>2 DEF AckWaitLapses, RefusedAgain, Becomes, workers, db, TypeOK, Settled
  <2>2. QED
    BY <2>1, QuietStep DEF Recorded
<1>3. ASSUME NEW w \in Worker, NEW i \in Slot, Deliver(w, i) PROVE Kept
  <2>1. /\ UNCHANGED <<content, consumed, work>>
        /\ \A v \in Worker : step'[v] \in {"handling", "committed"} =>
             step'[v] = step[v] /\ hand'[v] = hand[v]
        /\ \A j \in Slot : status'[j] = "acked" => status[j] = "acked"
    BY <1>3 DEF Deliver, db, Goes, TypeOK
  <2>2. QED
    BY <2>1, QuietStep DEF Recorded
<1>4. ASSUME NEW w \in Worker, Reject(w) \/ Refuse(w) \/ SlowWorker(w) PROVE Kept
  <2>1. /\ UNCHANGED <<content, consumed, work, hand>>
        /\ \A v \in Worker : step'[v] \in {"handling", "committed"} => step'[v] = step[v]
        /\ \A j \in Slot : status'[j] = "acked" => status[j] = "acked"
    BY <1>4 DEF Reject, Refuse, SlowWorker, Becomes, workers, db, Goes, TypeOK, Settled
  <2>2. QED
    BY <2>1, QuietStep DEF Recorded
<1>5. ASSUME NEW w \in Worker, RollBack(w) \/ AnswerLost(w) \/ Crash(w) PROVE Kept
  <2>1. /\ UNCHANGED <<content, consumed, work, hand, status>>
        /\ \A v \in Worker : step'[v] \in {"handling", "committed"} => step'[v] = step[v]
    BY <1>5 DEF RollBack, AnswerLost, Crash, server, db, Goes, TypeOK
  <2>2. QED
    BY <2>1, QuietStep DEF Recorded
<1>6. ASSUME NEW w \in Worker, Ack(w) PROVE Kept
  <2>1. /\ UNCHANGED <<content, consumed, work, hand>> /\ step[w] = "committed"
        /\ \A v \in Worker : step'[v] \in {"handling", "committed"} => step'[v] = step[v]
        /\ \A j \in Slot : status'[j] = "acked" => status[j] = "acked" \/ j = hand[w]
    BY <1>6 DEF Ack, Becomes, db, Goes, TypeOK, Settled
  <2>2. QED
    BY <2>1, QuietStep DEF Recorded, Holding, EventOf
<1>7. ASSUME NEW w \in Worker, Insert(w) PROVE Kept
  <2>1. /\ UNCHANGED <<content, consumed, work, hand, status>>
        /\ EventOf(w) \notin consumed /\ Unlocked(w)
        /\ step' = [step EXCEPT ![w] = "handling"]
    BY <1>7 DEF Insert, server, db, Goes
  <2>2. \A v \in Worker : EventOf(v)' = EventOf(v)
    BY <2>1 DEF EventOf
  <2>3. Holding'
    BY <2>1, <2>2 DEF Holding, Unlocked, TypeOK
  <2>4. QED
    BY <2>1, <2>3 DEF Recorded
<1>8. ASSUME NEW w \in Worker, Skip(w) PROVE Kept
  <2>1. /\ UNCHANGED <<content, consumed, work, hand, status>>
        /\ EventOf(w) \in consumed /\ step' = [step EXCEPT ![w] = "committed"]
    BY <1>8 DEF Skip, server, db, Goes
  <2>2. \A v \in Worker : EventOf(v)' = EventOf(v)
    BY <2>1 DEF EventOf
  <2>3. Holding'
    BY <2>1, <2>2 DEF Holding, TypeOK
  <2>4. QED
    BY <2>1, <2>3 DEF Recorded
<1>9. ASSUME NEW w \in Worker, Commit(w) \/ CommitUnanswered(w) PROVE Kept
  BY <1>9, CommitStep DEF Commit, CommitUnanswered
<1>10. CASE UNCHANGED vars
  <2>1. UNCHANGED <<content, status, step, hand, consumed, work>>
    BY <1>10 DEF vars, server, workers, db
  <2>2. QED
    BY <2>1 DEF Holding, Recorded, EventOf
<1>11. QED
  BY <1>1, <1>2, <1>3, <1>4, <1>5, <1>6, <1>7, <1>8, <1>9, <1>10
     DEF Next, ConsumerNext, WorkerStep, FaultStep

(* Every reachable state is well typed. *)
THEOREM TypeCorrect == Spec => []TypeOK
<1>1. IInv => TypeOK
  BY DEF IInv
<1>2. QED
  BY <1>1, IInit, IStep, PTL DEF Spec

(* The handler's work is committed at most once per event (consumer.ts:67).*)
THEOREM WorkAtMostOnce == Spec => []WorkOnce
<1>1. IInv => WorkOnce
  BY DEF IInv, Recorded, WorkOnce
<1>2. QED
  BY <1>1, IInit, IStep, PTL DEF Spec

(* An acknowledged message's work is committed (consumer.ts:164-170).      *)
THEOREM AckedIsConsumed == Spec => []AckedOnlyIfConsumed
<1>1. IInv => AckedOnlyIfConsumed
  BY DEF IInv, Recorded, TypeOK, AckedOnlyIfConsumed
<1>2. QED
  BY <1>1, IInit, IStep, PTL DEF Spec

-----------------------------------------------------------------------------
(* Refinement. *)

Announced == {e \in Event : \E i \in Slot : content[i] = e}

LEMMA PromiseInit == Init => Promise!AbstractInit
  BY InboxAssumption DEF Init, Promise!AbstractInit

LEMMA PromiseStep ==
  IInv /\ [Next]_vars => [Promise!AbstractNext]_<<Announced, work>>
<1> SUFFICES ASSUME IInv, [Next]_vars,
                    ~(UNCHANGED <<Announced, work>>)
             PROVE  Promise!AbstractNext
  OBVIOUS
<1> USE DEF IInv, TypeOK
<1>1. ASSUME NEW e \in Event, Store(e) PROVE Promise!Announce(e)
  <2>1. PICK i \in Slot : content[i] = Nothing /\ content' = [content EXCEPT ![i] = e]
    BY <1>1 DEF Store
  <2>2. Announced' = Announced \cup {e}
    BY <2>1, InboxAssumption DEF Announced
  <2>3. work' = work
    BY <1>1 DEF Store, inbox, db
  <2>4. QED
    BY <2>2, <2>3 DEF Promise!Announce, Announced
<1>2. ASSUME NEW w \in Worker, Committed(w), UNCHANGED server PROVE Promise!Handle(EventOf(w))
  <2>1. EventOf(w) \in Event /\ EventOf(w) \in Announced
    BY <1>2 DEF Committed, EventOf, Announced
  <2>2. work[EventOf(w)] = 0 /\ work' = [work EXCEPT ![EventOf(w)] = 1]
    <3>1. EventOf(w) \notin consumed
      BY <1>2 DEF Committed, Holding
    <3>2. work[EventOf(w)] = 0
      BY <2>1, <3>1 DEF Recorded
    <3>3. work' = [work EXCEPT ![EventOf(w)] = @ + 1]
      BY <1>2 DEF Committed
    <3>4. QED
      BY <2>1, <3>2, <3>3
  <2>3. Announced' = Announced
    BY <1>2 DEF server, Announced
  <2>4. QED
    BY <2>1, <2>2, <2>3 DEF Promise!Handle, Announced
<1>3. ASSUME NEW w \in Worker, Commit(w) \/ CommitUnanswered(w) PROVE Promise!AbstractNext
  <2>1. EventOf(w) \in Event
    BY <1>3 DEF Commit, CommitUnanswered, Committed, EventOf
  <2>2. QED
    BY <1>2, <1>3, <2>1 DEF Commit, CommitUnanswered, Promise!AbstractNext
<1>4. ASSUME NEW i \in Slot, AckWaitLapses(i) \/ RefusedAgain(i) PROVE FALSE
  BY <1>4 DEF AckWaitLapses, RefusedAgain, db, Announced
<1>5. ASSUME NEW w \in Worker, NEW i \in Slot, Deliver(w, i) PROVE FALSE
  BY <1>5 DEF Deliver, db, Announced
<1>6. ASSUME NEW w \in Worker,
             \/ Reject(w) \/ Insert(w) \/ Skip(w) \/ Ack(w) \/ Refuse(w)
             \/ SlowWorker(w) \/ RollBack(w) \/ AnswerLost(w) \/ Crash(w)
      PROVE  FALSE
  BY <1>6 DEF Reject, Insert, Skip, Ack, Refuse, SlowWorker, RollBack, AnswerLost, Crash,
              server, db, Announced
<1>7. CASE UNCHANGED vars
  BY <1>7 DEF vars, server, db, Announced
<1>8. QED
  BY <1>1, <1>3, <1>4, <1>5, <1>6, <1>7
     DEF Next, ConsumerNext, WorkerStep, FaultStep, Promise!AbstractNext

(* The consumer implements EventHandling: its work for an event is done at *)
(* most once and only for an event on the stream, for every instance.      *)
THEOREM ImplementsEventHandling == Spec => KeepsPromise
<1>1. Spec => []IInv
  BY IInit, IStep, PTL DEF Spec
<1>2. QED
  BY <1>1, PromiseInit, PromiseStep, PTL DEF Spec, KeepsPromise, Promise!AbstractSpec, Announced

(* What the runs check of the consumer on small instances, for all.        *)
THEOREM AlwaysHandledRight == Spec => []HandledRight
BY TypeCorrect, WorkAtMostOnce, AckedIsConsumed, PTL DEF HandledRight
=============================================================================
