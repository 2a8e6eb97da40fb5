----------------------------- MODULE EventsProofs -----------------------------
(***************************************************************************)
(* Theorems about EventDelivery: for any relays, workers, events, bounds   *)
(* and faults, what is taken for sent is accounted for, and the way from a *)
(* producer's commit to a consumer's implements EventHandling.             *)
(*                                                                         *)
(* The consumer's half is InboxProofs, with the stream in place of its     *)
(* messages: a relay's step stores a message there or changes nothing of   *)
(* it.                                                                     *)
(*                                                                         *)
(* Then about the call registry as MCEvents has it, for any replicas and   *)
(* calls: after a loss of Redis, a takeover or both it has every call that *)
(* is up; while a node keeps its owner it shows what was announced, and    *)
(* that is announced in order.                                             *)
(***************************************************************************)
EXTENDS MCEvents, FiniteSetTheorems, TLAPS

P == INSTANCE InboxProofs WITH Event <- Id, content <- Messages, Faults <- ConsumerFaults

(* Nothing of an event is about before its row is.                         *)
About(e) == e \in OnStream \/ e \in late \/ \E r \in Relay : e \in held[r]

Known == \A e \in Id : About(e) => row[e] # "absent"

(* What a relay is about to mark as sent is on the stream.                 *)
Marking == \A r \in Relay, e \in Id : phase[r] = "marking" /\ Current(r, e) => e \in OnStream

(* A message is on the stream once for each lapse of its window, and once  *)
(* more while the window holds.                                            *)
Copies(e) == {i \in DOMAIN stream : stream[i] = e}

Counted ==
  /\ window \subseteq OnStream
  /\ \A e \in Id : Cardinality(Copies(e)) <= IF e \in window THEN 1 + lapsed[e] ELSE lapsed[e]

OutboxInv == TypeOK /\ Known /\ SentIsOnStream /\ Marking /\ Counted

DInv == OutboxInv /\ Len(stream) <= MaxSlot /\ P!IInv

-----------------------------------------------------------------------------
(* The outbox: what each of its steps leaves alone.                        *)

LEMMA OutboxInit == Bounds /\ Init => OutboxInv
<1> SUFFICES ASSUME Bounds, Init PROVE OutboxInv
  OBVIOUS
<1>1. TypeOK
  BY DEF Bounds, Init, TypeOK
<1>2. OnStream = {} /\ \A e \in Id : Copies(e) = {}
  BY DEF Init, OnStream, Copies
<1>3. Cardinality({}) = 0
  BY FS_EmptySet
<1>4. Known /\ SentIsOnStream /\ Marking
  BY <1>2 DEF Init, Known, About, SentIsOnStream, Marking
<1>5. Counted
  <2>1. window = {} /\ \A e \in Id : lapsed[e] = 0 /\ Cardinality(Copies(e)) = 0
    BY <1>2, <1>3 DEF Init
  <2>2. QED
    BY <2>1 DEF Counted
<1>6. QED
  BY <1>1, <1>4, <1>5 DEF OutboxInv

(* The row a relay is at is one only.                                      *)
LEMMA CurrentIsOne ==
  ASSUME TypeOK, Bounds, NEW r \in Relay, NEW e \in Id, NEW f \in Id, Current(r, e), Current(r, f)
  PROVE  e = f
BY DEF Current, Id, Bounds

(* A message that arrives.                                                 *)
LEMMA ArriveStep ==
  ASSUME TypeOK, Counted, NEW e \in Id, Arrive(e)
  PROVE  /\ stream' \in Seq(Id) /\ window' \in SUBSET Id
         /\ OnStream' = OnStream \cup {e}
         /\ Counted'
<1> USE DEF TypeOK
<1>1. CASE e \in window
  <2>1. UNCHANGED <<stream, lapsed>> /\ window' = window
    BY <1>1 DEF Arrive
  <2>2. QED
    BY <1>1, <2>1 DEF OnStream, Counted, Copies
<1>2. CASE e \notin window
  <2>1. stream' = Append(stream, e) /\ window' = window \cup {e} /\ lapsed' = lapsed
    BY <1>2 DEF Arrive
  <2>2. /\ Len(stream) \in Nat /\ DOMAIN stream = 1..Len(stream)
        /\ stream' \in Seq(Id) /\ DOMAIN stream' = 1..(Len(stream) + 1)
        /\ stream'[Len(stream) + 1] = e
        /\ \A i \in DOMAIN stream : stream'[i] = stream[i]
    BY <2>1
  <2>3. DOMAIN stream' = DOMAIN stream \cup {Len(stream) + 1} /\ Len(stream) + 1 \notin DOMAIN stream
    BY <2>2
  <2>4. OnStream' = OnStream \cup {e}
    <3>1. \A i \in DOMAIN stream' : i \in DOMAIN stream \/ i = Len(stream) + 1
      BY <2>3
    <3>2. OnStream' \subseteq OnStream \cup {e}
      BY <2>2, <3>1 DEF OnStream
    <3>3. OnStream \subseteq OnStream' /\ e \in OnStream'
      BY <2>2, <2>3 DEF OnStream
    <3>4. QED
      BY <3>2, <3>3
  <2>5. IsFiniteSet(Copies(e)) /\ Cardinality(Copies(e)) \in Nat
    <3>1. Copies(e) \subseteq 1..Len(stream)
      BY <2>2 DEF Copies
    <3>2. IsFiniteSet(1..Len(stream))
      BY <2>2, FS_Interval
    <3>3. IsFiniteSet(Copies(e))
      BY <3>1, <3>2, FS_Subset
    <3>4. QED
      BY <3>3, FS_CardinalityType
  <2>6. Copies(e)' = Copies(e) \cup {Len(stream) + 1} /\ Len(stream) + 1 \notin Copies(e)
    BY <2>2, <2>3 DEF Copies
  <2>7. Cardinality(Copies(e)') = Cardinality(Copies(e)) + 1
    BY <2>5, <2>6, FS_AddElement
  <2>8. \A f \in Id : f # e => Copies(f)' = Copies(f)
    BY <2>2, <2>3 DEF Copies
  <2>9. lapsed[e] \in Nat
    OBVIOUS
  <2>10. Cardinality(Copies(e)) <= lapsed[e]
    BY <1>2 DEF Counted
  <2>11. Cardinality(Copies(e)') <= 1 + lapsed'[e]
    BY <2>1, <2>5, <2>7, <2>9, <2>10
  <2>12. \A f \in Id : Cardinality(Copies(f)') <= IF f \in window' THEN 1 + lapsed'[f] ELSE lapsed'[f]
    <3> SUFFICES ASSUME NEW f \in Id
                 PROVE Cardinality(Copies(f)') <= IF f \in window' THEN 1 + lapsed'[f] ELSE lapsed'[f]
      OBVIOUS
    <3>1. CASE f = e
      BY <2>1, <2>11, <3>1
    <3>2. CASE f # e
      BY <2>1, <2>8, <3>2 DEF Counted
    <3>3. QED
      BY <3>1, <3>2
  <2>13. Counted'
    BY <2>1, <2>4, <2>12 DEF Counted
  <2>14. QED
    BY <2>1, <2>2, <2>4, <2>13
<1>3. QED
  BY <1>1, <1>2
-----------------------------------------------------------------------------
(* TypeOK is inductive.                                                    *)

LEMMA OutboxType == ASSUME TypeOK, Counted, Bounds, Next PROVE TypeOK'
<1> USE DEF TypeOK, Bounds, outbox, relays, bus
<1>1. ASSUME NEW e \in Id, Enqueue(e) \/ BackoffOver(e) \/ LateLost(e) \/ Purge(e) PROVE TypeOK'
  BY <1>1 DEF Enqueue, BackoffOver, LateLost, Purge
<1>2. ASSUME NEW e \in Id, LateArrives(e) PROVE TypeOK'
  <2>1. /\ stream' \in Seq(Id) /\ window' \in SUBSET Id /\ late' \in SUBSET Id
        /\ UNCHANGED <<row, attempts, due, held, read, phase, lapsed>>
    BY <1>2, ArriveStep DEF LateArrives, Arrive
  <2>2. QED
    BY <2>1
<1>3. ASSUME NEW e \in Id, WindowLapses(e) PROVE TypeOK'
  <2>1. lapsed' \in [Id -> 0..MaxLapses] /\ window' \in SUBSET Id
    BY <1>3 DEF WindowLapses
  <2>2. UNCHANGED <<row, attempts, due, held, read, phase, stream, late>>
    BY <1>3 DEF WindowLapses
  <2>3. QED
    BY <2>1, <2>2
<1>4. ASSUME NEW r \in Relay, Claim(r) PROVE TypeOK'
  <2>1. PICK S \in SUBSET Id : (\A e \in S : attempts[e] < MaxAttempts) /\ Select(r, S)
    BY <1>4 DEF Claim, Claimable
  <2>2. read' \in [Relay -> [Id -> 0..MaxAttempts]] /\ held' \in [Relay -> SUBSET Id]
    BY <2>1 DEF Select
  <2>3. \A s \in Relay : \A e \in held'[s] : read'[s][e] < MaxAttempts
    BY <2>1 DEF Select
  <2>4. phase' \in [Relay -> {"idle", "selecting", "sending", "marking", "failing"}]
    BY <2>1 DEF Select
  <2>5. UNCHANGED <<row, attempts, due, stream, window, late, lapsed>>
    BY <2>1 DEF Select
  <2>6. QED
    BY <2>2, <2>3, <2>4, <2>5
<1>5. ASSUME NEW r \in Relay, Selected(r) PROVE TypeOK'
  BY <1>5 DEF Selected
<1>6. ASSUME NEW r \in Relay, NEW e \in Id, Published(r, e) PROVE TypeOK'
  <2>1. /\ stream' \in Seq(Id) /\ window' \in SUBSET Id
        /\ phase' = [phase EXCEPT ![r] = "marking"]
        /\ UNCHANGED <<row, attempts, due, held, read, late, lapsed>>
    BY <1>6, ArriveStep DEF Published, Arrive
  <2>2. QED
    BY <2>1
<1>7. ASSUME NEW r \in Relay, NEW e \in Id, Refused(r, e) \/ Unanswered(r, e) PROVE TypeOK'
  BY <1>7 DEF Refused, Unanswered
<1>8. ASSUME NEW e \in Id, NEW r \in Relay, Current(r, e), Recorded(r, e)
      PROVE attempts' \in [Id -> 0..MaxAttempts] /\ due' \in [Id -> BOOLEAN]
  <2>1. read[r][e] < MaxAttempts /\ read[r][e] \in 0..MaxAttempts
    BY <1>8 DEF Current
  <2>2. read[r][e] + 1 \in 0..MaxAttempts
    BY <2>1
  <2>3. QED
    BY <1>8, <2>2 DEF Recorded
<1>9. ASSUME NEW r \in Relay, NEW e \in Id, NextRow(r, e)
      PROVE  /\ held' \in [Relay -> SUBSET Id] /\ read' \in [Relay -> [Id -> 0..MaxAttempts]]
             /\ \A s \in Relay : \A f \in held'[s] : read'[s][f] < MaxAttempts
             /\ phase' \in [Relay -> {"idle", "selecting", "sending", "marking", "failing"}]
  BY <1>9 DEF NextRow
<1>10. ASSUME NEW r \in Relay, Abandon(r)
       PROVE  /\ held' \in [Relay -> SUBSET Id] /\ read' \in [Relay -> [Id -> 0..MaxAttempts]]
              /\ \A s \in Relay : \A f \in held'[s] : read'[s][f] < MaxAttempts
              /\ phase' \in [Relay -> {"idle", "selecting", "sending", "marking", "failing"}]
  BY <1>10 DEF Abandon
<1>11. ASSUME NEW r \in Relay, NEW e \in Id, MarkSent(r, e) PROVE TypeOK'
  <2>1. row' \in [Id -> {"absent", "unsent", "sent", "purged"}]
    BY <1>11 DEF MarkSent, Marked
  <2>2. NextRow(r, e) /\ UNCHANGED <<attempts, due, stream, window, late, lapsed>>
    BY <1>11 DEF MarkSent
  <2>3. QED
    BY <1>9, <2>1, <2>2
<1>12. ASSUME NEW r \in Relay, NEW e \in Id, MarkFails(r, e) PROVE TypeOK'
  <2>1. row' \in [Id -> {"absent", "unsent", "sent", "purged"}]
    BY <1>12 DEF MarkFails, Marked
  <2>2. /\ phase' = [phase EXCEPT ![r] = "failing"]
        /\ UNCHANGED <<attempts, due, held, read, stream, window, late, lapsed>>
    BY <1>12 DEF MarkFails
  <2>3. QED
    BY <2>1, <2>2
<1>13. ASSUME NEW r \in Relay, NEW e \in Id, RecordFailure(r, e) PROVE TypeOK'
  <2>1. /\ Current(r, e) /\ Recorded(r, e) /\ NextRow(r, e)
        /\ UNCHANGED <<row, stream, window, late, lapsed>>
    BY <1>13 DEF RecordFailure
  <2>2. QED
    BY <1>8, <1>9, <2>1
<1>14. ASSUME NEW r \in Relay, PassFails(r) PROVE TypeOK'
  <2>1. Abandon(r) /\ UNCHANGED <<row, stream, window, late, lapsed>>
    BY <1>14 DEF PassFails
  <2>2. \/ UNCHANGED <<attempts, due>>
        \/ \E e \in Id : Current(r, e) /\ Recorded(r, e)
    BY <1>14 DEF PassFails
  <2>3. attempts' \in [Id -> 0..MaxAttempts] /\ due' \in [Id -> BOOLEAN]
    BY <1>8, <2>2
  <2>4. QED
    BY <1>10, <2>1, <2>3
<1>15. ASSUME NEW r \in Relay, Crash(r) PROVE TypeOK'
  <2>1. Abandon(r) /\ UNCHANGED <<row, attempts, due, stream, window, lapsed>>
    BY <1>15 DEF Crash
  <2>2. late' \in SUBSET Id
    BY <1>15 DEF Crash
  <2>3. QED
    BY <1>10, <2>1, <2>2
<1>16. QED
  BY <1>1, <1>2, <1>3, <1>4, <1>5, <1>6, <1>7, <1>11, <1>12, <1>13, <1>14, <1>15
     DEF Next, RelayStep, PublishStep
-----------------------------------------------------------------------------
(* The strengthening is inductive.                                         *)

(* A step that forgets no message, makes no more of an event than there    *)
(* was, and marks only what is on the stream.                              *)
LEMMA Kept ==
  ASSUME Known, SentIsOnStream, Marking, OnStream \subseteq OnStream',
         \A e \in Id : About(e)' => About(e) \/ row[e] # "absent",
         \A e \in Id : row'[e] = "absent" => row[e] = "absent",
         \A e \in Id : row'[e] \in {"sent", "purged"} =>
           row[e] \in {"sent", "purged"} \/ e \in OnStream,
         \A r \in Relay, e \in Id : phase'[r] = "marking" /\ Current(r, e)' =>
           (phase[r] = "marking" /\ Current(r, e)) \/ e \in OnStream'
  PROVE  Known' /\ SentIsOnStream' /\ Marking'
<1>1. Known'
  BY DEF Known
<1>2. SentIsOnStream'
  BY DEF SentIsOnStream
<1>3. Marking'
  BY DEF Marking
<1>4. QED
  BY <1>1, <1>2, <1>3

(* ... of which most leave the stream and its window alone.                *)
LEMMA BusKept ==
  ASSUME Counted, UNCHANGED <<stream, window, lapsed>>
  PROVE  Counted' /\ OnStream' = OnStream
BY DEF Counted, OnStream, Copies

(* A relay goes on to the next row, or ends its pass.                      *)
LEMMA LessHeld ==
  ASSUME TypeOK, NEW r \in Relay, Abandon(r) \/ \E e \in Id : NextRow(r, e)
  PROVE  /\ \A s \in Relay : held'[s] \subseteq held[s]
         /\ \A s \in Relay : phase'[s] = "marking" => phase[s] = "marking" /\ held'[s] = held[s]
<1>1. PICK less \in SUBSET held[r], s \in {"idle", "sending"} :
        held' = [held EXCEPT ![r] = less] /\ phase' = [phase EXCEPT ![r] = s]
  <2>1. CASE Abandon(r)
    BY <2>1 DEF Abandon
  <2>2. ASSUME NEW e \in Id, NextRow(r, e)
        PROVE  /\ held' = [held EXCEPT ![r] = held[r] \ {e}]
               /\ phase' = [phase EXCEPT ![r] = IF held[r] = {e} THEN "idle" ELSE "sending"]
    BY <2>2 DEF NextRow
  <2>3. QED
    BY <2>1, <2>2
<1>2. QED
  BY <1>1 DEF TypeOK

LEMMA OutboxStep == ASSUME OutboxInv, Bounds, Next PROVE OutboxInv'
<1> DEFINE Same == Known' /\ SentIsOnStream' /\ Marking' /\ Counted'
<1> USE DEF OutboxInv, outbox, relays, bus
<1>t. TypeOK /\ TypeOK'
  BY OutboxType
<1>1. ASSUME NEW e \in Id, Enqueue(e) \/ BackoffOver(e) \/ LateLost(e) \/ Purge(e) PROVE Same
  <2>1. UNCHANGED <<stream, window, lapsed, held, phase>> /\ late' \subseteq late
    BY <1>1 DEF Enqueue, BackoffOver, LateLost, Purge
  <2>2. Counted' /\ OnStream' = OnStream
    BY <2>1, BusKept
  <2>3. \A f \in Id : row'[f] = "absent" => row[f] = "absent"
    BY <1>1, <1>t DEF Enqueue, BackoffOver, LateLost, Purge, TypeOK
  <2>4. \A f \in Id : row'[f] \in {"sent", "purged"} => row[f] \in {"sent", "purged"}
    BY <1>1, <1>t DEF Enqueue, BackoffOver, LateLost, Purge, TypeOK
  <2>5. \A f \in Id : About(f)' => About(f)
    BY <2>1, <2>2 DEF About
  <2>6. \A r \in Relay, f \in Id : Current(r, f)' = Current(r, f)
    BY <2>1 DEF Current
  <2>7. QED
    BY <2>1, <2>2, <2>3, <2>4, <2>5, <2>6, Kept
<1>2. ASSUME NEW e \in Id, Arrive(e), UNCHANGED <<row, held>>, late' \subseteq late,
             row[e] # "absent",
             \A r \in Relay : phase'[r] = phase[r] \/ \A f \in Id : Current(r, f) => f = e
      PROVE Same
  <2>1. Counted' /\ OnStream' = OnStream \cup {e}
    BY <1>2, <1>t, ArriveStep
  <2>2. \A f \in Id : About(f)' => About(f) \/ f = e
    BY <1>2, <2>1 DEF About
  <2>3. \A r \in Relay, f \in Id : Current(r, f)' = Current(r, f)
    BY <1>2 DEF Current
  <2>4. \A r \in Relay, f \in Id : phase'[r] = "marking" /\ Current(r, f)' =>
          (phase[r] = "marking" /\ Current(r, f)) \/ f \in OnStream'
    BY <1>2, <2>1, <2>3
  <2>5. QED
    BY <1>2, <2>1, <2>2, <2>4, Kept
<1>3. ASSUME NEW e \in Id, LateArrives(e) PROVE Same
  <2>1. Arrive(e) /\ UNCHANGED <<row, held, phase>> /\ late' \subseteq late /\ About(e)
    BY <1>3 DEF LateArrives, About
  <2>2. row[e] # "absent"
    BY <2>1 DEF Known
  <2>3. QED
    BY <1>2, <2>1, <2>2
<1>4. ASSUME NEW r \in Relay, NEW e \in Id, Published(r, e) PROVE Same
  <2>1. Arrive(e) /\ UNCHANGED <<row, held, late>> /\ Current(r, e)
        /\ phase' = [phase EXCEPT ![r] = "marking"]
    BY <1>4 DEF Published
  <2>2. row[e] # "absent"
    BY <2>1 DEF Known, About, Current
  <2>3. \A f \in Id : Current(r, f) => f = e
    BY <2>1, <1>t, CurrentIsOne
  <2>4. \A s \in Relay : s # r => phase'[s] = phase[s]
    BY <2>1, <1>t DEF TypeOK
  <2>5. QED
    BY <1>2, <2>1, <2>2, <2>3, <2>4
<1>5. ASSUME NEW e \in Id, WindowLapses(e) PROVE Same
  <2>1. /\ UNCHANGED <<row, held, phase, stream, late>> /\ e \in window
        /\ window' = window \ {e} /\ lapsed' = [lapsed EXCEPT ![e] = @ + 1]
    BY <1>5 DEF WindowLapses
  <2>2. OnStream' = OnStream /\ \A f \in Id : Copies(f)' = Copies(f)
    BY <2>1 DEF OnStream, Copies
  <2>3. window' \subseteq OnStream'
    BY <2>1, <2>2 DEF Counted
  <2>4. ASSUME NEW f \in Id
        PROVE  Cardinality(Copies(f)') <= IF f \in window' THEN 1 + lapsed'[f] ELSE lapsed'[f]
    <3>1. CASE f = e
      <4>1. lapsed'[e] = lapsed[e] + 1 /\ lapsed[e] \in Nat /\ e \notin window'
        BY <2>1, <1>t DEF TypeOK
      <4>2. Cardinality(Copies(e)) <= 1 + lapsed[e]
        BY <2>1 DEF Counted
      <4>3. 1 + lapsed[e] = lapsed'[e]
        BY <4>1
      <4>4. QED
        BY <2>2, <3>1, <4>1, <4>2, <4>3
    <3>2. CASE f # e
      BY <2>1, <2>2, <3>2, <1>t DEF Counted, TypeOK
    <3>3. QED
      BY <3>1, <3>2
  <2>5. Counted'
    BY <2>3, <2>4 DEF Counted
  <2>6. \A f \in Id : About(f)' => About(f)
    BY <2>1, <2>2 DEF About
  <2>7. \A r \in Relay, f \in Id : Current(r, f)' = Current(r, f)
    BY <2>1 DEF Current
  <2>8. QED
    BY <2>1, <2>2, <2>5, <2>6, <2>7, Kept
<1>6. ASSUME NEW r \in Relay, Claim(r) PROVE Same
  <2>1. PICK S \in SUBSET Id : (\A e \in S : row[e] = "unsent") /\ Select(r, S)
    BY <1>6 DEF Claim, Claimable
  <2>2. UNCHANGED <<row, stream, window, late, lapsed>>
    BY <2>1 DEF Select
  <2>3. Counted' /\ OnStream' = OnStream
    BY <2>2, BusKept
  <2>4. held'[r] = S /\ phase'[r] = "selecting"
        /\ \A s \in Relay : s # r => held'[s] = held[s] /\ phase'[s] = phase[s]
    BY <2>1, <1>t DEF Select, TypeOK
  <2>5. \A f \in Id : About(f)' => About(f) \/ row[f] # "absent"
    BY <2>1, <2>2, <2>3, <2>4 DEF About
  <2>6. \A s \in Relay, f \in Id : phase'[s] = "marking" /\ Current(s, f)' =>
          phase[s] = "marking" /\ Current(s, f)
    BY <2>4 DEF Current
  <2>7. QED
    BY <2>2, <2>3, <2>5, <2>6, Kept
<1>7. ASSUME NEW r \in Relay, UNCHANGED <<row, held, stream, window, lapsed>>,
             NEW s \in {"sending", "failing"}, phase' = [phase EXCEPT ![r] = s],
             \A f \in Id : f \in late' => About(f)
      PROVE  Same
  <2>1. Counted' /\ OnStream' = OnStream
    BY <1>7, BusKept
  <2>2. \A f \in Id : About(f)' => About(f)
    BY <1>7, <2>1 DEF About
  <2>3. \A q \in Relay, f \in Id : phase'[q] = "marking" /\ Current(q, f)' =>
          phase[q] = "marking" /\ Current(q, f)
    BY <1>7, <1>t DEF Current, TypeOK
  <2>4. QED
    BY <1>7, <2>1, <2>2, <2>3, Kept
<1>8. ASSUME NEW r \in Relay, Selected(r) PROVE Same
  BY <1>7, <1>8 DEF Selected, About
<1>9. ASSUME NEW r \in Relay, NEW e \in Id, Refused(r, e) \/ Unanswered(r, e) PROVE Same
  <2>1. /\ UNCHANGED <<row, held, stream, window, lapsed>>
        /\ phase' = [phase EXCEPT ![r] = "failing"]
        /\ late' \subseteq late \cup {e} /\ e \in held[r]
    BY <1>9 DEF Refused, Unanswered, Current
  <2>2. \A f \in Id : f \in late' => About(f)
    BY <2>1 DEF About
  <2>3. QED
    BY <1>7, <2>1, <2>2
<1>10. ASSUME NEW r \in Relay, NEW e \in Id, phase[r] = "marking", Current(r, e),
              row' \in {row, Marked(e)}
       PROVE  /\ \A f \in Id : row'[f] = "absent" => row[f] = "absent"
              /\ \A f \in Id : row'[f] \in {"sent", "purged"} =>
                   row[f] \in {"sent", "purged"} \/ f \in OnStream
  BY <1>10, <1>t DEF Marking, Marked, TypeOK
<1>11. ASSUME NEW r \in Relay, NEW e \in Id, MarkFails(r, e) PROVE Same
  <2>1. /\ UNCHANGED <<held, stream, window, late, lapsed>>
        /\ phase' = [phase EXCEPT ![r] = "failing"]
    BY <1>11 DEF MarkFails
  <2>2. Counted' /\ OnStream' = OnStream
    BY <2>1, BusKept
  <2>3. \A f \in Id : About(f)' => About(f)
    BY <2>1, <2>2 DEF About
  <2>4. \A q \in Relay, f \in Id : phase'[q] = "marking" /\ Current(q, f)' =>
          phase[q] = "marking" /\ Current(q, f)
    BY <2>1, <1>t DEF Current, TypeOK
  <2>5. QED
    BY <1>10, <1>11, <2>2, <2>3, <2>4, Kept DEF MarkFails
<1>12. ASSUME NEW r \in Relay, Abandon(r) \/ \E e \in Id : NextRow(r, e),
              UNCHANGED <<stream, window, lapsed>>,
              \A f \in Id : f \in late' => About(f),
              \A f \in Id : row'[f] = "absent" => row[f] = "absent",
              \A f \in Id : row'[f] \in {"sent", "purged"} =>
                row[f] \in {"sent", "purged"} \/ f \in OnStream
       PROVE  Same
  <2>1. Counted' /\ OnStream' = OnStream
    BY <1>12, BusKept
  <2>2. /\ \A s \in Relay : held'[s] \subseteq held[s]
        /\ \A s \in Relay : phase'[s] = "marking" => phase[s] = "marking" /\ held'[s] = held[s]
    BY <1>12, <1>t, LessHeld
  <2>3. \A f \in Id : About(f)' => About(f)
    BY <1>12, <2>1, <2>2 DEF About
  <2>4. \A s \in Relay, f \in Id : phase'[s] = "marking" /\ Current(s, f)' =>
          phase[s] = "marking" /\ Current(s, f)
    BY <2>2 DEF Current
  <2>5. QED
    BY <1>12, <2>1, <2>3, <2>4, Kept
<1>13. ASSUME NEW r \in Relay, NEW e \in Id, MarkSent(r, e) PROVE Same
  <2>1. /\ phase[r] = "marking" /\ Current(r, e) /\ row' = Marked(e) /\ NextRow(r, e)
        /\ UNCHANGED <<stream, window, late, lapsed>>
    BY <1>13 DEF MarkSent
  <2>2. \A f \in Id : f \in late' => About(f)
    BY <2>1 DEF About
  <2>3. QED
    BY <1>10, <1>12, <2>1, <2>2
<1>14. ASSUME NEW r \in Relay, NEW e \in Id, RecordFailure(r, e) PROVE Same
  <2>1. NextRow(r, e) /\ UNCHANGED <<row, stream, window, late, lapsed>>
    BY <1>14 DEF RecordFailure
  <2>2. QED
    BY <1>12, <2>1 DEF About
<1>15. ASSUME NEW r \in Relay, PassFails(r) PROVE Same
  <2>1. Abandon(r) /\ UNCHANGED <<row, stream, window, late, lapsed>>
    BY <1>15 DEF PassFails
  <2>2. QED
    BY <1>12, <2>1 DEF About
<1>16. ASSUME NEW r \in Relay, Crash(r) PROVE Same
  <2>1. Abandon(r) /\ UNCHANGED <<row, stream, window, lapsed>>
    BY <1>16 DEF Crash
  <2>2. \A f \in Id : f \in late' => About(f)
    BY <1>16 DEF Crash, About, Current
  <2>3. QED
    BY <1>12, <2>1, <2>2
<1>17. Same
  BY <1>1, <1>3, <1>4, <1>5, <1>6, <1>8, <1>9, <1>11, <1>13, <1>14, <1>15, <1>16
     DEF Next, RelayStep, PublishStep
<1>18. QED
  BY <1>t, <1>17
-----------------------------------------------------------------------------
(* The stream as the consumer sees it.                                     *)

LEMMA NothingStored ==
  ASSUME TypeOK, Bounds
  PROVE  /\ Len(stream) \in Nat
         /\ \A i \in 1..MaxSlot : Messages[i] = Nothing <=> Len(stream) < i
         /\ \A i \in 1..MaxSlot : Messages[i] # Nothing => Messages[i] \in OnStream /\ Messages[i] \in Id
<1>1. Len(stream) \in Nat /\ DOMAIN stream = 1..Len(stream) /\ \A i \in 1..Len(stream) : stream[i] \in Id
  BY DEF TypeOK
<1>2. MaxSlot \in Nat /\ Nothing \notin Id
  BY DEF Bounds, Consumer!InboxAssumption
<1>3. QED
  BY <1>1, <1>2 DEF Messages, OnStream

(* A message that arrives is stored for the consumer, unless the stream    *)
(* recognised it.                                                          *)
LEMMA ArriveStores ==
  ASSUME TypeOK, Bounds, NEW e \in Id, Arrive(e), Len(stream') <= MaxSlot,
         UNCHANGED <<status, deliveries, hand, count, step, consumed, work, faults>>
  PROVE  P!Store(e) \/ UNCHANGED Messages
<1>1. CASE e \in window
  BY <1>1 DEF Arrive, Messages
<1>2. CASE e \notin window
  <2> DEFINE i == Len(stream) + 1
  <2>1. stream' = Append(stream, e)
    BY <1>2 DEF Arrive
  <2>2. Len(stream) \in Nat /\ Len(stream') = i /\ MaxSlot \in Nat
    BY <2>1 DEF TypeOK, Bounds, Consumer!InboxAssumption
  <2>3. i \in 1..MaxSlot
    BY <2>2
  <2>4. Messages[i] = Nothing /\ \A j \in 1..MaxSlot : j < i => Messages[j] # Nothing
    BY <2>2, <2>3, NothingStored
  <2>5. \A j \in 1..Len(stream) : stream'[j] = stream[j]
    BY <2>1, <2>2 DEF TypeOK
  <2>6. stream'[i] = e
    BY <2>1, <2>2 DEF TypeOK
  <2>7. Messages' = [Messages EXCEPT ![i] = e]
    <3>1. \A j \in 1..MaxSlot : Messages'[j] = IF j = i THEN e ELSE Messages[j]
      BY <2>2, <2>5, <2>6 DEF Messages
    <3>2. Messages' = [j \in 1..MaxSlot |-> Messages'[j]]
      BY DEF Messages
    <3>3. [Messages EXCEPT ![i] = e] = [j \in 1..MaxSlot |-> IF j = i THEN e ELSE Messages[j]]
      BY DEF Messages
    <3>4. QED
      BY <3>1, <3>2, <3>3
  <2>8. QED
    BY <2>3, <2>4, <2>7 DEF P!Store, P!Slot, P!inbox, P!workers, P!db
<1>3. QED
  BY <1>1, <1>2

(* Every step of a relay or of the bus is one of the consumer's producer.  *)
LEMMA ProduceStores ==
  ASSUME OutboxInv, Bounds, Produce
  PROVE  (\E e \in Id : P!Store(e)) \/ UNCHANGED P!vars
<1>1. Next /\ Len(stream') <= MaxSlot
      /\ UNCHANGED <<status, deliveries, hand, count, step, consumed, work, faults>>
  BY DEF Produce, consumer
<1>2. (\E e \in Id : Arrive(e)) \/ stream' = stream
  BY <1>1 DEF Next, RelayStep, PublishStep, Published, Refused, Unanswered, MarkSent, MarkFails,
     RecordFailure, Claim, Select, Selected, PassFails, Crash, Enqueue, BackoffOver, LateArrives,
     LateLost, WindowLapses, Purge, bus
<1>3. (\E e \in Id : P!Store(e)) \/ UNCHANGED Messages
  BY <1>1, <1>2, ArriveStores DEF OutboxInv, Messages
<1>4. QED
  BY <1>1, <1>3 DEF P!vars, P!server, P!workers, P!db
-----------------------------------------------------------------------------
(* Both ends together.                                                     *)

LEMMA SameConsumer == P!ConsumerNext <=> Consumer!ConsumerNext
BY DEF P!Slot, Consumer!Slot, P!Settled, Consumer!Settled, P!server, Consumer!server,
         P!workers, Consumer!workers, P!db, Consumer!db, P!inbox, Consumer!inbox,
         P!EventOf, Consumer!EventOf, P!Fault, Consumer!Fault, P!Goes, Consumer!Goes,
         P!Deliverable, Consumer!Deliverable, P!Becomes, Consumer!Becomes, P!Deliver,
         Consumer!Deliver, P!AckWaitLapses, Consumer!AckWaitLapses, P!SlowWorker,
         Consumer!SlowWorker, P!RefusedAgain, Consumer!RefusedAgain, P!Reject,
         Consumer!Reject, P!Unlocked, Consumer!Unlocked, P!Insert, Consumer!Insert,
         P!Skip, Consumer!Skip, P!Committed, Consumer!Committed, P!Commit,
         Consumer!Commit, P!CommitUnanswered, Consumer!CommitUnanswered, P!RollBack,
         Consumer!RollBack, P!Ack, Consumer!Ack, P!Refuse, Consumer!Refuse,
         P!AnswerLost, Consumer!AnswerLost, P!Crash, Consumer!Crash, P!WorkerStep,
         Consumer!WorkerStep, P!FaultStep, Consumer!FaultStep, P!ConsumerNext,
         Consumer!ConsumerNext

LEMMA SameAssumption == Bounds => P!InboxAssumption
BY DEF Bounds, P!InboxAssumption, Consumer!InboxAssumption

(* A step of the pipeline is one of the consumer and its producer.         *)
LEMMA ConsumerSteps ==
  ASSUME OutboxInv, Bounds, [Produce \/ Consume]_allVars
  PROVE  [P!Next]_(P!vars)
<1>1. CASE Produce
  BY <1>1, ProduceStores DEF P!Next
<1>2. CASE Consume
  BY <1>2, SameConsumer DEF Consume, P!Next
<1>3. CASE UNCHANGED allVars
  <2>1. UNCHANGED <<stream, status, deliveries, hand, count, step, consumed, work, faults>>
    BY <1>3 DEF allVars, vars, bus, consumer
  <2>2. QED
    BY <2>1 DEF P!vars, P!server, P!workers, P!db, Messages
<1>4. QED
  BY <1>1, <1>2, <1>3

LEMMA DInit == Bounds /\ DeliveryInit => DInv
<1> SUFFICES ASSUME Bounds, DeliveryInit PROVE DInv
  OBVIOUS
<1>1. OutboxInv
  BY OutboxInit DEF DeliveryInit
<1>2. Len(stream) <= MaxSlot
  BY DEF DeliveryInit, Init, Bounds, Consumer!InboxAssumption
<1>3. P!Init
  BY DEF DeliveryInit, Consumer!Init, P!Init, Consumer!Slot, P!Slot
<1>4. P!IInv
  BY <1>3, SameAssumption, P!IInit
<1>5. QED
  BY <1>1, <1>2, <1>4 DEF DInv

LEMMA DStep == Bounds /\ DInv /\ [Produce \/ Consume]_allVars => DInv'
<1> SUFFICES ASSUME Bounds, DInv, [Produce \/ Consume]_allVars PROVE DInv'
  OBVIOUS
<1>1. P!IInv'
  BY ConsumerSteps, SameAssumption, P!IStep DEF DInv
<1>2. CASE Produce
  BY <1>1, <1>2, OutboxStep DEF Produce, DInv
<1>3. CASE UNCHANGED vars
  <2>1. UNCHANGED <<row, attempts, due, held, read, phase, stream, window, late, lapsed>>
    BY <1>3 DEF vars, outbox, relays, bus
  <2>2. OutboxInv'
    BY <2>1 DEF DInv, OutboxInv, TypeOK, Known, About, OnStream, SentIsOnStream, Marking, Current,
       Counted, Copies
  <2>3. QED
    BY <1>1, <2>1, <2>2 DEF DInv
<1>4. QED
  BY <1>2, <1>3 DEF Consume, allVars

(* What a reachable state keeps: of the outbox (outbox.ts:82-85,           *)
(* relay.ts:76-84), every row sent or purged is on the stream, and the     *)
(* stream has no more copies of it than its window has lapsed, and one; of *)
(* both ends, a purged event was handled or has a message the consumer has *)
(* not acknowledged.                                                       *)
THEOREM SentAreAccountedForHolds == Bounds /\ DeliverySpec => []SentAreAccountedFor
<1> SUFFICES ASSUME Bounds PROVE DeliverySpec => []SentAreAccountedFor
  OBVIOUS
<1>1. ASSUME DInv PROVE SentAreAccountedFor
  <2> USE DEF DInv, OutboxInv
  <2>1. OnStreamOnce
    <3> SUFFICES ASSUME NEW e \in Id PROVE Cardinality(Copies(e)) <= 1 + lapsed[e]
      BY DEF OnStreamOnce, Copies
    <3>1. lapsed[e] \in Nat
      BY <1>1, Bounds DEF TypeOK, Bounds
    <3>2. Cardinality(Copies(e)) <= 1 + lapsed[e] \/ Cardinality(Copies(e)) <= lapsed[e]
      BY <1>1 DEF Counted
    <3>3. Cardinality(Copies(e)) \in Nat
      <4>1. DOMAIN stream = 1..Len(stream) /\ Len(stream) \in Nat /\ Copies(e) \subseteq DOMAIN stream
        BY <1>1 DEF TypeOK, Copies
      <4>2. IsFiniteSet(DOMAIN stream)
        BY <4>1, FS_Interval
      <4>3. IsFiniteSet(Copies(e))
        BY <4>1, <4>2, FS_Subset
      <4>4. QED
        BY <4>3, FS_CardinalityType
    <3>4. QED
      BY <3>1, <3>2, <3>3
  <2>2. PurgedIsAccountedFor
    <3> SUFFICES ASSUME NEW e \in Id, row[e] = "purged", e \notin consumed
                 PROVE \E i \in DOMAIN stream : stream[i] = e /\ status[i] # "acked"
      BY DEF PurgedIsAccountedFor
    <3>1. PICK i \in DOMAIN stream : stream[i] = e
      BY <1>1 DEF SentIsOnStream, OnStream
    <3>2. i \in 1..MaxSlot /\ i <= Len(stream)
      BY <1>1, <3>1 DEF TypeOK, Bounds, Consumer!InboxAssumption
    <3>3. Messages[i] = e
      BY <3>1, <3>2 DEF Messages
    <3>4. status[i] # "acked"
      BY <1>1, <3>2, <3>3 DEF P!IInv, P!Recorded, P!Slot
    <3>5. QED
      BY <3>1, <3>4
  <2>3. QED
    BY <1>1, <2>1, <2>2 DEF SentAreAccountedFor
<1>2. DeliveryInit => DInv
  BY DInit
<1>3. DInv /\ [Produce \/ Consume]_allVars => DInv'
  BY DStep
<1>4. QED
  BY <1>1, <1>2, <1>3, PTL DEF DeliverySpec
-----------------------------------------------------------------------------
(* Refinement.                                                             *)

Announced == {e \in Id : row[e] # "absent"}

(* A committed write is announced; every other step of the outbox leaves   *)
(* what is announced as it is.                                             *)
LEMMA ProduceAnnounces ==
  ASSUME TypeOK, Next
  PROVE  Announced' = Announced \/ \E e \in Id : Announced' = Announced \cup {e}
<1> USE DEF TypeOK, Announced
<1>1. ASSUME NEW e \in Id, Enqueue(e) PROVE Announced' = Announced \cup {e}
  BY <1>1 DEF Enqueue
<1>2. ASSUME NEW e \in Id, Purge(e) PROVE Announced' = Announced
  BY <1>2 DEF Purge
<1>3. ASSUME NEW r \in Relay, NEW e \in Id, MarkSent(r, e) \/ MarkFails(r, e)
      PROVE  Announced' = Announced
  BY <1>3 DEF MarkSent, MarkFails, Marked
<1>4. ASSUME row' = row PROVE Announced' = Announced
  BY <1>4
<1>5. QED
  BY <1>1, <1>2, <1>3, <1>4
     DEF Next, RelayStep, PublishStep, Published, Refused, Unanswered, RecordFailure, Claim, Select,
         Selected, PassFails, Crash, BackoffOver, LateArrives, LateLost, WindowLapses, outbox

(* What the consumer handles was announced: it is on the stream.           *)
LEMMA ConsumeHandles ==
  ASSUME DInv, Bounds, P!ConsumerNext, UNCHANGED <<row, stream>>
  PROVE  Promise!AbstractNext \/ UNCHANGED <<Announced, work>>
<1> USE DEF DInv, OutboxInv
<1>1. [P!Promise!AbstractNext]_<<P!Announced, work>>
  BY SameAssumption, P!PromiseStep DEF P!Next
<1>2. UNCHANGED <<Announced, Messages, P!Announced>>
  BY DEF Announced, Messages, P!Announced
<1>3. ASSUME NEW e \in Id, P!Promise!Handle(e) PROVE Promise!Handle(e)
  <2>1. PICK i \in 1..MaxSlot : Messages[i] = e
    BY <1>3 DEF P!Promise!Handle, P!Announced, P!Slot
  <2>2. e \in OnStream
    <3>1. Nothing \notin Id
      BY DEF Bounds, Consumer!InboxAssumption
    <3>2. QED
      BY <2>1, <3>1, NothingStored
  <2>3. e \in Announced
    BY <2>2 DEF Known, About, Announced
  <2>4. QED
    BY <1>2, <1>3, <2>3 DEF P!Promise!Handle, Promise!Handle, Announced
<1>4. ASSUME NEW e \in Id, P!Promise!Announce(e) PROVE UNCHANGED <<Announced, work>>
  BY <1>2, <1>4 DEF P!Promise!Announce
<1>5. QED
  BY <1>1, <1>2, <1>3, <1>4 DEF P!Promise!AbstractNext, Promise!AbstractNext

LEMMA PromiseInit == Bounds /\ DeliveryInit => Promise!AbstractInit
BY DEF DeliveryInit, Init, Consumer!Init, Promise!AbstractInit

LEMMA PromiseStep ==
  Bounds /\ DInv /\ [Produce \/ Consume]_allVars => [Promise!AbstractNext]_<<Announced, work>>
<1> SUFFICES ASSUME Bounds, DInv, [Produce \/ Consume]_allVars
             PROVE  Promise!AbstractNext \/ UNCHANGED <<Announced, work>>
  OBVIOUS
<1>1. CASE Produce
  <2>1. Next /\ TypeOK /\ work' = work
    BY <1>1 DEF Produce, consumer, DInv, OutboxInv
  <2>2. QED
    BY <2>1, ProduceAnnounces DEF Promise!AbstractNext, Promise!Announce, Announced
<1>2. CASE Consume
  <2>1. P!ConsumerNext /\ UNCHANGED <<row, stream>>
    BY <1>2, SameConsumer DEF Consume, vars, outbox, bus
  <2>2. QED
    BY <2>1, ConsumeHandles
<1>3. CASE UNCHANGED allVars
  BY <1>3 DEF allVars, vars, outbox, consumer, Announced
<1>4. QED
  BY <1>1, <1>2, <1>3

(* From the producer's transaction to the consumer's (outbox.ts:82-85,     *)
(* consumer.ts:67): whatever is lost, repeated, refused or crashes on the  *)
(* way, an event's work is done at most once, and only when it was         *)
(* announced with a committed write.                                       *)
THEOREM PipelineImplementsEventHandling == Bounds /\ DeliverySpec => PipelineKeepsPromise
<1> SUFFICES ASSUME Bounds PROVE DeliverySpec => PipelineKeepsPromise
  OBVIOUS
<1>1. DeliveryInit => DInv /\ Promise!AbstractInit
  BY DInit, PromiseInit
<1>2. DInv /\ [Produce \/ Consume]_allVars => DInv'
  BY DStep
<1>3. DInv /\ [Produce \/ Consume]_allVars => [Promise!AbstractNext]_<<Announced, work>>
  BY PromiseStep
<1>4. QED
  BY <1>1, <1>2, <1>3, PTL DEF DeliverySpec, PipelineKeepsPromise, Promise!AbstractSpec, Announced
-----------------------------------------------------------------------------
(* The call registry: CallEvents as MCEvents has it, one node whose        *)
(* registry is rebuilt and one that keeps its owner.                       *)

(* The two processes of a replica, and what a call's channel and hash say. *)
Handling(r)   == <<r, "events">>
Rebuilding(r) == <<r, "rebuild">>

Up(c)    == channel[c] \in {"ringing", "answered", "bridged"}
Begun(c) == channel[c] # "none"
Has(c)   == hash[c] # Steady!Absent

Sync  == Steady!Sync
Pause == Steady!Idle

Looks == {"rows", "create", "update"}
Reads == Looks \cup {"ending", "endApply"}
Steps == {"identify", "peer", "identifyPeer", "write", "apply"}

(* The tasks of a queue, and of a replica's.                               *)
TasksOf(s) == {s[i] : i \in 1..Len(s)}
Wait(r)    == TasksOf(queue[r])

(* A node that stays up, and whose calls do.                               *)
CallShape ==
  /\ hash \in [Call -> (SUBSET Steady!Field) \cup {Steady!Absent}] /\ index \subseteq Call
  /\ nodeUp = TRUE /\ epoch \in BOOLEAN
  /\ channel \in [Call -> {"none", "ringing", "answered", "bridged", "gone"}]
  /\ owner \in Replica \cup {NoOne}
  /\ queue \in [Replica -> Seq(Steady!Task)]
  /\ job \in [Steady!Process -> Steady!Job]
  /\ announced \in [Call -> SUBSET (Steady!Kind \cup {"identified", "lost"})]
  /\ slips \in 0..2

(* One replica has tasks, and the owner is it, if any.                     *)
OneQueue ==
  \A r, s \in Replica : queue[r] # <<>> /\ (queue[s] # <<>> \/ owner = s) => r = s

(* A list of the node is read for the sync in hand, or by a rebuild.       *)
Hands ==
  \A r \in Replica :
    /\ queue[r] = <<>> => job[Handling(r)].at = "idle"
    /\ job[Handling(r)].at \in Reads => Head(queue[r]) = Sync
    /\ job[Handling(r)].at \in Steps => Head(queue[r]) # Sync
    /\ job[Rebuilding(r)].at \in Looks \/ job[Rebuilding(r)] = Pause

TasksRight ==
  \A r \in Replica : \A t \in Wait(r) :
    /\ t # Sync => Begun(t.call)
    /\ t.kind = "hungup" => channel[t.call] = "gone"

RegistryRight == index = {c \in Call : Has(c)} /\ \A c \in Call : Has(c) => Begun(c)

(* A call that is up is in the list, or started after it.                  *)
ListRight(j) ==
  /\ j.at \in Reads => \A c \in Call : /\ ~Begun(c) => c \in j.fresh
                                       /\ Up(c) => c \in j.fresh \/ c \in j.live
                                       /\ c \in j.rows => Begun(c)
  /\ j.at \in Looks => j.rows \cap j.fresh = {}
  /\ j.at \in {"create", "update"} => j.call \in Call /\ Begun(j.call) /\ j.call \notin j.fresh

(* What a sync is about to end is over, unless it started after the node   *)
(* was asked and is registered.                                            *)
EndsRight(j) ==
  /\ j.at \in {"ending", "endApply"} => \A c \in j.rows : Up(c) => c \in j.fresh /\ Has(c)
  /\ j.at = "endApply" => j.call \in Call /\ Begun(j.call) /\ ~Up(j.call)

JobsRight ==
  /\ \A p \in Steady!Process : ListRight(job[p])
  /\ \A r \in Replica : EndsRight(job[Handling(r)])

(* Only a rebuild registers a call that started after a sync asked, and    *)
(* then both faults have been.                                             *)
FreshIsLost ==
  \A r \in Replica : job[Handling(r)].at \in Reads =>
    \A c \in Call : c \in job[Handling(r)].fresh /\ Has(c) => slips = 2

Lost == ~epoch \/ \E r \in Replica : job[Rebuilding(r)] # Pause
Away == owner = NoOne \/ \E r \in Replica : Sync \in Wait(r)

FaultsCounted == (Lost \/ Away => slips >= 1) /\ (Lost /\ Away => slips = 2)

(* A call that is up and that the registry lacks will be looked at.        *)
SyncDue(r) ==
  \/ queue[r] # <<>> /\ Sync \in TasksOf(Tail(queue[r]))
  \/ Sync \in Wait(r) /\ job[Handling(r)].at = "idle"
CreationDue(r, c) == \E t \in Wait(r) : t.kind = "created" /\ t.call = c
InHand(j, c) == (j.at \in Looks /\ c \in j.rows) \/ (j.at = "create" /\ j.call = c)

Awaited(c) ==
  \/ ~epoch \/ owner = NoOne
  \/ \E r \in Replica : SyncDue(r) \/ CreationDue(r, c)
  \/ \E p \in Steady!Process : InHand(job[p], c)

NoneForgotten == \A c \in Call : Up(c) => Has(c) \/ Awaited(c)

HungIsGone == \A c \in Call : "hungup" \in announced[c] => channel[c] = "gone"

RebuiltInv ==
  /\ CallShape /\ OneQueue /\ Hands /\ TasksRight /\ RegistryRight /\ JobsRight
  /\ FreshIsLost /\ FaultsCounted /\ NoneForgotten /\ HungIsGone

-----------------------------------------------------------------------------
(* Tasks are added to a queue at its end ...                               *)
LEMMA QueueAdds ==
  ASSUME NEW s \in Seq(Steady!Task), NEW t \in Steady!Task
  PROVE  /\ Append(s, t) \in Seq(Steady!Task) /\ Append(s, t) # <<>>
         /\ TasksOf(Append(s, t)) = TasksOf(s) \cup {t}
         /\ s # <<>> => Head(Append(s, t)) = Head(s) /\ Tail(Append(s, t)) = Append(Tail(s), t)
         /\ s = <<>> => Head(Append(s, t)) = t /\ Tail(Append(s, t)) = <<>>
<1>1. /\ Append(s, t) \in Seq(Steady!Task) /\ Append(s, t) # <<>> /\ Len(Append(s, t)) = Len(s) + 1
      /\ \A i \in 1..Len(s) : Append(s, t)[i] = s[i]
      /\ Append(s, t)[Len(s) + 1] = t /\ Len(s) \in Nat
  OBVIOUS
<1>2. TasksOf(Append(s, t)) = TasksOf(s) \cup {t}
  <2>1. \A i \in 1..(Len(s) + 1) : i \in 1..Len(s) \/ i = Len(s) + 1
    BY <1>1
  <2>2. \A i \in 1..Len(s) : i \in 1..(Len(s) + 1)
    BY <1>1
  <2>3. Len(s) + 1 \in 1..(Len(s) + 1)
    BY <1>1
  <2>4. QED
    BY <1>1, <2>1, <2>2, <2>3 DEF TasksOf
<1>3. s # <<>> => Head(Append(s, t)) = Head(s) /\ Tail(Append(s, t)) = Append(Tail(s), t)
  OBVIOUS
<1>4. s = <<>> => Head(Append(s, t)) = t /\ Tail(Append(s, t)) = <<>>
  OBVIOUS
<1> QED
  BY <1>1, <1>2, <1>3, <1>4

(* ... and taken from its front.                                           *)
LEMMA QueueDrops ==
  ASSUME NEW s \in Seq(Steady!Task), s # <<>>
  PROVE  /\ Tail(s) \in Seq(Steady!Task) /\ Head(s) \in Steady!Task
         /\ TasksOf(s) = {Head(s)} \cup TasksOf(Tail(s))
<1>1. /\ Tail(s) \in Seq(Steady!Task) /\ Len(s) \in Nat \ {0} /\ Len(Tail(s)) = Len(s) - 1
      /\ \A i \in 1..Len(Tail(s)) : Tail(s)[i] = s[i + 1]
      /\ Head(s) = s[1] /\ Head(s) \in Steady!Task
  OBVIOUS
<1>2. TasksOf(s) = {Head(s)} \cup TasksOf(Tail(s))
  <2>1. \A i \in 1..Len(s) : i = 1 \/ (i - 1 \in 1..Len(Tail(s)) /\ s[i] = Tail(s)[i - 1])
    <3> TAKE i \in 1..Len(s)
    <3>1. i # 1 => i - 1 \in 1..Len(Tail(s)) /\ (i - 1) + 1 = i
      BY <1>1
    <3>2. QED
      BY <1>1, <3>1
  <2>2. \A i \in 1..Len(Tail(s)) : i + 1 \in 1..Len(s)
    BY <1>1
  <2>3. 1 \in 1..Len(s)
    BY <1>1
  <2>4. ASSUME NEW i \in 1..Len(s) PROVE s[i] \in {Head(s)} \cup TasksOf(Tail(s))
    BY <1>1, <2>1 DEF TasksOf
  <2>5. ASSUME NEW i \in 1..Len(Tail(s)) PROVE Tail(s)[i] \in TasksOf(s)
    BY <1>1, <2>2 DEF TasksOf
  <2>6. Head(s) \in TasksOf(s)
    BY <1>1, <2>3 DEF TasksOf
  <2>7. QED
    BY <2>4, <2>5, <2>6 DEF TasksOf
<1> QED
  BY <1>1, <1>2

(* An empty queue has none.                                                *)
LEMMA NoTasks == TasksOf(<<>>) = {} /\ <<>> \in Seq(Steady!Task)
<1>1. Len(<<>>) = 0 /\ 1..0 = {}
  OBVIOUS
<1> QED
  BY <1>1 DEF TasksOf

(* The two instances of CallEvents differ in their bounds and faults only. *)
LEMMA Alikes ==
  /\ Rebuilt!Task = Steady!Task /\ Rebuilt!Sync = Sync /\ Rebuilt!Idle = Pause /\ Rebuilt!Job = Steady!Job
  /\ Rebuilt!Process = Steady!Process /\ Rebuilt!Absent = Steady!Absent /\ Rebuilt!Kind = Steady!Kind
  /\ \A r \in Replica : /\ Rebuilt!Events(r) = Handling(r) /\ Rebuilt!Rebuild(r) = Rebuilding(r)
                        /\ Steady!Events(r) = Handling(r) /\ Steady!Rebuild(r) = Rebuilding(r)
BY DEF Rebuilt!Task, Steady!Task, Rebuilt!Sync, Steady!Sync, Sync, Rebuilt!Idle, Steady!Idle, Pause,
       Rebuilt!Job, Steady!Job, Rebuilt!Process, Steady!Process, Rebuilt!Absent, Steady!Absent,
       Rebuilt!Kind, Steady!Kind, Rebuilt!Field, Steady!Field, Handling, Rebuilding,
       Rebuilt!Events, Steady!Events, Rebuilt!Rebuild, Steady!Rebuild

(* What tasks, processes and constants are.                                *)
LEMMA Parts ==
  /\ \A r \in Replica : Handling(r) \in Steady!Process /\ Rebuilding(r) \in Steady!Process
  /\ \A r, s \in Replica : /\ Handling(r) # Rebuilding(s) 
                           /\ (Handling(r) = Handling(s) => r = s) /\ (Rebuilding(r) = Rebuilding(s) => r = s)
  /\ \A p \in Steady!Process : \E r \in Replica : p = Handling(r) \/ p = Rebuilding(r)
  /\ Pause \in Steady!Job /\ Sync \in Steady!Task /\ NoCall \notin Call /\ NoOne \notin Replica
  /\ Pause.at = "idle" /\ Pause.rows = {} /\ Sync.kind = "sync"
  /\ \A t \in Steady!Task : t # Sync => t.kind \in Steady!Kind /\ t.call \in Call /\ t.peer \in Call
  /\ \A t \in Steady!Task : t.kind = "sync" <=> t = Sync
<1>1. NoCall \notin Call /\ NoOne \notin Replica
  BY CallsAssumption DEF Steady!EventsAssumption
<1>2. Pause \in Steady!Job /\ Pause.at = "idle" /\ Pause.rows = {}
  BY DEF Pause, Steady!Idle, Steady!Job, Steady!Field
<1>3. /\ Sync \in Steady!Task /\ Sync.kind = "sync"
      /\ \A t \in Steady!Task : t # Sync => t.kind \in Steady!Kind /\ t.call \in Call /\ t.peer \in Call
      /\ \A t \in Steady!Task : t.kind = "sync" <=> t = Sync
  BY DEF Sync, Steady!Sync, Steady!Task, Steady!Kind
<1>4. \A r \in Replica : Handling(r) \in Steady!Process /\ Rebuilding(r) \in Steady!Process
  BY DEF Handling, Rebuilding, Steady!Process
<1>5. \A p \in Steady!Process : \E r \in Replica : p = Handling(r) \/ p = Rebuilding(r)
  BY DEF Handling, Rebuilding, Steady!Process
<1>6. \A r, s \in Replica : /\ Handling(r) # Rebuilding(s) 
                            /\ (Handling(r) = Handling(s) => r = s) /\ (Rebuilding(r) = Rebuilding(s) => r = s)
  BY DEF Handling, Rebuilding
<1> QED
  BY <1>1, <1>2, <1>3, <1>4, <1>5, <1>6

-----------------------------------------------------------------------------
(* A process moves on, by itself.                                          *)
LEMMA JobMoves ==
  ASSUME CallShape, JobsRight, NEW p \in Steady!Process, NEW j \in Steady!Job,
         job' = [job EXCEPT ![p] = j], channel' = channel,
         \A c \in Call : Up(c) /\ Has(c) => Has(c)',
         ListRight(j), \A r \in Replica : p = Handling(r) => EndsRight(j)'
  PROVE  /\ JobsRight' /\ job' \in [Steady!Process -> Steady!Job] /\ job'[p] = j
         /\ \A q \in Steady!Process : q # p => job'[q] = job[q]
<1>1. /\ job' \in [Steady!Process -> Steady!Job] /\ job'[p] = j
      /\ \A q \in Steady!Process : q # p => job'[q] = job[q]
  BY DEF CallShape
<1>2. ASSUME NEW q \in Steady!Process PROVE ListRight(job[q])'
  <2>1. CASE q = p
    BY <1>1, <2>1 DEF ListRight, Up, Begun
  <2>2. CASE q # p
    <3>1. ListRight(job[q]) /\ job'[q] = job[q]
      BY <1>1, <2>2 DEF JobsRight
    <3>2. QED
      BY <3>1 DEF ListRight, Up, Begun
  <2>3. QED
    BY <2>1, <2>2
<1>3. ASSUME NEW r \in Replica PROVE EndsRight(job[Handling(r)])'
  <2>1. CASE p = Handling(r)
    BY <1>1, <2>1 DEF EndsRight, Up, Begun, Has
  <2>2. CASE p # Handling(r)
    <3>1. EndsRight(job[Handling(r)]) /\ job'[Handling(r)] = job[Handling(r)] /\ job[Handling(r)] \in Steady!Job
      BY <1>1, <2>2, Parts DEF JobsRight, CallShape
    <3>2. job[Handling(r)].rows \subseteq Call
      BY <3>1 DEF Steady!Job
    <3>3. ASSUME job[Handling(r)].at \in {"ending", "endApply"}, NEW c \in job[Handling(r)].rows, Up(c)
          PROVE  c \in job[Handling(r)].fresh /\ Has(c)'
      <4>1. c \in job[Handling(r)].fresh /\ Has(c)
        BY <3>1, <3>3 DEF EndsRight
      <4>2. QED
        BY <3>2, <3>3, <4>1
    <3>4. QED
      BY <3>1, <3>3 DEF EndsRight, Up, Begun
  <2>3. QED
    BY <2>1, <2>2
<1>4. QED
  BY <1>1, <1>2, <1>3 DEF JobsRight

(* The handling of an event goes on: it announces, and may say what a hash *)
(* records, of the hashes there are.                                       *)
LEMMA HandlingGoesOn ==
  ASSUME RebuiltInv, NEW r \in Replica, NEW j \in Steady!Job,
         queue[r] # <<>>, Head(queue[r]) # Sync, j.at \in Steps,
         job' = [job EXCEPT ![Handling(r)] = j],
         hash' \in [Call -> (SUBSET Steady!Field) \cup {Steady!Absent}],
         \A c \in Call : Has(c)' <=> Has(c),
         announced' \in [Call -> SUBSET (Steady!Kind \cup {"identified", "lost"})],
         \A c \in Call : "hungup" \in announced'[c] =>
           "hungup" \in announced[c] \/ (Head(queue[r]).kind = "hungup" /\ c = Head(queue[r]).call),
         UNCHANGED <<nodeUp, channel, owner, queue, epoch, slips, index>>
  PROVE  RebuiltInv'
<1> USE DEF RebuiltInv
<1>0. /\ Handling(r) \in Steady!Process /\ \A s \in Replica : Rebuilding(s) # Handling(r) /\ Rebuilding(s) \in Steady!Process
      /\ \A s \in Replica : Handling(s) \in Steady!Process /\ (s # r => Handling(s) # Handling(r))
  BY Parts
<1>1. Head(queue[r]) \in Wait(r) /\ Wait(r) = {Head(queue[r])} \cup TasksOf(Tail(queue[r]))
  BY QueueDrops DEF CallShape, Wait
<1>2. job[Handling(r)].at \notin Reads
  BY DEF Hands
<1>3. /\ JobsRight' /\ job' \in [Steady!Process -> Steady!Job] /\ job'[Handling(r)] = j
      /\ \A q \in Steady!Process : q # Handling(r) => job'[q] = job[q]
  <2>1. ListRight(j) /\ EndsRight(j)'
    BY DEF ListRight, EndsRight, Steps, Reads, Looks
  <2>2. QED
    BY <1>0, <2>1, JobMoves
<1>4. CallShape'
  BY <1>3 DEF CallShape
<1>5. OneQueue' /\ TasksRight' /\ RegistryRight'
  BY DEF OneQueue, TasksRight, RegistryRight, Wait, Up, Begun, Has
<1>6. Hands'
  BY <1>0, <1>3 DEF Hands, Steps, Reads, Looks
<1>7. FreshIsLost'
  <2>1. ASSUME NEW s \in Replica, job'[Handling(s)].at \in Reads PROVE s # r /\ job'[Handling(s)] = job[Handling(s)]
    BY <1>0, <1>3, <2>1 DEF Steps, Reads, Looks
  <2>2. QED
    BY <2>1 DEF FreshIsLost, Has
<1>8. FaultsCounted'
  <2>1. \A s \in Replica : job'[Rebuilding(s)] = job[Rebuilding(s)]
    BY <1>0, <1>3
  <2>2. QED
    BY <2>1 DEF FaultsCounted, Lost, Away, Wait
<1>9. NoneForgotten'
  <2>1. ASSUME NEW c \in Call, Up(c)', ~Has(c)' PROVE Awaited(c)'
    <3>1. Awaited(c)
      BY <2>1 DEF NoneForgotten, Up
    <3>2. \A s \in Replica : SyncDue(s) => SyncDue(s)'
      <4>1. ASSUME NEW s \in Replica, SyncDue(s) PROVE SyncDue(s)'
        BY <1>0, <1>1, <1>3, <4>1 DEF SyncDue, Wait
      <4>2. QED
        BY <4>1
    <3>3. \A s \in Replica : CreationDue(s, c) => CreationDue(s, c)'
      BY DEF CreationDue, Wait
    <3>4. \A p \in Steady!Process : InHand(job[p], c) => InHand(job'[p], c)
      BY <1>2, <1>3 DEF InHand, Reads, Looks
    <3>5. QED
      BY <3>1, <3>2, <3>3, <3>4 DEF Awaited
  <2>2. QED
    BY <2>1 DEF NoneForgotten
<1>10. HungIsGone'
  <2>1. Head(queue[r]).kind = "hungup" => channel[Head(queue[r]).call] = "gone"
    BY <1>1 DEF TasksRight
  <2>2. QED
    BY <2>1 DEF HungIsGone
<1> QED
  BY <1>3, <1>4, <1>5, <1>6, <1>7, <1>8, <1>9, <1>10

(* Who reads a list for a sync has it at the head of the only queue.       *)
LEMMA ReaderSyncs ==
  ASSUME CallShape, Hands, NEW r \in Replica, job[Handling(r)].at \in Reads
  PROVE  queue[r] # <<>> /\ Head(queue[r]) = Sync /\ Sync \in Wait(r) /\ Away
<1>1. queue[r] # <<>> /\ Head(queue[r]) = Sync
  BY DEF Hands, Reads, Looks
<1>2. Sync \in Wait(r)
  BY <1>1, QueueDrops DEF CallShape, Wait
<1> QED
  BY <1>1, <1>2 DEF Away

(* An event is handled.                                                    *)
LEMMA HandlingEnds ==
  ASSUME RebuiltInv, NEW r \in Replica,
         queue[r] # <<>>, Head(queue[r]) # Sync,
         queue' = [queue EXCEPT ![r] = Tail(queue[r])],
         job' = [job EXCEPT ![Handling(r)] = Pause],
         hash' \in [Call -> (SUBSET Steady!Field) \cup {Steady!Absent}],
         index' = {c \in Call : Has(c)'},
         \A c \in Call : Has(c)' => Has(c) \/ c = Head(queue[r]).call,
         \A c \in Call : Has(c) /\ Up(c) => Has(c)',
         \A c \in Call : Head(queue[r]).kind = "created" /\ c = Head(queue[r]).call => Has(c)',
         UNCHANGED <<nodeUp, channel, owner, epoch, slips, announced>>
  PROVE  RebuiltInv'
<1> USE DEF RebuiltInv
<1>0. /\ Handling(r) \in Steady!Process /\ \A s \in Replica : Rebuilding(s) # Handling(r) /\ Rebuilding(s) \in Steady!Process
      /\ \A s \in Replica : Handling(s) \in Steady!Process /\ (s # r => Handling(s) # Handling(r))
      /\ Pause \in Steady!Job /\ Pause.at = "idle"
  BY Parts
<1>1. /\ Head(queue[r]) \in Wait(r) /\ Wait(r) = {Head(queue[r])} \cup TasksOf(Tail(queue[r]))
      /\ Tail(queue[r]) \in Seq(Steady!Task)
  BY QueueDrops DEF CallShape, Wait
<1>2. /\ queue'[r] = Tail(queue[r]) /\ \A s \in Replica : s # r => queue'[s] = queue[s]
      /\ queue' \in [Replica -> Seq(Steady!Task)]
      /\ \A s \in Replica : Wait(s)' \subseteq Wait(s)
      /\ Wait(r) = {Head(queue[r])} \cup Wait(r)'
  BY <1>1 DEF CallShape, Wait
<1>3. /\ JobsRight' /\ job' \in [Steady!Process -> Steady!Job] /\ job'[Handling(r)] = Pause
      /\ \A q \in Steady!Process : q # Handling(r) => job'[q] = job[q]
  <2>1. ListRight(Pause) /\ EndsRight(Pause)'
    BY <1>0 DEF ListRight, EndsRight, Reads, Looks
  <2>2. QED
    BY <1>0, <2>1, JobMoves
<1>4. CallShape'
  BY <1>2, <1>3 DEF CallShape
<1>5. OneQueue'
  <2>1. \A s \in Replica : queue'[s] # <<>> => queue[s] # <<>>
    BY <1>2
  <2>2. QED
    BY <2>1 DEF OneQueue
<1>6. TasksRight'
  BY <1>2 DEF TasksRight, Begun
<1>7. RegistryRight'
  <2>1. Begun(Head(queue[r]).call)
    BY <1>1 DEF TasksRight
  <2>2. QED
    BY <2>1 DEF RegistryRight, Begun
<1>8. Hands'
  BY <1>0, <1>2, <1>3 DEF Hands, Steps, Reads, Looks
<1>9. FreshIsLost'
  <2>1. ASSUME NEW s \in Replica, job'[Handling(s)].at \in Reads PROVE FALSE
    <3>1. s # r /\ job'[Handling(s)] = job[Handling(s)]
      BY <1>0, <1>3, <2>1 DEF Reads, Looks
    <3>2. queue[s] # <<>>
      BY <2>1, <3>1, ReaderSyncs
    <3>3. QED
      BY <3>1, <3>2 DEF OneQueue
  <2>2. QED
    BY <2>1 DEF FreshIsLost
<1>10. FaultsCounted'
  <2>1. \A s \in Replica : job'[Rebuilding(s)] = job[Rebuilding(s)]
    BY <1>0, <1>3
  <2>2. (Away' => Away) /\ (Lost' <=> Lost)
    BY <1>2, <2>1 DEF Lost, Away
  <2>3. QED
    BY <2>2 DEF FaultsCounted
<1>11. NoneForgotten'
  <2>1. ASSUME NEW c \in Call, Up(c)', ~Has(c)' PROVE Awaited(c)'
    <3>1. Awaited(c)
      BY <2>1 DEF NoneForgotten, Up
    <3>2. \A s \in Replica : SyncDue(s) => SyncDue(s)'
      <4>1. SyncDue(r) => SyncDue(r)'
        BY <1>0, <1>1, <1>2, <1>3 DEF SyncDue, Wait
      <4>2. \A s \in Replica : s # r /\ SyncDue(s) => SyncDue(s)'
        BY <1>0, <1>2, <1>3 DEF SyncDue, Wait
      <4>3. QED
        BY <4>1, <4>2
    <3>3. ASSUME NEW s \in Replica, CreationDue(s, c) PROVE CreationDue(s, c)'
      <4>1. PICK t \in Wait(s) : t.kind = "created" /\ t.call = c
        BY <3>3 DEF CreationDue
      <4>2. s = r => t # Head(queue[r])
        BY <2>1, <4>1
      <4>3. t \in Wait(s)'
        BY <1>2, <4>1, <4>2 DEF Wait
      <4>4. QED
        BY <4>1, <4>3 DEF CreationDue
    <3>4. \A p \in Steady!Process : InHand(job[p], c) => InHand(job'[p], c)
      <4>1. job[Handling(r)].at \notin Reads
        BY DEF Hands
      <4>2. QED
        BY <1>3, <4>1 DEF InHand, Reads, Looks
    <3>5. QED
      BY <3>1, <3>2, <3>3, <3>4 DEF Awaited
  <2>2. QED
    BY <2>1 DEF NoneForgotten
<1>12. HungIsGone'
  BY DEF HungIsGone
<1> QED
  BY <1>3, <1>4, <1>5, <1>6, <1>7, <1>8, <1>9, <1>10, <1>11, <1>12

(* A step of a sync: it looks at calls, registers those that are up and    *)
(* ends others.                                                            *)
LEMMA SyncGoesOn ==
  ASSUME RebuiltInv, NEW r \in Replica, NEW j \in Steady!Job,
         queue[r] # <<>>, Head(queue[r]) = Sync, j.at \in Reads,
         ListRight(j), EndsRight(j)',
         job' = [job EXCEPT ![Handling(r)] = j],
         hash' \in [Call -> (SUBSET Steady!Field) \cup {Steady!Absent}],
         index' = {c \in Call : Has(c)'},
         announced' \in [Call -> SUBSET (Steady!Kind \cup {"identified", "lost"})],
         \A c \in Call : "hungup" \in announced'[c] => channel[c] = "gone",
         \A c \in Call : Has(c)' => Begun(c),
         \A c \in Call : Has(c) /\ Up(c) => Has(c)',
         \A c \in Call : c \in j.fresh /\ Has(c)' => slips = 2,
         \A c \in Call : Up(c) /\ (job[Handling(r)].at = "idle" \/ InHand(job[Handling(r)], c)) =>
           Has(c)' \/ InHand(j, c),
         UNCHANGED <<nodeUp, channel, owner, queue, epoch, slips>>
  PROVE  RebuiltInv'
<1> USE DEF RebuiltInv
<1>0. /\ Handling(r) \in Steady!Process /\ \A s \in Replica : Rebuilding(s) # Handling(r) /\ Rebuilding(s) \in Steady!Process
      /\ \A s \in Replica : Handling(s) \in Steady!Process /\ (s # r => Handling(s) # Handling(r))
  BY Parts
<1>3. /\ JobsRight' /\ job' \in [Steady!Process -> Steady!Job] /\ job'[Handling(r)] = j
      /\ \A q \in Steady!Process : q # Handling(r) => job'[q] = job[q]
  BY <1>0, JobMoves
<1>4. CallShape'
  BY <1>3 DEF CallShape
<1>5. OneQueue' /\ TasksRight' /\ RegistryRight'
  BY DEF OneQueue, TasksRight, RegistryRight, Wait, Begun
<1>6. Hands'
  BY <1>0, <1>3 DEF Hands, Steps, Reads, Looks
<1>7. FreshIsLost'
  <2>1. ASSUME NEW s \in Replica, job'[Handling(s)].at \in Reads PROVE job'[Handling(s)] = j
    <3>1. s # r => job[Handling(s)].at \in Reads
      BY <1>0, <1>3, <2>1
    <3>2. s # r => queue[s] # <<>>
      BY <3>1, ReaderSyncs
    <3>3. s = r
      BY <3>2 DEF OneQueue
    <3>4. QED
      BY <1>3, <3>3
  <2>2. QED
    BY <2>1 DEF FreshIsLost
<1>8. FaultsCounted'
  <2>1. \A s \in Replica : job'[Rebuilding(s)] = job[Rebuilding(s)]
    BY <1>0, <1>3
  <2>2. QED
    BY <2>1 DEF FaultsCounted, Lost, Away, Wait
<1>9. NoneForgotten'
  <2>1. ASSUME NEW c \in Call, Up(c)', ~Has(c)' PROVE Awaited(c)'
    <3>1. Awaited(c)
      BY <2>1 DEF NoneForgotten, Up
    <3>2. ASSUME NEW s \in Replica, SyncDue(s) PROVE SyncDue(s)' \/ InHand(j, c)
      <4>1. CASE s # r
        BY <1>0, <1>3, <3>2, <4>1 DEF SyncDue, Wait
      <4>2. CASE s = r
        <5>1. CASE Sync \in TasksOf(Tail(queue[r]))
          BY <4>2, <5>1 DEF SyncDue
        <5>2. CASE job[Handling(r)].at = "idle"
          BY <2>1, <5>2 DEF Up
        <5>3. QED
          BY <3>2, <4>2, <5>1, <5>2 DEF SyncDue
      <4>3. QED
        BY <4>1, <4>2
    <3>3. \A s \in Replica : CreationDue(s, c) => CreationDue(s, c)'
      BY DEF CreationDue, Wait
    <3>4. \A p \in Steady!Process : InHand(job[p], c) => InHand(job'[p], c) \/ InHand(j, c)
      <4>1. Up(c)
        BY <2>1 DEF Up
      <4>2. QED
        BY <1>3, <2>1, <4>1
    <3>5. InHand(j, c) => Awaited(c)'
      BY <1>0, <1>3 DEF Awaited, InHand
    <3>6. (\E p \in Steady!Process : InHand(job'[p], c)) => Awaited(c)'
      BY DEF Awaited, InHand
    <3>7. QED
      BY <3>1, <3>2, <3>3, <3>4, <3>5, <3>6 DEF Awaited
  <2>2. QED
    BY <2>1 DEF NoneForgotten
<1>10. HungIsGone'
  BY DEF HungIsGone
<1> QED
  BY <1>3, <1>4, <1>5, <1>6, <1>7, <1>8, <1>9, <1>10

(* A sync is done.                                                         *)
LEMMA SyncEndsAll ==
  ASSUME RebuiltInv, NEW r \in Replica,
         queue[r] # <<>>, Head(queue[r]) = Sync, job[Handling(r)].at = "ending",
         queue' = [queue EXCEPT ![r] = Tail(queue[r])],
         job' = [job EXCEPT ![Handling(r)] = Pause],
         UNCHANGED <<nodeUp, channel, owner, epoch, slips, announced, hash, index>>
  PROVE  RebuiltInv'
<1> USE DEF RebuiltInv
<1>0. /\ Handling(r) \in Steady!Process /\ \A s \in Replica : Rebuilding(s) # Handling(r) /\ Rebuilding(s) \in Steady!Process
      /\ \A s \in Replica : Handling(s) \in Steady!Process /\ (s # r => Handling(s) # Handling(r))
      /\ Pause \in Steady!Job /\ Pause.at = "idle" /\ Sync.kind = "sync"
  BY Parts
<1>1. /\ Head(queue[r]) \in Wait(r) /\ Wait(r) = {Head(queue[r])} \cup TasksOf(Tail(queue[r]))
      /\ Tail(queue[r]) \in Seq(Steady!Task)
  BY QueueDrops DEF CallShape, Wait
<1>2. /\ queue'[r] = Tail(queue[r]) /\ \A s \in Replica : s # r => queue'[s] = queue[s]
      /\ queue' \in [Replica -> Seq(Steady!Task)]
      /\ \A s \in Replica : Wait(s)' \subseteq Wait(s)
      /\ Wait(r) = {Head(queue[r])} \cup Wait(r)'
  BY <1>1 DEF CallShape, Wait
<1>3. /\ JobsRight' /\ job' \in [Steady!Process -> Steady!Job] /\ job'[Handling(r)] = Pause
      /\ \A q \in Steady!Process : q # Handling(r) => job'[q] = job[q]
  <2>1. ListRight(Pause) /\ EndsRight(Pause)'
    BY <1>0 DEF ListRight, EndsRight, Reads, Looks
  <2>2. \A c \in Call : Up(c) /\ Has(c) => Has(c)'
    BY DEF Has
  <2>3. QED
    BY <1>0, <2>1, <2>2, JobMoves
<1>4. CallShape'
  BY <1>2, <1>3 DEF CallShape
<1>5. OneQueue'
  <2>1. \A s \in Replica : queue'[s] # <<>> => queue[s] # <<>>
    BY <1>2
  <2>2. QED
    BY <2>1 DEF OneQueue
<1>6. TasksRight' /\ RegistryRight' /\ HungIsGone'
  BY <1>2 DEF TasksRight, RegistryRight, HungIsGone, Begun, Has
<1>8. Hands'
  BY <1>0, <1>2, <1>3 DEF Hands, Steps, Reads, Looks
<1>9. FreshIsLost'
  BY <1>0, <1>3 DEF FreshIsLost, Reads, Looks, Has
<1>10. FaultsCounted'
  <2>1. \A s \in Replica : job'[Rebuilding(s)] = job[Rebuilding(s)]
    BY <1>0, <1>3
  <2>2. (Away' => Away) /\ (Lost' <=> Lost)
    BY <1>2, <2>1 DEF Lost, Away
  <2>3. QED
    BY <2>2 DEF FaultsCounted
<1>11. NoneForgotten'
  <2>1. ASSUME NEW c \in Call, Up(c)', ~Has(c)' PROVE Awaited(c)'
    <3>1. Awaited(c)
      BY <2>1 DEF NoneForgotten, Up, Has
    <3>2. ASSUME NEW s \in Replica, SyncDue(s) PROVE SyncDue(s)'
      <4>1. CASE s = r
        <5>1. Sync \in TasksOf(Tail(queue[r]))
          BY <3>2, <4>1 DEF SyncDue
        <5>2. QED
          BY <1>0, <1>2, <1>3, <4>1, <5>1 DEF SyncDue, Wait
      <4>2. CASE s # r
        BY <1>0, <1>2, <1>3, <3>2, <4>2 DEF SyncDue, Wait
      <4>3. QED
        BY <4>1, <4>2
    <3>3. ASSUME NEW s \in Replica, CreationDue(s, c) PROVE CreationDue(s, c)'
      <4>1. PICK t \in Wait(s) : t.kind = "created" /\ t.call = c
        BY <3>3 DEF CreationDue
      <4>2. s = r => t # Head(queue[r])
        BY <1>0, <4>1
      <4>3. t \in Wait(s)'
        BY <1>2, <4>1, <4>2 DEF Wait
      <4>4. QED
        BY <4>1, <4>3 DEF CreationDue
    <3>4. \A p \in Steady!Process : InHand(job[p], c) => InHand(job'[p], c)
      BY <1>3 DEF InHand, Looks
    <3>5. QED
      BY <3>1, <3>2, <3>3, <3>4 DEF Awaited
  <2>2. QED
    BY <2>1 DEF NoneForgotten
<1> QED
  BY <1>3, <1>4, <1>5, <1>6, <1>8, <1>9, <1>10, <1>11

(* A step of a rebuild.                                                    *)
LEMMA RebuildGoesOn ==
  ASSUME RebuiltInv, NEW r \in Replica, NEW j \in Steady!Job,
         Lost, j.at \in Looks \/ j = Pause, ListRight(j),
         job' = [job EXCEPT ![Rebuilding(r)] = j],
         hash' \in [Call -> (SUBSET Steady!Field) \cup {Steady!Absent}],
         index' = {c \in Call : Has(c)'},
         \A c \in Call : Has(c)' => Begun(c),
         \A c \in Call : Has(c) => Has(c)',
         epoch' \in BOOLEAN, epoch => epoch',
         \A c \in Call : Up(c) /\ (~epoch \/ InHand(job[Rebuilding(r)], c)) =>
           Has(c)' \/ InHand(j, c) \/ ~epoch',
         UNCHANGED <<nodeUp, channel, owner, queue, slips, announced>>
  PROVE  RebuiltInv'
<1> USE DEF RebuiltInv
<1>0. /\ Rebuilding(r) \in Steady!Process /\ \A s \in Replica : Handling(s) # Rebuilding(r) /\ Handling(s) \in Steady!Process
      /\ \A s \in Replica : Rebuilding(s) \in Steady!Process /\ (s # r => Rebuilding(s) # Rebuilding(r))
  BY Parts
<1>3. /\ JobsRight' /\ job' \in [Steady!Process -> Steady!Job] /\ job'[Rebuilding(r)] = j
      /\ \A q \in Steady!Process : q # Rebuilding(r) => job'[q] = job[q]
  BY <1>0, JobMoves
<1>4. CallShape'
  BY <1>3 DEF CallShape
<1>5. OneQueue' /\ TasksRight' /\ RegistryRight' /\ HungIsGone'
  BY DEF OneQueue, TasksRight, RegistryRight, Wait, Begun, HungIsGone
<1>6. Hands'
  BY <1>0, <1>3 DEF Hands
<1>7. FreshIsLost'
  <2>1. ASSUME NEW s \in Replica, job'[Handling(s)].at \in Reads PROVE slips = 2
    <3>1. job[Handling(s)].at \in Reads
      BY <1>0, <1>3, <2>1
    <3>2. Away
      BY <3>1, ReaderSyncs
    <3>3. QED
      BY <3>2 DEF FaultsCounted
  <2>2. QED
    BY <2>1 DEF FreshIsLost
<1>8. FaultsCounted'
  <2>1. Away' <=> Away
    BY DEF Away, Wait
  <2>2. QED
    BY <2>1 DEF FaultsCounted
<1>9. NoneForgotten'
  <2>1. ASSUME NEW c \in Call, Up(c)', ~Has(c)' PROVE Awaited(c)'
    <3>0. Up(c) /\ ~Has(c)
      BY <2>1 DEF Up
    <3>1. Awaited(c)
      BY <3>0 DEF NoneForgotten
    <3>2. \A s \in Replica : SyncDue(s) => SyncDue(s)'
      BY <1>0, <1>3 DEF SyncDue, Wait
    <3>3. \A s \in Replica : CreationDue(s, c) => CreationDue(s, c)'
      BY DEF CreationDue, Wait
    <3>4. \A p \in Steady!Process : InHand(job[p], c) => InHand(job'[p], c) \/ InHand(j, c) \/ ~epoch'
      BY <1>3, <2>1, <3>0
    <3>5. ~epoch => InHand(j, c) \/ ~epoch'
      BY <2>1, <3>0
    <3>6. InHand(j, c) => Awaited(c)'
      BY <1>0, <1>3 DEF Awaited, InHand
    <3>7. (\E p \in Steady!Process : InHand(job'[p], c)) => Awaited(c)'
      BY DEF Awaited, InHand
    <3>8. ~epoch' => Awaited(c)'
      BY DEF Awaited
    <3>9. QED
      BY <3>1, <3>2, <3>3, <3>4, <3>5, <3>6, <3>7, <3>8 DEF Awaited
  <2>2. QED
    BY <2>1 DEF NoneForgotten
<1> QED
  BY <1>3, <1>4, <1>5, <1>6, <1>7, <1>8, <1>9

(* A channel starts, goes on or ends, and its owner queues the event.      *)
LEMMA ChannelGoesOn ==
  ASSUME RebuiltInv, NEW c \in Call, NEW d \in Call, NEW k \in Steady!Kind,
         NEW v \in {"ringing", "answered", "bridged", "gone"},
         \/ channel[c] = "none" /\ v = "ringing" /\ k = "created"
         \/ Up(c) /\ v # "ringing" /\ (k = "hungup" => v = "gone"),
         channel' = [channel EXCEPT ![c] = v],
         queue' = [r \in Replica |->
                     IF r = owner THEN Append(queue[r], [kind |-> k, call |-> c, peer |-> d]) ELSE queue[r]],
         UNCHANGED <<nodeUp, owner, job, epoch, announced, slips, hash, index>>
  PROVE  RebuiltInv'
<1> USE DEF RebuiltInv
<1> DEFINE t == [kind |-> k, call |-> c, peer |-> d]
<1>1. t \in Steady!Task /\ t # Sync
  BY DEF Steady!Task, Sync, Steady!Sync, Steady!Kind
<1>2. t.kind = k /\ t.call = c
  OBVIOUS
<1> HIDE DEF t
<1>3. /\ queue' \in [Replica -> Seq(Steady!Task)]
      /\ \A r \in Replica : r # owner => queue'[r] = queue[r]
      /\ owner \in Replica => queue'[owner] = Append(queue[owner], t)
  BY <1>1, QueueAdds DEF CallShape, t
<1>4. /\ \A r \in Replica : Wait(r)' \subseteq Wait(r) \cup {t}
      /\ \A r \in Replica : Wait(r) \subseteq Wait(r)'
      /\ owner \in Replica => t \in Wait(owner)'
      /\ \A r \in Replica : queue[r] # <<>> => queue'[r] # <<>> /\ Head(queue'[r]) = Head(queue[r])
      /\ \A r \in Replica : queue'[r] # <<>> => queue[r] # <<>> \/ r = owner
      /\ \A r \in Replica : queue[r] # <<>> => TasksOf(Tail(queue[r])) \subseteq TasksOf(Tail(queue'[r]))
  <2>1. ASSUME NEW r \in Replica, r # owner PROVE queue'[r] = queue[r] /\ Wait(r)' = Wait(r)
    BY <1>3, <2>1 DEF Wait
  <2>2. ASSUME owner \in Replica
        PROVE  /\ Wait(owner)' = Wait(owner) \cup {t}
               /\ queue'[owner] # <<>>
               /\ queue[owner] # <<>> => Head(queue'[owner]) = Head(queue[owner])
                                          /\ TasksOf(Tail(queue'[owner])) = TasksOf(Tail(queue[owner])) \cup {t}
    <3>1. queue[owner] \in Seq(Steady!Task) /\ queue'[owner] = Append(queue[owner], t)
      BY <1>3, <2>2 DEF CallShape
    <3>2. owner' = owner
      OBVIOUS
    <3>3. queue[owner] # <<>> => Tail(queue[owner]) \in Seq(Steady!Task)
      BY <3>1, QueueDrops
    <3>4. queue[owner] # <<>> => TasksOf(Append(Tail(queue[owner]), t)) = TasksOf(Tail(queue[owner])) \cup {t}
      BY <1>1, <3>3, QueueAdds
    <3>0. \A s \in Seq(Steady!Task) :
            /\ Append(s, t) # <<>> /\ TasksOf(Append(s, t)) = TasksOf(s) \cup {t}
            /\ s # <<>> => Head(Append(s, t)) = Head(s) /\ Tail(Append(s, t)) = Append(Tail(s), t)
      BY ONLY <1>1, QueueAdds
    <3>5. queue'[owner] # <<>> /\ TasksOf(queue'[owner]) = TasksOf(queue[owner]) \cup {t}
      BY <3>0, <3>1
    <3>6. queue[owner] # <<>> =>
            Head(queue'[owner]) = Head(queue[owner]) /\ Tail(queue'[owner]) = Append(Tail(queue[owner]), t)
      BY ONLY <3>0, <3>1
    <3>7. QED
      BY <3>2, <3>4, <3>5, <3>6 DEF Wait
  <2>3. owner' = owner
    OBVIOUS
  <2>4. QED
    BY <2>1, <2>2, <2>3
<1>5. /\ channel' \in [Call -> {"none", "ringing", "answered", "bridged", "gone"}]
      /\ channel'[c] = v /\ \A e \in Call : e # c => channel'[e] = channel[e]
  BY DEF CallShape
<1>6. /\ \A e \in Call : Begun(e) => Begun(e)'
      /\ \A e \in Call : Up(e)' => Up(e) \/ (e = c /\ channel[c] = "none")
      /\ \A e \in Call : channel[e] = "gone" => channel'[e] = "gone"
      /\ Begun(c)'
  BY <1>5 DEF Begun, Up
<1>7. CallShape'
  BY <1>3, <1>5 DEF CallShape
<1>8. OneQueue'
  BY <1>4 DEF OneQueue
<1>9. Hands'
  BY <1>4 DEF Hands, Reads, Steps, Looks
<1>10. TasksRight'
  <2>1. ASSUME NEW r \in Replica, NEW u \in Wait(r)'
        PROVE  (u # Sync => Begun(u.call)') /\ (u.kind = "hungup" => channel'[u.call] = "gone")
    <3>1. CASE u = t
      BY <1>2, <1>5, <1>6, <3>1
    <3>2. CASE u \in Wait(r)
      <4>1. u \in Steady!Task
        BY <3>2 DEF Wait, TasksOf, CallShape
      <4>2. u # Sync => u.call \in Call
        BY <4>1, Parts
      <4>3. u.kind = "hungup" => u # Sync
        BY Parts
      <4>4. QED
        BY <1>6, <3>2, <4>2, <4>3 DEF TasksRight
    <3>3. QED
      BY <1>4, <2>1, <3>1, <3>2
  <2>2. QED
    BY <2>1 DEF TasksRight, Begun
<1>11. RegistryRight'
  BY <1>6 DEF RegistryRight, Has, Begun
<1>12. JobsRight'
  <2>1. ASSUME NEW p \in Steady!Process PROVE ListRight(job[p])'
    <3>1. ListRight(job[p]) /\ job' = job
      BY <2>1 DEF JobsRight
    <3>2. job[p].at \in Reads => \A e \in Call : /\ ~Begun(e)' => e \in job[p].fresh
                                                 /\ Up(e)' => e \in job[p].fresh \/ e \in job[p].live
                                                 /\ e \in job[p].rows => Begun(e)'
      BY <1>6, <3>1 DEF ListRight, Begun, Up
    <3>3. job[p].at \in {"create", "update"} => Begun(job[p].call)'
      BY <1>6, <3>1 DEF ListRight, Begun
    <3>4. QED
      BY <3>1, <3>2, <3>3 DEF ListRight, Begun, Up
  <2>2. ASSUME NEW r \in Replica PROVE EndsRight(job[Handling(r)])'
    <3>1. EndsRight(job[Handling(r)]) /\ ListRight(job[Handling(r)]) /\ job' = job /\ job[Handling(r)] \in Steady!Job
      BY Parts DEF JobsRight, CallShape
    <3>2. job[Handling(r)].rows \subseteq Call
      BY <3>1 DEF Steady!Job
    <3>3. ASSUME job[Handling(r)].at \in {"ending", "endApply"}, NEW e \in job[Handling(r)].rows, Up(e)'
          PROVE  e \in job[Handling(r)].fresh /\ Has(e)'
      <4>1. Begun(e) /\ e \in Call
        BY <3>1, <3>2, <3>3 DEF ListRight, Reads
      <4>2. Up(e)
        BY <1>6, <3>3, <4>1 DEF Begun
      <4>3. QED
        BY <3>1, <3>3, <4>2 DEF EndsRight, Has
    <3>4. job[Handling(r)].at = "endApply" => Begun(job[Handling(r)].call)' /\ ~Up(job[Handling(r)].call)'
      BY <1>6, <3>1 DEF EndsRight, Begun, Up
    <3>5. QED
      BY <3>1, <3>3, <3>4 DEF EndsRight
  <2>3. QED
    BY <2>1, <2>2 DEF JobsRight
<1>13. FreshIsLost'
  BY DEF FreshIsLost, Has
<1>14. FaultsCounted'
  <2>1. (Away' => Away) /\ (Lost' <=> Lost)
    BY <1>1, <1>4 DEF Lost, Away
  <2>2. QED
    BY <2>1 DEF FaultsCounted
<1>15. NoneForgotten'
  <2>1. ASSUME NEW e \in Call, Up(e)', ~Has(e)' PROVE Awaited(e)'
    <3>1. CASE e = c /\ channel[c] = "none"
      <4>1. k = "created"
        BY <3>1 DEF Up
      <4>2. owner \in Replica => CreationDue(owner, c)'
        BY <1>2, <1>4, <4>1 DEF CreationDue
      <4>3. owner \notin Replica => owner = NoOne
        BY DEF CallShape
      <4>4. QED
        BY <3>1, <4>2, <4>3 DEF Awaited
    <3>2. CASE Up(e)
      <4>1. Awaited(e)
        BY <2>1, <3>2 DEF NoneForgotten, Has
      <4>2. \A s \in Replica : SyncDue(s) => SyncDue(s)'
        BY <1>4 DEF SyncDue
      <4>3. \A s \in Replica : CreationDue(s, e) => CreationDue(s, e)'
        BY <1>4 DEF CreationDue
      <4>4. QED
        BY <4>1, <4>2, <4>3 DEF Awaited, InHand
    <3>3. QED
      BY <1>6, <2>1, <3>1, <3>2
  <2>2. QED
    BY <2>1 DEF NoneForgotten
<1>16. HungIsGone'
  BY <1>6 DEF HungIsGone
<1> QED
  BY <1>7, <1>8, <1>9, <1>10, <1>11, <1>12, <1>13, <1>14, <1>15, <1>16

(* Redis loses the registry.                                               *)
LEMMA RegistryGoes ==
  ASSUME RebuiltInv, slips < 2, slips' = slips + 1,
         hash' = [c \in Call |-> Steady!Absent], index' = {}, epoch' = FALSE,
         UNCHANGED <<nodeUp, channel, owner, queue, job, announced>>
  PROVE  RebuiltInv'
<1> USE DEF RebuiltInv
<1>0. slips \in 0..2 /\ slips' \in 1..2 /\ slips # 2 /\ \A c \in Call : ~Has(c)'
  BY DEF CallShape, Has
<1>1. CallShape' /\ OneQueue' /\ Hands' /\ TasksRight' /\ RegistryRight' /\ HungIsGone'
  <2>1. CallShape'
    <3>1. slips' \in 0..2 /\ hash' \in [Call -> (SUBSET Steady!Field) \cup {Steady!Absent}]
      BY <1>0
    <3>2. QED
      BY <3>1 DEF CallShape
  <2>2. OneQueue' /\ Hands' /\ TasksRight' /\ HungIsGone'
    BY DEF OneQueue, Hands, TasksRight, HungIsGone, Wait, Begun
  <2>3. RegistryRight'
    BY <1>0 DEF RegistryRight
  <2>4. QED
    BY <2>1, <2>2, <2>3
<1>2. JobsRight'
  <2>1. \A p \in Steady!Process : ListRight(job[p])'
    BY DEF JobsRight, ListRight, Up, Begun
  <2>2. ASSUME NEW r \in Replica PROVE EndsRight(job[Handling(r)])'
    <3>1. EndsRight(job[Handling(r)]) /\ job[Handling(r)].rows \subseteq Call
      BY Parts DEF JobsRight, CallShape, Steady!Job
    <3>2. job[Handling(r)].at \in {"ending", "endApply"} => \A c \in job[Handling(r)].rows : ~Up(c)
      BY <1>0, <3>1 DEF EndsRight, FreshIsLost, Reads
    <3>3. QED
      BY <3>1, <3>2 DEF EndsRight, Up, Begun
  <2>3. QED
    BY <2>1, <2>2 DEF JobsRight
<1>3. FreshIsLost'
  BY <1>0 DEF FreshIsLost
<1>4. FaultsCounted'
  <2>1. Away' <=> Away
    BY DEF Away, Wait
  <2>2. Away => slips = 1
    BY <1>0 DEF FaultsCounted
  <2>3. QED
    BY <1>0, <2>1, <2>2 DEF FaultsCounted
<1>5. NoneForgotten'
  BY DEF NoneForgotten, Awaited
<1> QED
  BY <1>1, <1>2, <1>3, <1>4, <1>5

(* The owner gives the node up.                                            *)
LEMMA OwnerGoes ==
  ASSUME RebuiltInv, slips < 2, slips' = slips + 1, owner' = NoOne,
         UNCHANGED <<nodeUp, channel, queue, job, epoch, announced, hash, index>>
  PROVE  RebuiltInv'
<1> USE DEF RebuiltInv
<1>0. slips \in 0..2 /\ slips' \in 1..2 /\ slips # 2 /\ NoOne \notin Replica
  BY Parts DEF CallShape
<1>1. CallShape' /\ OneQueue' /\ Hands' /\ TasksRight' /\ RegistryRight' /\ HungIsGone'
  BY <1>0 DEF CallShape, OneQueue, Hands, TasksRight, RegistryRight, HungIsGone, Wait, Begun, Has
<1>2. JobsRight'
  BY DEF JobsRight, ListRight, EndsRight, Up, Begun, Has
<1>3. FreshIsLost'
  BY <1>0 DEF FreshIsLost, Has
<1>4. FaultsCounted'
  <2>1. Lost' <=> Lost
    BY DEF Lost
  <2>2. Lost => slips = 1
    BY <1>0 DEF FaultsCounted
  <2>3. QED
    BY <1>0, <2>1, <2>2 DEF FaultsCounted
<1>5. NoneForgotten'
  BY DEF NoneForgotten, Awaited
<1> QED
  BY <1>1, <1>2, <1>3, <1>4, <1>5

(* Another owns it, and has a sync to do.                                  *)
LEMMA OwnerComes ==
  ASSUME RebuiltInv, NEW r \in Replica, owner = NoOne, \A s \in Replica : queue[s] = <<>>,
         owner' = r, queue' = [queue EXCEPT ![r] = Append(queue[r], Sync)],
         UNCHANGED <<nodeUp, channel, job, epoch, announced, slips, hash, index>>
  PROVE  RebuiltInv'
<1> USE DEF RebuiltInv
<1>1. /\ queue' \in [Replica -> Seq(Steady!Task)] /\ queue'[r] # <<>> /\ Head(queue'[r]) = Sync
      /\ Wait(r)' = {Sync}
      /\ \A s \in Replica : s # r => queue'[s] = <<>> /\ Wait(s)' = {}
  <2>1. Sync \in Steady!Task /\ queue[r] = <<>> /\ <<>> \in Seq(Steady!Task)
    BY Parts, NoTasks
  <2>2. /\ Append(<<>>, Sync) \in Seq(Steady!Task) /\ Append(<<>>, Sync) # <<>> /\ Head(Append(<<>>, Sync)) = Sync
        /\ TasksOf(Append(<<>>, Sync)) = {Sync}
    BY <2>1, QueueAdds, NoTasks
  <2>3. queue'[r] = Append(<<>>, Sync) /\ \A s \in Replica : s # r => queue'[s] = <<>>
    BY <2>1 DEF CallShape
  <2>4. queue' \in [Replica -> Seq(Steady!Task)]
    BY <2>1, <2>2 DEF CallShape
  <2>5. QED
    BY <2>2, <2>3, <2>4, NoTasks DEF Wait
<1>2. \A s \in Replica : job[Handling(s)].at = "idle"
  BY DEF Hands
<1>3. CallShape' /\ OneQueue'
  BY <1>1 DEF CallShape, OneQueue
<1>4. Hands'
  BY <1>2 DEF Hands, Reads, Steps, Looks
<1>5. TasksRight'
  <2>1. Sync.kind # "hungup"
    BY Parts
  <2>2. QED
    BY <1>1, <2>1 DEF TasksRight
<1>6. RegistryRight' /\ HungIsGone' /\ JobsRight' /\ FreshIsLost'
  BY DEF RegistryRight, HungIsGone, JobsRight, ListRight, EndsRight, Up, Begun, Has, FreshIsLost
<1>7. FaultsCounted'
  <2>1. Away /\ (Lost' <=> Lost)
    BY DEF Away, Lost
  <2>2. QED
    BY <2>1 DEF FaultsCounted
<1>8. NoneForgotten'
  <2>1. SyncDue(r)'
    BY <1>1, <1>2 DEF SyncDue
  <2>2. QED
    BY <2>1 DEF NoneForgotten, Awaited
<1> QED
  BY <1>3, <1>4, <1>5, <1>6, <1>7, <1>8

-----------------------------------------------------------------------------
(* The registry's operations.                                              *)
Adds(c, fields) ==
  hash' = [hash EXCEPT ![c] = IF hash[c] # Steady!Absent THEN hash[c] \cup fields ELSE hash[c]]

LEMMA UpdateIs ==
  ASSUME CallShape, NEW c \in Call, NEW fields \in SUBSET Steady!Field, Adds(c, fields)
  PROVE  /\ hash' \in [Call -> (SUBSET Steady!Field) \cup {Steady!Absent}]
         /\ \A d \in Call : Has(d)' <=> Has(d)
         /\ \A d \in Call : hash'[d] \subseteq hash[d] \cup (IF d = c THEN fields ELSE {})
<1> USE DEF Adds
<1>1. hash \in [Call -> (SUBSET Steady!Field) \cup {Steady!Absent}]
  BY DEF CallShape
<1>2. Has(c) => hash[c] \in SUBSET Steady!Field /\ hash[c] \cup fields \in SUBSET Steady!Field
  BY <1>1 DEF Has
<1>3. Steady!Absent \notin SUBSET Steady!Field
  BY DEF Steady!Absent, Steady!Field
<1>4. hash' \in [Call -> (SUBSET Steady!Field) \cup {Steady!Absent}]
  BY <1>1, <1>2 DEF Has
<1>5. ASSUME NEW d \in Call
      PROVE  (Has(d)' <=> Has(d)) /\ hash'[d] \subseteq hash[d] \cup (IF d = c THEN fields ELSE {})
  <2>1. CASE d = c /\ Has(c)
    BY <2>1, <1>1, <1>2, <1>3 DEF Has
  <2>2. CASE ~(d = c /\ Has(c))
    BY <2>2, <1>1 DEF Has
  <2> QED BY <2>1, <2>2
<1> QED BY <1>4, <1>5

(* createCall (redis/registry.ts).                                         *)
LEMMA CreateIs ==
  ASSUME CallShape, NEW c \in Call, NEW told \in BOOLEAN,
         hash' = [hash EXCEPT ![c] = (IF hash[c] # Steady!Absent THEN hash[c] \cap {"bridged"} ELSE {})
                                       \cup (IF told THEN {"tenant"} ELSE {})]
  PROVE  /\ hash' \in [Call -> (SUBSET Steady!Field) \cup {Steady!Absent}]
         /\ \A d \in Call : Has(d)' <=> (d = c \/ Has(d))
         /\ \A d \in Call : d # c => hash'[d] = hash[d]
         /\ hash'[c] \subseteq {"tenant"} \cup (IF Has(c) THEN hash[c] ELSE {})
<1> DEFINE new == (IF hash[c] # Steady!Absent THEN hash[c] \cap {"bridged"} ELSE {})
                    \cup (IF told THEN {"tenant"} ELSE {})
<1>1. hash \in [Call -> (SUBSET Steady!Field) \cup {Steady!Absent}] /\ hash' = [hash EXCEPT ![c] = new]
  BY DEF CallShape
<1>2. new \in SUBSET Steady!Field /\ new \subseteq {"tenant"} \cup (IF Has(c) THEN hash[c] ELSE {})
  BY DEF Steady!Field, Has
<1>3. Steady!Absent \notin SUBSET Steady!Field
  BY DEF Steady!Absent, Steady!Field
<1> HIDE DEF new
<1> QED BY <1>1, <1>2, <1>3 DEF Has

(* endCall.                                                                *)
LEMMA EndIs ==
  ASSUME CallShape, NEW c \in Call, hash' = [hash EXCEPT ![c] = Steady!Absent]
  PROVE  /\ hash' \in [Call -> (SUBSET Steady!Field) \cup {Steady!Absent}]
         /\ \A d \in Call : Has(d)' <=> (d # c /\ Has(d))
         /\ \A d \in Call : d # c => hash'[d] = hash[d]
BY DEF CallShape, Has

(* A process goes on to another stage.                                     *)
LEMMA StageIs ==
  ASSUME CallShape, NEW p \in Steady!Process, NEW a \in {"idle"} \cup Reads \cup Steps,
         job' = [job EXCEPT ![p].at = a]
  PROVE  LET j == [job[p] EXCEPT !.at = a]
         IN  /\ j \in Steady!Job /\ job' = [job EXCEPT ![p] = j] /\ j.at = a
             /\ j.rows = job[p].rows /\ j.live = job[p].live /\ j.fresh = job[p].fresh
             /\ j.call = job[p].call
<1>1. job \in [Steady!Process -> Steady!Job] /\ job[p] \in Steady!Job
  BY DEF CallShape
<1> DEFINE j == [job[p] EXCEPT !.at = a]
<1>2. /\ j \in Steady!Job /\ j.at = a
      /\ j.rows = job[p].rows /\ j.live = job[p].live /\ j.fresh = job[p].fresh
      /\ j.call = job[p].call
  BY <1>1 DEF Steady!Job, Reads, Looks, Steps
<1>3. job' = [job EXCEPT ![p] = j]
  BY <1>1
<1> QED BY <1>2, <1>3

(* An outbox row.                                                          *)
LEMMA AnnounceIs ==
  ASSUME CallShape, NEW c \in Call, NEW k \in Steady!Kind \cup {"identified"},
         announced' = [announced EXCEPT ![c] = announced[c] \cup {k}]
  PROVE  /\ announced' \in [Call -> SUBSET (Steady!Kind \cup {"identified", "lost"})]
         /\ announced'[c] = announced[c] \cup {k}
         /\ \A d \in Call : d # c => announced'[d] = announced[d]
<1>1. announced \in [Call -> SUBSET (Steady!Kind \cup {"identified", "lost"})]
  BY DEF CallShape
<1>2. announced[c] \cup {k} \in SUBSET (Steady!Kind \cup {"identified", "lost"})
  BY <1>1
<1> QED BY <1>1, <1>2

-----------------------------------------------------------------------------
(* The steps of a node whose owner may change and whose registry may be    *)
(* lost.                                                                   *)
LEMMA RebuiltTask ==
  ASSUME RebuiltInv, NEW r \in Replica, NEW t \in Rebuilt!Current(r)
  PROVE  /\ queue[r] # <<>> /\ t = Head(queue[r]) /\ t \in Steady!Task
         /\ \A a : Rebuilt!Handles(r, t, a) => job[Handling(r)].at = a
         /\ t # Sync => t.kind \in Steady!Kind /\ t.call \in Call /\ t.peer \in Call /\ Begun(t.call)
<1>1. queue[r] \in Seq(Steady!Task)
  BY DEF RebuiltInv, CallShape
<1>2. queue[r] # <<>> /\ t = Head(queue[r])
  BY <1>1 DEF Rebuilt!Current
<1>3. t \in Steady!Task /\ t \in Wait(r)
  BY <1>1, <1>2, QueueDrops DEF Wait
<1>4. \A a : Rebuilt!Handles(r, t, a) => job[Handling(r)].at = a
  BY Alikes DEF Rebuilt!Handles
<1> QED
  BY <1>2, <1>3, <1>4, Parts DEF RebuiltInv, TasksRight

(* tenantFor (channel-handler.ts).                                         *)
LEMMA RebuiltTenantFor ==
  ASSUME RebuiltInv, NEW r \in Replica, NEW t \in Rebuilt!Current(r), Rebuilt!TenantFor(r, t)
  PROVE  RebuiltInv'
<1>1. t # Sync
  BY Parts DEF Rebuilt!TenantFor
<1>2. queue[r] # <<>> /\ t = Head(queue[r]) /\ t.call \in Call
  BY <1>1, RebuiltTask
<1>3. PICK known \in BOOLEAN, at \in {"identify", "peer", "write"} :
        job' = [job EXCEPT ![Handling(r)] = [Pause EXCEPT !.at = at, !.known = known]]
  <2> DEFINE known == Rebuilt!Told(t) \/ Rebuilt!TenantOf(t.call)
             at == IF Rebuilt!Told(t) /\ Rebuilt!Attaches(t.call) THEN "identify" ELSE Rebuilt!Onward(t, known)
  <2>1. known \in BOOLEAN /\ at \in {"identify", "peer", "write"}
    BY DEF Rebuilt!Onward, Rebuilt!Told, Rebuilt!TenantOf, Rebuilt!HasCall
  <2>2. job' = [job EXCEPT ![Handling(r)] = [Pause EXCEPT !.at = at, !.known = known]]
    BY Alikes DEF Rebuilt!TenantFor
  <2> QED BY <2>1, <2>2
<1>4. /\ hash' \in [Call -> (SUBSET Steady!Field) \cup {Steady!Absent}] /\ index' = index
      /\ \A d \in Call : Has(d)' <=> Has(d)
  <2>1. CASE Rebuilt!Told(t)
    <3>1. /\ Adds(t.call, {"tenant"})
          /\ index' = index
      BY <2>1, Alikes DEF Rebuilt!TenantFor, Rebuilt!AttachTenant, Rebuilt!UpdateCall, Rebuilt!HasCall, RebuiltInv, CallShape, Adds
    <3>2. {"tenant"} \in SUBSET Steady!Field
      BY DEF Steady!Field
    <3> QED BY <3>1, <3>2, <1>2, UpdateIs DEF RebuiltInv
  <2>2. CASE ~Rebuilt!Told(t)
    BY <2>2 DEF Rebuilt!TenantFor, Rebuilt!registry, RebuiltInv, CallShape, Has
  <2> QED BY <2>1, <2>2
<1> DEFINE new == [Pause EXCEPT !.at = at, !.known = known]
<1>5. new \in Steady!Job /\ new.at \in Steps
  BY DEF Pause, Steady!Idle, Steady!Job, Steps, Steady!Field
<1>6. job' = [job EXCEPT ![Handling(r)] = new]
  BY <1>3
<1>7. UNCHANGED <<nodeUp, channel, owner, queue, epoch, slips, announced>>
  BY DEF Rebuilt!TenantFor, Rebuilt!node
<1>8. announced' \in [Call -> SUBSET (Steady!Kind \cup {"identified", "lost"})]
  BY <1>7 DEF RebuiltInv, CallShape
<1> HIDE DEF new
<1> QED BY <1>1, <1>2, <1>4, <1>5, <1>6, <1>7, <1>8, HandlingGoesOn

(* identify, the other leg of a bridge, and the outbox row.                *)
LEMMA RebuiltEvent ==
  ASSUME RebuiltInv, NEW r \in Replica, NEW t \in Rebuilt!Current(r),
         Rebuilt!Identify(r, t) \/ Rebuilt!AttachPeer(r, t) \/ Rebuilt!IdentifyPeer(r, t) \/ Rebuilt!Write(r, t)
  PROVE  RebuiltInv'
<1>0. CallShape /\ Handling(r) \in Steady!Process
  BY Parts DEF RebuiltInv
<1>1. job[Handling(r)].at \in Steps \/ t.kind = "created"
  <2>1. \/ Rebuilt!Handles(r, t, "identify") \/ Rebuilt!Handles(r, t, "peer") \/ Rebuilt!Handles(r, t, "identifyPeer")
        \/ Rebuilt!Handles(r, t, "write") \/ t.kind = "created"
    BY DEF Rebuilt!Identify, Rebuilt!AttachPeer, Rebuilt!IdentifyPeer, Rebuilt!Write
  <2> QED BY <2>1, RebuiltTask DEF Steps
<1>2. queue[r] # <<>> /\ t = Head(queue[r]) /\ t \in Steady!Task
  BY RebuiltTask
<1>3. t # Sync
  BY <1>1, <1>2, Parts DEF RebuiltInv, Hands
<1>4. t.kind \in Steady!Kind /\ t.call \in Call /\ t.peer \in Call
  BY <1>3, RebuiltTask
<1>5. PICK a \in Steps : job' = [job EXCEPT ![Handling(r)].at = a]
  BY Alikes DEF Rebuilt!Identify, Rebuilt!AttachPeer, Rebuilt!IdentifyPeer, Rebuilt!Write, Rebuilt!At, Rebuilt!Onward, Steps
<1>6. PICK j \in Steady!Job : job' = [job EXCEPT ![Handling(r)] = j] /\ j.at = a
  <2>1. a \in {"idle"} \cup Reads \cup Steps
    OBVIOUS
  <2> QED BY ZenonT(60), <1>0, <1>5, <2>1, StageIs
<1>7. UNCHANGED <<nodeUp, channel, owner, queue, epoch, slips>>
  BY DEF Rebuilt!Identify, Rebuilt!AttachPeer, Rebuilt!IdentifyPeer, Rebuilt!Write, Rebuilt!node
<1>8. /\ announced' \in [Call -> SUBSET (Steady!Kind \cup {"identified", "lost"})]
      /\ \A c \in Call : "hungup" \in announced'[c] =>
           "hungup" \in announced[c] \/ (t.kind = "hungup" /\ c = t.call)
  <2>1. CASE UNCHANGED announced
    BY <1>0, <2>1 DEF CallShape
  <2>2. ASSUME NEW d \in Call, NEW k \in Steady!Kind \cup {"identified"}, Rebuilt!Announce(d, k),
               k = "hungup" => t.kind = "hungup" /\ d = t.call
        PROVE  /\ announced' \in [Call -> SUBSET (Steady!Kind \cup {"identified", "lost"})]
               /\ \A c \in Call : "hungup" \in announced'[c] =>
                    "hungup" \in announced[c] \/ (t.kind = "hungup" /\ c = t.call)
    <3>1. announced' = [announced EXCEPT ![d] = announced[d] \cup {k}]
      BY <2>2 DEF Rebuilt!Announce
    <3> QED BY <1>0, <2>2, <3>1, AnnounceIs
  <2>3. \/ UNCHANGED announced \/ Rebuilt!Announce(t.call, "identified") \/ Rebuilt!Announce(t.peer, "identified")
        \/ Rebuilt!Announce(t.call, t.kind)
    BY DEF Rebuilt!Identify, Rebuilt!AttachPeer, Rebuilt!IdentifyPeer, Rebuilt!Write
  <2> QED BY <1>4, <2>1, <2>2, <2>3
<1>9. /\ hash' \in [Call -> (SUBSET Steady!Field) \cup {Steady!Absent}] /\ index' = index
      /\ \A d \in Call : Has(d)' <=> Has(d)
  <2>1. CASE Rebuilt!AttachPeer(r, t)
    <3>1. /\ Adds(t.peer, {"tenant"})
          /\ index' = index
      BY <1>0, <2>1, Alikes DEF Rebuilt!AttachPeer, Rebuilt!AttachTenant, Rebuilt!UpdateCall, Rebuilt!HasCall, CallShape, Adds
    <3>2. {"tenant"} \in SUBSET Steady!Field
      BY DEF Steady!Field
    <3> QED BY <1>0, <3>1, <3>2, <1>4, UpdateIs
  <2>2. CASE ~Rebuilt!AttachPeer(r, t)
    BY <1>0, <2>2 DEF Rebuilt!Identify, Rebuilt!IdentifyPeer, Rebuilt!Write, Rebuilt!registry, CallShape, Has
  <2> QED BY <2>1, <2>2
<1> QED BY <1>2, <1>3, <1>6, <1>7, <1>8, <1>9, HandlingGoesOn

(* The registry, after the row.                                            *)
LEMMA RebuiltApply ==
  ASSUME RebuiltInv, NEW r \in Replica, NEW t \in Rebuilt!Current(r), Rebuilt!Apply(r, t)
  PROVE  RebuiltInv'
<1>0. CallShape /\ index = {c \in Call : Has(c)}
  BY DEF RebuiltInv, RegistryRight
<1>1. queue[r] # <<>> /\ t = Head(queue[r]) /\ t \in Steady!Task /\ job[Handling(r)].at = "apply"
  BY RebuiltTask DEF Rebuilt!Apply
<1>2. t # Sync
  BY <1>1 DEF RebuiltInv, Hands, Steps
<1>3. t.kind \in Steady!Kind /\ t.call \in Call
  BY <1>2, RebuiltTask
<1>4. t.kind = "hungup" => ~Up(t.call)
  <2>1. t \in Wait(r)
    BY <1>0, <1>1, QueueDrops DEF CallShape, Wait
  <2> QED BY <2>1 DEF RebuiltInv, TasksRight, Up
<1>5. /\ queue' = [queue EXCEPT ![r] = Tail(queue[r])] /\ job' = [job EXCEPT ![Handling(r)] = Pause]
      /\ UNCHANGED <<nodeUp, channel, owner, epoch, slips, announced>>
  BY <1>0, Alikes DEF Rebuilt!Apply, Rebuilt!Done, Rebuilt!node, CallShape
<1>6. /\ hash' \in [Call -> (SUBSET Steady!Field) \cup {Steady!Absent}]
      /\ index' = {c \in Call : Has(c)'}
      /\ \A c \in Call : Has(c)' => Has(c) \/ c = t.call
      /\ \A c \in Call : Has(c) /\ Up(c) => Has(c)'
      /\ \A c \in Call : t.kind = "created" /\ c = t.call => Has(c)'
  <2>1. CASE t.kind = "created"
    <3> DEFINE told == Rebuilt!Told(t)
    <3>1. /\ told \in BOOLEAN
          /\ hash' = [hash EXCEPT ![t.call] = (IF hash[t.call] # Steady!Absent THEN hash[t.call] \cap {"bridged"} ELSE {})
                                               \cup (IF told THEN {"tenant"} ELSE {})]
          /\ index' = index \cup {t.call}
      BY <1>0, <2>1, Alikes DEF Rebuilt!Apply, Rebuilt!Told, Rebuilt!CreateCall, Rebuilt!HasCall, CallShape
    <3> HIDE DEF told
    <3>2. /\ hash' \in [Call -> (SUBSET Steady!Field) \cup {Steady!Absent}]
          /\ \A d \in Call : Has(d)' <=> (d = t.call \/ Has(d))
      BY <1>0, <1>3, <3>1, CreateIs
    <3> QED BY <1>0, <1>3, <3>1, <3>2
  <2>2. CASE t.kind = "hungup"
    <3>1. hash' = [hash EXCEPT ![t.call] = Steady!Absent] /\ index' = index \ {t.call}
      BY <2>2, Alikes DEF Rebuilt!Apply, Rebuilt!EndCall
    <3>2. /\ hash' \in [Call -> (SUBSET Steady!Field) \cup {Steady!Absent}]
          /\ \A d \in Call : Has(d)' <=> (d # t.call /\ Has(d))
      BY <1>0, <1>3, <3>1, EndIs
    <3> QED BY <1>0, <1>4, <2>2, <3>1, <3>2
  <2>3. CASE t.kind \in {"answered", "bridged"}
    <3>1. /\ Adds(t.call, {t.kind})
          /\ index' = index
      BY <1>0, <2>3, Alikes DEF Rebuilt!Apply, Rebuilt!UpdateCall, Rebuilt!HasCall, CallShape, Adds
    <3>2. {t.kind} \in SUBSET Steady!Field
      BY <2>3 DEF Steady!Field
    <3>3. /\ hash' \in [Call -> (SUBSET Steady!Field) \cup {Steady!Absent}]
          /\ \A d \in Call : Has(d)' <=> Has(d)
      BY <1>0, <1>3, <3>1, <3>2, UpdateIs
    <3> QED BY <1>0, <2>3, <3>1, <3>3
  <2> QED BY <2>1, <2>2, <2>3, <1>3 DEF Steady!Kind
<1> QED BY <1>1, <1>2, <1>5, <1>6, HandlingEnds

(* "show channels".                                                        *)
LEMMA RebuiltList ==
  ASSUME RebuiltInv, NEW p \in Steady!Process, Rebuilt!List(p)
  PROVE  \E j \in Steady!Job : /\ job' = [job EXCEPT ![p] = j] /\ j.at = "rows" /\ ListRight(j)
                               /\ \A c \in Call : (Up(c) => c \in j.rows) /\ (c \in j.fresh => ~Begun(c))
<1> DEFINE j == [Pause EXCEPT !.at = "rows", !.live = {c \in Call : Up(c)}, !.rows = {c \in Call : Up(c)},
                              !.fresh = {c \in Call : channel[c] = "none"}]
<1>1. job' = [job EXCEPT ![p] = j]
  BY Alikes DEF Rebuilt!List, Rebuilt!Live, Up
<1>2. /\ j \in Steady!Job /\ j.at = "rows" /\ j.live = {c \in Call : Up(c)} /\ j.rows = {c \in Call : Up(c)}
      /\ j.fresh = {c \in Call : channel[c] = "none"}
  BY DEF Pause, Steady!Idle, Steady!Job, Steady!Field
<1> HIDE DEF j
<1>3. ListRight(j)
  BY <1>2 DEF ListRight, Reads, Looks, Up, Begun
<1>4. \A c \in Call : (Up(c) => c \in j.rows) /\ (c \in j.fresh => ~Begun(c))
  BY <1>2 DEF Begun
<1> QED BY <1>1, <1>2, <1>3, <1>4

(* A new owner asks the node for its channels (registry-rebuild.ts).       *)
LEMMA RebuiltSyncStarts ==
  ASSUME RebuiltInv, NEW r \in Replica, Rebuilt!SyncStarts(r)
  PROVE  RebuiltInv'
<1>0. CallShape /\ Handling(r) \in Steady!Process /\ RegistryRight /\ HungIsGone
  BY Parts DEF RebuiltInv
<1>1. queue[r] # <<>> /\ Head(queue[r]) = Sync /\ job[Handling(r)].at = "idle"
  BY Alikes DEF Rebuilt!SyncStarts, Rebuilt!Handles
<1>2. PICK j \in Steady!Job : /\ job' = [job EXCEPT ![Handling(r)] = j] /\ j.at = "rows" /\ ListRight(j)
                             /\ \A c \in Call : (Up(c) => c \in j.rows) /\ (c \in j.fresh => ~Begun(c))
  <2>1. Rebuilt!List(Handling(r))
    BY Alikes DEF Rebuilt!SyncStarts
  <2> QED BY <1>0, <2>1, RebuiltList
<1>3. UNCHANGED <<nodeUp, channel, owner, queue, epoch, slips, announced, hash, index>>
  BY DEF Rebuilt!SyncStarts, Rebuilt!node, Rebuilt!registry
<1>4. \A c \in Call : Has(c)' <=> Has(c)
  BY <1>3 DEF Has
<1>5. /\ hash' \in [Call -> (SUBSET Steady!Field) \cup {Steady!Absent}]
      /\ index' = {c \in Call : Has(c)'}
      /\ announced' \in [Call -> SUBSET (Steady!Kind \cup {"identified", "lost"})]
      /\ \A c \in Call : "hungup" \in announced'[c] => channel[c] = "gone"
      /\ \A c \in Call : Has(c)' => Begun(c)
  BY <1>0, <1>3, <1>4 DEF CallShape, RegistryRight, HungIsGone
<1>6. j.at \in Reads /\ EndsRight(j)'
  BY <1>2 DEF Reads, Looks, EndsRight
<1>7. \A c \in Call : c \in j.fresh => ~Has(c)'
  BY <1>2, <1>5
<1>8. \A c \in Call : Up(c) => InHand(j, c)
  BY <1>2 DEF InHand, Looks
<1> QED BY <1>1, <1>2, <1>3, <1>4, <1>5, <1>6, <1>7, <1>8, SyncGoesOn

(* Who reads for a sync: what SyncGoesOn needs of a step that leaves the   *)
(* registry and the outbox as they are.                                    *)
LEMMA SyncLooks ==
  ASSUME RebuiltInv, NEW r \in Replica, NEW j \in Steady!Job,
         job[Handling(r)].at \in Reads, j.at \in Reads, ListRight(j), EndsRight(j),
         job' = [job EXCEPT ![Handling(r)] = j], j.fresh = job[Handling(r)].fresh,
         \A c \in Call : Up(c) /\ InHand(job[Handling(r)], c) => Has(c) \/ InHand(j, c),
         UNCHANGED <<nodeUp, channel, owner, queue, epoch, slips, announced, hash, index>>
  PROVE  RebuiltInv'
<1>0. CallShape /\ RegistryRight /\ HungIsGone /\ Hands /\ FreshIsLost
  BY DEF RebuiltInv
<1>1. queue[r] # <<>> /\ Head(queue[r]) = Sync
  BY <1>0, ReaderSyncs
<1>2. \A c \in Call : Has(c)' <=> Has(c)
  BY DEF Has
<1>3. /\ hash' \in [Call -> (SUBSET Steady!Field) \cup {Steady!Absent}]
      /\ index' = {c \in Call : Has(c)'}
      /\ announced' \in [Call -> SUBSET (Steady!Kind \cup {"identified", "lost"})]
      /\ \A c \in Call : "hungup" \in announced'[c] => channel[c] = "gone"
      /\ \A c \in Call : Has(c)' => Begun(c)
  BY <1>0, <1>2 DEF CallShape, RegistryRight, HungIsGone
<1>4. EndsRight(j)'
  BY DEF EndsRight, Up, Has, Begun
<1>5. \A c \in Call : c \in j.fresh /\ Has(c)' => slips = 2
  BY <1>0, <1>2 DEF FreshIsLost
<1>6. job[Handling(r)].at # "idle"
  BY DEF Reads, Looks
<1> QED BY <1>1, <1>2, <1>3, <1>4, <1>5, <1>6, SyncGoesOn

(* It has looked at each of them: the calls it is about to end.            *)
LEMMA RebuiltSyncReads ==
  ASSUME RebuiltInv, NEW r \in Replica,
         Rebuilt!SyncCalls(r) \/ \E c \in Call : Rebuilt!SyncSpares(r, c)
  PROVE  RebuiltInv'
<1>0. CallShape /\ Handling(r) \in Steady!Process /\ RegistryRight /\ ListRight(job[Handling(r)])
      /\ EndsRight(job[Handling(r)]) /\ job[Handling(r)] \in Steady!Job
  BY Parts DEF RebuiltInv, JobsRight, CallShape
<1>1. UNCHANGED <<nodeUp, channel, owner, queue, epoch, slips, announced, hash, index>>
  BY DEF Rebuilt!SyncCalls, Rebuilt!SyncSpares, Rebuilt!node, Rebuilt!registry
<1>2. CASE Rebuilt!SyncCalls(r)
  <2>1. job[Handling(r)].at = "rows" /\ job[Handling(r)].rows = {}
    BY <1>2, Alikes DEF Rebuilt!SyncCalls, Rebuilt!Handles
  <2> DEFINE j == [job[Handling(r)] EXCEPT !.at = "ending", !.rows = index \ job[Handling(r)].live]
  <2>2. job' = [job EXCEPT ![Handling(r)] = j]
    BY <1>0, <1>2, Alikes DEF Rebuilt!SyncCalls, CallShape
  <2>3. /\ j \in Steady!Job /\ j.at = "ending" /\ j.rows = index \ job[Handling(r)].live
        /\ j.fresh = job[Handling(r)].fresh /\ j.live = job[Handling(r)].live
    BY <1>0 DEF Steady!Job, CallShape
  <2> HIDE DEF j
  <2>4. ListRight(j)
    BY <1>0, <2>1, <2>3 DEF ListRight, Reads, Looks, RegistryRight
  <2>5. EndsRight(j)
    BY <1>0, <2>1, <2>3 DEF EndsRight, ListRight, Reads, Looks, RegistryRight
  <2>6. \A c \in Call : ~InHand(job[Handling(r)], c)
    BY <2>1 DEF InHand
  <2>7. job[Handling(r)].at \in Reads /\ j.at \in Reads
    BY <2>1, <2>3 DEF Reads, Looks
  <2> QED BY <1>1, <2>2, <2>3, <2>4, <2>5, <2>6, <2>7, SyncLooks
<1>3. CASE \E c \in Call : Rebuilt!SyncSpares(r, c)
  <2>0. PICK c \in Call : Rebuilt!SyncSpares(r, c)
    BY <1>3
  <2>1. job[Handling(r)].at = "ending"
    BY <2>0, Alikes DEF Rebuilt!SyncSpares, Rebuilt!Handles
  <2> DEFINE j == [job[Handling(r)] EXCEPT !.rows = job[Handling(r)].rows \ {c}]
  <2>2. job' = [job EXCEPT ![Handling(r)] = j]
    BY <1>0, <2>0, Alikes DEF Rebuilt!SyncSpares, CallShape
  <2>3. /\ j \in Steady!Job /\ j.at = "ending" /\ j.rows = job[Handling(r)].rows \ {c}
        /\ j.fresh = job[Handling(r)].fresh /\ j.live = job[Handling(r)].live
    BY <1>0, <2>1 DEF Steady!Job, CallShape
  <2> HIDE DEF j
  <2>4. ListRight(j) /\ EndsRight(j)
    BY <1>0, <2>1, <2>3 DEF ListRight, EndsRight, Reads, Looks
  <2>6. \A d \in Call : ~InHand(job[Handling(r)], d)
    BY <2>1 DEF InHand, Looks
  <2>7. job[Handling(r)].at \in Reads /\ j.at \in Reads
    BY <2>1, <2>3 DEF Reads, Looks
  <2> QED BY <1>1, <2>2, <2>3, <2>4, <2>6, <2>7, SyncLooks
<1> QED BY <1>2, <1>3

(* It ends one, or leaves it as it is new.                                 *)
LEMMA RebuiltSyncEnds ==
  ASSUME RebuiltInv, NEW r \in Replica, NEW c \in Call, Rebuilt!SyncEnds(r, c)
  PROVE  RebuiltInv'
<1>0. CallShape /\ Handling(r) \in Steady!Process /\ RegistryRight /\ ListRight(job[Handling(r)])
      /\ EndsRight(job[Handling(r)]) /\ job[Handling(r)] \in Steady!Job /\ FreshIsLost /\ HungIsGone /\ Hands
  BY Parts DEF RebuiltInv, JobsRight, CallShape
<1>1. /\ job[Handling(r)].at = "ending" /\ c \in job[Handling(r)].rows
      /\ ~(Has(c) /\ c \in job[Handling(r)].fresh)
  BY Alikes DEF Rebuilt!SyncEnds, Rebuilt!Handles, Rebuilt!HasCall, Has
<1>2. queue[r] # <<>> /\ Head(queue[r]) = Sync
  BY <1>0, <1>1, ReaderSyncs DEF Reads
<1>3. ~Up(c) /\ Begun(c) /\ channel[c] = "gone"
  <2>1. ~Up(c) /\ Begun(c)
    BY <1>0, <1>1 DEF EndsRight, ListRight, Reads
  <2> QED BY <1>0, <2>1 DEF CallShape, Up, Begun
<1>4. PICK j \in Steady!Job :
        /\ job' = [job EXCEPT ![Handling(r)] = j]
        /\ j.at = "endApply" /\ j.rows = job[Handling(r)].rows \ {c} /\ j.call = c
        /\ j.fresh = job[Handling(r)].fresh /\ j.live = job[Handling(r)].live
  <2> DEFINE new == [job[Handling(r)] EXCEPT !.rows = job[Handling(r)].rows \ {c}, !.at = "endApply", !.call = c]
  <2>1. job' = [job EXCEPT ![Handling(r)] = new]
    BY <1>0, Alikes DEF Rebuilt!SyncEnds, CallShape
  <2>2. /\ new \in Steady!Job /\ new.at = "endApply" /\ new.rows = job[Handling(r)].rows \ {c} /\ new.call = c
        /\ new.fresh = job[Handling(r)].fresh /\ new.live = job[Handling(r)].live
    BY <1>0 DEF Steady!Job
  <2> HIDE DEF new
  <2> QED BY <2>1, <2>2
<1>6. UNCHANGED <<nodeUp, channel, owner, queue, epoch, slips, hash, index>>
  BY DEF Rebuilt!SyncEnds, Rebuilt!node, Rebuilt!registry
<1>7. \A d \in Call : Has(d)' <=> Has(d)
  BY <1>6 DEF Has
<1>8. /\ announced' \in [Call -> SUBSET (Steady!Kind \cup {"identified", "lost"})]
      /\ \A d \in Call : "hungup" \in announced'[d] => channel[d] = "gone"
  <2>1. announced' = [announced EXCEPT ![c] = announced[c] \cup {"hungup"}]
    BY DEF Rebuilt!SyncEnds, Rebuilt!Announce
  <2>2. "hungup" \in Steady!Kind \cup {"identified"}
    BY DEF Steady!Kind
  <2> QED BY <1>0, <1>3, <2>1, <2>2, AnnounceIs DEF HungIsGone
<1>9. ListRight(j)
  BY <1>0, <1>1, <1>4 DEF ListRight, Reads, Looks
<1>10. EndsRight(j)'
  <2>1. EndsRight(j)
    BY <1>0, <1>1, <1>3, <1>4 DEF EndsRight
  <2> QED BY <1>6, <2>1 DEF EndsRight, Up, Has, Begun
<1>11. /\ hash' \in [Call -> (SUBSET Steady!Field) \cup {Steady!Absent}]
       /\ index' = {d \in Call : Has(d)'} /\ \A d \in Call : Has(d)' => Begun(d)
  BY <1>0, <1>6, <1>7 DEF CallShape, RegistryRight
<1>12. \A d \in Call : d \in j.fresh /\ Has(d)' => slips = 2
  BY <1>0, <1>1, <1>4, <1>7 DEF FreshIsLost, Reads
<1>13. job[Handling(r)].at # "idle" /\ (\A d \in Call : ~InHand(job[Handling(r)], d)) /\ j.at \in Reads
  BY <1>1, <1>4 DEF InHand, Looks, Reads
<1> QED BY <1>2, <1>4, <1>6, <1>7, <1>8, <1>9, <1>10, <1>11, <1>12, <1>13, SyncGoesOn

(* ... in the registry.                                                    *)
LEMMA RebuiltSyncEnded ==
  ASSUME RebuiltInv, NEW r \in Replica, Rebuilt!SyncEnded(r)
  PROVE  RebuiltInv'
<1>0. CallShape /\ Handling(r) \in Steady!Process /\ RegistryRight /\ ListRight(job[Handling(r)])
      /\ EndsRight(job[Handling(r)]) /\ job[Handling(r)] \in Steady!Job /\ FreshIsLost /\ HungIsGone /\ Hands
  BY Parts DEF RebuiltInv, JobsRight, CallShape
<1>1. job[Handling(r)].at = "endApply"
  BY Alikes DEF Rebuilt!SyncEnded, Rebuilt!Handles
<1>2. queue[r] # <<>> /\ Head(queue[r]) = Sync
  BY <1>0, <1>1, ReaderSyncs DEF Reads
<1> DEFINE c == job[Handling(r)].call
<1>3. c \in Call /\ ~Up(c)
  BY <1>0, <1>1 DEF EndsRight
<1>4. PICK j \in Steady!Job : /\ job' = [job EXCEPT ![Handling(r)] = j] /\ j.at = "ending"
                             /\ j.rows = job[Handling(r)].rows /\ j.live = job[Handling(r)].live
                             /\ j.fresh = job[Handling(r)].fresh /\ j.call = job[Handling(r)].call
  <2> DEFINE p == Handling(r)
             new == [job[p] EXCEPT !.at = "ending"]
  <2>1. job' = [job EXCEPT ![p].at = "ending"] /\ "ending" \in {"idle"} \cup Reads \cup Steps
    BY Alikes DEF Rebuilt!SyncEnded, Rebuilt!At, Reads
  <2>2. /\ new \in Steady!Job /\ job' = [job EXCEPT ![p] = new] /\ new.at = "ending"
        /\ new.rows = job[p].rows /\ new.live = job[p].live /\ new.fresh = job[p].fresh
        /\ new.call = job[p].call
    BY <1>0, <2>1, StageIs
  <2> HIDE DEF new
  <2> QED BY <2>2
<1>5. /\ hash' \in [Call -> (SUBSET Steady!Field) \cup {Steady!Absent}]
      /\ \A d \in Call : Has(d)' <=> (d # c /\ Has(d))
  <2>1. hash' = [hash EXCEPT ![c] = Steady!Absent]
    BY Alikes DEF Rebuilt!SyncEnded, Rebuilt!EndCall
  <2> QED BY <1>0, <1>3, <2>1, EndIs
<1>6. index' = {d \in Call : Has(d)'}
  <2>1. index' = index \ {c}
    BY Alikes DEF Rebuilt!SyncEnded, Rebuilt!EndCall
  <2> QED BY <1>0, <1>5, <2>1 DEF RegistryRight
<1>7. UNCHANGED <<nodeUp, channel, owner, queue, epoch, slips, announced>>
  BY DEF Rebuilt!SyncEnded, Rebuilt!node
<1>8. ListRight(j)
  BY <1>0, <1>1, <1>4 DEF ListRight, Reads, Looks
<1>9. EndsRight(j)'
  <2>1. \A d \in j.rows : Up(d) => d \in j.fresh /\ Has(d) /\ d \in Call
    BY <1>0, <1>1, <1>4 DEF EndsRight, Steady!Job
  <2>2. \A d \in j.rows : Up(d) => d \in j.fresh /\ Has(d)'
    BY <1>3, <1>5, <2>1
  <2>3. \A d : Up(d)' <=> Up(d)
    BY <1>7 DEF Up
  <2> QED BY <1>4, <2>2, <2>3 DEF EndsRight
<1>10. /\ announced' \in [Call -> SUBSET (Steady!Kind \cup {"identified", "lost"})]
       /\ \A d \in Call : "hungup" \in announced'[d] => channel[d] = "gone"
       /\ \A d \in Call : Has(d)' => Begun(d)
       /\ \A d \in Call : Has(d) /\ Up(d) => Has(d)'
  BY <1>0, <1>3, <1>5, <1>7 DEF CallShape, RegistryRight, HungIsGone
<1>11. \A d \in Call : d \in j.fresh /\ Has(d)' => slips = 2
  BY <1>0, <1>1, <1>4, <1>5 DEF FreshIsLost, Reads
<1>12. job[Handling(r)].at # "idle" /\ (\A d \in Call : ~InHand(job[Handling(r)], d)) /\ j.at \in Reads
  BY <1>1, <1>4 DEF InHand, Looks, Reads
<1> HIDE DEF c
<1> QED BY <1>2, <1>4, <1>5, <1>6, <1>7, <1>8, <1>9, <1>10, <1>11, <1>12, SyncGoesOn

(* It is done.                                                             *)
LEMMA RebuiltSyncDone ==
  ASSUME RebuiltInv, NEW r \in Replica, Rebuilt!SyncDone(r)
  PROVE  RebuiltInv'
<1>1. queue[r] # <<>> /\ Head(queue[r]) = Sync /\ job[Handling(r)].at = "ending"
  BY Alikes DEF Rebuilt!SyncDone, Rebuilt!Handles
<1>2. /\ queue' = [queue EXCEPT ![r] = Tail(queue[r])] /\ job' = [job EXCEPT ![Handling(r)] = Pause]
      /\ UNCHANGED <<nodeUp, channel, owner, epoch, slips, announced, hash, index>>
  BY Alikes DEF Rebuilt!SyncDone, Rebuilt!Done, Rebuilt!node, Rebuilt!registry, RebuiltInv, CallShape
<1> QED BY <1>1, <1>2, SyncEndsAll

(* A row of the list, for a sync or a rebuild.                             *)
LEMMA RowIs ==
  ASSUME RebuiltInv, NEW p \in Steady!Process, NEW c \in Call, Rebuilt!Row(p, c)
  PROVE  \E j \in Steady!Job :
           /\ job' = [job EXCEPT ![p] = j] /\ job[p].at = "rows" /\ j.at \in {"rows", "create"}
           /\ j.fresh = job[p].fresh /\ ListRight(j)
           /\ \A d \in Call : Up(d) /\ InHand(job[p], d) => Has(d) \/ InHand(j, d)
           /\ UNCHANGED <<nodeUp, channel, owner, queue, epoch, slips, announced, hash, index>>
<1>0. CallShape /\ ListRight(job[p]) /\ job[p] \in Steady!Job
  BY DEF RebuiltInv, JobsRight, CallShape
<1>1. job[p].at = "rows" /\ c \in job[p].rows
  BY DEF Rebuilt!Row
<1>2. Begun(c) /\ c \notin job[p].fresh
  BY <1>0, <1>1 DEF ListRight, Reads, Looks
<1>3. UNCHANGED <<nodeUp, channel, owner, queue, epoch, slips, announced, hash, index>>
  BY DEF Rebuilt!Row, Rebuilt!node, Rebuilt!registry
<1>4. PICK dump \in SUBSET Steady!Field : dump = IF Rebuilt!HasCall(c) THEN {} ELSE Rebuilt!Facts(c)
  BY DEF Rebuilt!Facts, Steady!Field
<1>7. (Rebuilt!HasCall(c) <=> Has(c)) /\ (Rebuilt!Live(c) <=> Up(c))
  BY Alikes DEF Rebuilt!HasCall, Rebuilt!Live, Has, Up
<1>5. CASE Has(c) \/ ~Up(c)
  <2> DEFINE j == [job[p] EXCEPT !.rows = job[p].rows \ {c}, !.at = "rows", !.call = NoCall, !.dump = dump]
  <2>1. job' = [job EXCEPT ![p] = j]
    BY <1>0, <1>4, <1>5, <1>7 DEF Rebuilt!Row, CallShape
  <2>2. /\ j \in Steady!Job /\ j.at = "rows" /\ j.rows = job[p].rows \ {c}
        /\ j.fresh = job[p].fresh /\ j.live = job[p].live
    BY <1>0 DEF Steady!Job
  <2> HIDE DEF j
  <2>3. ListRight(j)
    BY <1>0, <1>1, <2>2 DEF ListRight, Reads, Looks
  <2>4. \A d \in Call : Up(d) /\ InHand(job[p], d) => Has(d) \/ InHand(j, d)
    BY <1>1, <1>5, <2>2 DEF InHand, Looks
  <2> QED BY <1>1, <1>3, <2>1, <2>2, <2>3, <2>4
<1>6. CASE ~(Has(c) \/ ~Up(c))
  <2> DEFINE j == [job[p] EXCEPT !.rows = job[p].rows \ {c}, !.at = "create", !.call = c, !.dump = dump]
  <2>1. job' = [job EXCEPT ![p] = j]
    BY <1>0, <1>4, <1>6, <1>7 DEF Rebuilt!Row, CallShape
  <2>2. /\ j \in Steady!Job /\ j.at = "create" /\ j.rows = job[p].rows \ {c} /\ j.call = c
        /\ j.fresh = job[p].fresh /\ j.live = job[p].live
    BY <1>0 DEF Steady!Job
  <2> HIDE DEF j
  <2>3. ListRight(j)
    BY <1>0, <1>1, <1>2, <2>2 DEF ListRight, Reads, Looks
  <2>4. \A d \in Call : Up(d) /\ InHand(job[p], d) => Has(d) \/ InHand(j, d)
    BY <1>1, <2>2 DEF InHand, Looks
  <2> QED BY <1>1, <1>3, <2>1, <2>2, <2>3, <2>4
<1> QED BY <1>5, <1>6

(* createCall and updateCall, for a sync or a rebuild.                     *)
LEMMA CallIsRebuilt ==
  ASSUME RebuiltInv, NEW p \in Steady!Process, Rebuilt!RebuildCall(p) \/ Rebuilt!RebuildChanges(p)
  PROVE  \E j \in Steady!Job :
           /\ job' = [job EXCEPT ![p] = j] /\ job[p].at \in {"create", "update"} /\ j.at \in {"rows", "update"}
           /\ j.fresh = job[p].fresh /\ ListRight(j)
           /\ \A d \in Call : InHand(job[p], d) => Has(d)' \/ InHand(j, d)
           /\ hash' \in [Call -> (SUBSET Steady!Field) \cup {Steady!Absent}]
           /\ index' = {d \in Call : Has(d)'}
           /\ \A d \in Call : Has(d) => Has(d)'
           /\ \A d \in Call : Has(d)' => Has(d) \/ (Begun(d) /\ d \notin job[p].fresh)
           /\ UNCHANGED <<nodeUp, channel, owner, queue, epoch, slips, announced>>
<1>0. CallShape /\ ListRight(job[p]) /\ job[p] \in Steady!Job /\ RegistryRight
  BY DEF RebuiltInv, JobsRight, CallShape
<1>1. job[p].at \in {"create", "update"}
  BY DEF Rebuilt!RebuildCall, Rebuilt!RebuildChanges
<1> DEFINE c == job[p].call
<1>2. c \in Call /\ Begun(c) /\ c \notin job[p].fresh
  BY <1>0, <1>1 DEF ListRight
<1>3. UNCHANGED <<nodeUp, channel, owner, queue, epoch, slips, announced>>
  BY DEF Rebuilt!RebuildCall, Rebuilt!RebuildChanges, Rebuilt!node
<1>4. PICK a \in {"rows", "update"} : job' = [job EXCEPT ![p].at = a]
  <2>1. CASE Rebuilt!RebuildCall(p)
    BY <2>1 DEF Rebuilt!RebuildCall
  <2>2. CASE Rebuilt!RebuildChanges(p)
    BY <2>2 DEF Rebuilt!RebuildChanges, Rebuilt!At
  <2> QED BY <2>1, <2>2
<1>5. PICK j \in Steady!Job : /\ job' = [job EXCEPT ![p] = j] /\ j.at = a
                             /\ j.rows = job[p].rows /\ j.live = job[p].live /\ j.fresh = job[p].fresh
                             /\ j.call = job[p].call
  <2> DEFINE new == [job[p] EXCEPT !.at = a]
  <2>1. a \in {"idle"} \cup Reads \cup Steps
    BY DEF Reads, Looks
  <2>2. /\ new \in Steady!Job /\ job' = [job EXCEPT ![p] = new] /\ new.at = a
        /\ new.rows = job[p].rows /\ new.live = job[p].live /\ new.fresh = job[p].fresh
        /\ new.call = job[p].call
    BY <1>0, <1>4, <2>1, StageIs
  <2> HIDE DEF new
  <2> QED BY <2>2
<1>6. ListRight(j)
  BY <1>0, <1>1, <1>2, <1>5 DEF ListRight, Reads, Looks
<1>7. /\ hash' \in [Call -> (SUBSET Steady!Field) \cup {Steady!Absent}]
      /\ index' = {d \in Call : Has(d)'}
      /\ \A d \in Call : Has(d) => Has(d)'
      /\ \A d \in Call : Has(d)' => Has(d) \/ d = c
      /\ Rebuilt!RebuildCall(p) => \A d \in Call : d = c => Has(d)'
  <2>1. CASE Rebuilt!RebuildCall(p)
    <3> DEFINE told == "tenant" \in job[p].dump
    <3>1. /\ told \in BOOLEAN
          /\ hash' = [hash EXCEPT ![c] = (IF hash[c] # Steady!Absent THEN hash[c] \cap {"bridged"} ELSE {})
                                          \cup (IF told THEN {"tenant"} ELSE {})]
          /\ index' = index \cup {c}
      BY <1>0, <2>1, Alikes DEF Rebuilt!RebuildCall, Rebuilt!CreateCall, Rebuilt!HasCall, CallShape
    <3> HIDE DEF told
    <3>2. /\ hash' \in [Call -> (SUBSET Steady!Field) \cup {Steady!Absent}]
          /\ \A d \in Call : Has(d)' <=> (d = c \/ Has(d))
      BY <1>0, <1>2, <3>1, CreateIs
    <3> HIDE DEF c
    <3> QED BY <1>0, <1>2, <3>1, <3>2 DEF RegistryRight
  <2>2. CASE ~Rebuilt!RebuildCall(p)
    <3> DEFINE fields == job[p].dump \ {"tenant"}
    <3>1. /\ Adds(c, fields)
          /\ index' = index
      BY <1>0, <2>2, Alikes DEF Rebuilt!RebuildChanges, Rebuilt!UpdateCall, Rebuilt!HasCall, CallShape, Adds
    <3>2. fields \in SUBSET Steady!Field
      BY <1>0 DEF Steady!Job
    <3> HIDE DEF fields
    <3>3. /\ hash' \in [Call -> (SUBSET Steady!Field) \cup {Steady!Absent}]
          /\ \A d \in Call : Has(d)' <=> Has(d)
      BY <1>0, <1>2, <3>1, <3>2, UpdateIs
    <3> QED BY <1>0, <2>2, <3>1, <3>3 DEF RegistryRight
  <2> QED BY <2>1, <2>2
<1>8. \A d \in Call : InHand(job[p], d) => Has(d)' \/ InHand(j, d)
  <2>1. job[p].at = "create" => Rebuilt!RebuildCall(p)
    BY DEF Rebuilt!RebuildChanges
  <2> QED BY <1>1, <1>5, <1>7, <2>1 DEF InHand, Looks
<1>9. \A d \in Call : Has(d)' => Has(d) \/ (Begun(d) /\ d \notin job[p].fresh)
  BY <1>2, <1>7
<1> HIDE DEF c
<1> QED BY <1>1, <1>3, <1>5, <1>6, <1>7, <1>8, <1>9

(* A row of a list, for a sync.                                            *)
LEMMA RebuiltReads ==
  ASSUME RebuiltInv, NEW r \in Replica, Rebuilt!ReadStep(Handling(r))
  PROVE  RebuiltInv'
<1>0. CallShape /\ Handling(r) \in Steady!Process /\ RegistryRight /\ FreshIsLost /\ HungIsGone /\ Hands
  BY Parts DEF RebuiltInv
<1>1. CASE \E c \in Call : Rebuilt!Row(Handling(r), c)
  <2>1. PICK j \in Steady!Job :
           /\ job' = [job EXCEPT ![Handling(r)] = j] /\ job[Handling(r)].at = "rows" /\ j.at \in {"rows", "create"}
           /\ j.fresh = job[Handling(r)].fresh /\ ListRight(j)
           /\ \A d \in Call : Up(d) /\ InHand(job[Handling(r)], d) => Has(d) \/ InHand(j, d)
           /\ UNCHANGED <<nodeUp, channel, owner, queue, epoch, slips, announced, hash, index>>
    BY <1>0, <1>1, RowIs
  <2>2. EndsRight(j) /\ j.at \in Reads /\ job[Handling(r)].at \in Reads
    BY <2>1 DEF EndsRight, Reads, Looks
  <2> QED BY <2>1, <2>2, SyncLooks
<1>2. CASE Rebuilt!RebuildCall(Handling(r)) \/ Rebuilt!RebuildChanges(Handling(r))
  <2>1. PICK j \in Steady!Job :
           /\ job' = [job EXCEPT ![Handling(r)] = j] /\ job[Handling(r)].at \in {"create", "update"}
           /\ j.at \in {"rows", "update"}
           /\ j.fresh = job[Handling(r)].fresh /\ ListRight(j)
           /\ \A d \in Call : InHand(job[Handling(r)], d) => Has(d)' \/ InHand(j, d)
           /\ hash' \in [Call -> (SUBSET Steady!Field) \cup {Steady!Absent}]
           /\ index' = {d \in Call : Has(d)'}
           /\ \A d \in Call : Has(d) => Has(d)'
           /\ \A d \in Call : Has(d)' => Has(d) \/ (Begun(d) /\ d \notin job[Handling(r)].fresh)
           /\ UNCHANGED <<nodeUp, channel, owner, queue, epoch, slips, announced>>
    BY <1>0, <1>2, CallIsRebuilt
  <2>2. EndsRight(j)' /\ j.at \in Reads /\ job[Handling(r)].at \in Reads /\ job[Handling(r)].at # "idle"
    BY <2>1 DEF EndsRight, Reads, Looks
  <2>3. queue[r] # <<>> /\ Head(queue[r]) = Sync
    BY <1>0, <2>2, ReaderSyncs
  <2>4. \A c \in Call : c \in j.fresh /\ Has(c)' => slips = 2
    BY <1>0, <2>1, <2>2 DEF FreshIsLost
  <2>5. /\ announced' \in [Call -> SUBSET (Steady!Kind \cup {"identified", "lost"})]
        /\ \A d \in Call : "hungup" \in announced'[d] => channel[d] = "gone"
        /\ \A d \in Call : Has(d)' => Begun(d)
    BY <1>0, <2>1 DEF CallShape, RegistryRight, HungIsGone
  <2> QED BY <2>1, <2>2, <2>3, <2>4, <2>5, SyncGoesOn
<1> QED BY <1>1, <1>2 DEF Rebuilt!ReadStep

(* ... and for a rebuild: it claims the epoch, registers what is missing,  *)
(* ends.                                                                   *)
LEMMA RebuiltRebuild ==
  ASSUME RebuiltInv, NEW r \in Replica, Rebuilt!RebuildStep(r)
  PROVE  RebuiltInv'
<1>0. CallShape /\ Rebuilding(r) \in Steady!Process /\ RegistryRight /\ Hands /\ nodeUp
      /\ Rebuilt!Rebuild(r) = Rebuilding(r) /\ Rebuilt!Idle = Pause
  BY Parts, Alikes DEF RebuiltInv, CallShape
<1>1. CASE Rebuilt!ClaimEpoch(r)
  <2>1. ~epoch /\ epoch' = TRUE /\ Lost /\ Rebuilt!List(Rebuilding(r))
    BY <1>0, <1>1 DEF Rebuilt!ClaimEpoch, Lost
  <2>2. PICK j \in Steady!Job : /\ job' = [job EXCEPT ![Rebuilding(r)] = j] /\ j.at = "rows" /\ ListRight(j)
                               /\ \A c \in Call : (Up(c) => c \in j.rows) /\ (c \in j.fresh => ~Begun(c))
    BY <1>0, <2>1, RebuiltList
  <2>3. UNCHANGED <<nodeUp, channel, owner, queue, slips, announced, hash, index>>
    BY <1>1 DEF Rebuilt!ClaimEpoch, Rebuilt!node, Rebuilt!registry
  <2>4. \A c \in Call : Has(c)' <=> Has(c)
    BY <2>3 DEF Has
  <2>5. /\ hash' \in [Call -> (SUBSET Steady!Field) \cup {Steady!Absent}]
        /\ index' = {c \in Call : Has(c)'} /\ \A c \in Call : Has(c)' => Begun(c)
    BY <1>0, <2>3, <2>4 DEF CallShape, RegistryRight
  <2>6. j.at \in Looks /\ \A c \in Call : Up(c) => InHand(j, c)
    BY <2>2 DEF InHand, Looks
  <2> QED BY <2>1, <2>2, <2>3, <2>4, <2>5, <2>6, RebuildGoesOn
<1>2. CASE \E c \in Call : Rebuilt!Row(Rebuilding(r), c)
  <2>1. PICK j \in Steady!Job :
           /\ job' = [job EXCEPT ![Rebuilding(r)] = j] /\ job[Rebuilding(r)].at = "rows" /\ j.at \in {"rows", "create"}
           /\ j.fresh = job[Rebuilding(r)].fresh /\ ListRight(j)
           /\ \A d \in Call : Up(d) /\ InHand(job[Rebuilding(r)], d) => Has(d) \/ InHand(j, d)
           /\ UNCHANGED <<nodeUp, channel, owner, queue, epoch, slips, announced, hash, index>>
    BY <1>0, <1>2, RowIs
  <2>2. Lost
    BY <2>1, Parts DEF Lost
  <2>3. \A c \in Call : Has(c)' <=> Has(c)
    BY <2>1 DEF Has
  <2>4. /\ hash' \in [Call -> (SUBSET Steady!Field) \cup {Steady!Absent}] /\ epoch' \in BOOLEAN
        /\ index' = {c \in Call : Has(c)'} /\ \A c \in Call : Has(c)' => Begun(c)
    BY <1>0, <2>1, <2>3 DEF CallShape, RegistryRight
  <2>5. j.at \in Looks
    BY <2>1 DEF Looks
  <2>6. \A c \in Call : Up(c) /\ (~epoch \/ InHand(job[Rebuilding(r)], c)) => Has(c)' \/ InHand(j, c) \/ ~epoch'
    BY <2>1, <2>3
  <2> QED BY <2>1, <2>2, <2>3, <2>4, <2>5, <2>6, RebuildGoesOn
<1>3. CASE Rebuilt!RebuildCall(Rebuilding(r)) \/ Rebuilt!RebuildChanges(Rebuilding(r))
  <2>1. PICK j \in Steady!Job :
           /\ job' = [job EXCEPT ![Rebuilding(r)] = j] /\ job[Rebuilding(r)].at \in {"create", "update"}
           /\ j.at \in {"rows", "update"}
           /\ j.fresh = job[Rebuilding(r)].fresh /\ ListRight(j)
           /\ \A d \in Call : InHand(job[Rebuilding(r)], d) => Has(d)' \/ InHand(j, d)
           /\ hash' \in [Call -> (SUBSET Steady!Field) \cup {Steady!Absent}]
           /\ index' = {d \in Call : Has(d)'}
           /\ \A d \in Call : Has(d) => Has(d)'
           /\ \A d \in Call : Has(d)' => Has(d) \/ (Begun(d) /\ d \notin job[Rebuilding(r)].fresh)
           /\ UNCHANGED <<nodeUp, channel, owner, queue, epoch, slips, announced>>
    BY <1>0, <1>3, CallIsRebuilt
  <2>2. Lost
    BY <2>1, Parts DEF Lost
  <2>3. j.at \in Looks /\ epoch' \in BOOLEAN /\ \A d \in Call : Has(d)' => Begun(d)
    BY <1>0, <2>1 DEF Looks, CallShape, RegistryRight
  <2>4. \A c \in Call : Up(c) /\ (~epoch \/ InHand(job[Rebuilding(r)], c)) => Has(c)' \/ InHand(j, c) \/ ~epoch'
    BY <2>1
  <2> QED BY <2>1, <2>2, <2>3, <2>4, RebuildGoesOn
<1>4. CASE Rebuilt!RebuildDone(r)
  <2>1. /\ job[Rebuilding(r)].at = "rows" /\ job[Rebuilding(r)].rows = {} /\ job' = [job EXCEPT ![Rebuilding(r)] = Pause]
        /\ UNCHANGED <<nodeUp, channel, owner, queue, epoch, slips, announced, hash, index>>
    BY <1>0, <1>4 DEF Rebuilt!RebuildDone, Rebuilt!node, Rebuilt!registry
  <2>2. Lost
    BY <2>1, Parts DEF Lost
  <2>3. \A c \in Call : Has(c)' <=> Has(c)
    BY <2>1 DEF Has
  <2>4. /\ hash' \in [Call -> (SUBSET Steady!Field) \cup {Steady!Absent}] /\ epoch' \in BOOLEAN
        /\ index' = {c \in Call : Has(c)'} /\ \A c \in Call : Has(c)' => Begun(c)
    BY <1>0, <2>1, <2>3 DEF CallShape, RegistryRight
  <2>5. Pause \in Steady!Job /\ ListRight(Pause)
    BY Parts DEF ListRight, Reads, Looks
  <2>6. \A c \in Call : ~InHand(job[Rebuilding(r)], c)
    BY <2>1 DEF InHand
  <2>7. \A c \in Call : Up(c) /\ (~epoch \/ InHand(job[Rebuilding(r)], c)) => Has(c)' \/ InHand(Pause, c) \/ ~epoch'
    BY <2>1, <2>6
  <2> QED BY <2>1, <2>2, <2>3, <2>4, <2>5, <2>7, RebuildGoesOn
<1> QED BY <1>0, <1>1, <1>2, <1>3, <1>4 DEF Rebuilt!RebuildStep, Rebuilt!ReadStep

(* A channel of the node.                                                  *)
LEMMA RebuiltChannel ==
  ASSUME RebuiltInv, NEW c \in Call, NEW d \in Call,
         Rebuilt!Ring(c) \/ Rebuilt!Answer(c) \/ Rebuilt!Hangup(c) \/ Rebuilt!Bridge(c, d)
  PROVE  RebuiltInv'
<1>1. PICK k \in Steady!Kind, v \in {"ringing", "answered", "bridged", "gone"}, e \in Call :
        /\ \/ channel[c] = "none" /\ v = "ringing" /\ k = "created"
           \/ Up(c) /\ v # "ringing" /\ (k = "hungup" => v = "gone")
        /\ channel' = [channel EXCEPT ![c] = v] /\ Rebuilt!Raise(k, c, e)
  <2>0. {"created", "answered", "bridged", "hungup"} = Steady!Kind
    BY DEF Steady!Kind
  <2>1. CASE Rebuilt!Ring(c)
    BY <2>0, <2>1 DEF Rebuilt!Ring
  <2>2. CASE Rebuilt!Answer(c)
    BY <2>0, <2>2 DEF Rebuilt!Answer, Up
  <2>3. CASE Rebuilt!Hangup(c)
    BY <2>0, <2>3 DEF Rebuilt!Hangup, Rebuilt!Live, Up
  <2>4. CASE Rebuilt!Bridge(c, d)
    BY <2>0, <2>4 DEF Rebuilt!Bridge, Up
  <2> QED BY <2>1, <2>2, <2>3, <2>4
<1>2. /\ queue' = [r \in Replica |->
                     IF r = owner THEN Append(queue[r], [kind |-> k, call |-> c, peer |-> e]) ELSE queue[r]]
      /\ UNCHANGED <<owner, job, epoch, announced, slips, hash, index>>
  BY <1>1 DEF Rebuilt!Raise, Rebuilt!registry
<1>3. UNCHANGED nodeUp
  BY <1>1 DEF Rebuilt!Raise
<1> QED BY <1>1, <1>2, <1>3, ChannelGoesOn

(* Every step keeps what is rebuilt right.                                 *)
LEMMA RebuiltStep ==
  ASSUME RebuiltInv, Rebuilt!Next
  PROVE  RebuiltInv'
<1>0. nodeUp = TRUE
  BY DEF RebuiltInv, CallShape
<1>1. CASE Rebuilt!NodeNext
  BY <1>0, <1>1, RebuiltChannel DEF Rebuilt!NodeNext, Rebuilt!NodeReturns
<1>2. CASE Rebuilt!Lose
  BY <1>0, <1>2, OwnerGoes DEF Rebuilt!Lose, Rebuilt!Fault, Rebuilt!node, Rebuilt!registry
<1>3. CASE Rebuilt!FaultNext
  <2>1. Rebuilt!RedisLost
    BY <1>3 DEF Rebuilt!FaultNext, Rebuilt!NodeDies, Rebuilt!Crash, Rebuilt!Dies, Rebuilt!TaskFails,
                Rebuilt!CallExpires, Rebuilt!Fault
  <2>2. /\ slips < 2 /\ slips' = slips + 1 /\ hash' = [c \in Call |-> Steady!Absent] /\ index' = {} /\ epoch' = FALSE
        /\ UNCHANGED <<nodeUp, channel, owner, queue, job, announced>>
    BY <2>1, Alikes DEF Rebuilt!RedisLost, Rebuilt!Fault, Rebuilt!LoseRegistry, Rebuilt!node
  <2> QED BY <2>2, RegistryGoes
<1>4. ASSUME NEW r \in Replica, Rebuilt!TaskStep(r) PROVE RebuiltInv'
  <2>1. ~Rebuilt!SyncFails(r)
    BY <1>0 DEF Rebuilt!SyncFails
  <2> QED BY <1>4, <2>1, RebuiltTenantFor, RebuiltEvent, RebuiltApply, RebuiltSyncStarts, RebuiltSyncReads,
             RebuiltSyncEnds, RebuiltSyncEnded, RebuiltSyncDone DEF Rebuilt!TaskStep
<1>5. ASSUME NEW r \in Replica, Rebuilt!QueueStep(r) PROVE RebuiltInv'
  BY <1>4, <1>5, RebuiltReads, Alikes DEF Rebuilt!QueueStep
<1>6. ASSUME NEW r \in Replica, Rebuilt!Acquire(r) PROVE RebuiltInv'
  <2>1. \A s \in Replica : queue[s] = <<>>
    BY <1>6 DEF Rebuilt!Acquire, Rebuilt!Drained
  <2>2. /\ owner = NoOne /\ owner' = r /\ queue' = [queue EXCEPT ![r] = Append(queue[r], Sync)]
        /\ UNCHANGED <<nodeUp, channel, job, epoch, announced, slips, hash, index>>
    BY <1>6, Alikes DEF Rebuilt!Acquire, Rebuilt!node, Rebuilt!registry, RebuiltInv, CallShape
  <2> QED BY <2>1, <2>2, OwnerComes
<1> QED BY <1>1, <1>2, <1>3, <1>5, <1>6, RebuiltRebuild DEF Rebuilt!Next

-----------------------------------------------------------------------------
(* A node that keeps its owner.                                            *)

(* Which of two tasks comes first: a call's creation before all else of    *)
(* it, its hangup after.                                                   *)
After(t, u) ==
  /\ u.kind = "created" => u.call \notin {t.call, t.peer}
  /\ t.kind = "hungup" => t.call \notin {u.call, u.peer}

InTurn(s) == \A i, j \in 1..Len(s) : i < j => After(s[i], s[j])

(* Nothing was announced yet that a task is not to follow.                 *)
Untold(t) ==
  /\ t.kind = "created" => announced[t.call] = {}
  /\ "hungup" \notin announced[t.call] /\ "hungup" \notin announced[t.peer]

OneOwner ==
  /\ epoch = TRUE /\ owner \in Replica
  /\ \A r \in Replica : job[Rebuilding(r)] = Pause /\ (r # owner => queue[r] = <<>>)

EventsOnly ==
  \A r \in Replica :
    /\ job[Handling(r)].at \in {"idle"} \cup Steps /\ (queue[r] = <<>> => job[Handling(r)].at = "idle")
    /\ Len(queue[r]) <= 3 /\ InTurn(queue[r])
    /\ \A t \in Wait(r) :
         /\ t # Sync /\ Begun(t.call) /\ Begun(t.peer)
         /\ t.kind \in {"created", "hungup"} => t.peer = t.call
         /\ t.kind = "hungup" => channel[t.call] = "gone"

(* The task in hand was announced once it stands at the registry.          *)
HeadsRight ==
  \A r \in Replica : queue[r] # <<>> =>
    /\ job[Handling(r)].at # "apply" => Untold(Head(queue[r]))
    /\ job[Handling(r)].at = "apply" => Head(queue[r]).kind \in announced[Head(queue[r]).call]
    /\ Head(queue[r]).kind = "created" => job[Handling(r)].at \in {"idle", "apply"}
    /\ \A t \in TasksOf(Tail(queue[r])) : Untold(t)

Shown ==
  \A c \in Call : Has(c) => "created" \in announced[c] /\ hash[c] \ {"tenant"} \subseteq announced[c]

NoneBefore == \A c \in Call : ~Begun(c) => announced[c] = {}

SteadyInv == CallShape /\ OneOwner /\ EventsOnly /\ HeadsRight /\ Shown /\ HungIsGone /\ NoneBefore

(* A task that may follow all others is in turn at the end ...             *)
LEMMA TurnAdds ==
  ASSUME NEW s \in Seq(Steady!Task), NEW t \in Steady!Task, InTurn(s), \A u \in TasksOf(s) : After(u, t)
  PROVE  InTurn(Append(s, t))
<1>1. /\ Len(s) \in Nat /\ Len(Append(s, t)) = Len(s) + 1
      /\ \A i \in 1..Len(s) : Append(s, t)[i] = s[i] /\ s[i] \in TasksOf(s)
      /\ Append(s, t)[Len(s) + 1] = t
  BY DEF TasksOf
<1>2. ASSUME NEW i \in 1..(Len(s) + 1), NEW j \in 1..(Len(s) + 1), i < j
      PROVE  After(Append(s, t)[i], Append(s, t)[j])
  <2>1. i \in 1..Len(s) /\ (j \in 1..Len(s) \/ j = Len(s) + 1)
    BY <1>1, <1>2
  <2> QED BY <1>1, <1>2, <2>1 DEF InTurn
<1> QED BY <1>1, <1>2 DEF InTurn

(* ... and who is first is followed by the rest.                           *)
LEMMA TurnDrops ==
  ASSUME NEW s \in Seq(Steady!Task), s # <<>>, InTurn(s)
  PROVE  InTurn(Tail(s)) /\ \A u \in TasksOf(Tail(s)) : After(Head(s), u)
<1>1. /\ Len(s) \in Nat \ {0} /\ Len(Tail(s)) = Len(s) - 1 /\ Head(s) = s[1]
      /\ \A i \in 1..Len(Tail(s)) : Tail(s)[i] = s[i + 1]
  OBVIOUS
<1>2. \A i \in 1..Len(Tail(s)) : i \in Nat /\ 1 < i + 1 /\ i + 1 \in 1..Len(s) /\ 1 \in 1..Len(s)
  BY <1>1
<1>3. \A i, j \in 1..Len(Tail(s)) : i < j => i + 1 < j + 1
  BY <1>1
<1>4. InTurn(Tail(s))
  BY <1>1, <1>2, <1>3 DEF InTurn
<1>5. \A u \in TasksOf(Tail(s)) : After(Head(s), u)
  BY <1>1, <1>2 DEF InTurn, TasksOf
<1> QED BY <1>4, <1>5

(* The task in hand.                                                       *)
LEMMA SteadyTask ==
  ASSUME SteadyInv, NEW r \in Replica, queue[r] # <<>>
  PROVE  LET t == Head(queue[r])
         IN  /\ t \in Steady!Task /\ t \in Wait(r) /\ t # Sync
             /\ t.kind \in Steady!Kind /\ t.call \in Call /\ t.peer \in Call /\ r = owner
             /\ Wait(r) = {t} \cup TasksOf(Tail(queue[r])) /\ Tail(queue[r]) \in Seq(Steady!Task)
             /\ \A u \in TasksOf(Tail(queue[r])) : /\ After(t, u) /\ u \in Steady!Task
                                                   /\ u.call \in Call /\ u.peer \in Call
<1>1. queue[r] \in Seq(Steady!Task) /\ InTurn(queue[r])
  BY DEF SteadyInv, CallShape, EventsOnly
<1>2. /\ Head(queue[r]) \in Steady!Task /\ Wait(r) = {Head(queue[r])} \cup TasksOf(Tail(queue[r]))
      /\ Tail(queue[r]) \in Seq(Steady!Task)
  BY <1>1, QueueDrops DEF Wait
<1>3. \A u \in TasksOf(Tail(queue[r])) : After(Head(queue[r]), u)
  BY <1>1, TurnDrops
<1>4. \A u \in Wait(r) : u \in Steady!Task /\ u # Sync
  BY <1>1 DEF SteadyInv, EventsOnly, Wait, TasksOf
<1>5. \A u \in Wait(r) : u.kind \in Steady!Kind /\ u.call \in Call /\ u.peer \in Call
  BY <1>4, Parts
<1>6. r = owner
  BY DEF SteadyInv, OneOwner
<1> QED BY <1>2, <1>3, <1>4, <1>5, <1>6

(* Its handling goes on: only what it is about is announced, a hangup when *)
(* it is its turn, and no hash says more than a tenant.                    *)
Announces(t, at) ==
  /\ announced' \in [Call -> SUBSET (Steady!Kind \cup {"identified", "lost"})]
  /\ \A c \in Call : announced[c] \subseteq announced'[c]
  /\ \A c \in Call : c \notin {t.call, t.peer} => announced'[c] = announced[c]
  /\ \A c \in Call : "hungup" \in announced'[c] =>
       "hungup" \in announced[c] \/ (t.kind = "hungup" /\ c = t.call /\ at = "apply")
  /\ at # "apply" => /\ t.kind # "created"
                     /\ "hungup" \notin announced'[t.call] /\ "hungup" \notin announced'[t.peer]
  /\ at = "apply" => t.kind \in announced'[t.call]

AttachesOnly ==
  /\ hash' \in [Call -> (SUBSET Steady!Field) \cup {Steady!Absent}]
  /\ \A c \in Call : (Has(c)' <=> Has(c)) /\ hash'[c] \subseteq hash[c] \cup {"tenant"}

LEMMA SteadyGoesOn ==
  ASSUME SteadyInv, NEW r \in Replica, queue[r] # <<>>, NEW t, t = Head(queue[r]), NEW j \in Steady!Job,
         j.at \in Steps, job' = [job EXCEPT ![Handling(r)] = j], Announces(t, j.at), AttachesOnly,
         UNCHANGED <<nodeUp, channel, owner, queue, epoch, slips, index>>
  PROVE  SteadyInv'
<1> USE DEF SteadyInv, Announces, AttachesOnly
<1>0. /\ Handling(r) \in Steady!Process /\ \A s \in Replica : Rebuilding(s) # Handling(r) /\ Rebuilding(s) \in Steady!Process
      /\ \A s \in Replica : Handling(s) \in Steady!Process /\ (s # r => Handling(s) # Handling(r))
  BY Parts
<1>1. /\ t \in Wait(r) /\ t.call \in Call /\ t.peer \in Call /\ r = owner
      /\ \A u \in TasksOf(Tail(queue[r])) : After(t, u) /\ u.call \in Call /\ u.peer \in Call /\ u \in Wait(r)
  BY SteadyTask
<1>2. /\ job' \in [Steady!Process -> Steady!Job] /\ job'[Handling(r)] = j
      /\ \A q \in Steady!Process : q # Handling(r) => job'[q] = job[q]
  BY <1>0 DEF CallShape
<1>3. CallShape'
  BY <1>2 DEF CallShape
<1>4. OneOwner'
  BY <1>0, <1>2 DEF OneOwner
<1>5. EventsOnly'
  BY <1>0, <1>2 DEF EventsOnly, Wait, Begun
<1>6. HeadsRight'
  <2>1. ASSUME NEW s \in Replica, queue[s] # <<>> PROVE s = r
    BY <1>1, <2>1 DEF OneOwner
  <2>2. j.at # "apply" => Untold(t)'
    BY DEF Untold
  <2>3. ASSUME NEW u \in TasksOf(Tail(queue[r])) PROVE Untold(u)'
    <3>1. Untold(u) /\ After(t, u) /\ u.call \in Call /\ u.peer \in Call
      BY <1>1 DEF HeadsRight
    <3>2. u.kind = "created" => announced'[u.call] = {}
      BY <3>1 DEF Untold, After
    <3>3. ASSUME NEW c \in {u.call, u.peer} PROVE "hungup" \notin announced'[c]
      <4>1. "hungup" \notin announced[c] /\ c \in Call
        BY <3>1 DEF Untold
      <4>4. CASE c = t.call
        <5>1. t.kind # "hungup" \/ t.call \notin {u.call, u.peer}
          BY <3>1 DEF After
        <5> QED BY <4>1, <4>4, <5>1
      <4> QED BY <4>1, <4>4
    <3> QED BY <3>2, <3>3 DEF Untold
  <2> QED BY <1>2, <2>1, <2>2, <2>3 DEF HeadsRight, Steps
<1>7. Shown'
  BY DEF Shown
<1>8. HungIsGone'
  BY <1>1 DEF HungIsGone, EventsOnly
<1>9. NoneBefore'
  BY <1>1 DEF NoneBefore, EventsOnly, Begun
<1> QED BY <1>3, <1>4, <1>5, <1>6, <1>7, <1>8, <1>9

(* A task is done, or given up.                                            *)
LEMMA SteadyEnds ==
  ASSUME SteadyInv, NEW r \in Replica, queue[r] # <<>>,
         queue' = [queue EXCEPT ![r] = Tail(queue[r])],
         job' = [job EXCEPT ![Handling(r)] = Pause],
         hash' \in [Call -> (SUBSET Steady!Field) \cup {Steady!Absent}], index' \subseteq Call,
         Shown', slips' \in 0..2,
         UNCHANGED <<nodeUp, channel, owner, epoch, announced>>
  PROVE  SteadyInv'
<1> USE DEF SteadyInv
<1>0. /\ Handling(r) \in Steady!Process /\ \A s \in Replica : Rebuilding(s) # Handling(r) /\ Rebuilding(s) \in Steady!Process
      /\ \A s \in Replica : Handling(s) \in Steady!Process /\ (s # r => Handling(s) # Handling(r))
      /\ Pause \in Steady!Job /\ Pause.at = "idle"
  BY Parts
<1>1. /\ r = owner /\ Tail(queue[r]) \in Seq(Steady!Task)
      /\ TasksOf(Tail(queue[r])) \subseteq Wait(r)
      /\ \A u \in TasksOf(Tail(queue[r])) : Untold(u)
  BY SteadyTask DEF HeadsRight
<1>2. InTurn(Tail(queue[r])) /\ Len(Tail(queue[r])) <= 3
  <2>1. queue[r] \in Seq(Steady!Task) /\ Len(queue[r]) <= 3 /\ InTurn(queue[r])
    BY DEF EventsOnly, CallShape
  <2> QED BY <2>1, TurnDrops
<1>3. /\ queue'[r] = Tail(queue[r]) /\ \A s \in Replica : s # r => queue'[s] = <<>> /\ queue[s] = <<>>
      /\ queue' \in [Replica -> Seq(Steady!Task)]
  BY <1>1 DEF CallShape, OneOwner
<1>4. /\ job' \in [Steady!Process -> Steady!Job] /\ job'[Handling(r)] = Pause
      /\ \A q \in Steady!Process : q # Handling(r) => job'[q] = job[q]
  BY <1>0 DEF CallShape
<1>5. CallShape'
  BY <1>3, <1>4 DEF CallShape
<1>6. OneOwner'
  BY <1>0, <1>1, <1>3, <1>4 DEF OneOwner
<1>7. \A s \in Replica : job'[Handling(s)].at = "idle"
  BY <1>0, <1>3, <1>4 DEF EventsOnly
<1>8. EventsOnly'
  <2>1. \A s \in Replica : Wait(s)' \subseteq Wait(s)
    BY <1>1, <1>3 DEF Wait
  <2>2. \A s \in Replica : Len(queue'[s]) <= 3 /\ InTurn(queue'[s])
    BY <1>2, <1>3 DEF EventsOnly
  <2> QED BY <1>7, <2>1, <2>2 DEF EventsOnly, Begun
<1>9. HeadsRight'
  <2>1. ASSUME NEW s \in Replica, queue'[s] # <<>>, NEW u, u = Head(queue'[s]) \/ u \in TasksOf(Tail(queue'[s]))
        PROVE  Untold(u)'
    <3>1. s = r
      BY <1>3, <2>1
    <3>2. TasksOf(Tail(queue[r])) = {Head(queue'[s])} \cup TasksOf(Tail(queue'[s]))
      BY <1>1, <1>3, <2>1, <3>1, QueueDrops
    <3> QED BY <1>1, <2>1, <3>2 DEF Untold
  <2> QED BY <1>7, <2>1 DEF HeadsRight, Untold
<1>10. HungIsGone' /\ NoneBefore'
  BY DEF HungIsGone, NoneBefore, Begun
<1> QED BY <1>5, <1>6, <1>8, <1>9, <1>10

(* A channel starts, goes on or ends, and the owner queues the event.      *)
LEMMA SteadyChannelGoesOn ==
  ASSUME SteadyInv, NEW c \in Call, NEW d \in Call, NEW k \in Steady!Kind,
         NEW v \in {"ringing", "answered", "bridged", "gone"},
         \/ channel[c] = "none" /\ d = c /\ v = "ringing" /\ k = "created"
         \/ Up(c) /\ Up(d) /\ k # "created" /\ (k = "hungup" => v = "gone" /\ d = c),
         channel' = [channel EXCEPT ![c] = v], Len(queue[owner]) < 3,
         queue' = [r \in Replica |->
                     IF r = owner THEN Append(queue[r], [kind |-> k, call |-> c, peer |-> d]) ELSE queue[r]],
         UNCHANGED <<nodeUp, owner, job, epoch, announced, slips, hash, index>>
  PROVE  SteadyInv'
<1> USE DEF SteadyInv
<1> DEFINE t == [kind |-> k, call |-> c, peer |-> d]
<1>1. t \in Steady!Task /\ t # Sync
  BY DEF Steady!Task, Sync, Steady!Sync, Steady!Kind
<1>2. t.kind = k /\ t.call = c /\ t.peer = d
  OBVIOUS
<1> HIDE DEF t
<1>3. owner \in Replica /\ queue[owner] \in Seq(Steady!Task) /\ InTurn(queue[owner])
  BY DEF OneOwner, CallShape, EventsOnly
<1>4. /\ Append(queue[owner], t) \in Seq(Steady!Task) /\ Append(queue[owner], t) # <<>>
      /\ TasksOf(Append(queue[owner], t)) = TasksOf(queue[owner]) \cup {t}
      /\ queue[owner] # <<>> => /\ Head(Append(queue[owner], t)) = Head(queue[owner])
                                /\ Tail(Append(queue[owner], t)) = Append(Tail(queue[owner]), t)
      /\ queue[owner] = <<>> => Head(Append(queue[owner], t)) = t /\ Tail(Append(queue[owner], t)) = <<>>
      /\ Len(Append(queue[owner], t)) <= 3
  <2>1. Len(Append(queue[owner], t)) <= 3
    BY <1>3
  <2> QED BY <1>1, <1>3, <2>1, QueueAdds
<1>5. /\ queue' \in [Replica -> Seq(Steady!Task)] /\ queue'[owner] = Append(queue[owner], t)
      /\ \A r \in Replica : r # owner => queue'[r] = queue[r] /\ queue[r] = <<>>
  BY <1>3, <1>4 DEF CallShape, t, OneOwner
<1>6. /\ channel' \in [Call -> {"none", "ringing", "answered", "bridged", "gone"}]
      /\ channel'[c] = v /\ \A e \in Call : e # c => channel'[e] = channel[e]
  BY DEF CallShape
<1>7. /\ \A e \in Call : Begun(e) => Begun(e)'
      /\ \A e \in Call : channel[e] = "gone" => channel'[e] = "gone"
      /\ Begun(c)' /\ Begun(d)'
  BY <1>6 DEF Begun, Up
<1>8. CallShape'
  BY <1>5, <1>6 DEF CallShape
<1>9. OneOwner'
  BY <1>5 DEF OneOwner
<1>10. ASSUME NEW u \in TasksOf(queue[owner])
       PROVE  u \in Steady!Task /\ u.call \in Call /\ u.peer \in Call /\ After(u, t) /\ Begun(u.call) /\ Begun(u.peer)
  <2>1. u \in Wait(owner) /\ u \in Steady!Task /\ u # Sync /\ Begun(u.call) /\ Begun(u.peer)
    BY <1>3 DEF EventsOnly, Wait, TasksOf
  <2>2. u.call \in Call /\ u.peer \in Call
    BY <2>1, Parts
  <2>3. u.kind = "hungup" => channel[u.call] = "gone"
    BY <1>3, <2>1 DEF EventsOnly
  <2>4. After(u, t)
    BY <1>2, <2>1, <2>3 DEF After, Begun, Up
  <2> QED BY <2>1, <2>2, <2>4
<1>11. InTurn(Append(queue[owner], t))
  BY <1>1, <1>3, <1>10, TurnAdds
<1>12. Untold(t)
  <2>1. channel[c] # "gone" /\ channel[d] # "gone"
    BY DEF Up
  <2>2. k = "created" => ~Begun(c)
    BY DEF Begun
  <2> QED BY <1>2, <2>1, <2>2 DEF Untold, HungIsGone, NoneBefore
<1>13. EventsOnly'
  <2>1. ASSUME NEW r \in Replica
        PROVE  /\ job[Handling(r)].at \in {"idle"} \cup Steps /\ (queue'[r] = <<>> => job[Handling(r)].at = "idle")
               /\ Len(queue'[r]) <= 3 /\ InTurn(queue'[r])
    BY <1>4, <1>5, <1>11 DEF EventsOnly
  <2>2. ASSUME NEW r \in Replica, NEW u \in Wait(r)'
        PROVE  /\ u # Sync /\ Begun(u.call)' /\ Begun(u.peer)'
               /\ u.kind \in {"created", "hungup"} => u.peer = u.call
               /\ u.kind = "hungup" => channel'[u.call] = "gone"
    <3>1. r = owner
      BY <1>5, <2>2, NoTasks DEF Wait
    <3>2. u \in TasksOf(queue[owner]) \cup {t}
      BY <1>4, <1>5, <2>2, <3>1 DEF Wait
    <3>3. CASE u = t
      BY <1>1, <1>2, <1>6, <1>7, <3>3
    <3>4. CASE u \in TasksOf(queue[owner])
      <4>1. /\ u # Sync /\ (u.kind \in {"created", "hungup"} => u.peer = u.call)
            /\ (u.kind = "hungup" => channel[u.call] = "gone")
        BY <1>3, <3>4 DEF EventsOnly, Wait
      <4> QED BY <1>7, <1>10, <3>4, <4>1 DEF Begun
    <3> QED BY <3>2, <3>3, <3>4
  <2> QED BY <2>1, <2>2 DEF EventsOnly
<1>14. HeadsRight'
  <2>1. ASSUME NEW r \in Replica, queue'[r] # <<>> PROVE r = owner
    BY <1>5, <2>1
  <2>2. CASE queue[owner] = <<>>
    <3>1. Head(queue'[owner]) = t /\ Tail(queue'[owner]) = <<>> /\ job[Handling(owner)].at = "idle"
      BY <1>3, <1>4, <1>5, <2>2 DEF EventsOnly
    <3>2. Untold(t)'
      BY <1>12 DEF Untold
    <3> QED BY <2>1, <3>1, <3>2, NoTasks DEF HeadsRight, Untold
  <2>3. CASE queue[owner] # <<>>
    <3>1. /\ Head(queue'[owner]) = Head(queue[owner]) /\ Tail(queue'[owner]) = Append(Tail(queue[owner]), t)
          /\ Tail(queue[owner]) \in Seq(Steady!Task)
      BY <1>3, <1>4, <1>5, <2>3, QueueDrops
    <3>0. TasksOf(Append(Tail(queue[owner]), t)) = TasksOf(Tail(queue[owner])) \cup {t}
      BY <1>1, <3>1, QueueAdds
    <3>2. TasksOf(Tail(queue'[owner])) = TasksOf(Tail(queue[owner])) \cup {t}
      BY <3>0, <3>1
    <3>3. \A u \in TasksOf(Tail(queue'[owner])) : Untold(u)'
      BY <1>3, <1>12, <2>3, <3>2 DEF HeadsRight, Untold
    <3>4. ASSUME NEW u, u = Head(queue[owner])
          PROVE  /\ job[Handling(owner)].at # "apply" => Untold(u)'
                 /\ job[Handling(owner)].at = "apply" => u.kind \in announced[u.call]
                 /\ u.kind = "created" => job[Handling(owner)].at \in {"idle", "apply"}
      BY <1>3, <2>3, <3>4 DEF HeadsRight, Untold
    <3> QED BY <2>1, <3>1, <3>3, <3>4 DEF HeadsRight, Untold
  <2> QED BY <2>2, <2>3
<1>15. Shown' /\ HungIsGone' /\ NoneBefore'
  BY <1>7 DEF Shown, HungIsGone, NoneBefore, Has, Begun
<1> QED BY <1>8, <1>9, <1>13, <1>14, <1>15

(* A hash expires.                                                         *)
LEMMA SteadyExpires ==
  ASSUME SteadyInv, NEW c \in Call, hash' = [hash EXCEPT ![c] = Steady!Absent], slips' \in 0..2,
         UNCHANGED <<nodeUp, channel, owner, queue, job, epoch, announced, index>>
  PROVE  SteadyInv'
<1> USE DEF SteadyInv
<1>1. /\ hash' \in [Call -> (SUBSET Steady!Field) \cup {Steady!Absent}]
      /\ \A d \in Call : Has(d)' => Has(d) /\ hash'[d] = hash[d]
  BY EndIs DEF Has
<1>2. CallShape'
  BY <1>1 DEF CallShape
<1>3. OneOwner' /\ EventsOnly' /\ HeadsRight' /\ HungIsGone' /\ NoneBefore'
  BY DEF OneOwner, EventsOnly, HeadsRight, HungIsGone, NoneBefore, Wait, Begun, Untold
<1>4. Shown'
  BY <1>1 DEF Shown
<1> QED BY <1>2, <1>3, <1>4

-----------------------------------------------------------------------------
(* The steps of a node that keeps its owner.                               *)
LEMMA NothingNew == ASSUME UNCHANGED announced PROVE \A c \in Call : Steady!InOrder(c)
BY DEF Steady!InOrder

(* What is announced of a task to come is in order.                        *)
LEMMA SaidInOrder ==
  ASSUME CallShape, NEW d \in Call, NEW k \in Steady!Kind \cup {"identified"}, Steady!Announce(d, k),
         "hungup" \notin announced[d], k = "created" => announced[d] = {}
  PROVE  \A c \in Call : Steady!InOrder(c)
<1>1. announced' = [announced EXCEPT ![d] = announced[d] \cup {k}]
  BY DEF Steady!Announce
<1>2. announced'[d] = announced[d] \cup {k} /\ \A c \in Call : c # d => announced'[c] = announced[c]
  BY <1>1, AnnounceIs
<1> QED BY <1>2 DEF Steady!InOrder

(* The task of a step.                                                     *)
LEMMA SteadyCurrent ==
  ASSUME SteadyInv, NEW r \in Replica, NEW t \in Steady!Current(r)
  PROVE  /\ queue[r] # <<>> /\ t = Head(queue[r]) /\ t \in Steady!Task /\ t # Sync
         /\ \A a : Steady!Handles(r, t, a) => job[Handling(r)].at = a
         /\ t.kind \in Steady!Kind /\ t.call \in Call /\ t.peer \in Call
         /\ t.kind \in {"created", "hungup"} => t.peer = t.call
<1>1. queue[r] \in Seq(Steady!Task)
  BY DEF SteadyInv, CallShape
<1>2. queue[r] # <<>> /\ t = Head(queue[r])
  BY <1>1 DEF Steady!Current
<1>3. \A a : Steady!Handles(r, t, a) => job[Handling(r)].at = a
  BY Alikes DEF Steady!Handles
<1> QED BY <1>2, <1>3, SteadyTask DEF SteadyInv, EventsOnly

(* tenantFor: nothing is announced yet.                                    *)
LEMMA SteadyTenantFor ==
  ASSUME SteadyInv, NEW r \in Replica, NEW t \in Steady!Current(r), Steady!TenantFor(r, t)
  PROVE  SteadyInv' /\ \A c \in Call : Steady!InOrder(c)
<1>1. CallShape /\ queue[r] # <<>> /\ t = Head(queue[r]) /\ t.call \in Call
  BY SteadyCurrent DEF SteadyInv
<1>2. t.kind # "created" /\ Untold(t)
  <2>1. job[Handling(r)].at = "idle" /\ t.kind \in {"answered", "bridged", "hungup"}
    BY SteadyCurrent DEF Steady!TenantFor
  <2> QED BY <1>1, <2>1 DEF SteadyInv, HeadsRight
<1>3. PICK known \in BOOLEAN, at \in {"identify", "peer", "write"} :
        job' = [job EXCEPT ![Handling(r)] = [Pause EXCEPT !.at = at, !.known = known]]
  <2> DEFINE known == Steady!Told(t) \/ Steady!TenantOf(t.call)
             at == IF Steady!Told(t) /\ Steady!Attaches(t.call) THEN "identify" ELSE Steady!Onward(t, known)
  <2>1. known \in BOOLEAN /\ at \in {"identify", "peer", "write"}
    BY DEF Steady!Onward, Steady!Told, Steady!TenantOf, Steady!HasCall
  <2>2. job' = [job EXCEPT ![Handling(r)] = [Pause EXCEPT !.at = at, !.known = known]]
    BY Alikes DEF Steady!TenantFor, Pause
  <2> QED BY <2>1, <2>2
<1>4. /\ hash' \in [Call -> (SUBSET Steady!Field) \cup {Steady!Absent}] /\ index' = index
      /\ \A d \in Call : (Has(d)' <=> Has(d)) /\ hash'[d] \subseteq hash[d] \cup {"tenant"}
  <2>1. CASE Steady!Told(t)
    <3>1. /\ Adds(t.call, {"tenant"})
          /\ index' = index
      BY <1>1, <2>1 DEF Steady!TenantFor, Steady!AttachTenant, Steady!UpdateCall, Steady!HasCall, CallShape, Adds
    <3>2. {"tenant"} \in SUBSET Steady!Field
      BY DEF Steady!Field
    <3>3. /\ hash' \in [Call -> (SUBSET Steady!Field) \cup {Steady!Absent}]
          /\ \A d \in Call : Has(d)' <=> Has(d)
          /\ \A d \in Call : hash'[d] \subseteq hash[d] \cup (IF d = t.call THEN {"tenant"} ELSE {})
      BY <1>1, <3>1, <3>2, UpdateIs
    <3> QED BY <3>1, <3>3
  <2>2. CASE ~Steady!Told(t)
    BY <1>1, <2>2 DEF Steady!TenantFor, Steady!registry, CallShape, Has
  <2> QED BY <2>1, <2>2
<1> DEFINE new == [Pause EXCEPT !.at = at, !.known = known]
<1>5. new \in Steady!Job /\ new.at \in Steps /\ new.at # "apply"
  BY DEF Pause, Steady!Idle, Steady!Job, Steps, Steady!Field
<1>6. job' = [job EXCEPT ![Handling(r)] = new]
  BY <1>3
<1>7. UNCHANGED <<nodeUp, channel, owner, queue, epoch, slips, announced>>
  BY DEF Steady!TenantFor, Steady!node
<1>8. /\ announced' \in [Call -> SUBSET (Steady!Kind \cup {"identified", "lost"})]
      /\ "hungup" \notin announced'[t.call] /\ "hungup" \notin announced'[t.peer]
  BY <1>1, <1>2, <1>7 DEF CallShape, Untold
<1> HIDE DEF new
<1>9. SteadyInv'
  <2>1. Announces(t, new.at) /\ AttachesOnly
    BY <1>2, <1>4, <1>5, <1>7, <1>8 DEF Announces, AttachesOnly
  <2> QED BY <1>1, <1>4, <1>5, <1>6, <1>7, <2>1, SteadyGoesOn
<1> QED BY <1>7, <1>9, NothingNew

(* identify, the other leg of a bridge, and the outbox row: in order.      *)
LEMMA SteadyEvent ==
  ASSUME SteadyInv, NEW r \in Replica, NEW t \in Steady!Current(r),
         Steady!Identify(r, t) \/ Steady!AttachPeer(r, t) \/ Steady!IdentifyPeer(r, t) \/ Steady!Write(r, t)
  PROVE  SteadyInv' /\ \A c \in Call : Steady!InOrder(c)
<1>0. CallShape /\ Handling(r) \in Steady!Process
  BY Parts DEF SteadyInv
<1>1. /\ queue[r] # <<>> /\ t = Head(queue[r])
      /\ t.kind \in Steady!Kind /\ t.call \in Call /\ t.peer \in Call
      /\ t.kind \in {"created", "hungup"} => t.peer = t.call
  BY SteadyCurrent
<1>2. job[Handling(r)].at # "apply" /\ (~Steady!Write(r, t) => job[Handling(r)].at \in {"identify", "peer", "identifyPeer"})
  <2>1. \/ Steady!Handles(r, t, "identify") \/ Steady!Handles(r, t, "peer") \/ Steady!Handles(r, t, "identifyPeer")
        \/ Steady!Write(r, t) /\ (Steady!Handles(r, t, "write") \/ Steady!Handles(r, t, "idle"))
    BY DEF Steady!Identify, Steady!AttachPeer, Steady!IdentifyPeer, Steady!Write
  <2> QED BY <2>1, SteadyCurrent
<1>3. Untold(t) /\ (~Steady!Write(r, t) => t.kind # "created")
  BY <1>1, <1>2 DEF SteadyInv, HeadsRight
<1>4. PICK a \in Steps : /\ job' = [job EXCEPT ![Handling(r)].at = a]
                         /\ a = "apply" <=> Steady!Write(r, t)
  <2>1. CASE Steady!Write(r, t)
    BY <2>1, Alikes DEF Steady!Write, Steady!At, Steps
  <2>2. CASE ~Steady!Write(r, t)
    BY <2>2, Alikes DEF Steady!Identify, Steady!AttachPeer, Steady!IdentifyPeer, Steady!At, Steady!Onward, Steps
  <2> QED BY <2>1, <2>2
<1>5. PICK j \in Steady!Job : job' = [job EXCEPT ![Handling(r)] = j] /\ j.at = a
  <2>1. a \in {"idle"} \cup Reads \cup Steps /\ job' = [job EXCEPT ![Handling(r)].at = a]
    BY <1>4
  <2> QED BY ZenonT(60), <1>0, <2>1, StageIs
<1>6. UNCHANGED <<nodeUp, channel, owner, queue, epoch, slips>>
  BY DEF Steady!Identify, Steady!AttachPeer, Steady!IdentifyPeer, Steady!Write, Steady!node
<1>7. /\ announced' \in [Call -> SUBSET (Steady!Kind \cup {"identified", "lost"})]
      /\ \A c \in Call : announced[c] \subseteq announced'[c]
      /\ \A c \in Call : c \notin {t.call, t.peer} => announced'[c] = announced[c]
      /\ \A c \in Call : "hungup" \in announced'[c] =>
           "hungup" \in announced[c] \/ (t.kind = "hungup" /\ c = t.call /\ j.at = "apply")
      /\ j.at = "apply" => t.kind \in announced'[t.call]
      /\ \A c \in Call : Steady!InOrder(c)
  <2>1. CASE Steady!AttachPeer(r, t) /\ ~Steady!Write(r, t)
    <3>1. UNCHANGED announced
      BY <2>1 DEF Steady!AttachPeer
    <3> QED BY <1>0, <1>4, <1>5, <2>1, <3>1, NothingNew DEF CallShape
  <2>2. ASSUME NEW d \in {t.call, t.peer}, NEW k \in Steady!Kind \cup {"identified"}, Steady!Announce(d, k),
               IF Steady!Write(r, t) THEN d = t.call /\ k = t.kind ELSE k = "identified"
        PROVE  /\ announced' \in [Call -> SUBSET (Steady!Kind \cup {"identified", "lost"})]
               /\ \A c \in Call : announced[c] \subseteq announced'[c]
               /\ \A c \in Call : c \notin {t.call, t.peer} => announced'[c] = announced[c]
               /\ \A c \in Call : "hungup" \in announced'[c] =>
                    "hungup" \in announced[c] \/ (t.kind = "hungup" /\ c = t.call /\ j.at = "apply")
               /\ j.at = "apply" => t.kind \in announced'[t.call]
               /\ \A c \in Call : Steady!InOrder(c)
    <3>0. d \in Call
      BY <1>1
    <3>1. announced' = [announced EXCEPT ![d] = announced[d] \cup {k}]
      BY <2>2 DEF Steady!Announce
    <3>2. /\ announced' \in [Call -> SUBSET (Steady!Kind \cup {"identified", "lost"})]
          /\ announced'[d] = announced[d] \cup {k}
          /\ \A e \in Call : e # d => announced'[e] = announced[e]
      BY <1>0, <3>0, <3>1, AnnounceIs
    <3>3. k = "created" => t.kind = "created" /\ d = t.call
      BY <2>2
    <3>4. "hungup" \notin announced[d] /\ (k = "created" => announced[d] = {})
      BY <1>3, <2>2, <3>3 DEF Untold
    <3>5. \A c \in Call : Steady!InOrder(c)
      BY <1>0, <2>2, <3>0, <3>4, SaidInOrder
    <3>6. j.at = "apply" => t.kind \in announced'[t.call]
      BY <1>4, <1>5, <2>2, <3>2
    <3>7. k = "hungup" => t.kind = "hungup" /\ d = t.call /\ j.at = "apply"
      BY <1>4, <1>5, <2>2
    <3> QED BY <2>2, <3>2, <3>5, <3>6, <3>7
  <2>3. CASE Steady!Write(r, t)
    <3>1. Steady!Announce(t.call, t.kind)
      BY <2>3 DEF Steady!Write
    <3> QED BY <1>1, <2>2, <2>3, <3>1
  <2>4. CASE Steady!Identify(r, t) /\ ~Steady!Write(r, t)
    <3>1. Steady!Announce(t.call, "identified")
      BY <2>4 DEF Steady!Identify
    <3> QED BY <2>2, <2>4, <3>1
  <2>5. CASE Steady!IdentifyPeer(r, t) /\ ~Steady!Write(r, t)
    <3>1. Steady!Announce(t.peer, "identified")
      BY <2>5 DEF Steady!IdentifyPeer
    <3> QED BY <2>2, <2>5, <3>1
  <2> QED BY <2>1, <2>3, <2>4, <2>5
<1>8. /\ hash' \in [Call -> (SUBSET Steady!Field) \cup {Steady!Absent}] /\ index' = index
      /\ \A d \in Call : (Has(d)' <=> Has(d)) /\ hash'[d] \subseteq hash[d] \cup {"tenant"}
  <2>1. CASE Steady!AttachPeer(r, t)
    <3>0. PICK d \in Call : d = t.peer
      BY <1>1
    <3>1. /\ Adds(d, {"tenant"})
          /\ index' = index
      BY <1>0, <2>1, <3>0 DEF Steady!AttachPeer, Steady!AttachTenant, Steady!UpdateCall, Steady!HasCall, CallShape, Adds
    <3>2. {"tenant"} \in SUBSET Steady!Field
      BY DEF Steady!Field
    <3>3. /\ hash' \in [Call -> (SUBSET Steady!Field) \cup {Steady!Absent}]
          /\ \A e \in Call : Has(e)' <=> Has(e)
          /\ \A e \in Call : hash'[e] \subseteq hash[e] \cup (IF e = d THEN {"tenant"} ELSE {})
      BY <1>0, <3>1, <3>2, UpdateIs
    <3> QED BY <3>1, <3>3
  <2>2. CASE ~Steady!AttachPeer(r, t)
    BY <1>0, <2>2 DEF Steady!Identify, Steady!IdentifyPeer, Steady!Write, Steady!registry, CallShape, Has
  <2> QED BY <2>1, <2>2
<1>9. j.at # "apply" => /\ t.kind # "created"
                        /\ "hungup" \notin announced'[t.call] /\ "hungup" \notin announced'[t.peer]
  BY <1>1, <1>3, <1>4, <1>5, <1>7 DEF Untold
<1>10. SteadyInv'
  <2>1. j.at \in Steps /\ job' = [job EXCEPT ![Handling(r)] = j]
    BY <1>4, <1>5
  <2>2. queue[r] # <<>> /\ t = Head(queue[r])
    BY <1>1
  <2>3. UNCHANGED <<nodeUp, channel, owner, queue, epoch, slips, index>>
    BY <1>6, <1>8
  <2>4. Announces(t, j.at) /\ AttachesOnly
    BY <1>7, <1>8, <1>9 DEF Announces, AttachesOnly
  <2> QED BY <2>1, <2>2, <2>3, <2>4, SteadyGoesOn
<1> QED BY <1>7, <1>10

(* The registry, after the row: it shows what was announced.               *)
LEMMA SteadyApply ==
  ASSUME SteadyInv, NEW r \in Replica, NEW t \in Steady!Current(r), Steady!Apply(r, t)
  PROVE  SteadyInv' /\ \A c \in Call : Steady!InOrder(c)
<1>0. CallShape /\ Shown
  BY DEF SteadyInv
<1>1. /\ queue[r] # <<>> /\ t = Head(queue[r]) /\ job[Handling(r)].at = "apply"
      /\ t.kind \in Steady!Kind /\ t.call \in Call
  BY SteadyCurrent DEF Steady!Apply
<1>2. t.kind \in announced[t.call]
  BY <1>1 DEF SteadyInv, HeadsRight
<1>3. /\ queue' = [queue EXCEPT ![r] = Tail(queue[r])] /\ job' = [job EXCEPT ![Handling(r)] = Pause]
      /\ UNCHANGED <<nodeUp, channel, owner, epoch, slips, announced>>
  BY <1>0, Alikes DEF Steady!Apply, Steady!Done, Steady!node, Pause, CallShape
<1>4. PICK e \in Call : e = t.call
  BY <1>1
<1>5. /\ hash' \in [Call -> (SUBSET Steady!Field) \cup {Steady!Absent}] /\ index' \subseteq Call
      /\ \A c \in Call : Has(c)' => /\ Has(c) \/ (c = e /\ t.kind = "created")
                                    /\ hash'[c] \subseteq {"tenant"} \cup (IF Has(c) THEN hash[c] ELSE {})
                                                            \cup (IF c = e THEN {t.kind} ELSE {})
  <2>1. CASE t.kind = "created"
    <3> DEFINE told == Steady!Told(t)
    <3>1. /\ told \in BOOLEAN
          /\ hash' = [hash EXCEPT ![e] = (IF hash[e] # Steady!Absent THEN hash[e] \cap {"bridged"} ELSE {})
                                            \cup (IF told THEN {"tenant"} ELSE {})]
          /\ index' = index \cup {e}
      BY <1>0, <1>4, <2>1 DEF Steady!Apply, Steady!Told, Steady!CreateCall, Steady!HasCall, CallShape
    <3> HIDE DEF told
    <3>2. /\ hash' \in [Call -> (SUBSET Steady!Field) \cup {Steady!Absent}]
          /\ \A d \in Call : Has(d)' <=> (d = e \/ Has(d))
          /\ \A d \in Call : d # e => hash'[d] = hash[d]
          /\ hash'[e] \subseteq {"tenant"} \cup (IF Has(e) THEN hash[e] ELSE {})
      BY <1>0, <3>1, CreateIs
    <3>3. index' \subseteq Call
      BY <1>0, <3>1 DEF CallShape
    <3> QED BY <2>1, <3>2, <3>3
  <2>2. CASE t.kind = "hungup"
    <3>1. hash' = [hash EXCEPT ![e] = Steady!Absent] /\ index' = index \ {e}
      BY <1>4, <2>2 DEF Steady!Apply, Steady!EndCall
    <3>2. /\ hash' \in [Call -> (SUBSET Steady!Field) \cup {Steady!Absent}]
          /\ \A d \in Call : Has(d)' <=> (d # e /\ Has(d))
          /\ \A d \in Call : d # e => hash'[d] = hash[d]
      BY <1>0, <3>1, EndIs
    <3>3. index' \subseteq Call
      BY <1>0, <3>1 DEF CallShape
    <3> QED BY <3>2, <3>3
  <2>3. CASE t.kind \in {"answered", "bridged"}
    <3>1. /\ Adds(e, {t.kind})
          /\ index' = index
      BY <1>0, <1>4, <2>3 DEF Steady!Apply, Steady!UpdateCall, Steady!HasCall, CallShape, Adds
    <3>2. {t.kind} \in SUBSET Steady!Field
      BY <2>3 DEF Steady!Field
    <3>3. /\ hash' \in [Call -> (SUBSET Steady!Field) \cup {Steady!Absent}]
          /\ \A d \in Call : Has(d)' <=> Has(d)
          /\ \A d \in Call : hash'[d] \subseteq hash[d] \cup (IF d = e THEN {t.kind} ELSE {})
      BY <1>0, <3>1, <3>2, UpdateIs
    <3>4. index' \subseteq Call
      BY <1>0, <3>1 DEF CallShape
    <3> QED BY <3>3, <3>4
  <2> QED BY <1>1, <2>1, <2>2, <2>3 DEF Steady!Kind
<1>6. Shown'
  <2>1. ASSUME NEW c \in Call, Has(c)' PROVE "created" \in announced[c] /\ hash'[c] \ {"tenant"} \subseteq announced[c]
    <3>1. CASE Has(c)
      BY <1>0, <1>2, <1>4, <1>5, <2>1, <3>1 DEF Shown
    <3>2. CASE ~Has(c)
      BY <1>2, <1>4, <1>5, <2>1, <3>2
    <3> QED BY <3>1, <3>2
  <2> QED BY <1>3, <2>1 DEF Shown
<1>7. slips' \in 0..2
  BY <1>0, <1>3 DEF CallShape
<1>8. SteadyInv'
  BY <1>1, <1>3, <1>5, <1>6, <1>7, SteadyEnds
<1> QED BY <1>3, <1>8, NothingNew

(* No list of the node is read: there is no sync, and no rebuild.          *)
LEMMA SteadyReadsNothing ==
  ASSUME SteadyInv, NEW r \in Replica
  PROVE  ~Steady!ReadStep(Handling(r)) /\ ~Steady!RebuildStep(r)
<1>1. job[Handling(r)].at \in {"idle"} \cup Steps /\ job[Rebuilding(r)] = Pause /\ Pause.at = "idle" /\ epoch = TRUE
  BY Parts DEF SteadyInv, EventsOnly, OneOwner
<1> QED BY <1>1, Alikes DEF Steady!ReadStep, Steady!RebuildStep, Steady!RebuildCall, Steady!RebuildChanges, Steady!Row,
                            Steady!ClaimEpoch, Steady!RebuildDone, Steps

(* The owner has no sync, as it does not change.                           *)
LEMMA SteadySyncsNothing ==
  ASSUME SteadyInv, NEW r \in Replica, NEW a
  PROVE  ~Steady!Handles(r, Sync, a)
<1>1. queue[r] # <<>> => Head(queue[r]) # Sync
  BY SteadyTask
<1> QED BY <1>1 DEF Steady!Handles

(* One step of a task.                                                     *)
LEMMA SteadyTaskStep ==
  ASSUME SteadyInv, NEW r \in Replica, Steady!TaskStep(r)
  PROVE  SteadyInv' /\ \A c \in Call : Steady!InOrder(c)
<1>1. \A a : ~Steady!Handles(r, Steady!Sync, a)
  BY SteadySyncsNothing DEF Sync
<1>2. PICK t \in Steady!Current(r) :
        \/ Steady!TenantFor(r, t) \/ Steady!Identify(r, t) \/ Steady!AttachPeer(r, t) \/ Steady!IdentifyPeer(r, t)
        \/ Steady!Write(r, t) \/ Steady!Apply(r, t)
  BY <1>1 DEF Steady!TaskStep, Steady!SyncStarts, Steady!SyncCalls, Steady!SyncEnded, Steady!SyncDone, Steady!SyncFails,
              Steady!SyncSpares, Steady!SyncEnds
<1> QED BY <1>2, SteadyTenantFor, SteadyEvent, SteadyApply

(* A channel of the node.                                                  *)
LEMMA SteadyChannel ==
  ASSUME SteadyInv, NEW c \in Call, NEW d \in Call,
         Steady!Ring(c) \/ Steady!Answer(c) \/ Steady!Hangup(c) \/ Steady!Bridge(c, d)
  PROVE  SteadyInv' /\ \A e \in Call : Steady!InOrder(e)
<1>1. PICK k \in Steady!Kind, v \in {"ringing", "answered", "bridged", "gone"}, e \in Call :
        /\ \/ channel[c] = "none" /\ e = c /\ v = "ringing" /\ k = "created"
           \/ Up(c) /\ Up(e) /\ k # "created" /\ (k = "hungup" => v = "gone" /\ e = c)
        /\ channel' = [channel EXCEPT ![c] = v] /\ Steady!Raise(k, c, e) /\ UNCHANGED nodeUp
  <2>0. {"created", "answered", "bridged", "hungup"} = Steady!Kind
    BY DEF Steady!Kind
  <2>1. CASE Steady!Ring(c)
    BY <2>0, <2>1 DEF Steady!Ring, Steady!Raise
  <2>2. CASE Steady!Answer(c)
    BY <2>0, <2>2 DEF Steady!Answer, Steady!Raise, Up
  <2>3. CASE Steady!Hangup(c)
    BY <2>0, <2>3 DEF Steady!Hangup, Steady!Raise, Steady!Live, Up
  <2>4. CASE Steady!Bridge(c, d)
    BY <2>0, <2>4 DEF Steady!Bridge, Steady!Raise, Steady!Live, Up
  <2> QED BY <2>1, <2>2, <2>3, <2>4
<1>2. owner # NoOne
  BY Parts DEF SteadyInv, OneOwner
<1>3. /\ Len(queue[owner]) < 3
      /\ queue' = [r \in Replica |->
                     IF r = owner THEN Append(queue[r], [kind |-> k, call |-> c, peer |-> e]) ELSE queue[r]]
      /\ UNCHANGED <<nodeUp, owner, job, epoch, announced, slips, hash, index>>
  BY <1>1, <1>2 DEF Steady!Raise, Steady!registry
<1>4. SteadyInv'
  BY <1>1, <1>3, SteadyChannelGoesOn
<1> QED BY <1>3, <1>4, NothingNew

(* A task that is given up, and a hash that expires.                       *)
LEMMA SteadyFault ==
  ASSUME SteadyInv, Steady!FaultNext
  PROVE  SteadyInv' /\ \A c \in Call : Steady!InOrder(c)
<1>0. CallShape /\ Shown
  BY DEF SteadyInv
<1>1. (slips < 2 /\ slips' = slips + 1) => slips' \in 0..2
  BY <1>0 DEF CallShape
<1>2. ASSUME NEW r \in Replica, Steady!TaskFails(r) PROVE SteadyInv' /\ \A c \in Call : Steady!InOrder(c)
  <2>1. /\ queue[r] # <<>> /\ slips < 2 /\ slips' = slips + 1
        /\ queue' = [queue EXCEPT ![r] = Tail(queue[r])] /\ job' = [job EXCEPT ![Handling(r)] = Pause]
        /\ UNCHANGED <<nodeUp, channel, owner, epoch, announced, hash, index>>
    BY <1>0, <1>2, Alikes DEF Steady!TaskFails, Steady!Fault, Steady!Done, Steady!node, Steady!registry, Pause, CallShape
  <2>2. hash' \in [Call -> (SUBSET Steady!Field) \cup {Steady!Absent}] /\ index' \subseteq Call /\ Shown'
    BY <1>0, <2>1 DEF CallShape, Shown, Has
  <2>3. SteadyInv'
    BY <1>1, <2>1, <2>2, SteadyEnds
  <2> QED BY <2>1, <2>3, NothingNew
<1>3. ASSUME NEW c \in Call, Steady!CallExpires(c) PROVE SteadyInv' /\ \A e \in Call : Steady!InOrder(e)
  <2>1. /\ slips < 2 /\ slips' = slips + 1 /\ hash' = [hash EXCEPT ![c] = Steady!Absent]
        /\ UNCHANGED <<nodeUp, channel, owner, queue, job, epoch, announced, index>>
    BY <1>3 DEF Steady!CallExpires, Steady!Fault, Steady!ExpireCall, Steady!node
  <2>2. SteadyInv'
    BY <1>1, <2>1, SteadyExpires
  <2> QED BY <2>1, <2>2, NothingNew
<1>4. ~Steady!NodeDies /\ ~Steady!RedisLost /\ \A r \in Replica : ~Steady!Crash(r)
  BY DEF Steady!NodeDies, Steady!RedisLost, Steady!Crash, Steady!Dies, Steady!Fault
<1> QED BY <1>2, <1>3, <1>4 DEF Steady!FaultNext

(* Every step keeps a steady node right and announces in order.            *)
LEMMA SteadyStep ==
  ASSUME SteadyInv, Steady!Next
  PROVE  SteadyInv' /\ \A c \in Call : Steady!InOrder(c)
<1>0. nodeUp = TRUE /\ owner # NoOne
  BY Parts DEF SteadyInv, CallShape, OneOwner
<1>1. CASE Steady!NodeNext
  BY <1>0, <1>1, SteadyChannel DEF Steady!NodeNext, Steady!NodeReturns
<1>2. ~Steady!Lose /\ \A r \in Replica : ~Steady!Acquire(r)
  BY <1>0 DEF Steady!Lose, Steady!Fault, Steady!Acquire
<1>3. ASSUME NEW r \in Replica, Steady!QueueStep(r) PROVE SteadyInv' /\ \A c \in Call : Steady!InOrder(c)
  BY <1>3, SteadyTaskStep, SteadyReadsNothing, Alikes DEF Steady!QueueStep
<1> QED BY <1>1, <1>2, <1>3, SteadyFault, SteadyReadsNothing DEF Steady!Next

-----------------------------------------------------------------------------
(* The theorems.                                                           *)

EventsInv ==
  /\ part \in {"delivery", "rebuild", "steady"}
  /\ part # "steady" => RebuiltInv
  /\ part = "steady" => SteadyInv

(* At the start there is no call.                                          *)
LEMMA EventsStart ==
  ASSUME Rebuilt!Init
  PROVE  RebuiltInv /\ SteadyInv
<1>1. /\ hash = [c \in Call |-> Steady!Absent] /\ index = {} /\ nodeUp = TRUE /\ epoch = TRUE
      /\ channel = [c \in Call |-> "none"] /\ owner \in Replica /\ queue = [r \in Replica |-> <<>>]
      /\ job = [p \in Steady!Process |-> Pause] /\ announced = [c \in Call |-> {}] /\ slips = 0
  BY Alikes DEF Rebuilt!Init, Rebuilt!RegistryInit
<1>2. /\ \A c \in Call : ~Has(c) /\ ~Up(c) /\ ~Begun(c) /\ announced[c] = {}
      /\ \A r \in Replica : queue[r] = <<>> /\ Wait(r) = {} /\ Len(queue[r]) = 0
      /\ \A p \in Steady!Process : job[p] = Pause
      /\ \A r \in Replica : job[Handling(r)] = Pause /\ job[Rebuilding(r)] = Pause
      /\ Pause.at = "idle" /\ owner # NoOne
  BY <1>1, NoTasks, Parts DEF Has, Up, Begun, Wait
<1>3. CallShape
  BY <1>1, Parts, NoTasks DEF CallShape
<1>4. OneQueue /\ Hands /\ TasksRight /\ RegistryRight /\ HungIsGone /\ FreshIsLost
  BY <1>1, <1>2 DEF OneQueue, Hands, TasksRight, RegistryRight, HungIsGone, FreshIsLost, Reads, Looks, Steps
<1>5. JobsRight
  BY <1>2 DEF JobsRight, ListRight, EndsRight, Reads, Looks
<1>6. FaultsCounted /\ NoneForgotten
  BY <1>1, <1>2 DEF FaultsCounted, Lost, Away, NoneForgotten
<1>7. OneOwner /\ HeadsRight /\ Shown /\ NoneBefore
  BY <1>1, <1>2 DEF OneOwner, HeadsRight, Shown, NoneBefore
<1>8. EventsOnly
  <2>1. \A r \in Replica : InTurn(queue[r])
    BY <1>2 DEF InTurn
  <2> QED BY <1>2, <2>1 DEF EventsOnly
<1> QED BY <1>3, <1>4, <1>5, <1>6, <1>7, <1>8 DEF RebuiltInv, SteadyInv

(* Where nothing happens to the calls.                                     *)
LEMMA CallsStay ==
  ASSUME UNCHANGED calls
  PROVE  (RebuiltInv => RebuiltInv') /\ (SteadyInv => SteadyInv') /\ \A c \in Call : Steady!InOrder(c)
<1>1. UNCHANGED <<nodeUp, channel, owner, queue, job, epoch, announced, slips, hash, index>>
  BY DEF calls
<1>2. /\ \A c \in Call : (Up(c)' <=> Up(c)) /\ (Begun(c)' <=> Begun(c)) /\ (Has(c)' <=> Has(c))
      /\ \A r \in Replica : Wait(r)' = Wait(r)
      /\ (CallShape => CallShape') /\ (HungIsGone => HungIsGone')
  BY <1>1 DEF Up, Begun, Has, Wait, CallShape, HungIsGone
<1>3. /\ OneQueue => OneQueue'
      /\ Hands => Hands'
      /\ TasksRight => TasksRight'
      /\ RegistryRight => RegistryRight'
  BY <1>1 DEF OneQueue, Hands, TasksRight, RegistryRight, Up, Begun, Has, Wait
<1>4. /\ JobsRight => JobsRight'
      /\ FreshIsLost => FreshIsLost'
      /\ FaultsCounted => FaultsCounted'
  BY <1>1 DEF JobsRight, ListRight, EndsRight, FreshIsLost, FaultsCounted, Lost, Away, Up, Begun, Has, Wait
<1>5. NoneForgotten => NoneForgotten'
  BY <1>1 DEF NoneForgotten, Awaited, SyncDue, CreationDue, InHand, Up, Has, Wait
<1>6. /\ OneOwner => OneOwner'
      /\ EventsOnly => EventsOnly'
      /\ HeadsRight => HeadsRight'
  BY <1>1 DEF OneOwner, EventsOnly, HeadsRight, Begun, Wait, Untold
<1>7. (Shown => Shown') /\ (NoneBefore => NoneBefore')
  BY <1>1 DEF Shown, NoneBefore, Begun, Has
<1>8. \A c \in Call : Steady!InOrder(c)
  BY <1>1, NothingNew
<1> QED BY <1>2, <1>3, <1>4, <1>5, <1>6, <1>7, <1>8 DEF RebuiltInv, SteadyInv

(* Each part takes its own steps.                                          *)
LEMMA EventsStep ==
  ASSUME EventsInv, EventsNext
  PROVE  EventsInv' /\ (part = "steady" => \A c \in Call : Steady!InOrder(c))
<1>0. part' = part /\ part \in {"delivery", "rebuild", "steady"}
  BY DEF EventsInv, EventsNext
<1>1. CASE part = "delivery"
  BY <1>0, <1>1, CallsStay DEF EventsInv, EventsNext
<1>2. CASE part = "rebuild"
  BY <1>0, <1>2, RebuiltStep DEF EventsInv, EventsNext
<1>3. CASE part = "steady"
  BY <1>0, <1>3, SteadyStep DEF EventsInv, EventsNext
<1> QED BY <1>0, <1>1, <1>2, <1>3

(* When the owner is done, nothing is awaited any more.                    *)
LEMMA RebuiltIsRight ==
  ASSUME RebuiltInv
  PROVE  Rebuilt!NoneMissing /\ Rebuilt!OnlyEndedHungUp
<1>1. Rebuilt!OnlyEndedHungUp
  BY DEF RebuiltInv, HungIsGone, Rebuilt!OnlyEndedHungUp, Rebuilt!Live
<1>2. ASSUME Rebuilt!Quiet, NEW c \in Call, Rebuilt!Live(c) PROVE Rebuilt!HasCall(c) /\ c \in index
  <2>1. /\ epoch /\ owner # NoOne
        /\ \A r \in Replica : queue[r] = <<>> /\ job[Rebuilding(r)] = Pause
    BY <1>2, Alikes DEF Rebuilt!Quiet
  <2>2. \A r \in Replica : ~SyncDue(r) /\ ~CreationDue(r, c)
    BY <2>1, NoTasks DEF SyncDue, CreationDue, Wait
  <2>3. \A p \in Steady!Process : job[p].at = "idle"
    BY <2>1, Parts DEF RebuiltInv, Hands
  <2>4. ~Awaited(c)
    BY <2>1, <2>2, <2>3 DEF Awaited, InHand, Looks
  <2>5. Up(c)
    BY <1>2 DEF Rebuilt!Live, Up
  <2>6. Has(c)
    BY <2>4, <2>5 DEF RebuiltInv, NoneForgotten
  <2>7. Rebuilt!HasCall(c)
    BY <2>6, Alikes DEF Has, Rebuilt!HasCall
  <2> QED BY <2>6, <2>7 DEF RebuiltInv, RegistryRight
<1> QED BY <1>1, <1>2 DEF Rebuilt!NoneMissing

(* A steady node is right at all times.                                    *)
LEMMA SteadyIsRight ==
  ASSUME SteadyInv
  PROVE  Steady!TypeOK /\ Steady!AnnouncedFirst /\ Rebuilt!OnlyEndedHungUp
<1> USE DEF SteadyInv
<1>1. Rebuilt!OnlyEndedHungUp
  BY DEF HungIsGone, Rebuilt!OnlyEndedHungUp, Rebuilt!Live
<1>2. Steady!AnnouncedFirst
  BY DEF Steady!AnnouncedFirst, Steady!Registered, Steady!HasCall, Shown, Has
<1>3. Steady!TypeOK
  <2>1. \A r \in Replica : queue[r] \in Seq(Steady!Task) /\ Len(queue[r]) <= 3 + 1
    <3>1. \A r \in Replica : queue[r] \in Seq(Steady!Task) /\ Len(queue[r]) <= 3
      BY DEF CallShape, EventsOnly
    <3>2. \A r \in Replica : Len(queue[r]) \in Nat
      BY <3>1
    <3> QED BY <3>1, <3>2
  <2> QED BY <2>1 DEF Steady!TypeOK, Steady!RegistryTypeOK, CallShape
<1> QED BY <1>1, <1>2, <1>3

(* So each of the three is.                                                *)
LEMMA EventsAreRight == EventsInv => RegistryIsRight
BY RebuiltIsRight, SteadyIsRight
   DEF EventsInv, RegistryIsRight, QueueTypeOK, SteadyAnnouncedFirst, RebuildMissesNone

(* The invariant of them all.                                              *)
LEMMA EventsAlways == EventsSpec => []EventsInv
<1>1. EventsInit => EventsInv
  BY EventsStart DEF EventsInit, EventsInv
<1>2. EventsInv /\ [EventsNext]_<<allVars, calls, part>> => EventsInv'
  <2> SUFFICES ASSUME EventsInv, [EventsNext]_<<allVars, calls, part>> PROVE EventsInv'
    OBVIOUS
  <2>1. CASE EventsNext
    BY <2>1, EventsStep
  <2>2. CASE UNCHANGED <<allVars, calls, part>>
    BY <2>2, CallsStay DEF EventsInv
  <2> QED BY <2>1, <2>2
<1> QED BY <1>1, <1>2, PTL DEF EventsSpec

(* Whatever a takeover and a loss of Redis leave of the registry, once the *)
(* owner is done it has every call that is up, and no call was announced   *)
(* as hung up while it is up (registry-rebuild.ts:112-114); while a node   *)
(* keeps its owner, nothing is in the registry that the outbox has not     *)
(* (channel-handler.ts: "in that order").                                  *)
THEOREM RegistryIsAlwaysRight == EventsSpec => []RegistryIsRight
BY EventsAlways, EventsAreRight, PTL

(* While a node keeps its owner, whatever tasks fail, nothing of a call is *)
(* announced before its creation or after its hangup (serial.ts:5-9).      *)
THEOREM EventsAreAnnouncedInOrder == EventsSpec => SteadyInOrder
<1>1. EventsInv /\ [EventsNext]_<<allVars, calls, part>> => [part = "steady" => \A c \in Call : Steady!InOrder(c)]_calls
  <2> SUFFICES ASSUME EventsInv, [EventsNext]_<<allVars, calls, part>>
               PROVE  [part = "steady" => \A c \in Call : Steady!InOrder(c)]_calls
    OBVIOUS
  <2>1. CASE EventsNext
    BY <2>1, EventsStep
  <2>2. CASE UNCHANGED <<allVars, calls, part>>
    BY <2>2
  <2> QED BY <2>1, <2>2
<1> QED BY <1>1, EventsAlways, PTL DEF EventsSpec, SteadyInOrder
=============================================================================
