----------------------- MODULE ObservationWriterProofs -----------------------
(***************************************************************************)
(* Proofs about ObservationWriter, for every set of events, every grouping *)
(* of them, every capacity and batch size, and every number of failures    *)
(* and crashes: first the export, then the queues and the writer.          *)
(***************************************************************************)
EXTENDS ObservationWriter, SequenceTheorems, TLAPS

USE ObservationWriterAssumption

\* The part of the type invariant that the export needs.
OutboxType ==
    /\ outbox \in [Events -> {"none", "pending", "retry", "sent", "discarded"}]
    /\ exporter \in [list : SUBSET Events, posted : Events \cup {NoEvent}, ok : BOOLEAN]
    /\ received \in SUBSET Events

\* A success that is not yet written belongs to an event that was received.
AnswerInv == exporter.ok => exporter.posted \in received

ExportInv == OutboxType /\ AnswerInv /\ SentIsReceived

(* Steps of the publishers and of the writer that leave the export alone.  *)
Elsewhere == UNCHANGED <<outbox, exporter, received>>

LEMMA ElsewhereKeeps == ExportInv /\ Elsewhere => ExportInv'
  BY DEF ExportInv, OutboxType, AnswerInv, SentIsReceived, Elsewhere

LEMMA ExportInit == Init => ExportInv
  BY DEF Init, IdleExporter, ExportInv, OutboxType, AnswerInv, SentIsReceived

LEMMA ExportStep == ExportInv /\ [Next]_vars => ExportInv'
<1> SUFFICES ASSUME ExportInv, [Next]_vars PROVE ExportInv'
  OBVIOUS
<1> USE DEF ExportInv, OutboxType, AnswerInv, SentIsReceived
<1>1. ASSUME NEW e \in Events, Publish(e) PROVE ExportInv'
  BY <1>1, ElsewhereKeeps DEF Publish, Elsewhere
<1>2. CASE TakeBatch \/ Flush \/ FlushEnds \/ BeginDrain \/ DrainEnds
  BY <1>2, ElsewhereKeeps DEF TakeBatch, Flush, FlushEnds, BeginDrain, DrainEnds, history, Elsewhere
<1>3. CASE FlushFails \/ DrainFails \/ Close \/ Start
  BY <1>3, ElsewhereKeeps DEF FlushFails, DrainFails, Close, Start, history, Elsewhere
<1>4. ASSUME NEW e \in Events, Announce(e) PROVE ExportInv'
  <2>1. exporter' = exporter /\ received' = received
    BY <1>4 DEF Announce, history
  <2>2. /\ outbox' \in [Events -> {"none", "pending", "retry", "sent", "discarded"}]
        /\ \A x \in Events : outbox'[x] = "sent" => outbox[x] = "sent"
    BY <1>4 DEF Announce
  <2> QED
    BY <2>1, <2>2
<1>5. CASE Exit
  BY <1>5 DEF Exit, IdleExporter
<1>6. CASE ListPending
  BY <1>6 DEF ListPending, IdleExporter, history, Open
<1>7. ASSUME NEW e \in Events, ExportOne(e) PROVE ExportInv'
  BY <1>7 DEF ExportOne
<1>8. CASE Settle
  <2>1. exporter.posted \in Events /\ received' = received
    BY <1>8 DEF Settle, history
  <2>2. exporter' \in [list : SUBSET Events, posted : Events \cup {NoEvent}, ok : BOOLEAN]
        /\ exporter'.ok = FALSE
    BY <1>8 DEF Settle
  <2>3. \/ outbox' = outbox
        \/ outbox' = [outbox EXCEPT ![exporter.posted] = "retry"]
        \/ exporter.ok /\ outbox' = [outbox EXCEPT ![exporter.posted] = "sent"]
    BY <1>8 DEF Settle
  <2>4. OutboxType' /\ SentIsReceived'
    BY <2>1, <2>2, <2>3
  <2> QED
    BY <2>2, <2>4
<1>9. CASE UNCHANGED vars
  BY <1>9, ElsewhereKeeps DEF vars, Elsewhere
<1> QED
  BY <1>1, <1>2, <1>3, <1>4, <1>5, <1>6, <1>7, <1>8, <1>9 DEF Next, Run

(* CompleteObservationExport is called only for what the endpoint has      *)
(* acknowledged, and no crash, trim or later answer changes that.          *)
THEOREM SentWasExported == Spec => []SentIsReceived
<1>1. ExportInv => SentIsReceived
  BY DEF ExportInv
<1>2. Spec => []ExportInv
  BY ExportInit, ExportStep, PTL DEF Spec
<1> QED
  BY <1>1, <1>2, PTL

-----------------------------------------------------------------------------
(* The invariants of the queues and of the writer.                         *)

Batches == [critical : Seq(Critical), normal : Seq(Events \ Critical)]
Writers == [pc : {"idle", "flush", "announce", "drain", "last", "lastAnnounce", "done", "down"},
            inserted : SUBSET Events]

\* The writer has a batch exactly while it writes it, and keeps the one whose
\* write ended the drain.
BatchInv ==
    /\ writer.pc \in {"idle", "announce", "drain", "lastAnnounce", "down"} => batch = EmptyBatch
    /\ writer.pc \in {"flush", "last"} => batch # EmptyBatch

\* The queues are closed before they are drained, and a drain that ends well
\* ends with empty queues.
DrainInv ==
    /\ writer.pc \in {"drain", "last", "lastAnnounce", "done"} => closed
    /\ writer.pc = "done" /\ batch = EmptyBatch => critical = <<>> /\ normal = <<>>

\* An event is published once.
FreshInv == \A e \in fresh : e \notin Held /\ e \notin rows

\* An item that takes further events is queued, and no write of it was tried.
OpenInv ==
    \A g \in Groups : coalesced[g] # NoEvent =>
        /\ coalesced[g] \in Elements(normal)
        /\ coalesced[g] \notin Items(batch) /\ coalesced[g] \notin rows

\* A row stands for the events that were coalesced into its item.
StoredInv == rows \subseteq stored /\ \A d \in rows : merged[d] \subseteq stored

\* The normal events that wait, in line, are in the order of their arrival.
Line == batch.normal \o normal
Ordered(l, tk) ==
    \A i, j \in DOMAIN l : i < j => \E m, n \in DOMAIN tk : m < n /\ tk[m] = l[i] /\ tk[n] = l[j]
LineInv == Elements(Line) \subseteq Elements(taken) /\ Ordered(Line, taken)

WriterInv ==
    /\ TypeOK /\ BatchInv /\ DrainInv /\ FreshInv /\ OpenInv /\ StoredInv
    /\ TakenIsAccounted /\ LineInv

-----------------------------------------------------------------------------
(* Sequences and their elements.                                           *)

LEMMA ElementsAppend ==
    ASSUME NEW S, NEW s \in Seq(S), NEW e
    PROVE  Elements(Append(s, e)) = Elements(s) \cup {e}
<1>1. /\ DOMAIN s = 1..Len(s) /\ Len(s) \in Nat /\ DOMAIN Append(s, e) = 1..Len(s) + 1
      /\ \A i \in 1..Len(s) : Append(s, e)[i] = s[i]
      /\ Append(s, e)[Len(s) + 1] = e
  OBVIOUS
<1>2. \A i \in 1..Len(s) + 1 : i \in 1..Len(s) \/ i = Len(s) + 1
  BY <1>1
<1>3. \A i \in 1..Len(s) : i \in 1..Len(s) + 1
  BY <1>1
<1>4. Len(s) + 1 \in 1..Len(s) + 1
  BY <1>1
<1> QED
  BY <1>1, <1>2, <1>3, <1>4 DEF Elements

LEMMA ElementsConcat ==
    ASSUME NEW S, NEW s \in Seq(S), NEW u \in Seq(S)
    PROVE  Elements(s \o u) = Elements(s) \cup Elements(u)
<1>1. /\ DOMAIN s = 1..Len(s) /\ DOMAIN u = 1..Len(u) /\ Len(s) \in Nat /\ Len(u) \in Nat
      /\ DOMAIN (s \o u) = 1..Len(s) + Len(u)
      /\ \A i \in 1..Len(s) + Len(u) : (s \o u)[i] = IF i <= Len(s) THEN s[i] ELSE u[i - Len(s)]
  OBVIOUS
<1>2. \A i \in 1..Len(s) + Len(u) : IF i <= Len(s) THEN i \in 1..Len(s) ELSE i - Len(s) \in 1..Len(u)
  BY <1>1
<1>3. \A x \in Elements(s \o u) : x \in Elements(s) \cup Elements(u)
  BY <1>1, <1>2 DEF Elements
<1>4. ASSUME NEW i \in 1..Len(s) PROVE s[i] \in Elements(s \o u)
  <2>1. i \in 1..Len(s) + Len(u) /\ (s \o u)[i] = s[i]
    BY <1>1
  <2> QED
    BY <1>1, <2>1 DEF Elements
<1>5. ASSUME NEW i \in 1..Len(u) PROVE u[i] \in Elements(s \o u)
  <2>1. i + Len(s) \in 1..Len(s) + Len(u) /\ (s \o u)[i + Len(s)] = u[i]
    BY <1>1
  <2> QED
    BY <1>1, <2>1 DEF Elements
<1> QED
  BY <1>1, <1>3, <1>4, <1>5 DEF Elements

\* Cutting a sequence in two.
LEMMA Cut ==
    ASSUME NEW S, NEW s \in Seq(S), NEW k \in 0..Len(s)
    PROVE  /\ SubSeq(s, 1, k) \in Seq(S) /\ SubSeq(s, k + 1, Len(s)) \in Seq(S)
           /\ Len(SubSeq(s, 1, k)) = k /\ Len(SubSeq(s, k + 1, Len(s))) = Len(s) - k
           /\ s = SubSeq(s, 1, k) \o SubSeq(s, k + 1, Len(s))
           /\ Elements(s) = Elements(SubSeq(s, 1, k)) \cup Elements(SubSeq(s, k + 1, Len(s)))
<1> DEFINE a == SubSeq(s, 1, k)
           b == SubSeq(s, k + 1, Len(s))
<1>0. Len(s) \in Nat /\ k \in Nat
  OBVIOUS
<1>1. a \in Seq(S) /\ Len(a) = k /\ \A i \in 1..k : a[i] = s[i]
  BY <1>0
<1>2. b \in Seq(S) /\ Len(b) = Len(s) - k /\ \A i \in 1..Len(s) - k : b[i] = s[k + i]
  BY <1>0
<1> HIDE DEF a, b
<1>3. s = a \o b
  <2>0. /\ a \o b \in Seq(S) /\ Len(a \o b) = Len(a) + Len(b)
        /\ \A i \in 1..Len(a) + Len(b) : (a \o b)[i] = IF i <= Len(a) THEN a[i] ELSE b[i - Len(a)]
    BY <1>1, <1>2, ConcatProperties
  <2>1. Len(a \o b) = Len(s) /\ a \o b \in Seq(S)
    BY <1>0, <1>1, <1>2, <2>0
  <2>2. ASSUME NEW i \in 1..Len(s) PROVE (a \o b)[i] = s[i]
    <3>1. CASE i <= k
      BY <1>0, <1>1, <1>2, <2>0, <3>1
    <3>2. CASE i > k
      <4>1. i - k \in 1..Len(s) - k /\ k + (i - k) = i
        BY <1>0, <3>2
      <4>2. (a \o b)[i] = b[i - k]
        BY <1>0, <1>1, <1>2, <2>0, <3>2
      <4> QED
        BY <1>2, <4>1, <4>2
    <3>3. i <= k \/ i > k
      BY <1>0
    <3> QED
      BY <3>1, <3>2, <3>3
  <2> QED
    BY <2>1, <2>2, SeqEqual
<1>4. Elements(s) = Elements(a) \cup Elements(b)
  BY <1>1, <1>2, <1>3, ElementsConcat
<1> QED
  BY <1>1, <1>2, <1>3, <1>4 DEF a, b

\* requeue puts back the end of the batch, as much of it as there is room for.
LEMMA RequeuedFact ==
    ASSUME NEW S, NEW queue \in Seq(S), NEW items \in Seq(S), NEW capacity \in Nat,
           Len(queue) <= capacity
    PROVE  \E k \in 0..Len(items) :
              /\ Requeued(queue, items, capacity) = SubSeq(items, k + 1, Len(items)) \o queue
              /\ Requeued(queue, items, capacity) \in Seq(S)
              /\ Len(Requeued(queue, items, capacity)) <= capacity
              /\ Elements(queue) \subseteq Elements(Requeued(queue, items, capacity))
              /\ Elements(Requeued(queue, items, capacity)) \subseteq Elements(queue) \cup Elements(items)
<1> DEFINE room == IF Len(queue) >= capacity THEN 0 ELSE Least(capacity - Len(queue), Len(items))
           k == Len(items) - room
<1>0. Len(queue) \in Nat /\ Len(items) \in Nat
  OBVIOUS
<1>1. room \in Nat /\ room <= Len(items) /\ room <= capacity - Len(queue)
  BY <1>0 DEF Least
<1>2. Requeued(queue, items, capacity) = SubSeq(items, k + 1, Len(items)) \o queue
  BY DEF Requeued
<1>3. k \in 0..Len(items) /\ Len(items) - k <= capacity - Len(queue)
  <2> HIDE DEF room
  <2> QED
    BY <1>0, <1>1
<1> HIDE DEF k
<1> DEFINE z == SubSeq(items, k + 1, Len(items))
<1>4. z \in Seq(S) /\ Len(z) = Len(items) - k /\ Elements(z) \subseteq Elements(items)
  <2>1. z \in Seq(S) /\ Len(z) = Len(items) - k
    BY <1>3, Cut
  <2>2. Elements(items) = Elements(SubSeq(items, 1, k)) \cup Elements(z)
    BY <1>3, Cut
  <2> QED
    BY <2>1, <2>2
<1> HIDE DEF z
<1>5. z \o queue \in Seq(S) /\ Len(z \o queue) <= capacity
  BY <1>0, <1>3, <1>4
<1>6. Elements(z \o queue) = Elements(z) \cup Elements(queue)
  BY <1>4, ElementsConcat
<1> QED
  BY <1>2, <1>3, <1>4, <1>5, <1>6 DEF z

-----------------------------------------------------------------------------
(* Type correctness.                                                       *)

LEMMA EmptyTypes ==
    /\ EmptyBatch \in Batches /\ IdleWriter \in Writers /\ Items(EmptyBatch) = {}
    /\ Len(EmptyBatch.critical) = 0 /\ Len(EmptyBatch.normal) = 0
    /\ EmptyBatch.critical = <<>> /\ EmptyBatch.normal = <<>>
BY DEF EmptyBatch, Batches, IdleWriter, Writers, Items, Elements

\* takeBatch takes at most a batch, from the front of the queues.
LEMMA TakenFact ==
    ASSUME TypeOK
    PROVE  /\ TakeCritical \in 0..Len(critical) /\ TakeNormal \in 0..Len(normal)
           /\ TakeCritical + TakeNormal <= BatchSize
           /\ Taken \in Batches
           /\ Len(Taken.critical) = TakeCritical /\ Len(Taken.normal) = TakeNormal
           /\ Items(Taken) = Elements(SubSeq(critical, 1, TakeCritical)) \cup Elements(SubSeq(normal, 1, TakeNormal))
<1>0. /\ critical \in Seq(Critical) /\ normal \in Seq(Events \ Critical)
      /\ Len(critical) \in Nat /\ Len(normal) \in Nat
  BY DEF TypeOK
<1>1. TakeCritical \in 0..Len(critical) /\ TakeCritical <= BatchSize
  BY <1>0 DEF TakeCritical, Least
<1>2. TakeNormal \in 0..Len(normal) /\ TakeCritical + TakeNormal <= BatchSize
  BY <1>0, <1>1 DEF TakeNormal, Least
<1>3. SubSeq(critical, 1, TakeCritical) \in Seq(Critical) /\ Len(SubSeq(critical, 1, TakeCritical)) = TakeCritical
  BY <1>0, <1>1, Cut
<1>4. SubSeq(normal, 1, TakeNormal) \in Seq(Events \ Critical) /\ Len(SubSeq(normal, 1, TakeNormal)) = TakeNormal
  BY <1>0, <1>2, Cut
<1> QED
  BY <1>1, <1>2, <1>3, <1>4 DEF Taken, Batches, Items

LEMMA ItemsAreEvents ==
    ASSUME TypeOK
    PROVE  /\ Items(batch) \subseteq Events /\ Inserted \subseteq Events
           /\ (UNION {merged[e] : e \in Inserted}) \subseteq Events
           /\ batch \in Batches /\ batch.critical \in Seq(Critical) /\ batch.normal \in Seq(Events \ Critical)
           /\ Elements(critical) \subseteq Critical /\ Elements(normal) \subseteq Events \ Critical
<1>1. batch \in Batches /\ batch.critical \in Seq(Critical) /\ batch.normal \in Seq(Events \ Critical)
      /\ critical \in Seq(Critical) /\ normal \in Seq(Events \ Critical)
  BY DEF TypeOK, Batches
<1>2. Elements(batch.critical) \subseteq Critical /\ Elements(batch.normal) \subseteq Events \ Critical
      /\ Elements(critical) \subseteq Critical /\ Elements(normal) \subseteq Events \ Critical
  BY <1>1, ElementOfSeq DEF Elements
<1>3. Items(batch) \subseteq Events /\ Inserted \subseteq Events
  BY <1>2 DEF Items, Inserted
<1>4. \A e \in Events : merged[e] \subseteq Events
  BY DEF TypeOK
<1> QED
  BY <1>1, <1>2, <1>3, <1>4

LEMMA MishapType ==
    ASSUME TypeOK, Mishap \/ NoMishap
    PROVE  mishaps' \in 0..MaxMishaps
BY DEF TypeOK, Mishap, NoMishap

LEMMA PublishType ==
    ASSUME TypeOK, NEW e \in Events, Publish(e)
    PROVE  TypeOK'
<1>0. /\ critical \in Seq(Critical) /\ normal \in Seq(Events \ Critical) /\ taken \in Seq(Events)
      /\ coalesced \in [Groups -> DOMAIN Group \cup {NoEvent}]
      /\ merged \in [Events -> SUBSET DOMAIN Group]
      /\ Len(critical) <= CriticalCapacity /\ Len(normal) <= NormalCapacity
      /\ Len(critical) \in Nat /\ Len(normal) \in Nat
  BY DEF TypeOK
<1> DEFINE Good == /\ critical' \in Seq(Critical) /\ normal' \in Seq(Events \ Critical)
                   /\ Len(critical') <= CriticalCapacity /\ Len(normal') <= NormalCapacity
                   /\ coalesced' \in [Groups -> DOMAIN Group \cup {NoEvent}]
                   /\ merged' \in [Events -> SUBSET DOMAIN Group]
                   /\ taken' \in Seq(Events) /\ dropped' \in SUBSET Events
<1>1. ASSUME Drop(e) PROVE Good
  BY <1>0, <1>1 DEF Drop, TypeOK
<1>2. ASSUME Coalesce(e) PROVE Good
  <2>1. taken' \in Seq(Events)
    BY <1>0, <1>2 DEF Coalesce
  <2> DEFINE x == coalesced[Group[e]]
  <2>2. merged' = [merged EXCEPT ![x] = merged[x] \cup {e}] /\ e \in DOMAIN Group /\ x \in Events
    BY <1>0, <1>2 DEF Coalesce
  <2> HIDE DEF x
  <2>3. merged' \in [Events -> SUBSET DOMAIN Group]
    <3>1. merged[x] \cup {e} \in SUBSET DOMAIN Group
      BY <1>0, <2>2
    <3> QED
      BY <1>0, <2>2, <3>1
  <2> QED
    BY <1>0, <1>2, <2>1, <2>3 DEF Coalesce, TypeOK
<1>3. ASSUME Queue(e), IsCritical(e), Len(critical) < CriticalCapacity PROVE Good
  <2>1. critical' = Append(critical, e) /\ taken' = Append(taken, e)
        /\ UNCHANGED <<normal, coalesced, merged, dropped>> /\ e \in Critical
    BY <1>3 DEF Queue, IsCritical
  <2>2. critical' \in Seq(Critical) /\ Len(critical') = Len(critical) + 1 /\ taken' \in Seq(Events)
    BY <1>0, <2>1
  <2> QED
    BY <1>0, <1>3, <2>1, <2>2 DEF TypeOK
<1>4. ASSUME Queue(e), ~IsCritical(e), Len(normal) < NormalCapacity PROVE Good
  <2>1. normal' = Append(normal, e) /\ taken' = Append(taken, e)
        /\ UNCHANGED <<critical, merged, dropped>> /\ e \in Events \ Critical
    BY <1>4 DEF Queue, IsCritical
  <2>2. normal' \in Seq(Events \ Critical) /\ Len(normal') = Len(normal) + 1 /\ taken' \in Seq(Events)
    BY <1>0, <2>1
  <2>3. \/ coalesced' = coalesced
        \/ e \in DOMAIN Group /\ coalesced' = [coalesced EXCEPT ![Group[e]] = e]
    <3>1. coalesced' = IF e \in DOMAIN Group THEN [coalesced EXCEPT ![Group[e]] = e] ELSE coalesced
      BY <1>4 DEF Queue
    <3>2. CASE e \in DOMAIN Group
      BY <3>1, <3>2
    <3>3. CASE e \notin DOMAIN Group
      BY <3>1, <3>3
    <3> QED
      BY <3>2, <3>3
  <2>4. coalesced' \in [Groups -> DOMAIN Group \cup {NoEvent}]
    BY <1>0, <2>3
  <2> QED
    BY <1>0, <1>4, <2>1, <2>2, <2>4 DEF TypeOK
<1>5. Drop(e) \/ Enqueue(e)
  BY DEF Publish
<1> HIDE DEF Good
<1>6. Good
  BY <1>1, <1>2, <1>3, <1>4, <1>5 DEF Enqueue
<1>7. /\ fresh' \in SUBSET Events
      /\ UNCHANGED <<closed, writer, batch, stopping, rows, outbox, exporter, stored, received, mishaps>>
  BY DEF Publish, work, TypeOK
<1> QED
  BY <1>6, <1>7 DEF Good, TypeOK

LEMMA WriterType ==
    ASSUME TypeOK, writer' = [writer EXCEPT !.pc = "idle"] \/ writer' = [writer EXCEPT !.pc = "flush"]
                   \/ writer' = [writer EXCEPT !.pc = "drain"] \/ writer' = [writer EXCEPT !.pc = "last"]
                   \/ writer' = [writer EXCEPT !.pc = "done"]
    PROVE  /\ writer' \in Writers /\ writer'.inserted = writer.inserted
           /\ writer'.pc \in {"idle", "flush", "drain", "last", "done"}
BY DEF TypeOK, Writers

LEMMA CommitType ==
    ASSUME TypeOK, Commit \/ UNCHANGED <<rows, stored>>
    PROVE  rows' \in SUBSET Events /\ stored' \in SUBSET Events
BY ItemsAreEvents DEF Commit, TypeOK

\* What is not taken stays queued.
LEMMA TakeBatchFact ==
    ASSUME TypeOK, TakeBatch
    PROVE  /\ critical' \in Seq(Critical) /\ Len(critical') = Len(critical) - TakeCritical
           /\ normal' \in Seq(Events \ Critical) /\ Len(normal') = Len(normal) - TakeNormal
           /\ normal = Taken.normal \o normal'
           /\ Elements(critical) \cup Elements(normal) = Items(Taken) \cup Elements(critical') \cup Elements(normal')
           /\ Elements(normal) \subseteq Items(Taken) \cup Elements(normal')
<1>0. critical \in Seq(Critical) /\ normal \in Seq(Events \ Critical)
  BY DEF TypeOK
<1>1. /\ TakeCritical \in 0..Len(critical) /\ TakeNormal \in 0..Len(normal)
      /\ Items(Taken) = Elements(SubSeq(critical, 1, TakeCritical)) \cup Elements(SubSeq(normal, 1, TakeNormal))
  BY TakenFact
<1>2. /\ critical' = SubSeq(critical, TakeCritical + 1, Len(critical))
      /\ normal' = SubSeq(normal, TakeNormal + 1, Len(normal))
      /\ Taken.normal = SubSeq(normal, 1, TakeNormal)
  BY DEF TakeBatch, Taken
<1>3. /\ critical' \in Seq(Critical) /\ Len(critical') = Len(critical) - TakeCritical
      /\ Elements(critical) = Elements(SubSeq(critical, 1, TakeCritical)) \cup Elements(critical')
  BY ZenonT(40), <1>0, <1>1, <1>2, Cut
<1>4. /\ normal' \in Seq(Events \ Critical) /\ Len(normal') = Len(normal) - TakeNormal
      /\ normal = Taken.normal \o normal'
      /\ Elements(normal) = Elements(SubSeq(normal, 1, TakeNormal)) \cup Elements(normal')
  <2>1. /\ SubSeq(normal, TakeNormal + 1, Len(normal)) \in Seq(Events \ Critical)
        /\ Len(SubSeq(normal, TakeNormal + 1, Len(normal))) = Len(normal) - TakeNormal
    BY <1>0, <1>1, Cut
  <2>2. normal = SubSeq(normal, 1, TakeNormal) \o SubSeq(normal, TakeNormal + 1, Len(normal))
    BY <1>0, <1>1, Cut
  <2>3. Elements(normal) = Elements(SubSeq(normal, 1, TakeNormal))
                             \cup Elements(SubSeq(normal, TakeNormal + 1, Len(normal)))
    <3> DEFINE S == Events \ Critical
               k == TakeNormal
    <3>1. normal \in Seq(S) /\ k \in 0..Len(normal)
      BY <1>0, <1>1
    <3> HIDE DEF S, k
    <3>2. Elements(normal) = Elements(SubSeq(normal, 1, k)) \cup Elements(SubSeq(normal, k + 1, Len(normal)))
      BY <3>1, Cut
    <3> QED
      BY <3>2 DEF k
  <2> QED
    BY <1>2, <2>1, <2>2, <2>3
<1> QED
  BY <1>1, <1>3, <1>4

LEMMA TakeBatchType ==
    ASSUME TypeOK, TakeBatch
    PROVE  TypeOK'
<1>0. /\ critical \in Seq(Critical) /\ normal \in Seq(Events \ Critical)
      /\ Len(critical) <= CriticalCapacity /\ Len(normal) <= NormalCapacity
      /\ Len(critical) \in Nat /\ Len(normal) \in Nat
      /\ coalesced \in [Groups -> DOMAIN Group \cup {NoEvent}]
  BY DEF TypeOK
<1>1. critical' \in Seq(Critical) /\ Len(critical') = Len(critical) - TakeCritical
  BY TakeBatchFact
<1>2. normal' \in Seq(Events \ Critical) /\ Len(normal') = Len(normal) - TakeNormal
  BY TakeBatchFact
<1>3. Len(critical') <= CriticalCapacity /\ Len(normal') <= NormalCapacity
  BY <1>0, <1>1, <1>2, TakenFact
<1>4. batch' \in Batches /\ Len(batch'.critical) + Len(batch'.normal) <= BatchSize
  BY TakenFact DEF TakeBatch
<1>5. coalesced' \in [Groups -> DOMAIN Group \cup {NoEvent}]
  BY <1>0 DEF TakeBatch, ForgetTaken
<1>6. writer' \in Writers
  BY WriterType DEF TakeBatch
<1>7. UNCHANGED <<fresh, merged, closed, stopping, rows, outbox, exporter, taken, stored, dropped, received, mishaps>>
  BY DEF TakeBatch, history
<1> QED
  BY <1>1, <1>2, <1>3, <1>4, <1>5, <1>6, <1>7 DEF TypeOK, Batches, Writers

LEMMA FlushType ==
    ASSUME TypeOK, Flush
    PROVE  TypeOK'
<1>1. rows' \in SUBSET Events /\ stored' \in SUBSET Events
  BY CommitType DEF Flush
<1>2. merged' \in [Events -> SUBSET DOMAIN Group]
  BY DEF Flush, TypeOK
<1>3. batch' \in Batches /\ Len(batch'.critical) + Len(batch'.normal) <= BatchSize
  BY EmptyTypes DEF Flush
<1>4. writer' \in Writers
  BY ItemsAreEvents DEF Flush, Writers
<1>5. UNCHANGED <<fresh, critical, normal, coalesced, closed, stopping, outbox, exporter,
                  taken, dropped, received, mishaps>>
  BY DEF Flush
<1> QED
  BY <1>1, <1>2, <1>3, <1>4, <1>5 DEF TypeOK, Batches, Writers

LEMMA FlushFailsType ==
    ASSUME TypeOK, FlushFails
    PROVE  TypeOK'
<1>0. /\ critical \in Seq(Critical) /\ normal \in Seq(Events \ Critical)
      /\ Len(critical) <= CriticalCapacity /\ Len(normal) <= NormalCapacity
  BY DEF TypeOK
<1>1. rows' \in SUBSET Events /\ stored' \in SUBSET Events
  BY CommitType DEF FlushFails
<1>2. critical' \in Seq(Critical) /\ Len(critical') <= CriticalCapacity
  BY <1>0, ItemsAreEvents, RequeuedFact DEF FlushFails
<1>3. normal' \in Seq(Events \ Critical) /\ Len(normal') <= NormalCapacity
  BY <1>0, ItemsAreEvents, RequeuedFact DEF FlushFails
<1>4. batch' \in Batches /\ Len(batch'.critical) + Len(batch'.normal) <= BatchSize /\ writer' \in Writers
  BY EmptyTypes DEF FlushFails
<1>5. dropped' \in SUBSET Events /\ mishaps' \in 0..MaxMishaps
  <2>1. dropped \in SUBSET Events /\ Items(batch) \subseteq Events
    BY ItemsAreEvents DEF TypeOK
  <2>2. dropped' \subseteq dropped \cup Items(batch)
    BY DEF FlushFails
  <2>3. mishaps' \in 0..MaxMishaps
    BY MishapType DEF FlushFails
  <2> QED
    BY <2>1, <2>2, <2>3
<1>6. UNCHANGED <<fresh, coalesced, merged, closed, stopping, outbox, exporter, taken, received>>
  BY DEF FlushFails
<1> QED
  BY <1>1, <1>2, <1>3, <1>4, <1>5, <1>6 DEF TypeOK, Batches, Writers

LEMMA TypeStep ==
    ASSUME TypeOK, OutboxType', Next
    PROVE  TypeOK'
<1> USE DEF queues, work, history
<1>1. ASSUME NEW e \in Events, Publish(e) PROVE TypeOK'
  BY <1>1, PublishType
<1>2. CASE TakeBatch \/ Flush \/ FlushFails
  BY <1>2, TakeBatchType, FlushType, FlushFailsType
<1>3. ASSUME NEW e \in Events, Announce(e) PROVE TypeOK'
  <2>1. writer' \in Writers
    <3>1. writer \in Writers /\ writer.inserted \ {e} \in SUBSET Events
      BY DEF TypeOK, Writers
    <3>2. writer' = [writer EXCEPT !.inserted = writer.inserted \ {e}]
      BY <1>3 DEF Announce
    <3> QED
      BY <3>1, <3>2 DEF Writers
  <2>2. mishaps' \in 0..MaxMishaps
    BY <1>3, MishapType DEF Announce
  <2>3. UNCHANGED <<fresh, critical, normal, coalesced, merged, closed, batch, stopping, rows,
                    exporter, taken, stored, dropped, received>>
    BY <1>3 DEF Announce
  <2> QED
    BY <2>1, <2>2, <2>3 DEF TypeOK, Writers, OutboxType
<1>4. CASE FlushEnds \/ BeginDrain \/ DrainEnds \/ DrainFails
  <2>1. writer' \in Writers
    BY <1>4, WriterType DEF FlushEnds, BeginDrain, DrainEnds, DrainFails
  <2>2. /\ rows' \in SUBSET Events /\ stored' \in SUBSET Events
        /\ mishaps' \in 0..MaxMishaps /\ closed' \in BOOLEAN
    BY <1>4, CommitType, MishapType DEF FlushEnds, BeginDrain, DrainEnds, DrainFails, TypeOK
  <2>3. UNCHANGED <<fresh, critical, normal, coalesced, merged, batch, stopping,
                    outbox, exporter, taken, dropped, received>>
    BY <1>4 DEF FlushEnds, BeginDrain, DrainEnds, DrainFails
  <2> QED
    BY <2>1, <2>2, <2>3 DEF TypeOK, Writers
<1>5. CASE Close
  BY <1>5 DEF Close, TypeOK
<1>6. CASE Exit
  <2>1. batch' \in Batches /\ Len(batch'.critical) + Len(batch'.normal) <= BatchSize
    BY <1>6, EmptyTypes DEF Exit
  <2>2. writer' \in Writers
    BY <1>6 DEF Exit, IdleWriter, Writers
  <2>3. mishaps' \in 0..MaxMishaps
    BY <1>6, MishapType DEF Exit
  <2>4. /\ critical' = <<>> /\ normal' = <<>> /\ taken' = <<>> /\ dropped' = {} /\ closed' = FALSE /\ stopping' = FALSE
        /\ coalesced' \in [Groups -> DOMAIN Group \cup {NoEvent}] /\ merged' \in [Events -> SUBSET DOMAIN Group]
        /\ UNCHANGED <<fresh, rows, stored, received>>
    BY <1>6 DEF Exit
  <2>5. /\ <<>> \in Seq(Critical) /\ <<>> \in Seq(Events \ Critical) /\ <<>> \in Seq(Events) /\ Len(<<>>) = 0
        /\ 0 <= CriticalCapacity /\ 0 <= NormalCapacity
    OBVIOUS
  <2>6. critical' \in Seq(Critical) /\ Len(critical') <= CriticalCapacity
        /\ normal' \in Seq(Events \ Critical) /\ Len(normal') <= NormalCapacity /\ taken' \in Seq(Events)
    BY <2>4, <2>5
  <2> QED
    BY <2>1, <2>2, <2>3, <2>4, <2>6 DEF TypeOK, Writers, Batches, OutboxType
<1>7. CASE Start
  BY <1>7, EmptyTypes DEF Start, TypeOK, Writers
<1>8. CASE ListPending \/ (\E e \in Events : ExportOne(e)) \/ Settle
  <2>1. UNCHANGED <<fresh, critical, normal, coalesced, merged, closed, writer, batch, stopping, rows,
                    taken, stored, dropped>>
    BY <1>8 DEF ListPending, ExportOne, Settle
  <2>2. mishaps' \in 0..MaxMishaps
    BY <1>8, MishapType DEF ListPending, ExportOne, Settle, NoMishap
  <2> QED
    BY <2>1, <2>2 DEF TypeOK, OutboxType
<1> QED
  BY <1>1, <1>2, <1>3, <1>4, <1>5, <1>6, <1>7, <1>8 DEF Next, Run

-----------------------------------------------------------------------------
(* The batch and the drain.                                                *)

\* requeue keeps what is queued, and adds at most the batch to it.
LEMMA RequeueFact ==
    ASSUME TypeOK, FlushFails
    PROVE  /\ Elements(critical) \subseteq Elements(critical') /\ Elements(normal) \subseteq Elements(normal')
           /\ Elements(critical') \subseteq Elements(critical) \cup Items(batch)
           /\ Elements(normal') \subseteq Elements(normal) \cup Items(batch)
           /\ \E k \in 0..Len(batch.normal) :
                 normal' = SubSeq(batch.normal, k + 1, Len(batch.normal)) \o normal
<1>0. /\ critical \in Seq(Critical) /\ normal \in Seq(Events \ Critical)
      /\ Len(critical) <= CriticalCapacity /\ Len(normal) <= NormalCapacity
      /\ batch.critical \in Seq(Critical) /\ batch.normal \in Seq(Events \ Critical)
  BY ItemsAreEvents DEF TypeOK
<1>1. /\ critical' = Requeued(critical, batch.critical, CriticalCapacity)
      /\ normal' = Requeued(normal, batch.normal, NormalCapacity)
  BY DEF FlushFails
<1>2. /\ Elements(critical) \subseteq Elements(critical')
      /\ Elements(critical') \subseteq Elements(critical) \cup Elements(batch.critical)
  BY <1>0, <1>1, RequeuedFact
<1>3. /\ Elements(normal) \subseteq Elements(normal')
      /\ Elements(normal') \subseteq Elements(normal) \cup Elements(batch.normal)
      /\ \E k \in 0..Len(batch.normal) :
            normal' = SubSeq(batch.normal, k + 1, Len(batch.normal)) \o normal
  <2> DEFINE S == Events \ Critical
             items == batch.normal
  <2>1. normal \in Seq(S) /\ items \in Seq(S) /\ NormalCapacity \in Nat
    BY <1>0
  <2> HIDE DEF S, items
  <2>2. \E k \in 0..Len(items) :
              /\ Requeued(normal, items, NormalCapacity) = SubSeq(items, k + 1, Len(items)) \o normal
              /\ Elements(normal) \subseteq Elements(Requeued(normal, items, NormalCapacity))
              /\ Elements(Requeued(normal, items, NormalCapacity)) \subseteq Elements(normal) \cup Elements(items)
    BY <1>0, <2>1, RequeuedFact
  <2> QED
    BY <1>1, <2>2 DEF items
<1> QED
  BY <1>2, <1>3 DEF Items

LEMMA BatchStep ==
    ASSUME TypeOK, BatchInv, Next
    PROVE  BatchInv'
<1> USE DEF queues, work, history
<1>0. writer \in Writers
  BY DEF TypeOK, Writers
<1>1. CASE TakeBatch
  <2>1. writer'.pc \in {"flush", "last"} /\ batch' # EmptyBatch
    BY <1>0, <1>1 DEF TakeBatch, Writers
  <2> QED
    BY <2>1 DEF BatchInv
<1>2. CASE Flush \/ FlushFails \/ Exit
  <2>1. writer'.pc \notin {"flush", "last"} /\ batch' = EmptyBatch
    BY <1>2 DEF Flush, FlushFails, Exit, IdleWriter
  <2> QED
    BY <2>1 DEF BatchInv
<1>3. CASE FlushEnds \/ BeginDrain \/ DrainEnds \/ DrainFails \/ Start
  BY <1>0, <1>3 DEF FlushEnds, BeginDrain, DrainEnds, DrainFails, Start, BatchInv, IdleWriter, Writers
<1>4. ASSUME NEW e \in Events, Announce(e) PROVE BatchInv'
  <2>1. writer'.pc = writer.pc /\ batch' = batch
    BY <1>0, <1>4 DEF Announce, Writers
  <2> QED
    BY <2>1 DEF BatchInv
<1>5. CASE UNCHANGED <<writer, batch>>
  BY <1>5 DEF BatchInv
<1>6. \/ UNCHANGED <<writer, batch>> \/ TakeBatch \/ Flush \/ FlushFails \/ Exit \/ FlushEnds \/ BeginDrain
      \/ DrainEnds \/ DrainFails \/ Start \/ \E e \in Events : Announce(e)
  BY DEF Next, Run, Publish, Close, ListPending, ExportOne, Settle
<1> QED
  BY <1>1, <1>2, <1>3, <1>4, <1>5, <1>6

\* A batch is empty only if both queues are.
LEMMA NothingTaken ==
    ASSUME TypeOK, Taken = EmptyBatch
    PROVE  critical = <<>> /\ normal = <<>>
<1>0. /\ critical \in Seq(Critical) /\ normal \in Seq(Events \ Critical)
      /\ Len(critical) \in Nat /\ Len(normal) \in Nat
  BY DEF TypeOK
<1>1. TakeCritical = 0 /\ TakeNormal = 0
  BY TakenFact, EmptyTypes
<1>2. Len(critical) = 0
  BY <1>0, <1>1 DEF TakeCritical, Least
<1>3. Len(normal) = 0
  BY <1>0, <1>1 DEF TakeNormal, Least
<1> QED
  BY <1>0, <1>2, <1>3

LEMMA DrainStep ==
    ASSUME TypeOK, BatchInv, DrainInv, Next
    PROVE  DrainInv'
<1> USE DEF queues, work, history
<1>0. writer \in Writers
  BY DEF TypeOK, Writers
<1>1. CASE TakeBatch \/ Flush \/ FlushEnds \/ BeginDrain \/ FlushFails
  <2>1. writer'.pc # "done"
    BY <1>0, <1>1 DEF TakeBatch, Flush, FlushEnds, BeginDrain, FlushFails, Writers, IdleWriter
  <2>2. writer'.pc \in {"drain", "last", "lastAnnounce"} => closed'
    BY <1>0, <1>1 DEF TakeBatch, Flush, FlushEnds, BeginDrain, FlushFails, Writers, IdleWriter, DrainInv
  <2> QED
    BY <2>1, <2>2 DEF DrainInv
<1>2. CASE DrainEnds
  <2>1. critical = <<>> /\ normal = <<>>
    BY <1>2, NothingTaken DEF DrainEnds
  <2>2. closed /\ UNCHANGED <<critical, normal, closed>>
    BY <1>2 DEF DrainEnds, DrainInv
  <2> QED
    BY <2>1, <2>2 DEF DrainInv
<1>3. CASE DrainFails
  <2>1. batch # EmptyBatch /\ closed /\ UNCHANGED <<batch, closed>>
    BY <1>3 DEF DrainFails, BatchInv, DrainInv
  <2> QED
    BY <2>1 DEF DrainInv
<1>4. CASE Exit \/ Start
  BY <1>4 DEF Exit, Start, DrainInv, IdleWriter
<1>5. ASSUME NEW e \in Events, Announce(e) PROVE DrainInv'
  <2>1. writer'.pc = writer.pc /\ UNCHANGED <<critical, normal, closed, batch>>
    BY <1>0, <1>5 DEF Announce, Writers
  <2> QED
    BY <2>1 DEF DrainInv
<1>6. ASSUME NEW e \in Events, Publish(e) PROVE DrainInv'
  <2>1. closed => UNCHANGED <<critical, normal>>
    BY <1>6 DEF Publish, Drop
  <2> QED
    BY <1>6, <2>1 DEF Publish, DrainInv
<1>7. CASE UNCHANGED <<critical, normal, closed, batch, writer>>
  BY <1>7 DEF DrainInv
<1>8. \/ UNCHANGED <<critical, normal, closed, batch, writer>> \/ TakeBatch \/ Flush \/ FlushFails \/ Exit
      \/ FlushEnds \/ BeginDrain \/ DrainEnds \/ DrainFails \/ Start \/ \E e \in Events : Announce(e) \/ Publish(e)
  BY DEF Next, Run, Close, ListPending, ExportOne, Settle
<1> QED
  BY <1>1, <1>2, <1>3, <1>4, <1>5, <1>6, <1>7, <1>8

-----------------------------------------------------------------------------
(* Where events are, and where they go.                                    *)

\* Publishing an event changes the queues in one of three ways.
LEMMA PublishFact ==
    ASSUME TypeOK, NEW e \in Events, Publish(e)
    PROVE  /\ e \in fresh /\ fresh' = fresh \ {e}
           /\ UNCHANGED <<closed, writer, batch, stopping, rows, outbox, exporter, stored, received, mishaps>>
           /\ Drop(e) \/ (~IsCritical(e) /\ Coalesce(e)) \/ Queue(e)
BY DEF Publish, Enqueue, work

LEMMA QueueFact ==
    ASSUME TypeOK, NEW e \in Events, Queue(e)
    PROVE  /\ Elements(critical') \cup Elements(normal') = Elements(critical) \cup Elements(normal) \cup {e}
           /\ Elements(normal) \subseteq Elements(normal')
           /\ e \in Critical => normal' = normal
           /\ e \notin Critical => normal' = Append(normal, e) /\ e \in Elements(normal')
<1>0. critical \in Seq(Critical) /\ normal \in Seq(Events \ Critical)
  BY DEF TypeOK
<1>1. CASE e \in Critical
  <2>1. critical' = Append(critical, e) /\ normal' = normal
    BY <1>1 DEF Queue, IsCritical
  <2>2. Elements(critical') = Elements(critical) \cup {e}
    BY <1>0, <2>1, ElementsAppend
  <2> QED
    BY <1>1, <2>1, <2>2
<1>2. CASE e \notin Critical
  <2>1. normal' = Append(normal, e) /\ critical' = critical
    BY <1>2 DEF Queue, IsCritical
  <2>2. Elements(normal') = Elements(normal) \cup {e}
    BY <1>0, <2>1, ElementsAppend
  <2> QED
    BY <1>2, <2>1, <2>2
<1> QED
  BY <1>1, <1>2

LEMMA RowsMove ==
    ASSUME TypeOK, Next
    PROVE  /\ rows \subseteq rows' /\ rows' \subseteq rows \cup Items(batch)
           /\ fresh' \subseteq fresh /\ stored \subseteq stored'
<1> USE DEF queues, work, history
<1>1. ASSUME NEW e \in Events, Publish(e)
      PROVE  fresh' \subseteq fresh /\ rows' = rows /\ stored' = stored
  BY <1>1, PublishFact
<1>2. ASSUME Commit PROVE rows \subseteq rows' /\ rows' \subseteq rows \cup Items(batch) /\ stored \subseteq stored'
  BY <1>2 DEF Commit, Inserted
<1>3. CASE Flush \/ FlushFails \/ DrainFails
  <2>1. fresh' = fresh /\ (Commit \/ UNCHANGED <<rows, stored>>)
    BY <1>3 DEF Flush, FlushFails, DrainFails
  <2> QED
    BY <1>2, <2>1
<1>4. CASE UNCHANGED <<fresh, rows, stored>>
  BY <1>4
<1>5. UNCHANGED <<fresh, rows, stored>> \/ Flush \/ FlushFails \/ DrainFails \/ \E e \in Events : Publish(e)
  BY DEF Next, Run, Announce, FlushEnds, BeginDrain, DrainEnds, TakeBatch, Close, Exit, Start, ListPending, ExportOne, Settle
<1> QED
  BY <1>1, <1>3, <1>4, <1>5

\* Only publishing adds to what the writer holds, and it adds what is no longer fresh.
LEMMA HeldMoves ==
    ASSUME TypeOK, BatchInv, Next
    PROVE  \A e \in fresh' : e \in Held' => e \in Held
<1> USE DEF queues, work, history
<1>1. ASSUME NEW e \in Events, Publish(e)
      PROVE  \A x \in fresh' : x \in Held' => x \in Held
  <2>1. batch' = batch /\ fresh' = fresh \ {e}
    BY <1>1, PublishFact
  <2>2. Elements(critical') \cup Elements(normal') \subseteq Elements(critical) \cup Elements(normal) \cup {e}
    <3>1. CASE Drop(e) \/ Coalesce(e)
      BY <3>1 DEF Drop, Coalesce
    <3>2. CASE Queue(e)
      BY <3>2, QueueFact
    <3> QED
      BY <1>1, <3>1, <3>2, PublishFact
  <2> QED
    BY <2>1, <2>2 DEF Held
<1>2. CASE TakeBatch
  <2>1. batch' = Taken
    BY <1>2 DEF TakeBatch
  <2>2. Elements(critical) \cup Elements(normal) = Items(Taken) \cup Elements(critical') \cup Elements(normal')
    BY <1>2, TakeBatchFact
  <2> QED
    BY <2>1, <2>2 DEF Held
<1>3. CASE Flush
  BY <1>3, EmptyTypes DEF Flush, Held
<1>4. CASE FlushFails
  <2>1. batch' = EmptyBatch
    BY <1>4 DEF FlushFails
  <2> QED
    BY <1>4, <2>1, EmptyTypes, RequeueFact DEF Held
<1>5. CASE Exit
  <2>1. batch' = EmptyBatch /\ critical' = <<>> /\ normal' = <<>>
    BY <1>5 DEF Exit
  <2> QED
    BY <2>1, EmptyTypes DEF Held, Elements
<1>6. CASE UNCHANGED <<critical, normal, batch>>
  BY <1>6 DEF Held
<1>7. UNCHANGED <<critical, normal, batch>> \/ TakeBatch \/ Flush \/ FlushFails \/ Exit \/ \E e \in Events : Publish(e)
  BY DEF Next, Run, Announce, FlushEnds, BeginDrain, DrainEnds, DrainFails, Close, Start, ListPending, ExportOne, Settle
<1> QED
  BY <1>1, <1>2, <1>3, <1>4, <1>5, <1>6, <1>7

LEMMA FreshStep ==
    ASSUME TypeOK, BatchInv, FreshInv, Next
    PROVE  FreshInv'
<1>1. Items(batch) \subseteq Held
  BY DEF Held
<1> QED
  BY <1>1, RowsMove, HeldMoves DEF FreshInv

-----------------------------------------------------------------------------
(* The items that are open to further events, and the rows.                *)

LEMMA OpenKeeps ==
    ASSUME OpenInv, coalesced' = coalesced, Elements(normal) \subseteq Elements(normal'),
           Items(batch') \subseteq Items(batch), rows' \subseteq rows \cup Items(batch)
    PROVE  OpenInv'
BY DEF OpenInv

LEMMA OpenStep ==
    ASSUME TypeOK, FreshInv, OpenInv, Next
    PROVE  OpenInv'
<1> USE DEF queues, work, history
<1>0. coalesced \in [Groups -> DOMAIN Group \cup {NoEvent}]
  BY DEF TypeOK
<1>1. ASSUME NEW e \in Events, Publish(e) PROVE OpenInv'
  <2>0. UNCHANGED <<batch, rows>> /\ e \in fresh
    BY <1>1, PublishFact
  <2>1. CASE Drop(e) \/ Coalesce(e)
    BY <2>0, <2>1, OpenKeeps DEF Drop, Coalesce
  <2>2. CASE Queue(e)
    <3>1. Elements(normal) \subseteq Elements(normal') /\ (e \notin Critical => e \in Elements(normal'))
      BY <2>2, QueueFact
    <3>2. e \notin Items(batch) /\ e \notin rows
      BY <2>0 DEF FreshInv, Held
    <3>3. \A g \in Groups : coalesced'[g] = coalesced[g] \/ (e \notin Critical /\ coalesced'[g] = e)
      BY <1>0, <2>2 DEF Queue, IsCritical
    <3> QED
      BY <2>0, <3>1, <3>2, <3>3 DEF OpenInv
  <2> QED
    BY <1>1, <2>1, <2>2, PublishFact
<1>2. CASE TakeBatch
  <2>1. Elements(normal) \subseteq Items(Taken) \cup Elements(normal')
    BY <1>2, TakeBatchFact
  <2>2. batch' = Taken /\ rows' = rows /\ coalesced' = ForgetTaken
    BY <1>2 DEF TakeBatch
  <2>3. \A g \in Groups : coalesced'[g] # NoEvent => coalesced'[g] = coalesced[g] /\ coalesced[g] \notin Items(Taken)
    BY <2>2 DEF ForgetTaken
  <2> QED
    BY <2>1, <2>2, <2>3 DEF OpenInv
<1>3. CASE Flush \/ FlushFails \/ DrainFails
  <2>1. coalesced' = coalesced /\ (batch' = batch \/ batch' = EmptyBatch)
    BY <1>3 DEF Flush, FlushFails, DrainFails
  <2>2. Elements(normal) \subseteq Elements(normal')
    BY <1>3, RequeueFact DEF Flush, DrainFails
  <2> QED
    BY <2>1, <2>2, EmptyTypes, RowsMove, OpenKeeps
<1>4. CASE Exit
  BY <1>4 DEF Exit, OpenInv
<1>5. CASE UNCHANGED <<coalesced, normal, batch, rows>>
  BY <1>5, OpenKeeps
<1>6. UNCHANGED <<coalesced, normal, batch, rows>> \/ TakeBatch \/ Flush \/ FlushFails \/ DrainFails
      \/ Exit \/ \E e \in Events : Publish(e)
  BY DEF Next, Run, Announce, FlushEnds, BeginDrain, DrainEnds, Close, Start, ListPending, ExportOne, Settle
<1> QED
  BY <1>1, <1>2, <1>3, <1>4, <1>5, <1>6

LEMMA StoredStep ==
    ASSUME TypeOK, OpenInv, StoredInv, Next
    PROVE  StoredInv'
<1> USE DEF queues, work, history
<1>0. merged \in [Events -> SUBSET DOMAIN Group] /\ rows \subseteq Events
  BY DEF TypeOK
<1>1. ASSUME NEW e \in Events, Publish(e) PROVE StoredInv'
  <2>0. UNCHANGED <<rows, stored>>
    BY <1>1, PublishFact
  <2>1. CASE Drop(e) \/ Queue(e)
    BY <2>0, <2>1 DEF Drop, Queue, StoredInv
  <2>2. CASE Coalesce(e)
    <3> DEFINE x == coalesced[Group[e]]
    <3>1. merged' = [merged EXCEPT ![x] = merged[x] \cup {e}] /\ x \notin rows
      BY <2>2 DEF Coalesce, OpenInv
    <3> HIDE DEF x
    <3>2. \A d \in rows : merged'[d] = merged[d]
      BY <1>0, <3>1
    <3> QED
      BY <2>0, <3>2 DEF StoredInv
  <2> QED
    BY <1>1, <2>1, <2>2, PublishFact
<1>2. ASSUME Commit, \A d \in Events : merged'[d] \subseteq merged[d] PROVE StoredInv'
  <2>1. \A d \in rows' : d \in Events /\ (d \in rows \/ d \in Inserted)
    BY <1>0, <1>2, ItemsAreEvents DEF Commit
  <2>2. \A d \in Inserted : merged[d] \subseteq stored'
    BY <1>2 DEF Commit
  <2>3. stored \subseteq stored' /\ Inserted \subseteq stored'
    BY <1>2 DEF Commit
  <2> QED
    BY <1>2, <2>1, <2>2, <2>3 DEF StoredInv
<1>3. CASE Flush
  <2>1. \A d \in Events : merged'[d] \subseteq merged[d]
    BY <1>3 DEF Flush
  <2> QED
    BY <1>2, <1>3, <2>1 DEF Flush
<1>4. CASE FlushFails \/ DrainFails
  <2>1. merged' = merged /\ (Commit \/ UNCHANGED <<rows, stored>>)
    BY <1>4 DEF FlushFails, DrainFails
  <2>2. CASE Commit
    BY <1>2, <2>1, <2>2
  <2>3. CASE UNCHANGED <<rows, stored>>
    BY <2>1, <2>3 DEF StoredInv
  <2> QED
    BY <2>1, <2>2, <2>3
<1>5. CASE Exit
  BY <1>0, <1>5 DEF Exit, StoredInv
<1>6. CASE UNCHANGED <<merged, rows, stored>>
  BY <1>6 DEF StoredInv
<1>7. UNCHANGED <<merged, rows, stored>> \/ Flush \/ FlushFails \/ DrainFails
      \/ Exit \/ \E e \in Events : Publish(e)
  BY DEF Next, Run, TakeBatch, Announce, FlushEnds, BeginDrain, DrainEnds, Close, Start, ListPending, ExportOne, Settle
<1> QED
  BY <1>1, <1>3, <1>4, <1>5, <1>6, <1>7

-----------------------------------------------------------------------------
(* What the queues took is accounted for.                                  *)

\* The place of what is held does not matter, only that it is held or counted.
LEMMA AccountedKeeps ==
    ASSUME TakenIsAccounted, taken' = taken, Held \cup dropped \subseteq Held' \cup dropped',
           stored \subseteq stored', merged' = merged
    PROVE  TakenIsAccounted'
BY DEF TakenIsAccounted

LEMMA AccountedPublish ==
    ASSUME TypeOK, OpenInv, TakenIsAccounted, NEW e \in Events, Publish(e)
    PROVE  TakenIsAccounted'
<1>0. batch' = batch /\ stored' = stored /\ taken \in Seq(Events) /\ merged \in [Events -> SUBSET DOMAIN Group]
  BY PublishFact DEF TypeOK
<1>1. CASE Drop(e)
  <2>1. Held' = Held
    BY <1>0, <1>1 DEF Drop, Held
  <2> QED
    BY <1>0, <1>1, <2>1, AccountedKeeps DEF Drop
<1>2. CASE Coalesce(e)
  <2> DEFINE x == coalesced[Group[e]]
  <2>1. merged' = [merged EXCEPT ![x] = merged[x] \cup {e}] /\ x \in Elements(normal) /\ x \in Events
    BY <1>2, ItemsAreEvents DEF Coalesce, OpenInv
  <2> HIDE DEF x
  <2>2. Held' = Held /\ dropped' = dropped
    BY <1>0, <1>2 DEF Coalesce, Held
  <2>3. Elements(taken') = Elements(taken) \cup {e}
    BY <1>0, <1>2, ElementsAppend DEF Coalesce
  <2>4. x \in Held /\ e \in merged'[x]
    BY <1>0, <2>1 DEF Held
  <2>5. \A d \in Held \cup dropped : merged[d] \subseteq merged'[d]
    <3>1. Held \cup dropped \subseteq Events
      BY ItemsAreEvents DEF Held, TypeOK
    <3>2. \A d \in Events : merged[d] \subseteq merged'[d]
      BY <1>0, <2>1
    <3> QED
      BY <3>1, <3>2
  <2> QED
    BY <1>0, <2>2, <2>3, <2>4, <2>5 DEF TakenIsAccounted
<1>3. CASE Queue(e)
  <2>1. Held' = Held \cup {e}
    BY <1>0, <1>3, QueueFact DEF Held
  <2>2. Elements(taken') = Elements(taken) \cup {e} /\ UNCHANGED <<merged, dropped>>
    BY <1>0, <1>3, ElementsAppend DEF Queue
  <2> QED
    BY <1>0, <2>1, <2>2 DEF TakenIsAccounted
<1> QED
  BY <1>1, <1>2, <1>3, PublishFact

LEMMA AccountedFlush ==
    ASSUME TypeOK, StoredInv, TakenIsAccounted, Flush
    PROVE  TakenIsAccounted'
<1>0. /\ taken' = taken /\ dropped' = dropped /\ batch' = EmptyBatch /\ UNCHANGED <<critical, normal>>
      /\ merged' = [e \in Events |-> IF e \in Items(batch) THEN {} ELSE merged[e]] /\ Commit
  BY DEF Flush
<1>1. \A d \in Items(batch) : d \in rows \/ d \in Inserted
  BY DEF Inserted
<1>2. stored \subseteq stored' /\ Inserted \subseteq stored' /\ \A d \in Inserted : merged[d] \subseteq stored'
  BY <1>0 DEF Commit
<1>3. \A d \in Items(batch) : d \in stored' /\ merged[d] \subseteq stored'
  BY <1>1, <1>2 DEF StoredInv
<1>4. Held \subseteq Held' \cup Items(batch)
  BY <1>0 DEF Held
<1>5. \A d \in Held \cup dropped : d \in Events
  BY ItemsAreEvents DEF Held, TypeOK
<1>6. \A d \in Events : d \notin Items(batch) => merged'[d] = merged[d]
  BY <1>0
<1> SUFFICES ASSUME NEW e \in Elements(taken)
             PROVE  e \in Held' \cup stored' \cup dropped' \/ \E d \in Held' \cup dropped' : e \in merged'[d]
  BY <1>0 DEF TakenIsAccounted
<1>7. CASE e \in Held \cup stored \cup dropped
  BY <1>0, <1>2, <1>3, <1>4, <1>7
<1>8. ASSUME NEW d \in Held \cup dropped, e \in merged[d]
      PROVE  e \in Held' \cup stored' \cup dropped' \/ \E x \in Held' \cup dropped' : e \in merged'[x]
  <2>1. CASE d \in Items(batch)
    BY <1>3, <1>8, <2>1
  <2>2. CASE d \notin Items(batch)
    <3>1. d \in Held' \cup dropped' /\ e \in merged'[d]
      BY <1>0, <1>4, <1>5, <1>6, <1>8, <2>2
    <3> QED
      BY <3>1
  <2> QED
    BY <2>1, <2>2
<1> QED
  BY <1>7, <1>8 DEF TakenIsAccounted

LEMMA AccountedStep ==
    ASSUME TypeOK, BatchInv, OpenInv, StoredInv, TakenIsAccounted, Next
    PROVE  TakenIsAccounted'
<1> USE DEF queues, work, history
<1>1. ASSUME NEW e \in Events, Publish(e) PROVE TakenIsAccounted'
  BY <1>1, AccountedPublish
<1>2. CASE Flush
  BY <1>2, AccountedFlush
<1>3. CASE TakeBatch
  <2>1. batch = EmptyBatch /\ batch' = Taken /\ UNCHANGED <<taken, dropped, stored, merged>>
    BY <1>3 DEF TakeBatch, BatchInv
  <2>2. Elements(critical) \cup Elements(normal) = Items(Taken) \cup Elements(critical') \cup Elements(normal')
    BY <1>3, TakeBatchFact
  <2>3. Held \subseteq Held'
    BY <2>1, <2>2, EmptyTypes DEF Held
  <2> QED
    BY <2>1, <2>3, AccountedKeeps
<1>4. CASE FlushFails
  <2>1. /\ UNCHANGED <<taken, merged>> /\ batch' = EmptyBatch
        /\ dropped' = dropped \cup (Items(batch) \ (Elements(critical') \cup Elements(normal')))
    BY <1>4 DEF FlushFails
  <2>2. Held \cup dropped \subseteq Held' \cup dropped'
    BY <1>4, <2>1, RequeueFact DEF Held
  <2> QED
    BY <2>1, <2>2, RowsMove, AccountedKeeps
<1>5. CASE DrainFails
  <2>1. UNCHANGED <<taken, dropped, critical, normal, batch, merged>>
    BY <1>5 DEF DrainFails
  <2>2. Held' = Held
    BY <2>1 DEF Held
  <2> QED
    BY <2>1, <2>2, RowsMove, AccountedKeeps
<1>6. CASE Exit
  BY <1>6 DEF Exit, TakenIsAccounted, Elements
<1>7. CASE UNCHANGED <<taken, dropped, critical, normal, batch, merged, stored>>
  <2>1. Held' = Held
    BY <1>7 DEF Held
  <2> QED
    BY <1>7, <2>1, AccountedKeeps
<1>8. UNCHANGED <<taken, dropped, critical, normal, batch, merged, stored>> \/ Flush \/ FlushFails \/ DrainFails
      \/ TakeBatch \/ Exit \/ \E e \in Events : Publish(e)
  BY DEF Next, Run, Announce, FlushEnds, BeginDrain, DrainEnds, Close, Start, ListPending, ExportOne, Settle
<1> QED
  BY <1>1, <1>2, <1>3, <1>4, <1>5, <1>6, <1>7, <1>8

-----------------------------------------------------------------------------
(* The order of the normal events.                                         *)

LEMMA OrderedTaken ==
    ASSUME NEW S, NEW tk \in Seq(S), NEW e, NEW l, Ordered(l, tk)
    PROVE  Ordered(l, Append(tk, e))
<1>1. \A m \in DOMAIN tk : m \in DOMAIN Append(tk, e) /\ Append(tk, e)[m] = tk[m]
  OBVIOUS
<1> QED
  BY <1>1 DEF Ordered

LEMMA OrderedAppend ==
    ASSUME NEW S, NEW tk \in Seq(S), NEW T, NEW l \in Seq(T), NEW e,
           Ordered(l, tk), Elements(l) \subseteq Elements(tk)
    PROVE  Ordered(Append(l, e), Append(tk, e))
<1> DEFINE a == Append(l, e)
           u == Append(tk, e)
<1>1. /\ DOMAIN a = 1..Len(l) + 1 /\ a[Len(l) + 1] = e /\ Len(l) \in Nat /\ DOMAIN l = 1..Len(l)
      /\ \A i \in 1..Len(l) : a[i] = l[i]
  OBVIOUS
<1>2. /\ DOMAIN u = 1..Len(tk) + 1 /\ u[Len(tk) + 1] = e /\ Len(tk) \in Nat /\ DOMAIN tk = 1..Len(tk)
      /\ \A i \in 1..Len(tk) : u[i] = tk[i]
  OBVIOUS
<1> HIDE DEF a, u
<1> SUFFICES ASSUME NEW i \in DOMAIN a, NEW j \in DOMAIN a, i < j
             PROVE  \E m, n \in DOMAIN u : m < n /\ u[m] = a[i] /\ u[n] = a[j]
  BY DEF Ordered, a, u
<1>3. i \in DOMAIN l /\ a[i] = l[i]
  BY <1>1
<1>4. CASE j \in DOMAIN l
  <2>1. PICK m \in DOMAIN tk, n \in DOMAIN tk : m < n /\ tk[m] = l[i] /\ tk[n] = l[j]
    BY <1>3, <1>4 DEF Ordered
  <2> QED
    BY <1>1, <1>2, <1>3, <1>4, <2>1
<1>5. CASE j \notin DOMAIN l
  <2>1. j = Len(l) + 1 /\ a[j] = e
    BY <1>1, <1>5
  <2>2. PICK m \in DOMAIN tk : tk[m] = l[i]
    BY <1>3 DEF Elements
  <2>3. m \in DOMAIN u /\ u[m] = a[i] /\ Len(tk) + 1 \in DOMAIN u /\ m < Len(tk) + 1
    BY <1>2, <1>3, <2>2
  <2> QED
    BY <1>2, <2>1, <2>3
<1> QED
  BY <1>4, <1>5

LEMMA OrderedSuffix ==
    ASSUME NEW S, NEW a \in Seq(S), NEW b \in Seq(S), NEW tk, Ordered(a \o b, tk)
    PROVE  Ordered(b, tk)
<1>1. /\ DOMAIN (a \o b) = 1..Len(a) + Len(b) /\ DOMAIN b = 1..Len(b) /\ Len(a) \in Nat /\ Len(b) \in Nat
      /\ \A i \in 1..Len(a) + Len(b) : (a \o b)[i] = IF i <= Len(a) THEN a[i] ELSE b[i - Len(a)]
  OBVIOUS
<1> SUFFICES ASSUME NEW i \in DOMAIN b, NEW j \in DOMAIN b, i < j
             PROVE  \E m, n \in DOMAIN tk : m < n /\ tk[m] = b[i] /\ tk[n] = b[j]
  BY DEF Ordered
<1> DEFINE c == a \o b
<1>2. /\ Len(a) + i \in DOMAIN c /\ Len(a) + j \in DOMAIN c /\ Len(a) + i < Len(a) + j
      /\ c[Len(a) + i] = b[i] /\ c[Len(a) + j] = b[j]
  BY <1>1
<1> HIDE DEF c
<1>3. Ordered(c, tk)
  BY DEF c
<1> QED
  BY <1>2, <1>3 DEF Ordered

\* What is left at the end of the line is in order too.
LEMMA LineSuffix ==
    ASSUME NEW S, NEW a \in Seq(S), LineInv, taken' = taken, Line' \in Seq(S), Line = a \o Line'
    PROVE  LineInv'
<1> DEFINE b == Line'
<1>1. Ordered(a \o b, taken) /\ Elements(a \o b) \subseteq Elements(taken)
  BY DEF LineInv
<1>2. b \in Seq(S)
  OBVIOUS
<1> HIDE DEF b
<1>3. Ordered(b, taken)
  BY <1>1, <1>2, OrderedSuffix
<1>4. Elements(b) \subseteq Elements(taken)
  BY <1>1, <1>2, ElementsConcat
<1> QED
  BY <1>3, <1>4 DEF b, LineInv

LEMMA LineStep ==
    ASSUME TypeOK, BatchInv, LineInv, Next
    PROVE  LineInv'
<1> USE DEF queues, work, history
<1> DEFINE S == Events \ Critical
<1>0. normal \in Seq(S) /\ batch.normal \in Seq(S) /\ taken \in Seq(Events)
  BY ItemsAreEvents DEF TypeOK
<1>1. Line \in Seq(S)
  BY <1>0 DEF Line
<1>2. ASSUME Line' = Line, taken' = taken PROVE LineInv'
  BY <1>2 DEF LineInv
<1>3. ASSUME NEW e \in Events, Publish(e) PROVE LineInv'
  <2>0. batch' = batch
    BY <1>3, PublishFact
  <2>1. CASE Drop(e)
    BY <1>2, <2>0, <2>1 DEF Drop, Line
  <2>2. ASSUME taken' = Append(taken, e), Line' = Line PROVE LineInv'
    <3>1. Elements(taken') = Elements(taken) \cup {e} /\ Ordered(Line, taken')
      BY <1>0, <2>2, ElementsAppend, OrderedTaken DEF LineInv
    <3> QED
      BY <2>2, <3>1 DEF LineInv
  <2>3. CASE Coalesce(e)
    BY <2>0, <2>2, <2>3 DEF Coalesce, Line
  <2>4. CASE Queue(e) /\ e \in Critical
    BY <2>0, <2>2, <2>4 DEF Queue, IsCritical, Line
  <2>5. CASE Queue(e) /\ e \notin Critical
    <3>1. normal' = Append(normal, e) /\ taken' = Append(taken, e)
      BY <2>5 DEF Queue, IsCritical
    <3>2. Line' = Append(Line, e)
      <4> DEFINE p == batch.normal
      <4>1. p \in Seq(S) /\ e \in S
        BY <1>0, <2>5
      <4>2. Line = p \o normal /\ Line' = p \o Append(normal, e)
        BY <2>0, <3>1 DEF Line
      <4> HIDE DEF p, S
      <4>3. p \o Append(normal, e) = Append(p \o normal, e)
        <5>1. Append(normal, e) = normal \o <<e>> /\ <<e>> \in Seq(S)
          BY <1>0, <4>1
        <5>2. p \o normal \in Seq(S) /\ Append(p \o normal, e) = (p \o normal) \o <<e>>
          BY <1>0, <4>1, AppendIsConcat, ConcatProperties
        <5> QED
          BY <1>0, <4>1, <5>1, <5>2, ConcatAssociative
      <4> QED
        BY <4>2, <4>3
    <3>3. Elements(Line') = Elements(Line) \cup {e} /\ Elements(taken') = Elements(taken) \cup {e}
      BY <1>0, <1>1, <3>1, <3>2, ElementsAppend
    <3>4. Ordered(Append(Line, e), Append(taken, e))
      BY <1>0, <1>1, OrderedAppend DEF LineInv
    <3> QED
      BY <3>1, <3>2, <3>3, <3>4 DEF LineInv
  <2> QED
    BY <1>3, <2>1, <2>3, <2>4, <2>5, PublishFact
<1>4. CASE TakeBatch
  <2>1. batch = EmptyBatch /\ batch' = Taken /\ taken' = taken
    BY <1>4 DEF TakeBatch, BatchInv
  <2>2. normal = Taken.normal \o normal'
    BY <1>4, TakeBatchFact
  <2>3. Line = normal
    BY <1>0, <2>1, EmptyTypes, ConcatEmptySeq DEF Line
  <2>4. Line' = normal
    BY <2>1, <2>2 DEF Line
  <2> QED
    BY <1>2, <2>1, <2>3, <2>4
<1>5. CASE Flush
  <2>1. batch' = EmptyBatch /\ normal' = normal /\ taken' = taken
    BY <1>5 DEF Flush
  <2>2. Line' = normal
    BY <1>0, <2>1, EmptyTypes, ConcatEmptySeq DEF Line
  <2>3. Line = batch.normal \o Line'
    BY <2>2 DEF Line
  <2> HIDE DEF S
  <2> QED
    BY <1>0, <2>1, <2>2, <2>3, LineSuffix
<1>6. CASE FlushFails
  <2> DEFINE p == batch.normal
  <2>1. batch' = EmptyBatch /\ taken' = taken
    BY <1>6 DEF FlushFails
  <2>2. PICK k \in 0..Len(p) : normal' = SubSeq(p, k + 1, Len(p)) \o normal
    BY <1>6, RequeueFact
  <2>3. p \in Seq(S) /\ Line = p \o normal
    BY <1>0 DEF Line
  <2> HIDE DEF p, S
  <2> DEFINE a == SubSeq(p, 1, k)
             z == SubSeq(p, k + 1, Len(p))
  <2>4. a \in Seq(S) /\ z \in Seq(S)
    BY <2>3, Cut
  <2>5. p = a \o z
    BY <2>3, Cut
  <2>6. normal' = z \o normal
    BY <2>2
  <2> HIDE DEF a, z
  <2>7. z \o normal \in Seq(S) /\ (a \o z) \o normal = a \o (z \o normal)
    <3>1. normal \in Seq(S)
      BY <1>0
    <3>2. z \o normal \in Seq(S)
      BY <2>4, <3>1, ConcatProperties
    <3>3. (a \o z) \o normal = a \o (z \o normal)
      BY <2>4, <3>1, ConcatAssociative
    <3> QED
      BY <3>2, <3>3
  <2>8. Line' = z \o normal
    BY <2>1, <2>6, <2>7, EmptyTypes, ConcatEmptySeq DEF Line
  <2> QED
    BY <2>1, <2>3, <2>4, <2>5, <2>7, <2>8, LineSuffix
<1>7. CASE Exit
  <2>1. batch' = EmptyBatch /\ normal' = <<>>
    BY <1>7 DEF Exit
  <2>2. Line' = <<>>
    BY <2>1, EmptyTypes DEF Line
  <2> QED
    BY <2>2 DEF LineInv, Elements, Ordered
<1>8. CASE UNCHANGED <<taken, normal, batch>>
  BY <1>2, <1>8 DEF Line
<1>9. UNCHANGED <<taken, normal, batch>> \/ Flush \/ FlushFails \/ TakeBatch \/ Exit \/ \E e \in Events : Publish(e)
  BY DEF Next, Run, DrainFails, Announce, FlushEnds, BeginDrain, DrainEnds, Close, Start, ListPending, ExportOne, Settle
<1> QED
  BY <1>3, <1>4, <1>5, <1>6, <1>7, <1>8, <1>9

-----------------------------------------------------------------------------
(* The invariant and what follows from it.                                 *)

LEMMA WriterInit == Init => WriterInv
<1> SUFFICES ASSUME Init PROVE WriterInv
  OBVIOUS
<1>1. /\ critical = <<>> /\ normal = <<>> /\ taken = <<>> /\ batch = EmptyBatch /\ writer = IdleWriter
      /\ rows = {} /\ stored = {} /\ dropped = {}
  BY DEF Init
<1>2. /\ <<>> \in Seq(Critical) /\ <<>> \in Seq(Events \ Critical) /\ <<>> \in Seq(Events) /\ Len(<<>>) = 0
      /\ 0 <= CriticalCapacity /\ 0 <= NormalCapacity
  OBVIOUS
<1>3. /\ critical \in Seq(Critical) /\ Len(critical) <= CriticalCapacity
      /\ normal \in Seq(Events \ Critical) /\ Len(normal) <= NormalCapacity /\ taken \in Seq(Events)
  BY <1>1, <1>2
<1>4. batch \in Batches /\ Len(batch.critical) + Len(batch.normal) <= BatchSize /\ writer \in Writers
  BY <1>1, EmptyTypes
<1>5. /\ fresh \in SUBSET Events /\ coalesced \in [Groups -> DOMAIN Group \cup {NoEvent}]
      /\ merged \in [Events -> SUBSET DOMAIN Group] /\ closed \in BOOLEAN /\ stopping \in BOOLEAN
      /\ mishaps \in 0..MaxMishaps
  <2>1. /\ fresh = Events /\ coalesced = [g \in Groups |-> NoEvent] /\ merged = [e \in Events |-> {}]
        /\ closed = FALSE /\ stopping = FALSE /\ mishaps = 0
    BY DEF Init
  <2>2. merged \in [Events -> SUBSET DOMAIN Group] /\ coalesced \in [Groups -> DOMAIN Group \cup {NoEvent}]
    BY <2>1
  <2>3. 0 \in 0..MaxMishaps
    OBVIOUS
  <2> QED
    BY <2>1, <2>2, <2>3
<1>6. TypeOK
  BY <1>1, <1>3, <1>4, <1>5, ExportInit DEF TypeOK, Batches, Writers, ExportInv, OutboxType
<1>7. BatchInv /\ DrainInv
  BY <1>1 DEF BatchInv, DrainInv, IdleWriter
<1>8. FreshInv
  BY <1>1, EmptyTypes DEF FreshInv, Held, Elements
<1>9. OpenInv /\ StoredInv
  BY DEF Init, OpenInv, StoredInv
<1>10. Line = <<>>
  BY <1>1, EmptyTypes DEF Line
<1>11. TakenIsAccounted /\ LineInv
  BY <1>1, <1>10 DEF TakenIsAccounted, LineInv, Elements, Ordered
<1> QED
  BY <1>6, <1>7, <1>8, <1>9, <1>11 DEF WriterInv

LEMMA WriterStep == WriterInv /\ OutboxType' /\ [Next]_vars => WriterInv'
<1> SUFFICES ASSUME WriterInv, OutboxType', [Next]_vars PROVE WriterInv'
  OBVIOUS
<1> USE DEF WriterInv
<1>1. CASE Next
  BY <1>1, TypeStep, BatchStep, DrainStep, FreshStep, OpenStep, StoredStep, AccountedStep, LineStep
<1>2. CASE UNCHANGED vars
  <2> USE <1>2 DEF vars
  <2>1. Held' = Held /\ Line' = Line
    BY DEF Held, Line
  <2>2. TypeOK' /\ BatchInv' /\ DrainInv'
    BY DEF TypeOK, BatchInv, DrainInv
  <2>3. FreshInv' /\ OpenInv' /\ StoredInv'
    BY <2>1 DEF FreshInv, OpenInv, StoredInv
  <2>4. TakenIsAccounted' /\ LineInv'
    BY <2>1 DEF TakenIsAccounted, LineInv
  <2> QED
    BY <2>2, <2>3, <2>4
<1> QED
  BY <1>1, <1>2

LEMMA WriterInvariant == Spec => []WriterInv
<1>1. Spec => []ExportInv
  BY ExportInit, ExportStep, PTL DEF Spec
<1>2. ExportInv => OutboxType
  BY DEF ExportInv
<1> QED
  BY <1>1, <1>2, WriterInit, WriterStep, PTL DEF Spec

(* The queues, the batch, the tables and the exporter keep their types; in *)
(* particular requeue never fills a queue beyond its capacity and takeBatch *)
(* takes no more than a batch.                                             *)
THEOREM WriterTypeCorrect == Spec => []TypeOK
<1>1. WriterInv => TypeOK
  BY DEF WriterInv
<1> QED
  BY <1>1, WriterInvariant, PTL

(* Nothing that enqueue accepted disappears silently: until the process    *)
(* ends it waits, is in the batch, is stored or is counted as dropped, and *)
(* so is what tryCoalesceLocked merged into another item.                  *)
THEOREM TakenAreAccounted == Spec => []TakenIsAccounted
<1>1. WriterInv => TakenIsAccounted
  BY DEF WriterInv
<1> QED
  BY <1>1, WriterInvariant, PTL

(* takeBatch and requeue keep the normal events in the order in which they *)
(* were enqueued, through any number of failed writes.                     *)
THEOREM NormalsInOrder == Spec => []NormalInOrder
<1>1. WriterInv => NormalInOrder
  BY DEF WriterInv, LineInv, Line, Ordered, NormalInOrder
<1> QED
  BY <1>1, WriterInvariant, PTL

(* The writer closes the queues before it drains them, so that a drain     *)
(* without a failure leaves nothing behind.                                *)
THEOREM DrainStoresAll == Spec => []DrainedIsStored
<1>1. WriterInv => DrainedIsStored
  <2>1. Elements(<<>>) = {}
    BY DEF Elements
  <2> QED
    BY <2>1, EmptyTypes DEF WriterInv, DrainInv, DrainedIsStored, Held
<1> QED
  BY <1>1, WriterInvariant, PTL
=============================================================================
