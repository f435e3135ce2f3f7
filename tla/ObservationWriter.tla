------------------------- MODULE ObservationWriter --------------------------
(***************************************************************************)
(* From the observation bus to the database and on to an OTLP endpoint:    *)
(* the asynchronous writer (store/observation_async.go), its transaction   *)
(* (store/observation_batch.go), the export outbox                         *)
(* (store/observation_support.go) and an exporter                          *)
(* (observability/exporter.go).                                            *)
(*                                                                         *)
(* Processes: the publishers, the writer's goroutine and the exporter's.   *)
(* A section under the writer's mutex, a transaction, a statement and a    *)
(* post are one step each.                                                 *)
(***************************************************************************)
EXTENDS Integers, Sequences, FiniteSets

CONSTANTS
    Events,       \* observation envelopes, told apart by their dedupe key
    Critical,     \* the ones criticalObservation selects
    Groups,       \* trace, span and kind of the events that may be coalesced
    Group,        \* the group of some normal events
    CriticalCapacity,  \* observationCriticalQueueCapacity
    NormalCapacity,    \* observationNormalQueueCapacity
    SampleFrom,   \* the depth at which normal events begin to be sampled
    BatchSize,    \* observationWriteBatchSize
    QueueSize,    \* the exporter's QueueSize
    MaxMishaps    \* bound: failures of the database and crashes

NoEvent == "no event"

ASSUME ObservationWriterAssumption ==
    /\ Critical \subseteq Events
    /\ DOMAIN Group \subseteq Events \ Critical
    /\ \A e \in DOMAIN Group : Group[e] \in Groups
    /\ NoEvent \notin Events
    /\ CriticalCapacity \in Nat /\ NormalCapacity \in Nat /\ SampleFrom \in Nat
    /\ BatchSize \in Nat \ {0} /\ QueueSize \in Nat \ {0} /\ MaxMishaps \in Nat

VARIABLES
    fresh,      \* events not yet published
    critical, normal,   \* the queues
    coalesced,  \* per group, the item that takes further events
    merged,     \* per item, the events coalesced into it
    closed,     \* the queues refuse events
    writer,     \* the writer's goroutine: pc, and the inserted events it still has to announce
    batch,      \* the items it has taken, the critical ones before the others
    stopping,   \* the writer was told to stop
    rows,       \* database: observation_events
    outbox,     \* database: observation_export_outbox, status per event
    exporter,   \* the exporter: the list it works through, the event it has posted
    taken,      \* history: the events this run's queues took, in order
    stored,     \* history: the events some row stands for
    dropped,    \* history: the events this run counted as dropped
    received,   \* history: the events the endpoint has received
    mishaps

queues == <<critical, normal, coalesced, merged, closed>>
work == <<writer, batch, stopping>>
history == <<taken, stored, dropped, received>>
vars == <<fresh, critical, normal, coalesced, merged, closed, writer, batch, stopping, rows,
          outbox, exporter, taken, stored, dropped, received, mishaps>>

IdleWriter == [pc |-> "idle", inserted |-> {}]
EmptyBatch == [critical |-> <<>>, normal |-> <<>>]
IdleExporter == [list |-> {}, posted |-> NoEvent, ok |-> FALSE]
Elements(s) == {s[i] : i \in DOMAIN s}
Mishap == mishaps < MaxMishaps /\ mishaps' = mishaps + 1
NoMishap == UNCHANGED mishaps
Running == writer.pc # "down"

Init ==
    /\ fresh = Events
    /\ critical = <<>> /\ normal = <<>>
    /\ coalesced = [g \in Groups |-> NoEvent] /\ merged = [e \in Events |-> {}]
    /\ closed = FALSE /\ writer = IdleWriter /\ batch = EmptyBatch /\ stopping = FALSE
    /\ rows = {} /\ outbox = [e \in Events |-> "none"] /\ exporter = IdleExporter
    /\ taken = <<>> /\ stored = {} /\ dropped = {} /\ received = {}
    /\ mishaps = 0
-----------------------------------------------------------------------------
(* enqueue, one section under the mutex.                                   *)

(* criticalObservation: what ends, failed or was used must not be lost.    *)
IsCritical(e) == e \in Critical

Drop(e) ==
    /\ dropped' = dropped \cup {e}
    /\ UNCHANGED <<critical, normal, coalesced, merged, taken>>

(* tryCoalesceLocked: the item must be young and small enough.             *)
Coalesce(e) ==
    /\ e \in DOMAIN Group /\ coalesced[Group[e]] # NoEvent
    /\ merged' = [merged EXCEPT ![coalesced[Group[e]]] = @ \cup {e}]
    /\ taken' = Append(taken, e)
    /\ UNCHANGED <<critical, normal, coalesced, dropped>>

Queue(e) ==
    /\ taken' = Append(taken, e)
    /\ UNCHANGED <<merged, dropped>>
    /\ IF IsCritical(e)
       THEN critical' = Append(critical, e) /\ UNCHANGED <<normal, coalesced>>
       ELSE /\ normal' = Append(normal, e) /\ UNCHANGED critical
            /\ coalesced' = IF e \in DOMAIN Group THEN [coalesced EXCEPT ![Group[e]] = e]
                            ELSE coalesced

(* Near the limit one normal event in five, then one in twenty is kept:    *)
(* which one is left open.                                                 *)
Enqueue(e) ==
    \/ IsCritical(e) /\ Len(critical) < CriticalCapacity /\ Queue(e)
    \/ IsCritical(e) /\ Len(critical) >= CriticalCapacity /\ Drop(e)
    \/ ~IsCritical(e) /\ Coalesce(e)
    \/ ~IsCritical(e) /\ Len(normal) < NormalCapacity /\ Queue(e)
    \/ ~IsCritical(e) /\ Len(normal) >= SampleFrom /\ Drop(e)

Publish(e) ==
    /\ Running /\ e \in fresh
    /\ fresh' = fresh \ {e}
    /\ IF closed THEN Drop(e) ELSE Enqueue(e)
    /\ UNCHANGED <<closed, work, rows, outbox, exporter, stored, received, mishaps>>
-----------------------------------------------------------------------------
(* The writer's goroutine.                                                 *)

Least(a, b) == IF a < b THEN a ELSE b
TakeCritical == Least(BatchSize, Len(critical))
TakeNormal == Least(BatchSize - TakeCritical, Len(normal))
Taken == [critical |-> SubSeq(critical, 1, TakeCritical), normal |-> SubSeq(normal, 1, TakeNormal)]
Items(b) == Elements(b.critical) \cup Elements(b.normal)

(* Variation: a taken item stays open to its group.                        *)
ForgetTakenNot == coalesced

(* An item that is taken takes no further events.                          *)
ForgetTaken ==
    [g \in Groups |-> IF coalesced[g] \in Items(Taken) THEN NoEvent ELSE coalesced[g]]

(* takeBatch, critical events first.                                       *)
TakeBatch ==
    /\ writer.pc \in {"idle", "drain"} /\ Taken # EmptyBatch
    /\ batch' = Taken
    /\ critical' = SubSeq(critical, TakeCritical + 1, Len(critical))
    /\ normal' = SubSeq(normal, TakeNormal + 1, Len(normal))
    /\ coalesced' = ForgetTaken
    /\ writer' = [writer EXCEPT !.pc = IF writer.pc = "drain" THEN "last" ELSE "flush"]
    /\ UNCHANGED <<fresh, merged, closed, stopping, rows, outbox, exporter, history, mishaps>>

(* recordObservationBatch: one transaction inserts the events of the batch *)
(* that are not stored; a coalesced event is an attribute of its item.     *)
Inserted == Items(batch) \ rows
Commit ==
    /\ rows' = rows \cup Inserted
    /\ stored' = stored \cup Inserted \cup UNION {merged[e] : e \in Inserted}

Flush ==
    /\ writer.pc \in {"flush", "last"}
    /\ Commit
    /\ merged' = [e \in Events |-> IF e \in Items(batch) THEN {} ELSE merged[e]]
    /\ batch' = EmptyBatch
    /\ writer' = [pc |-> IF writer.pc = "last" THEN "lastAnnounce" ELSE "announce",
                  inserted |-> Inserted]
    /\ UNCHANGED <<fresh, critical, normal, coalesced, closed, stopping, outbox, exporter,
                   taken, dropped, received, mishaps>>

(* Variation: the batch is appended to the queue again.                    *)
RequeuedBehind(queue, items, capacity) ==
    LET room == IF Len(queue) >= capacity THEN 0 ELSE Least(capacity - Len(queue), Len(items))
    IN queue \o SubSeq(items, 1, room)

(* Variation: the batch is put back without a look at the capacity.        *)
RequeuedUnbounded(queue, items, capacity) == items \o queue

(* requeue walks the batch from its end and puts every item in front, as   *)
(* long as there is room.                                                  *)
Requeued(queue, items, capacity) ==
    LET room == IF Len(queue) >= capacity THEN 0 ELSE Least(capacity - Len(queue), Len(items))
    IN SubSeq(items, Len(items) - room + 1, Len(items)) \o queue

(* The transaction fails, perhaps only its answer: requeue and try again   *)
(* later, when the stored events are left out and not announced.           *)
FlushFails ==
    /\ writer.pc = "flush" /\ Mishap
    /\ Commit \/ UNCHANGED <<rows, stored>>
    /\ critical' = Requeued(critical, batch.critical, CriticalCapacity)
    /\ normal' = Requeued(normal, batch.normal, NormalCapacity)
    /\ dropped' = dropped \cup (Items(batch) \ (Elements(critical') \cup Elements(normal')))
    /\ batch' = EmptyBatch /\ writer' = IdleWriter
    /\ UNCHANGED <<fresh, coalesced, merged, closed, stopping, outbox, exporter, taken, received>>

(* afterRecord: EnqueueObservationExport and TrimObservationExportQueue,   *)
(* which discards the oldest beyond the size (the model leaves open which  *)
(* ones are the oldest); an error of either is only logged.                *)
Open == {e \in Events : outbox[e] \in {"pending", "retry"}}
Trimmed(open) ==
    {keep \in SUBSET open : Cardinality(keep) = Least(QueueSize, Cardinality(open))}

Announce(e) ==
    /\ writer.pc \in {"announce", "lastAnnounce"} /\ e \in writer.inserted
    /\ writer' = [writer EXCEPT !.inserted = @ \ {e}]
    /\ \/ /\ NoMishap
          /\ \E keep \in Trimmed(Open \cup {e}) :
                outbox' = [x \in Events |-> IF x \notin Open \cup {e} THEN outbox[x]
                                            ELSE IF x \notin keep THEN "discarded"
                                            ELSE IF x = e THEN "pending" ELSE outbox[x]]
       \/ Mishap /\ outbox' \in {outbox, [outbox EXCEPT ![e] = "pending"]}
    /\ UNCHANGED <<fresh, queues, batch, stopping, rows, exporter, history>>

FlushEnds ==
    /\ writer.pc \in {"announce", "lastAnnounce"} /\ writer.inserted = {}
    /\ writer' = [writer EXCEPT !.pc = IF writer.pc = "lastAnnounce" THEN "drain" ELSE "idle"]
    /\ UNCHANGED <<fresh, queues, batch, stopping, rows, outbox, exporter, history, mishaps>>
-----------------------------------------------------------------------------
(* Close, a crash and the next start.                                      *)

Close ==
    /\ Running /\ ~stopping
    /\ stopping' = TRUE
    /\ UNCHANGED <<fresh, queues, writer, batch, rows, outbox, exporter, history, mishaps>>

(* Variation: the writer drains queues that are still open.                *)
BeginDrainOpen ==
    /\ stopping /\ writer.pc = "idle"
    /\ writer' = [writer EXCEPT !.pc = "drain"]
    /\ UNCHANGED <<fresh, queues, batch, stopping, rows, outbox, exporter, history, mishaps>>

BeginDrain ==
    /\ stopping /\ writer.pc = "idle"
    /\ closed' = TRUE
    /\ writer' = [writer EXCEPT !.pc = "drain"]
    /\ UNCHANGED <<fresh, critical, normal, coalesced, merged, batch, stopping, rows, outbox,
                   exporter, history, mishaps>>

DrainEnds ==
    /\ writer.pc = "drain" /\ Taken = EmptyBatch
    /\ writer' = [writer EXCEPT !.pc = "done"]
    /\ UNCHANGED <<fresh, queues, batch, stopping, rows, outbox, exporter, history, mishaps>>

(* The first failure ends the drain: the batch is not put back.            *)
DrainFails ==
    /\ writer.pc = "last" /\ Mishap
    /\ Commit \/ UNCHANGED <<rows, stored>>
    /\ writer' = [writer EXCEPT !.pc = "done"]
    /\ UNCHANGED <<fresh, queues, batch, stopping, outbox, exporter, taken, dropped, received>>

(* The process ends, after the writer or in the middle of everything.      *)
Exit ==
    /\ Running
    /\ (writer.pc = "done" /\ NoMishap) \/ Mishap
    /\ writer' = [IdleWriter EXCEPT !.pc = "down"] /\ batch' = EmptyBatch /\ stopping' = FALSE
    /\ critical' = <<>> /\ normal' = <<>> /\ closed' = FALSE
    /\ coalesced' = [g \in Groups |-> NoEvent] /\ merged' = [e \in Events |-> {}]
    /\ exporter' = IdleExporter
    /\ taken' = <<>> /\ dropped' = {}
    /\ UNCHANGED <<fresh, rows, outbox, stored, received>>

Start ==
    /\ writer.pc = "down" /\ writer' = IdleWriter
    /\ UNCHANGED <<fresh, queues, batch, stopping, rows, outbox, exporter, history, mishaps>>
-----------------------------------------------------------------------------
(* The exporter.                                                           *)

ListPending ==
    /\ Running /\ ~stopping /\ exporter = IdleExporter /\ Open # {}
    /\ \E list \in SUBSET Open :
          /\ list # {} /\ Cardinality(list) <= QueueSize
          /\ exporter' = [exporter EXCEPT !.list = list]
    /\ UNCHANGED <<fresh, queues, work, rows, outbox, history, mishaps>>

(* exportOne: the endpoint takes the event or not, and its answer may not  *)
(* arrive in time.                                                         *)
ExportOne(e) ==
    /\ exporter.posted = NoEvent /\ e \in exporter.list
    /\ \E took, ok \in BOOLEAN :
          /\ ok => took
          /\ received' = IF took THEN received \cup {e} ELSE received
          /\ exporter' = [list |-> exporter.list \ {e}, posted |-> e, ok |-> ok]
    /\ UNCHANGED <<fresh, queues, work, rows, outbox, taken, stored, dropped, mishaps>>

(* Variation: every answer counts as success.                              *)
SettleAlways ==
    /\ exporter.posted # NoEvent
    /\ exporter' = [exporter EXCEPT !.posted = NoEvent, !.ok = FALSE]
    /\ outbox' = [outbox EXCEPT ![exporter.posted] = "sent"] /\ NoMishap
    /\ UNCHANGED <<fresh, queues, work, rows, history>>

(* CompleteObservationExport or RetryObservationExport; neither looks at   *)
(* the status the row has by now.                                          *)
Settle ==
    /\ exporter.posted # NoEvent
    /\ exporter' = [exporter EXCEPT !.posted = NoEvent, !.ok = FALSE]
    /\ \/ /\ NoMishap
          /\ outbox' = [outbox EXCEPT ![exporter.posted] = IF exporter.ok THEN "sent" ELSE "retry"]
       \/ Mishap /\ UNCHANGED outbox
    /\ UNCHANGED <<fresh, queues, work, rows, history>>
-----------------------------------------------------------------------------
Run == TakeBatch \/ Flush \/ (\E e \in Events : Announce(e)) \/ FlushEnds \/ BeginDrain \/ DrainEnds

Next ==
    \/ \E e \in Events : Publish(e)
    \/ Run \/ FlushFails \/ DrainFails \/ Close \/ Exit \/ Start
    \/ ListPending \/ (\E e \in Events : ExportOne(e)) \/ Settle

Spec == Init /\ [][Next]_vars
-----------------------------------------------------------------------------
TypeOK ==
    /\ fresh \in SUBSET Events
    /\ critical \in Seq(Critical) /\ Len(critical) <= CriticalCapacity
    /\ normal \in Seq(Events \ Critical) /\ Len(normal) <= NormalCapacity
    /\ coalesced \in [Groups -> DOMAIN Group \cup {NoEvent}]
    /\ merged \in [Events -> SUBSET DOMAIN Group] /\ closed \in BOOLEAN
    /\ writer \in [pc : {"idle", "flush", "announce", "drain", "last", "lastAnnounce", "done",
                         "down"}, inserted : SUBSET Events]
    /\ batch \in [critical : Seq(Critical), normal : Seq(Events \ Critical)]
    /\ Len(batch.critical) + Len(batch.normal) <= BatchSize /\ stopping \in BOOLEAN
    /\ rows \in SUBSET Events
    /\ outbox \in [Events -> {"none", "pending", "retry", "sent", "discarded"}]
    /\ exporter \in [list : SUBSET Events, posted : Events \cup {NoEvent}, ok : BOOLEAN]
    /\ taken \in Seq(Events) /\ stored \in SUBSET Events
    /\ dropped \in SUBSET Events /\ received \in SUBSET Events
    /\ mishaps \in 0..MaxMishaps

Held == Elements(critical) \cup Elements(normal) \cup Items(batch)

(* What the queues took is in a queue, in the batch, in the database or    *)
(* counted as dropped; a coalesced event shares the fate of its item.      *)
TakenIsAccounted ==
    \A e \in Elements(taken) :
        \/ e \in Held \cup stored \cup dropped
        \/ \E d \in Held \cup dropped : e \in merged[d]

(* Retries keep the order: the batch and the queue behind it hold the      *)
(* normal events in the order in which they were taken.                    *)
NormalInOrder ==
    LET line == batch.normal \o normal IN
    \A i, j \in DOMAIN line : i < j =>
        \E m, n \in DOMAIN taken : m < n /\ taken[m] = line[i] /\ taken[n] = line[j]

(* A writer that has drained without a failure leaves nothing behind.      *)
DrainedIsStored == (writer.pc = "done" /\ batch = EmptyBatch) => Held = {}

(* What the outbox calls sent, the endpoint has received.                  *)
SentIsReceived == \A e \in Events : outbox[e] = "sent" => e \in received
=============================================================================
