--------------------------- MODULE EventRelayProofs ---------------------------
(***************************************************************************)
(* Proofs about EventRelay, for every set of subscriptions, events and     *)
(* workers, and every number of pushes, retries, faults and crashes.       *)
(***************************************************************************)
EXTENDS EventRelay, TLAPS

\* Only an idle worker is without a delivery.
JobInv == \A w \in Worker : wpc[w] # "idle" => wjob[w] \in Delivery

RelayInv == TypeOK /\ JobInv

USE NobodyAssumption, NoJobAssumption, RelayBoundsAssumption

LEMMA RelayInit == Init => RelayInv
<1> SUFFICES ASSUME Init PROVE RelayInv
  OBVIOUS
<1>1. TypeOK
  BY DEF Init, TypeOK, DeliveryStatus, Wpc
<1>2. JobInv
  BY DEF Init, JobInv
<1> QED
  BY <1>1, <1>2 DEF RelayInv

LEMMA RelayStep == RelayInv /\ [Next]_vars => RelayInv'
<1> SUFFICES ASSUME RelayInv, [Next]_vars PROVE RelayInv'
  OBVIOUS
<1> USE DEF RelayInv, subRow, delRow, worker, bounds, history
<1>1. ASSUME NEW s \in Sub, NEW p \in BOOLEAN, SaveSubscription(s, p) PROVE RelayInv'
  BY <1>1 DEF TypeOK, JobInv, SaveSubscription
<1>2. ASSUME NEW s \in Sub, DeleteSubscription(s) PROVE RelayInv'
  BY <1>2 DEF TypeOK, JobInv, DeleteSubscription, DeliveryStatus
<1>3. ASSUME NEW s \in Sub, SetPermission(s) PROVE RelayInv'
  BY <1>3 DEF TypeOK, JobInv, SetPermission
<1>4. ASSUME NEW s \in Sub, LeaseExpires(s) PROVE RelayInv'
  BY <1>4 DEF TypeOK, JobInv, LeaseExpires
<1>5. ASSUME NEW e \in Event, Publish(e) PROVE RelayInv'
  <2> DEFINE Rows == /\ stored' \in SUBSET Event
                     /\ st' \in [Delivery -> DeliveryStatus \cup {"none"}]
                     /\ due' \in [Delivery -> BOOLEAN]
                     /\ window' \in [Delivery -> {"unset", "open", "over"}]
                     /\ UNCHANGED <<lease, live>>
  <2>1. Rows
    <3>1. CASE InsertDeliveries(e, AllowedSubs)
      BY <3>1 DEF TypeOK, InsertDeliveries, DeliveryStatus, Unfinished
    <3>2. CASE UNCHANGED <<stored, delRow>>
      BY <3>2 DEF TypeOK
    <3> QED
      BY <1>5, <3>1, <3>2 DEF Publish, Ingest
  <2>2. published' \in [Event -> Nat] /\ firstSubs' \in [Event -> SUBSET Sub] /\ faults' \in Nat
    BY <1>5 DEF TypeOK, Publish, Matching, Fault
  <2> QED
    BY <1>5, <2>1, <2>2 DEF TypeOK, JobInv, Publish
<1>6. ASSUME NEW e \in Event, NEW s \in Sub, TestSubscription(e, s) PROVE RelayInv'
  BY <1>6 DEF TypeOK, JobInv, TestSubscription, InsertDeliveries, DeliveryStatus, Unfinished
<1>7. ASSUME NEW w \in Worker, NEW d \in Delivery, Claim(w, d) PROVE RelayInv'
  <2>1. SubOf(d) \in Sub
    BY DEF Delivery, SubOf
  <2> QED
    BY <1>7, <2>1 DEF TypeOK, JobInv, Claim, DeliveryStatus, Unfinished, Wpc
<1>8. ASSUME NEW w \in Worker, ReadSubscription(w) PROVE RelayInv'
  BY <1>8 DEF TypeOK, JobInv, ReadSubscription, Release, Fault, DeliveryStatus, Unfinished, Wpc
<1>9. ASSUME NEW w \in Worker, ReadPermission(w) PROVE RelayInv'
  BY <1>9 DEF TypeOK, JobInv, ReadPermission, Release, Fault, DeliveryStatus, Unfinished, Wpc
<1>10. ASSUME NEW w \in Worker, BeginAttempt(w) PROVE RelayInv'
  BY <1>10 DEF TypeOK, JobInv, BeginAttempt, Wpc
<1>11. ASSUME NEW w \in Worker, AbandonAttempt(w) PROVE RelayInv'
  BY <1>11 DEF TypeOK, JobInv, AbandonAttempt, Rest, Fault, Wpc
<1>12. ASSUME NEW w \in Worker, Post(w) PROVE RelayInv'
  BY <1>12 DEF TypeOK, JobInv, Post, FailureStatus, DeliveryStatus, Unfinished, Wpc
<1>13. ASSUME NEW w \in Worker, FinishDelivery(w) PROVE RelayInv'
  <2>1. wjob[w] \in Delivery /\ SubOf(wjob[w]) \in Sub
    BY <1>13 DEF TypeOK, JobInv, FinishDelivery, Delivery, SubOf
  <2> QED
    BY <1>13, <2>1 DEF TypeOK, JobInv, FinishDelivery, Rest, Wpc
<1>14. ASSUME NEW w \in Worker, LoseDelivery(w) PROVE RelayInv'
  BY <1>14 DEF TypeOK, JobInv, LoseDelivery, Rest, Fault, Wpc
<1>15. ASSUME NEW d \in Delivery, RetryCheck(d) PROVE RelayInv'
  BY <1>15 DEF TypeOK, JobInv, RetryCheck
<1>16. ASSUME NEW d \in Delivery, BecomesDue(d) PROVE RelayInv'
  BY <1>16 DEF TypeOK, JobInv, BecomesDue
<1>17. ASSUME NEW d \in Delivery, WindowEnds(d) PROVE RelayInv'
  BY <1>17 DEF TypeOK, JobInv, WindowEnds
<1>18. CASE RetryDelivery
  BY <1>18 DEF TypeOK, JobInv, RetryDelivery, DeliveryStatus, Unfinished
<1>19. CASE Prune
  BY <1>19 DEF TypeOK, JobInv, Prune
<1>20. CASE Crash
  BY <1>20 DEF TypeOK, JobInv, Crash, Wpc
<1>21. CASE UNCHANGED vars
  BY <1>21 DEF TypeOK, JobInv, vars
<1> QED
  BY <1>1, <1>2, <1>3, <1>4, <1>5, <1>6, <1>7, <1>8, <1>9, <1>10, <1>11, <1>12, <1>13,
     <1>14, <1>15, <1>16, <1>17, <1>18, <1>19, <1>20, <1>21 DEF Next, WorkerStep

\* Every reachable state is well typed, and a worker that is not idle has
\* claimed a delivery (EventRelay as a whole).
THEOREM RelayTypeCorrect == Spec => []TypeOK
<1>1. RelayInv => TypeOK
  BY DEF RelayInv
<1> QED
  BY <1>1, RelayInit, RelayStep, PTL DEF Spec

-----------------------------------------------------------------------------
(* What is recorded as sent was acknowledged.                              *)

\* The status a worker is about to store is "sent" only after the callback
\* acknowledged the delivery it holds; an idle worker has none to store.
SentInv ==
    /\ SentMeansReceived
    /\ \A w \in Worker : wres[w] = "sent" => wjob[w] \in received
    /\ \A w \in Worker : wpc[w] = "idle" => wres[w] = "none"

LEMMA SentInit == Init => SentInv
BY DEF Init, SentInv, SentMeansReceived

LEMMA SentStep ==
    ASSUME RelayInv, SentInv, [Next]_vars
    PROVE  SentInv'
<1> USE DEF SentInv, SentMeansReceived, RelayInv, subRow, delRow, worker, bounds, history
<1>1. CASE UNCHANGED <<st, wpc, wjob, wres, received>>
  BY <1>1
<1>2. ASSUME NEW s \in Sub, DeleteSubscription(s) PROVE SentInv'
  BY <1>2 DEF DeleteSubscription, TypeOK
<1>3. ASSUME NEW e \in Event, NEW S, InsertDeliveries(e, S),
             UNCHANGED <<wpc, wjob, wres, received>>
      PROVE  SentInv'
  BY <1>3 DEF InsertDeliveries, TypeOK
<1>4. ASSUME NEW w \in Worker, NEW d \in Delivery, Claim(w, d) PROVE SentInv'
  BY <1>4 DEF Claim, TypeOK
<1>5. ASSUME NEW w \in Worker, ReadSubscription(w) \/ ReadPermission(w) PROVE SentInv'
  BY <1>5 DEF ReadSubscription, ReadPermission, Release, TypeOK
<1>6. ASSUME NEW w \in Worker, AbandonAttempt(w) \/ LoseDelivery(w) PROVE SentInv'
  BY <1>6 DEF AbandonAttempt, LoseDelivery, Rest, TypeOK
<1>7. ASSUME NEW w \in Worker, Post(w) PROVE SentInv'
  BY <1>7 DEF Post, FailureStatus, TypeOK
<1>8. ASSUME NEW w \in Worker, FinishDelivery(w) PROVE SentInv'
  BY <1>8 DEF FinishDelivery, Rest, TypeOK
<1>9. ASSUME NEW w \in Worker, BeginAttempt(w) PROVE SentInv'
  BY <1>9 DEF BeginAttempt, TypeOK
<1>10. CASE RetryDelivery
  BY <1>10 DEF RetryDelivery, TypeOK
<1>11. CASE Prune
  BY <1>11 DEF Prune, TypeOK
<1>12. CASE Crash
  BY <1>12 DEF Crash, TypeOK
<1> QED
  BY <1>1, <1>2, <1>3, <1>4, <1>5, <1>6, <1>7, <1>8, <1>9, <1>10, <1>11, <1>12
  DEF Next, WorkerStep, vars, SaveSubscription, SetPermission, LeaseExpires, Publish, Ingest,
      TestSubscription, RetryCheck, BecomesDue, WindowEnds

\* A delivery is recorded as sent only if its subscriber acknowledged it, for
\* any number of workers, lost leases, failed calls and crashes
\* (FinishEventDelivery compares the lease, send sets the status).
THEOREM SentWasReceived == Spec => []SentMeansReceived
<1>1. SentInv => SentMeansReceived
  BY DEF SentInv
<1> QED
  BY <1>1, RelayInit, RelayStep, SentInit, SentStep, PTL DEF Spec

-----------------------------------------------------------------------------
(* One request per subscriber at a time, while leases outlive workers.     *)

Working(w) == wpc[w] # "idle"

\* Whoever works holds the subscription's live lease, or the subscription was
\* deleted under it; two never work for the same subscription.
AloneInv ==
    /\ \A v, w \in Worker :
          v # w /\ Working(v) /\ Working(w) => SubOf(wjob[v]) # SubOf(wjob[w])
    /\ \A w \in Worker : Working(w) =>
          \/ sub[SubOf(wjob[w])] = "deleted"
          \/ subLease[SubOf(wjob[w])] = w /\ subLive[SubOf(wjob[w])]

LeaseInv == ~overrun => AloneInv

LEMMA LeaseInit == Init => LeaseInv
BY DEF Init, LeaseInv, AloneInv, Working

LEMMA SubOfType == ASSUME NEW d \in Delivery PROVE SubOf(d) \in Sub
BY DEF Delivery, SubOf

LEMMA LeaseStep ==
    ASSUME RelayInv, LeaseInv, [Next]_vars
    PROVE  LeaseInv'
<1> SUFFICES ASSUME ~overrun' PROVE AloneInv'
  BY DEF LeaseInv
<1> USE DEF RelayInv, JobInv, AloneInv, Working, subRow, delRow, worker, bounds, history
<1>0. /\ ~overrun
      /\ AloneInv
      /\ \A w \in Worker : Working(w) => SubOf(wjob[w]) \in Sub
  <2>1. ~overrun
    BY DEF Next, WorkerStep, vars, TypeOK, SaveSubscription, DeleteSubscription, SetPermission,
           LeaseExpires, Publish, TestSubscription, Claim, ReadSubscription, ReadPermission,
           BeginAttempt, AbandonAttempt, Post, FinishDelivery, LoseDelivery, RetryCheck,
           RetryDelivery, BecomesDue, WindowEnds, Prune, Crash
  <2> QED
    BY <2>1, SubOfType DEF LeaseInv
<1>1. CASE UNCHANGED <<sub, subLease, subLive, wpc, wjob>>
  BY <1>0, <1>1
<1>2. ASSUME NEW s \in Sub, NEW p \in BOOLEAN, SaveSubscription(s, p) PROVE AloneInv'
  BY <1>0, <1>2 DEF SaveSubscription, TypeOK
<1>3. ASSUME NEW s \in Sub, DeleteSubscription(s) PROVE AloneInv'
  BY <1>0, <1>3 DEF DeleteSubscription, TypeOK
<1>4. ASSUME NEW s \in Sub, LeaseExpires(s) PROVE AloneInv'
  BY <1>0, <1>4 DEF LeaseExpires, Works, TypeOK
<1>5. ASSUME NEW w \in Worker, NEW d \in Delivery, Claim(w, d) PROVE AloneInv'
  <2>1. \A v \in Worker : Working(v) => SubOf(wjob[v]) # SubOf(d)
    BY <1>0, <1>5 DEF Claim, Claimable
  <2> QED
    BY <1>0, <1>5, <2>1, SubOfType DEF Claim, TypeOK
<1>6. ASSUME NEW w \in Worker,
             ReadSubscription(w) \/ ReadPermission(w) \/ BeginAttempt(w) \/ Post(w)
      PROVE  AloneInv'
  BY <1>0, <1>6 DEF ReadSubscription, ReadPermission, Release, BeginAttempt, Post, TypeOK
<1>7. ASSUME NEW w \in Worker, AbandonAttempt(w) \/ LoseDelivery(w) PROVE AloneInv'
  BY <1>0, <1>7 DEF AbandonAttempt, LoseDelivery, Rest, TypeOK
<1>8. ASSUME NEW w \in Worker, FinishDelivery(w) PROVE AloneInv'
  BY <1>0, <1>8 DEF FinishDelivery, Rest, TypeOK
<1>9. CASE Crash
  BY <1>9 DEF Crash
<1> QED
  BY <1>1, <1>2, <1>3, <1>4, <1>5, <1>6, <1>7, <1>8, <1>9
  DEF Next, WorkerStep, vars, SetPermission, Publish, TestSubscription, RetryCheck,
      RetryDelivery, BecomesDue, WindowEnds, Prune

\* Two workers never post to the same subscriber at once as long as no lease has
\* run out under its worker, for any number of workers, in one process or many
\* (ClaimEventDelivery locks the subscription).
THEOREM OneRequestAtATime == Spec => []OneRequestPerSubscription
<1>1. LeaseInv => OneRequestPerSubscription
  BY DEF LeaseInv, AloneInv, Working, OneRequestPerSubscription
<1> QED
  BY <1>1, RelayInit, RelayStep, LeaseInit, LeaseStep, PTL DEF Spec

-----------------------------------------------------------------------------
(* What is over stays over, and a deleted subscription gets no request.    *)

\* A delivery's event is stored, and a stored event was published: an event
\* that is inserted has no delivery yet.
StoredInv ==
    /\ \A d \in Delivery : st[d] # "none" => EventOf(d) \in stored
    /\ \A e \in stored : published[e] > 0

LEMMA EventOfType == ASSUME NEW d \in Delivery PROVE EventOf(d) \in Event
BY DEF Delivery, EventOf

LEMMA StoredInit == Init => StoredInv
BY DEF Init, StoredInv

LEMMA StoredStep ==
    ASSUME RelayInv, StoredInv, [Next]_vars
    PROVE  StoredInv'
<1> USE DEF StoredInv, RelayInv, subRow, delRow, worker, bounds, history
<1>1. CASE UNCHANGED <<st, stored, published>>
  BY <1>1
<1>2. ASSUME NEW s \in Sub, DeleteSubscription(s) PROVE StoredInv'
  BY <1>2 DEF DeleteSubscription, TypeOK, Unfinished
<1>3. ASSUME NEW e \in Event, Publish(e) PROVE StoredInv'
  <2>1. published' = [published EXCEPT ![e] = @ + 1]
    BY <1>3 DEF Publish
  <2>2. \A f \in stored \cup {e} : published'[f] > 0
    BY <2>1 DEF TypeOK
  <2>3. stored' \subseteq stored \cup {e} /\ stored \subseteq stored'
    BY <1>3 DEF Publish, Ingest, InsertDeliveries
  <2>4. \A d \in Delivery : st'[d] # "none" => st[d] # "none" \/ EventOf(d) \in stored'
    BY <1>3 DEF Publish, Ingest, InsertDeliveries
  <2> QED
    BY <2>2, <2>3, <2>4 DEF TypeOK
<1>4. ASSUME NEW e \in Event, NEW s \in Sub, TestSubscription(e, s) PROVE StoredInv'
  BY <1>4 DEF TestSubscription, InsertDeliveries, TypeOK
<1>5. ASSUME NEW w \in Worker, NEW d \in Delivery, Claim(w, d) PROVE StoredInv'
  BY <1>5 DEF Claim, Claimable, Unfinished, TypeOK
<1>6. ASSUME NEW w \in Worker, FinishDelivery(w) PROVE StoredInv'
  BY <1>6 DEF FinishDelivery, HoldsLease, TypeOK
<1>7. CASE RetryDelivery
  BY <1>7 DEF RetryDelivery, Retryable, TypeOK
<1>8. CASE Prune
  BY <1>8, EventOfType DEF Prune, TypeOK
<1> QED
  BY <1>1, <1>2, <1>3, <1>4, <1>5, <1>6, <1>7, <1>8
  DEF Next, WorkerStep, vars, SaveSubscription, SetPermission, LeaseExpires, ReadSubscription,
      ReadPermission, BeginAttempt, AbandonAttempt, Post, LoseDelivery, RetryCheck, BecomesDue,
      WindowEnds, Crash

\* Inserting an event touches no delivery that exists.
LEMMA InsertIsNew ==
    ASSUME RelayInv, StoredInv, NEW e \in Event, e \notin stored, NEW S, InsertDeliveries(e, S)
    PROVE  \A d \in Delivery : st[d] # "none" => st'[d] = st[d]
BY DEF RelayInv, TypeOK, StoredInv, InsertDeliveries

\* Only a worker that still holds its lease, a retry of a dead delivery, and
\* retention change what has a status.
LEMMA FinishedStep ==
    ASSUME RelayInv, StoredInv, [Next]_vars, NEW d \in Delivery
    PROVE  /\ st[d] \in {"sent", "cancelled"} => st'[d] \in {st[d], "none"}
           /\ st[d] = "dead" => st'[d] \in {"dead", "none"} \/ retrying = d
<1> DEFINE Kept == /\ st[d] \in {"sent", "cancelled"} => st'[d] \in {st[d], "none"}
                   /\ st[d] = "dead" => st'[d] \in {"dead", "none"} \/ retrying = d
<1> SUFFICES Kept
  OBVIOUS
<1> USE DEF RelayInv, subRow, delRow, worker, bounds, history
<1>1. CASE UNCHANGED st
  BY <1>1
<1>2. ASSUME NEW s \in Sub, DeleteSubscription(s) PROVE Kept
  BY <1>2 DEF DeleteSubscription, Unfinished
<1>3. ASSUME NEW e \in Event, Publish(e) PROVE Kept
  BY <1>1, <1>3, InsertIsNew DEF Publish, Ingest
<1>4. ASSUME NEW e \in Event, NEW s \in Sub, TestSubscription(e, s) PROVE Kept
  <2>1. e \notin stored
    BY <1>4 DEF TestSubscription, StoredInv
  <2> QED
    BY <1>4, <2>1, InsertIsNew DEF TestSubscription
<1>5. ASSUME NEW w \in Worker, NEW c \in Delivery, Claim(w, c) PROVE Kept
  BY <1>5 DEF Claim, Claimable, Unfinished, TypeOK
<1>6. ASSUME NEW w \in Worker, FinishDelivery(w) PROVE Kept
  BY <1>6 DEF FinishDelivery, HoldsLease, TypeOK
<1>7. CASE RetryDelivery
  BY <1>7 DEF RetryDelivery, Retryable, TypeOK
<1>8. CASE Prune
  BY <1>8 DEF Prune, TypeOK
<1> HIDE DEF Kept
<1> QED
  BY <1>1, <1>2, <1>3, <1>4, <1>5, <1>6, <1>7, <1>8
  DEF Next, WorkerStep, vars, SaveSubscription, SetPermission, LeaseExpires, ReadSubscription,
      ReadPermission, BeginAttempt, AbandonAttempt, Post, LoseDelivery, RetryCheck, BecomesDue,
      WindowEnds, Crash

\* What is over stays over until retention removes it, whatever late workers,
\* repeated pushes, deletions and crashes do (FinishEventDelivery,
\* IngestRelayEvent, RetryEventDelivery, PruneEventDeliveries).
THEOREM FinishedStaysFinished == Spec => FinishedStays
<1>1. RelayInv /\ StoredInv /\ [Next]_vars =>
          [\A d \in Delivery :
              /\ st[d] \in {"sent", "cancelled"} => st'[d] \in {st[d], "none"}
              /\ st[d] = "dead" => st'[d] \in {"dead", "none"} \/ retrying = d]_vars
  BY FinishedStep
<1> QED
  BY <1>1, RelayInit, RelayStep, StoredInit, StoredStep, PTL DEF Spec, FinishedStays

-----------------------------------------------------------------------------

\* Deletion takes every delivery under way with it, and no worker stores
\* "delivering".
DeletedInv ==
    /\ \A d \in Delivery : st[d] = "delivering" => sub[SubOf(d)] # "deleted"
    /\ \A w \in Worker : wres[w] # "delivering"

LEMMA DeletedInit == Init => DeletedInv
BY DEF Init, DeletedInv

LEMMA DeletedStep ==
    ASSUME RelayInv, DeletedInv, [Next]_vars
    PROVE  DeletedInv'
<1> USE SubOfType DEF DeletedInv, RelayInv, subRow, delRow, worker, bounds, history
<1>1. CASE UNCHANGED <<st, sub, wres>>
  BY <1>1
<1>2. ASSUME NEW s \in Sub, NEW p \in BOOLEAN, SaveSubscription(s, p) PROVE DeletedInv'
  BY <1>2 DEF SaveSubscription, TypeOK
<1>3. ASSUME NEW s \in Sub, DeleteSubscription(s) PROVE DeletedInv'
  BY <1>3 DEF DeleteSubscription, TypeOK, Unfinished
<1>4. ASSUME NEW e \in Event, NEW S, InsertDeliveries(e, S), UNCHANGED <<sub, wres>>
      PROVE  DeletedInv'
  BY <1>4 DEF InsertDeliveries, TypeOK
<1>5. ASSUME NEW w \in Worker, NEW d \in Delivery, Claim(w, d) PROVE DeletedInv'
  BY <1>5 DEF Claim, Claimable, TypeOK
<1>6. ASSUME NEW w \in Worker, ReadSubscription(w) \/ ReadPermission(w) PROVE DeletedInv'
  BY <1>6 DEF ReadSubscription, ReadPermission, Release, TypeOK
<1>7. ASSUME NEW w \in Worker, AbandonAttempt(w) \/ LoseDelivery(w) PROVE DeletedInv'
  BY <1>7 DEF AbandonAttempt, LoseDelivery, Rest, TypeOK
<1>8. ASSUME NEW w \in Worker, Post(w) PROVE DeletedInv'
  BY <1>8 DEF Post, FailureStatus, TypeOK
<1>9. ASSUME NEW w \in Worker, FinishDelivery(w) PROVE DeletedInv'
  BY <1>9 DEF FinishDelivery, Rest, TypeOK
<1>10. CASE RetryDelivery
  BY <1>10 DEF RetryDelivery, TypeOK
<1>11. CASE Prune
  BY <1>11 DEF Prune, TypeOK
<1>12. CASE Crash
  BY <1>12 DEF Crash, TypeOK
<1> QED
  BY <1>1, <1>2, <1>3, <1>4, <1>5, <1>6, <1>7, <1>8, <1>9, <1>10, <1>11, <1>12
  DEF Next, WorkerStep, vars, SetPermission, LeaseExpires, Publish, Ingest, TestSubscription,
      BeginAttempt, RetryCheck, BecomesDue, WindowEnds

\* A step that begins a request is BeginAttempt, which compares the lease.
LEMMA BeginsStep ==
    ASSUME RelayInv, [Next]_vars, NEW w \in Worker, Begins(w)
    PROVE  wjob[w] \in Delivery /\ st[wjob[w]] = "delivering"
<1> USE DEF RelayInv, Begins, subRow, delRow, worker, bounds, history
<1>1. wpc'[w] # wpc[w] /\ wpc'[w] = "http" /\ wpc[w] = "begin"
  OBVIOUS
<1>2. ASSUME NEW v \in Worker, NEW d \in Delivery, Claim(v, d) PROVE FALSE
  BY <1>1, <1>2 DEF Claim, TypeOK
<1>3. ASSUME NEW v \in Worker,
             ReadSubscription(v) \/ ReadPermission(v) \/ AbandonAttempt(v) \/ Post(v)
             \/ FinishDelivery(v) \/ LoseDelivery(v)
      PROVE  FALSE
  BY <1>1, <1>3 DEF ReadSubscription, ReadPermission, Release, AbandonAttempt, Post,
                    FinishDelivery, LoseDelivery, Rest, TypeOK
<1>4. ASSUME NEW v \in Worker, BeginAttempt(v) PROVE v = w /\ HoldsLease(v)
  BY <1>1, <1>4 DEF BeginAttempt, TypeOK
<1>5. ~Crash
  BY <1>1 DEF Crash
<1>6. HoldsLease(w)
  BY <1>1, <1>2, <1>3, <1>4, <1>5
  DEF Next, WorkerStep, vars, SaveSubscription, DeleteSubscription, SetPermission, LeaseExpires,
      Publish, TestSubscription, RetryCheck, RetryDelivery, BecomesDue, WindowEnds, Prune
<1> QED
  BY <1>1, <1>6 DEF HoldsLease, JobInv

\* Once a subscription is deleted no request to its callback begins, although
\* the worker read the subscription several steps before (DeleteEventSubscription
\* takes the lease, BeginEventAttempt compares it).
THEOREM DeletedIsLeftAlone == Spec => DeletedGetsNoRequest
<1>1. RelayInv /\ DeletedInv /\ [Next]_vars =>
          [\A w \in Worker : Begins(w) => sub[SubOf(wjob[w])] # "deleted"]_vars
  BY BeginsStep DEF DeletedInv
<1> QED
  BY <1>1, RelayInit, RelayStep, DeletedInit, DeletedStep, PTL DEF Spec, DeletedGetsNoRequest

=============================================================================
