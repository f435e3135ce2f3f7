----------------------------- MODULE EventRelay -----------------------------
(***************************************************************************)
(* The event relay: platform events are stored with one delivery per       *)
(* matching subscription and posted to each subscriber's callback by a     *)
(* pool of workers that take leases in the database.                       *)
(*                                                                         *)
(* Source: eventrelay/service.go, store/event_relay.go and the handlers in *)
(* server/event_relay.go.  Every transaction is one step; a store call may *)
(* fail, the daemon may die between any two, and the callback may answer,  *)
(* refuse, or receive the event and lose its answer.                       *)
(*                                                                         *)
(* Time is abstract: a lease is live or not, a delivery is due or not, and *)
(* the 24 hours since its first attempt are over or not.  The dispatch     *)
(* order (next_attempt_at) is left free among the deliveries that are due. *)
(***************************************************************************)
EXTENDS Integers, FiniteSets

CONSTANTS
    Sub,                 \* subscriptions, all of which match every event
    Event,               \* upstream events
    Worker,              \* dispatch workers, over all processes
    Nobody,              \* the empty lease_token
    NoJob,               \* a worker or handler without a delivery
    MaxPublish,          \* bound: times the platform pushes one event
    MaxRetries,          \* bound: manual retries
    MaxFaults,           \* bound: failed store calls
    MaxCrashes           \* bound: daemon crashes

ASSUME NobodyAssumption == Nobody \notin Worker
ASSUME NoJobAssumption == NoJob \notin Sub \X Event
ASSUME RelayBoundsAssumption ==
    MaxPublish \in Nat \ {0} /\ MaxRetries \in Nat /\ MaxFaults \in Nat /\ MaxCrashes \in Nat

Delivery == Sub \X Event
SubOf(d) == d[1]
EventOf(d) == d[2]

Unfinished == {"pending", "retry", "blocked", "delivering"}
DeliveryStatus == Unfinished \cup {"sent", "dead", "cancelled"}

VARIABLES
    sub,        \* subscription row: "absent", "active", "paused", "deleted"
    perm,       \* does the owner hold the event source's permission?
    subLease,   \* subscription row: lease_token
    subLive,    \* subscription row: lease_until is in the future
    stored,     \* rows of relay_events, by deduplication key
    st,         \* delivery row: status, "none" without a row
    lease,      \* delivery row: lease_token
    live,       \* delivery row: lease_until is in the future
    due,        \* delivery row: next_attempt_at has passed
    window,     \* delivery row: first_attempt_at "unset", "open", "over" (24 h)
    wpc,        \* what each worker does next
    wjob,       \* the delivery it has claimed
    wres,       \* the status it is about to store
    retrying,   \* the delivery a retry request has been checked for
    published,  \* how often each event was pushed
    firstSubs,  \* history: the subscriptions that existed when an event first came
    received,   \* history: deliveries the callback has acknowledged
    overrun,    \* history: a lease has run out under its worker
    retries, faults, crashes

subRow == <<sub, perm, subLease, subLive>>
delRow == <<st, lease, live, due, window>>
worker == <<wpc, wjob, wres>>
bounds == <<retries, faults, crashes>>
history == <<published, firstSubs, received, overrun>>
vars == <<sub, perm, subLease, subLive, stored, st, lease, live, due, window, wpc, wjob,
          wres, retrying, published, firstSubs, received, overrun, retries, faults, crashes>>

Wpc == {"idle", "sub", "perm", "begin", "http", "finish", "release"}

Init ==
    /\ sub = [s \in Sub |-> "absent"]
    /\ perm = [s \in Sub |-> TRUE]
    /\ subLease = [s \in Sub |-> Nobody]
    /\ subLive = [s \in Sub |-> FALSE]
    /\ stored = {}
    /\ st = [d \in Delivery |-> "none"]
    /\ lease = [d \in Delivery |-> Nobody]
    /\ live = [d \in Delivery |-> FALSE]
    /\ due = [d \in Delivery |-> FALSE]
    /\ window = [d \in Delivery |-> "unset"]
    /\ wpc = [w \in Worker |-> "idle"]
    /\ wjob = [w \in Worker |-> NoJob]
    /\ wres = [w \in Worker |-> "none"]
    /\ retrying = NoJob
    /\ published = [e \in Event |-> 0]
    /\ firstSubs = [e \in Event |-> {}]
    /\ received = {}
    /\ overrun = FALSE
    /\ retries = 0
    /\ faults = 0
    /\ crashes = 0

Fault == faults < MaxFaults /\ faults' = faults + 1

-----------------------------------------------------------------------------
(* Subscriptions.                                                          *)

\* POST /event-subscriptions: insert, or replace the configuration of the row
\* with the same key, pause flag included; a deleted row is never revived.
\* The caller must hold the event source's permission.
SaveSubscription(s, p) ==
    /\ sub[s] # "deleted"
    /\ perm[s]
    /\ sub' = [sub EXCEPT ![s] = IF p THEN "paused" ELSE "active"]
    /\ UNCHANGED <<perm, subLease, subLive, stored, delRow, worker, retrying, history, bounds>>

\* Variation: a delivery under way is left alone.
DeleteSubscriptionWaiting(s) ==
    /\ sub[s] # "absent"
    /\ sub' = [sub EXCEPT ![s] = "deleted"]
    /\ st' = [d \in Delivery |-> IF SubOf(d) = s /\ st[d] \in Unfinished \ {"delivering"}
                                THEN "cancelled" ELSE st[d]]
    /\ UNCHANGED <<perm, subLease, subLive, stored, lease, live, due, window, worker, retrying,
                   history, bounds>>

\* DELETE, also repeated: the row, its leases and its unfinished deliveries in
\* one transaction.
DeleteSubscription(s) ==
    /\ sub[s] # "absent"
    /\ sub' = [sub EXCEPT ![s] = "deleted"]
    /\ subLease' = [subLease EXCEPT ![s] = Nobody]
    /\ subLive' = [subLive EXCEPT ![s] = FALSE]
    /\ LET open(d) == SubOf(d) = s /\ st[d] \in Unfinished
       IN  /\ st' = [d \in Delivery |-> IF open(d) THEN "cancelled" ELSE st[d]]
           /\ lease' = [d \in Delivery |-> IF open(d) THEN Nobody ELSE lease[d]]
           /\ live' = [d \in Delivery |-> live[d] /\ ~open(d)]
    /\ UNCHANGED <<perm, stored, due, window, worker, retrying, history, bounds>>

\* An administrator grants or revokes the permission.
SetPermission(s) ==
    /\ perm' = [perm EXCEPT ![s] = ~@]
    /\ UNCHANGED <<sub, subLease, subLive, stored, delRow, worker, retrying, history, bounds>>

-----------------------------------------------------------------------------
(* Ingestion.                                                              *)

Matching == {s \in Sub : sub[s] \in {"active", "paused"}}

AllowedSubs == {s \in Matching : perm[s]}

\* The event's row and one pending delivery for each subscription in S.
InsertDeliveries(e, S) ==
    LET new(d) == EventOf(d) = e /\ SubOf(d) \in S
    IN  /\ stored' = stored \cup {e}
        /\ st' = [d \in Delivery |-> IF new(d) THEN "pending" ELSE st[d]]
        /\ due' = [d \in Delivery |-> due[d] \/ new(d)]
        /\ window' = [d \in Delivery |-> IF new(d) THEN "unset" ELSE window[d]]
        /\ UNCHANGED <<lease, live>>

\* IngestRelayEvent: nothing is stored without an allowed subscription, and
\* ON CONFLICT DO NOTHING makes a stored event a duplicate.
Ingest(e) ==
    IF AllowedSubs = {} \/ e \in stored
    THEN UNCHANGED <<stored, delRow>>
    ELSE InsertDeliveries(e, AllowedSubs)

\* The platform pushes the event, for the first time or again.  The ingestion
\* may fail or time out.
Publish(e) ==
    /\ published[e] < MaxPublish
    /\ published' = [published EXCEPT ![e] = @ + 1]
    /\ firstSubs' = [firstSubs EXCEPT ![e] = IF published[e] = 0 THEN Matching ELSE @]
    /\ \/ Ingest(e) /\ UNCHANGED faults
       \/ Fault /\ UNCHANGED <<stored, delRow>>
    /\ UNCHANGED <<subRow, worker, retrying, received, overrun, retries, crashes>>

\* POST /event-subscriptions/test: a fresh event for one subscription.
TestSubscription(e, s) ==
    /\ published[e] = 0
    /\ sub[s] = "active"
    /\ perm[s]
    /\ published' = [published EXCEPT ![e] = MaxPublish]
    /\ firstSubs' = [firstSubs EXCEPT ![e] = {s}]
    /\ InsertDeliveries(e, {s})
    /\ UNCHANGED <<subRow, worker, retrying, received, overrun, bounds>>

-----------------------------------------------------------------------------
(* A worker: claim, look again, begin the attempt, post, store the result. *)

\* Variation: only the delivery's own lease is looked at.
ClaimableUnlocked(d) ==
    /\ sub[SubOf(d)] = "active"
    /\ st[d] \in Unfinished
    /\ due[d]
    /\ ~live[d]

\* Variation: a delivery whose worker died is not claimed again.
ClaimableQueued(d) ==
    /\ sub[SubOf(d)] = "active"
    /\ ~subLive[SubOf(d)]
    /\ st[d] \in Unfinished \ {"delivering"}
    /\ due[d]
    /\ ~live[d]

Claimable(d) ==
    /\ sub[SubOf(d)] = "active"
    /\ ~subLive[SubOf(d)]
    /\ st[d] \in Unfinished
    /\ due[d]
    /\ ~live[d]

\* ClaimEventDelivery takes the lease of the subscription and of the delivery.
Claim(w, d) ==
    /\ wpc[w] = "idle"
    /\ Claimable(d)
    /\ subLease' = [subLease EXCEPT ![SubOf(d)] = w]
    /\ subLive' = [subLive EXCEPT ![SubOf(d)] = TRUE]
    /\ st' = [st EXCEPT ![d] = "delivering"]
    /\ lease' = [lease EXCEPT ![d] = w]
    /\ live' = [live EXCEPT ![d] = TRUE]
    /\ wpc' = [wpc EXCEPT ![w] = "sub"]
    /\ wjob' = [wjob EXCEPT ![w] = d]
    /\ UNCHANGED <<sub, perm, stored, due, window, wres, retrying, history, bounds>>

\* The worker gives the delivery back with status r and no attempt.
Release(w, r) == wpc' = [wpc EXCEPT ![w] = "release"] /\ wres' = [wres EXCEPT ![w] = r]

\* deliver: read the subscription again.
ReadSubscription(w) ==
    /\ wpc[w] = "sub"
    /\ \/ /\ sub[SubOf(wjob[w])] = "active"
          /\ wpc' = [wpc EXCEPT ![w] = "perm"]
          /\ UNCHANGED <<wres, faults>>
       \/ sub[SubOf(wjob[w])] = "deleted" /\ Release(w, "cancelled") /\ UNCHANGED faults
       \/ sub[SubOf(wjob[w])] = "paused" /\ Release(w, "pending") /\ UNCHANGED faults
       \/ Fault /\ Release(w, "blocked")
    /\ UNCHANGED <<subRow, stored, delRow, wjob, retrying, history, retries, crashes>>

\* deliver: is the owner still allowed to read the source?
ReadPermission(w) ==
    /\ wpc[w] = "perm"
    /\ \/ /\ perm[SubOf(wjob[w])]
          /\ wpc' = [wpc EXCEPT ![w] = "begin"]
          /\ UNCHANGED <<wres, faults>>
       \/ ~perm[SubOf(wjob[w])] /\ Release(w, "blocked") /\ UNCHANGED faults
       \/ Fault /\ Release(w, "blocked")
    /\ UNCHANGED <<subRow, stored, delRow, wjob, retrying, history, retries, crashes>>

\* Variation: the update is by delivery id alone.
HoldsLeaseUnchecked(w) == wjob[w] # NoJob

HoldsLease(w) == lease[wjob[w]] = w /\ st[wjob[w]] = "delivering"

Rest(w) ==
    /\ wpc' = [wpc EXCEPT ![w] = "idle"]
    /\ wjob' = [wjob EXCEPT ![w] = NoJob]
    /\ wres' = [wres EXCEPT ![w] = "none"]

\* BeginEventAttempt: compare the lease, count the attempt, open the window.
BeginAttempt(w) ==
    /\ wpc[w] = "begin"
    /\ HoldsLease(w)
    /\ window' = [window EXCEPT ![wjob[w]] = IF @ = "unset" THEN "open" ELSE @]
    /\ wpc' = [wpc EXCEPT ![w] = "http"]
    /\ UNCHANGED <<subRow, stored, st, lease, live, due, wjob, wres, retrying, history, bounds>>

\* "delivery lease lost", or a failed call: send returns.
AbandonAttempt(w) ==
    /\ wpc[w] = "begin"
    /\ \/ ~HoldsLease(w) /\ UNCHANGED faults
       \/ Fault
    /\ Rest(w)
    /\ UNCHANGED <<subRow, stored, delRow, retrying, history, retries, crashes>>

\* Variation: the outcome carries a word of its own.
FailureStatusRaw(w) == IF window[wjob[w]] = "over" THEN "expired" ELSE "retry"

FailureStatus(w) == IF window[wjob[w]] = "over" THEN "dead" ELSE "retry"

\* Variation: a request that failed after the window counts as sent.
PostAnyAnswer(w) ==
    /\ wpc[w] = "http"
    /\ \/ /\ received' = received \cup {wjob[w]}
          /\ wres' = [wres EXCEPT ![w] = "sent"]
       \/ /\ UNCHANGED received
          /\ wres' = [wres EXCEPT ![w] = IF FailureStatus(w) = "dead" THEN "sent" ELSE "retry"]
    /\ wpc' = [wpc EXCEPT ![w] = "finish"]
    /\ UNCHANGED <<subRow, stored, delRow, wjob, retrying, published, firstSubs, overrun, bounds>>

\* External: the callback acknowledges, or fails with or without the event.
Post(w) ==
    /\ wpc[w] = "http"
    /\ \/ /\ received' = received \cup {wjob[w]}
          /\ wres' = [wres EXCEPT ![w] = "sent"]
       \/ /\ UNCHANGED received
          /\ wres' = [wres EXCEPT ![w] = FailureStatus(w)]
    /\ wpc' = [wpc EXCEPT ![w] = "finish"]
    /\ UNCHANGED <<subRow, stored, delRow, wjob, retrying, published, firstSubs, overrun, bounds>>

\* FinishEventDelivery: compare the lease, store the status, free both leases.
FinishDelivery(w) ==
    /\ wpc[w] \in {"finish", "release"}
    /\ HoldsLease(w)
    /\ LET d == wjob[w]
           s == SubOf(d)
       IN  /\ st' = [st EXCEPT ![d] = wres[w]]
           /\ due' = [due EXCEPT ![d] = FALSE]
           /\ lease' = [lease EXCEPT ![d] = Nobody]
           /\ live' = [live EXCEPT ![d] = FALSE]
           /\ subLease' = [subLease EXCEPT ![s] = IF @ = w THEN Nobody ELSE @]
           /\ subLive' = [subLive EXCEPT ![s] = @ /\ subLease[s] # w]
    /\ Rest(w)
    /\ UNCHANGED <<sub, perm, stored, window, retrying, history, bounds>>

LoseDelivery(w) ==
    /\ wpc[w] \in {"finish", "release"}
    /\ \/ ~HoldsLease(w) /\ UNCHANGED faults
       \/ Fault
    /\ Rest(w)
    /\ UNCHANGED <<subRow, stored, delRow, retrying, history, retries, crashes>>

-----------------------------------------------------------------------------
(* Manual retry: the handler checks, then the store updates.               *)

RetryCheck(d) ==
    /\ retrying = NoJob
    /\ retries < MaxRetries
    /\ st[d] # "none"
    /\ sub[SubOf(d)] # "deleted"
    /\ perm[SubOf(d)]
    /\ retrying' = d
    /\ retries' = retries + 1
    /\ UNCHANGED <<subRow, stored, delRow, worker, history, faults, crashes>>

Retryable(d) == st[d] \in {"dead", "retry", "blocked"} /\ ~live[d]

RetryDelivery ==
    /\ retrying # NoJob
    /\ IF Retryable(retrying)
       THEN /\ st' = [st EXCEPT ![retrying] = "pending"]
            /\ window' = [window EXCEPT ![retrying] = "unset"]
            /\ due' = [due EXCEPT ![retrying] = TRUE]
       ELSE UNCHANGED <<st, window, due>>
    /\ retrying' = NoJob
    /\ UNCHANGED <<subRow, stored, lease, live, worker, history, bounds>>

-----------------------------------------------------------------------------
(* Time, retention and failure.                                            *)

BecomesDue(d) ==
    /\ st[d] \in Unfinished
    /\ ~due[d]
    /\ due' = [due EXCEPT ![d] = TRUE]
    /\ UNCHANGED <<subRow, stored, st, lease, live, window, worker, retrying, history, bounds>>

WindowEnds(d) ==
    /\ window[d] = "open"
    /\ window' = [window EXCEPT ![d] = "over"]
    /\ UNCHANGED <<subRow, stored, st, lease, live, due, worker, retrying, history, bounds>>

Works(w, s) == wpc[w] # "idle" /\ SubOf(wjob[w]) = s

\* Both leases of a claim carry the same lease_until and run out together.
LeaseExpires(s) ==
    /\ subLive[s]
    /\ overrun' = (overrun \/ \E w \in Worker : subLease[s] = w /\ Works(w, s))
    /\ subLive' = [subLive EXCEPT ![s] = FALSE]
    /\ live' = [d \in Delivery |-> live[d] /\ SubOf(d) # s]
    /\ UNCHANGED <<sub, perm, subLease, stored, st, lease, due, window, worker, retrying,
                   published, firstSubs, received, bounds>>

\* PruneEventDeliveries: some finished deliveries are old enough; an event goes
\* with its last delivery.
Prune ==
    /\ \E old \in SUBSET {d \in Delivery : st[d] \in {"sent", "dead", "cancelled"}} :
          /\ old # {}
          /\ st' = [d \in Delivery |-> IF d \in old THEN "none" ELSE st[d]]
          /\ window' = [d \in Delivery |-> IF d \in old THEN "unset" ELSE window[d]]
          /\ due' = [d \in Delivery |-> due[d] /\ d \notin old]
          /\ stored' = {e \in stored : \E d \in Delivery \ old : EventOf(d) = e /\ st[d] # "none"}
          /\ retrying' = IF retrying \in old THEN NoJob ELSE retrying
    /\ UNCHANGED <<subRow, lease, live, worker, history, bounds>>

\* The daemon dies and starts again; only the database survives.
Crash ==
    /\ crashes < MaxCrashes
    /\ crashes' = crashes + 1
    /\ wpc' = [w \in Worker |-> "idle"]
    /\ wjob' = [w \in Worker |-> NoJob]
    /\ wres' = [w \in Worker |-> "none"]
    /\ retrying' = NoJob
    /\ UNCHANGED <<subRow, stored, delRow, history, retries, faults>>

WorkerStep(w) ==
    \/ ReadSubscription(w) \/ ReadPermission(w) \/ BeginAttempt(w) \/ AbandonAttempt(w)
    \/ Post(w) \/ FinishDelivery(w) \/ LoseDelivery(w)

Next ==
    \/ \E s \in Sub : \/ \E p \in BOOLEAN : SaveSubscription(s, p)
                      \/ DeleteSubscription(s) \/ SetPermission(s) \/ LeaseExpires(s)
    \/ \E e \in Event : Publish(e) \/ \E s \in Sub : TestSubscription(e, s)
    \/ \E w \in Worker : WorkerStep(w) \/ \E d \in Delivery : Claim(w, d)
    \/ \E d \in Delivery : RetryCheck(d) \/ BecomesDue(d) \/ WindowEnds(d)
    \/ RetryDelivery \/ Prune \/ Crash

Spec == Init /\ [][Next]_vars

\* Workers and timers run on.  ClaimEventDelivery serves the subscription that
\* was claimed longest ago, and its delivery that has been due longest, so one
\* that is due again and again is claimed in the end.
FairSpec ==
    /\ Spec
    /\ \A w \in Worker : WF_vars(WorkerStep(w))
    /\ \A d \in Delivery : /\ SF_vars(\E w \in Worker : Claim(w, d))
                           /\ WF_vars(BecomesDue(d))
                           /\ WF_vars(WindowEnds(d))
    /\ \A s \in Sub : WF_vars(LeaseExpires(s))

-----------------------------------------------------------------------------
(* Properties                                                              *)

TypeOK ==
    /\ sub \in [Sub -> {"absent", "active", "paused", "deleted"}]
    /\ perm \in [Sub -> BOOLEAN]
    /\ subLease \in [Sub -> Worker \cup {Nobody}]
    /\ subLive \in [Sub -> BOOLEAN]
    /\ stored \in SUBSET Event
    /\ st \in [Delivery -> DeliveryStatus \cup {"none"}]
    /\ lease \in [Delivery -> Worker \cup {Nobody}]
    /\ live \in [Delivery -> BOOLEAN]
    /\ due \in [Delivery -> BOOLEAN]
    /\ window \in [Delivery -> {"unset", "open", "over"}]
    /\ wpc \in [Worker -> Wpc]
    /\ wjob \in [Worker -> Delivery \cup {NoJob}]
    /\ wres \in [Worker -> DeliveryStatus \cup {"none"}]
    /\ retrying \in Delivery \cup {NoJob}
    /\ published \in [Event -> Nat]
    /\ firstSubs \in [Event -> SUBSET Sub]
    /\ received \in SUBSET Delivery
    /\ overrun \in BOOLEAN
    /\ retries \in Nat /\ faults \in Nat /\ crashes \in Nat

\* Two workers never post to the same subscriber at once: the lease is the
\* subscription's, and it outlives the worker (ClaimEventDelivery).
OneRequestPerSubscription ==
    ~overrun => \A v, w \in Worker :
        v # w /\ wpc[v] = "http" /\ wpc[w] = "http" => SubOf(wjob[v]) # SubOf(wjob[w])

\* A delivery is recorded as sent only if the subscriber acknowledged it, also
\* when a worker that lost its lease comes back late (FinishEventDelivery).
SentMeansReceived == \A d \in Delivery : st[d] = "sent" => d \in received

\* What is over stays over until retention removes it: a late worker never
\* reopens a sent or cancelled delivery, and only a manual retry reopens a dead
\* one.
FinishedStays ==
    [][\A d \in Delivery :
          /\ st[d] \in {"sent", "cancelled"} => st'[d] \in {st[d], "none"}
          /\ st[d] = "dead" => st'[d] \in {"dead", "none"} \/ retrying = d]_vars

Begins(w) == wpc[w] = "begin" /\ wpc'[w] = "http"

\* Once a subscription is deleted no request to its callback begins, whatever a
\* worker had read before.
DeletedGetsNoRequest ==
    [][\A w \in Worker : Begins(w) => sub[SubOf(wjob[w])] # "deleted"]_vars

\* A delivery that is open is settled in the end, across crashes, failed store
\* calls and lost leases, as long as its subscription can be served.
EventuallySettled ==
    \A d \in Delivery :
        st[d] \in Unfinished ~>
            \/ st[d] \notin Unfinished
            \/ sub[SubOf(d)] # "active"
            \/ ~perm[SubOf(d)]

\* Stated by store/event_relay.go: a duplicate never adds subscribers that
\* registered later.
DuplicateAddsNobody ==
    \A d \in Delivery : st[d] # "none" => SubOf(d) \in firstSubs[EventOf(d)]

\* Stated by contract/EVENT_SUBSCRIPTIONS.md: after the deletion of a
\* subscription its unfinished deliveries are cancelled.
DeletedHasNothingOpen ==
    \A d \in Delivery : sub[SubOf(d)] = "deleted" => st[d] \notin Unfinished

=============================================================================
