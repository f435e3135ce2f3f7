---------------------------- MODULE ChannelTasks ----------------------------
(***************************************************************************)
(* The durable task queue of one channel conversation: a message becomes a *)
(* task that runs at once or waits, a waiting task may be cancelled or     *)
(* steered into the running one, and a restarted channel continues the     *)
(* tasks that had not started.                                             *)
(*                                                                         *)
(* Source: core/channel_remote.go, core/channel_queue.go,                  *)
(* core/channel_remote_commands.go, core/channel_direct.go and             *)
(* core/channel_runtime.go over store/channel_control.go.  Conversations   *)
(* share the lock controlMu but none of their state, so one is enough.     *)
(*                                                                         *)
(* The engine handles the messages of a chat one after the other           *)
(* (dispatchInbound), concurrently with the goroutine that runs the active *)
(* task, with the console and with the recovery of a freshly attached      *)
(* channel.  One section under controlMu is one step, one SQL statement    *)
(* outside it is one step.  Reattaching a channel does not wait for the    *)
(* goroutines of the old runtime: they keep it, closed, until they return. *)
(***************************************************************************)
EXTENDS Integers, Sequences, FiniteSets, SequencesExt

CONSTANTS
    N,                   \* number of chat messages; task m is the task of message m
    MaxQueue,            \* the channel's max_queue
    MaxDeliveries,       \* bound: how often the platform delivers one message
    MaxFaults,           \* bound: failed store calls
    MaxCrashes,          \* bound: daemon crashes
    MaxReloads,          \* bound: reattachments without a crash
    MaxDirects,          \* bound: turns sent from the console
    MaxTakeOvers,        \* bound: /takeover commands
    HandlersOverlapAttach  \* may a message be in its handler from detach to recovered?

ASSUME NAssumption == N \in Nat \ {0}
ASSUME QueueAssumption == MaxQueue \in Nat \ {0}
ASSUME BoundsAssumption ==
    /\ MaxDeliveries \in Nat /\ MaxFaults \in Nat /\ MaxCrashes \in Nat
    /\ MaxReloads \in Nat /\ MaxDirects \in Nat /\ MaxTakeOvers \in Nat
ASSUME OverlapAssumption == HandlersOverlapAttach \in BOOLEAN

Msg == 1..N
NoTask == 0
Runtime == 1..(1 + MaxCrashes + MaxReloads)

\* "waiting_input" is a running task to everything modelled here.
Status == {"none", "queued", "running", "steering", "steered", "steer_unknown",
           "succeeded", "failed", "interrupted", "cancelled"}

VARIABLES
    row,        \* durable: status of each message's task row, "none" without one
    created,    \* durable: the queued rows in the order of created_at
    state,      \* per runtime: channelControlState and the direct turn
    cur,        \* the runtime last attached
    rec,        \* "down", or where recoverRemoteTasks is, or "done"
    loaded,     \* the queued rows recovery has read
    seen,       \* the current runtime's recently handled messages
    inbox,      \* messages waiting for the chat's handler
    pc, hrt, hmsg,  \* the handler: its place, its runtime, its message or task
    deliveries, \* how often the platform delivered each message
    bounds,     \* faults, crashes, reloads, directs and takeovers so far
    given       \* history: how often each prompt was handed to an agent

durable == <<row, created>>
handler == <<pc, hrt, hmsg>>
channel == <<cur, rec, loaded, seen>>
intake == <<inbox, deliveries>>
vars == <<row, created, state, cur, rec, loaded, seen, inbox, pc, hrt, hmsg,
          deliveries, bounds, given>>

Item == [id : Msg, status : {"queued", "steering"}, target : Msg \cup {NoTask}]
Idle == [id |-> NoTask, session |-> FALSE, stop |-> FALSE]
Run(m) == [id |-> m, session |-> FALSE, stop |-> FALSE]
EmptyState == [queue |-> <<>>, active |-> Idle, steering |-> FALSE, direct |-> "none"]

IsActive(s) == s.active.id # NoTask

\* rt.runCtx of a runtime is cancelled when it is detached.
Closed(r) == r # cur \/ rec = "down"

Init ==
    /\ row = [m \in Msg |-> "none"]
    /\ created = <<>>
    /\ state = [r \in Runtime |-> EmptyState]
    /\ cur = 1
    /\ rec = "done"
    /\ loaded = <<>>
    /\ seen = {}
    /\ inbox = <<>>
    /\ pc = "idle" /\ hrt = 1 /\ hmsg = NoTask
    /\ deliveries = [m \in Msg |-> 0]
    /\ bounds = [faults |-> 0, crashes |-> 0, reloads |-> 0, directs |-> 0, takeovers |-> 0]
    /\ given = [m \in Msg |-> 0]

-----------------------------------------------------------------------------
(* Helpers.                                                                *)

CanFail(b) == b.faults < MaxFaults
Failed(b) == [b EXCEPT !.faults = @ + 1]
SetRow(rw, m, s) == [rw EXCEPT ![m] = s]
Gave(g, m) == [g EXCEPT ![m] = @ + 1]
NewItem(m, target) == [id |-> m, status |-> "queued", target |-> target]

\* Variation: turns from the console are forgotten.
MayStartBesideDirect(r, s) ==
    ~IsActive(s) /\ ~s.steering /\ s.queue # <<>> /\ ~Closed(r)

\* The guard of startNextRemoteLocked.
MayStart(r, s) ==
    /\ ~IsActive(s) /\ ~s.steering /\ s.queue # <<>>
    /\ ~Closed(r)
    /\ s.direct # "on"

\* startNextRemoteLocked, called with the lock held on a state s of runtime r,
\* rows rw, history g and bounds b that the caller has already brought about:
\* the head of the queue starts once its row is written, else it stays.
StartNextRemoteLocked(r, s, rw, g, b) ==
    \/ /\ ~MayStart(r, s)
       /\ state' = [state EXCEPT ![r] = s]
       /\ row' = rw /\ given' = g /\ bounds' = b
    \/ /\ MayStart(r, s)
       /\ LET m == Head(s.queue).id IN
          /\ state' = [state EXCEPT ![r] =
                          [s EXCEPT !.queue = Tail(@), !.active = Run(m)]]
          /\ row' = SetRow(rw, m, "running")
          /\ given' = Gave(g, m)
          /\ bounds' = b
    \/ /\ MayStart(r, s)
       /\ CanFail(b) /\ bounds' = Failed(b)
       /\ state' = [state EXCEPT ![r] = s]
       /\ row' = rw /\ given' = g

\* Whether the chat's handler may take a message now.  Nothing in the code
\* keeps it from doing so while the channel is detached and attached again;
\* HandlersOverlapAttach = FALSE supposes that the timing does.
Ready == HandlersOverlapAttach \/ rec = "done"

-----------------------------------------------------------------------------
(* Messages: dispatchInbound, handle, handleChannelMessage.                *)

\* The platform delivers, first in order, and may deliver again.
Deliver(m) ==
    /\ rec # "down"
    /\ deliveries[m] < MaxDeliveries
    /\ m > 1 => deliveries[m - 1] > 0
    /\ deliveries' = [deliveries EXCEPT ![m] = @ + 1]
    /\ inbox' = Append(inbox, m)
    /\ UNCHANGED <<durable, state, channel, handler, bounds, given>>

\* Variation: only the memory of the runtime is asked.
IsSeen(m) == m \in seen

\* duplicateMessage by the runtime, HasChannelSourceTask by the store.
IsDuplicate(m) == m \in seen \/ row[m] # "none"

\* handle up to the first look at state.active, which picks the way in.  The
\* message is dropped without a runtime, when it is a duplicate, and when the
\* store cannot tell.
HandleMessage ==
    /\ pc = "idle" /\ inbox # <<>> /\ (rec = "down" \/ Ready)
    /\ inbox' = Tail(inbox)
    /\ LET m == Head(inbox) IN
       \/ /\ rec = "down" \/ IsDuplicate(m)
          /\ seen' = IF rec = "down" THEN seen ELSE seen \cup {m}
          /\ UNCHANGED <<handler, bounds>>
       \/ /\ rec # "down" /\ m \notin seen /\ CanFail(bounds)
          /\ bounds' = Failed(bounds)
          /\ seen' = seen \cup {m}
          /\ UNCHANGED handler
       \/ /\ rec # "down" /\ ~IsDuplicate(m)
          /\ seen' = seen \cup {m}
          /\ pc' = IF IsActive(state[cur]) THEN "enqueue" ELSE "admit"
          /\ hrt' = cur /\ hmsg' = m
          /\ UNCHANGED bounds
    /\ UNCHANGED <<durable, state, cur, rec, loaded, deliveries, given>>

Return == pc' = "idle" /\ UNCHANGED <<hrt, hmsg>>

\* Variation: a queue that waits for its next start is forgotten.
BusyWithTurn(s) == IsActive(s) \/ s.steering \/ s.direct = "on"

\* The second look, which creates the task as running in an idle conversation.
\* It does not ask whether the runtime was closed meanwhile.
Busy(s) == IsActive(s) \/ s.steering \/ s.queue # <<>> \/ s.direct = "on"

Admit ==
    /\ pc = "admit"
    /\ LET s == state[hrt] IN
       \/ /\ Busy(s)
          /\ pc' = "enqueue"
          /\ UNCHANGED <<row, state, hrt, hmsg, bounds, given>>
       \/ /\ ~Busy(s)
          /\ state' = [state EXCEPT ![hrt].active = Run(hmsg)]
          /\ row' = SetRow(row, hmsg, "running")
          /\ given' = Gave(given, hmsg)
          /\ Return
          /\ UNCHANGED bounds
       \/ /\ ~Busy(s)
          /\ CanFail(bounds) /\ bounds' = Failed(bounds)
          /\ Return
          /\ UNCHANGED <<row, state, given>>
    /\ UNCHANGED <<created, channel, intake>>

\* enqueueRemoteTask refuses at the limit and when the row cannot be created.
QueueFull(s) == Len(s.queue) >= MaxQueue

Enqueue ==
    /\ pc = "enqueue"
    /\ Return
    /\ LET s == state[hrt] IN
       \/ /\ QueueFull(s)
          /\ UNCHANGED <<durable, state, bounds, given>>
       \/ /\ ~QueueFull(s)
          /\ CanFail(bounds) /\ bounds' = Failed(bounds)
          /\ UNCHANGED <<durable, state, given>>
       \/ /\ ~QueueFull(s)
          /\ created' = Append(created, hmsg)
          /\ StartNextRemoteLocked(hrt,
                [s EXCEPT !.queue = Append(@, NewItem(hmsg, s.active.id))],
                SetRow(row, hmsg, "queued"), given, bounds)
    /\ UNCHANGED <<channel, intake>>

-----------------------------------------------------------------------------
(* Commands and card actions: messages of the same chat, so handled when   *)
(* the handler is free.  The runtime is looked up first; the chat manager  *)
(* check then asks the platform before the lock is taken.                  *)

Command ==
    /\ pc = "idle" /\ rec # "down" /\ Ready
    /\ pc' = "command" /\ hrt' = cur /\ hmsg' = NoTask
    /\ UNCHANGED <<durable, state, channel, intake, bounds, given>>

\* The command is refused, or changes nothing (/queue, /status).
Refuse ==
    /\ pc = "command"
    /\ Return
    /\ UNCHANGED <<durable, state, channel, intake, bounds, given>>

QueuedAt(s) == {i \in 1..Len(s.queue) : s.queue[i].status = "queued"}

\* What a loop over q leaves that keeps the positions P, in their order: the
\* set has exactly one element.
Kept(q, P) ==
    LET rising == {h \in [1..Cardinality(P) -> P] : \A i, j \in DOMAIN h : i < j => h[i] < h[j]}
    IN {[i \in DOMAIN h |-> q[h[i]]] : h \in rising}

\* controlQueuedTask, cancel.
CancelQueued(i) ==
    /\ pc = "command"
    /\ LET s == state[hrt] IN
       /\ i \in QueuedAt(s)
       /\ \/ StartNextRemoteLocked(hrt, [s EXCEPT !.queue = RemoveAt(@, i)],
                SetRow(row, s.queue[i].id, "cancelled"), given, bounds)
          \/ /\ CanFail(bounds) /\ bounds' = Failed(bounds)
             /\ UNCHANGED <<row, state, given>>
    /\ Return
    /\ UNCHANGED <<created, channel, intake>>

\* clearRemoteQueue, confirmed: the sender's tasks go, all of them when the
\* sender is a manager, except those whose row cannot be written.
ClearQueue(drop, fails) ==
    /\ pc = "command"
    /\ bounds.faults + fails <= MaxFaults
    /\ LET s == state[hrt]
           cleared == {i \in QueuedAt(s) : s.queue[i].id \in drop}
       IN /\ drop # {} /\ drop \subseteq {s.queue[i].id : i \in QueuedAt(s)}
          /\ Cardinality(drop) + fails <= Cardinality(QueuedAt(s))
          /\ \E remaining \in Kept(s.queue, (1..Len(s.queue)) \ cleared) :
                StartNextRemoteLocked(hrt, [s EXCEPT !.queue = remaining],
                    [m \in Msg |-> IF m \in drop THEN "cancelled" ELSE row[m]],
                    given, [bounds EXCEPT !.faults = @ + fails])
    /\ Return
    /\ UNCHANGED <<created, channel, intake>>

\* controlQueuedTask, steer: only into the task the item was queued behind,
\* one at a time, and only after "steering" is in its row.
MaySteer(s, i) ==
    /\ i \in QueuedAt(s)
    /\ IsActive(s) /\ s.active.session /\ s.active.id = s.queue[i].target
    /\ ~s.steering

Steer(i) ==
    /\ pc = "command"
    /\ LET s == state[hrt] IN
       /\ MaySteer(s, i)
       /\ \/ /\ state' = [state EXCEPT ![hrt].queue[i].status = "steering",
                                       ![hrt].steering = TRUE]
             /\ row' = SetRow(row, s.queue[i].id, "steering")
             /\ given' = Gave(given, s.queue[i].id)
             /\ pc' = "steer" /\ UNCHANGED <<hrt, hmsg, bounds>>
          \/ /\ CanFail(bounds) /\ bounds' = Failed(bounds)
             /\ Return
             /\ UNCHANGED <<row, state, given>>
    /\ UNCHANGED <<created, channel, intake>>

\* Variation: the agent's answer becomes the status as it is.
SteerStatusRaw == [accepted |-> "accepted", rejected |-> "queued", unknown |-> "unknown"]

\* The agent answers the steer; the item stays queued only when the agent
\* rejected it and that could be written.  A rejected prompt was not given.
SteerStatus == [accepted |-> "steered", rejected |-> "queued", unknown |-> "steer_unknown"]

\* Variation: the rejected item leaves the queue like the others.
QueueWithoutSteered(q, i, answer) == RemoveAt(q, i)

QueueAfterSteer(q, i, answer) ==
    IF answer = "rejected" THEN [q EXCEPT ![i].status = "queued"] ELSE RemoveAt(q, i)

SteerReturns(answer) ==
    /\ pc = "steer"
    /\ LET s == state[hrt]
           i == CHOOSE j \in 1..Len(s.queue) : s.queue[j].status = "steering"
           m == s.queue[i].id
           s1 == [s EXCEPT !.steering = FALSE]
           g == IF answer = "rejected" THEN [given EXCEPT ![m] = @ - 1] ELSE given
       IN \/ StartNextRemoteLocked(hrt, [s1 EXCEPT !.queue = QueueAfterSteer(@, i, answer)],
                SetRow(row, m, SteerStatus[answer]), g, bounds)
          \/ /\ CanFail(bounds)
             /\ StartNextRemoteLocked(hrt, [s1 EXCEPT !.queue = RemoveAt(@, i)],
                   row, g, Failed(bounds))
    /\ Return
    /\ UNCHANGED <<created, channel, intake>>

\* takeOverRemoteTask copies the active task under the lock and writes the
\* copy, status included, after it has released the lock.
TakeOver ==
    /\ pc = "command" /\ IsActive(state[hrt])
    /\ bounds.takeovers < MaxTakeOvers
    /\ bounds' = [bounds EXCEPT !.takeovers = @ + 1]
    /\ pc' = "takeover" /\ hmsg' = state[hrt].active.id
    /\ UNCHANGED <<durable, state, channel, intake, hrt, given>>

TakeOverWrite ==
    /\ pc = "takeover"
    /\ Return
    /\ \/ row' = SetRow(row, hmsg, "running") /\ UNCHANGED bounds
       \/ CanFail(bounds) /\ bounds' = Failed(bounds) /\ UNCHANGED row
    /\ UNCHANGED <<created, state, channel, intake, given>>

\* stopRemoteTask and, from the console, StopConversation.
Stop ==
    /\ rec # "down"
    /\ IsActive(state[cur]) /\ ~state[cur].active.stop
    /\ state' = [state EXCEPT ![cur].active.stop = TRUE]
    /\ UNCHANGED <<durable, channel, intake, handler, bounds, given>>

-----------------------------------------------------------------------------
(* The goroutine of a running task: runRemoteTask, finishRemoteTask.       *)

\* attachRemoteSession writes the whole row, under the lock.
AttachSession(r) ==
    /\ IsActive(state[r]) /\ ~state[r].active.session
    /\ state' = [state EXCEPT ![r].active.session = TRUE]
    /\ \/ row' = SetRow(row, state[r].active.id, "running") /\ UNCHANGED bounds
       \/ CanFail(bounds) /\ bounds' = Failed(bounds) /\ UNCHANGED row
    /\ UNCHANGED <<created, channel, intake, handler, given>>

\* A stop request makes the task interrupted; without one the turn may
\* succeed, fail, or be interrupted by its timeout or its parent context.
Outcomes(a) == IF a.stop THEN {"interrupted"} ELSE {"succeeded", "failed", "interrupted"}

\* The error of the terminal write is dropped.
FinishRemoteTask(r) ==
    /\ IsActive(state[r])
    /\ LET s == [state[r] EXCEPT !.active = Idle]
           m == state[r].active.id
       IN \E o \in Outcomes(state[r].active) :
            \/ StartNextRemoteLocked(r, s, SetRow(row, m, o), given, bounds)
            \/ CanFail(bounds) /\ StartNextRemoteLocked(r, s, row, given, Failed(bounds))
    /\ UNCHANGED <<created, channel, intake, handler>>

-----------------------------------------------------------------------------
(* A turn sent from the console: beginDirectTurn, finishDirectTurn.        *)

BeginDirectTurn ==
    /\ rec # "down"
    /\ bounds.directs < MaxDirects
    /\ ~IsActive(state[cur]) /\ state[cur].direct # "on"
    /\ state' = [state EXCEPT ![cur].direct = "on"]
    /\ bounds' = [bounds EXCEPT !.directs = @ + 1]
    /\ UNCHANGED <<durable, channel, intake, handler, given>>

\* finishDirectTurn releases the lock between the two.
EndDirectTurn(r) ==
    /\ state[r].direct = "on"
    /\ state' = [state EXCEPT ![r].direct = "ended"]
    /\ UNCHANGED <<durable, channel, intake, handler, bounds, given>>

\* Variation: the queue is not looked at when a console turn ends.
DirectEndOnly(r) ==
    /\ state[r].direct = "ended"
    /\ state' = [state EXCEPT ![r].direct = "none"]
    /\ UNCHANGED <<durable, channel, intake, handler, bounds, given>>

DirectStartNext(r) ==
    /\ state[r].direct = "ended"
    /\ StartNextRemoteLocked(r, [state[r] EXCEPT !.direct = "none"], row, given, bounds)
    /\ UNCHANGED <<created, channel, intake, handler>>

-----------------------------------------------------------------------------
(* Attach, detach, crash and recovery.                                     *)

\* DetachChannel closes the runtime and waits for nobody.
Detach ==
    /\ rec = "done"
    /\ HandlersOverlapAttach \/ pc = "idle"
    /\ bounds.reloads < MaxReloads
    /\ bounds' = [bounds EXCEPT !.reloads = @ + 1]
    /\ rec' = "down"
    /\ UNCHANGED <<durable, state, cur, loaded, seen, intake, handler, given>>

\* The daemon dies at any point and takes every goroutine along.
Crash ==
    /\ bounds.crashes < MaxCrashes
    /\ bounds' = [bounds EXCEPT !.crashes = @ + 1]
    /\ state' = [r \in Runtime |-> EmptyState]
    /\ inbox' = <<>>
    /\ pc' = "idle" /\ hrt' = 1 /\ hmsg' = NoTask
    /\ rec' = "down" /\ loaded' = <<>>
    /\ UNCHANGED <<durable, cur, seen, deliveries, given>>

\* AttachChannel registers the runtime and starts the platform, then recovers.
AttachChannel ==
    /\ rec = "down" /\ cur + 1 \in Runtime
    /\ cur' = cur + 1
    /\ rec' = "steering"
    /\ seen' = {}
    /\ UNCHANGED <<durable, state, loaded, intake, handler, bounds, given>>

\* RecoverChannelTasks gives up at the first statement that fails.
RecoverFails ==
    /\ rec \in {"steering", "running", "select"}
    /\ CanFail(bounds) /\ bounds' = Failed(bounds)
    /\ rec' = "done"
    /\ UNCHANGED <<durable, state, cur, loaded, seen, intake, handler, given>>

MarkRows(from, to) == [m \in Msg |-> IF row[m] = from THEN to ELSE row[m]]

RecoverSteering ==
    /\ rec = "steering" /\ rec' = "running"
    /\ row' = MarkRows("steering", "steer_unknown")
    /\ UNCHANGED <<created, state, cur, loaded, seen, intake, handler, bounds, given>>

RecoverRunning ==
    /\ rec = "running" /\ rec' = "select"
    /\ row' = MarkRows("running", "interrupted")
    /\ UNCHANGED <<created, state, cur, loaded, seen, intake, handler, bounds, given>>

RecoverSelect ==
    /\ rec = "select" /\ rec' = "load"
    /\ loaded' \in Kept(created, {i \in 1..Len(created) : row[created[i]] = "queued"})
    /\ UNCHANGED <<durable, state, cur, seen, intake, handler, bounds, given>>

\* recoverRemoteTasks appends them all, then starts the first.  The task each
\* one was queued behind has ended with the old runtime.
RecoverLoad ==
    /\ rec = "load" /\ rec' = "done"
    /\ loaded' = <<>>
    /\ StartNextRemoteLocked(cur,
          [state[cur] EXCEPT !.queue =
              @ \o [i \in 1..Len(loaded) |-> NewItem(loaded[i], NoTask)]],
          row, given, bounds)
    /\ UNCHANGED <<created, cur, seen, intake, handler>>

-----------------------------------------------------------------------------
Recover == RecoverSteering \/ RecoverRunning \/ RecoverSelect \/ RecoverLoad

Next ==
    \/ \E m \in Msg : Deliver(m)
    \/ HandleMessage \/ Admit \/ Enqueue
    \/ Command \/ Refuse
    \/ \E i \in 1..Len(state[hrt].queue) : CancelQueued(i) \/ Steer(i)
    \/ \E drop \in SUBSET Msg, fails \in 0..MaxFaults : ClearQueue(drop, fails)
    \/ \E answer \in DOMAIN SteerStatus : SteerReturns(answer)
    \/ TakeOver \/ TakeOverWrite \/ Stop
    \/ \E r \in Runtime : AttachSession(r) \/ FinishRemoteTask(r)
                          \/ EndDirectTurn(r) \/ DirectStartNext(r)
    \/ BeginDirectTurn
    \/ Detach \/ Crash \/ AttachChannel \/ RecoverFails \/ Recover

Spec == Init /\ [][Next]_vars

\* A turn ends by its timeout, a steer by its 15 s limit, and goroutines and
\* the recovery are scheduled.  Nobody has to send, stop, cancel or steer.
Fairness ==
    /\ WF_vars(HandleMessage) /\ WF_vars(Admit) /\ WF_vars(Enqueue)
    /\ WF_vars(Refuse) /\ WF_vars(TakeOverWrite)
    /\ WF_vars(\E answer \in DOMAIN SteerStatus : SteerReturns(answer))
    /\ \A r \in Runtime : /\ WF_vars(FinishRemoteTask(r))
                          /\ WF_vars(EndDirectTurn(r))
                          /\ WF_vars(DirectStartNext(r))
    /\ WF_vars(AttachChannel) /\ WF_vars(Recover)

FairSpec == Spec /\ Fairness

-----------------------------------------------------------------------------
(* Properties.                                                             *)

\* Every variable holds a value of its kind.
TypeOK ==
    /\ row \in [Msg -> Status]
    /\ created \in Seq(Msg)
    /\ state \in [Runtime -> [queue : Seq(Item),
                             active : [id : Msg \cup {NoTask}, session : BOOLEAN, stop : BOOLEAN],
                             steering : BOOLEAN, direct : {"none", "on", "ended"}]]
    /\ cur \in Runtime
    /\ rec \in {"down", "steering", "running", "select", "load", "done"}
    /\ loaded \in Seq(Msg)
    /\ seen \in SUBSET Msg
    /\ inbox \in Seq(Msg)
    /\ pc \in {"idle", "admit", "enqueue", "command", "steer", "takeover"}
    /\ hrt \in Runtime /\ hmsg \in Msg \cup {NoTask}
    /\ deliveries \in [Msg -> Nat]
    /\ bounds \in [faults : Nat, crashes : Nat, reloads : Nat, directs : Nat, takeovers : Nat]
    /\ given \in [Msg -> Nat]

\* However often the platform delivers a message, whichever store calls fail,
\* wherever the daemon dies, a detached runtime lingers or a takeover writes a
\* stale row, the message's prompt reaches an agent at most once: as a turn, or as a steer
\* that was accepted or may have been.
PromptAtMostOnce == \A m \in Msg : given[m] <= 1

\* The conversation never has two turns at once: no two tasks, in one runtime
\* or in two, and no task beside a turn from the console.  (Without
\* reattachments: they do not wait for the old runtime's turn.)
Turns(r) == (IF IsActive(state[r]) THEN 1 ELSE 0) + (IF state[r].direct = "on" THEN 1 ELSE 0)
OneTurnAtATime ==
    \A r, q \in Runtime : Turns(r) + (IF q = r THEN 0 ELSE Turns(q)) <= 1

\* A task starts, from the queue or on arrival, only when every task that is
\* left waiting was created after it, over restarts and rejected steers too
\* (a recovery that failed leaves older tasks behind).
Before(m, u) == \E i, j \in 1..Len(created) : i < j /\ created[i] = m /\ created[j] = u
StartsInOrder ==
    [][\A m \in Msg : (bounds'.faults = 0 /\ row'[m] = "running" /\ given'[m] > given[m]) =>
            \A u \in Msg \ {m} : (row'[u] \in {"queued", "steering"}) => Before(m, u)']_vars

\* What the store calls waiting is what the running channel will start: each
\* queued row is one item of the queue, each steering row the item in flight
\* (unless a store call has failed).
WaitingRowsAreHeld ==
    rec = "done" /\ bounds.faults = 0 =>
        \A m \in Msg : (row[m] \in {"queued", "steering"}) =>
            Cardinality({i \in 1..Len(state[cur].queue) :
                state[cur].queue[i].id = m /\ state[cur].queue[i].status = row[m]}) = 1

\* A task that waits does not wait for ever.
WaitingEnds == \A m \in Msg : (row[m] = "queued") ~> (row[m] \notin {"queued", "steering"})
=============================================================================
