----------------------------- MODULE SuperAgent -----------------------------
(***************************************************************************)
(* One Super Agent (superagent/service.go, claims.go, config.go, email.go, *)
(* store/superagents.go).  Sources store events as Triggers, a router      *)
(* decides what each one means, and Tickets run as turns of workers.       *)
(*                                                                         *)
(* Processes: the poller of a mailbox, the deliveries of a chat platform   *)
(* (repeated at will), the pass loop, one router evaluation per thread,    *)
(* one turn per ticket, and the handlers of the Console.  A store call, or *)
(* a section under Service.mu, is one step.                                *)
(***************************************************************************)
EXTENDS Integers, Sequences, FiniteSets

CONSTANTS
    Mail,            \* the messages of the mailbox, in the order of their UIDs
    Chat,            \* the set of chat messages
    Threads,         \* the threads of the events
    Thread,          \* the thread of each event
    MaxConcurrency,  \* SuperAgent.MaxConcurrency: turns at a time
    MaxRouterEvals,  \* maxRouterEvals
    MaxRouterAttempts, \* maxRouterAttempts
    MaxWorkerAttempts, \* maxWorkerAttempts
    MaxTickets,      \* bound: tickets ever created
    MaxFaults,       \* bound: store calls that fail
    MaxCrashes,      \* bound: times the daemon stops
    MaxCommands,     \* bound: commands from the Console
    MaxMishaps       \* bound: the three together

MailEvents == {Mail[i] : i \in 1..Len(Mail)}
Events == MailEvents \cup Chat
Tickets == 1..MaxTickets
NoEvent == "no event"
Note == "recovery note"

ASSUME SuperAgentAssumption ==
    /\ Mail \in Seq(MailEvents)
    /\ \A i, j \in 1..Len(Mail) : Mail[i] = Mail[j] => i = j
    /\ MailEvents \cap Chat = {}
    /\ Thread \in [Events -> Threads] /\ IsFiniteSet(Threads)
    /\ {NoEvent, Note} \cap Events = {}
    /\ MaxConcurrency \in Nat \ {0} /\ MaxRouterEvals \in Nat \ {0}
    /\ MaxRouterAttempts \in Nat \ {0} /\ MaxWorkerAttempts \in Nat \ {0}
    /\ MaxTickets \in Nat /\ MaxFaults \in Nat
    /\ MaxCrashes \in Nat /\ MaxCommands \in Nat /\ MaxMishaps \in Nat

VARIABLES
    kind,       \* addressed, overheard (addresses nobody) or outsider (not allowed)
    trigger,    \* store: disposition of each event's Trigger, "none" without a row
    order,      \* store: Triggers by received_at
    ticket,     \* store: the Tickets
    position,   \* store: the mailbox position, NoPosition before the first poll
    agent,      \* store: act, observe, or off
    arrived,    \* how many messages the mailbox holds
    baseline,   \* history: where the mailbox was when it was first read
    up,         \* the service is started
    claimed,    \* the claim index: the Sources are listened to
    poll,       \* the poller
    pass,       \* the pass loop
    router,     \* per thread, the evaluation in progress
    attempts,   \* routerAttempts
    waits,      \* events and tickets before their notBefore
    turn,       \* per ticket, the goroutine of runTicket
    stopping,   \* the stopping map
    attached,   \* history: the events handed to each ticket
    worked,     \* history: the events of the turns that succeeded
    faults, crashes, commands

store == <<trigger, order, ticket, position, agent>>
memory == <<up, claimed, poll, pass, router, attempts, waits, turn, stopping>>
world == <<kind, arrived, baseline>>
history == <<attached, worked>>
bounds == <<faults, crashes, commands>>
vars == <<kind, trigger, order, ticket, position, agent, arrived, baseline,
          up, claimed, poll, pass, router, attempts, waits, turn, stopping,
          attached, worked, faults, crashes, commands>>

NoPosition == -1
NoTicket == 0

Kinds == {"addressed", "overheard", "outsider"}
Dispositions == {"none", "pending", "filtered", "failed", "observed", "ignored",
                 "accepted", "followup", "stopped"}
Statuses == {"none", "queued", "running", "ready", "failed", "stopped"}
Ended == {"ready", "failed", "stopped"}

EmptyTicket == [status |-> "none", trigger |-> NoEvent, inputs |-> <<>>, attempts |-> 0]
IdlePoll == [pc |-> "idle", next |-> 0, last |-> 0]
IdlePass == [pc |-> "idle", events |-> {}, tickets |-> {}, stale |-> FALSE]
IdleRouter == [pc |-> "idle", event |-> NoEvent, mode |-> "off", known |-> {},
               live |-> NoTicket, target |-> NoTicket, verdict |-> "none"]
IdleTurn == [pc |-> "idle", delivered |-> 0, result |-> "none"]

MishapLeft == faults + crashes + commands < MaxMishaps

(* A store call fails; the callers drop or log the error.                  *)
Fault == MishapLeft /\ faults < MaxFaults /\ faults' = faults + 1
NoFault == UNCHANGED faults

Init ==
    /\ kind \in {k \in [Events -> Kinds] : \A e \in MailEvents : k[e] # "overheard"}
    /\ trigger = [e \in Events |-> "none"] /\ order = <<>>
    /\ ticket = [t \in Tickets |-> EmptyTicket]
    /\ position = NoPosition /\ agent \in {"act", "observe"}
    /\ arrived = 0 /\ baseline = 0
    /\ up = TRUE /\ claimed = TRUE
    /\ poll = IdlePoll /\ pass = IdlePass
    /\ router = [th \in Threads |-> IdleRouter]
    /\ attempts = [e \in Events |-> 0] /\ waits = {}
    /\ turn = [t \in Tickets |-> IdleTurn] /\ stopping = {}
    /\ attached = [t \in Tickets |-> {}] /\ worked = [t \in Tickets |-> {}]
    /\ faults = 0 /\ crashes = 0 /\ commands = 0
-----------------------------------------------------------------------------
(* Intake.                                                                 *)

ThreadTickets(th) ==
    {t \in Tickets : ticket[t].status # "none" /\ Thread[ticket[t].trigger] = th}

(* Variation: the row is overwritten by a redelivery.                      *)
InsertOverwrites(e, disposition) ==
    /\ trigger' = [trigger EXCEPT ![e] = disposition]
    /\ order' = IF trigger[e] # "none" THEN order ELSE Append(order, e)

(* Insert the event unless its dedupe key is already stored.               *)
InsertSuperAgentTrigger(e, disposition) ==
    IF trigger[e] # "none"
    THEN UNCHANGED <<trigger, order>>
    ELSE /\ trigger' = [trigger EXCEPT ![e] = disposition]
         /\ order' = Append(order, e)

(* The gate: an unaddressed event counts only on the thread of a Ticket,   *)
(* and one of a sender who is not allowed is stored as filtered.           *)
Ingest(e) ==
    IF kind[e] = "overheard" /\ ThreadTickets(Thread[e]) = {}
    THEN UNCHANGED <<trigger, order>>
    ELSE InsertSuperAgentTrigger(e, IF kind[e] = "outsider" THEN "filtered" ELSE "pending")

(* A chat message or a webhook; the platform may deliver it again.         *)
InterceptMessage(e) ==
    /\ up /\ claimed
    /\ Ingest(e)
    /\ UNCHANGED <<ticket, position, agent, memory, world, history, bounds>>

MailArrives ==
    /\ arrived < Len(Mail)
    /\ arrived' = arrived + 1
    /\ UNCHANGED <<kind, baseline, store, memory, history, bounds>>

(* pollEmail reads the position and the messages after it.  The first      *)
(* read only saves where the mailbox is.                                   *)
PollFetch ==
    /\ up /\ claimed /\ poll.pc = "idle"
    /\ \/ /\ position = NoPosition
          /\ position' = arrived /\ baseline' = arrived
          /\ UNCHANGED poll
       \/ /\ position # NoPosition /\ position < arrived
          /\ poll' = [pc |-> "ingest", next |-> position + 1, last |-> arrived]
          /\ UNCHANGED <<position, baseline>>
    /\ UNCHANGED <<kind, trigger, order, ticket, agent, arrived, up, claimed, pass,
                   router, attempts, waits, turn, stopping, history, bounds>>

(* Variation: the poller goes on to the next message after a failed insert.*)
PollIngestSkips ==
    /\ poll.pc = "ingest"
    /\ \/ Ingest(Mail[poll.next]) /\ poll' = [poll EXCEPT !.pc = "save"] /\ NoFault
       \/ Fault /\ poll' = [poll EXCEPT !.pc = "save"] /\ UNCHANGED <<trigger, order>>
    /\ UNCHANGED <<ticket, position, agent, world, up, claimed, pass, router, attempts,
                   waits, turn, stopping, history, crashes, commands>>

(* A failed insert ends the poll; the next one resumes at this message.    *)
PollIngest ==
    /\ poll.pc = "ingest"
    /\ \/ Ingest(Mail[poll.next]) /\ poll' = [poll EXCEPT !.pc = "save"] /\ NoFault
       \/ Fault /\ poll' = IdlePoll /\ UNCHANGED <<trigger, order>>
    /\ UNCHANGED <<ticket, position, agent, world, up, claimed, pass, router, attempts,
                   waits, turn, stopping, history, crashes, commands>>

(* The position advances message by message.                               *)
PollSave ==
    /\ poll.pc = "save"
    /\ \/ /\ position' = poll.next
          /\ poll' = IF poll.next = poll.last THEN IdlePoll
                     ELSE [poll EXCEPT !.pc = "ingest", !.next = @ + 1]
          /\ NoFault
       \/ Fault /\ poll' = IdlePoll /\ UNCHANGED position
    /\ UNCHANGED <<trigger, order, ticket, agent, world, up, claimed, pass, router, attempts,
                   waits, turn, stopping, history, crashes, commands>>
-----------------------------------------------------------------------------
(* The pass loop: evaluatePending, then startQueued.                       *)

Evaluating == {th \in Threads : router[th].pc # "idle"}
Earlier(d, e) == \E i, j \in 1..Len(order) : order[i] = d /\ order[j] = e /\ i < j
Pending(th) == {e \in Events : trigger[e] = "pending" /\ Thread[e] = th}

(* The oldest pending Trigger of each thread: the others are blocked by it.*)
Firsts == {e \in Events : trigger[e] = "pending"
                          /\ \A d \in Pending(Thread[e]) : ~Earlier(d, e)}

Queued == {t \in Tickets : ticket[t].status = "queued"}

(* evaluatePending notes the count of finished evaluations and lists the   *)
(* pending Triggers; "stale" says that the count has changed since.  A     *)
(* failed list ends the pass as if it had not begun, and a pass that would *)
(* find nothing is left out.                                               *)
PassList ==
    /\ up /\ pass.pc = "idle" /\ Firsts \cup Queued # {}
    /\ pass' = [IdlePass EXCEPT !.pc = "evaluate", !.events = Firsts]
    /\ UNCHANGED <<store, world, up, claimed, poll, router, attempts, waits, turn, stopping,
                   history, bounds>>

(* Variation: an evaluation starts from a list that an evaluation finished *)
(* since may have made untrue.                                             *)
EvaluationBusyIgnoresStale(e) ==
    \/ Thread[e] \in Evaluating
    \/ Cardinality(Evaluating) >= MaxRouterEvals
    \/ e \in waits

EvaluationBusy(e) ==
    \/ Thread[e] \in Evaluating
    \/ pass.stale
    \/ Cardinality(Evaluating) >= MaxRouterEvals
    \/ e \in waits

PassEvaluate(e) ==
    /\ pass.pc = "evaluate" /\ e \in pass.events
    /\ pass' = [pass EXCEPT !.events = @ \ {e}]
    /\ router' = IF EvaluationBusy(e) THEN router
                 ELSE [router EXCEPT ![Thread[e]] =
                          [IdleRouter EXCEPT !.pc = "load", !.event = e]]
    /\ UNCHANGED <<store, world, up, claimed, poll, attempts, waits, turn, stopping,
                   history, bounds>>

PassQueued ==
    /\ pass.pc = "evaluate" /\ pass.events = {}
    /\ pass' = IF Queued = {} THEN IdlePass
               ELSE [IdlePass EXCEPT !.pc = "start", !.tickets = Queued]
    /\ UNCHANGED <<store, world, up, claimed, poll, router, attempts, waits, turn, stopping,
                   history, bounds>>

Running == {t \in Tickets : turn[t].pc # "idle"}

TicketBlocked(t) ==
    t \in Running \/ Cardinality(Running) >= MaxConcurrency \/ t \in waits

(* One ticket of the list, in the order of creation.  If the Super Agent   *)
(* cannot be loaded the pass ends.                                         *)
PassStart ==
    /\ pass.pc = "start" /\ pass.tickets # {}
    /\ LET t == CHOOSE u \in pass.tickets : \A v \in pass.tickets : u <= v IN
       \/ /\ pass' = IF pass.tickets = {t} THEN IdlePass
                     ELSE [pass EXCEPT !.tickets = @ \ {t}]
          /\ turn' = IF agent = "off" \/ TicketBlocked(t) THEN turn
                     ELSE [turn EXCEPT ![t] = [IdleTurn EXCEPT !.pc = "begin"]]
          /\ NoFault
       \/ pass' = IdlePass /\ Fault /\ UNCHANGED turn
    /\ UNCHANGED <<store, world, up, claimed, poll, router, attempts, waits, stopping,
                   history, crashes, commands>>
-----------------------------------------------------------------------------
(* One router evaluation of a thread.                                      *)

To(th, pc) == router' = [router EXCEPT ![th].pc = pc]
ToFinish(th, verdict) ==
    router' = [router EXCEPT ![th].pc = "finish", ![th].verdict = verdict]

LatestLive(S) ==
    LET live == {t \in S : ticket[t].status # "stopped"} IN
    IF live = {} THEN NoTicket ELSE CHOOSE t \in live : \A u \in live : u <= t

(* The deferred end: the thread is free and the count of evaluations grows.*)
EvalEnd(th) ==
    /\ router' = [router EXCEPT ![th] = IdleRouter]
    /\ pass' = IF pass.pc = "evaluate" THEN [pass EXCEPT !.stale = TRUE] ELSE pass

(* The Super Agent and the thread's tickets are read.                      *)
EvalLoad(th) ==
    /\ router[th].pc = "load"
    /\ \/ Fault /\ EvalEnd(th)
       \/ NoFault /\ agent = "off" /\ ToFinish(th, "filtered") /\ UNCHANGED pass
       \/ /\ NoFault /\ agent # "off" /\ UNCHANGED pass
          /\ router' = [router EXCEPT ![th].pc = "route", ![th].mode = agent,
                                      ![th].known = ThreadTickets(th),
                                      ![th].live = LatestLive(ThreadTickets(th))]
    /\ UNCHANGED <<store, world, up, claimed, poll, attempts, waits, turn, stopping,
                   history, crashes, commands>>

(* Variation: one attempt too many.                                        *)
RouterFailedOnceMore(th) ==
    LET e == router[th].event IN
    IF attempts[e] < MaxRouterAttempts
    THEN /\ attempts' = [attempts EXCEPT ![e] = @ + 1]
         /\ waits' = waits \cup {e} /\ EvalEnd(th)
    ELSE /\ attempts' = [attempts EXCEPT ![e] = 0]
         /\ waits' = waits \ {e} /\ ToFinish(th, "failed") /\ UNCHANGED pass

(* Variation: the attempts are not counted.                                *)
RouterFailedUncounted(th) ==
    /\ waits' = waits \cup {router[th].event} /\ EvalEnd(th)
    /\ UNCHANGED attempts

(* routerFailed: wait and try again; after the last attempt the thread's   *)
(* live ticket gets the event.                                             *)
RouterFailed(th) ==
    LET e == router[th].event IN
    IF attempts[e] + 1 < MaxRouterAttempts
    THEN /\ attempts' = [attempts EXCEPT ![e] = @ + 1]
         /\ waits' = waits \cup {e}
         /\ EvalEnd(th)
    ELSE /\ UNCHANGED pass
         /\ attempts' = [attempts EXCEPT ![e] = 0]
         /\ waits' = waits \ {e}
         /\ IF router[th].live # NoTicket /\ router[th].mode = "act"
            THEN router' = [router EXCEPT ![th].pc = "attach",
                                          ![th].target = router[th].live]
            ELSE ToFinish(th, "failed")

(* Bound on the tickets: an evaluation that accepts needs a free one.      *)
FreeTickets == {t \in Tickets : ticket[t].status = "none"}
Accepting == {th \in Threads : router[th].pc = "accept"}

(* What the host does with the router's answer: a ticket it names must be  *)
(* one of the thread's.                                                    *)
Decide(th) ==
    \/ router[th].mode = "observe" /\ ToFinish(th, "observed")
    \/ /\ router[th].mode = "act"
       /\ \/ ToFinish(th, "ignored")
          \/ Cardinality(Accepting) < Cardinality(FreeTickets) /\ To(th, "accept")
          \/ \E t \in router[th].known, pc \in {"attach", "stop"} :
                router' = [router EXCEPT ![th].pc = pc, ![th].target = t]
          \/ ToFinish(th, "failed")

EvalRoute(th) ==
    /\ router[th].pc = "route"
    /\ \/ RouterFailed(th)
       \/ /\ attempts' = [attempts EXCEPT ![router[th].event] = 0]
          /\ waits' = waits \ {router[th].event}
          /\ Decide(th) /\ UNCHANGED pass
    /\ UNCHANGED <<store, world, up, claimed, poll, turn, stopping, history, bounds>>

EvalAccept(th) ==
    LET t == CHOOSE u \in FreeTickets : \A v \in FreeTickets : u <= v
        e == router[th].event IN
    /\ router[th].pc = "accept"
    /\ \/ Fault /\ ToFinish(th, "failed") /\ UNCHANGED <<ticket, attached>>
       \/ /\ NoFault /\ ToFinish(th, "accepted")
          /\ ticket' = [ticket EXCEPT ![t] =
                 [status |-> "queued", trigger |-> e, inputs |-> <<e>>, attempts |-> 0]]
          /\ attached' = [attached EXCEPT ![t] = {e}]
    /\ UNCHANGED <<trigger, order, position, agent, world, up, claimed, poll, pass, attempts,
                   waits, turn, stopping, worked, crashes, commands>>

(* attach: a stopped ticket is a conflict; a running one runs again.       *)
EvalAttach(th) ==
    LET t == router[th].target
        e == router[th].event IN
    /\ router[th].pc = "attach"
    /\ \/ Fault /\ ToFinish(th, "failed") /\ UNCHANGED <<ticket, attached>>
       \/ /\ NoFault /\ ticket[t].status = "stopped"
          /\ ToFinish(th, "failed") /\ UNCHANGED <<ticket, attached>>
       \/ /\ NoFault /\ ticket[t].status # "stopped"
          /\ ticket' = [ticket EXCEPT ![t].inputs = Append(@, e),
                ![t].status = IF @ = "running" THEN @ ELSE "queued",
                ![t].attempts = IF ticket[t].status = "running" THEN @ ELSE 0]
          /\ attached' = [attached EXCEPT ![t] = @ \cup {e}]
          /\ ToFinish(th, "followup")
    /\ UNCHANGED <<trigger, order, position, agent, world, up, claimed, poll, pass, attempts,
                   waits, turn, stopping, worked, crashes, commands>>

(* StopTicket, under Service.mu.                                           *)
StopRow(t) ==
    /\ ticket' = [ticket EXCEPT ![t].status = "stopped", ![t].inputs = <<>>]
    /\ stopping' = IF t \in Running THEN stopping \cup {t} ELSE stopping

EvalStop(th) ==
    LET t == router[th].target IN
    /\ router[th].pc = "stop"
    /\ \/ Fault /\ ToFinish(th, "failed") /\ UNCHANGED <<ticket, stopping>>
       \/ /\ NoFault /\ ToFinish(th, "stopped")
          /\ IF ticket[t].status = "stopped" THEN UNCHANGED <<ticket, stopping>> ELSE StopRow(t)
    /\ UNCHANGED <<trigger, order, position, agent, world, up, claimed, poll, pass, attempts,
                   waits, turn, history, crashes, commands>>

(* finishTrigger: a failed write is logged and the Trigger stays pending.  *)
EvalFinish(th) ==
    /\ router[th].pc = "finish"
    /\ \/ Fault /\ UNCHANGED trigger
       \/ /\ NoFault
          /\ trigger' = [trigger EXCEPT ![router[th].event] = router[th].verdict]
    /\ EvalEnd(th)
    /\ UNCHANGED <<order, ticket, position, agent, world, up, claimed, poll, attempts,
                   waits, turn, stopping, history, crashes, commands>>
-----------------------------------------------------------------------------
(* One turn of a ticket: runTicket.                                        *)

(* The deferred end: the ticket leaves the running and stopping maps.      *)
TurnEnd(t) ==
    /\ turn' = [turn EXCEPT ![t] = IdleTurn]
    /\ stopping' = stopping \ {t}

(* The row is read again: only a queued ticket starts.                     *)
TurnBegin(t) ==
    /\ turn[t].pc = "begin"
    /\ \/ Fault /\ TurnEnd(t) /\ UNCHANGED ticket
       \/ NoFault /\ ticket[t].status # "queued" /\ TurnEnd(t) /\ UNCHANGED ticket
       \/ /\ NoFault /\ ticket[t].status = "queued" /\ UNCHANGED stopping
          /\ ticket' = [ticket EXCEPT ![t].status = "running", ![t].attempts = @ + 1]
          /\ turn' = [turn EXCEPT ![t].pc = "work", ![t].delivered = Len(ticket[t].inputs)]
    /\ UNCHANGED <<trigger, order, position, agent, world, up, claimed, poll, pass, router,
                   attempts, waits, history, crashes, commands>>

(* The worker answers, fails, or cannot be reached; a cancelled turn comes *)
(* back with an error.  Then the stopping map is looked at.                *)
WorkReturns(t) ==
    /\ turn[t].pc = "work"
    /\ \/ t \in stopping /\ TurnEnd(t)
       \/ /\ t \notin stopping /\ UNCHANGED stopping
          /\ \E result \in {"ok", "retry", "fatal"} :
                turn' = [turn EXCEPT ![t].pc = "finish", ![t].result = result]
    /\ UNCHANGED <<store, world, up, claimed, poll, pass, router, attempts, waits,
                   history, bounds>>

Delivered(t) == {ticket[t].inputs[i] : i \in 1..turn[t].delivered} \ {Note}
Rest(t) == SubSeq(ticket[t].inputs, turn[t].delivered + 1, Len(ticket[t].inputs))

(* Variation: the inputs are cleared, those that came during the turn too. *)
SettledClears(t) ==
    LET row == ticket[t] IN
    CASE turn[t].result = "retry" /\ row.attempts < MaxWorkerAttempts ->
            [row EXCEPT !.status = "queued"]
      [] turn[t].result = "ok" ->
            [row EXCEPT !.inputs = <<>>, !.attempts = 0, !.status = "ready"]
      [] OTHER -> [row EXCEPT !.status = "failed"]

(* Variation: a failure of the path is always retried.                     *)
SettledRetries(t) ==
    LET row == ticket[t] IN
    CASE turn[t].result = "retry" -> [row EXCEPT !.status = "queued", !.attempts = 0]
      [] turn[t].result = "ok" ->
            [row EXCEPT !.inputs = Rest(t), !.attempts = 0,
                        !.status = IF Rest(t) = <<>> THEN "ready" ELSE "queued"]
      [] OTHER -> [row EXCEPT !.status = "failed"]

(* What the end of a turn makes of the row.                                *)
Settled(t) ==
    LET row == ticket[t] IN
    CASE turn[t].result = "retry" /\ row.attempts < MaxWorkerAttempts ->
            [row EXCEPT !.status = "queued"]
      [] turn[t].result = "ok" ->
            [row EXCEPT !.inputs = Rest(t), !.attempts = 0,
                        !.status = IF Rest(t) = <<>> THEN "ready" ELSE "queued"]
      [] OTHER -> [row EXCEPT !.status = "failed"]

(* Variation: the row's status is not looked at.                           *)
TurnFinishBlind(t) ==
    /\ turn[t].pc = "finish"
    /\ TurnEnd(t)
    /\ \/ Fault /\ UNCHANGED <<ticket, waits, worked>>
       \/ /\ NoFault
          /\ ticket' = [ticket EXCEPT ![t] = Settled(t)]
          /\ waits' = IF turn[t].result = "retry" /\ Settled(t).status = "queued"
                      THEN waits \cup {t} ELSE waits
          /\ UNCHANGED worked
    /\ UNCHANGED <<trigger, order, position, agent, world, up, claimed, poll, pass, router,
                   attempts, attached, crashes, commands>>

(* A failed call leaves the row running, and no goroutine behind it.       *)
TurnFinish(t) ==
    /\ turn[t].pc = "finish"
    /\ TurnEnd(t)
    /\ \/ Fault /\ UNCHANGED <<ticket, waits, worked>>
       \/ NoFault /\ ticket[t].status # "running" /\ UNCHANGED <<ticket, waits, worked>>
       \/ /\ NoFault /\ ticket[t].status = "running"
          /\ ticket' = [ticket EXCEPT ![t] = Settled(t)]
          /\ waits' = IF turn[t].result = "retry" /\ Settled(t).status = "queued"
                      THEN waits \cup {t} ELSE waits
          /\ worked' = IF turn[t].result = "ok"
                       THEN [worked EXCEPT ![t] = @ \cup Delivered(t)] ELSE worked
    /\ UNCHANGED <<trigger, order, position, agent, world, up, claimed, poll, pass, router,
                   attempts, attached, crashes, commands>>

(* retryDelay passes.                                                      *)
WaitOver(x) ==
    /\ x \in waits
    /\ waits' = waits \ {x}
    /\ UNCHANGED <<store, world, up, claimed, poll, pass, router, attempts, turn, stopping,
                   history, bounds>>
-----------------------------------------------------------------------------
(* The Console, and the daemon's stop and start.                           *)

Command == up /\ MishapLeft /\ commands < MaxCommands /\ commands' = commands + 1

StopTicket(t) ==
    /\ Command /\ ticket[t].status \notin {"none", "stopped"}
    /\ StopRow(t)
    /\ UNCHANGED <<trigger, order, position, agent, world, up, claimed, poll, pass, router,
                   attempts, waits, turn, history, faults, crashes>>

RetryTicket(t) ==
    /\ Command /\ ticket[t].status = "failed"
    /\ ticket' = [ticket EXCEPT ![t].status = "queued", ![t].attempts = 0]
    /\ UNCHANGED <<trigger, order, position, agent, memory, world, history, faults, crashes>>

(* Save stores the configuration; the claim index follows in a second step.*)
Save ==
    /\ Command
    /\ agent' \in {"act", "observe", "off"} \ {agent}
    /\ UNCHANGED <<trigger, order, ticket, position, memory, world, history, faults, crashes>>

RefreshClaims ==
    /\ up /\ claimed # (agent # "off")
    /\ claimed' = (agent # "off")
    /\ UNCHANGED <<store, world, up, poll, pass, router, attempts, waits, turn, stopping,
                   history, bounds>>

(* A crash, or Stop: the contexts end and the rows stay as they are.       *)
Crash ==
    /\ up /\ MishapLeft /\ crashes < MaxCrashes
    /\ crashes' = crashes + 1
    /\ up' = FALSE
    /\ poll' = IdlePoll /\ pass' = IdlePass
    /\ router' = [th \in Threads |-> IdleRouter]
    /\ attempts' = [e \in Events |-> 0] /\ waits' = {}
    /\ turn' = [t \in Tickets |-> IdleTurn] /\ stopping' = {}
    /\ UNCHANGED <<store, world, claimed, history, faults, commands>>

(* Start puts an interrupted ticket back with a note.  If a write fails    *)
(* the daemon does not start, and the next start goes on from there.       *)
Recover(t) ==
    /\ ~up /\ ticket[t].status = "running"
    /\ ticket' = [ticket EXCEPT ![t].status = "queued", ![t].inputs = <<Note>> \o @]
    /\ UNCHANGED <<trigger, order, position, agent, memory, world, history, bounds>>

Started ==
    /\ ~up /\ \A t \in Tickets : ticket[t].status # "running"
    /\ up' = TRUE /\ claimed' = (agent # "off")
    /\ UNCHANGED <<store, world, poll, pass, router, attempts, waits, turn, stopping,
                   history, bounds>>
-----------------------------------------------------------------------------
Pass == PassList \/ (\E e \in Events : PassEvaluate(e)) \/ PassQueued \/ PassStart
Evaluate(th) == EvalLoad(th) \/ EvalRoute(th) \/ EvalAccept(th) \/ EvalAttach(th)
                    \/ EvalStop(th) \/ EvalFinish(th)
RunTicket(t) == TurnBegin(t) \/ WorkReturns(t) \/ TurnFinish(t)
Poll == PollFetch \/ PollIngest \/ PollSave

Next ==
    \/ \E e \in Chat : InterceptMessage(e)
    \/ MailArrives \/ Poll \/ Pass
    \/ \E th \in Threads : Evaluate(th)
    \/ \E t \in Tickets : RunTicket(t) \/ StopTicket(t) \/ RetryTicket(t) \/ Recover(t)
    \/ \E x \in Events \cup Tickets : WaitOver(x)
    \/ Save \/ RefreshClaims \/ Crash \/ Started

Spec == Init /\ [][Next]_vars

(* The goroutines are scheduled, calls have timeouts and delays end.       *)
FairSpec ==
    /\ Spec
    /\ WF_vars(Pass) /\ WF_vars(Started)
    /\ \A th \in Threads : WF_vars(Evaluate(th))
    /\ \A t \in Tickets : WF_vars(RunTicket(t)) /\ WF_vars(Recover(t))
    /\ \A x \in Events \cup Tickets : WF_vars(WaitOver(x))
-----------------------------------------------------------------------------
Inputs == Events \cup {Note}
Modes == {"act", "observe", "off"}
TicketRows == [status : Statuses, trigger : Events \cup {NoEvent}, inputs : Seq(Inputs),
               attempts : Nat]
Polls == [pc : {"idle", "ingest", "save"}, next : Nat, last : Nat]
Passes == [pc : {"idle", "evaluate", "start"}, events : SUBSET Events,
           tickets : SUBSET Tickets, stale : BOOLEAN]
Evaluations == [pc : {"idle", "load", "route", "accept", "attach", "stop", "finish"},
                event : Events \cup {NoEvent}, mode : Modes, known : SUBSET Tickets,
                live : Tickets \cup {NoTicket}, target : Tickets \cup {NoTicket},
                verdict : Dispositions]
Turns == [pc : {"idle", "begin", "work", "finish"}, delivered : Nat,
          result : {"none", "ok", "retry", "fatal"}]

(* The state is well formed.                                               *)
TypeOK ==
    /\ kind \in [Events -> Kinds]
    /\ trigger \in [Events -> Dispositions] /\ order \in Seq(Events)
    /\ ticket \in [Tickets -> TicketRows]
    /\ position \in Nat \cup {NoPosition} /\ arrived \in 0..Len(Mail) /\ baseline \in Nat
    /\ agent \in Modes /\ up \in BOOLEAN /\ claimed \in BOOLEAN
    /\ poll \in Polls /\ pass \in Passes
    /\ router \in [Threads -> Evaluations]
    /\ attempts \in [Events -> 0..MaxRouterAttempts - 1]
    /\ waits \in SUBSET (Events \cup Tickets)
    /\ turn \in [Tickets -> Turns] /\ stopping \in SUBSET Tickets
    /\ attached \in [Tickets -> SUBSET Events] /\ worked \in [Tickets -> SUBSET Events]
    /\ faults \in 0..MaxFaults /\ crashes \in 0..MaxCrashes /\ commands \in 0..MaxCommands

(* An event becomes at most one ticket, except that each failed store call *)
(* and each stop of the daemon may lose the mark that it was accepted:     *)
(* accept writes the ticket first and the Trigger's disposition after it.  *)
TicketsOf(e) == {t \in Tickets : ticket[t].trigger = e}
OneTicketPerEvent == \A e \in Events : Cardinality(TicketsOf(e)) <= 1 + faults + crashes

(* What was handed to a ticket that nobody stopped waits in its inputs or  *)
(* was read by a worker whose turn succeeded; a ticket reported ready has  *)
(* had all of it read.                                                     *)
InputsReachTheWorker ==
    \A t \in Tickets :
        /\ ticket[t].status # "stopped" =>
              attached[t] \subseteq worked[t] \cup {ticket[t].inputs[i] : i \in 1..Len(ticket[t].inputs)}
        /\ ticket[t].status = "ready" => attached[t] \subseteq worked[t]

(* Every message between the first read of the mailbox and the stored      *)
(* position has a Trigger, whatever failed in between.                     *)
MailIsNotSkipped ==
    position # NoPosition =>
        \A i \in baseline + 1 .. position : trigger[Mail[i]] # "none"

(* An evaluation begins with an event that is still pending and that is    *)
(* the oldest pending one of its thread.                                   *)
EvaluatedInOrder ==
    [][\A th \in Threads :
         (router[th].pc = "idle" /\ router'[th].pc = "load") =>
            /\ trigger[router'[th].event] = "pending"
            /\ \A d \in Pending(th) : ~Earlier(d, router'[th].event)]_vars

(* A stopped ticket never resumes: its row does not change any more.       *)
StoppedStays ==
    [][\A t \in Tickets : ticket[t].status = "stopped" => ticket'[t] = ticket[t]]_vars

(* A ticket whose last write failed: running in the store, run by nobody.  *)
Stranded(t) == up /\ ticket[t].status = "running" /\ turn[t].pc = "idle"

(* Every stored event is decided.                                          *)
EventsAreDecided ==
    \A e \in Events : (trigger[e] = "pending") ~> (trigger[e] # "pending")

(* A queued ticket ends, unless the Super Agent is switched off or the     *)
(* write at the end of its turn is lost.                                   *)
TicketsEnd ==
    \A t \in Tickets : (ticket[t].status = "queued")
                          ~> (ticket[t].status \in Ended \/ agent = "off" \/ Stranded(t))
=============================================================================
