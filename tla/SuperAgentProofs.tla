-------------------------- MODULE SuperAgentProofs --------------------------
(***************************************************************************)
(* Proofs about SuperAgent, for every mailbox, set of chat messages and of *)
(* threads, every limit on the concurrency and on the attempts, and every  *)
(* number of tickets, faults, crashes and commands.                        *)
(***************************************************************************)
EXTENDS SuperAgent, FiniteSetTheorems, WellFoundedInduction, SequenceTheorems, TLAPS

-----------------------------------------------------------------------------
(* Least and greatest elements.                                            *)

\* A finite set of naturals that is not empty has a least element.
LEMMA LeastExists ==
    ASSUME NEW S \in SUBSET Nat, IsFiniteSet(S), S # {}
    PROVE  \E n \in S : \A m \in S : n <= m
<1> DEFINE Down(n) == {m \in S : m <= n}
           Downs == {Down(n) : n \in S}
<1>1. Downs \subseteq FiniteSubsetsOf(S)
  <2> SUFFICES ASSUME NEW n \in S PROVE Down(n) \in FiniteSubsetsOf(S)
    OBVIOUS
  <2>1. Down(n) \in SUBSET S
    OBVIOUS
  <2> HIDE DEF Down
  <2> QED
    BY <2>1, FS_Subset DEF FiniteSubsetsOf
<1>2. Downs # {}
  OBVIOUS
<1>3. IsWellFoundedOn(StrictSubsetOrdering(S), FiniteSubsetsOf(S))
  BY FS_StrictSubsetOrderingWellFounded
<1>4. PICK U \in Downs : \A V \in Downs : ~(<<V, U>> \in StrictSubsetOrdering(S))
  <2> HIDE DEF Downs
  <2> QED
    BY <1>1, <1>2, <1>3, WFMin
<1>5. PICK n \in S : U = Down(n)
  BY <1>4
<1>6. ASSUME NEW m \in S, m < n PROVE FALSE
  <2>1. Down(m) \in Downs /\ Down(m) \in SUBSET S /\ Down(n) \in SUBSET S
    OBVIOUS
  <2>2. Down(m) \subseteq Down(n) /\ n \in Down(n) /\ n \notin Down(m)
    <3>1. n \in Nat /\ m \in Nat /\ \A x \in S : x \in Nat
      OBVIOUS
    <3>2. \A x \in S : x <= m => x <= n
      BY <1>6, <3>1
    <3>3. n <= n /\ ~(n <= m)
      BY <1>6, <3>1
    <3> QED
      BY <3>2, <3>3
  <2> HIDE DEF Down, Downs
  <2>3. <<Down(m), Down(n)>> \in StrictSubsetOrdering(S)
    BY <2>1, <2>2 DEF StrictSubsetOrdering
  <2> QED
    BY <1>4, <1>5, <2>1, <2>3
<1> QED
  BY <1>6

\* The same for the greatest element of a bounded set.
LEMMA GreatestExists ==
    ASSUME NEW N \in Nat, NEW S \in SUBSET (0..N), S # {}
    PROVE  \E n \in S : \A m \in S : m <= n
<1> DEFINE Bounds == {n \in 0..N : \A m \in S : m <= n}
<1>1. Bounds \in SUBSET Nat /\ N \in Bounds
  OBVIOUS
<1>2. IsFiniteSet(Bounds)
  BY FS_Interval, FS_Subset, 0 \in Int, N \in Int, Bounds \in SUBSET (0..N)
<1>3. PICK n \in Bounds : \A m \in Bounds : n <= m
  <2> HIDE DEF Bounds
  <2> QED
    BY <1>1, <1>2, LeastExists
<1>4. n \in S
  <2> SUFFICES ASSUME n \notin S PROVE FALSE
    OBVIOUS
  <2>1. \A m \in S : m <= n - 1
    BY <1>3
  <2>2. PICK m \in S : m <= n - 1
    BY <2>1
  <2>3. n - 1 \in 0..N
    BY <1>3, <2>2
  <2>4. n - 1 \in Bounds
    BY <2>1, <2>3
  <2> QED
    BY <1>3, <2>4
<1> QED
  BY <1>3, <1>4

\* The last of an interval, or one of those before it.
LEMMA LastOrBefore ==
    ASSUME NEW a \in Int, NEW n \in Int, NEW i \in a..n
    PROVE  i = n \/ i \in a..n - 1
OBVIOUS

\* What is left of a sequence without its first d elements.
LEMMA Suffix ==
    ASSUME NEW S, NEW s \in Seq(S), NEW d \in Nat, d <= Len(s)
    PROVE  /\ Len(SubSeq(s, d + 1, Len(s))) = Len(s) - d
           /\ \A i \in 1..Len(s) : i > d => SubSeq(s, d + 1, Len(s))[i - d] = s[i]
OBVIOUS

\* A sequence with one more element in front.
LEMMA InFront ==
    ASSUME NEW S, NEW s \in Seq(S), NEW e
    PROVE  /\ Len(<<e>> \o s) = Len(s) + 1 /\ Len(s) \in Nat
           /\ \A i \in 1..Len(s) : (<<e>> \o s)[i + 1] = s[i]
OBVIOUS

USE SuperAgentAssumption

-----------------------------------------------------------------------------
(* The invariants.                                                         *)

\* Nothing is under way while the daemon is down.
DownInv ==
    ~up => /\ poll.pc = "idle" /\ pass.pc = "idle"
           /\ \A th \in Threads : router[th].pc = "idle"
           /\ \A t \in Tickets : turn[t].pc = "idle"

\* An evaluation has an event of its own thread, which is pending until the
\* evaluation itself has decided it, and tickets that exist.
RouterInv ==
    \A th \in Threads : router[th].pc # "idle" =>
        /\ router[th].event \in Events
        /\ Thread[router[th].event] = th /\ trigger[router[th].event] = "pending"
        /\ router[th].pc = "finish" => router[th].verdict \notin {"none", "pending"}
        /\ \A t \in router[th].known : ticket[t].status # "none"
        /\ router[th].live # NoTicket => ticket[router[th].live].status # "none"
        /\ router[th].pc \in {"attach", "stop"} =>
              router[th].target \in Tickets /\ ticket[router[th].target].status # "none"

\* The stored events are the ones in the order of arrival.
OrderInv == \A i \in 1..Len(order) : trigger[order[i]] # "none"

\* There is a ticket left for each evaluation that accepts.
AcceptInv == Cardinality(Accepting) <= Cardinality(FreeTickets)

\* The list of a pass is true until an evaluation ends.
PassInv == pass.pc = "evaluate" /\ ~pass.stale => pass.events \subseteq Firsts

\* The poller is at the message after the stored position.
PollInv ==
    /\ \A e \in MailEvents : kind[e] # "overheard"
    /\ position <= Len(Mail)
    /\ poll.pc # "idle" => /\ position # NoPosition /\ poll.next = position + 1
                           /\ poll.next <= poll.last /\ poll.last <= Len(Mail)
    /\ poll.pc = "save" => trigger[Mail[poll.next]] # "none"

\* A turn under way is of a row that is running or was stopped since, and the
\* inputs it was given are still the first ones.
TurnInv ==
    \A t \in Tickets : turn[t].pc \in {"work", "finish"} =>
        /\ ticket[t].status \in {"running", "stopped"}
        /\ ticket[t].status = "running" => turn[t].delivered <= Len(ticket[t].inputs)

\* The mark that an event was accepted is stored, or about to be.
Marked(e) ==
    \/ trigger[e] \notin {"none", "pending"}
    \/ \E th \in Threads :
          router[th].pc = "finish" /\ router[th].event = e /\ router[th].verdict = "accepted"
CountInv ==
    \A e \in Events :
        Cardinality(TicketsOf(e)) <= faults + crashes + (IF Marked(e) THEN 1 ELSE 0)

SafeInv == /\ TypeOK /\ DownInv /\ RouterInv /\ AcceptInv /\ OrderInv /\ PassInv
           /\ PollInv /\ TurnInv /\ CountInv

\* The inputs that wait in a row.
Held(t) == {ticket[t].inputs[i] : i \in 1..Len(ticket[t].inputs)}

\* What a step may do to the row of a ticket, and the code that does it.
RowAccepted(t, th) ==
    /\ EvalAccept(th) /\ NoFault /\ ticket[t].status = "none"
    /\ ticket'[t] = [status |-> "queued", trigger |-> router[th].event,
                     inputs |-> <<router[th].event>>, attempts |-> 0]
    /\ attached'[t] = {router[th].event}
RowAttached(t, th) ==
    /\ EvalAttach(th) /\ ticket[t].status \notin {"none", "stopped"}
    /\ ticket'[t].trigger = ticket[t].trigger
    /\ ticket'[t].inputs = Append(ticket[t].inputs, router[th].event)
    /\ ticket'[t].status = IF ticket[t].status = "running" THEN "running" ELSE "queued"
    /\ attached'[t] = attached[t] \cup {router[th].event}
RowStopped(t) ==
    /\ ticket[t].status \notin {"none", "stopped"} /\ ticket'[t].status = "stopped"
    /\ ticket'[t].trigger = ticket[t].trigger
    /\ turn'[t] = turn[t]
RowBegun(t) ==
    /\ TurnBegin(t) /\ ticket[t].status = "queued" /\ ticket'[t].status = "running"
    /\ ticket'[t].inputs = ticket[t].inputs /\ ticket'[t].trigger = ticket[t].trigger
    /\ turn'[t].delivered = Len(ticket[t].inputs)
RowSettled(t) ==
    TurnFinish(t) /\ ticket[t].status = "running" /\ ticket'[t] = Settled(t) /\ turn'[t].pc = "idle"
RowQueued(t) ==
    /\ ticket'[t].status = "queued" /\ ticket'[t].trigger = ticket[t].trigger
    /\ \/ ticket[t].status = "failed" /\ ticket'[t].inputs = ticket[t].inputs
       \/ ~up /\ ticket[t].status = "running" /\ ticket'[t].inputs = <<Note>> \o ticket[t].inputs
    /\ turn'[t] = turn[t]

\* What a step may do to the evaluation of a thread: begin it from the list of
\* a pass, or take it further.
EvalStarted(th) ==
    /\ router[th].pc = "idle" /\ pass.pc = "evaluate" /\ ~pass.stale /\ UNCHANGED store
    /\ \E e \in pass.events :
          Thread[e] = th /\ router'[th] = [IdleRouter EXCEPT !.pc = "load", !.event = e]
EvalMoved(th) ==
    /\ router[th].pc \notin {"idle", "finish"} /\ router'[th].event = router[th].event
    /\ \/ /\ router'[th].pc = "route" /\ router'[th].known = ThreadTickets(th)
          /\ router'[th].live = LatestLive(ThreadTickets(th))
       \/ /\ router'[th].known = router[th].known /\ router'[th].live = router[th].live
          /\ \/ /\ router'[th].pc \in {"attach", "stop"}
                /\ router'[th].target \in router[th].known \cup ({router[th].live} \ {NoTicket})
             \/ /\ router'[th].pc = "accept" /\ UNCHANGED ticket
                /\ Cardinality(Accepting) < Cardinality(FreeTickets)
                /\ \A u \in Threads \ {th} : router'[u] = router[u]
             \/ router'[th].pc = "finish" /\ router'[th].verdict \notin {"none", "pending"}

-----------------------------------------------------------------------------
(* The operators.                                                          *)

LEMMA NoTicketIsNone == NoTicket \notin Tickets /\ Tickets \subseteq Nat /\ IsFiniteSet(Tickets)
<1>1. IsFiniteSet(1..MaxTickets)
  BY FS_Interval, 1 \in Int, MaxTickets \in Int
<1> QED
  BY <1>1 DEF NoTicket, Tickets

LEMMA LatestLiveType ==
    ASSUME NEW S \in SUBSET Tickets
    PROVE  LatestLive(S) \in S \cup {NoTicket}
<1> DEFINE live == {t \in S : ticket[t].status # "stopped"}
<1>1. live \in SUBSET (0..MaxTickets) /\ live \subseteq S
  <2>1. Tickets \subseteq 0..MaxTickets
    BY DEF Tickets
  <2> QED
    BY <2>1
<1>2. ASSUME live # {} PROVE \E t \in live : \A u \in live : u <= t
  <2> HIDE DEF live
  <2> QED
    BY <1>1, <1>2, GreatestExists
<1> QED
  BY <1>1, <1>2 DEF LatestLive

\* The ticket of an accepted event is a free one.
LEMMA FirstFree ==
    ASSUME FreeTickets # {}
    PROVE  (CHOOSE u \in FreeTickets : \A v \in FreeTickets : u <= v) \in FreeTickets
<1>1. FreeTickets \in SUBSET Nat /\ IsFiniteSet(FreeTickets)
  <2>1. FreeTickets \in SUBSET Tickets
    BY DEF FreeTickets
  <2> QED
    BY <2>1, NoTicketIsNone, FS_Subset
<1>2. \E u \in FreeTickets : \A v \in FreeTickets : u <= v
  BY <1>1, LeastExists
<1> QED
  BY <1>2

\* An evaluation that accepts finds a free ticket.
LEMMA AcceptingLeft ==
    ASSUME AcceptInv, NEW th \in Threads, router[th].pc = "accept"
    PROVE  FreeTickets # {}
<1> SUFFICES ASSUME FreeTickets = {} PROVE FALSE
  OBVIOUS
<1>1. Accepting \in SUBSET Threads /\ th \in Accepting
  BY DEF Accepting
<1>2. IsFiniteSet(Accepting)
  BY <1>1, FS_Subset
<1>3. Cardinality(Accepting) \in Nat /\ Cardinality(Accepting) # 0
  BY <1>1, <1>2, FS_CardinalityType, FS_EmptySet
<1> QED
  BY <1>3, FS_EmptySet DEF AcceptInv

LEMMA MailIsEvents == \A i \in 1..Len(Mail) : Mail[i] \in Events /\ Mail[i] \in MailEvents
BY DEF Events, MailEvents
-----------------------------------------------------------------------------
(* Type correctness.                                                       *)

LEMMA TypeInit == Init => TypeOK
BY DEF Init, TypeOK, Kinds, Dispositions, Statuses, EmptyTicket, IdlePoll, IdlePass, IdleRouter,
       IdleTurn, NoPosition, NoTicket, Inputs, Modes, TicketRows, Polls, Passes, Evaluations, Turns

LEMMA IngestType ==
    ASSUME TypeOK, NEW e \in Events, Ingest(e)
    PROVE  trigger' \in [Events -> Dispositions] /\ order' \in Seq(Events)
<1>1. trigger \in [Events -> Dispositions] /\ order \in Seq(Events)
  BY DEF TypeOK
<1>2. Append(order, e) \in Seq(Events)
  BY <1>1
<1>3. ASSUME NEW d \in Dispositions, InsertSuperAgentTrigger(e, d)
      PROVE  trigger' \in [Events -> Dispositions] /\ order' \in Seq(Events)
  BY <1>1, <1>2, <1>3 DEF InsertSuperAgentTrigger
<1>4. (IF kind[e] = "outsider" THEN "filtered" ELSE "pending") \in Dispositions
  BY DEF Dispositions
<1> QED
  BY <1>1, <1>3, <1>4 DEF Ingest

LEMMA IdleTypes ==
    IdlePoll \in Polls /\ IdlePass \in Passes /\ IdleRouter \in Evaluations /\ IdleTurn \in Turns
BY DEF IdlePoll, IdlePass, IdleRouter, IdleTurn, Polls, Passes, Evaluations, Turns, Modes,
       Dispositions, NoTicket

\* The records of the evaluations, the pass and the turns stay records.
LEMMA EvalType ==
    ASSUME TypeOK, NEW th \in Threads
    PROVE  /\ EvalEnd(th) => router' \in [Threads -> Evaluations] /\ pass' \in Passes
           /\ \A v \in Dispositions : ToFinish(th, v) => router' \in [Threads -> Evaluations]
<1>1. EvalEnd(th) => router' \in [Threads -> Evaluations] /\ pass' \in Passes
  <2>1. [pass EXCEPT !.stale = TRUE] \in Passes
    BY DEF TypeOK, Passes
  <2> QED
    BY <2>1, IdleTypes DEF EvalEnd, TypeOK
<1>2. ASSUME NEW v \in Dispositions, ToFinish(th, v) PROVE router' \in [Threads -> Evaluations]
  <2>1. router[th] \in Evaluations
    BY DEF TypeOK
  <2>2. [router[th] EXCEPT !.pc = "finish", !.verdict = v] \in Evaluations
    BY <2>1 DEF Evaluations
  <2>3. router' = [router EXCEPT ![th] = [router[th] EXCEPT !.pc = "finish", !.verdict = v]]
    BY <1>2 DEF ToFinish, TypeOK
  <2> QED
    BY <2>2, <2>3 DEF TypeOK
<1> QED
  BY <1>1, <1>2

LEMMA TurnEndType ==
    ASSUME TypeOK, NEW t \in Tickets, TurnEnd(t)
    PROVE  turn' \in [Tickets -> Turns] /\ stopping' \in SUBSET Tickets
BY IdleTypes DEF TypeOK, TurnEnd

LEMMA StopRowType ==
    ASSUME TypeOK, NEW t \in Tickets, StopRow(t)
    PROVE  ticket' \in [Tickets -> TicketRows] /\ stopping' \in SUBSET Tickets
<1>1. [ticket[t] EXCEPT !.status = "stopped", !.inputs = <<>>] \in TicketRows
  <2>1. ticket[t] \in TicketRows
    BY DEF TypeOK
  <2>2. "stopped" \in Statuses /\ <<>> \in Seq(Inputs)
    BY DEF Statuses
  <2> QED
    BY <2>1, <2>2 DEF TicketRows
<1>2. ticket' = [ticket EXCEPT ![t] = [ticket[t] EXCEPT !.status = "stopped", !.inputs = <<>>]]
  BY DEF StopRow, TypeOK
<1>3. ticket' \in [Tickets -> TicketRows]
  BY <1>1, <1>2 DEF TypeOK
<1>4. stopping' \in SUBSET Tickets
  BY DEF StopRow, TypeOK
<1> QED
  BY <1>3, <1>4

LEMMA SettledType ==
    ASSUME TypeOK, NEW t \in Tickets
    PROVE  Settled(t) \in TicketRows
<1>1. ticket[t] \in TicketRows /\ ticket[t].inputs \in Seq(Inputs)
      /\ turn[t].delivered \in Nat
  BY DEF TypeOK, TicketRows, Turns
<1>2. Rest(t) \in Seq(Inputs)
  BY <1>1 DEF Rest
<1>3. [ticket[t] EXCEPT !.status = "queued"] \in TicketRows
  BY <1>1 DEF TicketRows, Statuses
<1>4. [ticket[t] EXCEPT !.status = "failed"] \in TicketRows
  BY <1>1 DEF TicketRows, Statuses
<1>5. \A s \in Statuses : [ticket[t] EXCEPT !.inputs = Rest(t), !.attempts = 0, !.status = s]
                             \in TicketRows
  BY <1>1, <1>2 DEF TicketRows
<1>6. (IF Rest(t) = <<>> THEN "ready" ELSE "queued") \in Statuses
  BY DEF Statuses
<1> QED
  BY <1>3, <1>4, <1>5, <1>6 DEF Settled

LEMMA FaultType ==
    ASSUME TypeOK, Fault \/ NoFault
    PROVE  faults' \in 0..MaxFaults
<1>1. faults \in 0..MaxFaults /\ MaxFaults \in Nat
  BY DEF TypeOK
<1> QED
  BY <1>1 DEF Fault, NoFault

\* The message that the poller is at.
LEMMA PollAt ==
    ASSUME TypeOK, PollInv, poll.pc # "idle"
    PROVE  /\ poll.next \in 1..Len(Mail) /\ Mail[poll.next] \in Events
           /\ position \in Nat /\ position = poll.next - 1
<1>1. poll.next \in Nat /\ poll.last \in Nat /\ position \in Nat \cup {-1} /\ Len(Mail) \in Nat
  BY DEF TypeOK, Polls, NoPosition
<1>2. position # -1 /\ poll.next = position + 1 /\ poll.next <= poll.last /\ poll.last <= Len(Mail)
  BY DEF PollInv, NoPosition
<1>3. poll.next \in 1..Len(Mail) /\ position \in Nat /\ position = poll.next - 1
  BY <1>1, <1>2
<1> QED
  BY <1>3, MailIsEvents

\* Intake.
LEMMA TypeIntake ==
    ASSUME TypeOK, PollInv, (\E e \in Chat : InterceptMessage(e)) \/ MailArrives \/ Poll
    PROVE  TypeOK'
<1> USE DEF TypeOK, store, memory, world, history, bounds
<1>1. ASSUME NEW e \in Chat, InterceptMessage(e) PROVE TypeOK'
  <2>1. trigger' \in [Events -> Dispositions] /\ order' \in Seq(Events)
    BY <1>1, IngestType DEF InterceptMessage, Events
  <2> QED
    BY <1>1, <2>1 DEF InterceptMessage
<1>2. CASE MailArrives
  BY <1>2 DEF MailArrives
<1>3. CASE PollFetch
  <2>1. poll' \in Polls /\ position' \in Nat \cup {NoPosition} /\ baseline' \in Nat
    BY <1>3 DEF PollFetch, Polls, NoPosition
  <2> QED
    BY <1>3, <2>1 DEF PollFetch
<1>4. CASE PollIngest
  <2>1. Mail[poll.next] \in Events
    BY <1>4, PollAt DEF PollIngest
  <2>2. trigger' \in [Events -> Dispositions] /\ order' \in Seq(Events)
    BY <1>4, <2>1, IngestType DEF PollIngest
  <2>3. poll' \in Polls /\ faults' \in 0..MaxFaults
    <3>1. [poll EXCEPT !.pc = "save"] \in Polls
      BY DEF Polls
    <3> QED
      BY <1>4, <3>1, IdleTypes, FaultType DEF PollIngest
  <2> QED
    BY <1>4, <2>2, <2>3 DEF PollIngest
<1>5. CASE PollSave
  <2>1. poll' \in Polls
    <3>1. poll \in Polls /\ poll.next + 1 \in Nat
      BY DEF Polls
    <3>2. [poll EXCEPT !.pc = "ingest", !.next = poll.next + 1] \in Polls
      BY <3>1 DEF Polls
    <3>3. [poll EXCEPT !.pc = "ingest", !.next = @ + 1]
             = [poll EXCEPT !.pc = "ingest", !.next = poll.next + 1]
      BY <3>1 DEF Polls
    <3> QED
      BY <1>5, <3>2, <3>3, IdleTypes DEF PollSave
  <2>2. position' \in Nat \cup {NoPosition} /\ faults' \in 0..MaxFaults
    <3>1. poll.next \in Nat
      BY DEF Polls
    <3> QED
      BY <1>5, <3>1, FaultType DEF PollSave
  <2> QED
    BY <1>5, <2>1, <2>2 DEF PollSave
<1> QED
  BY <1>1, <1>2, <1>3, <1>4, <1>5 DEF Poll

LEMMA UpdateType ==
    ASSUME NEW D, NEW R, NEW f \in [D -> R], NEW d, NEW r \in R
    PROVE  [f EXCEPT ![d] = r] \in [D -> R]
OBVIOUS

\* The ticket that startQueued looks at is one of its list.
LEMMA FirstListed ==
    ASSUME TypeOK, pass.tickets # {}
    PROVE  (CHOOSE u \in pass.tickets : \A v \in pass.tickets : u <= v) \in pass.tickets
<1>1. pass.tickets \in SUBSET Tickets
  BY DEF TypeOK, Passes
<1>2. pass.tickets \in SUBSET Nat /\ IsFiniteSet(pass.tickets)
  BY <1>1, NoTicketIsNone, FS_Subset
<1>3. \E u \in pass.tickets : \A v \in pass.tickets : u <= v
  BY <1>2, LeastExists
<1> QED
  BY <1>3

\* The pass loop.
LEMMA TypePass ==
    ASSUME TypeOK, Pass
    PROVE  TypeOK'
<1> USE DEF TypeOK, store, memory, world, history, bounds
<1>0. Firsts \in SUBSET Events /\ Queued \in SUBSET Tickets
  BY DEF Firsts, Queued
<1>1. CASE PassList
  <2>1. [IdlePass EXCEPT !.pc = "evaluate", !.events = Firsts] \in Passes
    BY <1>0, IdleTypes DEF Passes
  <2> QED
    BY <1>1, <2>1 DEF PassList
<1>2. ASSUME NEW e \in Events, PassEvaluate(e) PROVE TypeOK'
  <2>1. [pass EXCEPT !.events = @ \ {e}] \in Passes
    BY DEF Passes
  <2>2. [IdleRouter EXCEPT !.pc = "load", !.event = e] \in Evaluations
    BY IdleTypes DEF Evaluations
  <2>3. router' \in [Threads -> Evaluations]
    BY <1>2, <2>2 DEF PassEvaluate
  <2> QED
    BY <1>2, <2>1, <2>3 DEF PassEvaluate
<1>3. CASE PassQueued
  <2>1. [IdlePass EXCEPT !.pc = "start", !.tickets = Queued] \in Passes
    BY <1>0, IdleTypes DEF Passes
  <2> QED
    BY <1>3, <2>1, IdleTypes DEF PassQueued
<1>4. CASE PassStart
  <2> DEFINE t == CHOOSE u \in pass.tickets : \A v \in pass.tickets : u <= v
  <2>1. t \in pass.tickets /\ t \in Tickets
    BY <1>4, FirstListed DEF PassStart, Passes
  <2> HIDE DEF t
  <2>2. [pass EXCEPT !.tickets = @ \ {t}] \in Passes
    BY DEF Passes
  <2>3. [IdleTurn EXCEPT !.pc = "begin"] \in Turns
    BY IdleTypes DEF Turns
  <2>4. \/ /\ pass' = IF pass.tickets = {t} THEN IdlePass ELSE [pass EXCEPT !.tickets = @ \ {t}]
           /\ turn' = IF agent = "off" \/ TicketBlocked(t) THEN turn
                      ELSE [turn EXCEPT ![t] = [IdleTurn EXCEPT !.pc = "begin"]]
           /\ NoFault
        \/ pass' = IdlePass /\ Fault /\ UNCHANGED turn
    BY <1>4 DEF PassStart, t
  <2>5. pass' \in Passes /\ turn' \in [Tickets -> Turns] /\ faults' \in 0..MaxFaults
    <3>1. pass' \in Passes
      BY <2>2, <2>4, IdleTypes
    <3>2. turn' \in [Tickets -> Turns]
      <4>1. turn' = turn \/ turn' = [turn EXCEPT ![t] = [IdleTurn EXCEPT !.pc = "begin"]]
        BY <2>4
      <4>2. turn \in [Tickets -> Turns]
        OBVIOUS
      <4> DEFINE q == [IdleTurn EXCEPT !.pc = "begin"]
      <4> HIDE DEF q
      <4>3. [turn EXCEPT ![t] = q] \in [Tickets -> Turns]
        BY <2>3, <4>2, UpdateType DEF q
      <4> QED
        BY <4>1, <4>2, <4>3 DEF q
    <3> QED
      BY <2>4, <3>1, <3>2, FaultType
  <2> QED
    BY <1>4, <2>5 DEF PassStart
<1> QED
  BY <1>1, <1>2, <1>3, <1>4 DEF Pass

LEMMA DispositionNames ==
    /\ "filtered" \in Dispositions /\ "failed" \in Dispositions /\ "observed" \in Dispositions
    /\ "ignored" \in Dispositions /\ "accepted" \in Dispositions /\ "followup" \in Dispositions
    /\ "stopped" \in Dispositions
BY DEF Dispositions

\* Where a step of an evaluation of a thread leads, besides its end: only the
\* record of this thread changes.
LEMMA MovedType ==
    ASSUME TypeOK, NEW th \in Threads, NEW q \in Evaluations,
           router' = [router EXCEPT ![th] = q]
    PROVE  router' \in [Threads -> Evaluations]
BY DEF TypeOK

LEMMA RouteType ==
    ASSUME TypeOK, NEW th \in Threads, NEW t \in Tickets, NEW pc \in {"attach", "stop"},
           router' = [router EXCEPT ![th].pc = pc, ![th].target = t]
    PROVE  router' \in [Threads -> Evaluations]
<1>1. router[th] \in Evaluations
  BY DEF TypeOK
<1>2. [router[th] EXCEPT !.pc = pc, !.target = t] \in Evaluations
  BY <1>1 DEF Evaluations
<1>3. router' = [router EXCEPT ![th] = [router[th] EXCEPT !.pc = pc, !.target = t]]
  BY DEF TypeOK
<1> QED
  BY <1>2, <1>3, MovedType

\* The router's evaluations.
LEMMA TypeEvaluate ==
    ASSUME TypeOK, RouterInv, AcceptInv, NEW th \in Threads, Evaluate(th)
    PROVE  TypeOK'
<1> DEFINE e == router[th].event
<1> USE DEF store, memory, world, history, bounds
<1>0. router[th] \in Evaluations /\ router \in [Threads -> Evaluations]
  BY DEF TypeOK
<1>1. CASE EvalLoad(th)
  <2>1. ThreadTickets(th) \in SUBSET Tickets /\ LatestLive(ThreadTickets(th)) \in Tickets \cup {NoTicket}
    BY LatestLiveType DEF ThreadTickets
  <2>2. agent \in Modes
    BY DEF TypeOK
  <2>3. [router[th] EXCEPT !.pc = "route", !.mode = agent, !.known = ThreadTickets(th),
                           !.live = LatestLive(ThreadTickets(th))] \in Evaluations
    BY <1>0, <2>1, <2>2 DEF Evaluations
  <2>4. ASSUME router' = [router EXCEPT ![th].pc = "route", ![th].mode = agent,
                             ![th].known = ThreadTickets(th),
                             ![th].live = LatestLive(ThreadTickets(th))]
        PROVE  router' \in [Threads -> Evaluations]
    <3>1. router' = [router EXCEPT ![th] =
             [router[th] EXCEPT !.pc = "route", !.mode = agent, !.known = ThreadTickets(th),
                                !.live = LatestLive(ThreadTickets(th))]]
      BY <1>0, <2>4
    <3> QED
      BY <2>3, <3>1, MovedType
  <2>5. router' \in [Threads -> Evaluations] /\ pass' \in Passes /\ faults' \in 0..MaxFaults
    BY <1>1, <2>4, EvalType, FaultType, DispositionNames DEF EvalLoad, TypeOK
  <2> QED
    BY <1>1, <2>5 DEF EvalLoad, TypeOK
<1>2. CASE EvalRoute(th)
  <2>1. e \in Events
    BY <1>2 DEF EvalRoute, RouterInv
  <2>2. waits' \in SUBSET (Events \cup Tickets)
    BY Zenon, <1>2, <2>1 DEF EvalRoute, RouterFailed, TypeOK
  <2>3. attempts' \in [Events -> 0..MaxRouterAttempts - 1]
    <3>1. attempts \in [Events -> 0..MaxRouterAttempts - 1] /\ attempts[e] \in 0..MaxRouterAttempts - 1
      BY <2>1 DEF TypeOK
    <3>2. \/ attempts' = [attempts EXCEPT ![e] = attempts[e] + 1] /\ attempts[e] + 1 < MaxRouterAttempts
          \/ attempts' = [attempts EXCEPT ![e] = 0]
      BY <1>2, <2>1, <3>1 DEF EvalRoute, RouterFailed
    <3> HIDE DEF e
    <3>3. 0 \in 0..MaxRouterAttempts - 1
      OBVIOUS
    <3>4. attempts[e] + 1 < MaxRouterAttempts => attempts[e] + 1 \in 0..MaxRouterAttempts - 1
      BY <3>1
    <3> QED
      BY <3>1, <3>2, <3>3, <3>4
  <2>4. router' \in [Threads -> Evaluations] /\ pass' \in Passes
    <3>1. ASSUME To(th, "accept") PROVE router' \in [Threads -> Evaluations]
      <4>1. [router[th] EXCEPT !.pc = "accept"] \in Evaluations
        BY <1>0 DEF Evaluations
      <4>2. router' = [router EXCEPT ![th] = [router[th] EXCEPT !.pc = "accept"]]
        BY <1>0, <3>1 DEF To
      <4> QED
        BY <4>1, <4>2, MovedType
    <3>2. router[th].known \in SUBSET Tickets /\ router[th].live \in Tickets \cup {NoTicket}
      BY <1>0 DEF Evaluations
    <3>3. Decide(th) => router' \in [Threads -> Evaluations]
      BY <3>1, <3>2, EvalType, RouteType, DispositionNames DEF Decide
    <3>4. RouterFailed(th) => router' \in [Threads -> Evaluations] /\ pass' \in Passes
      BY <3>2, EvalType, RouteType, DispositionNames DEF RouterFailed, TypeOK
    <3> QED
      BY <1>2, <3>3, <3>4 DEF EvalRoute, TypeOK
  <2> QED
    BY <1>2, <2>2, <2>3, <2>4 DEF EvalRoute, TypeOK
<1>3. CASE EvalAccept(th)
  <2> DEFINE t == CHOOSE u \in FreeTickets : \A v \in FreeTickets : u <= v
             row == [status |-> "queued", trigger |-> e, inputs |-> <<e>>, attempts |-> 0]
  <2>1. e \in Events
    BY <1>3 DEF EvalAccept, RouterInv
  <2>2. row \in TicketRows
    <3>1. <<e>> \in Seq(Inputs) /\ "queued" \in Statuses
      BY <2>1 DEF Inputs, Statuses
    <3> QED
      BY <2>1, <3>1 DEF TicketRows
  <2> HIDE DEF t
  <2>3. \/ Fault /\ ToFinish(th, "failed") /\ UNCHANGED <<ticket, attached>>
        \/ /\ NoFault /\ ToFinish(th, "accepted")
           /\ ticket' = [ticket EXCEPT ![t] = row]
           /\ attached' = [attached EXCEPT ![t] = {e}]
    BY <1>3 DEF EvalAccept, t
  <2> HIDE DEF row, e
  <2>4. ticket' \in [Tickets -> TicketRows] /\ attached' \in [Tickets -> SUBSET Events]
    <3>1. ticket \in [Tickets -> TicketRows] /\ attached \in [Tickets -> SUBSET Events]
      BY DEF TypeOK
    <3>2. {e} \in SUBSET Events
      BY <2>1
    <3> QED
      BY <2>2, <2>3, <3>1, <3>2, UpdateType
  <2>5. router' \in [Threads -> Evaluations] /\ faults' \in 0..MaxFaults
    BY <2>3, EvalType, FaultType, DispositionNames
  <2> QED
    BY <1>3, <2>4, <2>5 DEF EvalAccept, TypeOK
<1>4. CASE EvalAttach(th)
  <2> DEFINE t == router[th].target
  <2>1. e \in Events /\ t \in Tickets
    BY Zenon, <1>4 DEF EvalAttach, RouterInv
  <2>2. ASSUME NEW s \in Statuses, NEW n \in Nat
        PROVE  [ticket[t] EXCEPT !.inputs = Append(ticket[t].inputs, e), !.status = s, !.attempts = n] \in TicketRows
    <3>1. ticket[t] \in TicketRows
      BY <2>1 DEF TypeOK
    <3>2. ticket[t].inputs \in Seq(Inputs) /\ e \in Inputs
      BY <2>1, <3>1 DEF TicketRows, Inputs
    <3>3. Append(ticket[t].inputs, e) \in Seq(Inputs)
      BY <3>2
    <3> QED
      BY <3>1, <3>3 DEF TicketRows
  <2>3. ASSUME ticket' = [ticket EXCEPT ![t].inputs = Append(@, e),
                ![t].status = IF @ = "running" THEN @ ELSE "queued",
                ![t].attempts = IF ticket[t].status = "running" THEN @ ELSE 0]
        PROVE  ticket' \in [Tickets -> TicketRows]
    <3>1. ticket[t] \in TicketRows /\ ticket \in [Tickets -> TicketRows]
      BY <2>1 DEF TypeOK
    <3> DEFINE s == IF ticket[t].status = "running" THEN ticket[t].status ELSE "queued"
               n == IF ticket[t].status = "running" THEN ticket[t].attempts ELSE 0
    <3>2. s \in Statuses /\ n \in Nat
      BY Zenon, <3>1 DEF TicketRows, Statuses
    <3>3. ticket' = [ticket EXCEPT ![t] =
             [ticket[t] EXCEPT !.inputs = Append(ticket[t].inputs, e), !.status = s, !.attempts = n]]
      BY Zenon, <2>1, <2>3, <3>1 DEF TicketRows
    <3> HIDE DEF s, n, t, e
    <3> QED
      BY <2>1, <2>2, <3>1, <3>2, <3>3
  <2>4. ticket' \in [Tickets -> TicketRows] /\ attached' \in [Tickets -> SUBSET Events]
    <3>1. ticket' \in [Tickets -> TicketRows]
      BY Zenon, <1>4, <2>3 DEF EvalAttach, TypeOK
    <3>2. attached' = attached \/ attached' = [attached EXCEPT ![t] = attached[t] \cup {e}]
      BY Zenon, <1>4 DEF EvalAttach
    <3> HIDE DEF t, e
    <3>3. attached \in [Tickets -> SUBSET Events]
      BY DEF TypeOK
    <3>4. attached[t] \cup {e} \in SUBSET Events
      BY Zenon, <2>1, <3>3
    <3> QED
      BY <3>1, <3>2, <3>3, <3>4, UpdateType
  <2>5. router' \in [Threads -> Evaluations] /\ faults' \in 0..MaxFaults
    BY <1>4, EvalType, FaultType, DispositionNames DEF EvalAttach
  <2> QED
    BY <1>4, <2>4, <2>5 DEF EvalAttach, TypeOK
<1>5. CASE EvalStop(th)
  <2>1. router[th].target \in Tickets
    BY <1>5 DEF EvalStop, RouterInv
  <2>2. ticket' \in [Tickets -> TicketRows] /\ stopping' \in SUBSET Tickets
    BY <1>5, <2>1, StopRowType DEF EvalStop, TypeOK
  <2>3. router' \in [Threads -> Evaluations] /\ faults' \in 0..MaxFaults
    BY <1>5, EvalType, FaultType, DispositionNames DEF EvalStop
  <2> QED
    BY <1>5, <2>2, <2>3 DEF EvalStop, TypeOK
<1>6. CASE EvalFinish(th)
  <2>1. router[th].verdict \in Dispositions
    BY <1>0 DEF Evaluations
  <2>2. trigger' \in [Events -> Dispositions]
    BY <1>6, <2>1 DEF EvalFinish, TypeOK
  <2>3. router' \in [Threads -> Evaluations] /\ pass' \in Passes /\ faults' \in 0..MaxFaults
    BY <1>6, EvalType, FaultType DEF EvalFinish
  <2> QED
    BY <1>6, <2>2, <2>3 DEF EvalFinish, TypeOK
<1> QED
  BY <1>1, <1>2, <1>3, <1>4, <1>5, <1>6 DEF Evaluate

\* The turns.
LEMMA TypeTurn ==
    ASSUME TypeOK, TurnInv, NEW t \in Tickets, RunTicket(t)
    PROVE  TypeOK'
<1> USE DEF store, memory, world, history, bounds
<1>0. ticket[t] \in TicketRows /\ turn[t] \in Turns
      /\ ticket \in [Tickets -> TicketRows] /\ turn \in [Tickets -> Turns]
  BY DEF TypeOK
<1>1. CASE TurnBegin(t)
  <2>1. ASSUME ticket' = [ticket EXCEPT ![t].status = "running", ![t].attempts = @ + 1]
        PROVE  ticket' \in [Tickets -> TicketRows]
    <3>1. ticket[t].attempts + 1 \in Nat /\ "running" \in Statuses
      BY <1>0 DEF TicketRows, Statuses
    <3>2. [ticket[t] EXCEPT !.status = "running", !.attempts = ticket[t].attempts + 1] \in TicketRows
      BY <1>0, <3>1 DEF TicketRows
    <3>3. ticket' = [ticket EXCEPT ![t] =
             [ticket[t] EXCEPT !.status = "running", !.attempts = ticket[t].attempts + 1]]
      BY <1>0, <2>1 DEF TicketRows
    <3> QED
      BY <1>0, <3>2, <3>3, UpdateType
  <2>2. ASSUME turn' = [turn EXCEPT ![t].pc = "work", ![t].delivered = Len(ticket[t].inputs)]
        PROVE  turn' \in [Tickets -> Turns]
    <3>1. Len(ticket[t].inputs) \in Nat
      BY <1>0 DEF TicketRows
    <3>2. [turn[t] EXCEPT !.pc = "work", !.delivered = Len(ticket[t].inputs)] \in Turns
      BY <1>0, <3>1 DEF Turns
    <3>3. turn' = [turn EXCEPT ![t] =
             [turn[t] EXCEPT !.pc = "work", !.delivered = Len(ticket[t].inputs)]]
      BY <1>0, <2>2 DEF Turns
    <3> QED
      BY <1>0, <3>2, <3>3, UpdateType
  <2>3. /\ ticket' \in [Tickets -> TicketRows] /\ turn' \in [Tickets -> Turns]
        /\ stopping' \in SUBSET Tickets /\ faults' \in 0..MaxFaults
    BY <1>1, <2>1, <2>2, TurnEndType, FaultType DEF TurnBegin, TypeOK
  <2> QED
    BY <1>1, <2>3 DEF TurnBegin, TypeOK
<1>2. CASE WorkReturns(t)
  <2>1. ASSUME NEW result \in {"ok", "retry", "fatal"},
               turn' = [turn EXCEPT ![t].pc = "finish", ![t].result = result]
        PROVE  turn' \in [Tickets -> Turns]
    <3>1. [turn[t] EXCEPT !.pc = "finish", !.result = result] \in Turns
      BY <1>0 DEF Turns
    <3>2. turn' = [turn EXCEPT ![t] = [turn[t] EXCEPT !.pc = "finish", !.result = result]]
      BY <1>0, <2>1 DEF Turns
    <3> QED
      BY <1>0, <3>1, <3>2, UpdateType
  <2>2. turn' \in [Tickets -> Turns] /\ stopping' \in SUBSET Tickets
    BY <1>2, <2>1, TurnEndType DEF WorkReturns, TypeOK
  <2> QED
    BY <1>2, <2>2 DEF WorkReturns, TypeOK
<1>3. CASE TurnFinish(t)
  <2>1. turn' \in [Tickets -> Turns] /\ stopping' \in SUBSET Tickets /\ faults' \in 0..MaxFaults
    BY <1>3, TurnEndType, FaultType DEF TurnFinish
  <2>2. ticket' \in [Tickets -> TicketRows]
    <3>1. ticket' = ticket \/ ticket' = [ticket EXCEPT ![t] = Settled(t)]
      BY <1>3 DEF TurnFinish
    <3> QED
      BY <1>0, <3>1, SettledType, UpdateType
  <2>3. waits' \in SUBSET (Events \cup Tickets)
    BY <1>3 DEF TurnFinish, TypeOK
  <2>4. worked' \in [Tickets -> SUBSET Events]
    <3>1. ASSUME ticket[t].status = "running" PROVE Delivered(t) \in SUBSET Events
      <4>1. ticket[t].inputs \in Seq(Inputs) /\ turn[t].delivered \in Nat
        BY <1>0 DEF TicketRows, Turns
      <4>2. turn[t].delivered <= Len(ticket[t].inputs)
        BY <1>3, <3>1 DEF TurnFinish, TurnInv
      <4>3. \A i \in 1..turn[t].delivered : ticket[t].inputs[i] \in Inputs
        BY <4>1, <4>2
      <4> QED
        BY <4>3 DEF Delivered, Inputs
    <3>2. worked \in [Tickets -> SUBSET Events]
      BY DEF TypeOK
    <3>3. \/ worked' = worked
          \/ /\ ticket[t].status = "running"
             /\ worked' = [worked EXCEPT ![t] = worked[t] \cup Delivered(t)]
      BY <1>3 DEF TurnFinish
    <3>4. ticket[t].status = "running" => worked[t] \cup Delivered(t) \in SUBSET Events
      BY <3>1, <3>2
    <3> QED
      BY <3>2, <3>3, <3>4, UpdateType
  <2> QED
    BY <1>3, <2>1, <2>2, <2>3, <2>4 DEF TurnFinish, TypeOK
<1> QED
  BY <1>1, <1>2, <1>3 DEF RunTicket

\* The Console, the delays, and the daemon's stop and start.
LEMMA TypeConsole ==
    ASSUME TypeOK,
           \/ \E t \in Tickets : StopTicket(t) \/ RetryTicket(t) \/ Recover(t)
           \/ \E x \in Events \cup Tickets : WaitOver(x)
           \/ Save \/ RefreshClaims \/ Crash \/ Started
    PROVE  TypeOK'
<1> USE DEF store, memory, world, history, bounds
<1>0. Command => commands' \in 0..MaxCommands
  BY DEF Command, TypeOK
<1>1. ASSUME NEW t \in Tickets, StopTicket(t) PROVE TypeOK'
  <2>1. ticket' \in [Tickets -> TicketRows] /\ stopping' \in SUBSET Tickets
    BY <1>1, StopRowType DEF StopTicket
  <2> QED
    BY <1>0, <1>1, <2>1 DEF StopTicket, TypeOK
<1>2. ASSUME NEW t \in Tickets, RetryTicket(t) \/ Recover(t) PROVE TypeOK'
  <2>0. ticket[t] \in TicketRows /\ ticket \in [Tickets -> TicketRows] /\ "queued" \in Statuses
    BY DEF TypeOK, Statuses
  <2>1. CASE RetryTicket(t)
    <3>1. [ticket[t] EXCEPT !.status = "queued", !.attempts = 0] \in TicketRows
      BY <2>0 DEF TicketRows
    <3>2. ticket' = [ticket EXCEPT ![t] = [ticket[t] EXCEPT !.status = "queued", !.attempts = 0]]
      BY <2>0, <2>1 DEF RetryTicket
    <3>3. ticket' \in [Tickets -> TicketRows]
      BY <2>0, <3>1, <3>2, UpdateType
    <3> QED
      BY <1>0, <2>1, <3>3 DEF RetryTicket, TypeOK
  <2>2. CASE Recover(t)
    <3>1. <<Note>> \o ticket[t].inputs \in Seq(Inputs)
      <4>1. ticket[t].inputs \in Seq(Inputs) /\ <<Note>> \in Seq(Inputs)
        BY <2>0 DEF TicketRows, Inputs
      <4> QED
        BY <4>1
    <3>2. [ticket[t] EXCEPT !.status = "queued", !.inputs = <<Note>> \o ticket[t].inputs] \in TicketRows
      BY <2>0, <3>1 DEF TicketRows
    <3>3. ticket' = [ticket EXCEPT ![t] =
             [ticket[t] EXCEPT !.status = "queued", !.inputs = <<Note>> \o ticket[t].inputs]]
      BY <2>0, <2>2 DEF Recover, TicketRows
    <3>4. ticket' \in [Tickets -> TicketRows]
      BY <2>0, <3>2, <3>3, UpdateType
    <3> QED
      BY <2>2, <3>4 DEF Recover, TypeOK
  <2> QED
    BY <1>2, <2>1, <2>2
<1>3. ASSUME NEW x \in Events \cup Tickets, WaitOver(x) PROVE TypeOK'
  BY <1>3 DEF WaitOver, TypeOK
<1>4. CASE Save
  BY <1>0, <1>4 DEF Save, TypeOK, Modes
<1>5. CASE RefreshClaims
  BY <1>5 DEF RefreshClaims, TypeOK
<1>6. CASE Crash
  <2>1. crashes' \in 0..MaxCrashes
    BY <1>6 DEF Crash, TypeOK
  <2>2. attempts' \in [Events -> 0..MaxRouterAttempts - 1]
    BY <1>6 DEF Crash
  <2>3. /\ poll' \in Polls /\ pass' \in Passes /\ router' \in [Threads -> Evaluations]
        /\ turn' \in [Tickets -> Turns] /\ stopping' = {} /\ waits' = {} /\ up' = FALSE
    BY <1>6, IdleTypes DEF Crash
  <2> QED
    BY <1>6, <2>1, <2>2, <2>3 DEF Crash, TypeOK
<1>7. CASE Started
  BY <1>7 DEF Started, TypeOK
<1> QED
  BY <1>1, <1>2, <1>3, <1>4, <1>5, <1>6, <1>7

-----------------------------------------------------------------------------
(* What a step does to the rows of the tickets.                            *)

LEMMA RowStep ==
    ASSUME TypeOK, RouterInv, AcceptInv, Next, NEW t \in Tickets
    PROVE  \/ ticket'[t] = ticket[t] /\ attached'[t] = attached[t]
           \/ \E th \in Threads : RowAccepted(t, th) \/ RowAttached(t, th)
           \/ attached'[t] = attached[t]
              /\ (RowStopped(t) \/ RowBegun(t) \/ RowSettled(t) \/ RowQueued(t))
<1> DEFINE Goal ==
           \/ ticket'[t] = ticket[t] /\ attached'[t] = attached[t]
           \/ \E th \in Threads : RowAccepted(t, th) \/ RowAttached(t, th)
           \/ attached'[t] = attached[t]
              /\ (RowStopped(t) \/ RowBegun(t) \/ RowSettled(t) \/ RowQueued(t))
<1> USE DEF store, memory, world, history, bounds
<1>0. /\ ticket \in [Tickets -> TicketRows] /\ attached \in [Tickets -> SUBSET Events]
      /\ turn \in [Tickets -> Turns] /\ ticket[t] \in TicketRows /\ turn[t] \in Turns
  BY DEF TypeOK
<1>1. ASSUME UNCHANGED <<ticket, attached>> PROVE Goal
  BY <1>1
<1>2. ASSUME NEW th \in Threads, EvalAccept(th) PROVE Goal
  <2> DEFINE f == CHOOSE u \in FreeTickets : \A v \in FreeTickets : u <= v
             row == [status |-> "queued", trigger |-> router[th].event,
                     inputs |-> <<router[th].event>>, attempts |-> 0]
  <2>1. CASE Fault /\ UNCHANGED <<ticket, attached>>
    BY <1>1, <2>1
  <2>2. CASE /\ NoFault
             /\ ticket' = [ticket EXCEPT ![f] = row]
             /\ attached' = [attached EXCEPT ![f] = {router[th].event}]
    <3>1. FreeTickets # {}
      BY <1>2, AcceptingLeft DEF EvalAccept
    <3>2. f \in FreeTickets
      BY <3>1, FirstFree
    <3> HIDE DEF f, row
    <3>3. f \in Tickets /\ ticket[f].status = "none"
      BY <3>2 DEF FreeTickets
    <3>4. CASE t = f
      <4>1. ticket'[t] = row /\ attached'[t] = {router[th].event}
        BY <1>0, <2>2, <3>4
      <4>2. RowAccepted(t, th)
        BY <1>2, <2>2, <3>3, <3>4, <4>1 DEF RowAccepted, row
      <4> QED
        BY <4>2
    <3>5. CASE t # f
      BY Zenon, <1>0, <2>2, <3>5
    <3> QED
      BY <3>4, <3>5
  <2> QED
    BY <1>2, <2>1, <2>2 DEF EvalAccept
<1>3. ASSUME NEW th \in Threads, EvalAttach(th) PROVE Goal
  <2> DEFINE f == router[th].target
             e == router[th].event
  <2>1. f \in Tickets /\ ticket[f].status # "none" /\ ticket[f] \in TicketRows
    <3>1. router[th].pc = "attach"
      BY Zenon, <1>3 DEF EvalAttach
    <3>2. f \in Tickets /\ ticket[f].status # "none"
      BY <3>1 DEF RouterInv
    <3> QED
      BY Zenon, <1>0, <3>2
  <2>2. CASE UNCHANGED <<ticket, attached>>
    BY <1>1, <2>2
  <2>3. CASE /\ ticket[f].status # "stopped"
             /\ ticket' = [ticket EXCEPT ![f].inputs = Append(@, e),
                   ![f].status = IF @ = "running" THEN @ ELSE "queued",
                   ![f].attempts = IF ticket[f].status = "running" THEN @ ELSE 0]
             /\ attached' = [attached EXCEPT ![f] = @ \cup {e}]
    <3>1. CASE t = f
      <4>1. /\ ticket'[t].inputs = Append(ticket[t].inputs, e)
            /\ ticket'[t].status = IF ticket[t].status = "running" THEN "running" ELSE "queued"
            /\ ticket'[t].trigger = ticket[t].trigger
            /\ attached'[t] = attached[t] \cup {e}
        BY ZenonT(40), <1>0, <2>1, <2>3, <3>1 DEF TicketRows
      <4>2. RowAttached(t, th)
        BY ZenonT(40), <1>3, <2>1, <2>3, <3>1, <4>1 DEF RowAttached
      <4> QED
        BY <4>2
    <3>2. CASE t # f
      BY <1>0, <2>1, <2>3, <3>2
    <3> QED
      BY <3>1, <3>2
  <2> QED
    BY Zenon, <1>3, <2>2, <2>3 DEF EvalAttach
<1>4. ASSUME NEW f \in Tickets, ticket[f].status \notin {"none", "stopped"}, StopRow(f),
             UNCHANGED <<attached, turn>>
      PROVE  Goal
  <2>1. t = f => ticket'[t].status = "stopped" /\ ticket'[t].trigger = ticket[t].trigger
    BY <1>0, <1>4 DEF StopRow, TicketRows
  <2>2. t # f => ticket'[t] = ticket[t]
    BY <1>0, <1>4 DEF StopRow
  <2> QED
    BY <1>4, <2>1, <2>2 DEF RowStopped
<1>5. ASSUME NEW th \in Threads, EvalStop(th) PROVE Goal
  <2>1. router[th].target \in Tickets /\ ticket[router[th].target].status # "none"
    BY <1>5 DEF EvalStop, RouterInv
  <2> QED
    BY <1>1, <1>4, <1>5, <2>1 DEF EvalStop
<1>6. ASSUME NEW f \in Tickets, StopTicket(f) PROVE Goal
  BY <1>4, <1>6 DEF StopTicket
<1>7. ASSUME NEW f \in Tickets, TurnBegin(f) PROVE Goal
  <2>1. CASE UNCHANGED ticket
    BY <1>1, <1>7, <2>1 DEF TurnBegin
  <2>2. CASE /\ ticket[f].status = "queued"
             /\ ticket' = [ticket EXCEPT ![f].status = "running", ![f].attempts = @ + 1]
             /\ turn' = [turn EXCEPT ![f].pc = "work", ![f].delivered = Len(ticket[f].inputs)]
    <3>0. UNCHANGED attached
      BY <1>7 DEF TurnBegin
    <3>1. CASE t = f
      <4>1. /\ ticket'[t].status = "running" /\ ticket'[t].inputs = ticket[t].inputs
            /\ ticket'[t].trigger = ticket[t].trigger
        BY <1>0, <2>2, <3>1 DEF TicketRows
      <4>2. turn'[t].delivered = Len(ticket[t].inputs)
        BY <1>0, <2>2, <3>1 DEF Turns
      <4> QED
        BY <1>7, <2>2, <3>0, <3>1, <4>1, <4>2 DEF RowBegun
    <3>2. CASE t # f
      BY <1>0, <2>2, <3>0, <3>2
    <3> QED
      BY <3>1, <3>2
  <2> QED
    BY <1>7, <2>1, <2>2 DEF TurnBegin
<1>8. ASSUME NEW f \in Tickets, TurnFinish(f) PROVE Goal
  <2>0. UNCHANGED attached /\ turn' = [turn EXCEPT ![f] = IdleTurn]
    BY <1>8 DEF TurnFinish, TurnEnd
  <2>1. CASE UNCHANGED ticket
    BY <1>1, <2>0, <2>1
  <2>2. CASE ticket[f].status = "running" /\ ticket' = [ticket EXCEPT ![f] = Settled(f)]
    <3>1. t = f => ticket'[t] = Settled(t)
      BY <1>0, <2>2
    <3>2. t # f => ticket'[t] = ticket[t]
      BY <1>0, <2>2
    <3>3. t = f => turn'[t].pc = "idle"
      BY <1>0, <2>0 DEF IdleTurn
    <3> QED
      BY <1>8, <2>0, <2>2, <3>1, <3>2, <3>3 DEF RowSettled
  <2> QED
    BY <1>8, <2>1, <2>2 DEF TurnFinish
<1>9. ASSUME NEW f \in Tickets, RetryTicket(f) PROVE Goal
  <2>1. t = f => /\ ticket'[t].status = "queued" /\ ticket'[t].inputs = ticket[t].inputs
                 /\ ticket'[t].trigger = ticket[t].trigger /\ ticket[t].status = "failed"
    BY <1>0, <1>9 DEF RetryTicket, TicketRows
  <2>2. t # f => ticket'[t] = ticket[t]
    BY <1>0, <1>9 DEF RetryTicket
  <2>3. UNCHANGED <<attached, turn>>
    BY <1>9 DEF RetryTicket
  <2> QED
    BY <2>1, <2>2, <2>3 DEF RowQueued
<1>10. ASSUME NEW f \in Tickets, Recover(f) PROVE Goal
  <2>1. t = f => /\ ticket'[t].status = "queued" /\ ticket'[t].inputs = <<Note>> \o ticket[t].inputs
                 /\ ticket'[t].trigger = ticket[t].trigger /\ ticket[t].status = "running" /\ ~up
    BY Zenon, <1>0, <1>10 DEF Recover, TicketRows
  <2>2. t # f => ticket'[t] = ticket[t]
    BY <1>0, <1>10 DEF Recover
  <2>3. UNCHANGED <<attached, turn>>
    BY <1>10 DEF Recover
  <2> QED
    BY <2>1, <2>2, <2>3 DEF RowQueued
<1>11. \/ UNCHANGED <<ticket, attached>>
       \/ \E th \in Threads : EvalAccept(th) \/ EvalAttach(th) \/ EvalStop(th)
       \/ \E f \in Tickets : StopTicket(f) \/ TurnBegin(f) \/ TurnFinish(f) \/ RetryTicket(f) \/ Recover(f)
  BY Zenon DEF Next, InterceptMessage, MailArrives, Poll, PollFetch, PollIngest, PollSave, Pass, PassList,
         PassEvaluate, PassQueued, PassStart, Evaluate, EvalLoad, EvalRoute, EvalFinish, RunTicket,
         WorkReturns, WaitOver, Save, RefreshClaims, Crash, Started
<1> HIDE DEF Goal
<1> QED
  <2>1. Goal
    BY <1>1, <1>2, <1>3, <1>5, <1>6, <1>7, <1>8, <1>9, <1>10, <1>11
  <2> QED
    BY <2>1 DEF Goal

\* A ticket that exists goes on existing, and one appears only by an accept.
LEMMA RowKept ==
    ASSUME TypeOK, RouterInv, AcceptInv, Next, NEW t \in Tickets
    PROVE  /\ ticket[t].status # "none" => ticket'[t].status # "none"
           /\ ticket[t].status = "none" =>
                 \/ ticket'[t] = ticket[t]
                 \/ \E th \in Threads : RowAccepted(t, th)
<1>1. \/ ticket'[t] = ticket[t]
      \/ \E th \in Threads : RowAccepted(t, th) \/ RowAttached(t, th)
      \/ RowStopped(t) \/ RowBegun(t) \/ RowSettled(t) \/ RowQueued(t)
  BY RowStep
<1>2. ASSUME RowSettled(t)
      PROVE  ticket[t].status = "running" /\ ticket'[t].status \in {"queued", "ready", "failed"}
  <2>1. ticket[t] \in TicketRows
    BY DEF TypeOK
  <2>2. Settled(t).status \in {"queued", "ready", "failed"}
    BY <2>1 DEF Settled, TicketRows
  <2> QED
    BY <1>2, <2>2 DEF RowSettled
<1>3. ASSUME NEW th \in Threads, RowAccepted(t, th)
      PROVE  ticket[t].status = "none" /\ ticket'[t].status = "queued"
  BY <1>3 DEF RowAccepted
<1>4. ASSUME NEW th \in Threads, RowAttached(t, th)
      PROVE  ticket[t].status # "none" /\ ticket'[t].status # "none"
  BY <1>4 DEF RowAttached
<1>5. ASSUME RowStopped(t) \/ RowBegun(t) \/ RowQueued(t)
      PROVE  ticket[t].status # "none" /\ ticket'[t].status # "none"
  BY <1>5 DEF RowStopped, RowBegun, RowQueued
<1> QED
  BY <1>1, <1>2, <1>3, <1>4, <1>5

-----------------------------------------------------------------------------
(* What a step does to the stored events.                                  *)

LEMMA IngestStep ==
    ASSUME TypeOK, NEW e \in Events, Ingest(e)
    PROVE  \/ UNCHANGED <<trigger, order>>
           \/ /\ trigger[e] = "none" /\ order' = Append(order, e)
              /\ \E d \in {"filtered", "pending"} : trigger' = [trigger EXCEPT ![e] = d]
BY DEF Ingest, InsertSuperAgentTrigger

LEMMA TriggerStep ==
    ASSUME TypeOK, PollInv, Next
    PROVE  \/ UNCHANGED <<trigger, order>>
           \/ \E e \in Events : /\ trigger[e] = "none" /\ order' = Append(order, e)
                                /\ \E d \in {"filtered", "pending"} : trigger' = [trigger EXCEPT ![e] = d]
           \/ /\ UNCHANGED order
              /\ \E th \in Threads : EvalFinish(th) /\ NoFault /\
                     trigger' = [trigger EXCEPT ![router[th].event] = router[th].verdict]
<1> USE DEF store, memory, world, history, bounds
<1>1. ASSUME NEW e \in Chat, InterceptMessage(e) PROVE e \in Events /\ Ingest(e)
  BY <1>1 DEF InterceptMessage, Events
<1>2. ASSUME PollIngest PROVE UNCHANGED <<trigger, order>> \/ \E e \in Events : Ingest(e)
  <2>1. Mail[poll.next] \in Events
    BY <1>2, PollAt DEF PollIngest
  <2> QED
    BY Zenon, <1>2, <2>1 DEF PollIngest
<1>3. ASSUME NEW th \in Threads, EvalFinish(th)
      PROVE  /\ UNCHANGED order
             /\ \/ UNCHANGED trigger
                \/ NoFault /\ trigger' = [trigger EXCEPT ![router[th].event] = router[th].verdict]
  BY <1>3 DEF EvalFinish
<1>4. \/ UNCHANGED <<trigger, order>>
      \/ \E e \in Chat : InterceptMessage(e)
      \/ PollIngest
      \/ \E th \in Threads : EvalFinish(th)
  BY ZenonT(40) DEF Next, MailArrives, Poll, PollFetch, PollSave, Pass, PassList, PassEvaluate, PassQueued,
         PassStart, Evaluate, EvalLoad, EvalRoute, EvalAccept, EvalAttach, EvalStop, RunTicket,
         TurnBegin, TurnFinish, StopTicket, RetryTicket, Recover,
         WorkReturns, WaitOver, Save, RefreshClaims, Crash, Started
<1>5. ASSUME NEW e \in Events, Ingest(e)
      PROVE  \/ UNCHANGED <<trigger, order>>
             \/ /\ trigger[e] = "none" /\ order' = Append(order, e)
                /\ \E d \in {"filtered", "pending"} : trigger' = [trigger EXCEPT ![e] = d]
  BY <1>5, IngestStep
<1> QED
  BY <1>1, <1>2, <1>3, <1>4, <1>5

\* A stored event stays stored, and a pending one is decided by its evaluation
\* only.
LEMMA TriggerKept ==
    ASSUME TypeOK, RouterInv, PollInv, Next, NEW e \in Events
    PROVE  /\ trigger[e] # "none" => trigger'[e] # "none"
           /\ trigger[e] = "pending" =>
                 \/ trigger'[e] = "pending"
                 \/ \E th \in Threads : EvalFinish(th) /\ NoFault /\ router[th].event = e
           /\ trigger[e] \notin {"none", "pending"} => trigger'[e] = trigger[e]
<1>0. trigger \in [Events -> Dispositions]
  BY DEF TypeOK
<1>1. CASE UNCHANGED trigger
  BY <1>1
<1>2. ASSUME NEW x \in Events, trigger[x] = "none", NEW d \in {"filtered", "pending"},
             trigger' = [trigger EXCEPT ![x] = d]
      PROVE  /\ trigger[e] # "none" => trigger'[e] # "none"
             /\ trigger[e] = "pending" => trigger'[e] = "pending"
             /\ trigger[e] \notin {"none", "pending"} => trigger'[e] = trigger[e]
  BY <1>0, <1>2
<1>3. ASSUME NEW th \in Threads, EvalFinish(th), NoFault,
             trigger' = [trigger EXCEPT ![router[th].event] = router[th].verdict]
      PROVE  /\ trigger[e] # "none" => trigger'[e] # "none"
             /\ trigger[e] = "pending" => trigger'[e] = "pending" \/ router[th].event = e
             /\ trigger[e] \notin {"none", "pending"} => trigger'[e] = trigger[e]
  <2>1. router[th].pc = "finish"
    BY <1>3 DEF EvalFinish
  <2>2. router[th].event \in Events /\ router[th].verdict # "none" /\ trigger[router[th].event] = "pending"
    BY <2>1 DEF RouterInv
  <2> QED
    BY <1>0, <1>3, <2>2
<1> QED
  BY <1>1, <1>2, <1>3, TriggerStep

LEMMA OrderStep ==
    ASSUME TypeOK, RouterInv, PollInv, OrderInv, Next
    PROVE  OrderInv'
<1>0. order \in Seq(Events) /\ trigger \in [Events -> Dispositions]
  BY DEF TypeOK
<1>1. \A i \in 1..Len(order) : trigger'[order[i]] # "none"
  <2> SUFFICES ASSUME NEW i \in 1..Len(order) PROVE trigger'[order[i]] # "none"
    OBVIOUS
  <2>1. order[i] \in Events /\ trigger[order[i]] # "none"
    BY <1>0 DEF OrderInv
  <2> QED
    BY <2>1, TriggerKept
<1>2. CASE UNCHANGED order
  BY <1>1, <1>2 DEF OrderInv
<1>3. ASSUME NEW e \in Events, order' = Append(order, e), NEW d \in {"filtered", "pending"},
             trigger' = [trigger EXCEPT ![e] = d]
      PROVE  OrderInv'
  <2>1. trigger'[e] # "none"
    BY <1>0, <1>3
  <2>2. Len(order') = Len(order) + 1 /\ Len(order) \in Nat
        /\ \A i \in 1..Len(order') : order'[i] = IF i <= Len(order) THEN order[i] ELSE e
    BY <1>0, <1>3
  <2> SUFFICES ASSUME NEW i \in 1..Len(order') PROVE trigger'[order'[i]] # "none"
    BY DEF OrderInv
  <2>3. CASE i \in 1..Len(order)
    BY <1>1, <2>2, <2>3
  <2>4. CASE i = Len(order) + 1
    BY <2>1, <2>2, <2>4
  <2> QED
    BY <2>2, <2>3, <2>4
<1> QED
  BY <1>2, <1>3, TriggerStep

-----------------------------------------------------------------------------
(* The daemon that is down, and the poller.                                *)

LEMMA DownStep ==
    ASSUME TypeOK, DownInv, Next
    PROVE  DownInv'
<1> USE DEF store, memory, world, history, bounds
<1>1. CASE up
  <2>1. CASE Crash
    BY <2>1 DEF Crash, DownInv, IdlePoll, IdlePass, IdleRouter, IdleTurn
  <2>2. CASE ~Crash
    <3>1. up' = up
      BY ZenonT(40), <1>1, <2>2 DEF Next, InterceptMessage, MailArrives, Poll, PollFetch, PollIngest, PollSave, Pass, PassList,
         PassEvaluate, PassQueued, PassStart, Evaluate, EvalLoad, EvalRoute, EvalFinish, EvalAccept,
         EvalAttach, EvalStop, RunTicket, TurnBegin, TurnFinish, StopTicket, RetryTicket, Recover,
         WorkReturns, WaitOver, Save, RefreshClaims, Started
    <3> QED
      BY <1>1, <3>1 DEF DownInv
  <2> QED
    BY <2>1, <2>2
<1>2. CASE ~up
  <2>1. UNCHANGED <<poll, pass, router, turn>>
    <3>1. poll.pc = "idle" /\ pass.pc = "idle" /\ (\A th \in Threads : router[th].pc = "idle")
          /\ (\A t \in Tickets : turn[t].pc = "idle")
      BY <1>2 DEF DownInv
    <3>2. \/ MailArrives \/ (\E t \in Tickets : Recover(t)) \/ Started
          \/ \E x \in Events \cup Tickets : WaitOver(x)
      BY ZenonT(40), <1>2, <3>1 DEF Next, InterceptMessage, Poll, PollFetch, PollIngest, PollSave, Pass, PassList,
         PassEvaluate, PassQueued, PassStart, Evaluate, EvalLoad, EvalRoute, EvalFinish, EvalAccept,
         EvalAttach, EvalStop, RunTicket, TurnBegin, TurnFinish, StopTicket, RetryTicket, Command,
         WorkReturns, Save, RefreshClaims, Crash
    <3> QED
      BY <3>2 DEF MailArrives, Recover, Started, WaitOver
  <2> QED
    BY <1>2, <2>1 DEF DownInv
<1> QED
  BY <1>1, <1>2

LEMMA PollStep ==
    ASSUME TypeOK, RouterInv, PollInv, Next
    PROVE  PollInv'
<1> USE DEF store, memory, world, history, bounds
<1>0. /\ poll \in Polls /\ position \in Nat \cup {-1} /\ arrived \in 0..Len(Mail) /\ Len(Mail) \in Nat
      /\ poll.next \in Nat /\ poll.last \in Nat
  BY DEF TypeOK, Polls, NoPosition
<1>1. kind' = kind
  BY Zenon DEF Next, InterceptMessage, MailArrives, Poll, PollFetch, PollIngest, PollSave, Pass, PassList,
         PassEvaluate, PassQueued, PassStart, Evaluate, EvalLoad, EvalRoute, EvalFinish, EvalAccept,
         EvalAttach, EvalStop, RunTicket, TurnBegin, TurnFinish, StopTicket, RetryTicket, Recover,
         WorkReturns, WaitOver, Save, RefreshClaims, Crash, Started
<1>2. CASE UNCHANGED <<poll, position>>
  <2>1. ASSUME poll.pc = "save" PROVE trigger'[Mail[poll.next]] # "none"
    BY <2>1, PollAt, TriggerKept DEF PollInv
  <2> QED
    BY <1>1, <1>2, <2>1 DEF PollInv
<1>3. CASE PollFetch
  <2>1. CASE position = NoPosition
    BY <1>0, <1>1, <1>3, <2>1 DEF PollFetch, PollInv, NoPosition
  <2>2. CASE position # NoPosition
    <3>1. /\ position' = position /\ position < arrived
          /\ poll' = [pc |-> "ingest", next |-> position + 1, last |-> arrived]
      BY <1>3, <2>2 DEF PollFetch
    <3> QED
      BY <1>0, <1>1, <2>2, <3>1 DEF PollInv, NoPosition
  <2> QED
    BY <2>1, <2>2
<1>4. CASE PollIngest
  <2>1. CASE poll' = IdlePoll
    BY <1>1, <1>4, <2>1 DEF PollIngest, PollInv, IdlePoll
  <2>2. CASE Ingest(Mail[poll.next]) /\ poll' = [poll EXCEPT !.pc = "save"]
    <3>1. poll.next \in 1..Len(Mail) /\ Mail[poll.next] \in Events /\ Mail[poll.next] \in MailEvents
      BY <1>4, PollAt, MailIsEvents DEF PollIngest
    <3>2. kind[Mail[poll.next]] # "overheard" /\ trigger \in [Events -> Dispositions]
      BY <3>1 DEF PollInv, TypeOK
    <3>3. trigger'[Mail[poll.next]] # "none"
      BY <2>2, <3>1, <3>2 DEF Ingest, InsertSuperAgentTrigger
    <3>4. poll'.next = poll.next /\ poll'.last = poll.last /\ poll'.pc = "save"
      BY <1>0, <2>2 DEF Polls
    <3>5. UNCHANGED position /\ poll.pc = "ingest"
      BY <1>4 DEF PollIngest
    <3> QED
      BY <1>1, <3>3, <3>4, <3>5 DEF PollInv
  <2> QED
    BY <1>4, <2>1, <2>2 DEF PollIngest
<1>5. CASE PollSave
  <2>0. poll.next \in 1..Len(Mail) /\ poll.next <= poll.last /\ poll.last <= Len(Mail)
    BY <1>5, PollAt DEF PollSave, PollInv
  <2>1. CASE poll' = IdlePoll
    BY <1>1, <1>0, <1>5, <2>0, <2>1 DEF PollSave, PollInv, IdlePoll
  <2>2. CASE /\ position' = poll.next /\ poll.next # poll.last
             /\ poll' = [poll EXCEPT !.pc = "ingest", !.next = @ + 1]
    <3>1. poll'.next = poll.next + 1 /\ poll'.last = poll.last /\ poll'.pc = "ingest"
      BY <1>0, <2>2 DEF Polls
    <3>2. poll.next <= Len(Mail) /\ poll.next # -1 /\ poll.next + 1 <= poll.last
      <4>1. poll.next \in Int /\ poll.last \in Int /\ Len(Mail) \in Int /\ poll.next >= 1
        BY <1>0, <2>0 DEF Polls
      <4> HIDE SuperAgentAssumption
      <4> QED
        BY <2>0, <2>2, <4>1
    <3>3. /\ position' <= Len(Mail) /\ position' # -1 /\ poll'.next = position' + 1
          /\ poll'.next <= poll'.last /\ poll'.last <= Len(Mail) /\ poll'.pc # "save"
      BY <2>0, <2>2, <3>1, <3>2
    <3> QED
      BY <1>1, <3>3 DEF PollInv, NoPosition
  <2> QED
    BY <1>5, <2>1, <2>2 DEF PollSave
<1>6. CASE Crash
  BY Zenon, <1>1, <1>6 DEF Crash, PollInv, IdlePoll
<1>7. UNCHANGED <<poll, position>> \/ PollFetch \/ PollIngest \/ PollSave \/ Crash
  BY ZenonT(40) DEF Next, InterceptMessage, MailArrives, Poll, Pass, PassList,
         PassEvaluate, PassQueued, PassStart, Evaluate, EvalLoad, EvalRoute, EvalFinish, EvalAccept,
         EvalAttach, EvalStop, RunTicket, TurnBegin, TurnFinish, StopTicket, RetryTicket, Recover,
         WorkReturns, WaitOver, Save, RefreshClaims, Started
<1> QED
  BY <1>2, <1>3, <1>4, <1>5, <1>6, <1>7

-----------------------------------------------------------------------------
(* The pass and the evaluations.                                           *)

\* The oldest pending event of a thread stays the oldest until it is decided.
LEMMA FirstKept ==
    ASSUME TypeOK, OrderInv, RouterInv, PollInv, Next, ~(\E th \in Threads : EvalFinish(th)),
           NEW e \in Firsts
    PROVE  e \in Firsts'
<1>0. order \in Seq(Events) /\ trigger \in [Events -> Dispositions] /\ Len(order) \in Nat
  BY DEF TypeOK
<1>1. e \in Events /\ trigger[e] = "pending" /\ \A d \in Pending(Thread[e]) : ~Earlier(d, e)
  BY DEF Firsts
<1>2. CASE UNCHANGED <<trigger, order>>
  <2>1. \A d \in Pending(Thread[e])' : d \in Pending(Thread[e]) /\ (Earlier(d, e)' => Earlier(d, e))
    BY <1>2 DEF Pending, Earlier
  <2> QED
    BY <1>1, <1>2, <2>1 DEF Firsts, Pending
<1>3. ASSUME NEW x \in Events, trigger[x] = "none", order' = Append(order, x),
             NEW s \in {"filtered", "pending"}, trigger' = [trigger EXCEPT ![x] = s]
      PROVE  e \in Firsts'
  <2>1. trigger'[e] = "pending" /\ x # e
    BY <1>0, <1>1, <1>3
  <2>2. Len(order') = Len(order) + 1
        /\ \A i \in 1..Len(order') : order'[i] = IF i <= Len(order) THEN order[i] ELSE x
    BY <1>0, <1>3
  <2>3. \A i \in 1..Len(order) : order[i] # x
    BY <1>3 DEF OrderInv
  <2> SUFFICES ASSUME NEW d \in Events, trigger'[d] = "pending", Thread[d] = Thread[e], Earlier(d, e)'
               PROVE  FALSE
    BY <1>1, <2>1 DEF Firsts, Pending
  <2>4. PICK i, j \in 1..Len(order') : order'[i] = d /\ order'[j] = e /\ i < j
    BY DEF Earlier
  <2>5. j \in 1..Len(order) /\ i \in 1..Len(order)
    BY <1>0, <2>1, <2>2, <2>4
  <2>6. order[i] = d /\ order[j] = e /\ d # x
    BY <1>0, <2>2, <2>3, <2>4, <2>5
  <2>7. trigger[d] = "pending" /\ Earlier(d, e)
    BY <1>0, <1>3, <2>4, <2>5, <2>6 DEF Earlier
  <2> QED
    BY <1>1, <2>7 DEF Pending
<1> QED
  BY <1>2, <1>3, TriggerStep

LEMMA PassStep ==
    ASSUME TypeOK, OrderInv, RouterInv, PollInv, PassInv, Next
    PROVE  PassInv'
<1> USE DEF store, memory, world, history, bounds
<1>0. pass \in Passes
  BY DEF TypeOK
<1>1. ASSUME NEW th \in Threads, EvalEnd(th) PROVE PassInv'
  BY <1>0, <1>1 DEF EvalEnd, PassInv, Passes
<1>2. CASE \E th \in Threads : EvalFinish(th)
  BY <1>1, <1>2 DEF EvalFinish
<1>3. CASE ~\E th \in Threads : EvalFinish(th)
  <2>1. Firsts \subseteq Firsts'
    BY <1>3, FirstKept
  <2>2. CASE UNCHANGED pass
    BY <2>1, <2>2 DEF PassInv
  <2>3. CASE PassList
    <3>1. pass'.events = Firsts
      BY <2>3 DEF PassList, IdlePass
    <3> QED
      BY <2>1, <3>1 DEF PassInv
  <2>4. ASSUME NEW e \in Events, PassEvaluate(e) PROVE PassInv'
    <3>1. pass'.events \subseteq pass.events /\ pass'.pc = pass.pc /\ pass'.stale = pass.stale
      BY <1>0, <2>4 DEF PassEvaluate, Passes
    <3> QED
      BY <2>1, <3>1 DEF PassInv
  <2>5. CASE PassQueued
    BY <2>5 DEF PassQueued, PassInv, IdlePass
  <2>6. CASE PassStart
    <3>1. pass.pc = "start" /\ pass \in Passes
      BY <1>0, <2>6 DEF PassStart
    <3>2. pass' = IdlePass \/ \E T \in SUBSET Tickets : pass' = [pass EXCEPT !.tickets = T]
      <4>1. \A u : pass.tickets \ {u} \in SUBSET Tickets
        BY <3>1 DEF Passes
      <4> QED
        BY Zenon, <2>6, <4>1 DEF PassStart
    <3>3. pass'.pc # "evaluate"
      BY <3>1, <3>2 DEF IdlePass, Passes
    <3> QED
      BY <3>3 DEF PassInv
  <2>7. CASE Crash
    BY <2>7 DEF Crash, PassInv, IdlePass
  <2>8. \/ UNCHANGED pass \/ PassList \/ (\E e \in Events : PassEvaluate(e)) \/ PassQueued \/ PassStart
        \/ Crash \/ \E th \in Threads : EvalEnd(th)
    BY ZenonT(40), <1>3 DEF Next, InterceptMessage, MailArrives, Poll, PollFetch, PollIngest, PollSave, Pass,
         Evaluate, EvalLoad, EvalRoute, RouterFailed, EvalAccept,
         EvalAttach, EvalStop, RunTicket, TurnBegin, TurnFinish, StopTicket, RetryTicket, Recover,
         WorkReturns, WaitOver, Save, RefreshClaims, Started
  <2> QED
    BY <1>1, <2>2, <2>3, <2>4, <2>5, <2>6, <2>7, <2>8
<1> QED
  BY <1>2, <1>3

LEMMA EvalStep ==
    ASSUME TypeOK, Next, NEW th \in Threads
    PROVE  \/ router'[th] = router[th]
           \/ /\ router'[th].pc = "idle"
              /\ router[th].pc # "finish" \/ EvalFinish(th) \/ Crash
           \/ EvalStarted(th) \/ EvalMoved(th)
<1> DEFINE Goal ==
           \/ router'[th] = router[th]
           \/ /\ router'[th].pc = "idle"
              /\ router[th].pc # "finish" \/ EvalFinish(th) \/ Crash
           \/ EvalStarted(th) \/ EvalMoved(th)
<1> USE DEF store, memory, world, history, bounds
<1>0. router \in [Threads -> Evaluations] /\ router[th] \in Evaluations
  BY DEF TypeOK
<1>1. CASE UNCHANGED router
  BY <1>1
<1>2. CASE Crash
  BY <1>2 DEF Crash, IdleRouter
<1>3. ASSUME NEW e \in Events, PassEvaluate(e) PROVE Goal
  <2>1. CASE EvaluationBusy(e)
    BY <1>3, <2>1 DEF PassEvaluate
  <2>2. CASE ~EvaluationBusy(e)
    <3>1. /\ pass.pc = "evaluate" /\ e \in pass.events /\ UNCHANGED store
          /\ router' = [router EXCEPT ![Thread[e]] = [IdleRouter EXCEPT !.pc = "load", !.event = e]]
      BY <1>3, <2>2 DEF PassEvaluate
    <3>2. ~pass.stale /\ Thread[e] \notin Evaluating
      BY <2>2 DEF EvaluationBusy
    <3>3. CASE th # Thread[e]
      BY <1>0, <3>1, <3>3
    <3>4. CASE th = Thread[e]
      <4>1. router[th].pc = "idle"
        BY <3>2, <3>4 DEF Evaluating
      <4>2. router'[th] = [IdleRouter EXCEPT !.pc = "load", !.event = e]
        BY <1>0, <3>1, <3>4
      <4>3. EvalStarted(th)
        BY <3>1, <3>2, <3>4, <4>1, <4>2 DEF EvalStarted
      <4> QED
        BY <4>3
    <3> QED
      BY <3>3, <3>4
  <2> QED
    BY <2>1, <2>2
<1>4. ASSUME NEW u \in Threads, Evaluate(u) PROVE Goal
  <2>0. router[u] \in Evaluations
    BY Zenon, <1>0
  <2>1. CASE th # u
    BY <1>0, <1>4, <2>1 DEF Evaluate, EvalLoad, EvalRoute, EvalAccept, EvalAttach, EvalStop, EvalFinish,
           EvalEnd, ToFinish, To, RouterFailed, Decide
  <2>2. CASE th = u
    <3>1. ASSUME EvalEnd(th) PROVE router'[th].pc = "idle"
      BY <1>0, <3>1 DEF EvalEnd, IdleRouter
    <3>2. ASSUME NEW v, v \notin {"none", "pending"}, ToFinish(th, v), router[th].pc \notin {"idle", "finish"}
          PROVE  EvalMoved(th)
      <4>1. /\ router'[th].pc = "finish" /\ router'[th].verdict = v
            /\ router'[th].known = router[th].known /\ router'[th].live = router[th].live
            /\ router'[th].event = router[th].event
        BY <1>0, <3>2 DEF ToFinish, Evaluations
      <4> QED
        BY <3>2, <4>1 DEF EvalMoved
    <3>3. ASSUME NEW t, NEW pc \in {"attach", "stop"}, router[th].pc = "route",
                 t \in router[th].known \cup ({router[th].live} \ {NoTicket}),
                 router' = [router EXCEPT ![th].pc = pc, ![th].target = t]
          PROVE  EvalMoved(th)
      <4>1. /\ router'[th].pc = pc /\ router'[th].target = t
            /\ router'[th].known = router[th].known /\ router'[th].live = router[th].live
            /\ router'[th].event = router[th].event
        BY <1>0, <3>3 DEF Evaluations
      <4> QED
        BY <3>3, <4>1 DEF EvalMoved
    <3>4. CASE EvalLoad(th)
      <4>1. CASE router' = [router EXCEPT ![th].pc = "route", ![th].mode = agent,
                             ![th].known = ThreadTickets(th),
                             ![th].live = LatestLive(ThreadTickets(th))]
        <5>1. /\ router'[th].pc = "route" /\ router'[th].known = ThreadTickets(th)
              /\ router'[th].live = LatestLive(ThreadTickets(th))
              /\ router'[th].event = router[th].event
          BY <1>0, <4>1 DEF Evaluations
        <5> QED
          BY <3>4, <5>1 DEF EvalMoved, EvalLoad
      <4> QED
        BY <3>1, <3>2, <3>4, <4>1 DEF EvalLoad
    <3>5. CASE EvalRoute(th)
      <4>0. router[th].pc = "route" /\ UNCHANGED ticket
        BY <3>5 DEF EvalRoute
      <4>1. CASE RouterFailed(th)
        <5>1. \/ EvalEnd(th) \/ ToFinish(th, "failed")
              \/ /\ router[th].live # NoTicket
                 /\ router' = [router EXCEPT ![th].pc = "attach", ![th].target = router[th].live]
          BY <4>1 DEF RouterFailed
        <5> QED
          BY <3>1, <3>2, <3>3, <4>0, <5>1
      <4>2. CASE Decide(th)
        <5>1. ASSUME Cardinality(Accepting) < Cardinality(FreeTickets), To(th, "accept") PROVE EvalMoved(th)
          <6>1. /\ router'[th].pc = "accept" /\ router'[th].event = router[th].event
                /\ router'[th].known = router[th].known /\ router'[th].live = router[th].live
                /\ \A w \in Threads \ {th} : router'[w] = router[w]
            BY <1>0, <5>1 DEF To, Evaluations
          <6> QED
            BY <4>0, <5>1, <6>1 DEF EvalMoved
        <5> QED
          BY <3>2, <3>3, <4>0, <4>2, <5>1 DEF Decide
      <4> QED
        BY <3>5, <4>1, <4>2 DEF EvalRoute
    <3>6. CASE EvalAccept(th)
      BY Zenon, <3>2, <3>6 DEF EvalAccept
    <3>7. CASE EvalAttach(th)
      BY <3>2, <3>7 DEF EvalAttach
    <3>8. CASE EvalStop(th)
      BY <3>2, <3>8 DEF EvalStop
    <3>9. CASE EvalFinish(th)
      BY <3>1, <3>9 DEF EvalFinish
    <3> QED
      BY <1>4, <2>2, <3>4, <3>5, <3>6, <3>7, <3>8, <3>9 DEF Evaluate
  <2> QED
    BY <2>1, <2>2
<1>5. \/ UNCHANGED router \/ (\E e \in Events : PassEvaluate(e)) \/ (\E u \in Threads : Evaluate(u)) \/ Crash
  BY DEF Next, InterceptMessage, MailArrives, Poll, PollFetch, PollIngest, PollSave, Pass,
         PassList, PassQueued, PassStart, RunTicket, TurnBegin, TurnFinish, StopTicket, RetryTicket, Recover,
         WorkReturns, WaitOver, Save, RefreshClaims, Started
<1> HIDE DEF Goal
<1> QED
  <2>1. Goal
    BY <1>1, <1>2, <1>3, <1>4, <1>5 DEF Goal
  <2> QED
    BY <2>1 DEF Goal

LEMMA RouterStep ==
    ASSUME TypeOK, OrderInv, RouterInv, AcceptInv, PollInv, PassInv, Next
    PROVE  RouterInv'
<1> USE DEF store
<1> SUFFICES ASSUME NEW th \in Threads, router'[th].pc # "idle"
             PROVE  /\ router'[th].event \in Events
                    /\ Thread[router'[th].event] = th /\ trigger'[router'[th].event] = "pending"
                    /\ router'[th].pc = "finish" => router'[th].verdict \notin {"none", "pending"}
                    /\ \A t \in router'[th].known : ticket'[t].status # "none"
                    /\ router'[th].live # NoTicket => ticket'[router'[th].live].status # "none"
                    /\ router'[th].pc \in {"attach", "stop"} =>
                          router'[th].target \in Tickets /\ ticket'[router'[th].target].status # "none"
  BY DEF RouterInv
<1>0. router[th] \in Evaluations /\ router[th].known \in SUBSET Tickets
      /\ router[th].live \in Tickets \cup {NoTicket} /\ router \in [Threads -> Evaluations]
  BY DEF TypeOK, Evaluations
<1>1. ASSUME router[th].pc # "idle", ~EvalFinish(th) PROVE trigger'[router[th].event] = "pending"
  <2>1. router[th].event \in Events /\ Thread[router[th].event] = th /\ trigger[router[th].event] = "pending"
    BY <1>1 DEF RouterInv
  <2>2. ASSUME NEW u \in Threads, EvalFinish(u), router[u].event = router[th].event PROVE FALSE
    <3>1. router[u].pc = "finish"
      BY <2>2 DEF EvalFinish
    <3>2. Thread[router[u].event] = u
      BY <3>1 DEF RouterInv
    <3> QED
      BY <1>1, <2>1, <2>2, <3>2
  <2> QED
    BY <2>1, <2>2, TriggerKept
<1>2. \A t \in Tickets : ticket[t].status # "none" => ticket'[t].status # "none"
  BY RowKept
<1>3. ASSUME EvalFinish(th) PROVE FALSE
  BY <1>0, <1>3 DEF EvalFinish, EvalEnd, IdleRouter
<1>4. CASE router'[th] = router[th]
  <2>1. /\ router[th].event \in Events
        /\ Thread[router[th].event] = th
        /\ router[th].pc = "finish" => router[th].verdict \notin {"none", "pending"}
        /\ \A t \in router[th].known : ticket[t].status # "none"
        /\ router[th].live # NoTicket => ticket[router[th].live].status # "none"
        /\ router[th].pc \in {"attach", "stop"} =>
              router[th].target \in Tickets /\ ticket[router[th].target].status # "none"
    BY <1>4 DEF RouterInv
  <2>2. trigger'[router[th].event] = "pending"
    BY <1>1, <1>3, <1>4
  <2> QED
    BY <1>0, <1>2, <1>4, <2>1, <2>2
<1>5. CASE EvalStarted(th)
  <2>1. PICK e \in pass.events :
           Thread[e] = th /\ router'[th] = [IdleRouter EXCEPT !.pc = "load", !.event = e]
    BY <1>5 DEF EvalStarted
  <2>2. e \in Events /\ trigger[e] = "pending" /\ trigger' = trigger
    BY <1>5 DEF EvalStarted, PassInv, Firsts
  <2>3. router'[th].event = e /\ router'[th].pc = "load" /\ router'[th].known = {}
        /\ router'[th].live = NoTicket
    BY <2>1 DEF IdleRouter
  <2> QED
    BY <2>1, <2>2, <2>3
<1>6. CASE EvalMoved(th)
  <2>1. /\ router[th].event \in Events
        /\ Thread[router[th].event] = th
        /\ \A t \in router[th].known : ticket[t].status # "none"
        /\ router[th].live # NoTicket => ticket[router[th].live].status # "none"
    BY <1>6 DEF RouterInv, EvalMoved
  <2>2. trigger'[router[th].event] = "pending" /\ router'[th].event = router[th].event
    BY <1>1, <1>3, <1>6 DEF EvalMoved
  <2>3. ThreadTickets(th) \in SUBSET Tickets /\ (\A t \in ThreadTickets(th) : ticket[t].status # "none")
    BY DEF ThreadTickets
  <2>4. LatestLive(ThreadTickets(th)) \in ThreadTickets(th) \cup {NoTicket}
    BY <2>3, LatestLiveType
  <2>5. CASE /\ router'[th].pc = "route" /\ router'[th].known = ThreadTickets(th)
             /\ router'[th].live = LatestLive(ThreadTickets(th))
    BY <1>2, <2>1, <2>2, <2>3, <2>4, <2>5
  <2>6. CASE /\ router'[th].known = router[th].known /\ router'[th].live = router[th].live
             /\ router'[th].pc \in {"attach", "stop"} =>
                   router'[th].target \in router[th].known \cup ({router[th].live} \ {NoTicket})
             /\ router'[th].pc = "finish" => router'[th].verdict \notin {"none", "pending"}
    BY <1>0, <1>2, <2>1, <2>2, <2>6
  <2> QED
    BY <1>6, <2>5, <2>6 DEF EvalMoved
<1> QED
  BY <1>4, <1>5, <1>6, EvalStep

\* The tickets that accepting evaluations will need are left to them.
LEMMA AcceptStep ==
    ASSUME TypeOK, RouterInv, AcceptInv, Next
    PROVE  AcceptInv'
<1>0. /\ IsFiniteSet(Accepting) /\ IsFiniteSet(FreeTickets) /\ IsFiniteSet(FreeTickets')
      /\ Cardinality(Accepting) \in Nat /\ Cardinality(FreeTickets) \in Nat
  <2>1. Accepting \in SUBSET Threads /\ FreeTickets \in SUBSET Tickets /\ FreeTickets' \in SUBSET Tickets
    BY DEF Accepting, FreeTickets
  <2>2. IsFiniteSet(Accepting) /\ IsFiniteSet(FreeTickets) /\ IsFiniteSet(FreeTickets')
    BY <2>1, FS_Subset, NoTicketIsNone
  <2> QED
    BY <2>2, FS_CardinalityType
<1>1. ASSUME NEW th \in Threads, router'[th].pc = "accept", UNCHANGED ticket,
             Cardinality(Accepting) < Cardinality(FreeTickets),
             \A u \in Threads \ {th} : router'[u] = router[u]
      PROVE  AcceptInv'
  <2>1. FreeTickets' = FreeTickets
    BY <1>1 DEF FreeTickets
  <2>2. Accepting' \subseteq Accepting \cup {th}
    BY <1>1 DEF Accepting
  <2>3. IsFiniteSet(Accepting \cup {th}) /\ Cardinality(Accepting \cup {th}) <= Cardinality(Accepting) + 1
    <3>1. /\ IsFiniteSet(Accepting \cup {th})
          /\ Cardinality(Accepting \cup {th}) = IF th \in Accepting THEN Cardinality(Accepting)
                                                ELSE Cardinality(Accepting) + 1
      BY <1>0, FS_AddElement
    <3> QED
      BY <1>0, <3>1
  <2>4. Cardinality(Accepting') \in Nat /\ Cardinality(Accepting \cup {th}) \in Nat
        /\ Cardinality(Accepting') <= Cardinality(Accepting \cup {th})
    BY <2>2, <2>3, FS_Subset, FS_CardinalityType
  <2> QED
    BY <1>0, <1>1, <2>1, <2>3, <2>4 DEF AcceptInv
<1>2. CASE ~\E th \in Threads :
              /\ router'[th].pc = "accept" /\ UNCHANGED ticket
              /\ Cardinality(Accepting) < Cardinality(FreeTickets)
              /\ \A u \in Threads \ {th} : router'[u] = router[u]
  <2>1. Accepting' \subseteq Accepting
    <3> SUFFICES ASSUME NEW th \in Threads, router'[th].pc = "accept" PROVE router[th].pc = "accept"
      BY DEF Accepting
    <3>1. ~EvalStarted(th)
      BY DEF EvalStarted, IdleRouter
    <3>2. ~EvalMoved(th)
      BY <1>2 DEF EvalMoved
    <3> QED
      BY <3>1, <3>2, EvalStep
  <2>2. CASE \E th \in Threads : EvalAccept(th)
    <3>1. PICK th \in Threads : EvalAccept(th)
      BY <2>2
    <3> DEFINE f == CHOOSE u \in FreeTickets : \A v \in FreeTickets : u <= v
    <3>2. th \in Accepting /\ th \notin Accepting'
      <4>1. router \in [Threads -> Evaluations] /\ router[th] \in Evaluations
        BY DEF TypeOK
      <4>2. router'[th].pc = "finish"
        BY <3>1, <4>1 DEF EvalAccept, ToFinish, Evaluations
      <4> QED
        BY <3>1, <4>2 DEF Accepting, EvalAccept
    <3>3. f \in FreeTickets
      BY <3>1, AcceptingLeft, FirstFree DEF EvalAccept
    <3>4. FreeTickets \ {f} \subseteq FreeTickets'
      <4>1. ticket \in [Tickets -> TicketRows]
        BY DEF TypeOK
      <4>2. \A t \in Tickets \ {f} : ticket'[t] = ticket[t]
        BY <3>1, <4>1 DEF EvalAccept
      <4> HIDE DEF f
      <4> QED
        BY <4>2 DEF FreeTickets
    <3> HIDE DEF f
    <3>5. Cardinality(FreeTickets \ {f}) = Cardinality(FreeTickets) - 1
      BY <1>0, <3>3, FS_RemoveElement
    <3>6. IsFiniteSet(Accepting \ {th}) /\ Cardinality(Accepting \ {th}) = Cardinality(Accepting) - 1
      BY <1>0, <3>2, FS_RemoveElement
    <3>7. Accepting' \subseteq Accepting \ {th}
      BY <2>1, <3>2
    <3>8. Cardinality(Accepting') <= Cardinality(Accepting \ {th}) /\ Cardinality(Accepting') \in Nat
      BY <3>6, <3>7, FS_Subset, FS_CardinalityType
    <3>9. Cardinality(FreeTickets \ {f}) <= Cardinality(FreeTickets') /\ Cardinality(FreeTickets') \in Nat
      BY <1>0, <3>4, FS_Subset, FS_CardinalityType
    <3> QED
      BY <1>0, <3>5, <3>6, <3>8, <3>9 DEF AcceptInv
  <2>3. CASE ~\E th \in Threads : EvalAccept(th)
    <3>1. FreeTickets \subseteq FreeTickets'
      <4> SUFFICES ASSUME NEW t \in FreeTickets PROVE t \in FreeTickets'
        OBVIOUS
      <4>1. t \in Tickets /\ ticket[t].status = "none"
        BY DEF FreeTickets
      <4>2. ticket'[t] = ticket[t]
        BY <2>3, <4>1, RowKept DEF RowAccepted
      <4> QED
        BY <4>1, <4>2 DEF FreeTickets
    <3>2. Cardinality(Accepting') <= Cardinality(Accepting) /\ Cardinality(Accepting') \in Nat
      BY <1>0, <2>1, FS_Subset, FS_CardinalityType
    <3>3. Cardinality(FreeTickets) <= Cardinality(FreeTickets') /\ Cardinality(FreeTickets') \in Nat
      BY <1>0, <3>1, FS_Subset, FS_CardinalityType
    <3> QED
      BY <1>0, <3>2, <3>3 DEF AcceptInv
  <2> QED
    BY <2>2, <2>3
<1> QED
  BY <1>1, <1>2

-----------------------------------------------------------------------------
(* The turns.                                                              *)

LEMMA TurnMoves ==
    ASSUME TypeOK, Next, NEW t \in Tickets
    PROVE  \/ turn'[t] = turn[t]
           \/ turn'[t].pc \in {"idle", "begin"}
           \/ /\ TurnBegin(t) /\ turn'[t].delivered = Len(ticket[t].inputs)
              /\ ticket'[t].status = "running" /\ ticket'[t].inputs = ticket[t].inputs
           \/ turn[t].pc = "work" /\ turn'[t].delivered = turn[t].delivered /\ UNCHANGED ticket
<1> USE DEF store, memory, world, history, bounds
<1>0. /\ ticket \in [Tickets -> TicketRows] /\ turn \in [Tickets -> Turns]
      /\ ticket[t] \in TicketRows /\ turn[t] \in Turns
  BY DEF TypeOK
<1>1. CASE UNCHANGED turn
  BY <1>1
<1>2. CASE Crash
  BY <1>2 DEF Crash, IdleTurn
<1>3. CASE PassStart
  <2>1. PICK f : turn' = turn \/ turn' = [turn EXCEPT ![f] = [IdleTurn EXCEPT !.pc = "begin"]]
    BY <1>3 DEF PassStart
  <2>2. [IdleTurn EXCEPT !.pc = "begin"].pc = "begin"
    BY DEF IdleTurn
  <2>3. turn'[t] = turn[t] \/ turn'[t] = [IdleTurn EXCEPT !.pc = "begin"]
    BY <1>0, <2>1
  <2> QED
    BY <2>2, <2>3
<1>4. ASSUME NEW f \in Tickets, TurnEnd(f) PROVE turn'[t] = turn[t] \/ turn'[t].pc = "idle"
  BY <1>0, <1>4 DEF TurnEnd, IdleTurn
<1>5. ASSUME NEW f \in Tickets, TurnBegin(f)
      PROVE  \/ turn'[t] = turn[t] \/ turn'[t].pc = "idle"
             \/ /\ TurnBegin(t) /\ turn'[t].delivered = Len(ticket[t].inputs)
                /\ ticket'[t].status = "running" /\ ticket'[t].inputs = ticket[t].inputs
  <2>1. CASE TurnEnd(f)
    BY <1>4, <2>1
  <2>2. CASE /\ ticket' = [ticket EXCEPT ![f].status = "running", ![f].attempts = @ + 1]
             /\ turn' = [turn EXCEPT ![f].pc = "work", ![f].delivered = Len(ticket[f].inputs)]
    <3>1. t # f => turn'[t] = turn[t]
      BY <1>0, <2>2
    <3>2. t = f => turn'[t].delivered = Len(ticket[t].inputs)
      BY <1>0, <2>2 DEF Turns
    <3>3. t = f => ticket'[t].status = "running" /\ ticket'[t].inputs = ticket[t].inputs
      BY <1>0, <2>2 DEF TicketRows
    <3> QED
      BY <1>5, <3>1, <3>2, <3>3
  <2> QED
    BY <1>5, <2>1, <2>2 DEF TurnBegin
<1>6. ASSUME NEW f \in Tickets, WorkReturns(f)
      PROVE  \/ turn'[t] = turn[t] \/ turn'[t].pc = "idle"
             \/ turn[t].pc = "work" /\ turn'[t].delivered = turn[t].delivered /\ UNCHANGED ticket
  <2>1. CASE TurnEnd(f)
    BY <1>4, <2>1
  <2>2. CASE \E result \in {"ok", "retry", "fatal"} :
                turn' = [turn EXCEPT ![f].pc = "finish", ![f].result = result]
    <3>1. t # f => turn'[t] = turn[t]
      BY <1>0, <2>2
    <3>2. t = f => turn'[t].delivered = turn[t].delivered
      BY <1>0, <2>2 DEF Turns
    <3> QED
      BY <1>6, <3>1, <3>2 DEF WorkReturns
  <2> QED
    BY <1>6, <2>1, <2>2 DEF WorkReturns
<1>7. ASSUME NEW f \in Tickets, TurnFinish(f) PROVE turn'[t] = turn[t] \/ turn'[t].pc = "idle"
  BY Zenon, <1>4, <1>7 DEF TurnFinish
<1>8. \/ UNCHANGED turn \/ Crash \/ PassStart
      \/ \E f \in Tickets : TurnBegin(f) \/ WorkReturns(f) \/ TurnFinish(f)
  BY Zenon DEF Next, InterceptMessage, MailArrives, Poll, PollFetch, PollIngest, PollSave, Pass, PassList,
         PassEvaluate, PassQueued, Evaluate, EvalLoad, EvalRoute, EvalFinish, EvalAccept,
         EvalAttach, EvalStop, RunTicket, StopTicket, RetryTicket, Recover,
         WaitOver, Save, RefreshClaims, Started
<1> QED
  BY <1>1, <1>2, <1>3, <1>5, <1>6, <1>7, <1>8

LEMMA TurnStep ==
    ASSUME TypeOK, DownInv, RouterInv, AcceptInv, TurnInv, Next
    PROVE  TurnInv'
<1> SUFFICES ASSUME NEW t \in Tickets, turn'[t].pc \in {"work", "finish"}
             PROVE  /\ ticket'[t].status \in {"running", "stopped"}
                    /\ ticket'[t].status = "running" => turn'[t].delivered <= Len(ticket'[t].inputs)
  BY DEF TurnInv
<1>0. /\ ticket[t] \in TicketRows /\ ticket[t].inputs \in Seq(Inputs) /\ turn[t].delivered \in Nat
      /\ Len(ticket[t].inputs) \in Nat
  BY DEF TypeOK, TicketRows, Turns
<1>1. CASE turn'[t] = turn[t]
  <2>1. /\ ticket[t].status \in {"running", "stopped"}
        /\ ticket[t].status = "running" => turn[t].delivered <= Len(ticket[t].inputs)
    BY <1>1 DEF TurnInv
  <2>2. up
    BY <1>1 DEF DownInv
  <2>3. ~RowSettled(t)
    BY <1>1 DEF RowSettled
  <2>4. ~RowBegun(t) /\ ~RowQueued(t) /\ \A th \in Threads : ~RowAccepted(t, th)
    BY <2>1, <2>2 DEF RowBegun, RowQueued, RowAccepted
  <2>5. CASE ticket'[t] = ticket[t]
    BY <1>1, <2>1, <2>5
  <2>6. CASE RowStopped(t)
    BY <2>6 DEF RowStopped
  <2>7. ASSUME NEW th \in Threads, RowAttached(t, th)
        PROVE  ticket'[t].status = "running" /\ turn'[t].delivered <= Len(ticket'[t].inputs)
    <3>1. ticket'[t].status = "running" /\ ticket[t].status = "running"
          /\ ticket'[t].inputs = Append(ticket[t].inputs, router[th].event)
      BY <2>1, <2>7 DEF RowAttached
    <3>2. Len(ticket'[t].inputs) = Len(ticket[t].inputs) + 1
      BY <1>0, <3>1
    <3> QED
      BY <1>0, <1>1, <2>1, <3>1, <3>2
  <2> QED
    BY <2>3, <2>4, <2>5, <2>6, <2>7, RowStep
<1>2. CASE /\ turn'[t].delivered = Len(ticket[t].inputs)
           /\ ticket'[t].status = "running" /\ ticket'[t].inputs = ticket[t].inputs
  BY <1>0, <1>2
<1>3. CASE turn[t].pc = "work" /\ turn'[t].delivered = turn[t].delivered /\ UNCHANGED ticket
  BY <1>3 DEF TurnInv
<1> QED
  BY <1>1, <1>2, <1>3, TurnMoves

-----------------------------------------------------------------------------
(* The tickets of an event.                                                *)

\* The mark of an event that was accepted is lost by a failed call or a stop
\* of the daemon only.
LEMMA MarkKept ==
    ASSUME TypeOK, RouterInv, PollInv, Next, NEW e \in Events, Marked(e),
           ~Crash, \A th \in Threads : EvalFinish(th) => NoFault
    PROVE  Marked(e)'
<1>1. CASE trigger[e] \notin {"none", "pending"}
  BY <1>1, TriggerKept DEF Marked
<1>2. ASSUME NEW th \in Threads, router[th].pc = "finish", router[th].event = e,
             router[th].verdict = "accepted"
      PROVE  Marked(e)'
  <2>1. CASE router'[th] = router[th]
    BY <1>2, <2>1 DEF Marked
  <2>2. CASE EvalFinish(th)
    <3>1. trigger' = [trigger EXCEPT ![e] = "accepted"] /\ trigger \in [Events -> Dispositions]
      <4>1. faults \in Int
        BY DEF TypeOK
      <4>2. ~Fault
        BY <2>2, <4>1 DEF Fault, NoFault
      <4> QED
        BY <1>2, <2>2, <4>2 DEF EvalFinish, TypeOK
    <3>2. trigger'[e] = "accepted"
      BY <3>1
    <3> QED
      BY <3>2 DEF Marked
  <2>3. ~EvalStarted(th) /\ ~EvalMoved(th)
    BY <1>2 DEF EvalStarted, EvalMoved
  <2> QED
    BY <1>2, <2>1, <2>2, <2>3, EvalStep
<1> QED
  BY <1>1, <1>2 DEF Marked

\* The mishaps that were counted.
LEMMA MishapStep ==
    ASSUME TypeOK, Next
    PROVE  /\ faults \in Nat /\ crashes \in Nat /\ faults' \in Nat /\ crashes' \in Nat
           /\ faults' + crashes' >= faults + crashes
           /\ Crash => faults' + crashes' = faults + crashes + 1
           /\ \A th \in Threads : EvalFinish(th) /\ ~NoFault => faults' + crashes' = faults + crashes + 1
<1> USE DEF store, memory, world, history, bounds
<1>1. faults \in Nat /\ crashes \in Nat
  BY DEF TypeOK
<1>2. \/ UNCHANGED <<faults, crashes>>
      \/ crashes' = crashes /\ faults' = faults + 1
      \/ crashes' = crashes + 1 /\ faults' = faults
  <2>1. CASE \E e \in Chat : InterceptMessage(e)
    BY <2>1 DEF InterceptMessage
  <2>2. CASE MailArrives \/ Poll \/ Pass
    BY ZenonT(40), <2>2 DEF MailArrives, Poll, PollFetch, PollIngest, PollSave, Pass, PassList,
           PassEvaluate, PassQueued, PassStart, Fault, NoFault
  <2>3. ASSUME NEW th \in Threads, Evaluate(th)
        PROVE  UNCHANGED crashes /\ (Fault \/ UNCHANGED faults)
    BY Zenon, <2>3 DEF Evaluate, EvalLoad, EvalRoute, EvalFinish, EvalAccept, EvalAttach, EvalStop, NoFault
  <2>4. ASSUME NEW t \in Tickets, RunTicket(t) \/ StopTicket(t) \/ RetryTicket(t) \/ Recover(t)
        PROVE  UNCHANGED crashes /\ (Fault \/ UNCHANGED faults)
    BY <2>4 DEF RunTicket, TurnBegin, WorkReturns, TurnFinish, StopTicket, RetryTicket, Recover, NoFault
  <2>5. CASE \E x \in Events \cup Tickets : WaitOver(x)
    BY <2>5 DEF WaitOver
  <2>6. CASE Save \/ RefreshClaims \/ Crash \/ Started
    BY <2>6 DEF Save, RefreshClaims, Crash, Started
  <2> QED
    BY <2>1, <2>2, <2>3, <2>4, <2>5, <2>6 DEF Next, Fault
<1>3. Crash => crashes' = crashes + 1 /\ faults' = faults
  BY DEF Crash
<1>4. ASSUME NEW th \in Threads, EvalFinish(th), ~NoFault PROVE crashes' = crashes /\ faults' = faults + 1
  BY <1>4 DEF EvalFinish, Fault
<1>5. faults' \in Nat /\ crashes' \in Nat /\ faults' + crashes' >= faults + crashes
  BY <1>1, <1>2
<1>6. Crash => faults' + crashes' = faults + crashes + 1
  BY <1>1, <1>3
<1>7. ASSUME NEW th \in Threads, EvalFinish(th), ~NoFault PROVE faults' + crashes' = faults + crashes + 1
  BY <1>1, <1>4, <1>7
<1> QED
  BY Zenon, <1>1, <1>5, <1>6, <1>7

LEMMA CountStep ==
    ASSUME TypeOK, RouterInv, AcceptInv, PollInv, CountInv, Next
    PROVE  CountInv'
<1> DEFINE n == faults + crashes
           m == faults' + crashes'
<1>0. n \in Nat /\ m \in Nat /\ m >= n
  BY MishapStep
<1> SUFFICES ASSUME NEW e \in Events
             PROVE  Cardinality(TicketsOf(e)') <= m + (IF Marked(e)' THEN 1 ELSE 0)
  BY DEF CountInv
<1> HIDE DEF n, m
<1>1. Cardinality(TicketsOf(e)) <= n + (IF Marked(e) THEN 1 ELSE 0)
  BY DEF CountInv, n
<1>2. /\ IsFiniteSet(TicketsOf(e)) /\ IsFiniteSet(TicketsOf(e)')
      /\ Cardinality(TicketsOf(e)) \in Nat /\ Cardinality(TicketsOf(e)') \in Nat
  <2>1. TicketsOf(e) \in SUBSET Tickets /\ TicketsOf(e)' \in SUBSET Tickets
    BY DEF TicketsOf
  <2>2. IsFiniteSet(TicketsOf(e)) /\ IsFiniteSet(TicketsOf(e)')
    BY <2>1, FS_Subset, NoTicketIsNone
  <2> QED
    BY <2>2, FS_CardinalityType
<1>3. ASSUME NEW th \in Threads, EvalAccept(th), NoFault, router[th].event = e
      PROVE  Cardinality(TicketsOf(e)') <= m + (IF Marked(e)' THEN 1 ELSE 0)
  <2> DEFINE f == CHOOSE u \in FreeTickets : \A v \in FreeTickets : u <= v
  <2>0. router[th].pc = "accept" /\ trigger[e] = "pending" /\ Thread[e] = th
    BY <1>3 DEF EvalAccept, RouterInv
  <2>1. ~Marked(e)
    <3>1. ASSUME NEW u \in Threads, router[u].pc = "finish", router[u].event = e PROVE FALSE
      <4>1. Thread[e] = u
        BY <3>1 DEF RouterInv
      <4> QED
        BY <2>0, <3>1, <4>1
    <3> QED
      BY <2>0, <3>1 DEF Marked
  <2>2. Marked(e)'
    <3>1. router[th] \in Evaluations /\ router \in [Threads -> Evaluations] /\ faults \in Int
      BY DEF TypeOK
    <3>2. ~Fault
      BY <1>3, <3>1 DEF Fault, NoFault
    <3>3. ToFinish(th, "accepted")
      BY <1>3, <3>2 DEF EvalAccept
    <3>4. router'[th].pc = "finish" /\ router'[th].verdict = "accepted" /\ router'[th].event = e
      BY <1>3, <3>1, <3>3 DEF ToFinish, Evaluations
    <3> QED
      BY <3>4 DEF Marked
  <2>3. TicketsOf(e)' \subseteq TicketsOf(e) \cup {f}
    <3>1. ticket \in [Tickets -> TicketRows]
      BY DEF TypeOK
    <3>2. \A t \in Tickets \ {f} : ticket'[t] = ticket[t]
      BY <1>3, <3>1 DEF EvalAccept
    <3> HIDE DEF f
    <3> QED
      BY <3>2 DEF TicketsOf
  <2> HIDE DEF f
  <2>4. /\ IsFiniteSet(TicketsOf(e) \cup {f})
        /\ Cardinality(TicketsOf(e) \cup {f}) = IF f \in TicketsOf(e) THEN Cardinality(TicketsOf(e))
                                                ELSE Cardinality(TicketsOf(e)) + 1
    BY <1>2, FS_AddElement
  <2>5. Cardinality(TicketsOf(e)') <= Cardinality(TicketsOf(e) \cup {f})
    BY <2>3, <2>4, FS_Subset
  <2>6. Cardinality(TicketsOf(e)') <= Cardinality(TicketsOf(e)) + 1
    BY <1>2, <2>4, <2>5
  <2>7. Cardinality(TicketsOf(e)) <= n
    BY <1>0, <1>1, <2>1
  <2> QED
    BY <1>0, <1>2, <2>2, <2>6, <2>7
<1>4. CASE ~\E th \in Threads : EvalAccept(th) /\ NoFault /\ router[th].event = e
  <2>1. TicketsOf(e)' \subseteq TicketsOf(e)
    <3> SUFFICES ASSUME NEW t \in Tickets, ticket'[t].trigger = e PROVE ticket[t].trigger = e
      BY DEF TicketsOf
    <3>1. ticket[t] \in TicketRows
      BY DEF TypeOK
    <3>2. Settled(t).trigger = ticket[t].trigger
      BY <3>1 DEF Settled, TicketRows
    <3>3. ASSUME NEW th \in Threads, RowAccepted(t, th) PROVE FALSE
      BY <1>4, <3>3 DEF RowAccepted
    <3>4. ASSUME NEW th \in Threads, RowAttached(t, th) PROVE ticket'[t].trigger = ticket[t].trigger
      BY <3>4 DEF RowAttached
    <3>5. ASSUME RowStopped(t) \/ RowBegun(t) \/ RowSettled(t) \/ RowQueued(t)
          PROVE  ticket'[t].trigger = ticket[t].trigger
      BY <3>2, <3>5 DEF RowStopped, RowBegun, RowSettled, RowQueued
    <3> QED
      BY <3>3, <3>4, <3>5, RowStep
  <2>2. Cardinality(TicketsOf(e)') <= Cardinality(TicketsOf(e))
    BY <1>2, <2>1, FS_Subset
  <2>3. CASE Crash \/ \E th \in Threads : EvalFinish(th) /\ ~NoFault
    <3>1. m = n + 1
      BY <2>3, MishapStep DEF m, n
    <3> QED
      BY <1>0, <1>1, <1>2, <2>2, <3>1
  <2>4. CASE ~Crash /\ \A th \in Threads : EvalFinish(th) => NoFault
    <3>1. Marked(e) => Marked(e)'
      BY <2>4, MarkKept
    <3> QED
      BY <1>0, <1>1, <1>2, <2>2, <3>1
  <2> QED
    BY <2>3, <2>4
<1> QED
  BY <1>3, <1>4

-----------------------------------------------------------------------------
(* The inputs of a ticket.                                                 *)

\* The inputs of a turn and the rest of them are all of them.
LEMMA InputsSplit ==
    ASSUME TypeOK, NEW t \in Tickets, turn[t].delivered <= Len(ticket[t].inputs),
           NEW i \in 1..Len(ticket[t].inputs), ticket[t].inputs[i] # Note
    PROVE  \/ ticket[t].inputs[i] \in Delivered(t)
           \/ \E j \in 1..Len(Rest(t)) : Rest(t)[j] = ticket[t].inputs[i]
<1> DEFINE s == ticket[t].inputs
           d == turn[t].delivered
<1>1. s \in Seq(Inputs) /\ d \in Nat /\ Len(s) \in Nat
  BY DEF TypeOK, TicketRows, Turns
<1>2. CASE i <= d
  <2>1. i \in 1..turn[t].delivered
    BY <1>1, <1>2
  <2> QED
    BY <2>1 DEF Delivered
<1>3. CASE i > d
  <2>1. Rest(t) = SubSeq(s, d + 1, Len(s))
    BY DEF Rest
  <2>0. d <= Len(s) /\ i \in 1..Len(s)
    OBVIOUS
  <2> HIDE DEF s, d
  <2>2. Len(Rest(t)) = Len(s) - d /\ Rest(t)[i - d] = s[i]
    BY <1>1, <1>3, <2>0, <2>1, Suffix
  <2>3. i - d \in 1..Len(Rest(t))
    BY <1>1, <1>3, <2>0, <2>2
  <2>4. Rest(t)[i - d] = s[i]
    BY <2>2
  <2> QED
    BY <2>3, <2>4 DEF s
<1> QED
  BY <1>1, <1>2, <1>3

\* What the turns that succeeded have read only grows, and by what a turn was
\* given when it ends well.
LEMMA WorkedStep ==
    ASSUME TypeOK, Next, NEW t \in Tickets
    PROVE  /\ worked[t] \subseteq worked'[t]
           /\ RowSettled(t) /\ turn[t].result = "ok" => worked'[t] = worked[t] \cup Delivered(t)
<1> USE DEF store, memory, world, history, bounds
<1>0. worked \in [Tickets -> SUBSET Events] /\ faults \in Int
  BY DEF TypeOK
<1>1. ASSUME NEW f \in Tickets, TurnFinish(f) PROVE worked[t] \subseteq worked'[t]
  <2>1. worked' = worked \/ worked' = [worked EXCEPT ![f] = worked[f] \cup Delivered(f)]
    BY Zenon, <1>1 DEF TurnFinish
  <2> QED
    BY <1>0, <2>1
<1>2. UNCHANGED worked \/ \E f \in Tickets : TurnFinish(f)
  BY Zenon DEF Next, InterceptMessage, MailArrives, Poll, PollFetch, PollIngest, PollSave, Pass, PassList,
         PassEvaluate, PassQueued, PassStart, Evaluate, EvalLoad, EvalRoute, EvalFinish, EvalAccept,
         EvalAttach, EvalStop, RunTicket, TurnBegin, StopTicket, RetryTicket, Recover,
         WorkReturns, WaitOver, Save, RefreshClaims, Crash, Started
<1>3. ASSUME RowSettled(t), turn[t].result = "ok" PROVE worked'[t] = worked[t] \cup Delivered(t)
  <2>0. /\ ticket \in [Tickets -> TicketRows] /\ ticket[t] \in TicketRows
        /\ TurnFinish(t) /\ ticket[t].status = "running" /\ ticket'[t] = Settled(t)
    BY <1>3 DEF RowSettled, TypeOK
  <2>1. Settled(t).status # "running"
    BY <2>0 DEF Settled, TicketRows
  <2>2. ticket' # ticket
    BY <2>0, <2>1
  <2>3. worked' = [worked EXCEPT ![t] = worked[t] \cup Delivered(t)]
    BY <1>3, <2>0, <2>2 DEF TurnFinish
  <2> QED
    BY <1>0, <2>3
<1> QED
  BY <1>1, <1>2, <1>3

LEMMA InputsStep ==
    ASSUME TypeOK, RouterInv, AcceptInv, TurnInv, InputsReachTheWorker, Next
    PROVE  InputsReachTheWorker'
<1> SUFFICES ASSUME NEW t \in Tickets
             PROVE  /\ ticket'[t].status # "stopped" => attached'[t] \subseteq worked'[t] \cup Held(t)'
                    /\ ticket'[t].status = "ready" => attached'[t] \subseteq worked'[t]
  BY DEF InputsReachTheWorker, Held
<1>0. /\ ticket[t] \in TicketRows /\ ticket[t].inputs \in Seq(Inputs) /\ turn[t] \in Turns
      /\ turn[t].delivered \in Nat /\ attached[t] \in SUBSET Events
  BY DEF TypeOK, TicketRows, Turns
<1>1. /\ ticket[t].status # "stopped" => attached[t] \subseteq worked[t] \cup Held(t)
      /\ ticket[t].status = "ready" => attached[t] \subseteq worked[t]
  BY DEF InputsReachTheWorker, Held
<1>2. worked[t] \subseteq worked'[t]
  BY WorkedStep
<1>3. CASE ticket'[t] = ticket[t] /\ attached'[t] = attached[t]
  BY <1>1, <1>2, <1>3 DEF Held
<1>4. ASSUME NEW th \in Threads, RowAccepted(t, th)
      PROVE  ticket'[t].status = "queued" /\ attached'[t] \subseteq Held(t)'
  BY <1>4 DEF RowAccepted, Held
<1>5. ASSUME NEW th \in Threads, RowAttached(t, th)
      PROVE  ticket'[t].status # "ready" /\ attached'[t] \subseteq worked'[t] \cup Held(t)'
  <2> DEFINE e == router[th].event
  <2>1. /\ ticket[t].status # "stopped" /\ ticket'[t].status # "ready"
        /\ ticket'[t].inputs = Append(ticket[t].inputs, e)
        /\ attached'[t] = attached[t] \cup {e}
    BY <1>5 DEF RowAttached
  <2> HIDE DEF e
  <2>2. /\ Len(ticket'[t].inputs) = Len(ticket[t].inputs) + 1 /\ Len(ticket[t].inputs) \in Nat
        /\ \A i \in 1..Len(ticket[t].inputs) : ticket'[t].inputs[i] = ticket[t].inputs[i]
        /\ ticket'[t].inputs[Len(ticket[t].inputs) + 1] = e
    BY <1>0, <2>1
  <2>3. Held(t) \subseteq Held(t)'
    <3> SUFFICES ASSUME NEW x \in Held(t) PROVE x \in Held(t)'
      OBVIOUS
    <3>0. PICK i \in 1..Len(ticket[t].inputs) : x = ticket[t].inputs[i]
      BY DEF Held
    <3>1. i \in 1..Len(ticket'[t].inputs) /\ ticket'[t].inputs[i] = ticket[t].inputs[i]
      BY <2>2
    <3> QED
      BY <3>0, <3>1 DEF Held
  <2>4. e \in Held(t)'
    BY <2>2 DEF Held
  <2> QED
    BY <1>1, <1>2, <2>1, <2>3, <2>4
<1>6. CASE RowStopped(t)
  BY <1>6 DEF RowStopped
<1>7. CASE RowBegun(t) /\ attached'[t] = attached[t]
  <2>1. Held(t)' = Held(t) /\ ticket[t].status = "queued" /\ ticket'[t].status = "running"
    BY <1>7 DEF RowBegun, Held
  <2> QED
    BY <1>1, <1>2, <1>7, <2>1
<1>8. CASE RowSettled(t) /\ attached'[t] = attached[t]
  <2>0. /\ ticket[t].status = "running" /\ ticket'[t] = Settled(t) /\ turn[t].pc = "finish"
        /\ attached[t] \subseteq worked[t] \cup Held(t)
    BY <1>1, <1>8 DEF RowSettled, TurnFinish
  <2>1. CASE turn[t].result = "ok"
    <3>1. ticket'[t].inputs = Rest(t) /\ ticket'[t].status = IF Rest(t) = <<>> THEN "ready" ELSE "queued"
      BY <1>0, <2>0, <2>1 DEF Settled, TicketRows
    <3>2. turn[t].delivered <= Len(ticket[t].inputs)
      BY <2>0 DEF TurnInv
    <3>3. worked'[t] = worked[t] \cup Delivered(t)
      BY <1>8, <2>1, WorkedStep
    <3>4. ASSUME NEW e \in attached[t] PROVE e \in worked'[t] \cup Held(t)'
      <4>1. e # Note
        BY <1>0
      <4>2. CASE e \in worked[t]
        BY <1>2, <4>2
      <4>3. CASE e \in Held(t)
        <5>1. PICK i \in 1..Len(ticket[t].inputs) : ticket[t].inputs[i] = e
          BY <4>3 DEF Held
        <5>2. e \in Delivered(t) \/ \E j \in 1..Len(Rest(t)) : Rest(t)[j] = e
          BY <3>2, <4>1, <5>1, InputsSplit
        <5> QED
          BY <3>1, <3>3, <5>2 DEF Held
      <4> QED
        BY <2>0, <4>2, <4>3
    <3>5. Rest(t) = <<>> => Held(t)' = {}
      BY <3>1 DEF Held
    <3> QED
      BY <1>8, <3>1, <3>4, <3>5
  <2>2. CASE turn[t].result # "ok"
    <3>1. ticket'[t].inputs = ticket[t].inputs /\ ticket'[t].status # "ready"
      BY <1>0, <2>0, <2>2 DEF Settled, TicketRows
    <3>2. Held(t)' = Held(t)
      BY <3>1 DEF Held
    <3> QED
      BY <1>2, <1>8, <2>0, <3>1, <3>2
  <2> QED
    BY <2>1, <2>2
<1>9. CASE RowQueued(t) /\ attached'[t] = attached[t]
  <2>1. ticket[t].status # "stopped" /\ ticket'[t].status = "queued"
    BY <1>9 DEF RowQueued
  <2>2. CASE ticket'[t].inputs = ticket[t].inputs
    <3>1. Held(t)' = Held(t)
      BY <2>2 DEF Held
    <3> QED
      BY <1>1, <1>2, <1>9, <2>1, <3>1
  <2>3. CASE ticket'[t].inputs = <<Note>> \o ticket[t].inputs
    <3>1. /\ Len(ticket'[t].inputs) = Len(ticket[t].inputs) + 1 /\ Len(ticket[t].inputs) \in Nat
          /\ \A i \in 1..Len(ticket[t].inputs) : ticket'[t].inputs[i + 1] = ticket[t].inputs[i]
      <4> DEFINE z == <<Note>> \o ticket[t].inputs
      <4>1. /\ Len(z) = Len(ticket[t].inputs) + 1 /\ Len(ticket[t].inputs) \in Nat
            /\ \A i \in 1..Len(ticket[t].inputs) : z[i + 1] = ticket[t].inputs[i]
        BY Zenon, <1>0, InFront
      <4>2. ticket'[t].inputs = z
        BY Zenon, <2>3
      <4> HIDE DEF z
      <4> QED
        BY Zenon, <4>1, <4>2
    <3>2. \A i \in 1..Len(ticket[t].inputs) : i + 1 \in 1..Len(ticket'[t].inputs)
      BY <3>1
    <3>3. Held(t) \subseteq Held(t)'
      <4> SUFFICES ASSUME NEW x \in Held(t) PROVE x \in Held(t)'
        OBVIOUS
      <4>0. PICK i \in 1..Len(ticket[t].inputs) : x = ticket[t].inputs[i]
        BY DEF Held
      <4>1. i + 1 \in 1..Len(ticket'[t].inputs) /\ ticket'[t].inputs[i + 1] = ticket[t].inputs[i]
        BY <3>1, <3>2
      <4> QED
        BY <4>0, <4>1 DEF Held
    <3> QED
      BY <1>1, <1>2, <1>9, <2>1, <3>3
  <2> QED
    BY <1>9, <2>2, <2>3 DEF RowQueued
<1> QED
  BY <1>2, <1>3, <1>4, <1>5, <1>6, <1>7, <1>8, <1>9, RowStep

-----------------------------------------------------------------------------
(* The theorems.                                                           *)

LEMMA SafeInit == Init => SafeInv
<1> SUFFICES ASSUME Init PROVE SafeInv
  OBVIOUS
<1>1. TypeOK
  BY TypeInit
<1>2. DownInv /\ RouterInv /\ PassInv /\ TurnInv
  BY DEF Init, DownInv, RouterInv, PassInv, TurnInv, IdleRouter, IdleTurn, IdlePass
<1>3. OrderInv /\ PollInv
  BY DEF Init, OrderInv, PollInv, IdlePoll, NoPosition
<1>4. AcceptInv
  <2>1. Accepting = {} /\ FreeTickets \in SUBSET Tickets
    BY DEF Init, Accepting, FreeTickets, IdleRouter
  <2>2. Cardinality(Accepting) = 0 /\ Cardinality(FreeTickets) \in Nat
    BY <2>1, FS_EmptySet, FS_Subset, FS_CardinalityType, NoTicketIsNone
  <2> QED
    BY <2>2 DEF AcceptInv
<1>5. CountInv
  <2> SUFFICES ASSUME NEW e \in Events
               PROVE  Cardinality(TicketsOf(e)) <= faults + crashes + (IF Marked(e) THEN 1 ELSE 0)
    BY DEF CountInv
  <2>1. TicketsOf(e) = {}
    BY DEF Init, TicketsOf, EmptyTicket
  <2>2. Cardinality(TicketsOf(e)) = 0 /\ faults = 0 /\ crashes = 0
    BY <2>1, FS_EmptySet DEF Init
  <2> QED
    BY <2>2
<1> QED
  BY <1>1, <1>2, <1>3, <1>4, <1>5 DEF SafeInv

LEMMA TypeStep ==
    ASSUME SafeInv, Next
    PROVE  TypeOK'
BY TypeIntake, TypePass, TypeEvaluate, TypeTurn, TypeConsole DEF Next, SafeInv

LEMMA SafeStutter == SafeInv /\ UNCHANGED vars => SafeInv'
<1> SUFFICES ASSUME SafeInv, UNCHANGED vars PROVE SafeInv'
  OBVIOUS
<1>1. TypeOK' /\ DownInv' /\ RouterInv'
  BY DEF SafeInv, vars, TypeOK, DownInv, RouterInv
<1>2. OrderInv' /\ PollInv' /\ TurnInv'
  BY DEF SafeInv, vars, OrderInv, PollInv, TurnInv
<1>3. PassInv' /\ AcceptInv'
  BY DEF SafeInv, vars, PassInv, Firsts, Pending, Earlier, AcceptInv, Accepting, FreeTickets
<1>4. CountInv'
  BY DEF SafeInv, vars, CountInv, TicketsOf, Marked
<1> QED
  BY <1>1, <1>2, <1>3, <1>4 DEF SafeInv

LEMMA SafeStep == SafeInv /\ [Next]_vars => SafeInv'
<1> SUFFICES ASSUME SafeInv, Next PROVE SafeInv'
  BY SafeStutter
<1> USE DEF SafeInv
<1> QED
  BY TypeStep, DownStep, RouterStep, AcceptStep, OrderStep, PassStep, PollStep, TurnStep, CountStep

LEMMA SafeAlways == Spec => []SafeInv
BY SafeInit, SafeStep, PTL DEF Spec

\* The state of a Super Agent is well formed: its rows, the position of its
\* mailbox, its evaluations and its turns.
THEOREM SuperAgentTypeCorrect == Spec => []TypeOK
<1>1. SafeInv => TypeOK
  BY DEF SafeInv
<1> QED
  BY <1>1, SafeAlways, PTL

\* accept makes at most one ticket of an event, but for the failed store calls
\* and the stops of the daemon that may lose the Trigger's disposition.
THEOREM EventsHaveOneTicket == Spec => []OneTicketPerEvent
<1>1. SafeInv => OneTicketPerEvent
  <2> SUFFICES ASSUME SafeInv, NEW e \in Events
               PROVE  Cardinality(TicketsOf(e)) <= 1 + faults + crashes
    BY DEF OneTicketPerEvent
  <2>1. faults \in Nat /\ crashes \in Nat
    BY DEF SafeInv, TypeOK
  <2>2. TicketsOf(e) \in SUBSET Tickets
    BY DEF TicketsOf
  <2>3. Cardinality(TicketsOf(e)) \in Nat
    BY <2>2, FS_Subset, FS_CardinalityType, NoTicketIsNone
  <2>4. Cardinality(TicketsOf(e)) <= faults + crashes + (IF Marked(e) THEN 1 ELSE 0)
    BY DEF SafeInv, CountInv
  <2> QED
    BY <2>1, <2>3, <2>4
<1> QED
  BY <1>1, SafeAlways, PTL

\* What attach and accept hand to a ticket that nobody stops waits in its
\* inputs or is read by a worker whose turn succeeds, through any failed call,
\* retry, stop and restart.
THEOREM InputsAreRead == Spec => []InputsReachTheWorker
<1>1. Init => InputsReachTheWorker
  BY DEF Init, InputsReachTheWorker, EmptyTicket
<1>2. SafeInv /\ InputsReachTheWorker /\ [Next]_vars => InputsReachTheWorker'
  <2>1. CASE Next
    BY <2>1, InputsStep DEF SafeInv
  <2>2. CASE UNCHANGED vars
    BY <2>2 DEF vars, InputsReachTheWorker
  <2> QED
    BY <2>1, <2>2
<1> QED
  BY <1>1, <1>2, SafeAlways, PTL DEF Spec

\* pollEmail stores every message before it moves the mailbox's position past
\* it, whichever call fails and wherever the daemon stops.
THEOREM MailIsStored == Spec => []MailIsNotSkipped
<1>1. Init => MailIsNotSkipped
  BY DEF Init, MailIsNotSkipped
<1>2. SafeInv /\ MailIsNotSkipped /\ [Next]_vars => MailIsNotSkipped'
  <2>0. SUFFICES ASSUME SafeInv, MailIsNotSkipped, Next PROVE MailIsNotSkipped'
    BY DEF vars, MailIsNotSkipped
  <2>1. /\ baseline \in Nat /\ position \in Nat \cup {-1} /\ position <= Len(Mail) /\ Len(Mail) \in Nat
        /\ arrived \in Nat /\ TypeOK /\ RouterInv /\ PollInv
    BY <2>0 DEF SafeInv, TypeOK, PollInv, NoPosition
  <2>2. ASSUME NEW i \in 1..Len(Mail), trigger[Mail[i]] # "none" PROVE trigger'[Mail[i]] # "none"
    BY <2>0, <2>1, <2>2, MailIsEvents, TriggerKept
  <2>3. ASSUME position # -1, NEW i \in baseline + 1 .. position PROVE trigger'[Mail[i]] # "none"
    <3>1. i \in 1..Len(Mail)
      BY <2>1, <2>3
    <3>2. trigger[Mail[i]] # "none"
      BY <2>0, <2>3 DEF MailIsNotSkipped, NoPosition
    <3> QED
      BY <2>2, <3>1, <3>2
  <2>4. CASE UNCHANGED <<position, baseline>>
    BY <2>3, <2>4 DEF MailIsNotSkipped, NoPosition
  <2>5. CASE PollFetch /\ ~UNCHANGED <<position, baseline>>
    <3>1. position' = arrived /\ baseline' = arrived
      BY <2>5 DEF PollFetch
    <3> QED
      BY <2>1, <3>1 DEF MailIsNotSkipped
  <2>6. CASE PollSave /\ ~UNCHANGED <<position, baseline>>
    <3>1. position' = poll.next /\ baseline' = baseline /\ poll.pc = "save"
      BY <2>6 DEF PollSave, world
    <3>2. poll.next \in 1..Len(Mail) /\ position = poll.next - 1 /\ position \in Nat
      BY <2>1, <3>1, PollAt
    <3>3. trigger'[Mail[poll.next]] # "none"
      BY <2>1, <2>2, <3>1, <3>2 DEF PollInv
    <3>4. ASSUME NEW i \in baseline + 1 .. poll.next PROVE trigger'[Mail[i]] # "none"
      <4>1. i = poll.next \/ i \in baseline + 1 .. position
        <5>1. baseline + 1 \in Int /\ poll.next \in Int /\ poll.next - 1 = position
          BY <2>1, <3>2
        <5> QED
          BY <5>1, LastOrBefore
      <4> QED
        BY <2>3, <3>2, <3>3, <4>1
    <3> QED
      BY <3>1, <3>4 DEF MailIsNotSkipped
  <2>7. UNCHANGED <<position, baseline>> \/ PollFetch \/ PollSave
    BY ZenonT(40), <2>0 DEF Next, store, memory, world, history, bounds, InterceptMessage, MailArrives, Poll, PollIngest,
         Pass, PassList, PassEvaluate, PassQueued, PassStart, Evaluate, EvalLoad, EvalRoute, EvalFinish,
         EvalAccept, EvalAttach, EvalStop, RunTicket, TurnBegin, TurnFinish, StopTicket, RetryTicket, Recover,
         WorkReturns, WaitOver, Save, RefreshClaims, Crash, Started
  <2> QED
    BY <2>4, <2>5, <2>6, <2>7
<1> QED
  BY <1>1, <1>2, SafeAlways, PTL DEF Spec

\* An evaluation that evaluatePending starts is of an event that is still
\* pending and has no older pending one on its thread, however many ended
\* since the list was read.
THEOREM EvaluationsInOrder == Spec => EvaluatedInOrder
<1> DEFINE FirstPending(th) ==
        (router[th].pc = "idle" /\ router'[th].pc = "load") =>
            /\ trigger[router'[th].event] = "pending"
            /\ \A d \in Pending(th) : ~Earlier(d, router'[th].event)
<1>1. SafeInv /\ [Next]_vars => [\A th \in Threads : FirstPending(th)]_vars
  <2> SUFFICES ASSUME SafeInv, Next, NEW th \in Threads, router[th].pc = "idle", router'[th].pc = "load"
               PROVE  /\ trigger[router'[th].event] = "pending"
                      /\ \A d \in Pending(th) : ~Earlier(d, router'[th].event)
    OBVIOUS
  <2>1. EvalStarted(th)
    <3>1. ~EvalMoved(th)
      BY DEF EvalMoved
    <3> QED
      BY <3>1, EvalStep DEF SafeInv
  <2>2. PICK e \in pass.events :
           Thread[e] = th /\ router'[th] = [IdleRouter EXCEPT !.pc = "load", !.event = e]
    BY <2>1 DEF EvalStarted
  <2>3. e \in Firsts
    BY <2>1 DEF EvalStarted, SafeInv, PassInv
  <2>4. router'[th].event = e
    BY <2>2 DEF IdleRouter
  <2> QED
    BY <2>2, <2>3, <2>4 DEF Firsts
<1> QED
  BY <1>1, SafeAlways, PTL DEF Spec, EvaluatedInOrder

\* StopTicket is final: no accept, attach, turn, retry or restart changes the
\* row of a ticket that was stopped.
THEOREM StoppedIsFinal == Spec => StoppedStays
<1>1. SafeInv /\ [Next]_vars =>
        [\A t \in Tickets : ticket[t].status = "stopped" => ticket'[t] = ticket[t]]_vars
  <2> SUFFICES ASSUME SafeInv, Next, NEW t \in Tickets, ticket[t].status = "stopped"
               PROVE  ticket'[t] = ticket[t]
    OBVIOUS
  <2> QED
    BY RowStep DEF SafeInv, RowAccepted, RowAttached, RowStopped, RowBegun, RowSettled, RowQueued
<1> QED
  BY <1>1, SafeAlways, PTL DEF Spec, StoppedStays
=============================================================================
