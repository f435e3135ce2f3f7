--------------------------- MODULE Orchestration ---------------------------
(***************************************************************************)
(* The life of one orchestration: a DAG of agent tasks that the daemon     *)
(* stores, executes with bounded concurrency, cancels on request, and      *)
(* recovers after a restart.                                               *)
(*                                                                         *)
(* Source: orchestration/service.go (Create, Start, Cancel, run, Recover)  *)
(* over store/orchestrations.go.  Orchestrations only share the database   *)
(* and the map of cancel functions, which is keyed by orchestration, so    *)
(* one is enough.                                                          *)
(*                                                                         *)
(* Three goroutines touch it: the HTTP handler that creates it, the runner *)
(* started by Start, and the recovery started when the server is built.    *)
(* Every store call is a step of its own: the process may die before and   *)
(* after each, and each write may fail (run and Recover drop the error).   *)
(***************************************************************************)
EXTENDS Integers, FiniteSets

CONSTANTS
    N,                    \* number of tasks; task t has the t-th id
    MaxConcurrency,       \* the orchestration's max_concurrency
    MaxFaults,            \* bound: failed store calls
    MaxCrashes,           \* bound: daemon crashes
    ServeDuringRecovery   \* may a request arrive before Recover is done?

ASSUME NAssumption == N \in Nat \ {0}
ASSUME ConcurrencyAssumption == MaxConcurrency \in Nat \ {0}
ASSUME BoundsAssumption == MaxFaults \in Nat /\ MaxCrashes \in Nat
ASSUME ServeAssumption == ServeDuringRecovery \in BOOLEAN

\* Tasks, in the order "ORDER BY created_at,id" returns them: all tasks of an
\* orchestration share created_at, and sort.Strings orders dependencies alike.
Task == 1..N

TaskStatus == {"queued", "running", "succeeded", "failed", "cancelled"}
Active == {"queued", "running"}
Terminal == {"succeeded", "failed", "cancelled"}

VARIABLES
    status,     \* durable: status of the orchestration row, "absent" before Create
    row,        \* durable: status of each task row
    deps,       \* durable: depends_on of each task row
    starter,    \* Create has committed and has not called Start yet
    pc,         \* the runner; "none" when cancels has no entry
    mem,        \* the runner's copy of the task statuses
    pos,        \* the scan's next task
    launched,   \* the scan has launched a task
    running,    \* the runner's count of launched, uncollected tasks
    flight,     \* tasks whose Invoke has not returned
    outcomes,   \* results in the channel: task and whether err = nil
    ctxDone,    \* the runner's context is cancelled
    rec,        \* the recovery goroutine
    snap,       \* the task statuses Recover has read
    faults,     \* store calls that failed
    crashes,    \* daemon crashes
    invoked     \* history: how often each task was handed to the invoker

durable == <<status, row, deps>>
local == <<mem, pos, launched, running>>
agents == <<flight, outcomes>>
runner == <<pc, local, agents, ctxDone>>
recovery == <<rec, snap>>
history == <<crashes, invoked>>
vars == <<status, row, deps, starter, pc, mem, pos, launched, running, flight,
          outcomes, ctxDone, rec, snap, faults, crashes, invoked>>

Pc == {"none", "load", "mark", "top", "sweep", "scan", "settle", "strand",
       "wait", "final", "exit"}

AllQueued == [t \in Task |-> "queued"]

\* What validateAcyclic accepts: every nonempty set of tasks has one that
\* depends on nothing in the set.  OrchestrationNormalize checks that the
\* depth-first search in the code decides exactly this.
Acyclic(d) == \A S \in SUBSET Task : S # {} => \E t \in S : d[t] \cap S = {}

Init ==
    /\ status = "absent"
    /\ row = AllQueued
    /\ deps = [t \in Task |-> {}]
    /\ starter = FALSE
    /\ pc = "none"
    /\ mem = AllQueued
    /\ pos = 1
    /\ launched = FALSE
    /\ running = 0
    /\ flight = {}
    /\ outcomes = {}
    /\ ctxDone = FALSE
    /\ rec = "list"
    /\ snap = AllQueued
    /\ faults = 0
    /\ crashes = 0
    /\ invoked = [t \in Task |-> 0]

-----------------------------------------------------------------------------
(* Store calls.  An update either writes the whole task row or fails.      *)

Fault == faults < MaxFaults /\ faults' = faults + 1

WriteTask(t, s) ==
    \/ row' = [row EXCEPT ![t] = s] /\ UNCHANGED faults
    \/ Fault /\ UNCHANGED row

WriteStatus(s) ==
    \/ status' = s /\ UNCHANGED faults
    \/ Fault /\ UNCHANGED status

-----------------------------------------------------------------------------
(* The HTTP handlers.                                                      *)

\* POST /orchestrations: CreateOrchestration commits the rows in one
\* transaction; Start follows.  A failed transaction leaves nothing behind.
Create ==
    /\ status = "absent"
    /\ ServeDuringRecovery \/ rec = "done"
    /\ \E d \in [Task -> SUBSET Task] : Acyclic(d) /\ deps' = d
    /\ status' = "queued"
    /\ row' = AllQueued
    /\ starter' = TRUE
    /\ UNCHANGED <<runner, recovery, faults, history>>

\* Start registers a cancel function unless the orchestration has one.
StartRunner ==
    IF pc = "none" THEN pc' = "load" /\ ctxDone' = FALSE
                   ELSE UNCHANGED <<pc, ctxDone>>

CreateStart ==
    /\ starter
    /\ starter' = FALSE
    /\ StartRunner
    /\ UNCHANGED <<durable, local, agents, recovery, faults, history>>

\* Cancel with a registered runner; without one it changes nothing.
Cancel ==
    /\ pc # "none"
    /\ ~ctxDone
    /\ ctxDone' = TRUE
    /\ UNCHANGED <<durable, starter, pc, local, agents, recovery, faults, history>>

-----------------------------------------------------------------------------
(* run                                                                     *)

\* GetOrchestration; on an error run returns.  A terminal orchestration is
\* executed again: run does not look at the status it has read.
Load ==
    /\ pc = "load"
    /\ \/ /\ pc' = "mark"
          /\ mem' = row
          /\ running' = 0
          /\ UNCHANGED faults
       \/ Fault /\ pc' = "exit" /\ UNCHANGED <<mem, running>>
    /\ UNCHANGED <<durable, starter, pos, launched, agents, ctxDone, recovery, history>>

MarkRunning ==
    /\ pc = "mark"
    /\ pc' = "top"
    /\ WriteStatus("running")
    /\ UNCHANGED <<row, deps, starter, local, agents, ctxDone, recovery, history>>

\* Top of the loop: look at the context, then scan from the first task.
Top ==
    /\ pc = "top"
    /\ pc' = IF ctxDone THEN "sweep" ELSE "scan"
    /\ pos' = 1
    /\ launched' = FALSE
    /\ UNCHANGED <<durable, starter, mem, running, agents, ctxDone, recovery, faults, history>>

\* One iteration of a loop that finishes every queued task with status s.
FinishNextQueued(s) ==
    \E t \in Task :
        /\ mem[t] = "queued"
        /\ \A u \in Task : u < t => mem[u] # "queued"
        /\ mem' = [mem EXCEPT ![t] = s]
        /\ WriteTask(t, s)

NoneQueued == \A t \in Task : mem[t] # "queued"

Sweep ==
    /\ pc = "sweep"
    /\ \/ FinishNextQueued("cancelled") /\ UNCHANGED pc
       \/ NoneQueued /\ pc' = "scan" /\ UNCHANGED <<mem, row, faults>>
    /\ UNCHANGED <<status, deps, starter, pos, launched, running, agents, ctxDone,
                   recovery, history>>

\* Variation: the limit tested with > instead of >=.
AtCapacityOffByOne == running > MaxConcurrency

AtCapacity == running >= MaxConcurrency

\* dependencies(): the first dependency that has not succeeded decides.
FirstUnmet(t, d) ==
    /\ d \in deps[t]
    /\ mem[d] # "succeeded"
    /\ \A e \in deps[t] : e < d => mem[e] = "succeeded"

\* Variation: a dependency that is over counts as met.
ReadyWhenOver(t) == \A d \in deps[t] : mem[d] \notin Active

Ready(t) == \A d \in deps[t] : mem[d] = "succeeded"

Blocked(t) == \E d \in deps[t] : FirstUnmet(t, d) /\ mem[d] \in {"failed", "cancelled"}

\* The scan ends at the first task over the limit or after the last task.
ScanEnd ==
    /\ pc = "scan"
    /\ AtCapacity \/ pos > N
    /\ pc' = "settle"
    /\ UNCHANGED <<durable, starter, local, agents, ctxDone, recovery, faults, history>>

Scanning(t) == pc = "scan" /\ t = pos /\ ~AtCapacity

\* continue: not queued, cancelled, or waiting for a dependency.
ScanSkip(t) ==
    /\ Scanning(t)
    /\ \/ mem[t] # "queued"
       \/ ctxDone
       \/ ~Ready(t) /\ ~Blocked(t)
    /\ pos' = pos + 1
    /\ UNCHANGED <<durable, starter, pc, mem, launched, running, agents, ctxDone,
                   recovery, faults, history>>

ScanBlocked(t) ==
    /\ Scanning(t)
    /\ mem[t] = "queued" /\ ~ctxDone
    /\ Blocked(t)
    /\ mem' = [mem EXCEPT ![t] = "cancelled"]
    /\ WriteTask(t, "cancelled")
    /\ pos' = pos + 1
    /\ UNCHANGED <<status, deps, starter, pc, launched, running, agents, ctxDone,
                   recovery, history>>

\* The row is marked running before the invocation starts.
ScanLaunch(t) ==
    /\ Scanning(t)
    /\ mem[t] = "queued" /\ ~ctxDone
    /\ Ready(t)
    /\ mem' = [mem EXCEPT ![t] = "running"]
    /\ WriteTask(t, "running")
    /\ running' = running + 1
    /\ launched' = TRUE
    /\ flight' = flight \cup {t}
    /\ invoked' = [invoked EXCEPT ![t] = @ + 1]
    /\ pos' = pos + 1
    /\ UNCHANGED <<status, deps, starter, pc, outcomes, ctxDone, recovery, crashes>>

\* External: Invoke returns an answer or an error (its context ends after
\* taskTTL, or with the orchestration's).  The order in which results enter
\* the channel is free, so the channel is a set.
InvokeReturns(t) ==
    /\ t \in flight
    /\ flight' = flight \ {t}
    /\ \E ok \in BOOLEAN : outcomes' = outcomes \cup {[task |-> t, ok |-> ok]}
    /\ UNCHANGED <<durable, starter, pc, local, ctxDone, recovery, faults, history>>

\* After the scan: collect a result, fail what can never run, or finish.
Settle ==
    /\ pc = "settle"
    /\ pc' = IF running > 0 THEN "wait"
             ELSE IF \E t \in Task : mem[t] \in Active
                  THEN IF launched THEN "top" ELSE "strand"
                  ELSE "final"
    /\ UNCHANGED <<durable, starter, local, agents, ctxDone, recovery, faults, history>>

Strand ==
    /\ pc = "strand"
    /\ \/ FinishNextQueued("failed") /\ UNCHANGED pc
       \/ NoneQueued /\ pc' = "final" /\ UNCHANGED <<mem, row, faults>>
    /\ UNCHANGED <<status, deps, starter, pos, launched, running, agents, ctxDone,
                   recovery, history>>

\* Variation: the invocation's own word for success is stored.
OutcomeStatusRaw(o) ==
    IF o.ok THEN "completed" ELSE IF ctxDone THEN "cancelled" ELSE "failed"

OutcomeStatus(o) ==
    IF o.ok THEN "succeeded" ELSE IF ctxDone THEN "cancelled" ELSE "failed"

Collect(o) ==
    /\ pc = "wait"
    /\ o \in outcomes
    /\ outcomes' = outcomes \ {o}
    /\ running' = running - 1
    /\ mem' = [mem EXCEPT ![o.task] = OutcomeStatus(o)]
    /\ WriteTask(o.task, OutcomeStatus(o))
    /\ pc' = "top"
    /\ UNCHANGED <<status, deps, starter, pos, launched, flight, ctxDone, recovery, history>>

FinalStatus ==
    IF ctxDone THEN "cancelled"
    ELSE IF \E t \in Task : mem[t] \in {"failed", "cancelled"} THEN "failed"
    ELSE "succeeded"

Finish ==
    /\ pc = "final"
    /\ pc' = "exit"
    /\ WriteStatus(FinalStatus)
    /\ UNCHANGED <<row, deps, starter, local, agents, ctxDone, recovery, history>>

\* The deferred delete of the cancel function.
Exit ==
    /\ pc = "exit"
    /\ pc' = "none"
    /\ ctxDone' = FALSE
    /\ UNCHANGED <<durable, starter, local, agents, recovery, faults, history>>

-----------------------------------------------------------------------------
(* Recover, once per daemon start, in its own goroutine.                   *)

\* Variation: recovery does not filter on the active statuses.
RecoverListAll ==
    /\ rec = "list"
    /\ \/ rec' = (IF status # "absent" THEN "get" ELSE "done") /\ UNCHANGED faults
       \/ Fault /\ rec' = "done"
    /\ UNCHANGED <<durable, starter, runner, snap, history>>

\* Variation: recovery looks for running orchestrations only.
RecoverListRunning ==
    /\ rec = "list"
    /\ \/ rec' = (IF status = "running" THEN "get" ELSE "done") /\ UNCHANGED faults
       \/ Fault /\ rec' = "done"
    /\ UNCHANGED <<durable, starter, runner, snap, history>>

RecoverList ==
    /\ rec = "list"
    /\ \/ rec' = (IF status \in Active THEN "get" ELSE "done") /\ UNCHANGED faults
       \/ Fault /\ rec' = "done"
    /\ UNCHANGED <<durable, starter, runner, snap, history>>

RecoverGet ==
    /\ rec = "get"
    /\ \/ rec' = "mark" /\ snap' = row /\ UNCHANGED faults
       \/ Fault /\ rec' = "done" /\ UNCHANGED snap
    /\ UNCHANGED <<durable, starter, runner, history>>

\* Variation: recovery queues the interrupted task again.
RecoverMarkRetry(t) ==
    /\ rec = "mark"
    /\ snap[t] = "running"
    /\ \A u \in Task : u < t => snap[u] # "running"
    /\ snap' = [snap EXCEPT ![t] = "queued"]
    /\ WriteTask(t, "queued")
    /\ UNCHANGED <<status, deps, starter, runner, rec, history>>

\* A task that was running when the row was read is failed, not run again.
RecoverMark(t) ==
    /\ rec = "mark"
    /\ snap[t] = "running"
    /\ \A u \in Task : u < t => snap[u] # "running"
    /\ snap' = [snap EXCEPT ![t] = "failed"]
    /\ WriteTask(t, "failed")
    /\ UNCHANGED <<status, deps, starter, runner, rec, history>>

RecoverStart ==
    /\ rec = "mark"
    /\ \A t \in Task : snap[t] # "running"
    /\ rec' = "done"
    /\ StartRunner
    /\ UNCHANGED <<durable, starter, local, agents, snap, faults, history>>

-----------------------------------------------------------------------------
\* The daemon dies, with the agents it runs, and is started again.
Crash ==
    /\ crashes < MaxCrashes
    /\ crashes' = crashes + 1
    /\ starter' = FALSE
    /\ pc' = "none"
    /\ ctxDone' = FALSE
    /\ mem' = AllQueued
    /\ pos' = 1
    /\ launched' = FALSE
    /\ running' = 0
    /\ flight' = {}
    /\ outcomes' = {}
    /\ rec' = "list"
    /\ snap' = AllQueued
    /\ UNCHANGED <<durable, faults, invoked>>

ScanStep == ScanEnd \/ \E t \in Task : ScanSkip(t) \/ ScanBlocked(t) \/ ScanLaunch(t)

RunStep ==
    \/ Load \/ MarkRunning \/ Top \/ Sweep \/ ScanStep \/ Settle \/ Strand
    \/ \E o \in outcomes : Collect(o)
    \/ Finish \/ Exit

RecoverStep == RecoverList \/ RecoverGet \/ RecoverStart \/ \E t \in Task : RecoverMark(t)

\* The orchestration is over and nobody is working on it.
Quiet == pc = "none" /\ rec = "done" /\ ~starter /\ UNCHANGED vars

Next ==
    \/ Create \/ CreateStart \/ Cancel
    \/ RunStep
    \/ \E t \in Task : InvokeReturns(t)
    \/ RecoverStep
    \/ Crash
    \/ Quiet

Spec == Init /\ [][Next]_vars

\* The goroutines are scheduled, and an Invoke ends: its context expires.
FairSpec ==
    /\ Spec
    /\ WF_vars(CreateStart)
    /\ WF_vars(RunStep)
    /\ WF_vars(RecoverStep)
    /\ \A t \in Task : WF_vars(InvokeReturns(t))

-----------------------------------------------------------------------------
(* Properties                                                              *)

TypeOK ==
    /\ status \in TaskStatus \cup {"absent"}
    /\ row \in [Task -> TaskStatus]
    /\ deps \in [Task -> SUBSET Task]
    /\ starter \in BOOLEAN
    /\ pc \in Pc
    /\ mem \in [Task -> TaskStatus]
    /\ pos \in 1..(N + 1)
    /\ launched \in BOOLEAN
    /\ running \in Nat
    /\ flight \in SUBSET Task
    /\ outcomes \in SUBSET [task : Task, ok : BOOLEAN]
    /\ ctxDone \in BOOLEAN
    /\ rec \in {"list", "get", "mark", "done"}
    /\ snap \in [Task -> TaskStatus]
    /\ faults \in Nat
    /\ crashes \in Nat
    /\ invoked \in [Task -> Nat]

\* A task is handed to its agent again only if the store lost the write that
\* recorded the first time: crashes, restarts and a recovery that runs beside
\* a live runner never repeat it (service.go: run, Recover).
AtMostOncePerFault ==
    \A t \in Task :
        invoked[t] <= faults + (IF row[t] = "queued" THEN 0 ELSE 1)

\* Never more agents at work than max_concurrency, results that wait in the
\* channel included, over any number of runs of the same orchestration.
ConcurrencyBound ==
    Cardinality(flight \cup {o.task : o \in outcomes}) <= MaxConcurrency

\* Once an orchestration is over, neither its status nor a task's changes
\* ("orchestration is already terminal").
TerminalIsFinal ==
    [][(status \in Terminal) => UNCHANGED <<status, row>>]_vars

\* An orchestration that was accepted ends, daemon crashes notwithstanding,
\* and stays ended.
EveryOrchestrationEnds ==
    /\ status = "queued" ~> status \in Terminal
    /\ <>[](status \in Terminal \cup {"absent"})

\* A task that cannot run because a dependency failed ends cancelled: in an
\* orchestration that failed, only a task that was handed to its agent may be
\* failed itself (TestOrchestrationFailureBlocksDependentTask).
BlockedTasksAreCancelled ==
    status = "failed" => \A t \in Task : row[t] = "failed" => invoked[t] > 0

\* What the client was promised: the database follows TaskDag.
Dag == INSTANCE TaskDag WITH task <- row, cancel <- ctxDone

\* With a store that works and no request served before recovery is done, the
\* rows follow TaskDag, through crashes and cancellations at any point.
RefinesDag == Dag!DagSpec

=============================================================================
