------------------------- MODULE OrchestrationProofs -------------------------
(***************************************************************************)
(* Proofs about Orchestration, for every number of tasks, concurrency      *)
(* limit, and number of faults and crashes.                                *)
(***************************************************************************)
EXTENDS Orchestration, FiniteSetTheorems, TLAPS

\* Program counters at which run has loaded the rows and not finished.
Executing == {"mark", "top", "sweep", "scan", "settle", "strand", "wait", "final"}

\* Nothing exists before Create.
AbsentInv ==
    status = "absent" =>
        /\ row = AllQueued
        /\ ~starter
        /\ pc = "none"
        /\ rec \in {"list", "done"}

\* The runner waits only for a task it has launched.
WaitInv == pc = "wait" => running > 0

\* A task the runner may still launch is queued in the database as well.
MemInv == pc \in Executing => \A t \in Task : mem[t] = "queued" => row[t] = "queued"

\* A task that recovery is about to fail has left the queue for good.
SnapInv == rec = "mark" => \A t \in Task : snap[t] = "running" => row[t] # "queued"

OnceInv == TypeOK /\ AbsentInv /\ WaitInv /\ MemInv /\ SnapInv /\ AtMostOncePerFault

USE NAssumption, ConcurrencyAssumption, BoundsAssumption, ServeAssumption

LEMMA OnceInit == Init => OnceInv
<1> SUFFICES ASSUME Init PROVE OnceInv
    OBVIOUS
<1>1. 1 \in 1..(N + 1)
  OBVIOUS
<1>2. AllQueued \in [Task -> TaskStatus] /\ \A t \in Task : AllQueued[t] = "queued"
  BY DEF AllQueued, TaskStatus
<1>3. TypeOK
  BY <1>1, <1>2 DEF Init, TypeOK, TaskStatus, Pc
<1>4. AbsentInv /\ WaitInv /\ MemInv /\ SnapInv
  BY DEF Init, AbsentInv, WaitInv, MemInv, SnapInv, Executing
<1>5. AtMostOncePerFault
  BY <1>2 DEF Init, AtMostOncePerFault
<1> QED
  BY <1>3, <1>4, <1>5 DEF OnceInv

\* A write of a task row changes that row to the given status, or nothing.
LEMMA WriteTaskType ==
    ASSUME TypeOK, NEW t \in Task, NEW s \in TaskStatus, WriteTask(t, s)
    PROVE  /\ row' \in [Task -> TaskStatus]
           /\ faults' \in Nat
           /\ \A u \in Task \ {t} : row'[u] = row[u]
           /\ \/ faults' = faults /\ row'[t] = s
              \/ faults' = faults + 1 /\ row'[t] = row[t]
BY DEF TypeOK, WriteTask, Fault

LEMMA OnceStep == OnceInv /\ [Next]_vars => OnceInv'
<1> SUFFICES ASSUME OnceInv, [Next]_vars
             PROVE  OnceInv'
    OBVIOUS
<1> USE DEF OnceInv
<1>1. CASE Create
  BY <1>1 DEF Create, TypeOK, AbsentInv, WaitInv, MemInv, SnapInv, AtMostOncePerFault,
       runner, local, agents, recovery, history, AllQueued, TaskStatus, Executing
<1>2. CASE CreateStart
  BY <1>2 DEF CreateStart, StartRunner, TypeOK, AbsentInv, WaitInv, MemInv, SnapInv,
       AtMostOncePerFault, durable, local, agents, recovery, history, Pc, Executing
<1>3. CASE Cancel
  BY <1>3 DEF Cancel, TypeOK, AbsentInv, WaitInv, MemInv, SnapInv, AtMostOncePerFault,
       durable, local, agents, recovery, history
<1>4. CASE Load
  BY <1>4 DEF Load, Fault, TypeOK, AbsentInv, WaitInv, MemInv, SnapInv, AtMostOncePerFault,
       durable, agents, recovery, history, Pc, Executing
<1>5. CASE MarkRunning
  BY <1>5 DEF MarkRunning, WriteStatus, Fault, TypeOK, AbsentInv, WaitInv, MemInv, SnapInv,
       AtMostOncePerFault, local, agents, recovery, history, Pc, Executing, TaskStatus
<1>6. CASE Top
  <2>1. 1 \in 1..(N + 1)
    OBVIOUS
  <2> QED
    BY <1>6, <2>1 DEF Top, TypeOK, AbsentInv, WaitInv, MemInv, SnapInv, AtMostOncePerFault,
         durable, agents, recovery, history, Pc, Executing
<1>7. CASE Sweep
  BY <1>7, WriteTaskType DEF Sweep, FinishNextQueued, TypeOK, AbsentInv, WaitInv, MemInv,
       SnapInv, AtMostOncePerFault, agents, recovery, history, Pc, Executing, TaskStatus
<1>8. CASE ScanEnd
  BY <1>8 DEF ScanEnd, TypeOK, AbsentInv, WaitInv, MemInv, SnapInv, AtMostOncePerFault,
       durable, local, agents, recovery, history, Pc, Executing
<1>9. ASSUME NEW t \in Task, ScanSkip(t)
      PROVE  OnceInv'
  BY <1>9 DEF ScanSkip, Scanning, TypeOK, AbsentInv, WaitInv, MemInv, SnapInv,
       AtMostOncePerFault, durable, agents, recovery, history, Task
<1>10. ASSUME NEW t \in Task, ScanBlocked(t)
       PROVE  OnceInv'
  <2>1. pos' \in 1..(N + 1)
    BY <1>10 DEF ScanBlocked, Scanning, TypeOK, Task
  <2> QED
    BY <1>10, <2>1, WriteTaskType DEF ScanBlocked, Scanning, TypeOK, AbsentInv, WaitInv,
         MemInv, SnapInv, AtMostOncePerFault, agents, recovery, history, TaskStatus, Executing
<1>11. ASSUME NEW t \in Task, ScanLaunch(t)
       PROVE  OnceInv'
  <2>1. pos' \in 1..(N + 1)
    BY <1>11 DEF ScanLaunch, Scanning, TypeOK, Task
  <2>2. /\ row' \in [Task -> TaskStatus] /\ faults' \in Nat
        /\ \A u \in Task \ {t} : row'[u] = row[u]
        /\ \/ faults' = faults /\ row'[t] = "running"
           \/ faults' = faults + 1 /\ row'[t] = row[t]
    BY <1>11, WriteTaskType DEF ScanLaunch, TaskStatus
  <2>3. TypeOK'
    <3>1. mem' \in [Task -> TaskStatus]
      BY <1>11 DEF ScanLaunch, TypeOK, TaskStatus
    <3>2. invoked' \in [Task -> Nat] /\ running' \in Nat /\ flight' \in SUBSET Task
      BY <1>11 DEF ScanLaunch, TypeOK
    <3> QED
      BY <1>11, <2>1, <2>2, <3>1, <3>2 DEF ScanLaunch, TypeOK, recovery
  <2>4. row[t] = "queued"
    BY <1>11 DEF ScanLaunch, Scanning, MemInv, Executing
  <2>5. AbsentInv' /\ WaitInv' /\ MemInv' /\ SnapInv'
    BY <1>11, <2>2 DEF ScanLaunch, Scanning, AbsentInv, WaitInv, MemInv, SnapInv, recovery,
         TypeOK, Executing
  <2>6. AtMostOncePerFault'
    BY <1>11, <2>2, <2>4 DEF ScanLaunch, AtMostOncePerFault, TypeOK
  <2> QED
    BY <2>3, <2>5, <2>6
<1>12. CASE Settle
  BY <1>12 DEF Settle, TypeOK, AbsentInv, WaitInv, MemInv, SnapInv, AtMostOncePerFault,
       durable, local, agents, recovery, history, Pc, Executing
<1>13. CASE Strand
  BY <1>13, WriteTaskType DEF Strand, FinishNextQueued, TypeOK, AbsentInv, WaitInv, MemInv,
       SnapInv, AtMostOncePerFault, agents, recovery, history, Pc, Executing, TaskStatus
<1>14. ASSUME NEW o \in outcomes, Collect(o)
       PROVE  OnceInv'
  <2>1. o.task \in Task /\ OutcomeStatus(o) \in TaskStatus /\ OutcomeStatus(o) # "queued"
    BY DEF TypeOK, OutcomeStatus, TaskStatus
  <2> QED
    BY <1>14, <2>1, WriteTaskType DEF Collect, TypeOK, AbsentInv, WaitInv, MemInv, SnapInv,
         AtMostOncePerFault, recovery, history, Pc, Executing
<1>15. CASE Finish
  BY <1>15 DEF Finish, WriteStatus, FinalStatus, Fault, TypeOK, AbsentInv, WaitInv, MemInv,
       SnapInv, AtMostOncePerFault, local, agents, recovery, history, Pc, Executing, TaskStatus
<1>16. CASE Exit
  BY <1>16 DEF Exit, TypeOK, AbsentInv, WaitInv, MemInv, SnapInv, AtMostOncePerFault,
       durable, local, agents, recovery, history, Pc, Executing
<1>17. ASSUME NEW t \in Task, InvokeReturns(t)
       PROVE  OnceInv'
  BY <1>17 DEF InvokeReturns, TypeOK, AbsentInv, WaitInv, MemInv, SnapInv,
       AtMostOncePerFault, durable, local, recovery, history
<1>18. CASE RecoverList
  BY <1>18 DEF RecoverList, Fault, TypeOK, AbsentInv, WaitInv, MemInv, SnapInv,
       AtMostOncePerFault, durable, runner, local, agents, history, Active
<1>19. CASE RecoverGet
  BY <1>19 DEF RecoverGet, Fault, TypeOK, AbsentInv, WaitInv, MemInv, SnapInv,
       AtMostOncePerFault, durable, runner, local, agents, history
<1>20. ASSUME NEW t \in Task, RecoverMark(t)
       PROVE  OnceInv'
  BY <1>20, WriteTaskType DEF RecoverMark, TypeOK, AbsentInv, WaitInv, MemInv, SnapInv,
       AtMostOncePerFault, runner, local, agents, history, TaskStatus
<1>21. CASE RecoverStart
  BY <1>21 DEF RecoverStart, StartRunner, TypeOK, AbsentInv, WaitInv, MemInv, SnapInv,
       AtMostOncePerFault, durable, local, agents, history, Pc, Executing
<1>22. CASE Crash
  <2>1. AllQueued \in [Task -> TaskStatus] /\ 1 \in 1..(N + 1)
    BY DEF AllQueued, TaskStatus
  <2>2. TypeOK'
    <3>1. /\ mem' \in [Task -> TaskStatus] /\ snap' \in [Task -> TaskStatus]
          /\ pos' \in 1..(N + 1) /\ running' \in Nat /\ crashes' \in Nat
      BY <1>22, <2>1 DEF Crash, TypeOK
    <3>2. pc' \in Pc /\ rec' \in {"list", "get", "mark", "done"}
      BY <1>22 DEF Crash, Pc
    <3>3. flight' \in SUBSET Task /\ outcomes' \in SUBSET [task : Task, ok : BOOLEAN]
      BY <1>22 DEF Crash
    <3> QED
      BY <1>22, <3>1, <3>2, <3>3 DEF Crash, TypeOK, durable
  <2>3. AbsentInv' /\ WaitInv' /\ MemInv' /\ SnapInv'
    BY <1>22 DEF Crash, AbsentInv, WaitInv, MemInv, SnapInv, durable, Executing
  <2>4. AtMostOncePerFault'
    BY <1>22 DEF Crash, AtMostOncePerFault, durable
  <2> QED
    BY <2>2, <2>3, <2>4
<1>23. CASE UNCHANGED vars
  BY <1>23 DEF vars, TypeOK, AbsentInv, WaitInv, MemInv, SnapInv, AtMostOncePerFault
<1> QED
  BY <1>1, <1>2, <1>3, <1>4, <1>5, <1>6, <1>7, <1>8, <1>9, <1>10, <1>11, <1>12, <1>13,
     <1>14, <1>15, <1>16, <1>17, <1>18, <1>19, <1>20, <1>21, <1>22, <1>23
  DEF Next, RunStep, ScanStep, RecoverStep, Quiet

\* Every reachable state has the types the code's structures give it.
THEOREM TypeCorrect == Spec => []TypeOK
<1>1. OnceInv => TypeOK
  BY DEF OnceInv
<1> QED
  BY <1>1, OnceInit, OnceStep, PTL DEF Spec

\* A task is invoked at most once, plus once for each store call that failed,
\* whatever crashes and however recovery and the runner interleave.
THEOREM TaskAtMostOnce == Spec => []AtMostOncePerFault
<1>1. OnceInv => AtMostOncePerFault
  BY DEF OnceInv
<1> QED
  BY <1>1, OnceInit, OnceStep, PTL DEF Spec

-----------------------------------------------------------------------------
(* An ended orchestration stays ended when no request is served before     *)
(* recovery is done.                                                       *)

\* While recovery works nobody else does, and whoever works on the
\* orchestration found it active.
OwnerInv ==
    /\ status = "absent" => pc = "none" /\ ~starter
    /\ rec # "done" => pc = "none" /\ ~starter
    /\ rec \in {"get", "mark"} => status \in Active
    /\ pc \in Executing \cup {"load"} => status \in Active
    /\ starter => status \in Active /\ pc = "none"

LEMMA OwnerInit == Init => OwnerInv
BY DEF Init, OwnerInv, Executing, Active

LEMMA OwnerStep ==
    ASSUME ~ServeDuringRecovery, OwnerInv, [Next]_vars
    PROVE  OwnerInv'
<1> USE DEF OwnerInv, Active, Executing
<1>1. CASE Create
  BY <1>1 DEF Create, runner, recovery
<1>2. CASE CreateStart
  BY <1>2 DEF CreateStart, StartRunner, durable, recovery
<1>3. CASE Cancel
  BY <1>3 DEF Cancel, durable, recovery
<1>4. CASE Load \/ MarkRunning \/ Top \/ Sweep \/ Settle \/ Strand \/ Finish \/ Exit
  BY <1>4 DEF Load, MarkRunning, Top, Sweep, Settle, Strand, Finish, Exit, WriteStatus,
       FinalStatus, durable, recovery
<1>5. CASE ScanStep
  BY <1>5 DEF ScanStep, ScanEnd, ScanSkip, ScanBlocked, ScanLaunch, Scanning, durable, recovery
<1>6. ASSUME NEW o \in outcomes, Collect(o)
      PROVE  OwnerInv'
  BY <1>6 DEF Collect, recovery
<1>7. ASSUME NEW t \in Task, InvokeReturns(t)
      PROVE  OwnerInv'
  BY <1>7 DEF InvokeReturns, durable, recovery
<1>8. CASE RecoverList \/ RecoverGet \/ RecoverStart
  BY <1>8 DEF RecoverList, RecoverGet, RecoverStart, StartRunner, durable, runner
<1>9. ASSUME NEW t \in Task, RecoverMark(t)
      PROVE  OwnerInv'
  BY <1>9 DEF RecoverMark, runner
<1>10. CASE Crash
  BY <1>10 DEF Crash, durable
<1>11. CASE UNCHANGED vars
  BY <1>11 DEF vars
<1> QED
  BY <1>1, <1>2, <1>3, <1>4, <1>5, <1>6, <1>7, <1>8, <1>9, <1>10, <1>11
  DEF Next, RunStep, RecoverStep, Quiet

\* A step taken when the orchestration is over writes neither table.
LEMMA EndedStep ==
    ASSUME OwnerInv, [Next]_vars, status \in Terminal
    PROVE  UNCHANGED <<status, row>>
<1>1. /\ status \notin Active /\ status # "absent"
      /\ pc \notin Executing \cup {"load"}
      /\ rec \notin {"get", "mark"}
      /\ ~starter
  BY DEF OwnerInv, Active, Terminal
<1>2. ~RunStep \/ Exit
  BY <1>1 DEF RunStep, Load, MarkRunning, Top, Sweep, ScanStep, ScanEnd, ScanSkip, ScanBlocked,
       ScanLaunch, Scanning, Settle, Strand, Collect, Finish, Executing
<1>3. ~RecoverStep \/ RecoverList
  BY <1>1 DEF RecoverStep, RecoverGet, RecoverMark, RecoverStart
<1>4. ~Create /\ ~CreateStart
  BY <1>1 DEF Create, CreateStart
<1> QED
  BY <1>2, <1>3, <1>4 DEF Next, Cancel, Exit, InvokeReturns, RecoverList, Crash, Quiet,
       durable, vars

\* When every request waits for recovery, an orchestration that is over never
\* changes, failed store calls and crashes included.
THEOREM EndedStaysEnded ==
    ASSUME ~ServeDuringRecovery
    PROVE  Spec => TerminalIsFinal
<1>1. OwnerInv /\ [Next]_vars => OwnerInv'
  BY OwnerStep
<1>2. OwnerInv /\ [Next]_vars => [(status \in Terminal) => UNCHANGED <<status, row>>]_vars
  BY EndedStep
<1> QED
  BY <1>1, <1>2, OwnerInit, PTL DEF Spec, TerminalIsFinal

-----------------------------------------------------------------------------
(* The concurrency limit.                                                  *)

Busy == flight \cup {o.task : o \in outcomes}

\* The runner's count is the number of agents at work: each busy task is
\* running in memory, has one result at most, and none once the run is over.
CountInv ==
    /\ running = Cardinality(Busy)
    /\ running <= MaxConcurrency
    /\ \A o \in outcomes : o.task \notin flight
    /\ \A o, p \in outcomes : o.task = p.task => o = p
    /\ pc \in Executing => \A t \in Busy : mem[t] = "running"
    /\ pc \in {"none", "load", "strand", "final", "exit"} => Busy = {}

LEMMA BusyFinite == TypeOK => Busy \subseteq Task /\ IsFiniteSet(Busy)
<1> SUFFICES ASSUME TypeOK PROVE Busy \subseteq Task /\ IsFiniteSet(Busy)
    OBVIOUS
<1>1. Busy \subseteq Task
  BY DEF Busy, TypeOK
<1>2. IsFiniteSet(Task)
  BY FS_Interval DEF Task
<1> QED
  BY <1>1, <1>2, FS_Subset

LEMMA CountInit == Init => CountInv
<1> SUFFICES ASSUME Init PROVE CountInv
    OBVIOUS
<1>1. Busy = {} /\ outcomes = {}
  BY DEF Init, Busy
<1>2. Cardinality(Busy) = 0
  BY <1>1, FS_EmptySet
<1> QED
  BY <1>1, <1>2 DEF Init, CountInv

\* Steps that leave the agents, the results and the count alone.
LEMMA CountFrame ==
    ASSUME CountInv, UNCHANGED <<flight, outcomes, running>>,
           pc' \in Executing => \A t \in Busy : mem'[t] = "running",
           pc' \in {"none", "load", "strand", "final", "exit"} => Busy = {}
    PROVE  CountInv'
BY DEF CountInv, Busy

LEMMA CountStep == OnceInv /\ CountInv /\ [Next]_vars => CountInv'
<1> SUFFICES ASSUME OnceInv, CountInv, [Next]_vars
             PROVE  CountInv'
    OBVIOUS
<1>0. TypeOK /\ IsFiniteSet(Busy) /\ Busy \subseteq Task
  BY BusyFinite DEF OnceInv
<1>1. CASE Create
  BY <1>1, CountFrame DEF Create, runner, local, agents, CountInv
<1>2. CASE CreateStart \/ RecoverStart
  BY <1>2, CountFrame DEF CreateStart, RecoverStart, StartRunner, local, agents, CountInv,
       Executing
<1>3. CASE Cancel
  BY <1>3, CountFrame DEF Cancel, local, agents, CountInv
<1>4. CASE Load
  <2>1. Busy = {} /\ running = 0
    BY <1>4, FS_EmptySet DEF Load, CountInv
  <2> QED
    BY <1>4, <2>1, CountFrame DEF Load, agents
<1>5. CASE MarkRunning \/ Top \/ ScanEnd
  BY <1>5, CountFrame DEF MarkRunning, Top, ScanEnd, local, agents, CountInv, Executing
<1>6. CASE Sweep \/ Strand
  <2>1. ASSUME NEW s, FinishNextQueued(s), pc \in Executing
        PROVE  \A t \in Busy : mem'[t] = "running"
    BY <2>1, <1>0 DEF FinishNextQueued, CountInv, TypeOK
  <2> QED
    BY <1>6, <2>1, CountFrame DEF Sweep, Strand, agents, CountInv, Executing
<1>7. ASSUME NEW t \in Task, ScanSkip(t)
      PROVE  CountInv'
  BY <1>7, CountFrame DEF ScanSkip, agents, CountInv
<1>8. ASSUME NEW t \in Task, ScanBlocked(t)
      PROVE  CountInv'
  BY <1>0, <1>8, CountFrame DEF ScanBlocked, Scanning, agents, CountInv, TypeOK, Executing
<1>9. ASSUME NEW t \in Task, ScanLaunch(t)
      PROVE  CountInv'
  <2>1. t \notin Busy
    BY <1>9 DEF ScanLaunch, Scanning, CountInv, Executing
  <2>2. Busy' = Busy \cup {t}
    BY <1>9 DEF ScanLaunch, Busy
  <2>3. Cardinality(Busy') = Cardinality(Busy) + 1
    BY <1>0, <2>1, <2>2, FS_AddElement
  <2>4. running' = Cardinality(Busy') /\ running' <= MaxConcurrency
    BY <1>0, <1>9, <2>3 DEF ScanLaunch, Scanning, AtCapacity, CountInv, TypeOK
  <2>5. \A u \in Busy' : mem'[u] = "running"
    BY <1>0, <1>9, <2>2 DEF ScanLaunch, Scanning, CountInv, TypeOK, Executing
  <2>6. \A o \in outcomes : o.task # t
    BY <2>1 DEF Busy
  <2> QED
    BY <1>9, <2>4, <2>5, <2>6 DEF ScanLaunch, Scanning, CountInv
<1>10. CASE Settle
  <2>1. running = 0 => Busy = {}
    BY <1>0, FS_EmptySet DEF CountInv
  <2> QED
    BY <1>0, <1>10, <2>1, CountFrame DEF Settle, local, agents, CountInv, TypeOK, Executing
<1>11. ASSUME NEW o \in outcomes, Collect(o)
       PROVE  CountInv'
  <2>1. o.task \in Busy /\ o.task \in Task
    BY <1>0 DEF Busy, TypeOK
  <2>2. Busy' = Busy \ {o.task}
    BY <1>11 DEF Collect, Busy, CountInv
  <2>3. Cardinality(Busy') = Cardinality(Busy) - 1
    BY <1>0, <2>1, <2>2, FS_RemoveElement
  <2>4. \A u \in Busy' : mem'[u] = "running"
    BY <1>0, <1>11, <2>2 DEF Collect, CountInv, TypeOK, Executing
  <2> QED
    BY <1>0, <1>11, <2>3, <2>4 DEF Collect, CountInv, TypeOK
<1>12. CASE Finish \/ Exit
  BY <1>12, CountFrame DEF Finish, Exit, local, agents, CountInv, Executing
<1>13. ASSUME NEW t \in Task, InvokeReturns(t)
       PROVE  CountInv'
  <2>1. PICK ok \in BOOLEAN : outcomes' = outcomes \cup {[task |-> t, ok |-> ok]}
    BY <1>13 DEF InvokeReturns
  <2>2. flight' = flight \ {t} /\ t \in flight
    BY <1>13 DEF InvokeReturns
  <2>3. Busy' = Busy
    <3> DEFINE new == [task |-> t, ok |-> ok]
    <3>0. new.task = t
      OBVIOUS
    <3> HIDE DEF new
    <3>1. {o.task : o \in outcomes'} = {o.task : o \in outcomes} \cup {t}
      <4>1. outcomes' = outcomes \cup {new}
        BY <2>1 DEF new
      <4> QED
        BY <3>0, <4>1
    <3> QED
      BY <2>2, <3>1 DEF Busy
  <2>4. UNCHANGED <<running, pc, mem>>
    BY <1>13 DEF InvokeReturns, local
  <2> QED
    BY <2>1, <2>2, <2>3, <2>4 DEF CountInv
<1>14. CASE RecoverList \/ RecoverGet
  BY <1>14, CountFrame DEF RecoverList, RecoverGet, runner, local, agents, CountInv
<1>15. ASSUME NEW t \in Task, RecoverMark(t)
       PROVE  CountInv'
  BY <1>15, CountFrame DEF RecoverMark, runner, local, agents, CountInv
<1>16. CASE Crash
  <2>1. Busy' = {} /\ outcomes' = {} /\ flight' = {} /\ running' = 0
    BY <1>16 DEF Crash, Busy
  <2>2. Cardinality(Busy') = 0
    BY <2>1, FS_EmptySet
  <2> QED
    BY <2>1, <2>2 DEF CountInv
<1>17. CASE UNCHANGED vars
  BY <1>17, CountFrame DEF vars, CountInv
<1> QED
  BY <1>1, <1>2, <1>3, <1>4, <1>5, <1>6, <1>7, <1>8, <1>9, <1>10, <1>11, <1>12, <1>13,
     <1>14, <1>15, <1>16, <1>17
  DEF Next, RunStep, ScanStep, RecoverStep, Quiet

\* Never more agents at work than max_concurrency, over any number of runs,
\* recoveries and crashes.
THEOREM ConcurrencyBounded == Spec => []ConcurrencyBound
<1>1. CountInv => ConcurrencyBound
  BY DEF CountInv, ConcurrencyBound, Busy
<1> QED
  BY <1>1, OnceInit, OnceStep, CountInit, CountStep, PTL DEF Spec

-----------------------------------------------------------------------------
(* The rows follow TaskDag when the store works and no request is served   *)
(* before recovery is done.                                                *)

\* What the runner and the recovery know of the rows.
RowsInv ==
    /\ rec = "mark" => snap = row
    /\ starter \/ pc = "load" => \A t \in Task : row[t] # "running"
    /\ pc \in Executing => mem = row /\ \A t \in Task : row[t] = "running" => t \in Busy
    /\ pc \in Executing \ {"mark"} => status = "running"
    /\ pc = "final" => \A t \in Task : row[t] \in Terminal

\* The context is cancelled only while it is registered, and the sweep is
\* entered only under a cancelled one.
ContextInv == (ctxDone => pc # "none") /\ (pc = "sweep" => ctxDone)

\* A task the scan has passed while no agent is at work waits for one that did
\* not succeed, or for one that waits as well.
Stuck(t) == ctxDone \/ \E d \in deps[t] : row[d] \in {"queued", "failed", "cancelled"}
ScanInv ==
    /\ pc \in {"scan", "settle", "strand"} /\ Busy = {} =>
          \A t \in Task : t < pos /\ row[t] = "queued" => Stuck(t)
    /\ pc = "settle" /\ Busy = {} => pos > N
    /\ pc = "strand" => pos > N

DagInv == RowsInv /\ ContextInv /\ ScanInv /\ Acyclic(deps)

LEMMA NoFault ==
    ASSUME MaxFaults = 0, TypeOK
    PROVE  /\ ~Fault
           /\ \A t \in Task : \A s : WriteTask(t, s) => row' = [row EXCEPT ![t] = s]
           /\ \A s : WriteStatus(s) => status' = s
BY DEF Fault, WriteTask, WriteStatus, TypeOK

LEMMA DagInvInit == Init => DagInv
<1> SUFFICES ASSUME Init PROVE DagInv
  OBVIOUS
<1>1. RowsInv /\ ContextInv /\ ScanInv
  BY DEF Init, RowsInv, ContextInv, ScanInv, Executing, AllQueued
<1>2. \A t \in Task : deps[t] = {}
  BY DEF Init
<1>3. Acyclic(deps)
  BY <1>2 DEF Acyclic
<1> QED
  BY <1>1, <1>3 DEF DagInv

\* No agent is at work and the count is zero: the same thing.
LEMMA NobodyBusy == OnceInv /\ CountInv => (running = 0 <=> Busy = {})
BY BusyFinite, FS_EmptySet DEF OnceInv, CountInv

\* A queued task that is finished without a run leaves the others stuck.
LEMMA FinishKeepsStuck ==
    ASSUME TypeOK, NEW t \in Task, NEW s \in {"failed", "cancelled"},
           row' = [row EXCEPT ![t] = s], UNCHANGED <<deps, ctxDone>>
    PROVE  /\ \A u \in Task : row'[u] = "queued" => row[u] = "queued"
           /\ \A u \in Task : Stuck(u) => Stuck(u)'
<1>1. \A u \in Task : row'[u] = IF u = t THEN s ELSE row[u]
  BY DEF TypeOK
<1>2. \A u \in Task : deps[u] \subseteq Task
  BY DEF TypeOK
<1> QED
  BY <1>1, <1>2 DEF Stuck

\* The rows, the copies of them and who may read which.
LEMMA DagInvStep ==
    ASSUME MaxFaults = 0, ~ServeDuringRecovery, OnceInv, OwnerInv, CountInv, DagInv, [Next]_vars
    PROVE  DagInv'
<1>0. TypeOK /\ RowsInv /\ ContextInv /\ ScanInv /\ Acyclic(deps)
  BY DEF OnceInv, DagInv
<1> USE DEF Executing
<1>1. CASE Create
  <2>1. /\ status = "absent" /\ rec = "done" /\ row' = AllQueued /\ Acyclic(deps')
        /\ UNCHANGED <<pc, mem, rec, snap, ctxDone>>
    BY <1>1 DEF Create, runner, recovery, local
  <2>2. pc = "none"
    BY <2>1 DEF OwnerInv
  <2> QED
    BY <1>0, <2>1, <2>2 DEF DagInv, RowsInv, ContextInv, ScanInv, AllQueued
<1>2. CASE CreateStart
  <2>1. /\ starter /\ pc = "none" /\ pc' = "load" /\ starter' = FALSE /\ ctxDone' = FALSE
        /\ UNCHANGED <<status, row, deps, rec, snap>>
    BY <1>2 DEF CreateStart, StartRunner, durable, recovery, OwnerInv
  <2> QED
    BY <1>0, <2>1 DEF DagInv, RowsInv, ContextInv, ScanInv
<1>3. CASE Cancel
  <2>1. pc # "none" /\ ctxDone' = TRUE
        /\ UNCHANGED <<status, row, deps, starter, pc, mem, pos, flight, outcomes, rec, snap>>
    BY <1>3 DEF Cancel, durable, local, agents, recovery
  <2>2. Busy' = Busy /\ Acyclic(deps)'
    BY <1>0, <2>1 DEF Busy, Acyclic
  <2> QED
    BY <1>0, <2>1, <2>2 DEF DagInv, RowsInv, ContextInv, ScanInv, Stuck
<1>4. CASE Load
  <2>1. /\ pc = "load" /\ pc' = "mark" /\ mem' = row
        /\ UNCHANGED <<status, row, deps, starter, ctxDone, rec, snap>>
    BY <1>0, <1>4, NoFault DEF Load, durable, recovery
  <2>2. ~starter
    BY <2>1 DEF OwnerInv
  <2> QED
    BY <1>0, <2>1, <2>2 DEF DagInv, RowsInv, ContextInv, ScanInv
<1>5. CASE MarkRunning
  <2>1. /\ pc = "mark" /\ pc' = "top" /\ status' = "running"
        /\ UNCHANGED <<row, deps, starter, ctxDone, rec, snap, mem, flight, outcomes>>
    BY <1>0, <1>5, NoFault DEF MarkRunning, local, agents, recovery
  <2>2. Busy' = Busy
    BY <2>1 DEF Busy
  <2> QED
    BY <1>0, <2>1, <2>2 DEF DagInv, RowsInv, ContextInv, ScanInv
<1>6. CASE Top
  <2>1. /\ pc = "top" /\ pc' = (IF ctxDone THEN "sweep" ELSE "scan") /\ pos' = 1
        /\ UNCHANGED <<status, row, deps, starter, ctxDone, rec, snap, mem, flight, outcomes>>
    BY <1>6 DEF Top, durable, agents, recovery
  <2>2. Busy' = Busy
    BY <2>1 DEF Busy
  <2>3. \A t \in Task : ~(t < 1)
    BY DEF Task
  <2> QED
    BY <1>0, <2>1, <2>2, <2>3 DEF DagInv, RowsInv, ContextInv, ScanInv
<1>7. CASE Sweep \/ Strand
  <2>1. /\ pc \in {"sweep", "strand"} /\ status = "running" /\ ~starter /\ mem = row /\ rec = "done"
        /\ UNCHANGED <<status, deps, starter, pos, flight, outcomes, ctxDone, rec, snap>>
    BY <1>0, <1>7 DEF Sweep, Strand, agents, recovery, RowsInv, OwnerInv
  <2>2. Busy' = Busy
    BY <2>1 DEF Busy
  <2>3. CASE UNCHANGED <<mem, row>> /\ NoneQueued /\ pc' = IF pc = "sweep" THEN "scan" ELSE "final"
    <3>1. CASE pc = "sweep"
      BY <1>0, <2>1, <2>2, <2>3, <3>1 DEF DagInv, RowsInv, ContextInv, ScanInv, NoneQueued
    <3>2. CASE pc = "strand"
      <4>1. Busy = {}
        BY <3>2 DEF CountInv
      <4>2. \A t \in Task : row[t] \in Terminal
        BY <1>0, <2>1, <2>3, <4>1 DEF RowsInv, NoneQueued, TypeOK, TaskStatus, Terminal
      <4> QED
        BY <1>0, <2>1, <2>2, <2>3, <3>2, <4>2 DEF DagInv, RowsInv, ContextInv, ScanInv
    <3> QED
      BY <2>1, <3>1, <3>2
  <2>4. ASSUME NEW s \in {"failed", "cancelled"}, FinishNextQueued(s), pc' = pc
        PROVE  DagInv'
    <3>1. PICK t \in Task : row[t] = "queued" /\ mem' = [mem EXCEPT ![t] = s] /\ WriteTask(t, s)
      BY <2>1, <2>4 DEF FinishNextQueued
    <3>2. row' = [row EXCEPT ![t] = s] /\ mem' = row'
      BY <1>0, <2>1, <3>1, NoFault
    <3>3. /\ \A u \in Task : row'[u] = "queued" => row[u] = "queued"
          /\ \A u \in Task : Stuck(u) => Stuck(u)'
      BY <1>0, <2>1, <3>2, FinishKeepsStuck
    <3>4. \A u \in Task : row'[u] = "running" => row[u] = "running"
      BY <1>0, <3>2 DEF TypeOK
    <3>5. RowsInv' /\ ContextInv'
      BY <1>0, <2>1, <2>2, <2>4, <3>2, <3>4 DEF RowsInv, ContextInv
    <3>6. ScanInv'
      BY <1>0, <2>1, <2>2, <2>4, <3>3 DEF ScanInv
    <3> QED
      BY <1>0, <2>1, <3>5, <3>6 DEF DagInv
  <2> QED
    BY <1>7, <2>3, <2>4 DEF Sweep, Strand
<1>8. CASE ScanEnd
  <2>1. /\ pc = "scan" /\ pc' = "settle" /\ (AtCapacity \/ pos > N)
        /\ UNCHANGED <<status, row, deps, starter, pos, mem, flight, outcomes, ctxDone, rec, snap>>
    BY <1>8 DEF ScanEnd, durable, local, agents, recovery
  <2>2. Busy' = Busy
    BY <2>1 DEF Busy
  <2>3. Busy = {} => pos > N
    BY <2>1, NobodyBusy DEF AtCapacity
  <2> QED
    BY <1>0, <2>1, <2>2, <2>3 DEF DagInv, RowsInv, ContextInv, ScanInv, Stuck
<1>9. ASSUME NEW t \in Task, ScanSkip(t) PROVE DagInv'
  <2>1. /\ pc = "scan" /\ pc' = "scan" /\ t = pos /\ pos' = pos + 1 /\ status = "running" /\ mem = row
        /\ UNCHANGED <<status, row, deps, starter, mem, flight, outcomes, ctxDone, rec, snap>>
    BY <1>0, <1>9 DEF ScanSkip, Scanning, durable, agents, recovery, RowsInv
  <2>2. Busy' = Busy
    BY <2>1 DEF Busy
  <2>3. Busy = {} /\ row[t] = "queued" => Stuck(t)
    <3>1. ASSUME Busy = {}, NEW d \in Task PROVE row[d] # "running"
      BY <1>0, <2>1, <3>1 DEF RowsInv
    <3>2. ASSUME Busy = {}, row[t] = "queued", ~ctxDone PROVE Stuck(t)
      <4>1. PICK d \in deps[t] : row[d] # "succeeded"
        BY <1>9, <2>1, <3>2 DEF ScanSkip, Ready
      <4>2. row[d] \in {"queued", "failed", "cancelled"}
        BY <1>0, <3>1, <3>2, <4>1 DEF TypeOK, TaskStatus
      <4> QED
        BY <4>2 DEF Stuck
    <3> QED
      BY <3>2 DEF Stuck
  <2>4. \A u \in Task : u < pos + 1 => u < pos \/ u = t
    BY <2>1 DEF Task
  <2>5. ScanInv'
    BY <1>0, <2>1, <2>2, <2>3, <2>4 DEF ScanInv, Stuck
  <2> QED
    BY <1>0, <2>1, <2>2, <2>5 DEF DagInv, RowsInv, ContextInv
<1>10. ASSUME NEW t \in Task, ScanBlocked(t) PROVE DagInv'
  <2>1. /\ pc = "scan" /\ pc' = "scan" /\ t = pos /\ pos' = pos + 1 /\ status = "running" /\ mem = row
        /\ mem' = [mem EXCEPT ![t] = "cancelled"] /\ WriteTask(t, "cancelled") /\ ~starter /\ rec = "done"
        /\ UNCHANGED <<status, deps, starter, flight, outcomes, ctxDone, rec, snap>>
    BY <1>0, <1>10 DEF ScanBlocked, Scanning, agents, recovery, RowsInv, OwnerInv
  <2>2. Busy' = Busy
    BY <2>1 DEF Busy
  <2>3. row' = [row EXCEPT ![t] = "cancelled"] /\ mem' = row'
    BY <1>0, <2>1, NoFault
  <2>4. /\ \A u \in Task : row'[u] = "queued" => row[u] = "queued"
        /\ \A u \in Task : Stuck(u) => Stuck(u)'
    BY <1>0, <2>1, <2>3, FinishKeepsStuck
  <2>5. \A u \in Task : u < pos + 1 => u < pos \/ u = t
    BY <2>1 DEF Task
  <2>6. /\ \A u \in Task : row'[u] = "running" => row[u] = "running"
        /\ row'[t] # "queued"
    BY <1>0, <2>3 DEF TypeOK
  <2>7. ScanInv'
    BY <1>0, <2>1, <2>2, <2>4, <2>5, <2>6 DEF ScanInv
  <2> QED
    BY <1>0, <2>1, <2>2, <2>3, <2>6, <2>7 DEF DagInv, RowsInv, ContextInv
<1>11. ASSUME NEW t \in Task, ScanLaunch(t) PROVE DagInv'
  <2>1. /\ pc = "scan" /\ pc' = "scan" /\ status = "running" /\ mem = row
        /\ mem' = [mem EXCEPT ![t] = "running"] /\ WriteTask(t, "running") /\ ~starter /\ rec = "done"
        /\ flight' = flight \cup {t}
        /\ UNCHANGED <<status, deps, starter, outcomes, ctxDone, rec, snap>>
    BY <1>0, <1>11 DEF ScanLaunch, Scanning, recovery, RowsInv, OwnerInv
  <2>2. Busy' = Busy \cup {t}
    BY <2>1 DEF Busy
  <2>3. row' = [row EXCEPT ![t] = "running"] /\ mem' = row'
    BY <1>0, <2>1, NoFault
  <2>4. \A u \in Task : row'[u] = "running" => u \in Busy'
    BY <1>0, <2>1, <2>2, <2>3 DEF TypeOK, RowsInv
  <2> QED
    BY <1>0, <2>1, <2>2, <2>3, <2>4 DEF DagInv, RowsInv, ContextInv, ScanInv
<1>12. CASE Settle
  <2>1. /\ pc = "settle" /\ pc' \in {"wait", "top", "strand", "final"} /\ status = "running" /\ mem = row
        /\ UNCHANGED <<status, row, deps, starter, pos, mem, flight, outcomes, ctxDone, rec, snap>>
    BY <1>0, <1>12 DEF Settle, durable, local, agents, recovery, RowsInv
  <2>2. Busy' = Busy
    BY <2>1 DEF Busy
  <2>3. pc' \in {"strand", "final"} => running = 0
    BY <1>0, <1>12 DEF Settle, TypeOK
  <2>4. pc' \in {"strand", "final"} => Busy = {}
    BY <2>3, NobodyBusy
  <2>5. pc' = "final" => \A t \in Task : row[t] \in Terminal
    BY <1>0, <1>12, <2>1 DEF Settle, TypeOK, TaskStatus, Terminal, Active
  <2> QED
    BY <1>0, <2>1, <2>2, <2>4, <2>5 DEF DagInv, RowsInv, ContextInv, ScanInv, Stuck
<1>13. ASSUME NEW o \in outcomes, Collect(o) PROVE DagInv'
  <2>1. /\ pc = "wait" /\ pc' = "top" /\ status = "running" /\ mem = row /\ o.task \in Task
        /\ mem' = [mem EXCEPT ![o.task] = OutcomeStatus(o)] /\ WriteTask(o.task, OutcomeStatus(o))
        /\ ~starter /\ rec = "done" /\ outcomes' = outcomes \ {o}
        /\ UNCHANGED <<status, deps, starter, flight, ctxDone, rec, snap>>
    BY <1>0, <1>13 DEF Collect, recovery, RowsInv, OwnerInv, TypeOK
  <2>2. row' = [row EXCEPT ![o.task] = OutcomeStatus(o)] /\ mem' = row'
    BY <1>0, <2>1, NoFault
  <2>3. OutcomeStatus(o) # "running"
    BY DEF OutcomeStatus
  <2>4. Busy \ {o.task} \subseteq Busy'
    BY <2>1 DEF Busy
  <2>5. \A u \in Task : row'[u] = "running" => u \in Busy'
    BY <1>0, <2>1, <2>2, <2>3, <2>4 DEF TypeOK, RowsInv
  <2> QED
    BY <1>0, <2>1, <2>2, <2>5 DEF DagInv, RowsInv, ContextInv, ScanInv
<1>14. CASE Finish \/ Exit
  <2>1. /\ pc \in {"final", "exit"} /\ pc' = (IF pc = "final" THEN "exit" ELSE "none") /\ rec = "done"
        /\ ctxDone' = (IF pc = "final" THEN ctxDone ELSE FALSE) /\ ~starter
        /\ UNCHANGED <<row, deps, starter, rec, snap>>
    BY <1>14 DEF Finish, Exit, durable, recovery, OwnerInv
  <2> QED
    BY <1>0, <2>1 DEF DagInv, RowsInv, ContextInv, ScanInv
<1>15. ASSUME NEW t \in Task, InvokeReturns(t) PROVE DagInv'
  <2>1. UNCHANGED <<status, row, deps, starter, pc, mem, pos, ctxDone, rec, snap>>
    BY <1>15 DEF InvokeReturns, durable, local, recovery
  <2>2. Busy' = Busy
    <3>1. PICK ok \in BOOLEAN : outcomes' = outcomes \cup {[task |-> t, ok |-> ok]}
      BY <1>15 DEF InvokeReturns
    <3>2. flight' = flight \ {t} /\ t \in flight
      BY <1>15 DEF InvokeReturns
    <3> DEFINE new == [task |-> t, ok |-> ok]
    <3>3. new.task = t
      OBVIOUS
    <3>4. outcomes' = outcomes \cup {new}
      BY <3>1
    <3> HIDE DEF new
    <3>5. {o.task : o \in outcomes'} = {o.task : o \in outcomes} \cup {t}
      BY <3>3, <3>4
    <3> QED
      BY <3>2, <3>5 DEF Busy
  <2> QED
    BY <1>0, <2>1, <2>2 DEF DagInv, RowsInv, ContextInv, ScanInv, Stuck
<1>16. CASE RecoverList \/ RecoverGet
  <2>1. /\ pc = "none" /\ ~starter
        /\ rec' = "mark" => snap' = row
        /\ UNCHANGED <<status, row, deps, starter, pc, ctxDone>>
    BY <1>0, <1>16, NoFault DEF RecoverList, RecoverGet, durable, runner, OwnerInv
  <2> QED
    BY <1>0, <2>1 DEF DagInv, RowsInv, ContextInv, ScanInv
<1>17. ASSUME NEW t \in Task, RecoverMark(t) PROVE DagInv'
  <2>1. /\ pc = "none" /\ ~starter /\ rec = "mark" /\ snap = row /\ WriteTask(t, "failed")
        /\ snap' = [snap EXCEPT ![t] = "failed"]
        /\ UNCHANGED <<status, deps, starter, pc, ctxDone, rec>>
    BY <1>0, <1>17 DEF RecoverMark, runner, OwnerInv, RowsInv
  <2>2. row' = [row EXCEPT ![t] = "failed"]
    BY <1>0, <2>1, NoFault
  <2> QED
    BY <1>0, <2>1, <2>2 DEF DagInv, RowsInv, ContextInv, ScanInv
<1>18. CASE RecoverStart
  <2>1. /\ pc = "none" /\ pc' = "load" /\ ~starter /\ rec = "mark" /\ rec' = "done" /\ ctxDone' = FALSE
        /\ \A t \in Task : row[t] # "running"
        /\ UNCHANGED <<status, row, deps, starter>>
    BY <1>0, <1>18 DEF RecoverStart, StartRunner, durable, OwnerInv, RowsInv
  <2> QED
    BY <1>0, <2>1 DEF DagInv, RowsInv, ContextInv, ScanInv
<1>19. CASE Crash
  <2>1. pc' = "none" /\ ctxDone' = FALSE /\ ~starter' /\ rec' = "list" /\ UNCHANGED <<status, row, deps>>
    BY <1>19 DEF Crash, durable
  <2> QED
    BY <1>0, <2>1 DEF DagInv, RowsInv, ContextInv, ScanInv
<1>20. CASE UNCHANGED vars
  <2>1. UNCHANGED <<status, row, deps, starter, pc, mem, pos, ctxDone, rec, snap, flight, outcomes>>
    BY <1>20 DEF vars
  <2>2. Busy' = Busy
    BY <2>1 DEF Busy
  <2> QED
    BY <1>0, <2>1, <2>2 DEF DagInv, RowsInv, ContextInv, ScanInv, Stuck
<1> QED
  BY <1>1, <1>2, <1>3, <1>4, <1>5, <1>6, <1>7, <1>8, <1>9, <1>10, <1>11, <1>12, <1>13, <1>14,
     <1>15, <1>16, <1>17, <1>18, <1>19, <1>20
  DEF Next, RunStep, ScanStep, RecoverStep, Quiet

\* A task that the scan has passed for want of a dependency can never run: in a
\* set that contains what its members need, one has failed or was cancelled.
LEMMA StuckIsDoomed ==
    ASSUME TypeOK, Acyclic(deps), ~ctxDone, \A u \in Task : row[u] = "queued" => Stuck(u),
           NEW t \in Task, row[t] = "queued"
    PROVE  Dag!Doomed(t)
<1> SUFFICES ASSUME NEW S \in SUBSET Task, t \in S, \A u \in S : deps[u] \subseteq S,
                    \A u \in S : row[u] \notin {"failed", "cancelled"}
             PROVE  FALSE
  BY DEF Dag!Doomed, Dag!Node, Task
<1> DEFINE Q == {u \in S : row[u] = "queued"}
<1>1. Q \in SUBSET Task /\ Q # {}
  OBVIOUS
<1>2. PICK q \in Q : deps[q] \cap Q = {}
  BY <1>1 DEF Acyclic
<1>3. PICK d \in deps[q] : row[d] \in {"queued", "failed", "cancelled"}
  BY DEF Stuck
<1>4. d \in Q
  BY <1>3
<1> QED
  BY <1>2, <1>3, <1>4

LEMMA RefinesInit == Init => Dag!DagInit
BY DEF Init, Dag!DagInit, AllQueued, Dag!Node, Task

\* A queued task that the runner finishes was cancelled or can never run.
LEMMA FinishRefines ==
    ASSUME MaxFaults = 0, OnceInv, CountInv, DagInv, NEW s \in {"failed", "cancelled"},
           pc \in {"sweep", "strand"}, FinishNextQueued(s), UNCHANGED <<status, deps, ctxDone>>
    PROVE  Dag!DagNext
<1>1. TypeOK /\ mem = row /\ status = "running" /\ Acyclic(deps)
  BY DEF OnceInv, DagInv, RowsInv, Executing
<1>2. PICK t \in Task : row[t] = "queued" /\ WriteTask(t, s)
  BY <1>1 DEF FinishNextQueued
<1>3. row' = [row EXCEPT ![t] = s]
  BY <1>1, <1>2, NoFault
<1>4. ctxDone \/ Dag!Doomed(t)
  <2>1. CASE pc = "sweep"
    BY <2>1 DEF DagInv, ContextInv
  <2>2. CASE pc = "strand"
    <3>1. Busy = {} /\ pos > N
      BY <2>2 DEF CountInv, DagInv, ScanInv
    <3>2. pos \in Nat /\ \A u \in Task : u < pos
      BY <1>1, <3>1 DEF Task, TypeOK
    <3>3. \A u \in Task : row[u] = "queued" => Stuck(u)
      BY <2>2, <3>1, <3>2 DEF DagInv, ScanInv
    <3> QED
      BY <1>1, <1>2, <3>3, StuckIsDoomed
  <2> QED
    BY <2>1, <2>2
<1>5. Dag!GiveUp(t, s)
  BY <1>1, <1>2, <1>3, <1>4 DEF Dag!GiveUp
<1> QED
  BY <1>5 DEF Dag!DagNext, Dag!Node, Task

\* Every step is a step of TaskDag or leaves what TaskDag speaks of unchanged.
LEMMA RefinesStep ==
    ASSUME MaxFaults = 0, ~ServeDuringRecovery, OnceInv, OwnerInv, CountInv, DagInv, [Next]_vars
    PROVE  [Dag!DagNext]_(Dag!dagVars)
<1>0. TypeOK /\ RowsInv /\ ContextInv /\ ScanInv /\ Acyclic(deps)
  BY DEF OnceInv, DagInv
<1> USE DEF Dag!dagVars
<1>a. Dag!Node = Task
  BY DEF Dag!Node, Task
<1>1. CASE Create
  <2>1. \E d \in [Task -> SUBSET Task] : Acyclic(d) /\ deps' = d
    BY <1>1 DEF Create
  <2>2. deps' \in {d \in [Dag!Node -> SUBSET Dag!Node] : Dag!WellFounded(d)}
    BY <1>a, <2>1 DEF Dag!WellFounded, Acyclic
  <2>3. row = AllQueued
    BY <1>1 DEF Create, OnceInv, AbsentInv
  <2>4. Dag!Accept
    BY <1>1, <2>2, <2>3 DEF Create, Dag!Accept, runner
  <2> QED
    BY <2>4 DEF Dag!DagNext
<1>2. CASE CreateStart \/ RecoverStart
  <2>1. UNCHANGED <<status, row, deps, ctxDone>>
    BY <1>0, <1>2 DEF CreateStart, RecoverStart, StartRunner, durable, ContextInv, TypeOK
  <2> QED
    BY <2>1
<1>3. CASE Cancel \/ Exit \/ Crash
  <2>1. ctxDone' \in BOOLEAN /\ UNCHANGED <<status, row, deps>>
    BY <1>3 DEF Cancel, Exit, Crash, durable
  <2>2. status # "absent" \/ ctxDone' = ctxDone
    BY <1>0, <1>3 DEF Cancel, Exit, Crash, OwnerInv, ContextInv, TypeOK
  <2>3. Dag!SetCancel \/ UNCHANGED <<status, row, deps, ctxDone>>
    BY <2>1, <2>2 DEF Dag!SetCancel
  <2> QED
    BY <2>3 DEF Dag!DagNext
<1>4. CASE MarkRunning
  <2>1. status' = "running" /\ status \in Active /\ UNCHANGED <<row, deps, ctxDone>>
    BY <1>0, <1>4, NoFault DEF MarkRunning, OwnerInv, Executing
  <2>2. Dag!Begin \/ UNCHANGED <<status, row, deps, ctxDone>>
    BY <2>1 DEF Dag!Begin, Active
  <2> QED
    BY <2>2 DEF Dag!DagNext
<1>5. CASE Sweep \/ Strand
  <2>1. pc \in {"sweep", "strand"} /\ UNCHANGED <<status, deps, ctxDone>>
    BY <1>5 DEF Sweep, Strand
  <2>2. row' = row \/ \E s \in {"failed", "cancelled"} : FinishNextQueued(s)
    BY <1>5 DEF Sweep, Strand
  <2> QED
    BY <2>1, <2>2, FinishRefines
<1>6. ASSUME NEW t \in Task, ScanBlocked(t) PROVE Dag!DagNext
  <2>1. /\ pc = "scan" /\ row[t] = "queued" /\ mem = row /\ status = "running" /\ WriteTask(t, "cancelled")
        /\ UNCHANGED <<status, deps, ctxDone>>
    BY <1>0, <1>6 DEF ScanBlocked, Scanning, RowsInv, Executing
  <2>2. row' = [row EXCEPT ![t] = "cancelled"]
    BY <1>0, <2>1, NoFault
  <2>3. PICK d \in deps[t] : row[d] \in {"failed", "cancelled"}
    BY <1>6, <2>1 DEF ScanBlocked, Blocked
  <2>4. Dag!Doomed(t)
    BY <2>3 DEF Dag!Doomed
  <2>5. Dag!GiveUp(t, "cancelled")
    BY <2>1, <2>2, <2>4 DEF Dag!GiveUp
  <2> QED
    BY <1>a, <2>5 DEF Dag!DagNext
<1>7. ASSUME NEW t \in Task, ScanLaunch(t) PROVE Dag!DagNext
  <2>1. /\ pc = "scan" /\ row[t] = "queued" /\ mem = row /\ status = "running" /\ WriteTask(t, "running")
        /\ ~ctxDone /\ Ready(t) /\ UNCHANGED <<status, deps, ctxDone>>
    BY <1>0, <1>7 DEF ScanLaunch, Scanning, RowsInv, Executing
  <2>2. row' = [row EXCEPT ![t] = "running"]
    BY <1>0, <2>1, NoFault
  <2>3. Dag!StartTask(t)
    BY <2>1, <2>2 DEF Dag!StartTask, Ready
  <2> QED
    BY <1>a, <2>3 DEF Dag!DagNext
<1>8. ASSUME NEW o \in outcomes, Collect(o) PROVE Dag!DagNext
  <2>1. /\ pc = "wait" /\ mem = row /\ o.task \in Task /\ o.task \in Busy
        /\ WriteTask(o.task, OutcomeStatus(o)) /\ UNCHANGED <<status, deps, ctxDone>>
    BY <1>0, <1>8 DEF Collect, RowsInv, Executing, TypeOK, Busy
  <2>2. row' = [row EXCEPT ![o.task] = OutcomeStatus(o)]
    BY <1>0, <2>1, NoFault
  <2>3. row[o.task] = "running"
    BY <2>1 DEF CountInv, Executing
  <2>4. OutcomeStatus(o) \in Dag!Over /\ (OutcomeStatus(o) = "cancelled" => ctxDone)
    BY DEF OutcomeStatus, Dag!Over
  <2>5. Dag!EndTask(o.task, OutcomeStatus(o))
    BY <2>1, <2>2, <2>3, <2>4 DEF Dag!EndTask
  <2> QED
    BY <1>a, <2>1, <2>4, <2>5 DEF Dag!DagNext
<1>9. CASE Finish
  <2>1. status = "running" /\ mem = row /\ \A t \in Task : row[t] \in Terminal
    BY <1>0, <1>9 DEF Finish, RowsInv, Executing
  <2>2. status' = FinalStatus /\ UNCHANGED <<row, deps, ctxDone>>
    BY <1>0, <1>9, NoFault DEF Finish
  <2>3. FinalStatus = Dag!Verdict
    BY <1>a, <2>1 DEF FinalStatus, Dag!Verdict, Terminal
  <2>4. Dag!Complete
    BY <1>a, <2>1, <2>2, <2>3 DEF Dag!Complete, Dag!Over, Terminal
  <2> QED
    BY <2>4 DEF Dag!DagNext
<1>10. ASSUME NEW t \in Task, RecoverMark(t) PROVE Dag!DagNext
  <2>1. /\ row[t] = "running" /\ WriteTask(t, "failed") /\ UNCHANGED <<status, deps, ctxDone>>
    BY <1>0, <1>10 DEF RecoverMark, runner, RowsInv
  <2>2. row' = [row EXCEPT ![t] = "failed"]
    BY <1>0, <2>1, NoFault
  <2>3. Dag!EndTask(t, "failed") /\ "failed" \in Dag!Over
    BY <2>1, <2>2 DEF Dag!EndTask, Dag!Over
  <2> QED
    BY <1>a, <2>3 DEF Dag!DagNext
<1>11. CASE UNCHANGED <<status, row, deps, ctxDone>>
  BY <1>11
<1>12. \/ UNCHANGED <<status, row, deps, ctxDone>> \/ Create \/ CreateStart \/ RecoverStart \/ Cancel \/ Exit \/ Crash
       \/ MarkRunning \/ Sweep \/ Strand \/ Finish \/ (\E o \in outcomes : Collect(o))
       \/ \E t \in Task : ScanBlocked(t) \/ ScanLaunch(t) \/ RecoverMark(t)
  BY DEF Next, RunStep, ScanStep, RecoverStep, Quiet, vars, Load, Top, ScanEnd, ScanSkip, Settle,
         InvokeReturns, RecoverList, RecoverGet, durable, runner
<1> QED
  BY <1>1, <1>2, <1>3, <1>4, <1>5, <1>6, <1>7, <1>8, <1>9, <1>10, <1>11, <1>12

\* With a store that works and no request before Recover is done, run, Cancel
\* and Recover together do to the rows only what TaskDag allows, through any
\* number of crashes.
THEOREM RowsFollowDag ==
    ASSUME MaxFaults = 0, ~ServeDuringRecovery
    PROVE  Spec => RefinesDag
<1>1. OwnerInv /\ [Next]_vars => OwnerInv'
  BY OwnerStep
<1>2. OnceInv /\ OwnerInv /\ CountInv /\ DagInv /\ [Next]_vars => DagInv'
  BY DagInvStep
<1>3. OnceInv /\ OwnerInv /\ CountInv /\ DagInv /\ [Next]_vars => [Dag!DagNext]_(Dag!dagVars)
  BY RefinesStep
<1> QED
  BY <1>1, <1>2, <1>3, OnceInit, OnceStep, OwnerInit, CountInit, CountStep, DagInvInit, RefinesInit, PTL
  DEF Spec, RefinesDag, Dag!DagSpec
=============================================================================
