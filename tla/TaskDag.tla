------------------------------ MODULE TaskDag ------------------------------
(***************************************************************************)
(* What an orchestration promises its client, whatever the daemon does to  *)
(* execute it: a task starts only after everything it depends on has       *)
(* succeeded, starts at most once, is given up only because the client     *)
(* cancelled or because something it needs did not succeed, and the        *)
(* orchestration ends only when all of its tasks have, with a status that  *)
(* agrees with theirs and never changes again.                             *)
(***************************************************************************)
EXTENDS Integers

CONSTANT N

VARIABLES
    status,   \* status of the orchestration, "absent" before it is created
    task,     \* status of each task
    deps,     \* what each task depends on
    cancel    \* a cancellation is pending (it does not survive the daemon)

dagVars == <<status, task, deps, cancel>>

Node == 1..N

Over == {"succeeded", "failed", "cancelled"}

WellFounded(d) == \A S \in SUBSET Node : S # {} => \E t \in S : d[t] \cap S = {}

DagInit ==
    /\ status = "absent"
    /\ task = [t \in Node |-> "queued"]
    /\ deps = [t \in Node |-> {}]
    /\ cancel = FALSE

Accept ==
    /\ status = "absent"
    /\ status' = "queued"
    /\ deps' \in {d \in [Node -> SUBSET Node] : WellFounded(d)}
    /\ UNCHANGED <<task, cancel>>

\* The cancellation flag is raised while the orchestration is known, and is
\* lowered when the execution that saw it is gone.
SetCancel ==
    /\ status # "absent"
    /\ cancel' \in BOOLEAN
    /\ UNCHANGED <<status, task, deps>>

Begin ==
    /\ status = "queued"
    /\ status' = "running"
    /\ UNCHANGED <<task, deps, cancel>>

StartTask(t) ==
    /\ status = "running"
    /\ task[t] = "queued"
    /\ ~cancel
    /\ \A d \in deps[t] : task[d] = "succeeded"
    /\ task' = [task EXCEPT ![t] = "running"]
    /\ UNCHANGED <<status, deps, cancel>>

\* A task ends; it counts as cancelled only under a cancellation.
EndTask(t, s) ==
    /\ task[t] = "running"
    /\ s = "cancelled" => cancel
    /\ task' = [task EXCEPT ![t] = s]
    /\ UNCHANGED <<status, deps, cancel>>

\* A dependency, direct or not, did not succeed.
Doomed(t) ==
    \A S \in SUBSET Node :
        t \in S /\ (\A u \in S : deps[u] \subseteq S)
        => \E u \in S : task[u] \in {"failed", "cancelled"}

GiveUp(t, s) ==
    /\ status = "running"
    /\ task[t] = "queued"
    /\ cancel \/ Doomed(t)
    /\ task' = [task EXCEPT ![t] = s]
    /\ UNCHANGED <<status, deps, cancel>>

Verdict ==
    IF cancel THEN "cancelled"
    ELSE IF \A t \in Node : task[t] = "succeeded" THEN "succeeded"
    ELSE "failed"

Complete ==
    /\ status = "running"
    /\ \A t \in Node : task[t] \in Over
    /\ status' = Verdict
    /\ UNCHANGED <<task, deps, cancel>>

DagNext ==
    \/ Accept \/ SetCancel \/ Begin \/ Complete
    \/ \E t \in Node :
          \/ StartTask(t)
          \/ \E s \in Over : EndTask(t, s)
          \/ \E s \in {"failed", "cancelled"} : GiveUp(t, s)

DagSpec == DagInit /\ [][DagNext]_dagVars

=============================================================================
