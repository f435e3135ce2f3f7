----------------------- MODULE OrchestrationNormalize -----------------------
(***************************************************************************)
(* Normalize accepts a dependency relation or rejects it: it first checks  *)
(* every dependency by name, then searches the graph depth first for a     *)
(* cycle.  The search is a closure that calls itself; here each call is an *)
(* entry of a stack.  The roots come from a Go map, in any order.          *)
(*                                                                         *)
(* Source: orchestration/service.go (Normalize, validateAcyclic).          *)
(***************************************************************************)
EXTENDS Integers, Sequences

CONSTANT N

ASSUME SizeAssumption == N \in Nat \ {0}

Id == 1..N
Unknown == 0   \* a name that is not the id of a task

VARIABLES
    dependsOn,  \* the request: what each task depends on, duplicates removed
    phase,      \* "names", "graph", and the verdict "accepted" or "rejected"
    checked,    \* tasks whose dependencies have been looked up
    visiting,   \* ids on the recursion stack, as the code's map says
    visited,    \* ids whose subtree is known to be acyclic
    stack       \* the recursion: id and the dependencies not yet visited

vars == <<dependsOn, phase, checked, visiting, visited, stack>>

Init ==
    /\ dependsOn \in [Id -> SUBSET (Id \cup {Unknown})]
    /\ phase = "names"
    /\ checked = 0
    /\ visiting = {}
    /\ visited = {}
    /\ stack = <<>>

\* The loop over the tasks: a dependency on itself or on no task is an error.
CheckNames ==
    /\ phase = "names"
    /\ checked < N
    /\ LET t == checked + 1
       IN  IF t \in dependsOn[t] \/ Unknown \in dependsOn[t]
           THEN phase' = "rejected" /\ UNCHANGED checked
           ELSE checked' = t /\ UNCHANGED phase
    /\ UNCHANGED <<dependsOn, visiting, visited, stack>>

CheckGraph ==
    /\ phase = "names"
    /\ checked = N
    /\ phase' = "graph"
    /\ UNCHANGED <<dependsOn, checked, visiting, visited, stack>>

\* Variation: visiting and visited are one map.
OnCycleMerged(id) == id \in visiting \cup visited

\* The cycle test of visit looks at the visiting map only.
OnCycle(id) == id \in visiting

\* visit(id): an error on the stack, nothing for a known id, or a new call.
Visit(id, rest) ==
    IF OnCycle(id)
    THEN phase' = "rejected" /\ UNCHANGED <<visiting, visited, stack>>
    ELSE /\ IF id \in visited
            THEN stack' = rest /\ UNCHANGED visiting
            ELSE /\ stack' = <<[id |-> id, todo |-> dependsOn[id]]>> \o rest
                 /\ visiting' = visiting \cup {id}
         /\ UNCHANGED <<phase, visited>>

\* for id := range deps
VisitRoot(id) ==
    /\ phase = "graph"
    /\ stack = <<>>
    /\ id \notin visited
    /\ Visit(id, <<>>)
    /\ UNCHANGED <<dependsOn, checked>>

\* for dependency in deps[id], in ascending order
VisitDependency(d) ==
    /\ phase = "graph"
    /\ stack # <<>>
    /\ d \in Head(stack).todo
    /\ \A e \in Head(stack).todo : d <= e
    /\ Visit(d, <<[Head(stack) EXCEPT !.todo = @ \ {d}]>> \o Tail(stack))
    /\ UNCHANGED <<dependsOn, checked>>

\* Variation: the id is not remembered as visited.
LeaveForgetful ==
    /\ phase = "graph"
    /\ stack # <<>>
    /\ Head(stack).todo = {}
    /\ visiting' = visiting \ {Head(stack).id}
    /\ stack' = Tail(stack)
    /\ UNCHANGED <<dependsOn, phase, checked, visited>>

\* The end of a call: delete(visiting, id); visited[id] = true.
Leave ==
    /\ phase = "graph"
    /\ stack # <<>>
    /\ Head(stack).todo = {}
    /\ visiting' = visiting \ {Head(stack).id}
    /\ visited' = visited \cup {Head(stack).id}
    /\ stack' = Tail(stack)
    /\ UNCHANGED <<dependsOn, phase, checked>>

Accept ==
    /\ phase = "graph"
    /\ stack = <<>>
    /\ visited = Id
    /\ phase' = "accepted"
    /\ UNCHANGED <<dependsOn, checked, visiting, visited, stack>>

Verdict == phase \in {"accepted", "rejected"} /\ UNCHANGED vars

Next ==
    \/ CheckNames \/ CheckGraph \/ Leave \/ Accept \/ Verdict
    \/ \E id \in Id : VisitRoot(id) \/ VisitDependency(id)

Spec == Init /\ [][Next]_vars /\ WF_vars(Next)

-----------------------------------------------------------------------------
(* The reference: a relation the runner can execute.                       *)

Executable ==
    /\ \A t \in Id : dependsOn[t] \subseteq Id
    /\ \A S \in SUBSET Id : S # {} => \E t \in S : dependsOn[t] \cap S = {}

\* The verdict is the reference's, whatever order the roots are visited in: a
\* graph that shares a dependency between two tasks is not mistaken for a cycle,
\* and no cycle hides behind a subtree that was visited before.
VerdictCorrect ==
    /\ phase = "accepted" => Executable
    /\ phase = "rejected" => ~Executable

\* The search ends on every relation, cyclic ones included.
AlwaysDecides == <>(phase \in {"accepted", "rejected"})

=============================================================================
