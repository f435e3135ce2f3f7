-------------------- MODULE OrchestrationNormalizeProofs --------------------
(***************************************************************************)
(* Proofs about OrchestrationNormalize, for every number of tasks and every *)
(* dependency relation over them.                                          *)
(***************************************************************************)
EXTENDS OrchestrationNormalize, SequenceTheorems, TLAPS

USE SizeAssumption

-----------------------------------------------------------------------------
(* The invariants.                                                         *)

Frames == [id : Id, todo : SUBSET (Id \cup {Unknown})]

ShapeInv ==
    /\ dependsOn \in [Id -> SUBSET (Id \cup {Unknown})]
    /\ phase \in {"names", "graph", "accepted", "rejected"} /\ checked \in 0..N
    /\ visiting \in SUBSET Id /\ visited \in SUBSET Id /\ stack \in Seq(Frames)

\* The names of the tasks that were looked up are those of other tasks.
NamesInv ==
    /\ \A t \in 1..checked : dependsOn[t] \subseteq Id
    /\ phase \in {"graph", "accepted"} => checked = N
    /\ phase = "accepted" => visited = Id

\* The calls of visit under way: their ids are the visiting map, each depends
\* on the one it called, and what a call is done with is visited, but for the
\* call it waits for.
Calls(dep, q, on, done) ==
    /\ on = {q[i].id : i \in DOMAIN q}
    /\ \A i, j \in DOMAIN q : q[i].id = q[j].id => i = j
    /\ on \cap done = {}
    /\ \A i \in DOMAIN q :
          /\ q[i].todo \subseteq dep[q[i].id]
          /\ i > 1 => q[i - 1].id \in dep[q[i].id]
          /\ \A d \in dep[q[i].id] \ q[i].todo : d \in done \/ (i > 1 /\ d = q[i - 1].id)
StackInv == Calls(dependsOn, stack, visiting, visited)

\* The visited ids are closed under dependencies and contain no cycle.
VisitedInv ==
    /\ \A t \in visited : dependsOn[t] \subseteq visited
    /\ \A S \in SUBSET visited : S # {} => \E t \in S : dependsOn[t] \cap S = {}

\* A rejected relation cannot be executed.
RejectInv == phase = "rejected" => ~Executable

NormalizeInv == ShapeInv /\ NamesInv /\ StackInv /\ VisitedInv /\ RejectInv

-----------------------------------------------------------------------------
(* Calls and returns.                                                      *)

LEMMA Pushed ==
    ASSUME NEW S, NEW f \in S, NEW r \in Seq(S), NEW z, z = <<f>> \o r
    PROVE  /\ z \in Seq(S) /\ DOMAIN z = 1..Len(r) + 1 /\ z[1] = f
           /\ \A i \in DOMAIN z : i > 1 => z[i] = r[i - 1] /\ i - 1 \in DOMAIN r
OBVIOUS

LEMMA Popped ==
    ASSUME NEW S, NEW q \in Seq(S), q # <<>>
    PROVE  /\ Tail(q) \in Seq(S) /\ DOMAIN Tail(q) = 1..Len(q) - 1 /\ Len(q) > 0 /\ Len(Tail(q)) = Len(q) - 1
           /\ Head(q) = q[1] /\ 1 \in DOMAIN q /\ q[1] \in S /\ DOMAIN q = 1..Len(q) /\ Len(q) \in Nat
           /\ \A i \in DOMAIN Tail(q) : Tail(q)[i] = q[i + 1] /\ i + 1 \in DOMAIN q
OBVIOUS

LEMMA Replaced ==
    ASSUME NEW S, NEW q \in Seq(S), q # <<>>, NEW f \in S, NEW z, z = <<f>> \o Tail(q)
    PROVE  /\ z \in Seq(S) /\ DOMAIN z = DOMAIN q /\ z[1] = f /\ 1 \in DOMAIN q
           /\ \A i \in DOMAIN z : i > 1 => z[i] = q[i]
<1>1. /\ Tail(q) \in Seq(S) /\ Len(Tail(q)) = Len(q) - 1 /\ DOMAIN q = 1..Len(q) /\ 1 \in DOMAIN q /\ Len(q) \in Nat
      /\ \A i \in 1..Len(q) - 1 : Tail(q)[i] = q[i + 1]
  BY Popped
<1>2. /\ z \in Seq(S) /\ DOMAIN z = 1..Len(q) - 1 + 1 /\ z[1] = f
      /\ \A i \in DOMAIN z : i > 1 => z[i] = Tail(q)[i - 1]
  BY <1>1, Pushed
<1>3. DOMAIN z = DOMAIN q
  BY <1>1, <1>2
<1>4. ASSUME NEW i \in DOMAIN z, i > 1 PROVE z[i] = q[i]
  BY <1>1, <1>2, <1>3, <1>4
<1> QED
  BY <1>1, <1>2, <1>3, <1>4

\* A dependency that is on the stack closes a cycle: the calls from it to the
\* top, each of which depends on one of them.
LEMMA CycleFound ==
    ASSUME ShapeInv, StackInv, stack # <<>>, NEW d \in visiting, d \in Head(stack).todo
    PROVE  ~Executable
<1>0. Head(stack) = stack[1] /\ 1 \in DOMAIN stack /\ DOMAIN stack = 1..Len(stack)
  BY Popped DEF ShapeInv
<1>1. PICK k \in DOMAIN stack : d = stack[k].id
  BY DEF StackInv, Calls
<1> DEFINE S == {stack[i].id : i \in 1..k}
<1>2. S \in SUBSET Id /\ S # {}
  <2>1. \A i \in DOMAIN stack : stack[i].id \in Id
    <3>1. \A i \in DOMAIN stack : stack[i] \in Frames
      BY DEF ShapeInv
    <3> QED
      BY <3>1 DEF Frames
  <2>2. 1 \in 1..k /\ 1..k \subseteq DOMAIN stack
    BY <1>0, <1>1
  <2> QED
    BY <2>1, <2>2
<1>3. ASSUME NEW i \in 1..k PROVE dependsOn[stack[i].id] \cap S # {}
  <2>0. i \in DOMAIN stack /\ k \in 1..k
    BY <1>0, <1>1
  <2>1. CASE i = 1
    <3>1. d \in dependsOn[stack[1].id] /\ d \in S
      BY <1>0, <1>1, <2>0 DEF StackInv, Calls
    <3> QED
      BY <2>1, <3>1
  <2>2. CASE i > 1
    <3>1. stack[i - 1].id \in dependsOn[stack[i].id] /\ i - 1 \in 1..k
      BY <2>0, <2>2 DEF StackInv, Calls
    <3> QED
      BY <3>1
  <2> QED
    BY <2>1, <2>2
<1>4. \A t \in S : dependsOn[t] \cap S # {}
  BY <1>3
<1> QED
  BY <1>2, <1>4 DEF Executable

\* A call of visit for an id that is not on the stack.
LEMMA CallStack ==
    ASSUME ShapeInv, StackInv, NEW d \in Id, d \notin visiting, d \notin visited,
           NEW q \in Seq(Frames), NEW z, z = <<[id |-> d, todo |-> dependsOn[d]]>> \o q,
           DOMAIN q = DOMAIN stack,
           \A i \in DOMAIN q : q[i].id = stack[i].id /\ q[i].todo \subseteq stack[i].todo,
           \A i \in DOMAIN q : i > 1 => q[i] = stack[i],
           q # <<>> => d \in dependsOn[q[1].id] /\ \A e \in stack[1].todo \ q[1].todo : e = d,
           stack' = z, visiting' = visiting \cup {d}, UNCHANGED <<dependsOn, visited>>
    PROVE  StackInv' /\ stack' \in Seq(Frames)
<1> DEFINE f == [id |-> d, todo |-> dependsOn[d]]
<1>0. f \in Frames
  BY DEF ShapeInv, Frames
<1>1. /\ z \in Seq(Frames) /\ DOMAIN z = 1..Len(q) + 1 /\ z[1] = f /\ Len(q) \in Nat /\ DOMAIN q = 1..Len(q)
      /\ \A i \in DOMAIN z : i > 1 => z[i] = q[i - 1] /\ i - 1 \in DOMAIN q
  BY <1>0, Pushed
<1>2. \A i \in DOMAIN q : i + 1 \in DOMAIN z /\ z[i + 1] = q[i] /\ q[i].id \in visiting
  <2>1. \A i \in DOMAIN q : i + 1 \in DOMAIN z /\ z[i + 1] = q[i]
    BY <1>1
  <2>2. \A i \in DOMAIN q : q[i].id \in visiting
    BY DEF StackInv, Calls
  <2> QED
    BY <2>1, <2>2
<1>3. 1 \in DOMAIN z /\ z[1].id = d /\ z[1].todo = dependsOn[d]
  BY <1>1
<1> HIDE DEF f
<1>4. visiting' = {z[i].id : i \in DOMAIN z}
  <2>1. \A i \in DOMAIN z : z[i].id \in visiting'
    BY <1>1, <1>2, <1>3
  <2>2. ASSUME NEW x \in visiting PROVE \E i \in DOMAIN z : x = z[i].id
    <3>1. PICK i \in DOMAIN q : x = q[i].id
      BY DEF StackInv, Calls
    <3> QED
      BY <1>2, <3>1
  <2> QED
    BY <1>3, <2>1, <2>2
<1>5. ASSUME NEW i \in DOMAIN z, NEW j \in DOMAIN z, z[i].id = z[j].id PROVE i = j
  <2>1. \A m, n \in DOMAIN q : q[m].id = q[n].id => m = n
    BY DEF StackInv, Calls
  <2>2. \A m \in DOMAIN z : m > 1 => z[m].id # d
    BY <1>1, <1>2
  <2>3. i \in Nat /\ j \in Nat /\ i >= 1 /\ j >= 1
    BY <1>1
  <2>4. CASE i > 1 /\ j > 1
    BY <1>1, <1>5, <2>1, <2>3, <2>4
  <2> QED
    BY <1>3, <1>5, <2>2, <2>3, <2>4
<1>6. visiting' \cap visited' = {}
  BY DEF StackInv, Calls
<1>7. ASSUME NEW i \in DOMAIN z
      PROVE  /\ z[i].todo \subseteq dependsOn[z[i].id]
             /\ i > 1 => z[i - 1].id \in dependsOn[z[i].id]
             /\ \A e \in dependsOn[z[i].id] \ z[i].todo : e \in visited \/ (i > 1 /\ e = z[i - 1].id)
  <2>1. CASE i = 1
    BY <1>3, <2>1
  <2>2. CASE i = 2
    <3>1. z[i] = q[1] /\ 1 \in DOMAIN q
      BY <1>1, <2>2
    <3>2. q # <<>>
      BY <3>1
    <3>3. q[1].id = stack[1].id /\ q[1].todo \subseteq stack[1].todo
      BY <3>1
    <3>4. /\ stack[1].todo \subseteq dependsOn[stack[1].id]
          /\ \A e \in dependsOn[stack[1].id] \ stack[1].todo : e \in visited
      BY <3>1 DEF StackInv, Calls
    <3> QED
      BY <1>3, <2>2, <3>1, <3>2, <3>3, <3>4
  <2>3. CASE i > 2
    <3>1. /\ i - 1 \in DOMAIN q /\ i - 1 > 1 /\ z[i] = q[i - 1] /\ q[i - 1] = stack[i - 1] /\ i - 1 \in DOMAIN z
          /\ z[i - 1] = q[i - 2] /\ i - 2 \in DOMAIN q
      BY <1>1, <2>3
    <3>2. q[i - 2].id = stack[i - 2].id /\ (i - 1) - 1 = i - 2
      BY <1>1, <3>1
    <3>3. /\ stack[i - 1].todo \subseteq dependsOn[stack[i - 1].id]
          /\ stack[i - 2].id \in dependsOn[stack[i - 1].id]
          /\ \A e \in dependsOn[stack[i - 1].id] \ stack[i - 1].todo : e \in visited \/ e = stack[i - 2].id
      BY <3>1, <3>2 DEF StackInv, Calls
    <3> QED
      BY <2>3, <3>1, <3>2, <3>3
  <2> QED
    BY <1>1, <2>1, <2>2, <2>3
<1>8. Calls(dependsOn, z, visiting', visited)
  BY <1>4, <1>5, <1>6, <1>7 DEF Calls
<1> QED
  BY <1>1, <1>8 DEF StackInv

-----------------------------------------------------------------------------
(* The steps.                                                              *)

LEMMA NormalizeInit == Init => NormalizeInv
<1> SUFFICES ASSUME Init PROVE NormalizeInv
  OBVIOUS
<1>1. ShapeInv /\ NamesInv /\ RejectInv
  BY DEF Init, ShapeInv, NamesInv, RejectInv
<1>2. StackInv
  BY DEF Init, StackInv, Calls
<1>3. VisitedInv
  BY DEF Init, VisitedInv
<1> QED
  BY <1>1, <1>2, <1>3 DEF NormalizeInv

LEMMA NamesStep ==
    ASSUME NormalizeInv, CheckNames
    PROVE  NormalizeInv'
<1> DEFINE t == checked + 1
<1>1. /\ t \in Id /\ UNCHANGED <<dependsOn, visiting, visited, stack>> /\ phase = "names" /\ checked \in 0..N
      /\ \/ phase' = "rejected" /\ checked' = checked /\ (t \in dependsOn[t] \/ Unknown \in dependsOn[t])
         \/ checked' = t /\ phase' = phase /\ Unknown \notin dependsOn[t]
  BY DEF NormalizeInv, ShapeInv, CheckNames, Id
<1>2. dependsOn[t] \subseteq Id \cup {Unknown}
  BY <1>1 DEF NormalizeInv, ShapeInv
<1> HIDE DEF t
<1>3. StackInv' /\ VisitedInv'
  BY <1>1 DEF NormalizeInv, StackInv, Calls, VisitedInv
<1>4. CASE phase' = "rejected" /\ checked' = checked /\ (t \in dependsOn[t] \/ Unknown \in dependsOn[t])
  <2>1. ~Executable
    <3>1. CASE t \in dependsOn[t]
      <4>1. {t} \in SUBSET Id /\ {t} # {} /\ \A u \in {t} : dependsOn[u] \cap {t} # {}
        BY <1>1, <3>1
      <4> QED
        BY <4>1 DEF Executable
    <3>2. CASE Unknown \in dependsOn[t]
      BY <1>1, <3>2 DEF Executable, Id, Unknown
    <3> QED
      BY <1>4, <3>1, <3>2
  <2>2. ShapeInv' /\ NamesInv'
    BY <1>1, <1>4 DEF NormalizeInv, ShapeInv, NamesInv
  <2>3. RejectInv'
    BY <1>1, <2>1 DEF RejectInv, Executable
  <2> QED
    BY <1>3, <2>2, <2>3 DEF NormalizeInv
<1>5. CASE checked' = t /\ phase' = phase /\ Unknown \notin dependsOn[t]
  <2>1. t \in 0..N /\ \A u \in 1..t : u \in 1..checked \/ u = t
    BY <1>1 DEF Id, t
  <2>2. ShapeInv'
    BY <1>1, <1>5, <2>1 DEF NormalizeInv, ShapeInv
  <2>3. NamesInv'
    BY <1>1, <1>2, <1>5, <2>1 DEF NormalizeInv, NamesInv
  <2>4. RejectInv'
    BY <1>1, <1>5 DEF RejectInv
  <2> QED
    BY <1>3, <2>2, <2>3, <2>4 DEF NormalizeInv
<1> QED
  BY <1>1, <1>4, <1>5

LEMMA RootStep ==
    ASSUME NormalizeInv, NEW d \in Id, VisitRoot(d)
    PROVE  NormalizeInv'
<1>0. ShapeInv /\ StackInv /\ stack = <<>> /\ visiting = {}
  BY DEF NormalizeInv, VisitRoot, StackInv, Calls
<1>1. /\ stack' = <<[id |-> d, todo |-> dependsOn[d]]>> \o <<>> /\ visiting' = visiting \cup {d}
      /\ UNCHANGED <<dependsOn, phase, checked, visited>> /\ d \notin visited /\ d \notin visiting
      /\ phase = "graph"
  BY <1>0 DEF VisitRoot, Visit, OnCycle
<1>2. <<>> \in Seq(Frames) /\ DOMAIN << >> = DOMAIN stack /\ DOMAIN << >> = {}
  BY <1>0
<1> DEFINE q == <<>>
           z == <<[id |-> d, todo |-> dependsOn[d]]>> \o q
<1>3. /\ q \in Seq(Frames) /\ DOMAIN q = DOMAIN stack /\ stack' = z /\ q = <<>>
      /\ \A i \in DOMAIN q : q[i].id = stack[i].id /\ q[i].todo \subseteq stack[i].todo
      /\ \A i \in DOMAIN q : i > 1 => q[i] = stack[i]
  BY <1>1, <1>2
<1> HIDE DEF q
<1>4. z = <<[id |-> d, todo |-> dependsOn[d]]>> \o q
  OBVIOUS
<1> HIDE DEF z
<1>5. StackInv' /\ stack' \in Seq(Frames)
  BY <1>0, <1>1, <1>3, <1>4, CallStack
<1>6. ShapeInv' /\ NamesInv' /\ VisitedInv' /\ RejectInv'
  BY <1>1, <1>5 DEF NormalizeInv, ShapeInv, NamesInv, VisitedInv, RejectInv
<1> QED
  BY <1>5, <1>6 DEF NormalizeInv

LEMMA DependencyStep ==
    ASSUME NormalizeInv, NEW d \in Id, VisitDependency(d)
    PROVE  NormalizeInv'
<1> DEFINE f == [Head(stack) EXCEPT !.todo = @ \ {d}]
           q == <<f>> \o Tail(stack)
<1>0. /\ ShapeInv /\ StackInv /\ stack # <<>> /\ stack \in Seq(Frames) /\ d \in Head(stack).todo
      /\ phase = "graph" /\ UNCHANGED <<dependsOn, checked>> /\ Visit(d, q)
  BY DEF NormalizeInv, ShapeInv, VisitDependency
<1>1. /\ Head(stack) = stack[1] /\ stack[1] \in Frames /\ 1 \in DOMAIN stack
  BY <1>0, Popped
<1>2. f \in Frames /\ f.id = stack[1].id /\ f.todo = stack[1].todo \ {d}
  BY <1>1 DEF Frames
<1>3. /\ q \in Seq(Frames) /\ DOMAIN q = DOMAIN stack /\ q[1] = f
      /\ \A i \in DOMAIN q : i > 1 => q[i] = stack[i]
  BY <1>0, <1>2, Replaced
<1> HIDE DEF f, q
<1>4. DOMAIN stack \in SUBSET (Nat \ {0})
  BY <1>0
<1>5. \A i \in DOMAIN q : q[i].id = stack[i].id /\ q[i].todo \subseteq stack[i].todo
  <2> SUFFICES ASSUME NEW i \in DOMAIN q
               PROVE  q[i].id = stack[i].id /\ q[i].todo \subseteq stack[i].todo
    OBVIOUS
  <2>1. i = 1 \/ i > 1
    BY <1>3, <1>4
  <2> QED
    BY <1>2, <1>3, <2>1
<1>6. d \in dependsOn[stack[1].id] /\ stack[1].id = q[1].id
  BY <1>0, <1>1, <1>2, <1>3 DEF StackInv, Calls
<1>7. CASE d \in visiting
  <2>1. phase' = "rejected" /\ UNCHANGED <<dependsOn, checked, visiting, visited, stack>>
    BY <1>0, <1>7 DEF Visit, OnCycle
  <2>2. ~Executable
    BY <1>0, <1>7, CycleFound
  <2>3. RejectInv'
    BY <2>1, <2>2 DEF RejectInv, Executable
  <2>4. ShapeInv' /\ NamesInv' /\ StackInv' /\ VisitedInv'
    BY <2>1 DEF NormalizeInv, ShapeInv, NamesInv, StackInv, Calls, VisitedInv
  <2> QED
    BY <2>3, <2>4 DEF NormalizeInv
<1>8. CASE d \notin visiting /\ d \in visited
  <2>1. stack' = q /\ UNCHANGED <<dependsOn, phase, checked, visiting, visited>>
    BY <1>0, <1>8 DEF Visit, OnCycle
  <2>2. visiting = {q[i].id : i \in DOMAIN q} /\ \A i, j \in DOMAIN q : q[i].id = q[j].id => i = j
    <3>1. \A i \in DOMAIN q : q[i].id = stack[i].id
      BY <1>5
    <3> QED
      BY <1>0, <1>3, <3>1 DEF StackInv, Calls
  <2>3. ASSUME NEW i \in DOMAIN q
        PROVE  /\ q[i].todo \subseteq dependsOn[q[i].id]
               /\ i > 1 => q[i - 1].id \in dependsOn[q[i].id]
               /\ \A e \in dependsOn[q[i].id] \ q[i].todo : e \in visited \/ (i > 1 /\ e = q[i - 1].id)
    <3>1. /\ stack[i].todo \subseteq dependsOn[stack[i].id]
          /\ i > 1 => stack[i - 1].id \in dependsOn[stack[i].id]
          /\ \A e \in dependsOn[stack[i].id] \ stack[i].todo : e \in visited \/ (i > 1 /\ e = stack[i - 1].id)
      BY <1>0, <1>3 DEF StackInv, Calls
    <3>2. i > 1 => i - 1 \in DOMAIN q
      BY <1>0, <1>3
    <3>3. \A e \in stack[i].todo \ q[i].todo : e = d
      BY <1>2, <1>3, <1>4
    <3> QED
      BY <1>5, <1>8, <3>1, <3>2, <3>3
  <2>4. StackInv'
    <3>1. visiting \cap visited = {}
      BY <1>0 DEF StackInv, Calls
    <3>2. Calls(dependsOn, q, visiting, visited)
      BY <2>2, <2>3, <3>1 DEF Calls
    <3> QED
      BY <1>0, <2>1, <3>2 DEF StackInv
  <2>5. ShapeInv' /\ NamesInv' /\ VisitedInv' /\ RejectInv'
    BY <1>0, <1>3, <2>1 DEF NormalizeInv, ShapeInv, NamesInv, VisitedInv, RejectInv
  <2> QED
    BY <2>4, <2>5 DEF NormalizeInv
<1>9. CASE d \notin visiting /\ d \notin visited
  <2> DEFINE z == <<[id |-> d, todo |-> dependsOn[d]]>> \o q
  <2>1. stack' = z /\ visiting' = visiting \cup {d} /\ UNCHANGED <<dependsOn, phase, checked, visited>>
    BY <1>0, <1>9 DEF Visit, OnCycle
  <2>2. z = <<[id |-> d, todo |-> dependsOn[d]]>> \o q
    OBVIOUS
  <2> HIDE DEF z
  <2>3. \A e \in stack[1].todo \ q[1].todo : e = d
    BY <1>2, <1>3
  <2>4. StackInv' /\ stack' \in Seq(Frames)
    BY <1>0, <1>3, <1>5, <1>6, <1>9, <2>1, <2>2, <2>3, CallStack
  <2>5. ShapeInv' /\ NamesInv' /\ VisitedInv' /\ RejectInv'
    BY <1>0, <2>1, <2>4 DEF NormalizeInv, ShapeInv, NamesInv, VisitedInv, RejectInv
  <2> QED
    BY <2>4, <2>5 DEF NormalizeInv
<1> QED
  BY <1>7, <1>8, <1>9

LEMMA LeaveStep ==
    ASSUME NormalizeInv, Leave
    PROVE  NormalizeInv'
<1> DEFINE c == stack[1].id
           z == Tail(stack)
<1>0. /\ ShapeInv /\ StackInv /\ VisitedInv /\ stack # <<>> /\ stack \in Seq(Frames)
      /\ phase = "graph" /\ UNCHANGED <<dependsOn, phase, checked>>
  BY DEF NormalizeInv, ShapeInv, Leave
<1>1. /\ z \in Seq(Frames) /\ DOMAIN z = 1..Len(stack) - 1 /\ Len(stack) \in Nat /\ DOMAIN stack = 1..Len(stack)
      /\ Head(stack) = stack[1] /\ 1 \in DOMAIN stack /\ stack[1] \in Frames
      /\ \A i \in DOMAIN z : z[i] = stack[i + 1] /\ i + 1 \in DOMAIN stack
  BY <1>0, Popped
<1>2. /\ stack' = z /\ visiting' = visiting \ {c} /\ visited' = visited \cup {c} /\ stack[1].todo = {}
  BY <1>1 DEF Leave
<1> HIDE DEF z
<1>3. /\ c \in Id /\ c \in visiting /\ c \notin visited /\ dependsOn[c] \subseteq visited
      /\ \A i \in DOMAIN z : z[i].id # c
  <2>1. c \in Id /\ c \in visiting
    BY <1>0, <1>1 DEF StackInv, Calls, Frames
  <2>2. \A d \in dependsOn[c] \ {} : d \in visited
    BY <1>0, <1>1, <1>2 DEF StackInv, Calls
  <2>3. \A i \in DOMAIN z : z[i].id # c
    BY <1>0, <1>1 DEF StackInv, Calls
  <2> QED
    BY <1>0, <2>1, <2>2, <2>3 DEF StackInv, Calls
<1>4. visiting' = {z[i].id : i \in DOMAIN z}
  <2>1. \A i \in DOMAIN z : z[i].id \in visiting'
    BY <1>0, <1>1, <1>2, <1>3 DEF StackInv, Calls
  <2>2. ASSUME NEW x \in visiting' PROVE \E i \in DOMAIN z : x = z[i].id
    <3>1. PICK i \in DOMAIN stack : x = stack[i].id
      BY <1>0, <1>2 DEF StackInv, Calls
    <3>2. i # 1
      BY <1>2, <3>1
    <3>3. i - 1 \in DOMAIN z /\ z[i - 1] = stack[i]
      BY <1>1, <3>2
    <3> QED
      BY <3>1, <3>3
  <2> QED
    BY <2>1, <2>2
<1> HIDE DEF c
<1>5. \A i, j \in DOMAIN z : z[i].id = z[j].id => i = j
  BY <1>0, <1>1 DEF StackInv, Calls
<1>6. ASSUME NEW i \in DOMAIN z
      PROVE  /\ z[i].todo \subseteq dependsOn[z[i].id]
             /\ i > 1 => z[i - 1].id \in dependsOn[z[i].id]
             /\ \A e \in dependsOn[z[i].id] \ z[i].todo : e \in visited' \/ (i > 1 /\ e = z[i - 1].id)
  <2>1. z[i] = stack[i + 1] /\ i + 1 \in DOMAIN stack /\ i + 1 > 1 /\ (i + 1) - 1 = i /\ i >= 1
    BY <1>1
  <2>2. /\ stack[i + 1].todo \subseteq dependsOn[stack[i + 1].id]
        /\ stack[i].id \in dependsOn[stack[i + 1].id]
        /\ \A e \in dependsOn[stack[i + 1].id] \ stack[i + 1].todo : e \in visited \/ e = stack[i].id
    BY <1>0, <2>1 DEF StackInv, Calls
  <2>3. i = 1 => stack[i].id = c
    BY DEF c
  <2>4. i > 1 => z[i - 1] = stack[i]
    BY <1>1
  <2> QED
    BY <1>1, <1>2, <2>1, <2>2, <2>3, <2>4
<1>7. StackInv'
  <2>1. visiting' \cap visited' = {}
    BY <1>0, <1>2 DEF StackInv, Calls
  <2>2. Calls(dependsOn, z, visiting', visited')
    BY <1>4, <1>5, <1>6, <2>1 DEF Calls
  <2> QED
    BY <1>0, <1>2, <2>2 DEF StackInv
<1>8. VisitedInv'
  <2>1. \A t \in visited' : dependsOn[t] \subseteq visited
    BY <1>0, <1>2, <1>3 DEF VisitedInv
  <2>2. ASSUME NEW S \in SUBSET visited', S # {} PROVE \E t \in S : dependsOn[t] \cap S = {}
    <3> DEFINE R == S \ {c}
    <3>1. R \in SUBSET visited
      BY <1>2
    <3>2. CASE R = {}
      BY <1>3, <2>2, <3>2
    <3>3. CASE R # {}
      <4>1. PICK t \in R : dependsOn[t] \cap R = {}
        BY <1>0, <3>1, <3>3 DEF VisitedInv
      <4>2. dependsOn[t] \subseteq visited /\ c \notin dependsOn[t]
        BY <1>2, <1>3, <2>1, <4>1
      <4> QED
        BY <4>1, <4>2
    <3> QED
      BY <3>2, <3>3
  <2> QED
    BY <1>0, <1>2, <2>1, <2>2 DEF VisitedInv
<1>9. ShapeInv' /\ NamesInv' /\ RejectInv'
  BY <1>0, <1>1, <1>2, <1>3 DEF NormalizeInv, ShapeInv, NamesInv, RejectInv
<1> QED
  BY <1>7, <1>8, <1>9 DEF NormalizeInv

LEMMA NormalizeStep == NormalizeInv /\ [Next]_vars => NormalizeInv'
<1> SUFFICES ASSUME NormalizeInv, [Next]_vars PROVE NormalizeInv'
  OBVIOUS
<1>1. CASE CheckGraph
  <2>1. /\ phase = "names" /\ checked = N /\ phase' = "graph"
        /\ UNCHANGED <<dependsOn, checked, visiting, visited, stack>>
    BY <1>1 DEF CheckGraph
  <2> QED
    BY <2>1 DEF NormalizeInv, ShapeInv, NamesInv, StackInv, Calls, VisitedInv, RejectInv
<1>2. CASE Accept
  <2>1. /\ phase = "graph" /\ visited = Id /\ phase' = "accepted"
        /\ UNCHANGED <<dependsOn, checked, visiting, visited, stack>>
    BY <1>2 DEF Accept
  <2> QED
    BY <2>1 DEF NormalizeInv, ShapeInv, NamesInv, StackInv, Calls, VisitedInv, RejectInv
<1>3. CASE Verdict \/ UNCHANGED vars
  <2>1. UNCHANGED <<dependsOn, phase, checked, visiting, visited, stack>>
    BY <1>3 DEF Verdict, vars
  <2> QED
    BY <2>1 DEF NormalizeInv, ShapeInv, NamesInv, StackInv, Calls, VisitedInv, RejectInv, Executable
<1> QED
  BY <1>1, <1>2, <1>3, NamesStep, LeaveStep, RootStep, DependencyStep DEF Next

\* Normalize accepts exactly the relations that can be executed, whatever the
\* order of the roots: validateAcyclic rejects only what has a cycle, and what
\* it accepts names only tasks of the request and has none.
THEOREM VerdictIsRight == Spec => []VerdictCorrect
<1>1. NormalizeInv => VerdictCorrect
  <2> SUFFICES ASSUME NormalizeInv, phase = "accepted" PROVE Executable
    BY DEF NormalizeInv, RejectInv, VerdictCorrect
  <2>1. visited = Id /\ checked = N
    BY DEF NormalizeInv, NamesInv
  <2>2. \A t \in Id : dependsOn[t] \subseteq Id
    BY <2>1 DEF NormalizeInv, NamesInv, Id
  <2> QED
    BY <2>1, <2>2 DEF NormalizeInv, VisitedInv, Executable
<1> QED
  BY <1>1, NormalizeInit, NormalizeStep, PTL DEF Spec
=============================================================================
