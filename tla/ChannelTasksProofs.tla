-------------------------- MODULE ChannelTasksProofs --------------------------
(***************************************************************************)
(* Proofs about ChannelTasks, for every number of messages, deliveries,    *)
(* failed store calls, crashes, reattachments, console turns and           *)
(* takeovers, and every queue limit.                                       *)
(***************************************************************************)
EXTENDS ChannelTasks, SequenceTheorems, FiniteSetTheorems, TLAPS

USE NAssumption, QueueAssumption, BoundsAssumption, OverlapAssumption

Tasks == [id : Msg \cup {NoTask}, session : BOOLEAN, stop : BOOLEAN]
States == [queue : Seq(Item), active : Tasks, steering : BOOLEAN, direct : {"none", "on", "ended"}]
Bounds == [faults : Nat, crashes : Nat, reloads : Nat, directs : Nat, takeovers : Nat]

-----------------------------------------------------------------------------
(* The invariants.                                                         *)

\* The handler has a message while it admits, enqueues or takes over.
HandlerInv == pc \in {"admit", "enqueue", "takeover"} => hmsg \in Msg

\* The one item being steered is in the queue the handler works on.
SteeringIn(q) == {i \in DOMAIN q : q[i].status = "steering"}
SteeringAt(r) == SteeringIn(state[r].queue)
SteerInv ==
    /\ \A r \in Runtime : (state[r].steering \/ SteeringAt(r) # {}) => pc = "steer" /\ r = hrt
    /\ pc = "steer" =>
          /\ state[hrt].steering
          /\ \E i \in SteeringAt(hrt) : SteeringAt(hrt) = {i} /\ given[state[hrt].queue[i].id] > 0

TypeInv == TypeOK /\ HandlerInv /\ SteerInv

\* Without reattachments only the current runtime has anything to do, and none
\* has after a crash; its task and a turn from the console exclude each other.
AloneInv ==
    /\ \A r \in Runtime : r # cur \/ rec = "down" => state[r] = EmptyState
    /\ pc # "idle" => hrt = cur /\ rec # "down"
    /\ IsActive(state[cur]) => state[cur].direct # "on"

\* What was not started was not given.
NotGiven == {"none", "queued"}
Waiting == {"queued", "steering"}
Pending == {"none", "queued", "steering"}
GivenInv == \A m \in Msg : given[m] <= 1 /\ (row[m] \in NotGiven => given[m] = 0)

\* A task that runs or is taken over has left the queue for good, the message
\* in the handler has no task yet.
ActiveInv ==
    /\ \A r \in Runtime : IsActive(state[r]) => row[state[r].active.id] \notin Pending
    /\ pc = "takeover" => row[hmsg] \notin Pending
    /\ pc \in {"admit", "enqueue"} => row[hmsg] = "none"

\* The handler works on the current runtime once it has recovered; runtimes
\* to come are empty.
CurrentInv ==
    /\ pc # "idle" => hrt = cur /\ rec = "done"
    /\ \A r \in Runtime : r > cur => state[r] = EmptyState
    /\ rec \in {"steering", "running", "select", "load"} => state[cur].queue = <<>>

\* The queue of a live runtime, and what recovery has read for it, agrees with
\* the rows and has each task once.
Agrees(q, rw) ==
    /\ \A i \in DOMAIN q : rw[q[i].id] = q[i].status
    /\ \A i, j \in DOMAIN q : q[i].id = q[j].id => i = j
Distinct(s) == \A i, j \in DOMAIN s : s[i] = s[j] => i = j
QueueInv ==
    /\ rec # "down" => Agrees(state[cur].queue, row)
    /\ rec = "load" => Distinct(loaded) /\ \A i \in DOMAIN loaded : row[loaded[i]] = "queued"
    /\ Distinct(created) /\ \A i \in DOMAIN created : row[created[i]] # "none"

OnceInv == GivenInv /\ ActiveInv /\ CurrentInv /\ QueueInv
PromptInv == TypeInv /\ OnceInv

\* As long as no store call fails, nothing that waits is lost: it was created,
\* is found by recovery, and is in the queue of a channel that has recovered.
HeldInv ==
    /\ \A m \in Msg : row[m] \in Waiting => \E i \in DOMAIN created : created[i] = m
    /\ bounds.faults = 0 =>
          /\ rec \in {"running", "select", "load"} => \A m \in Msg : row[m] # "steering"
          /\ rec = "load" => \A m \in Msg : row[m] = "queued" => \E i \in DOMAIN loaded : loaded[i] = m
          /\ rec = "done" => \A m \in Msg : row[m] \in Waiting =>
                                \E i \in DOMAIN state[cur].queue : state[cur].queue[i].id = m

-----------------------------------------------------------------------------
(* Queues from which positions were taken out.                             *)

\* z has what q has at the positions P, each of them once and in their order.
Picks(z, q, P) ==
    \E h \in [DOMAIN z -> P] :
        /\ \A j \in DOMAIN z : z[j] = q[h[j]]
        /\ \A i, j \in DOMAIN z : h[i] = h[j] => i = j
        /\ \A p \in P : \E j \in DOMAIN z : h[j] = p
        /\ \A i, j \in DOMAIN z : i < j => h[i] < h[j]

LEMMA TailPicks ==
    ASSUME NEW S, NEW q \in Seq(S), q # <<>>
    PROVE  Tail(q) \in Seq(S) /\ q[1] \in S /\ Head(q) = q[1] /\ 1 \in DOMAIN q /\ Picks(Tail(q), q, (1..Len(q)) \ {1})
<1>1. /\ Tail(q) \in Seq(S) /\ Len(Tail(q)) = Len(q) - 1 /\ Len(q) \in Nat \ {0}
      /\ \A j \in 1..Len(q) - 1 : Tail(q)[j] = q[j + 1]
  OBVIOUS
<1>2. DOMAIN q = 1..Len(q) /\ DOMAIN Tail(q) = 1..Len(q) - 1 /\ 1 \in DOMAIN q /\ Head(q) = q[1]
  BY <1>1
<1>3. q[1] \in S
  BY <1>2, ElementOfSeq
<1> DEFINE P == (1..Len(q)) \ {1}
           D == DOMAIN Tail(q)
           h == [j \in D |-> j + 1]
<1>4. \A j \in D : j + 1 \in P
  BY <1>1, <1>2
<1>5. h \in [D -> P] /\ \A j \in D : h[j] = j + 1
  BY <1>4
<1>6. \A j \in D : Tail(q)[j] = q[h[j]]
  BY <1>1, <1>2, <1>5
<1>7. (\A i, j \in D : h[i] = h[j] => i = j) /\ (\A i, j \in D : i < j => h[i] < h[j])
  BY <1>2, <1>5
<1>8. \A p \in P : p - 1 \in D /\ h[p - 1] = p
  BY <1>1, <1>2, <1>5
<1> HIDE DEF h, P
<1>9. \A p \in P : \E j \in D : h[j] = p
  BY <1>8
<1>10. Picks(Tail(q), q, P)
  BY <1>5, <1>6, <1>7, <1>9 DEF Picks
<1> QED
  BY <1>1, <1>2, <1>3, <1>10 DEF P

LEMMA RemoveAtPicks ==
    ASSUME NEW S, NEW q \in Seq(S), NEW i \in 1..Len(q)
    PROVE  RemoveAt(q, i) \in Seq(S) /\ Picks(RemoveAt(q, i), q, (1..Len(q)) \ {i})
<1> DEFINE a == SubSeq(q, 1, i - 1)
           b == SubSeq(q, i + 1, Len(q))
           z == RemoveAt(q, i)
           n == Len(q)
<1>0. n \in Nat /\ i \in Nat /\ i >= 1 /\ i <= n /\ DOMAIN q = 1..n
  OBVIOUS
<1>1. a \in Seq(S) /\ Len(a) = i - 1 /\ \A j \in 1..i - 1 : a[j] = q[j]
  BY <1>0
<1>2. b \in Seq(S) /\ Len(b) = n - i /\ \A j \in 1..n - i : b[j] = q[i + j]
  <2> DEFINE k == i + 1
  <2> HIDE DEF n, k
  <2>1. k \in Int /\ n \in Int /\ \A j \in k..n : q[j] \in S
    BY <1>0 DEF k
  <2> DEFINE u == SubSeq(q, k, n)
  <2>2. /\ u \in Seq(S) /\ Len(u) = IF k <= n THEN n - k + 1 ELSE 0
        /\ \A j \in 1..n - k + 1 : u[j] = q[k + j - 1]
    BY <2>1, SubSeqProperties
  <2> HIDE DEF u
  <2>3. n - k + 1 = n - i /\ (IF k <= n THEN n - k + 1 ELSE 0) = n - i
    BY <1>0 DEF k
  <2>4. \A j \in 1..n - i : k + j - 1 = i + j
    BY <1>0 DEF k
  <2>5. b = u
    BY DEF b, u, k, n
  <2> QED
    BY <2>2, <2>3, <2>4, <2>5
<1>3. z = a \o b
  BY DEF RemoveAt
<1> HIDE DEF a, b, z, n
<1>4. /\ z \in Seq(S) /\ Len(z) = n - 1
      /\ \A j \in 1..n - 1 : z[j] = IF j <= i - 1 THEN a[j] ELSE b[j - (i - 1)]
  <2>1. /\ z \in Seq(S) /\ Len(z) = Len(a) + Len(b)
        /\ \A j \in 1..Len(a) + Len(b) : z[j] = IF j <= Len(a) THEN a[j] ELSE b[j - Len(a)]
    BY Zenon, <1>1, <1>2, <1>3, ConcatProperties
  <2>2. Len(a) + Len(b) = n - 1 /\ Len(a) = i - 1
    BY <1>0, <1>1, <1>2
  <2> QED
    BY <2>1, <2>2
<1> DEFINE D == DOMAIN z
           P == (1..n) \ {i}
           h == [j \in D |-> IF j < i THEN j ELSE j + 1]
<1>5. D = 1..n - 1
  BY <1>0, <1>4
<1>6. \A j \in D : (IF j < i THEN j ELSE j + 1) \in P
  BY <1>0, <1>5
<1>7. h \in [D -> P] /\ \A j \in D : h[j] = IF j < i THEN j ELSE j + 1
  BY <1>6
<1>8. ASSUME NEW j \in D PROVE z[j] = q[h[j]]
  <2>1. CASE j < i
    <3>1. j \in 1..i - 1 /\ j <= i - 1 /\ j \in 1..n - 1
      BY <1>0, <1>5, <2>1
    <3>2. z[j] = a[j] /\ h[j] = j
      BY <1>4, <1>7, <2>1, <3>1
    <3>3. a[j] = q[j]
      BY <1>1, <3>1
    <3> QED
      BY <3>2, <3>3
  <2>2. CASE ~(j < i)
    <3>1. z[j] = b[j - (i - 1)] /\ h[j] = j + 1
      BY <1>0, <1>1, <1>2, <1>4, <1>5, <1>7, <2>2
    <3>2. j - (i - 1) \in 1..n - i /\ i + (j - (i - 1)) = j + 1
      BY <1>0, <1>5, <2>2
    <3> QED
      BY <1>2, <3>1, <3>2
  <2> QED
    BY <2>1, <2>2
<1>9. (\A j, k \in D : h[j] = h[k] => j = k) /\ (\A j, k \in D : j < k => h[j] < h[k])
  BY <1>0, <1>5, <1>7
<1>10. ASSUME NEW p \in P PROVE \E j \in D : h[j] = p
  <2>1. CASE p < i
    <3>1. p \in D /\ h[p] = p
      BY <1>0, <1>5, <1>7, <2>1
    <3> QED
      BY <3>1
  <2>2. CASE p > i
    <3>1. p - 1 \in D /\ h[p - 1] = p
      BY <1>0, <1>5, <1>7, <2>2
    <3> QED
      BY <3>1
  <2> QED
    BY <1>0, <2>1, <2>2
<1> HIDE DEF h, P
<1>11. Picks(z, q, P)
  BY <1>7, <1>8, <1>9, <1>10 DEF Picks
<1> QED
  BY <1>4, <1>11 DEF z, P, n

\* A rising choice of as many positions as there are leaves none out.
LEMMA KeptPicks ==
    ASSUME NEW S, NEW q \in Seq(S), NEW P \in SUBSET (1..Len(q)), NEW z \in Kept(q, P)
    PROVE  z \in Seq(S) /\ Picks(z, q, P)
<1> DEFINE n == Cardinality(P)
<1>0. Len(q) \in Nat /\ IsFiniteSet(P) /\ n \in Nat
  <2>1. Len(q) \in Nat /\ IsFiniteSet(1..Len(q))
    BY FS_Interval
  <2>2. IsFiniteSet(P)
    BY <2>1, FS_Subset
  <2> QED
    BY <2>1, <2>2, FS_CardinalityType
<1>1. PICK h \in [1..n -> P] : /\ \A i, j \in DOMAIN h : i < j => h[i] < h[j]
                               /\ z = [i \in DOMAIN h |-> q[h[i]]]
  BY DEF Kept
<1> HIDE DEF n
<1>2. DOMAIN h = 1..n /\ DOMAIN z = 1..n /\ \A i \in 1..n : z[i] = q[h[i]] /\ h[i] \in P /\ h[i] \in 1..Len(q)
  BY <1>1
<1>3. \A i \in 1..n : q[h[i]] \in S
  BY <1>2
<1>4. z \in Seq(S)
  BY <1>0, <1>1, <1>2, <1>3
<1>5. \A i, j \in 1..n : h[i] = h[j] => i = j
  <2> SUFFICES ASSUME NEW i \in 1..n, NEW j \in 1..n, h[i] = h[j], i # j PROVE FALSE
    OBVIOUS
  <2>1. h[i] \in Int /\ h[j] \in Int
    BY <1>2
  <2>2. i < j \/ j < i
    BY <1>0
  <2> QED
    BY <1>1, <1>2, <2>1, <2>2
<1>6. \A p \in P : \E j \in 1..n : h[j] = p
  <2>1. IsFiniteSet(1..n) /\ Cardinality(1..n) = n
    BY <1>0, FS_Interval
  <2>2. h \in Injection(1..n, P)
    BY <1>5 DEF Injection, IsInjective
  <2>3. h \in Surjection(1..n, P)
    BY <1>0, <2>1, <2>2, FS_Injection DEF n
  <2> QED
    BY <2>3 DEF Surjection
<1>7. h \in [DOMAIN z -> P]
  BY <1>2
<1> DEFINE D == DOMAIN z
<1>8. /\ \A j \in D : z[j] = q[h[j]]
      /\ \A i, j \in D : h[i] = h[j] => i = j
      /\ \A p \in P : \E j \in D : h[j] = p
      /\ \A i, j \in D : i < j => h[i] < h[j]
  BY <1>1, <1>2, <1>5, <1>6
<1> HIDE DEF D
<1>9. h \in [D -> P]
  BY <1>7 DEF D
<1>10. Picks(z, q, P)
  BY <1>8, <1>9 DEF Picks, D
<1> QED
  BY <1>4, <1>10

\* What is picked keeps to the rows, and nothing else is lost.
LEMMA PicksAgree ==
    ASSUME NEW q, NEW z, NEW P \in SUBSET DOMAIN q, Picks(z, q, P), NEW rw, NEW rw1,
           Agrees(q, rw), \A p \in P : rw1[q[p].id] = rw[q[p].id]
    PROVE  /\ Agrees(z, rw1)
           /\ \A j \in DOMAIN z : \E p \in P : z[j] = q[p]
           /\ \A p \in P : \E j \in DOMAIN z : z[j] = q[p]
<1>1. PICK h \in [DOMAIN z -> P] :
          /\ \A j \in DOMAIN z : z[j] = q[h[j]]
          /\ \A i, j \in DOMAIN z : h[i] = h[j] => i = j
          /\ \A p \in P : \E j \in DOMAIN z : h[j] = p
  BY DEF Picks
<1>2. \A j \in DOMAIN z : h[j] \in P /\ h[j] \in DOMAIN q
  BY <1>1
<1>3. \A j \in DOMAIN z : rw1[z[j].id] = z[j].status
  BY <1>1, <1>2 DEF Agrees
<1>4. \A i, j \in DOMAIN z : z[i].id = z[j].id => i = j
  BY <1>1, <1>2 DEF Agrees
<1> QED
  BY <1>1, <1>2, <1>3, <1>4 DEF Agrees

LEMMA PicksElements ==
    ASSUME NEW q, NEW z, NEW P, Picks(z, q, P)
    PROVE  /\ \A j \in DOMAIN z : \E p \in P : z[j] = q[p]
           /\ \A p \in P : \E j \in DOMAIN z : z[j] = q[p]
BY DEF Picks

-----------------------------------------------------------------------------
(* Records and the start of the next task.                                 *)

LEMMA StateFields ==
    ASSUME NEW s \in States
    PROVE  /\ s.queue \in Seq(Item) /\ s.active \in Tasks /\ s.steering \in BOOLEAN
           /\ s.direct \in {"none", "on", "ended"}
           /\ s.active.id \in Msg \cup {NoTask}
           /\ IsActive(s) => s.active.id \in Msg
BY DEF States, Tasks, IsActive

LEMMA SetQueue ==
    ASSUME NEW s \in States, NEW q \in Seq(Item)
    PROVE  LET u == [s EXCEPT !.queue = q] IN
           /\ u \in States /\ u.queue = q /\ u.active = s.active
           /\ u.steering = s.steering /\ u.direct = s.direct
BY DEF States

LEMMA ItemFields ==
    ASSUME NEW m \in Msg, NEW k \in Msg \cup {NoTask}
    PROVE  NewItem(m, k) \in Item /\ NewItem(m, k).id = m /\ NewItem(m, k).status = "queued"
BY DEF NewItem, Item

LEMMA EmptyFields ==
    /\ EmptyState \in States /\ EmptyState.queue = <<>> /\ EmptyState.active = Idle /\ EmptyState.steering = FALSE
    /\ EmptyState.direct = "none" /\ ~IsActive(EmptyState) /\ Idle \in Tasks
BY DEF EmptyState, States, Idle, Tasks, IsActive

LEMMA FailedType ==
    ASSUME NEW b \in Bounds
    PROVE  Failed(b) \in Bounds /\ Failed(b).faults = b.faults + 1
BY DEF Failed, Bounds

\* What startNextRemoteLocked leaves: the state its caller brought about, or
\* that state with the head of the queue as the running task.
Started(r, s, rw, g) ==
    /\ MayStart(r, s) /\ s.queue # <<>>
    /\ state'[r].queue = Tail(s.queue) /\ state'[r].active = Run(s.queue[1].id)
    /\ s.queue[1].id \in Msg
    /\ row' = [rw EXCEPT ![s.queue[1].id] = "running"]
    /\ given' = [g EXCEPT ![s.queue[1].id] = g[s.queue[1].id] + 1]
LeftAs(r, s, rw, g) == state'[r] = s /\ row' = rw /\ given' = g

LEMMA StartFact ==
    ASSUME state \in [Runtime -> States], NEW r \in Runtime, NEW s \in States, NEW rw \in [Msg -> Status],
           NEW g \in [Msg -> Nat], NEW b \in Bounds, StartNextRemoteLocked(r, s, rw, g, b)
    PROVE  /\ state' \in [Runtime -> States] /\ row' \in [Msg -> Status] /\ given' \in [Msg -> Nat]
           /\ bounds' \in Bounds /\ (bounds' = b \/ bounds' = Failed(b))
           /\ \A q \in Runtime : q # r => state'[q] = state[q]
           /\ state'[r].steering = s.steering /\ state'[r].direct = s.direct
           /\ LeftAs(r, s, rw, g) \/ Started(r, s, rw, g)
<1>1. CASE state' = [state EXCEPT ![r] = s] /\ row' = rw /\ given' = g /\ (bounds' = b \/ bounds' = Failed(b))
  BY <1>1, FailedType DEF LeftAs
<1>2. CASE /\ MayStart(r, s) /\ bounds' = b
           /\ LET m == Head(s.queue).id IN
              /\ state' = [state EXCEPT ![r] = [s EXCEPT !.queue = Tail(@), !.active = Run(m)]]
              /\ row' = SetRow(rw, m, "running")
              /\ given' = Gave(g, m)
  <2>1. s.queue \in Seq(Item) /\ s.queue # <<>>
    BY <1>2, StateFields DEF MayStart
  <2>2. Tail(s.queue) \in Seq(Item) /\ s.queue[1] \in Item /\ Head(s.queue) = s.queue[1]
    BY <2>1, TailPicks
  <2> DEFINE m == s.queue[1].id
             u == [s EXCEPT !.queue = Tail(s.queue), !.active = Run(m)]
  <2>3. m \in Msg
    BY <2>2 DEF Item
  <2> HIDE DEF m
  <2>4. Run(m) \in Tasks
    BY <2>3 DEF Run, Tasks
  <2>5. u \in States /\ u.queue = Tail(s.queue) /\ u.active = Run(m) /\ u.steering = s.steering /\ u.direct = s.direct
    BY <2>2, <2>4 DEF States
  <2>6. state' = [state EXCEPT ![r] = u] /\ row' = [rw EXCEPT ![m] = "running"] /\ given' = [g EXCEPT ![m] = g[m] + 1]
    BY <1>2, <2>2 DEF m, SetRow, Gave
  <2> HIDE DEF u
  <2>7. state' \in [Runtime -> States] /\ state'[r] = u /\ \A q \in Runtime : q # r => state'[q] = state[q]
    BY <2>5, <2>6
  <2>8. row' \in [Msg -> Status] /\ given' \in [Msg -> Nat]
    <3>1. "running" \in Status
      BY DEF Status
    <3>2. row' \in [Msg -> Status]
      BY <2>3, <2>6, <3>1
    <3>3. given' \in [Msg -> Nat]
      BY <2>3, <2>6
    <3> QED
      BY <3>2, <3>3
  <2>9. Started(r, s, rw, g)
    BY <1>2, <2>1, <2>3, <2>5, <2>6, <2>7 DEF Started, m
  <2> QED
    BY <1>2, <2>5, <2>7, <2>8, <2>9
<1> QED
  BY <1>1, <1>2 DEF StartNextRemoteLocked

-----------------------------------------------------------------------------
(* What the calls of startNextRemoteLocked start from.                     *)

LEMMA Types ==
    ASSUME TypeOK
    PROVE  /\ row \in [Msg -> Status] /\ created \in Seq(Msg) /\ state \in [Runtime -> States] /\ cur \in Runtime
           /\ loaded \in Seq(Msg) /\ hrt \in Runtime /\ given \in [Msg -> Nat] /\ bounds \in Bounds
           /\ \A r \in Runtime : state[r] \in States /\ state[r].queue \in Seq(Item)
BY DEF TypeOK, States, Tasks, Bounds

LEMMA StatusTypes ==
    ASSUME NEW rw \in [Msg -> Status], NEW m, NEW x \in Status
    PROVE  SetRow(rw, m, x) \in [Msg -> Status]
BY DEF SetRow

LEMMA EnqueueStart ==
    ASSUME TypeInv, pc = "enqueue"
    PROVE  LET q == Append(state[hrt].queue, NewItem(hmsg, state[hrt].active.id))
               s == [state[hrt] EXCEPT !.queue = q]
               rw == SetRow(row, hmsg, "queued") IN
           /\ q \in Seq(Item) /\ s \in States /\ s.queue = q /\ s.active = state[hrt].active
           /\ s.steering = state[hrt].steering /\ s.direct = state[hrt].direct
           /\ rw \in [Msg -> Status] /\ hmsg \in Msg /\ hrt \in Runtime
           /\ \A i \in DOMAIN q : (i \in DOMAIN state[hrt].queue /\ q[i] = state[hrt].queue[i])
                                   \/ (i = Len(state[hrt].queue) + 1 /\ q[i].id = hmsg /\ q[i].status = "queued")
           /\ \A i \in DOMAIN state[hrt].queue : i \in DOMAIN q /\ q[i] = state[hrt].queue[i]
           /\ Len(state[hrt].queue) + 1 \in DOMAIN q /\ q[Len(state[hrt].queue) + 1].id = hmsg
<1> DEFINE o == state[hrt].queue
           item == NewItem(hmsg, state[hrt].active.id)
           q == Append(o, item)
<1>1. o \in Seq(Item) /\ state[hrt] \in States /\ hmsg \in Msg /\ hrt \in Runtime
  BY Types DEF TypeInv, HandlerInv
<1>2. item \in Item /\ item.id = hmsg /\ item.status = "queued"
  BY <1>1, StateFields, ItemFields
<1>3. SetRow(row, hmsg, "queued") \in [Msg -> Status]
  BY Types, StatusTypes DEF TypeInv, Status
<1> HIDE DEF o, item
<1>4. /\ q \in Seq(Item) /\ DOMAIN o = 1..Len(o) /\ DOMAIN q = 1..Len(o) + 1 /\ q[Len(o) + 1] = item /\ Len(o) \in Nat
      /\ \A i \in 1..Len(o) : q[i] = o[i]
  BY <1>1, <1>2
<1> HIDE DEF q
<1>5. /\ \A i \in DOMAIN q : (i \in DOMAIN o /\ q[i] = o[i]) \/ (i = Len(o) + 1 /\ q[i] = item)
      /\ \A i \in DOMAIN o : i \in DOMAIN q /\ q[i] = o[i]
      /\ Len(o) + 1 \in DOMAIN q /\ q[Len(o) + 1] = item
  BY <1>4
<1>6. LET s == [state[hrt] EXCEPT !.queue = q] IN
           /\ s \in States /\ s.queue = q /\ s.active = state[hrt].active
           /\ s.steering = state[hrt].steering /\ s.direct = state[hrt].direct
  BY <1>1, <1>4, SetQueue
<1> QED
  BY <1>1, <1>2, <1>3, <1>4, <1>5, <1>6 DEF q, o, item

\* A queue without one position.
LEMMA RemoveStart ==
    ASSUME NEW s \in States, NEW i \in 1..Len(s.queue)
    PROVE  LET q == RemoveAt(s.queue, i)
               u == [s EXCEPT !.queue = q] IN
           /\ q \in Seq(Item) /\ u \in States /\ u.queue = q /\ u.active = s.active
           /\ u.steering = s.steering /\ u.direct = s.direct
           /\ Picks(q, s.queue, (1..Len(s.queue)) \ {i})
<1>1. s.queue \in Seq(Item)
  BY StateFields
<1>2. RemoveAt(s.queue, i) \in Seq(Item) /\ Picks(RemoveAt(s.queue, i), s.queue, (1..Len(s.queue)) \ {i})
  BY <1>1, RemoveAtPicks
<1> QED
  BY <1>2, SetQueue

\* The positions clearRemoteQueue keeps.
Cleared(drop) == {i \in QueuedAt(state[hrt]) : state[hrt].queue[i].id \in drop}
Remaining(drop) == (1..Len(state[hrt].queue)) \ Cleared(drop)
ClearedRows(drop) == [m \in Msg |-> IF m \in drop THEN "cancelled" ELSE row[m]]

LEMMA ClearStart ==
    ASSUME TypeOK, NEW drop \in SUBSET Msg, NEW fails \in 0..MaxFaults, ClearQueue(drop, fails)
    PROVE  \E q \in Kept(state[hrt].queue, Remaining(drop)) :
              LET u == [state[hrt] EXCEPT !.queue = q]
                  b == [bounds EXCEPT !.faults = bounds.faults + fails] IN
              /\ q \in Seq(Item) /\ u \in States /\ u.queue = q /\ u.active = state[hrt].active
              /\ u.steering = state[hrt].steering /\ u.direct = state[hrt].direct
              /\ Picks(q, state[hrt].queue, Remaining(drop))
              /\ ClearedRows(drop) \in [Msg -> Status]
              /\ b \in Bounds /\ b.faults >= bounds.faults
              /\ StartNextRemoteLocked(hrt, u, ClearedRows(drop), given, b)
<1> DEFINE s == state[hrt]
           P == Remaining(drop)
<1>1. s \in States /\ s.queue \in Seq(Item) /\ row \in [Msg -> Status] /\ bounds \in Bounds
  BY Types
<1>2. P \in SUBSET (1..Len(s.queue))
  BY DEF Remaining
<1>3. PICK q \in Kept(s.queue, P) :
          StartNextRemoteLocked(hrt, [s EXCEPT !.queue = q], ClearedRows(drop), given,
                                [bounds EXCEPT !.faults = bounds.faults + fails])
  BY DEF ClearQueue, ClearedRows, Remaining, Cleared
<1>4. q \in Seq(Item) /\ Picks(q, s.queue, P)
  <2> DEFINE o == s.queue
  <2> HIDE DEF s, P
  <2>1. o \in Seq(Item) /\ P \in SUBSET (1..Len(o)) /\ q \in Kept(o, P)
    BY <1>1, <1>2, <1>3
  <2> HIDE DEF o
  <2>2. q \in Seq(Item) /\ Picks(q, o, P)
    BY <2>1, KeptPicks
  <2> QED
    BY <2>2 DEF o
<1>5. ClearedRows(drop) \in [Msg -> Status]
  BY <1>1 DEF ClearedRows, Status
<1>6. LET b == [bounds EXCEPT !.faults = bounds.faults + fails] IN b \in Bounds /\ b.faults >= bounds.faults
  <2> DEFINE n == bounds.faults + fails
  <2>1. n \in Nat /\ n >= bounds.faults
    BY <1>1 DEF Bounds
  <2> HIDE DEF n
  <2>2. [bounds EXCEPT !.faults = n] \in Bounds /\ [bounds EXCEPT !.faults = n].faults = n
    BY <1>1, <2>1 DEF Bounds
  <2> QED
    BY <2>1, <2>2 DEF n
<1>7. LET u == [s EXCEPT !.queue = q] IN
      /\ u \in States /\ u.queue = q /\ u.active = s.active /\ u.steering = s.steering /\ u.direct = s.direct
  BY <1>1, <1>4, SetQueue
<1> QED
  BY <1>3, <1>4, <1>5, <1>6, <1>7

\* The item being steered, as SteerReturns finds it.
SteeredAt == CHOOSE j \in 1..Len(state[hrt].queue) : state[hrt].queue[j].status = "steering"
SteeredTask == state[hrt].queue[SteeredAt].id
Unsteered == [state[hrt] EXCEPT !.steering = FALSE]
SteeredGiven(answer) == IF answer = "rejected" THEN [given EXCEPT ![SteeredTask] = given[SteeredTask] - 1] ELSE given

LEMMA SteeredFact ==
    ASSUME TypeInv, pc = "steer", NEW answer \in DOMAIN SteerStatus
    PROVE  /\ SteeredAt \in 1..Len(state[hrt].queue) /\ SteeringAt(hrt) = {SteeredAt}
           /\ state[hrt].queue[SteeredAt].status = "steering"
           /\ SteeredTask \in Msg /\ given[SteeredTask] > 0
           /\ Unsteered \in States /\ Unsteered.queue = state[hrt].queue /\ Unsteered.active = state[hrt].active
           /\ Unsteered.steering = FALSE /\ Unsteered.direct = state[hrt].direct
           /\ SteeredGiven(answer) \in [Msg -> Nat]
           /\ SetRow(row, SteeredTask, SteerStatus[answer]) \in [Msg -> Status]
           /\ SteerStatus[answer] \in {"steered", "queued", "steer_unknown"}
           /\ (answer = "rejected") <=> (SteerStatus[answer] = "queued")
<1> DEFINE o == state[hrt].queue
<1>1. o \in Seq(Item) /\ state[hrt] \in States /\ given \in [Msg -> Nat] /\ row \in [Msg -> Status]
  BY Types DEF TypeInv
<1>2. DOMAIN o = 1..Len(o)
  BY <1>1
<1>3. PICK i \in SteeringAt(hrt) : SteeringAt(hrt) = {i} /\ given[o[i].id] > 0
  BY DEF TypeInv, SteerInv
<1>4. i \in 1..Len(o) /\ o[i].status = "steering"
  BY <1>2, <1>3 DEF SteeringAt, SteeringIn
<1>5. SteeredAt \in 1..Len(o) /\ o[SteeredAt].status = "steering"
  BY <1>4 DEF SteeredAt
<1>6. SteeredAt = i
  BY <1>2, <1>3, <1>5 DEF SteeringAt, SteeringIn
<1>7. SteeredTask \in Msg /\ given[SteeredTask] > 0
  <2>1. SteeredTask = o[i].id
    BY <1>6 DEF SteeredTask
  <2>2. o[i] \in Item
    BY <1>1, <1>4, ElementOfSeq
  <2> QED
    BY <1>3, <2>1, <2>2 DEF Item
<1>8. /\ Unsteered \in States /\ Unsteered.queue = o /\ Unsteered.active = state[hrt].active
      /\ Unsteered.steering = FALSE /\ Unsteered.direct = state[hrt].direct
  BY <1>1 DEF Unsteered, States
<1>9. SteeredGiven(answer) \in [Msg -> Nat]
  <2>1. given[SteeredTask] - 1 \in Nat
    BY <1>1, <1>7
  <2> QED
    BY <1>1, <1>7, <2>1 DEF SteeredGiven
<1>10. /\ SteerStatus[answer] \in {"steered", "queued", "steer_unknown"}
       /\ (answer = "rejected") <=> (SteerStatus[answer] = "queued")
  BY DEF SteerStatus
<1>11. SetRow(row, SteeredTask, SteerStatus[answer]) \in [Msg -> Status]
  BY <1>1, <1>10, StatusTypes DEF Status
<1> QED
  BY <1>3, <1>5, <1>6, <1>7, <1>8, <1>9, <1>10, <1>11

\* The rejected item waits again, where it was.
LEMMA RejectedQueue ==
    ASSUME TypeInv, pc = "steer"
    PROVE  LET q == [state[hrt].queue EXCEPT ![SteeredAt].status = "queued"] IN
           /\ q \in Seq(Item) /\ DOMAIN q = DOMAIN state[hrt].queue /\ SteeringIn(q) = {}
           /\ \A i \in DOMAIN q : q[i].id = state[hrt].queue[i].id
           /\ q[SteeredAt].status = "queued"
           /\ \A i \in DOMAIN q : i # SteeredAt => q[i] = state[hrt].queue[i]
<1> DEFINE o == state[hrt].queue
           k == SteeredAt
           x == [o[k] EXCEPT !.status = "queued"]
           q == [o EXCEPT ![k].status = "queued"]
<1>1. o \in Seq(Item) /\ k \in 1..Len(o) /\ SteeringIn(o) = {k}
  <2>1. "rejected" \in DOMAIN SteerStatus
    BY DEF SteerStatus
  <2> QED
    BY <2>1, SteeredFact, Types DEF TypeInv, SteeringAt
<1> HIDE DEF o, k
<1>2. o[k] \in Item /\ DOMAIN o = 1..Len(o)
  BY <1>1
<1>3. x \in Item /\ x.status = "queued" /\ x.id = o[k].id
  BY <1>2 DEF Item
<1>4. q = [o EXCEPT ![k] = x]
  OBVIOUS
<1> HIDE DEF x, q
<1>5. q \in Seq(Item) /\ DOMAIN q = DOMAIN o /\ \A i \in DOMAIN o : q[i] = IF i = k THEN x ELSE o[i]
  BY <1>1, <1>2, <1>3, <1>4
<1>6. SteeringIn(q) = {}
  BY <1>1, <1>3, <1>5 DEF SteeringIn
<1>7. \A i \in DOMAIN q : q[i].id = o[i].id
  BY <1>3, <1>5
<1>8. q[k].status = "queued" /\ \A i \in DOMAIN q : i # k => q[i] = o[i]
  BY <1>1, <1>2, <1>3, <1>5
<1> QED
  BY <1>5, <1>6, <1>7, <1>8 DEF q, o, k

LEMMA RemovedQueue ==
    ASSUME TypeInv, pc = "steer"
    PROVE  LET q == RemoveAt(state[hrt].queue, SteeredAt) IN
           /\ q \in Seq(Item) /\ SteeringIn(q) = {}
           /\ Picks(q, state[hrt].queue, (1..Len(state[hrt].queue)) \ {SteeredAt})
<1> DEFINE o == state[hrt].queue
           k == SteeredAt
           P == (1..Len(o)) \ {k}
<1>1. o \in Seq(Item) /\ k \in 1..Len(o) /\ SteeringIn(o) = {k}
  <2>1. "rejected" \in DOMAIN SteerStatus
    BY DEF SteerStatus
  <2> QED
    BY <2>1, SteeredFact, Types DEF TypeInv, SteeringAt
<1> HIDE DEF o, k
<1>2. RemoveAt(o, k) \in Seq(Item) /\ Picks(RemoveAt(o, k), o, P)
  BY <1>1, RemoveAtPicks
<1> DEFINE q == RemoveAt(o, k)
<1> HIDE DEF q
<1>3. \A j \in DOMAIN q : \E p \in P : q[j] = o[p]
  <2>1. Picks(q, o, P)
    BY <1>2 DEF q
  <2> HIDE DEF P
  <2> QED
    BY <2>1, PicksElements
<1>4. \A p \in P : o[p].status # "steering"
  BY <1>1 DEF SteeringIn
<1>5. SteeringIn(q) = {}
  BY <1>3, <1>4 DEF SteeringIn
<1> QED
  BY <1>2, <1>5 DEF q, o, k

\* Each way a steer ends is a start from a state without a steered item.
LEMMA SteerReturnsStart ==
    ASSUME TypeInv, NEW answer \in DOMAIN SteerStatus, SteerReturns(answer)
    PROVE  \/ /\ answer = "rejected"
              /\ StartNextRemoteLocked(hrt,
                    [Unsteered EXCEPT !.queue = [state[hrt].queue EXCEPT ![SteeredAt].status = "queued"]],
                    SetRow(row, SteeredTask, "queued"), SteeredGiven(answer), bounds)
           \/ /\ answer # "rejected"
              /\ StartNextRemoteLocked(hrt,
                    [Unsteered EXCEPT !.queue = RemoveAt(state[hrt].queue, SteeredAt)],
                    SetRow(row, SteeredTask, SteerStatus[answer]), SteeredGiven(answer), bounds)
           \/ /\ CanFail(bounds)
              /\ StartNextRemoteLocked(hrt,
                    [Unsteered EXCEPT !.queue = RemoveAt(state[hrt].queue, SteeredAt)],
                    row, SteeredGiven(answer), Failed(bounds))
<1>1. Unsteered.queue = state[hrt].queue
  BY Zenon, SteeredFact DEF SteerReturns
<1>2. SteerStatus["rejected"] = "queued"
  BY DEF SteerStatus
<1> QED
  BY ZenonT(40), <1>1, <1>2 DEF SteerReturns, QueueAfterSteer, SteeredAt, SteeredTask, SteeredGiven, Unsteered

\* Recovery appends the rows it has read.
LoadedItems == [i \in 1..Len(loaded) |-> NewItem(loaded[i], NoTask)]
LEMMA LoadStart ==
    ASSUME TypeOK
    PROVE  LET o == state[cur].queue
               q == o \o LoadedItems
               s == [state[cur] EXCEPT !.queue = q] IN
           /\ q \in Seq(Item) /\ s \in States /\ s.queue = q /\ s.active = state[cur].active
           /\ s.steering = state[cur].steering /\ s.direct = state[cur].direct
           /\ SteeringIn(q) = SteeringIn(o) /\ \A i \in DOMAIN o : i \in DOMAIN q /\ q[i] = o[i]
           /\ LoadedItems \in Seq(Item) /\ DOMAIN LoadedItems = DOMAIN loaded
           /\ \A i \in DOMAIN loaded : LoadedItems[i].id = loaded[i] /\ LoadedItems[i].status = "queued"
<1> DEFINE o == state[cur].queue
           l == LoadedItems
           q == o \o l
<1>1. o \in Seq(Item) /\ state[cur] \in States /\ loaded \in Seq(Msg)
  BY Types
<1>2. DOMAIN loaded = 1..Len(loaded) /\ Len(loaded) \in Nat /\ \A i \in DOMAIN loaded : loaded[i] \in Msg
  BY <1>1
<1>3. \A i \in 1..Len(loaded) : /\ NewItem(loaded[i], NoTask) \in Item /\ NewItem(loaded[i], NoTask).id = loaded[i]
                                /\ NewItem(loaded[i], NoTask).status = "queued"
  BY <1>2, ItemFields
<1>4. l \in Seq(Item) /\ DOMAIN l = DOMAIN loaded /\ \A i \in DOMAIN l : l[i] = NewItem(loaded[i], NoTask)
  BY <1>2, <1>3 DEF LoadedItems
<1>5. \A i \in DOMAIN loaded : l[i].id = loaded[i] /\ l[i].status = "queued"
  BY <1>2, <1>3, <1>4
<1> HIDE DEF o, l
<1>6. /\ q \in Seq(Item) /\ DOMAIN q = 1..Len(o) + Len(l) /\ DOMAIN o = 1..Len(o) /\ DOMAIN l = 1..Len(l)
      /\ Len(o) \in Nat /\ Len(l) \in Nat
      /\ \A i \in 1..Len(o) + Len(l) : q[i] = IF i <= Len(o) THEN o[i] ELSE l[i - Len(o)]
  BY <1>1, <1>4
<1> HIDE DEF q
<1>7. \A i \in DOMAIN o : i \in DOMAIN q /\ q[i] = o[i]
  BY <1>6
<1>8. \A i \in DOMAIN q : i \in DOMAIN o \/ q[i].status # "steering"
  <2> SUFFICES ASSUME NEW i \in DOMAIN q, i \notin DOMAIN o PROVE q[i].status # "steering"
    OBVIOUS
  <2>1. i - Len(o) \in DOMAIN l /\ q[i] = l[i - Len(o)]
    BY <1>6
  <2> QED
    BY <1>4, <1>5, <2>1
<1>9. SteeringIn(q) = SteeringIn(o)
  BY <1>7, <1>8 DEF SteeringIn
<1>10. LET s == [state[cur] EXCEPT !.queue = q] IN
      /\ s \in States /\ s.queue = q /\ s.active = state[cur].active
      /\ s.steering = state[cur].steering /\ s.direct = state[cur].direct
  BY <1>1, <1>6, SetQueue
<1> QED
  BY <1>4, <1>5, <1>6, <1>7, <1>9, <1>10 DEF q, o, l

\* The goroutine's state without its task.
Finished(r) == [state[r] EXCEPT !.active = Idle]
LEMMA FinishStart ==
    ASSUME TypeOK, NEW r \in Runtime, FinishRemoteTask(r)
    PROVE  /\ Finished(r) \in States /\ Finished(r).queue = state[r].queue /\ Finished(r).active = Idle
           /\ Finished(r).steering = state[r].steering /\ Finished(r).direct = state[r].direct
           /\ state[r].active.id \in Msg /\ IsActive(state[r])
           /\ \/ \E o \in {"interrupted", "succeeded", "failed"} :
                    /\ SetRow(row, state[r].active.id, o) \in [Msg -> Status]
                    /\ StartNextRemoteLocked(r, Finished(r), SetRow(row, state[r].active.id, o), given, bounds)
              \/ StartNextRemoteLocked(r, Finished(r), row, given, Failed(bounds))
<1>1. state[r] \in States /\ row \in [Msg -> Status]
  BY Types
<1>2. /\ Finished(r) \in States /\ Finished(r).queue = state[r].queue /\ Finished(r).active = Idle
      /\ Finished(r).steering = state[r].steering /\ Finished(r).direct = state[r].direct
  BY <1>1, EmptyFields DEF Finished, States
<1>3. state[r].active.id \in Msg /\ IsActive(state[r])
  BY <1>1, StateFields DEF FinishRemoteTask
<1>4. \A o \in {"interrupted", "succeeded", "failed"} : SetRow(row, state[r].active.id, o) \in [Msg -> Status]
  BY <1>1, StatusTypes DEF Status
<1>5. PICK o \in {"interrupted", "succeeded", "failed"} :
          \/ StartNextRemoteLocked(r, Finished(r), SetRow(row, state[r].active.id, o), given, bounds)
          \/ StartNextRemoteLocked(r, Finished(r), row, given, Failed(bounds))
  BY DEF FinishRemoteTask, Outcomes, Finished
<1> QED
  BY <1>2, <1>3, <1>4, <1>5

\* The state once the turn from the console is over.
Undirected(r) == [state[r] EXCEPT !.direct = "none"]
LEMMA DirectStart ==
    ASSUME TypeOK, NEW r \in Runtime
    PROVE  /\ Undirected(r) \in States /\ Undirected(r).queue = state[r].queue
           /\ Undirected(r).active = state[r].active
           /\ Undirected(r).steering = state[r].steering /\ Undirected(r).direct = "none"
BY Types DEF Undirected, States

\* The item is marked before the agent is asked.
LEMMA SteerBegins ==
    ASSUME TypeOK, NEW i \in 1..Len(state[hrt].queue), i \in QueuedAt(state[hrt]),
           state' = [state EXCEPT ![hrt].queue[i].status = "steering", ![hrt].steering = TRUE]
    PROVE  /\ state' \in [Runtime -> States] /\ \A r \in Runtime : r # hrt => state'[r] = state[r]
           /\ state'[hrt].steering = TRUE /\ state'[hrt].active = state[hrt].active
           /\ state'[hrt].direct = state[hrt].direct
           /\ DOMAIN state'[hrt].queue = DOMAIN state[hrt].queue
           /\ state'[hrt].queue[i].status = "steering"
           /\ state[hrt].queue[i].id \in Msg /\ state'[hrt].queue[i].id = state[hrt].queue[i].id
           /\ \A j \in DOMAIN state[hrt].queue : j # i => state'[hrt].queue[j] = state[hrt].queue[j]
<1> DEFINE s == state[hrt]
           x == [s.queue[i] EXCEPT !.status = "steering"]
           q == [s.queue EXCEPT ![i] = x]
           u == [s EXCEPT !.queue = q, !.steering = TRUE]
<1>1. s \in States /\ s.queue \in Seq(Item) /\ hrt \in Runtime /\ state \in [Runtime -> States]
  BY Types
<1>2. s.queue[i] \in Item /\ DOMAIN s.queue = 1..Len(s.queue)
  BY <1>1, ElementOfSeq
<1>3. x \in Item /\ x.status = "steering" /\ x.id = s.queue[i].id /\ s.queue[i].id \in Msg
  BY <1>2 DEF Item
<1>4. state' = [state EXCEPT ![hrt] = u]
  BY <1>1 DEF States
<1> HIDE DEF x
<1>5. q \in Seq(Item) /\ DOMAIN q = DOMAIN s.queue /\ \A j \in DOMAIN s.queue : q[j] = IF j = i THEN x ELSE s.queue[j]
  BY <1>1, <1>2, <1>3
<1> HIDE DEF q
<1>6. u \in States /\ u.queue = q /\ u.steering = TRUE /\ u.active = s.active /\ u.direct = s.direct
  BY <1>1, <1>5 DEF States
<1> HIDE DEF u
<1>7. state' \in [Runtime -> States] /\ state'[hrt] = u /\ \A r \in Runtime : r # hrt => state'[r] = state[r]
  BY <1>1, <1>4, <1>6
<1> QED
  BY Zenon, <1>2, <1>3, <1>5, <1>6, <1>7

-----------------------------------------------------------------------------
(* Steps that leave the queues alone.                                      *)

QueuesKept ==
    /\ state' \in [Runtime -> States]
    /\ \A r \in Runtime : state'[r].queue = state[r].queue /\ state'[r].steering = state[r].steering

LEMMA SetActive ==
    ASSUME TypeOK, NEW r \in Runtime, NEW a \in Tasks, state' = [state EXCEPT ![r].active = a]
    PROVE  /\ QueuesKept /\ state'[r].active = a /\ state'[r].direct = state[r].direct
           /\ \A q \in Runtime : q # r => state'[q] = state[q]
<1> DEFINE u == [state[r] EXCEPT !.active = a]
<1>1. u \in States /\ u.queue = state[r].queue /\ u.steering = state[r].steering
      /\ u.active = a /\ u.direct = state[r].direct
  BY Types DEF States
<1>2. state' = [state EXCEPT ![r] = u]
  OBVIOUS
<1> HIDE DEF u
<1>3. state' \in [Runtime -> States] /\ state'[r] = u /\ \A q \in Runtime : q # r => state'[q] = state[q]
  BY <1>1, <1>2, Types
<1> QED
  BY <1>1, <1>3 DEF QueuesKept

LEMMA SetDirect ==
    ASSUME TypeOK, NEW r \in Runtime, NEW d \in {"on", "ended", "none"}, state' = [state EXCEPT ![r].direct = d]
    PROVE  /\ QueuesKept /\ state'[r].active = state[r].active /\ state'[r].direct = d
           /\ \A q \in Runtime : q # r => state'[q] = state[q]
<1> DEFINE u == [state[r] EXCEPT !.direct = d]
<1>1. u \in States /\ u.queue = state[r].queue /\ u.steering = state[r].steering
      /\ u.active = state[r].active /\ u.direct = d
  BY Types DEF States
<1>2. state' = [state EXCEPT ![r] = u]
  OBVIOUS
<1> HIDE DEF u
<1>3. state' \in [Runtime -> States] /\ state'[r] = u /\ \A q \in Runtime : q # r => state'[q] = state[q]
  BY <1>1, <1>2, Types
<1> QED
  BY <1>1, <1>3 DEF QueuesKept

LEMMA TouchActive ==
    ASSUME TypeOK, NEW r \in Runtime,
           state' = [state EXCEPT ![r].active.stop = TRUE] \/ state' = [state EXCEPT ![r].active.session = TRUE]
    PROVE  /\ QueuesKept /\ state'[r].active.id = state[r].active.id /\ state'[r].direct = state[r].direct
           /\ \A q \in Runtime : q # r => state'[q] = state[q]
<1>0. state[r] \in States /\ state[r].active \in Tasks
  BY Types, StateFields
<1> DEFINE a == [state[r].active EXCEPT !.stop = TRUE]
           b == [state[r].active EXCEPT !.session = TRUE]
<1>1. a \in Tasks /\ a.id = state[r].active.id /\ b \in Tasks /\ b.id = state[r].active.id
  BY <1>0 DEF Tasks
<1>2. state' = [state EXCEPT ![r].active = a] \/ state' = [state EXCEPT ![r].active = b]
  OBVIOUS
<1> HIDE DEF a, b
<1> QED
  BY <1>1, <1>2, SetActive

\* The steps that touch only the running task or the turn from the console.
LEMMA AdmitFact ==
    ASSUME TypeInv, Admit, ~UNCHANGED <<row, state, given>>
    PROVE  /\ QueuesKept /\ hmsg \in Msg /\ hrt \in Runtime /\ ~Busy(state[hrt])
           /\ state'[hrt].active = Run(hmsg) /\ state'[hrt].direct = state[hrt].direct
           /\ \A q \in Runtime : q # hrt => state'[q] = state[q]
           /\ row' = [row EXCEPT ![hmsg] = "running"] /\ given' = [given EXCEPT ![hmsg] = given[hmsg] + 1]
           /\ row' \in [Msg -> Status] /\ given' \in [Msg -> Nat] /\ pc = "admit" /\ pc' = "idle"
<1>1. TypeOK /\ hmsg \in Msg /\ hrt \in Runtime /\ row \in [Msg -> Status] /\ given \in [Msg -> Nat]
  BY Types DEF TypeInv, HandlerInv, Admit
<1>2. /\ state' = [state EXCEPT ![hrt].active = Run(hmsg)] /\ ~Busy(state[hrt]) /\ pc = "admit" /\ pc' = "idle"
      /\ row' = [row EXCEPT ![hmsg] = "running"] /\ given' = [given EXCEPT ![hmsg] = given[hmsg] + 1]
  BY DEF Admit, Return, SetRow, Gave
<1>3. Run(hmsg) \in Tasks
  BY <1>1 DEF Run, Tasks
<1>4. row' \in [Msg -> Status] /\ given' \in [Msg -> Nat]
  BY <1>1, <1>2 DEF Status
<1> QED
  BY <1>1, <1>2, <1>3, <1>4, SetActive

-----------------------------------------------------------------------------
(* Type correctness.                                                       *)

\* The variables but the rows, the states, the history and the bounds.
OtherTypes ==
    /\ created \in Seq(Msg) /\ cur \in Runtime
    /\ rec \in {"down", "steering", "running", "select", "load", "done"}
    /\ loaded \in Seq(Msg) /\ seen \in SUBSET Msg /\ inbox \in Seq(Msg)
    /\ pc \in {"idle", "admit", "enqueue", "command", "steer", "takeover"}
    /\ hrt \in Runtime /\ hmsg \in Msg \cup {NoTask} /\ deliveries \in [Msg -> Nat]
CoreTypes ==
    row \in [Msg -> Status] /\ state \in [Runtime -> States] /\ given \in [Msg -> Nat] /\ bounds \in Bounds

LEMMA TypesJoin == TypeOK <=> OtherTypes /\ CoreTypes
BY DEF TypeOK, OtherTypes, CoreTypes, States, Tasks, Bounds

LEMMA BoundsTypes ==
    ASSUME NEW b \in Bounds
    PROVE  /\ [b EXCEPT !.faults = @ + 1] \in Bounds /\ [b EXCEPT !.crashes = @ + 1] \in Bounds
           /\ [b EXCEPT !.reloads = @ + 1] \in Bounds /\ [b EXCEPT !.directs = @ + 1] \in Bounds
           /\ [b EXCEPT !.takeovers = @ + 1] \in Bounds
           /\ [b EXCEPT !.crashes = @ + 1].faults = b.faults /\ [b EXCEPT !.reloads = @ + 1].faults = b.faults
           /\ [b EXCEPT !.directs = @ + 1].faults = b.faults /\ [b EXCEPT !.takeovers = @ + 1].faults = b.faults
<1>1. /\ b.faults + 1 \in Nat /\ b.crashes + 1 \in Nat /\ b.reloads + 1 \in Nat /\ b.directs + 1 \in Nat
      /\ b.takeovers + 1 \in Nat
  BY DEF Bounds
<1> QED
  BY <1>1 DEF Bounds

LEMMA OtherStep ==
    ASSUME TypeInv, Next
    PROVE  OtherTypes'
<1>0. OtherTypes /\ TypeOK /\ HandlerInv
  BY TypesJoin DEF TypeInv
<1> USE DEF OtherTypes, durable, channel, intake, handler, Return
<1>1. ASSUME NEW m \in Msg, Deliver(m) PROVE OtherTypes'
  BY <1>0, <1>1 DEF Deliver
<1>2. CASE HandleMessage
  <2>1. inbox # <<>> /\ Head(inbox) \in Msg /\ inbox' \in Seq(Msg)
    BY <1>0, <1>2 DEF HandleMessage
  <2>2. UNCHANGED <<created, cur, rec, loaded, deliveries>>
    BY <1>2 DEF HandleMessage
  <2>3. /\ seen' \in SUBSET Msg /\ hrt' \in Runtime /\ hmsg' \in Msg \cup {NoTask}
        /\ pc' \in {"idle", "admit", "enqueue", "command", "steer", "takeover"}
    BY <1>0, <1>2, <2>1 DEF HandleMessage
  <2> QED
    BY <1>0, <2>1, <2>2, <2>3
<1>3. CASE Admit \/ Command \/ Refuse \/ TakeOverWrite
  BY <1>0, <1>3 DEF Admit, Command, Refuse, TakeOverWrite
<1>4. CASE Enqueue
  <2>1. created' = created \/ created' = Append(created, hmsg)
    BY <1>4 DEF Enqueue
  <2>2. hmsg \in Msg
    BY <1>0, <1>4 DEF Enqueue, HandlerInv
  <2>3. created' \in Seq(Msg)
    <3>1. created \in Seq(Msg) /\ Append(created, hmsg) \in Seq(Msg)
      BY <1>0, <2>2, AppendProperties
    <3> QED
      BY <2>1, <3>1
  <2>4. UNCHANGED <<cur, rec, loaded, seen, inbox, hrt, hmsg, deliveries>> /\ pc' = "idle"
    BY <1>4 DEF Enqueue
  <2> QED
    BY <1>0, <2>3, <2>4
<1>5. ASSUME NEW i \in 1..Len(state[hrt].queue), CancelQueued(i) \/ Steer(i) PROVE OtherTypes'
  <2>1. UNCHANGED <<created, cur, rec, loaded, seen, inbox, hrt, hmsg, deliveries>> /\ pc' \in {"idle", "steer"}
    BY <1>5 DEF CancelQueued, Steer
  <2> QED
    BY <1>0, <2>1
<1>6. ASSUME NEW drop \in SUBSET Msg, NEW fails \in 0..MaxFaults, ClearQueue(drop, fails) PROVE OtherTypes'
  <2>1. UNCHANGED <<created, cur, rec, loaded, seen, inbox, hrt, hmsg, deliveries>> /\ pc' = "idle"
    BY <1>6 DEF ClearQueue
  <2> QED
    BY <1>0, <2>1
<1>7. ASSUME NEW answer \in DOMAIN SteerStatus, SteerReturns(answer) PROVE OtherTypes'
  <2>1. UNCHANGED <<created, cur, rec, loaded, seen, inbox, hrt, hmsg, deliveries>> /\ pc' = "idle"
    BY Zenon, <1>7 DEF SteerReturns
  <2> QED
    BY Zenon, <1>0, <2>1
<1>8. CASE TakeOver
  <2>1. state[hrt].active.id \in Msg \cup {NoTask}
    BY <1>0, Types, StateFields
  <2>2. UNCHANGED <<created, cur, rec, loaded, seen, inbox, hrt, deliveries>> /\ pc' = "takeover"
        /\ hmsg' = state[hrt].active.id
    BY <1>8 DEF TakeOver
  <2> QED
    BY <1>0, <2>1, <2>2
<1>9. ASSUME NEW r \in Runtime, AttachSession(r) \/ FinishRemoteTask(r) \/ EndDirectTurn(r) \/ DirectStartNext(r)
      PROVE  OtherTypes'
  <2>1. UNCHANGED <<created, cur, rec, loaded, seen, inbox, pc, hrt, hmsg, deliveries>>
    BY <1>9 DEF AttachSession, FinishRemoteTask, EndDirectTurn, DirectStartNext
  <2> QED
    BY <1>0, <2>1
<1>10. CASE Stop \/ BeginDirectTurn \/ Detach \/ RecoverFails
  BY <1>0, <1>10 DEF Stop, BeginDirectTurn, Detach, RecoverFails
<1>11. CASE Crash
  <2>1. /\ UNCHANGED <<created, cur, seen, deliveries>> /\ inbox' = <<>> /\ loaded' = <<>> /\ rec' = "down"
        /\ pc' = "idle" /\ hrt' = 1 /\ hmsg' = NoTask
    BY <1>11 DEF Crash
  <2>2. 1 \in Runtime /\ <<>> \in Seq(Msg)
    BY DEF Runtime
  <2> QED
    BY <1>0, <2>1, <2>2
<1>12. CASE AttachChannel
  BY <1>0, <1>12 DEF AttachChannel
<1>13. CASE RecoverSteering \/ RecoverRunning
  BY <1>0, <1>13 DEF RecoverSteering, RecoverRunning
<1>14. CASE RecoverSelect
  <2> DEFINE P == {i \in 1..Len(created) : row[created[i]] = "queued"}
  <2>1. /\ UNCHANGED <<created, cur, seen, inbox, pc, hrt, hmsg, deliveries>> /\ rec' = "load"
        /\ loaded' \in Kept(created, P)
    BY <1>14 DEF RecoverSelect
  <2>2. P \in SUBSET (1..Len(created)) /\ created \in Seq(Msg)
    BY <1>0
  <2> HIDE DEF P
  <2>3. loaded' \in Seq(Msg)
    BY <2>1, <2>2, KeptPicks
  <2> QED
    BY <1>0, <2>1, <2>3
<1>15. CASE RecoverLoad
  <2>1. UNCHANGED <<created, cur, seen, inbox, pc, hrt, hmsg, deliveries>> /\ rec' = "done" /\ loaded' = <<>>
    BY <1>15 DEF RecoverLoad
  <2>2. <<>> \in Seq(Msg)
    OBVIOUS
  <2> QED
    BY <1>0, <2>1, <2>2
<1> QED
  BY <1>1, <1>2, <1>3, <1>4, <1>5, <1>6, <1>7, <1>8, <1>9, <1>10, <1>11, <1>12, <1>13, <1>14, <1>15
  DEF Next, Recover

LEMMA StartTypes ==
    ASSUME TypeOK, NEW r \in Runtime, NEW s \in States, NEW rw \in [Msg -> Status],
           NEW g \in [Msg -> Nat], NEW b \in Bounds, StartNextRemoteLocked(r, s, rw, g, b)
    PROVE  CoreTypes'
BY StartFact, Types DEF CoreTypes

LEMMA CoreStep ==
    ASSUME TypeInv, Next
    PROVE  CoreTypes'
<1>0. CoreTypes /\ TypeOK /\ HandlerInv
  BY TypesJoin DEF TypeInv
<1>0b. row \in [Msg -> Status] /\ given \in [Msg -> Nat] /\ bounds \in Bounds /\ hrt \in Runtime /\ cur \in Runtime
       /\ state \in [Runtime -> States] /\ Failed(bounds) \in Bounds
  BY <1>0, Types, FailedType
<1> USE DEF durable, channel, intake, handler
<1>1. CASE UNCHANGED <<row, state, given>> /\ bounds' \in Bounds
  BY <1>0, <1>1 DEF CoreTypes
<1>2. ASSUME NEW m \in Msg, Deliver(m) PROVE CoreTypes'
  BY <1>0, <1>2, <1>1 DEF Deliver, CoreTypes
<1>3. CASE HandleMessage
  <2>1. UNCHANGED <<row, state, given>> /\ (bounds' = bounds \/ bounds' = Failed(bounds))
    BY <1>3 DEF HandleMessage
  <2> QED
    BY <1>0b, <1>1, <2>1
<1>4. CASE Admit
  <2>1. CASE ~UNCHANGED <<row, state, given>>
    <3>1. UNCHANGED bounds
      BY <1>4, <2>1 DEF Admit
    <3> QED
      BY <1>0b, <1>4, <2>1, <3>1, AdmitFact DEF CoreTypes, QueuesKept
  <2>2. CASE UNCHANGED <<row, state, given>>
    <3>1. bounds' = bounds \/ bounds' = Failed(bounds)
      BY <1>4 DEF Admit
    <3> QED
      BY <1>0b, <1>1, <2>2, <3>1
  <2> QED
    BY <2>1, <2>2
<1>5. CASE Enqueue
  <2>1. CASE UNCHANGED <<row, state, given>> /\ (bounds' = bounds \/ bounds' = Failed(bounds))
    BY <1>0b, <1>1, <2>1
  <2>2. CASE StartNextRemoteLocked(hrt,
                [state[hrt] EXCEPT !.queue = Append(state[hrt].queue, NewItem(hmsg, state[hrt].active.id))],
                SetRow(row, hmsg, "queued"), given, bounds)
    <3>1. pc = "enqueue"
      BY <1>5 DEF Enqueue
    <3> QED
      BY <1>0, <1>0b, <2>2, <3>1, EnqueueStart, StartTypes
  <2> QED
    BY <1>5, <2>1, <2>2 DEF Enqueue
<1>6. CASE Command \/ Refuse
  BY <1>0b, <1>1, <1>6 DEF Command, Refuse
<1>7. ASSUME NEW i \in 1..Len(state[hrt].queue), CancelQueued(i) PROVE CoreTypes'
  <2>1. CASE StartNextRemoteLocked(hrt, [state[hrt] EXCEPT !.queue = RemoveAt(state[hrt].queue, i)],
                SetRow(row, state[hrt].queue[i].id, "cancelled"), given, bounds)
    <3>1. SetRow(row, state[hrt].queue[i].id, "cancelled") \in [Msg -> Status]
      BY <1>0b, StatusTypes DEF Status
    <3>2. [state[hrt] EXCEPT !.queue = RemoveAt(state[hrt].queue, i)] \in States
      BY <1>0b, RemoveStart
    <3> QED
      BY <1>0, <1>0b, <2>1, <3>1, <3>2, StartTypes
  <2>2. CASE UNCHANGED <<row, state, given>> /\ bounds' = Failed(bounds)
    BY <1>0b, <1>1, <2>2
  <2> QED
    BY <1>7, <2>1, <2>2 DEF CancelQueued
<1>8. ASSUME NEW i \in 1..Len(state[hrt].queue), Steer(i) PROVE CoreTypes'
  <2>1. CASE UNCHANGED <<row, state, given>> /\ bounds' = Failed(bounds)
    BY <1>0b, <1>1, <2>1
  <2>2. CASE /\ state' = [state EXCEPT ![hrt].queue[i].status = "steering", ![hrt].steering = TRUE]
             /\ row' = SetRow(row, state[hrt].queue[i].id, "steering")
             /\ given' = Gave(given, state[hrt].queue[i].id) /\ bounds' = bounds
    <3>1. i \in QueuedAt(state[hrt])
      BY <1>8 DEF Steer, MaySteer
    <3>2. state' \in [Runtime -> States] /\ state[hrt].queue[i].id \in Msg
      BY <1>0, <2>2, <3>1, SteerBegins
    <3>3. row' \in [Msg -> Status]
      BY <1>0b, <2>2, StatusTypes DEF Status
    <3>4. given' \in [Msg -> Nat]
      <4> DEFINE m == state[hrt].queue[i].id
      <4>1. m \in Msg /\ given' = [given EXCEPT ![m] = given[m] + 1]
        BY <2>2, <3>2 DEF Gave
      <4> HIDE DEF m
      <4> QED
        BY <1>0b, <4>1
    <3> QED
      BY <1>0b, <2>2, <3>2, <3>3, <3>4 DEF CoreTypes
  <2> QED
    BY <1>8, <2>1, <2>2 DEF Steer
<1>9. ASSUME NEW drop \in SUBSET Msg, NEW fails \in 0..MaxFaults, ClearQueue(drop, fails) PROVE CoreTypes'
  BY <1>0, <1>0b, <1>9, ClearStart, StartTypes
<1>10. ASSUME NEW answer \in DOMAIN SteerStatus, SteerReturns(answer) PROVE CoreTypes'
  <2>0. pc = "steer"
    BY Zenon, <1>10 DEF SteerReturns
  <2>1. Unsteered \in States /\ SteeredGiven(answer) \in [Msg -> Nat]
        /\ SetRow(row, SteeredTask, SteerStatus[answer]) \in [Msg -> Status]
    BY <2>0, SteeredFact
  <2>2. SetRow(row, SteeredTask, "queued") \in [Msg -> Status]
    BY <1>0b, StatusTypes DEF Status
  <2>3. [Unsteered EXCEPT !.queue = [state[hrt].queue EXCEPT ![SteeredAt].status = "queued"]] \in States
    BY <2>0, <2>1, RejectedQueue, SetQueue
  <2>4. [Unsteered EXCEPT !.queue = RemoveAt(state[hrt].queue, SteeredAt)] \in States
    BY <2>0, <2>1, RemovedQueue, SetQueue
  <2> QED
    BY Zenon, <1>0, <1>0b, <1>10, <2>1, <2>2, <2>3, <2>4, SteerReturnsStart, StartTypes
<1>11. CASE TakeOver
  BY <1>0b, <1>1, <1>11, BoundsTypes DEF TakeOver
<1>12. CASE TakeOverWrite
  <2>1. row' \in [Msg -> Status]
    BY <1>0b, <1>12, StatusTypes DEF TakeOverWrite, Status
  <2> QED
    BY <1>0b, <1>12, <2>1 DEF TakeOverWrite, CoreTypes
<1>13. CASE Stop
  BY <1>0, <1>0b, <1>13, TouchActive DEF Stop, CoreTypes, QueuesKept
<1>14. ASSUME NEW r \in Runtime, AttachSession(r) PROVE CoreTypes'
  <2>1. row' \in [Msg -> Status]
    BY <1>0b, <1>14, StatusTypes DEF AttachSession, Status
  <2>2. state' \in [Runtime -> States]
    BY <1>0, <1>14, TouchActive DEF AttachSession, QueuesKept
  <2> QED
    BY <1>0b, <1>14, <2>1, <2>2 DEF AttachSession, CoreTypes
<1>15. ASSUME NEW r \in Runtime, FinishRemoteTask(r) PROVE CoreTypes'
  BY <1>0, <1>0b, <1>15, FinishStart, StartTypes
<1>16. ASSUME NEW r \in Runtime, EndDirectTurn(r) PROVE CoreTypes'
  BY <1>0, <1>0b, <1>16, SetDirect DEF EndDirectTurn, CoreTypes, QueuesKept
<1>17. ASSUME NEW r \in Runtime, DirectStartNext(r) PROVE CoreTypes'
  <2>1. StartNextRemoteLocked(r, Undirected(r), row, given, bounds)
    BY <1>17 DEF DirectStartNext, Undirected
  <2> QED
    BY <1>0, <1>0b, <2>1, DirectStart, StartTypes
<1>18. CASE BeginDirectTurn
  <2>1. state' \in [Runtime -> States]
    BY <1>0, <1>0b, <1>18, SetDirect DEF BeginDirectTurn, QueuesKept
  <2> QED
    BY <1>0b, <1>18, <2>1, BoundsTypes DEF BeginDirectTurn, CoreTypes
<1>19. CASE Detach
  BY <1>0b, <1>1, <1>19, BoundsTypes DEF Detach
<1>20. CASE Crash
  BY <1>0b, <1>20, BoundsTypes, EmptyFields DEF Crash, CoreTypes
<1>21. CASE AttachChannel \/ RecoverFails \/ RecoverSelect
  BY <1>0b, <1>1, <1>21 DEF AttachChannel, RecoverFails, RecoverSelect
<1>22. CASE RecoverSteering \/ RecoverRunning
  BY <1>0b, <1>22 DEF RecoverSteering, RecoverRunning, MarkRows, CoreTypes, Status
<1>23. CASE RecoverLoad
  <2>1. StartNextRemoteLocked(cur, [state[cur] EXCEPT !.queue = state[cur].queue \o LoadedItems], row, given, bounds)
    BY <1>23 DEF RecoverLoad, LoadedItems
  <2> QED
    BY <1>0, <1>0b, <2>1, LoadStart, StartTypes
<1> QED
  BY <1>2, <1>3, <1>4, <1>5, <1>6, <1>7, <1>8, <1>9, <1>10, <1>11, <1>12, <1>13, <1>14, <1>15,
     <1>16, <1>17, <1>18, <1>19, <1>20, <1>21, <1>22, <1>23 DEF Next, Recover

LEMMA HandlerStep ==
    ASSUME TypeInv, Next
    PROVE  HandlerInv'
<1>0. OtherTypes /\ TypeOK /\ HandlerInv
  BY TypesJoin DEF TypeInv
<1> USE DEF HandlerInv, handler, Return
<1>1. CASE UNCHANGED <<pc, hmsg>>
  BY <1>0, <1>1
<1>2. CASE pc' \in {"idle", "steer", "command"}
  BY <1>2
<1>3. ASSUME NEW m \in Msg, Deliver(m) PROVE HandlerInv'
  BY <1>1, <1>3 DEF Deliver
<1>4. CASE HandleMessage
  <2>1. Head(inbox) \in Msg
    BY <1>0, <1>4 DEF HandleMessage, OtherTypes
  <2> QED
    BY <1>0, <1>4, <2>1 DEF HandleMessage
<1>5. CASE Admit
  BY <1>0, <1>5 DEF Admit
<1>6. CASE Enqueue \/ Command \/ Refuse \/ TakeOverWrite \/ Crash
  BY <1>2, <1>6 DEF Enqueue, Command, Refuse, TakeOverWrite, Crash
<1>7. ASSUME NEW i \in 1..Len(state[hrt].queue), CancelQueued(i) \/ Steer(i) PROVE HandlerInv'
  BY <1>2, <1>7 DEF CancelQueued, Steer
<1>8. ASSUME NEW drop \in SUBSET Msg, NEW fails \in 0..MaxFaults, ClearQueue(drop, fails) PROVE HandlerInv'
  BY Zenon, <1>2, <1>8 DEF ClearQueue
<1>9. ASSUME NEW answer \in DOMAIN SteerStatus, SteerReturns(answer) PROVE HandlerInv'
  BY Zenon, <1>2, <1>9 DEF SteerReturns
<1>10. CASE TakeOver
  <2>1. hrt \in Runtime /\ state[hrt] \in States
    BY <1>0, Types
  <2> QED
    BY <1>10, <2>1, StateFields DEF TakeOver
<1>11. ASSUME NEW r \in Runtime, AttachSession(r) \/ FinishRemoteTask(r) \/ EndDirectTurn(r) \/ DirectStartNext(r)
       PROVE  HandlerInv'
  BY <1>1, <1>11 DEF AttachSession, FinishRemoteTask, EndDirectTurn, DirectStartNext
<1>12. CASE Stop \/ BeginDirectTurn \/ Detach \/ RecoverFails \/ AttachChannel
  BY <1>1, <1>12 DEF Stop, BeginDirectTurn, Detach, RecoverFails, AttachChannel
<1>13. CASE Recover
  BY <1>1, <1>13 DEF Recover, RecoverSteering, RecoverRunning, RecoverSelect, RecoverLoad
<1> QED
  BY <1>3, <1>4, <1>5, <1>6, <1>7, <1>8, <1>9, <1>10, <1>11, <1>12, <1>13 DEF Next

-----------------------------------------------------------------------------
(* The item being steered.                                                 *)

\* A step that neither begins nor ends a steer keeps its item in place.
LEMMA SteerKept ==
    ASSUME TypeInv, (pc = "steer") <=> (pc' = "steer"), pc = "steer" => hrt' = hrt,
           \A r \in Runtime : /\ state'[r].steering = state[r].steering
                              /\ SteeringIn(state'[r].queue) = SteeringIn(state[r].queue),
           pc = "steer" => \A i \in SteeringAt(hrt) :
                              given'[state'[hrt].queue[i].id] >= given[state[hrt].queue[i].id],
           \A i \in SteeringAt(hrt) : given[state[hrt].queue[i].id] \in Nat
                                      /\ given'[state'[hrt].queue[i].id] \in Nat
    PROVE  SteerInv'
<1>1. SteerInv /\ hrt \in Runtime
  BY Types DEF TypeInv
<1>2. \A r \in Runtime : (state'[r].steering \/ SteeringIn(state'[r].queue) # {}) => pc' = "steer" /\ r = hrt'
  BY <1>1 DEF SteerInv, SteeringAt
<1>3. ASSUME pc' = "steer"
      PROVE  /\ state'[hrt'].steering
             /\ \E i \in SteeringIn(state'[hrt'].queue) : /\ SteeringIn(state'[hrt'].queue) = {i}
                                                          /\ given'[state'[hrt'].queue[i].id] > 0
  <2>1. pc = "steer" /\ hrt' = hrt
    BY <1>3
  <2>2. PICK i \in SteeringAt(hrt) : SteeringAt(hrt) = {i} /\ given[state[hrt].queue[i].id] > 0
    BY <1>1, <2>1 DEF SteerInv
  <2>3. given'[state'[hrt].queue[i].id] > 0
    BY <2>1, <2>2
  <2>4. SteeringIn(state'[hrt].queue) = {i}
    BY <1>1, <2>2 DEF SteeringAt
  <2>5. state'[hrt].steering
    BY <1>1, <2>1 DEF SteerInv
  <2> QED
    BY <2>1, <2>3, <2>4, <2>5
<1> QED
  BY <1>2, <1>3 DEF SteerInv, SteeringAt

\* Without a steer in flight nothing is marked so.
LEMMA NoSteer ==
    ASSUME pc' # "steer",
           \A r \in Runtime : state'[r].steering = FALSE /\ SteeringIn(state'[r].queue) = {}
    PROVE  SteerInv'
BY DEF SteerInv, SteeringAt

LEMMA NotSteering ==
    ASSUME TypeInv, NEW r \in Runtime, pc # "steer" \/ r # hrt
    PROVE  state[r].steering = FALSE /\ SteeringAt(r) = {}
BY Types, StateFields DEF TypeInv, SteerInv

LEMMA StartSteering ==
    ASSUME TypeOK, NEW r \in Runtime, NEW s \in States, NEW rw \in [Msg -> Status],
           NEW g \in [Msg -> Nat], NEW b \in Bounds, StartNextRemoteLocked(r, s, rw, g, b), SteeringIn(s.queue) = {}
    PROVE  SteeringIn(state'[r].queue) = {}
<1>1. CASE LeftAs(r, s, rw, g)
  BY <1>1 DEF LeftAs
<1>2. CASE Started(r, s, rw, g)
  <2> DEFINE q == s.queue
             z == Tail(q)
             P == (1..Len(q)) \ {1}
  <2>1. q \in Seq(Item) /\ q # <<>> /\ state'[r].queue = z
    BY <1>2, StateFields DEF Started
  <2>2. DOMAIN q = 1..Len(q)
    BY <2>1
  <2> HIDE DEF q
  <2>2b. Picks(z, q, P)
    BY <2>1, TailPicks
  <2> HIDE DEF z, P
  <2>3. \A j \in DOMAIN z : \E p \in P : z[j] = q[p]
    BY <2>2b, PicksElements
  <2>4. \A p \in P : q[p].status # "steering"
    BY <2>2 DEF SteeringIn, q, P
  <2> QED
    BY <2>1, <2>3, <2>4 DEF SteeringIn
<1> QED
  BY <1>1, <1>2, StartFact, Types

\* A start from a state that keeps the runtime's steer.
LEMMA SteerStart ==
    ASSUME TypeInv, NEW r \in Runtime, NEW s \in States, NEW rw \in [Msg -> Status],
           NEW g \in [Msg -> Nat], NEW b \in Bounds, StartNextRemoteLocked(r, s, rw, g, b), g = given,
           s.steering = state[r].steering, SteeringIn(s.queue) = SteeringAt(r),
           \A i \in SteeringAt(r) : s.queue[i].id = state[r].queue[i].id,
           (pc = "steer") <=> (pc' = "steer"), pc = "steer" => hrt' = hrt
    PROVE  SteerInv'
<1>0. /\ TypeOK /\ state \in [Runtime -> States] /\ hrt \in Runtime /\ given \in [Msg -> Nat]
      /\ \A q \in Runtime : state[q].queue \in Seq(Item)
  BY Types DEF TypeInv
<1>1. /\ \A q \in Runtime : q # r => state'[q] = state[q]
      /\ state'[r].steering = s.steering /\ given' \in [Msg -> Nat]
      /\ LeftAs(r, s, rw, g) \/ Started(r, s, rw, g)
  BY <1>0, StartFact
<1>2. SteeringIn(state'[r].queue) = SteeringIn(state[r].queue)
  <2>1. CASE SteeringAt(r) = {}
    BY <1>0, <2>1, StartSteering DEF SteeringAt
  <2>2. CASE SteeringAt(r) # {}
    <3>1. s.steering
      BY <2>2, NotSteering DEF TypeInv, SteerInv
    <3>2. LeftAs(r, s, rw, g)
      BY <1>1, <3>1 DEF Started, MayStart
    <3> QED
      BY <3>2 DEF LeftAs, SteeringAt
  <2> QED
    BY <2>1, <2>2
<1>3. \A q \in Runtime : /\ state'[q].steering = state[q].steering
                         /\ SteeringIn(state'[q].queue) = SteeringIn(state[q].queue)
  BY <1>1, <1>2
<1>5. \A m \in Msg : given'[m] \in Nat /\ given[m] \in Nat /\ given'[m] >= given[m]
  <2>1. CASE LeftAs(r, s, rw, g)
    BY <1>0, <1>1, <2>1 DEF LeftAs
  <2>2. CASE Started(r, s, rw, g)
    BY <1>0, <1>1, <2>2 DEF Started
  <2> QED
    BY <1>1, <2>1, <2>2
<1>6. \A i \in SteeringAt(hrt) : state[hrt].queue[i].id \in Msg
  <2>1. \A i \in DOMAIN state[hrt].queue : state[hrt].queue[i] \in Item
    BY <1>0
  <2> QED
    BY <2>1 DEF SteeringAt, SteeringIn, Item
<1>7. ASSUME NEW i \in SteeringAt(hrt) PROVE state'[hrt].queue[i].id = state[hrt].queue[i].id
  <2>1. CASE r # hrt
    BY <1>0, <1>1, <2>1
  <2>2. CASE r = hrt
    <3>1. s.steering
      BY <2>2, <1>7 DEF TypeInv, SteerInv
    <3>2. LeftAs(r, s, rw, g)
      BY <1>1, <3>1 DEF Started, MayStart
    <3> QED
      BY <1>7, <2>2, <3>2 DEF LeftAs
  <2> QED
    BY <2>1, <2>2
<1> QED
  BY <1>3, <1>5, <1>6, <1>7, SteerKept

LEMMA SteerQuiet ==
    ASSUME TypeInv, state' = state \/ QueuesKept, (pc = "steer") <=> (pc' = "steer"), pc = "steer" => hrt' = hrt,
           given' \in [Msg -> Nat], \A m \in Msg : given'[m] >= given[m]
    PROVE  SteerInv'
<1>1. \A r \in Runtime : state'[r].queue = state[r].queue /\ state'[r].steering = state[r].steering
  BY DEF QueuesKept
<1>2. hrt \in Runtime /\ state[hrt].queue \in Seq(Item) /\ given \in [Msg -> Nat]
  BY Types DEF TypeInv
<1>3. \A i \in DOMAIN state[hrt].queue : state[hrt].queue[i] \in Item
  BY <1>2
<1>4. \A i \in SteeringAt(hrt) : state[hrt].queue[i].id \in Msg
  BY <1>3 DEF SteeringAt, SteeringIn, Item
<1>5. \A r \in Runtime : /\ state'[r].steering = state[r].steering
                         /\ SteeringIn(state'[r].queue) = SteeringIn(state[r].queue)
  BY <1>1
<1>6. /\ \A i \in SteeringAt(hrt) : given'[state'[hrt].queue[i].id] >= given[state[hrt].queue[i].id]
      /\ \A i \in SteeringAt(hrt) : given[state[hrt].queue[i].id] \in Nat /\ given'[state'[hrt].queue[i].id] \in Nat
  BY <1>1, <1>2, <1>4
<1> QED
  BY <1>5, <1>6, SteerKept

LEMMA SteerStep ==
    ASSUME TypeInv, Next
    PROVE  SteerInv'
<1>0. /\ TypeOK /\ HandlerInv /\ SteerInv
      /\ row \in [Msg -> Status] /\ given \in [Msg -> Nat] /\ bounds \in Bounds /\ hrt \in Runtime /\ cur \in Runtime
      /\ state \in [Runtime -> States] /\ Failed(bounds) \in Bounds
  BY Types, FailedType DEF TypeInv
<1>g. \A m \in Msg : given[m] >= given[m]
  BY <1>0
<1> USE DEF handler, Return
<1>1. CASE UNCHANGED <<state, given>> /\ ((pc = "steer") <=> (pc' = "steer")) /\ (pc = "steer" => hrt' = hrt)
  BY <1>0, <1>g, <1>1, SteerQuiet
<1>2. CASE QueuesKept /\ UNCHANGED <<pc, hrt, given>>
  BY <1>0, <1>g, <1>2, SteerQuiet
<1>3. ASSUME NEW m \in Msg, Deliver(m) PROVE SteerInv'
  BY <1>1, <1>3 DEF Deliver
<1>4. CASE HandleMessage
  <2>1. pc = "idle" /\ pc' \in {"idle", "admit", "enqueue"} /\ UNCHANGED <<state, given>>
    BY <1>4 DEF HandleMessage
  <2> QED
    BY <1>1, <2>1
<1>5. CASE Admit
  <2>1. CASE ~UNCHANGED <<row, state, given>>
    <3>1. /\ QueuesKept /\ given' \in [Msg -> Nat] /\ pc = "admit" /\ pc' = "idle" /\ hmsg \in Msg
          /\ given' = [given EXCEPT ![hmsg] = given[hmsg] + 1]
      BY <1>5, <2>1, AdmitFact
    <3>2. \A m \in Msg : given'[m] >= given[m]
      BY <1>0, <3>1
    <3> QED
      BY <3>1, <3>2, SteerQuiet
  <2>2. CASE UNCHANGED <<row, state, given>>
    BY <1>1, <1>5, <2>2 DEF Admit
  <2> QED
    BY <2>1, <2>2
<1>6. CASE Enqueue
  <2>1. pc = "enqueue" /\ pc' = "idle" /\ hrt' = hrt
    BY <1>6 DEF Enqueue
  <2>2. CASE UNCHANGED <<state, given>>
    BY <1>1, <2>1, <2>2
  <2>3. CASE StartNextRemoteLocked(hrt,
                [state[hrt] EXCEPT !.queue = Append(state[hrt].queue, NewItem(hmsg, state[hrt].active.id))],
                SetRow(row, hmsg, "queued"), given, bounds)
    <3> DEFINE q == Append(state[hrt].queue, NewItem(hmsg, state[hrt].active.id))
               s == [state[hrt] EXCEPT !.queue = q]
               rw == SetRow(row, hmsg, "queued")
    <3>1. /\ s \in States /\ s.queue = q /\ s.steering = state[hrt].steering /\ rw \in [Msg -> Status]
          /\ \A i \in DOMAIN q : (i \in DOMAIN state[hrt].queue /\ q[i] = state[hrt].queue[i]) \/ q[i].status = "queued"
      BY <2>1, EnqueueStart
    <3>2. StartNextRemoteLocked(hrt, s, rw, given, bounds)
      BY <2>3
    <3> HIDE DEF s, rw, q
    <3>3. SteeringAt(hrt) = {}
      BY <1>0, <2>1, NotSteering
    <3>4. SteeringIn(s.queue) = {}
      BY <3>1, <3>3 DEF SteeringIn, SteeringAt
    <3> QED
      BY <1>0, <2>1, <3>1, <3>2, <3>3, <3>4, SteerStart
  <2> QED
    BY <1>6, <2>2, <2>3 DEF Enqueue
<1>7. CASE Command \/ Refuse \/ TakeOver \/ TakeOverWrite
  BY <1>1, <1>7 DEF Command, Refuse, TakeOver, TakeOverWrite
<1>8. ASSUME NEW q \in Seq(Item), NEW P \in SUBSET (1..Len(state[hrt].queue)),
             Picks(q, state[hrt].queue, P), NEW rw \in [Msg -> Status], NEW b \in Bounds,
             StartNextRemoteLocked(hrt, [state[hrt] EXCEPT !.queue = q], rw, given, b),
             pc = "command" /\ pc' = "idle" /\ hrt' = hrt
      PROVE  SteerInv'
  <2> DEFINE s == [state[hrt] EXCEPT !.queue = q]
             o == state[hrt].queue
  <2>1. s \in States /\ s.queue = q /\ s.steering = state[hrt].steering /\ o \in Seq(Item)
    BY <1>0, SetQueue, StateFields
  <2>2. StartNextRemoteLocked(hrt, s, rw, given, b)
    BY <1>8
  <2>3. SteeringIn(o) = {} /\ DOMAIN o = 1..Len(o) /\ Picks(q, o, P) /\ P \in SUBSET (1..Len(o))
    <3>1. SteeringAt(hrt) = {}
      BY <1>0, <1>8, NotSteering
    <3>2. DOMAIN o = 1..Len(o)
      BY <2>1
    <3> QED
      BY <1>8, <3>1, <3>2 DEF SteeringAt
  <2> HIDE DEF s, o
  <2>4. \A j \in DOMAIN q : \E p \in P : q[j] = o[p]
    BY ZenonT(40), <2>3, PicksElements
  <2>5. SteeringIn(s.queue) = {}
    BY <2>1, <2>3, <2>4 DEF SteeringIn
  <2>6. SteeringAt(hrt) = {}
    BY <2>3 DEF SteeringAt, o
  <2> QED
    BY <1>0, <1>8, <2>1, <2>2, <2>5, <2>6, SteerStart
<1>9. ASSUME NEW i \in 1..Len(state[hrt].queue), CancelQueued(i) PROVE SteerInv'
  <2>1. CASE StartNextRemoteLocked(hrt, [state[hrt] EXCEPT !.queue = RemoveAt(state[hrt].queue, i)],
                SetRow(row, state[hrt].queue[i].id, "cancelled"), given, bounds)
    <3>1. SetRow(row, state[hrt].queue[i].id, "cancelled") \in [Msg -> Status]
      BY <1>0, StatusTypes DEF Status
    <3> DEFINE q == RemoveAt(state[hrt].queue, i)
               P == (1..Len(state[hrt].queue)) \ {i}
    <3>2. q \in Seq(Item) /\ Picks(q, state[hrt].queue, P) /\ P \in SUBSET (1..Len(state[hrt].queue))
      BY <1>0, RemoveStart
    <3>3. pc = "command" /\ pc' = "idle" /\ hrt' = hrt
      BY <1>9 DEF CancelQueued
    <3>4. StartNextRemoteLocked(hrt, [state[hrt] EXCEPT !.queue = q],
                SetRow(row, state[hrt].queue[i].id, "cancelled"), given, bounds)
      BY <2>1
    <3> HIDE DEF q, P
    <3> QED
      BY <1>0, <1>8, <3>1, <3>2, <3>3, <3>4
  <2>2. CASE UNCHANGED <<state, given>>
    BY <1>1, <1>9, <2>2 DEF CancelQueued
  <2> QED
    BY <1>9, <2>1, <2>2 DEF CancelQueued
<1>10. ASSUME NEW drop \in SUBSET Msg, NEW fails \in 0..MaxFaults, ClearQueue(drop, fails) PROVE SteerInv'
  <2>1. pc = "command" /\ pc' = "idle" /\ hrt' = hrt
    BY <1>10 DEF ClearQueue
  <2>2. Remaining(drop) \in SUBSET (1..Len(state[hrt].queue))
    BY DEF Remaining
  <2> QED
    BY <1>0, <1>8, <1>10, <2>1, <2>2, ClearStart
<1>11. ASSUME NEW i \in 1..Len(state[hrt].queue), Steer(i) PROVE SteerInv'
  <2>1. CASE UNCHANGED <<state, given>> /\ pc' = "idle" /\ hrt' = hrt
    BY <1>1, <1>11, <2>1 DEF Steer
  <2>2. CASE /\ state' = [state EXCEPT ![hrt].queue[i].status = "steering", ![hrt].steering = TRUE]
             /\ given' = Gave(given, state[hrt].queue[i].id) /\ pc' = "steer" /\ hrt' = hrt
    <3>1. i \in QueuedAt(state[hrt]) /\ pc = "command"
      BY <1>11 DEF Steer, MaySteer
    <3>2. /\ \A r \in Runtime : r # hrt => state'[r] = state[r]
          /\ state'[hrt].steering = TRUE /\ DOMAIN state'[hrt].queue = DOMAIN state[hrt].queue
          /\ state'[hrt].queue[i].status = "steering"
          /\ state[hrt].queue[i].id \in Msg /\ state'[hrt].queue[i].id = state[hrt].queue[i].id
          /\ \A j \in DOMAIN state[hrt].queue : j # i => state'[hrt].queue[j] = state[hrt].queue[j]
      BY <1>0, <2>2, <3>1, SteerBegins
    <3>3. \A r \in Runtime : state[r].steering = FALSE /\ SteeringAt(r) = {}
      BY <3>1, NotSteering
    <3>4. i \in DOMAIN state[hrt].queue
      <4>1. state[hrt].queue \in Seq(Item)
        BY <1>0, StateFields
      <4> QED
        BY <4>1
    <3>5. SteeringIn(state'[hrt].queue) = {i}
      BY <1>0, <3>2, <3>3, <3>4 DEF SteeringAt, SteeringIn
    <3>6. given'[state'[hrt].queue[i].id] > 0
      <4> DEFINE m == state[hrt].queue[i].id
      <4>1. m \in Msg /\ given' = [given EXCEPT ![m] = given[m] + 1] /\ state'[hrt].queue[i].id = m
        BY <2>2, <3>2 DEF Gave
      <4> HIDE DEF m
      <4>2. given'[m] > 0
        BY <1>0, <4>1
      <4> QED
        BY <4>1, <4>2
    <3>7. \A r \in Runtime : (state'[r].steering \/ SteeringIn(state'[r].queue) # {}) => r = hrt
      BY <3>2, <3>3 DEF SteeringAt
    <3> QED
      BY Zenon, <1>0, <2>2, <3>2, <3>5, <3>6, <3>7 DEF SteerInv, SteeringAt
  <2> QED
    BY Zenon, <1>11, <2>1, <2>2 DEF Steer
<1>12. ASSUME NEW answer \in DOMAIN SteerStatus, SteerReturns(answer) PROVE SteerInv'
  <2>0. pc = "steer" /\ pc' = "idle"
    BY Zenon, <1>12 DEF SteerReturns
  <2>1. ASSUME NEW s \in States, s.steering = FALSE, SteeringIn(s.queue) = {}, NEW rw \in [Msg -> Status],
               NEW b \in Bounds, StartNextRemoteLocked(hrt, s, rw, SteeredGiven(answer), b)
        PROVE  SteerInv'
    <3>1. SteeredGiven(answer) \in [Msg -> Nat]
      BY <2>0, SteeredFact
    <3>2. SteeringIn(state'[hrt].queue) = {}
      BY <1>0, <2>1, <3>1, StartSteering
    <3>3. state'[hrt].steering = FALSE /\ \A r \in Runtime : r # hrt => state'[r] = state[r]
      BY <1>0, <2>1, <3>1, StartFact
    <3>4. \A r \in Runtime : r # hrt => state[r].steering = FALSE /\ SteeringIn(state[r].queue) = {}
      BY NotSteering DEF SteeringAt
    <3>5. \A r \in Runtime : state'[r].steering = FALSE /\ SteeringIn(state'[r].queue) = {}
      BY <3>2, <3>3, <3>4
    <3> QED
      BY <2>0, <3>5, NoSteer
  <2>2. Unsteered \in States /\ Unsteered.steering = FALSE
        /\ SetRow(row, SteeredTask, SteerStatus[answer]) \in [Msg -> Status]
    BY <2>0, SteeredFact
  <2>3. SetRow(row, SteeredTask, "queued") \in [Msg -> Status]
    BY <1>0, StatusTypes DEF Status
  <2> DEFINE q1 == [state[hrt].queue EXCEPT ![SteeredAt].status = "queued"]
             q2 == RemoveAt(state[hrt].queue, SteeredAt)
             s1 == [Unsteered EXCEPT !.queue = q1]
             s2 == [Unsteered EXCEPT !.queue = q2]
  <2>4. q1 \in Seq(Item) /\ SteeringIn(q1) = {} /\ q2 \in Seq(Item) /\ SteeringIn(q2) = {}
    BY <2>0, RejectedQueue, RemovedQueue
  <2>5. \/ StartNextRemoteLocked(hrt, s1, SetRow(row, SteeredTask, "queued"), SteeredGiven(answer), bounds)
        \/ StartNextRemoteLocked(hrt, s2, SetRow(row, SteeredTask, SteerStatus[answer]), SteeredGiven(answer), bounds)
        \/ StartNextRemoteLocked(hrt, s2, row, SteeredGiven(answer), Failed(bounds))
    BY <1>12, SteerReturnsStart
  <2> HIDE DEF q1, q2
  <2>6. s1 \in States /\ s1.queue = q1 /\ s1.steering = FALSE /\ s2 \in States /\ s2.queue = q2 /\ s2.steering = FALSE
    BY <2>2, <2>4, SetQueue
  <2> HIDE DEF s1, s2
  <2> QED
    BY Zenon, <1>0, <2>1, <2>2, <2>3, <2>4, <2>5, <2>6
<1>13. CASE Stop
  BY <1>0, <1>2, <1>13, TouchActive DEF Stop
<1>14. ASSUME NEW r \in Runtime, AttachSession(r) PROVE SteerInv'
  BY <1>0, <1>2, <1>14, TouchActive DEF AttachSession
<1>15. ASSUME NEW r \in Runtime, FinishRemoteTask(r) PROVE SteerInv'
  <2>1. UNCHANGED <<pc, hrt>>
    BY <1>15 DEF FinishRemoteTask
  <2>2. PICK rw \in [Msg -> Status], b \in Bounds : StartNextRemoteLocked(r, Finished(r), rw, given, b)
    BY <1>0, <1>15, FinishStart
  <2>3. Finished(r) \in States /\ Finished(r).queue = state[r].queue /\ Finished(r).steering = state[r].steering
    BY <1>0, <1>15, FinishStart
  <2> QED
    BY <1>0, <2>1, <2>2, <2>3, SteerStart DEF SteeringAt
<1>16. ASSUME NEW r \in Runtime, EndDirectTurn(r) PROVE SteerInv'
  BY <1>0, <1>2, <1>16, SetDirect DEF EndDirectTurn
<1>17. ASSUME NEW r \in Runtime, DirectStartNext(r) PROVE SteerInv'
  <2>1. StartNextRemoteLocked(r, Undirected(r), row, given, bounds) /\ UNCHANGED <<pc, hrt>>
    BY <1>17 DEF DirectStartNext, Undirected
  <2> QED
    BY <1>0, <2>1, DirectStart, SteerStart DEF SteeringAt
<1>18. CASE BeginDirectTurn
  BY <1>0, <1>2, <1>18, SetDirect DEF BeginDirectTurn
<1>19. CASE Detach \/ AttachChannel \/ RecoverFails \/ RecoverSelect \/ RecoverSteering \/ RecoverRunning
  BY <1>1, <1>19 DEF Detach, AttachChannel, RecoverFails, RecoverSelect, RecoverSteering, RecoverRunning
<1>20. CASE Crash
  <2>1. pc' = "idle" /\ \A r \in Runtime : state'[r] = EmptyState
    BY <1>20 DEF Crash
  <2>2. SteeringIn(<<>>) = {}
    BY DEF SteeringIn
  <2>3. \A r \in Runtime : state'[r].steering = FALSE /\ SteeringIn(state'[r].queue) = {}
    BY <2>1, <2>2, EmptyFields
  <2> QED
    BY <2>1, <2>3, NoSteer
<1>21. CASE RecoverLoad
  <2> DEFINE q == state[cur].queue \o LoadedItems
             s == [state[cur] EXCEPT !.queue = q]
  <2>1. StartNextRemoteLocked(cur, s, row, given, bounds) /\ UNCHANGED <<pc, hrt>>
    BY <1>21 DEF RecoverLoad, LoadedItems
  <2>2. s \in States /\ s.queue = q /\ s.steering = state[cur].steering /\ SteeringIn(q) = SteeringIn(state[cur].queue)
        /\ \A i \in DOMAIN state[cur].queue : q[i] = state[cur].queue[i]
    BY <1>0, LoadStart
  <2> HIDE DEF q, s
  <2>3. \A i \in SteeringAt(cur) : s.queue[i].id = state[cur].queue[i].id
    BY <2>2 DEF SteeringAt, SteeringIn
  <2> QED
    BY <1>0, <2>1, <2>2, <2>3, SteerStart DEF SteeringAt
<1> QED
  BY <1>3, <1>4, <1>5, <1>6, <1>7, <1>9, <1>10, <1>11, <1>12, <1>13, <1>14, <1>15, <1>16, <1>17, <1>18, <1>19,
     <1>20, <1>21 DEF Next, Recover

LEMMA TypeInvInit == Init => TypeInv
<1> SUFFICES ASSUME Init PROVE TypeInv
  OBVIOUS
<1>1. /\ 1 \in Runtime /\ <<>> \in Seq(Msg) /\ "none" \in Status /\ 0 \in Nat
      /\ \A r \in Runtime : state[r] = EmptyState
  BY DEF Runtime, Status, Init
<1>2. OtherTypes /\ CoreTypes
  BY <1>1, EmptyFields DEF Init, OtherTypes, CoreTypes, Bounds
<1>3. HandlerInv
  BY DEF Init, HandlerInv
<1>4. SteeringIn(<<>>) = {}
  BY DEF SteeringIn
<1>5. SteerInv
  BY <1>1, <1>4, EmptyFields DEF Init, SteerInv, SteeringAt
<1> QED
  BY <1>2, <1>3, <1>5, TypesJoin DEF TypeInv

LEMMA TypeInvStep == TypeInv /\ [Next]_vars => TypeInv'
<1> SUFFICES ASSUME TypeInv, [Next]_vars PROVE TypeInv'
  OBVIOUS
<1>1. CASE Next
  <2>1. OtherTypes' /\ CoreTypes' /\ HandlerInv' /\ SteerInv'
    BY <1>1, OtherStep, CoreStep, HandlerStep, SteerStep
  <2>2. TypeOK'
    BY <2>1, TypesJoin DEF TypeOK, OtherTypes, CoreTypes, States, Tasks, Bounds
  <2> QED
    BY <2>1, <2>2 DEF TypeInv
<1>2. CASE UNCHANGED vars
  BY <1>2 DEF vars, TypeInv, TypeOK, HandlerInv, SteerInv, SteeringAt
<1> QED
  BY <1>1, <1>2

\* Whatever fails, crashes or overlaps, the rows, the queues and the handler
\* keep their types: in particular the answer to a steer finds the item it is
\* about, the one "steering" item of the queue the handler works on, and a
\* rejected prompt had been counted as given.
THEOREM ChannelTypeCorrect == Spec => []TypeOK
<1>1. TypeInv => TypeOK
  BY DEF TypeInv
<1> QED
  BY <1>1, TypeInvInit, TypeInvStep, PTL DEF Spec

-----------------------------------------------------------------------------
(* One turn at a time.                                                     *)

LEMMA AloneStart ==
    ASSUME TypeInv, AloneInv, NEW r \in Runtime, r = cur, NEW s \in States, NEW rw \in [Msg -> Status],
           NEW g \in [Msg -> Nat], NEW b \in Bounds, StartNextRemoteLocked(r, s, rw, g, b),
           IsActive(s) => s.direct # "on", rec # "down", rec' # "down", cur' = cur,
           pc' = "idle" \/ (pc' = pc /\ hrt' = hrt)
    PROVE  AloneInv'
<1>1. /\ \A q \in Runtime : q # cur => state'[q] = state[q]
      /\ state'[cur].direct = s.direct
      /\ LeftAs(cur, s, rw, g) \/ Started(cur, s, rw, g)
  BY StartFact, Types DEF TypeInv
<1>2. IsActive(state'[cur]) => state'[cur].direct # "on"
  <2>1. CASE LeftAs(cur, s, rw, g)
    BY <2>1 DEF LeftAs
  <2>2. CASE Started(cur, s, rw, g)
    BY <1>1, <2>2 DEF Started, MayStart
  <2> QED
    BY <1>1, <2>1, <2>2
<1> QED
  BY <1>1, <1>2 DEF AloneInv, IsActive

LEMMA AloneStep ==
    ASSUME MaxReloads = 0, TypeInv, AloneInv, Next
    PROVE  AloneInv'
<1>0. /\ TypeOK /\ HandlerInv
      /\ row \in [Msg -> Status] /\ given \in [Msg -> Nat] /\ bounds \in Bounds /\ hrt \in Runtime /\ cur \in Runtime
      /\ state \in [Runtime -> States] /\ Failed(bounds) \in Bounds
  BY Types, FailedType DEF TypeInv
<1>a. /\ \A r \in Runtime : r # cur \/ rec = "down" => state[r] = EmptyState
      /\ pc # "idle" => hrt = cur /\ rec # "down"
      /\ IsActive(state[cur]) => state[cur].direct # "on"
  BY DEF AloneInv
<1>b. /\ \A r \in Runtime : IsActive(state[r]) \/ state[r].direct # "none" => r = cur /\ rec # "down"
      /\ ~IsActive(EmptyState)
  BY <1>a, EmptyFields
<1> USE DEF handler, channel, Return
<1>1. CASE UNCHANGED <<state, cur>> /\ (rec' = "down" <=> rec = "down")
           /\ (pc' = "idle" \/ UNCHANGED <<pc, hrt>> \/ (rec # "down" /\ hrt' = cur))
  BY <1>a, <1>1 DEF AloneInv
<1>2. ASSUME NEW m \in Msg, Deliver(m) PROVE AloneInv'
  BY <1>1, <1>2 DEF Deliver
<1>3. CASE HandleMessage
  BY <1>1, <1>3 DEF HandleMessage
<1>4. CASE Admit
  <2>1. hrt = cur /\ rec # "down" /\ UNCHANGED <<cur, rec>> /\ hrt' = hrt /\ pc' \in {"idle", "enqueue"}
    BY <1>a, <1>4 DEF Admit
  <2>2. CASE UNCHANGED <<row, state, given>>
    BY <1>1, <2>1, <2>2
  <2>3. CASE ~UNCHANGED <<row, state, given>>
    <3>1. /\ ~Busy(state[hrt]) /\ state'[hrt].direct = state[hrt].direct
          /\ \A q \in Runtime : q # hrt => state'[q] = state[q]
      BY <1>4, <2>3, AdmitFact
    <3> QED
      BY <1>a, <2>1, <3>1 DEF AloneInv, Busy
  <2> QED
    BY <2>2, <2>3
<1>5. CASE Enqueue
  <2>1. pc = "enqueue" /\ pc' = "idle" /\ UNCHANGED <<cur, rec>> /\ hrt = cur /\ rec # "down"
    BY <1>a, <1>5 DEF Enqueue
  <2>2. CASE UNCHANGED state
    BY <1>1, <2>1, <2>2
  <2>3. CASE StartNextRemoteLocked(hrt,
                [state[hrt] EXCEPT !.queue = Append(state[hrt].queue, NewItem(hmsg, state[hrt].active.id))],
                SetRow(row, hmsg, "queued"), given, bounds)
    <3> DEFINE s == [state[hrt] EXCEPT !.queue = Append(state[hrt].queue, NewItem(hmsg, state[hrt].active.id))]
    <3>1. s \in States /\ s.active = state[hrt].active /\ s.direct = state[hrt].direct
          /\ SetRow(row, hmsg, "queued") \in [Msg -> Status]
      BY <2>1, EnqueueStart
    <3>2. StartNextRemoteLocked(hrt, s, SetRow(row, hmsg, "queued"), given, bounds)
      BY <2>3
    <3> HIDE DEF s
    <3>3. IsActive(s) => s.direct # "on"
      BY <1>a, <2>1, <3>1 DEF IsActive
    <3> QED
      BY <1>0, <2>1, <3>1, <3>2, <3>3, AloneStart
  <2> QED
    BY <1>5, <2>2, <2>3 DEF Enqueue
<1>6. CASE Command \/ Refuse \/ TakeOver \/ TakeOverWrite
  BY <1>1, <1>6, <1>a DEF Command, Refuse, TakeOver, TakeOverWrite
<1>7. ASSUME NEW q \in Seq(Item), NEW rw \in [Msg -> Status], NEW b \in Bounds,
             StartNextRemoteLocked(hrt, [state[hrt] EXCEPT !.queue = q], rw, given, b),
             pc = "command" /\ pc' = "idle" /\ UNCHANGED <<cur, rec>>
      PROVE  AloneInv'
  <2> DEFINE s == [state[hrt] EXCEPT !.queue = q]
  <2>1. s \in States /\ s.active = state[hrt].active /\ s.direct = state[hrt].direct
    BY <1>0, SetQueue
  <2>2. StartNextRemoteLocked(hrt, s, rw, given, b)
    BY <1>7
  <2> HIDE DEF s
  <2>3. hrt = cur /\ rec # "down"
    BY <1>a, <1>7
  <2>4. IsActive(s) => s.direct # "on"
    BY <1>a, <2>1, <2>3 DEF IsActive
  <2> QED
    BY <1>0, <1>7, <2>1, <2>2, <2>3, <2>4, AloneStart
<1>8. ASSUME NEW i \in 1..Len(state[hrt].queue), CancelQueued(i) PROVE AloneInv'
  <2>0. pc = "command" /\ pc' = "idle" /\ UNCHANGED <<cur, rec>>
    BY <1>8 DEF CancelQueued
  <2>1. CASE StartNextRemoteLocked(hrt, [state[hrt] EXCEPT !.queue = RemoveAt(state[hrt].queue, i)],
                SetRow(row, state[hrt].queue[i].id, "cancelled"), given, bounds)
    <3>1. SetRow(row, state[hrt].queue[i].id, "cancelled") \in [Msg -> Status]
      BY <1>0, StatusTypes DEF Status
    <3>2. RemoveAt(state[hrt].queue, i) \in Seq(Item)
      BY <1>0, RemoveStart
    <3> QED
      BY <1>0, <1>7, <2>0, <2>1, <3>1, <3>2
  <2>2. CASE UNCHANGED state
    BY <1>1, <2>0, <2>2
  <2> QED
    BY <1>8, <2>1, <2>2 DEF CancelQueued
<1>9. ASSUME NEW drop \in SUBSET Msg, NEW fails \in 0..MaxFaults, ClearQueue(drop, fails) PROVE AloneInv'
  <2>1. pc = "command" /\ pc' = "idle" /\ UNCHANGED <<cur, rec>>
    BY <1>9 DEF ClearQueue
  <2> QED
    BY <1>0, <1>7, <1>9, <2>1, ClearStart
<1>10. ASSUME NEW i \in 1..Len(state[hrt].queue), Steer(i) PROVE AloneInv'
  <2>0. pc = "command" /\ UNCHANGED <<cur, rec, hrt>> /\ hrt = cur /\ rec # "down"
    BY <1>a, <1>10 DEF Steer
  <2>1. CASE UNCHANGED state
    BY <1>a, <2>0, <2>1 DEF AloneInv
  <2>2. CASE state' = [state EXCEPT ![hrt].queue[i].status = "steering", ![hrt].steering = TRUE]
    <3>1. i \in QueuedAt(state[hrt])
      BY <1>10 DEF Steer, MaySteer
    <3>2. /\ \A r \in Runtime : r # hrt => state'[r] = state[r]
          /\ state'[hrt].active = state[hrt].active /\ state'[hrt].direct = state[hrt].direct
      BY <1>0, <2>2, <3>1, SteerBegins
    <3> QED
      BY <1>a, <2>0, <3>2 DEF AloneInv, IsActive
  <2> QED
    BY <1>10, <2>1, <2>2 DEF Steer
<1>11. ASSUME NEW answer \in DOMAIN SteerStatus, SteerReturns(answer) PROVE AloneInv'
  <2>0. pc = "steer" /\ pc' = "idle" /\ UNCHANGED <<cur, rec>> /\ hrt = cur /\ rec # "down"
    BY Zenon, <1>a, <1>11 DEF SteerReturns
  <2>1. /\ Unsteered \in States /\ Unsteered.active = state[hrt].active /\ Unsteered.direct = state[hrt].direct
        /\ SetRow(row, SteeredTask, SteerStatus[answer]) \in [Msg -> Status] /\ SteeredGiven(answer) \in [Msg -> Nat]
    BY <2>0, SteeredFact
  <2>2. SetRow(row, SteeredTask, "queued") \in [Msg -> Status]
    BY <1>0, StatusTypes DEF Status
  <2> DEFINE q1 == [state[hrt].queue EXCEPT ![SteeredAt].status = "queued"]
             q2 == RemoveAt(state[hrt].queue, SteeredAt)
             s1 == [Unsteered EXCEPT !.queue = q1]
             s2 == [Unsteered EXCEPT !.queue = q2]
  <2>3. q1 \in Seq(Item) /\ q2 \in Seq(Item)
    BY <2>0, RejectedQueue, RemovedQueue
  <2>4. \/ StartNextRemoteLocked(hrt, s1, SetRow(row, SteeredTask, "queued"), SteeredGiven(answer), bounds)
        \/ StartNextRemoteLocked(hrt, s2, SetRow(row, SteeredTask, SteerStatus[answer]), SteeredGiven(answer), bounds)
        \/ StartNextRemoteLocked(hrt, s2, row, SteeredGiven(answer), Failed(bounds))
    BY <1>11, SteerReturnsStart
  <2> HIDE DEF q1, q2
  <2>5. /\ s1 \in States /\ s1.active = state[hrt].active /\ s1.direct = state[hrt].direct
        /\ s2 \in States /\ s2.active = state[hrt].active /\ s2.direct = state[hrt].direct
    BY <2>1, <2>3, SetQueue
  <2> HIDE DEF s1, s2
  <2>6. (IsActive(s1) => s1.direct # "on") /\ (IsActive(s2) => s2.direct # "on")
    BY <1>a, <2>0, <2>5 DEF IsActive
  <2> QED
    BY Zenon, <1>0, <2>0, <2>1, <2>2, <2>4, <2>5, <2>6, AloneStart
<1>12. CASE Stop
  <2>1. /\ state'[cur].active.id = state[cur].active.id /\ state'[cur].direct = state[cur].direct
        /\ \A q \in Runtime : q # cur => state'[q] = state[q]
    BY <1>0, <1>12, TouchActive DEF Stop
  <2> QED
    BY <1>a, <1>12, <2>1 DEF Stop, AloneInv, IsActive
<1>13. ASSUME NEW r \in Runtime, AttachSession(r) PROVE AloneInv'
  <2>1. r = cur /\ rec # "down" /\ UNCHANGED <<cur, rec, pc, hrt>>
    BY <1>b, <1>13 DEF AttachSession
  <2>2. /\ state'[r].active.id = state[r].active.id /\ state'[r].direct = state[r].direct
        /\ \A q \in Runtime : q # r => state'[q] = state[q]
    BY <1>0, <1>13, TouchActive DEF AttachSession
  <2> QED
    BY <1>a, <2>1, <2>2 DEF AloneInv, IsActive
<1>14. ASSUME NEW r \in Runtime, FinishRemoteTask(r) PROVE AloneInv'
  <2>1. r = cur /\ rec # "down" /\ UNCHANGED <<cur, rec, pc, hrt>>
    BY <1>b, <1>14 DEF FinishRemoteTask
  <2>2. PICK rw \in [Msg -> Status], b \in Bounds : StartNextRemoteLocked(r, Finished(r), rw, given, b)
    BY <1>0, <1>14, FinishStart
  <2>3. Finished(r) \in States /\ ~IsActive(Finished(r))
    BY <1>0, <1>14, FinishStart DEF IsActive, Idle
  <2> QED
    BY <1>0, <2>1, <2>2, <2>3, AloneStart
<1>15. ASSUME NEW r \in Runtime, EndDirectTurn(r) PROVE AloneInv'
  <2>1. r = cur /\ rec # "down" /\ UNCHANGED <<cur, rec, pc, hrt>>
    BY <1>b, <1>15 DEF EndDirectTurn
  <2> QED
    BY <1>0, <1>a, <1>15, <2>1, SetDirect DEF EndDirectTurn, AloneInv
<1>16. ASSUME NEW r \in Runtime, DirectStartNext(r) PROVE AloneInv'
  <2>1. r = cur /\ rec # "down" /\ UNCHANGED <<cur, rec, pc, hrt>>
    BY <1>b, <1>16 DEF DirectStartNext
  <2>2. StartNextRemoteLocked(r, Undirected(r), row, given, bounds)
    BY <1>16 DEF DirectStartNext, Undirected
  <2> QED
    BY <1>0, <2>1, <2>2, DirectStart, AloneStart
<1>17. CASE BeginDirectTurn
  <2>1. /\ state'[cur].active = state[cur].active /\ ~IsActive(state[cur])
        /\ \A q \in Runtime : q # cur => state'[q] = state[q]
    BY <1>0, <1>17, SetDirect DEF BeginDirectTurn
  <2> QED
    BY <1>a, <1>17, <2>1 DEF BeginDirectTurn, AloneInv, IsActive
<1>18. CASE Detach
  BY <1>0, <1>18 DEF Detach, Bounds
<1>19. CASE Crash
  <2>1. /\ pc' = "idle" /\ UNCHANGED cur /\ \A r \in Runtime : state'[r] = EmptyState
    BY <1>19 DEF Crash
  <2> QED
    BY <1>0, <1>b, <2>1 DEF AloneInv
<1>20. CASE AttachChannel
  <2>1. /\ UNCHANGED <<state, pc, hrt>> /\ cur' \in Runtime /\ rec = "down" /\ rec' = "steering"
    BY <1>20 DEF AttachChannel
  <2> QED
    BY <1>a, <1>b, <2>1 DEF AloneInv
<1>21. CASE RecoverFails \/ RecoverSteering \/ RecoverRunning \/ RecoverSelect
  <2>1. UNCHANGED <<state, cur, pc, hrt>> /\ rec # "down" /\ rec' # "down"
    BY <1>21 DEF RecoverFails, RecoverSteering, RecoverRunning, RecoverSelect
  <2> QED
    BY <1>1, <2>1
<1>22. CASE RecoverLoad
  <2> DEFINE s == [state[cur] EXCEPT !.queue = state[cur].queue \o LoadedItems]
  <2>1. /\ StartNextRemoteLocked(cur, s, row, given, bounds)
        /\ UNCHANGED <<cur, pc, hrt>> /\ rec # "down" /\ rec' # "down"
    BY <1>22 DEF RecoverLoad, LoadedItems
  <2>2. s \in States /\ s.active = state[cur].active /\ s.direct = state[cur].direct
    BY <1>0, LoadStart
  <2> HIDE DEF s
  <2>3. IsActive(s) => s.direct # "on"
    BY <1>a, <2>2 DEF IsActive
  <2> QED
    BY <1>0, <2>1, <2>2, <2>3, AloneStart
<1> QED
  BY <1>2, <1>3, <1>4, <1>5, <1>6, <1>8, <1>9, <1>10, <1>11, <1>12, <1>13, <1>14, <1>15, <1>16, <1>17, <1>18,
     <1>19, <1>20, <1>21, <1>22 DEF Next, Recover

\* On a channel that is never reattached without a crash, whatever store calls
\* fail and whenever the daemon dies, no two tasks of the conversation run at
\* once and none runs beside a turn from the console: the guard of
\* startNextRemoteLocked and the second look of the handler see every turn.
THEOREM TurnsAlone ==
    ASSUME MaxReloads = 0
    PROVE  Spec => []OneTurnAtATime
<1>1. Init => AloneInv
  <2> SUFFICES ASSUME Init PROVE AloneInv
    OBVIOUS
  <2>1. \A r \in Runtime : state[r] = EmptyState
    BY DEF Init
  <2>2. cur \in Runtime /\ pc = "idle"
    BY DEF Init, Runtime
  <2> QED
    BY <2>1, <2>2, EmptyFields DEF AloneInv
<1>2. TypeInv /\ AloneInv /\ [Next]_vars => AloneInv'
  <2> SUFFICES ASSUME TypeInv, AloneInv, [Next]_vars PROVE AloneInv'
    OBVIOUS
  <2>1. CASE UNCHANGED vars
    BY <2>1 DEF vars, AloneInv, IsActive
  <2> QED
    BY <2>1, AloneStep
<1>3. TypeInv /\ AloneInv => OneTurnAtATime
  <2> SUFFICES ASSUME TypeInv, AloneInv, NEW r \in Runtime, NEW q \in Runtime
               PROVE  Turns(r) + (IF q = r THEN 0 ELSE Turns(q)) <= 1
    BY DEF OneTurnAtATime
  <2>1. \A p \in Runtime : Turns(p) \in {0, 1} /\ (p # cur => Turns(p) = 0)
    <3> SUFFICES ASSUME NEW p \in Runtime PROVE Turns(p) \in {0, 1} /\ (p # cur => Turns(p) = 0)
      OBVIOUS
    <3>1. CASE p # cur
      BY <3>1, EmptyFields DEF AloneInv, Turns
    <3>2. CASE p = cur
      BY <3>2 DEF AloneInv, Turns
    <3> QED
      BY <3>1, <3>2
  <2> QED
    BY <2>1
<1> QED
  BY <1>1, <1>2, <1>3, TypeInvInit, TypeInvStep, PTL DEF Spec

-----------------------------------------------------------------------------
(* A prompt is given once.                                                 *)

\* What the state s, the rows rw and the history g that a caller brings about
\* must satisfy for startNextRemoteLocked to keep the invariants.
StartOk(r, s, rw, g) ==
    /\ \A m \in Msg : g[m] <= 1 /\ (rw[m] \in NotGiven => g[m] = 0)
    /\ \A q \in Runtime \ {r} : IsActive(state[q]) => rw[state[q].active.id] \notin Pending
    /\ IsActive(s) => rw[s.active.id] \notin Pending
    /\ rec # "down" /\ r = cur => Agrees(s.queue, rw) /\ (s.steering \/ SteeringIn(s.queue) = {})
    /\ rec # "down" /\ r # cur => Agrees(state[cur].queue, rw)

LEMMA PromptStart ==
    ASSUME TypeOK, NEW r \in Runtime, NEW s \in States, NEW rw \in [Msg -> Status],
           NEW g \in [Msg -> Nat], NEW b \in Bounds, StartNextRemoteLocked(r, s, rw, g, b), StartOk(r, s, rw, g)
    PROVE  /\ GivenInv'
           /\ \A q \in Runtime : IsActive(state'[q]) => row'[state'[q].active.id] \notin Pending
           /\ rec # "down" => Agrees(state'[cur].queue, row')
           /\ \A m \in Msg : row'[m] = rw[m] \/ (row'[m] = "running" /\ rw[m] = "queued" /\ s.queue # <<>> /\ r = cur)
           /\ \A q \in Runtime : q # r => state'[q] = state[q]
           /\ s.queue = <<>> => state'[r].queue = <<>>
           /\ \A i \in DOMAIN s.queue : \/ row'[s.queue[i].id] \notin Waiting
                                        \/ \E j \in DOMAIN state'[r].queue : state'[r].queue[j] = s.queue[i]
<1>0. /\ state \in [Runtime -> States] /\ cur \in Runtime
      /\ \A q \in Runtime : state[q] \in States
  BY Types
<1>1. /\ \A q \in Runtime : q # r => state'[q] = state[q]
      /\ LeftAs(r, s, rw, g) \/ Started(r, s, rw, g)
      /\ row' \in [Msg -> Status] /\ given' \in [Msg -> Nat]
  BY <1>0, StartFact
<1>2. CASE LeftAs(r, s, rw, g)
  <2>1. state'[r] = s /\ row' = rw /\ given' = g
    BY <1>2 DEF LeftAs
  <2>2. GivenInv'
    BY <2>1 DEF GivenInv, StartOk
  <2>3. \A q \in Runtime : IsActive(state'[q]) => row'[state'[q].active.id] \notin Pending
    BY <1>1, <2>1 DEF StartOk
  <2>4. rec # "down" => Agrees(state'[cur].queue, row')
    <3>1. CASE r = cur
      BY <2>1, <3>1 DEF StartOk
    <3>2. CASE r # cur
      BY <1>0, <1>1, <2>1, <3>2 DEF StartOk
    <3> QED
      BY <3>1, <3>2
  <2> QED
    BY <1>1, <2>1, <2>2, <2>3, <2>4
<1>3. CASE Started(r, s, rw, g)
  <2> DEFINE q == s.queue
             m == q[1].id
             z == Tail(q)
             P == (1..Len(q)) \ {1}
  <2>1. /\ r = cur /\ rec # "down" /\ ~s.steering /\ q # <<>> /\ m \in Msg
        /\ state'[r].queue = z /\ state'[r].active = Run(m)
        /\ row' = [rw EXCEPT ![m] = "running"] /\ given' = [g EXCEPT ![m] = g[m] + 1]
    BY <1>3 DEF Started, MayStart, Closed
  <2>2. q \in Seq(Item) /\ DOMAIN q = 1..Len(q)
    BY StateFields
  <2>3. Agrees(q, rw) /\ SteeringIn(q) = {}
    BY <2>1 DEF StartOk
  <2> HIDE DEF q
  <2>4. 1 \in DOMAIN q /\ q[1] \in Item /\ Picks(z, q, P)
    BY <2>1, <2>2, TailPicks
  <2>5. q[1].status = "queued"
    BY <2>3, <2>4 DEF SteeringIn, Item
  <2>6. rw[m] = "queued" /\ g[m] = 0
    BY <2>1, <2>3, <2>4, <2>5 DEF Agrees, StartOk, NotGiven
  <2> HIDE DEF m
  <2>7. /\ row'[m] = "running" /\ given'[m] = 1
        /\ \A k \in Msg : k # m => row'[k] = rw[k] /\ given'[k] = g[k]
    BY <2>1, <2>6
  <2>8. GivenInv'
    BY <2>7 DEF GivenInv, StartOk, NotGiven
  <2>9. \A k \in Msg : rw[k] \notin Pending => row'[k] \notin Pending
    BY <2>7 DEF Pending
  <2>10. \A p \in Runtime : IsActive(state'[p]) => row'[state'[p].active.id] \notin Pending
    <3> SUFFICES ASSUME NEW p \in Runtime, IsActive(state'[p]) PROVE row'[state'[p].active.id] \notin Pending
      OBVIOUS
    <3>1. CASE p = r
      BY <2>1, <2>7, <3>1 DEF Run, Pending
    <3>2. CASE p # r
      <4>1. state'[p] = state[p] /\ state[p].active.id \in Msg
        BY <1>0, <1>1, <3>2, StateFields
      <4> QED
        BY <2>9, <3>2, <4>1 DEF StartOk
    <3> QED
      BY <3>1, <3>2
  <2>11. P \in SUBSET DOMAIN q /\ \A p \in P : q[p].id \in Msg /\ q[p].id # m
    <3>1. \A p \in DOMAIN q : q[p] \in Item
      BY <2>2
    <3>2. \A p \in DOMAIN q : q[p].id \in Msg
      BY <3>1 DEF Item
    <3>3. \A p \in P : p \in DOMAIN q /\ p # 1
      BY <2>2
    <3>4. \A p \in P : q[p].id # m
      BY <2>3, <2>4, <3>3 DEF Agrees, m
    <3> QED
      BY <3>2, <3>3, <3>4
  <2> HIDE DEF z, P
  <2>12. \A p \in P : row'[q[p].id] = rw[q[p].id]
    BY <2>7, <2>11
  <2>13. Agrees(z, row') /\ \A p \in P : \E j \in DOMAIN z : z[j] = q[p]
    BY <2>3, <2>4, <2>11, <2>12, PicksAgree
  <2>14. \A i \in DOMAIN q : \/ row'[q[i].id] \notin Waiting
                             \/ \E j \in DOMAIN z : z[j] = q[i]
    <3> SUFFICES ASSUME NEW i \in DOMAIN q PROVE row'[q[i].id] \notin Waiting \/ \E j \in DOMAIN z : z[j] = q[i]
      OBVIOUS
    <3>1. CASE i = 1
      BY <2>7, <3>1 DEF m, Waiting
    <3>2. CASE i # 1
      <4>1. i \in P
        BY <2>2, <3>2 DEF P
      <4> QED
        BY <2>13, <4>1
    <3> QED
      BY <3>1, <3>2
  <2>15. \A k \in Msg : row'[k] = rw[k] \/ (row'[k] = "running" /\ rw[k] = "queued")
    BY <2>6, <2>7
  <2> QED
    BY <1>1, <2>1, <2>8, <2>10, <2>13, <2>14, <2>15 DEF q
<1> QED
  BY <1>1, <1>2, <1>3

LEMMA StartKeeps ==
    ASSUME PromptInv, NEW r \in Runtime, NEW s \in States, NEW rw \in [Msg -> Status],
           NEW g \in [Msg -> Nat], NEW b \in Bounds, StartNextRemoteLocked(r, s, rw, g, b), StartOk(r, s, rw, g),
           cur' = cur, ~(r > cur), rec' = rec \/ (rec # "down" /\ rec' = "done"),
           \/ pc' = "idle"
           \/ /\ UNCHANGED <<pc, hrt, hmsg>>
              /\ pc = "takeover" => rw[hmsg] \notin Pending
              /\ pc \in {"admit", "enqueue"} => rw[hmsg] = "none",
           rec' \in {"steering", "running", "select", "load"} /\ r = cur => s.queue = <<>>,
           rec' = "load" => loaded' = loaded /\ \A i \in DOMAIN loaded : rw[loaded[i]] = "queued",
           created' \in Seq(Msg), Distinct(created'), \A i \in DOMAIN created' : rw[created'[i]] # "none"
    PROVE  OnceInv'
<1>0. /\ TypeOK /\ cur \in Runtime /\ loaded \in Seq(Msg) /\ HandlerInv
      /\ GivenInv /\ ActiveInv /\ CurrentInv /\ QueueInv
  BY Types DEF PromptInv, OnceInv, TypeInv
<1>1. /\ GivenInv'
      /\ \A q \in Runtime : IsActive(state'[q]) => row'[state'[q].active.id] \notin Pending
      /\ rec # "down" => Agrees(state'[cur].queue, row')
      /\ \A m \in Msg : row'[m] = rw[m] \/ (row'[m] = "running" /\ rw[m] = "queued" /\ s.queue # <<>> /\ r = cur)
      /\ \A q \in Runtime : q # r => state'[q] = state[q]
      /\ s.queue = <<>> => state'[r].queue = <<>>
  BY <1>0, PromptStart
<1>2. ActiveInv'
  <2>1. pc' \in {"takeover", "admit", "enqueue"} => UNCHANGED <<pc, hmsg>> /\ hmsg \in Msg
    BY <1>0 DEF HandlerInv
  <2>2. pc' = "takeover" => row'[hmsg'] \notin Pending
    BY <1>1, <2>1 DEF Pending
  <2>3. pc' \in {"admit", "enqueue"} => row'[hmsg'] = "none"
    BY <1>1, <2>1
  <2> QED
    BY <1>1, <2>2, <2>3 DEF ActiveInv
<1>3. CurrentInv'
  <2>1. pc' # "idle" => hrt' = cur' /\ rec' = "done"
    BY <1>0 DEF CurrentInv
  <2>2. \A q \in Runtime : q > cur' => state'[q] = EmptyState
    BY <1>0, <1>1 DEF CurrentInv
  <2>3. rec' \in {"steering", "running", "select", "load"} => state'[cur'].queue = <<>>
    BY <1>0, <1>1 DEF CurrentInv
  <2> QED
    BY <2>1, <2>2, <2>3 DEF CurrentInv
<1>4. QueueInv'
  <2>1. rec' # "down" => Agrees(state'[cur'].queue, row')
    BY <1>1
  <2>2. rec' = "load" => Distinct(loaded') /\ \A i \in DOMAIN loaded' : row'[loaded'[i]] = "queued"
    <3> SUFFICES ASSUME rec' = "load"
                 PROVE  Distinct(loaded') /\ \A i \in DOMAIN loaded' : row'[loaded'[i]] = "queued"
      OBVIOUS
    <3>1. rec = "load" /\ loaded' = loaded /\ \A i \in DOMAIN loaded : rw[loaded[i]] = "queued"
      OBVIOUS
    <3>2. \A i \in DOMAIN loaded : loaded[i] \in Msg
      BY <1>0
    <3>3. Distinct(loaded)
      BY <1>0, <3>1 DEF QueueInv
    <3> QED
      BY <1>1, <3>1, <3>2, <3>3
  <2>3. \A i \in DOMAIN created' : row'[created'[i]] # "none"
    <3>1. \A i \in DOMAIN created' : created'[i] \in Msg
      OBVIOUS
    <3> QED
      BY <1>1, <3>1
  <2> QED
    BY <2>1, <2>2, <2>3 DEF QueueInv
<1> QED
  BY <1>1, <1>2, <1>3, <1>4 DEF OnceInv

\* A write of a task that has left the queue touches nothing that waits,
\* whichever runtime it comes from and however late.
Late(rw) == \A m \in Msg : rw[m] = row[m] \/ (row[m] \notin Pending /\ rw[m] \notin Pending)

LEMMA LateWrites ==
    ASSUME PromptInv, NEW rw \in [Msg -> Status], Late(rw)
    PROVE  /\ \A m \in Msg : given[m] <= 1 /\ (rw[m] \in NotGiven => given[m] = 0)
           /\ \A q \in Runtime : IsActive(state[q]) => rw[state[q].active.id] \notin Pending
           /\ pc = "takeover" => rw[hmsg] \notin Pending
           /\ pc \in {"admit", "enqueue"} => rw[hmsg] = "none"
           /\ rec # "down" => Agrees(state[cur].queue, rw)
           /\ rec = "load" => \A i \in DOMAIN loaded : rw[loaded[i]] = "queued"
           /\ Distinct(created) /\ \A i \in DOMAIN created : rw[created[i]] # "none"
<1>0. /\ TypeOK /\ cur \in Runtime /\ loaded \in Seq(Msg) /\ created \in Seq(Msg) /\ HandlerInv
      /\ state[cur].queue \in Seq(Item) /\ state \in [Runtime -> States]
      /\ GivenInv /\ ActiveInv /\ CurrentInv /\ QueueInv
  BY Types DEF PromptInv, OnceInv, TypeInv
<1>1. \A m \in Msg : given[m] <= 1 /\ (rw[m] \in NotGiven => given[m] = 0)
  BY <1>0 DEF GivenInv, Late, NotGiven, Pending
<1>2. \A q \in Runtime : IsActive(state[q]) => rw[state[q].active.id] \notin Pending
  <2> SUFFICES ASSUME NEW q \in Runtime, IsActive(state[q]) PROVE rw[state[q].active.id] \notin Pending
    OBVIOUS
  <2>1. state[q].active.id \in Msg
    BY <1>0, StateFields
  <2> QED
    BY <1>0, <2>1 DEF ActiveInv, Late
<1>3. (pc = "takeover" => rw[hmsg] \notin Pending) /\ (pc \in {"admit", "enqueue"} => rw[hmsg] = "none")
  BY <1>0 DEF ActiveInv, HandlerInv, Late, Pending
<1>4. rec # "down" => Agrees(state[cur].queue, rw)
  <2> SUFFICES ASSUME rec # "down" PROVE Agrees(state[cur].queue, rw)
    OBVIOUS
  <2> DEFINE q == state[cur].queue
  <2>1. Agrees(q, row) /\ \A i \in DOMAIN q : q[i] \in Item
    BY <1>0 DEF QueueInv
  <2> HIDE DEF q
  <2>2. \A i \in DOMAIN q : q[i].id \in Msg /\ q[i].status \in Pending
    BY <2>1 DEF Item, Pending
  <2>3. \A i \in DOMAIN q : rw[q[i].id] = q[i].status
    BY <2>1, <2>2 DEF Agrees, Late
  <2>4. Agrees(q, rw)
    BY <2>1, <2>3 DEF Agrees
  <2> QED
    BY <2>4 DEF q
<1>5. rec = "load" => \A i \in DOMAIN loaded : rw[loaded[i]] = "queued"
  <2>1. \A i \in DOMAIN loaded : loaded[i] \in Msg
    BY <1>0
  <2> QED
    BY <1>0, <2>1 DEF QueueInv, Late, Pending
<1>6. Distinct(created) /\ \A i \in DOMAIN created : rw[created[i]] # "none"
  <2>1. \A i \in DOMAIN created : created[i] \in Msg
    BY <1>0
  <2> QED
    BY <1>0, <2>1 DEF QueueInv, Late, Pending
<1> QED
  BY <1>1, <1>2, <1>3, <1>4, <1>5, <1>6

\* Steps that start nothing and leave the queues alone.
LEMMA QuietKeeps ==
    ASSUME PromptInv, Late(row'), row' \in [Msg -> Status], given' = given, UNCHANGED <<created, cur, rec, loaded>>,
           \/ state' = state
           \/ /\ QueuesKept
              /\ \A r \in Runtime : state'[r].active.id = state[r].active.id
              /\ \A r \in Runtime : r > cur => state'[r] = state[r],
           pc' = "idle" \/ UNCHANGED <<pc, hrt, hmsg>>
    PROVE  OnceInv'
<1>0. TypeOK /\ cur \in Runtime /\ GivenInv /\ ActiveInv /\ CurrentInv /\ QueueInv
  BY Types DEF PromptInv, OnceInv, TypeInv
<1>1. /\ \A m \in Msg : given[m] <= 1 /\ (row'[m] \in NotGiven => given[m] = 0)
      /\ \A q \in Runtime : IsActive(state[q]) => row'[state[q].active.id] \notin Pending
      /\ pc = "takeover" => row'[hmsg] \notin Pending
      /\ pc \in {"admit", "enqueue"} => row'[hmsg] = "none"
      /\ rec # "down" => Agrees(state[cur].queue, row')
      /\ rec = "load" => \A i \in DOMAIN loaded : row'[loaded[i]] = "queued"
      /\ Distinct(created) /\ \A i \in DOMAIN created : row'[created[i]] # "none"
  BY LateWrites
<1>2. \A r \in Runtime : /\ state'[r].queue = state[r].queue /\ state'[r].active.id = state[r].active.id
                         /\ IsActive(state'[r]) => IsActive(state[r])
                         /\ r > cur => state'[r] = state[r]
  BY DEF QueuesKept, IsActive
<1>3. GivenInv'
  BY <1>1 DEF GivenInv
<1>4. ActiveInv'
  BY <1>1, <1>2 DEF ActiveInv
<1>5. CurrentInv'
  BY <1>0, <1>2 DEF CurrentInv
<1>6. QueueInv'
  BY <1>0, <1>1, <1>2 DEF QueueInv
<1> QED
  BY <1>3, <1>4, <1>5, <1>6 DEF OnceInv

LEMMA PromptParts ==
    ASSUME PromptInv
    PROVE  /\ TypeInv /\ TypeOK /\ HandlerInv /\ SteerInv /\ GivenInv /\ ActiveInv /\ CurrentInv /\ QueueInv
           /\ row \in [Msg -> Status] /\ given \in [Msg -> Nat] /\ bounds \in Bounds /\ hrt \in Runtime
           /\ cur \in Runtime /\ cur \in Nat /\ created \in Seq(Msg) /\ loaded \in Seq(Msg)
           /\ state \in [Runtime -> States] /\ Failed(bounds) \in Bounds
           /\ state[cur].queue \in Seq(Item) /\ DOMAIN state[cur].queue = 1..Len(state[cur].queue)
           /\ \A i \in DOMAIN state[cur].queue : state[cur].queue[i] \in Item
           /\ \A i \in DOMAIN created : created[i] \in Msg
           /\ \A i \in DOMAIN loaded : loaded[i] \in Msg
<1>1. TypeInv /\ TypeOK /\ HandlerInv /\ SteerInv /\ GivenInv /\ ActiveInv /\ CurrentInv /\ QueueInv
  BY DEF PromptInv, OnceInv, TypeInv
<1>2. /\ row \in [Msg -> Status] /\ given \in [Msg -> Nat] /\ bounds \in Bounds /\ hrt \in Runtime
      /\ cur \in Runtime /\ created \in Seq(Msg) /\ loaded \in Seq(Msg)
      /\ state \in [Runtime -> States] /\ Failed(bounds) \in Bounds /\ state[cur].queue \in Seq(Item)
  BY <1>1, Types, FailedType
<1>3. cur \in Nat
  BY <1>2 DEF Runtime
<1>4. /\ DOMAIN state[cur].queue = 1..Len(state[cur].queue)
      /\ \A i \in DOMAIN state[cur].queue : state[cur].queue[i] \in Item
  BY <1>2
<1>5. (\A i \in DOMAIN created : created[i] \in Msg) /\ (\A i \in DOMAIN loaded : loaded[i] \in Msg)
  BY <1>2
<1> QED
  BY <1>1, <1>2, <1>3, <1>4, <1>5

\* A task that never had a row is neither active nor in the queue.
LEMMA EnqueueOk ==
    ASSUME PromptInv, pc = "enqueue"
    PROVE  LET q == Append(state[hrt].queue, NewItem(hmsg, state[hrt].active.id))
               s == [state[hrt] EXCEPT !.queue = q]
               rw == SetRow(row, hmsg, "queued") IN
           StartOk(hrt, s, rw, given)
<1> DEFINE o == state[hrt].queue
           q == Append(o, NewItem(hmsg, state[hrt].active.id))
           s == [state[hrt] EXCEPT !.queue = q]
           rw == SetRow(row, hmsg, "queued")
<1>0. TypeInv /\ SteerInv /\ GivenInv /\ ActiveInv /\ CurrentInv /\ QueueInv /\ row \in [Msg -> Status]
      /\ state \in [Runtime -> States]
  BY PromptParts
<1>1. /\ s.queue = q /\ s.active = state[hrt].active /\ s.steering = state[hrt].steering
      /\ hmsg \in Msg /\ hrt \in Runtime
      /\ \A i \in DOMAIN q : (i \in DOMAIN o /\ q[i] = o[i])
                              \/ (i = Len(o) + 1 /\ q[i].id = hmsg /\ q[i].status = "queued")
  BY <1>0, EnqueueStart
<1>2. hrt = cur /\ rec = "done" /\ row[hmsg] = "none"
  BY <1>0 DEF CurrentInv, ActiveInv
<1>3. Agrees(o, row) /\ SteeringIn(o) = {} /\ \A i \in DOMAIN o : o[i] \in Item
  BY <1>0, <1>1, <1>2, NotSteering, PromptParts DEF QueueInv, SteeringAt
<1>4. rw[hmsg] = "queued" /\ \A m \in Msg : m # hmsg => rw[m] = row[m]
  BY <1>0, <1>1 DEF SetRow
<1> HIDE DEF q, s, rw, o
<1>5. \A i \in DOMAIN o : o[i].id \in Msg /\ o[i].id # hmsg /\ rw[o[i].id] = o[i].status
  <2>1. \A i \in DOMAIN o : o[i].id \in Msg /\ o[i].status # "none"
    BY <1>3 DEF Item
  <2>2. \A i \in DOMAIN o : o[i].id # hmsg
    BY <1>2, <1>3, <2>1 DEF Agrees
  <2> QED
    BY <1>3, <1>4, <2>1, <2>2 DEF Agrees
<1>6. Agrees(q, rw) /\ SteeringIn(q) = {}
  <2>1. \A i \in DOMAIN q : rw[q[i].id] = q[i].status
    BY <1>1, <1>4, <1>5
  <2>2. \A i, j \in DOMAIN q : q[i].id = q[j].id => i = j
    BY <1>1, <1>3, <1>5 DEF Agrees
  <2>3. SteeringIn(q) = {}
    BY <1>1, <1>3 DEF SteeringIn
  <2> QED
    BY <2>1, <2>2, <2>3 DEF Agrees
<1>7. \A m \in Msg : given[m] <= 1 /\ (rw[m] \in NotGiven => given[m] = 0)
  BY <1>0, <1>2, <1>4 DEF GivenInv, NotGiven
<1>8. \A p \in Runtime : IsActive(state[p]) => rw[state[p].active.id] \notin Pending
  <2> SUFFICES ASSUME NEW p \in Runtime, IsActive(state[p]) PROVE rw[state[p].active.id] \notin Pending
    OBVIOUS
  <2>1. state[p].active.id \in Msg /\ row[state[p].active.id] \notin Pending
    BY <1>0, StateFields DEF ActiveInv
  <2>2. state[p].active.id # hmsg
    BY <1>2, <2>1 DEF Pending
  <2> QED
    BY <1>4, <2>1, <2>2
<1>9. IsActive(s) => rw[s.active.id] \notin Pending
  BY <1>1, <1>8 DEF IsActive
<1>10. StartOk(hrt, s, rw, given)
  BY <1>1, <1>2, <1>6, <1>7, <1>8, <1>9 DEF StartOk
<1> QED
  BY <1>10 DEF s, q, o, rw

\* Tasks leave the queue when their rows say "cancelled", the others stay.
LEMMA PicksOk ==
    ASSUME PromptInv, pc = "command", NEW q \in Seq(Item), NEW P \in SUBSET DOMAIN state[hrt].queue,
           Picks(q, state[hrt].queue, P), NEW rw \in [Msg -> Status],
           \A m \in Msg : rw[m] = row[m] \/ rw[m] = "cancelled",
           \A p \in P : rw[state[hrt].queue[p].id] = row[state[hrt].queue[p].id]
    PROVE  /\ StartOk(hrt, [state[hrt] EXCEPT !.queue = q], rw, given)
           /\ \A p \in P : \E j \in DOMAIN q : q[j] = state[hrt].queue[p]
<1> DEFINE o == state[hrt].queue
           s == [state[hrt] EXCEPT !.queue = q]
<1>0. TypeInv /\ SteerInv /\ GivenInv /\ ActiveInv /\ CurrentInv /\ QueueInv /\ row \in [Msg -> Status]
      /\ state \in [Runtime -> States] /\ hrt \in Runtime
  BY PromptParts
<1>1. s.queue = q /\ s.active = state[hrt].active /\ s.steering = state[hrt].steering
  BY <1>0, SetQueue
<1>2. hrt = cur /\ rec = "done" /\ Agrees(o, row) /\ SteeringIn(o) = {}
  BY <1>0, NotSteering DEF CurrentInv, QueueInv, SteeringAt
<1>2b. /\ P \in SUBSET DOMAIN o /\ Picks(q, o, P) /\ \A p \in P : rw[o[p].id] = row[o[p].id]
  OBVIOUS
<1> HIDE DEF o, s
<1>3. Agrees(q, rw) /\ (\A j \in DOMAIN q : \E p \in P : q[j] = o[p]) /\ \A p \in P : \E j \in DOMAIN q : q[j] = o[p]
  BY <1>2, <1>2b, PicksAgree
<1>4. SteeringIn(q) = {}
  BY <1>2, <1>2b, <1>3 DEF SteeringIn
<1>5. \A m \in Msg : given[m] <= 1 /\ (rw[m] \in NotGiven => given[m] = 0)
  BY <1>0 DEF GivenInv, NotGiven
<1>6. \A p \in Runtime : IsActive(state[p]) => rw[state[p].active.id] \notin Pending
  <2> SUFFICES ASSUME NEW p \in Runtime, IsActive(state[p]) PROVE rw[state[p].active.id] \notin Pending
    OBVIOUS
  <2>1. state[p].active.id \in Msg /\ row[state[p].active.id] \notin Pending
    BY <1>0, StateFields DEF ActiveInv
  <2> QED
    BY <2>1 DEF Pending
<1>7. IsActive(s) => rw[s.active.id] \notin Pending
  BY <1>0, <1>1, <1>6 DEF IsActive
<1>8. StartOk(hrt, s, rw, given)
  BY <1>1, <1>2, <1>3, <1>4, <1>5, <1>6, <1>7 DEF StartOk
<1> QED
  BY <1>3, <1>8 DEF s, o

LEMMA SteerStands ==
    ASSUME PromptInv, pc = "steer"
    PROVE  /\ hrt = cur /\ rec = "done" /\ Agrees(state[hrt].queue, row) /\ SteeringIn(state[hrt].queue) = {SteeredAt}
           /\ SteeredAt \in DOMAIN state[hrt].queue /\ SteeredTask = state[hrt].queue[SteeredAt].id
           /\ SteeredTask \in Msg /\ row[SteeredTask] = "steering" /\ given[SteeredTask] = 1
           /\ DOMAIN state[hrt].queue = 1..Len(state[hrt].queue)
           /\ \A p \in Runtime : IsActive(state[p]) => state[p].active.id \in Msg \ {SteeredTask}
<1>0. TypeInv /\ SteerInv /\ GivenInv /\ ActiveInv /\ CurrentInv /\ QueueInv /\ state \in [Runtime -> States]
      /\ given \in [Msg -> Nat] /\ DOMAIN state[cur].queue = 1..Len(state[cur].queue)
  BY PromptParts
<1>1. hrt = cur /\ rec = "done" /\ Agrees(state[hrt].queue, row)
  BY <1>0 DEF CurrentInv, QueueInv
<1>2. "rejected" \in DOMAIN SteerStatus
  BY DEF SteerStatus
<1>3. /\ SteeredAt \in 1..Len(state[hrt].queue) /\ SteeringIn(state[hrt].queue) = {SteeredAt}
      /\ state[hrt].queue[SteeredAt].status = "steering" /\ SteeredTask \in Msg /\ given[SteeredTask] > 0
      /\ SteeredTask = state[hrt].queue[SteeredAt].id
  BY <1>0, <1>2, SteeredFact DEF SteeringAt, SteeredTask
<1>4. SteeredAt \in DOMAIN state[hrt].queue /\ row[SteeredTask] = "steering"
  BY <1>0, <1>1, <1>3 DEF Agrees
<1>5. given[SteeredTask] = 1
  BY <1>0, <1>3 DEF GivenInv
<1>6. \A p \in Runtime : IsActive(state[p]) => state[p].active.id \in Msg \ {SteeredTask}
  BY <1>0, <1>4, StateFields DEF ActiveInv, Pending
<1> QED
  BY <1>0, <1>1, <1>3, <1>4, <1>5, <1>6

\* A rejected prompt was not given and its task waits again.
LEMMA RejectedOk ==
    ASSUME PromptInv, pc = "steer", NEW answer, answer = "rejected"
    PROVE  LET q == [state[hrt].queue EXCEPT ![SteeredAt].status = "queued"]
               s == [Unsteered EXCEPT !.queue = q] IN
           /\ StartOk(hrt, s, SetRow(row, SteeredTask, "queued"), SteeredGiven(answer))
           /\ s.queue = q /\ \A i \in DOMAIN state[hrt].queue : i \in DOMAIN q /\ q[i].id = state[hrt].queue[i].id
<1> DEFINE o == state[hrt].queue
           q == [o EXCEPT ![SteeredAt].status = "queued"]
           s == [Unsteered EXCEPT !.queue = q]
           t == SteeredTask
           rw == SetRow(row, t, "queued")
           g == SteeredGiven(answer)
<1>0. TypeInv /\ GivenInv /\ ActiveInv /\ row \in [Msg -> Status] /\ given \in [Msg -> Nat]
  BY PromptParts
<1>1. /\ hrt = cur /\ rec = "done" /\ Agrees(o, row) /\ SteeredAt \in DOMAIN o /\ t = o[SteeredAt].id
      /\ t \in Msg /\ row[t] = "steering" /\ given[t] = 1
      /\ \A p \in Runtime : IsActive(state[p]) => state[p].active.id \in Msg \ {t}
  BY SteerStands
<1>2. /\ q \in Seq(Item) /\ DOMAIN q = DOMAIN o /\ SteeringIn(q) = {} /\ \A i \in DOMAIN q : q[i].id = o[i].id
      /\ q[SteeredAt].status = "queued" /\ \A i \in DOMAIN q : i # SteeredAt => q[i] = o[i]
  BY <1>0, RejectedQueue
<1>3. Unsteered \in States /\ Unsteered.active = state[hrt].active
  BY <1>0, SteeredFact DEF SteerStatus
<1> HIDE DEF q
<1>4. s.queue = q /\ s.active = state[hrt].active
  BY <1>2, <1>3, SetQueue
<1>5. rw[t] = "queued" /\ \A m \in Msg : m # t => rw[m] = row[m]
  BY <1>0, <1>1 DEF SetRow
<1>6. g[t] = 0 /\ \A m \in Msg : m # t => g[m] = given[m]
  BY <1>0, <1>1 DEF SteeredGiven
<1>7. \A i \in DOMAIN o : i # SteeredAt => o[i].id \in Msg /\ o[i].id # t
  <2>1. \A i \in DOMAIN o : o[i].id \in Msg
    BY <1>1, PromptParts DEF Item
  <2> QED
    BY <1>1, <2>1 DEF Agrees
<1> HIDE DEF s, t, rw, g, o
<1>8. Agrees(q, rw)
  <2>1. \A i \in DOMAIN q : rw[q[i].id] = q[i].status
    <3> SUFFICES ASSUME NEW i \in DOMAIN q PROVE rw[q[i].id] = q[i].status
      OBVIOUS
    <3>1. CASE i = SteeredAt
      BY <1>1, <1>2, <1>5, <3>1
    <3>2. CASE i # SteeredAt
      BY <1>1, <1>2, <1>5, <1>7, <3>2 DEF Agrees
    <3> QED
      BY <3>1, <3>2
  <2>2. \A i, j \in DOMAIN q : q[i].id = q[j].id => i = j
    BY <1>1, <1>2 DEF Agrees
  <2> QED
    BY <2>1, <2>2 DEF Agrees
<1>9. \A m \in Msg : g[m] <= 1 /\ (rw[m] \in NotGiven => g[m] = 0)
  BY <1>0, <1>5, <1>6 DEF GivenInv
<1>10. \A p \in Runtime : IsActive(state[p]) => rw[state[p].active.id] \notin Pending
  BY <1>0, <1>1, <1>5 DEF ActiveInv
<1>11. IsActive(s) => rw[s.active.id] \notin Pending
  <2>1. hrt \in Runtime
    BY PromptParts
  <2> QED
    BY <1>4, <1>10, <2>1 DEF IsActive
<1>12. StartOk(hrt, s, rw, g)
  BY <1>1, <1>2, <1>4, <1>8, <1>9, <1>10, <1>11 DEF StartOk
<1> QED
  BY <1>2, <1>4, <1>12 DEF s, q, o, t, rw, g

\* An item that was steered, or may have been, leaves the queue.
LEMMA SteeredOk ==
    ASSUME PromptInv, pc = "steer", NEW answer, NEW rw, NEW x \in Status \ NotGiven,
           rw = row \/ rw = SetRow(row, SteeredTask, x)
    PROVE  LET q == RemoveAt(state[hrt].queue, SteeredAt)
               s == [Unsteered EXCEPT !.queue = q] IN
           /\ StartOk(hrt, s, rw, SteeredGiven(answer))
           /\ s.queue = q /\ \A i \in DOMAIN state[hrt].queue : i # SteeredAt =>
                                \E j \in DOMAIN q : q[j] = state[hrt].queue[i]
<1> DEFINE o == state[hrt].queue
           q == RemoveAt(o, SteeredAt)
           s == [Unsteered EXCEPT !.queue = q]
           t == SteeredTask
           P == (1..Len(o)) \ {SteeredAt}
           g == SteeredGiven(answer)
<1>0. TypeInv /\ GivenInv /\ ActiveInv /\ row \in [Msg -> Status] /\ given \in [Msg -> Nat]
  BY PromptParts
<1>1. /\ hrt = cur /\ rec = "done" /\ Agrees(o, row) /\ SteeredAt \in DOMAIN o /\ t = o[SteeredAt].id
      /\ t \in Msg /\ row[t] = "steering" /\ given[t] = 1 /\ DOMAIN o = 1..Len(o)
      /\ \A p \in Runtime : IsActive(state[p]) => state[p].active.id \in Msg \ {t}
  BY SteerStands
<1>2. q \in Seq(Item) /\ SteeringIn(q) = {} /\ Picks(q, o, P)
  BY <1>0, RemovedQueue
<1>3. Unsteered \in States /\ Unsteered.active = state[hrt].active
  BY <1>0, SteeredFact DEF SteerStatus
<1> HIDE DEF q
<1>4. s.queue = q /\ s.active = state[hrt].active
  BY <1>2, <1>3, SetQueue
<1>5. rw[t] \notin NotGiven /\ \A m \in Msg : m # t => rw[m] = row[m]
  BY <1>0, <1>1 DEF SetRow, NotGiven
<1>6. g[t] <= 1 /\ \A m \in Msg : m # t => g[m] = given[m]
  BY <1>0, <1>1 DEF SteeredGiven
<1>7. P \in SUBSET DOMAIN o /\ \A i \in DOMAIN o : i # SteeredAt => i \in P /\ o[i].id \in Msg /\ o[i].id # t
  <2>1. \A i \in DOMAIN o : o[i].id \in Msg
    BY <1>1, PromptParts DEF Item
  <2>2. \A i \in DOMAIN o : i # SteeredAt => i \in P
    BY <1>1
  <2> QED
    BY <1>1, <2>1, <2>2 DEF Agrees
<1>7b. \A p \in P : rw[o[p].id] = row[o[p].id]
  BY <1>1, <1>5, <1>7
<1> HIDE DEF s, t, g, o, P
<1>8. Agrees(q, rw) /\ \A p \in P : \E j \in DOMAIN q : q[j] = o[p]
  <2>1. P \in SUBSET DOMAIN o /\ Picks(q, o, P) /\ Agrees(o, row)
    BY <1>1, <1>2, <1>7
  <2> QED
    BY <2>1, <1>7b, PicksAgree
<1>9. \A m \in Msg : g[m] <= 1 /\ (rw[m] \in NotGiven => g[m] = 0)
  BY <1>0, <1>5, <1>6 DEF GivenInv
<1>10. \A p \in Runtime : IsActive(state[p]) => rw[state[p].active.id] \notin Pending
  BY <1>0, <1>1, <1>5 DEF ActiveInv
<1>11. IsActive(s) => rw[s.active.id] \notin Pending
  <2>1. hrt \in Runtime
    BY PromptParts
  <2> QED
    BY <1>4, <1>10, <2>1 DEF IsActive
<1>12. StartOk(hrt, s, rw, g)
  BY <1>1, <1>2, <1>4, <1>8, <1>9, <1>10, <1>11 DEF StartOk
<1> QED
  BY <1>4, <1>7, <1>8, <1>12 DEF s, q, o, P, g

\* The end of a task or of a turn from the console, in the current runtime or
\* in one that lingers.
LEMMA LateOk ==
    ASSUME PromptInv, NEW r \in Runtime, NEW s \in States, s.queue = state[r].queue, s.steering = state[r].steering,
           s.active = state[r].active \/ s.active = Idle, NEW rw \in [Msg -> Status], Late(rw)
    PROVE  StartOk(r, s, rw, given)
<1>0. TypeInv /\ SteerInv /\ hrt \in Runtime
  BY PromptParts
<1>1. /\ \A m \in Msg : given[m] <= 1 /\ (rw[m] \in NotGiven => given[m] = 0)
      /\ \A q \in Runtime : IsActive(state[q]) => rw[state[q].active.id] \notin Pending
      /\ rec # "down" => Agrees(state[cur].queue, rw)
  BY LateWrites
<1>2. IsActive(s) => rw[s.active.id] \notin Pending
  BY <1>1 DEF IsActive, Idle
<1>3. s.steering \/ SteeringIn(s.queue) = {}
  BY <1>0 DEF SteerInv, SteeringAt
<1> QED
  BY <1>1, <1>2, <1>3 DEF StartOk

\* Recovery fills an empty queue with what it has read.
LEMMA LoadOk ==
    ASSUME PromptInv, rec = "load"
    PROVE  LET q == state[cur].queue \o LoadedItems
               s == [state[cur] EXCEPT !.queue = q] IN
           /\ StartOk(cur, s, row, given)
           /\ s.queue = q /\ DOMAIN q = DOMAIN loaded /\ \A i \in DOMAIN loaded : q[i].id = loaded[i]
<1> DEFINE q == state[cur].queue \o LoadedItems
           s == [state[cur] EXCEPT !.queue = q]
<1>0. /\ TypeOK /\ SteerInv /\ GivenInv /\ ActiveInv /\ CurrentInv /\ QueueInv /\ cur \in Runtime
  BY PromptParts
<1>1. /\ s.queue = q /\ s.active = state[cur].active /\ s.steering = state[cur].steering
      /\ LoadedItems \in Seq(Item) /\ DOMAIN LoadedItems = DOMAIN loaded
      /\ \A i \in DOMAIN loaded : LoadedItems[i].id = loaded[i] /\ LoadedItems[i].status = "queued"
  BY <1>0, LoadStart
<1>2. state[cur].queue = <<>> /\ Distinct(loaded) /\ \A i \in DOMAIN loaded : row[loaded[i]] = "queued"
  BY <1>0 DEF CurrentInv, QueueInv
<1>3. q = LoadedItems
  BY <1>1, <1>2
<1> HIDE DEF q, s
<1>4. Agrees(q, row) /\ SteeringIn(q) = {}
  BY <1>1, <1>2, <1>3 DEF Agrees, Distinct, SteeringIn
<1>5. StartOk(cur, s, row, given)
  BY <1>0, <1>1, <1>4 DEF StartOk, GivenInv, ActiveInv, IsActive
<1> QED
  BY <1>1, <1>3, <1>5 DEF s, q

LEMMA LateRow ==
    ASSUME PromptInv, NEW m \in Msg, row[m] \notin Pending, NEW x \in Status \ Pending
    PROVE  Late(row) /\ SetRow(row, m, x) \in [Msg -> Status] /\ Late(SetRow(row, m, x))
BY PromptParts DEF Late, SetRow

\* The steps of the handler.
LEMMA OnceHandler ==
    ASSUME ~HandlersOverlapAttach, PromptInv, HandleMessage \/ Command \/ Refuse \/ TakeOver \/ TakeOverWrite
    PROVE  OnceInv'
<1>0. /\ TypeOK /\ HandlerInv /\ GivenInv /\ ActiveInv /\ CurrentInv /\ QueueInv /\ row \in [Msg -> Status]
      /\ Late(row) /\ state \in [Runtime -> States] /\ hrt \in Runtime
  BY PromptParts DEF Late
<1> USE DEF handler, channel, durable, Return
<1>1. CASE pc' = "idle" /\ UNCHANGED <<row, state, created, cur, rec, loaded, given>>
  BY <1>0, <1>1, QuietKeeps
<1>2. CASE Refuse
  BY <1>1, <1>2 DEF Refuse
<1>3. CASE HandleMessage
  <2>1. CASE UNCHANGED handler
    BY <1>1, <1>3, <2>1 DEF HandleMessage
  <2>2. CASE ~UNCHANGED handler
    <3>1. /\ rec = "done" /\ row[hmsg'] = "none" /\ pc' \in {"admit", "enqueue"} /\ hrt' = cur
          /\ UNCHANGED <<row, state, created, cur, rec, loaded, given>>
      BY <1>3, <2>2 DEF HandleMessage, Ready, IsDuplicate
    <3> QED
      BY <1>0, <3>1 DEF OnceInv, GivenInv, ActiveInv, CurrentInv, QueueInv, IsActive
  <2> QED
    BY <2>1, <2>2
<1>4. CASE Command
  <2>1. rec = "done" /\ pc' = "command" /\ hrt' = cur /\ UNCHANGED <<row, state, created, cur, rec, loaded, given>>
    BY <1>4 DEF Command, Ready
  <2> QED
    BY <1>0, <2>1 DEF OnceInv, GivenInv, ActiveInv, CurrentInv, QueueInv, IsActive
<1>5. CASE TakeOver
  <2>1. /\ pc = "command" /\ pc' = "takeover" /\ hrt' = hrt /\ IsActive(state[hrt]) /\ hmsg' = state[hrt].active.id
        /\ UNCHANGED <<row, state, created, cur, rec, loaded, given>>
    BY <1>5 DEF TakeOver
  <2> QED
    BY <1>0, <2>1 DEF OnceInv, GivenInv, ActiveInv, CurrentInv, QueueInv, IsActive
<1>6. CASE TakeOverWrite
  <2>1. /\ pc = "takeover" /\ pc' = "idle" /\ UNCHANGED <<state, created, cur, rec, loaded, given>>
        /\ row' = row \/ row' = SetRow(row, hmsg, "running")
    BY <1>6 DEF TakeOverWrite
  <2>2. hmsg \in Msg /\ row[hmsg] \notin Pending /\ "running" \in Status \ Pending
    BY <1>0, <2>1 DEF HandlerInv, ActiveInv, Status, Pending
  <2>3. Late(row') /\ row' \in [Msg -> Status]
    BY <1>0, <2>1, <2>2, LateRow
  <2> QED
    BY <2>1, <2>3, QuietKeeps
<1> QED
  BY <1>2, <1>3, <1>4, <1>5, <1>6

LEMMA OnceAdmit ==
    ASSUME PromptInv, Admit
    PROVE  OnceInv'
<1>0. /\ TypeInv /\ TypeOK /\ HandlerInv /\ GivenInv /\ ActiveInv /\ CurrentInv /\ QueueInv /\ row \in [Msg -> Status]
      /\ given \in [Msg -> Nat] /\ Late(row) /\ state \in [Runtime -> States] /\ hrt \in Runtime
  BY PromptParts DEF Late
<1>1. UNCHANGED <<created, cur, rec, loaded>> /\ hrt' = hrt /\ hmsg' = hmsg /\ pc = "admit" /\ pc' \in {"idle", "enqueue"}
  BY DEF Admit, channel, Return
<1>2. hrt = cur /\ rec = "done" /\ hmsg \in Msg /\ row[hmsg] = "none" /\ given[hmsg] = 0
  BY <1>0, <1>1 DEF CurrentInv, ActiveInv, HandlerInv, GivenInv, NotGiven
<1>3. CASE UNCHANGED <<row, state, given>>
  BY <1>0, <1>1, <1>2, <1>3 DEF OnceInv, GivenInv, ActiveInv, CurrentInv, QueueInv, IsActive
<1>4. CASE ~UNCHANGED <<row, state, given>>
  <2>1. /\ QueuesKept /\ ~Busy(state[hrt]) /\ state'[hrt].active = Run(hmsg)
        /\ \A q \in Runtime : q # hrt => state'[q] = state[q]
        /\ row' = [row EXCEPT ![hmsg] = "running"] /\ given' = [given EXCEPT ![hmsg] = given[hmsg] + 1] /\ pc' = "idle"
    BY <1>0, <1>4, AdmitFact
  <2>2. /\ row'[hmsg] = "running" /\ given'[hmsg] = 1
        /\ \A m \in Msg : m # hmsg => row'[m] = row[m] /\ given'[m] = given[m]
    BY <1>0, <1>2, <2>1
  <2>3. GivenInv'
    BY <1>0, <2>2 DEF GivenInv, NotGiven
  <2>4. ActiveInv'
    <3>1. ASSUME NEW q \in Runtime, IsActive(state'[q]) PROVE row'[state'[q].active.id] \notin Pending
      <4>1. CASE q = hrt
        BY <2>1, <2>2, <4>1 DEF Run, Pending
      <4>2. CASE q # hrt
        <5>1. state'[q] = state[q] /\ state[q].active.id \in Msg
          BY <1>0, <2>1, <3>1, <4>2, StateFields
        <5> QED
          BY <1>0, <2>2, <3>1, <5>1 DEF ActiveInv, Pending
      <4> QED
        BY <4>1, <4>2
    <3> QED
      BY <2>1, <3>1 DEF ActiveInv
  <2>5. state'[cur].queue = <<>> /\ Agrees(<<>>, row')
    BY <1>0, <1>2, <2>1 DEF QueuesKept, Busy, Agrees
  <2>6. CurrentInv'
    <3>1. \A q \in Runtime : q > cur => state'[q] = state[q]
      BY <1>2, <2>1 DEF Runtime
    <3> QED
      BY <1>0, <1>1, <1>2, <2>1, <3>1 DEF CurrentInv
  <2>7. QueueInv'
    <3>1. \A i \in DOMAIN created : row'[created[i]] # "none"
      BY <1>0, <2>2, PromptParts DEF QueueInv
    <3> QED
      BY <1>0, <1>1, <1>2, <2>5, <3>1 DEF QueueInv
  <2> QED
    BY <2>3, <2>4, <2>6, <2>7 DEF OnceInv
<1> QED
  BY <1>3, <1>4

LEMMA OnceEnqueue ==
    ASSUME PromptInv, Enqueue
    PROVE  OnceInv'
<1>0. /\ TypeInv /\ TypeOK /\ HandlerInv /\ ActiveInv /\ CurrentInv /\ QueueInv /\ row \in [Msg -> Status]
      /\ given \in [Msg -> Nat] /\ bounds \in Bounds /\ hrt \in Runtime /\ Late(row) /\ cur \in Nat
      /\ created \in Seq(Msg)
  BY PromptParts DEF Late
<1>1. UNCHANGED <<cur, rec, loaded>> /\ pc = "enqueue" /\ pc' = "idle"
  BY DEF Enqueue, channel, Return
<1>2. hrt = cur /\ rec = "done" /\ hmsg \in Msg /\ row[hmsg] = "none"
  BY <1>0, <1>1 DEF CurrentInv, ActiveInv, HandlerInv
<1>3. CASE UNCHANGED <<row, created, state, given>>
  BY <1>0, <1>1, <1>3, QuietKeeps
<1>4. CASE /\ created' = Append(created, hmsg)
           /\ StartNextRemoteLocked(hrt,
                [state[hrt] EXCEPT !.queue = Append(state[hrt].queue, NewItem(hmsg, state[hrt].active.id))],
                SetRow(row, hmsg, "queued"), given, bounds)
  <2> DEFINE s == [state[hrt] EXCEPT !.queue = Append(state[hrt].queue, NewItem(hmsg, state[hrt].active.id))]
             rw == SetRow(row, hmsg, "queued")
  <2>1. s \in States /\ rw \in [Msg -> Status]
    BY <1>0, <1>1, EnqueueStart
  <2>2. StartOk(hrt, s, rw, given)
    BY <1>1, EnqueueOk
  <2>3. StartNextRemoteLocked(hrt, s, rw, given, bounds)
    BY <1>4
  <2>4. /\ created' \in Seq(Msg) /\ DOMAIN created = 1..Len(created) /\ DOMAIN created' = 1..Len(created) + 1
        /\ Len(created) \in Nat /\ created'[Len(created) + 1] = hmsg
        /\ \A i \in 1..Len(created) : created'[i] = created[i]
    BY <1>0, <1>2, <1>4
  <2>5. \A i \in DOMAIN created : created[i] \in Msg /\ row[created[i]] # "none" /\ created[i] # hmsg
    BY <1>0, <1>2 DEF QueueInv
  <2>6. Distinct(created')
    BY <1>0, <2>4, <2>5 DEF QueueInv, Distinct
  <2>7. rw[hmsg] = "queued" /\ \A m \in Msg : m # hmsg => rw[m] = row[m]
    BY <1>0, <1>2 DEF SetRow
  <2> HIDE DEF s, rw
  <2>8. \A i \in DOMAIN created' : rw[created'[i]] # "none"
    <3> SUFFICES ASSUME NEW i \in DOMAIN created' PROVE rw[created'[i]] # "none"
      OBVIOUS
    <3>1. CASE i = Len(created) + 1
      BY <2>4, <2>7, <3>1
    <3>2. CASE i # Len(created) + 1
      <4>1. i \in DOMAIN created /\ created'[i] = created[i]
        BY <2>4, <3>2
      <4> QED
        BY <2>5, <2>7, <4>1
    <3> QED
      BY <3>1, <3>2
  <2>9. ~(hrt > cur)
    BY <1>0, <1>2
  <2> QED
    BY <1>0, <1>1, <1>2, <2>1, <2>2, <2>3, <2>4, <2>6, <2>8, <2>9, StartKeeps
<1> QED
  BY <1>3, <1>4 DEF Enqueue, durable

\* The facts of a queue that loses cancelled tasks.
LEMMA CancelOk ==
    ASSUME PromptInv, NEW i \in 1..Len(state[hrt].queue), i \in QueuedAt(state[hrt]), pc = "command"
    PROVE  LET q == RemoveAt(state[hrt].queue, i)
               s == [state[hrt] EXCEPT !.queue = q]
               rw == SetRow(row, state[hrt].queue[i].id, "cancelled") IN
           /\ s \in States /\ s.queue = q /\ rw \in [Msg -> Status]
           /\ \A m \in Msg : rw[m] = row[m] \/ rw[m] = "cancelled"
           /\ StartOk(hrt, s, rw, given) /\ rw[state[hrt].queue[i].id] = "cancelled"
           /\ \A p \in DOMAIN state[hrt].queue : p # i => \E j \in DOMAIN q : q[j] = state[hrt].queue[p]
<1> DEFINE o == state[hrt].queue
           q == RemoveAt(o, i)
           s == [state[hrt] EXCEPT !.queue = q]
           rw == SetRow(row, o[i].id, "cancelled")
           P == (1..Len(o)) \ {i}
<1>0. /\ row \in [Msg -> Status] /\ hrt \in Runtime /\ state \in [Runtime -> States] /\ CurrentInv /\ QueueInv
  BY PromptParts
<1>1. hrt = cur /\ Agrees(o, row)
  BY <1>0 DEF CurrentInv, QueueInv
<1>2. q \in Seq(Item) /\ s \in States /\ s.queue = q /\ Picks(q, o, P)
  BY <1>0, RemoveStart
<1>3. DOMAIN o = 1..Len(o) /\ \A p \in DOMAIN o : o[p].id \in Msg
  BY <1>1, PromptParts DEF Item
<1>4. rw \in [Msg -> Status] /\ rw[o[i].id] = "cancelled" /\ \A m \in Msg : m # o[i].id => rw[m] = row[m]
  BY <1>0, <1>3 DEF SetRow, Status
<1> HIDE DEF rw, q
<1>5. P \in SUBSET DOMAIN o /\ \A p \in P : rw[o[p].id] = row[o[p].id]
  BY <1>1, <1>3, <1>4 DEF Agrees
<1>6. \A m \in Msg : rw[m] = row[m] \/ rw[m] = "cancelled"
  BY <1>4
<1> HIDE DEF P
<1>7. StartOk(hrt, s, rw, given) /\ \A p \in P : \E j \in DOMAIN q : q[j] = o[p]
  BY ZenonT(40), <1>2, <1>4, <1>5, <1>6, PicksOk
<1>8. \A p \in DOMAIN o : p # i => p \in P
  BY <1>3 DEF P
<1> QED
  BY <1>2, <1>4, <1>6, <1>7, <1>8 DEF rw, q

LEMMA ClearOk ==
    ASSUME PromptInv, NEW drop \in SUBSET Msg, NEW fails \in 0..MaxFaults, ClearQueue(drop, fails),
           NEW q \in Seq(Item), Picks(q, state[hrt].queue, Remaining(drop))
    PROVE  /\ StartOk(hrt, [state[hrt] EXCEPT !.queue = q], ClearedRows(drop), given)
           /\ ClearedRows(drop) \in [Msg -> Status]
           /\ \A m \in Msg : ClearedRows(drop)[m] = IF m \in drop THEN "cancelled" ELSE row[m]
           /\ \A m \in drop : row[m] = "queued"
           /\ \A p \in DOMAIN state[hrt].queue : state[hrt].queue[p].id \notin drop =>
                 \E j \in DOMAIN q : q[j] = state[hrt].queue[p]
<1> DEFINE o == state[hrt].queue
           rw == ClearedRows(drop)
           P == Remaining(drop)
<1>0. /\ TypeInv /\ row \in [Msg -> Status] /\ hrt \in Runtime /\ state \in [Runtime -> States]
      /\ CurrentInv /\ QueueInv
  BY PromptParts
<1>1. pc = "command" /\ hrt = cur /\ Agrees(o, row) /\ SteeringIn(o) = {}
  BY <1>0, NotSteering DEF CurrentInv, QueueInv, ClearQueue, SteeringAt
<1>2. DOMAIN o = 1..Len(o) /\ \A p \in DOMAIN o : o[p].id \in Msg /\ o[p].status = "queued"
  BY <1>1, PromptParts DEF Item, SteeringIn
<1>3. rw \in [Msg -> Status] /\ \A m \in Msg : rw[m] = IF m \in drop THEN "cancelled" ELSE row[m]
  BY <1>0 DEF ClearedRows, Status
<1>4. P = {p \in DOMAIN o : o[p].id \notin drop}
  BY <1>2 DEF Remaining, Cleared, QueuedAt
<1>5. \A m \in drop : row[m] = "queued"
  <2>1. drop \subseteq {o[p].id : p \in QueuedAt(state[hrt])}
    BY DEF ClearQueue
  <2>2. \A p \in QueuedAt(state[hrt]) : p \in DOMAIN o /\ row[o[p].id] = "queued"
    BY <1>1, <1>2 DEF QueuedAt, Agrees
  <2> QED
    BY <2>1, <2>2
<1> HIDE DEF rw
<1>6. /\ \A m \in Msg : rw[m] = row[m] \/ rw[m] = "cancelled"
      /\ P \in SUBSET DOMAIN o /\ \A p \in P : rw[o[p].id] = row[o[p].id]
  BY <1>2, <1>3, <1>4
<1>6b. Picks(q, o, P)
  OBVIOUS
<1> HIDE DEF P
<1>7. StartOk(hrt, [state[hrt] EXCEPT !.queue = q], rw, given) /\ \A p \in P : \E j \in DOMAIN q : q[j] = o[p]
  BY <1>1, <1>3, <1>6, <1>6b, PicksOk
<1> QED
  BY <1>3, <1>4, <1>5, <1>7 DEF rw

\* The steps of a command.
LEMMA OnceStart ==
    ASSUME PromptInv, pc # "idle", NEW s \in States, NEW rw \in [Msg -> Status], NEW g \in [Msg -> Nat], NEW b \in Bounds,
           StartNextRemoteLocked(hrt, s, rw, g, b), StartOk(hrt, s, rw, g), pc' = "idle",
           UNCHANGED <<created, cur, rec, loaded>>, \A m \in Msg : row[m] # "none" => rw[m] # "none"
    PROVE  OnceInv'
<1>0. /\ CurrentInv /\ QueueInv /\ hrt \in Runtime /\ cur \in Nat /\ created \in Seq(Msg)
      /\ \A i \in DOMAIN created : created[i] \in Msg
  BY PromptParts
<1>1. hrt = cur /\ rec = "done" /\ ~(hrt > cur)
  BY <1>0 DEF CurrentInv
<1>2. created' \in Seq(Msg) /\ Distinct(created') /\ \A i \in DOMAIN created' : rw[created'[i]] # "none"
  BY <1>0 DEF QueueInv
<1> QED
  BY <1>0, <1>1, <1>2, StartKeeps

LEMMA OnceCommand ==
    ASSUME PromptInv, NEW i \in 1..Len(state[hrt].queue), CancelQueued(i)
    PROVE  OnceInv'
<1>0. row \in [Msg -> Status] /\ given \in [Msg -> Nat] /\ bounds \in Bounds /\ Late(row)
  BY PromptParts DEF Late
<1>1. UNCHANGED <<created, cur, rec, loaded>> /\ pc = "command" /\ pc' = "idle" /\ i \in QueuedAt(state[hrt])
  BY DEF CancelQueued, channel, Return
<1>2. CASE UNCHANGED <<row, state, given>>
  BY <1>0, <1>1, <1>2, QuietKeeps
<1>3. CASE StartNextRemoteLocked(hrt, [state[hrt] EXCEPT !.queue = RemoveAt(state[hrt].queue, i)],
                SetRow(row, state[hrt].queue[i].id, "cancelled"), given, bounds)
  <2> DEFINE s == [state[hrt] EXCEPT !.queue = RemoveAt(state[hrt].queue, i)]
             rw == SetRow(row, state[hrt].queue[i].id, "cancelled")
  <2>1. /\ s \in States /\ rw \in [Msg -> Status] /\ StartOk(hrt, s, rw, given)
        /\ \A m \in Msg : rw[m] = row[m] \/ rw[m] = "cancelled"
    BY <1>1, CancelOk
  <2>2. StartNextRemoteLocked(hrt, s, rw, given, bounds)
    BY <1>3
  <2> HIDE DEF s, rw
  <2>3. \A m \in Msg : row[m] # "none" => rw[m] # "none"
    BY <2>1
  <2> QED
    BY <1>0, <1>1, <2>1, <2>2, <2>3, OnceStart
<1> QED
  BY <1>2, <1>3 DEF CancelQueued

LEMMA OnceClear ==
    ASSUME PromptInv, NEW drop \in SUBSET Msg, NEW fails \in 0..MaxFaults, ClearQueue(drop, fails)
    PROVE  OnceInv'
<1>0. TypeOK /\ given \in [Msg -> Nat]
  BY PromptParts
<1>1. UNCHANGED <<created, cur, rec, loaded>> /\ pc = "command" /\ pc' = "idle"
  BY DEF ClearQueue, channel, Return
<1>2. PICK q \in Seq(Item), b \in Bounds :
          /\ [state[hrt] EXCEPT !.queue = q] \in States
          /\ Picks(q, state[hrt].queue, Remaining(drop))
          /\ StartNextRemoteLocked(hrt, [state[hrt] EXCEPT !.queue = q], ClearedRows(drop), given, b)
  BY <1>0, ClearStart
<1> DEFINE s == [state[hrt] EXCEPT !.queue = q]
           rw == ClearedRows(drop)
<1>3. /\ StartOk(hrt, s, rw, given) /\ rw \in [Msg -> Status]
      /\ \A m \in Msg : rw[m] = IF m \in drop THEN "cancelled" ELSE row[m]
  BY <1>2, ClearOk
<1>4. \A m \in Msg : row[m] # "none" => rw[m] # "none"
  BY <1>3
<1> HIDE DEF rw
<1> QED
  BY <1>0, <1>1, <1>2, <1>3, <1>4, OnceStart DEF rw

LEMMA OnceSteer ==
    ASSUME PromptInv, NEW i \in 1..Len(state[hrt].queue), Steer(i)
    PROVE  OnceInv'
<1>0. /\ TypeInv /\ TypeOK /\ GivenInv /\ ActiveInv /\ CurrentInv /\ QueueInv /\ row \in [Msg -> Status]
      /\ given \in [Msg -> Nat] /\ Late(row) /\ state \in [Runtime -> States] /\ hrt \in Runtime
  BY PromptParts DEF Late
<1>1. UNCHANGED <<created, cur, rec, loaded>> /\ pc = "command" /\ hrt' = hrt /\ i \in QueuedAt(state[hrt])
  BY DEF Steer, MaySteer, channel, Return
<1>2. CASE UNCHANGED <<row, state, given>> /\ pc' = "idle"
  BY <1>0, <1>1, <1>2, QuietKeeps
<1>3. CASE /\ state' = [state EXCEPT ![hrt].queue[i].status = "steering", ![hrt].steering = TRUE]
           /\ row' = SetRow(row, state[hrt].queue[i].id, "steering")
           /\ given' = Gave(given, state[hrt].queue[i].id) /\ pc' = "steer"
  <2> DEFINE o == state[hrt].queue
             z == state'[hrt].queue
             m == o[i].id
  <2>1. /\ \A r \in Runtime : r # hrt => state'[r] = state[r]
        /\ state'[hrt].active = state[hrt].active
        /\ DOMAIN z = DOMAIN o /\ z[i].status = "steering" /\ m \in Msg /\ z[i].id = m
        /\ \A j \in DOMAIN o : j # i => z[j] = o[j]
    BY <1>0, <1>1, <1>3, SteerBegins
  <2>2. hrt = cur /\ rec = "done" /\ Agrees(o, row)
    BY <1>0, <1>1 DEF CurrentInv, QueueInv
  <2>3. DOMAIN o = 1..Len(o) /\ i \in DOMAIN o /\ o[i].status = "queued" /\ \A j \in DOMAIN o : o[j].id \in Msg
    BY <1>1, <2>2, PromptParts DEF QueuedAt, Item
  <2>4. row[m] = "queued" /\ given[m] = 0
    BY <1>0, <2>1, <2>2, <2>3 DEF Agrees, GivenInv, NotGiven
  <2>5. row' = SetRow(row, m, "steering") /\ given' = Gave(given, m)
    BY <1>3
  <2> HIDE DEF m, z, o
  <2>6. /\ row'[m] = "steering" /\ given'[m] = 1
        /\ \A k \in Msg : k # m => row'[k] = row[k] /\ given'[k] = given[k]
    BY <1>0, <2>1, <2>4, <2>5 DEF SetRow, Gave
  <2>7. GivenInv'
    <3>1. \A k \in Msg : given[k] <= 1 /\ (row[k] \in NotGiven => given[k] = 0)
      BY <1>0 DEF GivenInv
    <3>2. "steering" \notin NotGiven
      BY DEF NotGiven
    <3> SUFFICES ASSUME NEW k \in Msg
                 PROVE  given'[k] <= 1 /\ (row'[k] \in NotGiven => given'[k] = 0)
      BY DEF GivenInv
    <3>3. CASE k = m
      BY <2>6, <3>2, <3>3
    <3>4. CASE k # m
      BY <2>6, <3>1, <3>4
    <3> QED
      BY <3>3, <3>4
  <2>8. ActiveInv'
    <3>1. ASSUME NEW r \in Runtime, IsActive(state'[r]) PROVE row'[state'[r].active.id] \notin Pending
      <4>1. state'[r].active = state[r].active /\ IsActive(state[r])
        BY <2>1, <3>1 DEF IsActive
      <4>2. state[r].active.id \in Msg /\ row[state[r].active.id] \notin Pending
        BY <1>0, <4>1, StateFields DEF ActiveInv
      <4> QED
        BY <2>4, <2>6, <4>1, <4>2 DEF Pending
    <3> QED
      BY Zenon, <1>3, <3>1 DEF ActiveInv
  <2>9. CurrentInv'
    <3>1. \A r \in Runtime : r > cur => state'[r] = state[r]
      BY <2>1, <2>2 DEF Runtime
    <3> QED
      BY <1>0, <1>1, <2>2, <3>1 DEF CurrentInv
  <2>10. Agrees(z, row')
    <3>1. \A j \in DOMAIN z : z[j].id = o[j].id
      BY <2>1 DEF m
    <3>2. \A j \in DOMAIN o : j # i => o[j].id # m
      BY <2>2, <2>3 DEF Agrees, m
    <3>3. \A j \in DOMAIN z : row'[z[j].id] = z[j].status
      BY <2>1, <2>2, <2>3, <2>6, <3>2 DEF Agrees
    <3> QED
      BY <2>1, <2>2, <3>1, <3>3 DEF Agrees
  <2>11. QueueInv'
    <3>1. \A j \in DOMAIN created : row'[created[j]] # "none"
      BY Zenon, <1>0, <2>6, PromptParts DEF QueueInv
    <3> QED
      BY <1>0, <1>1, <2>2, <2>10, <3>1 DEF QueueInv, z
  <2> QED
    BY Zenon, <2>7, <2>8, <2>9, <2>11 DEF OnceInv
<1> QED
  BY <1>2, <1>3 DEF Steer, Return

LEMMA OnceSteerReturns ==
    ASSUME PromptInv, NEW answer \in DOMAIN SteerStatus, SteerReturns(answer)
    PROVE  OnceInv'
<1>0. TypeInv /\ row \in [Msg -> Status] /\ given \in [Msg -> Nat] /\ bounds \in Bounds /\ Failed(bounds) \in Bounds
  BY PromptParts
<1>1. UNCHANGED <<created, cur, rec, loaded>> /\ pc = "steer" /\ pc' = "idle"
  BY Zenon DEF SteerReturns, channel, Return
<1>2. /\ Unsteered \in States /\ SteeredGiven(answer) \in [Msg -> Nat]
      /\ SetRow(row, SteeredTask, SteerStatus[answer]) \in [Msg -> Status]
      /\ SteerStatus[answer] \in {"steered", "queued", "steer_unknown"}
      /\ (answer = "rejected") <=> (SteerStatus[answer] = "queued")
  BY <1>0, <1>1, SteeredFact
<1> DEFINE q1 == [state[hrt].queue EXCEPT ![SteeredAt].status = "queued"]
           q2 == RemoveAt(state[hrt].queue, SteeredAt)
           s1 == [Unsteered EXCEPT !.queue = q1]
           s2 == [Unsteered EXCEPT !.queue = q2]
           rw1 == SetRow(row, SteeredTask, "queued")
           rw2 == SetRow(row, SteeredTask, SteerStatus[answer])
           g == SteeredGiven(answer)
<1>3. q1 \in Seq(Item) /\ q2 \in Seq(Item)
  BY <1>0, <1>1, RejectedQueue, RemovedQueue
<1>4. s1 \in States /\ s2 \in States
  BY <1>2, <1>3, SetQueue
<1>5. \/ answer = "rejected" /\ StartNextRemoteLocked(hrt, s1, rw1, g, bounds)
      \/ answer # "rejected" /\ StartNextRemoteLocked(hrt, s2, rw2, g, bounds)
      \/ StartNextRemoteLocked(hrt, s2, row, g, Failed(bounds))
  BY <1>0, SteerReturnsStart
<1>6. answer = "rejected" => StartOk(hrt, s1, rw1, g)
  BY <1>1, RejectedOk
<1>7. answer # "rejected" => StartOk(hrt, s2, rw2, g)
  <2>1. SteerStatus[answer] \in Status /\ (answer # "rejected" => SteerStatus[answer] \notin NotGiven)
    BY <1>2 DEF Status, NotGiven
  <2> QED
    BY <1>1, <2>1, SteeredOk
<1>8. StartOk(hrt, s2, row, g)
  <2>1. "steered" \in Status \ NotGiven
    BY DEF Status, NotGiven
  <2> QED
    BY <1>1, <2>1, SteeredOk
<1>9. rw1 \in [Msg -> Status] /\ \A m \in Msg : row[m] # "none" => rw1[m] # "none" /\ rw2[m] # "none"
  BY <1>0, <1>2 DEF SetRow, Status
<1> HIDE DEF q1, q2, s1, s2, rw1, g
<1>10. CASE answer = "rejected" /\ StartNextRemoteLocked(hrt, s1, rw1, g, bounds)
  BY <1>0, <1>1, <1>2, <1>4, <1>6, <1>9, <1>10, OnceStart DEF g
<1>11. CASE answer # "rejected" /\ StartNextRemoteLocked(hrt, s2, rw2, g, bounds)
  <2> HIDE DEF rw2
  <2>1. rw2 \in [Msg -> Status]
    BY <1>2 DEF rw2
  <2> QED
    BY <1>0, <1>1, <1>2, <1>4, <1>7, <1>9, <1>11, <2>1, OnceStart DEF g
<1>12. CASE StartNextRemoteLocked(hrt, s2, row, g, Failed(bounds))
  BY <1>0, <1>1, <1>2, <1>4, <1>8, <1>12, OnceStart DEF g
<1> QED
  BY <1>5, <1>10, <1>11, <1>12

\* The steps of the goroutines of a turn.
LEMMA OnceTurn ==
    ASSUME PromptInv, NEW r \in Runtime,
           AttachSession(r) \/ FinishRemoteTask(r) \/ EndDirectTurn(r) \/ DirectStartNext(r)
    PROVE  OnceInv'
<1>0. /\ TypeInv /\ TypeOK /\ ActiveInv /\ CurrentInv /\ row \in [Msg -> Status] /\ given \in [Msg -> Nat]
      /\ bounds \in Bounds /\ Failed(bounds) \in Bounds /\ Late(row) /\ created \in Seq(Msg)
  BY PromptParts DEF Late
<1>1. UNCHANGED <<created, cur, rec, loaded, pc, hrt, hmsg>>
  BY DEF AttachSession, FinishRemoteTask, EndDirectTurn, DirectStartNext, channel, handler, durable
<1>2. ~(r > cur)
  <2>1. IsActive(state[r]) \/ state[r].direct # "none"
    BY DEF AttachSession, FinishRemoteTask, EndDirectTurn, DirectStartNext
  <2> QED
    BY <1>0, <2>1, EmptyFields DEF CurrentInv
<1>3. ASSUME NEW s \in States, s.queue = state[r].queue, s.steering = state[r].steering,
             s.active = state[r].active \/ s.active = Idle, NEW rw \in [Msg -> Status], Late(rw), NEW b \in Bounds,
             StartNextRemoteLocked(r, s, rw, given, b)
      PROVE  OnceInv'
  <2>1. StartOk(r, s, rw, given)
    BY <1>3, LateOk
  <2>2. /\ pc = "takeover" => rw[hmsg] \notin Pending
        /\ pc \in {"admit", "enqueue"} => rw[hmsg] = "none"
        /\ rec = "load" => \A i \in DOMAIN loaded : rw[loaded[i]] = "queued"
        /\ Distinct(created) /\ \A i \in DOMAIN created : rw[created[i]] # "none"
    BY <1>3, LateWrites
  <2>3. rec' \in {"steering", "running", "select", "load"} /\ r = cur => s.queue = <<>>
    BY <1>0, <1>1, <1>3 DEF CurrentInv
  <2> QED
    BY <1>0, <1>1, <1>2, <1>3, <2>1, <2>2, <2>3, StartKeeps
<1>4. IsActive(state[r]) => state[r].active.id \in Msg /\ row[state[r].active.id] \notin Pending
  BY <1>0, Types, StateFields DEF ActiveInv
<1>5. CASE AttachSession(r)
  <2>1. "running" \in Status \ Pending
    BY DEF Status, Pending
  <2>2. Late(row') /\ row' \in [Msg -> Status] /\ given' = given
    BY <1>0, <1>4, <1>5, <2>1, LateRow DEF AttachSession
  <2>3. /\ QueuesKept /\ \A q \in Runtime : state'[q].active.id = state[q].active.id
        /\ \A q \in Runtime : q > cur => state'[q] = state[q]
    BY <1>0, <1>2, <1>5, TouchActive DEF AttachSession
  <2> QED
    BY <1>1, <2>2, <2>3, QuietKeeps
<1>6. CASE EndDirectTurn(r)
  <2>1. row' = row /\ given' = given
    BY <1>6 DEF EndDirectTurn, durable
  <2>2. /\ QueuesKept /\ \A q \in Runtime : state'[q].active.id = state[q].active.id
        /\ \A q \in Runtime : q > cur => state'[q] = state[q]
    BY <1>0, <1>2, <1>6, SetDirect DEF EndDirectTurn
  <2> QED
    BY <1>0, <1>1, <2>1, <2>2, QuietKeeps
<1>7. CASE FinishRemoteTask(r)
  <2>1. /\ Finished(r) \in States /\ Finished(r).queue = state[r].queue /\ Finished(r).active = Idle
        /\ Finished(r).steering = state[r].steering /\ IsActive(state[r])
    BY <1>0, <1>7, FinishStart
  <2>2. \A o \in {"interrupted", "succeeded", "failed"} : o \in Status \ Pending
    BY DEF Status, Pending
  <2>3. PICK rw \in [Msg -> Status], b \in Bounds : Late(rw) /\ StartNextRemoteLocked(r, Finished(r), rw, given, b)
    <3>1. CASE StartNextRemoteLocked(r, Finished(r), row, given, Failed(bounds))
      BY <1>0, <3>1
    <3>2. CASE \E o \in {"interrupted", "succeeded", "failed"} :
                  StartNextRemoteLocked(r, Finished(r), SetRow(row, state[r].active.id, o), given, bounds)
      <4>1. PICK o \in {"interrupted", "succeeded", "failed"} :
                  StartNextRemoteLocked(r, Finished(r), SetRow(row, state[r].active.id, o), given, bounds)
        BY <3>2
      <4>2. SetRow(row, state[r].active.id, o) \in [Msg -> Status] /\ Late(SetRow(row, state[r].active.id, o))
        BY <1>4, <2>1, <2>2, LateRow
      <4> QED
        BY <1>0, <4>1, <4>2
    <3> QED
      BY <1>0, <1>7, <3>1, <3>2, FinishStart
  <2> QED
    BY <1>3, <2>1, <2>3
<1>8. CASE DirectStartNext(r)
  <2>1. StartNextRemoteLocked(r, Undirected(r), row, given, bounds)
    BY <1>8 DEF DirectStartNext, Undirected
  <2> QED
    BY <1>0, <1>3, <2>1, DirectStart
<1> QED
  BY <1>5, <1>6, <1>7, <1>8

LEMMA OnceConsole ==
    ASSUME PromptInv, Stop \/ BeginDirectTurn
    PROVE  OnceInv'
<1>0. TypeOK /\ cur \in Runtime /\ cur \in Nat /\ row \in [Msg -> Status] /\ Late(row)
  BY PromptParts DEF Late
<1>1. UNCHANGED <<row, created, cur, rec, loaded, pc, hrt, hmsg, given>>
  BY DEF Stop, BeginDirectTurn, channel, handler, durable
<1>2. /\ QueuesKept /\ state'[cur].active.id = state[cur].active.id /\ \A q \in Runtime : q # cur => state'[q] = state[q]
  BY <1>0, TouchActive, SetDirect DEF Stop, BeginDirectTurn
<1>3. (\A q \in Runtime : state'[q].active.id = state[q].active.id) /\ \A q \in Runtime : q > cur => state'[q] = state[q]
  BY <1>0, <1>2
<1> QED
  BY <1>0, <1>1, <1>2, <1>3, QuietKeeps

\* Detaching, dying, attaching and recovering.
LEMMA OnceRecover ==
    ASSUME ~HandlersOverlapAttach, PromptInv, Detach \/ Crash \/ AttachChannel \/ RecoverFails \/ Recover
    PROVE  OnceInv'
<1>0. /\ TypeInv /\ TypeOK /\ GivenInv /\ ActiveInv /\ CurrentInv /\ QueueInv /\ row \in [Msg -> Status]
      /\ given \in [Msg -> Nat] /\ bounds \in Bounds /\ state \in [Runtime -> States] /\ cur \in Runtime /\ cur \in Nat
      /\ created \in Seq(Msg) /\ (\A i \in DOMAIN created : created[i] \in Msg)
  BY PromptParts
<1> USE DEF durable, handler
<1>1. CASE Detach
  <2>1. UNCHANGED <<row, created, state, cur, loaded, pc, hrt, hmsg, given>> /\ pc = "idle" /\ rec' = "down"
    BY <1>1 DEF Detach
  <2> QED
    BY <1>0, <2>1 DEF OnceInv, GivenInv, ActiveInv, CurrentInv, QueueInv, IsActive
<1>2. CASE Crash
  <2>1. /\ UNCHANGED <<row, created, cur, given>> /\ pc' = "idle" /\ rec' = "down"
        /\ \A r \in Runtime : state'[r] = EmptyState
    BY <1>2 DEF Crash
  <2> QED
    BY <1>0, <2>1, EmptyFields DEF OnceInv, GivenInv, ActiveInv, CurrentInv, QueueInv
<1>3. CASE AttachChannel
  <2>1. /\ UNCHANGED <<row, created, state, loaded, pc, hrt, hmsg, given>> /\ rec = "down" /\ rec' = "steering"
        /\ cur' = cur + 1 /\ cur' \in Runtime
    BY <1>3 DEF AttachChannel
  <2>2. pc = "idle" /\ state[cur'] = EmptyState /\ \A r \in Runtime : r > cur' => r > cur
    BY <1>0, <2>1 DEF CurrentInv, Runtime
  <2>3. state[cur'].queue = <<>> /\ Agrees(<<>>, row)
    BY <2>2, EmptyFields DEF Agrees
  <2> QED
    BY <1>0, <2>1, <2>2, <2>3 DEF OnceInv, GivenInv, ActiveInv, CurrentInv, QueueInv, IsActive
<1>4. CASE RecoverFails
  <2>1. /\ UNCHANGED <<row, created, state, cur, loaded, pc, hrt, hmsg, given>> /\ rec' = "done"
        /\ rec \in {"steering", "running", "select"}
    BY <1>4 DEF RecoverFails
  <2> QED
    BY <1>0, <2>1 DEF OnceInv, GivenInv, ActiveInv, CurrentInv, QueueInv, IsActive
<1>5. CASE RecoverSteering \/ RecoverRunning
  <2>1. /\ UNCHANGED <<created, state, cur, loaded, pc, hrt, hmsg, given>> /\ rec \in {"steering", "running"}
        /\ rec' \in {"running", "select"}
        /\ row' = MarkRows("steering", "steer_unknown") \/ row' = MarkRows("running", "interrupted")
    BY <1>5 DEF RecoverSteering, RecoverRunning
  <2>2. \A m \in Msg : /\ row'[m] \in NotGiven => row[m] \in NotGiven
                       /\ row[m] \notin Pending => row'[m] \notin Pending
                       /\ row[m] # "none" => row'[m] # "none"
    BY <1>0, <2>1 DEF MarkRows, NotGiven, Pending
  <2>3. pc = "idle" /\ state[cur].queue = <<>>
    BY <1>0, <2>1 DEF CurrentInv
  <2>4. Agrees(<<>>, row')
    BY DEF Agrees
  <2>5. GivenInv'
    BY <1>0, <2>1, <2>2 DEF GivenInv
  <2>6. ActiveInv'
    <3>1. \A r \in Runtime : IsActive(state[r]) => row'[state[r].active.id] \notin Pending
      BY <1>0, <2>2, StateFields DEF ActiveInv
    <3> QED
      BY <2>1, <2>3, <3>1 DEF ActiveInv
  <2>7. CurrentInv' /\ QueueInv'
    BY <1>0, <2>1, <2>2, <2>3, <2>4 DEF CurrentInv, QueueInv
  <2> QED
    BY <2>5, <2>6, <2>7 DEF OnceInv
<1>6. CASE RecoverSelect
  <2> DEFINE P == {i \in 1..Len(created) : row[created[i]] = "queued"}
  <2>1. /\ UNCHANGED <<row, created, state, cur, pc, hrt, hmsg, given>> /\ rec = "select" /\ rec' = "load"
        /\ loaded' \in Kept(created, P)
    BY <1>6 DEF RecoverSelect
  <2>2. P \in SUBSET (1..Len(created)) /\ P \in SUBSET DOMAIN created /\ \A p \in P : row[created[p]] = "queued"
    BY <1>0
  <2> HIDE DEF P
  <2>3. Picks(loaded', created, P)
    BY <1>0, <2>1, <2>2, KeptPicks
  <2>4. PICK h \in [DOMAIN loaded' -> P] : /\ \A j \in DOMAIN loaded' : loaded'[j] = created[h[j]]
                                           /\ \A i, j \in DOMAIN loaded' : h[i] = h[j] => i = j
    BY <2>3 DEF Picks
  <2>5. \A j \in DOMAIN loaded' : h[j] \in P /\ h[j] \in DOMAIN created
    BY <2>2, <2>4
  <2>6. Distinct(loaded') /\ \A i \in DOMAIN loaded' : row[loaded'[i]] = "queued"
    BY <1>0, <2>2, <2>4, <2>5 DEF QueueInv, Distinct
  <2>7. pc = "idle" /\ state[cur].queue = <<>>
    BY <1>0, <2>1 DEF CurrentInv
  <2> QED
    BY <1>0, <2>1, <2>6, <2>7 DEF OnceInv, GivenInv, ActiveInv, CurrentInv, QueueInv, IsActive
<1>7. CASE RecoverLoad
  <2> DEFINE s == [state[cur] EXCEPT !.queue = state[cur].queue \o LoadedItems]
  <2>1. /\ StartNextRemoteLocked(cur, s, row, given, bounds) /\ rec = "load" /\ rec' = "done"
        /\ UNCHANGED <<created, cur, pc, hrt, hmsg>>
    BY <1>7 DEF RecoverLoad, LoadedItems
  <2>2. s \in States
    BY <1>0, LoadStart
  <2>3. StartOk(cur, s, row, given)
    BY <2>1, LoadOk
  <2> HIDE DEF s
  <2>4. pc' = "idle" /\ ~(cur > cur)
    BY <1>0, <2>1 DEF CurrentInv
  <2>5. created' \in Seq(Msg) /\ Distinct(created') /\ \A i \in DOMAIN created' : row[created'[i]] # "none"
    BY <1>0, <2>1 DEF QueueInv
  <2> QED
    BY <1>0, <2>1, <2>2, <2>3, <2>4, <2>5, StartKeeps
<1> QED
  BY <1>1, <1>2, <1>3, <1>4, <1>5, <1>6, <1>7 DEF Recover

LEMMA PromptInvInit == Init => PromptInv
<1> SUFFICES ASSUME Init PROVE PromptInv
  OBVIOUS
<1>1. TypeInv
  BY TypeInvInit
<1>2. /\ \A r \in Runtime : state[r] = EmptyState
      /\ cur \in Runtime /\ pc = "idle" /\ rec = "done" /\ created = <<>> /\ loaded = <<>>
      /\ \A m \in Msg : given[m] = 0
  BY DEF Init, Runtime
<1>3. Agrees(<<>>, row) /\ Distinct(<<>>)
  BY DEF Agrees, Distinct
<1>4. GivenInv /\ ActiveInv /\ CurrentInv
  BY <1>2, EmptyFields DEF GivenInv, ActiveInv, CurrentInv
<1>5. QueueInv
  BY <1>2, <1>3, EmptyFields DEF QueueInv
<1> QED
  BY <1>1, <1>4, <1>5 DEF PromptInv, OnceInv

LEMMA PromptInvStep ==
    ASSUME ~HandlersOverlapAttach
    PROVE  PromptInv /\ [Next]_vars => PromptInv'
<1> SUFFICES ASSUME PromptInv, [Next]_vars PROVE PromptInv'
  OBVIOUS
<1>1. TypeInv'
  BY TypeInvStep DEF PromptInv
<1>2. CASE Next
  <2>1. ASSUME NEW m \in Msg, Deliver(m) PROVE OnceInv'
    <3>1. UNCHANGED <<row, created, state, cur, rec, loaded, pc, hrt, hmsg, given>>
      BY <2>1 DEF Deliver, durable, channel, handler
    <3>2. Late(row) /\ row \in [Msg -> Status]
      BY PromptParts DEF Late
    <3> QED
      BY <3>1, <3>2, QuietKeeps
  <2>2. OnceInv'
    BY <1>2, <2>1, OnceHandler, OnceAdmit, OnceEnqueue, OnceCommand, OnceSteer, OnceClear, OnceSteerReturns,
       OnceTurn, OnceConsole, OnceRecover DEF Next
  <2> QED
    BY <1>1, <2>2 DEF PromptInv
<1>3. CASE UNCHANGED vars
  BY <1>1, <1>3 DEF vars, PromptInv, OnceInv, GivenInv, ActiveInv, CurrentInv, QueueInv, IsActive
<1> QED
  BY <1>2, <1>3

\* However often a message is delivered, whichever store calls fail, wherever
\* the daemon dies, a detached runtime lingers or a takeover writes a stale
\* row, the prompt of a message is handed to an agent at most once, provided
\* no handler is under way while the channel is detached and attached again.
THEOREM PromptsOnce ==
    ASSUME ~HandlersOverlapAttach
    PROVE  Spec => []PromptAtMostOnce
<1>1. PromptInv => PromptAtMostOnce
  BY DEF PromptInv, OnceInv, GivenInv, PromptAtMostOnce
<1> QED
  BY <1>1, PromptInvInit, PromptInvStep, PTL DEF Spec

-----------------------------------------------------------------------------
(* What waits is held.                                                     *)

InSeq(m, q) == \E i \in DOMAIN q : q[i] = m
InQueue(m, q) == \E i \in DOMAIN q : q[i].id = m

LEMMA HeldParts ==
    HeldInv <=>
      /\ \A m \in Msg : row[m] \in Waiting => InSeq(m, created)
      /\ bounds.faults = 0 =>
            /\ rec \in {"running", "select", "load"} => \A m \in Msg : row[m] # "steering"
            /\ rec = "load" => \A m \in Msg : row[m] = "queued" => InSeq(m, loaded)
            /\ rec = "done" => \A m \in Msg : row[m] \in Waiting => InQueue(m, state[cur].queue)
BY DEF HeldInv, InSeq, InQueue

LEMMA HeldPartsNext ==
    ASSUME \A m \in Msg : row'[m] \in Waiting => InSeq(m, created'),
           bounds'.faults = 0 =>
            /\ rec' \in {"running", "select", "load"} => \A m \in Msg : row'[m] # "steering"
            /\ rec' = "load" => \A m \in Msg : row'[m] = "queued" => InSeq(m, loaded')
            /\ rec' = "done" => \A m \in Msg : row'[m] \in Waiting => InQueue(m, state'[cur'].queue)
    PROVE  HeldInv'
BY DEF HeldInv, InSeq, InQueue

LEMMA HeldStart ==
    ASSUME PromptInv, NEW r \in Runtime, NEW s \in States, NEW rw \in [Msg -> Status],
           NEW g \in [Msg -> Nat], NEW b \in Bounds, StartNextRemoteLocked(r, s, rw, g, b), StartOk(r, s, rw, g),
           cur' = cur, \A m \in Msg : rw[m] \in Waiting => InSeq(m, created'),
           b.faults = 0 =>
             /\ rec' \in {"running", "select", "load"} => \A m \in Msg : rw[m] # "steering"
             /\ rec' = "load" => \A m \in Msg : rw[m] = "queued" => InSeq(m, loaded')
             /\ rec' = "done" /\ r = cur => \A m \in Msg : rw[m] \in Waiting => InQueue(m, s.queue)
             /\ rec' = "done" /\ r # cur => \A m \in Msg : rw[m] \in Waiting => InQueue(m, state[cur].queue)
    PROVE  HeldInv'
<1>0. TypeOK /\ state \in [Runtime -> States] /\ cur \in Runtime
  BY PromptParts
<1>1. /\ \A m \in Msg : row'[m] = rw[m] \/ (row'[m] = "running" /\ rw[m] = "queued")
      /\ \A q \in Runtime : q # r => state'[q] = state[q]
      /\ \A i \in DOMAIN s.queue : \/ row'[s.queue[i].id] \notin Waiting
                                   \/ \E j \in DOMAIN state'[r].queue : state'[r].queue[j] = s.queue[i]
  BY <1>0, PromptStart
<1>2. bounds' = b \/ bounds' = Failed(b)
  BY <1>0, StartFact
<1>3. bounds'.faults = 0 => b.faults = 0
  <2>1. Failed(b).faults = b.faults + 1 /\ b.faults \in Nat
    BY FailedType DEF Bounds
  <2> QED
    BY <1>2, <2>1
<1>4. \A m \in Msg : row'[m] \in Waiting => row'[m] = rw[m]
  BY <1>1 DEF Waiting
<1>5. \A m \in Msg : row'[m] \in Waiting => InSeq(m, created')
  BY <1>4
<1>6. ASSUME bounds'.faults = 0
      PROVE  /\ rec' \in {"running", "select", "load"} => \A m \in Msg : row'[m] # "steering"
             /\ rec' = "load" => \A m \in Msg : row'[m] = "queued" => InSeq(m, loaded')
  BY <1>1, <1>3, <1>6
<1>7. ASSUME bounds'.faults = 0, rec' = "done", NEW m \in Msg, row'[m] \in Waiting
      PROVE  InQueue(m, state'[cur'].queue)
  <2>0. b.faults = 0 /\ rw[m] \in Waiting
    BY <1>3, <1>4, <1>7
  <2>1. CASE r = cur
    <3>1. PICK i \in DOMAIN s.queue : s.queue[i].id = m
      BY <1>7, <2>0, <2>1 DEF InQueue
    <3>2. PICK j \in DOMAIN state'[r].queue : state'[r].queue[j] = s.queue[i]
      BY <1>1, <1>7, <3>1
    <3> QED
      BY <2>1, <3>1, <3>2 DEF InQueue
  <2>2. CASE r # cur
    BY <1>0, <1>1, <1>7, <2>0, <2>2
  <2> QED
    BY <2>1, <2>2
<1> QED
  BY <1>5, <1>6, <1>7, HeldPartsNext

\* Steps that start nothing and make nothing wait.
LEMMA HeldQuiet ==
    ASSUME PromptInv, HeldInv, \A m \in Msg : row'[m] \in Waiting => row'[m] = row[m],
           UNCHANGED <<created, cur, rec, loaded>>, state' = state \/ QueuesKept,
           bounds'.faults = 0 => bounds.faults = 0
    PROVE  HeldInv'
<1>0. cur \in Runtime
  BY PromptParts
<1>1. state'[cur'].queue = state[cur].queue
  BY <1>0 DEF QueuesKept
<1>2. \A m \in Msg : row'[m] \in Waiting => InSeq(m, created')
  BY HeldParts
<1>3. ASSUME bounds'.faults = 0
      PROVE  /\ rec' \in {"running", "select", "load"} => \A m \in Msg : row'[m] # "steering"
             /\ rec' = "load" => \A m \in Msg : row'[m] = "queued" => InSeq(m, loaded')
             /\ rec' = "done" => \A m \in Msg : row'[m] \in Waiting => InQueue(m, state'[cur'].queue)
  BY <1>1, <1>3, HeldParts DEF Waiting
<1> QED
  BY <1>2, <1>3, HeldPartsNext

LEMMA LateWaits ==
    ASSUME NEW rw, Late(rw)
    PROVE  \A m \in Msg : rw[m] \in Waiting => rw[m] = row[m]
BY DEF Late, Waiting, Pending

LEMMA FaultsGrow ==
    ASSUME TypeOK
    PROVE  /\ Failed(bounds).faults # 0 /\ bounds.faults \in Nat
           /\ [bounds EXCEPT !.crashes = @ + 1].faults = bounds.faults
           /\ [bounds EXCEPT !.reloads = @ + 1].faults = bounds.faults
           /\ [bounds EXCEPT !.directs = @ + 1].faults = bounds.faults
           /\ [bounds EXCEPT !.takeovers = @ + 1].faults = bounds.faults
<1>1. bounds \in Bounds
  BY Types
<1>2. bounds.faults \in Nat /\ Failed(bounds).faults = bounds.faults + 1
  BY <1>1, FailedType DEF Bounds
<1> QED
  BY <1>1, <1>2, BoundsTypes

LEMMA HeldSimple ==
    ASSUME PromptInv, HeldInv,
           HandleMessage \/ Command \/ Refuse \/ TakeOver \/ TakeOverWrite \/ Admit \/ Stop \/ BeginDirectTurn
    PROVE  HeldInv'
<1>0. /\ TypeInv /\ TypeOK /\ HandlerInv /\ ActiveInv /\ row \in [Msg -> Status] /\ Late(row) /\ cur \in Runtime
      /\ hrt \in Runtime
  BY PromptParts DEF Late
<1>1. UNCHANGED <<created, cur, rec, loaded>>
  BY DEF HandleMessage, Command, Refuse, TakeOver, TakeOverWrite, Admit, Stop, BeginDirectTurn, channel, durable
<1>2. bounds'.faults = 0 => bounds.faults = 0
  <2>1. \/ bounds' = bounds \/ bounds' = Failed(bounds) \/ bounds' = [bounds EXCEPT !.takeovers = @ + 1]
        \/ bounds' = [bounds EXCEPT !.directs = @ + 1]
    BY DEF HandleMessage, Command, Refuse, TakeOver, TakeOverWrite, Admit, Stop, BeginDirectTurn
  <2> QED
    BY <1>0, <2>1, FaultsGrow
<1>3. CASE HandleMessage \/ Command \/ Refuse \/ TakeOver
  <2>1. UNCHANGED <<row, state>>
    BY <1>3 DEF HandleMessage, Command, Refuse, TakeOver, durable
  <2> QED
    BY <1>1, <1>2, <2>1, HeldQuiet
<1>4. CASE TakeOverWrite
  <2>1. /\ pc = "takeover" /\ UNCHANGED state /\ (row' = row \/ row' = SetRow(row, hmsg, "running"))
    BY <1>4 DEF TakeOverWrite
  <2>2. hmsg \in Msg
    BY <1>0, <2>1 DEF HandlerInv
  <2>3. \A m \in Msg : row'[m] \in Waiting => row'[m] = row[m]
    BY <1>0, <2>1, <2>2 DEF SetRow, Waiting
  <2> QED
    BY <1>1, <1>2, <2>1, <2>3, HeldQuiet
<1>5. CASE Admit
  <2>1. CASE UNCHANGED <<row, state, given>>
    BY <1>1, <1>2, <2>1, HeldQuiet
  <2>2. CASE ~UNCHANGED <<row, state, given>>
    <3>1. QueuesKept /\ hmsg \in Msg /\ row' = [row EXCEPT ![hmsg] = "running"]
      BY <1>0, <1>5, <2>2, AdmitFact
    <3>2. \A m \in Msg : row'[m] \in Waiting => row'[m] = row[m]
      BY <1>0, <3>1 DEF Waiting
    <3> QED
      BY <1>1, <1>2, <3>1, <3>2, HeldQuiet
  <2> QED
    BY <2>1, <2>2
<1>6. CASE Stop \/ BeginDirectTurn
  <2>1. UNCHANGED row
    BY <1>6 DEF Stop, BeginDirectTurn, durable
  <2>2. QueuesKept
    BY <1>0, <1>6, TouchActive, SetDirect DEF Stop, BeginDirectTurn
  <2> QED
    BY <1>1, <1>2, <2>1, <2>2, HeldQuiet
<1> QED
  BY <1>3, <1>4, <1>5, <1>6

LEMMA HeldEnqueue ==
    ASSUME PromptInv, HeldInv, Enqueue
    PROVE  HeldInv'
<1>0. /\ TypeInv /\ TypeOK /\ CurrentInv /\ row \in [Msg -> Status]
      /\ given \in [Msg -> Nat] /\ bounds \in Bounds /\ hrt \in Runtime /\ created \in Seq(Msg)
  BY PromptParts
<1>1. UNCHANGED <<cur, rec, loaded>> /\ pc = "enqueue"
  BY DEF Enqueue, channel
<1>2. hrt = cur /\ rec = "done"
  BY <1>0, <1>1 DEF CurrentInv
<1>3. CASE UNCHANGED <<row, created, state>> /\ (bounds' = bounds \/ bounds' = Failed(bounds))
  BY <1>0, <1>1, <1>3, FaultsGrow, HeldQuiet
<1>4. CASE /\ created' = Append(created, hmsg)
           /\ StartNextRemoteLocked(hrt,
                [state[hrt] EXCEPT !.queue = Append(state[hrt].queue, NewItem(hmsg, state[hrt].active.id))],
                SetRow(row, hmsg, "queued"), given, bounds)
  <2> DEFINE o == state[hrt].queue
             q == Append(o, NewItem(hmsg, state[hrt].active.id))
             s == [state[hrt] EXCEPT !.queue = q]
             rw == SetRow(row, hmsg, "queued")
  <2>1. /\ s \in States /\ rw \in [Msg -> Status] /\ hmsg \in Msg /\ s.queue = q
        /\ \A i \in DOMAIN o : i \in DOMAIN q /\ q[i] = o[i]
        /\ Len(o) + 1 \in DOMAIN q /\ q[Len(o) + 1].id = hmsg
    BY <1>0, <1>1, EnqueueStart
  <2>2. StartOk(hrt, s, rw, given)
    BY <1>1, EnqueueOk
  <2>3. StartNextRemoteLocked(hrt, s, rw, given, bounds)
    BY <1>4
  <2>4. /\ DOMAIN created = 1..Len(created) /\ DOMAIN created' = 1..Len(created) + 1
        /\ Len(created) \in Nat /\ created'[Len(created) + 1] = hmsg
        /\ \A i \in 1..Len(created) : created'[i] = created[i]
    BY <1>0, <1>4, <2>1
  <2>5. \A m \in Msg : rw[m] \in Waiting => m = hmsg \/ row[m] \in Waiting
    BY <1>0 DEF SetRow
  <2> HIDE DEF s, rw, q, o
  <2>6. \A m \in Msg : InSeq(m, created) => InSeq(m, created')
    BY <2>4 DEF InSeq
  <2>7. InSeq(hmsg, created')
    BY <2>4 DEF InSeq
  <2>8. \A m \in Msg : rw[m] \in Waiting => InSeq(m, created')
    BY <2>5, <2>6, <2>7, HeldParts
  <2>9. (\A m \in Msg : InQueue(m, o) => InQueue(m, q)) /\ InQueue(hmsg, q)
    BY <2>1 DEF InQueue
  <2>10. bounds.faults = 0 => \A m \in Msg : rw[m] \in Waiting => InQueue(m, s.queue)
    BY <1>2, <2>1, <2>5, <2>9, HeldParts DEF o
  <2> QED
    BY <1>0, <1>1, <1>2, <2>1, <2>2, <2>3, <2>8, <2>10, HeldStart
<1> QED
  BY <1>3, <1>4 DEF Enqueue, durable

\* A command that starts from fewer waiting tasks.
LEMMA HeldCommand ==
    ASSUME PromptInv, HeldInv, pc # "idle", NEW s \in States, NEW rw \in [Msg -> Status], NEW g \in [Msg -> Nat],
           NEW b \in Bounds, StartNextRemoteLocked(hrt, s, rw, g, b), StartOk(hrt, s, rw, g),
           UNCHANGED <<created, cur, rec, loaded>>,
           \A m \in Msg : rw[m] \in Waiting => row[m] \in Waiting, b.faults = 0 => bounds.faults = 0,
           b.faults = 0 => \A i \in DOMAIN state[hrt].queue :
                 rw[state[hrt].queue[i].id] \in Waiting => InQueue(state[hrt].queue[i].id, s.queue)
    PROVE  HeldInv'
<1>0. hrt \in Runtime /\ CurrentInv
  BY PromptParts
<1>1. hrt = cur /\ rec = "done"
  BY <1>0 DEF CurrentInv
<1>2. \A m \in Msg : rw[m] \in Waiting => InSeq(m, created')
  BY HeldParts
<1>3. ASSUME b.faults = 0, NEW m \in Msg, rw[m] \in Waiting PROVE InQueue(m, s.queue)
  <2>1. InQueue(m, state[hrt].queue)
    BY <1>1, <1>3, HeldParts
  <2>2. PICK i \in DOMAIN state[hrt].queue : state[hrt].queue[i].id = m
    BY <2>1 DEF InQueue
  <2> QED
    BY <1>3, <2>2
<1> QED
  BY <1>0, <1>1, <1>2, <1>3, HeldStart

LEMMA HeldCancel ==
    ASSUME PromptInv, HeldInv, NEW i \in 1..Len(state[hrt].queue), CancelQueued(i)
    PROVE  HeldInv'
<1>0. TypeOK /\ row \in [Msg -> Status] /\ given \in [Msg -> Nat] /\ bounds \in Bounds
  BY PromptParts
<1>1. UNCHANGED <<created, cur, rec, loaded>> /\ pc = "command" /\ i \in QueuedAt(state[hrt])
  BY DEF CancelQueued, channel
<1>2. CASE UNCHANGED <<row, state>> /\ bounds' = Failed(bounds)
  BY <1>0, <1>1, <1>2, FaultsGrow, HeldQuiet
<1>3. CASE StartNextRemoteLocked(hrt, [state[hrt] EXCEPT !.queue = RemoveAt(state[hrt].queue, i)],
                SetRow(row, state[hrt].queue[i].id, "cancelled"), given, bounds)
  <2> DEFINE o == state[hrt].queue
             s == [state[hrt] EXCEPT !.queue = RemoveAt(o, i)]
             rw == SetRow(row, o[i].id, "cancelled")
  <2>1. /\ s \in States /\ rw \in [Msg -> Status] /\ StartOk(hrt, s, rw, given) /\ rw[o[i].id] = "cancelled"
        /\ \A m \in Msg : rw[m] = row[m] \/ rw[m] = "cancelled"
        /\ \A p \in DOMAIN o : p # i => \E j \in DOMAIN s.queue : s.queue[j] = o[p]
    BY <1>1, CancelOk
  <2>2. StartNextRemoteLocked(hrt, s, rw, given, bounds)
    BY <1>3
  <2> HIDE DEF s, rw
  <2>3. \A m \in Msg : rw[m] \in Waiting => row[m] \in Waiting
    BY <2>1 DEF Waiting
  <2>4. \A p \in DOMAIN o : rw[o[p].id] \in Waiting => InQueue(o[p].id, s.queue)
    BY <2>1 DEF Waiting, InQueue
  <2> QED
    BY <1>0, <1>1, <2>1, <2>2, <2>3, <2>4, HeldCommand
<1> QED
  BY <1>2, <1>3 DEF CancelQueued

LEMMA HeldClear ==
    ASSUME PromptInv, HeldInv, NEW drop \in SUBSET Msg, NEW fails \in 0..MaxFaults, ClearQueue(drop, fails)
    PROVE  HeldInv'
<1>0. TypeOK /\ given \in [Msg -> Nat] /\ bounds \in Bounds /\ bounds.faults \in Nat
  BY PromptParts, FaultsGrow
<1>1. UNCHANGED <<created, cur, rec, loaded>> /\ pc = "command"
  BY DEF ClearQueue, channel
<1>2. PICK q \in Seq(Item), b \in Bounds :
          /\ [state[hrt] EXCEPT !.queue = q] \in States /\ [state[hrt] EXCEPT !.queue = q].queue = q
          /\ Picks(q, state[hrt].queue, Remaining(drop)) /\ b.faults >= bounds.faults
          /\ StartNextRemoteLocked(hrt, [state[hrt] EXCEPT !.queue = q], ClearedRows(drop), given, b)
  BY <1>0, ClearStart
<1> DEFINE o == state[hrt].queue
           s == [state[hrt] EXCEPT !.queue = q]
           rw == ClearedRows(drop)
<1>3. /\ StartOk(hrt, s, rw, given) /\ rw \in [Msg -> Status]
      /\ \A m \in Msg : rw[m] = IF m \in drop THEN "cancelled" ELSE row[m]
      /\ \A p \in DOMAIN o : o[p].id \notin drop => \E j \in DOMAIN q : q[j] = o[p]
  BY <1>2, ClearOk
<1>4. s \in States /\ s.queue = q /\ StartNextRemoteLocked(hrt, s, rw, given, b)
  BY <1>2
<1>5. b.faults = 0 => bounds.faults = 0
  BY <1>0, <1>2
<1> HIDE DEF rw, s
<1>6. \A m \in Msg : rw[m] \in Waiting => row[m] \in Waiting /\ m \notin drop
  BY <1>3 DEF Waiting
<1>7. \A p \in DOMAIN o : rw[o[p].id] \in Waiting => InQueue(o[p].id, s.queue)
  <2> SUFFICES ASSUME NEW p \in DOMAIN o, rw[o[p].id] \in Waiting PROVE InQueue(o[p].id, s.queue)
    OBVIOUS
  <2>1. o[p].id \notin drop
    BY <1>3 DEF Waiting
  <2> QED
    BY <1>3, <1>4, <2>1 DEF InQueue
<1> QED
  BY <1>0, <1>1, <1>3, <1>4, <1>5, <1>6, <1>7, HeldCommand

LEMMA HeldSteer ==
    ASSUME PromptInv, HeldInv, NEW i \in 1..Len(state[hrt].queue), Steer(i)
    PROVE  HeldInv'
<1>0. TypeOK /\ CurrentInv /\ QueueInv /\ row \in [Msg -> Status] /\ hrt \in Runtime
  BY PromptParts
<1>1. UNCHANGED <<created, cur, rec, loaded>> /\ pc = "command" /\ i \in QueuedAt(state[hrt])
  BY DEF Steer, MaySteer, channel
<1>2. CASE UNCHANGED <<row, state>> /\ bounds' = Failed(bounds)
  BY Zenon, <1>0, <1>1, <1>2, FaultsGrow, HeldQuiet
<1>3. CASE /\ state' = [state EXCEPT ![hrt].queue[i].status = "steering", ![hrt].steering = TRUE]
           /\ row' = SetRow(row, state[hrt].queue[i].id, "steering") /\ bounds' = bounds
  <2> DEFINE o == state[hrt].queue
             z == state'[hrt].queue
             m == o[i].id
  <2>1. /\ DOMAIN z = DOMAIN o /\ m \in Msg /\ z[i].id = m /\ \A j \in DOMAIN o : j # i => z[j] = o[j]
    BY <1>0, <1>1, <1>3, SteerBegins
  <2>2. hrt = cur /\ rec = "done" /\ Agrees(o, row)
    BY <1>0, <1>1 DEF CurrentInv, QueueInv
  <2>3. i \in DOMAIN o /\ o[i].status = "queued"
    BY <1>1, <2>2, PromptParts DEF QueuedAt
  <2>4. row[m] = "queued" /\ row' = SetRow(row, m, "steering")
    BY <1>3, <2>2, <2>3 DEF Agrees
  <2> HIDE DEF m
  <2>5. \A k \in Msg : row'[k] \in Waiting => row[k] \in Waiting
    BY <1>0, <2>1, <2>4 DEF SetRow, Waiting
  <2> HIDE DEF o, z
  <2>6. \A k \in Msg : InQueue(k, o) => InQueue(k, z)
    BY <2>1 DEF InQueue, m
  <2>7. \A k \in Msg : row'[k] \in Waiting => InSeq(k, created')
    BY <1>1, <2>5, HeldParts
  <2>8. bounds'.faults = 0 => \A k \in Msg : row'[k] \in Waiting => InQueue(k, state'[cur'].queue)
    BY <1>1, <1>3, <2>2, <2>5, <2>6, HeldParts DEF o, z
  <2> QED
    BY <1>1, <2>2, <2>7, <2>8, HeldPartsNext
<1> QED
  BY <1>2, <1>3 DEF Steer

LEMMA HeldSteerReturns ==
    ASSUME PromptInv, HeldInv, NEW answer \in DOMAIN SteerStatus, SteerReturns(answer)
    PROVE  HeldInv'
<1>0. /\ TypeInv /\ TypeOK /\ row \in [Msg -> Status] /\ given \in [Msg -> Nat] /\ bounds \in Bounds
      /\ Failed(bounds) \in Bounds
  BY PromptParts
<1>1. UNCHANGED <<created, cur, rec, loaded>> /\ pc = "steer"
  BY Zenon DEF SteerReturns, channel
<1>2. /\ Unsteered \in States /\ SteeredGiven(answer) \in [Msg -> Nat]
      /\ SetRow(row, SteeredTask, SteerStatus[answer]) \in [Msg -> Status]
      /\ SteerStatus[answer] \in {"steered", "queued", "steer_unknown"}
      /\ (answer = "rejected") <=> (SteerStatus[answer] = "queued")
  BY <1>0, <1>1, SteeredFact
<1> DEFINE o == state[hrt].queue
           q1 == [o EXCEPT ![SteeredAt].status = "queued"]
           q2 == RemoveAt(o, SteeredAt)
           s1 == [Unsteered EXCEPT !.queue = q1]
           s2 == [Unsteered EXCEPT !.queue = q2]
           t == SteeredTask
           rw1 == SetRow(row, t, "queued")
           rw2 == SetRow(row, t, SteerStatus[answer])
           g == SteeredGiven(answer)
<1>3. q1 \in Seq(Item) /\ q2 \in Seq(Item)
  BY <1>0, <1>1, RejectedQueue, RemovedQueue
<1>4. s1 \in States /\ s2 \in States
  BY <1>2, <1>3, SetQueue
<1>5. \/ answer = "rejected" /\ StartNextRemoteLocked(hrt, s1, rw1, g, bounds)
      \/ answer # "rejected" /\ StartNextRemoteLocked(hrt, s2, rw2, g, bounds)
      \/ StartNextRemoteLocked(hrt, s2, row, g, Failed(bounds))
  BY <1>0, SteerReturnsStart
<1>6. answer = "rejected" => /\ StartOk(hrt, s1, rw1, g) /\ s1.queue = q1
                             /\ \A i \in DOMAIN o : i \in DOMAIN q1 /\ q1[i].id = o[i].id
  BY <1>1, RejectedOk
<1>7. answer # "rejected" => /\ StartOk(hrt, s2, rw2, g) /\ s2.queue = q2
                             /\ \A i \in DOMAIN o : i # SteeredAt => \E j \in DOMAIN q2 : q2[j] = o[i]
  <2>1. SteerStatus[answer] \in Status /\ (answer # "rejected" => SteerStatus[answer] \notin NotGiven)
    BY <1>2 DEF Status, NotGiven
  <2> QED
    BY <1>1, <2>1, SteeredOk
<1>8. StartOk(hrt, s2, row, g)
  <2>1. "steered" \in Status \ NotGiven
    BY DEF Status, NotGiven
  <2> QED
    BY <1>1, <2>1, SteeredOk
<1>9. rw1 \in [Msg -> Status]
  BY <1>0 DEF SetRow, Status
<1>10. t \in Msg /\ row[t] = "steering" /\ SteeredAt \in DOMAIN o /\ o[SteeredAt].id = t
  BY <1>1, SteerStands
<1>11. /\ \A m \in Msg : rw1[m] \in Waiting => row[m] \in Waiting
       /\ answer # "rejected" => rw2[t] \notin Waiting /\ \A m \in Msg : rw2[m] \in Waiting => row[m] \in Waiting
  BY <1>0, <1>2, <1>10 DEF SetRow, Waiting
<1> HIDE DEF o, q1, q2, s1, s2, rw1, t, g
<1>12. CASE answer = "rejected" /\ StartNextRemoteLocked(hrt, s1, rw1, g, bounds)
  <2>1. \A i \in DOMAIN o : InQueue(o[i].id, s1.queue)
    BY <1>6, <1>12 DEF InQueue
  <2>2. g \in [Msg -> Nat]
    BY <1>2 DEF g
  <2> QED
    BY <1>0, <1>1, <1>4, <1>6, <1>9, <1>11, <1>12, <2>1, <2>2, HeldCommand DEF o
<1>13. CASE answer # "rejected" /\ StartNextRemoteLocked(hrt, s2, rw2, g, bounds)
  <2>1. rw2 \in [Msg -> Status] /\ g \in [Msg -> Nat]
    BY <1>2 DEF t, g
  <2> HIDE DEF rw2
  <2>2. \A i \in DOMAIN o : rw2[o[i].id] \in Waiting => InQueue(o[i].id, s2.queue)
    BY <1>7, <1>10, <1>11, <1>13 DEF InQueue
  <2> QED
    BY <1>0, <1>1, <1>4, <1>7, <1>11, <1>13, <2>1, <2>2, HeldCommand DEF o
<1>14. CASE StartNextRemoteLocked(hrt, s2, row, g, Failed(bounds))
  <2>1. g \in [Msg -> Nat] /\ Failed(bounds).faults # 0
    BY <1>0, <1>2, FaultsGrow DEF g
  <2> QED
    BY <1>0, <1>1, <1>4, <1>8, <1>14, <2>1, HeldCommand
<1> QED
  BY <1>5, <1>12, <1>13, <1>14

LEMMA HeldTurn ==
    ASSUME PromptInv, HeldInv, NEW r \in Runtime,
           AttachSession(r) \/ FinishRemoteTask(r) \/ EndDirectTurn(r) \/ DirectStartNext(r)
    PROVE  HeldInv'
<1>0. /\ TypeOK /\ ActiveInv /\ row \in [Msg -> Status] /\ given \in [Msg -> Nat]
      /\ bounds \in Bounds /\ Failed(bounds) \in Bounds /\ Failed(bounds).faults # 0 /\ Late(row)
  BY PromptParts, FaultsGrow DEF Late
<1>1. UNCHANGED <<created, cur, rec, loaded>>
  BY DEF AttachSession, FinishRemoteTask, EndDirectTurn, DirectStartNext, channel, durable
<1>2. IsActive(state[r]) => state[r].active.id \in Msg /\ row[state[r].active.id] \notin Pending
  BY <1>0, Types, StateFields DEF ActiveInv
<1>3. ASSUME NEW s \in States, s.queue = state[r].queue, s.steering = state[r].steering,
             s.active = state[r].active \/ s.active = Idle, NEW rw \in [Msg -> Status], Late(rw), NEW b \in Bounds,
             b.faults = 0 => bounds.faults = 0, StartNextRemoteLocked(r, s, rw, given, b)
      PROVE  HeldInv'
  <2>1. StartOk(r, s, rw, given)
    BY <1>3, LateOk
  <2>2. \A m \in Msg : rw[m] \in Waiting => rw[m] = row[m]
    BY <1>3, LateWaits
  <2>3. \A m \in Msg : rw[m] \in Waiting => InSeq(m, created')
    BY <1>1, <2>2, HeldParts
  <2>4. ASSUME b.faults = 0
        PROVE  /\ rec' \in {"running", "select", "load"} => \A m \in Msg : rw[m] # "steering"
               /\ rec' = "load" => \A m \in Msg : rw[m] = "queued" => InSeq(m, loaded')
               /\ rec' = "done" => \A m \in Msg : rw[m] \in Waiting => InQueue(m, state[cur].queue)
    BY <1>1, <1>3, <2>2, <2>4, HeldParts DEF Waiting
  <2> QED
    BY <1>0, <1>1, <1>3, <2>1, <2>3, <2>4, HeldStart
<1>4. CASE AttachSession(r)
  <2>1. "running" \in Status \ Pending
    BY DEF Status, Pending
  <2>2. Late(row') /\ (bounds' = bounds \/ bounds' = Failed(bounds))
    BY <1>0, <1>2, <1>4, <2>1, LateRow DEF AttachSession
  <2>3. QueuesKept
    BY <1>0, <1>4, TouchActive DEF AttachSession
  <2>4. \A m \in Msg : row'[m] \in Waiting => row'[m] = row[m]
    BY <2>2, LateWaits
  <2> QED
    BY <1>0, <1>1, <2>2, <2>3, <2>4, HeldQuiet
<1>5. CASE EndDirectTurn(r)
  <2>1. UNCHANGED <<row, bounds>>
    BY <1>5 DEF EndDirectTurn, durable
  <2>2. QueuesKept
    BY <1>0, <1>5, SetDirect DEF EndDirectTurn
  <2> QED
    BY <1>1, <2>1, <2>2, HeldQuiet
<1>6. CASE FinishRemoteTask(r)
  <2>1. /\ Finished(r) \in States /\ Finished(r).queue = state[r].queue /\ Finished(r).active = Idle
        /\ Finished(r).steering = state[r].steering /\ IsActive(state[r])
    BY <1>0, <1>6, FinishStart
  <2>2. \A o \in {"interrupted", "succeeded", "failed"} : o \in Status \ Pending
    BY DEF Status, Pending
  <2>3. CASE StartNextRemoteLocked(r, Finished(r), row, given, Failed(bounds))
    BY <1>0, <1>3, <2>1, <2>3
  <2>4. CASE \E o \in {"interrupted", "succeeded", "failed"} :
                StartNextRemoteLocked(r, Finished(r), SetRow(row, state[r].active.id, o), given, bounds)
    <3>1. PICK o \in {"interrupted", "succeeded", "failed"} :
                StartNextRemoteLocked(r, Finished(r), SetRow(row, state[r].active.id, o), given, bounds)
      BY <2>4
    <3>2. SetRow(row, state[r].active.id, o) \in [Msg -> Status] /\ Late(SetRow(row, state[r].active.id, o))
      BY <1>2, <2>1, <2>2, LateRow
    <3> QED
      BY <1>0, <1>3, <2>1, <3>1, <3>2
  <2> QED
    BY <1>0, <1>6, <2>3, <2>4, FinishStart
<1>7. CASE DirectStartNext(r)
  <2>1. StartNextRemoteLocked(r, Undirected(r), row, given, bounds)
    BY <1>7 DEF DirectStartNext, Undirected
  <2> QED
    BY <1>0, <1>3, <2>1, DirectStart
<1> QED
  BY <1>4, <1>5, <1>6, <1>7

LEMMA HeldRecover ==
    ASSUME PromptInv, HeldInv, Detach \/ Crash \/ AttachChannel \/ RecoverFails \/ Recover
    PROVE  HeldInv'
<1>0. /\ TypeOK /\ CurrentInv /\ row \in [Msg -> Status] /\ given \in [Msg -> Nat] /\ bounds \in Bounds
      /\ cur \in Runtime /\ created \in Seq(Msg) /\ DOMAIN created = 1..Len(created)
  BY PromptParts
<1>h. \A m \in Msg : row[m] \in Waiting => InSeq(m, created)
  BY HeldParts
<1> USE DEF durable
<1>1. CASE Detach \/ Crash \/ AttachChannel
  <2>1. UNCHANGED <<row, created>> /\ rec' \in {"down", "steering"}
    BY <1>1 DEF Detach, Crash, AttachChannel
  <2> QED
    BY <1>h, <2>1, HeldPartsNext
<1>2. CASE RecoverFails
  <2>1. UNCHANGED <<row, created>> /\ bounds'.faults # 0
    BY <1>0, <1>2, FaultsGrow DEF RecoverFails
  <2> QED
    BY <1>h, <2>1, HeldPartsNext
<1>3. CASE RecoverSteering \/ RecoverRunning
  <2>1. /\ UNCHANGED <<created, bounds>>
        /\ \/ rec' = "running" /\ row' = MarkRows("steering", "steer_unknown")
           \/ rec = "running" /\ rec' = "select" /\ row' = MarkRows("running", "interrupted")
    BY <1>3 DEF RecoverSteering, RecoverRunning
  <2>2. \A m \in Msg : row'[m] \in Waiting => row'[m] = row[m]
    BY <1>0, <2>1 DEF MarkRows, Waiting
  <2>3. bounds'.faults = 0 => \A m \in Msg : row'[m] # "steering"
    BY <1>0, <2>1, HeldParts DEF MarkRows
  <2> QED
    BY <1>h, <2>1, <2>2, <2>3, HeldPartsNext
<1>4. CASE RecoverSelect
  <2> DEFINE P == {i \in 1..Len(created) : row[created[i]] = "queued"}
  <2>1. /\ UNCHANGED <<row, created, bounds>> /\ rec = "select" /\ rec' = "load" /\ loaded' \in Kept(created, P)
    BY <1>4 DEF RecoverSelect
  <2>2. P \in SUBSET (1..Len(created)) /\ \A i \in DOMAIN created : row[created[i]] = "queued" => i \in P
    BY <1>0
  <2> HIDE DEF P
  <2>3. Picks(loaded', created, P)
    BY <1>0, <2>1, <2>2, KeptPicks
  <2>4. \A p \in P : \E j \in DOMAIN loaded' : loaded'[j] = created[p]
    BY <2>3, PicksElements
  <2>5. ASSUME NEW m \in Msg, row[m] = "queued" PROVE InSeq(m, loaded')
    <3>1. PICK i \in DOMAIN created : created[i] = m
      BY <1>h, <2>5 DEF InSeq, Waiting
    <3> QED
      BY <2>2, <2>4, <2>5, <3>1 DEF InSeq
  <2> QED
    BY <1>h, <2>1, <2>5, HeldParts, HeldPartsNext
<1>5. CASE RecoverLoad
  <2> DEFINE q == state[cur].queue \o LoadedItems
             s == [state[cur] EXCEPT !.queue = q]
  <2>1. /\ StartNextRemoteLocked(cur, s, row, given, bounds) /\ rec = "load" /\ rec' = "done"
        /\ UNCHANGED <<created, cur>>
    BY <1>5 DEF RecoverLoad, LoadedItems
  <2>2. s \in States
    BY <1>0, LoadStart
  <2>3. StartOk(cur, s, row, given) /\ s.queue = q /\ DOMAIN q = DOMAIN loaded /\ \A i \in DOMAIN loaded : q[i].id = loaded[i]
    BY <2>1, LoadOk
  <2> HIDE DEF s, q
  <2>4. bounds.faults = 0 => \A m \in Msg : row[m] \in Waiting => InQueue(m, s.queue)
    <3> SUFFICES ASSUME bounds.faults = 0, NEW m \in Msg, row[m] \in Waiting PROVE InQueue(m, s.queue)
      OBVIOUS
    <3>1. InSeq(m, loaded)
      BY <2>1, HeldParts DEF Waiting
    <3> QED
      BY <2>3, <3>1 DEF InSeq, InQueue
  <2> QED
    BY <1>0, <1>h, <2>1, <2>2, <2>3, <2>4, HeldStart
<1> QED
  BY <1>1, <1>2, <1>3, <1>4, <1>5 DEF Recover

LEMMA HeldInvInit == Init => HeldInv
<1> SUFFICES ASSUME Init PROVE HeldInv
  OBVIOUS
<1>1. \A m \in Msg : row[m] = "none"
  BY DEF Init
<1> QED
  BY <1>1 DEF HeldInv, Waiting

LEMMA HeldInvStep == PromptInv /\ HeldInv /\ [Next]_vars => HeldInv'
<1> SUFFICES ASSUME PromptInv, HeldInv, [Next]_vars PROVE HeldInv'
  OBVIOUS
<1>1. CASE Next
  <2>1. ASSUME NEW m \in Msg, Deliver(m) PROVE HeldInv'
    <3>1. UNCHANGED <<row, created, state, cur, rec, loaded, bounds>>
      BY <2>1 DEF Deliver, durable, channel
    <3> QED
      BY <3>1, HeldQuiet
  <2> QED
    BY <1>1, <2>1, HeldSimple, HeldEnqueue, HeldCancel, HeldSteer, HeldClear, HeldSteerReturns, HeldTurn,
       HeldRecover DEF Next
<1>2. CASE UNCHANGED vars
  BY <1>2 DEF vars, HeldInv
<1> QED
  BY <1>1, <1>2

\* As long as no store call has failed, every row that waits is held by the
\* channel that has recovered: exactly one item of its queue has the task and
\* its status, so what the store calls waiting is what will be started, over
\* crashes, reattachments, rejected steers, cancellations and clears.
THEOREM WaitingHeld ==
    ASSUME ~HandlersOverlapAttach
    PROVE  Spec => []WaitingRowsAreHeld
<1>1. PromptInv /\ HeldInv => WaitingRowsAreHeld
  <2> SUFFICES ASSUME PromptInv, HeldInv, rec = "done", bounds.faults = 0, NEW m \in Msg,
                      row[m] \in {"queued", "steering"}
               PROVE  Cardinality({i \in 1..Len(state[cur].queue) :
                         state[cur].queue[i].id = m /\ state[cur].queue[i].status = row[m]}) = 1
    BY DEF WaitingRowsAreHeld
  <2> DEFINE q == state[cur].queue
             S == {i \in 1..Len(q) : q[i].id = m /\ q[i].status = row[m]}
  <2>1. DOMAIN q = 1..Len(q) /\ Agrees(q, row)
    BY PromptParts DEF QueueInv
  <2>2. PICK i \in DOMAIN q : q[i].id = m
    BY HeldParts DEF InQueue, Waiting
  <2>3. S = {i}
    BY <2>1, <2>2 DEF Agrees
  <2> HIDE DEF S
  <2>4. Cardinality(S) = 1
    BY <2>3, FS_Singleton
  <2> QED
    BY <2>4 DEF S
<1> QED
  BY <1>1, PromptInvInit, PromptInvStep, HeldInvInit, HeldInvStep, PTL DEF Spec

-----------------------------------------------------------------------------
(* Tasks start in the order of their creation.                             *)

InOrder(m, u, c) == \E i, j \in 1..Len(c) : i < j /\ c[i] = m /\ c[j] = u
Ordered(q, c) == \A i, j \in DOMAIN q : i < j => InOrder(q[i].id, q[j].id, c)

\* The queue of a live runtime, and what recovery has read for it, are in the
\* order in which the rows were created.
OrderInv ==
    /\ rec # "down" => Ordered(state[cur].queue, created)
    /\ rec = "load" => \A i, j \in DOMAIN loaded : i < j => InOrder(loaded[i], loaded[j], created)

StartStep ==
    \A m \in Msg : (bounds'.faults = 0 /\ row'[m] = "running" /\ given'[m] > given[m]) =>
        \A u \in Msg \ {m} : row'[u] \in {"queued", "steering"} => Before(m, u)'

LEMMA PicksOrdered ==
    ASSUME NEW q, NEW z, NEW P \in SUBSET DOMAIN q, Picks(z, q, P), NEW c, Ordered(q, c)
    PROVE  Ordered(z, c)
<1>1. PICK h \in [DOMAIN z -> P] : /\ \A j \in DOMAIN z : z[j] = q[h[j]]
                                   /\ \A i, j \in DOMAIN z : i < j => h[i] < h[j]
  BY DEF Picks
<1>2. \A j \in DOMAIN z : h[j] \in DOMAIN q
  BY <1>1
<1> QED
  BY <1>1, <1>2 DEF Ordered

LEMMA OrderStart ==
    ASSUME PromptInv, HeldInv', NEW r \in Runtime, NEW s \in States, NEW rw \in [Msg -> Status],
           NEW g \in [Msg -> Nat], NEW b \in Bounds, StartNextRemoteLocked(r, s, rw, g, b), StartOk(r, s, rw, g),
           cur' = cur, \A m \in Msg : g[m] <= given[m], rec' = rec \/ (rec # "down" /\ rec' = "done"),
           rec' \in {"steering", "running", "select", "load"} /\ r = cur => s.queue = <<>>,
           rec' = "load" => OrderInv /\ UNCHANGED <<created, loaded>>,
           rec # "down" /\ r = cur => Ordered(s.queue, created'),
           rec # "down" /\ r # cur => Ordered(state[cur].queue, created')
    PROVE  OrderInv' /\ StartStep
<1>0. /\ TypeOK /\ state \in [Runtime -> States] /\ cur \in Runtime /\ given \in [Msg -> Nat]
      /\ rec \in {"down", "steering", "running", "select", "load", "done"}
  BY PromptParts DEF TypeOK
<1>1. /\ \A q \in Runtime : q # r => state'[q] = state[q]
      /\ LeftAs(r, s, rw, g) \/ Started(r, s, rw, g)
  BY <1>0, StartFact
<1>2. rec' = "load" => \A i, j \in DOMAIN loaded' : i < j => InOrder(loaded'[i], loaded'[j], created')
  BY DEF OrderInv
<1>3. CASE LeftAs(r, s, rw, g)
  <2>1. state'[r] = s /\ given' = g
    BY <1>3 DEF LeftAs
  <2>2. rec' # "down" => Ordered(state'[cur'].queue, created')
    <3>1. CASE r = cur
      BY <2>1, <3>1
    <3>2. CASE r # cur
      BY <1>0, <1>1, <3>2
    <3> QED
      BY <3>1, <3>2
  <2>3. \A m \in Msg : ~(given'[m] > given[m])
    BY <1>0, <2>1
  <2> QED
    BY <1>2, <2>2, <2>3 DEF OrderInv, StartStep
<1>4. CASE Started(r, s, rw, g)
  <2> DEFINE q == s.queue
             k == q[1].id
             z == Tail(q)
             P == (1..Len(q)) \ {1}
  <2>1. /\ r = cur /\ rec # "down" /\ q # <<>> /\ k \in Msg /\ state'[r].queue = z
        /\ given' = [g EXCEPT ![k] = g[k] + 1]
    BY <1>4 DEF Started, MayStart, Closed
  <2>2. q \in Seq(Item) /\ DOMAIN q = 1..Len(q) /\ Ordered(q, created')
    BY <2>1, StateFields
  <2>3. rec' = "done"
    BY <1>0, <2>1
  <2> HIDE DEF q
  <2>4. 1 \in DOMAIN q /\ Picks(z, q, P)
    BY <2>1, <2>2, TailPicks
  <2>5. P \in SUBSET DOMAIN q /\ \A p \in P : p \in DOMAIN q /\ 1 < p
    BY <2>2
  <2>6. \A m \in Msg : given'[m] > given[m] => m = k
    BY <1>0, <2>1
  <2> HIDE DEF z, P, k
  <2>7. Ordered(z, created')
    BY <2>2, <2>4, <2>5, PicksOrdered
  <2>8. \A j \in DOMAIN z : \E p \in P : z[j] = q[p]
    BY <2>4, PicksElements
  <2>9. \A j \in DOMAIN z : InOrder(k, z[j].id, created')
    BY <2>2, <2>4, <2>5, <2>8 DEF Ordered, k
  <2>10. ASSUME bounds'.faults = 0, NEW u \in Msg, row'[u] \in Waiting PROVE InOrder(k, u, created')
    <3>1. \E j \in DOMAIN state'[cur'].queue : state'[cur'].queue[j].id = u
      BY <2>3, <2>10 DEF HeldInv
    <3>2. PICK j \in DOMAIN z : z[j].id = u
      BY <2>1, <3>1
    <3> QED
      BY <2>9, <3>2
  <2>11. StartStep
    BY <2>6, <2>10 DEF StartStep, Waiting, Before, InOrder
  <2> QED
    BY <1>2, <2>1, <2>7, <2>11 DEF OrderInv
<1> QED
  BY <1>1, <1>3, <1>4

LEMMA OrderQuiet ==
    ASSUME PromptInv, OrderInv, UNCHANGED <<created, cur, rec, loaded>>, state' = state \/ QueuesKept
    PROVE  OrderInv'
<1>1. state'[cur'].queue = state[cur].queue
  BY PromptParts DEF QueuesKept
<1> QED
  BY <1>1 DEF OrderInv

LEMMA GaveNothing ==
    ASSUME PromptInv, given' = given
    PROVE  StartStep
<1>1. \A m \in Msg : ~(given'[m] > given[m])
  BY PromptParts
<1> QED
  BY <1>1 DEF StartStep

LEMMA OrderSimple ==
    ASSUME PromptInv, OrderInv, HeldInv',
           HandleMessage \/ Command \/ Refuse \/ TakeOver \/ TakeOverWrite \/ Admit \/ Stop \/ BeginDirectTurn
    PROVE  OrderInv' /\ StartStep
<1>0. TypeInv /\ TypeOK /\ CurrentInv /\ cur \in Runtime /\ given \in [Msg -> Nat]
  BY PromptParts
<1>1. UNCHANGED <<created, cur, rec, loaded>>
  BY DEF HandleMessage, Command, Refuse, TakeOver, TakeOverWrite, Admit, Stop, BeginDirectTurn, channel, durable
<1>2. CASE HandleMessage \/ Command \/ Refuse \/ TakeOver \/ TakeOverWrite
  <2>1. UNCHANGED <<state, given>>
    BY <1>2 DEF HandleMessage, Command, Refuse, TakeOver, TakeOverWrite
  <2> QED
    BY <1>1, <2>1, OrderQuiet, GaveNothing
<1>3. CASE Stop \/ BeginDirectTurn
  <2>1. UNCHANGED given
    BY <1>3 DEF Stop, BeginDirectTurn
  <2>2. QueuesKept
    BY <1>0, <1>3, TouchActive, SetDirect DEF Stop, BeginDirectTurn
  <2> QED
    BY <1>1, <2>1, <2>2, OrderQuiet, GaveNothing
<1>4. CASE Admit
  <2>1. CASE UNCHANGED <<row, state, given>>
    BY <1>1, <2>1, OrderQuiet, GaveNothing
  <2>2. CASE ~UNCHANGED <<row, state, given>>
    <3>1. QueuesKept /\ ~Busy(state[hrt]) /\ pc = "admit"
      BY <1>0, <1>4, <2>2, AdmitFact
    <3>2. rec' = "done" /\ state'[cur'].queue = <<>>
      BY <1>0, <1>1, <3>1 DEF CurrentInv, Busy, QueuesKept
    <3>3. bounds'.faults = 0 => \A u \in Msg : row'[u] \notin {"queued", "steering"}
      BY <3>2 DEF HeldInv, Waiting
    <3>4. StartStep
      BY <3>3 DEF StartStep
    <3> QED
      BY <1>1, <3>1, <3>4, OrderQuiet
  <2> QED
    BY <2>1, <2>2
<1> QED
  BY <1>2, <1>3, <1>4

LEMMA OrderEnqueue ==
    ASSUME PromptInv, HeldInv, OrderInv, HeldInv', Enqueue
    PROVE  OrderInv' /\ StartStep
<1>0. /\ TypeInv /\ TypeOK /\ CurrentInv /\ QueueInv /\ row \in [Msg -> Status]
      /\ given \in [Msg -> Nat] /\ bounds \in Bounds /\ hrt \in Runtime /\ created \in Seq(Msg)
  BY PromptParts
<1>1. UNCHANGED <<cur, rec, loaded>> /\ pc = "enqueue"
  BY DEF Enqueue, channel
<1>2. hrt = cur /\ rec = "done"
  BY <1>0, <1>1 DEF CurrentInv
<1>3. CASE UNCHANGED <<created, state, given>>
  BY <1>1, <1>3, OrderQuiet, GaveNothing
<1>4. CASE /\ created' = Append(created, hmsg)
           /\ StartNextRemoteLocked(hrt,
                [state[hrt] EXCEPT !.queue = Append(state[hrt].queue, NewItem(hmsg, state[hrt].active.id))],
                SetRow(row, hmsg, "queued"), given, bounds)
  <2> DEFINE o == state[hrt].queue
             q == Append(o, NewItem(hmsg, state[hrt].active.id))
             s == [state[hrt] EXCEPT !.queue = q]
             rw == SetRow(row, hmsg, "queued")
             n == Len(created)
             l == Len(o)
  <2>1. /\ s \in States /\ rw \in [Msg -> Status] /\ hmsg \in Msg /\ s.queue = q
        /\ \A i \in DOMAIN q : (i \in DOMAIN o /\ q[i] = o[i]) \/ (i = l + 1 /\ q[i].id = hmsg)
    BY <1>0, <1>1, EnqueueStart
  <2>2. StartOk(hrt, s, rw, given)
    BY <1>1, EnqueueOk
  <2>3. StartNextRemoteLocked(hrt, s, rw, given, bounds)
    BY <1>4
  <2>4. /\ DOMAIN created = 1..n /\ Len(created') = n + 1 /\ n \in Nat /\ created'[n + 1] = hmsg
        /\ \A i \in 1..n : created'[i] = created[i]
    BY <1>0, <1>4, <2>1
  <2>5. /\ Ordered(o, created) /\ DOMAIN o = 1..l /\ l \in Nat
        /\ \A i \in DOMAIN o : o[i] \in Item /\ row[o[i].id] = o[i].status
    BY <1>0, <1>2, PromptParts DEF OrderInv, QueueInv, Agrees
  <2>6. \A i \in DOMAIN o : InSeq(o[i].id, created)
    <3>1. \A i \in DOMAIN o : o[i].id \in Msg /\ row[o[i].id] \in Waiting
      BY <2>5 DEF Item, Waiting
    <3> QED
      BY <3>1, HeldParts
  <2> HIDE DEF s, rw, q, o, n, l
  <2>7. \A m, u : InOrder(m, u, created) => InOrder(m, u, created')
    <3> SUFFICES ASSUME NEW m, NEW u, InOrder(m, u, created) PROVE InOrder(m, u, created')
      OBVIOUS
    <3>1. PICK i, j \in 1..n : i < j /\ created[i] = m /\ created[j] = u
      BY DEF InOrder, n
    <3>2. i \in 1..Len(created') /\ j \in 1..Len(created') /\ created'[i] = m /\ created'[j] = u
      BY <2>4, <3>1
    <3> QED
      BY <3>1, <3>2 DEF InOrder
  <2>8. \A m : InSeq(m, created) => InOrder(m, hmsg, created')
    <3> SUFFICES ASSUME NEW m, InSeq(m, created) PROVE InOrder(m, hmsg, created')
      OBVIOUS
    <3>1. PICK i \in 1..n : created[i] = m
      BY <2>4 DEF InSeq
    <3>2. i \in 1..Len(created') /\ n + 1 \in 1..Len(created') /\ i < n + 1 /\ created'[i] = m
      BY <2>4, <3>1
    <3> QED
      BY <2>4, <3>2 DEF InOrder
  <2>9. Ordered(q, created')
    <3> SUFFICES ASSUME NEW i \in DOMAIN q, NEW j \in DOMAIN q, i < j PROVE InOrder(q[i].id, q[j].id, created')
      BY DEF Ordered
    <3>1. i \in DOMAIN o /\ q[i] = o[i]
      <4>1. CASE j \in DOMAIN o
        BY <2>1, <2>5, <4>1
      <4>2. CASE j = l + 1
        BY <2>1, <2>5, <4>2
      <4> QED
        BY <2>1, <4>1, <4>2
    <3>2. CASE j \in DOMAIN o /\ q[j] = o[j]
      BY <2>5, <2>7, <3>1, <3>2 DEF Ordered
    <3>3. CASE q[j].id = hmsg
      BY <2>6, <2>8, <3>1, <3>3
    <3> QED
      BY <2>1, <3>2, <3>3
  <2>10. \A m \in Msg : given[m] <= given[m]
    BY <1>0
  <2> QED
    BY <1>0, <1>1, <1>2, <2>1, <2>2, <2>3, <2>9, <2>10, OrderStart
<1> QED
  BY <1>3, <1>4 DEF Enqueue, durable

LEMMA OrderCommand ==
    ASSUME PromptInv, HeldInv', pc # "idle", NEW s \in States, NEW rw \in [Msg -> Status], NEW g \in [Msg -> Nat],
           NEW b \in Bounds, StartNextRemoteLocked(hrt, s, rw, g, b), StartOk(hrt, s, rw, g),
           UNCHANGED <<created, cur, rec>>, \A m \in Msg : g[m] <= given[m],
           Ordered(state[hrt].queue, created) => Ordered(s.queue, created), OrderInv
    PROVE  OrderInv' /\ StartStep
<1>0. hrt \in Runtime /\ CurrentInv
  BY PromptParts
<1>1. hrt = cur /\ rec = "done"
  BY <1>0 DEF CurrentInv
<1>2. Ordered(s.queue, created')
  BY <1>1 DEF OrderInv
<1> QED
  BY <1>0, <1>1, <1>2, OrderStart

LEMMA OrderCancel ==
    ASSUME PromptInv, OrderInv, HeldInv', NEW i \in 1..Len(state[hrt].queue), CancelQueued(i)
    PROVE  OrderInv' /\ StartStep
<1>0. TypeOK /\ given \in [Msg -> Nat] /\ bounds \in Bounds /\ hrt \in Runtime /\ state \in [Runtime -> States]
  BY PromptParts
<1>1. UNCHANGED <<created, cur, rec, loaded>> /\ pc = "command" /\ i \in QueuedAt(state[hrt])
  BY DEF CancelQueued, channel
<1>2. CASE UNCHANGED <<state, given>>
  BY <1>1, <1>2, OrderQuiet, GaveNothing
<1>3. CASE StartNextRemoteLocked(hrt, [state[hrt] EXCEPT !.queue = RemoveAt(state[hrt].queue, i)],
                SetRow(row, state[hrt].queue[i].id, "cancelled"), given, bounds)
  <2> DEFINE o == state[hrt].queue
             q == RemoveAt(o, i)
             s == [state[hrt] EXCEPT !.queue = q]
             rw == SetRow(row, o[i].id, "cancelled")
             P == (1..Len(o)) \ {i}
  <2>1. /\ s \in States /\ rw \in [Msg -> Status] /\ StartOk(hrt, s, rw, given) /\ s.queue = q
    BY <1>1, CancelOk
  <2>2. StartNextRemoteLocked(hrt, s, rw, given, bounds)
    BY <1>3
  <2>3. o \in Seq(Item) /\ Picks(q, o, P)
    BY <1>0, RemoveStart, StateFields
  <2>4. P \in SUBSET DOMAIN o
    BY <2>3
  <2> HIDE DEF s, rw, q, P
  <2>5. Ordered(o, created) => Ordered(q, created)
    <3> HIDE DEF o
    <3> QED
      BY <2>3, <2>4, PicksOrdered
  <2>6. \A m \in Msg : given[m] <= given[m]
    BY <1>0
  <2> QED
    BY <1>0, <1>1, <2>1, <2>2, <2>5, <2>6, OrderCommand
<1> QED
  BY <1>2, <1>3 DEF CancelQueued

LEMMA OrderClear ==
    ASSUME PromptInv, OrderInv, HeldInv', NEW drop \in SUBSET Msg, NEW fails \in 0..MaxFaults, ClearQueue(drop, fails)
    PROVE  OrderInv' /\ StartStep
<1>0. TypeOK /\ given \in [Msg -> Nat] /\ hrt \in Runtime /\ state \in [Runtime -> States]
  BY PromptParts
<1>1. UNCHANGED <<created, cur, rec, loaded>> /\ pc = "command"
  BY DEF ClearQueue, channel
<1>2. PICK q \in Seq(Item), b \in Bounds :
          /\ [state[hrt] EXCEPT !.queue = q] \in States /\ [state[hrt] EXCEPT !.queue = q].queue = q
          /\ Picks(q, state[hrt].queue, Remaining(drop))
          /\ StartNextRemoteLocked(hrt, [state[hrt] EXCEPT !.queue = q], ClearedRows(drop), given, b)
  BY <1>0, ClearStart
<1> DEFINE o == state[hrt].queue
           s == [state[hrt] EXCEPT !.queue = q]
           rw == ClearedRows(drop)
           P == Remaining(drop)
<1>3. StartOk(hrt, s, rw, given) /\ rw \in [Msg -> Status]
  BY <1>2, ClearOk
<1>4. s \in States /\ s.queue = q /\ StartNextRemoteLocked(hrt, s, rw, given, b) /\ Picks(q, o, P)
  BY <1>2
<1>5. P \in SUBSET DOMAIN o
  <2>1. o \in Seq(Item)
    BY <1>0, StateFields
  <2> QED
    BY <2>1 DEF Remaining
<1> HIDE DEF s, rw, P
<1>6. Ordered(o, created) => Ordered(q, created)
  <2> HIDE DEF o
  <2> QED
    BY <1>4, <1>5, PicksOrdered
<1>7. \A m \in Msg : given[m] <= given[m]
  BY <1>0
<1> QED
  BY <1>0, <1>1, <1>3, <1>4, <1>6, <1>7, OrderCommand

LEMMA OrderSteer ==
    ASSUME PromptInv, OrderInv, NEW i \in 1..Len(state[hrt].queue), Steer(i)
    PROVE  OrderInv' /\ StartStep
<1>0. TypeOK /\ CurrentInv /\ row \in [Msg -> Status] /\ given \in [Msg -> Nat] /\ hrt \in Runtime
  BY PromptParts
<1>1. UNCHANGED <<created, cur, rec, loaded>> /\ pc = "command" /\ i \in QueuedAt(state[hrt])
  BY DEF Steer, MaySteer, channel
<1>2. CASE UNCHANGED <<state, given>>
  BY <1>1, <1>2, OrderQuiet, GaveNothing
<1>3. CASE /\ state' = [state EXCEPT ![hrt].queue[i].status = "steering", ![hrt].steering = TRUE]
           /\ row' = SetRow(row, state[hrt].queue[i].id, "steering")
           /\ given' = Gave(given, state[hrt].queue[i].id)
  <2> DEFINE o == state[hrt].queue
             z == state'[hrt].queue
             m == o[i].id
  <2>1. /\ DOMAIN z = DOMAIN o /\ m \in Msg /\ z[i].id = m /\ \A j \in DOMAIN o : j # i => z[j] = o[j]
    BY <1>0, <1>1, <1>3, SteerBegins
  <2>2. hrt = cur /\ rec = "done" /\ Ordered(o, created)
    BY <1>0, <1>1 DEF CurrentInv, OrderInv
  <2>3. row' = SetRow(row, m, "steering") /\ given' = Gave(given, m)
    BY <1>3
  <2> HIDE DEF o, z
  <2>4. Ordered(z, created)
    <3>1. \A j \in DOMAIN z : z[j].id = o[j].id
      BY <2>1
    <3> QED
      BY <2>1, <2>2, <3>1 DEF Ordered
  <2> HIDE DEF m
  <2>5. row'[m] = "steering" /\ \A k \in Msg : k # m => given'[k] = given[k]
    BY <1>0, <2>1, <2>3 DEF SetRow, Gave
  <2>6. \A k \in Msg : ~(row'[k] = "running" /\ given'[k] > given[k])
    BY <1>0, <2>5
  <2> QED
    BY Zenon, <1>1, <2>2, <2>4, <2>6 DEF OrderInv, StartStep, z
<1> QED
  BY <1>2, <1>3 DEF Steer

LEMMA OrderSteerReturns ==
    ASSUME PromptInv, OrderInv, HeldInv', NEW answer \in DOMAIN SteerStatus, SteerReturns(answer)
    PROVE  OrderInv' /\ StartStep
<1>0. /\ TypeInv /\ row \in [Msg -> Status] /\ given \in [Msg -> Nat] /\ bounds \in Bounds
      /\ Failed(bounds) \in Bounds /\ hrt \in Runtime /\ state \in [Runtime -> States]
  BY Zenon, PromptParts
<1>1. UNCHANGED <<created, cur, rec, loaded>> /\ pc = "steer"
  BY Zenon DEF SteerReturns, channel
<1>2. /\ Unsteered \in States /\ SteeredGiven(answer) \in [Msg -> Nat]
      /\ SetRow(row, SteeredTask, SteerStatus[answer]) \in [Msg -> Status]
      /\ SteerStatus[answer] \in {"steered", "queued", "steer_unknown"}
      /\ (answer = "rejected") <=> (SteerStatus[answer] = "queued")
  BY <1>0, <1>1, SteeredFact
<1> DEFINE o == state[hrt].queue
           q1 == [o EXCEPT ![SteeredAt].status = "queued"]
           q2 == RemoveAt(o, SteeredAt)
           s1 == [Unsteered EXCEPT !.queue = q1]
           s2 == [Unsteered EXCEPT !.queue = q2]
           rw1 == SetRow(row, SteeredTask, "queued")
           rw2 == SetRow(row, SteeredTask, SteerStatus[answer])
           g == SteeredGiven(answer)
           P == (1..Len(o)) \ {SteeredAt}
<1>3. /\ q1 \in Seq(Item) /\ DOMAIN q1 = DOMAIN o /\ (\A i \in DOMAIN q1 : q1[i].id = o[i].id)
      /\ q2 \in Seq(Item) /\ Picks(q2, o, P)
  BY <1>0, <1>1, RejectedQueue, RemovedQueue
<1>4. s1 \in States /\ s2 \in States /\ s1.queue = q1 /\ s2.queue = q2
  <2>1. q1 \in Seq(Item) /\ q2 \in Seq(Item)
    BY <1>3
  <2> HIDE DEF q1, q2
  <2> QED
    BY <1>2, <2>1, SetQueue
<1>5. \/ answer = "rejected" /\ StartNextRemoteLocked(hrt, s1, rw1, g, bounds)
      \/ answer # "rejected" /\ StartNextRemoteLocked(hrt, s2, rw2, g, bounds)
      \/ StartNextRemoteLocked(hrt, s2, row, g, Failed(bounds))
  BY <1>0, SteerReturnsStart
<1>6. answer = "rejected" => StartOk(hrt, s1, rw1, g)
  BY <1>1, RejectedOk
<1>7. answer # "rejected" => StartOk(hrt, s2, rw2, g)
  <2>1. SteerStatus[answer] \in Status /\ (answer # "rejected" => SteerStatus[answer] \notin NotGiven)
    BY <1>2 DEF Status, NotGiven
  <2> QED
    BY <1>1, <2>1, SteeredOk
<1>8. StartOk(hrt, s2, row, g)
  <2>1. "steered" \in Status \ NotGiven
    BY DEF Status, NotGiven
  <2> QED
    BY <1>1, <2>1, SteeredOk
<1>9. rw1 \in [Msg -> Status] /\ rw2 \in [Msg -> Status] /\ g \in [Msg -> Nat]
  BY <1>0, <1>2 DEF SetRow, Status
<1>10. \A m \in Msg : g[m] <= given[m]
  <2>1. SteeredTask \in Msg
    BY <1>1, SteerStands
  <2> QED
    BY <1>0, <2>1 DEF SteeredGiven
<1>11. P \in SUBSET DOMAIN o
  BY <1>1, SteerStands
<1> HIDE DEF q1, q2, s1, s2, rw1, rw2, g, P
<1>12. (Ordered(o, created) => Ordered(q1, created)) /\ (Ordered(o, created) => Ordered(q2, created))
  <2> HIDE DEF o
  <2>1. Ordered(o, created) => Ordered(q1, created)
    BY <1>3 DEF Ordered
  <2>2. Ordered(o, created) => Ordered(q2, created)
    BY <1>3, <1>11, PicksOrdered
  <2> QED
    BY <2>1, <2>2
<1>13. CASE answer = "rejected" /\ StartNextRemoteLocked(hrt, s1, rw1, g, bounds)
  BY <1>0, <1>1, <1>4, <1>6, <1>9, <1>10, <1>12, <1>13, OrderCommand
<1>14. CASE answer # "rejected" /\ StartNextRemoteLocked(hrt, s2, rw2, g, bounds)
  BY <1>0, <1>1, <1>4, <1>7, <1>9, <1>10, <1>12, <1>14, OrderCommand
<1>15. CASE StartNextRemoteLocked(hrt, s2, row, g, Failed(bounds))
  BY <1>0, <1>1, <1>4, <1>8, <1>9, <1>10, <1>12, <1>15, OrderCommand
<1> QED
  BY <1>5, <1>13, <1>14, <1>15

LEMMA OrderTurn ==
    ASSUME PromptInv, OrderInv, HeldInv', NEW r \in Runtime,
           AttachSession(r) \/ FinishRemoteTask(r) \/ EndDirectTurn(r) \/ DirectStartNext(r)
    PROVE  OrderInv' /\ StartStep
<1>0. /\ TypeOK /\ ActiveInv /\ CurrentInv /\ row \in [Msg -> Status] /\ given \in [Msg -> Nat]
      /\ bounds \in Bounds /\ Failed(bounds) \in Bounds /\ Late(row)
  BY PromptParts DEF Late
<1>1. UNCHANGED <<created, cur, rec, loaded>>
  BY DEF AttachSession, FinishRemoteTask, EndDirectTurn, DirectStartNext, channel, durable
<1>2. IsActive(state[r]) => state[r].active.id \in Msg /\ row[state[r].active.id] \notin Pending
  BY <1>0, Types, StateFields DEF ActiveInv
<1>3. ASSUME NEW s \in States, s.queue = state[r].queue, s.steering = state[r].steering,
             s.active = state[r].active \/ s.active = Idle, NEW rw \in [Msg -> Status], Late(rw), NEW b \in Bounds,
             StartNextRemoteLocked(r, s, rw, given, b)
      PROVE  OrderInv' /\ StartStep
  <2>1. StartOk(r, s, rw, given)
    BY <1>3, LateOk
  <2>2. \A m \in Msg : given[m] <= given[m]
    BY <1>0
  <2>3. rec' \in {"steering", "running", "select", "load"} /\ r = cur => s.queue = <<>>
    BY <1>0, <1>1, <1>3 DEF CurrentInv
  <2>4. rec # "down" => Ordered(state[cur].queue, created')
    BY <1>1 DEF OrderInv
  <2> QED
    BY <1>0, <1>1, <1>3, <2>1, <2>2, <2>3, <2>4, OrderStart
<1>4. CASE AttachSession(r) \/ EndDirectTurn(r)
  <2>1. UNCHANGED given
    BY <1>4 DEF AttachSession, EndDirectTurn
  <2>2. QueuesKept
    BY <1>0, <1>4, TouchActive, SetDirect DEF AttachSession, EndDirectTurn
  <2> QED
    BY <1>1, <2>1, <2>2, OrderQuiet, GaveNothing
<1>5. CASE FinishRemoteTask(r)
  <2>1. /\ Finished(r) \in States /\ Finished(r).queue = state[r].queue /\ Finished(r).active = Idle
        /\ Finished(r).steering = state[r].steering /\ IsActive(state[r])
    BY <1>0, <1>5, FinishStart
  <2>2. \A o \in {"interrupted", "succeeded", "failed"} : o \in Status \ Pending
    BY DEF Status, Pending
  <2>3. CASE StartNextRemoteLocked(r, Finished(r), row, given, Failed(bounds))
    BY <1>0, <1>3, <2>1, <2>3
  <2>4. CASE \E o \in {"interrupted", "succeeded", "failed"} :
                StartNextRemoteLocked(r, Finished(r), SetRow(row, state[r].active.id, o), given, bounds)
    <3>1. PICK o \in {"interrupted", "succeeded", "failed"} :
                StartNextRemoteLocked(r, Finished(r), SetRow(row, state[r].active.id, o), given, bounds)
      BY <2>4
    <3>2. SetRow(row, state[r].active.id, o) \in [Msg -> Status] /\ Late(SetRow(row, state[r].active.id, o))
      BY <1>2, <2>1, <2>2, LateRow
    <3> QED
      BY <1>0, <1>3, <2>1, <3>1, <3>2
  <2> QED
    BY <1>0, <1>5, <2>3, <2>4, FinishStart
<1>6. CASE DirectStartNext(r)
  <2>1. StartNextRemoteLocked(r, Undirected(r), row, given, bounds)
    BY <1>6 DEF DirectStartNext, Undirected
  <2> QED
    BY <1>0, <1>3, <2>1, DirectStart
<1> QED
  BY <1>4, <1>5, <1>6

LEMMA OrderRecover ==
    ASSUME PromptInv, OrderInv, HeldInv', Detach \/ Crash \/ AttachChannel \/ RecoverFails \/ Recover
    PROVE  OrderInv' /\ StartStep
<1>0. /\ TypeOK /\ CurrentInv /\ row \in [Msg -> Status] /\ given \in [Msg -> Nat] /\ bounds \in Bounds
      /\ cur \in Runtime /\ cur \in Nat /\ created \in Seq(Msg) /\ DOMAIN created = 1..Len(created)
  BY PromptParts
<1>e. \A c : Ordered(<<>>, c)
  BY DEF Ordered
<1> USE DEF durable
<1>1. CASE Detach \/ Crash
  <2>1. UNCHANGED given /\ rec' = "down"
    BY <1>1 DEF Detach, Crash
  <2> QED
    BY <2>1, GaveNothing DEF OrderInv
<1>2. CASE AttachChannel
  <2>1. UNCHANGED <<state, given>> /\ rec' = "steering" /\ cur' = cur + 1 /\ cur' \in Runtime
    BY <1>2 DEF AttachChannel
  <2>2. state'[cur'].queue = <<>>
    BY <1>0, <2>1, EmptyFields DEF CurrentInv
  <2> QED
    BY <1>e, <2>1, <2>2, GaveNothing DEF OrderInv
<1>3. CASE RecoverFails \/ RecoverSteering \/ RecoverRunning
  <2>1. UNCHANGED <<state, given, created, cur>> /\ rec # "down" /\ rec' # "load"
    BY <1>3 DEF RecoverFails, RecoverSteering, RecoverRunning
  <2> QED
    BY <2>1, GaveNothing DEF OrderInv
<1>4. CASE RecoverSelect
  <2> DEFINE P == {i \in 1..Len(created) : row[created[i]] = "queued"}
  <2>1. /\ UNCHANGED <<state, given, created, cur>> /\ rec = "select" /\ rec' = "load" /\ loaded' \in Kept(created, P)
    BY <1>4 DEF RecoverSelect
  <2>2. P \in SUBSET (1..Len(created))
    OBVIOUS
  <2> HIDE DEF P
  <2>3. Picks(loaded', created, P)
    BY <1>0, <2>1, <2>2, KeptPicks
  <2>4. PICK h \in [DOMAIN loaded' -> P] : /\ \A j \in DOMAIN loaded' : loaded'[j] = created[h[j]]
                                           /\ \A i, j \in DOMAIN loaded' : i < j => h[i] < h[j]
    BY <2>3 DEF Picks
  <2>5. \A i, j \in DOMAIN loaded' : i < j => InOrder(loaded'[i], loaded'[j], created)
    <3>1. \A j \in DOMAIN loaded' : h[j] \in 1..Len(created)
      BY <2>2, <2>4
    <3> QED
      BY <2>4, <3>1 DEF InOrder
  <2> QED
    BY <2>1, <2>5, GaveNothing DEF OrderInv
<1>5. CASE RecoverLoad
  <2> DEFINE q == state[cur].queue \o LoadedItems
             s == [state[cur] EXCEPT !.queue = q]
  <2>1. /\ StartNextRemoteLocked(cur, s, row, given, bounds) /\ rec = "load" /\ rec' = "done"
        /\ UNCHANGED <<created, cur>>
    BY <1>5 DEF RecoverLoad, LoadedItems
  <2>2. s \in States
    BY <1>0, LoadStart
  <2>3. StartOk(cur, s, row, given) /\ s.queue = q /\ DOMAIN q = DOMAIN loaded /\ \A i \in DOMAIN loaded : q[i].id = loaded[i]
    BY <2>1, LoadOk
  <2> HIDE DEF s, q
  <2>4. Ordered(s.queue, created')
    BY <2>1, <2>3 DEF OrderInv, Ordered
  <2>5. \A m \in Msg : given[m] <= given[m]
    BY <1>0
  <2> QED
    BY <1>0, <2>1, <2>2, <2>3, <2>4, <2>5, OrderStart
<1> QED
  BY <1>1, <1>2, <1>3, <1>4, <1>5 DEF Recover

LEMMA OrderInvStep ==
    ASSUME PromptInv, HeldInv, OrderInv, Next
    PROVE  OrderInv' /\ StartStep
<1>1. HeldInv'
  BY HeldInvStep
<1>2. ASSUME NEW m \in Msg, Deliver(m) PROVE OrderInv' /\ StartStep
  <2>1. UNCHANGED <<created, state, cur, rec, loaded, given>>
    BY <1>2 DEF Deliver, durable, channel
  <2> QED
    BY <2>1, OrderQuiet, GaveNothing
<1> QED
  BY <1>1, <1>2, OrderSimple, OrderEnqueue, OrderCancel, OrderSteer, OrderClear, OrderSteerReturns, OrderTurn,
     OrderRecover DEF Next

\* As long as no store call has failed, a task starts, from the queue or on
\* arrival, only when every task left waiting was created after it: the queue
\* and what recovery reads keep the order of created_at through rejected
\* steers, cancellations, clears, crashes and reattachments.
THEOREM TasksStartInOrder ==
    ASSUME ~HandlersOverlapAttach
    PROVE  Spec => StartsInOrder
<1>1. Init => OrderInv
  <2> SUFFICES ASSUME Init PROVE OrderInv
    OBVIOUS
  <2>1. state[cur].queue = <<>> /\ loaded = <<>>
    BY EmptyFields DEF Init, Runtime
  <2> QED
    BY <2>1 DEF OrderInv, Ordered
<1>2. PromptInv /\ HeldInv /\ OrderInv /\ [Next]_vars => OrderInv'
  <2> SUFFICES ASSUME PromptInv, HeldInv, OrderInv, [Next]_vars PROVE OrderInv'
    OBVIOUS
  <2>1. CASE UNCHANGED vars
    BY <2>1 DEF vars, OrderInv
  <2> QED
    BY <2>1, OrderInvStep
<1>3. PromptInv /\ HeldInv /\ OrderInv /\ [Next]_vars => [StartStep]_vars
  BY OrderInvStep
<1>4. Spec => [](PromptInv /\ HeldInv /\ OrderInv)
  BY <1>1, <1>2, PromptInvInit, PromptInvStep, HeldInvInit, HeldInvStep, PTL DEF Spec
<1>5. Spec => [][StartStep]_vars
  BY <1>3, <1>4, PTL DEF Spec
<1> QED
  BY <1>5 DEF StartsInOrder, StartStep
=============================================================================
