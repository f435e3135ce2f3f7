------------------------- MODULE LiveTakeoverProofs -------------------------
(***************************************************************************)
(* Proofs about LiveTakeover, for every set of files, providers and        *)
(* requests, and every number of arrivals, edits, failures and crashes.    *)
(***************************************************************************)
EXTENDS LiveTakeover, TLAPS

USE LiveTakeoverAssumption

-----------------------------------------------------------------------------
(* The invariants.                                                         *)

Ops == {"none", "enable", "switch", "disable", "config"}
Pcs == {"idle", "lock", "locked", "write", "flag", "direct", "route", "rebuild", "restore",
        "delete", "unflag", "stop", "save"}
Held == {"locked", "write", "restore"}

\* An entry that is not finalized holds a whole image and owns nothing; a
\* finalized one has a value from before for each key it owns.
GoodEntries ==
    {e \in Entries : IF e.done THEN \A k \in e.owned : e.before[k] \in Values
                     ELSE e.owned = {} /\ e.before \in [Keys -> Values]}
Journals == UNION {[D -> GoodEntries] : D \in SUBSET Files}
Images == UNION {[D -> [Keys -> Values]] : D \in SUBSET Files}
RequestRecords ==
    [op : Ops, pc : Pcs, provider : Providers \cup {Nothing}, seen : Journals, before : Images,
     todo : SUBSET Files, drift : BOOLEAN, flag : BOOLEAN]

\* The variables but for the lock, with whole records for the requests.
ShapeInv ==
    /\ content \in [Files -> [Keys -> Values]] /\ mine \in [Files -> [Keys -> Values \ Providers]]
    /\ journal \in Journals /\ request \in [Requests -> RequestRecords]
    /\ enabled \in BOOLEAN /\ active \in Providers /\ proxy \in BOOLEAN
    /\ lock \in Requests \cup {Nobody} /\ up \in BOOLEAN
    /\ blurred \subseteq Files /\ overlapped \in BOOLEAN
    /\ arrivals \in 0..MaxArrivals /\ edits \in 0..MaxEdits /\ mishaps \in 0..MaxMishaps

\* A request: an idle one has nothing, the lock is with the one between
\* Acquire and its release, and a rewrite or a restore has its entries.
RequestInv(r) ==
    /\ request[r] = Idle \/ (request[r].op # "none" /\ request[r].pc # "idle" /\ up)
    /\ (lock = r) <=> (request[r].pc \in Held)
    /\ request[r].op \in {"enable", "switch"} => request[r].provider \in Providers
    /\ request[r].pc = "write" =>
          /\ DOMAIN request[r].before \subseteq DOMAIN request[r].seen
          /\ request[r].todo \subseteq DOMAIN request[r].before
    /\ request[r].pc = "restore" => request[r].todo \subseteq DOMAIN request[r].seen

TakeoverInv == ShapeInv /\ \A r \in Requests : RequestInv(r)

\* Until requests overlap only one is under way: an enabling one has the
\* proxy running, and a SetToolConfig has read the Enabled that still holds.
ServedInv ==
    /\ EnabledIsServed
    /\ ~overlapped =>
          /\ \A r, x \in Requests : request[r] # Idle /\ request[x] # Idle => r = x
          /\ \A r \in Requests : request[r].op = "enable" => proxy
          /\ \A r \in Requests : request[r].op = "config" => request[r].flag = enabled

\* The entry knows what belongs to the file: it is a whole image of it, or it
\* owns the managed key, which holds a route of ours or is as it should be.
Sound(e, f) ==
    IF e.done
    THEN /\ e.owned = {"managed"} /\ e.after["managed"] \in Providers
         /\ \/ content[f]["managed"] = mine[f]["managed"]
            \/ e.before["managed"] = mine[f]["managed"]
    ELSE \A k \in Keys : e.before[k] = mine[f][k]

\* Every file that is not as it should be has a sound entry in the journal j.
Kept(j) ==
    \A f \in Files \ blurred :
        /\ content[f]["other"] = mine[f]["other"]
        /\ f \notin DOMAIN j => content[f]["managed"] = mine[f]["managed"]
        /\ f \in DOMAIN j => Sound(j[f], f)

\* A rewrite: its copy is the journal, and its files are recorded in it.
WriteInv(r) ==
    /\ blurred = Files \/ journal = request[r].seen
    /\ \A x \in Requests : request[x].pc = "delete" => request[x].flag
    /\ \A f \in (DOMAIN request[r].before) \ blurred :
          LET e == request[r].seen[f]
              image == request[r].before[f]
          IN /\ e.before["managed"] = mine[f]["managed"]
             /\ image["other"] = mine[f]["other"]
             /\ ~e.done => image["managed"] = mine[f]["managed"]
             /\ f \notin request[r].todo => content[f]["managed"] = request[r].provider

\* A restore: the files it is done with are as they should be, unless it has
\* met a drift.
RestoreInv(r) ==
    \A f \in Files \ (blurred \cup request[r].todo) :
        request[r].drift \/ content[f]["managed"] = mine[f]["managed"]

\* A journal about to be deleted: nothing is left to restore from it.
DeleteInv(r) ==
    request[r].flag \/ \A f \in Files \ blurred : content[f]["managed"] = mine[f]["managed"]

KeptInv ==
    /\ Kept(journal)
    /\ \A r \in Requests :
          /\ request[r].pc \in {"locked", "restore"} => Kept(request[r].seen)
          /\ request[r].pc = "write" => WriteInv(r)
          /\ request[r].pc = "restore" => RestoreInv(r)
          /\ request[r].pc = "delete" => DeleteInv(r)
-----------------------------------------------------------------------------
(* Journals and images.                                                    *)

LEMMA JournalShape ==
    ASSUME NEW j \in Journals
    PROVE  DOMAIN j \subseteq Files /\ \A f \in DOMAIN j : j[f] \in GoodEntries
BY DEF Journals

LEMMA ImageShape ==
    ASSUME NEW i \in Images
    PROVE  DOMAIN i \subseteq Files /\ \A f \in DOMAIN i : i[f] \in [Keys -> Values]
BY DEF Images

LEMMA NoJournalShape == NoJournal \in Journals /\ NoJournal \in Images /\ DOMAIN NoJournal = {}
<1>1. NoJournal \in [{} -> GoodEntries] /\ NoJournal \in [{} -> [Keys -> Values]]
  BY DEF NoJournal
<1> QED
  BY <1>1 DEF Journals, Images, NoJournal

LEMMA IdleShape == Idle \in RequestRecords /\ Idle.op = "none" /\ Idle.pc = "idle"
BY NoJournalShape DEF Idle, RequestRecords, Ops, Pcs

\* The before image of a file makes an entry that is not finalized.
LEMMA SnapshotGood ==
    ASSUME NEW f \in Files, content \in [Files -> [Keys -> Values]]
    PROVE  Snapshot(f) \in GoodEntries
BY DEF Snapshot, GoodEntries, Entries, Values

\* Advancing an entry over a rewrite keeps its form.
LEMMA AdvancedGood ==
    ASSUME NEW e \in GoodEntries, NEW b \in [Keys -> Values], NEW n \in [Keys -> Values]
    PROVE  Advanced(e, b, n) \in GoodEntries
<1> DEFINE a == Advanced(e, b, n)
<1>0. e \in Entries /\ (\A k \in e.owned : e.before[k] \in Values) /\ e.owned \subseteq Keys
  BY DEF GoodEntries, Entries
<1>1. a \in Entries
  BY <1>0 DEF Advanced, Entries
<1>2. a.done /\ \A k \in a.owned : a.before[k] \in Values
  BY <1>0 DEF Advanced, Entries
<1> QED
  BY <1>1, <1>2 DEF GoodEntries

\* What a restore writes is a value of a file.
LEMMA RestoredShape ==
    ASSUME NEW e \in GoodEntries, NEW n \in [Keys -> Values]
    PROVE  Restored(e, n) \in [Keys -> Values]
BY DEF Restored, GoodEntries, Entries

-----------------------------------------------------------------------------
(* Type correctness.                                                       *)

LEMMA TakeoverInit == Init => TakeoverInv
<1> SUFFICES ASSUME Init PROVE TakeoverInv
  OBVIOUS
<1>1. ShapeInv
  <2>1. content \in [Files -> [Keys -> Values]] /\ mine \in [Files -> [Keys -> Values \ Providers]]
    BY DEF Init, Values
  <2>2. journal \in Journals /\ request \in [Requests -> RequestRecords]
    BY NoJournalShape, IdleShape DEF Init
  <2>3. arrivals \in 0..MaxArrivals /\ edits \in 0..MaxEdits /\ mishaps \in 0..MaxMishaps
    BY DEF Init
  <2> QED
    BY <2>1, <2>2, <2>3 DEF Init, ShapeInv
<1>2. ASSUME NEW r \in Requests PROVE RequestInv(r)
  BY IdleShape DEF Init, RequestInv, Held
<1> QED
  BY <1>1, <1>2 DEF TakeoverInv

\* The requests stay records: the ways in which a step changes one.
LEMMA RequestShape ==
    ASSUME request \in [Requests -> RequestRecords], NEW r \in Requests
    PROVE  /\ End(r) => request' \in [Requests -> RequestRecords]
           /\ \A pc \in Pcs : Goto(r, pc) \/ Leave(r, pc) => request' \in [Requests -> RequestRecords]
           /\ \A new \in RequestRecords : Arrive(r, new) => request' \in [Requests -> RequestRecords]
<1>1. End(r) => request' \in [Requests -> RequestRecords]
  BY IdleShape DEF End
<1>2. ASSUME NEW pc \in Pcs, Goto(r, pc) PROVE request' \in [Requests -> RequestRecords]
  BY <1>2 DEF Goto, RequestRecords
<1>3. ASSUME NEW pc \in Pcs, Leave(r, pc) PROVE request' \in [Requests -> RequestRecords]
  <2>1. [Idle EXCEPT !.op = request[r].op, !.pc = pc, !.provider = request[r].provider]
            \in RequestRecords
    BY IdleShape DEF RequestRecords
  <2> QED
    BY <1>3, <2>1 DEF Leave
<1>4. ASSUME NEW new \in RequestRecords, Arrive(r, new) PROVE request' \in [Requests -> RequestRecords]
  BY <1>4 DEF Arrive
<1> QED
  BY <1>1, <1>2, <1>3, <1>4

\* The journal with new entries, and with the entries of a rewrite advanced.
LEMMA ExtendedGood ==
    ASSUME ShapeInv, NEW T \in SUBSET Files
    PROVE  Extended(T) \in Journals /\ DOMAIN Extended(T) = DOMAIN journal \cup T
<1>1. DOMAIN journal \cup T \in SUBSET Files
  BY JournalShape DEF ShapeInv
<1>2. \A f \in DOMAIN journal \cup T : Extended(T)[f] \in GoodEntries
  BY <1>1, JournalShape, SnapshotGood DEF ShapeInv, Extended
<1>3. Extended(T) \in [DOMAIN journal \cup T -> GoodEntries]
  BY <1>2 DEF Extended
<1> QED
  BY <1>1, <1>3 DEF Journals

LEMMA FinalizedGood ==
    ASSUME ShapeInv, NEW r \in Requests
    PROVE  Finalized(r) \in Journals /\ DOMAIN Finalized(r) = DOMAIN request[r].seen
<1> DEFINE seen == request[r].seen
           before == request[r].before
<1>1. seen \in Journals /\ before \in Images
  BY DEF ShapeInv, RequestRecords
<1>2. DOMAIN seen \in SUBSET Files /\ \A f \in DOMAIN seen : seen[f] \in GoodEntries
  BY <1>1, JournalShape
<1>3. \A f \in DOMAIN before : before[f] \in [Keys -> Values]
  BY <1>1, ImageShape
<1>4. ASSUME NEW f \in DOMAIN seen PROVE Finalized(r)[f] \in GoodEntries
  <2>1. content[f] \in [Keys -> Values]
    BY <1>2 DEF ShapeInv
  <2> QED
    BY <1>2, <1>3, <2>1, AdvancedGood DEF Finalized
<1>5. Finalized(r) \in [DOMAIN seen -> GoodEntries]
  BY <1>4 DEF Finalized
<1> QED
  BY <1>2, <1>5 DEF Journals

\* A request goes on to a rewrite or to a restore, or takes a step of one.
LEMMA RecordUpdates ==
    ASSUME NEW q \in RequestRecords, NEW j \in Journals, NEW i \in Images,
           NEW t \in SUBSET Files, NEW b \in BOOLEAN, NEW pc \in Pcs
    PROVE  /\ [q EXCEPT !.pc = pc, !.todo = t, !.seen = j, !.before = i] \in RequestRecords
           /\ [q EXCEPT !.pc = pc, !.todo = t] \in RequestRecords
           /\ [q EXCEPT !.todo = t, !.drift = b] \in RequestRecords
BY DEF RequestRecords

LEMMA FlagKept ==
    ASSUME NEW q \in RequestRecords, q.flag = FALSE
    PROVE  [q EXCEPT !.flag = FALSE] = q
BY DEF RequestRecords

LEMMA FlagRaised ==
    ASSUME NEW q \in RequestRecords, NEW w,
           w = [q EXCEPT !.flag = @ \/ q.pc = "delete"]
    PROVE  w.pc = q.pc /\ (q.pc = "delete" => w.flag)
<1> DEFINE b == q.flag \/ q.pc = "delete"
<1>1. b \in BOOLEAN /\ w = [q EXCEPT !.flag = b]
  OBVIOUS
<1> HIDE DEF b
<1>2. w.pc = q.pc /\ w.flag = b
  BY <1>1 DEF RequestRecords
<1>3. q.pc = "delete" => b
  BY DEF b
<1> QED
  BY <1>2, <1>3

LEMMA IdleUnflagged == [Idle EXCEPT !.flag = @ \/ Idle.pc = "delete"] = Idle
<1>1. Idle.flag = FALSE /\ Idle.pc # "delete"
  BY DEF Idle
<1>2. (Idle.flag \/ Idle.pc = "delete") = FALSE
  BY <1>1
<1> QED
  BY <1>1, <1>2, IdleShape, FlagKept

\* Rewriting a file, for the program and for the user.
LEMMA WriteDirectShape ==
    ASSUME ShapeInv, NEW p \in Providers, WriteDirect(p)
    PROVE  /\ content' \in [Files -> [Keys -> Values]]
           /\ mine' \in [Files -> [Keys -> Values \ Providers]] /\ blurred' \subseteq Files
<1>1. Direct \in Values /\ Direct \notin Providers /\ "managed" \in Keys /\ Targets[p] \subseteq Files
  BY DEF Values, Keys
<1> QED
  BY <1>1 DEF WriteDirect, ShapeInv

LEMMA ShapeStep == ShapeInv /\ (\A r \in Requests : RequestInv(r)) /\ [Next]_vars => ShapeInv'
<1> SUFFICES ASSUME ShapeInv, \A r \in Requests : RequestInv(r), [Next]_vars PROVE ShapeInv'
  OBVIOUS
<1> USE DEF disk, Release, StopProxyIfIdle
<1>0. /\ "managed" \in Keys /\ Edited \in Values /\ Edited \notin Providers
      /\ Providers \subseteq Values /\ \A p \in Providers : Targets[p] \subseteq Files
  BY DEF Keys, Values
<1>1. ASSUME NEW r \in Requests, NEW p \in Providers, Enable(r, p) PROVE ShapeInv'
  <2> DEFINE new == [Idle EXCEPT !.op = "enable", !.pc = "lock", !.provider = p, !.seen = journal]
  <2>1. new \in RequestRecords
    BY IdleShape DEF RequestRecords, Ops, Pcs, ShapeInv
  <2> QED
    BY <1>1, <2>1, RequestShape DEF Enable, ShapeInv, Arrive
<1>2. ASSUME NEW r \in Requests, NEW p \in Providers, Switch(r, p) PROVE ShapeInv'
  <2>1. [Idle EXCEPT !.op = "switch", !.pc = "lock", !.provider = p, !.seen = journal]
            \in RequestRecords
    BY IdleShape DEF RequestRecords, Ops, Pcs, ShapeInv
  <2>2. [Idle EXCEPT !.op = "switch", !.pc = "direct", !.provider = p] \in RequestRecords
    BY IdleShape DEF RequestRecords, Ops, Pcs
  <2> QED
    BY <1>2, <2>1, <2>2, RequestShape DEF Switch, ShapeInv, Arrive
<1>3. ASSUME NEW r \in Requests, Disable(r) PROVE ShapeInv'
  <2>1. [Idle EXCEPT !.op = "disable", !.seen = journal,
                     !.pc = IF journal = NoJournal THEN "rebuild" ELSE "lock"] \in RequestRecords
    BY IdleShape DEF RequestRecords, Ops, Pcs, ShapeInv
  <2> QED
    BY <1>3, <2>1, RequestShape DEF Disable, ShapeInv, Arrive
<1>4. ASSUME NEW r \in Requests, SetToolConfig(r) PROVE ShapeInv'
  <2>1. [Idle EXCEPT !.op = "config", !.pc = "save", !.flag = enabled] \in RequestRecords
    BY IdleShape DEF RequestRecords, Ops, Pcs, ShapeInv
  <2> QED
    BY <1>4, <2>1, RequestShape DEF SetToolConfig, ShapeInv, Arrive
<1>5. ASSUME NEW r \in Requests, Acquire(r) PROVE ShapeInv'
  <2>1. "locked" \in Pcs
    BY Zenon DEF Pcs
  <2> QED
    BY <1>5, <2>1, RequestShape DEF Acquire, ShapeInv
<1>6. ASSUME NEW r \in Requests, Prepare(r) PROVE ShapeInv'
  <2> DEFINE T == Targets[request[r].provider]
  <2>1. request[r].provider \in Providers /\ T \in SUBSET Files
    BY <1>0, <1>6 DEF Prepare, At, RequestInv
  <2>2. Extended(T) \in Journals
    BY <2>1, ExtendedGood
  <2>3. [f \in T |-> content[f]] \in Images
    BY <2>1 DEF Images, ShapeInv
  <2>4. ASSUME NEW x \in Requests
        PROVE  [request[x] EXCEPT !.flag = @ \/ request[x].pc = "delete"] \in RequestRecords
    BY ZenonT(40) DEF RequestRecords, ShapeInv
  <2>5. [request[r] EXCEPT !.pc = "write", !.todo = T, !.seen = Extended(T),
                           !.before = [f \in T |-> content[f]]] \in RequestRecords
    BY Zenon, <2>1, <2>2, <2>3, RecordUpdates DEF ShapeInv, Pcs
  <2>6. request' \in [Requests -> RequestRecords]
    <3>1. CASE End(r)
      BY <3>1, RequestShape DEF ShapeInv
    <3>2. CASE request' = [x \in Requests |->
                     IF x # r THEN [request[x] EXCEPT !.flag = @ \/ request[x].pc = "delete"]
                     ELSE [request[r] EXCEPT !.pc = "write", !.todo = T,
                              !.seen = Extended(T),
                              !.before = [f \in T |-> content[f]]]]
      BY <3>2, <2>4, <2>5
    <3> QED
      BY Zenon, <1>6, <3>1, <3>2 DEF Prepare
  <2>7. journal' \in Journals /\ blurred' \subseteq Files
    BY <1>6, <2>1, <2>2 DEF Prepare, ShapeInv
  <2> QED
    BY Zenon, <1>6, <2>6, <2>7 DEF Prepare, ShapeInv
<1>7. ASSUME NEW r \in Requests, Finalize(r) PROVE ShapeInv'
  <2>1. "flag" \in Pcs /\ "route" \in Pcs
    BY DEF Pcs
  <2>2. request' \in [Requests -> RequestRecords]
    BY <1>7, <2>1, RequestShape DEF Finalize, ShapeInv
  <2> QED
    BY <1>7, <2>2, FinalizedGood DEF Finalize, ShapeInv
<1>8. ASSUME NEW r \in Requests, SetEnabled(r) PROVE ShapeInv'
  BY <1>8, RequestShape DEF SetEnabled, ShapeInv
<1>9. ASSUME NEW r \in Requests, SwitchDirect(r) PROVE ShapeInv'
  <2>1. request[r].provider \in Providers /\ "route" \in Pcs
    BY <1>9 DEF SwitchDirect, At, RequestInv, Pcs
  <2> QED
    BY <1>9, <2>1, RequestShape, WriteDirectShape DEF SwitchDirect, ShapeInv
<1>10. ASSUME NEW r \in Requests, SetRoute(r) PROVE ShapeInv'
  <2>1. request[r].provider \in Providers
    BY <1>10 DEF SetRoute, At, RequestInv
  <2> QED
    BY <1>10, <2>1, RequestShape DEF SetRoute, ShapeInv
<1>11. ASSUME NEW r \in Requests, Rebuild(r) PROVE ShapeInv'
  <2>1. active \in Providers /\ "unflag" \in Pcs
    BY DEF ShapeInv, Pcs
  <2> QED
    BY <1>11, <2>1, RequestShape, WriteDirectShape DEF Rebuild, ShapeInv
<1>12. ASSUME NEW r \in Requests, BeginRestore(r) PROVE ShapeInv'
  <2>1. DOMAIN request[r].seen \subseteq Files
    BY JournalShape DEF ShapeInv, RequestRecords
  <2>2. request' \in [Requests -> RequestRecords]
    <3>1. "restore" \in Pcs /\ request[r] \in RequestRecords
      BY Zenon DEF Pcs, ShapeInv
    <3>2. [request[r] EXCEPT !.pc = "restore", !.todo = DOMAIN request[r].seen] \in RequestRecords
      BY Zenon, <2>1, <3>1, NoJournalShape, RecordUpdates
    <3>3. request' = [request EXCEPT ![r] = [request[r] EXCEPT !.pc = "restore",
                                                               !.todo = DOMAIN request[r].seen]]
      BY <1>12 DEF BeginRestore, ShapeInv
    <3> QED
      BY <3>2, <3>3 DEF ShapeInv
  <2> QED
    BY <1>12, <2>2 DEF BeginRestore, ShapeInv
<1>13. ASSUME NEW r \in Requests, RestoreEnds(r) PROVE ShapeInv'
  <2>1. "delete" \in Pcs
    BY DEF Pcs
  <2> QED
    BY <1>13, <2>1, RequestShape DEF RestoreEnds, ShapeInv
<1>14. ASSUME NEW r \in Requests, DeleteJournal(r) PROVE ShapeInv'
  <2>1. "unflag" \in Pcs
    BY DEF Pcs
  <2> QED
    BY <1>14, <2>1, RequestShape, NoJournalShape DEF DeleteJournal, ShapeInv
<1>15. ASSUME NEW r \in Requests, ClearEnabled(r) PROVE ShapeInv'
  <2>1. "stop" \in Pcs
    BY DEF Pcs
  <2> QED
    BY <1>15, <2>1, RequestShape DEF ClearEnabled, ShapeInv
<1>16. ASSUME NEW r \in Requests, StopProxy(r) PROVE ShapeInv'
  BY <1>16, RequestShape DEF StopProxy, ShapeInv
<1>17. ASSUME NEW r \in Requests, SaveToolConfig(r) PROVE ShapeInv'
  <2>1. request[r].flag \in BOOLEAN
    BY DEF ShapeInv, RequestRecords
  <2> QED
    BY <1>17, <2>1, RequestShape DEF SaveToolConfig, ShapeInv
<1>18. ASSUME NEW r \in Requests, Fail(r) PROVE ShapeInv'
  BY <1>18, RequestShape DEF Fail, ShapeInv
<1>19. ASSUME NEW r \in Requests, NEW f \in Files, WriteFile(r, f) PROVE ShapeInv'
  <2>1. request[r].provider \in Values
    BY <1>0, <1>19 DEF WriteFile, At, RequestInv
  <2>2. content' \in [Files -> [Keys -> Values]]
    BY <1>0, <1>19, <2>1 DEF WriteFile, ShapeInv
  <2>3. request' \in [Requests -> RequestRecords]
    <3> DEFINE todo == request[r].todo \ {f}
    <3>1. request[r] \in RequestRecords /\ todo \in SUBSET Files
      BY DEF ShapeInv, RequestRecords
    <3>2. [request[r] EXCEPT !.todo = todo] \in RequestRecords
      BY <3>1 DEF RequestRecords
    <3>3. request' = [request EXCEPT ![r] = [request[r] EXCEPT !.todo = todo]]
      BY <1>19 DEF WriteFile, ShapeInv
    <3> QED
      BY <3>2, <3>3 DEF ShapeInv
  <2> QED
    BY <1>19, <2>2, <2>3 DEF WriteFile, ShapeInv
<1>20. ASSUME NEW r \in Requests, NEW f \in Files, RestoreFile(r, f) PROVE ShapeInv'
  <2>1. request[r].seen[f] \in GoodEntries
    BY <1>20, JournalShape DEF RestoreFile, At, RequestInv, ShapeInv, RequestRecords
  <2>2. content' \in [Files -> [Keys -> Values]]
    BY <1>20, <2>1, RestoredShape DEF RestoreFile, ShapeInv
  <2>3. request' \in [Requests -> RequestRecords]
    <3> DEFINE drift == request[r].drift
                        \/ \E k \in request[r].seen[f].owned : content[f][k] # request[r].seen[f].after[k]
               todo == request[r].todo \ {f}
    <3>1. request[r] \in RequestRecords /\ todo \in SUBSET Files /\ drift \in BOOLEAN
      BY Zenon DEF ShapeInv, RequestRecords
    <3>2. [request[r] EXCEPT !.todo = todo, !.drift = drift] \in RequestRecords
      BY <3>1 DEF RequestRecords
    <3>3. request' = [request EXCEPT ![r] = [request[r] EXCEPT !.todo = todo, !.drift = drift]]
      BY <1>20 DEF RestoreFile, ShapeInv
    <3> QED
      BY <3>2, <3>3 DEF ShapeInv
  <2> QED
    BY <1>20, <2>2, <2>3 DEF RestoreFile, ShapeInv
<1>21. ASSUME NEW f \in Files, NEW k \in Keys, Edit(f, k) PROVE ShapeInv'
  BY <1>0, <1>21 DEF Edit, ShapeInv
<1>22. CASE Crash
  <2>1. request' \in [Requests -> RequestRecords]
    BY <1>22, IdleShape DEF Crash
  <2>2. mishaps' \in 0..MaxMishaps
    BY <1>22 DEF Crash, ShapeInv
  <2> QED
    BY <1>22, <2>1, <2>2 DEF Crash, ShapeInv
<1>23. CASE Start
  BY <1>23 DEF Start, ShapeInv
<1>24. CASE UNCHANGED vars
  BY <1>24 DEF vars, ShapeInv
<1> QED
  BY <1>1, <1>2, <1>3, <1>4, <1>5, <1>6, <1>7, <1>8, <1>9, <1>10, <1>11, <1>12, <1>13, <1>14,
     <1>15, <1>16, <1>17, <1>18, <1>19, <1>20, <1>21, <1>22, <1>23, <1>24 DEF Next

\* A request beyond the locks.
LEMMA LeaveKeeps ==
    ASSUME request \in [Requests -> RequestRecords], NEW r \in Requests, NEW pc, Leave(r, pc)
    PROVE  /\ request'[r].op = request[r].op /\ request'[r].provider = request[r].provider
           /\ request'[r].pc = pc /\ request'[r].flag = FALSE
           /\ \A x \in Requests \ {r} : request'[x] = request[x]
<1>1. Idle.flag = FALSE
  BY DEF Idle
<1> QED
  BY <1>1, IdleShape DEF Leave, RequestRecords

\* A Prepare is refused, or it has stored the entries and begins to write.
Refused(r) ==
    IF journal = NoJournal THEN Foreign(request[r].provider) ELSE Drift(journal)
Begun(r) ==
    LET T == Targets[request[r].provider] IN
    /\ ~Refused(r) /\ journal' = Extended(T) /\ UNCHANGED <<lock, proxy>>
    /\ blurred' = blurred \cup {f \in T : Unfinished(f)}
    /\ request'[r].op = request[r].op /\ request'[r].provider = request[r].provider
    /\ request'[r].pc = "write" /\ request'[r].todo = T /\ request'[r].seen = Extended(T)
    /\ request'[r].before = [f \in T |-> content[f]]
    /\ \A x \in Requests \ {r} :
          request'[x] = [request[x] EXCEPT !.flag = @ \/ request[x].pc = "delete"]

LEMMA PrepareCases ==
    ASSUME request \in [Requests -> RequestRecords], NEW r \in Requests, Prepare(r)
    PROVE  \/ /\ End(r) /\ Release(r) /\ UNCHANGED <<journal, blurred>>
              /\ StopProxyIfIdle \/ UNCHANGED proxy
           \/ Begun(r)
<1>1. CASE Refused(r)
  BY <1>1 DEF Prepare, Refused
<1>2. CASE ~Refused(r)
  <2> DEFINE T == Targets[request[r].provider]
  <2>1. /\ journal' = Extended(T) /\ UNCHANGED <<lock, proxy>>
        /\ blurred' = blurred \cup {f \in T : Unfinished(f)}
    BY <1>2 DEF Prepare, Refused
  <2>2. request' = [x \in Requests |->
                     IF x # r THEN [request[x] EXCEPT !.flag = @ \/ request[x].pc = "delete"]
                     ELSE [request[r] EXCEPT !.pc = "write", !.todo = T,
                              !.seen = Extended(T),
                              !.before = [f \in T |-> content[f]]]]
    BY <1>2 DEF Prepare, Refused
  <2>3. request'[r] = [request[r] EXCEPT !.pc = "write", !.todo = T, !.seen = Extended(T),
                                         !.before = [f \in T |-> content[f]]]
    BY <2>2
  <2>4. request[r] \in RequestRecords
    OBVIOUS
  <2>5. /\ request'[r].op = request[r].op /\ request'[r].provider = request[r].provider
        /\ request'[r].pc = "write" /\ request'[r].todo = T /\ request'[r].seen = Extended(T)
        /\ request'[r].before = [f \in T |-> content[f]]
    BY <2>3, <2>4 DEF RequestRecords
  <2>6. \A x \in Requests \ {r} :
          request'[x] = [request[x] EXCEPT !.flag = @ \/ request[x].pc = "delete"]
    BY <2>2
  <2> QED
    BY <1>2, <2>1, <2>5, <2>6 DEF Begun
<1> QED
  BY Zenon, <1>1, <1>2

\* Who a step is about: the other requests keep their records, but that a
\* Prepare sets the flag of those about to delete a journal.
LEMMA RequestStep ==
    ShapeInv /\ (\A r \in Requests : RequestInv(r)) /\ [Next]_vars => \A r \in Requests : RequestInv(r)'
<1> SUFFICES ASSUME ShapeInv, \A r \in Requests : RequestInv(r), [Next]_vars, NEW x \in Requests
             PROVE  RequestInv(x)'
  OBVIOUS
<1> USE DEF disk, Release, StopProxyIfIdle, At, Held, Arrive, End, Goto, Leave
<1>0. request \in [Requests -> RequestRecords] /\ lock \in Requests \cup {Nobody}
  BY DEF ShapeInv
<1>1. ASSUME NEW r \in Requests, NEW p \in Providers, Enable(r, p) PROVE RequestInv(x)'
  BY <1>0, <1>1, IdleShape DEF Enable, RequestInv, RequestRecords
<1>2. ASSUME NEW r \in Requests, NEW p \in Providers, Switch(r, p) PROVE RequestInv(x)'
  <2>1. CASE Arrive(r, [Idle EXCEPT !.op = "switch", !.pc = "lock", !.provider = p,
                                    !.seen = journal])
    BY <1>0, <1>2, <2>1, IdleShape DEF Switch, RequestInv, RequestRecords
  <2>2. CASE Arrive(r, [Idle EXCEPT !.op = "switch", !.pc = "direct", !.provider = p])
    BY <1>0, <1>2, <2>2, IdleShape DEF Switch, RequestInv, RequestRecords
  <2> QED
    BY <1>2, <2>1, <2>2 DEF Switch
<1>3. ASSUME NEW r \in Requests, Disable(r) PROVE RequestInv(x)'
  BY <1>0, <1>3, IdleShape DEF Disable, RequestInv, RequestRecords
<1>4. ASSUME NEW r \in Requests, SetToolConfig(r) PROVE RequestInv(x)'
  BY <1>0, <1>4, IdleShape DEF SetToolConfig, RequestInv, RequestRecords
<1>5. ASSUME NEW r \in Requests, Acquire(r) PROVE RequestInv(x)'
  <2>1. CASE lock' = r /\ Goto(r, "locked")
    BY <1>0, <1>5, <2>1 DEF Acquire, RequestInv, RequestRecords
  <2>2. CASE lock' = lock /\ End(r)
    BY <1>0, <1>5, <2>2, IdleShape DEF Acquire, RequestInv
  <2> QED
    BY <1>5, <2>1, <2>2 DEF Acquire
<1>6. ASSUME NEW r \in Requests, Prepare(r) PROVE RequestInv(x)'
  <2> DEFINE T == Targets[request[r].provider]
  <2>1. /\ lock = r /\ up /\ up' = up /\ request[r].provider \in Providers /\ T \subseteq Files
        /\ request[r].op # "none"
    BY <1>6 DEF Prepare, RequestInv
  <2>2. CASE End(r) /\ Release(r)
    BY <1>0, <2>1, <2>2, IdleShape DEF RequestInv
  <2>3. CASE Begun(r)
    <3>1. CASE x = r
      <4>1. /\ request'[r].pc = "write" /\ request'[r].todo = T /\ request'[r].seen = Extended(T)
            /\ DOMAIN request'[r].before = T /\ lock' = lock
            /\ request'[r].op = request[r].op /\ request'[r].provider = request[r].provider
        BY <2>3 DEF Begun
      <4>2. T \subseteq DOMAIN Extended(T)
        BY <2>1, ExtendedGood
      <4> QED
        BY <2>1, <3>1, <4>1, <4>2 DEF RequestInv
    <3>2. CASE x # r
      <4>1. /\ request'[x] = [request[x] EXCEPT !.flag = @ \/ request[x].pc = "delete"]
            /\ lock' = lock
        BY <2>3, <3>2 DEF Begun
      <4>2. CASE request[x] = Idle
        <5>1. request'[x] = Idle
          BY <4>1, <4>2, IdleUnflagged
        <5> QED
          BY <2>1, <3>2, <5>1, <4>1, <4>2 DEF RequestInv
      <4>3. CASE request[x] # Idle
        <5>1. /\ request'[x].op = request[x].op /\ request'[x].pc = request[x].pc
              /\ request'[x].provider = request[x].provider /\ request'[x].seen = request[x].seen
              /\ request'[x].before = request[x].before /\ request'[x].todo = request[x].todo
          BY <1>0, <4>1 DEF RequestRecords
        <5> QED
          BY <2>1, <3>2, <4>1, <4>3, <5>1 DEF RequestInv
      <4> QED
        BY <4>2, <4>3
    <3> QED
      BY <3>1, <3>2
  <2> QED
    BY <1>0, <1>6, <2>2, <2>3, PrepareCases
<1>7. ASSUME NEW r \in Requests, Finalize(r) PROVE RequestInv(x)'
  <2>1. lock = r /\ lock' = Nobody /\ up' = up
    BY <1>7 DEF Finalize, RequestInv
  <2>2. CASE End(r)
    BY <1>0, <2>1, <2>2, IdleShape DEF RequestInv
  <2>3. CASE Leave(r, "flag") \/ Leave(r, "route")
    <3>1. /\ request[r].op # "none" /\ up
          /\ request[r].op \in {"enable", "switch"} => request[r].provider \in Providers
      BY <1>7 DEF Finalize, RequestInv
    <3>2. /\ request'[r].op = request[r].op /\ request'[r].provider = request[r].provider
          /\ request'[r].pc \in {"flag", "route"}
          /\ \A y \in Requests \ {r} : request'[y] = request[y]
      BY <1>0, <2>3, LeaveKeeps
    <3> QED
      BY <2>1, <3>1, <3>2 DEF RequestInv
  <2> QED
    BY <1>7, <2>2, <2>3 DEF Finalize
<1>8. ASSUME NEW r \in Requests, SetEnabled(r) PROVE RequestInv(x)'
  BY <1>0, <1>8, IdleShape DEF SetEnabled, RequestInv, RequestRecords
<1>9. ASSUME NEW r \in Requests, SwitchDirect(r) PROVE RequestInv(x)'
  BY <1>0, <1>9, IdleShape DEF SwitchDirect, RequestInv, RequestRecords
<1>10. ASSUME NEW r \in Requests, SetRoute(r) PROVE RequestInv(x)'
  BY <1>0, <1>10, IdleShape DEF SetRoute, RequestInv, RequestRecords
<1>11. ASSUME NEW r \in Requests, Rebuild(r) PROVE RequestInv(x)'
  BY <1>0, <1>11, IdleShape DEF Rebuild, RequestInv, RequestRecords
<1>12. ASSUME NEW r \in Requests, BeginRestore(r) PROVE RequestInv(x)'
  BY <1>0, <1>12, IdleShape DEF BeginRestore, RequestInv, RequestRecords
<1>13. ASSUME NEW r \in Requests, RestoreEnds(r) PROVE RequestInv(x)'
  <2>1. lock = r /\ lock' = Nobody /\ up' = up
    BY <1>13 DEF RestoreEnds, RequestInv
  <2>2. CASE End(r)
    BY <1>0, <2>1, <2>2, IdleShape DEF RequestInv
  <2>3. CASE Leave(r, "delete")
    BY <1>0, <1>13, <2>1, <2>3, IdleShape DEF RestoreEnds, RequestInv, RequestRecords
  <2> QED
    BY <1>13, <2>2, <2>3 DEF RestoreEnds
<1>14. ASSUME NEW r \in Requests, DeleteJournal(r) PROVE RequestInv(x)'
  BY <1>0, <1>14, IdleShape DEF DeleteJournal, RequestInv, RequestRecords
<1>15. ASSUME NEW r \in Requests, ClearEnabled(r) PROVE RequestInv(x)'
  BY <1>0, <1>15, IdleShape DEF ClearEnabled, RequestInv, RequestRecords
<1>16. ASSUME NEW r \in Requests, StopProxy(r) PROVE RequestInv(x)'
  BY <1>0, <1>16, IdleShape DEF StopProxy, RequestInv, RequestRecords
<1>17. ASSUME NEW r \in Requests, SaveToolConfig(r) PROVE RequestInv(x)'
  BY <1>0, <1>17, IdleShape DEF SaveToolConfig, RequestInv, RequestRecords
<1>18. ASSUME NEW r \in Requests, Fail(r) PROVE RequestInv(x)'
  BY <1>0, <1>18, IdleShape DEF Fail, RequestInv, RequestRecords
<1>19. ASSUME NEW r \in Requests, NEW f \in Files, WriteFile(r, f) PROVE RequestInv(x)'
  BY <1>0, <1>19, IdleShape DEF WriteFile, RequestInv, RequestRecords
<1>20. ASSUME NEW r \in Requests, NEW f \in Files, RestoreFile(r, f) PROVE RequestInv(x)'
  BY <1>0, <1>20, IdleShape DEF RestoreFile, RequestInv, RequestRecords
<1>21. ASSUME NEW f \in Files, NEW k \in Keys, Edit(f, k) PROVE RequestInv(x)'
  BY <1>0, <1>21, IdleShape DEF Edit, RequestInv
<1>22. CASE Crash
  BY <1>0, <1>22, IdleShape DEF Crash, RequestInv
<1>23. CASE Start
  BY <1>0, <1>23, IdleShape DEF Start, RequestInv
<1>24. CASE UNCHANGED vars
  BY <1>0, <1>24, IdleShape DEF vars, RequestInv

<1> QED
  BY <1>1, <1>2, <1>3, <1>4, <1>5, <1>6, <1>7, <1>8, <1>9, <1>10, <1>11, <1>12, <1>13, <1>14,
     <1>15, <1>16, <1>17, <1>18, <1>19, <1>20, <1>21, <1>22, <1>23, <1>24 DEF Next

LEMMA TakeoverStep == TakeoverInv /\ [Next]_vars => TakeoverInv'
BY ShapeStep, RequestStep DEF TakeoverInv

LEMMA TakeoverAlways == Spec => []TakeoverInv
BY TakeoverInit, TakeoverStep, PTL DEF Spec

\* Every reachable state is well typed, and the lock is held by exactly the
\* request that is between Acquire and its release (withLiveFileLocks).
THEOREM TakeoverTypeCorrect == Spec => []TypeOK
<1>1. TakeoverInv => TypeOK
  BY JournalShape DEF TakeoverInv, ShapeInv, RequestInv, TypeOK, RequestRecords, GoodEntries, Ops, Held
<1> QED
  BY <1>1, TakeoverAlways, PTL

-----------------------------------------------------------------------------
(* An enabled tool is served.                                              *)

LEMMA ServedInit == Init => ServedInv
BY IdleShape DEF Init, ServedInv, EnabledIsServed

\* A step that begins a request: it overlaps unless all others are idle.
LEMMA ServedArrive ==
    ASSUME TakeoverInv, ServedInv, NEW r \in Requests, NEW new \in RequestRecords, Arrive(r, new),
           new.op = "enable" => proxy', new.op = "config" => new.flag = enabled',
           proxy => proxy', enabled' = enabled, up' = up
    PROVE  ServedInv'
<1>1. /\ request \in [Requests -> RequestRecords] /\ enabled \in BOOLEAN
      /\ request' = [request EXCEPT ![r] = new] /\ request[r] = Idle
  BY DEF TakeoverInv, ShapeInv, Arrive
<1>2. CASE overlapped'
  BY <1>2 DEF ServedInv, EnabledIsServed
<1>3. CASE ~overlapped'
  <2>1. ~overlapped /\ \A x \in Requests : request[x] = Idle
    BY <1>3 DEF Arrive, TakeoverInv, ShapeInv
  <2> QED
    BY <1>1, <1>3, <2>1, IdleShape DEF ServedInv, EnabledIsServed
<1> QED
  BY <1>2, <1>3

\* A step of one request alone.
LEMMA ServedAlone ==
    ASSUME TakeoverInv, ServedInv, NEW r \in Requests, request[r] # Idle, overlapped' = overlapped,
           \A x \in Requests : x # r /\ request[x] = Idle => request'[x] = Idle,
           ~overlapped => (request'[r].op = "enable" => proxy'),
           ~overlapped => (request'[r].op = "config" => request'[r].flag = enabled'),
           ~overlapped => EnabledIsServed'
    PROVE  ServedInv'
<1>1. CASE overlapped
  BY <1>1 DEF ServedInv, EnabledIsServed
<1>2. CASE ~overlapped
  <2>1. \A x \in Requests \ {r} : request'[x] = Idle
    BY <1>2 DEF ServedInv
  <2> QED
    BY <1>2, <2>1, IdleShape DEF ServedInv
<1> QED
  BY <1>1, <1>2 DEF TakeoverInv, ShapeInv

LEMMA ServedStep == ASSUME TakeoverInv, ServedInv, [Next]_vars PROVE ServedInv'
<1> USE DEF disk, Release, StopProxyIfIdle
<1>0. /\ request \in [Requests -> RequestRecords] /\ enabled \in BOOLEAN /\ proxy \in BOOLEAN
      /\ overlapped \in BOOLEAN /\ up \in BOOLEAN
      /\ \A r \in Requests : request[r] = Idle \/ (request[r].op # "none" /\ request[r].pc # "idle" /\ up)
  BY DEF TakeoverInv, ShapeInv, RequestInv
<1>1. ASSUME NEW r \in Requests, NEW p \in Providers, Enable(r, p) PROVE ServedInv'
  <2> DEFINE new == [Idle EXCEPT !.op = "enable", !.pc = "lock", !.provider = p, !.seen = journal]
  <2>1. new \in RequestRecords /\ new.op = "enable"
    BY IdleShape DEF RequestRecords, Ops, Pcs, TakeoverInv, ShapeInv
  <2> QED
    BY <1>1, <2>1, ServedArrive DEF Enable
<1>2. ASSUME NEW r \in Requests, NEW p \in Providers, Switch(r, p) PROVE ServedInv'
  <2>1. /\ [Idle EXCEPT !.op = "switch", !.pc = "lock", !.provider = p, !.seen = journal]
               \in RequestRecords
        /\ [Idle EXCEPT !.op = "switch", !.pc = "lock", !.provider = p, !.seen = journal].op = "switch"
    BY IdleShape DEF RequestRecords, Ops, Pcs, TakeoverInv, ShapeInv
  <2>2. /\ [Idle EXCEPT !.op = "switch", !.pc = "direct", !.provider = p] \in RequestRecords
        /\ [Idle EXCEPT !.op = "switch", !.pc = "direct", !.provider = p].op = "switch"
    BY IdleShape DEF RequestRecords, Ops, Pcs
  <2> QED
    BY <1>2, <2>1, <2>2, ServedArrive DEF Switch
<1>3. ASSUME NEW r \in Requests, Disable(r) PROVE ServedInv'
  <2> DEFINE new == [Idle EXCEPT !.op = "disable", !.seen = journal,
                                 !.pc = IF journal = NoJournal THEN "rebuild" ELSE "lock"]
  <2>1. new \in RequestRecords /\ new.op = "disable"
    BY IdleShape DEF RequestRecords, Ops, Pcs, TakeoverInv, ShapeInv
  <2> QED
    BY <1>3, <2>1, ServedArrive DEF Disable
<1>4. ASSUME NEW r \in Requests, SetToolConfig(r) PROVE ServedInv'
  <2> DEFINE new == [Idle EXCEPT !.op = "config", !.pc = "save", !.flag = enabled]
  <2>1. new \in RequestRecords /\ new.op = "config" /\ new.flag = enabled
    BY <1>0, IdleShape DEF RequestRecords, Ops, Pcs
  <2> QED
    BY <1>4, <2>1, ServedArrive DEF SetToolConfig
<1>5. ASSUME NEW r \in Requests, 
             \/ Acquire(r) \/ Finalize(r) \/ SetEnabled(r) \/ SwitchDirect(r) \/ SetRoute(r)
             \/ Rebuild(r) \/ BeginRestore(r) \/ RestoreEnds(r) \/ DeleteJournal(r)
             \/ ClearEnabled(r) \/ StopProxy(r) \/ SaveToolConfig(r) \/ Fail(r)
             \/ \E f \in Files : WriteFile(r, f) \/ RestoreFile(r, f)
      PROVE ServedInv'
  <2>1. /\ request[r] # Idle /\ overlapped' = overlapped /\ request[r].op # "none" /\ up' = up
        /\ \A x \in Requests \ {r} : request'[x] = request[x]
    BY <1>0, <1>5, IdleShape DEF Acquire, Finalize, SetEnabled, SwitchDirect, SetRoute, Rebuild,
       BeginRestore, RestoreEnds, DeleteJournal, ClearEnabled, StopProxy, SaveToolConfig, Fail,
       WriteFile, RestoreFile, At, End, Goto, Leave
  <2> DEFINE Fine == ~overlapped =>
                 /\ request'[r].op = "enable" => proxy'
                 /\ request'[r].op = "config" => request'[r].flag = enabled'
                 /\ up' /\ enabled' => proxy'
  <2>2. ~overlapped =>
            /\ request[r].op = "enable" => proxy
            /\ request[r].op = "config" => request[r].flag = enabled
            /\ up /\ enabled => proxy
    BY DEF ServedInv, EnabledIsServed
  <2>3. ASSUME Acquire(r) PROVE Fine
    BY <1>0, <2>2, <2>3, IdleShape DEF Acquire, At, End, Goto, Leave, RequestRecords
  <2>4. ASSUME Finalize(r) PROVE Fine
    <3>1. up' = up /\ enabled' = enabled /\ request[r].op \in {"enable", "switch"}
      BY <2>4 DEF Finalize, At
    <3>2. CASE End(r)
      BY <1>0, <2>2, <2>4, <3>1, <3>2, IdleShape DEF Finalize, End
    <3>3. CASE (Leave(r, "flag") \/ Leave(r, "route")) /\ proxy' = proxy
      <4>1. request'[r].op = request[r].op
        BY <1>0, <3>3, LeaveKeeps
      <4> QED
        BY <2>2, <3>1, <3>3, <4>1
    <3> QED
      BY <2>4, <3>2, <3>3 DEF Finalize
  <2>5. ASSUME SetEnabled(r) PROVE Fine
    BY <1>0, <2>2, <2>5, IdleShape DEF SetEnabled, At, End, Goto, Leave, RequestRecords
  <2>6. ASSUME SwitchDirect(r) PROVE Fine
    BY <1>0, <2>2, <2>6, IdleShape DEF SwitchDirect, At, End, Goto, Leave, RequestRecords
  <2>7. ASSUME SetRoute(r) PROVE Fine
    BY <1>0, <2>2, <2>7, IdleShape DEF SetRoute, At, End, Goto, Leave, RequestRecords
  <2>8. ASSUME Rebuild(r) PROVE Fine
    BY <1>0, <2>2, <2>8, IdleShape DEF Rebuild, At, End, Goto, Leave, RequestRecords
  <2>9. ASSUME BeginRestore(r) PROVE Fine
    BY <1>0, <2>2, <2>9, IdleShape DEF BeginRestore, At, End, Goto, Leave, RequestRecords
  <2>10. ASSUME RestoreEnds(r) PROVE Fine
    <3>1. request[r].op = "disable" /\ UNCHANGED <<up, enabled, proxy>>
      BY <2>10 DEF RestoreEnds, At
    <3>2. request'[r].op \in {"disable", "none"}
      BY <1>0, <2>10, <3>1, IdleShape, LeaveKeeps DEF RestoreEnds, End
    <3> QED
      BY <2>2, <3>1, <3>2
  <2>11. ASSUME DeleteJournal(r) PROVE Fine
    BY <1>0, <2>2, <2>11, IdleShape DEF DeleteJournal, At, End, Goto, Leave, RequestRecords
  <2>12. ASSUME ClearEnabled(r) PROVE Fine
    BY <1>0, <2>2, <2>12, IdleShape DEF ClearEnabled, At, End, Goto, Leave, RequestRecords
  <2>13. ASSUME StopProxy(r) PROVE Fine
    BY <1>0, <2>2, <2>13, IdleShape DEF StopProxy, At, End, Goto, Leave, RequestRecords
  <2>14. ASSUME SaveToolConfig(r) PROVE Fine
    BY <1>0, <2>2, <2>14, IdleShape DEF SaveToolConfig, At, End, Goto, Leave, RequestRecords
  <2>15. ASSUME Fail(r) PROVE Fine
    BY <1>0, <2>2, <2>15, IdleShape DEF Fail, At, End, Goto, Leave, RequestRecords
  <2>16. ASSUME NEW f \in Files, WriteFile(r, f) PROVE Fine
    BY <1>0, <2>2, <2>16 DEF WriteFile, At, RequestRecords
  <2>17. ASSUME NEW f \in Files, RestoreFile(r, f) PROVE Fine
    BY <1>0, <2>2, <2>17 DEF RestoreFile, At, RequestRecords
  <2>18. Fine
    BY <1>5, <2>3, <2>4, <2>5, <2>6, <2>7, <2>8, <2>9, <2>10, <2>11, <2>12, <2>13, <2>14, <2>15, <2>16, <2>17
  <2> QED
    BY <2>1, <2>18, IdleShape, ServedAlone DEF EnabledIsServed
<1>6. ASSUME NEW r \in Requests, Prepare(r) PROVE ServedInv'
  <2>1. /\ request[r] # Idle /\ overlapped' = overlapped /\ up' = up /\ enabled' = enabled
        /\ request[r].op \in {"enable", "switch"}
    BY <1>6, IdleShape DEF Prepare, At
  <2>2. \A x \in Requests : x # r /\ request[x] = Idle => request'[x] = Idle
    <3>1. CASE End(r)
      BY <1>0, <3>1 DEF End
    <3>2. CASE Begun(r)
      <4> SUFFICES ASSUME NEW x \in Requests, x # r, request[x] = Idle PROVE request'[x] = Idle
        OBVIOUS
      <4>1. request'[x] = [request[x] EXCEPT !.flag = @ \/ request[x].pc = "delete"]
        BY <3>2 DEF Begun
      <4> QED
        BY <4>1, IdleUnflagged
    <3> QED
      BY <1>0, <1>6, <3>1, <3>2, PrepareCases
  <2>3. \/ request'[r].op = request[r].op /\ proxy' = proxy
        \/ request'[r] = Idle /\ (proxy' = proxy \/ proxy' = (proxy /\ enabled))
    BY <1>0, <1>6, PrepareCases DEF Begun, End
  <2>4. ~overlapped => /\ request[r].op = "enable" => proxy
                       /\ up /\ enabled => proxy
    BY DEF ServedInv, EnabledIsServed
  <2>5. ~overlapped => /\ request'[r].op = "enable" => proxy'
                       /\ request'[r].op # "config"
                       /\ up' /\ enabled' => proxy'
    BY <1>0, <2>1, <2>3, <2>4, IdleShape
  <2> QED
    BY Zenon, <2>1, <2>2, <2>5, ServedAlone DEF EnabledIsServed
<1>7. ASSUME NEW f \in Files, NEW k \in Keys, Edit(f, k) PROVE ServedInv'
  BY <1>7 DEF Edit, ServedInv, EnabledIsServed
<1>8. CASE Crash
  BY <1>8, IdleShape DEF Crash, ServedInv, EnabledIsServed
<1>9. CASE Start
  <2>1. \A r \in Requests : request[r] = Idle
    BY <1>0, <1>9 DEF Start
  <2> QED
    BY <1>0, <1>9, <2>1, IdleShape DEF Start, ServedInv, EnabledIsServed
<1>10. CASE UNCHANGED vars
  BY <1>10 DEF vars, ServedInv, EnabledIsServed
<1> QED
  BY <1>1, <1>2, <1>3, <1>4, <1>5, <1>6, <1>7, <1>8, <1>9, <1>10 DEF Next

\* The proxy listens for an enabled tool as long as no two requests have
\* overlapped since the start, whatever failed and wherever the daemon died
\* (EnableTakeover, DisableTakeover, SetToolConfig, RestoreProxyState).
THEOREM TakeoverServes == Spec => []EnabledIsServed
<1>1. ServedInv => EnabledIsServed
  BY DEF ServedInv
<1> QED
  BY <1>1, ServedInit, ServedStep, TakeoverAlways, PTL DEF Spec

-----------------------------------------------------------------------------
(* The user's configuration is kept.                                       *)

LEMMA KeptInit == Init => KeptInv
<1> SUFFICES ASSUME Init PROVE KeptInv
  OBVIOUS
<1>1. DOMAIN journal = {} /\ content = mine /\ \A r \in Requests : request[r].pc = "idle"
  BY NoJournalShape, IdleShape DEF Init
<1> QED
  BY <1>1 DEF KeptInv, Kept

\* Nobody but the holder of the lock is at one of its steps.
LEMMA OneHolder ==
    ASSUME TakeoverInv, NEW r \in Requests, NEW x \in Requests, request[r].pc \in Held,
           request[x].pc \in Held
    PROVE  r = x /\ lock = r /\ lock # Nobody
BY DEF TakeoverInv, RequestInv

\* A step that leaves the files and the journal, and takes one request
\* somewhere else.
LEMMA KeptElsewhere ==
    ASSUME TakeoverInv, KeptInv, UNCHANGED <<content, mine, journal, blurred>>, NEW r \in Requests,
           \A x \in Requests \ {r} : request'[x] = request[x],
           request'[r].pc \notin Held \cup {"delete"}
    PROVE  KeptInv'
<1>1. Kept(journal)'
  BY DEF KeptInv, Kept, Sound
<1>2. ASSUME NEW x \in Requests, x # r
      PROVE  /\ request'[x].pc \in {"locked", "restore"} => Kept(request[x].seen)'
             /\ request'[x].pc = "write" => WriteInv(x)'
             /\ request'[x].pc = "restore" => RestoreInv(x)'
             /\ request'[x].pc = "delete" => DeleteInv(x)'
  <2>1. request'[x] = request[x]
    BY <1>2
  <2>2. request[x].pc \in {"locked", "restore"} => Kept(request[x].seen)'
    BY <2>1 DEF KeptInv, Kept, Sound
  <2>3. request[x].pc = "write" => WriteInv(x)'
    BY <2>1 DEF KeptInv, WriteInv, Held
  <2>4. request[x].pc = "restore" => RestoreInv(x)'
    BY <2>1 DEF KeptInv, RestoreInv
  <2>5. request[x].pc = "delete" => DeleteInv(x)'
    BY <2>1 DEF KeptInv, DeleteInv
  <2> QED
    BY <2>1, <2>2, <2>3, <2>4, <2>5
<1> QED
  BY <1>1, <1>2 DEF KeptInv, Held

\* A write by the user, or for the user: what is written is what should be
\* there, and a file that is locked or has an unfinished entry is excepted.
LEMMA KeptUserWrite ==
    ASSUME TakeoverInv, KeptInv, UNCHANGED journal, blurred \subseteq blurred',
           blurred' \subseteq Files,
           \A f \in Files \ blurred' : \A k \in Keys :
              \/ content'[f][k] = mine'[f][k]
              \/ content'[f][k] = content[f][k] /\ mine'[f][k] = mine[f][k],
           \A f \in Files \ blurred' : lock # Nobody \/ Unfinished(f) =>
              content'[f] = content[f] /\ mine'[f] = mine[f],
           \A x \in Requests : \/ request'[x] = request[x]
                               \/ request'[x].pc \notin Held \cup {"delete"}
    PROVE  KeptInv'
<1>0. "managed" \in Keys /\ "other" \in Keys
  BY DEF Keys
<1>1. Kept(journal)'
  BY <1>0 DEF KeptInv, Kept, Sound, Unfinished
<1>2. ASSUME NEW x \in Requests
      PROVE  /\ request'[x].pc \in {"locked", "restore"} => Kept(request[x].seen)'
             /\ request'[x].pc = "write" => WriteInv(x)'
             /\ request'[x].pc = "restore" => RestoreInv(x)'
             /\ request'[x].pc = "delete" => DeleteInv(x)'
  <2> SUFFICES ASSUME request'[x] = request[x]
               PROVE  /\ request[x].pc \in {"locked", "restore"} => Kept(request[x].seen)'
                      /\ request[x].pc = "write" => WriteInv(x)'
                      /\ request[x].pc = "restore" => RestoreInv(x)'
                      /\ request[x].pc = "delete" => DeleteInv(x)'
    BY <1>2 DEF Held
  <2>1. request[x].pc \in Held =>
            \A f \in Files \ blurred' : content'[f] = content[f] /\ mine'[f] = mine[f]
    BY OneHolder
  <2>2. request[x].pc \in {"locked", "restore"} => Kept(request[x].seen)'
    BY <2>1 DEF KeptInv, Kept, Sound, Held
  <2>3. request[x].pc = "write" => WriteInv(x)'
    <3> SUFFICES ASSUME request[x].pc = "write" PROVE WriteInv(x)'
      OBVIOUS
    <3>1. WriteInv(x)
      BY DEF KeptInv
    <3>2. DOMAIN request[x].before \subseteq Files
      BY ImageShape DEF TakeoverInv, ShapeInv, RequestRecords
    <3>3. (blurred = Files \/ journal = request[x].seen)'
      BY <3>1 DEF WriteInv
    <3>4. \A y \in Requests : request'[y].pc = "delete" => request'[y].flag
      BY <3>1 DEF WriteInv, Held
    <3> QED
      BY <2>1, <3>1, <3>2, <3>3, <3>4 DEF WriteInv, Held
  <2>4. request[x].pc = "restore" => RestoreInv(x)'
    BY <2>1 DEF KeptInv, RestoreInv, Held
  <2>5. request[x].pc = "delete" => DeleteInv(x)'
    BY <1>0 DEF KeptInv, DeleteInv
  <2> QED
    BY <2>2, <2>3, <2>4, <2>5
<1> QED
  BY <1>1, <1>2 DEF KeptInv, Held

\* What belongs to the user is never a route of ours.
LEMMA MineIsNotOurs ==
    ASSUME TakeoverInv, NEW f \in Files
    PROVE  mine[f]["managed"] \notin Providers
BY DEF TakeoverInv, ShapeInv, Keys

\* New entries hold what is in the files, which is the user's.
LEMMA KeptPrepare ==
    ASSUME TakeoverInv, KeptInv, NEW r \in Requests, request[r].pc = "locked",
           request[r].op \in {"enable", "switch"}, Begun(r), UNCHANGED disk
    PROVE  KeptInv'
<1> DEFINE T == Targets[request[r].provider]
<1> USE DEF disk
<1>0. /\ request \in [Requests -> RequestRecords] /\ request[r].provider \in Providers
      /\ T \in SUBSET Files /\ "managed" \in Keys
      /\ "other" \in Keys /\ \A k \in Keys : k = "managed" \/ k = "other"
  BY DEF TakeoverInv, ShapeInv, RequestInv, Keys
<1>1. /\ journal' = Extended(T) /\ request'[r].pc = "write" /\ request'[r].seen = Extended(T)
      /\ request'[r].before = [f \in T |-> content[f]] /\ request'[r].todo = T
      /\ blurred' = blurred \cup {f \in T : Unfinished(f)} /\ ~Refused(r)
  BY DEF Begun
<1>2. DOMAIN Extended(T) = DOMAIN journal \cup T /\ DOMAIN journal \subseteq Files
  BY <1>0, ExtendedGood, JournalShape DEF TakeoverInv, ShapeInv
<1>3. \A f \in DOMAIN journal : Extended(T)[f] = journal[f]
  BY DEF Extended
<1>4. ASSUME NEW f \in T \ DOMAIN journal
      PROVE  Extended(T)[f].done = FALSE /\ Extended(T)[f].before = content[f]
  BY DEF Extended, Snapshot
<1>5. Kept(journal)
  BY DEF KeptInv
<1>6. ASSUME NEW f \in T \ (DOMAIN journal \cup blurred)
      PROVE  \A k \in Keys : content[f][k] = mine[f][k]
  BY <1>0, <1>5 DEF Kept
<1>7. Kept(journal)'
  <2> SUFFICES ASSUME NEW f \in Files \ blurred'
               PROVE  /\ content[f]["other"] = mine[f]["other"]
                      /\ f \notin DOMAIN Extended(T) => content[f]["managed"] = mine[f]["managed"]
                      /\ f \in DOMAIN Extended(T) => Sound(Extended(T)[f], f)
    BY Zenon, <1>1 DEF Kept, Sound
  <2>1. f \in Files \ blurred
    BY <1>1
  <2>2. CASE f \in DOMAIN journal
    BY <1>2, <1>3, <1>5, <2>1, <2>2 DEF Kept
  <2>3. CASE f \notin DOMAIN journal
    <3>1. CASE f \in T
      <4>1. /\ Extended(T)[f].done = FALSE /\ Extended(T)[f].before = content[f]
            /\ \A k \in Keys : content[f][k] = mine[f][k]
        BY <1>4, <1>6, <2>1, <2>3, <3>1
      <4>2. Sound(Extended(T)[f], f)
        BY <4>1 DEF Sound
      <4> QED
        BY <1>0, <1>2, <4>1, <4>2
    <3>2. CASE f \notin T
      BY <1>2, <1>5, <2>1, <2>3, <3>2 DEF Kept
    <3> QED
      BY <3>1, <3>2
  <2> QED
    BY Zenon, <2>2, <2>3
<1>8. WriteInv(r)'
  <2>1. \A x \in Requests : request'[x].pc = "delete" => request'[x].flag
    <3> SUFFICES ASSUME NEW x \in Requests, x # r, request'[x].pc = "delete"
                 PROVE  request'[x].flag
      BY <1>1
    <3>1. request'[x] = [request[x] EXCEPT !.flag = @ \/ request[x].pc = "delete"]
      BY DEF Begun
    <3>2. request'[x].pc = request[x].pc /\ (request[x].pc = "delete" => request'[x].flag)
      BY <1>0, <3>1, FlagRaised
    <3> QED
      BY <3>2
  <2>2. ASSUME NEW f \in T \ blurred'
        PROVE  /\ Extended(T)[f].before["managed"] = mine[f]["managed"]
               /\ content[f]["other"] = mine[f]["other"]
               /\ ~Extended(T)[f].done => content[f]["managed"] = mine[f]["managed"]
    <3>1. f \in Files \ blurred /\ ~Unfinished(f)
      BY <1>0, <1>1
    <3>2. CASE f \notin DOMAIN journal
      <4>1. /\ Extended(T)[f].done = FALSE /\ Extended(T)[f].before = content[f]
            /\ \A k \in Keys : content[f][k] = mine[f][k]
        BY <1>4, <1>6, <3>1, <3>2
      <4> QED
        BY <1>0, <4>1
    <3>3. CASE f \in DOMAIN journal
      <4>1. journal[f].done /\ Sound(journal[f], f) /\ content[f]["other"] = mine[f]["other"]
        BY <1>5, <3>1, <3>3 DEF Unfinished, Kept
      <4>2. ~Drift(journal)
        BY <1>1, <3>3, NoJournalShape DEF Refused
      <4>3. content[f]["managed"] = journal[f].after["managed"]
        BY <3>3, <4>1, <4>2 DEF Drift, Sound
      <4>4. journal[f].before["managed"] = mine[f]["managed"]
        BY <3>1, <4>1, <4>3, MineIsNotOurs DEF Sound
      <4> QED
        BY <1>3, <3>3, <4>1, <4>4
    <3> QED
      BY <3>2, <3>3
  <2> QED
    BY <1>1, <2>1, <2>2 DEF WriteInv
<1>9. ASSUME NEW x \in Requests, x # r
      PROVE  request'[x].pc \notin Held /\ (request'[x].pc = "delete" => DeleteInv(x)')
  <2>1. request'[x] = [request[x] EXCEPT !.flag = @ \/ request[x].pc = "delete"]
    BY <1>9 DEF Begun
  <2>2. request'[x].pc = request[x].pc /\ (request[x].pc = "delete" => request'[x].flag)
    BY <1>0, <2>1, FlagRaised
  <2>3. request[x].pc \notin Held
    BY <1>9, OneHolder DEF Held
  <2> QED
    BY <2>2, <2>3 DEF DeleteInv
<1> QED
  BY <1>1, <1>7, <1>8, <1>9 DEF KeptInv, Held

\* A file is rewritten only where the entry knows what was there.
LEMMA KeptWriteFile ==
    ASSUME TakeoverInv, KeptInv, NEW r \in Requests, NEW g \in Files, WriteFile(r, g)
    PROVE  KeptInv'
<1> USE DEF disk
<1>0. /\ request \in [Requests -> RequestRecords] /\ request[r].pc = "write" /\ g \in request[r].todo
      /\ "managed" \in Keys /\ "other" \in Keys /\ content \in [Files -> [Keys -> Values]]
      /\ request[r].todo \subseteq DOMAIN request[r].before
      /\ DOMAIN request[r].before \subseteq DOMAIN request[r].seen
  BY DEF WriteFile, At, TakeoverInv, ShapeInv, RequestInv, Keys
<1>1. /\ UNCHANGED <<mine, journal, blurred>>
      /\ \A f \in Files : content'[f]["other"] = content[f]["other"]
      /\ \A f \in Files \ {g} : content'[f] = content[f]
      /\ content'[g]["managed"] = request[r].provider
  BY <1>0 DEF WriteFile
<1>2. /\ \A x \in Requests \ {r} : request'[x] = request[x]
      /\ request'[r] = [request[r] EXCEPT !.todo = @ \ {g}]
  BY <1>0 DEF WriteFile
<1>3. /\ request'[r].todo = request[r].todo \ {g} /\ request'[r].pc = "write"
      /\ request'[r].seen = request[r].seen /\ request'[r].before = request[r].before
      /\ request'[r].provider = request[r].provider /\ request'[r].flag = request[r].flag
  BY <1>0, <1>2 DEF RequestRecords
<1>4. WriteInv(r) /\ Kept(journal)
  BY <1>0 DEF KeptInv
<1>5. WriteInv(r)'
  <2>1. \A x \in Requests : request'[x].pc = "delete" => request'[x].flag
    BY <1>0, <1>2, <1>3, <1>4 DEF WriteInv
  <2>2. DOMAIN request[r].before \subseteq Files
    BY <1>0, ImageShape DEF RequestRecords
  <2> QED
    BY <1>1, <1>3, <1>4, <2>1, <2>2 DEF WriteInv
<1>6. Kept(journal)'
  <2> SUFFICES ASSUME NEW f \in Files \ blurred
               PROVE  /\ content'[f]["other"] = mine[f]["other"]
                      /\ f \notin DOMAIN journal => content'[f]["managed"] = mine[f]["managed"]
                      /\ f \in DOMAIN journal => Sound(journal[f], f)'
    BY <1>1 DEF Kept
  <2>1. CASE f = g
    <3>1. f \in DOMAIN journal /\ journal[f].before["managed"] = mine[f]["managed"]
      BY <1>0, <1>4, <2>1 DEF WriteInv
    <3> QED
      BY <1>1, <1>4, <2>1, <3>1 DEF Kept, Sound
  <2>2. CASE f # g
    BY <1>1, <1>4, <2>2 DEF Kept, Sound
  <2> QED
    BY <2>1, <2>2
<1>7. ASSUME NEW x \in Requests, x # r
      PROVE  request'[x].pc \notin Held /\ (request'[x].pc = "delete" => DeleteInv(x)')
  <2>1. request'[x] = request[x] /\ request[x].pc \notin Held
    BY <1>0, <1>2, <1>7, OneHolder DEF Held
  <2> QED
    BY <1>4, <2>1 DEF WriteInv, DeleteInv
<1> QED
  BY <1>3, <1>5, <1>6, <1>7 DEF KeptInv, Held

\* A finalized entry owns the managed key, with what it was before.
LEMMA KeptFinalize ==
    ASSUME TakeoverInv, KeptInv, NEW r \in Requests, Finalize(r), journal' = Finalized(r),
           \/ Leave(r, "flag") \/ Leave(r, "route")
    PROVE  KeptInv'
<1> DEFINE q == request[r]
<1> USE DEF disk
<1>0. /\ request \in [Requests -> RequestRecords] /\ q.pc = "write" /\ q.todo = {}
      /\ "managed" \in Keys /\ "other" \in Keys /\ \A k \in Keys : k = "managed" \/ k = "other"
      /\ q.provider \in Providers /\ q.seen \in Journals /\ q.before \in Images
      /\ DOMAIN q.before \subseteq DOMAIN q.seen /\ UNCHANGED <<content, mine, blurred>>
  BY DEF Finalize, At, TakeoverInv, ShapeInv, RequestInv, RequestRecords, Keys
<1>1. WriteInv(r) /\ Kept(journal)
  BY <1>0 DEF KeptInv
<1>2. /\ \A x \in Requests \ {r} : request'[x] = request[x]
      /\ request'[r].pc \notin Held \cup {"delete"}
  <2>1. PICK pc \in {"flag", "route"} : Leave(r, pc)
    OBVIOUS
  <2> QED
    BY <1>0, <2>1, LeaveKeeps DEF Held
<1>3. DOMAIN Finalized(r) = DOMAIN q.seen
  BY DEF Finalized
<1>4. ASSUME NEW f \in DOMAIN q.before \ blurred
      PROVE  Sound(Finalized(r)[f], f) /\ f \in Files
  <2> DEFINE e == q.seen[f]
             image == q.before[f]
             now == content[f]
             a == Advanced(e, image, now)
  <2>1. e \in GoodEntries /\ f \in Files /\ image \in [Keys -> Values] /\ Finalized(r)[f] = a
    BY <1>0, JournalShape, ImageShape DEF Finalized
  <2>2. /\ e.before["managed"] = mine[f]["managed"] /\ image["other"] = mine[f]["other"]
        /\ ~e.done => image["managed"] = mine[f]["managed"]
        /\ now["managed"] = q.provider
    BY <1>0, <1>1 DEF WriteInv
  <2>3. now["other"] = image["other"] /\ (e.done => e.owned = {"managed"} /\ e.after["managed"] \in Providers)
    <3>1. f \in DOMAIN journal /\ journal[f] = e
      BY <1>0, <1>1, <2>1 DEF WriteInv
    <3> QED
      BY <1>1, <2>1, <2>2, <3>1 DEF Kept, Sound
  <2>4. mine[f]["managed"] \notin Providers
    BY <2>1, MineIsNotOurs
  <2>5. a.done = TRUE
    BY DEF Advanced
  <2>6. CASE e.done
    <3>1. a.owned = {"managed"}
      BY <1>0, <2>2, <2>3, <2>6 DEF Advanced
    <3>2. a.before["managed"] = e.before["managed"]
      BY <1>0, <2>3, <2>6 DEF Advanced
    <3>3. a.after["managed"] \in Providers
      BY <1>0, <2>2, <2>3, <2>6 DEF Advanced
    <3> QED
      BY <2>1, <2>2, <2>5, <3>1, <3>2, <3>3 DEF Sound
  <2>7. CASE ~e.done
    <3>0. e.owned = {} /\ image["managed"] # now["managed"]
      BY <1>0, <2>1, <2>2, <2>4, <2>7 DEF GoodEntries
    <3>1. a.owned = {"managed"}
      BY <1>0, <2>3, <3>0 DEF Advanced
    <3>2. a.before["managed"] = image["managed"]
      BY <1>0, <3>0 DEF Advanced
    <3>3. a.after["managed"] \in Providers
      BY <1>0, <2>2, <3>0 DEF Advanced
    <3> QED
      BY <2>1, <2>2, <2>5, <2>7, <3>1, <3>2, <3>3 DEF Sound
  <2> QED
    BY <2>1, <2>6, <2>7
<1>5. Kept(journal)'
  <2> SUFFICES ASSUME NEW f \in Files \ blurred
               PROVE  /\ content[f]["other"] = mine[f]["other"]
                      /\ f \notin DOMAIN q.seen => content[f]["managed"] = mine[f]["managed"]
                      /\ f \in DOMAIN q.seen => Sound(Finalized(r)[f], f)
    BY <1>0, <1>3 DEF Kept, Sound
  <2>1. journal = q.seen
    BY <1>1 DEF WriteInv
  <2>2. CASE f \in DOMAIN q.before
    BY <1>0, <1>1, <1>4, <2>2 DEF Kept
  <2>3. CASE f \notin DOMAIN q.before
    <3>1. f \in DOMAIN q.seen => Finalized(r)[f] = journal[f]
      BY <2>1, <2>3 DEF Finalized
    <3> QED
      BY <1>1, <2>1, <3>1 DEF Kept
  <2> QED
    BY <2>2, <2>3
<1>6. ASSUME NEW x \in Requests, x # r
      PROVE  request'[x].pc \notin Held /\ (request'[x].pc = "delete" => DeleteInv(x)')
  <2>1. request'[x] = request[x] /\ request[x].pc \notin Held
    BY <1>0, <1>2, <1>6, OneHolder DEF Held
  <2> QED
    BY <1>1, <2>1 DEF WriteInv, DeleteInv
<1> QED
  BY <1>2, <1>5, <1>6 DEF KeptInv, Held

\* A restore writes what the user had, or leaves what the user wrote since.
LEMMA KeptRestoreFile ==
    ASSUME TakeoverInv, KeptInv, NEW r \in Requests, NEW g \in Files, RestoreFile(r, g)
    PROVE  KeptInv'
<1> DEFINE q == request[r]
           e == q.seen[g]
<1> USE DEF disk
<1>0. /\ request \in [Requests -> RequestRecords] /\ q.pc = "restore" /\ g \in q.todo
      /\ "managed" \in Keys /\ "other" \in Keys /\ \A k \in Keys : k = "managed" \/ k = "other"
      /\ content \in [Files -> [Keys -> Values]] /\ q.seen \in Journals
      /\ q.todo \subseteq DOMAIN q.seen /\ UNCHANGED <<mine, journal, blurred>>
  BY DEF RestoreFile, At, TakeoverInv, ShapeInv, RequestInv, RequestRecords, Keys
<1>1. Kept(journal) /\ Kept(q.seen) /\ RestoreInv(r)
  BY <1>0 DEF KeptInv
<1>2. e \in GoodEntries
  BY <1>0, JournalShape
<1>3. \A f \in Files \ {g} : content'[f] = content[f]
  BY <1>0 DEF RestoreFile
<1>4. content'[g] = Restored(e, content[g])
  BY <1>0 DEF RestoreFile
<1>5. \A x \in Requests \ {r} : request'[x] = request[x]
  BY <1>0 DEF RestoreFile
<1>6. /\ request'[r].todo = q.todo \ {g} /\ request'[r].pc = "restore" /\ request'[r].seen = q.seen
      /\ request'[r].drift = (q.drift \/ \E k \in e.owned : content[g][k] # e.after[k])
  <2> DEFINE drift == q.drift \/ \E k \in e.owned : content[g][k] # e.after[k]
  <2>1. request'[r] = [request[r] EXCEPT !.todo = q.todo \ {g}, !.drift = drift]
    BY <1>0 DEF RestoreFile
  <2>2. request[r] \in RequestRecords
    BY <1>0
  <2> HIDE DEF drift
  <2>3. /\ request'[r].todo = q.todo \ {g} /\ request'[r].pc = request[r].pc
        /\ request'[r].seen = q.seen /\ request'[r].drift = drift
    BY <2>1, <2>2 DEF RequestRecords
  <2> QED
    BY <1>0, <2>3 DEF drift
<1>7. ASSUME g \notin blurred
      PROVE  /\ content'[g]["other"] = mine[g]["other"]
             /\ content[g]["managed"] = mine[g]["managed"] => content'[g]["managed"] = mine[g]["managed"]
             /\ request'[r].drift \/ content'[g]["managed"] = mine[g]["managed"]
  <2>1. Sound(e, g) /\ content[g]["other"] = mine[g]["other"] /\ mine[g]["managed"] \notin Providers
    BY <1>0, <1>1, <1>7, MineIsNotOurs DEF Kept
  <2>2. CASE ~e.done
    BY <1>0, <1>4, <2>1, <2>2 DEF Restored, Sound
  <2>3. CASE e.done
    <3>1. /\ e.owned = {"managed"} /\ e.after["managed"] \in Providers
          /\ content[g]["managed"] = mine[g]["managed"] \/ e.before["managed"] = mine[g]["managed"]
      BY <2>1, <2>3 DEF Sound
    <3>2. content'[g]["other"] = content[g]["other"]
      BY <1>0, <1>4, <2>3, <3>1 DEF Restored
    <3>3. CASE content[g]["managed"] = e.after["managed"]
      <4>1. content'[g]["managed"] = e.before["managed"]
        BY <1>0, <1>4, <2>3, <3>1, <3>3 DEF Restored
      <4> QED
        BY <2>1, <3>1, <3>2, <3>3, <4>1
    <3>4. CASE content[g]["managed"] # e.after["managed"]
      <4>1. content'[g]["managed"] = content[g]["managed"]
        BY <1>0, <1>4, <2>3, <3>4 DEF Restored
      <4> QED
        BY <1>6, <2>1, <3>1, <3>2, <3>4, <4>1
    <3> QED
      BY <3>3, <3>4
  <2> QED
    BY <2>2, <2>3
<1> DEFINE KeptNow(j, f) ==
               /\ content'[f]["other"] = mine[f]["other"]
               /\ f \notin DOMAIN j => content'[f]["managed"] = mine[f]["managed"]
               /\ f \in DOMAIN j =>
                     IF j[f].done
                     THEN /\ j[f].owned = {"managed"} /\ j[f].after["managed"] \in Providers
                          /\ \/ content'[f]["managed"] = mine[f]["managed"]
                             \/ j[f].before["managed"] = mine[f]["managed"]
                     ELSE \A k \in Keys : j[f].before[k] = mine[f][k]
<1>8. ASSUME NEW j, Kept(j), NEW f \in Files \ blurred PROVE KeptNow(j, f)
  <2>1. CASE f = g
    BY <1>7, <1>8, <2>1 DEF Kept, Sound
  <2>2. CASE f # g
    BY <1>3, <1>8, <2>2 DEF Kept, Sound
  <2> QED
    BY <2>1, <2>2
<1>9. Kept(journal)'
  <2>1. \A f \in Files \ blurred : KeptNow(journal, f)
    BY <1>1, <1>8
  <2> QED
    BY <1>0, <2>1 DEF Kept, Sound
<1>10. Kept(request[r].seen)'
  <2>1. \A f \in Files \ blurred : KeptNow(q.seen, f)
    BY <1>1, <1>8
  <2> QED
    BY <1>0, <1>6, <2>1 DEF Kept, Sound
<1>11. RestoreInv(r)'
  <2> SUFFICES ASSUME NEW f \in Files, f \notin blurred, f \notin q.todo \ {g}
               PROVE  request'[r].drift \/ content'[f]["managed"] = mine[f]["managed"]
    BY <1>0, <1>6 DEF RestoreInv
  <2>1. CASE f = g
    BY <1>7, <2>1
  <2>2. CASE f # g
    BY <1>1, <1>3, <1>6, <2>2 DEF RestoreInv
  <2> QED
    BY <2>1, <2>2
<1>12. ASSUME NEW x \in Requests, x # r
       PROVE  request'[x].pc \notin Held /\ (request'[x].pc = "delete" => DeleteInv(x)')
  <2>1. request'[x] = request[x] /\ request[x].pc \notin Held
    BY <1>0, <1>5, <1>12, OneHolder DEF Held
  <2>2. request[x].pc = "delete" => DeleteInv(x)
    BY DEF KeptInv
  <2> QED
    BY <1>0, <1>3, <1>7, <2>1, <2>2 DEF DeleteInv
<1> QED
  BY <1>6, <1>9, <1>10, <1>11, <1>12 DEF KeptInv, Held

\* A journal is deleted when nothing is left to restore from it, or every
\* file is excepted.
LEMMA KeptDelete ==
    ASSUME TakeoverInv, KeptInv, NEW r \in Requests, DeleteJournal(r)
    PROVE  KeptInv'
<1> USE DEF disk
<1>0. /\ request \in [Requests -> RequestRecords] /\ request[r].pc = "delete"
      /\ blurred \subseteq Files
      /\ UNCHANGED <<content, mine>> /\ journal' = NoJournal /\ DOMAIN NoJournal = {}
      /\ blurred' = IF request[r].flag THEN Files ELSE blurred
  BY NoJournalShape DEF DeleteJournal, At, TakeoverInv, ShapeInv
<1>1. /\ \A x \in Requests \ {r} : request'[x] = request[x]
      /\ request'[r].pc \notin Held \cup {"delete"}
  <2>1. Leave(r, "unflag")
    BY DEF DeleteJournal
  <2>2. request \in [Requests -> RequestRecords]
    BY <1>0
  <2>3. request'[r].pc = "unflag" /\ \A x \in Requests \ {r} : request'[x] = request[x]
    BY <2>1, <2>2, LeaveKeeps
  <2> QED
    BY <2>3 DEF Held
<1>2. Kept(journal) /\ DeleteInv(r)
  BY <1>0 DEF KeptInv
<1>3. Kept(journal)'
  BY <1>0, <1>2 DEF Kept, DeleteInv
<1>4. ASSUME NEW x \in Requests, x # r
      PROVE  /\ request'[x].pc \in {"locked", "restore"} => Kept(request[x].seen)'
             /\ request'[x].pc = "write" => WriteInv(x)'
             /\ request'[x].pc = "restore" => RestoreInv(x)'
             /\ request'[x].pc = "delete" => DeleteInv(x)'
  <2>1. request'[x] = request[x]
    BY <1>1, <1>4
  <2>2. request[x].pc \in {"locked", "restore"} => Kept(request[x].seen)'
    BY <1>0, <2>1 DEF KeptInv, Kept, Sound
  <2>3. request[x].pc = "write" => WriteInv(x)'
    <3> SUFFICES ASSUME request[x].pc = "write" PROVE WriteInv(x)'
      OBVIOUS
    <3>1. WriteInv(x)
      BY DEF KeptInv
    <3>2. DOMAIN request[x].before \subseteq Files
      BY <1>0, ImageShape DEF RequestRecords
    <3>3. request[r].flag /\ blurred' = Files
      BY <1>0, <3>1 DEF WriteInv
    <3>4. \A y \in Requests : request'[y].pc = "delete" => request'[y].flag
      BY <1>1, <3>1 DEF WriteInv
    <3> QED
      BY <2>1, <3>2, <3>3, <3>4 DEF WriteInv
  <2>4. request[x].pc = "restore" => RestoreInv(x)'
    BY <1>0, <2>1 DEF KeptInv, RestoreInv
  <2>5. request[x].pc = "delete" => DeleteInv(x)'
    BY <1>0, <2>1 DEF KeptInv, DeleteInv
  <2> QED
    BY <2>1, <2>2, <2>3, <2>4, <2>5
<1> QED
  BY <1>1, <1>3, <1>4 DEF KeptInv, Held

\* Only the holder of the lock moves, without a change of the files: it has
\* just the lock, begins to restore, or has restored.
LEMMA KeptHolder ==
    ASSUME TakeoverInv, KeptInv, UNCHANGED <<content, mine, journal, blurred>>, NEW r \in Requests,
           \A x \in Requests \ {r} : request'[x] = request[x],
           \A x \in Requests \ {r} : request[x].pc \notin Held,
           request'[r].pc \in {"locked", "restore", "delete"},
           request'[r].pc \in {"locked", "restore"} => Kept(request[r].seen)',
           request'[r].pc = "restore" => RestoreInv(r)',
           request'[r].pc = "delete" => DeleteInv(r)'
    PROVE  KeptInv'
<1>1. Kept(journal)'
  BY DEF KeptInv, Kept, Sound
<1>2. ASSUME NEW x \in Requests, x # r
      PROVE  request'[x].pc \notin Held /\ (request'[x].pc = "delete" => DeleteInv(x)')
  BY <1>2 DEF KeptInv, DeleteInv
<1> QED
  BY <1>1, <1>2 DEF KeptInv, Held

LEMMA KeptStep == ASSUME TakeoverInv, TakeoverInv', KeptInv, [Next]_vars PROVE KeptInv'
<1> USE DEF disk
<1>0. /\ request \in [Requests -> RequestRecords] /\ blurred' \subseteq Files
      /\ "managed" \in Keys /\ "other" \in Keys
      /\ content \in [Files -> [Keys -> Values]]
      /\ mine \in [Files -> [Keys -> Values \ Providers]]
  BY DEF TakeoverInv, ShapeInv, Keys
<1>1. ASSUME NEW r \in Requests, NEW new, Arrive(r, new), new.pc \notin Held \cup {"delete"},
             UNCHANGED <<disk, journal, blurred>>
      PROVE  KeptInv'
  BY <1>0, <1>1, KeptElsewhere DEF Arrive
<1>2. ASSUME NEW r \in Requests, NEW p \in Providers, Enable(r, p) \/ Switch(r, p) PROVE KeptInv'
  <2>1. /\ [Idle EXCEPT !.op = "enable", !.pc = "lock", !.provider = p, !.seen = journal].pc = "lock"
        /\ [Idle EXCEPT !.op = "switch", !.pc = "lock", !.provider = p, !.seen = journal].pc = "lock"
        /\ [Idle EXCEPT !.op = "switch", !.pc = "direct", !.provider = p].pc = "direct"
    BY DEF Idle
  <2> QED
    BY <1>1, <1>2, <2>1 DEF Enable, Switch, Held
<1>3. ASSUME NEW r \in Requests, Disable(r) \/ SetToolConfig(r) PROVE KeptInv'
  <2>1. /\ [Idle EXCEPT !.op = "disable", !.seen = journal,
                        !.pc = IF journal = NoJournal THEN "rebuild" ELSE "lock"].pc \in {"rebuild", "lock"}
        /\ [Idle EXCEPT !.op = "config", !.pc = "save", !.flag = enabled].pc = "save"
    BY DEF Idle
  <2> QED
    BY <1>1, <1>3, <2>1 DEF Disable, SetToolConfig, Held
<1>4. ASSUME NEW r \in Requests, End(r), UNCHANGED <<disk, journal, blurred>> PROVE KeptInv'
  BY <1>0, <1>4, IdleShape, KeptElsewhere DEF End, Held
<1>5. ASSUME NEW r \in Requests, Goto(r, "locked"), Acquire(r), journal = request[r].seen
      PROVE  KeptInv'
  <2>1. /\ request'[r].pc = "locked" /\ request'[r].seen = journal
        /\ \A x \in Requests \ {r} : request'[x] = request[x]
        /\ UNCHANGED <<content, mine, journal, blurred>> /\ lock = Nobody
    BY <1>0, <1>5 DEF Acquire, Goto, RequestRecords
  <2>2. \A x \in Requests \ {r} : request[x].pc \notin Held
    BY <2>1 DEF TakeoverInv, RequestInv
  <2>3. Kept(request[r].seen)'
    BY <2>1 DEF KeptInv, Kept, Sound
  <2> QED
    BY <2>1, <2>2, <2>3, KeptHolder
<1>6. ASSUME NEW r \in Requests, Acquire(r) PROVE KeptInv'
  BY <1>4, <1>5, <1>6 DEF Acquire
<1>7. ASSUME NEW r \in Requests, Prepare(r) PROVE KeptInv'
  <2>1. request[r].pc = "locked" /\ request[r].op \in {"enable", "switch"} /\ UNCHANGED disk
    BY <1>7 DEF Prepare, At
  <2> QED
    BY <1>0, <1>4, <1>7, <2>1, PrepareCases, KeptPrepare
<1>8. ASSUME NEW r \in Requests, Finalize(r) PROVE KeptInv'
  BY <1>4, <1>8, KeptFinalize DEF Finalize
<1>9. ASSUME NEW r \in Requests,
             SetEnabled(r) \/ SetRoute(r) \/ StopProxy(r) \/ SaveToolConfig(r) \/ Fail(r)
      PROVE  KeptInv'
  BY <1>4, <1>9 DEF SetEnabled, SetRoute, StopProxy, SaveToolConfig, Fail
<1>10. ASSUME NEW r \in Requests, NEW p \in Providers, WriteDirect(p), UNCHANGED journal,
              Goto(r, "route") \/ Goto(r, "unflag")
       PROVE  KeptInv'
  <2>1. \A x \in Requests : request'[x] = request[x] \/ request'[x].pc \notin Held \cup {"delete"}
    BY <1>0, <1>10 DEF Goto, RequestRecords, Held
  <2>2. /\ \A f \in Files : \A k \in Keys :
              \/ content'[f][k] = mine'[f][k]
              \/ content'[f][k] = content[f][k] /\ mine'[f][k] = mine[f][k]
        /\ \A f \in Files \ Targets[p] : content'[f] = content[f] /\ mine'[f] = mine[f]
    BY <1>0, <1>10 DEF WriteDirect
  <2>3. /\ blurred \subseteq blurred'
        /\ \A f \in Files \ blurred' : lock # Nobody \/ Unfinished(f) => f \notin Targets[p]
    BY <1>10 DEF WriteDirect
  <2> QED
    BY <1>0, <1>10, <2>1, <2>2, <2>3, KeptUserWrite
<1>11. ASSUME NEW r \in Requests, SwitchDirect(r) \/ Rebuild(r) PROVE KeptInv'
  <2>1. SwitchDirect(r) => request[r].provider \in Providers
    BY DEF SwitchDirect, At, TakeoverInv, RequestInv
  <2>2. active \in Providers
    BY DEF TakeoverInv, ShapeInv
  <2> QED
    BY <1>10, <1>11, <2>1, <2>2 DEF SwitchDirect, Rebuild
<1>12. ASSUME NEW r \in Requests, BeginRestore(r) PROVE KeptInv'
  <2>1. /\ request'[r].pc = "restore" /\ request'[r].seen = request[r].seen
        /\ request'[r].todo = DOMAIN request[r].seen
        /\ \A x \in Requests \ {r} : request'[x] = request[x]
        /\ UNCHANGED <<content, mine, journal, blurred>> /\ request[r].pc = "locked"
    BY <1>0, <1>12 DEF BeginRestore, At, RequestRecords
  <2>2. \A x \in Requests \ {r} : request[x].pc \notin Held
    BY <2>1, OneHolder DEF Held
  <2>3. Kept(request[r].seen)
    BY <2>1 DEF KeptInv
  <2>4. Kept(request[r].seen)' /\ RestoreInv(r)'
    BY <2>1, <2>3 DEF Kept, Sound, RestoreInv
  <2> QED
    BY <2>1, <2>2, <2>4, KeptHolder
<1>13. ASSUME NEW r \in Requests, RestoreEnds(r), Leave(r, "delete"), ~request[r].drift
       PROVE  KeptInv'
  <2>1. /\ request'[r].pc = "delete" /\ request[r].todo = {}
        /\ \A x \in Requests \ {r} : request'[x] = request[x]
        /\ UNCHANGED <<content, mine, journal, blurred>> /\ request[r].pc = "restore"
    BY <1>0, <1>13, LeaveKeeps DEF RestoreEnds, At
  <2>2. \A x \in Requests \ {r} : request[x].pc \notin Held
    BY <2>1, OneHolder DEF Held
  <2>3. RestoreInv(r)
    BY <2>1 DEF KeptInv
  <2>4. DeleteInv(r)'
    BY <1>13, <2>1, <2>3 DEF RestoreInv, DeleteInv
  <2> QED
    BY <2>1, <2>2, <2>4, KeptHolder
<1>14. ASSUME NEW r \in Requests, RestoreEnds(r) PROVE KeptInv'
  BY <1>4, <1>13, <1>14 DEF RestoreEnds
<1>15. ASSUME NEW r \in Requests, ClearEnabled(r) PROVE KeptInv'
  BY <1>0, <1>15, KeptElsewhere DEF ClearEnabled, Goto, RequestRecords, Held
<1>16. ASSUME NEW f \in Files, NEW k \in Keys, Edit(f, k) PROVE KeptInv'
  <2>1. \A g \in Files : \A h \in Keys :
              \/ content'[g][h] = mine'[g][h]
              \/ content'[g][h] = content[g][h] /\ mine'[g][h] = mine[g][h]
    BY <1>0, <1>16 DEF Edit
  <2>2. \A g \in Files \ {f} : content'[g] = content[g] /\ mine'[g] = mine[g]
    BY <1>0, <1>16 DEF Edit
  <2>3. /\ blurred \subseteq blurred' /\ (lock # Nobody \/ Unfinished(f) => f \in blurred')
        /\ UNCHANGED <<journal, request>>
    BY <1>16 DEF Edit
  <2> QED
    BY <1>0, <2>1, <2>2, <2>3, KeptUserWrite
<1>17. CASE Crash
  <2>1. \A x \in Requests : request'[x].pc = "idle"
    BY <1>17, IdleShape DEF Crash
  <2>2. Kept(journal)'
    BY <1>17 DEF Crash, KeptInv, Kept, Sound
  <2> QED
    BY <2>1, <2>2 DEF KeptInv
<1>18. ASSUME UNCHANGED <<content, mine, journal, blurred, request>> PROVE KeptInv'
  BY <1>18 DEF KeptInv, Kept, Sound, WriteInv, RestoreInv, DeleteInv
<1>19. CASE Start \/ UNCHANGED vars
  BY <1>18, <1>19 DEF Start, vars
<1> QED
  BY <1>2, <1>3, <1>6, <1>7, <1>8, <1>9, <1>11, <1>12, <1>14, <1>15, <1>16, <1>17, <1>19,
     KeptWriteFile, KeptRestoreFile, KeptDelete DEF Next

\* What the user or another program last wrote is in the file or in the
\* journal it is restored from, at every step of a rewrite or a restore, and
\* after every failure and crash (rewriteLive, restoreOwnedLiveFiles and the
\* "exact prior file" of provider/takeover.go), but for the files excepted.
THEOREM TakeoverKeepsOriginal == Spec => []OriginalIsKept
<1>1. KeptInv /\ TakeoverInv => OriginalIsKept
  <2> SUFFICES ASSUME KeptInv, TakeoverInv, NEW f \in Files \ blurred, NEW k \in Keys
               PROVE  content[f][k] = mine[f][k] \/ Recorded(f, k)
    BY DEF OriginalIsKept
  <2>1. /\ content[f]["other"] = mine[f]["other"]
        /\ f \notin DOMAIN journal => content[f]["managed"] = mine[f]["managed"]
        /\ f \in DOMAIN journal => Sound(journal[f], f)
    BY DEF KeptInv, Kept
  <2> QED
    BY <2>1 DEF Keys, Sound, Recorded
<1>2. TakeoverInv /\ TakeoverInv' /\ KeptInv /\ [Next]_vars => KeptInv'
  BY KeptStep
<1> QED
  BY <1>1, <1>2, KeptInit, TakeoverAlways, PTL DEF Spec
=============================================================================
