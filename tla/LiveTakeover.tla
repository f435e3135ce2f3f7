---------------------------- MODULE LiveTakeover ----------------------------
(***************************************************************************)
(* Local routing of one tool: its live configuration files are rewritten   *)
(* to point at the local proxy and restored later, next to other programs  *)
(* that edit the same files.  provider/takeover.go,                        *)
(* takeover_ownership.go and the direct switch of manager.go.              *)
(*                                                                         *)
(* Processes: the HTTP requests, programs outside that edit the files, and *)
(* the daemon's start.  What a request reads before it waits for the locks *)
(* is one step, with the start of the proxy; from there on a write to the  *)
(* database and the rewrite of a file are one step each.  The tool is one  *)
(* whose model configuration follows a hot switch (codex, claude-desktop). *)
(* A file has the key that AgentMux manages and one that it does not.      *)
(***************************************************************************)
EXTENDS Integers, FiniteSets

CONSTANTS
    Files,       \* live configuration files
    Providers,
    Targets,     \* per provider, its files: takeoverLiveFiles
    Requests,    \* bound: requests under way at the same time
    Nobody,
    MaxArrivals, \* bound: requests in all
    MaxEdits,    \* bound: edits by other programs
    MaxMishaps   \* bound: failed statements or writes, and crashes

Keys == {"managed", "other"}
Orig == "orig"        \* what was there
Edited == "edited"    \* what another program wrote
Direct == "direct"    \* a direct route, written by a switch without takeover
Nothing == "nothing"
Values == Providers \cup {Orig, Edited, Direct}

ASSUME LiveTakeoverAssumption ==
    /\ Targets \in [Providers -> SUBSET Files]
    /\ Nobody \notin Requests
    /\ {Orig, Edited, Direct, Nothing} \cap Providers = {}
    /\ MaxArrivals \in Nat /\ MaxEdits \in Nat /\ MaxMishaps \in Nat

VARIABLES
    content,    \* per file, the value of each key
    mine,       \* history: what the user and the other programs want to be there
    journal,    \* database: the ownership journal; without a file, there is none
    enabled,    \* database: ProxyToolConfig.Enabled
    active,     \* database: the active provider
    proxy,      \* the proxy listens
    lock,       \* who holds the file locks and the journal's lock
    request,    \* the requests
    up,         \* the daemon runs
    blurred,    \* history: files whose before image was exposed, see OriginalIsKept
    overlapped, \* history: two requests were under way since the start
    arrivals, edits, mishaps

disk == <<content, mine>>
vars == <<content, mine, journal, enabled, active, proxy, lock, request, up, blurred,
          overlapped, arrivals, edits, mishaps>>

(* A request: flag is the Enabled it has read, or that another journal was *)
(* written while it was about to delete its own.                           *)
NoJournal == [f \in {} |-> Nothing]
Idle == [op |-> "none", pc |-> "idle", provider |-> Nothing, seen |-> NoJournal,
         before |-> NoJournal, todo |-> {}, drift |-> FALSE, flag |-> FALSE]

Init ==
    /\ content = [f \in Files |-> [k \in Keys |-> Orig]] /\ mine = content
    /\ journal = NoJournal /\ enabled = FALSE /\ active \in Providers
    /\ proxy = FALSE /\ lock = Nobody /\ up = TRUE
    /\ request = [r \in Requests |-> Idle]
    /\ blurred = {} /\ overlapped = FALSE /\ arrivals = 0 /\ edits = 0
    /\ mishaps = 0
-----------------------------------------------------------------------------
(* The journal.  An entry that is not finalized holds the image of the     *)
(* file, a finalized one the values before and after of the keys it owns.  *)

Snapshot(f) ==
    [done |-> FALSE, before |-> content[f], owned |-> {}, after |-> [k \in Keys |-> Nothing]]

(* makeLiveOwnershipSnapshot, extendLiveOwnershipSnapshot                  *)
Extended(files) ==
    [f \in DOMAIN journal \cup files |->
        IF f \in DOMAIN journal THEN journal[f] ELSE Snapshot(f)]

(* validateLiveOwnershipSnapshot: an owned key is not as we have left it.  *)
Drift(j) == \E f \in DOMAIN j : \E k \in j[f].owned : content[f][k] # j[f].after[k]

Unfinished(f) == f \in DOMAIN journal /\ ~journal[f].done

(* updateLiveOwnershipAfterRewrite, for a file                             *)
Advanced(entry, before, now) ==
    LET changed == {k \in Keys : before[k] # now[k]} IN
    [done |-> TRUE, owned |-> entry.owned \cup changed,
     before |-> [k \in Keys |-> IF k \in entry.owned THEN entry.before[k]
                                ELSE IF k \in changed THEN before[k] ELSE Nothing],
     after |-> [k \in Keys |-> IF k \in changed THEN now[k]
                               ELSE IF k \in entry.owned THEN entry.after[k] ELSE Nothing]]

(* A request works on its copy of the journal.                             *)
Finalized(r) ==
    LET copy == request[r].seen IN
    [f \in DOMAIN copy |->
        IF f \in DOMAIN request[r].before
        THEN Advanced(copy[f], request[r].before[f], content[f]) ELSE copy[f]]
-----------------------------------------------------------------------------
(* Requests: steps that several of them have.                              *)

At(r, op, pc) == up /\ request[r].op \in op /\ request[r].pc = pc
Goto(r, pc) == request' = [request EXCEPT ![r].pc = pc]
End(r) == request' = [request EXCEPT ![r] = Idle]
(* Beyond the locks a request has no use for what it has read.             *)
Leave(r, pc) ==
    request' = [request EXCEPT ![r] = [Idle EXCEPT !.op = request[r].op, !.pc = pc,
                                           !.provider = request[r].provider]]
Arrive(r, new) ==
    /\ up /\ request[r] = Idle
    /\ arrivals < MaxArrivals /\ arrivals' = arrivals + 1
    /\ request' = [request EXCEPT ![r] = new]
    /\ overlapped' = (overlapped \/ \E x \in Requests : request[x] # Idle)
Release(r) == lock' = IF lock = r THEN Nobody ELSE lock
StopProxyIfIdle == proxy' = (proxy /\ enabled)

(* Variation: the journal is not compared after the wait.                  *)
AcquireBlind(r) ==
    /\ At(r, {"enable", "switch", "disable"}, "lock") /\ lock = Nobody
    /\ lock' = r /\ Goto(r, "locked") /\ UNCHANGED proxy
    /\ UNCHANGED <<disk, journal, enabled, active, up, blurred, overlapped, arrivals, edits, mishaps>>

(* withLiveFileLocks and the comparison of the journal with the one that   *)
(* was read before the wait.                                               *)
Acquire(r) ==
    /\ At(r, {"enable", "switch", "disable"}, "lock") /\ lock = Nobody
    /\ IF journal = request[r].seen
       THEN lock' = r /\ Goto(r, "locked") /\ UNCHANGED proxy
       ELSE /\ UNCHANGED lock /\ End(r)
            /\ IF request[r].op = "enable" THEN StopProxyIfIdle ELSE UNCHANGED proxy
    /\ UNCHANGED <<disk, journal, enabled, active, up, blurred, overlapped, arrivals, edits, mishaps>>

(* A statement or a write fails: the request gives up where it is.         *)
Fail(r) ==
    /\ up /\ request[r].pc # "idle"
    /\ mishaps < MaxMishaps /\ mishaps' = mishaps + 1
    /\ End(r) /\ Release(r)
    /\ IF request[r].op = "enable" /\ request[r].pc # "flag" THEN StopProxyIfIdle
       ELSE UNCHANGED proxy
    /\ UNCHANGED <<disk, journal, enabled, active, up, blurred, overlapped, arrivals, edits>>
-----------------------------------------------------------------------------
(* EnableTakeover, and the rewrite of a hot switch.                        *)

(* With another provider, this is switchRouteWithTakeover.                 *)
Enable(r, p) ==
    /\ Arrive(r, [Idle EXCEPT !.op = "enable", !.pc = "lock", !.provider = p, !.seen = journal])
    /\ p # active => ~enabled
    /\ active' = p /\ proxy' = TRUE
    /\ UNCHANGED <<disk, journal, enabled, lock, up, blurred, edits, mishaps>>

(* detectForeignLoopbackRouting                                            *)
Foreign(p) == \E f \in Targets[p] : content[f]["managed"] \in Providers

(* The journal is in the database before a file changes.                   *)
Prepare(r) ==
    LET p == request[r].provider
        refused == IF journal = NoJournal THEN Foreign(p) ELSE Drift(journal)
    IN /\ At(r, {"enable", "switch"}, "locked")
       /\ IF refused
          THEN /\ End(r) /\ Release(r)
               /\ IF request[r].op = "enable" THEN StopProxyIfIdle ELSE UNCHANGED proxy
               /\ UNCHANGED <<journal, blurred>>
          ELSE /\ journal' = Extended(Targets[p])
               /\ request' = [x \in Requests |->
                     IF x # r THEN [request[x] EXCEPT !.flag = @ \/ request[x].pc = "delete"]
                     ELSE [request[r] EXCEPT !.pc = "write", !.todo = Targets[p],
                              !.seen = Extended(Targets[p]),
                              !.before = [f \in Targets[p] |-> content[f]]]]
               /\ blurred' = blurred \cup {f \in Targets[p] : Unfinished(f)}
               /\ UNCHANGED <<lock, proxy>>
       /\ UNCHANGED <<disk, enabled, active, up, overlapped, arrivals, edits, mishaps>>

(* writeCodexTakeoverConfig, WriteClaudeDesktopProxyProfile: a file at a   *)
(* time, in an order that is left open.                                    *)
WriteFile(r, f) ==
    /\ At(r, {"enable", "switch"}, "write") /\ f \in request[r].todo
    /\ content' = [content EXCEPT ![f]["managed"] = request[r].provider]
    /\ request' = [request EXCEPT ![r].todo = @ \ {f}]
    /\ UNCHANGED <<mine, journal, enabled, active, proxy, lock, up, blurred, overlapped, arrivals, edits,
                   mishaps>>

Finalize(r) ==
    /\ At(r, {"enable", "switch"}, "write") /\ request[r].todo = {}
    /\ Release(r)
    /\ IF Drift(Finalized(r))
       THEN /\ End(r) /\ UNCHANGED journal
            /\ IF request[r].op = "enable" THEN StopProxyIfIdle ELSE UNCHANGED proxy
       ELSE /\ journal' = Finalized(r) /\ UNCHANGED proxy
            /\ Leave(r, IF request[r].op = "enable" THEN "flag" ELSE "route")
    /\ UNCHANGED <<disk, enabled, active, up, blurred, overlapped, arrivals, edits, mishaps>>

SetEnabled(r) ==
    /\ At(r, {"enable"}, "flag")
    /\ enabled' = TRUE /\ End(r)
    /\ UNCHANGED <<disk, journal, active, proxy, lock, up, blurred, overlapped, arrivals, edits, mishaps>>
-----------------------------------------------------------------------------
(* switchRoute.                                                            *)

Switch(r, p) ==
    /\ \/ /\ enabled /\ journal # NoJournal
          /\ Arrive(r, [Idle EXCEPT !.op = "switch", !.pc = "lock", !.provider = p,
                                    !.seen = journal])
       \/ /\ ~enabled
          /\ Arrive(r, [Idle EXCEPT !.op = "switch", !.pc = "direct", !.provider = p])
    /\ UNCHANGED <<disk, journal, enabled, active, proxy, lock, up, blurred, edits, mishaps>>

(* WriteLiveConfigForSwitch: without a lock, without a look at the journal.*)
WriteDirect(p) ==
    /\ content' = [f \in Files |-> IF f \in Targets[p]
                                   THEN [content[f] EXCEPT !["managed"] = Direct] ELSE content[f]]
    /\ mine' = [f \in Files |-> IF f \in Targets[p]
                                THEN [mine[f] EXCEPT !["managed"] = Direct] ELSE mine[f]]
    /\ blurred' = blurred \cup {f \in Targets[p] : lock # Nobody \/ Unfinished(f)}

SwitchDirect(r) ==
    /\ At(r, {"switch"}, "direct")
    /\ WriteDirect(request[r].provider) /\ Goto(r, "route")
    /\ UNCHANGED <<journal, enabled, active, proxy, lock, up, overlapped, arrivals, edits, mishaps>>

SetRoute(r) ==
    /\ At(r, {"switch"}, "route")
    /\ active' = request[r].provider /\ End(r)
    /\ UNCHANGED <<disk, journal, enabled, proxy, lock, up, blurred, overlapped, arrivals, edits, mishaps>>
-----------------------------------------------------------------------------
(* DisableTakeover.                                                        *)

Disable(r) ==
    /\ Arrive(r, [Idle EXCEPT !.op = "disable", !.seen = journal,
                              !.pc = IF journal = NoJournal THEN "rebuild" ELSE "lock"])
    /\ UNCHANGED <<disk, journal, enabled, active, proxy, lock, up, blurred, edits, mishaps>>

(* No journal: the files are written for the active provider.              *)
Rebuild(r) ==
    /\ At(r, {"disable"}, "rebuild")
    /\ WriteDirect(active) /\ Goto(r, "unflag")
    /\ UNCHANGED <<journal, enabled, active, proxy, lock, up, overlapped, arrivals, edits, mishaps>>

BeginRestore(r) ==
    /\ At(r, {"disable"}, "locked")
    /\ request' = [request EXCEPT ![r].pc = "restore", ![r].todo = DOMAIN request[r].seen]
    /\ UNCHANGED <<disk, journal, enabled, active, proxy, lock, up, blurred, overlapped, arrivals, edits,
                   mishaps>>

Restored(entry, now) ==
    IF ~entry.done THEN entry.before
    ELSE [k \in Keys |-> IF k \in entry.owned /\ now[k] = entry.after[k] THEN entry.before[k]
                         ELSE now[k]]

(* restoreOwnedLiveFiles, a file at a time                                 *)
RestoreFile(r, f) ==
    LET entry == request[r].seen[f] IN
    /\ At(r, {"disable"}, "restore") /\ f \in request[r].todo
    /\ content' = [content EXCEPT ![f] = Restored(entry, @)]
    /\ request' = [request EXCEPT ![r].todo = @ \ {f},
           ![r].drift = @ \/ \E k \in entry.owned : content[f][k] # entry.after[k]]
    /\ UNCHANGED <<mine, journal, enabled, active, proxy, lock, up, blurred, overlapped, arrivals, edits,
                   mishaps>>

(* Variation: the locks stay held where the files have drifted.            *)
RestoreEndsHolds(r) ==
    /\ At(r, {"disable"}, "restore") /\ request[r].todo = {}
    /\ IF request[r].drift THEN End(r) /\ UNCHANGED lock ELSE Release(r) /\ Leave(r, "delete")
    /\ UNCHANGED <<disk, journal, enabled, active, proxy, up, blurred, overlapped, arrivals, edits, mishaps>>

RestoreEnds(r) ==
    /\ At(r, {"disable"}, "restore") /\ request[r].todo = {}
    /\ Release(r)
    /\ IF request[r].drift THEN End(r) ELSE Leave(r, "delete")
    /\ UNCHANGED <<disk, journal, enabled, active, proxy, up, blurred, overlapped, arrivals, edits, mishaps>>

(* DeleteLiveBackup, after the locks are released: it deletes whatever     *)
(* journal there is by now.                                                *)
DeleteJournal(r) ==
    /\ At(r, {"disable"}, "delete")
    /\ journal' = NoJournal /\ Leave(r, "unflag")
    /\ blurred' = IF request[r].flag THEN Files ELSE blurred
    /\ UNCHANGED <<disk, enabled, active, proxy, lock, up, overlapped, arrivals, edits, mishaps>>

ClearEnabled(r) ==
    /\ At(r, {"disable"}, "unflag")
    /\ enabled' = FALSE /\ Goto(r, "stop")
    /\ UNCHANGED <<disk, journal, active, proxy, lock, up, blurred, overlapped, arrivals, edits, mishaps>>

StopProxy(r) ==
    /\ At(r, {"disable"}, "stop")
    /\ StopProxyIfIdle /\ End(r)
    /\ UNCHANGED <<disk, journal, enabled, active, lock, up, blurred, overlapped, arrivals, edits, mishaps>>
-----------------------------------------------------------------------------
(* SetToolConfig reads Enabled and writes the whole row later.             *)

SetToolConfig(r) ==
    /\ Arrive(r, [Idle EXCEPT !.op = "config", !.pc = "save", !.flag = enabled])
    /\ UNCHANGED <<disk, journal, enabled, active, proxy, lock, up, blurred, edits, mishaps>>

SaveToolConfig(r) ==
    /\ At(r, {"config"}, "save")
    /\ enabled' = request[r].flag /\ End(r)
    /\ UNCHANGED <<disk, journal, active, proxy, lock, up, blurred, overlapped, arrivals, edits, mishaps>>
-----------------------------------------------------------------------------
(* Another program edits a key; it knows nothing of the locks.             *)
Edit(f, k) ==
    /\ edits < MaxEdits /\ edits' = edits + 1
    /\ content' = [content EXCEPT ![f][k] = Edited]
    /\ mine' = [mine EXCEPT ![f][k] = Edited]
    /\ blurred' = IF lock # Nobody \/ Unfinished(f) THEN blurred \cup {f} ELSE blurred
    /\ UNCHANGED <<journal, enabled, active, proxy, lock, request, up, overlapped, arrivals, mishaps>>

Crash ==
    /\ up /\ mishaps < MaxMishaps /\ mishaps' = mishaps + 1
    /\ up' = FALSE /\ proxy' = FALSE /\ lock' = Nobody
    /\ request' = [r \in Requests |-> Idle] /\ overlapped' = FALSE
    /\ UNCHANGED <<disk, journal, enabled, active, blurred, arrivals, edits>>

(* Variation: nothing starts the proxy before the next request.            *)
StartBare ==
    /\ ~up /\ up' = TRUE
    /\ UNCHANGED <<disk, journal, enabled, active, proxy, lock, request, blurred, overlapped,
                   arrivals, edits, mishaps>>

(* RestoreProxyState                                                       *)
Start ==
    /\ ~up /\ up' = TRUE /\ proxy' = enabled
    /\ UNCHANGED <<disk, journal, enabled, active, lock, request, blurred, overlapped, arrivals, edits,
                   mishaps>>

Next ==
    \/ \E r \in Requests :
          \/ \E p \in Providers : Enable(r, p) \/ Switch(r, p)
          \/ Disable(r) \/ SetToolConfig(r)
          \/ Acquire(r) \/ Prepare(r) \/ Finalize(r) \/ SetEnabled(r)
          \/ SwitchDirect(r) \/ SetRoute(r)
          \/ Rebuild(r) \/ BeginRestore(r) \/ RestoreEnds(r) \/ DeleteJournal(r)
          \/ ClearEnabled(r) \/ StopProxy(r) \/ SaveToolConfig(r) \/ Fail(r)
          \/ \E f \in Files : WriteFile(r, f) \/ RestoreFile(r, f)
    \/ \E f \in Files, k \in Keys : Edit(f, k)
    \/ Crash \/ Start

Spec == Init /\ [][Next]_vars
-----------------------------------------------------------------------------
Entries == [done : BOOLEAN, before : [Keys -> Values \cup {Nothing}], owned : SUBSET Keys,
            after : [Keys -> Values \cup {Nothing}]]

TypeOK ==
    /\ content \in [Files -> [Keys -> Values]] /\ mine \in [Files -> [Keys -> Values \ Providers]]
    /\ DOMAIN journal \subseteq Files /\ \A f \in DOMAIN journal : journal[f] \in Entries
    /\ enabled \in BOOLEAN /\ active \in Providers /\ proxy \in BOOLEAN
    /\ lock \in Requests \cup {Nobody} /\ up \in BOOLEAN
    /\ DOMAIN request = Requests
    /\ \A r \in Requests :
          /\ request[r].op \in {"none", "enable", "switch", "disable", "config"}
          /\ (lock = r) <=> (request[r].pc \in {"locked", "write", "restore"})
          /\ request[r].todo \subseteq Files
    /\ blurred \subseteq Files /\ overlapped \in BOOLEAN
    /\ arrivals \in 0..MaxArrivals /\ edits \in 0..MaxEdits /\ mishaps \in 0..MaxMishaps

(* The journal knows what the user had at this key.                        *)
Recorded(f, k) ==
    /\ f \in DOMAIN journal /\ journal[f].before[k] = mine[f][k]
    /\ ~journal[f].done \/ k \in journal[f].owned

(* What the user or another program last wrote is in the file, or in the   *)
(* journal from which it is restored ("A crash can therefore always        *)
(* recover at least the exact prior file", provider/takeover.go).  In      *)
(* particular, where there is no journal the files are the user's.  A file *)
(* is excepted once it was edited while the locks were held or while its   *)
(* entry was not finalized, once a rewrite started over an entry that was  *)
(* not finalized, or once a journal was deleted that was not the restored  *)
(* one.                                                                    *)
OriginalIsKept ==
    \A f \in Files \ blurred : \A k \in Keys : content[f][k] = mine[f][k] \/ Recorded(f, k)

(* The proxy listens for an enabled tool, across restarts and failures, as *)
(* long as requests have not overlapped since the start.                   *)
EnabledIsServed == (up /\ enabled /\ ~overlapped) => proxy
=============================================================================
