----------------------------- MODULE HookSpool ------------------------------
(***************************************************************************)
(* How the event of a native hook reaches the daemon: hookrelay/relay.go   *)
(* and the collector of observability/ingest.go.  A hook program writes    *)
(* its event to the daemon's socket or, when that fails, into an encrypted *)
(* file of its own; the daemon reads the files every five seconds.         *)
(*                                                                         *)
(* Processes: one hook program per event, the goroutines of the socket's   *)
(* connections and the spool goroutine.  An operation on a file is a step. *)
(* Handing an event to the observation bus is the end of its way here; the *)
(* bus and its writer are module ObservationWriter.                        *)
(***************************************************************************)
EXTENDS Integers, FiniteSets

CONSTANTS
    Hooks,       \* the events of native hooks, one program each
    MaxFaults,   \* bound: operations that fail
    MaxCrashes   \* bound: times the daemon dies

NoEvent == "no event"
NoKey == "no key"

ASSUME HookSpoolAssumption ==
    /\ NoEvent \notin Hooks /\ NoKey \notin Hooks
    /\ MaxFaults \in Nat /\ MaxCrashes \in Nat

VARIABLES
    hook,      \* per event, where its program is
    drawn,     \* the key its program holds
    key,       \* the key file
    file,      \* per event: none, spool, processing (the name of its file)
    sealed,    \* the key the file is encrypted with
    up,        \* the daemon runs and listens
    socket,    \* events in the socket or read from it, not yet published
    spooler,   \* ConsumeSpool: the names it has listed, the file at hand
    offered,   \* history: events handed to the bus
    faults, crashes

programs == <<hook, drawn, key>>
files == <<file, sealed>>
vars == <<hook, drawn, key, file, sealed, up, socket, spooler, offered, faults, crashes>>

IdleSpooler == [pc |-> "idle", names |-> {}, event |-> NoEvent]

Fault == faults < MaxFaults /\ faults' = faults + 1
NoFault == UNCHANGED faults

Init ==
    /\ hook = [e \in Hooks |-> "new"] /\ drawn = [e \in Hooks |-> NoKey]
    /\ key = NoKey
    /\ file = [e \in Hooks |-> "none"] /\ sealed = [e \in Hooks |-> NoKey]
    /\ up \in BOOLEAN
    /\ socket = {} /\ spooler = IdleSpooler /\ offered = {}
    /\ faults = 0 /\ crashes = 0
-----------------------------------------------------------------------------
(* The hook program: Relay.                                                *)

(* The write succeeds once the kernel has the bytes.                       *)
WriteSocket(e) ==
    /\ hook[e] = "new" /\ up
    /\ hook' = [hook EXCEPT ![e] = "done"]
    /\ socket' = socket \cup {e}
    /\ UNCHANGED <<drawn, key, files, up, spooler, offered, faults, crashes>>

(* No socket, or it is not ready in time: load the key, or draw one.  Keys *)
(* are told apart by the program that drew them.                           *)
LoadOrDrawKey(e) ==
    /\ hook[e] = "new"
    /\ IF key # NoKey
       THEN /\ hook' = [hook EXCEPT ![e] = "spool"]
            /\ drawn' = [drawn EXCEPT ![e] = key]
       ELSE /\ hook' = [hook EXCEPT ![e] = "link"]
            /\ drawn' = [drawn EXCEPT ![e] = e]
    /\ UNCHANGED <<key, files, up, socket, spooler, offered, faults, crashes>>

(* Variation: the new key file is renamed over the one that is there.      *)
LinkKeyReplaces(e) ==
    /\ hook[e] = "link"
    /\ hook' = [hook EXCEPT ![e] = "spool"]
    /\ key' = drawn[e]
    /\ UNCHANGED <<drawn, files, up, socket, spooler, offered, faults, crashes>>

(* The link refuses to replace a key: the loser loads the winner's.        *)
LinkKey(e) ==
    /\ hook[e] = "link"
    /\ hook' = [hook EXCEPT ![e] = "spool"]
    /\ IF key = NoKey
       THEN key' = drawn[e] /\ UNCHANGED drawn
       ELSE drawn' = [drawn EXCEPT ![e] = key] /\ UNCHANGED key
    /\ UNCHANGED <<files, up, socket, spooler, offered, faults, crashes>>

(* The file is linked to its name when it is complete and synced.          *)
WriteSpool(e) ==
    /\ hook[e] = "spool"
    /\ NoFault
    /\ hook' = [hook EXCEPT ![e] = "spooled"]
    /\ file' = [file EXCEPT ![e] = "spool"]
    /\ sealed' = [sealed EXCEPT ![e] = drawn[e]]
    /\ UNCHANGED <<drawn, key, up, socket, spooler, offered, crashes>>

(* A hook never holds its agent up: any error ends it, the event is lost.  *)
RelayFails(e) ==
    /\ hook[e] \in {"link", "spool"} /\ Fault
    /\ hook' = [hook EXCEPT ![e] = "done"]
    /\ UNCHANGED <<drawn, key, files, up, socket, spooler, offered, crashes>>
-----------------------------------------------------------------------------
(* The collector.                                                          *)

(* The goroutine of a connection ingests the line it has read; an error is *)
(* only logged.                                                            *)
Accept(e) ==
    /\ up /\ e \in socket
    /\ socket' = socket \ {e}
    /\ \/ NoFault /\ offered' = offered \cup {e}
       \/ Fault /\ UNCHANGED offered
    /\ UNCHANGED <<programs, files, up, spooler, crashes>>

(* ConsumeSpool reads the directory.                                       *)
ReadSpoolDir ==
    /\ up /\ spooler = IdleSpooler
    /\ \E e \in Hooks : file[e] = "spool"
    /\ spooler' = [spooler EXCEPT !.names = {e \in Hooks : file[e] = "spool"}]
    /\ UNCHANGED <<programs, files, up, socket, offered, faults, crashes>>

(* It takes the next name, or skips it when the rename fails.              *)
RenameSpool(e) ==
    /\ spooler.pc = "idle" /\ e \in spooler.names
    /\ \/ /\ NoFault
          /\ file' = [file EXCEPT ![e] = "processing"]
          /\ spooler' = [pc |-> "ingest", names |-> spooler.names \ {e}, event |-> e]
       \/ /\ Fault
          /\ spooler' = [spooler EXCEPT !.names = @ \ {e}]
          /\ UNCHANGED file
    /\ UNCHANGED <<programs, sealed, up, socket, offered, crashes>>

(* DecryptSpool and ingestWire.  Publishing hands the event over even when *)
(* the usage record that is written after it fails.                        *)
IngestSpool ==
    LET e == spooler.event IN
    /\ spooler.pc = "ingest"
    /\ \/ /\ sealed[e] = key /\ NoFault
          /\ offered' = offered \cup {e}
          /\ spooler' = [spooler EXCEPT !.pc = "remove"]
       \/ /\ sealed[e] = key /\ Fault
          /\ offered' \in {offered, offered \cup {e}}
          /\ spooler' = [spooler EXCEPT !.pc = "restore"]
       \/ /\ sealed[e] # key /\ NoFault
          /\ spooler' = [spooler EXCEPT !.pc = "restore"]
          /\ UNCHANGED offered
    /\ UNCHANGED <<programs, files, up, socket, crashes>>

(* Variation: a file that could not be ingested is removed all the same.   *)
RemoveOrRestoreDrops ==
    /\ spooler.pc \in {"remove", "restore"}
    /\ spooler' = [spooler EXCEPT !.pc = "idle", !.event = NoEvent]
    /\ file' = [file EXCEPT ![spooler.event] = "none"]
    /\ UNCHANGED <<programs, sealed, up, socket, offered, faults, crashes>>

(* Variation: a file that could not be ingested keeps its working name.    *)
RemoveOrRestoreLeaves ==
    /\ spooler.pc \in {"remove", "restore"}
    /\ spooler' = [spooler EXCEPT !.pc = "idle", !.event = NoEvent]
    /\ \/ /\ NoFault
          /\ file' = [file EXCEPT ![spooler.event] =
                         IF spooler.pc = "remove" THEN "none" ELSE "processing"]
       \/ Fault /\ UNCHANGED file
    /\ UNCHANGED <<programs, sealed, up, socket, offered, crashes>>

(* The file is removed, or gets its name back; an error is ignored.        *)
RemoveOrRestore ==
    /\ spooler.pc \in {"remove", "restore"}
    /\ spooler' = [spooler EXCEPT !.pc = "idle", !.event = NoEvent]
    /\ \/ /\ NoFault
          /\ file' = [file EXCEPT ![spooler.event] =
                         IF spooler.pc = "remove" THEN "none" ELSE "spool"]
       \/ Fault /\ UNCHANGED file
    /\ UNCHANGED <<programs, sealed, up, socket, offered, crashes>>
-----------------------------------------------------------------------------
(* The daemon dies, between any two operations on a file.  What was in the *)
(* socket is lost: the program that wrote it has ended.                    *)
Crash ==
    /\ up /\ crashes < MaxCrashes
    /\ crashes' = crashes + 1
    /\ up' = FALSE /\ socket' = {} /\ spooler' = IdleSpooler
    /\ UNCHANGED <<programs, files, offered, faults>>

(* The socket a dead daemon has left is removed, a new one listened on.    *)
Start ==
    /\ ~up /\ up' = TRUE
    /\ UNCHANGED <<programs, files, socket, spooler, offered, faults, crashes>>
-----------------------------------------------------------------------------
ConsumeSpool ==
    ReadSpoolDir \/ (\E e \in Hooks : RenameSpool(e)) \/ IngestSpool \/ RemoveOrRestore

Next ==
    \/ \E e \in Hooks :
          \/ WriteSocket(e) \/ LoadOrDrawKey(e) \/ LinkKey(e) \/ WriteSpool(e) \/ RelayFails(e)
          \/ Accept(e)
    \/ ConsumeSpool \/ Crash \/ Start

Spec == Init /\ [][Next]_vars

(* The spool goroutine ticks for as long as the daemon runs, and the       *)
(* daemon is started again after it died.                                  *)
FairSpec == Spec /\ WF_vars(ConsumeSpool) /\ WF_vars(Start)
-----------------------------------------------------------------------------
(* The state is well formed (theorem SpoolTypeCorrect of HookSpoolProofs). *)
TypeOK ==
    /\ hook \in [Hooks -> {"new", "link", "spool", "spooled", "done"}]
    /\ drawn \in [Hooks -> Hooks \cup {NoKey}] /\ key \in Hooks \cup {NoKey}
    /\ file \in [Hooks -> {"none", "spool", "processing"}]
    /\ sealed \in [Hooks -> Hooks \cup {NoKey}]
    /\ up \in BOOLEAN /\ socket \in SUBSET Hooks
    /\ spooler \in [pc : {"idle", "ingest", "remove", "restore"},
                    names : SUBSET Hooks, event : Hooks \cup {NoEvent}]
    /\ (spooler.event = NoEvent) <=> (spooler.pc = "idle")
    /\ offered \in SUBSET Hooks
    /\ faults \in 0..MaxFaults /\ crashes \in 0..MaxCrashes

(* Every spool file can be decrypted with the key file, however many hook  *)
(* programs found no key at the same time ("Concurrent first writers       *)
(* simply load the winner's key", hookrelay/relay.go).                     *)
SpoolIsReadable == \A e \in Hooks : file[e] # "none" => sealed[e] = key

(* An event that was spooled is in a file or has been handed to the bus,   *)
(* whatever fails and whenever the daemon dies.                            *)
SpooledIsKept == \A e \in Hooks : hook[e] = "spooled" => (file[e] # "none" \/ e \in offered)

(* Files with the working name that nobody works on: ConsumeSpool lists    *)
(* only the other suffix, so no later pass reads them.                     *)
Stranded(e) == file[e] = "processing" /\ spooler.event # e

(* Nothing but a death of the daemon or a failed operation strands a file: *)
(* no error of decrypting or publishing an event does.                     *)
StrandsByAccident ==
    [][\A e \in Hooks : (~Stranded(e) /\ Stranded(e)') =>
          (crashes' # crashes \/ faults' # faults)]_vars

(* A spooled event reaches the bus unless its file is stranded.            *)
SpooledIsOffered ==
    \A e \in Hooks : (hook[e] = "spooled") ~> (e \in offered \/ Stranded(e))
=============================================================================
