--------------------------- MODULE HookSpoolProofs ---------------------------
(***************************************************************************)
(* Proofs about HookSpool, for every set of hook programs and every number *)
(* of failed operations and deaths of the daemon.                          *)
(***************************************************************************)
EXTENDS HookSpool, TLAPS

USE HookSpoolAssumption

\* A program that is about to write its file holds the key of the key file.
KeyInv ==
    \A e \in Hooks :
        /\ hook[e] = "link" => drawn[e] # NoKey
        /\ hook[e] = "spool" => (drawn[e] = key /\ key # NoKey)
        /\ file[e] # "none" => (sealed[e] = key /\ key # NoKey)

\* Files are those of programs that have written them; the names the spool
\* goroutine has listed still are there, and the file at hand has its working
\* name.
NamesInv ==
    /\ \A e \in Hooks : file[e] # "none" => hook[e] = "spooled"
    /\ \A e \in spooler.names : file[e] = "spool"
    /\ spooler.pc # "idle" => file[spooler.event] = "processing"

\* Only what was handed over is removed.
KeptInv == SpooledIsKept /\ (spooler.pc = "remove" => spooler.event \in offered)

SpoolInv == TypeOK /\ KeyInv /\ NamesInv /\ KeptInv

(* The invariant holds at the start.                                       *)
LEMMA SpoolInit == Init => SpoolInv
<1> SUFFICES ASSUME Init PROVE SpoolInv
  OBVIOUS
<1>1. TypeOK
  BY DEF Init, TypeOK, IdleSpooler
<1>2. KeyInv /\ NamesInv /\ KeptInv
  BY DEF Init, KeyInv, NamesInv, KeptInv, SpooledIsKept, IdleSpooler
<1> QED
  BY <1>1, <1>2 DEF SpoolInv

(* Every step of a hook program, of the collector and of the daemon keeps  *)
(* it.                                                                     *)
LEMMA SpoolStep == SpoolInv /\ [Next]_vars => SpoolInv'
<1> SUFFICES ASSUME SpoolInv, [Next]_vars PROVE SpoolInv'
  OBVIOUS
<1> USE DEF SpoolInv, KeyInv, NamesInv, KeptInv, SpooledIsKept, programs, files, Fault, NoFault
<1>1. ASSUME NEW e \in Hooks, WriteSocket(e) PROVE SpoolInv'
  BY <1>1 DEF TypeOK, WriteSocket
<1>2. ASSUME NEW e \in Hooks, LoadOrDrawKey(e) PROVE SpoolInv'
  BY <1>2 DEF TypeOK, LoadOrDrawKey
<1>3. ASSUME NEW e \in Hooks, LinkKey(e) PROVE SpoolInv'
  BY <1>3 DEF TypeOK, LinkKey
<1>4. ASSUME NEW e \in Hooks, WriteSpool(e) PROVE SpoolInv'
  <2>1. TypeOK'
    BY <1>4 DEF TypeOK, WriteSpool
  <2>2. KeyInv'
    BY <1>4 DEF TypeOK, WriteSpool
  <2>3. NamesInv'
    BY <1>4 DEF TypeOK, WriteSpool
  <2>4. KeptInv'
    BY <1>4 DEF TypeOK, WriteSpool
  <2> QED
    BY <2>1, <2>2, <2>3, <2>4
<1>5. ASSUME NEW e \in Hooks, RelayFails(e) PROVE SpoolInv'
  BY <1>5 DEF TypeOK, RelayFails
<1>6. ASSUME NEW e \in Hooks, Accept(e) PROVE SpoolInv'
  BY <1>6 DEF TypeOK, Accept
<1>7. ASSUME ReadSpoolDir PROVE SpoolInv'
  BY <1>7 DEF TypeOK, ReadSpoolDir, IdleSpooler
<1>8. ASSUME NEW e \in Hooks, RenameSpool(e) PROVE SpoolInv'
  BY <1>8 DEF TypeOK, RenameSpool
<1>9. ASSUME IngestSpool PROVE SpoolInv'
  BY <1>9 DEF TypeOK, IngestSpool
<1>10. ASSUME RemoveOrRestore PROVE SpoolInv'
  <2>1. TypeOK'
    <3>1. /\ spooler' \in [pc : {"idle", "ingest", "remove", "restore"},
                          names : SUBSET Hooks, event : Hooks \cup {NoEvent}]
          /\ (spooler'.event = NoEvent) <=> (spooler'.pc = "idle")
      BY <1>10 DEF TypeOK, RemoveOrRestore
    <3>2. file' \in [Hooks -> {"none", "spool", "processing"}] /\ socket' \in SUBSET Hooks
      BY <1>10 DEF TypeOK, RemoveOrRestore
    <3>3. faults' \in 0..MaxFaults /\ crashes' \in 0..MaxCrashes
      BY <1>10 DEF TypeOK, RemoveOrRestore
    <3> QED
      BY <1>10, <3>1, <3>2, <3>3 DEF TypeOK, RemoveOrRestore
  <2>2. KeyInv'
    BY <1>10 DEF TypeOK, RemoveOrRestore
  <2>3. NamesInv'
    BY <1>10 DEF TypeOK, RemoveOrRestore
  <2>4. KeptInv'
    BY <1>10 DEF TypeOK, RemoveOrRestore
  <2> QED
    BY <2>1, <2>2, <2>3, <2>4
<1>11. ASSUME Crash PROVE SpoolInv'
  <2>1. TypeOK'
    <3>1. /\ spooler' \in [pc : {"idle", "ingest", "remove", "restore"},
                          names : SUBSET Hooks, event : Hooks \cup {NoEvent}]
          /\ (spooler'.event = NoEvent) <=> (spooler'.pc = "idle")
      BY <1>11 DEF TypeOK, Crash, IdleSpooler
    <3>2. file' \in [Hooks -> {"none", "spool", "processing"}] /\ socket' \in SUBSET Hooks
      BY <1>11 DEF TypeOK, Crash, IdleSpooler
    <3>3. faults' \in 0..MaxFaults /\ crashes' \in 0..MaxCrashes
      BY <1>11 DEF TypeOK, Crash, IdleSpooler
    <3> QED
      BY <1>11, <3>1, <3>2, <3>3 DEF TypeOK, Crash, IdleSpooler
  <2>2. KeyInv'
    BY <1>11 DEF TypeOK, Crash, IdleSpooler
  <2>3. NamesInv'
    BY <1>11 DEF TypeOK, Crash, IdleSpooler
  <2>4. KeptInv'
    BY <1>11 DEF TypeOK, Crash, IdleSpooler
  <2> QED
    BY <2>1, <2>2, <2>3, <2>4
<1>12. ASSUME Start PROVE SpoolInv'
  BY <1>12 DEF TypeOK, Start
<1>13. CASE UNCHANGED vars
  BY <1>13 DEF TypeOK, vars
<1> QED
  BY <1>1, <1>2, <1>3, <1>4, <1>5, <1>6, <1>7, <1>8, <1>9, <1>10, <1>11, <1>12, <1>13
  DEF Next, ConsumeSpool

LEMMA SpoolInvariant == Spec => []SpoolInv
  BY SpoolInit, SpoolStep, PTL DEF Spec

(* The relay, its files and the collector stay well typed.                 *)
THEOREM SpoolTypeCorrect == Spec => []TypeOK
<1>1. SpoolInv => TypeOK
  BY DEF SpoolInv
<1> QED
  BY <1>1, SpoolInvariant, PTL

(* Whoever wins the link of the first key (loadOrCreateKey), every file is *)
(* encrypted with the key that is there.                                   *)
THEOREM SpoolStaysReadable == Spec => []SpoolIsReadable
<1>1. SpoolInv => SpoolIsReadable
  BY DEF SpoolInv, KeyInv, SpoolIsReadable
<1> QED
  BY <1>1, SpoolInvariant, PTL

(* ConsumeSpool removes a file only when its event was handed to the bus.  *)
THEOREM SpooledStaysKept == Spec => []SpooledIsKept
<1>1. SpoolInv => SpooledIsKept
  BY DEF SpoolInv, KeptInv
<1> QED
  BY <1>1, SpoolInvariant, PTL

(* ConsumeSpool itself never leaves a file with the working name that no   *)
(* pass lists: that takes a death of the daemon or a failed operation.     *)
THEOREM StrandedByAccident == Spec => StrandsByAccident
<1> DEFINE Accident == \A e \in Hooks : (~Stranded(e) /\ Stranded(e)') =>
                          (crashes' # crashes \/ faults' # faults)
<1>1. ASSUME SpoolInv, [Next]_vars PROVE [Accident]_vars
  <2> SUFFICES ASSUME NEW x \in Hooks, Next, ~Stranded(x), Stranded(x)',
                      crashes' = crashes, faults' = faults
               PROVE FALSE
    BY <1>1 DEF Accident
  <2> USE <1>1 DEF SpoolInv, TypeOK, Stranded, programs, files, Fault, NoFault
  <2>1. ASSUME NEW e \in Hooks, WriteSocket(e) \/ LoadOrDrawKey(e) \/ LinkKey(e) \/ RelayFails(e)
                                \/ Accept(e)
        PROVE FALSE
    BY <2>1 DEF WriteSocket, LoadOrDrawKey, LinkKey, RelayFails, Accept
  <2>2. ASSUME NEW e \in Hooks, WriteSpool(e) PROVE FALSE
    BY <2>2 DEF WriteSpool
  <2>3. CASE ReadSpoolDir
    BY <2>3 DEF ReadSpoolDir
  <2>4. ASSUME NEW e \in Hooks, RenameSpool(e) PROVE FALSE
    BY <2>4 DEF RenameSpool
  <2>5. CASE IngestSpool
    BY <2>5 DEF IngestSpool
  <2>6. CASE RemoveOrRestore
    BY <2>6 DEF RemoveOrRestore
  <2>7. CASE Crash
    BY <2>7 DEF Crash
  <2>8. CASE Start
    BY <2>8 DEF Start
  <2> QED
    BY <2>1, <2>2, <2>3, <2>4, <2>5, <2>6, <2>7, <2>8 DEF Next, ConsumeSpool
<1>2. StrandsByAccident <=> [][Accident]_vars
  BY DEF StrandsByAccident
<1> QED
  BY <1>1, <1>2, SpoolInvariant, PTL DEF Spec
==============================================================================
