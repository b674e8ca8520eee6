----------------------------- MODULE SecretFile -----------------------------
(***************************************************************************)
(* How a pair record or a host identity reaches the disk (secret_file.rs,  *)
(* used by credentials.rs and by the pairing code): a temporary sibling is *)
(* created, written, synced and renamed.  Several processes may save the   *)
(* same record; each call on the file system may fail; a process may die   *)
(* between any two of them, and the machine may lose power, which tears    *)
(* what was not synced.  The Windows build moves the old record aside      *)
(* first.                                                                  *)
(*                                                                         *)
(* A temporary name holds the process id and a counter; a later process    *)
(* may get the same id, and then uses the same names again.                *)
(***************************************************************************)
EXTENDS Naturals

CONSTANTS Writers,    \* process ids
          MaxSeq,     \* bound on the temporary names of one process
          MaxFaults,  \* bound on deaths and power losses
          Nil

VARIABLES windows,  \* which replace_secret_file was built
          disk,     \* the file at each name
          saver,    \* the call of write_secret in each process
          counter,  \* COUNTER of each process
          recorded, \* history: the record has been saved
          faults    \* history: a process died, a removal or a restore failed

secretVars == <<windows, disk, saver, counter, recorded, faults>>

Record == <<"record">>
Temp(w, n) == <<w, n>>
Temps == Writers \X (0 .. MaxSeq)
Names == {Record} \cup Temps
Files == [whole : BOOLEAN, synced : BOOLEAN]

\* Nil stands for no file and for no name.
ASSUME SecretAssumption ==
    /\ MaxSeq \in Nat /\ MaxFaults \in Nat
    /\ Nil \notin Files /\ Nil \notin Names

Idle == [pc |-> "idle", tmp |-> Nil, backup |-> Nil]

SecretInit ==
    /\ windows \in BOOLEAN
    /\ disk = [n \in Names |-> Nil]
    /\ saver = [w \in Writers |-> Idle]
    /\ counter = [w \in Writers |-> 0]
    /\ recorded = FALSE
    /\ faults = [deaths |-> 0, litter |-> FALSE, lost |-> FALSE]

Goes(w, pc) == saver' = [saver EXCEPT ![w].pc = pc]

Rename(from, to) == [disk EXCEPT ![to] = disk[from], ![from] = Nil]

\* The file at `name` is removed, or that fails and it stays.
Removes(name) ==
    \/ disk' = [disk EXCEPT ![name] = Nil] /\ faults' = faults
    \/ disk' = disk /\ faults' = [faults EXCEPT !.litter = @ \/ disk[name] # Nil]

-----------------------------------------------------------------------------
\* temp_path, and the removal of a stale file of that name.
SaveStarts(w) ==
    /\ saver[w].pc = "idle" /\ counter[w] < MaxSeq
    /\ saver' = [saver EXCEPT ![w] = [pc |-> "create", tmp |-> Temp(w, counter[w]), backup |-> Nil]]
    /\ counter' = [counter EXCEPT ![w] = @ + 1]
    /\ Removes(Temp(w, counter[w]))
    /\ UNCHANGED <<windows, recorded>>

\* create_secret_file: create_new refuses a file that is there.
CreateSecretFile(w) ==
    /\ saver[w].pc = "create" /\ disk[saver[w].tmp] = Nil
    /\ disk' = [disk EXCEPT ![saver[w].tmp] = [whole |-> FALSE, synced |-> FALSE]]
    /\ Goes(w, "write")
    /\ UNCHANGED <<windows, counter, recorded, faults>>

WriteAll(w) ==
    /\ saver[w].pc = "write"
    /\ disk' = [disk EXCEPT ![saver[w].tmp].whole = TRUE]
    /\ Goes(w, "sync")
    /\ UNCHANGED <<windows, counter, recorded, faults>>

SyncAll(w) ==
    /\ saver[w].pc = "sync"
    /\ disk' = [disk EXCEPT ![saver[w].tmp].synced = TRUE]
    /\ Goes(w, IF windows THEN "check" ELSE "rename")
    /\ UNCHANGED <<windows, counter, recorded, faults>>

\* An error before the replacement, or of it: the temporary file is removed.
SaveFails(w) ==
    /\ saver[w].pc \in {"create", "write", "sync", "rename", "check", "aside"}
    /\ Removes(saver[w].tmp)
    /\ saver' = [saver EXCEPT ![w] = Idle]
    /\ UNCHANGED <<windows, counter, recorded>>

\* rename(tmp, path): all of replace_secret_file but on Windows, where it
\* serves a record that does not exist yet.
Installs(w) ==
    /\ saver[w].pc = "rename"
    /\ disk' = Rename(saver[w].tmp, Record) /\ recorded' = TRUE
    /\ saver' = [saver EXCEPT ![w] = Idle]
    /\ UNCHANGED <<windows, counter, faults>>

\* Windows: is there a record to move aside?
Checks(w) ==
    /\ saver[w].pc = "check"
    /\ Goes(w, IF disk[Record] = Nil THEN "rename" ELSE "aside")
    /\ UNCHANGED <<windows, disk, counter, recorded, faults>>

\* If another process has moved the record in between, that fails (SaveFails).
MovesAside(w) ==
    /\ saver[w].pc = "aside" /\ disk[Record] # Nil /\ counter[w] <= MaxSeq
    /\ disk' = Rename(Record, Temp(w, counter[w]))
    /\ counter' = [counter EXCEPT ![w] = @ + 1]
    /\ saver' = [saver EXCEPT ![w].pc = "install", ![w].backup = Temp(w, counter[w])]
    /\ UNCHANGED <<windows, recorded, faults>>

InstallsOver(w) ==
    /\ saver[w].pc = "install"
    /\ disk' = Rename(saver[w].tmp, Record) /\ recorded' = TRUE
    /\ Goes(w, "drop")
    /\ UNCHANGED <<windows, counter, faults>>

InstallFails(w) ==
    /\ saver[w].pc = "install"
    /\ Goes(w, "restore")
    /\ UNCHANGED <<windows, disk, counter, recorded, faults>>

\* Whether the backup could be removed is not looked at.
DropsBackup(w) ==
    /\ saver[w].pc = "drop"
    /\ Removes(saver[w].backup)
    /\ saver' = [saver EXCEPT ![w] = Idle]
    /\ UNCHANGED <<windows, counter, recorded>>

\* A slip: the failed installation is reported and the backup forgotten.
RestoreForgotten(w) ==
    /\ saver[w].pc = "restore"
    /\ Goes(w, "discard")
    /\ UNCHANGED <<windows, disk, counter, recorded, faults>>

\* Nor whether the old record could be put back.
Restore(w) ==
    /\ saver[w].pc = "restore"
    /\ \/ disk' = Rename(saver[w].backup, Record) /\ faults' = faults
       \/ disk' = disk /\ faults' = [faults EXCEPT !.lost = TRUE, !.litter = TRUE]
    /\ Goes(w, "discard")
    /\ UNCHANGED <<windows, counter, recorded>>

\* The temporary file of a failed installation.
Discards(w) ==
    /\ saver[w].pc = "discard"
    /\ Removes(saver[w].tmp)
    /\ saver' = [saver EXCEPT ![w] = Idle]
    /\ UNCHANGED <<windows, counter, recorded>>

\* Processes die; a process that starts later may have the id of one of them.
\* Between the two renames the record is at its backup name only.
Died(ws) ==
    /\ faults.deaths < MaxFaults
    /\ faults' = [deaths |-> faults.deaths + 1, litter |-> TRUE,
                  lost |-> faults.lost \/ \E w \in ws : saver[w].pc \in {"install", "restore"}]
    /\ saver' = [w \in Writers |-> IF w \in ws THEN Idle ELSE saver[w]]
    /\ counter' = [w \in Writers |-> IF w \in ws THEN 0 ELSE counter[w]]
    /\ UNCHANGED <<windows, recorded>>

ProcessDies(w) == saver[w].pc # "idle" /\ Died({w}) /\ UNCHANGED disk

PowerLoss ==
    /\ Died(Writers)
    /\ disk' = [n \in Names |-> IF disk[n] # Nil /\ ~disk[n].synced
                                THEN [disk[n] EXCEPT !.whole = FALSE] ELSE disk[n]]

-----------------------------------------------------------------------------
SecretStep(w) ==
    \/ SaveStarts(w) \/ CreateSecretFile(w) \/ WriteAll(w) \/ SyncAll(w) \/ SaveFails(w)
    \/ Installs(w) \/ Checks(w) \/ MovesAside(w) \/ InstallsOver(w) \/ InstallFails(w)
    \/ DropsBackup(w) \/ Restore(w) \/ Discards(w)

SecretNext == (\E w \in Writers : SecretStep(w) \/ ProcessDies(w)) \/ PowerLoss

SecretSpec == SecretInit /\ [][SecretNext]_secretVars

-----------------------------------------------------------------------------
\* What load_from_path gives: None for a missing and for a torn record alike.
load_from_path == IF disk[Record] = Nil \/ ~disk[Record].whole THEN Nil ELSE disk[Record]

\* A saved record loads ever after, with two exceptions, both of the Windows
\* build: while a process is between its two renames, and then the old record
\* is whole in its backup; and after a death there or a restore that failed.
\* Whatever the record's name holds is whole and on the disk, at every instant
\* and after every crash.  Key material stays under a temporary name only while
\* its writer runs, unless a process died or a removal failed.
RecordKept ==
    /\ disk[Record] # Nil => load_from_path # Nil /\ disk[Record].synced
    /\ recorded /\ load_from_path = Nil =>
         /\ windows
         /\ \/ faults.lost
            \/ \E w \in Writers : /\ saver[w].pc \in {"install", "restore"}
                                  /\ disk[saver[w].backup] # Nil /\ disk[saver[w].backup].whole
    /\ \A n \in Temps : disk[n] # Nil =>
         faults.litter \/ \E w \in Writers : n \in {saver[w].tmp, saver[w].backup}
=============================================================================
