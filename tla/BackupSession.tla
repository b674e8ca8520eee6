--------------------------- MODULE BackupSession ---------------------------
(***************************************************************************)
(* One operation of Mobilebackup2Client (services/backup2/mod.rs).  After  *)
(* the request the device drives: run_loop carries out its commands on the *)
(* backup directory and answers each one, until the device says that it is *)
(* done.  A backup may have a filter.  A file it rejects leaves an empty   *)
(* placeholder, since the device may go on to move or copy it; the paths   *)
(* of the placeholders are listed in discarded_files, and what is listed   *)
(* is removed when the session is over, however it ended.                  *)
(*                                                                         *)
(* A path is a sequence of names below the device's directory.  The list   *)
(* of placeholders is kept as a set: the cleanup passes over a path it     *)
(* meets again, and may take them in any order.  Symbolic links, which are *)
(* refused everywhere, the three files that initialize_backup_directory    *)
(* seeds, and the reports of free space are left out.                      *)
(***************************************************************************)
EXTENDS Naturals, Sequences, FiniteSets, SequencesExt

CONSTANTS Names,        \* names of files and directories
          MaxDepth,     \* bound on the length of a path
          MaxSeed,      \* bound on what the directory holds at first
          MaxCommands,  \* bound on the commands of a session
          MaxTransfers  \* MAX_DEVICE_TRANSFER_FILES

ASSUME BackupAssumption == MaxDepth \in Nat

VARIABLES request,        \* the operation, and whether there is a filter
          tree,           \* what is at each path
          discarded,      \* discarded_files
          phase,          \* where the operation is
          result,         \* of the session
          transfer_files, \* of the client
          commands,       \* history: number of commands
          before,         \* history: the tree when the session ended
          mishaps         \* history: what the cleanup could not know

backupVars == <<request, tree, discarded, phase, result, transfer_files, commands, before, mishaps>>

Paths == UNION {[1 .. n -> Names] : n \in 1 .. MaxDepth}
Under(p, dir) == IsPrefix(dir, p)
Above(p) == {q \in Paths : IsStrictPrefix(q, p)}
Rebased(p, from, to) == to \o SubSeq(p, Len(from) + 1, Len(p))

Files == {"kept", "hollow"}
At(t, v) == {p \in Paths : t[p] = v}
Holds(t, dir) == {p \in Paths : Under(p, dir) /\ t[p] # "none"}
Trees == {t \in [Paths -> {"none", "dir", "kept"}] :
            /\ Cardinality({p \in Paths : t[p] # "none"}) <= MaxSeed
            /\ \A p \in Paths : t[p] # "none" => \A q \in Above(p) : t[q] = "dir"}

Filtering == request = "filtered"
Backup == request \in {"filtered", "backup"}

BackupInit ==
    /\ request \in {"filtered", "backup", "other"}
    /\ tree \in Trees /\ discarded = {}
    /\ phase = "loop" /\ result = "none"
    /\ transfer_files = 0 /\ commands = 0
    /\ before = tree /\ mishaps = {}

-----------------------------------------------------------------------------
\* create_layout_parent_directory
ParentsAllowed(p) == \A q \in Above(p) : tree[q] \in {"none", "dir"}
WithParents(t, p) == [q \in Paths |-> IF q \in Above(p) THEN "dir" ELSE t[q]]

quiet == <<request, result, before>>

Listed(p) == p \in discarded

\* A file that is kept takes the path of a placeholder.
Overlays(p) == IF Listed(p) THEN {"overlaid"} ELSE {}

\* The next command of the device.
Commanded(next) ==
    /\ phase = "loop" /\ commands < MaxCommands
    /\ commands' = commands + 1 /\ phase' = next

DLMessageCreateDirectory(p) ==
    /\ Commanded("loop")
    /\ ParentsAllowed(p) /\ tree[p] \in {"none", "dir"}
    /\ tree' = [WithParents(tree, p) EXCEPT ![p] = "dir"]
    /\ UNCHANGED <<quiet, discarded, transfer_files, mishaps>>

\* DLContentsOfDirectory, GetFreeDiskSpace and PurgeDiskSpace answer
\* from the directory and change nothing in it.
DLMessageQuery ==
    /\ Commanded("loop")
    /\ UNCHANGED <<quiet, tree, discarded, transfer_files, mishaps>>

\* The device starts a list of files or of items, and ends it.
DLMessageList == \E list \in {"upload", "download", "move", "remove"} :
    /\ Commanded(list)
    /\ UNCHANGED <<quiet, tree, discarded, transfer_files, mishaps>>

ListEnds ==
    /\ phase \in {"upload", "download", "move", "remove"}
    /\ phase' = "loop"
    /\ UNCHANGED <<quiet, tree, discarded, transfer_files, commands, mishaps>>

\* account_transfer_file
AccountTransferFile ==
    /\ transfer_files < MaxTransfers
    /\ transfer_files' = transfer_files + 1

\* receive_uploaded_files up to the first frame of a file; the frames follow,
\* and the device may end them with an error of its own, which is only logged.
ReceiveUploadedFile(p, preserve) ==
    /\ phase = "upload" /\ AccountTransferFile
    /\ ParentsAllowed(p) /\ tree[p] # "dir"
    /\ ~Filtering => preserve
    /\ tree' = [WithParents(tree, p) EXCEPT ![p] = IF preserve THEN "kept" ELSE "hollow"]
    /\ discarded' = IF preserve THEN discarded ELSE discarded \cup {p}
    /\ mishaps' = mishaps \cup (IF preserve THEN Overlays(p) ELSE {})
    /\ UNCHANGED <<quiet, phase, commands>>

\* send_requested_files; a file that cannot be read is reported in the status.
SendRequestedFile ==
    /\ phase = "download" /\ AccountTransferFile
    /\ UNCHANGED <<quiet, tree, discarded, phase, commands, mishaps>>

-----------------------------------------------------------------------------
\* rename_layout_path: a file may replace a file, a directory an empty one.
Renames(src, dst) ==
    /\ tree[src] # "none" /\ (src = dst \/ ~Under(dst, src)) /\ ParentsAllowed(dst)
    /\ src # dst => IF tree[src] = "dir" THEN tree[dst] \in {"none", "dir"} /\ Holds(tree, dst) \subseteq {dst}
                    ELSE tree[dst] # "dir"
    /\ \A p \in Holds(tree, src) : Rebased(p, src, dst) \in Paths

Moved(src, dst) ==
    LET t == WithParents(tree, dst) IN
    [q \in Paths |->
       IF Under(q, dst) THEN LET p == Rebased(q, dst, src) IN IF p \in Paths THEN t[p] ELSE "none"
       ELSE IF Under(q, src) THEN "none" ELSE t[q]]

\* Is a listed path moved or copied with `src`?
Affected(p, src) == p = src \/ (tree[src] = "dir" /\ Under(p, src))

\* A slip: only the placeholder that is itself moved is followed.
RelocatedExactly(src, dst) ==
    {IF p = src THEN dst ELSE p : p \in discarded}

\* relocate_discarded_files
Relocated(src, dst) ==
    {IF Affected(p, src) THEN Rebased(p, src, dst) ELSE p : p \in discarded}

KeptLandsOnListed(src, dst) ==
    IF \E p \in Holds(tree, src) : tree[p] = "kept" /\ Listed(Rebased(p, src, dst))
    THEN {"overlaid"} ELSE {}

\* With a filter, a source that an earlier cleanup removed is passed over.
MoveItem(src, dst) ==
    /\ phase = "move"
    /\ \/ /\ Filtering /\ tree[src] = "none"
          /\ UNCHANGED <<tree, discarded, mishaps>>
       \/ /\ Renames(src, dst)
          /\ tree' = Moved(src, dst) /\ discarded' = Relocated(src, dst)
          /\ mishaps' = mishaps \cup (IF src = dst THEN {} ELSE KeptLandsOnListed(src, dst))
    /\ UNCHANGED <<quiet, phase, transfer_files, commands>>

\* remove_layout_path and forget_discarded_files
RemoveItem(path) ==
    /\ phase = "remove"
    /\ tree' = [q \in Paths |-> IF Under(q, path) THEN "none" ELSE tree[q]]
    /\ discarded' = {p \in discarded : ~Under(p, path)}
    /\ UNCHANGED <<quiet, phase, transfer_files, commands, mishaps>>

\* What copy_item may copy of `src` to `dst`, and the tree when it has copied `some`.
Copyable(src, dst) ==
    {p \in Holds(tree, src) :
       LET q == Rebased(p, src, dst) IN
       /\ q \in Paths /\ ParentsAllowed(q)
       /\ tree[q] \in IF tree[p] = "dir" THEN {"none", "dir"} ELSE {"none"} \cup Files}

Copies(src, dst) ==
    /\ tree[src] # "none" /\ ~Under(dst, src)
    /\ Copyable(src, dst) = Holds(tree, src)

Copied(src, dst, some) ==
    LET made == {Rebased(p, src, dst) : p \in some} IN
    [q \in Paths |-> IF q \in made THEN tree[Rebased(q, dst, src)]
                     ELSE IF \E m \in made : q \in Above(m) THEN "dir" ELSE tree[q]]

\* copy_discarded_files
CopiedList(src, dst) ==
    discarded \cup {Rebased(p, src, dst) : p \in {q \in discarded : Affected(q, src)}}

DLMessageCopyItem(src, dst) ==
    /\ Commanded("loop")
    /\ \/ /\ Filtering /\ tree[src] = "none"
          /\ UNCHANGED <<tree, discarded, mishaps>>
       \/ /\ Copies(src, dst)
          /\ tree' = Copied(src, dst, Holds(tree, src)) /\ discarded' = CopiedList(src, dst)
          /\ mishaps' = mishaps \cup KeptLandsOnListed(src, dst)
    /\ UNCHANGED <<quiet, transfer_files>>

-----------------------------------------------------------------------------
\* finish_session; a backup goes on to the cleanup in either case.
AfterSession == IF Backup THEN "cleanup" ELSE "done"

SessionOver(r) ==
    /\ phase' = AfterSession
    /\ result' = r /\ before' = tree'
    /\ UNCHANGED <<request, discarded, transfer_files, commands>>

DLMessageProcessMessage ==
    /\ phase = "loop" /\ UNCHANGED <<tree, mishaps>>
    /\ \E r \in {"ok", "err"} : SessionOver(r)

Sessions == {"loop", "upload", "download", "move", "remove"}

\* An error of the stream, of the file system or of the device's message, or the
\* transfer budget ends the session; some parents may have been created, or
\* some files of an item removed.
SessionFails ==
    /\ phase \in Sessions
    /\ \/ tree' = tree
       \/ \E p \in Paths : ParentsAllowed(p) /\ tree' = WithParents(tree, p)
       \/ /\ phase = "remove"
          /\ \E path \in Paths :
               \E gone \in SUBSET {p \in Holds(tree, path) : tree[p] \in Files} :
                 tree' = [q \in Paths |-> IF q \in gone THEN "none" ELSE tree[q]]
    /\ UNCHANGED mishaps /\ SessionOver("err")

\* copy_item fails on its way: what it has copied is not listed.
CopyBreaks(src, dst) ==
    /\ Commanded(AfterSession) /\ ~Under(dst, src)
    /\ \E some \in SUBSET Copyable(src, dst) : some # {} /\ tree' = Copied(src, dst, some)
    /\ mishaps' = mishaps \cup {"unlisted"} \cup KeptLandsOnListed(src, dst)
    /\ result' = "err" /\ before' = tree'
    /\ UNCHANGED <<request, discarded, transfer_files>>

\* cleanup_discarded_files, for one path: the file and the directories that it
\* leaves empty.
Emptied(t, p) ==
    LET t1 == [t EXCEPT ![p] = "none"] IN
    [q \in Paths |-> IF q \in Above(p) /\ \A m \in Holds(t1, q) : m \in Above(p) THEN "none" ELSE t1[q]]

CleanupOne(p) ==
    /\ phase = "cleanup" /\ p \in discarded
    /\ tree[p] # "dir"
    /\ tree' = IF tree[p] = "none" THEN tree ELSE Emptied(tree, p)
    /\ discarded' = discarded \ {p}
    /\ UNCHANGED <<quiet, phase, transfer_files, commands, mishaps>>

CleanupEnds ==
    /\ phase = "cleanup" /\ discarded = {}
    /\ phase' = "done"
    /\ UNCHANGED <<quiet, tree, discarded, transfer_files, commands, mishaps>>

\* An error of the cleanup leaves the rest of the placeholders.
CleanupFails ==
    /\ phase = "cleanup" /\ discarded # {}
    /\ phase' = "done" /\ discarded' = {}
    /\ result' = "err" /\ mishaps' = mishaps \cup {"uncleaned"}
    /\ UNCHANGED <<request, tree, transfer_files, commands, before>>

\* The caller drops the call at an await, or the process ends.
BackupDropped ==
    /\ phase \in Sessions \cup {"cleanup"}
    /\ phase' = "done" /\ result' = "dropped"
    /\ UNCHANGED <<request, tree, discarded, transfer_files, commands, before, mishaps>>

-----------------------------------------------------------------------------
BackupNext ==
    \/ \E p \in Paths : \/ DLMessageCreateDirectory(p) \/ RemoveItem(p)
                        \/ CleanupOne(p)
                        \/ \E preserve \in BOOLEAN : ReceiveUploadedFile(p, preserve)
    \/ \E src, dst \in Paths : MoveItem(src, dst) \/ DLMessageCopyItem(src, dst) \/ CopyBreaks(src, dst)
    \/ DLMessageQuery \/ DLMessageList \/ ListEnds \/ SendRequestedFile
    \/ DLMessageProcessMessage \/ SessionFails
    \/ CleanupEnds \/ CleanupFails \/ BackupDropped

BackupSpec == BackupInit /\ [][BackupNext]_backupVars

-----------------------------------------------------------------------------
\* As long as no accepted file took the path of a placeholder and no copy broke
\* off, exactly the placeholders are listed, and no listed path is a directory:
\* the cleanup, also after a failed session, removes every placeholder and no
\* file that holds data.  Without a filter there is no placeholder at all.
CleanupExact ==
    /\ mishaps = {} /\ phase \in Sessions => discarded = At(tree, "hollow")
    /\ \A p \in discarded : tree[p] # "dir"
    /\ phase = "done" /\ result \in {"ok", "err"} =>
         /\ "overlaid" \notin mishaps => At(tree, "kept") = At(before, "kept")
         /\ mishaps \subseteq {"overlaid"} => At(tree, "hollow") = {}
    /\ ~Filtering => At(tree, "hollow") = {} /\ discarded = {}
    /\ result = "ok" => "unlisted" \notin mishaps
=============================================================================
