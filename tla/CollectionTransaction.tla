------------------------ MODULE CollectionTransaction ------------------------
(* The installation of prepared replacements for several collections          *)
(* (crates/storage/src/lib.rs, install_prepared_collection_replacements_locked*)
(* and transaction.rs): a manifest, a rename of each primary to its backup    *)
(* and of each staged file to its primary, the commit mark, the clean-up; the *)
(* rollback when one of them fails, and the recovery a start makes from       *)
(* whatever a crash has left, one manifest after the other.                  *)
(*                                                                           *)
(* Every operation on a file may fail.  Operations reach the disk in their    *)
(* order, at any time after they are made; a sync of the directory waits      *)
(* until they have, except on Windows, where it does nothing.                *)
(*                                                                           *)
(* A definition named Faulty_... is a variant with a bug, for the mutation    *)
(* runs only.                                                                *)
EXTENDS Naturals

CONSTANTS
    Cols, Contents, Absent,   \* as in AtomicReplacement
    Txns,       \* ids of the manifests there may be at a time, ordered as their names
    Syncs,      \* sync_directory waits for the disk: TRUE on unix, FALSE on Windows
    Overlaps    \* phases of a leftover manifest whose collections are replaced again

ASSUME ConstantsAssumption ==
    /\ Absent \notin Contents
    /\ Txns \subseteq Nat
    /\ Syncs \in BOOLEAN
    /\ Overlaps \subseteq {"prepared", "committed"}

Tables == [Cols -> Contents \cup {Absent}]
NoFiles == [i \in Cols |-> Absent]

VARIABLES
    disk,        \* primaries, manifests and backups, see Disk
    durable,     \* the same as a power loss leaves it
    pc,          \* where the installation or the recovery is
    starting,    \* the recovery is a start's, not an error path's
    txn,         \* the manifest of the installation, or under recovery
    goal,        \* the tables with the staged rows in place
    backed_up, installed,   \* the collections renamed so far
    failed       \* first_error of the rollback

vars == <<disk, durable, pc, starting, txn, goal, backed_up, installed, failed>>

(* existed: the manifest's entries whose primary there was.  Staged files      *)
(* matter to nothing but the rename of each, which takes it from goal.       *)
Disk == {d \in [primary : Tables,
                phase   : [Txns -> {"none", "prepared", "committed"}],
                entries : [Txns -> SUBSET Cols],
                existed : [Txns -> SUBSET Cols],
                backup  : [Txns -> Tables]] :
            \A t \in Txns :
                /\ d.existed[t] \subseteq d.entries[t]
                /\ d.phase[t] = "none" => d.entries[t] = {}
                /\ \A i \in Cols : d.backup[t][i] # Absent => i \in d.existed[t]}

TypeOK ==
    /\ disk \in Disk /\ durable \in Disk
    /\ pc \in {"idle", "prepared", "install", "rollback", "discard", "mark", "marked",
               "cleanup", "discarded", "recover", "restore", "finish", "remove", "removed"}
    /\ starting \in BOOLEAN
    /\ txn \in Txns
    /\ goal \in Tables
    /\ backed_up \in SUBSET Cols /\ installed \in SUBSET Cols
    /\ failed \in BOOLEAN

Init ==
    /\ disk \in [primary : Tables, phase : [Txns -> {"none"}], entries : [Txns -> {{}}],
                 existed : [Txns -> {{}}], backup : [Txns -> {NoFiles}]]
    /\ durable = disk
    /\ goal = disk.primary
    /\ txn \in Txns
    /\ pc = "idle" /\ starting = FALSE
    /\ backed_up = {} /\ installed = {} /\ failed = FALSE
----------------------------------------------------------------------------
(* What the next start makes of a disk: it undoes a prepared manifest.        *)
Covers(d, t, i) == d.phase[t] = "prepared" /\ i \in d.entries[t]

Undone(d, t, i) == IF i \notin d.existed[t] THEN Absent
                   ELSE IF d.backup[t][i] # Absent THEN d.backup[t][i]
                   ELSE d.primary[i]

Outcome(d) ==
    [i \in Cols |-> IF \E t \in Txns : Covers(d, t, i)
                   THEN Undone(d, CHOOSE t \in Txns : Covers(d, t, i), i)
                   ELSE d.primary[i]]
----------------------------------------------------------------------------
(* An operation on the disk, and sync_directory. *)
Do(d) == disk' = d /\ UNCHANGED durable

sync_directory == /\ durable' = IF Syncs THEN disk ELSE durable
                  /\ UNCHANGED disk

Files    == <<disk, durable>>
Progress == <<goal, backed_up, installed, failed>>

Goes(from, to) == /\ pc = from /\ pc' = to
                  /\ UNCHANGED <<starting, txn>>

(* The files a rename or a removal leaves. *)
SetBackup(i)   == [disk EXCEPT !.primary[i] = Absent, !.backup[txn][i] = disk.primary[i]]
Restore(i)     == [disk EXCEPT !.primary[i] = disk.backup[txn][i], !.backup[txn][i] = Absent]
SetPrimary(i, content) == [disk EXCEPT !.primary[i] = content]
NoBackup(i)    == [disk EXCEPT !.backup[txn][i] = Absent]
NoManifest     == [disk EXCEPT !.phase[txn] = "none", !.entries[txn] = {}, !.existed[txn] = {}]
----------------------------------------------------------------------------
(* prepare_collection_replacement_files has staged the rows; the manifest is  *)
(* written.  Before that a failure changes nothing.  The code asks nothing of *)
(* the manifests that failed replacements have left; Overlaps bounds which of *)
(* them the same collections are replaced over.                              *)
write_prepared_manifest(t, E, rows) ==
    /\ pc = "idle" /\ pc' = "prepared"
    /\ disk.phase[t] = "none"
    /\ \A u \in Txns : disk.phase[u] \notin Overlaps => E \cap disk.entries[u] = {}
    /\ txn' = t
    /\ goal' = [i \in Cols |-> IF i \in E THEN rows[i] ELSE Outcome(disk)[i]]
    /\ Do([disk EXCEPT !.phase[t] = "prepared", !.entries[t] = E,
                       !.existed[t] = {i \in E : disk.primary[i] # Absent}])
    /\ backed_up' = {} /\ installed' = {} /\ failed' = FALSE
    /\ UNCHANGED starting

(* Its sync; without it the manifest is left behind, and the store goes on.   *)
prepared_manifest_synced ==
    /\ Goes("prepared", "install")
    /\ sync_directory
    /\ UNCHANGED Progress

prepared_manifest_fails ==
    /\ Goes("prepared", "idle")
    /\ UNCHANGED <<Files, Progress>>

(* The renames: all primaries that exist, then all staged files.  Their order *)
(* is the caller's.                                                          *)
rename_to_backup(i) ==
    /\ Goes("install", "install")
    /\ i \in disk.existed[txn] \ backed_up
    /\ Do(SetBackup(i))
    /\ backed_up' = backed_up \cup {i}
    /\ UNCHANGED <<goal, installed, failed>>

Faulty_rename_staged(i) ==          \* each collection as soon as it is backed up
    /\ Goes("install", "install")
    /\ i \in disk.entries[txn] \ installed
    /\ Do(SetPrimary(i, goal[i]))
    /\ installed' = installed \cup {i}
    /\ UNCHANGED <<goal, backed_up, failed>>

rename_staged(i) ==
    /\ Goes("install", "install")
    /\ backed_up = disk.existed[txn]
    /\ i \in disk.entries[txn] \ installed
    /\ Do(SetPrimary(i, goal[i]))
    /\ installed' = installed \cup {i}
    /\ UNCHANGED <<goal, backed_up, failed>>

install_synced ==
    /\ Goes("install", "mark")
    /\ backed_up = disk.existed[txn] /\ installed = disk.entries[txn]
    /\ sync_directory
    /\ UNCHANGED Progress

(* A rename, after_install or the sync fails. *)
install_fails ==
    /\ Goes("install", "rollback")
    /\ UNCHANGED <<Files, Progress>>

(* rollback_collection_replacements goes on past errors. *)
rollback_removes(i) ==
    /\ Goes("rollback", "rollback")
    /\ i \in installed
    /\ installed' = installed \ {i}
    /\ \/ Do(SetPrimary(i, Absent)) /\ UNCHANGED failed
       \/ failed' = TRUE /\ UNCHANGED Files
    /\ UNCHANGED <<goal, backed_up>>

rollback_restores(i) ==
    /\ Goes("rollback", "rollback")
    /\ installed = {} /\ i \in backed_up
    /\ backed_up' = backed_up \ {i}
    /\ \/ Do(Restore(i)) /\ UNCHANGED failed
       \/ failed' = TRUE /\ UNCHANGED Files
    /\ UNCHANGED <<goal, installed>>

(* storage_rollback_failed leaves the manifest for the next start.  The other *)
(* ending is what streaming.rs does: it deletes the backups too.             *)
Faulty_rollback_incomplete ==
    /\ Goes("rollback", "idle")
    /\ installed = {} /\ backed_up = {} /\ failed
    /\ Do([disk EXCEPT !.backup[txn] = NoFiles])
    /\ UNCHANGED Progress

rollback_incomplete ==
    /\ Goes("rollback", "idle")
    /\ installed = {} /\ backed_up = {} /\ failed
    /\ UNCHANGED <<Files, Progress>>

rollback_complete ==
    /\ Goes("rollback", "discard")
    /\ installed = {} /\ backed_up = {} /\ ~failed
    /\ UNCHANGED <<Files, Progress>>

(* mark_collection_transaction_committed: the manifest, then its sync. *)
mark_committed ==
    /\ Goes("mark", "marked")
    /\ Do([disk EXCEPT !.phase[txn] = "committed"])
    /\ UNCHANGED Progress

Faulty_mark_synced ==               \* the commit mark is not made durable
    /\ Goes("marked", "cleanup")
    /\ UNCHANGED <<Files, Progress>>

mark_synced ==
    /\ Goes("marked", "cleanup")
    /\ sync_directory
    /\ UNCHANGED Progress

mark_fails ==
    /\ Goes("mark", "recover") \/ Goes("marked", "recover")
    /\ UNCHANGED <<Files, Progress>>

(* cleanup_pending_collection_transaction_files_checked; after a failure it    *)
(* "will resume on startup".                                                 *)
cleanup_removes_backup(i) ==
    /\ Goes("cleanup", "cleanup")
    /\ disk.backup[txn][i] # Absent
    /\ Do(NoBackup(i))
    /\ UNCHANGED Progress

cleanup_fails ==
    /\ Goes("cleanup", "idle")
    /\ UNCHANGED <<Files, Progress>>

(* remove_collection_transaction_manifest, here and after a rollback. *)
Faulty_remove_manifest ==           \* without waiting for the backups to go
    /\ Goes("cleanup", "discarded") \/ Goes("discard", "discarded")
    /\ Do(NoManifest)
    /\ UNCHANGED Progress

remove_manifest ==
    /\ \/ Goes("cleanup", "discarded") /\ disk.backup[txn] = NoFiles
       \/ Goes("discard", "discarded")
    /\ Do(NoManifest)
    /\ UNCHANGED Progress

removal_synced ==
    /\ Goes("discarded", "idle")
    /\ sync_directory
    /\ UNCHANGED Progress

removal_fails ==
    /\ Goes("discard", "idle") \/ Goes("discarded", "idle")
    /\ UNCHANGED <<Files, Progress>>
----------------------------------------------------------------------------
(* recover_pending_collection_transactions, at a start and after a failed     *)
(* commit mark; the manifests in the order of their ids, each checked before  *)
(* any of its files is touched.                                              *)
PreparedStuck(d, t) ==
    \E i \in d.entries[t] :
        \/ d.backup[t][i] # Absent /\ i \notin d.existed[t]
        \/ d.backup[t][i] = Absent /\ i \in d.existed[t] /\ d.primary[i] = Absent

CommittedStuck(d, t) == \E i \in d.entries[t] : d.primary[i] = Absent

Recovers(t, phase, to) ==
    /\ pc = "recover" /\ pc' = to
    /\ disk.phase[t] = phase
    /\ \A u \in Txns : disk.phase[u] # "none" => t <= u
    /\ txn' = t
    /\ UNCHANGED <<starting, Files, Progress>>

recover_prepared_transaction(t) ==
    Recovers(t, "prepared", "restore") /\ ~PreparedStuck(disk, t)

recover_committed_transaction(t) ==
    Recovers(t, "committed", "finish") /\ ~CommittedStuck(disk, t)

(* For each entry: the primary goes, the backup takes its place. *)
restore_entry(i) ==
    /\ Goes("restore", "restore")
    /\ i \in disk.entries[txn]
    /\ \/ disk.backup[txn][i] # Absent /\ disk.primary[i] # Absent /\ Do(SetPrimary(i, Absent))
       \/ disk.backup[txn][i] # Absent /\ disk.primary[i] = Absent /\ Do(Restore(i))
       \/ disk.primary[i] # Absent /\ i \notin disk.existed[txn] /\ Do(SetPrimary(i, Absent))
    /\ UNCHANGED Progress

restore_synced ==
    /\ Goes("restore", "remove")
    /\ \A i \in disk.entries[txn] : /\ disk.backup[txn][i] = Absent
                                    /\ i \notin disk.existed[txn] => disk.primary[i] = Absent
    /\ sync_directory
    /\ UNCHANGED Progress

finish_entry(i) ==
    /\ Goes("finish", "finish")
    /\ disk.backup[txn][i] # Absent
    /\ Do(NoBackup(i))
    /\ UNCHANGED Progress

finish_synced ==
    /\ Goes("finish", "remove")
    /\ disk.backup[txn] = NoFiles
    /\ sync_directory
    /\ UNCHANGED Progress

(* remove_collection_transaction_manifest again, and on to the next manifest. *)
recovery_removes_manifest ==
    /\ Goes("remove", "removed")
    /\ Do(NoManifest)
    /\ UNCHANGED Progress

recovery_goes_on ==
    /\ Goes("removed", "recover")
    /\ sync_directory
    /\ UNCHANGED Progress

recovery_ends ==
    /\ pc = "recover" /\ \A t \in Txns : disk.phase[t] = "none"
    /\ pc' = "idle" /\ starting' = FALSE
    /\ sync_directory
    /\ UNCHANGED <<txn, Progress>>

(* An error ends a start, to be tried again, or the replacement's error path. *)
recovery_fails ==
    /\ pc \in {"recover", "restore", "finish", "remove", "removed"}
    /\ pc' = IF starting THEN "recover" ELSE "idle"
    /\ UNCHANGED <<Files, starting, txn, Progress>>

(* The process dies, or the power fails, anywhere. *)
Crash ==
    /\ disk' \in {disk, durable}
    /\ pc' = "recover" /\ starting' = TRUE
    /\ backed_up' = {} /\ installed' = {} /\ failed' = FALSE
    /\ UNCHANGED <<durable, txn, goal>>

(* The operating system writes back what it has. *)
WriteBack ==
    /\ durable' = disk
    /\ UNCHANGED <<disk, pc, starting, txn, Progress>>

Install == \/ \E t \in Txns, E \in SUBSET Cols \ {{}} :
                \E rows \in [E -> Contents] : write_prepared_manifest(t, E, rows)
           \/ prepared_manifest_synced \/ prepared_manifest_fails
           \/ \E i \in Cols : rename_to_backup(i) \/ rename_staged(i)
           \/ install_synced \/ install_fails

Rollback == \/ \E i \in Cols : rollback_removes(i) \/ rollback_restores(i)
            \/ rollback_incomplete \/ rollback_complete

Commit == \/ mark_committed \/ mark_synced \/ mark_fails
          \/ \E i \in Cols : cleanup_removes_backup(i)
          \/ cleanup_fails \/ remove_manifest \/ removal_synced \/ removal_fails

Recovery == \/ \E t \in Txns : recover_prepared_transaction(t) \/ recover_committed_transaction(t)
            \/ \E i \in Cols : restore_entry(i) \/ finish_entry(i)
            \/ restore_synced \/ finish_synced \/ recovery_removes_manifest
            \/ recovery_goes_on \/ recovery_ends \/ recovery_fails

Next == Install \/ Rollback \/ Commit \/ Recovery \/ Crash \/ WriteBack

Spec == Init /\ [][Next]_vars
----------------------------------------------------------------------------
(* "Prepared transaction lost both primary and backup", "... has a backup for *)
(* an originally absent collection" and "Committed transaction is missing a   *)
(* primary collection" (transaction.rs): no crash, at any point of an         *)
(* installation, a rollback or a recovery, leaves a disk a start refuses.     *)
RecoveryNeverStuck ==
    \A d \in {disk, durable}, t \in Txns :
        /\ d.phase[t] = "prepared" => ~PreparedStuck(d, t)
        /\ d.phase[t] = "committed" => ~CommittedStuck(d, t)

(* Nor does any leave a disk that rows are missing from: a start can undo      *)
(* every prepared manifest, and a primary missing to a committed one is the   *)
(* backup of a prepared one, whose undo would put it back.                   *)
NothingLost ==
    \A d \in {disk, durable}, t \in Txns :
        /\ d.phase[t] = "prepared" => ~PreparedStuck(d, t)
        /\ d.phase[t] = "committed" =>
              \A i \in d.entries[t] :
                  \/ d.primary[i] # Absent
                  \/ \E u \in Txns : Covers(d, u, i) /\ d.backup[u][i] # Absent

(* Once the commit mark is synced the caller is told that its rows are stored, *)
(* and from then on no crash and no failing clean-up returns any of the       *)
(* collections to its old rows; nor does a power loss, where a sync waits.    *)
AnsweredIsDurable ==
    pc = "cleanup" => /\ Outcome(disk) = goal
                      /\ Syncs => Outcome(durable) = goal

(* All collections change, or none: AtomicReplacement, through every failing   *)
(* operation, rollback, crash and restarted recovery.                        *)
Atomic == INSTANCE AtomicReplacement
            WITH table <- Outcome(disk), kept <- Outcome(durable), request <- goal
ImplementsAtomicReplacement == Atomic!Spec
=============================================================================
