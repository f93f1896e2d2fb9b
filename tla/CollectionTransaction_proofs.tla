--------------------- MODULE CollectionTransaction_proofs ---------------------
(* Proofs about CollectionTransaction, for any collections, contents and       *)
(* number of manifests, with and without a sync that waits for the disk.  The *)
(* types hold whatever is replaced again; the other theorems say in their     *)
(* ASSUME over which leftover manifests no collection is.                     *)
EXTENDS CollectionTransaction, TLAPS

(* How far the installation, the rollback or the recovery of txn is. *)
RolledBack == \A i \in disk.entries[txn] :
                  /\ disk.backup[txn][i] = Absent
                  /\ i \notin disk.existed[txn] => disk.primary[i] = Absent

Prepared ==
    pc = "prepared" =>
        /\ disk.phase[txn] = "prepared" /\ disk.backup[txn] = NoFiles
        /\ backed_up = {} /\ installed = {}
        /\ \A i \in disk.entries[txn] :
              /\ i \in disk.existed[txn] <=> disk.primary[i] # Absent
              /\ goal[i] # Absent

Installing ==
    pc = "install" =>
        /\ disk.phase[txn] = "prepared"
        /\ backed_up \subseteq disk.existed[txn] /\ installed \subseteq disk.entries[txn]
        /\ installed # {} => backed_up = disk.existed[txn]
        /\ \A i \in disk.existed[txn] : /\ i \in backed_up <=> disk.backup[txn][i] # Absent
                                        /\ i \notin backed_up => disk.primary[i] # Absent
        /\ \A i \in disk.entries[txn] \ installed :
              i \notin disk.existed[txn] => disk.primary[i] = Absent
        /\ \A i \in installed : disk.primary[i] = goal[i]
        /\ \A i \in disk.entries[txn] : goal[i] # Absent

RollingBack ==
    pc = "rollback" =>
        /\ disk.phase[txn] = "prepared"
        /\ backed_up \subseteq disk.existed[txn] /\ installed \subseteq disk.entries[txn]
        /\ installed # {} => backed_up = disk.existed[txn]
        /\ \A i \in backed_up : disk.backup[txn][i] # Absent
        /\ ~failed => \A i \in disk.existed[txn] \ backed_up :
                          disk.backup[txn][i] = Absent /\ disk.primary[i] # Absent
        /\ ~failed => \A i \in disk.entries[txn] \ installed :
                          i \notin disk.existed[txn] => disk.primary[i] = Absent

Marking ==
    /\ pc = "mark" => /\ disk.phase[txn] = "prepared"
                      /\ Syncs => durable = disk
                      /\ \A i \in disk.entries[txn] : disk.primary[i] = goal[i] /\ goal[i] # Absent
    /\ pc \in {"marked", "cleanup"} => disk.phase[txn] = "committed"

Recovering ==
    /\ pc = "discard" => disk.phase[txn] = "prepared" /\ RolledBack
    /\ pc = "restore" => disk.phase[txn] = "prepared"
    /\ pc = "finish" => disk.phase[txn] = "committed"
    /\ pc = "remove" => /\ disk.phase[txn] # "none"
                        /\ disk.phase[txn] = "prepared" => RolledBack
                        /\ disk.backup[txn] = NoFiles

StepOK == Prepared /\ Installing /\ RollingBack /\ Marking /\ Recovering

IInv == TypeOK /\ StepOK
-----------------------------------------------------------------------------
(* A disk that differs from disk in the files of collection i only: it has     *)
(* primary p and, as txn's backup, b.                                         *)
Touched(d, i, p, b) ==
    /\ d \in Disk
    /\ d.phase = disk.phase /\ d.entries = disk.entries /\ d.existed = disk.existed
    /\ \A j \in Cols : d.primary[j] = IF j = i THEN p ELSE disk.primary[j]
    /\ \A t \in Txns, j \in Cols :
          d.backup[t][j] = IF t = txn /\ j = i THEN b ELSE disk.backup[t][j]

(* A disk that differs from disk in manifest t only. *)
Listed(d, t, ph, E, X) ==
    /\ d \in Disk
    /\ d.primary = disk.primary /\ d.backup = disk.backup
    /\ \A u \in Txns : /\ d.phase[u] = IF u = t THEN ph ELSE disk.phase[u]
                       /\ d.entries[u] = IF u = t THEN E ELSE disk.entries[u]
                       /\ d.existed[u] = IF u = t THEN X ELSE disk.existed[u]

(* The fields of disk. *)
DiskRecord == [primary : Tables, phase : [Txns -> {"none", "prepared", "committed"}],
               entries : [Txns -> SUBSET Cols], existed : [Txns -> SUBSET Cols],
               backup : [Txns -> Tables]]

LEMMA DiskFields ==
    ASSUME TypeOK
    PROVE  /\ disk \in DiskRecord /\ txn \in Txns
           /\ disk.primary \in [Cols -> Contents \cup {Absent}]
           /\ disk.backup \in [Txns -> [Cols -> Contents \cup {Absent}]]
           /\ disk.phase \in [Txns -> {"none", "prepared", "committed"}]
           /\ disk.entries \in [Txns -> SUBSET Cols] /\ disk.existed \in [Txns -> SUBSET Cols]
           /\ \A t \in Txns : /\ disk.existed[t] \subseteq disk.entries[t]
                              /\ disk.phase[t] = "none" => disk.entries[t] = {}
                              /\ \A i \in Cols : disk.backup[t][i] # Absent => i \in disk.existed[t]
BY DEF TypeOK, Disk, DiskRecord, Tables

LEMMA InDisk ==
    ASSUME NEW d \in DiskRecord,
           \A t \in Txns : /\ d.existed[t] \subseteq d.entries[t]
                           /\ d.phase[t] = "none" => d.entries[t] = {}
                           /\ \A j \in Cols : d.backup[t][j] # Absent => j \in d.existed[t]
    PROVE  d \in Disk
<1>1. Disk = {x \in DiskRecord :
                 \A t \in Txns : /\ x.existed[t] \subseteq x.entries[t]
                                 /\ x.phase[t] = "none" => x.entries[t] = {}
                                 /\ \A i \in Cols : x.backup[t][i] # Absent => i \in x.existed[t]}
  BY DEF Disk, DiskRecord
<1> QED BY <1>1

LEMMA Touches ==
    ASSUME TypeOK, NEW i \in Cols, NEW p \in Contents \cup {Absent}, NEW b \in Contents \cup {Absent},
           b # Absent => i \in disk.existed[txn],
           NEW d \in DiskRecord, d.phase = disk.phase, d.entries = disk.entries, d.existed = disk.existed,
           d.primary = [disk.primary EXCEPT ![i] = p],
           d.backup = [disk.backup EXCEPT ![txn] = [disk.backup[txn] EXCEPT ![i] = b]]
    PROVE  Touched(d, i, p, b)
<1>1. \A j \in Cols : d.primary[j] = IF j = i THEN p ELSE disk.primary[j]
  BY DiskFields
<1>2. \A t \in Txns, j \in Cols :
          d.backup[t][j] = IF t = txn /\ j = i THEN b ELSE disk.backup[t][j]
  BY DiskFields
<1>3. \A t \in Txns : /\ d.existed[t] \subseteq d.entries[t]
                      /\ d.phase[t] = "none" => d.entries[t] = {}
                      /\ \A j \in Cols : d.backup[t][j] # Absent => j \in d.existed[t]
  BY <1>2, DiskFields
<1>4. d \in Disk
  BY <1>3, InDisk
<1> QED BY <1>1, <1>2, <1>4 DEF Touched

(* The fields of the disk after each operation on a file. *)
LEMMA SetBackupTouches ==
    ASSUME TypeOK, NEW i \in disk.existed[txn]
    PROVE  Touched(SetBackup(i), i, Absent, disk.primary[i])
<1> DEFINE d == SetBackup(i)
<1>0. i \in Cols
  BY DiskFields
<1>1. d = [disk EXCEPT !.primary = [disk.primary EXCEPT ![i] = Absent],
                       !.backup = [disk.backup EXCEPT ![txn] =
                           [disk.backup[txn] EXCEPT ![i] = disk.primary[i]]]]
  BY DiskFields DEF SetBackup, DiskRecord
<1>2. /\ [disk.primary EXCEPT ![i] = Absent] \in Tables
      /\ [disk.backup EXCEPT ![txn] = [disk.backup[txn] EXCEPT ![i] = disk.primary[i]]]
            \in [Txns -> Tables]
  BY <1>0, DiskFields DEF Tables
<1>3. /\ d \in DiskRecord
      /\ d.phase = disk.phase /\ d.entries = disk.entries /\ d.existed = disk.existed
      /\ d.primary = [disk.primary EXCEPT ![i] = Absent]
      /\ d.backup = [disk.backup EXCEPT ![txn] = [disk.backup[txn] EXCEPT ![i] = disk.primary[i]]]
  BY <1>1, <1>2, DiskFields DEF DiskRecord
<1> HIDE DEF d
<1>9. Touched(d, i, Absent, disk.primary[i])
  BY <1>0, <1>3, Touches, DiskFields
<1> QED BY <1>9 DEF d

LEMMA RestoreTouches ==
    ASSUME TypeOK, NEW i \in Cols
    PROVE  Touched(Restore(i), i, disk.backup[txn][i], Absent)
<1> DEFINE d == Restore(i)
<1>1. d = [disk EXCEPT !.primary = [disk.primary EXCEPT ![i] = disk.backup[txn][i]],
                       !.backup = [disk.backup EXCEPT ![txn] =
                           [disk.backup[txn] EXCEPT ![i] = Absent]]]
  BY DiskFields DEF Restore, DiskRecord
<1>2. /\ [disk.primary EXCEPT ![i] = disk.backup[txn][i]] \in Tables
      /\ [disk.backup EXCEPT ![txn] = [disk.backup[txn] EXCEPT ![i] = Absent]] \in [Txns -> Tables]
  BY DiskFields DEF Tables
<1>3. /\ d \in DiskRecord
      /\ d.phase = disk.phase /\ d.entries = disk.entries /\ d.existed = disk.existed
      /\ d.primary = [disk.primary EXCEPT ![i] = disk.backup[txn][i]]
      /\ d.backup = [disk.backup EXCEPT ![txn] = [disk.backup[txn] EXCEPT ![i] = Absent]]
  BY <1>1, <1>2, DiskFields DEF DiskRecord
<1> HIDE DEF d
<1>8. disk.backup[txn][i] \in Contents \cup {Absent} /\ (disk.backup[txn][i] # Absent => i \in disk.existed[txn])
  BY DiskFields
<1>9. Touched(d, i, disk.backup[txn][i], Absent)
  BY <1>3, <1>8, Touches
<1> QED BY <1>9 DEF d

LEMMA SetPrimaryTouches ==
    ASSUME TypeOK, NEW i \in Cols, NEW c \in Contents \cup {Absent}
    PROVE  Touched(SetPrimary(i, c), i, c, disk.backup[txn][i])
<1> DEFINE d == SetPrimary(i, c)
<1>1. /\ d \in DiskRecord
      /\ d.phase = disk.phase /\ d.entries = disk.entries /\ d.existed = disk.existed
      /\ d.primary = [disk.primary EXCEPT ![i] = c] /\ d.backup = disk.backup
  BY DiskFields DEF SetPrimary, DiskRecord, Tables
<1>2. disk.backup = [disk.backup EXCEPT ![txn] = [disk.backup[txn] EXCEPT ![i] = disk.backup[txn][i]]]
  BY DiskFields
<1> HIDE DEF d
<1>8. disk.backup[txn][i] \in Contents \cup {Absent} /\ (disk.backup[txn][i] # Absent => i \in disk.existed[txn])
  BY DiskFields
<1>9. Touched(d, i, c, disk.backup[txn][i])
  BY <1>1, <1>2, <1>8, Touches
<1> QED BY <1>9 DEF d

LEMMA NoBackupTouches ==
    ASSUME TypeOK, NEW i \in Cols
    PROVE  Touched(NoBackup(i), i, disk.primary[i], Absent)
<1> DEFINE d == NoBackup(i)
<1>1. d = [disk EXCEPT !.backup = [disk.backup EXCEPT ![txn] =
                           [disk.backup[txn] EXCEPT ![i] = Absent]]]
  BY DiskFields DEF NoBackup, DiskRecord
<1>2. [disk.backup EXCEPT ![txn] = [disk.backup[txn] EXCEPT ![i] = Absent]] \in [Txns -> Tables]
  BY DiskFields DEF Tables
<1>3. /\ d \in DiskRecord
      /\ d.phase = disk.phase /\ d.entries = disk.entries /\ d.existed = disk.existed
      /\ d.primary = disk.primary
      /\ d.backup = [disk.backup EXCEPT ![txn] = [disk.backup[txn] EXCEPT ![i] = Absent]]
  BY <1>1, <1>2, DiskFields DEF DiskRecord
<1>4. disk.primary = [disk.primary EXCEPT ![i] = disk.primary[i]]
  BY DiskFields
<1> HIDE DEF d
<1>9. Touched(d, i, disk.primary[i], Absent)
  BY <1>3, <1>4, Touches, DiskFields
<1> QED BY <1>9 DEF d

(* The fields of the disk after each operation on a manifest. *)
LEMMA Lists ==
    ASSUME TypeOK, NEW t \in Txns, NEW ph \in {"none", "prepared", "committed"},
           NEW E \in SUBSET Cols, NEW X \in SUBSET E, ph = "none" => E = {},
           \A i \in Cols : disk.backup[t][i] # Absent => i \in X,
           NEW d \in DiskRecord, d.primary = disk.primary, d.backup = disk.backup,
           d.phase = [disk.phase EXCEPT ![t] = ph], d.entries = [disk.entries EXCEPT ![t] = E],
           d.existed = [disk.existed EXCEPT ![t] = X]
    PROVE  Listed(d, t, ph, E, X)
<1>1. \A u \in Txns : /\ d.phase[u] = IF u = t THEN ph ELSE disk.phase[u]
                      /\ d.entries[u] = IF u = t THEN E ELSE disk.entries[u]
                      /\ d.existed[u] = IF u = t THEN X ELSE disk.existed[u]
  BY DiskFields
<1>2. \A u \in Txns : /\ d.existed[u] \subseteq d.entries[u]
                      /\ d.phase[u] = "none" => d.entries[u] = {}
                      /\ \A j \in Cols : d.backup[u][j] # Absent => j \in d.existed[u]
  BY <1>1, DiskFields
<1>3. d \in Disk
  BY <1>2, InDisk
<1> QED BY <1>1, <1>3 DEF Listed

LEMMA NoManifestLists ==
    ASSUME TypeOK, disk.backup[txn] = NoFiles
    PROVE  Listed(NoManifest, txn, "none", {}, {})
<1> DEFINE d == NoManifest
<1>1. /\ d \in DiskRecord /\ d.primary = disk.primary /\ d.backup = disk.backup
      /\ d.phase = [disk.phase EXCEPT ![txn] = "none"]
      /\ d.entries = [disk.entries EXCEPT ![txn] = {}]
      /\ d.existed = [disk.existed EXCEPT ![txn] = {}]
  BY DiskFields DEF NoManifest, DiskRecord
<1>2. \A i \in Cols : disk.backup[txn][i] = Absent
  BY DEF NoFiles
<1> HIDE DEF d
<1>3. Listed(d, txn, "none", {}, {})
  BY <1>1, <1>2, Lists, DiskFields
<1> QED BY <1>3 DEF d

(* The mark of mark_committed. *)
Marked == [disk EXCEPT !.phase[txn] = "committed"]

LEMMA MarkLists ==
    ASSUME TypeOK, disk.phase[txn] = "prepared"
    PROVE  Listed(Marked, txn, "committed", disk.entries[txn], disk.existed[txn])
<1> DEFINE d == Marked
<1>1. /\ d \in DiskRecord /\ d.primary = disk.primary /\ d.backup = disk.backup
      /\ d.phase = [disk.phase EXCEPT ![txn] = "committed"]
      /\ d.entries = disk.entries /\ d.existed = disk.existed
  BY DiskFields DEF Marked, DiskRecord
<1> HIDE DEF d
<1>2. /\ d.entries = [disk.entries EXCEPT ![txn] = disk.entries[txn]]
      /\ d.existed = [disk.existed EXCEPT ![txn] = disk.existed[txn]]
  BY <1>1, DiskFields
<1>3. Listed(d, txn, "committed", disk.entries[txn], disk.existed[txn])
  BY <1>1, <1>2, Lists, DiskFields
<1> QED BY <1>3 DEF d

(* The manifest that write_prepared_manifest writes. *)
Existing(E) == {i \in E : disk.primary[i] # Absent}

Written(t, E) == [disk EXCEPT !.phase[t] = "prepared", !.entries[t] = E, !.existed[t] = Existing(E)]

LEMMA WrittenLists ==
    ASSUME TypeOK, NEW t \in Txns, NEW E \in SUBSET Cols, disk.phase[t] = "none"
    PROVE  /\ Listed(Written(t, E), t, "prepared", E, Existing(E))
           /\ disk.backup[t] = NoFiles
<1> DEFINE d == Written(t, E)
<1>1. \A i \in Cols : disk.backup[t][i] = Absent
  BY DiskFields
<1>2. disk.backup[t] = NoFiles
  BY <1>1, DiskFields DEF NoFiles
<1>3. Existing(E) \subseteq E
  BY DEF Existing
<1>4. /\ d \in DiskRecord /\ d.primary = disk.primary /\ d.backup = disk.backup
      /\ d.phase = [disk.phase EXCEPT ![t] = "prepared"]
      /\ d.entries = [disk.entries EXCEPT ![t] = E]
      /\ d.existed = [disk.existed EXCEPT ![t] = Existing(E)]
  BY <1>3, DiskFields DEF Written, DiskRecord
<1> HIDE DEF d
<1>5. Listed(d, t, "prepared", E, Existing(E))
  BY <1>1, <1>3, <1>4, Lists
<1> QED BY <1>2, <1>5 DEF d

(* Nothing moved and pc is at a place that asks for nothing. *)
LEMMA Leaves ==
    ASSUME pc' \in {"idle", "recover", "discarded", "removed"} PROVE StepOK'
BY DEF StepOK, Prepared, Installing, RollingBack, Marking, Recovering

LEMMA NoBackupLeft ==
    ASSUME TypeOK, RolledBack PROVE disk.backup[txn] = NoFiles
<1>1. \A i \in Cols : disk.backup[txn][i] = Absent
  BY DEF TypeOK, Disk, RolledBack
<1> QED BY <1>1 DEF TypeOK, Disk, Tables, NoFiles
-----------------------------------------------------------------------------
(* The steps of an installation keep the types and the progress. *)
LEMMA WriteManifestSafe ==
    ASSUME IInv, NEW t \in Txns, NEW E \in SUBSET Cols, NEW rows \in [E -> Contents],
           write_prepared_manifest(t, E, rows)
    PROVE  IInv'
<1> DEFINE d == Written(t, E)
<1>1. /\ TypeOK /\ disk.phase[t] = "none"
      /\ disk' = d /\ durable' = durable /\ pc' = "prepared" /\ txn' = t /\ starting' = starting
      /\ goal' = [i \in Cols |-> IF i \in E THEN rows[i] ELSE Outcome(disk)[i]]
      /\ backed_up' = {} /\ installed' = {} /\ failed' = FALSE
  BY DEF IInv, write_prepared_manifest, Do, Written, Existing
<1>2. Listed(d, t, "prepared", E, Existing(E)) /\ disk.backup[t] = NoFiles
  BY <1>1, WrittenLists
<1> HIDE DEF d
<1>3. \A i \in Cols : Outcome(disk)[i] \in Contents \cup {Absent}
  <2>1. \A i \in Cols, u \in Txns : Undone(disk, u, i) \in Contents \cup {Absent}
    BY <1>1, DiskFields DEF Undone
  <2> QED BY <1>1, <2>1, DiskFields DEF Outcome
<1>4. goal' \in Tables
  BY <1>1, <1>3 DEF Tables
<1>5. TypeOK'
  BY <1>1, <1>2, <1>4 DEF TypeOK, Listed
<1>6. Prepared'
  <2>1. \A i \in E : goal'[i] # Absent
    BY <1>1, ConstantsAssumption
  <2>2. /\ disk'.phase[t] = "prepared" /\ disk'.backup[t] = NoFiles /\ disk'.entries[t] = E
        /\ disk'.existed[t] = Existing(E) /\ disk'.primary = disk.primary
    BY <1>1, <1>2 DEF Listed
  <2>3. \A i \in E : i \in disk'.existed[t] <=> disk'.primary[i] # Absent
    BY <2>2 DEF Existing
  <2> QED BY <1>1, <2>1, <2>2, <2>3 DEF Prepared
<1>7. StepOK'
  BY <1>1, <1>6 DEF StepOK, Installing, RollingBack, Marking, Recovering
<1> QED BY <1>5, <1>7 DEF IInv

LEMMA RenameToBackupSafe == ASSUME IInv, NEW i \in Cols, rename_to_backup(i) PROVE IInv'
<1> DEFINE d == SetBackup(i)
<1>1. /\ TypeOK /\ pc = "install" /\ pc' = "install" /\ txn' = txn /\ starting' = starting
      /\ i \in disk.existed[txn] \ backed_up /\ disk' = d /\ durable' = durable
      /\ backed_up' = backed_up \cup {i} /\ goal' = goal /\ installed' = installed /\ failed' = failed
  BY DEF IInv, rename_to_backup, Goes, Do
<1>2. Touched(d, i, Absent, disk.primary[i])
  BY <1>1, SetBackupTouches
<1> HIDE DEF d
<1>3. /\ Installing /\ disk.existed[txn] \subseteq disk.entries[txn] /\ disk.entries[txn] \subseteq Cols
      /\ txn \in Txns
  BY <1>1, DiskFields DEF IInv, StepOK
<1>4. TypeOK'
  BY <1>1, <1>2 DEF TypeOK, Touched
<1>5. Installing'
  BY <1>1, <1>2, <1>3 DEF Installing, Touched
<1>6. StepOK'
  BY <1>1, <1>5 DEF StepOK, Prepared, RollingBack, Marking, Recovering
<1> QED BY <1>4, <1>6 DEF IInv

LEMMA RenameStagedSafe == ASSUME IInv, NEW i \in Cols, rename_staged(i) PROVE IInv'
<1> DEFINE d == SetPrimary(i, goal[i])
<1>1. /\ TypeOK /\ pc = "install" /\ pc' = "install" /\ txn' = txn /\ starting' = starting
      /\ backed_up = disk.existed[txn]
      /\ i \in disk.entries[txn] \ installed /\ disk' = d /\ durable' = durable
      /\ installed' = installed \cup {i} /\ goal' = goal /\ backed_up' = backed_up /\ failed' = failed
  BY DEF IInv, rename_staged, Goes, Do
<1>2. goal[i] \in Contents \cup {Absent}
  BY <1>1 DEF TypeOK, Tables
<1>3. Touched(d, i, goal[i], disk.backup[txn][i])
  BY <1>1, <1>2, SetPrimaryTouches
<1> HIDE DEF d
<1>4. /\ Installing /\ disk.existed[txn] \subseteq disk.entries[txn] /\ disk.entries[txn] \subseteq Cols
      /\ txn \in Txns
  BY <1>1, DiskFields DEF IInv, StepOK
<1>5. TypeOK'
  BY <1>1, <1>3 DEF TypeOK, Touched
<1>6. Installing'
  BY <1>1, <1>3, <1>4 DEF Installing, Touched
<1>7. StepOK'
  BY <1>1, <1>6 DEF StepOK, Prepared, RollingBack, Marking, Recovering
<1> QED BY <1>5, <1>7 DEF IInv

(* Files as they were, or made durable. *)
LEMMA FilesType ==
    ASSUME TypeOK, UNCHANGED Files \/ sync_directory
    PROVE  disk' = disk /\ disk' \in Disk /\ durable' \in Disk
BY DEF TypeOK, Files, sync_directory

LEMMA InstallSafe == ASSUME IInv, Install PROVE IInv'
<1>1. TypeOK /\ StepOK
  BY DEF IInv
<1>2. ASSUME NEW t \in Txns, NEW E \in SUBSET Cols, NEW rows \in [E -> Contents],
             write_prepared_manifest(t, E, rows)
      PROVE  IInv'
  BY <1>2, WriteManifestSafe
<1>3. CASE prepared_manifest_synced
  <2>1. sync_directory /\ Goes("prepared", "install") /\ UNCHANGED Progress
    BY <1>3 DEF prepared_manifest_synced
  <2>2. TypeOK' /\ disk' = disk
    BY <1>1, <2>1, FilesType DEF TypeOK, Goes, Progress
  <2>3. Installing'
    BY <1>1, <2>1, <2>2, DiskFields DEF StepOK, Prepared, Installing, Goes, Progress, NoFiles
  <2>4. StepOK'
    BY <2>1, <2>3 DEF StepOK, Prepared, RollingBack, Marking, Recovering, Goes
  <2> QED BY <2>2, <2>4 DEF IInv
<1>4. CASE prepared_manifest_fails
  <2>1. UNCHANGED Files /\ Goes("prepared", "idle") /\ UNCHANGED Progress
    BY <1>4 DEF prepared_manifest_fails
  <2>2. TypeOK'
    BY <1>1, <2>1, FilesType DEF TypeOK, Goes, Progress
  <2> QED BY <2>1, <2>2, Leaves DEF IInv, Goes
<1>5. ASSUME NEW i \in Cols, rename_to_backup(i) PROVE IInv'
  BY <1>5, RenameToBackupSafe
<1>6. ASSUME NEW i \in Cols, rename_staged(i) PROVE IInv'
  BY <1>6, RenameStagedSafe
<1>7. CASE install_synced
  <2>1. /\ sync_directory /\ Goes("install", "mark") /\ UNCHANGED Progress
        /\ installed = disk.entries[txn]
    BY <1>7 DEF install_synced
  <2>2. TypeOK' /\ disk' = disk
    BY <1>1, <2>1, FilesType DEF TypeOK, Goes, Progress
  <2>3. Marking'
    BY <1>1, <2>1, <2>2 DEF StepOK, Installing, Marking, Goes, Progress, sync_directory
  <2>4. StepOK'
    BY <2>1, <2>3 DEF StepOK, Prepared, Installing, RollingBack, Recovering, Goes
  <2> QED BY <2>2, <2>4 DEF IInv
<1>8. CASE install_fails
  <2>1. UNCHANGED Files /\ Goes("install", "rollback") /\ UNCHANGED Progress
    BY <1>8 DEF install_fails
  <2>2. TypeOK' /\ disk' = disk
    BY <1>1, <2>1, FilesType DEF TypeOK, Goes, Progress
  <2>3. RollingBack'
    BY <1>1, <2>1, <2>2 DEF StepOK, Installing, RollingBack, Goes, Progress
  <2>4. StepOK'
    BY <2>1, <2>3 DEF StepOK, Prepared, Installing, Marking, Recovering, Goes
  <2> QED BY <2>2, <2>4 DEF IInv
<1> QED BY <1>2, <1>3, <1>4, <1>5, <1>6, <1>7, <1>8 DEF Install

(* The steps of a rollback. *)
LEMMA RollbackRemovesSafe == ASSUME IInv, NEW i \in Cols, rollback_removes(i) PROVE IInv'
<1>1. /\ TypeOK /\ RollingBack /\ pc = "rollback" /\ pc' = "rollback" /\ txn' = txn
      /\ starting' = starting /\ i \in installed /\ installed' = installed \ {i}
      /\ goal' = goal /\ backed_up' = backed_up
      /\ \/ Do(SetPrimary(i, Absent)) /\ UNCHANGED failed
         \/ failed' = TRUE /\ UNCHANGED Files
  BY DEF IInv, StepOK, rollback_removes, Goes
<1>2. /\ disk.existed[txn] \subseteq disk.entries[txn] /\ disk.entries[txn] \subseteq Cols
      /\ txn \in Txns
  BY <1>1, DiskFields
<1>3. TypeOK' /\ RollingBack'
  <2>1. CASE Do(SetPrimary(i, Absent)) /\ UNCHANGED failed
    <3> DEFINE d == SetPrimary(i, Absent)
    <3>1. Touched(d, i, Absent, disk.backup[txn][i])
      BY <1>1, SetPrimaryTouches
    <3>2. disk' = d /\ durable' = durable /\ failed' = failed
      BY <2>1 DEF Do
    <3> HIDE DEF d
    <3>3. TypeOK'
      BY <1>1, <3>1, <3>2 DEF TypeOK, Touched
    <3>4. RollingBack'
      BY <1>1, <1>2, <3>1, <3>2 DEF RollingBack, Touched
    <3> QED BY <3>3, <3>4
  <2>2. CASE failed' = TRUE /\ UNCHANGED Files
    BY <1>1, <1>2, <2>2 DEF TypeOK, RollingBack, Files
  <2> QED BY <1>1, <2>1, <2>2
<1>4. StepOK'
  BY <1>1, <1>3 DEF StepOK, Prepared, Installing, Marking, Recovering
<1> QED BY <1>3, <1>4 DEF IInv

LEMMA RollbackRestoresSafe == ASSUME IInv, NEW i \in Cols, rollback_restores(i) PROVE IInv'
<1>1. /\ TypeOK /\ RollingBack /\ pc = "rollback" /\ pc' = "rollback" /\ txn' = txn
      /\ starting' = starting /\ i \in backed_up /\ backed_up' = backed_up \ {i}
      /\ goal' = goal /\ installed' = installed /\ installed = {}
      /\ \/ Do(Restore(i)) /\ UNCHANGED failed
         \/ failed' = TRUE /\ UNCHANGED Files
  BY DEF IInv, StepOK, rollback_restores, Goes
<1>2. /\ disk.existed[txn] \subseteq disk.entries[txn] /\ disk.entries[txn] \subseteq Cols
      /\ txn \in Txns
  BY <1>1, DiskFields
<1>3. TypeOK' /\ RollingBack'
  <2>1. CASE Do(Restore(i)) /\ UNCHANGED failed
    <3> DEFINE d == Restore(i)
    <3>1. Touched(d, i, disk.backup[txn][i], Absent)
      BY <1>1, RestoreTouches
    <3>2. disk' = d /\ durable' = durable /\ failed' = failed
      BY <2>1 DEF Do
    <3> HIDE DEF d
    <3>3. TypeOK'
      BY <1>1, <3>1, <3>2 DEF TypeOK, Touched
    <3>4. RollingBack'
      BY <1>1, <1>2, <3>1, <3>2 DEF RollingBack, Touched
    <3> QED BY <3>3, <3>4
  <2>2. CASE failed' = TRUE /\ UNCHANGED Files
    BY <1>1, <1>2, <2>2 DEF TypeOK, RollingBack, Files
  <2> QED BY <1>1, <2>1, <2>2
<1>4. StepOK'
  BY <1>1, <1>3 DEF StepOK, Prepared, Installing, Marking, Recovering
<1> QED BY <1>3, <1>4 DEF IInv

LEMMA RollbackSafe == ASSUME IInv, Rollback PROVE IInv'
<1>1. TypeOK /\ StepOK
  BY DEF IInv
<1>2. ASSUME NEW i \in Cols, rollback_removes(i) PROVE IInv'
  BY <1>2, RollbackRemovesSafe
<1>3. ASSUME NEW i \in Cols, rollback_restores(i) PROVE IInv'
  BY <1>3, RollbackRestoresSafe
<1>4. CASE rollback_incomplete
  <2>1. UNCHANGED Files /\ Goes("rollback", "idle") /\ UNCHANGED Progress
    BY <1>4 DEF rollback_incomplete
  <2>2. TypeOK'
    BY <1>1, <2>1, FilesType DEF TypeOK, Goes, Progress
  <2> QED BY <2>1, <2>2, Leaves DEF IInv, Goes
<1>5. CASE rollback_complete
  <2>1. /\ UNCHANGED Files /\ Goes("rollback", "discard") /\ UNCHANGED Progress
        /\ installed = {} /\ backed_up = {} /\ ~failed
    BY <1>5 DEF rollback_complete
  <2>2. TypeOK' /\ disk' = disk
    BY <1>1, <2>1, FilesType DEF TypeOK, Goes, Progress
  <2>3. RolledBack /\ disk.phase[txn] = "prepared"
    BY <1>1, <2>1, DiskFields DEF StepOK, RollingBack, RolledBack, Goes
  <2>4. StepOK'
    BY <2>1, <2>2, <2>3
       DEF StepOK, Prepared, Installing, RollingBack, Marking, Recovering, RolledBack, Goes
  <2> QED BY <2>2, <2>4 DEF IInv
<1> QED BY <1>2, <1>3, <1>4, <1>5 DEF Rollback

(* A removal of a backup of txn, by a clean-up or a recovery. *)
LEMMA NoBackupSafe ==
    ASSUME TypeOK, NEW i \in Cols, Do(NoBackup(i)), pc' = pc, UNCHANGED <<starting, txn, Progress>>
    PROVE  TypeOK' /\ Touched(disk', i, disk.primary[i], Absent)
<1> DEFINE d == NoBackup(i)
<1>1. Touched(d, i, disk.primary[i], Absent)
  BY NoBackupTouches
<1>2. disk' = d /\ durable' = durable
  BY DEF Do
<1> HIDE DEF d
<1> QED BY <1>1, <1>2 DEF TypeOK, Touched, Progress

(* The removal of the manifest of txn. *)
LEMMA NoManifestSafe ==
    ASSUME TypeOK, Do(NoManifest), disk.backup[txn] = NoFiles, pc' \in {"discarded", "removed"},
           UNCHANGED <<starting, txn, Progress>>
    PROVE  IInv' /\ Listed(disk', txn, "none", {}, {})
<1> DEFINE d == NoManifest
<1>1. Listed(d, txn, "none", {}, {})
  BY NoManifestLists
<1>2. disk' = d /\ durable' = durable
  BY DEF Do
<1> HIDE DEF d
<1>3. TypeOK'
  BY <1>1, <1>2 DEF TypeOK, Listed, Progress
<1> QED BY <1>1, <1>2, <1>3, Leaves DEF IInv

(* The steps after the installation, with their failures. *)
LEMMA CommitSafe == ASSUME IInv, Commit PROVE IInv'
<1>1. TypeOK /\ StepOK
  BY DEF IInv
<1>2. CASE mark_committed
  <2> DEFINE d == Marked
  <2>1. Goes("mark", "marked") /\ Do(d) /\ UNCHANGED Progress
    BY <1>2 DEF mark_committed, Marked
  <2>2. Listed(d, txn, "committed", disk.entries[txn], disk.existed[txn])
    BY <1>1, <2>1, MarkLists DEF StepOK, Marking, Goes
  <2> HIDE DEF d
  <2>3. TypeOK' /\ disk'.phase[txn] = "committed"
    BY <1>1, <2>1, <2>2 DEF TypeOK, Listed, Goes, Do, Progress
  <2>4. StepOK'
    BY <2>1, <2>3 DEF StepOK, Prepared, Installing, RollingBack, Marking, Recovering, Goes
  <2> QED BY <2>3, <2>4 DEF IInv
<1>3. CASE mark_synced
  <2>1. sync_directory /\ Goes("marked", "cleanup") /\ UNCHANGED Progress
    BY <1>3 DEF mark_synced
  <2>2. TypeOK' /\ disk' = disk
    BY <1>1, <2>1, FilesType DEF TypeOK, Goes, Progress
  <2>3. StepOK'
    BY <1>1, <2>1, <2>2 DEF StepOK, Prepared, Installing, RollingBack, Marking, Recovering, Goes
  <2> QED BY <2>2, <2>3 DEF IInv
<1>4. CASE mark_fails \/ cleanup_fails \/ removal_fails
  <2>1. /\ UNCHANGED Files /\ pc' \in {"idle", "recover"}
        /\ UNCHANGED <<starting, txn, Progress>>
    BY <1>4 DEF mark_fails, cleanup_fails, removal_fails, Goes
  <2>2. TypeOK'
    BY <1>1, <2>1, FilesType DEF TypeOK, Progress
  <2> QED BY <2>1, <2>2, Leaves DEF IInv
<1>5. ASSUME NEW i \in Cols, cleanup_removes_backup(i) PROVE IInv'
  <2>1. Goes("cleanup", "cleanup") /\ Do(NoBackup(i)) /\ UNCHANGED Progress
    BY <1>5 DEF cleanup_removes_backup
  <2>2. TypeOK' /\ Touched(disk', i, disk.primary[i], Absent)
    BY <1>1, <2>1, NoBackupSafe DEF Goes
  <2>3. StepOK'
    BY <1>1, <2>1, <2>2
       DEF StepOK, Prepared, Installing, RollingBack, Marking, Recovering, Touched, Goes
  <2> QED BY <2>2, <2>3 DEF IInv
<1>6. CASE remove_manifest
  <2>1. /\ Do(NoManifest) /\ pc' = "discarded" /\ UNCHANGED <<starting, txn, Progress>>
        /\ (pc = "cleanup" /\ disk.backup[txn] = NoFiles) \/ pc = "discard"
    BY <1>6 DEF remove_manifest, Goes
  <2>2. disk.backup[txn] = NoFiles
    BY <1>1, <2>1, NoBackupLeft DEF StepOK, Recovering
  <2> QED BY <1>1, <2>1, <2>2, NoManifestSafe
<1>7. CASE removal_synced
  <2>1. sync_directory /\ Goes("discarded", "idle") /\ UNCHANGED Progress
    BY <1>7 DEF removal_synced
  <2>2. TypeOK'
    BY <1>1, <2>1, FilesType DEF TypeOK, Goes, Progress
  <2> QED BY <2>1, <2>2, Leaves DEF IInv, Goes
<1> QED BY <1>2, <1>3, <1>4, <1>5, <1>6, <1>7 DEF Commit

(* The steps of a recovery. *)
LEMMA RestoreEntryTouches ==
    ASSUME TypeOK, NEW i \in Cols, restore_entry(i)
    PROVE  \/ /\ disk.backup[txn][i] # Absent \/ i \notin disk.existed[txn]
              /\ Touched(disk', i, Absent, disk.backup[txn][i])
           \/ /\ disk.backup[txn][i] # Absent
              /\ Touched(disk', i, disk.backup[txn][i], Absent)
<1>1. \/ disk.backup[txn][i] # Absent /\ Do(SetPrimary(i, Absent))
      \/ disk.backup[txn][i] # Absent /\ Do(Restore(i))
      \/ i \notin disk.existed[txn] /\ Do(SetPrimary(i, Absent))
  BY DEF restore_entry
<1>2. Do(SetPrimary(i, Absent)) => Touched(disk', i, Absent, disk.backup[txn][i])
  BY SetPrimaryTouches DEF Do
<1>3. Do(Restore(i)) => Touched(disk', i, disk.backup[txn][i], Absent)
  BY RestoreTouches DEF Do
<1> QED BY <1>1, <1>2, <1>3

LEMMA RecoverySafe == ASSUME IInv, Recovery PROVE IInv'
<1>1. TypeOK /\ StepOK
  BY DEF IInv
<1>2. ASSUME NEW t \in Txns, recover_prepared_transaction(t) \/ recover_committed_transaction(t)
      PROVE  IInv'
  <2>1. /\ UNCHANGED Files /\ txn' = t /\ UNCHANGED <<starting, Progress>>
        /\ \/ pc' = "restore" /\ disk.phase[t] = "prepared"
           \/ pc' = "finish" /\ disk.phase[t] = "committed"
    BY <1>2 DEF recover_prepared_transaction, recover_committed_transaction, Recovers
  <2>2. TypeOK' /\ disk' = disk
    BY <1>1, <2>1, FilesType DEF TypeOK, Progress
  <2>3. StepOK'
    BY <2>1, <2>2 DEF StepOK, Prepared, Installing, RollingBack, Marking, Recovering
  <2> QED BY <2>2, <2>3 DEF IInv
<1>3. ASSUME NEW i \in Cols, restore_entry(i) PROVE IInv'
  <2>1. /\ Goes("restore", "restore") /\ UNCHANGED Progress
        /\ disk' \in Disk /\ disk'.phase = disk.phase
    BY <1>1, <1>3, RestoreEntryTouches DEF restore_entry, Touched
  <2>2. durable' = durable
    BY <1>3 DEF restore_entry, Do
  <2>3. TypeOK'
    BY <1>1, <2>1, <2>2 DEF TypeOK, Goes, Progress
  <2>4. StepOK'
    BY <1>1, <2>1 DEF StepOK, Prepared, Installing, RollingBack, Marking, Recovering, Goes
  <2> QED BY <2>3, <2>4 DEF IInv
<1>4. ASSUME NEW i \in Cols, finish_entry(i) PROVE IInv'
  <2>1. Goes("finish", "finish") /\ Do(NoBackup(i)) /\ UNCHANGED Progress
    BY <1>4 DEF finish_entry
  <2>2. TypeOK' /\ Touched(disk', i, disk.primary[i], Absent)
    BY <1>1, <2>1, NoBackupSafe DEF Goes
  <2>3. StepOK'
    BY <1>1, <2>1, <2>2
       DEF StepOK, Prepared, Installing, RollingBack, Marking, Recovering, Touched, Goes
  <2> QED BY <2>2, <2>3 DEF IInv
<1>5. CASE restore_synced
  <2>1. /\ sync_directory /\ Goes("restore", "remove") /\ UNCHANGED Progress /\ RolledBack
    BY <1>5 DEF restore_synced, RolledBack
  <2>2. TypeOK' /\ disk' = disk
    BY <1>1, <2>1, FilesType DEF TypeOK, Goes, Progress
  <2>3. disk.backup[txn] = NoFiles /\ disk.phase[txn] = "prepared"
    BY <1>1, <2>1, NoBackupLeft DEF StepOK, Recovering, Goes
  <2>4. StepOK'
    BY <2>1, <2>2, <2>3
       DEF StepOK, Prepared, Installing, RollingBack, Marking, Recovering, RolledBack, Goes
  <2> QED BY <2>2, <2>4 DEF IInv
<1>6. CASE finish_synced
  <2>1. /\ sync_directory /\ Goes("finish", "remove") /\ UNCHANGED Progress
        /\ disk.backup[txn] = NoFiles
    BY <1>6 DEF finish_synced
  <2>2. TypeOK' /\ disk' = disk
    BY <1>1, <2>1, FilesType DEF TypeOK, Goes, Progress
  <2>3. disk.phase[txn] = "committed"
    BY <1>1, <2>1 DEF StepOK, Recovering, Goes
  <2>4. StepOK'
    BY <2>1, <2>2, <2>3
       DEF StepOK, Prepared, Installing, RollingBack, Marking, Recovering, Goes
  <2> QED BY <2>2, <2>4 DEF IInv
<1>7. CASE recovery_removes_manifest
  <2>1. /\ Do(NoManifest) /\ pc = "remove" /\ pc' = "removed" /\ UNCHANGED <<starting, txn, Progress>>
    BY <1>7 DEF recovery_removes_manifest, Goes
  <2>2. disk.backup[txn] = NoFiles
    BY <1>1, <2>1 DEF StepOK, Recovering
  <2> QED BY <1>1, <2>1, <2>2, NoManifestSafe
<1>8. CASE recovery_goes_on \/ recovery_ends
  <2>1. /\ sync_directory /\ pc' \in {"recover", "idle"} /\ starting' \in {starting, FALSE}
        /\ UNCHANGED <<txn, Progress>>
    BY <1>8 DEF recovery_goes_on, recovery_ends, Goes
  <2>2. TypeOK'
    BY <1>1, <2>1, FilesType DEF TypeOK, Progress
  <2> QED BY <2>1, <2>2, Leaves DEF IInv
<1>9. CASE recovery_fails
  <2>1. UNCHANGED Files /\ pc' \in {"recover", "idle"} /\ UNCHANGED <<starting, txn, Progress>>
    BY <1>9 DEF recovery_fails
  <2>2. TypeOK'
    BY <1>1, <2>1, FilesType DEF TypeOK, Progress
  <2> QED BY <2>1, <2>2, Leaves DEF IInv
<1> QED BY <1>2, <1>3, <1>4, <1>5, <1>6, <1>7, <1>8, <1>9 DEF Recovery
-----------------------------------------------------------------------------
LEMMA InitSafe == Init => IInv
<1> SUFFICES ASSUME Init PROVE IInv
  OBVIOUS
<1>1. /\ disk \in [primary : Tables, phase : [Txns -> {"none"}], entries : [Txns -> {{}}],
                   existed : [Txns -> {{}}], backup : [Txns -> {NoFiles}]]
      /\ durable = disk /\ goal = disk.primary /\ txn \in Txns
      /\ pc = "idle" /\ starting = FALSE /\ backed_up = {} /\ installed = {} /\ failed = FALSE
  BY DEF Init
<1>2. NoFiles \in Tables
  BY DEF NoFiles, Tables
<1>3. disk \in DiskRecord
  BY <1>1, <1>2 DEF DiskRecord
<1>4. \A t \in Txns : disk.existed[t] = {} /\ disk.entries[t] = {} /\ disk.backup[t] = NoFiles
  BY <1>1
<1>5. disk \in Disk
  BY <1>3, <1>4, InDisk DEF NoFiles
<1>6. TypeOK
  BY <1>1, <1>5 DEF TypeOK
<1> QED BY <1>1, <1>6 DEF IInv, StepOK, Prepared, Installing, RollingBack, Marking, Recovering

LEMMA Inductive == IInv /\ [Next]_vars => IInv'
<1> SUFFICES ASSUME IInv, [Next]_vars PROVE IInv'
  OBVIOUS
<1>1. CASE Crash
  <2>1. TypeOK' /\ pc' = "recover"
    BY <1>1 DEF IInv, TypeOK, Crash
  <2> QED BY <2>1, Leaves DEF IInv
<1>2. CASE WriteBack
  <2>1. TypeOK'
    BY <1>2 DEF IInv, TypeOK, WriteBack, Progress
  <2>2. StepOK'
    BY <1>2 DEF IInv, StepOK, Prepared, Installing, RollingBack, Marking, Recovering, RolledBack,
                WriteBack, Progress
  <2> QED BY <2>1, <2>2 DEF IInv
<1>3. CASE UNCHANGED vars
  BY <1>3 DEF vars, IInv, TypeOK, StepOK, Prepared, Installing, RollingBack, Marking, Recovering,
              RolledBack
<1> QED BY <1>1, <1>2, <1>3, InstallSafe, RollbackSafe, CommitSafe, RecoverySafe DEF Next

LEMMA Invariance == Spec => []IInv
BY InitSafe, Inductive, PTL DEF Spec

(* The variables have their types: no backup without a manifest that says the  *)
(* collection existed, whatever fails and whatever is replaced again.         *)
THEOREM TypeCorrect == Spec => []TypeOK
<1>1. IInv => TypeOK
  BY DEF IInv
<1> QED BY <1>1, Invariance, PTL
-----------------------------------------------------------------------------
(* From here on no collection is replaced again over a prepared manifest that  *)
(* a failed replacement has left: "prepared" \notin Overlaps.                 *)
(*                                                                           *)
(* What a disk looks like that a crash may leave: at most one prepared        *)
(* manifest covers a collection and each old file is there as primary or as   *)
(* backup; a primary that a committed manifest misses is a prepared one's     *)
(* backup.                                                                   *)
SoundDisk(d) ==
    /\ \A t, u \in Txns, i \in Cols : Covers(d, t, i) /\ Covers(d, u, i) => t = u
    /\ \A t \in Txns, i \in Cols :
          Covers(d, t, i) /\ i \in d.existed[t] => d.backup[t][i] # Absent \/ d.primary[i] # Absent
    /\ \A t \in Txns, i \in Cols :
          d.phase[t] = "committed" /\ i \in d.entries[t] =>
              /\ \A u \in Txns : Covers(d, u, i) => i \in d.existed[u]
              /\ d.primary[i] # Absent \/ \E u \in Txns : Covers(d, u, i)
    /\ Overlaps = {} => \A t, u \in Txns : t # u => d.entries[t] \cap d.entries[u] = {}

SoundInv ==
    /\ SoundDisk(disk) /\ SoundDisk(durable)
    /\ pc \in {"prepared", "install", "mark"} =>
          \A i \in Cols \ disk.entries[txn] : goal[i] = Outcome(disk)[i]
    /\ pc = "marked" => Outcome(disk) = goal
    /\ AnsweredIsDurable

(* What a step does to the table of AtomicReplacement, to what a power loss    *)
(* returns it to and to the request: nothing, or a step of AtomicReplacement. *)
Same     == Outcome(disk)' = Outcome(disk) /\ Outcome(durable)' = Outcome(durable)
Synced   == Outcome(disk)' = Outcome(disk) /\ Outcome(durable)' = Outcome(disk)
Replaced == /\ Syncs => Outcome(durable) = Outcome(disk)
            /\ Outcome(disk)' = goal /\ Outcome(durable)' = Outcome(durable)
Lost     == Outcome(disk)' = Outcome(durable) /\ Outcome(durable)' = Outcome(durable)

Refines == \/ Same
           \/ goal' = goal /\ (Synced \/ Replaced \/ Lost)
-----------------------------------------------------------------------------
(* The outcome of a collection that a prepared manifest covers, and of another. *)
LEMMA OutcomeAt ==
    ASSUME NEW d, SoundDisk(d), NEW t \in Txns, NEW i \in Cols, Covers(d, t, i)
    PROVE  Outcome(d)[i] = Undone(d, t, i)
<1>1. (CHOOSE u \in Txns : Covers(d, u, i)) = t
  BY DEF SoundDisk
<1> QED BY <1>1 DEF Outcome

LEMMA OutcomeElse ==
    ASSUME NEW d, NEW i \in Cols, \A t \in Txns : ~Covers(d, t, i)
    PROVE  Outcome(d)[i] = d.primary[i]
BY DEF Outcome

LEMMA SameOutcome ==
    ASSUME NEW d, NEW e, \A i \in Cols : Outcome(d)[i] = Outcome(e)[i]
    PROVE  Outcome(d) = Outcome(e)
BY DEF Outcome

(* The files of a collection that the prepared manifest of txn covers change,  *)
(* and its old file is still there.                                          *)
LEMMA TouchedKeeps ==
    ASSUME TypeOK, SoundDisk(disk), NEW i \in Cols, Covers(disk, txn, i),
           NEW p, NEW b, NEW e, Touched(e, i, p, b),
           i \in disk.existed[txn] => /\ b # Absent \/ p # Absent
                                      /\ Undone(disk, txn, i) = IF b # Absent THEN b ELSE p
    PROVE  SoundDisk(e) /\ Outcome(e) = Outcome(disk)
<1>1. \A t \in Txns, j \in Cols : Covers(e, t, j) <=> Covers(disk, t, j)
  BY DEF Touched, Covers
<1>2. /\ \A t, u \in Txns, j \in Cols : Covers(e, t, j) /\ Covers(e, u, j) => t = u
      /\ Overlaps = {} => \A t, u \in Txns : t # u => e.entries[t] \cap e.entries[u] = {}
  BY <1>1 DEF SoundDisk, Touched
<1>3. txn \in Txns
  BY DEF TypeOK
<1>4. ASSUME NEW t \in Txns, NEW j \in Cols, Covers(e, t, j), j \in e.existed[t]
      PROVE  e.backup[t][j] # Absent \/ e.primary[j] # Absent
  <2>1. CASE j = i
    <3>1. t = txn
      BY <1>1, <1>3, <1>4, <2>1 DEF SoundDisk
    <3> QED BY <1>4, <2>1, <3>1 DEF Touched
  <2>2. CASE j # i
    BY <1>1, <1>4, <2>2 DEF SoundDisk, Touched
  <2> QED BY <2>1, <2>2
<1>5. ASSUME NEW t \in Txns, NEW j \in Cols, e.phase[t] = "committed", j \in e.entries[t]
      PROVE  /\ \A u \in Txns : Covers(e, u, j) => j \in e.existed[u]
             /\ e.primary[j] # Absent \/ \E u \in Txns : Covers(e, u, j)
  <2>1. CASE j = i
    BY <1>1, <1>3, <1>5, <2>1 DEF SoundDisk, Touched
  <2>2. CASE j # i
    BY <1>1, <1>5, <2>2 DEF SoundDisk, Touched
  <2> QED BY <2>1, <2>2
<1>6. SoundDisk(e)
  BY <1>2, <1>4, <1>5 DEF SoundDisk
<1>7. ASSUME NEW j \in Cols PROVE Outcome(e)[j] = Outcome(disk)[j]
  <2>1. CASE j = i
    <3>1. Outcome(e)[j] = Undone(e, txn, i) /\ Outcome(disk)[j] = Undone(disk, txn, i)
      BY <1>1, <1>3, <1>6, <2>1, OutcomeAt
    <3>2. Undone(e, txn, i) = IF i \notin disk.existed[txn] THEN Absent ELSE IF b # Absent THEN b ELSE p
      BY <1>3 DEF Undone, Touched
    <3>3. Undone(disk, txn, i) = IF i \notin disk.existed[txn] THEN Absent ELSE IF b # Absent THEN b ELSE p
      BY DEF Undone
    <3> QED BY <3>1, <3>2, <3>3
  <2>2. CASE j # i /\ \E t \in Txns : Covers(disk, t, j)
    <3>1. PICK t \in Txns : Covers(disk, t, j)
      BY <2>2
    <3>2. Outcome(e)[j] = Undone(e, t, j) /\ Outcome(disk)[j] = Undone(disk, t, j)
      BY <1>1, <1>6, <3>1, OutcomeAt
    <3>3. Undone(e, t, j) = Undone(disk, t, j)
      BY <2>2 DEF Undone, Touched
    <3> QED BY <3>2, <3>3
  <2>3. CASE j # i /\ \A t \in Txns : ~Covers(disk, t, j)
    BY <1>1, <2>3, OutcomeElse DEF Touched
  <2> QED BY <2>1, <2>2, <2>3
<1>8. Outcome(e) = Outcome(disk)
  BY <1>7, SameOutcome
<1> QED BY <1>6, <1>8

(* A backup of a committed manifest goes. *)
LEMMA BackupGone ==
    ASSUME TypeOK, SoundDisk(disk), disk.phase[txn] = "committed", NEW i \in Cols,
           NEW e, Touched(e, i, disk.primary[i], Absent)
    PROVE  SoundDisk(e) /\ Outcome(e) = Outcome(disk)
<1>1. /\ \A t \in Txns, j \in Cols : Covers(e, t, j) <=> Covers(disk, t, j)
      /\ \A t \in Txns, j \in Cols : Covers(e, t, j) => e.backup[t][j] = disk.backup[t][j]
      /\ \A j \in Cols : e.primary[j] = disk.primary[j]
      /\ e.phase = disk.phase /\ e.entries = disk.entries /\ e.existed = disk.existed
  BY DEF Touched, Covers
<1>2. SoundDisk(e)
  BY <1>1 DEF SoundDisk
<1>3. ASSUME NEW j \in Cols PROVE Outcome(e)[j] = Outcome(disk)[j]
  <2>1. CASE \E t \in Txns : Covers(disk, t, j)
    <3>1. PICK t \in Txns : Covers(disk, t, j)
      BY <2>1
    <3>2. Outcome(e)[j] = Undone(e, t, j) /\ Outcome(disk)[j] = Undone(disk, t, j)
      BY <1>1, <1>2, <3>1, OutcomeAt
    <3>3. Undone(e, t, j) = Undone(disk, t, j)
      BY <1>1, <3>1 DEF Undone
    <3> QED BY <3>2, <3>3
  <2>2. CASE \A t \in Txns : ~Covers(disk, t, j)
    BY <1>1, <2>2, OutcomeElse
  <2> QED BY <2>1, <2>2
<1>4. Outcome(e) = Outcome(disk)
  BY <1>3, SameOutcome
<1> QED BY <1>2, <1>4

(* The manifest of txn goes: its files are where an undo or a clean-up puts    *)
(* them.                                                                     *)
LEMMA RemovedKeeps ==
    ASSUME TypeOK, SoundDisk(disk), disk.backup[txn] = NoFiles,
           disk.phase[txn] = "prepared" => RolledBack,
           NEW e, Listed(e, txn, "none", {}, {})
    PROVE  SoundDisk(e) /\ Outcome(e) = Outcome(disk)
<1>1. /\ txn \in Txns
      /\ \A t \in Txns, j \in Cols : Covers(e, t, j) <=> t # txn /\ Covers(disk, t, j)
      /\ e.primary = disk.primary /\ e.backup = disk.backup
      /\ \A t \in Txns : t # txn => /\ e.phase[t] = disk.phase[t]
                                    /\ e.entries[t] = disk.entries[t]
                                    /\ e.existed[t] = disk.existed[t]
      /\ e.phase[txn] = "none" /\ e.entries[txn] = {}
  BY DEF Listed, Covers, TypeOK
<1>2. ASSUME NEW j \in Cols, Covers(disk, txn, j)
      PROVE  Undone(disk, txn, j) = disk.primary[j]
  <2>1. disk.backup[txn][j] = Absent /\ RolledBack
    BY <1>2 DEF NoFiles, Covers
  <2> QED BY <1>2, <2>1 DEF Undone, RolledBack, Covers
<1>3. ASSUME NEW j \in Cols, Covers(disk, txn, j), j \in disk.existed[txn]
      PROVE  disk.primary[j] # Absent
  <2>1. disk.backup[txn][j] = Absent
    BY DEF NoFiles
  <2> QED BY <1>1, <1>3, <2>1 DEF SoundDisk
<1>4. ASSUME NEW t \in Txns, NEW j \in Cols, e.phase[t] = "committed", j \in e.entries[t]
      PROVE  /\ \A u \in Txns : Covers(e, u, j) => j \in e.existed[u]
             /\ e.primary[j] # Absent \/ \E u \in Txns : Covers(e, u, j)
  <2>1. t # txn /\ disk.phase[t] = "committed" /\ j \in disk.entries[t]
    BY <1>1, <1>4
  <2>2. /\ \A u \in Txns : Covers(disk, u, j) => j \in disk.existed[u]
        /\ disk.primary[j] # Absent \/ \E u \in Txns : Covers(disk, u, j)
    BY <2>1 DEF SoundDisk
  <2> QED BY <1>1, <1>3, <2>2
<1>5. SoundDisk(e)
  <2>1. \A t, u \in Txns, j \in Cols : Covers(e, t, j) /\ Covers(e, u, j) => t = u
    BY <1>1 DEF SoundDisk
  <2>2. \A t \in Txns, j \in Cols :
           Covers(e, t, j) /\ j \in e.existed[t] => e.backup[t][j] # Absent \/ e.primary[j] # Absent
    BY <1>1 DEF SoundDisk
  <2>3. Overlaps = {} => \A t, u \in Txns : t # u => e.entries[t] \cap e.entries[u] = {}
    BY <1>1 DEF SoundDisk
  <2> QED BY <1>4, <2>1, <2>2, <2>3 DEF SoundDisk
<1>6. ASSUME NEW j \in Cols PROVE Outcome(e)[j] = Outcome(disk)[j]
  <2>1. CASE \E t \in Txns : Covers(e, t, j)
    <3>1. PICK t \in Txns : Covers(e, t, j)
      BY <2>1
    <3>2. Outcome(e)[j] = Undone(e, t, j) /\ Outcome(disk)[j] = Undone(disk, t, j)
      BY <1>1, <1>5, <3>1, OutcomeAt
    <3>3. Undone(e, t, j) = Undone(disk, t, j)
      BY <1>1, <3>1 DEF Undone
    <3> QED BY <3>2, <3>3
  <2>2. CASE Covers(disk, txn, j)
    <3>1. \A t \in Txns : ~Covers(e, t, j)
      BY <1>1, <2>2 DEF SoundDisk
    <3>2. Outcome(e)[j] = disk.primary[j]
      BY <1>1, <3>1, OutcomeElse
    <3>3. Outcome(disk)[j] = Undone(disk, txn, j)
      BY <1>1, <2>2, OutcomeAt
    <3> QED BY <1>2, <2>2, <3>2, <3>3
  <2>3. CASE \A t \in Txns : ~Covers(disk, t, j)
    BY <1>1, <2>3, OutcomeElse
  <2> QED BY <1>1, <2>1, <2>2, <2>3
<1>7. Outcome(e) = Outcome(disk)
  BY <1>6, SameOutcome
<1> QED BY <1>5, <1>7

(* The manifest of txn is marked committed, its primaries in place. *)
LEMMA MarkedKeeps ==
    ASSUME TypeOK, SoundDisk(disk), disk.phase[txn] = "prepared",
           \A i \in disk.entries[txn] : disk.primary[i] # Absent,
           NEW e, Listed(e, txn, "committed", disk.entries[txn], disk.existed[txn])
    PROVE  /\ SoundDisk(e)
           /\ \A i \in Cols : Outcome(e)[i] = IF i \in disk.entries[txn] THEN disk.primary[i]
                                              ELSE Outcome(disk)[i]
<1>1. /\ txn \in Txns
      /\ \A t \in Txns, j \in Cols : Covers(e, t, j) <=> t # txn /\ Covers(disk, t, j)
      /\ \A j \in Cols : Covers(disk, txn, j) <=> j \in disk.entries[txn]
      /\ e.primary = disk.primary /\ e.backup = disk.backup
      /\ \A t \in Txns : /\ e.entries[t] = disk.entries[t]
                         /\ e.existed[t] = disk.existed[t]
                         /\ t # txn => e.phase[t] = disk.phase[t]
  BY DEF Listed, Covers, TypeOK
<1>2. ASSUME NEW t \in Txns, NEW j \in Cols, e.phase[t] = "committed", j \in e.entries[t]
      PROVE  /\ \A u \in Txns : Covers(e, u, j) => j \in e.existed[u]
             /\ e.primary[j] # Absent \/ \E u \in Txns : Covers(e, u, j)
  <2>1. CASE t = txn
    <3>1. \A u \in Txns : ~Covers(e, u, j)
      BY <1>1, <1>2, <2>1 DEF SoundDisk
    <3> QED BY <1>1, <1>2, <2>1, <3>1
  <2>2. CASE t # txn
    <3>1. /\ \A u \in Txns : Covers(disk, u, j) => j \in disk.existed[u]
          /\ disk.primary[j] # Absent \/ \E u \in Txns : Covers(disk, u, j)
      BY <1>1, <1>2, <2>2 DEF SoundDisk
    <3> QED BY <1>1, <3>1
  <2> QED BY <2>1, <2>2
<1>3. SoundDisk(e)
  <2>1. \A t, u \in Txns, j \in Cols : Covers(e, t, j) /\ Covers(e, u, j) => t = u
    BY <1>1 DEF SoundDisk
  <2>2. \A t \in Txns, j \in Cols :
           Covers(e, t, j) /\ j \in e.existed[t] => e.backup[t][j] # Absent \/ e.primary[j] # Absent
    BY <1>1 DEF SoundDisk
  <2>3. Overlaps = {} => \A t, u \in Txns : t # u => e.entries[t] \cap e.entries[u] = {}
    BY <1>1 DEF SoundDisk
  <2> QED BY <1>2, <2>1, <2>2, <2>3 DEF SoundDisk
<1>4. ASSUME NEW j \in Cols
      PROVE  Outcome(e)[j] = IF j \in disk.entries[txn] THEN disk.primary[j] ELSE Outcome(disk)[j]
  <2>1. CASE j \in disk.entries[txn]
    <3>1. \A u \in Txns : ~Covers(e, u, j)
      BY <1>1, <2>1 DEF SoundDisk
    <3> QED BY <1>1, <2>1, <3>1, OutcomeElse
  <2>2. CASE j \notin disk.entries[txn] /\ \E t \in Txns : Covers(e, t, j)
    <3>1. PICK t \in Txns : Covers(e, t, j)
      BY <2>2
    <3>2. Outcome(e)[j] = Undone(e, t, j) /\ Outcome(disk)[j] = Undone(disk, t, j)
      BY <1>1, <1>3, <3>1, OutcomeAt
    <3>3. Undone(e, t, j) = Undone(disk, t, j)
      BY <1>1 DEF Undone
    <3> QED BY <2>2, <3>2, <3>3
  <2>3. CASE j \notin disk.entries[txn] /\ \A t \in Txns : ~Covers(e, t, j)
    <3>1. \A t \in Txns : ~Covers(disk, t, j)
      BY <1>1, <2>3
    <3> QED BY <1>1, <2>3, <3>1, OutcomeElse
  <2> QED BY <2>1, <2>2, <2>3
<1> QED BY <1>3, <1>4

(* A prepared manifest is written for collections that no prepared manifest    *)
(* covers.                                                                   *)
LEMMA WrittenKeeps ==
    ASSUME "prepared" \notin Overlaps, TypeOK, SoundDisk(disk), NEW t \in Txns, NEW E \in SUBSET Cols,
           disk.phase[t] = "none", disk.backup[t] = NoFiles,
           \A u \in Txns : disk.phase[u] \notin Overlaps => E \cap disk.entries[u] = {},
           NEW e, Listed(e, t, "prepared", E, Existing(E))
    PROVE  SoundDisk(e) /\ Outcome(e) = Outcome(disk)
<1>1. /\ \A u \in Txns, j \in Cols :
             Covers(e, u, j) <=> (u = t /\ j \in E) \/ (u # t /\ Covers(disk, u, j))
      /\ \A j \in Cols : ~Covers(disk, t, j)
      /\ e.primary = disk.primary /\ e.backup = disk.backup
      /\ \A u \in Txns : u # t => /\ e.entries[u] = disk.entries[u]
                                  /\ e.existed[u] = disk.existed[u]
                                  /\ e.phase[u] = disk.phase[u]
      /\ e.phase[t] = "prepared" /\ e.entries[t] = E /\ e.existed[t] = Existing(E)
  BY DEF Listed, Covers
<1>2. \A u \in Txns, j \in E : ~Covers(disk, u, j)
  BY DEF Covers
<1>3. \A j \in E : j \in Existing(E) <=> disk.primary[j] # Absent
  BY DEF Existing
<1>4. ASSUME NEW u \in Txns, NEW j \in Cols, e.phase[u] = "committed", j \in e.entries[u]
      PROVE  /\ \A v \in Txns : Covers(e, v, j) => j \in e.existed[v]
             /\ e.primary[j] # Absent \/ \E v \in Txns : Covers(e, v, j)
  <2>1. u # t /\ disk.phase[u] = "committed" /\ j \in disk.entries[u]
    BY <1>1, <1>4
  <2>2. /\ \A v \in Txns : Covers(disk, v, j) => j \in disk.existed[v]
        /\ disk.primary[j] # Absent \/ \E v \in Txns : Covers(disk, v, j)
    BY <2>1 DEF SoundDisk
  <2> QED BY <1>1, <1>2, <1>3, <2>2
<1>5. SoundDisk(e)
  <2>1. \A u, v \in Txns, j \in Cols : Covers(e, u, j) /\ Covers(e, v, j) => u = v
    BY <1>1, <1>2 DEF SoundDisk
  <2>2. \A u \in Txns, j \in Cols :
           Covers(e, u, j) /\ j \in e.existed[u] => e.backup[u][j] # Absent \/ e.primary[j] # Absent
    BY <1>1, <1>3 DEF SoundDisk
  <2>3. Overlaps = {} => \A u, v \in Txns : u # v => e.entries[u] \cap e.entries[v] = {}
    <3> SUFFICES ASSUME Overlaps = {}, NEW u \in Txns, NEW v \in Txns, u # v
                 PROVE  e.entries[u] \cap e.entries[v] = {}
      OBVIOUS
    <3>1. \A w \in Txns : E \cap disk.entries[w] = {}
      OBVIOUS
    <3> QED BY <1>1, <3>1 DEF SoundDisk
  <2> QED BY <1>4, <2>1, <2>2, <2>3 DEF SoundDisk
<1>6. ASSUME NEW j \in Cols PROVE Outcome(e)[j] = Outcome(disk)[j]
  <2>1. CASE j \in E
    <3>1. Outcome(e)[j] = Undone(e, t, j)
      BY <1>1, <1>5, <2>1, OutcomeAt
    <3>2. Outcome(disk)[j] = disk.primary[j]
      BY <1>2, <2>1, OutcomeElse
    <3>3. e.backup[t][j] = Absent
      BY <1>1 DEF NoFiles
    <3> QED BY <1>1, <1>3, <2>1, <3>1, <3>2, <3>3 DEF Undone
  <2>2. CASE j \notin E /\ \E u \in Txns : Covers(disk, u, j)
    <3>1. PICK u \in Txns : Covers(disk, u, j)
      BY <2>2
    <3>2. u # t /\ Covers(e, u, j)
      BY <1>1, <3>1
    <3>3. Outcome(e)[j] = Undone(e, u, j) /\ Outcome(disk)[j] = Undone(disk, u, j)
      BY <1>5, <3>1, <3>2, OutcomeAt
    <3>4. Undone(e, u, j) = Undone(disk, u, j)
      BY <1>1, <3>2 DEF Undone
    <3> QED BY <3>3, <3>4
  <2>3. CASE j \notin E /\ \A u \in Txns : ~Covers(disk, u, j)
    BY <1>1, <2>3, OutcomeElse
  <2> QED BY <2>1, <2>2, <2>3
<1>7. Outcome(e) = Outcome(disk)
  BY <1>6, SameOutcome
<1> QED BY <1>5, <1>7
-----------------------------------------------------------------------------
Busy == {"prepared", "install", "mark", "marked", "cleanup"}

(* A step that leaves a sound disk with the same outcome, and pc where it is   *)
(* or at a place that asks for nothing.                                      *)
LEMMA Keeps ==
    ASSUME SoundInv, SoundDisk(disk'), Outcome(disk') = Outcome(disk),
           durable' \in {durable, disk}, goal' = goal,
           pc' \notin Busy \/ (pc' = pc /\ txn' = txn /\ disk'.entries = disk.entries)
    PROVE  SoundInv' /\ Refines
<1>1. /\ SoundDisk(disk)' /\ SoundDisk(durable)'
  <2>1. SoundDisk(durable')
    BY DEF SoundInv
  <2> QED BY <2>1 DEF SoundDisk, Covers
<1>2. Outcome(disk)' = Outcome(disk) /\ Outcome(durable)' \in {Outcome(durable), Outcome(disk)}
  <2>1. Outcome(disk)' = Outcome(disk') /\ Outcome(durable)' = Outcome(durable')
    BY DEF Outcome, Covers, Undone
  <2> QED BY <2>1
<1>3. SoundInv'
  BY <1>1, <1>2 DEF SoundInv, AnsweredIsDurable, Busy
<1> QED BY <1>2, <1>3 DEF Refines, Same, Synced

(* The disk is as it was, or made durable. *)
LEMMA FilesKeep ==
    ASSUME SoundInv, UNCHANGED Files \/ sync_directory, goal' = goal, pc' \notin Busy
    PROVE  SoundInv' /\ Refines
<1>1. disk' = disk /\ durable' \in {durable, disk}
  BY DEF Files, sync_directory
<1> QED BY <1>1, Keeps DEF SoundInv

(* A sync on the way to the next step of the installation. *)
LEMMA SyncGoesOn ==
    ASSUME SoundInv, sync_directory, goal' = goal, txn' = txn,
           \/ pc \in {"prepared", "install"} /\ pc' \in {"install", "mark"}
           \/ pc = "marked" /\ pc' = "cleanup"
    PROVE  SoundInv' /\ Refines
<1>1. disk' = disk /\ durable' \in {durable, disk} /\ (Syncs => durable' = disk)
  BY DEF sync_directory
<1>2. /\ SoundDisk(disk)' /\ SoundDisk(durable)'
  <2>1. SoundDisk(disk') /\ SoundDisk(durable')
    BY <1>1 DEF SoundInv
  <2> QED BY <2>1 DEF SoundDisk, Covers
<1>3. /\ Outcome(disk)' = Outcome(disk) /\ Outcome(durable)' \in {Outcome(durable), Outcome(disk)}
      /\ Syncs => Outcome(durable)' = Outcome(disk)
  <2>1. Outcome(disk)' = Outcome(disk') /\ Outcome(durable)' = Outcome(durable')
    BY DEF Outcome, Covers, Undone
  <2> QED BY <1>1, <2>1
<1>4. SoundInv'
  BY <1>1, <1>2, <1>3 DEF SoundInv, AnsweredIsDurable
<1> QED BY <1>3, <1>4 DEF Refines, Same, Synced

LEMMA WriteManifestSound ==
    ASSUME "prepared" \notin Overlaps, IInv, SoundInv, NEW t \in Txns, NEW E \in SUBSET Cols,
           NEW rows \in [E -> Contents], write_prepared_manifest(t, E, rows)
    PROVE  SoundInv' /\ Refines
<1> DEFINE d == Written(t, E)
<1>1. /\ TypeOK /\ disk.phase[t] = "none"
      /\ \A u \in Txns : disk.phase[u] \notin Overlaps => E \cap disk.entries[u] = {}
      /\ disk' = d /\ durable' = durable /\ pc' = "prepared" /\ txn' = t
      /\ goal' = [i \in Cols |-> IF i \in E THEN rows[i] ELSE Outcome(disk)[i]]
  BY DEF IInv, write_prepared_manifest, Do, Written, Existing
<1>2. Listed(d, t, "prepared", E, Existing(E)) /\ disk.backup[t] = NoFiles
  BY <1>1, WrittenLists
<1> HIDE DEF d
<1>3. SoundDisk(disk') /\ Outcome(disk') = Outcome(disk)
  BY <1>1, <1>2, WrittenKeeps DEF SoundInv
<1>4. SoundDisk(disk)' /\ SoundDisk(durable)'
  <2>1. SoundDisk(durable')
    BY <1>1 DEF SoundInv
  <2> QED BY <1>3, <2>1 DEF SoundDisk, Covers
<1>5. Outcome(disk)' = Outcome(disk) /\ Outcome(durable)' = Outcome(durable)
  <2>1. Outcome(disk)' = Outcome(disk') /\ Outcome(durable)' = Outcome(durable')
    BY DEF Outcome, Covers, Undone
  <2> QED BY <1>1, <1>3, <2>1
<1>6. disk'.entries[t] = E
  BY <1>1, <1>2 DEF Listed
<1>7. SoundInv'
  BY <1>1, <1>4, <1>5, <1>6 DEF SoundInv, AnsweredIsDurable
<1> QED BY <1>5, <1>7 DEF Refines, Same

LEMMA InstallSound ==
    ASSUME "prepared" \notin Overlaps, IInv, SoundInv, Install PROVE SoundInv' /\ Refines
<1>1. TypeOK /\ StepOK
  BY DEF IInv
<1>2. ASSUME NEW t \in Txns, NEW E \in SUBSET Cols, NEW rows \in [E -> Contents],
             write_prepared_manifest(t, E, rows)
      PROVE  SoundInv' /\ Refines
  BY <1>2, WriteManifestSound
<1>3. CASE prepared_manifest_synced \/ install_synced
  BY <1>3, SyncGoesOn DEF prepared_manifest_synced, install_synced, Goes, Progress
<1>4. CASE prepared_manifest_fails \/ install_fails
  BY <1>4, FilesKeep DEF prepared_manifest_fails, install_fails, Goes, Progress, Busy
<1>5. ASSUME NEW i \in Cols, rename_to_backup(i) PROVE SoundInv' /\ Refines
  <2>1. /\ Goes("install", "install") /\ i \in disk.existed[txn] \ backed_up
        /\ disk' = SetBackup(i) /\ durable' = durable /\ goal' = goal
    BY <1>5 DEF rename_to_backup, Do
  <2>2. Touched(disk', i, Absent, disk.primary[i])
    BY <1>1, <2>1, SetBackupTouches
  <2>3. /\ Covers(disk, txn, i) /\ disk.backup[txn][i] = Absent /\ disk.primary[i] # Absent
    BY <1>1, <2>1, DiskFields DEF StepOK, Installing, Covers, Goes
  <2>4. Undone(disk, txn, i) = disk.primary[i]
    BY <2>1, <2>3 DEF Undone
  <2>5. SoundDisk(disk') /\ Outcome(disk') = Outcome(disk)
    BY <1>1, <2>2, <2>3, <2>4, TouchedKeeps DEF SoundInv
  <2> QED BY <2>1, <2>2, <2>5, Keeps DEF Goes, Touched
<1>6. ASSUME NEW i \in Cols, rename_staged(i) PROVE SoundInv' /\ Refines
  <2>1. /\ Goes("install", "install") /\ i \in disk.entries[txn] \ installed
        /\ backed_up = disk.existed[txn]
        /\ disk' = SetPrimary(i, goal[i]) /\ durable' = durable /\ goal' = goal
    BY <1>6 DEF rename_staged, Do
  <2>2. goal[i] \in Contents \cup {Absent}
    BY <1>1 DEF TypeOK, Tables
  <2>3. Touched(disk', i, goal[i], disk.backup[txn][i])
    BY <1>1, <2>1, <2>2, SetPrimaryTouches
  <2>4. Covers(disk, txn, i) /\ (i \in disk.existed[txn] => disk.backup[txn][i] # Absent)
    BY <1>1, <2>1 DEF StepOK, Installing, Covers, Goes
  <2>5. SoundDisk(disk') /\ Outcome(disk') = Outcome(disk)
    BY <1>1, <2>3, <2>4, TouchedKeeps DEF SoundInv, Undone
  <2> QED BY <2>1, <2>3, <2>5, Keeps DEF Goes, Touched
<1> QED BY <1>2, <1>3, <1>4, <1>5, <1>6 DEF Install

LEMMA RollbackSound ==
    ASSUME "prepared" \notin Overlaps, IInv, SoundInv, Rollback PROVE SoundInv' /\ Refines
<1>1. TypeOK /\ StepOK
  BY DEF IInv
<1>2. ASSUME NEW i \in Cols, rollback_removes(i) PROVE SoundInv' /\ Refines
  <2>1. /\ Goes("rollback", "rollback") /\ i \in installed /\ goal' = goal
        /\ UNCHANGED Files \/ (disk' = SetPrimary(i, Absent) /\ durable' = durable)
    BY <1>2 DEF rollback_removes, Do
  <2>2. CASE UNCHANGED Files
    BY <2>1, <2>2, FilesKeep DEF Goes, Busy
  <2>3. CASE disk' = SetPrimary(i, Absent) /\ durable' = durable
    <3>1. Touched(disk', i, Absent, disk.backup[txn][i])
      BY <1>1, <2>3, SetPrimaryTouches
    <3>2. Covers(disk, txn, i) /\ (i \in disk.existed[txn] => disk.backup[txn][i] # Absent)
      BY <1>1, <2>1 DEF StepOK, RollingBack, Covers, Goes
    <3>3. SoundDisk(disk') /\ Outcome(disk') = Outcome(disk)
      BY <1>1, <3>1, <3>2, TouchedKeeps DEF SoundInv, Undone
    <3> QED BY <2>1, <2>3, <3>1, <3>3, Keeps DEF Goes, Touched
  <2> QED BY <2>1, <2>2, <2>3
<1>3. ASSUME NEW i \in Cols, rollback_restores(i) PROVE SoundInv' /\ Refines
  <2>1. /\ Goes("rollback", "rollback") /\ i \in backed_up /\ goal' = goal
        /\ UNCHANGED Files \/ (disk' = Restore(i) /\ durable' = durable)
    BY <1>3 DEF rollback_restores, Do
  <2>2. CASE UNCHANGED Files
    BY <2>1, <2>2, FilesKeep DEF Goes, Busy
  <2>3. CASE disk' = Restore(i) /\ durable' = durable
    <3>1. Touched(disk', i, disk.backup[txn][i], Absent)
      BY <1>1, <2>3, RestoreTouches
    <3>2. /\ Covers(disk, txn, i) /\ disk.backup[txn][i] # Absent
      BY <1>1, <2>1, DiskFields DEF StepOK, RollingBack, Covers, Goes
    <3>3. SoundDisk(disk') /\ Outcome(disk') = Outcome(disk)
      BY <1>1, <3>1, <3>2, TouchedKeeps DEF SoundInv, Undone
    <3> QED BY <2>1, <2>3, <3>1, <3>3, Keeps DEF Goes, Touched
  <2> QED BY <2>1, <2>2, <2>3
<1>4. CASE rollback_incomplete \/ rollback_complete
  BY <1>4, FilesKeep DEF rollback_incomplete, rollback_complete, Goes, Progress, Busy
<1> QED BY <1>2, <1>3, <1>4 DEF Rollback

(* The removal of the manifest of txn, by a clean-up or a recovery. *)
LEMMA NoManifestSound ==
    ASSUME IInv, SoundInv, Do(NoManifest), disk.backup[txn] = NoFiles,
           disk.phase[txn] = "prepared" => RolledBack,
           pc' \in {"discarded", "removed"}, UNCHANGED <<starting, txn, Progress>>
    PROVE  SoundInv' /\ Refines
<1>1. Listed(disk', txn, "none", {}, {}) /\ durable' = durable /\ goal' = goal
  BY NoManifestLists DEF IInv, Do, Progress
<1>2. SoundDisk(disk') /\ Outcome(disk') = Outcome(disk)
  BY <1>1, RemovedKeeps DEF IInv, SoundInv
<1> QED BY <1>1, <1>2, Keeps DEF Busy

LEMMA CommitSound ==
    ASSUME "prepared" \notin Overlaps, IInv, SoundInv, Commit PROVE SoundInv' /\ Refines
<1>1. TypeOK /\ StepOK
  BY DEF IInv
<1>2. CASE mark_committed
  <2>1. /\ Goes("mark", "marked") /\ disk' = Marked /\ durable' = durable /\ goal' = goal
    BY <1>2 DEF mark_committed, Marked, Do, Progress
  <2>2. /\ disk.phase[txn] = "prepared" /\ (Syncs => durable = disk)
        /\ \A i \in disk.entries[txn] : disk.primary[i] = goal[i] /\ goal[i] # Absent
    BY <1>1, <2>1 DEF StepOK, Marking, Goes
  <2>3. Listed(disk', txn, "committed", disk.entries[txn], disk.existed[txn])
    BY <1>1, <2>1, <2>2, MarkLists
  <2>4. /\ SoundDisk(disk')
        /\ \A i \in Cols : Outcome(disk')[i] = IF i \in disk.entries[txn] THEN disk.primary[i]
                                               ELSE Outcome(disk)[i]
    BY <1>1, <2>2, <2>3, MarkedKeeps DEF SoundInv
  <2>5. \A i \in Cols : Outcome(disk')[i] = goal[i]
    BY <2>1, <2>2, <2>4 DEF SoundInv, Goes
  <2>6. Outcome(disk') = goal
    BY <1>1, <2>5 DEF Outcome, TypeOK, Tables
  <2>7. SoundDisk(disk)' /\ SoundDisk(durable)'
    <3>1. SoundDisk(durable')
      BY <2>1 DEF SoundInv
    <3> QED BY <2>4, <3>1 DEF SoundDisk, Covers
  <2>8. Outcome(disk)' = goal /\ Outcome(durable)' = Outcome(durable)
    <3>1. Outcome(disk)' = Outcome(disk') /\ Outcome(durable)' = Outcome(durable')
      BY DEF Outcome, Covers, Undone
    <3> QED BY <2>1, <2>6, <3>1
  <2>9. SoundInv'
    BY <2>1, <2>7, <2>8 DEF SoundInv, AnsweredIsDurable, Goes
  <2> QED BY <2>1, <2>2, <2>8, <2>9 DEF Refines, Replaced
<1>3. CASE mark_synced
  BY <1>3, SyncGoesOn DEF mark_synced, Goes, Progress
<1>4. CASE mark_fails \/ cleanup_fails \/ removal_fails \/ removal_synced
  BY <1>4, FilesKeep DEF mark_fails, cleanup_fails, removal_fails, removal_synced, Goes, Progress, Busy
<1>5. ASSUME NEW i \in Cols, cleanup_removes_backup(i) PROVE SoundInv' /\ Refines
  <2>1. Goes("cleanup", "cleanup") /\ disk' = NoBackup(i) /\ durable' = durable /\ goal' = goal
    BY <1>5 DEF cleanup_removes_backup, Do, Progress
  <2>2. Touched(disk', i, disk.primary[i], Absent) /\ disk.phase[txn] = "committed"
    BY <1>1, <2>1, NoBackupTouches DEF StepOK, Marking, Goes
  <2>3. SoundDisk(disk') /\ Outcome(disk') = Outcome(disk)
    BY <1>1, <2>2, BackupGone DEF SoundInv
  <2> QED BY <2>1, <2>2, <2>3, Keeps DEF Goes, Touched
<1>6. CASE remove_manifest
  <2>1. /\ Do(NoManifest) /\ pc' = "discarded" /\ UNCHANGED <<starting, txn, Progress>>
        /\ (pc = "cleanup" /\ disk.backup[txn] = NoFiles) \/ pc = "discard"
    BY <1>6 DEF remove_manifest, Goes
  <2>2. disk.backup[txn] = NoFiles /\ (disk.phase[txn] = "prepared" => RolledBack)
    BY <1>1, <2>1, NoBackupLeft DEF StepOK, Recovering, Marking
  <2> QED BY <2>1, <2>2, NoManifestSound
<1> QED BY <1>2, <1>3, <1>4, <1>5, <1>6 DEF Commit

LEMMA RecoverySound ==
    ASSUME "prepared" \notin Overlaps, IInv, SoundInv, Recovery PROVE SoundInv' /\ Refines
<1>1. TypeOK /\ StepOK
  BY DEF IInv
<1>2. ASSUME NEW t \in Txns, recover_prepared_transaction(t) \/ recover_committed_transaction(t)
      PROVE  SoundInv' /\ Refines
  BY <1>2, FilesKeep
     DEF recover_prepared_transaction, recover_committed_transaction, Recovers, Progress, Busy
<1>3. ASSUME NEW i \in Cols, restore_entry(i) PROVE SoundInv' /\ Refines
  <2>1. /\ Goes("restore", "restore") /\ i \in disk.entries[txn] /\ durable' = durable /\ goal' = goal
    BY <1>3 DEF restore_entry, Do, Progress
  <2>2. Covers(disk, txn, i) /\ (disk.backup[txn][i] # Absent => i \in disk.existed[txn])
    BY <1>1, <2>1, DiskFields DEF StepOK, Recovering, Covers, Goes
  <2>3. \/ /\ disk.backup[txn][i] # Absent \/ i \notin disk.existed[txn]
           /\ Touched(disk', i, Absent, disk.backup[txn][i])
        \/ /\ disk.backup[txn][i] # Absent
           /\ Touched(disk', i, disk.backup[txn][i], Absent)
    BY <1>1, <1>3, RestoreEntryTouches
  <2>4. SoundDisk(disk') /\ Outcome(disk') = Outcome(disk)
    BY <1>1, <2>2, <2>3, TouchedKeeps DEF SoundInv, Undone
  <2> QED BY <2>1, <2>3, <2>4, Keeps DEF Goes, Touched
<1>4. ASSUME NEW i \in Cols, finish_entry(i) PROVE SoundInv' /\ Refines
  <2>1. Goes("finish", "finish") /\ disk' = NoBackup(i) /\ durable' = durable /\ goal' = goal
    BY <1>4 DEF finish_entry, Do, Progress
  <2>2. Touched(disk', i, disk.primary[i], Absent) /\ disk.phase[txn] = "committed"
    BY <1>1, <2>1, NoBackupTouches DEF StepOK, Recovering, Goes
  <2>3. SoundDisk(disk') /\ Outcome(disk') = Outcome(disk)
    BY <1>1, <2>2, BackupGone DEF SoundInv
  <2> QED BY <2>1, <2>2, <2>3, Keeps DEF Goes, Touched
<1>5. CASE restore_synced \/ finish_synced \/ recovery_goes_on \/ recovery_ends \/ recovery_fails
  BY <1>5, FilesKeep
     DEF restore_synced, finish_synced, recovery_goes_on, recovery_ends, recovery_fails, Goes, Progress, Busy
<1>6. CASE recovery_removes_manifest
  <2>1. /\ Do(NoManifest) /\ pc = "remove" /\ pc' = "removed" /\ UNCHANGED <<starting, txn, Progress>>
    BY <1>6 DEF recovery_removes_manifest, Goes
  <2>2. disk.backup[txn] = NoFiles /\ (disk.phase[txn] = "prepared" => RolledBack)
    BY <1>1, <2>1 DEF StepOK, Recovering
  <2> QED BY <2>1, <2>2, NoManifestSound
<1> QED BY <1>2, <1>3, <1>4, <1>5, <1>6 DEF Recovery

(* A crash leaves one of the two disks. *)
LEMMA CrashSound == ASSUME SoundInv, Crash PROVE SoundInv' /\ Refines
<1>1. disk' \in {disk, durable} /\ durable' = durable /\ pc' = "recover" /\ goal' = goal
  BY DEF Crash
<1>2. SoundDisk(disk)' /\ SoundDisk(durable)'
  <2>1. SoundDisk(disk') /\ SoundDisk(durable')
    BY <1>1 DEF SoundInv
  <2> QED BY <2>1 DEF SoundDisk, Covers
<1>3. /\ Outcome(disk)' \in {Outcome(disk), Outcome(durable)}
      /\ Outcome(durable)' = Outcome(durable)
  <2>1. Outcome(disk)' = Outcome(disk') /\ Outcome(durable)' = Outcome(durable')
    BY DEF Outcome, Covers, Undone
  <2> QED BY <1>1, <2>1
<1>4. SoundInv'
  BY <1>1, <1>2 DEF SoundInv, AnsweredIsDurable
<1> QED BY <1>1, <1>3, <1>4 DEF Refines, Same, Lost

LEMMA WriteBackSound == ASSUME SoundInv, WriteBack PROVE SoundInv' /\ Refines
<1>1. /\ disk' = disk /\ durable' = disk /\ pc' = pc /\ txn' = txn /\ goal' = goal
  BY DEF WriteBack, Progress
<1> QED BY <1>1, Keeps DEF SoundInv
-----------------------------------------------------------------------------
LEMMA InitSound == Init => SoundInv
<1> SUFFICES ASSUME Init PROVE SoundInv
  OBVIOUS
<1>1. /\ durable = disk /\ pc = "idle"
      /\ \A t \in Txns : disk.phase[t] = "none" /\ disk.entries[t] = {}
  BY DEF Init
<1>2. SoundDisk(disk)
  BY <1>1 DEF SoundDisk, Covers
<1> QED BY <1>1, <1>2 DEF SoundInv, AnsweredIsDurable

LEMMA SoundStep ==
    ASSUME "prepared" \notin Overlaps, IInv, SoundInv, [Next]_vars
    PROVE  SoundInv' /\ (Refines \/ UNCHANGED vars)
<1>1. CASE UNCHANGED vars
  <2>1. disk' = disk /\ durable' = durable /\ goal' = goal /\ pc' = pc /\ txn' = txn
    BY <1>1 DEF vars
  <2> QED BY <1>1, <2>1, Keeps DEF SoundInv
<1> QED BY <1>1, InstallSound, RollbackSound, CommitSound, RecoverySound, CrashSound, WriteBackSound
        DEF Next

LEMMA SoundInvariance ==
    ASSUME "prepared" \notin Overlaps PROVE Spec => [](IInv /\ SoundInv)
<1>1. IInv /\ SoundInv /\ [Next]_vars => SoundInv'
  BY SoundStep
<1> QED BY <1>1, InitSafe, InitSound, Inductive, PTL DEF Spec
-----------------------------------------------------------------------------
(* No crash leaves a disk that rows are missing from.  The collections of a    *)
(* committed leftover may be replaced again, those of a prepared one are not. *)
LEMMA SoundIsNothingLost ==
    ASSUME NEW d \in Disk, SoundDisk(d), NEW t \in Txns
    PROVE  /\ d.phase[t] = "prepared" => ~PreparedStuck(d, t)
           /\ d.phase[t] = "committed" =>
                 \A i \in d.entries[t] :
                     \/ d.primary[i] # Absent
                     \/ \E u \in Txns : Covers(d, u, i) /\ d.backup[u][i] # Absent
<1>1. d.entries[t] \subseteq Cols /\ \A i \in Cols : d.backup[t][i] # Absent => i \in d.existed[t]
  BY DEF Disk
<1>2. ASSUME d.phase[t] = "prepared" PROVE ~PreparedStuck(d, t)
  BY <1>1, <1>2 DEF PreparedStuck, SoundDisk, Covers
<1>3. ASSUME d.phase[t] = "committed", NEW i \in d.entries[t], d.primary[i] = Absent
      PROVE  \E u \in Txns : Covers(d, u, i) /\ d.backup[u][i] # Absent
  <2>1. PICK u \in Txns : Covers(d, u, i)
    BY <1>1, <1>3 DEF SoundDisk
  <2>2. i \in d.existed[u]
    BY <1>1, <1>3, <2>1 DEF SoundDisk
  <2>3. d.backup[u][i] # Absent
    BY <1>1, <1>3, <2>1, <2>2 DEF SoundDisk
  <2> QED BY <2>1, <2>3
<1> QED BY <1>2, <1>3

THEOREM NothingIsLost ==
    ASSUME "prepared" \notin Overlaps PROVE Spec => []NothingLost
<1>1. IInv /\ SoundInv => NothingLost
  BY SoundIsNothingLost DEF IInv, TypeOK, SoundInv, NothingLost
<1> QED BY <1>1, SoundInvariance, PTL

(* A start refuses no disk a crash may leave, while no collection is replaced  *)
(* again before the manifest of a failed clean-up or rollback is gone.        *)
THEOREM NeverStuck ==
    ASSUME Overlaps = {} PROVE Spec => []RecoveryNeverStuck
<1>1. ASSUME NEW d \in Disk, SoundDisk(d), NEW t \in Txns, d.phase[t] = "committed"
      PROVE  ~CommittedStuck(d, t)
  <2> SUFFICES ASSUME NEW i \in d.entries[t], d.primary[i] = Absent PROVE FALSE
    BY DEF CommittedStuck
  <2>1. PICK u \in Txns : Covers(d, u, i)
    BY <1>1, SoundIsNothingLost
  <2>2. u # t /\ i \in d.entries[u] \cap d.entries[t]
    BY <1>1, <2>1 DEF Covers
  <2> QED BY <1>1, <2>2 DEF SoundDisk
<1>2. IInv /\ SoundInv => RecoveryNeverStuck
  BY <1>1, SoundIsNothingLost DEF IInv, TypeOK, SoundInv, RecoveryNeverStuck
<1>3. "prepared" \notin Overlaps
  OBVIOUS
<1> QED BY <1>2, <1>3, SoundInvariance, PTL

(* Rows whose writing was answered stay, over every crash and failing          *)
(* clean-up, and over every power loss where a sync waits for the disk; while *)
(* no collection is replaced over a prepared leftover.                       *)
THEOREM AnswersHold ==
    ASSUME "prepared" \notin Overlaps PROVE Spec => []AnsweredIsDurable
<1>1. IInv /\ SoundInv => AnsweredIsDurable
  BY DEF SoundInv
<1> QED BY <1>1, SoundInvariance, PTL
-----------------------------------------------------------------------------
(* A step of Spec is a step of AtomicReplacement. *)
LEMMA ReplacementStep ==
    ASSUME "prepared" \notin Overlaps
    PROVE  IInv /\ SoundInv /\ [Next]_vars
              => [Atomic!Next]_<<Outcome(disk), Outcome(durable), goal>>
<1> SUFFICES ASSUME IInv, SoundInv, [Next]_vars
             PROVE  [Atomic!Next]_<<Outcome(disk), Outcome(durable), goal>>
  OBVIOUS
<1>1. goal' \in Tables
  BY Inductive DEF IInv, TypeOK
<1>2. CASE UNCHANGED vars
  <2>1. disk' = disk /\ durable' = durable /\ goal' = goal
    BY <1>2 DEF vars
  <2>2. UNCHANGED <<Outcome(disk), Outcome(durable), goal>>
    BY <2>1 DEF Outcome, Covers, Undone
  <2> QED BY <2>2
<1>3. CASE Same
  BY <1>1, <1>3 DEF Same, Atomic!Next, Atomic!Ask, Atomic!Tables, Tables
<1>4. CASE Synced /\ goal' = goal
  BY <1>4 DEF Synced, Atomic!Next, Atomic!MadeDurable
<1>5. CASE Replaced /\ goal' = goal
  BY <1>5 DEF Replaced, Atomic!Next, Atomic!Replace
<1>6. CASE Lost /\ goal' = goal
  BY <1>6 DEF Lost, Atomic!Next, Atomic!TakenBack
<1> QED BY <1>2, <1>3, <1>4, <1>5, <1>6, SoundStep DEF Refines

(* All collections change or none, and only once: the installation with its    *)
(* rollback and recovery implements AtomicReplacement for any collections and *)
(* contents, while no collection is replaced over a prepared leftover.        *)
THEOREM ReplacementIsAtomic ==
    ASSUME "prepared" \notin Overlaps PROVE Spec => ImplementsAtomicReplacement
<1>1. Init => Atomic!Init
  <2> SUFFICES ASSUME Init PROVE Atomic!Init
    OBVIOUS
  <2>1. /\ durable = disk /\ goal = disk.primary
        /\ \A t \in Txns : disk.phase[t] = "none"
    BY DEF Init
  <2>2. goal \in Tables
    BY InitSafe DEF IInv, TypeOK
  <2>3. \A i \in Cols : Outcome(disk)[i] = goal[i]
    BY <2>1, OutcomeElse DEF Covers
  <2>4. Outcome(disk) = goal
    BY <2>2, <2>3 DEF Outcome, Tables
  <2> QED BY <2>1, <2>2, <2>4 DEF Atomic!Init, Atomic!Tables, Tables
<1> QED BY <1>1, ReplacementStep, SoundInvariance, PTL
        DEF Spec, ImplementsAtomicReplacement, Atomic!Spec
=============================================================================
