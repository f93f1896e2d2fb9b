-------------------------- MODULE CollectionStore --------------------------
(* One collection of FileStorage (crates/storage/src/lib.rs, journal.rs): a  *)
(* primary file holding all rows, a pending journal of acknowledged changes  *)
(* the file does not have yet, and a cache that may be ahead of the file.    *)
(*                                                                           *)
(* Every mutation runs under the write gate's permit; WriteGate shows that   *)
(* the gate grants one at a time, so the permit's holder is one variable     *)
(* here.  Most mutations also hold the global lock exclusively and are one   *)
(* step; the deferred flush and the preparation of an atomic update do not,  *)
(* and interleave with listings, which hold the lock shared.                 *)
(*                                                                           *)
(* A definition named Faulty_... is a variant with a bug, for the mutation    *)
(* runs only.                                                                *)
CONSTANTS
    Ids, Values, NoRow,   \* record ids, record contents, no record with that id
    Untouched,            \* the journal has no entry for an id
    Imports,              \* tables an import may install
    Listers,              \* threads that list the collection when it is cold
    Kinds                 \* the uses of collections to look at

Rows == [Ids -> Values \cup {NoRow}]

(* What the program does with a collection: record-local journal writes      *)
(* (chats, messages, ...), atomic updates, pruning (character-versions), cold  *)
(* listings, imports.                                                        *)
Kind == [record_local : BOOLEAN, atomic : BOOLEAN, pruned : BOOLEAN,
         listers : SUBSET Listers, imports : SUBSET Imports]

ASSUME ConstantsAssumption ==
    /\ NoRow \notin Values
    /\ Untouched \notin Values \cup {NoRow}
    /\ Imports \subseteq Rows
    /\ Kinds \subseteq Kind

VARIABLES
    kind,             \* the collection's use, which never changes
    retention,        \* the rows a pruning has visited and selects from
    primary,          \* the rows in <collection>.json
    journal,          \* what <collection>.pending.jsonl says of each id in the end
    cache,            \* the cached rows, clean or dirty, or absent
    permit,           \* where the holder of the write permit is; "free" if none
    update,           \* rows and file stamp an atomic update has loaded
    list,             \* where each listing is, and the rows it has read so far
    flush_scheduled,  \* the flag of that name
    recheck           \* a flush thread has cleared it and not yet counted dirt

state == <<primary, journal, cache, permit, update, list, flush_scheduled, recheck>>
vars  == <<kind, retention, state>>

EmptyRows == [i \in Ids |-> NoRow]
NoJournal == [i \in Ids |-> Untouched]
NoCache   == [state |-> "absent", rows |-> EmptyRows]
NoUpdate  == [rows |-> EmptyRows, stamp |-> EmptyRows]
NoVisit   == [visited |-> FALSE, rows |-> EmptyRows]
Idle      == [pc |-> "idle", rows |-> EmptyRows]

Clean(rows) == [state |-> "clean", rows |-> rows]
Dirty(rows) == [state |-> "dirty", rows |-> rows]
Cached == cache.state # "absent"
IsDirty == cache.state = "dirty"

(* Permit holders that also hold the global lock exclusively. *)
Locked == {"schedule", "shutdown", "shutdown_flushed", "create"}

Permit == {"free", "flush", "flushed", "update", "update_flushed", "update_journal",
           "update_recovered", "update_load", "update_run", "down", "recovered"} \cup Locked

TypeOK ==
    /\ kind \in Kinds
    /\ retention \in [visited : BOOLEAN, rows : Rows]
    /\ primary \in Rows
    /\ journal \in [Ids -> Values \cup {NoRow, Untouched}]
    /\ cache \in [state : {"absent", "clean", "dirty"}, rows : Rows]
    /\ permit \in Permit
    /\ update \in [rows : Rows, stamp : Rows]
    /\ list \in [Listers -> [pc : {"idle", "primary", "journal", "fill"}, rows : Rows]]
    /\ flush_scheduled \in BOOLEAN
    /\ recheck \in BOOLEAN

Init ==
    /\ kind \in Kinds
    /\ retention = NoVisit
    /\ primary \in Rows
    /\ journal = NoJournal
    /\ cache = NoCache
    /\ permit = "free"
    /\ update = NoUpdate
    /\ list = [l \in Listers |-> Idle]
    /\ flush_scheduled = FALSE
    /\ recheck = FALSE
----------------------------------------------------------------------------
(* apply_pending_collection_mutations: later entries of an id win, so the    *)
(* journal is kept as the last word on each id.                              *)
Faulty_Apply(j, rows) == j          \* the journal instead of its merge with the rows
Apply(j, rows) == [i \in Ids |-> IF j[i] = Untouched THEN rows[i] ELSE j[i]]

Content == Apply(journal, primary)

(* read_collection under the exclusive lock. *)
CurrentRows == IF Cached THEN cache.rows ELSE Content

append_collection_mutation(i, v) == journal' = [journal EXCEPT ![i] = v]

LockFree == \A l \in Listers : list[l].pc = "idle"
MayWrite == permit = "free" /\ LockFree
Reading  == permit \notin Locked \cup {"down", "recovered"}

(* upsert_with_id, patch, patch_if, patch_many, create and the deletes of a  *)
(* warm collection: one journal entry, then the new rows in a dirty cache.    *)
write_collection(i, v) ==
    /\ MayWrite
    /\ v # CurrentRows[i]
    /\ append_collection_mutation(i, v)
    /\ cache' = Dirty([CurrentRows EXCEPT ![i] = v])
    /\ permit' = "schedule"
    /\ UNCHANGED <<primary, update, list, flush_scheduled, recheck>>

(* update_record_journaled and the grouped upserts: a record-local entry that *)
(* keeps a cold collection cold.                                             *)
Faulty_update_record(i, v) ==       \* a clean cache stays
    /\ kind.record_local /\ MayWrite
    /\ append_collection_mutation(i, v)
    /\ IF IsDirty
         THEN /\ cache' = [cache EXCEPT !.rows[i] = v]
              /\ permit' = "schedule"
         ELSE UNCHANGED <<cache, permit>>
    /\ UNCHANGED <<primary, update, list, flush_scheduled, recheck>>

update_record_journaled(i, v) ==
    /\ kind.record_local /\ MayWrite
    /\ append_collection_mutation(i, v)
    /\ IF IsDirty
         THEN /\ cache' = [cache EXCEPT !.rows[i] = v]
              /\ permit' = "schedule"
         ELSE /\ cache' = NoCache
              /\ UNCHANGED permit
    /\ UNCHANGED <<primary, update, list, flush_scheduled, recheck>>

(* schedule_dirty_flush at the end of both, still under permit and lock. *)
schedule_dirty_flush ==
    /\ permit = "schedule"
    /\ flush_scheduled' = TRUE
    /\ permit' = "free"
    /\ UNCHANGED <<primary, journal, cache, update, list, recheck>>

(* create_immediate: the file gets the record before the journal goes. *)
Faulty_create(i, v) ==              \* the rows of the file, not the current ones
    /\ MayWrite
    /\ CurrentRows[i] = NoRow
    /\ primary' = [primary EXCEPT ![i] = v]
    /\ permit' = "create"
    /\ UNCHANGED <<journal, cache, update, list, flush_scheduled, recheck>>

create_immediate(i, v) ==
    /\ MayWrite
    /\ CurrentRows[i] = NoRow
    /\ primary' = [CurrentRows EXCEPT ![i] = v]
    /\ permit' = "create"
    /\ UNCHANGED <<journal, cache, update, list, flush_scheduled, recheck>>

create_immediate_end ==
    /\ permit = "create"
    /\ journal' = NoJournal
    /\ cache' = Clean(primary)
    /\ permit' = "free"
    /\ UNCHANGED <<primary, update, list, flush_scheduled, recheck>>

(* replace_all_many: the dirty flush retires the journal of a dirty cache,    *)
(* the installed rows replace file and cache.                                *)
replace_all_many(rows) ==
    /\ MayWrite
    /\ primary' = rows
    /\ journal' = IF IsDirty THEN NoJournal ELSE journal
    /\ cache' = Clean(rows)
    /\ UNCHANGED <<permit, update, list, flush_scheduled, recheck>>

(* Making room for another collection drops clean rows. *)
evict_oldest_clean_cache_entry ==
    /\ cache.state = "clean"
    /\ Reading
    /\ cache' = NoCache
    /\ UNCHANGED <<primary, journal, permit, update, list, flush_scheduled, recheck>>
----------------------------------------------------------------------------
(* flush_dirty_collections_matching: write the file, then, under the cache    *)
(* lock, remove the journal and mark the cache clean.                        *)
FlushWrites(from, to) ==
    /\ permit = from /\ IsDirty
    /\ primary' = cache.rows
    /\ permit' = to
    /\ UNCHANGED <<journal, cache, update, list, flush_scheduled, recheck>>

FlushEnds(from, to) ==
    /\ permit = from
    /\ journal' = NoJournal
    /\ cache' = Clean(cache.rows)
    /\ permit' = to
    /\ UNCHANGED <<primary, update, list, flush_scheduled, recheck>>

(* The deferred flush thread; foreground activity or the compaction policy    *)
(* may make it pass over the collection.                                     *)
flush_deferred_begin ==
    /\ flush_scheduled
    /\ permit = "free" /\ IsDirty
    /\ permit' = "flush"
    /\ UNCHANGED <<primary, journal, cache, update, list, flush_scheduled, recheck>>

flush_deferred_writes ==
    FlushWrites("flush", "flushed") \/ FlushEnds("flushed", "free")

(* One thread at a time between the two statements (a bound of the model). *)
Faulty_clears_flag ==               \* the last look at the dirt comes first
    /\ flush_scheduled /\ ~recheck
    /\ permit \notin {"flush", "flushed", "down", "recovered"}
    /\ flush_scheduled' = FALSE
    /\ UNCHANGED <<primary, journal, cache, permit, update, list, recheck>>

flush_thread_clears_flag ==
    /\ flush_scheduled /\ ~recheck
    /\ permit \notin {"flush", "flushed", "down", "recovered"}
    /\ flush_scheduled' = FALSE
    /\ recheck' = TRUE
    /\ UNCHANGED <<primary, journal, cache, permit, update, list>>

flush_thread_rechecks ==
    /\ recheck
    /\ recheck' = FALSE
    /\ flush_scheduled' = (flush_scheduled \/ IsDirty)
    /\ UNCHANGED <<primary, journal, cache, permit, update, list>>

(* flush: the same under the exclusive lock, at exit and before a backup. *)
flush_begin ==
    /\ MayWrite /\ IsDirty
    /\ permit' = "shutdown"
    /\ UNCHANGED <<primary, journal, cache, update, list, flush_scheduled, recheck>>

flush == FlushWrites("shutdown", "shutdown_flushed") \/ FlushEnds("shutdown_flushed", "free")
----------------------------------------------------------------------------
(* update_collections_atomically. The flush of dirty rows and the recovery of *)
(* a journal run under the atomic permit only, outside the global lock.      *)
Faulty_update_begin ==              \* nothing is materialized
    /\ kind.atomic /\ permit = "free"
    /\ permit' = "update_load"
    /\ UNCHANGED <<primary, journal, cache, update, list, flush_scheduled, recheck>>

update_begin ==
    /\ kind.atomic /\ permit = "free"
    /\ permit' = IF IsDirty THEN "update" ELSE "update_journal"
    /\ UNCHANGED <<primary, journal, cache, update, list, flush_scheduled, recheck>>

update_flush ==
    \/ FlushWrites("update", "update_flushed")
    \/ FlushEnds("update_flushed", "update_journal")

(* recover_collection_journal_if_present: install the merged rows, then       *)
(* remove the journal.                                                       *)
Faulty_update_recovers ==           \* a cold journal is not materialized
    /\ permit = "update_journal"
    /\ permit' = "update_load"
    /\ UNCHANGED <<primary, journal, cache, update, list, flush_scheduled, recheck>>

update_recovers_journal ==
    /\ permit = "update_journal"
    /\ primary' = Content
    /\ permit' = IF journal = NoJournal THEN "update_load" ELSE "update_recovered"
    /\ UNCHANGED <<journal, cache, update, list, flush_scheduled, recheck>>

update_removes_journal ==
    /\ permit = "update_recovered"
    /\ journal' = NoJournal
    /\ permit' = "update_load"
    /\ UNCHANGED <<primary, cache, update, list, flush_scheduled, recheck>>

(* Rows and stamp under one exclusive lock. *)
update_load ==
    /\ permit = "update_load" /\ LockFree
    /\ update' = [rows |-> CurrentRows, stamp |-> primary]
    /\ cache' = IF Cached THEN cache ELSE Clean(Content)
    /\ permit' = "update_run"
    /\ UNCHANGED <<primary, journal, list, flush_scheduled, recheck>>

(* The closure changes a row; the replacement installs if the file's stamp    *)
(* is still the one loaded.                                                  *)
update_install(i, v) ==
    /\ permit = "update_run" /\ LockFree
    /\ update.stamp = primary
    /\ primary' = [update.rows EXCEPT ![i] = v]
    /\ cache' = Clean(primary')
    /\ permit' = "free"
    /\ update' = NoUpdate
    /\ UNCHANGED <<journal, list, flush_scheduled, recheck>>

(* The closure fails, or asks for no write. *)
update_ends ==
    /\ permit = "update_run"
    /\ permit' = "free"
    /\ update' = NoUpdate
    /\ UNCHANGED <<primary, journal, cache, list, flush_scheduled, recheck>>
----------------------------------------------------------------------------
(* prune_character_versions: a visit of the file selects rows by their place   *)
(* and id, and a filter of the file removes them if its stamp is still the     *)
(* visit's.  Either begins with the flush of dirty rows (flush_begin, flush)   *)
(* under the same lock.  Bound: one pruning at a time.                         *)
retention_visits ==
    /\ kind.pruned /\ ~retention.visited
    /\ MayWrite /\ ~IsDirty
    /\ retention' = [visited |-> TRUE, rows |-> primary]
    /\ UNCHANGED state

Without(K, rows) == [i \in Ids |-> IF i \in K THEN NoRow ELSE rows[i]]

Faulty_filter(K) ==                 \* the rows visited are not compared
    /\ kind.pruned /\ retention.visited
    /\ MayWrite /\ ~IsDirty
    /\ retention' = NoVisit
    /\ primary' = Without(K, primary)
    /\ cache' = IF primary' = primary THEN cache ELSE NoCache
    /\ UNCHANGED <<journal, permit, update, list, flush_scheduled, recheck>>

filter_collection_streaming(K) ==
    /\ kind.pruned /\ retention.visited
    /\ MayWrite /\ ~IsDirty
    /\ retention' = NoVisit
    /\ IF primary # retention.rows THEN cache' = NoCache /\ UNCHANGED primary
       ELSE /\ primary' = Without(K, primary)
            /\ cache' = IF primary' = primary THEN cache ELSE NoCache
    /\ UNCHANGED <<journal, permit, update, list, flush_scheduled, recheck>>

prune_character_versions ==
    retention_visits \/ \E K \in SUBSET Ids : filter_collection_streaming(K)
----------------------------------------------------------------------------
(* A listing of a cold collection (read_collection_no_recovery), under the    *)
(* shared lock from the cache miss to the fill: the file, then the journal.   *)
ListStep(l, from, to, rows) ==
    /\ list[l].pc = from
    /\ list' = [list EXCEPT ![l] = [pc |-> to, rows |-> rows]]

list_begin(l) ==
    /\ Reading /\ ~Cached
    /\ ListStep(l, "idle", "primary", EmptyRows)
    /\ UNCHANGED <<primary, journal, cache, permit, update, flush_scheduled, recheck>>

list_reads_primary(l) ==
    /\ ListStep(l, "primary", "journal", primary)
    /\ UNCHANGED <<primary, journal, cache, permit, update, flush_scheduled, recheck>>

Faulty_list(l) ==                   \* a listing of the file alone
    /\ ListStep(l, "journal", "fill", list[l].rows)
    /\ UNCHANGED <<primary, journal, cache, permit, update, flush_scheduled, recheck>>

list_applies_journal(l) ==
    /\ ListStep(l, "journal", "fill", Apply(journal, list[l].rows))
    /\ UNCHANGED <<primary, journal, cache, permit, update, flush_scheduled, recheck>>

list_fills_cache(l) ==
    /\ ListStep(l, "fill", "idle", EmptyRows)
    /\ cache' = Clean(list[l].rows)
    /\ UNCHANGED <<primary, journal, permit, update, flush_scheduled, recheck>>

list_rows(l) == list_begin(l) \/ list_reads_primary(l) \/ list_applies_journal(l)
                \/ list_fills_cache(l)
----------------------------------------------------------------------------
(* The process dies anywhere, startup included; files stay. *)
Crash ==
    /\ permit' = "down"
    /\ cache' = NoCache
    /\ update' = NoUpdate
    /\ list' = [l \in Listers |-> Idle]
    /\ flush_scheduled' = FALSE
    /\ recheck' = FALSE
    /\ UNCHANGED <<primary, journal>>

(* recover_collection_journals at startup: the same two steps. *)
Faulty_recover ==                   \* recovery writes the file's own rows
    /\ permit = "down"
    /\ permit' = "recovered"
    /\ UNCHANGED <<primary, journal, cache, update, list, flush_scheduled, recheck>>

recover_collection_journals ==
    /\ permit = "down"
    /\ primary' = Content
    /\ permit' = "recovered"
    /\ UNCHANGED <<journal, cache, update, list, flush_scheduled, recheck>>

remove_collection_journal ==
    /\ permit = "recovered"
    /\ journal' = NoJournal
    /\ permit' = "free"
    /\ UNCHANGED <<primary, cache, update, list, flush_scheduled, recheck>>

Write == \/ \E i \in Ids, v \in Values :
                \/ write_collection(i, v) \/ update_record_journaled(i, v)
                \/ create_immediate(i, v)
         \/ \E i \in Ids : write_collection(i, NoRow)
         \/ schedule_dirty_flush \/ create_immediate_end
         \/ \E rows \in kind.imports : replace_all_many(rows)

Update == \/ update_begin \/ update_flush \/ update_recovers_journal
          \/ update_removes_journal \/ update_load \/ update_ends
          \/ \E i \in Ids, v \in Values : update_install(i, v)

FlushThread == flush_deferred_writes \/ flush_thread_clears_flag \/ flush_thread_rechecks

Startup == recover_collection_journals \/ remove_collection_journal

Step == \/ Write \/ Update \/ FlushThread \/ flush_deferred_begin \/ flush_begin \/ flush
        \/ \E l \in kind.listers : list_rows(l)
        \/ evict_oldest_clean_cache_entry \/ Startup

Next == /\ UNCHANGED kind
        /\ \/ Step /\ UNCHANGED retention
           \/ prune_character_versions
           \/ Crash /\ retention' = NoVisit

Spec == Init /\ [][Next]_vars

(* The permit's holder and the flush thread go on; the quiet after foreground *)
(* activity and the age limit of the compaction policy let a flush through    *)
(* in the end.                                                               *)
Fairness ==
    /\ WF_state(schedule_dirty_flush) /\ WF_state(create_immediate_end)
    /\ WF_state(flush) /\ WF_state(FlushThread) /\ WF_state(Startup)
    /\ WF_state(update_flush) /\ WF_state(update_recovers_journal)
    /\ WF_state(update_removes_journal) /\ SF_state(update_load) /\ WF_state(update_ends)
    /\ \A l \in Listers : WF_state(list_rows(l) /\ ~list_begin(l))
    /\ SF_state(flush_deferred_begin)

FairSpec == Spec /\ Fairness
----------------------------------------------------------------------------
(* A cached collection, clean or dirty, is what file and journal say: no      *)
(* listing, update or flush leaves rows in the cache that hide an            *)
(* acknowledged write or would erase it at the next flush.                   *)
CacheCoherent == Cached /\ permit # "create" => cache.rows = Content

(* "Materialize those journals before an atomic rewrite so its prepared rows  *)
(* include every acknowledged mutation and the replacement retires the       *)
(* earlier journal" (lib.rs, update_collections_atomically).                 *)
PreparedRowsComplete ==
    permit = "update_run" => update.rows = Content /\ journal = NoJournal

(* The flag that keeps a second flush from being scheduled is never left set  *)
(* or clear wrongly: dirty rows always have a flush thread to come, whatever  *)
(* the order of its last statements and a writer's call.                     *)
DirtIsScheduled ==
    IsDirty /\ permit # "schedule" => flush_scheduled \/ recheck

(* A journal entry that no dirty cache covers exists only where record-local  *)
(* writes are made; every other journal is retired by the flush of its cache. *)
ColdJournalIsRecordLocal ==
    ~kind.record_local /\ ~IsDirty /\ journal # NoJournal
        => permit \in {"create", "down", "recovered"}

(* The steps in which the call of a client takes effect on one row.  A created *)
(* row the journal says is removed shows only once the journal has gone.      *)
Called(i, v) ==
    \/ write_collection(i, v) \/ update_record_journaled(i, v)
    \/ create_immediate(i, v) \/ update_install(i, v)
    \/ /\ create_immediate_end
       /\ Content[i] = NoRow

(* A pruning removes rows that are still what it selected them for. *)
Pruned(K) ==
    /\ filter_collection_streaming(K)
    /\ \A i \in K : Content[i] = retention.rows[i]
    /\ Content' = Without(K, Content)

(* No other step changes a row: flushes, recoveries, crashes and restarts at   *)
(* every point of them, listings and evictions neither lose an acknowledged   *)
(* write nor bring back an older row.                                         *)
RowsChangeByCallsOnly ==
    [][\/ Content' = Content
       \/ \E i \in Ids, v \in Values \cup {NoRow} :
             Called(i, v) /\ Content' = [Content EXCEPT ![i] = v]
       \/ \E K \in SUBSET Ids : Pruned(K)
       \/ \E rows \in kind.imports : replace_all_many(rows) /\ Content' = rows]_vars

(* Every acknowledged call takes effect, and on its own row only: what file    *)
(* and journal say of the row is the called value, whatever the cache held,   *)
(* whatever was flushed meanwhile, and, for an atomic update, whatever was    *)
(* acknowledged before its rows were loaded.                                 *)
CallsTakeEffect ==
    [][\A i \in Ids, v \in Values \cup {NoRow} :
          (\/ write_collection(i, v)
           \/ v \in Values /\ (update_record_journaled(i, v) \/ update_install(i, v)))
          => Content' = [Content EXCEPT ![i] = v]]_vars

(* A journal is compacted before an import installs rows, so that replaying   *)
(* it later does not change what was imported.                               *)
JournalCompactedBeforeImport ==
    [][\A rows \in kind.imports : replace_all_many(rows) => journal' = NoJournal]_vars

(* Dirty rows reach the file, unless record-local writes keep the collection  *)
(* out of the deferred flush.                                                *)
DirtyFlushed == IsDirty /\ ~kind.record_local ~> ~IsDirty
=============================================================================
