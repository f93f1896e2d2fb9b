----------------------- MODULE CollectionStore_proofs -----------------------
(* Proofs about CollectionStore, for all ids, values, listings and imports.  *)
EXTENDS CollectionStore, TLAPS

(* What a permit's holder relies on between two of its steps. *)
Holding ==
    /\ permit \in {"flush", "flushed", "update", "update_flushed", "shutdown", "shutdown_flushed"}
         => IsDirty
    /\ permit \in {"flushed", "update_flushed", "shutdown_flushed"} => primary = cache.rows
    /\ permit \in {"update_journal", "update_recovered", "update_load", "update_run",
                   "down", "recovered"} => ~IsDirty
    /\ permit \in {"down", "recovered"} => ~Cached
    /\ permit \in {"update_recovered", "recovered"} => primary = Content
    /\ permit \in {"update_load", "update_run"} => journal = NoJournal
    /\ permit \in {"update", "update_flushed", "update_journal", "update_recovered",
                   "update_load", "update_run"} => kind.atomic
    /\ permit = "update_recovered" => kind.record_local
    /\ permit = "create" => \E i \in Ids, v \in Values :
          primary = [Content EXCEPT ![i] = v] /\ Content[i] \in {NoRow, v}

(* A listing sees the content whichever of its steps comes next; nothing it   *)
(* could have read is ahead of it in a dirty cache.                          *)
Listing ==
    \A l \in Listers :
        /\ list[l].pc # "idle" => l \in kind.listers
        /\ list[l].pc # "idle" => ~IsDirty /\ permit \notin Locked \cup {"down", "recovered"}
        /\ list[l].pc = "journal" => Apply(journal, list[l].rows) = Content
        /\ list[l].pc = "fill" => list[l].rows = Content

IInv == /\ TypeOK /\ CacheCoherent /\ PreparedRowsComplete /\ ColdJournalIsRecordLocal
        /\ Holding /\ Listing

(* The three steps that pass over a journal: an atomic update removes one      *)
(* that a cold listing has yet to apply to the rows it read before, an import  *)
(* installs its rows under one, a pruning selects rows without one.           *)
MissesJournal ==
    \/ update_removes_journal
       /\ \E l \in Listers : list[l].pc = "journal" /\ list[l].rows # Content
    \/ journal' # NoJournal /\ \E rows \in kind.imports : replace_all_many(rows)
    \/ journal # NoJournal /\ \E K \in SUBSET Ids : filter_collection_streaming(K)

(* None of them is taken.  Nothing else can go wrong: every property below is  *)
(* proved from this, for every use of a collection (the runs stale_update and  *)
(* import_journal show what the first two do).                               *)
JournalsMinded == [][~MissesJournal]_vars

(* Uses in which none of them can be: record-local rows are not listed cold    *)
(* during atomic updates, not imported over and not pruned.                   *)
Apart(k) == /\ k.listers = {} \/ ~k.atomic \/ ~k.record_local
            /\ (k.imports = {} /\ ~k.pruned) \/ ~k.record_local
Separated == \A k \in Kinds : Apart(k)
-----------------------------------------------------------------------------
Journals == [Ids -> Values \cup {NoRow, Untouched}]

(* Applying a journal to rows gives rows. *)
LEMMA ApplyType ==
    ASSUME NEW j \in Journals, NEW rows \in Rows PROVE Apply(j, rows) \in Rows
BY DEF Journals, Rows, Apply

(* An empty journal changes nothing. *)
LEMMA ApplyNothing ==
    ASSUME NEW rows \in Rows PROVE Apply(NoJournal, rows) = rows
BY DEF Rows, Apply, NoJournal

(* Replaying a journal over rows that already have it changes nothing: the    *)
(* reason a crash between an install and the removal of the journal is safe.  *)
LEMMA ApplyIdempotent ==
    ASSUME NEW j \in Journals, NEW rows \in Rows
    PROVE  Apply(j, Apply(j, rows)) = Apply(j, rows)
BY DEF Journals, Rows, Apply

(* Appending the last word on an id and applying is applying and then writing. *)
LEMMA ApplyAppended ==
    ASSUME NEW j \in Journals, NEW rows \in Rows, NEW i \in Ids, NEW v \in Values \cup {NoRow}
    PROVE  /\ [j EXCEPT ![i] = v] \in Journals
           /\ Apply([j EXCEPT ![i] = v], rows) = [Apply(j, rows) EXCEPT ![i] = v]
<1>1. v # Untouched
  BY ConstantsAssumption
<1> QED BY <1>1 DEF Journals, Rows, Apply

(* The empty journal and the empty rows are of their types. *)
LEMMA JournalFacts == NoJournal \in Journals /\ EmptyRows \in Rows
BY DEF Journals, Rows, NoJournal, EmptyRows

(* So are the initial values of the process. *)
LEMMA StartValues ==
    /\ NoCache \in [state : {"absent", "clean", "dirty"}, rows : Rows]
    /\ NoUpdate \in [rows : Rows, stamp : Rows]
    /\ NoVisit \in [visited : BOOLEAN, rows : Rows]
    /\ [l \in Listers |-> Idle] \in [Listers -> [pc : {"idle", "primary", "journal", "fill"}, rows : Rows]]
BY JournalFacts DEF NoCache, NoUpdate, NoVisit, Idle

(* The types hold at first. *)
LEMMA InitType == Init => TypeOK
BY JournalFacts, StartValues DEF Init, TypeOK, Permit, Journals

(* Every step keeps the types. *)
LEMMA TypeStep == TypeOK /\ [Next]_vars => TypeOK'
<1> SUFFICES ASSUME TypeOK, [Next]_vars PROVE TypeOK'
  OBVIOUS
<1>1. Content \in Rows /\ CurrentRows \in Rows
  BY ApplyType DEF TypeOK, Content, CurrentRows, Journals
<1>2. \A l \in Listers : list[l].rows \in Rows /\ Apply(journal, list[l].rows) \in Rows
  BY ApplyType DEF TypeOK, Journals
<1>3. Imports \subseteq Rows
  BY ConstantsAssumption DEF Rows
<1>4. NoJournal \in [Ids -> Values \cup {NoRow, Untouched}] /\ EmptyRows \in Rows
  BY JournalFacts DEF Journals
<1>5. \A rows \in Rows, i \in Ids, v \in Values \cup {NoRow} : [rows EXCEPT ![i] = v] \in Rows
  BY DEF Rows
<1>5a. kind' \in Kinds /\ kind.imports \subseteq Imports /\ kind.listers \subseteq Listers
  BY ConstantsAssumption DEF TypeOK, Next, Kind, vars, state
<1>5b. retention' \in [visited : BOOLEAN, rows : Rows]
  <2>1. retention' \in {retention, NoVisit, [visited |-> TRUE, rows |-> primary]}
    BY DEF Next, prune_character_versions, retention_visits, filter_collection_streaming, vars
  <2>2. [visited |-> TRUE, rows |-> primary] \in [visited : BOOLEAN, rows : Rows]
    BY DEF TypeOK
  <2>3. retention \in [visited : BOOLEAN, rows : Rows]
    BY DEF TypeOK
  <2> QED BY <2>1, <2>2, <2>3, StartValues
<1> USE <1>5a, <1>5b DEF TypeOK, Permit, Locked, Clean, Dirty, NoCache, NoUpdate, Idle
<1>6. CASE UNCHANGED vars
  BY <1>6 DEF vars, state
<1>7. CASE Write
  <2>1. ASSUME NEW i \in Ids, NEW v \in Values \cup {NoRow}, write_collection(i, v) PROVE TypeOK'
    BY <1>1, <1>5, <2>1 DEF write_collection, append_collection_mutation
  <2>2. ASSUME NEW i \in Ids, NEW v \in Values, update_record_journaled(i, v) PROVE TypeOK'
    <3>1. [cache EXCEPT !.rows[i] = v] \in [state : {"absent", "clean", "dirty"}, rows : Rows]
      BY <1>5
    <3> QED BY <1>4, <2>2, <3>1 DEF update_record_journaled, append_collection_mutation
  <2>3. ASSUME NEW i \in Ids, NEW v \in Values, create_immediate(i, v) PROVE TypeOK'
    BY <1>1, <1>5, <2>3 DEF create_immediate
  <2>4. CASE schedule_dirty_flush
    BY <2>4 DEF schedule_dirty_flush
  <2>5. CASE create_immediate_end
    BY <1>4, <2>5 DEF create_immediate_end
  <2>6. ASSUME NEW rows \in kind.imports, replace_all_many(rows) PROVE TypeOK'
    BY <1>3, <1>4, <2>6 DEF replace_all_many
  <2> QED BY <1>7, <2>1, <2>2, <2>3, <2>4, <2>5, <2>6 DEF Write
<1>8. CASE Update
  <2>1. ASSUME NEW i \in Ids, NEW v \in Values, update_install(i, v) PROVE TypeOK'
    BY <1>4, <1>5, <2>1 DEF update_install
  <2>2. CASE update_begin \/ update_flush
    BY <1>4, <2>2 DEF update_begin, update_flush, FlushWrites, FlushEnds
  <2>3. CASE update_recovers_journal \/ update_removes_journal
    BY <1>1, <1>4, <2>3 DEF update_recovers_journal, update_removes_journal
  <2>4. CASE update_load \/ update_ends
    BY <1>1, <1>4, <2>4 DEF update_load, update_ends
  <2> QED BY <1>8, <2>1, <2>2, <2>3, <2>4 DEF Update
<1>9. CASE FlushThread \/ flush_deferred_begin \/ flush_begin \/ flush
  <2>1. CASE flush_deferred_begin \/ flush_begin
    BY <2>1 DEF flush_deferred_begin, flush_begin
  <2>2. CASE flush_deferred_writes \/ flush
    BY <1>4, <2>2 DEF flush, flush_deferred_writes, FlushWrites, FlushEnds
  <2>3. CASE flush_thread_clears_flag
    BY <2>3 DEF flush_thread_clears_flag
  <2>4. CASE flush_thread_rechecks
    <3>1. flush_scheduled' \in BOOLEAN
      BY <2>4 DEF flush_thread_rechecks
    <3> QED BY <2>4, <3>1 DEF flush_thread_rechecks
  <2> QED BY <1>9, <2>1, <2>2, <2>3, <2>4 DEF FlushThread
<1>10. ASSUME NEW l \in kind.listers, list_rows(l) PROVE TypeOK'
  BY <1>2, <1>4, <1>10 DEF list_rows, list_begin, list_reads_primary, list_applies_journal,
       list_fills_cache, ListStep
<1>11. CASE evict_oldest_clean_cache_entry
  BY StartValues, <1>11 DEF evict_oldest_clean_cache_entry
<1>13. CASE Crash
  <2>1. permit' \in Permit
    BY <1>13 DEF Crash
  <2> HIDE DEF NoCache, NoUpdate, Idle, Permit
  <2> QED BY StartValues, <1>13, <2>1 DEF Crash
<1>14. CASE retention_visits
  BY <1>14 DEF retention_visits, state
<1>15. ASSUME NEW K \in SUBSET Ids, filter_collection_streaming(K) PROVE TypeOK'
  <2>1. Without(K, primary) \in Rows
    BY DEF Without, Rows
  <2> HIDE DEF NoCache, Permit
  <2> QED BY StartValues, <1>15, <2>1 DEF filter_collection_streaming
<1>12. CASE Startup
  BY <1>1, <1>4, <1>12 DEF Startup, recover_collection_journals, remove_collection_journal
<1> QED BY <1>6, <1>7, <1>8, <1>9, <1>10, <1>11, <1>12, <1>13, <1>14,
         <1>15 DEF Next, Step, prune_character_versions

(* The store's files, cache and permit stay typed. *)
THEOREM TypeCorrect == Spec => []TypeOK
BY InitType, TypeStep, PTL DEF Spec
-----------------------------------------------------------------------------
Inner == CacheCoherent /\ PreparedRowsComplete /\ ColdJournalIsRecordLocal /\ Holding /\ Listing

(* An import that misses no journal leaves none.                             *)
LEMMA ImportsApart ==
    ASSUME TypeOK, ~MissesJournal, NEW rows \in kind.imports, replace_all_many(rows)
    PROVE  journal' = NoJournal /\ rows \in Rows
BY ConstantsAssumption DEF MissesJournal, TypeOK, Kind

(* The facts about Apply every step needs, with the typed values it has.     *)
LEMMA Merging ==
    ASSUME TypeOK
    PROVE  /\ primary \in Rows /\ cache.rows \in Rows /\ update.rows \in Rows
           /\ \A rows \in Rows : Apply(NoJournal, rows) = rows
           /\ \A rows \in Rows : Apply(journal, Apply(journal, rows)) = Apply(journal, rows)
           /\ \A l \in Listers : list[l].rows \in Rows
           /\ Content \in Rows /\ CurrentRows \in Rows
<1>1. journal \in Journals /\ primary \in Rows /\ cache.rows \in Rows
  BY DEF TypeOK, Journals
<1>2. Content \in Rows /\ CurrentRows \in Rows
  BY <1>1, ApplyType DEF Content, CurrentRows
<1>3. \A rows \in Rows : Apply(journal, Apply(journal, rows)) = Apply(journal, rows)
  BY <1>1, ApplyIdempotent
<1>4. \A rows \in Rows : Apply(NoJournal, rows) = rows
  BY ApplyNothing
<1>5. update.rows \in Rows /\ \A l \in Listers : list[l].rows \in Rows
  BY DEF TypeOK
<1> QED BY <1>1, <1>2, <1>3, <1>4, <1>5

(* Outside the two windows of create_immediate and of startup, what the        *)
(* exclusive lock's holder reads is the content.                             *)
LEMMA CurrentIsContent ==
    ASSUME CacheCoherent, permit # "create" PROVE CurrentRows = Content
BY DEF CacheCoherent, CurrentRows

(* A journal entry for one id, in terms of the content.                      *)
LEMMA ContentAppended ==
    ASSUME TypeOK, NEW i \in Ids, NEW v \in Values \cup {NoRow},
           append_collection_mutation(i, v), UNCHANGED primary
    PROVE  Content' = [Content EXCEPT ![i] = v]
<1>1. journal \in Journals /\ primary \in Rows
  BY DEF TypeOK, Journals
<1>2. Apply([journal EXCEPT ![i] = v], primary) = [Apply(journal, primary) EXCEPT ![i] = v]
  BY <1>1, ApplyAppended
<1> QED BY <1>2 DEF append_collection_mutation, Content

(* The record of create_immediate is in the content at once, or, when a        *)
(* deletion of its id is still journaled, as soon as the journal goes.        *)
LEMMA CreateSplit ==
    ASSUME TypeOK, CurrentRows = Content, NEW i \in Ids, NEW v \in Values, create_immediate(i, v)
    PROVE  /\ Content' = Content \/ Content' = [Content EXCEPT ![i] = v]
           /\ primary' = [Content' EXCEPT ![i] = v] /\ Content'[i] \in {NoRow, v}
<1>1. Content \in Rows
  BY Merging
<1>2. journal' = journal /\ primary' = [Content EXCEPT ![i] = v] /\ Content[i] = NoRow
  BY DEF create_immediate
<1>3. \A k \in Ids : Content[k] = IF journal[k] = Untouched THEN primary[k] ELSE journal[k]
  BY DEF Content, Apply
<1>4. Content' = [k \in Ids |-> IF journal[k] = Untouched THEN primary'[k] ELSE journal[k]]
  BY <1>2 DEF Content, Apply
<1>5. CASE journal[i] = Untouched
  <2>1. Content' = [Content EXCEPT ![i] = v]
    BY <1>1, <1>2, <1>3, <1>4, <1>5 DEF Rows
  <2> QED BY <1>1, <1>2, <2>1 DEF Rows
<1>6. CASE journal[i] # Untouched
  <2>1. Content' = Content
    BY <1>1, <1>2, <1>3, <1>4, <1>6 DEF Rows
  <2> QED BY <1>2, <2>1
<1> QED BY <1>5, <1>6

(* Calls that write under the lock keep the invariant. *)
LEMMA WriteStep ==
    ASSUME IInv, TypeOK', Write, UNCHANGED kind, ~MissesJournal PROVE Inner'
<1>1. TypeOK /\ Inner
  BY DEF IInv, Inner
<1>2. /\ \A rows \in Rows : Apply(NoJournal, rows) = rows
      /\ Content \in Rows /\ CurrentRows \in Rows
  BY <1>1, Merging
<1>3. MayWrite => CurrentRows = Content
  BY <1>1, CurrentIsContent DEF MayWrite, Inner
<1> USE DEF Inner, CacheCoherent, PreparedRowsComplete, ColdJournalIsRecordLocal, Holding, Listing,
        Locked, IsDirty, Cached, MayWrite, LockFree, Clean, Dirty, NoCache
<1>4. ASSUME NEW i \in Ids, NEW v \in Values \cup {NoRow}, write_collection(i, v) PROVE Inner'
  <2>1. Content' = [Content EXCEPT ![i] = v]
    BY <1>1, <1>4, ContentAppended DEF write_collection
  <2> QED BY <1>1, <1>3, <1>4, <2>1 DEF write_collection
<1>5. ASSUME NEW i \in Ids, NEW v \in Values, update_record_journaled(i, v) PROVE Inner'
  <2>1. Content' = [Content EXCEPT ![i] = v]
    BY <1>1, <1>5, ContentAppended DEF update_record_journaled
  <2>2. CASE IsDirty
    <3>1. cache'.rows = [cache.rows EXCEPT ![i] = v] /\ cache'.state = "dirty"
      BY <1>1, <1>5, <2>2 DEF update_record_journaled, TypeOK
    <3>2. cache.rows = Content
      BY <1>1, <1>5, <2>2 DEF update_record_journaled
    <3> QED BY <1>1, <1>5, <2>1, <2>2, <3>1, <3>2 DEF update_record_journaled
  <2>3. CASE ~IsDirty
    BY <1>1, <1>5, <2>3 DEF update_record_journaled
  <2> QED BY <2>2, <2>3
<1>6. ASSUME NEW i \in Ids, NEW v \in Values, create_immediate(i, v) PROVE Inner'
  <2>1. primary' = [Content' EXCEPT ![i] = v] /\ Content'[i] \in {NoRow, v}
    BY <1>1, <1>3, <1>6, CreateSplit DEF create_immediate
  <2> QED BY <1>1, <1>6, <2>1 DEF create_immediate
<1>7. CASE schedule_dirty_flush
  <2>1. Content' = Content
    BY <1>7 DEF schedule_dirty_flush, Content
  <2> QED BY <1>1, <1>7, <2>1 DEF schedule_dirty_flush
<1>8. CASE create_immediate_end
  <2>1. Content' = primary
    BY <1>1, <1>2, <1>8 DEF create_immediate_end, Content, TypeOK
  <2> QED BY <1>1, <1>8, <2>1 DEF create_immediate_end
<1>9. ASSUME NEW rows \in kind.imports, replace_all_many(rows) PROVE Inner'
  <2>1. journal' = NoJournal /\ rows \in Rows
    BY <1>1, <1>9, ImportsApart
  <2>3. Content' = rows
    BY <1>2, <1>9, <2>1 DEF replace_all_many, Content
  <2> QED BY <1>1, <1>9, <2>1, <2>3 DEF replace_all_many
<1> QED BY <1>4, <1>5, <1>6, <1>7, <1>8, <1>9 DEF Write

(* The two halves of a flush, whoever runs it.                               *)
LEMMA FlushStep ==
    ASSUME IInv, TypeOK',
           \/ FlushWrites("update", "update_flushed")
           \/ FlushEnds("update_flushed", "update_journal")
           \/ FlushWrites("flush", "flushed") \/ FlushEnds("flushed", "free")
           \/ FlushWrites("shutdown", "shutdown_flushed")
           \/ FlushEnds("shutdown_flushed", "free"),
           UNCHANGED kind
    PROVE  Inner'
<1>1. TypeOK /\ Inner
  BY DEF IInv, Inner
<1>2. /\ \A rows \in Rows : Apply(NoJournal, rows) = rows
      /\ primary \in Rows /\ cache.rows \in Rows
      /\ \A rows \in Rows : Apply(journal, Apply(journal, rows)) = Apply(journal, rows)
  BY <1>1, Merging
<1> USE DEF Inner, CacheCoherent, PreparedRowsComplete, ColdJournalIsRecordLocal, Holding, Listing,
        Locked, IsDirty, Cached
<1>3. ASSUME NEW from, NEW to, FlushWrites(from, to), from \in {"update", "flush", "shutdown"}
      PROVE  Content' = Content
  BY <1>1, <1>2, <1>3 DEF FlushWrites, Content
<1>4. ASSUME NEW from, NEW to, FlushEnds(from, to),
             from \in {"update_flushed", "flushed", "shutdown_flushed"}
      PROVE  Content' = cache.rows /\ \A l \in Listers : list[l].pc = "idle"
  BY <1>1, <1>2, <1>4 DEF FlushEnds, Content
<1>5. CASE FlushWrites("update", "update_flushed")
  BY <1>1, <1>3, <1>5 DEF FlushWrites
<1>6. CASE FlushWrites("flush", "flushed")
  BY <1>1, <1>3, <1>6 DEF FlushWrites
<1>7. CASE FlushWrites("shutdown", "shutdown_flushed")
  BY <1>1, <1>3, <1>7 DEF FlushWrites
<1>8. CASE FlushEnds("update_flushed", "update_journal")
  BY <1>1, <1>4, <1>8 DEF FlushEnds, Clean
<1>9. CASE FlushEnds("flushed", "free")
  BY <1>1, <1>4, <1>9 DEF FlushEnds, Clean
<1>10. CASE FlushEnds("shutdown_flushed", "free")
  BY <1>1, <1>4, <1>10 DEF FlushEnds, Clean
<1> QED BY <1>5, <1>6, <1>7, <1>8, <1>9, <1>10

(* An atomic update keeps it, at each of its steps. *)
LEMMA UpdateStep ==
    ASSUME IInv, TypeOK', Update, UNCHANGED kind, ~MissesJournal PROVE Inner'
<1>1. TypeOK /\ Inner
  BY DEF IInv, Inner
<1>2. /\ \A rows \in Rows : Apply(NoJournal, rows) = rows
      /\ primary \in Rows /\ cache.rows \in Rows /\ Content \in Rows
      /\ \A rows \in Rows : Apply(journal, Apply(journal, rows)) = Apply(journal, rows)
  BY <1>1, Merging
<1> USE DEF Inner, CacheCoherent, PreparedRowsComplete, ColdJournalIsRecordLocal, Holding, Listing,
        Locked, IsDirty, Cached, LockFree, Clean
<1>3. CASE update_begin
  <2>1. Content' = Content
    BY <1>3 DEF update_begin, Content
  <2> QED BY <1>1, <1>3, <2>1 DEF update_begin
<1>4. CASE update_flush
  BY <1>1, <1>4, FlushStep DEF update_flush
<1>5. CASE update_recovers_journal
  <2>1. Content' = Content /\ primary' = Content
    BY <1>2, <1>5 DEF update_recovers_journal, Content
  <2>2. permit' = "update_recovered" => kind.record_local
    BY <1>1, <1>5 DEF update_recovers_journal
  <2>3. \A l \in Listers : list[l].pc = "journal" => Apply(journal, list[l].rows) = Content'
    BY <1>1, <2>1
  <2> QED BY <1>1, <1>5, <2>1, <2>2, <2>3 DEF update_recovers_journal
<1>6. CASE update_removes_journal
  <2>1. Content' = Content
    BY <1>1, <1>2, <1>6 DEF update_removes_journal, Content
  <2>2. \A l \in Listers : list[l].pc = "journal" => list[l].rows = Content
    BY <1>6 DEF MissesJournal
  <2>3. \A l \in Listers : list[l].rows \in Rows
    BY <1>1, Merging
  <2>4. \A l \in Listers : list[l].pc = "journal" => Apply(journal', list[l].rows) = Content'
    BY <1>2, <1>6, <2>1, <2>2, <2>3 DEF update_removes_journal
  <2> QED BY <1>1, <1>6, <2>1, <2>4 DEF update_removes_journal
<1>7. CASE update_load
  <2>1. Content' = Content /\ CurrentRows = Content
    BY <1>1, <1>7, CurrentIsContent DEF update_load, Content
  <2> QED BY <1>1, <1>7, <2>1 DEF update_load
<1>8. ASSUME NEW i \in Ids, NEW v \in Values, update_install(i, v) PROVE Inner'
  <2>1. primary' \in Rows /\ journal' = NoJournal
    BY <1>1, <1>8 DEF update_install, TypeOK
  <2>2. Content' = primary'
    BY <1>2, <2>1 DEF Content
  <2> QED BY <1>1, <1>8, <2>1, <2>2 DEF update_install
<1>9. CASE update_ends
  <2>1. Content' = Content
    BY <1>9 DEF update_ends, Content
  <2> QED BY <1>1, <1>9, <2>1 DEF update_ends
<1> QED BY <1>3, <1>4, <1>5, <1>6, <1>7, <1>8, <1>9 DEF Update

(* So do the flag, eviction, a crash and the recovery after it. *)
LEMMA OtherStep ==
    ASSUME IInv, TypeOK',
           \/ FlushThread \/ flush_deferred_begin \/ flush_begin \/ flush
           \/ evict_oldest_clean_cache_entry \/ Crash \/ Startup \/ UNCHANGED vars,
           UNCHANGED kind
    PROVE  Inner'
<1>1. TypeOK /\ Inner
  BY DEF IInv, Inner
<1>2. /\ \A rows \in Rows : Apply(NoJournal, rows) = rows
      /\ primary \in Rows /\ Content \in Rows
      /\ \A rows \in Rows : Apply(journal, Apply(journal, rows)) = Apply(journal, rows)
  BY <1>1, Merging
<1> USE DEF Inner, CacheCoherent, PreparedRowsComplete, ColdJournalIsRecordLocal, Holding, Listing,
        Locked, IsDirty, Cached, MayWrite, LockFree, NoCache, Reading
<1>3. CASE flush_deferred_writes \/ flush
  BY <1>1, <1>3, FlushStep DEF flush_deferred_writes, flush
<1>4. ASSUME UNCHANGED <<primary, journal>> PROVE Content' = Content
  BY <1>4 DEF Content
<1>5. CASE flush_deferred_begin \/ flush_begin
  BY <1>1, <1>4, <1>5 DEF flush_deferred_begin, flush_begin
<1>6. CASE flush_thread_clears_flag \/ flush_thread_rechecks
  BY <1>1, <1>4, <1>6 DEF flush_thread_clears_flag, flush_thread_rechecks
<1>7. CASE evict_oldest_clean_cache_entry
  BY <1>1, <1>4, <1>7 DEF evict_oldest_clean_cache_entry
<1>8. CASE Crash
  BY <1>1, <1>4, <1>8 DEF Crash, Idle
<1>9. CASE recover_collection_journals
  <2>1. Content' = Content /\ primary' = Content
    BY <1>2, <1>9 DEF recover_collection_journals, Content
  <2> QED BY <1>1, <1>9, <2>1 DEF recover_collection_journals
<1>10. CASE remove_collection_journal
  <2>1. Content' = Content
    BY <1>1, <1>2, <1>10 DEF remove_collection_journal, Content
  <2> QED BY <1>1, <1>10, <2>1 DEF remove_collection_journal
<1>11. CASE UNCHANGED vars
  BY <1>1, <1>4, <1>11 DEF vars, state
<1> QED BY <1>3, <1>5, <1>6, <1>7, <1>8, <1>9, <1>10, <1>11 DEF FlushThread, Startup

(* So does each step of a listing. *)
LEMMA ListStepInner ==
    ASSUME IInv, TypeOK', NEW l \in kind.listers, list_rows(l), UNCHANGED kind PROVE Inner'
<1>1. TypeOK /\ Inner
  BY DEF IInv, Inner
<1>2. /\ UNCHANGED <<primary, journal, permit, update>> /\ Content' = Content
      /\ list' = [list EXCEPT ![l] = list'[l]]
  BY <1>1 DEF list_rows, list_begin, list_reads_primary, list_applies_journal, list_fills_cache,
       ListStep, Content, TypeOK
<1> USE DEF Inner, CacheCoherent, PreparedRowsComplete, ColdJournalIsRecordLocal, Holding, Listing,
        Locked, IsDirty, Cached, Reading, ListStep, TypeOK
<1>3. CASE list_begin(l)
  BY <1>1, <1>2, <1>3 DEF list_begin
<1>4. CASE list_reads_primary(l)
  BY <1>1, <1>2, <1>4 DEF list_reads_primary, Content
<1>5. CASE list_applies_journal(l)
  BY <1>1, <1>2, <1>5 DEF list_applies_journal
<1>6. CASE list_fills_cache(l)
  BY <1>1, <1>2, <1>6 DEF list_fills_cache, Clean
<1> QED BY <1>3, <1>4, <1>5, <1>6 DEF list_rows

(* And a pruning, which finds no journal. *)
LEMMA PruneStep ==
    ASSUME IInv, TypeOK', prune_character_versions, UNCHANGED kind, ~MissesJournal PROVE Inner'
<1>1. TypeOK /\ Inner
  BY DEF IInv, Inner
<1> USE DEF Inner, CacheCoherent, PreparedRowsComplete, ColdJournalIsRecordLocal, Holding, Listing,
        IsDirty, Cached
<1>2. CASE retention_visits
  BY <1>1, <1>2 DEF retention_visits, state, Content
<1>3. ASSUME NEW K \in SUBSET Ids, filter_collection_streaming(K) PROVE Inner'
  <2>1. journal = NoJournal
    BY <1>3 DEF MissesJournal
  <2>2. cache' = NoCache \/ (cache' = cache /\ Content' = Content)
    BY <1>3 DEF filter_collection_streaming, Content
  <2>3. permit = "free" /\ permit' = permit /\ journal' = journal /\ update' = update
        /\ list' = list /\ \A l \in Listers : list[l].pc = "idle"
    BY <1>3 DEF filter_collection_streaming, MayWrite, LockFree
  <2> QED BY <1>1, <2>1, <2>2, <2>3 DEF NoCache
<1> QED BY <1>2, <1>3 DEF prune_character_versions

(* The invariant is inductive along steps that miss no journal. *)
LEMMA Inductive == IInv /\ [Next]_vars /\ [~MissesJournal]_vars => IInv'
<1> SUFFICES ASSUME IInv, [Next]_vars, [~MissesJournal]_vars PROVE IInv'
  OBVIOUS
<1>1. TypeOK'
  BY TypeStep DEF IInv
<1>2. Inner'
  <2>1. CASE UNCHANGED vars
    BY <1>1, <2>1, OtherStep DEF vars
  <2>2. CASE Next /\ ~MissesJournal
    BY <1>1, <2>2, WriteStep, UpdateStep, OtherStep, ListStepInner, PruneStep DEF Next, Step
  <2> QED BY <2>1, <2>2
<1> QED BY <1>1, <1>2 DEF IInv, Inner

(* It holds at first. *)
LEMMA InitInv == Init => IInv
<1> SUFFICES ASSUME Init PROVE IInv
  OBVIOUS
<1>1. TypeOK
  BY InitType
<1> QED BY <1>1 DEF Init, IInv, CacheCoherent, PreparedRowsComplete, ColdJournalIsRecordLocal,
      Holding, Listing, NoCache, Cached, IsDirty, Idle, Locked

(* It holds in every state of such a behaviour. *)
LEMMA Invariance == Spec /\ JournalsMinded => []IInv
BY InitInv, Inductive, PTL DEF Spec, JournalsMinded

(* The cache never hides an acknowledged write.                              *)
THEOREM CacheIsCoherent == Spec /\ JournalsMinded => []CacheCoherent
BY Invariance, PTL DEF IInv

(* What an atomic update rewrites includes every acknowledged write.         *)
THEOREM PreparedRowsAreComplete == Spec /\ JournalsMinded => []PreparedRowsComplete
BY Invariance, PTL DEF IInv

(* Where the uses of a collection are kept apart, no step misses a journal.    *)
LEMMA ApartMinds == IInv /\ Apart(kind) /\ [Next]_vars => [~MissesJournal]_vars
<1> SUFFICES ASSUME IInv, Apart(kind), Next PROVE ~MissesJournal
  OBVIOUS
<1>1. TypeOK /\ ColdJournalIsRecordLocal /\ Holding /\ Listing
  BY DEF IInv
<1> USE DEF Apart
<1>2. ASSUME update_removes_journal, NEW l \in Listers PROVE list[l].pc # "journal"
  <2>1. kind.listers = {}
    BY <1>1, <1>2 DEF update_removes_journal, Holding
  <2> QED BY <1>1, <2>1 DEF Listing
<1>3. ASSUME NEW rows \in kind.imports, replace_all_many(rows) PROVE journal' = NoJournal
  BY <1>1, <1>3 DEF replace_all_many, MayWrite, ColdJournalIsRecordLocal
<1>4. ASSUME NEW K \in SUBSET Ids, filter_collection_streaming(K) PROVE journal = NoJournal
  BY <1>1, <1>4 DEF filter_collection_streaming, MayWrite, ColdJournalIsRecordLocal
<1> QED BY <1>2, <1>3, <1>4 DEF MissesJournal

(* So all that is proved from JournalsMinded holds of such uses without it.    *)
THEOREM SeparatedUsesMindJournals == ASSUME Separated PROVE Spec => JournalsMinded
<1>1. IInv => Apart(kind)
  BY DEF IInv, TypeOK, Separated
<1> QED BY <1>1, ApartMinds, InitInv, Inductive, PTL DEF Spec, JournalsMinded

(* Only record-local writes leave a journal without a dirty cache, whatever    *)
(* steps are taken: without such writes every use is apart.                   *)
THEOREM ColdJournals == Spec => []ColdJournalIsRecordLocal
<1> DEFINE Cold == kind.record_local \/ IInv
<1>1. Cold /\ [Next]_vars => Cold'
  <2> SUFFICES ASSUME ~kind.record_local, IInv, [Next]_vars PROVE IInv'
    BY DEF Next, vars
  <2>1. Apart(kind)
    BY DEF Apart
  <2> QED BY <2>1, ApartMinds, Inductive
<1>2. Cold => ColdJournalIsRecordLocal
  BY DEF IInv, ColdJournalIsRecordLocal
<1>3. Init => Cold
  BY InitInv
<1> QED BY <1>1, <1>2, <1>3, PTL DEF Spec

(* Dirty rows are never left without a flush to come; this needs neither      *)
(* typing nor the separation.                                                *)
THEOREM DirtScheduled == Spec => []DirtIsScheduled
<1>1. Init => DirtIsScheduled
  BY DEF Init, DirtIsScheduled, IsDirty, NoCache
<1>2. DirtIsScheduled /\ [Next]_vars => DirtIsScheduled'
  <2> SUFFICES ASSUME DirtIsScheduled, [Next]_vars PROVE DirtIsScheduled'
    OBVIOUS
  <2> USE DEF DirtIsScheduled, IsDirty, Clean, Dirty, NoCache
  <2>1. CASE Write
    BY <2>1 DEF Write, write_collection, update_record_journaled, create_immediate,
         schedule_dirty_flush, create_immediate_end, replace_all_many, MayWrite
  <2>2. CASE Update
    BY <2>2 DEF Update, update_begin, update_flush, update_recovers_journal, update_removes_journal,
         update_load, update_install, update_ends, FlushWrites, FlushEnds, Cached
  <2>3. CASE FlushThread \/ flush_deferred_begin \/ flush_begin \/ flush
    <3>1. CASE flush_deferred_begin \/ flush_begin
      BY <3>1 DEF flush_deferred_begin, flush_begin, MayWrite
    <3>2. CASE flush_deferred_writes \/ flush
      BY <3>2 DEF flush_deferred_writes, flush, FlushWrites, FlushEnds
    <3>3. CASE flush_thread_clears_flag
      BY <3>3 DEF flush_thread_clears_flag
    <3>4. CASE flush_thread_rechecks
      <4>1. cache' = cache /\ permit' = permit /\ (flush_scheduled' = (flush_scheduled \/ IsDirty))
        BY <3>4 DEF flush_thread_rechecks
      <4>2. IsDirty' => flush_scheduled'
        BY <4>1, Zenon
      <4> QED BY <4>2
    <3> QED BY <2>3, <3>1, <3>2, <3>3, <3>4 DEF FlushThread
  <2>4. ASSUME NEW l \in kind.listers, list_rows(l) PROVE DirtIsScheduled'
    BY <2>4 DEF list_rows, list_begin, list_reads_primary, list_applies_journal, list_fills_cache
  <2>5. CASE evict_oldest_clean_cache_entry \/ Crash \/ Startup
    BY <2>5 DEF evict_oldest_clean_cache_entry, Crash, Startup, recover_collection_journals,
         remove_collection_journal
  <2>7. CASE prune_character_versions
    BY <2>7 DEF prune_character_versions, retention_visits, filter_collection_streaming, state
  <2>6. CASE UNCHANGED vars
    BY <2>6 DEF vars, state
  <2> QED BY <2>1, <2>2, <2>3, <2>4, <2>5, <2>6, <2>7 DEF Next, Step
<1> QED BY <1>1, <1>2, PTL DEF Spec
-----------------------------------------------------------------------------
(* A flush moves rows between the files and changes nothing a reader sees.    *)
LEMMA FlushKeeps ==
    ASSUME TypeOK, Inner,
           \/ FlushWrites("update", "update_flushed")
           \/ FlushEnds("update_flushed", "update_journal")
           \/ FlushWrites("flush", "flushed") \/ FlushEnds("flushed", "free")
           \/ FlushWrites("shutdown", "shutdown_flushed")
           \/ FlushEnds("shutdown_flushed", "free")
    PROVE  Content' = Content
<1>1. /\ \A rows \in Rows : Apply(NoJournal, rows) = rows
      /\ primary \in Rows /\ cache.rows \in Rows
      /\ \A rows \in Rows : Apply(journal, Apply(journal, rows)) = Apply(journal, rows)
  BY Merging
<1> USE DEF Inner, CacheCoherent, Holding, Cached, IsDirty
<1>2. ASSUME NEW from, NEW to, FlushWrites(from, to), from # "create" PROVE Content' = Content
  BY <1>1, <1>2 DEF FlushWrites, Content
<1>3. ASSUME NEW from, NEW to, FlushEnds(from, to),
             from \in {"update_flushed", "flushed", "shutdown_flushed"}
      PROVE  Content' = Content
  <2>1. cache.rows = Content /\ primary = cache.rows /\ primary' = primary /\ journal' = NoJournal
    BY <1>3 DEF FlushEnds
  <2>2. Content' = primary
    BY <1>1, <2>1 DEF Content
  <2> QED BY <2>1, <2>2
<1> QED BY <1>2, <1>3

(* What a step does to the content: a call changes one row, a pruning removes  *)
(* what it selected, an import changes all, and nothing else changes any.     *)
RowsChange ==
    \/ Content' = Content
    \/ \E i \in Ids, v \in Values \cup {NoRow} :
          Called(i, v) /\ Content' = [Content EXCEPT ![i] = v]
    \/ \E K \in SUBSET Ids : Pruned(K)
    \/ \E rows \in kind.imports : replace_all_many(rows) /\ Content' = rows

(* Every step is one of these. *)
LEMMA ContentStep == IInv /\ [Next]_vars /\ [~MissesJournal]_vars => RowsChange
<1> SUFFICES ASSUME IInv, Next, ~MissesJournal PROVE RowsChange
  BY DEF RowsChange, vars, state, Content
<1>1. TypeOK /\ Inner
  BY DEF IInv, Inner
<1>2. /\ \A rows \in Rows : Apply(NoJournal, rows) = rows
      /\ primary \in Rows /\ cache.rows \in Rows /\ Content \in Rows /\ CurrentRows \in Rows
      /\ \A rows \in Rows : Apply(journal, Apply(journal, rows)) = Apply(journal, rows)
  BY <1>1, Merging
<1>3. MayWrite => CurrentRows = Content
  BY <1>1, CurrentIsContent DEF MayWrite, Inner
<1>4. ASSUME UNCHANGED <<primary, journal>> PROVE Content' = Content
  BY <1>4 DEF Content
<1> USE DEF Inner, CacheCoherent, PreparedRowsComplete, ColdJournalIsRecordLocal, Holding, IsDirty, Cached
<1>5. ASSUME NEW i \in Ids, NEW v \in Values \cup {NoRow}, Called(i, v),
             Content' = [Content EXCEPT ![i] = v]
      PROVE  RowsChange
  BY <1>5 DEF RowsChange
<1>12. Content' = Content => RowsChange
  BY DEF RowsChange
<1>6. CASE Write
  <2>1. ASSUME NEW i \in Ids, NEW v \in Values \cup {NoRow},
               write_collection(i, v) \/ update_record_journaled(i, v)
        PROVE  RowsChange
    <3>1. append_collection_mutation(i, v) /\ UNCHANGED primary
      BY <2>1 DEF write_collection, update_record_journaled
    <3>2. Content' = [Content EXCEPT ![i] = v]
      BY <1>1, <3>1, ContentAppended
    <3> QED BY <1>5, <2>1, <3>2 DEF Called
  <2>2. ASSUME NEW i \in Ids, NEW v \in Values, create_immediate(i, v)
        PROVE  RowsChange
    <3>1. Content' = Content \/ Content' = [Content EXCEPT ![i] = v]
      BY <1>1, <1>3, <2>2, CreateSplit DEF create_immediate
    <3>2. Called(i, v)
      BY <2>2 DEF Called
    <3> QED BY <1>5, <1>12, <3>1, <3>2
  <2>3. CASE schedule_dirty_flush
    BY <1>4, <1>12, <2>3 DEF schedule_dirty_flush
  <2>4. CASE create_immediate_end
    <3>1. Content' = primary
      BY <1>2, <2>4 DEF create_immediate_end, Content
    <3>2. PICK i \in Ids, v \in Values :
             primary = [Content EXCEPT ![i] = v] /\ Content[i] \in {NoRow, v}
      BY <1>1, <2>4 DEF create_immediate_end
    <3>3. CASE Content[i] = NoRow
      BY <1>5, <2>4, <3>1, <3>2, <3>3 DEF Called
    <3>4. CASE Content[i] = v
      BY <1>2, <1>12, <3>1, <3>2, <3>4 DEF Rows
    <3> QED BY <3>2, <3>3, <3>4
  <2>5. ASSUME NEW rows \in kind.imports, replace_all_many(rows) PROVE RowsChange
    <3>1. journal' = NoJournal /\ rows \in Rows
      BY <1>1, <2>5, ImportsApart
    <3>2. primary' = rows
      BY <2>5 DEF replace_all_many
    <3>3. Content' = rows
      BY <1>2, <3>1, <3>2 DEF Content
    <3> QED BY <2>5, <3>3 DEF RowsChange
  <2> QED BY <1>6, <2>1, <2>2, <2>3, <2>4, <2>5 DEF Write
<1>7. CASE Update
  <2>1. ASSUME NEW i \in Ids, NEW v \in Values, update_install(i, v) PROVE RowsChange
    <3>1. primary' = [Content EXCEPT ![i] = v] /\ journal' = NoJournal
      BY <1>1, <2>1 DEF update_install
    <3>2. primary' \in Rows
      BY <1>2, <3>1 DEF Rows
    <3>3. Content' = [Content EXCEPT ![i] = v]
      BY <1>2, <3>1, <3>2 DEF Content
    <3> QED BY <1>5, <2>1, <3>3 DEF Called
  <2>2. CASE update_flush
    BY <1>1, <1>12, <2>2, FlushKeeps DEF update_flush
  <2>3. CASE update_recovers_journal
    BY <1>2, <1>12, <2>3 DEF update_recovers_journal, Content
  <2>4. CASE update_removes_journal
    BY <1>1, <1>2, <1>12, <2>4 DEF update_removes_journal, Content
  <2>5. CASE update_begin \/ update_load \/ update_ends
    BY <1>4, <1>12, <2>5 DEF update_begin, update_load, update_ends
  <2> QED BY <1>7, <2>1, <2>2, <2>3, <2>4, <2>5 DEF Update
<1>8. CASE flush_deferred_writes \/ flush
  BY <1>1, <1>12, <1>8, FlushKeeps DEF flush_deferred_writes, flush
<1>9. CASE flush_deferred_begin \/ flush_begin \/ flush_thread_clears_flag \/ flush_thread_rechecks
           \/ evict_oldest_clean_cache_entry \/ Crash
  BY <1>4, <1>12, <1>9 DEF flush_deferred_begin, flush_begin, flush_thread_clears_flag,
       flush_thread_rechecks, evict_oldest_clean_cache_entry, Crash
<1>10. ASSUME NEW l \in kind.listers, list_rows(l) PROVE Content' = Content
  BY <1>4, <1>10 DEF list_rows, list_begin, list_reads_primary, list_applies_journal, list_fills_cache
<1>11. CASE Startup
  <2>1. CASE recover_collection_journals
    BY <1>2, <1>12, <2>1 DEF recover_collection_journals, Content
  <2>2. CASE remove_collection_journal
    BY <1>1, <1>2, <1>12, <2>2 DEF remove_collection_journal, Content
  <2> QED BY <1>11, <2>1, <2>2 DEF Startup
<1>13. CASE prune_character_versions
  <2>1. CASE retention_visits
    BY <1>4, <1>12, <2>1 DEF retention_visits, state
  <2>2. ASSUME NEW K \in SUBSET Ids, filter_collection_streaming(K) PROVE RowsChange
    <3>1. journal = NoJournal /\ journal' = NoJournal
      BY <2>2 DEF MissesJournal, filter_collection_streaming
    <3>2. Content = primary
      BY <1>2, <3>1 DEF Content
    <3>3. CASE primary # retention.rows
      BY <1>4, <1>12, <2>2, <3>3 DEF filter_collection_streaming
    <3>4. CASE primary = retention.rows
      <4>1. primary' = Without(K, primary)
        BY <2>2, <3>4 DEF filter_collection_streaming
      <4>2. primary' \in Rows
        BY <1>2, <4>1 DEF Without, Rows
      <4>3. Content' = Without(K, Content)
        BY <1>2, <3>1, <3>2, <4>1, <4>2 DEF Content
      <4> QED BY <2>2, <3>2, <3>4, <4>3 DEF RowsChange, Pruned
    <3> QED BY <3>3, <3>4
  <2> QED BY <1>13, <2>1, <2>2 DEF prune_character_versions
<1> QED BY <1>12, <1>6, <1>7, <1>8, <1>9, <1>10, <1>11, <1>13 DEF Next, Step, FlushThread

(* An acknowledged row changes by a call of its own, an import or a pruning    *)
(* that has seen it, only.                                                   *)
THEOREM OnlyCallsChangeRows == Spec /\ JournalsMinded => RowsChangeByCallsOnly
<1>1. IInv /\ [Next]_vars /\ [~MissesJournal]_vars => [RowsChange]_vars
  BY ContentStep
<1> QED BY <1>1, Invariance, PTL DEF Spec, JournalsMinded, RowsChangeByCallsOnly, RowsChange

(* An acknowledged call sets its row to the called value, and no other row.   *)
THEOREM CallsChangeTheirRow == Spec /\ JournalsMinded => CallsTakeEffect
<1>1. ASSUME IInv, NEW i \in Ids, NEW v \in Values \cup {NoRow},
             \/ write_collection(i, v)
             \/ v \in Values /\ (update_record_journaled(i, v) \/ update_install(i, v))
      PROVE  Content' = [Content EXCEPT ![i] = v]
  <2>1. TypeOK /\ Inner
    BY <1>1 DEF IInv, Inner
  <2>2. CASE write_collection(i, v) \/ update_record_journaled(i, v)
    <3>1. append_collection_mutation(i, v) /\ UNCHANGED primary
      BY <2>2 DEF write_collection, update_record_journaled
    <3> QED BY <2>1, <3>1, ContentAppended
  <2>3. CASE v \in Values /\ update_install(i, v)
    <3>1. primary' = [Content EXCEPT ![i] = v] /\ journal' = NoJournal
      BY <2>1, <2>3 DEF update_install, Inner, PreparedRowsComplete
    <3>2. /\ \A rows \in Rows : Apply(NoJournal, rows) = rows
          /\ Content \in Rows
      BY <2>1, Merging
    <3>3. primary' \in Rows
      BY <3>1, <3>2 DEF Rows
    <3> QED BY <3>1, <3>2, <3>3 DEF Content
  <2> QED BY <1>1, <2>2, <2>3
<1>2. IInv /\ [Next]_vars => [\A i \in Ids, v \in Values \cup {NoRow} :
          (\/ write_collection(i, v)
           \/ v \in Values /\ (update_record_journaled(i, v) \/ update_install(i, v)))
          => Content' = [Content EXCEPT ![i] = v]]_vars
  BY <1>1
<1> QED BY <1>2, Invariance, PTL DEF Spec, CallsTakeEffect
=============================================================================
