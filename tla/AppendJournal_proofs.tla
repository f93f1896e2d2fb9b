------------------------ MODULE AppendJournal_proofs ------------------------
(* Proofs about AppendJournal, for any collections, ids and calls.           *)
EXTENDS AppendJournal, TLAPS

(* The file has what the append journal says of it. *)
Applied(c) == c \notin torn /\ Apply(log[c], primary[c]) = primary[c]

(* Checkpoint and journal restore the file. *)
Current(c) == Apply(log[c], checkpoint[c]) = Apply(log[c], primary[c])

(* Every file the journal may have to restore can be restored. *)
Restorable ==
    /\ torn \subseteq Touched(log)
    /\ \A c \in Cols : log[c] # NoJournal => known
    /\ known => \A c \in Cols \ behind : Current(c)

(* Which stages a task goes through, and whose rows it writes. *)
Placed ==
    /\ \/ task = "none" /\ stage = "idle"
       \/ task = "start" /\ stage \in {"down", "marked", "replay", "refresh", "write", "prepare"}
       \/ task = "append" /\ stage \in {"prepare", "log", "apply", "replay", "refresh"}
       \/ task = "upsert" /\ stage \in {"commit", "marked"}
       \/ task = "change" /\ stage \in {"entry", "acknowledge"}
       \/ task = "flush" /\ stage \in {"replay", "refresh", "invalidate", "write"}
       \/ task = "update" /\ stage \in {"replay", "refresh", "write", "run"}
       \/ task = "install" /\ stage \in {"replay", "refresh", "invalidate", "install", "prepare"}
    /\ request = NoEdits <=> task \in {"none", "start", "flush", "update"}
    /\ task \in {"append", "upsert"} => request \in Upserted /\ targets = Touched(request)

(* A store left with a torn file or a marker is closed until it is recovered. *)
Evidence ==
    /\ closed => task = "none"
    /\ marker # NoEdits => closed \/ stage \in {"down", "marked"}
    /\ torn # {} => \/ closed \/ stage \in {"down", "apply"}
                    \/ task = "start" /\ stage = "marked"
                    \/ task \in {"start", "append"} /\ stage = "replay"

(* What an append relies on between its steps. *)
Appending ==
    /\ task = "append" /\ stage \in {"prepare", "log"} =>
          \A c \in Cols, i \in Ids : request[c][i] # Untouched => pending[c][i] = Untouched
    /\ stage = "log" => known
    /\ stage = "apply" =>
          /\ \A c \in Cols, i \in Ids : request[c][i] # Untouched => log[c][i] = request[c][i]
          /\ torn \subseteq todo /\ todo \subseteq targets
          /\ ~StaleTears => torn \cap behind = {}

(* What the loops of a recovery have done so far. *)
Recovering ==
    /\ stage = "marked" => \A c \in Cols \ todo : Apply(marker[c], pending[c]) = pending[c]
    /\ stage = "replay" => \A c \in Cols \ todo : Applied(c)
    /\ stage = "refresh" =>
          /\ \A c \in Cols : Applied(c)
          /\ known => \A c \in (Cols \ todo) \ behind : checkpoint[c] = primary[c]
    /\ stage = "prepare" => ~known /\ \A c \in Cols \ todo : checkpoint[c] = primary[c]

(* What a rewrite of files relies on. *)
Rewriting ==
    /\ stage \in {"write", "invalidate", "install"} => \A c \in Cols : log[c] = NoJournal
    /\ stage = "install" => ~known
    /\ merged # {} => stage = "write" /\ merged \subseteq todo
    /\ \A c \in merged : Apply(pending[c], primary[c]) = primary[c]
    /\ task = "update" /\ stage = "write" => \A c \in targets \ todo : pending[c] = NoJournal
    /\ stage = "run" \/ task = "install" => \A c \in targets : pending[c] = NoJournal
    /\ task = "install" => Touched(request) \subseteq targets

Inner == Restorable /\ Placed /\ Evidence /\ Appending /\ Recovering /\ Rewriting
IInv == TypeOK /\ Inner
-----------------------------------------------------------------------------
(* Journals on rows and on journals. *)
LEMMA ApplyTypes ==
    /\ \A j \in Journals, r \in Rows : Apply(j, r) \in Rows
    /\ \A j \in Journals, k \in Journals : Apply(j, k) \in Journals
    /\ \A e \in Upserted, f \in Upserted : ApplyAll(e, f) \in Upserted
    /\ \A e \in Edits, f \in Edits : ApplyAll(e, f) \in Edits
    /\ \A e \in Edits, f \in [Cols -> Rows] : ApplyAll(e, f) \in [Cols -> Rows]
<1>1. \A j \in Journals, r \in Rows : Apply(j, r) \in Rows
  BY DEF Journals, Rows, Apply
<1>2. \A j \in Journals, k \in Journals : Apply(j, k) \in Journals
  BY DEF Journals, Apply
<1>3. \A j, k \in [Ids -> Values \cup {Untouched}] : Apply(j, k) \in [Ids -> Values \cup {Untouched}]
  BY DEF Apply
<1> QED BY <1>1, <1>2, <1>3 DEF Upserted, Edits, ApplyAll

LEMMA Kinds ==
    /\ Upserted \subseteq Edits
    /\ NoEdits \in Upserted
    /\ \A c \in Cols : NoEdits[c] = NoJournal
    /\ \A i \in Ids : NoJournal[i] = Untouched
    /\ \A e \in Edits : e = NoEdits <=> Touched(e) = {}
BY DEF Upserted, Edits, Journals, NoEdits, NoJournal, Touched

(* An empty journal changes nothing. *)
LEMMA ApplyNothing ==
    /\ \A r \in Rows : Apply(NoJournal, r) = r
    /\ \A r \in Journals : Apply(NoJournal, r) = r
BY DEF Rows, Journals, Apply, NoJournal

(* A journal is replayed as often as one likes. *)
LEMMA ApplyTwice == \A j, r : Apply(j, Apply(j, r)) = Apply(j, r)
BY DEF Apply

(* One journal after another is the journal of both. *)
LEMMA ApplyAfter == \A k, j, r : Apply(Apply(k, j), r) = Apply(k, Apply(j, r))
BY DEF Apply

(* Journals of different records can be replayed in any order. *)
LEMMA ApplyApart ==
    ASSUME NEW j, NEW k, NEW r, \A i \in Ids : j[i] = Untouched \/ k[i] = Untouched
    PROVE  Apply(j, Apply(k, r)) = Apply(k, Apply(j, r))
BY DEF Apply

(* A journal hides what it says again. *)
LEMMA ApplyHides ==
    ASSUME NEW j, NEW k, NEW r, \A i \in Ids : k[i] # Untouched => j[i] = k[i]
    PROVE  Apply(j, Apply(k, r)) = Apply(j, r)
BY DEF Apply

(* The only steps that change files. *)
LEMMA FileSteps ==
    ASSUME Next
    PROVE  \/ UNCHANGED files
           \/ append_transaction \/ recovered \/ invalidate_checkpoint \/ create_journal
           \/ install_prepared_collection_replacements
           \/ commit \/ remove_marker \/ append_collection_mutation
           \/ \E c \in Cols : \/ append_tears(c) \/ append_in_place(c)
                              \/ replay(c) \/ refresh_checkpoint_backup(c)
                              \/ write_rows(c) \/ remove_collection_journal(c)
                              \/ append_marked(c)
<1>1. CASE Append
  BY <1>1 DEF Append, append_many_uncached, append_recovers, append_ends, Begin
<1>2. CASE Recover
  BY <1>2 DEF Recover, replayed
<1>3. CASE Journal
  BY <1>3 DEF Journal, journals_written, flush, update_collections_atomically, update_asks,
              update_ends, Begin
<1>4. CASE Write
  BY <1>4 DEF Write, upsert_many_journaled, write_collection, change_ends, Begin
<1>5. CASE mark_recovery_required \/ call_fails \/ Crash \/ start
  BY <1>5 DEF mark_recovery_required, call_fails, Crash, start
<1> QED BY <1>1, <1>2, <1>3, <1>4, <1>5 DEF Next
-----------------------------------------------------------------------------
LEMMA InitInv == Init => IInv
<1> SUFFICES ASSUME Init PROVE IInv
  OBVIOUS
<1> USE DEF Init
<1>1. primary \in [Cols -> Rows]
  BY DEF Rows
<1>2. TypeOK
  BY <1>1, Kinds DEF TypeOK
<1>3. Restorable /\ Evidence
  BY Kinds DEF Restorable, Evidence, Current
<1>4. Placed /\ Appending /\ Recovering /\ Rewriting
  BY DEF Placed, Appending, Recovering, Rewriting
<1> QED BY <1>2, <1>3, <1>4 DEF IInv, Inner
-----------------------------------------------------------------------------
(* How a step moves its task on. *)
LEMMA PlacedStep == ConstantsAssumption /\ TypeOK /\ Placed /\ [Next]_vars => Placed'
<1> SUFFICES ASSUME ConstantsAssumption, TypeOK, Placed, [Next]_vars PROVE Placed'
  OBVIOUS
<1> USE DEF Placed, Goes, Goto, Returns, Ends, Loops, Step, control
<1>1. CASE UNCHANGED vars
  BY <1>1 DEF vars
<1>2. ASSUME NEW e \in Appends, append_many_uncached(e) PROVE Placed'
  BY <1>2 DEF append_many_uncached, Begin, ConstantsAssumption
<1>3. CASE append_transaction \/ append_recovers \/ append_ends
  BY <1>3 DEF append_transaction, append_recovers, append_ends
<1>4. ASSUME NEW c \in Cols, append_tears(c) \/ append_in_place(c) PROVE Placed'
  BY <1>4 DEF append_tears, append_in_place
<1>5. CASE Recover
  BY <1>5 DEF Recover, replay, refresh_checkpoint_backup, replayed, recovered,
              invalidate_checkpoint, create_journal
<1>6. ASSUME NEW c \in Cols, write_rows(c) \/ remove_collection_journal(c) PROVE Placed'
  BY <1>6 DEF write_rows, remove_collection_journal
<1>7. ASSUME NEW K \in SUBSET Cols, flush(K) \/ update_collections_atomically(K) PROVE Placed'
  BY <1>7 DEF flush, update_collections_atomically, Begin
<1>8. ASSUME NEW e \in Replacements, update_asks(e) PROVE Placed'
  BY <1>8 DEF update_asks, ConstantsAssumption
<1>9. CASE journals_written \/ update_ends \/ install_prepared_collection_replacements
  BY <1>9 DEF journals_written, update_ends, install_prepared_collection_replacements
<1>10. ASSUME NEW e \in Upserts, upsert_many_journaled(e) PROVE Placed'
  BY <1>10 DEF upsert_many_journaled, Begin, ConstantsAssumption
<1>11. ASSUME NEW c \in Cols, append_marked(c) PROVE Placed'
  BY <1>11 DEF append_marked
<1>12. ASSUME NEW c \in Cols, NEW j \in Changes, write_collection(c, j) PROVE Placed'
  <2>1. [NoEdits EXCEPT ![c] = j] # NoEdits
    BY DEF NoEdits, ConstantsAssumption
  <2> QED BY <1>12, <2>1 DEF write_collection, Begin
<1>13. CASE commit \/ remove_marker \/ append_collection_mutation \/ change_ends
  BY <1>13 DEF commit, remove_marker, append_collection_mutation, change_ends
<1>14. CASE mark_recovery_required \/ call_fails \/ Crash \/ start
  BY <1>14 DEF mark_recovery_required, call_fails, Crash, start
<1> QED BY <1>1, <1>2, <1>3, <1>4, <1>5, <1>6, <1>7, <1>8, <1>9, <1>10, <1>11, <1>12, <1>13, <1>14
           DEF Next, Append, Journal, Write

LEMMA TypeStep == ConstantsAssumption /\ TypeOK /\ Placed /\ [Next]_vars => TypeOK'
<1> SUFFICES ASSUME ConstantsAssumption, TypeOK, Placed, [Next]_vars PROVE TypeOK'
  OBVIOUS
<1>1. CASE UNCHANGED vars
  BY <1>1 DEF vars, files, control, TypeOK
<1> USE DEF TypeOK, files, control, Goes, Goto, Returns, Ends, Loops, Step
<1>2. ASSUME NEW e \in Appends, append_many_uncached(e) PROVE TypeOK'
  BY <1>2, Kinds DEF append_many_uncached, Begin, Touched, ConstantsAssumption
<1>3. CASE append_transaction
  <2>1. log' \in Upserted
    BY <1>3, ApplyTypes DEF append_transaction, Placed
  <2> QED BY <1>3, <2>1, Kinds DEF append_transaction
<1>4. CASE append_recovers \/ append_ends
  BY <1>4, Kinds DEF append_recovers, append_ends, Touched
<1>5. ASSUME NEW c \in Cols, append_tears(c) PROVE TypeOK'
  BY <1>5 DEF append_tears
<1>6. ASSUME NEW c \in Cols, append_in_place(c) \/ replay(c) \/ write_rows(c) PROVE TypeOK'
  <2>1. /\ Apply(request[c], primary[c]) \in Rows /\ Apply(log[c], Base(c)) \in Rows
        /\ Apply(pending[c], primary[c]) \in Rows
    BY ApplyTypes, Kinds DEF Base, Edits, Upserted
  <2> QED BY <1>6, <2>1 DEF append_in_place, replay, write_rows
<1>7. ASSUME NEW c \in Cols, refresh_checkpoint_backup(c) \/ remove_collection_journal(c) PROVE TypeOK'
  <2>1. NoJournal \in Journals
    BY DEF NoJournal, Journals
  <2> QED BY <1>7, <2>1 DEF refresh_checkpoint_backup, remove_collection_journal, Edits
<1>8. CASE replayed \/ recovered \/ invalidate_checkpoint \/ create_journal
  BY <1>8, Kinds DEF replayed, recovered, invalidate_checkpoint, create_journal, Touched, Pending
<1>9. ASSUME NEW K \in SUBSET Cols, flush(K) \/ update_collections_atomically(K) PROVE TypeOK'
  BY <1>9, Kinds DEF flush, update_collections_atomically, Begin, Touched
<1>10. ASSUME NEW e \in Replacements, update_asks(e) PROVE TypeOK'
  BY <1>10 DEF update_asks, Touched, ConstantsAssumption
<1>11. CASE install_prepared_collection_replacements
  BY <1>11, ApplyTypes DEF install_prepared_collection_replacements
<1>12. CASE journals_written \/ update_ends
  BY <1>12, Kinds DEF journals_written, update_ends
<1>13. ASSUME NEW e \in Upserts, upsert_many_journaled(e) PROVE TypeOK'
  BY <1>13, Kinds DEF upsert_many_journaled, Begin, Touched, ConstantsAssumption
<1>14. ASSUME NEW c \in Cols, append_marked(c) PROVE TypeOK'
  <2>1. Apply(marker[c], pending[c]) \in Journals
    BY ApplyTypes, Kinds DEF Edits
  <2> QED BY <1>14, <2>1 DEF append_marked, Edits
<1>15. ASSUME NEW c \in Cols, NEW j \in Changes, write_collection(c, j) PROVE TypeOK'
  <2>1. [NoEdits EXCEPT ![c] = j] \in Edits
    BY Kinds DEF ConstantsAssumption, Edits
  <2> QED BY <1>15, <2>1 DEF write_collection, Begin
<1>16. CASE commit \/ remove_marker \/ change_ends
  BY <1>16, Kinds DEF commit, remove_marker, change_ends, Touched, Placed
<1>17. CASE append_collection_mutation
  BY <1>17, ApplyTypes DEF append_collection_mutation
<1>18. CASE mark_recovery_required \/ call_fails \/ Crash \/ start
  BY <1>18, Kinds DEF mark_recovery_required, call_fails, Crash, start, Touched
<1> QED BY <1>1, <1>2, <1>3, <1>4, <1>5, <1>6, <1>7, <1>8, <1>9, <1>10, <1>11, <1>12, <1>13, <1>14,
           <1>15, <1>16, <1>17, <1>18 DEF Next, Append, Recover, Journal, Write
-----------------------------------------------------------------------------
(* A task begins in a store that is open and has no torn file and no marker. *)
LEMMA BeginsWhole ==
    ASSUME IInv, task = "none", ~closed
    PROVE  stage = "idle" /\ torn = {} /\ marker = NoEdits /\ request = NoEdits /\ merged = {}
BY DEF IInv, Inner, Placed, Evidence, Rewriting

LEMMA EvidenceStep == IInv /\ [Next]_vars => Evidence'
<1> SUFFICES ASSUME IInv, [Next]_vars PROVE Evidence'
  OBVIOUS
<1> USE DEF IInv, Inner, Placed, Evidence, Goes, Goto, Returns, Ends, Loops, Step, files, control
<1>1. CASE UNCHANGED vars
  BY <1>1 DEF vars
<1>2. CASE task = "none" /\ ~closed
  <2>1. torn = {} /\ marker = NoEdits /\ stage = "idle"
    BY <1>2, BeginsWhole
  <2>2. CASE Append \/ Recover
    BY <2>1, <2>2, <1>2 DEF Append, append_many_uncached, append_transaction, append_recovers, append_ends,
       append_tears, append_in_place, Begin, Recover, replay, refresh_checkpoint_backup, replayed,
       recovered, invalidate_checkpoint, create_journal
  <2>3. CASE Journal
    BY <2>1, <2>3, <1>2 DEF Journal, write_rows, remove_collection_journal, journals_written, flush,
       update_collections_atomically, update_asks, update_ends, install_prepared_collection_replacements,
       Begin
  <2>4. CASE Write
    BY <2>1, <2>4, <1>2 DEF Write, upsert_many_journaled, append_marked, write_collection, commit,
       remove_marker, append_collection_mutation, change_ends, Begin
  <2>5. CASE mark_recovery_required \/ call_fails \/ Crash \/ start
    BY <2>1, <2>5, <1>2 DEF mark_recovery_required, call_fails, Crash, start
  <2> QED BY <2>2, <2>3, <2>4, <2>5, <1>1 DEF Next
<1>3. ASSUME task # "none" \/ closed, Append PROVE Evidence'
  <2>1. ASSUME NEW c \in Cols, append_tears(c) \/ append_in_place(c) PROVE Evidence'
    BY <2>1, <1>3 DEF append_tears, append_in_place
  <2>2. CASE append_transaction \/ append_recovers
    BY <2>2, <1>3 DEF append_transaction, append_recovers
  <2>3. CASE append_ends
    BY <2>3, <1>3 DEF append_ends, Appending
  <2> QED BY <2>1, <2>2, <2>3, <1>3 DEF Append, append_many_uncached, Begin
<1>4. ASSUME task # "none" \/ closed, Recover PROVE Evidence'
  <2>1. ASSUME NEW c \in Cols, replay(c) \/ refresh_checkpoint_backup(c) PROVE Evidence'
    BY <2>1, <1>4 DEF replay, refresh_checkpoint_backup
  <2>2. CASE replayed
    <3>1. torn = {}
      BY <2>2 DEF replayed, Recovering, Applied, TypeOK
    <3> QED BY <2>2, <3>1, <1>4 DEF replayed
  <2>3. CASE recovered \/ invalidate_checkpoint \/ create_journal
    BY <2>3, <1>4 DEF recovered, invalidate_checkpoint, create_journal
  <2> QED BY <2>1, <2>2, <2>3, <1>4 DEF Recover
<1>5. ASSUME task # "none" \/ closed, Journal PROVE Evidence'
  BY <1>5 DEF Journal, write_rows, remove_collection_journal, journals_written, flush,
       update_collections_atomically, update_asks, update_ends, install_prepared_collection_replacements,
       Begin
<1>6. ASSUME task # "none" \/ closed, Write PROVE Evidence'
  BY <1>6 DEF Write, upsert_many_journaled, append_marked, write_collection, commit,
       remove_marker, append_collection_mutation, change_ends, Begin
<1>7. CASE mark_recovery_required \/ Crash \/ start
  BY <1>7 DEF mark_recovery_required, Crash, start
<1>8. CASE call_fails
  BY <1>8 DEF call_fails, Appending
<1> QED BY <1>1, <1>2, <1>3, <1>4, <1>5, <1>6, <1>7, <1>8 DEF Next
-----------------------------------------------------------------------------
(* Checkpoint and journal still restore every file that may have to be. *)
LEMMA RestorableStep == IInv /\ [Next]_vars => Restorable'
<1> SUFFICES ASSUME IInv, [Next]_vars PROVE Restorable'
  OBVIOUS
<1>0. TypeOK /\ Restorable /\ Appending /\ Recovering /\ Rewriting /\ Evidence /\ Placed
  BY DEF IInv, Inner
<1>1. CASE UNCHANGED <<primary, torn, checkpoint, known, log, behind>>
  BY <1>0, <1>1 DEF Restorable, Touched, Current
<1>2. CASE append_transaction
  <2>1. known /\ torn = {}
    BY <1>0, <1>2 DEF append_transaction, Appending, Evidence, Placed
  <2>2. \A c \in Cols : log'[c] = Apply(request[c], log[c])
    BY <1>2 DEF append_transaction, ApplyAll
  <2>3. \A c \in Cols : Current(c) => Current(c)'
    BY <1>2, <2>2, ApplyAfter DEF append_transaction, Current
  <2> QED BY <1>0, <1>2, <2>1, <2>3 DEF append_transaction, Restorable
<1>3. ASSUME NEW c \in Cols, append_tears(c) PROVE Restorable'
  <2>1. log[c] # NoJournal
    <3>1. c \in Touched(request)
      BY <1>0, <1>3 DEF append_tears, Step, Appending, Placed
    <3>2. request[c] \in Journals
      BY <1>0 DEF TypeOK, Edits
    <3>3. PICK i \in Ids : request[c][i] # Untouched
      BY <3>1, <3>2 DEF Touched, NoJournal, Journals
    <3> QED BY <1>0, <1>3, <3>3, Kinds DEF append_tears, Step, Appending
  <2> QED BY <1>0, <1>3, <2>1 DEF append_tears, Restorable, Touched, Current
<1>4. ASSUME NEW c \in Cols, append_in_place(c) PROVE Restorable'
  <2>1. Apply(log[c], Apply(request[c], primary[c])) = Apply(log[c], primary[c])
    BY <1>0, <1>4, ApplyHides DEF append_in_place, Step, Appending
  <2>2. \A d \in Cols : Current(d) => Current(d)'
    BY <1>0, <1>4, <2>1 DEF append_in_place, Current, TypeOK
  <2> QED BY <1>0, <1>4, <2>2 DEF append_in_place, Restorable, Touched
<1>5. ASSUME NEW c \in Cols, replay(c) PROVE Restorable'
  <2>1. ASSUME NEW d \in Cols \ behind, known PROVE Current(d)'
    <3>1. Current(d)
      BY <1>0, <2>1 DEF Restorable
    <3>2. CASE d # c
      BY <1>0, <1>5, <3>1, <3>2 DEF replay, Current, TypeOK
    <3>3. CASE d = c
      <4>1. primary'[d] = Apply(log[d], Base(d))
        BY <1>0, <1>5, <3>3 DEF replay, TypeOK
      <4>2. Apply(log[d], primary'[d]) = Apply(log[d], Base(d))
        BY <4>1, ApplyTwice
      <4>3. Apply(log[d], Base(d)) = Apply(log[d], checkpoint[d])
        BY <3>1 DEF Base, Current
      <4> QED BY <1>5, <4>2, <4>3 DEF replay, Current
    <3> QED BY <3>2, <3>3
  <2> QED BY <1>0, <1>5, <2>1 DEF replay, Restorable, Touched
<1>6. ASSUME NEW c \in Cols, refresh_checkpoint_backup(c) PROVE Restorable'
  <2>1. \A d \in Cols : d = c \/ Current(d) => Current(d)'
    BY <1>0, <1>6 DEF refresh_checkpoint_backup, Current, TypeOK
  <2> QED BY <1>0, <1>6, <2>1 DEF refresh_checkpoint_backup, Restorable, Touched
<1>7. CASE recovered
  <2>1. torn = {} /\ log' = NoEdits
    BY <1>0, <1>7 DEF recovered, Loops, Evidence, Placed
  <2>2. ASSUME NEW c \in Cols \ behind, known PROVE Current(c)'
    BY <1>0, <1>7, <2>2 DEF recovered, Loops, Recovering, Current
  <2> QED BY <1>7, <2>1, <2>2, Kinds DEF recovered, Restorable
<1>8. CASE invalidate_checkpoint
  BY <1>0, <1>8 DEF invalidate_checkpoint, Restorable, Touched, Rewriting
<1>9. CASE create_journal
  BY <1>0, <1>9 DEF create_journal, Loops, Restorable, Touched, Current, Recovering
<1>10. CASE install_prepared_collection_replacements
  BY <1>0, <1>10 DEF install_prepared_collection_replacements, Restorable, Touched, Rewriting
<1>11. ASSUME NEW c \in Cols, write_rows(c) PROVE Restorable'
  <2>1. \A d \in Cols : d # c /\ Current(d) => Current(d)'
    BY <1>0, <1>11 DEF write_rows, Current, TypeOK
  <2> QED BY <1>0, <1>11, <2>1 DEF write_rows, Restorable, Touched
<1>12. CASE UNCHANGED vars
  BY <1>1, <1>12 DEF vars, files
<1>13. CASE Next
  <2>1. ASSUME NEW c \in Cols, remove_collection_journal(c) \/ append_marked(c) PROVE Restorable'
    BY <1>1, <2>1 DEF remove_collection_journal, append_marked
  <2> QED BY <1>1, <1>2, <1>3, <1>4, <1>5, <1>6, <1>7, <1>8, <1>9, <1>10, <1>11, <1>13, <2>1, FileSteps
             DEF files, commit, remove_marker, append_collection_mutation
<1> QED BY <1>12, <1>13

(* An append's loops. *)
LEMMA AppendingStep == ConstantsAssumption /\ IInv /\ [Next]_vars => Appending'
<1> SUFFICES ASSUME ConstantsAssumption, IInv, [Next]_vars PROVE Appending'
  OBVIOUS
<1>0. TypeOK /\ Restorable /\ Appending /\ Evidence /\ Placed
  BY DEF IInv, Inner
<1> USE DEF Goes, Goto, Returns, Ends, Loops, Step, files, control
<1>1. CASE UNCHANGED vars
  BY <1>0, <1>1 DEF vars, Appending
<1>2. ASSUME NEW e \in Appends, append_many_uncached(e) PROVE Appending'
  BY <1>0, <1>2 DEF append_many_uncached, Begin, New, Appending
<1>3. CASE append_transaction
  <2>1. torn = {} /\ targets = Touched(request)
    BY <1>0, <1>3 DEF append_transaction, Evidence, Placed
  <2>2. \A c \in Cols, i \in Ids : request[c][i] # Untouched => log'[c][i] = request[c][i]
    BY <1>3 DEF append_transaction, ApplyAll, Apply
  <2> QED BY <1>0, <1>3, <2>1, <2>2 DEF append_transaction, Appending
<1>4. ASSUME NEW c \in Cols, append_tears(c) \/ append_in_place(c) PROVE Appending'
  BY <1>0, <1>4 DEF append_tears, append_in_place, Appending
<1>5. CASE append_recovers \/ append_ends
  BY <1>0, <1>5 DEF append_recovers, append_ends, Appending
<1>6. CASE Recover
  BY <1>0, <1>6 DEF Recover, replay, refresh_checkpoint_backup, replayed, recovered,
     invalidate_checkpoint, create_journal, Appending, Placed
<1>7. CASE Journal
  BY <1>0, <1>7 DEF Journal, write_rows, remove_collection_journal, journals_written, flush,
     update_collections_atomically, update_asks, update_ends, install_prepared_collection_replacements,
     Begin, Appending, Placed
<1>8. CASE Write
  BY <1>0, <1>8 DEF Write, upsert_many_journaled, append_marked, write_collection, commit,
     remove_marker, append_collection_mutation, change_ends, Begin, Appending, Placed
<1>9. CASE mark_recovery_required \/ call_fails \/ Crash \/ start
  BY <1>0, <1>9 DEF mark_recovery_required, call_fails, Crash, start, Appending, Placed
<1> QED BY <1>1, <1>2, <1>3, <1>4, <1>5, <1>6, <1>7, <1>8, <1>9 DEF Next, Append
-----------------------------------------------------------------------------
(* What a recovery has to do is what is left of the loop it starts. *)
LEMMA LoopsBegin ==
    ASSUME IInv
    PROVE  /\ \A c \in Cols \ Touched(marker) : Apply(marker[c], pending[c]) = pending[c]
           /\ \A c \in Cols \ Touched(request) : Apply(request[c], pending[c]) = pending[c]
           /\ \A c \in Cols \ Touched(log) : Applied(c)
           /\ known => \A c \in (Cols \ Touched(log)) \ behind : checkpoint[c] = primary[c]
<1> USE DEF IInv, Inner, TypeOK
<1>1. \A c \in Cols \ Touched(marker) : marker[c] = NoJournal
  BY DEF Touched
<1>2. \A c \in Cols \ Touched(request) : request[c] = NoJournal
  BY DEF Touched
<1>3. \A c \in Cols \ Touched(log) : log[c] = NoJournal /\ c \notin torn
  BY DEF Touched, Restorable
<1>4. \A c \in Cols : primary[c] \in Rows /\ checkpoint[c] \in Rows /\ pending[c] \in Journals
  BY DEF Edits
<1>5. \A c \in Cols \ Touched(log) : Applied(c)
  BY <1>3, <1>4, ApplyNothing DEF Applied
<1>6. ASSUME known, NEW c \in (Cols \ Touched(log)) \ behind PROVE checkpoint[c] = primary[c]
  BY <1>3, <1>4, <1>6, ApplyNothing DEF Restorable, Current
<1> QED BY <1>1, <1>2, <1>4, <1>5, <1>6, ApplyNothing

LEMMA RecoveringStep == ConstantsAssumption /\ IInv /\ [Next]_vars => Recovering'
<1> SUFFICES ASSUME ConstantsAssumption, IInv, [Next]_vars PROVE Recovering'
  OBVIOUS
<1>0. TypeOK /\ Restorable /\ Recovering /\ Rewriting /\ Evidence /\ Placed
  BY DEF IInv, Inner
<1> USE DEF Goes, Goto, Returns, Ends, Loops, Step, files, control
<1>1. CASE UNCHANGED vars
  BY <1>0, <1>1 DEF vars, Recovering, Applied
<1>2. ASSUME stage' \notin {"marked", "replay", "refresh", "prepare"} PROVE Recovering'
  BY <1>2 DEF Recovering
<1>3. ASSUME NEW e \in Appends, append_many_uncached(e) PROVE Recovering'
  BY <1>3 DEF append_many_uncached, Begin, Recovering
<1>4. ASSUME UNCHANGED files, stage' = "replay", todo' = Touched(log) PROVE Recovering'
  BY <1>4, LoopsBegin DEF Recovering, Applied
<1>5. ASSUME NEW c \in Cols, replay(c) PROVE Recovering'
  <2>1. Apply(log[c], primary'[c]) = primary'[c]
    BY <1>0, <1>5, ApplyTwice DEF replay, TypeOK
  <2>2. \A d \in Cols : d = c \/ Applied(d) => Applied(d)'
    BY <1>0, <1>5, <2>1 DEF replay, Applied, TypeOK
  <2> QED BY <1>0, <1>5, <2>2 DEF replay, Recovering
<1>6. CASE replayed
  BY <1>0, <1>6, LoopsBegin DEF replayed, Recovering, Applied
<1>7. ASSUME NEW c \in Cols, refresh_checkpoint_backup(c) PROVE Recovering'
  BY <1>0, <1>7 DEF refresh_checkpoint_backup, Recovering, TypeOK, Applied
<1>8. ASSUME NEW c \in Cols, append_marked(c) PROVE Recovering'
  <2>1. Apply(marker[c], pending'[c]) = pending'[c]
    BY <1>0, <1>8, ApplyTwice DEF append_marked, TypeOK, Edits
  <2>2. \A d \in Cols : d = c \/ Apply(marker[d], pending[d]) = pending[d]
                        => Apply(marker'[d], pending'[d]) = pending'[d]
    BY <1>0, <1>8, <2>1 DEF append_marked, TypeOK, Edits
  <2> QED BY <1>0, <1>8, <2>2 DEF append_marked, Recovering
<1>9. CASE commit
  <2>1. targets = Touched(request)
    BY <1>0, <1>9 DEF commit, Placed
  <2> QED BY <1>0, <1>9, <2>1, LoopsBegin DEF commit, Recovering
<1>10. CASE start
  BY <1>10, LoopsBegin DEF start, Recovering
<1>11. CASE remove_marker
  BY <1>0, <1>11, LoopsBegin DEF remove_marker, Recovering, Applied
<1>12. CASE journals_written
  BY <1>12 DEF journals_written, Recovering
<1>13. CASE install_prepared_collection_replacements
  BY <1>0, <1>13 DEF install_prepared_collection_replacements, Rewriting, Recovering
<1>14. CASE append_transaction \/ append_recovers \/ append_ends
  BY <1>14, <1>2, <1>4 DEF append_transaction, append_recovers, append_ends
<1>15. ASSUME NEW c \in Cols, append_tears(c) \/ append_in_place(c) PROVE Recovering'
  BY <1>15, <1>2 DEF append_tears, append_in_place
<1>16. CASE recovered \/ invalidate_checkpoint \/ create_journal
  BY <1>16, <1>2 DEF recovered, invalidate_checkpoint, create_journal
<1>17. ASSUME NEW c \in Cols, write_rows(c) \/ remove_collection_journal(c) PROVE Recovering'
  BY <1>17, <1>2 DEF write_rows, remove_collection_journal
<1>18. ASSUME NEW K \in SUBSET Cols, flush(K) \/ update_collections_atomically(K) PROVE Recovering'
  BY <1>18, <1>2, <1>4 DEF flush, update_collections_atomically, Begin
<1>19. ASSUME NEW e \in Replacements, update_asks(e) PROVE Recovering'
  BY <1>19, <1>4 DEF update_asks
<1>20. CASE update_ends \/ append_collection_mutation \/ change_ends
  BY <1>20, <1>2 DEF update_ends, append_collection_mutation, change_ends
<1>21. ASSUME NEW e, upsert_many_journaled(e) PROVE Recovering'
  BY <1>21, <1>2 DEF upsert_many_journaled
<1>22. ASSUME NEW c, NEW j, write_collection(c, j) PROVE Recovering'
  BY <1>22, <1>2 DEF write_collection
<1>23. CASE mark_recovery_required \/ call_fails \/ Crash
  BY <1>23, <1>2 DEF mark_recovery_required, call_fails, Crash
<1> QED BY <1>1, <1>3, <1>5, <1>6, <1>7, <1>8, <1>9, <1>10, <1>11, <1>12, <1>13, <1>14, <1>15, <1>16,
           <1>17, <1>18, <1>19, <1>20, <1>21, <1>22, <1>23 DEF Next, Append, Recover, Journal, Write

LEMMA RewritingStep == ConstantsAssumption /\ IInv /\ [Next]_vars => Rewriting'
<1> SUFFICES ASSUME ConstantsAssumption, IInv, [Next]_vars PROVE Rewriting'
  OBVIOUS
<1>0. TypeOK /\ Restorable /\ Rewriting /\ Evidence /\ Placed
  BY DEF IInv, Inner
<1> USE DEF Goes, Goto, Returns, Ends, Loops, Step, files, control
<1>1. CASE UNCHANGED vars
  BY <1>0, <1>1 DEF vars, Rewriting
<1>2. CASE Append
  BY <1>0, <1>2 DEF Append, append_many_uncached, append_transaction, append_recovers, append_ends,
     append_tears, append_in_place, Begin, Rewriting, Placed
<1>3. ASSUME NEW c \in Cols, replay(c) \/ refresh_checkpoint_backup(c) PROVE Rewriting'
  BY <1>0, <1>3 DEF replay, refresh_checkpoint_backup, Rewriting, Placed
<1>4. CASE replayed \/ invalidate_checkpoint \/ create_journal
  BY <1>0, <1>4 DEF replayed, invalidate_checkpoint, create_journal, Rewriting, Placed
<1>5. CASE recovered
  <2>1. \A c \in targets \ Pending(targets) : pending[c] = NoJournal
    BY DEF Pending
  <2>2. merged = {} /\ \A c \in Cols : log'[c] = NoJournal
    BY <1>0, <1>5, Kinds DEF recovered, Rewriting
  <2>3. stage' = "invalidate" => task = "flush" \/ task = "install"
    BY <1>5 DEF recovered
  <2> QED BY <1>0, <1>5, <2>1, <2>2, <2>3 DEF recovered, Rewriting, Placed
<1>6. ASSUME NEW c \in Cols, write_rows(c) PROVE Rewriting'
  <2>1. merged' = {c} /\ Apply(pending'[c], primary'[c]) = primary'[c]
    BY <1>0, <1>6, ApplyTwice DEF write_rows, TypeOK
  <2> QED BY <1>0, <1>6, <2>1 DEF write_rows, Rewriting, Placed
<1>7. ASSUME NEW c \in Cols, remove_collection_journal(c) PROVE Rewriting'
  <2>1. /\ merged' = {} /\ stage' = "write" /\ task' = task /\ targets' = targets
        /\ log' = log /\ todo' = todo \ {c}
        /\ pending' = [pending EXCEPT ![c] = NoJournal]
    BY <1>7 DEF remove_collection_journal
  <2>2. pending'[c] = NoJournal /\ \A d \in Cols \ {c} : pending'[d] = pending[d]
    BY <1>0, <2>1 DEF TypeOK, Edits
  <2> QED BY <1>0, <1>7, <2>1, <2>2 DEF remove_collection_journal, Rewriting, Placed, TypeOK
<1>8. CASE journals_written
  BY <1>0, <1>8 DEF journals_written, Rewriting, Placed, TypeOK
<1>9. ASSUME NEW K \in SUBSET Cols, flush(K) PROVE Rewriting'
  BY <1>0, <1>9 DEF flush, Begin, Rewriting, Placed
<1>10. ASSUME NEW K \in SUBSET Cols, update_collections_atomically(K) PROVE Rewriting'
  <2>1. Pending(K) = {} => \A c \in K : pending[c] = NoJournal
    BY DEF Pending
  <2> QED BY <1>0, <1>10, <2>1 DEF update_collections_atomically, Begin, Rewriting, Placed
<1>11. ASSUME NEW e \in Replacements, update_asks(e) PROVE Rewriting'
  BY <1>0, <1>11 DEF update_asks, Rewriting, Touched
<1>12. CASE update_ends \/ install_prepared_collection_replacements
  BY <1>0, <1>12 DEF update_ends, install_prepared_collection_replacements, Rewriting, Placed
<1>13. CASE Write
  BY <1>0, <1>13 DEF Write, upsert_many_journaled, append_marked, write_collection, commit,
     remove_marker, append_collection_mutation, change_ends, Begin, Rewriting, Placed
<1>14. CASE mark_recovery_required \/ call_fails \/ Crash \/ start
  BY <1>0, <1>14 DEF mark_recovery_required, call_fails, Crash, start, Rewriting, Placed
<1> QED BY <1>1, <1>2, <1>3, <1>4, <1>5, <1>6, <1>7, <1>8, <1>9, <1>10, <1>11, <1>12, <1>13, <1>14
           DEF Next, Recover, Journal
-----------------------------------------------------------------------------
LEMMA Inductive == IInv /\ [Next]_vars => IInv'
<1> SUFFICES ASSUME IInv, [Next]_vars PROVE IInv'
  OBVIOUS
<1>1. TypeOK' /\ Placed'
  BY ConstantsAssumption, PlacedStep, TypeStep DEF IInv, Inner
<1>2. Restorable' /\ Evidence'
  BY RestorableStep, EvidenceStep
<1>3. Appending' /\ Recovering' /\ Rewriting'
  BY ConstantsAssumption, AppendingStep, RecoveringStep, RewritingStep
<1> QED BY <1>1, <1>2, <1>3 DEF IInv, Inner

LEMMA Invariance == Spec => []IInv
BY InitInv, Inductive, PTL DEF Spec

(* The variables have their types: an append journal and a marker never say    *)
(* that a record is removed.                                                 *)
THEOREM TypeCorrect == Spec => []TypeOK
<1>1. IInv => TypeOK
  BY DEF IInv
<1> QED BY <1>1, Invariance, PTL

(* Whatever fails and wherever the process dies, the append journal and the    *)
(* checkpoint still restore every file an append may have torn.              *)
THEOREM TornFilesAreRestorable == Spec => []TornIsRestorable
<1>1. IInv => TornIsRestorable
  BY DEF IInv, Inner, TypeOK, Restorable, Current, Touched, TornIsRestorable
<1> QED BY <1>1, Invariance, PTL
-----------------------------------------------------------------------------
(* What the files say of the rows, from step to step. *)
LEMMA ContentTypes ==
    ASSUME TypeOK, NEW c \in Cols
    PROVE  /\ log[c] \in Journals /\ pending[c] \in Journals /\ marker[c] \in Journals
           /\ request[c] \in Journals
           /\ primary[c] \in Rows /\ checkpoint[c] \in Rows /\ Base(c) \in Rows
           /\ Apply(log[c], Base(c)) \in Rows
           /\ Apply(pending[c], Apply(log[c], Base(c))) \in Rows
           /\ Content(c) \in Rows
<1>1. /\ log[c] \in Journals /\ pending[c] \in Journals /\ marker[c] \in Journals
      /\ request[c] \in Journals
  BY Kinds DEF TypeOK, Edits
<1>2. primary[c] \in Rows /\ checkpoint[c] \in Rows /\ Base(c) \in Rows
  BY DEF TypeOK, Base
<1>3. Apply(log[c], Base(c)) \in Rows
  BY <1>1, <1>2, ApplyTypes
<1>4. Apply(pending[c], Apply(log[c], Base(c))) \in Rows
  BY <1>1, <1>3, ApplyTypes
<1>5. Content(c) \in Rows
  BY <1>1, <1>4, ApplyTypes DEF Content
<1> QED BY <1>1, <1>2, <1>3, <1>4, <1>5

(* While a task runs there is a marker only where it is copied. *)
LEMMA Unmarked ==
    ASSUME IInv, task # "none", stage \notin {"down", "marked"}
    PROVE  \A c \in Cols : /\ marker[c] = NoJournal
                           /\ Content(c) = Apply(pending[c], Apply(log[c], Base(c)))
<1> SUFFICES ASSUME NEW c \in Cols
             PROVE  /\ marker[c] = NoJournal
                    /\ Content(c) = Apply(pending[c], Apply(log[c], Base(c)))
  OBVIOUS
<1>1. TypeOK /\ marker = NoEdits
  BY DEF IInv, Inner, Evidence
<1>2. marker[c] = NoJournal
  BY <1>1, Kinds
<1> QED BY <1>1, <1>2, ContentTypes, ApplyNothing DEF Content

(* The commit of each kind of call changes the rows it was called for. *)
LEMMA CommitsWrite ==
    ASSUME IInv, \/ append_transaction \/ commit
                 \/ install_prepared_collection_replacements \/ append_collection_mutation
    PROVE  \A c \in Cols : Content(c)' = Apply(request[c], Content(c))
<1> SUFFICES ASSUME NEW c \in Cols PROVE Content(c)' = Apply(request[c], Content(c))
  OBVIOUS
<1>0. TypeOK /\ Placed /\ Evidence /\ Appending /\ Rewriting
  BY DEF IInv, Inner
<1>1. stage \in {"log", "commit", "install", "entry"} /\ task # "none"
  BY <1>0 DEF Placed, append_transaction, commit, install_prepared_collection_replacements,
              append_collection_mutation
<1>2. /\ marker[c] = NoJournal
      /\ Content(c) = Apply(pending[c], Apply(log[c], Base(c)))
  BY <1>1, Unmarked
<1>3. torn = {} /\ Base(c) = primary[c]
  BY <1>0, <1>1 DEF Evidence, Base
<1>4. CASE append_transaction
  <2>1. \A i \in Ids : pending[c][i] = Untouched \/ request[c][i] = Untouched
    BY <1>0, <1>4 DEF append_transaction, Appending, Placed
  <2>2. log'[c] = Apply(request[c], log[c])
    BY <1>4 DEF append_transaction, ApplyAll
  <2>3. Content(c)' = Apply(marker[c], Apply(pending[c], Apply(log'[c], Base(c))))
    BY <1>4 DEF append_transaction, Content, Base
  <2>4. Apply(log'[c], Base(c)) = Apply(request[c], Apply(log[c], Base(c)))
    BY <2>2, ApplyAfter
  <2>5. Apply(pending[c], Apply(log'[c], Base(c))) = Apply(request[c], Content(c))
    BY <1>2, <2>1, <2>4, ApplyApart
  <2>6. Apply(request[c], Content(c)) \in Rows
    BY <1>0, ContentTypes, ApplyTypes
  <2> QED BY <1>2, <2>3, <2>5, <2>6, ApplyNothing
<1>5. CASE commit
  <2>1. Content(c)' = Apply(request[c], Apply(pending[c], Apply(log[c], Base(c))))
    BY <1>5 DEF commit, Content, Base
  <2> QED BY <1>2, <2>1
<1>6. CASE install_prepared_collection_replacements
  <2>1. log[c] = NoJournal /\ primary'[c] = Apply(request[c], primary[c])
    BY <1>0, <1>6 DEF install_prepared_collection_replacements, Rewriting, ApplyAll
  <2>2. Base(c)' = primary'[c]
    BY <1>3, <1>6 DEF install_prepared_collection_replacements, Base
  <2>3. primary[c] \in Rows /\ primary'[c] \in Rows
    BY <1>0, <2>1, ContentTypes, ApplyTypes
  <2>4. Content(c)' = Apply(marker[c], Apply(pending[c], Apply(log[c], primary'[c])))
    BY <1>6, <2>2 DEF install_prepared_collection_replacements, Content
  <2>5. Content(c)' = Apply(pending[c], Apply(request[c], primary[c]))
    BY <1>0, <1>2, <2>1, <2>3, <2>4, ApplyNothing, ContentTypes, ApplyTypes
  <2>6. Content(c) = Apply(pending[c], primary[c])
    BY <1>2, <1>3, <2>1, <2>3, ApplyNothing
  <2>7. pending[c] = NoJournal \/ request[c] = NoJournal
    BY <1>0, <1>6 DEF install_prepared_collection_replacements, Placed, Rewriting, Touched
  <2> QED BY <1>0, <2>3, <2>5, <2>6, <2>7, ContentTypes, ApplyTypes, ApplyNothing
<1>7. CASE append_collection_mutation
  <2>1. pending'[c] = Apply(request[c], pending[c])
    BY <1>7 DEF append_collection_mutation, ApplyAll
  <2>2. Content(c)' = Apply(marker[c], Apply(pending'[c], Apply(log[c], Base(c))))
    BY <1>7 DEF append_collection_mutation, Content, Base
  <2>3. Apply(pending'[c], Apply(log[c], Base(c))) = Apply(request[c], Content(c))
    BY <1>2, <2>1, ApplyAfter
  <2>4. Apply(request[c], Content(c)) \in Rows
    BY <1>0, ContentTypes, ApplyTypes
  <2> QED BY <1>2, <2>2, <2>3, <2>4, ApplyNothing
<1> QED BY <1>4, <1>5, <1>6, <1>7
(* A torn file is still what its checkpoint and the journal say. *)
LEMMA TearsKeep ==
    ASSUME IInv, NEW d \in Cols \ behind, append_tears(d)
    PROVE  \A c \in Cols : Content(c)' = Content(c)
<1> SUFFICES ASSUME NEW c \in Cols PROVE Content(c)' = Content(c)
  OBVIOUS
<1>0. TypeOK /\ Restorable /\ Restorable'
  BY RestorableStep DEF IInv, Inner, Next, Append
<1>1. CASE c # d \/ c \in torn
  BY <1>1 DEF append_tears, Content, Base
<1>2. CASE c = d /\ c \notin torn
  <2>1. known
    BY <1>0, <1>2 DEF append_tears, Restorable, Touched
  <2>2. Apply(log[c], checkpoint[c]) = Apply(log[c], primary[c])
    BY <1>0, <1>2, <2>1 DEF append_tears, Restorable, Current
  <2>3. Base(c) = primary[c] /\ Base(c)' = checkpoint[c]
    BY <1>0, <1>2 DEF append_tears, Base, TypeOK
  <2>4. Content(c)' = Apply(marker[c], Apply(pending[c], Apply(log[c], checkpoint[c])))
    BY <2>3 DEF append_tears, Content
  <2> QED BY <2>2, <2>3, <2>4 DEF Content
<1> QED BY <1>1, <1>2

(* The append of rows the journal has changes nothing, in a whole file or torn. *)
LEMMA AppendsKeep ==
    ASSUME IInv, NEW d \in Cols, d \notin torn \cap behind, append_in_place(d)
    PROVE  \A c \in Cols : Content(c)' = Content(c)
<1> SUFFICES ASSUME NEW c \in Cols PROVE Content(c)' = Content(c)
  OBVIOUS
<1>0. TypeOK /\ Restorable /\ Appending
  BY DEF IInv, Inner
<1>1. CASE c # d
  BY <1>0, <1>1 DEF append_in_place, Content, Base, TypeOK
<1>2. CASE c = d
  <2>1. Base(c)' = Apply(request[c], primary[c])
    BY <1>0, <1>2 DEF append_in_place, Base, TypeOK
  <2>2. Apply(log[c], Base(c)') = Apply(log[c], primary[c])
    BY <1>0, <2>1, ApplyHides DEF append_in_place, Step, Appending
  <2>3. Apply(log[c], Base(c)) = Apply(log[c], primary[c])
    <3>1. CASE c \in torn
      <4>1. known /\ c \notin behind
        BY <1>0, <1>2, <3>1 DEF Restorable, Touched
      <4> QED BY <1>0, <3>1, <4>1 DEF Restorable, Current, Base
    <3>2. CASE c \notin torn
      BY <3>2 DEF Base
    <3> QED BY <3>1, <3>2
  <2>4. Content(c)' = Apply(marker[c], Apply(pending[c], Apply(log[c], Base(c)')))
    BY DEF append_in_place, Content
  <2> QED BY <2>2, <2>3, <2>4 DEF Content
<1> QED BY <1>1, <1>2

(* A recovery of the append journal changes nothing. *)
LEMMA RecoveriesKeep ==
    ASSUME IInv, Recover
    PROVE  \A c \in Cols : Content(c)' = Content(c)
<1> SUFFICES ASSUME NEW c \in Cols PROVE Content(c)' = Content(c)
  OBVIOUS
<1>0. TypeOK /\ Placed /\ Evidence /\ Recovering
  BY DEF IInv, Inner
<1>1. ASSUME NEW d \in Cols, replay(d) PROVE Content(c)' = Content(c)
  <2>1. CASE c # d
    BY <1>0, <1>1, <2>1 DEF replay, Content, Base, TypeOK
  <2>2. CASE c = d
    <3>1. Base(c)' = Apply(log[c], Base(c))
      BY <1>0, <1>1, <2>2 DEF replay, Base, TypeOK
    <3>2. Content(c)' = Apply(marker[c], Apply(pending[c], Apply(log[c], Base(c)')))
      BY <1>1 DEF replay, Content
    <3> QED BY <3>1, <3>2, ApplyTwice DEF Content
  <2> QED BY <2>1, <2>2
<1>2. ASSUME NEW d \in Cols, refresh_checkpoint_backup(d) PROVE Content(c)' = Content(c)
  <2>1. torn = {}
    BY <1>0, <1>2 DEF refresh_checkpoint_backup, Evidence, Placed
  <2> QED BY <1>2, <2>1 DEF refresh_checkpoint_backup, Content, Base
<1>3. CASE recovered
  <2>1. c \notin torn /\ Apply(log[c], primary[c]) = primary[c] /\ log'[c] = NoJournal
    BY <1>0, <1>3, Kinds DEF recovered, Loops, Recovering, Applied
  <2>2. Base(c) = primary[c] /\ Base(c)' = primary[c]
    BY <1>3, <2>1 DEF recovered, Base
  <2>3. Apply(log'[c], primary[c]) = primary[c]
    BY <1>0, <2>1, ContentTypes, ApplyNothing
  <2>4. Content(c)' = Apply(marker[c], Apply(pending[c], Apply(log'[c], primary[c])))
    BY <1>3, <2>2 DEF recovered, Content
  <2> QED BY <2>1, <2>2, <2>3, <2>4 DEF Content
<1>4. CASE replayed \/ invalidate_checkpoint \/ create_journal
  BY <1>4 DEF replayed, invalidate_checkpoint, create_journal, files, Content, Base
<1> QED BY <1>1, <1>2, <1>3, <1>4 DEF Recover

(* Nor does the way of a pending journal into its file. *)
LEMMA MergesKeep ==
    ASSUME IInv, NEW d \in Cols, write_rows(d) \/ remove_collection_journal(d)
    PROVE  \A c \in Cols : Content(c)' = Content(c)
<1> SUFFICES ASSUME NEW c \in Cols PROVE Content(c)' = Content(c)
  OBVIOUS
<1>0. TypeOK /\ Placed /\ Evidence /\ Rewriting
  BY DEF IInv, Inner
<1>1. stage = "write" /\ task # "none" /\ torn = {} /\ log[c] = NoJournal
  BY <1>0 DEF write_rows, remove_collection_journal, Step, Placed, Evidence, Rewriting
<1>2. marker[c] = NoJournal
  BY <1>1, Unmarked
<1>3. primary[c] \in Rows /\ pending[c] \in Journals
  BY <1>0, ContentTypes
<1>4. Content(c) = Apply(pending[c], primary[c])
  BY <1>0, <1>1, <1>3, Unmarked, ApplyNothing DEF Base
<1>5. \A r \in Rows : Apply(marker[c], Apply(log[c], r)) = r /\ Apply(log[c], r) = r
                      /\ Apply(marker[c], r) = r
  BY <1>1, <1>2, ApplyNothing
<1>6. CASE c # d
  BY <1>0, <1>1, <1>6 DEF write_rows, remove_collection_journal, Content, Base, TypeOK, Edits
<1>7. CASE c = d /\ write_rows(d)
  <2>1. primary'[c] = Apply(pending[c], primary[c])
    BY <1>0, <1>7 DEF write_rows, TypeOK
  <2>2. primary'[c] \in Rows
    BY <1>3, <2>1, ApplyTypes
  <2>3. Content(c)' = Apply(marker[c], Apply(pending[c], Apply(log[c], primary'[c])))
    BY <1>1, <1>7 DEF write_rows, Content, Base
  <2>4. Apply(pending[c], primary'[c]) = primary'[c]
    BY <2>1, ApplyTwice
  <2> QED BY <1>4, <1>5, <2>1, <2>2, <2>3, <2>4
<1>8. CASE c = d /\ remove_collection_journal(d)
  <2>1. pending'[c] = NoJournal /\ Apply(pending[c], primary[c]) = primary[c]
    BY <1>0, <1>8 DEF remove_collection_journal, Rewriting, TypeOK, Edits
  <2>2. Content(c)' = Apply(marker[c], Apply(pending'[c], Apply(log[c], primary[c])))
    BY <1>1, <1>8 DEF remove_collection_journal, Content, Base
  <2>3. Apply(pending'[c], primary[c]) = primary[c]
    BY <1>3, <2>1, ApplyNothing
  <2> QED BY <1>3, <1>4, <1>5, <2>1, <2>2, <2>3
<1> QED BY <1>6, <1>7, <1>8

(* Nor does the way of a marker into the pending journals. *)
LEMMA MarkersKeep ==
    ASSUME IInv, remove_marker \/ \E d \in Cols : append_marked(d)
    PROVE  \A c \in Cols : Content(c)' = Content(c)
<1> SUFFICES ASSUME NEW c \in Cols PROVE Content(c)' = Content(c)
  OBVIOUS
<1>0. TypeOK /\ Recovering
  BY DEF IInv, Inner
<1> DEFINE rows == Apply(log[c], Base(c))
<1>1. ASSUME NEW d \in Cols, append_marked(d) PROVE Content(c)' = Content(c)
  <2>1. CASE c # d
    BY <1>0, <1>1, <2>1 DEF append_marked, Content, Base, TypeOK, Edits
  <2>2. CASE c = d
    <3>1. pending'[c] = Apply(marker[c], pending[c])
      BY <1>0, <1>1, <2>2 DEF append_marked, TypeOK, Edits
    <3>2. Content(c)' = Apply(marker[c], Apply(pending'[c], rows))
      BY <1>1 DEF append_marked, Content, Base
    <3>3. Apply(pending'[c], rows) = Apply(marker[c], Apply(pending[c], rows))
      BY <3>1, ApplyAfter
    <3> QED BY <3>2, <3>3, ApplyTwice DEF Content
  <2> QED BY <2>1, <2>2
<1>2. CASE remove_marker
  <2>1. Apply(marker[c], pending[c]) = pending[c] /\ marker'[c] = NoJournal
    BY <1>0, <1>2, Kinds DEF remove_marker, Loops, Recovering
  <2>2. Content(c) = Apply(pending[c], rows)
    BY <2>1, ApplyAfter DEF Content
  <2>3. Content(c)' = Apply(marker'[c], Apply(pending[c], rows))
    BY <1>2 DEF remove_marker, Content, Base
  <2>4. Apply(pending[c], rows) \in Rows
    BY <1>0, ContentTypes
  <2> QED BY <2>1, <2>2, <2>3, <2>4, ApplyNothing
<1> QED BY <1>1, <1>2

LEMMA FilesKeep == ASSUME UNCHANGED files PROVE \A c \in Cols : Content(c)' = Content(c)
BY DEF files, Content, Base
-----------------------------------------------------------------------------
(* What a step does to the rows, to the running call and to its answer. *)
Kept     == \A c \in Cols : Content(c)' = Content(c)
Changed  == \A c \in Cols : Content(c)' = Apply(request[c], Content(c))
Stutters == Kept /\ request' = request /\ (Written' <=> Written) /\ reply' = reply
Begins   == /\ Kept /\ request = NoEdits /\ request' # NoEdits
            /\ ~Written' /\ reply' = "none"
Writes   == /\ Changed /\ request # NoEdits /\ request' = request
            /\ ~Written /\ Written' /\ reply' = reply
Succeeds == Kept /\ Written /\ request' = NoEdits /\ reply' = "ok"
Fails    == /\ Kept \/ (Changed /\ ~Written)
            /\ request # NoEdits /\ request' = NoEdits /\ reply' \in {"none", "error"}
Restarts == Kept /\ request = NoEdits /\ request' = NoEdits /\ reply' = "none"

Serves == Stutters \/ Begins \/ Writes \/ Succeeds \/ Fails \/ Restarts

(* These are the steps of GroupedWrites. *)
LEMMA ServesGrouped ==
    ASSUME TypeOK, TypeOK', Serves
    PROVE  [Grouped!Next]_<<[c \in Cols |-> Content(c)], request, Written, reply>>
<1> DEFINE table == [c \in Cols |-> Content(c)]
<1>1. Kept => table' = table
  BY DEF Kept
<1>2. Changed => table' = Grouped!Result(request, table)
  BY DEF Changed, Grouped!Result, Apply
<1>3. request' # NoEdits => request' \in Grouped!Calls
  BY DEF TypeOK, Edits, Journals, Grouped!Calls
<1>4. /\ Written \in BOOLEAN /\ Written' \in BOOLEAN
      /\ request = NoEdits => Written = FALSE
      /\ request' = NoEdits => Written' = FALSE
  BY DEF Written
<1> HIDE DEF table
<1>5. CASE Stutters
  BY <1>1, <1>4, <1>5 DEF Stutters, table
<1>6. CASE Begins
  BY <1>1, <1>3, <1>4, <1>6 DEF Begins, Grouped!Next, Grouped!Begin, table
<1>7. CASE Writes
  BY <1>2, <1>4, <1>7 DEF Writes, Grouped!Next, Grouped!Write, table
<1>8. CASE Succeeds
  BY <1>1, <1>4, <1>8 DEF Succeeds, Grouped!Next, Grouped!Succeed, table
<1>9. CASE Fails
  BY <1>1, <1>2, <1>4, <1>9 DEF Fails, Grouped!Next, Grouped!Fail, table
<1>10. CASE Restarts
  BY <1>1, <1>4, <1>10 DEF Restarts, Grouped!Next, Grouped!Restart, table
<1> QED BY <1>5, <1>6, <1>7, <1>8, <1>9, <1>10 DEF Serves

(* The end of a task answers the call, if there is one. *)
LEMMA EndServes ==
    ASSUME Kept, NEW r, Ends(r), \/ r = "ok" /\ (request # NoEdits => Written)
                                 \/ r = "error"
    PROVE  Serves
<1>1. CASE request = NoEdits
  BY <1>1 DEF Ends, Serves, Stutters, Written
<1>2. CASE request # NoEdits
  BY <1>2 DEF Ends, Serves, Succeeds, Fails
<1> QED BY <1>1, <1>2

(* A step within a task between two stages of one kind. *)
LEMMA WithinServes ==
    ASSUME Kept, request' = request, reply' = reply, task' = task,
           \/ stage' = stage
           \/ request = NoEdits
           \/ /\ stage \notin {"apply", "marked", "acknowledge", "replay", "refresh", "prepare"}
              /\ stage' \notin {"apply", "marked", "acknowledge", "replay", "refresh", "prepare"}
    PROVE  Serves
BY DEF Serves, Stutters, Written

(* An append tears, or mends, a file that is behind its checkpoint: the one    *)
(* step that may serve nobody.                                               *)
TearsBehind == \E c \in Cols \cap behind : append_tears(c) \/ (c \in torn /\ append_in_place(c))

LEMMA AppendServes == ASSUME IInv, ~TearsBehind, Append PROVE Serves
<1>0. TypeOK /\ Placed
  BY DEF IInv, Inner
<1>1. ASSUME NEW e \in Appends, append_many_uncached(e) PROVE Serves
  <2>1. Kept
    BY <1>1, FilesKeep DEF append_many_uncached, Begin, Kept
  <2>2. e # NoEdits
    BY ConstantsAssumption DEF ConstantsAssumption
  <2>3. request = NoEdits
    BY <1>0, <1>1 DEF append_many_uncached, Begin, Placed
  <2> QED BY <1>1, <2>1, <2>2, <2>3 DEF append_many_uncached, Begin, Goto, Serves, Begins, Written
<1>2. CASE append_transaction
  <2>1. Changed
    BY <1>2, CommitsWrite DEF Changed
  <2>2. task = "append" /\ request # NoEdits /\ ~Written
    BY <1>0, <1>2 DEF append_transaction, Placed, Written
  <2>3. CASE Goes("apply", targets)
    BY <2>1, <2>2, <2>3 DEF Goes, Goto, Serves, Writes, Written
  <2>4. CASE Ends("error")
    BY <2>1, <2>2, <2>4 DEF Ends, Serves, Fails
  <2> QED BY <1>2, <2>3, <2>4 DEF append_transaction
<1>3. ASSUME NEW c \in Cols, append_tears(c) PROVE Serves
  <2>1. Kept
    BY <1>3, TearsKeep DEF Kept, TearsBehind
  <2> QED BY <1>3, <2>1, WithinServes DEF append_tears, control
<1>4. ASSUME NEW c \in Cols, append_in_place(c) PROVE Serves
  <2>1. Kept
    BY <1>4, AppendsKeep DEF Kept, TearsBehind
  <2> QED BY <1>4, <2>1, WithinServes DEF append_in_place, Step, Goes, Goto
<1>5. CASE append_recovers
  <2>1. Kept /\ task = "append"
    BY <1>0, <1>5, FilesKeep DEF append_recovers, Kept, Placed
  <2> QED BY <1>5, <2>1 DEF append_recovers, Goes, Goto, Serves, Stutters, Written
<1>6. CASE append_ends
  <2>1. Kept /\ (request # NoEdits => Written)
    BY <1>6, FilesKeep DEF append_ends, Loops, Kept, Written
  <2> QED BY <1>6, <2>1, EndServes DEF append_ends, Returns
<1> QED BY <1>1, <1>2, <1>3, <1>4, <1>5, <1>6 DEF Append

LEMMA RecoverServes == ASSUME IInv, Recover PROVE Serves
<1>0. TypeOK /\ Placed
  BY DEF IInv, Inner
<1>1. Kept
  BY RecoveriesKeep DEF Kept
<1> USE DEF Goes, Goto, Loops, Step
<1>2. ASSUME NEW c \in Cols, replay(c) \/ refresh_checkpoint_backup(c) PROVE Serves
  BY <1>1, <1>2, WithinServes DEF replay, refresh_checkpoint_backup
<1>3. CASE replayed
  BY <1>0, <1>1, <1>3 DEF replayed, Serves, Stutters, Written
<1>4. CASE recovered
  <2>1. CASE task = "append" /\ Returns("ok")
    <3>1. request # NoEdits => Written
      BY <1>4, <2>1 DEF recovered, Written
    <3> QED BY <1>1, <2>1, <3>1, EndServes DEF Returns
  <2>2. CASE task = "flush" /\ Returns("ok")
    <3>1. request = NoEdits
      BY <1>0, <2>2 DEF Placed
    <3> QED BY <1>1, <2>2, <3>1, EndServes DEF Returns
  <2>3. CASE task # "append" /\ request' = request /\ reply' = reply /\ task' = task
             /\ stage' \in {"write", "invalidate"}
    BY <1>0, <1>1, <1>4, <2>3 DEF recovered, Serves, Stutters, Written
  <2> QED BY <1>4, <2>1, <2>2, <2>3 DEF recovered
<1>5. CASE invalidate_checkpoint
  BY <1>0, <1>1, <1>5 DEF invalidate_checkpoint, Serves, Stutters, Written
<1>6. CASE create_journal
  <2>1. CASE task = "append"
    BY <1>1, <1>6, <2>1 DEF create_journal, Serves, Stutters, Written
  <2>2. CASE task # "append"
    <3>1. request # NoEdits => Written
      BY <1>0, <1>6, <2>2 DEF create_journal, Placed, Written
    <3> QED BY <1>1, <1>6, <2>2, <3>1, EndServes DEF create_journal, Returns
  <2> QED BY <2>1, <2>2
<1> QED BY <1>2, <1>3, <1>4, <1>5, <1>6 DEF Recover

LEMMA JournalServes == ASSUME IInv, Journal PROVE Serves
<1>0. TypeOK /\ Placed
  BY DEF IInv, Inner
<1> USE DEF Goes, Goto, Loops, Step
<1>1. ASSUME NEW c \in Cols, write_rows(c) \/ remove_collection_journal(c) PROVE Serves
  <2>1. Kept
    BY <1>1, MergesKeep DEF Kept
  <2> QED BY <1>1, <2>1, WithinServes DEF write_rows, remove_collection_journal
<1>2. CASE journals_written
  <2>1. Kept /\ request = NoEdits
    BY <1>0, <1>2, FilesKeep DEF journals_written, Kept, Placed
  <2> QED BY <1>2, <2>1, EndServes, WithinServes DEF journals_written, Returns
<1>3. ASSUME NEW K \in SUBSET Cols, flush(K) \/ update_collections_atomically(K) PROVE Serves
  <2>1. Kept /\ request = NoEdits
    BY <1>0, <1>3, FilesKeep DEF flush, update_collections_atomically, Begin, Kept, Placed
  <2> QED BY <1>3, <2>1 DEF flush, update_collections_atomically, Begin, Serves, Stutters, Written
<1>4. ASSUME NEW e \in Replacements, update_asks(e) PROVE Serves
  <2>1. Kept /\ request = NoEdits /\ e # NoEdits
    BY <1>0, <1>4, FilesKeep, ConstantsAssumption DEF update_asks, Kept, Placed, ConstantsAssumption
  <2> QED BY <1>4, <2>1 DEF update_asks, Serves, Begins, Written
<1>5. CASE update_ends
  <2>1. Kept /\ request = NoEdits
    BY <1>0, <1>5, FilesKeep DEF update_ends, Kept, Placed
  <2> QED BY <1>5, <2>1, EndServes DEF update_ends, Returns
<1>6. CASE install_prepared_collection_replacements
  <2>1. Changed
    BY <1>6, CommitsWrite DEF Changed
  <2>2. task = "install" /\ request # NoEdits
    BY <1>0, <1>6 DEF install_prepared_collection_replacements, Placed
  <2> QED BY <1>6, <2>1, <2>2
          DEF install_prepared_collection_replacements, Serves, Writes, Written
<1> QED BY <1>1, <1>2, <1>3, <1>4, <1>5, <1>6 DEF Journal

LEMMA WriteServes == ASSUME IInv, Write PROVE Serves
<1>0. TypeOK /\ Placed
  BY DEF IInv, Inner
<1> USE DEF Goes, Goto, Loops, Step
<1>1. ASSUME NEW e \in Upserts, upsert_many_journaled(e) PROVE Serves
  <2>1. Kept /\ request = NoEdits /\ e # NoEdits
    BY <1>0, <1>1, FilesKeep, ConstantsAssumption
       DEF upsert_many_journaled, Begin, Kept, Placed, ConstantsAssumption
  <2> QED BY <1>1, <2>1 DEF upsert_many_journaled, Begin, Serves, Begins, Written
<1>2. ASSUME NEW c \in Cols, NEW j \in Changes, write_collection(c, j) PROVE Serves
  <2>1. Kept /\ request = NoEdits
    BY <1>0, <1>2, FilesKeep DEF write_collection, Begin, Kept, Placed
  <2>2. [NoEdits EXCEPT ![c] = j] # NoEdits
    BY ConstantsAssumption DEF NoEdits, ConstantsAssumption
  <2> QED BY <1>2, <2>1, <2>2 DEF write_collection, Begin, Serves, Begins, Written
<1>3. CASE commit \/ append_collection_mutation
  <2>1. Changed
    BY <1>3, CommitsWrite DEF Changed
  <2>2. task \in {"upsert", "change"} /\ request # NoEdits
    BY <1>0, <1>3 DEF commit, append_collection_mutation, Placed
  <2> QED BY <1>3, <2>1, <2>2 DEF commit, append_collection_mutation, Serves, Writes, Written
<1>4. ASSUME NEW c \in Cols, append_marked(c) PROVE Serves
  <2>1. Kept
    BY <1>4, MarkersKeep DEF Kept
  <2> QED BY <1>4, <2>1, WithinServes DEF append_marked
<1>5. CASE remove_marker
  <2>1. Kept
    BY <1>5, MarkersKeep DEF Kept
  <2>2. CASE task = "start"
    <3>1. request = NoEdits
      BY <1>0, <2>2 DEF Placed
    <3> QED BY <1>5, <2>1, <2>2, <3>1, WithinServes DEF remove_marker
  <2>3. CASE task # "start"
    BY <1>5, <2>1, <2>3, EndServes DEF remove_marker, Returns, Written
  <2> QED BY <2>2, <2>3
<1>6. CASE change_ends
  <2>1. Kept /\ (request # NoEdits => Written)
    BY <1>6, FilesKeep DEF change_ends, Kept, Written
  <2> QED BY <1>6, <2>1, EndServes DEF change_ends, Returns
<1> QED BY <1>1, <1>2, <1>3, <1>4, <1>5, <1>6 DEF Write

LEMMA TroubleServes ==
    ASSUME IInv, mark_recovery_required \/ call_fails \/ Crash \/ start PROVE Serves
<1>1. Kept
  BY FilesKeep DEF mark_recovery_required, call_fails, Crash, start, Kept
<1>2. CASE mark_recovery_required \/ call_fails
  BY <1>1, <1>2, EndServes DEF mark_recovery_required, call_fails, Returns
<1>3. CASE Crash
  BY <1>1, <1>3 DEF Crash, Serves, Fails, Restarts
<1>4. CASE start
  <2>1. request = NoEdits
    BY <1>4 DEF start, IInv, Inner, Placed
  <2> QED BY <1>1, <1>4, <2>1, WithinServes DEF start, Goes, Goto
<1> QED BY <1>2, <1>3, <1>4

LEMMA NextServes ==
    IInv /\ [Next]_vars =>
        TearsBehind \/ [Grouped!Next]_<<[c \in Cols |-> Content(c)], request, Written, reply>>
<1> SUFFICES ASSUME IInv, [Next]_vars, ~TearsBehind
             PROVE  [Grouped!Next]_<<[c \in Cols |-> Content(c)], request, Written, reply>>
  OBVIOUS
<1>1. TypeOK /\ TypeOK'
  BY Inductive DEF IInv
<1>2. CASE Next
  BY <1>1, <1>2, AppendServes, RecoverServes, JournalServes, WriteServes, TroubleServes, ServesGrouped
     DEF Next
<1>3. CASE UNCHANGED vars
  <2>1. Serves
    BY <1>3, FilesKeep DEF vars, control, Serves, Stutters, Kept, Written
  <2> QED BY <1>1, <2>1, ServesGrouped
<1> QED BY <1>2, <1>3

(* Without any hypothesis: an append that is interrupted in a file behind its   *)
(* checkpoint is the only step, of all flushes, recoveries, failures, crashes *)
(* and starts, that changes rows nobody has asked to change, or changes those *)
(* of a call in parts.                                                       *)
NothingElseLosesRows ==
    [][TearsBehind \/ [Grouped!Next]_<<[c \in Cols |-> Content(c)], request, Written, reply>>]_vars

THEOREM OnlyStaleTearsLoseRows == Spec => NothingElseLosesRows
BY Invariance, NextServes, PTL DEF Spec, NothingElseLosesRows

(* A call's rows of several collections are one write, whatever fails and       *)
(* wherever the process dies, and nothing else changes a row: the journals    *)
(* implement GroupedWrites for any collections, ids and calls, as long as no  *)
(* append is interrupted in a file behind its checkpoint.                    *)
THEOREM JournalsImplementGroupedWrites == ASSUME ~StaleTears PROVE Spec => ImplementsGroupedWrites
<1>1. Init => Grouped!Init
  <2> SUFFICES ASSUME Init PROVE Grouped!Init
    OBVIOUS
  <2>1. TypeOK
    BY InitInv DEF IInv
  <2>2. [c \in Cols |-> Content(c)] \in Grouped!Tables
    BY <2>1, ContentTypes DEF Grouped!Tables, Rows
  <2> QED BY <2>2 DEF Init, Grouped!Init, Written
<1>2. IInv => ~TearsBehind
  BY DEF IInv, Inner, Appending, TearsBehind, append_tears, append_in_place, Step
<1> QED BY <1>1, <1>2, NextServes, Invariance, PTL DEF Spec, ImplementsGroupedWrites, Grouped!Spec
=============================================================================
