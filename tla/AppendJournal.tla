---------------------------- MODULE AppendJournal ----------------------------
(* The two journals that make a write of several collections one write        *)
(* (crates/storage/src/append_journal.rs, upsert_transaction.rs and their     *)
(* callers in lib.rs), over the pending journals of the collections.          *)
(*                                                                           *)
(* New messages and their swipes are appended to the files in place.  A crash *)
(* may tear a file that is being appended to; the entry the append journal    *)
(* has of it by then and the checkpoint of the file from before the first     *)
(* entry restore it.  The append journal's file also marks the checkpoint as  *)
(* made.  A grouped upsert is a marker file, copied into pending journals.    *)
(*                                                                           *)
(* Every task runs under the write gate's permit, so there is one at a time   *)
(* (WriteGate); caches are CollectionStore's subject, and the steps of an     *)
(* installation CollectionTransaction's.  Journal entries are written whole:  *)
(* a start that finds half an entry stops for good.                          *)
(*                                                                           *)
(* A definition named Faulty_... is a variant with a bug, for the mutation    *)
(* runs only.                                                                *)
CONSTANTS
    Cols, Ids, Values, NoRow, Untouched,   \* as in GroupedWrites
    Appends,       \* what calls of append_many_uncached append
    Upserts,       \* what grouped upserts write
    Changes,       \* what the other calls write to one pending journal
    Replacements,  \* what atomic updates change
    StaleTears     \* an append is also interrupted in a file behind its checkpoint

Rows     == [Ids -> Values \cup {NoRow}]
Journals == [Ids -> Values \cup {NoRow, Untouched}]
NoJournal == [i \in Ids |-> Untouched]
NoEdits  == [c \in Cols |-> NoJournal]
Edits    == [Cols -> Journals]
Upserted == [Cols -> [Ids -> Values \cup {Untouched}]]

ASSUME ConstantsAssumption ==
    /\ NoRow \notin Values
    /\ Untouched \notin Values \cup {NoRow}
    /\ Appends \subseteq Upserted \ {NoEdits}
    /\ Upserts \subseteq Upserted \ {NoEdits}
    /\ Changes \subseteq Journals \ {NoJournal}
    /\ Replacements \subseteq Edits \ {NoEdits}
    /\ StaleTears \in BOOLEAN

VARIABLES
    primary,     \* the rows of each <collection>.json, when it can be read
    torn,        \* the files that cannot: torn by an append, or moved aside
    checkpoint,  \* the rows of each <collection>.append-checkpoint.bak
    known,       \* the append journal's file is there
    log,         \* its entries: the last word on each id
    pending,     \* the same of each <collection>.pending.jsonl
    marker,      \* the grouped upsert's file; NoEdits if there is none
    behind,      \* history: files a journal was merged into behind their checkpoint
    closed,      \* recovery_required of the write gate
    task,        \* what runs
    stage,       \* where it is
    todo,        \* the collections left of the loop it is in
    merged,      \* the one whose file has the journal that is still there
    targets,     \* the collections it is for
    request,     \* the rows its caller has asked for
    reply        \* the answer to the last call

files   == <<primary, torn, checkpoint, known, log, pending, marker, behind>>
control == <<task, stage, todo, merged, targets>>
vars    == <<files, closed, control, request, reply>>

TypeOK ==
    /\ primary \in [Cols -> Rows] /\ checkpoint \in [Cols -> Rows]
    /\ torn \in SUBSET Cols /\ behind \in SUBSET Cols
    /\ known \in BOOLEAN /\ closed \in BOOLEAN
    /\ log \in Upserted /\ marker \in Upserted
    /\ pending \in Edits /\ request \in Edits
    /\ task \in {"none", "start", "append", "upsert", "change", "flush", "update", "install"}
    /\ stage \in {"idle", "down", "marked", "replay", "refresh", "write", "prepare", "log",
                  "apply", "commit", "entry", "acknowledge", "invalidate", "run", "install"}
    /\ todo \in SUBSET Cols /\ merged \in SUBSET Cols /\ targets \in SUBSET Cols
    /\ reply \in {"none", "ok", "error"}

(* A new data directory, before the first start. *)
Init ==
    /\ primary = [c \in Cols |-> [i \in Ids |-> NoRow]]
    /\ checkpoint = primary
    /\ torn = {} /\ behind = {}
    /\ known = FALSE /\ closed = FALSE
    /\ log = NoEdits /\ pending = NoEdits /\ marker = NoEdits
    /\ task = "start" /\ stage = "down"
    /\ todo = {} /\ merged = {} /\ targets = {}
    /\ request = NoEdits /\ reply = "none"
----------------------------------------------------------------------------
(* Rows, or a journal, with the entries of journal j after them. *)
Apply(j, rows) == [i \in Ids |-> IF j[i] = Untouched THEN rows[i] ELSE j[i]]
ApplyAll(e, rows) == [c \in Cols |-> Apply(e[c], rows[c])]

Touched(e) == {c \in Cols : e[c] # NoJournal}

(* base_rows: the file, or its checkpoint if it cannot be read. *)
Base(c) == IF c \in torn THEN checkpoint[c] ELSE primary[c]

(* What the files say of a collection: what a start makes of them. *)
Content(c) == Apply(marker[c], Apply(pending[c], Apply(log[c], Base(c))))

(* The ids of created messages and swipes are new: nothing names them yet. *)
New(e) ==
    \A c \in Cols, i \in Ids : e[c][i] # Untouched =>
        /\ primary[c][i] = NoRow /\ checkpoint[c][i] = NoRow
        /\ log[c][i] = Untouched /\ pending[c][i] = Untouched /\ marker[c][i] = Untouched

Begin(t, K, e) ==
    /\ task = "none" /\ ~closed
    /\ task' = t /\ targets' = K
    /\ request' = e
    /\ reply' = IF e = NoEdits THEN reply ELSE "none"
    /\ UNCHANGED <<files, closed, merged>>

Goto(s, loop) == stage' = s /\ todo' = loop

(* Within a task. *)
Goes(s, loop) ==
    /\ Goto(s, loop)
    /\ UNCHANGED <<task, merged, targets, closed, request, reply>>

(* The end of a task; a start and a flush have no caller to answer. *)
Ends(r) ==
    /\ task' = "none" /\ Goto("idle", {})
    /\ merged' = {} /\ targets' = {}
    /\ request' = NoEdits
    /\ reply' = IF request = NoEdits THEN reply ELSE r

Returns(r) == Ends(r) /\ UNCHANGED closed

Step(s, c) == stage = s /\ c \in todo
Loops(s)   == stage = s /\ todo = {}
----------------------------------------------------------------------------
(* append_many_uncached_locked: the checkpoint if there is none yet, the      *)
(* journal entry, which commits, and the append to each file.                *)
append_many_uncached(e) ==
    /\ New(e)
    /\ Begin("append", Touched(e), e)
    /\ IF known THEN Goto("log", {}) ELSE Goto("prepare", Cols)

append_transaction ==
    /\ stage = "log"
    /\ log' = ApplyAll(request, log)
    /\ UNCHANGED <<primary, torn, checkpoint, known, pending, marker, behind>>
    /\ \/ Goes("apply", targets)
       \/ closed' = TRUE /\ Ends("error")      \* written, but not synchronized

(* append_to_collection_file_in_place, in the middle and at its end. *)
append_tears(c) ==
    /\ Step("apply", c)
    /\ StaleTears \/ c \notin behind
    /\ torn' = torn \cup {c}
    /\ UNCHANGED <<primary, checkpoint, known, log, pending, marker, behind,
                   closed, control, request, reply>>

append_in_place(c) ==
    /\ Step("apply", c)
    /\ primary' = [primary EXCEPT ![c] = Apply(request[c], @)]
    /\ torn' = torn \ {c}
    /\ Goes("apply", todo \ {c})
    /\ UNCHANGED <<checkpoint, known, log, pending, marker, behind>>

(* An append fails, whatever it has torn: the journal is replayed at once. *)
append_recovers ==
    /\ stage = "apply" /\ todo # {}
    /\ Goes("replay", Touched(log))
    /\ UNCHANGED files

append_ends == Loops("apply") /\ Returns("ok") /\ UNCHANGED files
----------------------------------------------------------------------------
(* append_journal::recover: the files of all entries are written anew, then   *)
(* their checkpoints, then the journal is emptied.                           *)
Faulty_replay(c) ==                 \* rows already in the file are lost with it
    /\ Step("replay", c)
    /\ primary' = [primary EXCEPT ![c] = Base(c)]
    /\ torn' = torn \ {c}
    /\ Goes("replay", todo \ {c})
    /\ UNCHANGED <<checkpoint, known, log, pending, marker, behind>>

replay(c) ==
    /\ Step("replay", c)
    /\ primary' = [primary EXCEPT ![c] = Apply(log[c], Base(c))]
    /\ torn' = torn \ {c}
    /\ Goes("replay", todo \ {c})
    /\ UNCHANGED <<checkpoint, known, log, pending, marker, behind>>

replayed == Loops("replay") /\ Goes("refresh", Touched(log)) /\ UNCHANGED files

refresh_checkpoint_backup(c) ==
    /\ stage \in {"refresh", "prepare"} /\ c \in todo
    /\ checkpoint' = [checkpoint EXCEPT ![c] = primary[c]]
    /\ behind' = behind \ {c}
    /\ Goes(stage, todo \ {c})
    /\ UNCHANGED <<primary, torn, known, log, pending, marker>>

Pending(K) == {c \in K : pending[c] # NoJournal}

recovered ==
    /\ Loops("refresh")
    /\ log' = NoEdits
    /\ UNCHANGED <<primary, torn, checkpoint, known, pending, marker, behind>>
    /\ \/ task = "start" /\ Goes("write", Pending(Cols))
       \/ task = "update" /\ Goes("write", Pending(targets))
       \/ task = "flush" /\ targets # {} /\ Goes("invalidate", {})
       \/ task = "install" /\ Goes("invalidate", {})
       \/ task = "append" /\ Returns("ok")
       \/ task = "flush" /\ targets = {} /\ Returns("ok")

(* Before files are replaced the checkpoint is given up. *)
Faulty_invalidate ==                \* the checkpoint stays, and stays behind
    /\ stage = "invalidate"
    /\ IF task = "flush" THEN Goes("write", targets) ELSE Goes("install", {})
    /\ UNCHANGED files

invalidate_checkpoint ==
    /\ stage = "invalidate"
    /\ known' = FALSE
    /\ IF task = "flush" THEN Goes("write", targets) ELSE Goes("install", {})
    /\ UNCHANGED <<primary, torn, checkpoint, log, pending, marker, behind>>

(* The last step of initialize_checkpoint and prepare_known_checkpoint. *)
create_journal ==
    /\ Loops("prepare")
    /\ known' = TRUE
    /\ UNCHANGED <<primary, torn, checkpoint, log, pending, marker, behind>>
    /\ IF task = "append" THEN Goes("log", {}) ELSE Returns("ok")
----------------------------------------------------------------------------
(* The pending journal of a collection goes into its file, in a flush         *)
(* (write_collection_file) after the checkpoint was given up, at a start and  *)
(* before an atomic update (recover_collection_journal) without a word to it. *)
write_rows(c) ==
    /\ Step("write", c) /\ merged = {}
    /\ primary' = [primary EXCEPT ![c] = Apply(pending[c], @)]
    /\ behind' = IF known THEN behind \cup {c} ELSE behind
    /\ merged' = {c}
    /\ UNCHANGED <<torn, checkpoint, known, log, pending, marker, closed,
                   task, stage, todo, targets, request, reply>>

remove_collection_journal(c) ==
    /\ stage = "write" /\ c \in merged
    /\ pending' = [pending EXCEPT ![c] = NoJournal]
    /\ merged' = {}
    /\ todo' = todo \ {c}
    /\ UNCHANGED <<primary, torn, checkpoint, known, log, marker, behind, closed,
                   task, stage, targets, request, reply>>

journals_written ==
    /\ Loops("write")
    /\ UNCHANGED files
    /\ \/ task = "start" /\ ~known /\ Goes("prepare", Cols)
       \/ task = "start" /\ known /\ Returns("ok")
       \/ task = "flush" /\ Returns("ok")
       \/ task = "update" /\ Goes("run", {})

(* flush, and the flush of dirty rows other calls begin with. *)
flush(K) == Begin("flush", K, NoEdits) /\ Goto("replay", Touched(log))

(* update_collections_atomically: pending journals first, if there are any;   *)
(* the closure, which may ask for no write; the installation of its rows.     *)
update_collections_atomically(K) ==
    /\ Begin("update", K, NoEdits)
    /\ IF Pending(K) = {} THEN Goto("run", {}) ELSE Goto("replay", Touched(log))

update_ends == stage = "run" /\ Returns("ok") /\ UNCHANGED files

update_asks(e) ==
    /\ stage = "run" /\ Touched(e) \subseteq targets
    /\ task' = "install" /\ Goto("replay", Touched(log))
    /\ request' = e /\ reply' = "none"
    /\ UNCHANGED <<files, closed, merged, targets>>

install_prepared_collection_replacements ==
    /\ stage = "install"
    /\ primary' = ApplyAll(request, primary)
    /\ Goes("prepare", Cols)
    /\ UNCHANGED <<torn, checkpoint, known, log, pending, marker, behind>>
----------------------------------------------------------------------------
(* upsert_many_journaled_locked: the marker commits; a start finishes it. *)
upsert_many_journaled(e) == Begin("upsert", Touched(e), e) /\ Goto("commit", {})

Faulty_commit ==                    \* takes the journals' entries along
    /\ stage = "commit"
    /\ marker' = ApplyAll(request, pending)
    /\ Goes("marked", targets)
    /\ UNCHANGED <<primary, torn, checkpoint, known, log, pending, behind>>

commit ==
    /\ stage = "commit"
    /\ marker' = request
    /\ Goes("marked", targets)
    /\ UNCHANGED <<primary, torn, checkpoint, known, log, pending, behind>>

append_marked(c) ==
    /\ Step("marked", c)
    /\ pending' = [pending EXCEPT ![c] = Apply(marker[c], @)]
    /\ Goes("marked", todo \ {c})
    /\ UNCHANGED <<primary, torn, checkpoint, known, log, marker, behind>>

remove_marker ==
    /\ Loops("marked")
    /\ marker' = NoEdits
    /\ UNCHANGED <<primary, torn, checkpoint, known, log, pending, behind>>
    /\ IF task = "start" THEN Goes("replay", Touched(log)) ELSE Returns("ok")

(* One entry in one pending journal (write_collection, update_record_journaled). *)
write_collection(c, j) ==
    Begin("change", {c}, [NoEdits EXCEPT ![c] = j]) /\ Goto("entry", {})

append_collection_mutation ==
    /\ stage = "entry"
    /\ pending' = ApplyAll(request, pending)
    /\ Goes("acknowledge", {})
    /\ UNCHANGED <<primary, torn, checkpoint, known, log, marker, behind>>

change_ends == stage = "acknowledge" /\ Returns("ok") /\ UNCHANGED files
----------------------------------------------------------------------------
(* A file operation fails.  An append or a grouped upsert that cannot be      *)
(* finished closes the store until the next start ...                        *)
mark_recovery_required ==
    /\ \/ task = "append" /\ stage # "apply"
       \/ task = "upsert"
    /\ closed' = TRUE
    /\ Ends("error")
    /\ UNCHANGED files

(* ... any other call fails alone. *)
call_fails ==
    /\ \/ task \in {"flush", "update", "install"}
       \/ stage = "entry"
       \/ task = "append" /\ Loops("apply")    \* the last sync of the directory
    /\ Returns("error")
    /\ UNCHANGED files

(* The process dies, in the middle of a start too, or a start fails. *)
Crash ==
    /\ task' = "start" /\ Goto("down", {})
    /\ merged' = {} /\ targets' = {}
    /\ closed' = FALSE
    /\ request' = NoEdits /\ reply' = "none"
    /\ UNCHANGED files

start == stage = "down" /\ Goes("marked", Touched(marker)) /\ UNCHANGED files

Append == \/ \E e \in Appends : append_many_uncached(e)
          \/ append_transaction \/ append_recovers \/ append_ends
          \/ \E c \in Cols : append_tears(c) \/ append_in_place(c)

Recover == \/ \E c \in Cols : replay(c) \/ refresh_checkpoint_backup(c)
           \/ replayed \/ recovered \/ invalidate_checkpoint \/ create_journal

Journal == \/ \E c \in Cols : write_rows(c) \/ remove_collection_journal(c)
           \/ journals_written
           \/ \E K \in SUBSET Cols : flush(K) \/ update_collections_atomically(K)
           \/ \E e \in Replacements : update_asks(e)
           \/ update_ends \/ install_prepared_collection_replacements

Write == \/ \E e \in Upserts : upsert_many_journaled(e)
         \/ \E c \in Cols : append_marked(c)
         \/ \E c \in Cols, j \in Changes : write_collection(c, j)
         \/ commit \/ remove_marker \/ append_collection_mutation \/ change_ends

Next == Append \/ Recover \/ Journal \/ Write
        \/ mark_recovery_required \/ call_fails \/ Crash \/ start

Spec == Init /\ [][Next]_vars
----------------------------------------------------------------------------
(* The evidence is never given up too early: a file that cannot be read has   *)
(* entries in the journal, so that recovery will rewrite it, and the marked   *)
(* checkpoint with these entries is what was acknowledged of it.             *)
TornIsRestorable ==
    \A c \in torn : known /\ log[c] # NoJournal /\ (c \notin behind
                        => Apply(log[c], checkpoint[c]) = Apply(log[c], primary[c]))

(* The rows of the running call are in the files. *)
Written ==
    /\ request # NoEdits
    /\ \/ stage \in {"apply", "marked", "acknowledge"}
       \/ task = "append" /\ stage \in {"replay", "refresh"}
       \/ task = "install" /\ stage = "prepare"

Grouped == INSTANCE GroupedWrites WITH
    NoCall <- NoEdits, table <- [c \in Cols |-> Content(c)],
    call <- request, written <- Written

(* The two journals make a call's rows of several collections one write: it   *)
(* takes effect at once, is acknowledged only when it has, and survives every *)
(* flush, recovery, crash and start after it, as all other rows do.           *)
ImplementsGroupedWrites == Grouped!Spec
=============================================================================
