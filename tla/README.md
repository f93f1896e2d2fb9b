# Formal models of De-Koi

TLA+ models of the concurrent and crash-sensitive parts of De-Koi, checked with
TLC on small instances and, for the safety properties, proved with TLAPS for all
values of the constants. Paths below are relative to the repository root, which
`PROJECT.json` calls `src/`.

`PROJECT.json` lists the components, the runs, a fault for every checked
property (`mutants`), the source lines behind every definition (`map`), the
disagreements found (`findings`), the hazards and the theorems.

    tlc -workers 2 -config MCWriteGate.cfg MCWriteGate     # a run
    tlapm WriteGate_proofs.tla                              # the proofs of a module

## 1. The system

De-Koi is a local-first AI chat application. A Rust runtime (`src-tauri/`, a
desktop application or an HTTP server) keeps every collection in JSON files and
answers commands; TypeScript clients (`src/`, a desktop window or any number of
browser tabs) assemble prompts, run generations and do background work. A server
with several tabs has this concurrency: request threads and a flush thread
inside the runtime; tabs that close, reload, sleep or time out outside it; and a
process that can die between any two file operations.

| Component | State it keeps | Operations | What makes it correct | Hard because |
|---|---|---|---|---|
| Write gate (`crates/storage/src/write_gate.rs`) | owners, counters of writers and waiters, recovery flag | `begin_write`, `begin_atomic_update`, `begin_exclusive`, drop of a permit, `mark_recovery_required` | one mutating thread, isolated sections, queued transactions run, no lost wakeup | three wait conditions on one condition variable, error paths after a wait |
| Collection journal, cache, flush (`lib.rs`, `journal.rs`, `cache.rs`) | `<c>.json`, `<c>.pending.jsonl`, cached rows (clean or dirty), flush flag | CRUD, record-local journal writes, immediate create, atomic update, import, pruning, flush, list | an acknowledged row survives until a call changes it; caches never hide or undo one | slow disk work outside the lock, listings that fill the cache, crashes between file and journal |
| Replacement transactions (`transaction.rs`) | manifest with phase, temporary and backup files | prepare, install, roll back, commit, recover | all collections change or none | a crash between any two renames |
| Append journal (`append_journal.rs`) | journal of appends, a checkpoint per collection | append, recover, refresh and invalidate the checkpoint | rows are appended exactly once, in all collections of the call; nothing older comes back | replay over partly appended or torn files; other writers of the same files |
| Grouped upserts (`upsert_transaction.rs`) | marker file and entries | commit, recover | all collections' journals get their entries or none | crash between marker and journals |
| Streaming rewrites (`streaming.rs`) | temporary file, stamp of the visit | filter, transform, visit | concurrent changes are refused | rows are selected in one call and removed in another; journals that are still pending |
| Read models, change feed | derived SQLite rows, indexes, events | rebuild, invalidate | equal to their source | staleness stamps |
| Background jobs (`commands/storage/background_jobs.rs`, `state.rs`, `engine/generation/background-job-queue.ts`) | stored jobs, a worker lease per queue, per-tab passes | enqueue, claim, finish, acquire/release worker, schedule | no trigger lost, held jobs wait, one recorded outcome per claim, every job ends | lapsing leases and holds, closing tabs, lost answers, restarts |
| Turn holds (`engine/generation/start-generation.ts`) | hold id and renewal timer of a turn | place, renew, release | a job reads a finished turn only | closed tabs, late renewals |
| Continuity Director (`engine/modes/roleplay/continuity-director/`) | the Director's plan, revision and attempt in a chat's metadata; runs and queues of each tab | schedule, decide, claim, plan, record a failure, user commands | a plan replaces only what its run has seen; claims settle; requests are answered | reads and writes around a model call, in several tabs, with resumed jobs |
| Memory leases and queues (`state.rs`, `memory_capture.rs`, `memory_maintenance/`, `automatic-memory-*-queue.ts`) | two leases, job records | acquire, claim, checkpoint, finish | late results refused | stale reads across model calls |
| Deki approvals (`deki/approvals.rs`) | pending and past approvals | dry run, approve, reject, expire | applied at most once, to an unchanged record | two clients decide at once |
| Stream cancellation (`state.rs`) | streams and early cancels | register, cancel, remove | a cancel is honoured whenever it comes | cancel before register, expiry |
| Generation, post-reply work, Deki loop, fanfic, sidecar, HTTP server, remote client, migrations, import/backup, supervisor, updater, UI, Home Assistant | see `PROJECT.json` | | | mostly sequential, data or platform |

Interactions: every storage mutation takes a permit of the **write gate**, then
the global `RwLock`, then the cache lock; background jobs, memory jobs,
approvals and swipes are rows of **collections**; **turn holds** are fields of
jobs; the **clients** reach all of it by requests that can fail or be answered
late.

## 2. Plan

Order of the modules, most important behaviour first (done: 1-7):

1. `WriteGate` implements `WriteSections` - who may mutate.
2. `CollectionStore` - what survives in one collection: rows change by the calls that change
   them and by nothing else; relying on 1 for a single permit holder.
3. `CollectionTransaction` implements `AtomicReplacement` - what survives when
   several collections are replaced at once; it is the step `update_install` and
   the imports of 2 in detail.
4. `BackgroundJobs` implements `TriggerBoard` - what the clients' work queue
   promises, relying on 2 for atomic, durable job rows.
5. `ContinuityDirector` implements `PlanBoard` - planning by several tabs,
   started by the queue of 4 and writing conditionally through 2.
6. `MemoryMaintenance` - one chat's maintenance job, its enqueuers, the lease with its
   fence and the clients that drain it; its batches are atomic by 2.
7. `AppendJournal` implements `GroupedWrites` - appends and grouped upserts of several
   collections, over the pending journals of 2; a permit holder at a time by 1.
8. Left: `FileStorage`, composing 2, 3 and 7 for two collections; the capture and the consolidation queue in the
   form of 6; `DekiApprovals` (two clients, one record); `StreamCancellation`;
   `PostReplyWork`; `DetachedReply`.

## 3. Modules

Conventions: operators carry the source's names; an action's comment says what
the source does at that point. A definition `Faulty_x` is `x` with a plausible
bug in it; no specification refers to one, the mutation runs put it in x's place
to show that a property would notice. Abstract specifications are
modules of their own; proofs are in `*_proofs`; instances for TLC in `MC*`.

### WriteGate

`atomic_owner` ... `recovery_required` are the fields of `WriteGateState`; `held`
is the set of permits a thread has not dropped, `pc` where it is in one of the
three functions, `sleeping` the condition variable's wait set. The mutex is held
from a function's entry to its return or wait, so a turn of a loop is one step;
a wait and the next evaluation are two. Callers: no caller keeps an ordinary
permit across another call of the gate (they are locals of one storage
function), and permits are dropped inside out. The closure of an atomic update
may call again, and is refused.

Not modelled: spurious wakeups (with them no wakeup could be seen to be lost),
mutex poisoning, and the counters' width: the counts are bounded by the
threads.

`WriteSections` knows a writer, a section and a closed flag only.

### CollectionStore

One collection. `primary` is `<c>.json`; `journal` maps an id to the last thing
`<c>.pending.jsonl` says of it (replaying a journal of upserts and deletes
gives, per id, the last entry, and replaying it twice changes nothing more);
`cache` is the cached rows; `permit` is the place of the permit's holder;
`list[l]` a listing under the shared lock; `flush_scheduled` and `recheck` the
deferred flush's flag and the gap between the thread's last two statements.
Mutations under the exclusive lock are one step where they touch one file and
more where they touch two (`create_immediate`, the flushes, the recoveries), so
that a crash fits between. `flush_deferred` and the atomic update's preparation
hold no lock and interleave with listings. `Crash` clears memory at any point,
recovery included; the start recovers the journal before anything else.

`kind` says what the program does with the collection, and never changes: whether it
takes record-local journal writes (chats, messages, message-swipes, ...: a journal
without a dirty cache), whether it is a target of `update_collections_atomically`,
whether it is pruned (`character-versions`), who lists it cold, and what an import may install in it. `Kinds` are the
uses an instance looks at.

`retention` is a pruning between its two calls: the rows of the file it has visited.
Which of them its policy selects is any set; the filter removes them if the file is still
the one visited. Both calls flush dirty rows first and under the same lock, which is
`flush_begin` and `flush` with nothing in between. One pruning at a time is a bound.

Abstractions: record contents are two values; a stamp is what it is a stamp of; eviction and compaction policy are
nondeterministic; the installation of a prepared replacement is one step (`CollectionTransaction`
has its manifest and renames); appends through the append journal and grouped
upserts have the effect of a record-local write; entries are appended whole;
an unreadable primary and its repair, id indexes, projections and read models
are left out; `replace_all` serves startup migrations and `clear_all` the
administrator's reset, and neither is modelled. Bound: one flush thread at a time between its last two
statements.

`Content`, the journal applied to the file, is what the collection promises of its rows; `Called` and
`Pruned` name the steps that may change it, each with the change it may make. There is no abstract
specification, because a table of rows alone could not tell a change that was asked for from one that was not.

### CollectionTransaction

The installation of staged files for several collections and everything that can
follow: rollback, the commit mark, the clean-up, and the recovery of a start or of
a failed commit mark. `disk` has each collection's primary and, for each manifest of
`Txns`, its phase, its entries, which primaries existed and the backups; a manifest that an
error path has left behind stays beside the one that is written next, and a recovery takes them in the order
of their ids. `pc` names the statement to come; `goal` is the tables the caller
asked for. One operation on a file is one step.

Faults: every operation may fail, and takes the error path the code has for it.
Operations reach the disk in their order, at any time after they are made (`WriteBack`):
`durable` is what a power loss leaves. On unix `sync_directory` makes sure that they have. On Windows it
does nothing, since directories cannot be flushed there (`transaction.rs:631-636`): `Syncs` is the
choice between the two. A crash or a power loss may come anywhere, recoveries included, and
recoveries may fail and start again.

`Overlaps` is a restriction on the callers that the code does not make: the phases of leftover manifests
whose collections are replaced again. The code replaces over any, and so is
`Overlaps = {"prepared", "committed"}`. What goes wrong over each kind of leftover differs, so the
properties and the theorems say which kind they exclude: over a committed one a start may refuse the disk
although no row is missing from it (finding 3), over a prepared one rows and answers are lost as well.

Left out: the staging of rows, which changes nothing a crash matters to; the
orphaned backups of a format before manifests; the caches. Bound: as many manifests as `Txns`, in the
runs one leftover beside the current one.

`AtomicReplacement` has a table per collection, what is durable of it, and a request.
The table is `Outcome(disk)`, what the next start would make of the disk, so the one
step of an installation that changes it is the commit mark, and a power loss may take that back
as long as it has not reached the disk.

### BackgroundJobs

One queue. `jobs[k]` is a row of `background-jobs` (status, payload, attempts,
claim, rerun and holds), `older` the order of `createdAt`, `lease` the queue's
unexpired lease, `open` the tabs, `wake` a tab's pending `schedule()` (timer, rerun
flag, or deferral behind a reply) and `pass` its `runPass`. `enqueue` is one step
under the jobs lock, and schedules a pass only if its answer arrives (`answered`;
`background-job-queue.ts:175-183`); `unheard` is history: an answer was lost while no tab had a pass
or a timer that would look at the queue again. `claim` and `finish` are a check of the lease
(`claim_checked`, `finish_checked`) and an operation later, because
`with_background_worker_lease` lets go of the leases in between.

Time is the order of events. A lease, hold or backoff ends by an action
(`LeaseLapses`, `HoldLapses`, `BackoffEnds`), and one that has ended is treated
like an absent one, as every handler does. `due` belongs to a retryable job
(its `nextAttemptAt` has come) and is FALSE elsewhere. Attempts saturate one
above `MAX_ATTEMPTS`, where larger numbers are treated alike. `RequestFails`
covers the requests of a pass that never took effect and answers that were lost, and a closing
tab leaves its executing request behind; a request that executes after its
client's timeout is modelled for a closed tab only. Holds are placed and
released by anyone at any time, which includes every order of turns.

`TriggerBoard` keeps the latest trigger of each key: fresh until a run takes
exactly its payload.

### ContinuityDirector

One chat and its Director. `director` is the stored state with its `revision`;
`authored` stands for what the user wrote, `plan` for what the Director proposes,
both as versions, and a plan's version is the story's its run has read.
`story` is the source that is read beside the chat; `job`, `next` and `caller` are
the ways to a refresh (the durable queue, the tab's own queue, the user), `run` is
the planner's operation of a tab (`pendingRefreshes`). `claimant` is auxiliary:
whose claim is the last write. Nothing holds a lock: a run reads, writes its claim over what
it read, calls the model, reads again and writes the plan over what it read, and every
conditional write compares the whole value.

Abstractions. The scheduler's first read of the chat, which skips what the decision
would skip, is part of the decision's read; the reads of the source after the
chat's are one; the model's answer and the re-read after it are one step, and so are a failure
and its record. A user's command reads and writes conditionally: it takes effect
only if nothing came between. Scenes created and concluded are one trigger. Time is
the order of events, and a pending attempt may be older than
`ABANDONED_PLANNING_ATTEMPT_MS` whenever a decision looks at it. The job queue is
`BackgroundJobs` seen from here: claimed by one tab, and by another when the lease has
lapsed. A turn's hold is an order only: the job of a reply is ready when the
reply is saved. Left out: an enqueue that is stored although its answer was lost,
so that the tab runs it too. The beats are part of `plan` and `authored`: a refresh keeps those the user
added, edited or decided; a reroll settles the one it replaces and, where there are `retainedBeats`
of them, drops another, the user's included (`continuity-director-state.ts:455-471`), which
`Planned` has as a change of `authored`.

`PlanBoard` says that only commands, and the plan of a reroll the user asked for, change what the user
wrote or settled, and that only the tab whose claim is the last write brings a plan.

### MemoryMaintenance

The job of one owner (a chat) and everyone who writes it. `job` is its row of
`memory-maintenance-jobs` (status, dirty mark, attempts, passes); `memory` counts the
material writes to its memories, which is all that what is written matters here;
`writer` is an enqueue between its read and its patch; `lease` is
`memory_maintenance_worker` of `state.rs` with its operations counted; `pass` is a
client's drain: where it is, and the operation it has asked the runtime for. An operation is
asked for, begun under the lease's lock, and lands later; a client that does not wait for it (timeout,
closed tab) leaves it in `late`. `troubles` counts what goes wrong. `asked`, `examined` and
`overtaken` are history: the last write whose enqueue has returned, what the drain that completed the
job had read, and whether an update has landed on a job in another state than it was meant for.

Abstractions. What a model proposes and whether the runtime finds its sources unchanged is any
outcome; reading the sources and the analysis are one step, and so are the list of due jobs and
the renewal that follows it. Batches for clarity are passes like the others. Time is the
order of events: a lease, a backoff ends by an action. A request that is delayed on its way is the same as one that
fails; one that had begun may land whenever its lease lets it. The capture lease of
`state.rs` has the same code. Bounds: `MaxWrites`, `MaxTroubles`, one late operation at a time.

There is no abstract specification: a job's row is overwritten from several sides by
design, and what it promises are the three properties below.

### AppendJournal

The files behind a call that writes several collections: `primary` and `torn` are the
`<c>.json` and which of them cannot be read, `checkpoint` the
`<c>.append-checkpoint.bak`, `known` and `log` the append journal's file and its entries (per
id, the last word), `pending` the pending journals, `marker` the grouped upsert's file.
One task runs at a time, because each holds a permit of the write gate;
`task`, `stage`, `todo` and `merged` say where it is, one step is one file that has been
written, and `request` and `reply` are its caller's. A start is a task like the others, in
the order of `FileStorage::new`.

The tasks are an append (`append_many_uncached`), a grouped upsert, an entry in one pending
journal, a flush (of the collections it compacts; a shutdown's with its recovery) and an
atomic update with its journal recovery, its closure, which may ask for no write, and its installation.
`create_immediate` and the imports replace a file by the steps of a flush, with rows of their own, and are left out. A file operation may fail:
`mark_recovery_required` closes the store until the next start, `append_recovers` replays
at once, and any other call fails alone (`call_fails`). `Crash` comes anywhere, starts included; an
append torn by it, or by a failure, leaves the file unreadable.

Abstractions. An entry is written whole, since a start that finds half of one stops and
changes nothing. A flush writes the cached rows, which are file and journal together (`CacheCoherent`); the
installation of an update is one step (`CollectionTransaction`), and its rows are the current ones with the
requested changes. Ids of appended rows are new (`New`: the fast path is not taken for ids the caller
chose), so no pending entry speaks of them. Not modelled: version-1 journals,
missing or unreadable checkpoints and half-written entries, where the start stops; `clear_all`.

`behind` is history: the files into which a pending journal was merged while their checkpoint was
marked as current. The program does not know of them. `StaleTears` says whether an append is interrupted
in such a file too; without it the journals keep their promise, with it finding 4 appears.

`GroupedWrites` is a table per collection and a call: it takes effect in one step, is
acknowledged only when it has, and nothing else changes a row. `Content`, which refines the
table, is what a start would make of the files.

## 4. Runs

| Run | Instance | Shows | Distinct states |
|---|---|---|---|
| `gate` | 3 threads | types, exclusion, exact counts, no lost wakeup, refinement of `WriteSections`; calls are answered, writers cannot starve transactions | 4436 |
| `store` | 2 ids, 2 values, 2 listings, four kinds: generic with listings, updates and an import; the same pruned instead of updated; chats with cold journals and listings; chats with updates and no listing | coherence, complete preparations, scheduled flushes, only calls change rows, calls take effect; dirty rows reach the file | 45912 |
| `transaction` | 2 collections, each present or absent, 2 contents, 2 manifests, replacements over committed leftovers, unix | no rows are lost, an answer is durable, refinement of `AtomicReplacement` | 335741 |
| `triggers` | 2 tabs, 2 keys of which the second only waits (`SecondWaits`), 2 payloads, 1 hold, 3 attempts | triggers, holds, claims, the order of jobs, refinement of `TriggerBoard` | 303210 |
| `jobs_live` | 2 tabs, 1 key, 2 attempts, no symmetry | every job ends | 235552 |
| `director` | 2 tabs, 1 asking, 2 attempts, cadence 1 | attempts are at work, plans follow the story and the claims, refinement of `PlanBoard`; attempts settle, requests are answered | 317056 |
| `maintenance` | 2 clients, 1 enqueuer, 2 attempts, 1 pass a drain and 2 in all, 2 writes, 1 trouble | no operation beside another client's, completed jobs have examined what they were asked for; the job settles | 1081672 |
| `appends` | 2 collections, 2 ids, 1 value, one append and one grouped upsert of both, two deletions, one update, no append torn behind its checkpoint | torn files are restorable, refinement of `GroupedWrites` | 2449140 |
| `stale_update`, `import_journal`, `leftover_stuck`, `behind` | as small | the four findings below (expected violations) | |

Why the bounds suffice. Gate: an owner and two different kinds of waiters are
three threads. Store: two ids tell the changed row from one that must stay, two
values an old row from a new one, two listings a cache filled in the middle of
another listing. Transaction: two collections are one that is already replaced and one that is not;
that they start present or absent gives every combination of entries with and without a backup; two
manifests are a leftover and the current one, in both orders of their ids. Checked by hand besides, since
they differ in a constant only: `Overlaps = {}` with `RecoveryNeverStuck` (48200 states), the same without
`Syncs` (6146499 states); both pass. Without `Syncs` and over committed leftovers there are more states
than TLC has finished (12 million, no violation); the theorems cover them.
Jobs: two tabs are an old and a new worker; two payloads the
claimed and the newer trigger; with two tabs and `k` keys that are claimed, `k + 2` lease ids
make `new_id()` total (a tab that acquires holds none, so at most the other tab
and each claimed job refer to one); a job's place in the order shows beside one that waits; three attempts are the code's, and the runs
with fewer shorten the way to the limit. Director: two tabs are a claim and its
rival; user commands at revision 1 fall between a claim and its plan;
two story versions are a plan and a newer one; from `MaxRevision` on the user
asks no more, no open tab's lease lapses and no report is lost, which ends the run
after every combination of one such trouble with one plan. Its safety properties
are proved without these bounds. Maintenance: two clients are an old and a new owner of the lease; one
enqueuer is enough, because two writes can come in one drain and each enqueue has its window; two
attempts and two passes reach both limits and what comes before them; one trouble leaves a drain
anywhere, and with two the proved invariant was checked as well (8035770 states, safety only).
Appends: two collections are one that has a call's row and one that has not; one id is
appended, deleted and appended again, the other is the row whose last change must stay; a row that is
there and one that is not are enough to tell a lost write. The crashes, failures and calls are not bounded.
Symmetry is used in `triggers`, over workers, payloads and lease ids, and in `transaction` and
`leftover_stuck`, over collections and contents, none of which is named by a definition.

`director` says `CHECK_DEADLOCK FALSE`: when the bounds are used
up and all runs have ended nothing is left to do.

### Fairness

* Gate: a notified thread evaluates its loop (weak), and a permit that can be
  dropped again and again is dropped (strong): a permit ends with a scope of
  finitely many calls. Nobody is forced to call.
* Store: the permit's holder, the flush thread, the startup and a listing go on
  (weak). The deferred flush gets its permit and the compaction policy's age
  limit lets it through in the end, as does the load of an update the lock
  (strong). For `messages` and `message-swipes`, which a deferred flush never
  compacts, `DirtyFlushed` is not claimed.
* Jobs: timers fire, requests are answered, runs end, holds and backoffs lapse,
  a lease nobody uses lapses (weak); claims are strong because foreground replies
  in a tab interrupt passes again and again and leave gaps. `Quiet` is a premise, not an
  assumption on the system: from some point on nobody triggers, no tab closes, no
  request fails, renewals are in time. `QueuedJobsSettle` has two premises more: closed tabs are opened
  again, and no job waits whose enqueue was answered to nobody while all tabs were idle (`unheard`).
  Without either of them it is violated (see the observations below).
* Director: a run goes on (weak): its requests are answered or fail and the model
  call has a timeout. The call of a user who waits for another operation of the same tab is strong:
  its continuation runs as soon as that operation's promise settles, before another
  can start, but the model lets others in between. Nothing is assumed of the
  queue, of triggers or of the scheduler.
* Maintenance: an enqueue ends, a client goes on with its drain, a backoff and a lease that
  nobody renews end, the runtime ends what it has begun (weak). `JobSettles` has two premises: `Quiet`,
  that from some point on nobody writes and nothing goes wrong, and that one client keeps
  acquiring the lease whenever it is free, as clients do by their timers
  (`automatic-memory-maintenance-queue.ts:752-790`).

### Findings

1. `stale_update` (code bug, `lib.rs:1537-1552`). The atomic update recovers a
   cold journal outside the global lock. A listing that has read the file
   before and looks for the journal after caches rows without the journaled
   write; the update then loads those rows, its stamp matches, and the installed
   replacement drops an acknowledged write. `store` shows that without such a
   listing the rows are complete, and that without the update they are; `PreparedRowsAreComplete` proves that
   this removal is the only step of an update or a listing to blame.
2. `import_journal` (code bug, `lib.rs:1611-1630`). An import compacts dirty
   collections only; a cold record-local journal stays and is replayed over the
   imported rows. `ColdJournals` and `SeparatedUsesMindJournals` prove that this takes record-local writes.
3. `leftover_stuck` (code bug, `transaction.rs:545`). When the clean-up of a
   committed replacement fails, its manifest stays and "cleanup will resume on startup"
   (`lib.rs:3821`). If the same collection is replaced again and the process dies
   between its two renames, the start looks at the older manifest first, misses
   its primary and gives up, as does every later start, although the newer manifest has the
   backup. `transaction` and `NothingIsLost` show that over such leftovers the rows are always in one of the
   two: `NothingLost` has the older manifest's missing primaries as backups of a prepared one.

   A manifest that was left *prepared* makes a start give up as well, and worse. One stays, with
   the store open, when its own sync fails (`lib.rs:3767-3777`), when the removal after a rollback fails
   (`lib.rs:3811`), when the rollback fails (`storage_rollback_failed`), or when the commit mark and the
   recovery after it fail. If the same collection is then replaced and the process dies between its two renames,
   the older manifest's primary and backup are both missing and every start refuses it
   (`transaction.rs:521-526`); where the collection did not exist for the older one, its undo
   removes the newer primary (`transaction.rs:532-533`), which a newer committed manifest then misses
   (`transaction.rs:545-549`); and where nothing dies, the next start's undo still takes back the newer
   rows, whose caller was told that they are stored, if the older manifest has a backup or found no primary. With `Overlaps = {"prepared"}` TLC violates
   `RecoveryNeverStuck` in six states. `NothingLost`, `AnsweredIsDurable` and the refinement are
   checked and proved without such replacements, and say nothing of them. Without replacements
   over leftovers of either kind no start gives up (`NeverStuck`).
4. `behind` (code bug, `lib.rs:1546-1552` and `lib.rs:401`). Pending journals of `messages` and
   `message-swipes` are merged into their files before an atomic update and at a start without a word to the
   append checkpoint, which stays marked as current: after a start that finds the append journal's
   file (`append_journal.rs:162-246` accepts it), after an update unless the update goes on to replace one
   of these files. An append that is then interrupted in the middle of the file is recovered from the
   checkpoint, and the merged edits and deletions, acknowledged long ago, are gone. `appends` and
   `OnlyStaleTearsLoseRows` show that nothing else loses a row.

Observed and not made into a run:

* A worker's operation can run after its lease has lapsed (`state.rs:670-692`).
  `ClaimIsCurrent` shows that outcomes are still recorded for the claim that stands only; a late claim
  however takes the job from the live worker, whose finish is then refused. The worker of an
  older lease may still be running when its job is claimed again.
* A client that found the queue empty sets no timer (`background-job-queue.ts:111,167`) and looks
  again only when it enqueues or reloads, so the job of a closed tab waits for the next page
  load, although a comment (`start-generation.ts:4764`) lets "any client" run it. TLC refutes
  `AnyClientRunsTheJob` (`BackgroundJobs`); `jobs_live` shows that a reopened tab is enough.
* A job that is stored while its answer fails or times out wakes nobody, since `schedule` is called after
  the answer (`background-job-queue.ts:175-183`; a lost release of a hold likewise,
  `start-generation.ts:4801-4807`): if every tab is idle, it waits for the next trigger or page load. TLC
  violates `QueuedJobsSettle` without its premise `<>[]~unheard`; with it, a lost answer delays
  nothing as long as some tab has a pass or a timer.
* A reroll of a beat can drop another beat the user has written, edited or approved, when there are
  `retainedBeats` of them: first a rejected or fulfilled one, else the last other one
  (`continuity-director-state.ts:455-471`). The planner's test is titled "rerolls one beat atomically while
  preserving the rest of the plan" (`continuity-director-planner.spec.ts:550`); it has fewer beats.
* A job's second claim is taken for the sign that its first run was cut off, and a pending attempt for
  that run's (`continuity-director-scheduler.ts:219`, the comment at `continuity-director-refresh-policy.ts:30`).
  After a `retry` outcome, or a lapsed lease, it may be the live attempt of another tab: a second
  model call is made and the first answer is dropped. TLC refutes `ResumedAttemptIsAbandoned`
  (`ContinuityDirector`); `director` shows that no state is lost.
* An append whose files are written can still answer with an error, when the last sync of the directory fails
  (`lib.rs:3504`): the rows are there, and the caller's retry creates others.
* A hold placed on a running job does not stop that run; it makes it run again
  (`HeldRunReruns`).
* When a rollback fails, the manifest and the backups wait for the next start
  (`NothingLost`); `streaming.rs:453` ends its own failed rollback with the clean-up
  of a success, which deletes the backups. The mutant of `rollback_incomplete` is this code.
* On Windows nothing waits for a rename or a commit mark to reach the disk (`transaction.rs:631-636`), so
  a power loss may take back what the caller was told is stored. All collections still change or
  none (`ReplacementIsAtomic` is proved for both values of `Syncs`), if operations reach the disk in their order.
* After a failed sync of the commit mark, or a failed removal of the manifest, the caller
  gets an error although the replacement stands, and the caches keep the old rows.
* A maintenance job can be completed although a write it was enqueued for has not been
  read: `enqueue_memory_maintenance` reads the status and patches the job in a second request
  (`memory_maintenance/jobs.rs:72,124`), and `completeJob` looks for the dirty mark before a second request
  clears it (`automatic-memory-maintenance-queue.ts:320,335`). The design document says that a write
  during processing "marks the owner dirty so one additional pass runs"
  (`docs/superpowers/specs/2026-07-30-automatic-memory-hygiene-design.md:126`). `overtaken` marks
  exactly these windows, and the updates of a drain whose job was enqueued anew or suppressed;
  `AskedIsExamined` shows that there are no others. A job that fails while it is dirty stays failed, and an
  undo that comes during a drain is overwritten by the drain's next update (the same document, line 186).
* The planner does not ask the refresh policy again on the state it claims over, as the plan
  document wants it to (`docs/superpowers/plans/2026-09-02-roleplay-continuity-director.md:317`); a
  refresh that joins a run of its tab ends as done although that run may have read an older story; a refresh that
  fails before its claim is done for the queue and leaves no failure behind.

## 5. Proofs

Proved from the constants' assumptions only (`ThreadsAssumption`,
`ConstantsAssumption`s, `AttemptsAssumption`s, `CadenceAssumption`, `AskersAssumption`,
`LimitsAssumption`, `BoundsAssumption`s, `NoneAssumption`s), for any
number of threads, ids, listings, collections, tabs, keys, leases, clients and enqueuers.

* `WriteGate_proofs`. The inductive invariant joins `OwnersHold` and `OneWriter`
  (a grant's guard speaks of fields, exclusion of permits, so each needs the
  other) with `Exclusion`: a thread inside a function holds no ordinary permit, and the owner
  fields exclude each other as the wait conditions read them. `NoLostWakeup` is inductive over the actions
  that can make a wait condition false: each of them notifies. `CountsAreQueues`
  needs cardinalities of the two sets of waiters: a step adds or removes one
  thread. `NoHoldAndWait` and `NeverAllAsleep` follow from all of these: waiters hold nothing, and
  the condition of a sleeper, which still holds, names an owner, a writer or a queue whose head waits for
  one. The refinement maps grants and drops to the sections' steps and the rest to stutters.
* `CollectionStore_proofs`. Findings 1 and 2 say that the store does not keep its rows in all its uses, so
  the theorems name the steps that break it, not the uses: `MissesJournal` is the removal of a journal
  that a cold listing has yet to apply to rows it read before, an import over a cold journal, or a pruning of a
  file with one. Without such steps (`JournalsMinded`) all is proved for every use of a collection,
  `messages` and `chats` with their listings and atomic updates included: nothing else can lose or hide a
  row. `SeparatedUsesMindJournals` proves that no step is one where record-local rows are not both
  listed cold and updated atomically, and neither imported over nor pruned. `IInv` adds to the
  checked invariants what each listing has read so far (`Listing`) and what the
  permit's holder has already written (`Holding`): a listing's rows with the
  journal applied are the content as long as file and journal only change by
  steps that keep the content. `DirtScheduled`, `ColdJournals` and type correctness need no
  condition. `OnlyCallsChangeRows` and `CallsChangeTheirRow` follow from `IInv`, action by action.
* `AppendJournal_proofs`. `IInv` adds to the checked invariant `Restorable` (the checkpoint of a torn file that is
  not behind, with the entries, is what the file was), `Placed` (which task can be at which stage, with which
  rest of its loop), `Evidence` (at every stage the entries and the checkpoint mark are still there when a torn file
  needs them), `Appending`, `Recovering` and `Rewriting` (how far the loops have come: files
  already written have their entries, refreshed checkpoints equal their files). Applying a journal twice,
  after another one, or beside one of other ids (`ApplyTwice`, `ApplyAfter`, `ApplyApart`, `ApplyHides`) is
  what replays and copies rest on. Each step leaves `Content` alone
  but the commit of an append, of a marker, of an entry and of an installation. No theorem but the refinement
  has a hypothesis: `OnlyStaleTearsLoseRows` says that every step is one of `GroupedWrites` or changes no row,
  unless it is an append torn or mended in a file behind its checkpoint, and
  `JournalsImplementGroupedWrites` follows under `~StaleTears`, which finding 4 shows to be needed.
* `CollectionTransaction_proofs`. `TypeCorrect` has no hypothesis. `NothingIsLost`, `AnswersHold` and
  `ReplacementIsAtomic` assume `"prepared" \notin Overlaps` and `NeverStuck` assumes `Overlaps = {}`: finding 3 shows
  that these are needed, and the code keeps nobody to them. All hold for both values of `Syncs`.
  `IInv` has, for each stretch of the program (`Prepared`, `Installing`, `RollingBack`, `Marking`, `Recovering`),
  how the renames made so far relate to the manifest at work; it needs no hypothesis either.
  `SoundDisk` says what the manifests together guarantee of the files they name, and holds of the disk and of
  what a power loss leaves: one prepared manifest at most covers a collection, its old file is a primary or a
  backup, and a primary a committed manifest misses is a prepared one's backup. With
  it each operation leaves `Outcome` alone, but the commit mark, which makes it the goal
  (`TouchedKeeps`, `RemovedKeeps`, `MarkedKeeps`, `WrittenKeeps`): this gives `NothingLost`, `AnsweredIsDurable`
  and, with one step per operation (`Refines`), the refinement.
* `ContinuityDirector_proofs`. Every write raises the revision, so a run's base that equals the
  stored state means that nothing came between. `Known` says that the states runs and callers
  have seen were stored once: none has a higher revision than the stored one or a plan newer than the story;
  `SoundRun` that a claimed run whose base is the stored state is the claimant's. With
  `PendingIsAtWork` these are inductive; each action's step also shows `Kept`: it is a step
  of the board, and no plan gets older. A claimed run keeps its key, so that the board's `reroll` is that of
  the run whose plan is saved.
* `BackgroundJobs_proofs`. `JobsConsistent`, `HeldRunReruns` and `ClaimIsCurrent`
  with what a pass knows of its claim (`PassesOK`, `PayloadsAgree`) and that no two passes share
  a lease (`LeasesApart`, from the freshness of `new_id()`) are inductive together; `HoldsKept` needs that a job deleted by a finish has no
  holds, which is `HeldRunReruns`; the refinement needs that a claim's payload is the latest trigger unless
  a rerun is asked. `PlacesAreKept` follows action by action: only a
  new job is placed, and only a deleted one forgotten.
* `MemoryMaintenance_proofs`. `OperationsFenced` ties every operation that is executed, awaited or
  late, to the standing lease and its count; with `LateApart` (a client that left an operation behind asks for nothing
  that needs the job but its retry or failure) there is one drain to speak of. `ReadsHeld` says that
  while a job in processing is clean, the lease's owner has read every write the job was enqueued for,
  as soon as it has read at all; `Known` that no write is asked for before it is made. Together they give
  `AskedIsExamined` when the completion lands.

Model-checked only: all liveness (`CallsAnswered`, `QueuedTransactionsRun`,
`DirtyFlushed`, `QueuedJobsSettle`, `AttemptsSettle`, `RequestsAnswered`, `JobSettles`), because
fairness and ENABLED are outside the prover's reach.

## 6. Not modelled

Everything with status `not_modelled` in `PROJECT.json`, with its reason there:
modules of the plan that are still to be written, pure data (prompts, parsers,
formats), platform processes and rendering. Inside the modelled components, the
abstractions of section 3.

The repository has some 310,000 lines. Most of them render the interface, assemble
prompts, translate between providers' formats or convert imported data: functions of
their input, without state that several actors share, which tests reach better than
states do. The models cover the parts where the order of events decides.
