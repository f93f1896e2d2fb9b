--------------------------- MODULE MemoryMaintenance ---------------------------
(* The maintenance of one chat's memories: the lease of state.rs, the job and  *)
(* its enqueuers of commands/storage/memory_maintenance/jobs.rs, and the       *)
(* clients (engine/generation/automatic-memory-maintenance-queue.ts) that read *)
(* the memories, have a model propose a cleanup, apply it and settle the job.  *)
(*                                                                           *)
(* The memories are a count of material writes: nothing here depends on what   *)
(* is written or cleaned.  What a model proposes, and whether the runtime      *)
(* finds a proposal's sources unchanged, is any outcome.  Time is the order of *)
(* events: a lease or a backoff ends by an action of its own.  An operation    *)
(* under the lease is three steps: the client asks, the runtime checks the     *)
(* lease and counts it, and it lands; the client may not wait for that.        *)
(*                                                                           *)
(* A definition named Faulty_... is a variant with a bug, for the mutation    *)
(* runs only.                                                                *)
EXTENDS Naturals

CONSTANTS Workers,          \* clients: one worker id each
          Writers,          \* those who change memories, undo, or seed jobs
          MAX_MAINTENANCE_ATTEMPTS, MAX_PASSES_PER_DRAIN, MAX_TOTAL_PASSES,
          MaxWrites,        \* bound: changes and seeds explored
          MaxTroubles,      \* bound: failures, interruptions and restarts explored
          None              \* JSON null, Option::None

ASSUME LimitsAssumption ==
    {MAX_MAINTENANCE_ATTEMPTS, MAX_PASSES_PER_DRAIN, MAX_TOTAL_PASSES} \subseteq Nat \ {0}
ASSUME BoundsAssumption == MaxWrites \in Nat /\ MaxTroubles \in Nat

VARIABLES
    job,        \* the owner's row of memory-maintenance-jobs
    memory,     \* how many material writes its memories have seen
    writer,     \* the enqueue of each writer, between its requests to the storage
    lease,      \* AppState.memory_maintenance_worker
    pass,       \* processAutomaticMemoryMaintenanceQueue of each client
    late,       \* an operation the runtime executes and no client waits for
    troubles,   \* how many failures, interruptions and restarts there were
    asked,      \* history: the last write whose enqueue has returned
    examined,   \* history: what the drain that completed the job had read
    overtaken   \* history: an update landed on a job it was not meant for

server == <<job, lease, late, examined, overtaken>>
others == <<memory, writer, asked>>
vars == <<job, memory, writer, lease, pass, late, troubles, asked, examined, overtaken>>

(* "waiting": retryable before its nextAttemptAt.                             *)
Statuses == {"missing", "pending", "processing", "waiting", "retryable",
             "completed", "failed", "suppressed"}
Attempts == 0 .. MAX_MAINTENANCE_ATTEMPTS
Totals   == 0 .. MAX_TOTAL_PASSES
Writes   == 0 .. MaxWrites

(* Steps with no trouble, and those that are some. *)
Well == UNCHANGED troubles
Ill  == troubles < MaxTroubles /\ troubles' = troubles + 1

(* From its limit on a count is the same to every reader. *)
Counted(n, limit) == IF n < limit THEN n + 1 ELSE limit

Job == [status : Statuses, dirty : BOOLEAN, attempts : Attempts, totalPasses : Totals]

Enqueue == [trigger : {None, "write", "undo", "startup"}, write : Writes,
            found : {None, "missing", "processing", "idle"}]
NoEnqueue == [trigger |-> None, write |-> 0, found |-> None]

Lease == [owner : Workers, live : BOOLEAN, active_operations : 0 .. 2,
          release_requested : BOOLEAN]

(* The updates of a job, and "batch", the application of a cleanup. *)
Operations == {"claim", "batch", "note", "stop", "complete", "redo", "again",
               "pause", "retry", "fail"}
Call == [op : Operations \cup {None}, attempts : Attempts, totalPasses : Totals,
         read : Writes]
Call0 == [op |-> None, attempts |-> 0, totalPasses |-> 0, read |-> 0]

(* "list": has the lease; "work": at the top of the loop over passes;          *)
(* "settled", "spent": behind that loop; "ask", "run": an operation is         *)
(* requested, is executed.                                                   *)
Stages == {"off", "list", "work", "settled", "spent", "ask", "run", "leave"}
Pass == [at : Stages, round : 0 .. MAX_PASSES_PER_DRAIN, call : Call]
NoPass == [at |-> "off", round |-> 0, call |-> Call0]
LateCall == [worker : Workers, call : Call]

ASSUME NoneAssumption == None \notin Operations \cup Lease \cup LateCall

TypeOK ==
    /\ job \in Job
    /\ memory \in Writes
    /\ writer \in [Writers -> Enqueue]
    /\ lease \in Lease \cup {None}
    /\ pass \in [Workers -> Pass]
    /\ late \in LateCall \cup {None}
    /\ troubles \in 0 .. MaxTroubles
    /\ asked \in Writes /\ examined \in Writes /\ overtaken \in BOOLEAN

Init ==
    /\ job = [status |-> "missing", dirty |-> FALSE, attempts |-> 0, totalPasses |-> 0]
    /\ memory = 0
    /\ writer = [v \in Writers |-> NoEnqueue]
    /\ lease = None
    /\ pass = [w \in Workers |-> NoPass]
    /\ late = None
    /\ troubles = 0
    /\ asked = 0 /\ examined = 0 /\ overtaken = FALSE
----------------------------------------------------------------------------
(* Memories are changed, or a cleanup undone, and then the job is enqueued;    *)
(* an opened client enqueues jobs for what the store has (startup).            *)
Begin(v) ==
    /\ writer[v] = NoEnqueue /\ memory < MaxWrites
    /\ memory' = memory + 1
    /\ \E trigger \in {"write", "undo", "startup"} :
          writer' = [writer EXCEPT ![v] =
                        [trigger |-> trigger, write |-> memory + 1, found |-> None]]
    /\ Well
    /\ UNCHANGED <<server, pass, asked>>

Kind(status) == IF status \in {"missing", "processing"} THEN status ELSE "idle"

(* storage.get; the startup enqueuer leaves a suppressed job alone.           *)
enqueue_reads(v) ==
    /\ writer[v].trigger # None /\ writer[v].found = None
    /\ writer' = [writer EXCEPT ![v] =
                     IF @.trigger = "startup" /\ job.status = "suppressed" THEN NoEnqueue
                     ELSE [@ EXCEPT !.found = Kind(job.status)]]
    /\ UNCHANGED <<server, memory, pass, asked>>

(* The patch for a job found in this state.                                   *)
Fresh(status) == [status |-> status, dirty |-> FALSE, attempts |-> 0, totalPasses |-> 0]

Faulty_Enqueued_dirty(trigger, found) ==
    IF trigger = "undo" THEN [job EXCEPT !.status = "suppressed", !.dirty = FALSE]
    ELSE IF found = "processing" THEN job ELSE Fresh("pending")
Enqueued(trigger, found) ==
    IF trigger = "undo" THEN [job EXCEPT !.status = "suppressed", !.dirty = FALSE]
    ELSE IF found = "processing" THEN [job EXCEPT !.dirty = TRUE] ELSE Fresh("pending")

(* The mark on a job in processing comes when its drain has looked for it.     *)
Misses(e) == e.trigger # "undo" /\ e.found = "processing" /\ job.status # "processing"

(* storage.patch, or storage.create, which refuses an id that exists.          *)
enqueue_writes(v) ==
    LET e == writer[v] IN
    /\ e.found # None
    /\ writer' = [writer EXCEPT ![v] = NoEnqueue]
    /\ IF e.found = "missing" /\ job.status # "missing" THEN UNCHANGED <<job, asked, overtaken>>
       ELSE /\ job' = Enqueued(e.trigger, e.found)
            /\ asked' = IF e.trigger = "write" /\ e.write > asked THEN e.write ELSE asked
            /\ overtaken' = (overtaken \/ Misses(e))
    /\ UNCHANGED <<memory, lease, pass, late, examined>>

enqueue(v) == (enqueue_reads(v) \/ enqueue_writes(v)) /\ Well

BackoffEnds ==
    /\ job.status = "waiting"
    /\ job' = [job EXCEPT !.status = "retryable"]
    /\ Well
    /\ UNCHANGED <<others, lease, pass, late, examined, overtaken>>
----------------------------------------------------------------------------
(* acquire_memory_maintenance_worker without a lease id, and with one. *)
Faulty_Free == lease # None => ~lease.live
Free == lease # None => ~lease.live /\ lease.active_operations = 0

Granted(w) == [owner |-> w, live |-> TRUE, active_operations |-> 0,
               release_requested |-> FALSE]

acquire(w) ==
    /\ pass[w].at = "off"
    /\ Free
    /\ lease' = Granted(w)
    /\ Well
    /\ pass' = [pass EXCEPT ![w].at = "list"]
    /\ UNCHANGED <<others, job, late, examined, overtaken>>

Holds(w) == lease # None /\ lease.owner = w
Renewable(w) == Holds(w) /\ (lease.live \/ lease.active_operations > 0)
Renewed == [lease EXCEPT !.live = TRUE, !.release_requested = FALSE]

Heartbeat(w) ==
    /\ pass[w].at # "off" /\ Renewable(w)
    /\ lease' = Renewed
    /\ Well
    /\ UNCHANGED <<others, job, pass, late, examined, overtaken>>

(* Nobody renews the lease of a client that has no pass. *)
Unrenewed == lease # None /\ pass[lease.owner].at = "off"

LeaseLapses ==
    /\ lease # None /\ lease.live
    /\ IF Unrenewed THEN Well ELSE Ill
    /\ lease' = [lease EXCEPT !.live = FALSE]
    /\ UNCHANGED <<others, job, pass, late, examined, overtaken>>

(* The end of a pass asks for the release; the request may fail.              *)
Released == IF lease.active_operations = 0 THEN None
            ELSE [lease EXCEPT !.release_requested = TRUE]

leave(w) ==
    /\ pass[w].at = "leave"
    /\ pass' = [pass EXCEPT ![w] = NoPass]
    /\ (Holds(w) /\ lease' = Released) \/ UNCHANGED lease
    /\ UNCHANGED <<others, job, late, examined, overtaken>>

(* Steps of a client that touch nothing but its pass. *)
Goes(w, next) ==
    /\ pass' = [pass EXCEPT ![w] = next]
    /\ UNCHANGED <<others, server>>

Left(w) == [NoPass EXCEPT !.at = "leave"]
Asks(w, op) == [pass[w] EXCEPT !.at = "ask", !.call.op = op]
At(w, stage) == [pass[w] EXCEPT !.at = stage, !.call.op = None]

(* A heartbeat fails or comes too late, a reply begins before the job does, a  *)
(* request before it fails.                                                  *)
GivesUp(w) ==
    /\ pass[w].at \in {"list", "work", "settled", "spent"}
    /\ Goes(w, Left(w))

(* jobDue. *)
Faulty_Due(status) == status \in {"pending", "retryable"}
Due(status) == status \in {"pending", "processing", "retryable"}

list(w) ==
    /\ pass[w].at = "list"
    /\ IF Due(job.status) /\ Renewable(w)
       THEN /\ lease' = Renewed
            /\ pass' = [pass EXCEPT ![w] =
                  [Asks(w, "claim") EXCEPT !.call.attempts = job.attempts,
                                           !.call.totalPasses = job.totalPasses]]
       ELSE pass' = [pass EXCEPT ![w] = Left(w)] /\ UNCHANGED lease
    /\ UNCHANGED <<others, job, late, examined, overtaken>>
----------------------------------------------------------------------------
(* with_memory_maintenance_lease: the check. *)
begins(w) ==
    /\ pass[w].at = "ask"
    /\ Holds(w) /\ lease.live
    /\ lease' = [lease EXCEPT !.active_operations = @ + 1]
    /\ pass' = [pass EXCEPT ![w].at = "run"]
    /\ UNCHANGED <<others, job, late, examined, overtaken>>

refused(w) ==
    /\ pass[w].at = "ask" /\ ~(Holds(w) /\ lease.live)
    /\ Goes(w, Left(w))

(* The patch of an operation.  A claim has counted its attempt; "pause" takes   *)
(* that back, and "again" and "redo" start over.                              *)
Landed(call) ==
    CASE call.op = "claim" -> [job EXCEPT !.status = "processing",
                                  !.attempts = Counted(call.attempts, MAX_MAINTENANCE_ATTEMPTS)]
      [] call.op = "batch" -> job
      [] call.op = "note" -> [job EXCEPT !.status = "processing", !.totalPasses = call.totalPasses]
      [] call.op \in {"stop", "fail"} -> [job EXCEPT !.status = "failed"]
      [] call.op = "complete" -> [job EXCEPT !.status = "completed", !.dirty = FALSE]
      [] call.op = "redo" -> Fresh("pending")
      [] call.op = "again" -> [job EXCEPT !.status = "pending", !.attempts = 0,
                                          !.totalPasses = call.totalPasses]
      [] call.op = "pause" -> [job EXCEPT !.status = "pending", !.attempts = call.attempts]
      [] call.op = "retry" -> [job EXCEPT !.status = "waiting"]

(* A note or a completion is meant for a job that is being processed, and a   *)
(* completion for one that nobody has made dirty.                             *)
Overtakes(op) ==
    \/ op \in {"note", "complete"} /\ job.status # "processing"
    \/ op = "complete" /\ job.dirty

(* The operation, and the lock again: the last one of a released lease ends it. *)
Lands(call) ==
    /\ job' = Landed(call)
    /\ examined' = IF call.op = "complete" THEN call.read ELSE examined
    /\ overtaken' = (overtaken \/ Overtakes(call.op))
    /\ lease' = IF lease.active_operations = 1 /\ lease.release_requested THEN None
                ELSE [lease EXCEPT !.active_operations = @ - 1]

(* What a client does when its operation has succeeded. *)
Spent(w) == pass[w].call.totalPasses >= MAX_TOTAL_PASSES

Continues(w) ==
    CASE pass[w].call.op = "claim" -> At(w, "work")
      [] pass[w].call.op = "batch" ->
            [Asks(w, "note") EXCEPT !.call.totalPasses = Counted(@, MAX_TOTAL_PASSES)]
      [] pass[w].call.op = "note" /\ Spent(w) -> Asks(w, "stop")
      [] pass[w].call.op = "note" /\ ~Spent(w) ->
            LET round == Counted(pass[w].round, MAX_PASSES_PER_DRAIN)
            IN [At(w, IF round < MAX_PASSES_PER_DRAIN THEN "work" ELSE "spent")
                   EXCEPT !.round = round]
      [] pass[w].call.op = "stop" -> At(w, "settled")
      [] OTHER -> Left(w)

lands(w) ==
    /\ pass[w].at = "run"
    /\ Lands(pass[w].call)
    /\ pass' = [pass EXCEPT ![w] = Continues(w)]
    /\ UNCHANGED <<others, late>>

(* The runtime ends what a client no longer waits for. *)
lands_late ==
    /\ late # None
    /\ Lands(late.call)
    /\ late' = None
    /\ Well
    /\ UNCHANGED <<others, pass>>
----------------------------------------------------------------------------
(* An error leaves the job to a retry, until its attempts are used up; the     *)
(* updates around the loop have no handler for theirs.                        *)
Error(w) ==
    Asks(w, IF pass[w].call.attempts + 1 >= MAX_MAINTENANCE_ATTEMPTS THEN "fail" ELSE "retry")

AfterFailure(w) ==
    IF pass[w].call.op \in {"claim", "pause", "retry", "fail"} THEN Left(w) ELSE Error(w)

(* A pass reads the sources and has a model analyse them, and asks for the     *)
(* batch it proposes.  There may be no sources or no proposals, or the sources *)
(* are the very ones of an earlier pass (maintenance_oscillation), or reading  *)
(* them fails.                                                               *)
Reads(w, next) == Goes(w, [next EXCEPT !.call.read = memory])

work(w) ==
    /\ pass[w].at = "work"
    /\ \/ Reads(w, Asks(w, "batch"))
       \/ Reads(w, At(w, "settled"))
       \/ pass[w].call.totalPasses > 0 /\ Reads(w, Asks(w, "stop"))
       \/ Goes(w, Error(w))

(* A provider's failure is retried however often, a configuration's is not;   *)
(* a reply in the foreground takes the place of the pass (ForegroundPause).    *)
Interrupted(w) ==
    /\ pass[w].at = "work"
    /\ \E op \in {"retry", "fail", "pause"} : Goes(w, Asks(w, op))

(* A batch whose sources have changed is refused. *)
batch_refused(w) ==
    /\ pass[w].at = "run" /\ pass[w].call.op = "batch"
    /\ lease' = IF lease.active_operations = 1 /\ lease.release_requested THEN None
                ELSE [lease EXCEPT !.active_operations = @ - 1]
    /\ pass' = [pass EXCEPT ![w] = Error(w)]
    /\ Well
    /\ UNCHANGED <<others, job, late, examined, overtaken>>

(* The job is read again behind the loop; completeJob looks for dirt.          *)
completeJob(w) ==
    /\ pass[w].at = "settled"
    /\ \/ Goes(w, IF job.status = "failed" THEN Left(w)
                  ELSE Asks(w, IF job.dirty THEN "redo" ELSE "complete"))
       \/ Goes(w, Error(w))

drains_again(w) ==
    /\ pass[w].at = "spent"
    /\ Goes(w, IF job.status = "failed" THEN Left(w) ELSE Asks(w, "again")) \/ Goes(w, Error(w))
----------------------------------------------------------------------------
(* A request is lost, or the client stops waiting for its answer.  Bound: one  *)
(* operation at a time is executed for nobody.                                *)
RequestFails(w) ==
    /\ pass[w].at = "ask"
    /\ Goes(w, AfterFailure(w))

Lateness(w) ==
    LET call == pass[w].call IN
    [worker |-> w,
     call |-> [call EXCEPT !.attempts = IF call.op \in {"claim", "pause"} THEN @ ELSE 0,
                           !.totalPasses = IF call.op \in {"note", "again"} THEN @ ELSE 0,
                           !.read = IF call.op = "complete" THEN @ ELSE 0]]

Abandons(w) ==
    /\ pass[w].at = "run" /\ late = None
    /\ late' = Lateness(w)
    /\ pass' = [pass EXCEPT ![w] = AfterFailure(w)]
    /\ UNCHANGED <<others, job, lease, examined, overtaken>>

Close(w) ==
    /\ pass[w].at # "off"
    /\ pass[w].at = "run" => late = None
    /\ pass' = [pass EXCEPT ![w] = NoPass]
    /\ late' = IF pass[w].at = "run" THEN Lateness(w) ELSE late
    /\ UNCHANGED <<others, job, lease, examined, overtaken>>

(* The runtime restarts: the lease, its operations and unfinished enqueues are *)
(* gone, and requests that were executing will fail.                          *)
Restart ==
    /\ lease' = None /\ late' = None /\ Ill
    /\ writer' = [v \in Writers |-> NoEnqueue]
    /\ pass' = [w \in Workers |-> IF pass[w].at = "run" THEN [pass[w] EXCEPT !.at = "ask"]
                                                        ELSE pass[w]]
    /\ UNCHANGED <<job, memory, asked, examined, overtaken>>

Work(w) ==
    /\ \/ list(w) \/ begins(w) \/ refused(w) \/ lands(w) \/ work(w)
       \/ completeJob(w) \/ drains_again(w) \/ leave(w)
    /\ Well

Trouble(w) ==
    /\ GivesUp(w) \/ Interrupted(w) \/ RequestFails(w) \/ Abandons(w) \/ Close(w)
    /\ Ill

Next == \/ \E v \in Writers : Begin(v) \/ enqueue(v)
        \/ \E w \in Workers : \/ acquire(w) \/ Heartbeat(w) \/ Work(w) \/ batch_refused(w)
                              \/ Trouble(w)
        \/ BackoffEnds \/ LeaseLapses \/ lands_late \/ Restart

Spec == Init /\ [][Next]_vars

(* Timers fire, requests and models answer, the runtime ends its operations,   *)
(* and time passes.                                                          *)

Fairness ==
    /\ \A v \in Writers : WF_vars(enqueue(v))
    /\ \A w \in Workers : WF_vars(Work(w))
    /\ WF_vars(BackoffEnds) /\ WF_vars(LeaseLapses /\ Unrenewed) /\ WF_vars(lands_late)

FairSpec == Spec /\ Fairness
----------------------------------------------------------------------------
Running(w) == IF pass[w].at = "run" THEN 1 ELSE 0

(* Whatever the runtime executes under a lease is counted by the standing      *)
(* lease and is its owner's: however late an operation ends and however many   *)
(* renewals are missed, no other client gets the lease before it has ended.    *)
OperationsFenced ==
    /\ \A w \in Workers : pass[w].at = "run" => Holds(w)
    /\ late # None => Holds(late.worker)
    /\ lease # None =>
          lease.active_operations = Running(lease.owner) + (IF late # None THEN 1 ELSE 0)

(* "A write arriving during processing marks the owner dirty so one additional *)
(* pass runs": a completed job has had every write it was asked for read,      *)
(* unless an update landed that was meant for a job in another state.          *)
AskedIsExamined ==
    ~overtaken /\ job.status = "completed" => asked <= examined

(* From some point on nobody changes memories, seeds or undoes, no client goes *)
(* or is interrupted, requests and providers do not fail, and renewals of a    *)
(* pass are in time.                                                         *)
Quiet ==
    /\ <>[][\A v \in Writers : ~Begin(v)]_vars
    /\ <>[][\A w \in Workers : ~Trouble(w)]_vars
    /\ <>[][~Restart]_vars
    /\ <>[][LeaseLapses => Unrenewed]_vars

(* "Queue state survives restart": then one open client is enough for the job  *)
(* to end, whoever had it and wherever it was left; retries, batches and       *)
(* follow-ups come to an end.                                                *)
JobSettles ==
    Quiet /\ (\E w \in Workers : WF_vars(acquire(w)))
      => <>[](job.status \in {"missing", "completed", "failed", "suppressed"})
=============================================================================
