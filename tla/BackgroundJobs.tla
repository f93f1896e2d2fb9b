--------------------------- MODULE BackgroundJobs ---------------------------
(* One queue of durable background jobs: the handlers of                      *)
(* commands/storage/background_jobs.rs with the worker lease of state.rs, and *)
(* the clients (browser tabs, engine/generation/background-job-queue.ts) that *)
(* enqueue jobs and run them.  Jobs are stored; leases live in memory.        *)
(*                                                                           *)
(* Time is the order of events: a lease, a hold or a backoff ends by an action *)
(* of its own, and one that has ended is the same to every handler as one     *)
(* that was never there.  enqueue is one step under the jobs lock; claim and  *)
(* finish are two, the check of the lease and the operation, because the      *)
(* lease's lock is released between them.                                     *)
(*                                                                           *)
(* A definition named Faulty_... is a variant with a bug, for the mutation    *)
(* runs only.                                                                *)
EXTENDS Naturals

CONSTANTS Keys, Payloads, Holds,
          Workers,          \* page loads: one worker id each
          LeaseIds,         \* new_id() takes one that nothing refers to
          MAX_ATTEMPTS,
          None              \* JSON null, Option::None

ASSUME AttemptsAssumption == MAX_ATTEMPTS \in Nat \ {0}
ASSUME NoneAssumption == None \notin Payloads \cup LeaseIds \cup Keys \cup Holds

VARIABLES
    jobs,       \* the rows of the background-jobs collection, by key
    older,      \* createdAt: for each stored job, the keys of those created earlier
    lease,      \* the unexpired lease of the queue
    open,       \* which tabs are open
    wake,       \* a tab's schedule() is still to run: timer, rerun flag or deferral
    pass,       \* runPass of each tab
    unheard     \* a job was stored, its enqueuer not told, while no tab was at work

state == <<jobs, older, lease, open, wake, pass>>
vars  == <<jobs, older, lease, open, wake, pass, unheard>>

NoJob == [status |-> "missing", payload |-> None, attempts |-> 0, due |-> FALSE,
          claimLeaseId |-> None, rerunRequested |-> FALSE, rerunPayload |-> None,
          holds |-> {}]

(* Attempts matter up to the first count that no longer retries.              *)
Job == [status : {"missing", "queued", "retryable", "running", "failed"},
        payload : Payloads \cup {None}, attempts : 0 .. MAX_ATTEMPTS + 1,
        due : BOOLEAN, claimLeaseId : LeaseIds \cup {None},
        rerunRequested : BOOLEAN, rerunPayload : Payloads \cup {None},
        holds : SUBSET Holds]

(* "loop": at the top of runPass's loop; "claim", "finish": the server has    *)
(* checked the lease and not yet operated; "run": in definition.run.  lost is *)
(* leaseLost; job and payload are those of the claimed run.                   *)
Outcomes == {"done", "retry", "failed"}
NoPass == [at |-> "none", leaseId |-> None, lost |-> FALSE, job |-> None,
           payload |-> None, outcome |-> None]
Pass == [at : {"none", "loop", "claim", "run", "finish"}, leaseId : LeaseIds \cup {None},
         lost : BOOLEAN, job : Keys \cup {None}, payload : Payloads \cup {None},
         outcome : Outcomes \cup {None}]

TypeOK ==
    /\ jobs \in [Keys -> Job]
    /\ older \in [Keys -> SUBSET Keys]
    /\ lease \in LeaseIds \cup {None}
    /\ open \in [Workers -> BOOLEAN]
    /\ wake \in [Workers -> BOOLEAN]
    /\ pass \in [Workers -> Pass]
    /\ unheard \in BOOLEAN

(* An opened tab resumes the queue: useResumeQueuedBackgroundJobs. *)
Init ==
    /\ jobs = [k \in Keys |-> NoJob]
    /\ older = [k \in Keys |-> {}]
    /\ lease = None
    /\ open = [w \in Workers |-> TRUE]
    /\ wake = [w \in Workers |-> TRUE]
    /\ pass = [w \in Workers |-> NoPass]
    /\ unheard = FALSE
----------------------------------------------------------------------------
Stored(k) == jobs[k].status # "missing"

Asleep == \A w \in Workers : ~wake[w] /\ pass[w].at = "none"

(* A running job is asked to run again; any other is stored anew.             *)
Faulty_Rerun_unasked(job, p, holds) == [job EXCEPT !.rerunPayload = p, !.holds = holds]
Faulty_Rerun_overwrites(job, p, holds) ==
    [job EXCEPT !.rerunRequested = TRUE, !.rerunPayload = p, !.payload = p, !.holds = holds]
Rerun(job, p, holds) ==
    [job EXCEPT !.rerunRequested = TRUE, !.rerunPayload = p, !.holds = holds]

Queued(p, holds) ==
    [status |-> "queued", payload |-> p, attempts |-> 0, due |-> FALSE,
     claimLeaseId |-> None, rerunRequested |-> FALSE, rerunPayload |-> None,
     holds |-> holds]

(* The new holds of a job: hold and release are holds or None. *)
Faulty_HoldsAfter_null(k, hold, release) == (jobs[k].holds \ {release}) \cup {hold}
HoldsAfter(k, hold, release) ==
    (jobs[k].holds \ {release}) \cup ({hold} \ {None})

(* A stored job keeps its createdAt, a new one comes after all others. *)
Faulty_Created(k) == [older EXCEPT ![k] = {j \in Keys \ {k} : Stored(j)}]
Created(k) == IF Stored(k) THEN older ELSE [older EXCEPT ![k] = {j \in Keys : Stored(j)}]

(* The tab schedules a pass once it is told that the job is stored; an answer  *)
(* that fails or is late leaves the job stored and the tab as it was.         *)
enqueue(w, k, p, hold, release, answered) ==
    /\ open[w]
    /\ LET holds == HoldsAfter(k, hold, release)
       IN jobs' = [jobs EXCEPT ![k] = IF @.status = "running" THEN Rerun(@, p, holds)
                                                              ELSE Queued(p, holds)]
    /\ older' = Created(k)
    /\ wake' = [wake EXCEPT ![w] = @ \/ answered]
    /\ unheard' = (Asleep /\ ~answered)
    /\ UNCHANGED <<lease, open, pass>>

(* Whoever enqueues places (or renews) a hold, releases one, or does neither. *)
Enqueue == \E w \in Workers, k \in Keys, p \in Payloads, answered \in BOOLEAN :
              \/ enqueue(w, k, p, None, None, answered)
              \/ \E h \in Holds : \/ enqueue(w, k, p, h, None, answered)
                                  \/ enqueue(w, k, p, None, h, answered)

HoldLapses(k, h) ==
    /\ h \in jobs[k].holds
    /\ jobs' = [jobs EXCEPT ![k].holds = @ \ {h}]
    /\ UNCHANGED <<older, lease, open, wake, pass>>

BackoffEnds(k) ==
    /\ jobs[k].status = "retryable" /\ ~jobs[k].due
    /\ jobs' = [jobs EXCEPT ![k].due = TRUE]
    /\ UNCHANGED <<older, lease, open, wake, pass>>
----------------------------------------------------------------------------
(* acquire_background_worker: granted when no unexpired lease is there. While  *)
(* another tab holds one, schedule() comes back later (busyRetryMs).          *)
Unused == LeaseIds \ ({lease} \cup {pass[w].leaseId : w \in Workers}
                              \cup {jobs[k].claimLeaseId : k \in Keys})

acquire_worker(w) ==
    /\ open[w] /\ wake[w] /\ pass[w].at = "none"
    /\ lease = None
    /\ \E id \in Unused :
          /\ lease' = id
          /\ pass' = [pass EXCEPT ![w] = [NoPass EXCEPT !.at = "loop", !.leaseId = id]]
    /\ wake' = [wake EXCEPT ![w] = FALSE]
    /\ UNCHANGED <<jobs, older, open>>

(* A heartbeat fails: the lease is gone, or the request did not get through.  *)
HeartbeatFails(w) ==
    /\ open[w] /\ pass[w].at # "none" /\ ~pass[w].lost
    /\ pass' = [pass EXCEPT ![w].lost = TRUE]
    /\ UNCHANGED <<jobs, older, lease, open, wake>>

(* No renewal within the lease's TTL. *)
LeaseLapses ==
    /\ lease # None
    /\ lease' = None
    /\ UNCHANGED <<jobs, older, open, wake, pass>>

(* The end of a pass: release_background_worker removes the lease if it is    *)
(* still the caller's; a pass that lost its lease does not ask, and a request *)
(* may fail.                                                                 *)
EndPass(w, again) ==
    /\ pass' = [pass EXCEPT ![w] = NoPass]
    /\ wake' = [wake EXCEPT ![w] = open[w] /\ (@ \/ again)]
    /\ \/ ~pass[w].lost /\ open[w] /\ lease' = (IF lease = pass[w].leaseId THEN None ELSE lease)
       \/ UNCHANGED lease

(* At the top of the loop: the lease is lost, a reply is being generated in   *)
(* this tab, or the next request fails (its lease has lapsed, say).           *)
LeaveLoop(w) ==
    /\ open[w] /\ pass[w].at = "loop"
    /\ EndPass(w, TRUE)
    /\ UNCHANGED <<jobs, older, open>>

(* with_background_worker_lease: the check, for a claim. *)
claim_checked(w) ==
    /\ open[w] /\ pass[w].at = "loop" /\ ~pass[w].lost
    /\ lease = pass[w].leaseId
    /\ pass' = [pass EXCEPT ![w].at = "claim"]
    /\ UNCHANGED <<jobs, older, lease, open, wake>>

(* claimable_at, and whether it has come. *)
Faulty_Claimable(k, leaseId) == jobs[k].status \in {"queued", "retryable"}
Claimable(k, leaseId) ==
    \/ jobs[k].status \in {"queued", "retryable"}
    \/ jobs[k].status = "running" /\ jobs[k].claimLeaseId # leaseId

Due(k, leaseId) ==
    /\ Claimable(k, leaseId)
    /\ jobs[k].status = "retryable" => jobs[k].due
    /\ jobs[k].holds = {}

OldestDue(k, leaseId) ==
    Due(k, leaseId) /\ \A j \in older[k] : ~Due(j, leaseId)

Counted(n) == IF n > MAX_ATTEMPTS THEN n ELSE n + 1

Claimed(job, leaseId) ==
    [job EXCEPT !.status = "running", !.claimLeaseId = leaseId,
                !.attempts = Counted(@), !.due = FALSE]

(* The operation of a claim.  A tab that has closed meanwhile runs nothing.    *)
claim_takes(w, k) ==
    /\ pass[w].at = "claim"
    /\ OldestDue(k, pass[w].leaseId)
    /\ jobs' = [jobs EXCEPT ![k] = Claimed(@, pass[w].leaseId)]
    /\ pass' = [pass EXCEPT ![w] =
                   IF open[w] THEN [@ EXCEPT !.at = "run", !.job = k, !.payload = jobs[k].payload]
                              ELSE NoPass]
    /\ UNCHANGED <<older, lease, open, wake>>

claim_finds_none(w) ==
    /\ pass[w].at = "claim"
    /\ \A k \in Keys : ~Due(k, pass[w].leaseId)
    /\ EndPass(w, \E k \in Keys : Claimable(k, pass[w].leaseId))
    /\ UNCHANGED <<jobs, older, open>>

claim(w) == (\E k \in Keys : claim_takes(w, k)) \/ claim_finds_none(w)
----------------------------------------------------------------------------
(* The run ends; finish checks the lease. *)
finish_checked(w, outcome) ==
    /\ open[w] /\ pass[w].at = "run"
    /\ lease = pass[w].leaseId
    /\ pass' = [pass EXCEPT ![w].at = "finish", ![w].outcome = outcome]
    /\ UNCHANGED <<jobs, older, lease, open, wake>>

finish_refused(w) ==
    /\ open[w] /\ pass[w].at = "run"
    /\ lease # pass[w].leaseId
    /\ EndPass(w, TRUE)
    /\ UNCHANGED <<jobs, older, open>>

(* How a claimed run leaves its job. *)
Faulty_Finished_rerun(job, outcome) ==
    IF outcome = "done" THEN NoJob
    ELSE [job EXCEPT !.status = IF outcome = "retry" /\ job.attempts < MAX_ATTEMPTS
                                THEN "retryable" ELSE "failed",
                     !.claimLeaseId = None]
Faulty_Finished_claim(job, outcome) ==
    IF job.rerunRequested THEN Queued(job.rerunPayload, job.holds)
    ELSE IF outcome = "done" THEN NoJob
    ELSE [job EXCEPT !.status = IF outcome = "retry" /\ job.attempts < MAX_ATTEMPTS
                                THEN "retryable" ELSE "failed"]
Faulty_Finished_holds(job, outcome) ==
    IF job.rerunRequested THEN Queued(job.rerunPayload, {})
    ELSE IF outcome = "done" THEN NoJob
    ELSE [job EXCEPT !.status = IF outcome = "retry" /\ job.attempts < MAX_ATTEMPTS
                                THEN "retryable" ELSE "failed",
                     !.claimLeaseId = None]
Finished(job, outcome) ==
    IF job.rerunRequested THEN Queued(job.rerunPayload, job.holds)
    ELSE IF outcome = "done" THEN NoJob
    ELSE [job EXCEPT !.status = IF outcome = "retry" /\ job.attempts < MAX_ATTEMPTS
                                THEN "retryable" ELSE "failed",
                     !.claimLeaseId = None]

(* delete leaves no createdAt behind. *)
Forget(k) == [j \in Keys |-> IF j = k THEN {} ELSE older[j] \ {k}]

NextTurn(w) == IF open[w] THEN [NoPass EXCEPT !.at = "loop", !.leaseId = pass[w].leaseId,
                                              !.lost = pass[w].lost]
                          ELSE NoPass

(* The operation of finish; then the pass goes on. *)
finish_records(w) ==
    LET k == pass[w].job
        job == Finished(jobs[k], pass[w].outcome)
    IN /\ pass[w].at = "finish"
       /\ jobs[k].claimLeaseId = pass[w].leaseId
       /\ jobs' = [jobs EXCEPT ![k] = job]
       /\ older' = IF job = NoJob THEN Forget(k) ELSE older
       /\ pass' = [pass EXCEPT ![w] = NextTurn(w)]
       /\ UNCHANGED <<lease, open, wake>>

finish_missing(w) ==
    /\ pass[w].at = "finish" /\ ~Stored(pass[w].job)
    /\ pass' = [pass EXCEPT ![w] = NextTurn(w)]
    /\ UNCHANGED <<jobs, older, lease, open, wake>>

(* An error ends the pass. *)
finish_not_claimed(w) ==
    /\ pass[w].at = "finish" /\ Stored(pass[w].job)
    /\ jobs[pass[w].job].claimLeaseId # pass[w].leaseId
    /\ EndPass(w, TRUE)
    /\ UNCHANGED <<jobs, older, open>>

finish(w) == finish_records(w) \/ finish_missing(w) \/ finish_not_claimed(w)

(* A request of the pass fails in transit or in the storage before it took    *)
(* effect, or its answer is lost after it did.                               *)
RequestFails(w) ==
    /\ open[w] /\ pass[w].at \in {"claim", "run", "finish"}
    /\ EndPass(w, TRUE)
    /\ UNCHANGED <<jobs, older, open>>
----------------------------------------------------------------------------
(* A tab is closed or reloaded; a request the server is executing goes on.     *)
Close(w) ==
    /\ open[w]
    /\ open' = [open EXCEPT ![w] = FALSE]
    /\ wake' = [wake EXCEPT ![w] = FALSE]
    /\ pass' = [pass EXCEPT ![w] = IF @.at \in {"claim", "finish"} THEN @ ELSE NoPass]
    /\ UNCHANGED <<jobs, older, lease>>

Open(w) ==
    /\ ~open[w] /\ pass[w].at = "none"
    /\ open' = [open EXCEPT ![w] = TRUE]
    /\ wake' = [wake EXCEPT ![w] = TRUE]
    /\ UNCHANGED <<jobs, older, lease, pass>>

(* The runtime restarts: leases and requests are gone, clients and jobs stay. *)
Restart ==
    /\ lease' = None
    /\ pass' = [w \in Workers |-> IF pass[w].at \in {"claim", "finish"} THEN NoPass ELSE pass[w]]
    /\ wake' = [w \in Workers |-> IF pass[w].at \in {"claim", "finish"} THEN open[w] ELSE wake[w]]
    /\ UNCHANGED <<jobs, older, open>>

Work(w) == \/ acquire_worker(w) \/ claim_checked(w) \/ claim(w)
           \/ (\E outcome \in Outcomes : finish_checked(w, outcome))
           \/ finish_refused(w) \/ finish(w)

Trouble(w) == HeartbeatFails(w) \/ RequestFails(w) \/ Close(w)

Step == \/ \E k \in Keys : BackoffEnds(k) \/ \E h \in Holds : HoldLapses(k, h)
        \/ \E w \in Workers : Work(w) \/ LeaveLoop(w) \/ Trouble(w) \/ Open(w)
        \/ LeaseLapses \/ Restart

(* unheard is a history variable: no step depends on it.                      *)
Next == Enqueue \/ (Step /\ unheard' = (unheard /\ Asleep'))

Spec == Init /\ [][Next]_vars

(* Timers fire, requests are answered, runs end, time passes; foreground       *)
(* replies leave gaps for claims.                                            *)
Fairness ==
    /\ \A w \in Workers :
          /\ WF_state(acquire_worker(w)) /\ SF_state(claim_checked(w)) /\ WF_state(claim(w))
          /\ WF_state(\E outcome \in Outcomes : finish_checked(w, outcome))
          /\ WF_state(finish_refused(w)) /\ WF_state(finish(w)) /\ WF_state(LeaveLoop(w))
    /\ \A k \in Keys : WF_state(BackoffEnds(k)) /\ \A h \in Holds : WF_state(HoldLapses(k, h))
    /\ WF_state(LeaseLapses /\ \A w \in Workers : pass[w].leaseId # lease)

FairSpec == Spec /\ Fairness
----------------------------------------------------------------------------
Running(w) == pass[w].at \in {"run", "finish"}

(* What the fields of a stored job say together: a claim exists exactly while *)
(* a job is running, a rerun can only be asked of a running job, a job that    *)
(* was claimed has counted it, and a retry is left only below MAX_ATTEMPTS.   *)
JobsConsistent ==
    \A k \in Keys :
        LET job == jobs[k] IN
        /\ job.status = "running" <=> job.claimLeaseId # None
        /\ job.rerunRequested => job.status = "running" /\ job.rerunPayload # None
        /\ job.status \in {"missing", "queued"} <=> job.attempts = 0
        /\ job.status = "retryable" => job.attempts < MAX_ATTEMPTS
        /\ job.payload = None <=> job.status = "missing"

(* A held job that is running is to run again, so that no run that started    *)
(* before the hold can delete the job, and the hold with it.                  *)
HeldRunReruns ==
    \A k \in Keys : jobs[k].status = "running" /\ jobs[k].holds # {} => jobs[k].rerunRequested

(* A hold goes only by its own release or its own lapse, whatever other turns *)
(* enqueue and however runs end meanwhile ("each piece of work holds under its *)
(* own id, so one finishing never releases another").                         *)
HoldsKept ==
    [][\A k \in Keys, h \in Holds :
          h \in jobs[k].holds /\ h \notin jobs'[k].holds
            => \/ HoldLapses(k, h)
               \/ \E w \in Workers, p \in Payloads, answered \in BOOLEAN :
                     enqueue(w, k, p, None, h, answered)]_vars

(* An outcome is recorded for the run that earned it: while a worker's claim  *)
(* stands, the job has the payload the worker was handed, and no other worker *)
(* runs under the same lease.                                                *)
ClaimIsCurrent ==
    \A w \in Workers : Running(w) =>
        /\ jobs[pass[w].job].claimLeaseId = pass[w].leaseId
              => jobs[pass[w].job].payload = pass[w].payload
        /\ \A u \in Workers : u # w => pass[u].leaseId # pass[w].leaseId

(* A job keeps its place in the queue while it is stored: neither a trigger    *)
(* for it, nor a rerun or a retry, moves it behind or before another.          *)
PlacesKept ==
    [][\A j, k \in Keys :
          Stored(j) /\ Stored(k) /\ jobs'[j].status # "missing" /\ jobs'[k].status # "missing"
            => (j \in older[k] <=> j \in older'[k])]_vars

(* The latest trigger of each key, for the refinement of TriggerBoard. *)
Post(job) ==
    IF job.status = "missing" THEN [state |-> "none", payload |-> None]
    ELSE [state   |-> IF job.rerunRequested \/ job.attempts = 0 THEN "fresh"
                      ELSE IF job.status = "failed" THEN "failed" ELSE "taken",
          payload |-> IF job.rerunRequested THEN job.rerunPayload ELSE job.payload]

Board == INSTANCE TriggerBoard WITH board <- [k \in Keys |-> Post(jobs[k])]

(* The queue implements TriggerBoard: "a trigger that arrives while its job is *)
(* running is never lost to that run's finish", nor to a lost lease, a closed *)
(* tab, a second worker or a restart.                                         *)
ImplementsTriggers == Board!Spec

(* From some point on nobody enqueues, no client goes, no request fails, and  *)
(* renewals are in time.                                                     *)
Quiet ==
    /\ <>[][~Enqueue]_vars
    /\ <>[][\A w \in Workers : ~Trouble(w)]_vars
    /\ <>[][~Restart]_vars
    /\ <>[][LeaseLapses => \A w \in Workers : pass[w].leaseId # lease]_vars

Settled == \A k \in Keys : jobs[k].status \in {"missing", "failed"}

(* "The next open client (or this one, after a reload) runs it": when closed  *)
(* tabs are opened again, every job is run to its end, whoever had it; except *)
(* a job stored without its enqueuer being told while every tab was idle: it  *)
(* waits for the next reload or trigger, since only an answer wakes a tab.    *)
QueuedJobsSettle ==
    Quiet /\ <>[](\A w \in Workers : open[w]) /\ <>[]~unheard => <>[]Settled

(* "A closed tab stops renewing, its hold lapses and any client runs the job"  *)
(* (start-generation.ts): one client that stays open is enough.               *)
AnyClientRunsTheJob ==
    Quiet /\ <>[](\E w \in Workers : open[w]) /\ <>[]~unheard => <>[]Settled
=============================================================================
