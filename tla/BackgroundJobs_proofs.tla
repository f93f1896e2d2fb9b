------------------------ MODULE BackgroundJobs_proofs ------------------------
(* Proofs of BackgroundJobs for any number of jobs, payloads, holds, workers   *)
(* and lease ids.  The handlers rewrite one job at a time, so what they do to  *)
(* a job is stated in lemmas of its own; the inductive invariant joins the    *)
(* consistency of every job with what each pass knows about its claim.        *)
EXTENDS BackgroundJobs, TLAPS

(* The types of what is not history. *)
StateOK ==
    /\ jobs \in [Keys -> Job]
    /\ older \in [Keys -> SUBSET Keys]
    /\ lease \in LeaseIds \cup {None}
    /\ open \in [Workers -> BOOLEAN]
    /\ wake \in [Workers -> BOOLEAN]
    /\ pass \in [Workers -> Pass]

(* The conjuncts of JobsConsistent and HeldRunReruns, of one job. *)
JobOK(job) ==
    /\ job.status = "running" <=> job.claimLeaseId # None
    /\ job.rerunRequested => job.status = "running" /\ job.rerunPayload # None
    /\ job.status \in {"missing", "queued"} <=> job.attempts = 0
    /\ job.status = "retryable" => job.attempts < MAX_ATTEMPTS
    /\ job.payload = None <=> job.status = "missing"
    /\ job.status = "running" /\ job.holds # {} => job.rerunRequested

JobsOK == \A k \in Keys : JobOK(jobs[k])

(* A pass has a lease, a run its job. *)
PassOK(w) ==
    /\ pass[w].at # "none" => pass[w].leaseId \in LeaseIds
    /\ Running(w) => pass[w].job \in Keys
    /\ pass[w].at = "finish" => pass[w].outcome \in Outcomes

PassesOK == \A w \in Workers : PassOK(w)

(* No two passes have the same lease, and a standing claim's payload is its    *)
(* run's.                                                                    *)
LeasesApart ==
    \A w, u \in Workers :
        w # u /\ pass[w].leaseId # None => pass[u].leaseId # pass[w].leaseId

PayloadsAgree ==
    \A w \in Workers :
        Running(w) /\ jobs[pass[w].job].claimLeaseId = pass[w].leaseId
            => jobs[pass[w].job].payload = pass[w].payload

IInv == StateOK /\ JobsOK /\ PassesOK /\ LeasesApart /\ PayloadsAgree
-----------------------------------------------------------------------------
(* The empty row. *)
LEMMA NoJobOK == NoJob \in Job /\ JobOK(NoJob)
BY AttemptsAssumption, NoneAssumption DEF NoJob, Job, JobOK

(* A new row is queued with its payload. *)
LEMMA QueuedOK ==
    ASSUME NEW p \in Payloads, NEW holds \in SUBSET Holds
    PROVE  Queued(p, holds) \in Job /\ JobOK(Queued(p, holds))
<1>1. 0 \in 0 .. MAX_ATTEMPTS + 1
  BY AttemptsAssumption
<1>2. Queued(p, holds) \in Job
  BY <1>1 DEF Job, Queued
<1>3. JobOK(Queued(p, holds))
  BY NoneAssumption DEF JobOK, Queued
<1> QED
  BY <1>2, <1>3

(* Asking for a rerun leaves a running job running, under the same claim. *)
LEMMA RerunOK ==
    ASSUME NEW job \in Job, JobOK(job), job.status = "running",
           NEW p \in Payloads, NEW holds \in SUBSET Holds
    PROVE  /\ Rerun(job, p, holds) \in Job
           /\ JobOK(Rerun(job, p, holds))
           /\ Rerun(job, p, holds).claimLeaseId = job.claimLeaseId
           /\ Rerun(job, p, holds).payload = job.payload
           /\ Rerun(job, p, holds).holds = holds
           /\ Rerun(job, p, holds).status = "running"
BY AttemptsAssumption, NoneAssumption DEF Rerun, Job, JobOK

(* A claim of a job without holds. *)
LEMMA ClaimedOK ==
    ASSUME NEW job \in Job, JobOK(job), job.holds = {}, job.status # "missing",
           NEW id \in LeaseIds
    PROVE  /\ Claimed(job, id) \in Job
           /\ JobOK(Claimed(job, id))
           /\ Claimed(job, id).claimLeaseId = id
           /\ Claimed(job, id).payload = job.payload
           /\ Claimed(job, id).holds = job.holds
           /\ Claimed(job, id).status = "running"
<1>1. Counted(job.attempts) \in 0 .. MAX_ATTEMPTS + 1 /\ Counted(job.attempts) # 0
  BY AttemptsAssumption DEF Counted, Job
<1> DEFINE new == Claimed(job, id)
<1>2. /\ new.status = "running" /\ new.claimLeaseId = id /\ new.holds = job.holds
      /\ new.payload = job.payload /\ new.attempts = Counted(job.attempts)
      /\ new.rerunRequested = job.rerunRequested /\ new.rerunPayload = job.rerunPayload
  BY DEF Claimed, Job
<1>3. new \in Job
  <2>1. new = [job EXCEPT !.status = "running", !.claimLeaseId = id,
                          !.attempts = Counted(job.attempts), !.due = FALSE]
    BY DEF Claimed
  <2> HIDE DEF new
  <2> QED
    BY <1>1, <2>1 DEF Job
<1>4. /\ job.payload # None /\ id # None
      /\ ~job.rerunRequested \/ job.rerunPayload # None
  BY NoneAssumption DEF JobOK
<1>5. JobOK(new)
  <2> HIDE DEF new
  <2> QED
    BY <1>1, <1>2, <1>4, NoneAssumption DEF JobOK
<1> QED
  BY <1>2, <1>3, <1>5

(* The end of a claimed run: the claim goes, the holds stay. *)
LEMMA FinishedOK ==
    ASSUME NEW job \in Job, JobOK(job), job.status = "running",
           NEW outcome \in Outcomes
    PROVE  /\ Finished(job, outcome) \in Job
           /\ JobOK(Finished(job, outcome))
           /\ Finished(job, outcome).claimLeaseId = None
           /\ Finished(job, outcome).holds = job.holds
<1>1. CASE job.rerunRequested
  <2>1. job.rerunPayload \in Payloads /\ job.holds \in SUBSET Holds
    BY <1>1 DEF Job, JobOK
  <2>2. Finished(job, outcome) = Queued(job.rerunPayload, job.holds)
    BY <1>1 DEF Finished
  <2> QED
    BY <2>1, <2>2, QueuedOK DEF Queued, NoJob
<1>2. CASE ~job.rerunRequested /\ outcome = "done"
  <2>1. job.holds = {}
    BY <1>2 DEF JobOK
  <2> QED
    BY <1>2, <2>1, NoJobOK DEF Finished, NoJob
<1>3. CASE ~job.rerunRequested /\ outcome # "done"
  <2>1. /\ job.attempts # 0 /\ job.payload # None /\ job.holds = {}
        /\ job.claimLeaseId # None
    BY <1>3 DEF JobOK
  <2> DEFINE new == Finished(job, outcome)
             status == IF outcome = "retry" /\ job.attempts < MAX_ATTEMPTS
                       THEN "retryable" ELSE "failed"
  <2>2. new = [job EXCEPT !.status = status, !.claimLeaseId = None]
    BY <1>3 DEF Finished
  <2>3. /\ new.status = status /\ new.claimLeaseId = None /\ new.holds = job.holds
        /\ new.payload = job.payload /\ new.attempts = job.attempts
        /\ new.rerunRequested = job.rerunRequested
    BY <2>2 DEF Job
  <2>4. status \in {"retryable", "failed"} /\ (status = "retryable" => job.attempts < MAX_ATTEMPTS)
    OBVIOUS
  <2> HIDE DEF status
  <2>5. new \in Job
    BY <2>2, <2>4 DEF Job
  <2>6. JobOK(new)
    <3> HIDE DEF new
    <3> QED
      BY <1>3, <2>1, <2>3, <2>4 DEF JobOK
  <2> QED
    BY <2>3, <2>5, <2>6
<1> QED
  BY <1>1, <1>2, <1>3
-----------------------------------------------------------------------------
(* A step of enqueue rewrites one job and nothing the passes know. *)
LEMMA EnqueueJob ==
    ASSUME StateOK, JobsOK, NEW w \in Workers, NEW k \in Keys, NEW p \in Payloads,
           NEW hold \in Holds \cup {None}, NEW release \in Holds \cup {None},
           NEW answered \in BOOLEAN, enqueue(w, k, p, hold, release, answered)
    PROVE  \E job \in Job :
              /\ jobs' = [jobs EXCEPT ![k] = job]
              /\ JobOK(job)
              /\ job.holds = HoldsAfter(k, hold, release)
              /\ job.claimLeaseId # None
                    => /\ job.claimLeaseId = jobs[k].claimLeaseId
                       /\ job.payload = jobs[k].payload
<1> DEFINE holds == HoldsAfter(k, hold, release)
<1>1. jobs[k] \in Job /\ JobOK(jobs[k])
  BY DEF StateOK, JobsOK
<1>2. holds \in SUBSET Holds
  BY <1>1, NoneAssumption DEF HoldsAfter, Job
<1>3. jobs' = [jobs EXCEPT ![k] = IF jobs[k].status = "running" THEN Rerun(jobs[k], p, holds)
                                                               ELSE Queued(p, holds)]
  BY DEF enqueue
<1>4. CASE jobs[k].status = "running"
  <2>1. jobs' = [jobs EXCEPT ![k] = Rerun(jobs[k], p, holds)]
    BY <1>3, <1>4
  <2> HIDE DEF holds
  <2> QED
    BY <1>1, <1>2, <1>4, <2>1, RerunOK DEF holds
<1>5. CASE jobs[k].status # "running"
  <2>1. jobs' = [jobs EXCEPT ![k] = Queued(p, holds)]
    BY <1>3, <1>5
  <2>2. Queued(p, holds).claimLeaseId = None /\ Queued(p, holds).holds = holds
    BY DEF Queued, NoJob
  <2> HIDE DEF holds
  <2> QED
    BY <1>2, <2>1, <2>2, QueuedOK DEF holds
<1> QED
  BY <1>4, <1>5

(* Every Enqueue is an enqueue with some hold and release. *)
LEMMA EnqueueCases ==
    ASSUME Enqueue
    PROVE  \E w \in Workers, k \in Keys, p \in Payloads,
              hold \in Holds \cup {None}, release \in Holds \cup {None}, answered \in BOOLEAN :
                 enqueue(w, k, p, hold, release, answered)
BY Zenon DEF Enqueue

(* The end of a pass leaves no pass. *)
LEMMA EndPassType ==
    ASSUME StateOK, NEW w \in Workers, NEW again \in BOOLEAN, EndPass(w, again)
    PROVE  /\ pass' = [pass EXCEPT ![w] = NoPass]
           /\ pass' \in [Workers -> Pass]
           /\ wake' \in [Workers -> BOOLEAN]
           /\ lease' \in LeaseIds \cup {None}
<1>1. NoPass \in Pass
  BY DEF NoPass, Pass
<1> QED
  BY <1>1 DEF EndPass, StateOK
-----------------------------------------------------------------------------
(* Most steps only let passes go on or end, and leave a standing claim its    *)
(* payload.                                                                  *)
Follows(old, new) ==
    /\ new.at # "none" => old.at # "none" /\ new.leaseId = old.leaseId
    /\ new.at = "none" => new.leaseId \in {None, old.leaseId}
    /\ new.at \in {"run", "finish"} => /\ old.at \in {"run", "finish"}
                                      /\ new.job = old.job /\ new.payload = old.payload
    /\ new.at = "finish" => new.outcome \in Outcomes

ClaimsStand ==
    \A k \in Keys : jobs'[k].claimLeaseId # None
        => /\ jobs'[k].claimLeaseId = jobs[k].claimLeaseId
           /\ jobs'[k].payload = jobs[k].payload

(* Such steps keep what is known of the passes. *)
LEMMA FollowingKeeps ==
    ASSUME PassesOK, LeasesApart, PayloadsAgree, ClaimsStand,
           \A w \in Workers : Follows(pass[w], pass'[w])
    PROVE  PassesOK' /\ LeasesApart' /\ PayloadsAgree'
<1>1. PassesOK'
  BY DEF PassesOK, PassOK, Running, Follows
<1>2. \A w \in Workers : pass'[w].leaseId \in {None, pass[w].leaseId}
  BY DEF Follows
<1>3. LeasesApart'
  BY <1>2 DEF LeasesApart
<1>4. PayloadsAgree'
  <2> SUFFICES ASSUME NEW w \in Workers, Running(w)',
                      jobs'[pass'[w].job].claimLeaseId = pass'[w].leaseId
               PROVE  jobs'[pass'[w].job].payload = pass'[w].payload
    BY DEF PayloadsAgree
  <2>1. /\ Running(w) /\ pass'[w].job = pass[w].job /\ pass'[w].payload = pass[w].payload
        /\ pass'[w].leaseId = pass[w].leaseId
    BY DEF Follows, Running
  <2>2. pass[w].job \in Keys /\ pass[w].leaseId # None
    BY <2>1, NoneAssumption DEF PassesOK, PassOK, Running
  <2> QED
    BY <2>1, <2>2 DEF ClaimsStand, PayloadsAgree
<1> QED
  BY <1>1, <1>3, <1>4

(* A pass that ends, or that is left alone. *)
LEMMA FollowsTrivially ==
    ASSUME PassesOK, NEW w \in Workers
    PROVE  Follows(pass[w], pass[w]) /\ Follows(pass[w], NoPass)
BY DEF PassesOK, PassOK, Running, Follows, NoPass

(* A step that rewrites the pass of one worker. *)
LEMMA OnePassFollows ==
    ASSUME StateOK, PassesOK, NEW w \in Workers, NEW new \in Pass, Follows(pass[w], new),
           pass' = [pass EXCEPT ![w] = new]
    PROVE  pass' \in [Workers -> Pass] /\ \A u \in Workers : Follows(pass[u], pass'[u])
BY FollowsTrivially DEF StateOK

(* A step that rewrites one job. *)
LEMMA OneJobStands ==
    ASSUME StateOK, JobsOK, NEW k \in Keys, NEW job \in Job, JobOK(job),
           jobs' = [jobs EXCEPT ![k] = job]
    PROVE  /\ jobs' \in [Keys -> Job]
           /\ JobsOK'
           /\ (job.claimLeaseId # None => /\ job.claimLeaseId = jobs[k].claimLeaseId
                                          /\ job.payload = jobs[k].payload)
                 => ClaimsStand
<1>1. jobs' \in [Keys -> Job] /\ \A j \in Keys : jobs'[j] = IF j = k THEN job ELSE jobs[j]
  BY DEF StateOK
<1>2. JobsOK'
  <2> SUFFICES ASSUME NEW j \in Keys PROVE JobOK(jobs'[j])
    BY Zenon DEF JobsOK, JobOK
  <2>1. jobs'[j] = job \/ jobs'[j] = jobs[j]
    BY <1>1
  <2> QED
    BY <2>1 DEF JobsOK
<1> QED
  BY <1>1, <1>2 DEF ClaimsStand
-----------------------------------------------------------------------------
(* Enqueueing, and the passing of time for jobs. *)
LEMMA JobsChange ==
    ASSUME IInv,
           Enqueue \/ \E k \in Keys : BackoffEnds(k) \/ \E h \in Holds : HoldLapses(k, h)
    PROVE  IInv'
<1> USE DEF IInv
<1>1. /\ jobs' \in [Keys -> Job] /\ JobsOK' /\ ClaimsStand /\ pass' = pass
      /\ older' \in [Keys -> SUBSET Keys] /\ lease' = lease /\ open' = open
      /\ wake' \in [Workers -> BOOLEAN]
  <2>1. CASE Enqueue
    <3>1. PICK w \in Workers, k \in Keys, p \in Payloads,
               hold \in Holds \cup {None}, release \in Holds \cup {None}, answered \in BOOLEAN :
                 enqueue(w, k, p, hold, release, answered)
      BY <2>1, EnqueueCases
    <3>2. jobs' \in [Keys -> Job] /\ JobsOK' /\ ClaimsStand
      BY <3>1, EnqueueJob, OneJobStands
    <3>3. older' \in [Keys -> SUBSET Keys]
      BY <3>1 DEF enqueue, Created, StateOK
    <3> QED
      BY <3>1, <3>2, <3>3 DEF enqueue, StateOK
  <2>2. ASSUME NEW k \in Keys, BackoffEnds(k) \/ \E h \in Holds : HoldLapses(k, h)
        PROVE  /\ jobs' \in [Keys -> Job] /\ JobsOK' /\ ClaimsStand
               /\ UNCHANGED <<older, lease, open, wake, pass>>
    <3>1. jobs[k] \in Job /\ JobOK(jobs[k])
      BY DEF StateOK, JobsOK
    <3>2. CASE BackoffEnds(k)
      <4> DEFINE job == [jobs[k] EXCEPT !.due = TRUE]
      <4>1. job \in Job /\ JobOK(job)
        BY <3>1 DEF Job, JobOK
      <4>2. job.claimLeaseId = jobs[k].claimLeaseId /\ job.payload = jobs[k].payload
        BY <3>1 DEF Job
      <4>3. jobs' = [jobs EXCEPT ![k] = job]
        BY <3>2 DEF BackoffEnds
      <4> HIDE DEF job
      <4> QED
        BY <3>2, <4>1, <4>2, <4>3, OneJobStands DEF BackoffEnds
    <3>3. ASSUME NEW h \in Holds, HoldLapses(k, h)
          PROVE  /\ jobs' \in [Keys -> Job] /\ JobsOK' /\ ClaimsStand
                 /\ UNCHANGED <<older, lease, open, wake, pass>>
      <4> DEFINE job == [jobs[k] EXCEPT !.holds = jobs[k].holds \ {h}]
      <4>1. job \in Job /\ JobOK(job)
        BY <3>1 DEF Job, JobOK
      <4>2. job.claimLeaseId = jobs[k].claimLeaseId /\ job.payload = jobs[k].payload
        BY <3>1 DEF Job
      <4>3. jobs' = [jobs EXCEPT ![k] = job]
        BY <3>3 DEF HoldLapses
      <4> HIDE DEF job
      <4> QED
        BY <3>3, <4>1, <4>2, <4>3, OneJobStands DEF HoldLapses
    <3> QED
      BY <2>2, <3>2, <3>3
  <2> QED
    BY <2>1, <2>2 DEF StateOK
<1>2. \A w \in Workers : Follows(pass[w], pass'[w])
  BY <1>1, FollowsTrivially
<1>3. PassesOK' /\ LeasesApart' /\ PayloadsAgree'
  BY <1>1, <1>2, FollowingKeeps
<1> QED
  BY <1>1, <1>3 DEF StateOK

(* A granted lease is one that nothing refers to. *)
LEMMA AcquireStep ==
    ASSUME IInv, NEW w \in Workers, acquire_worker(w)
    PROVE  IInv'
<1> USE DEF IInv
<1>1. PICK id \in Unused :
         /\ lease' = id
         /\ pass' = [pass EXCEPT ![w] = [NoPass EXCEPT !.at = "loop", !.leaseId = id]]
  BY DEF acquire_worker
<1>2. /\ id \in LeaseIds /\ \A u \in Workers : pass[u].leaseId # id
      /\ \A k \in Keys : jobs[k].claimLeaseId # id
  BY DEF Unused
<1> DEFINE new == [NoPass EXCEPT !.at = "loop", !.leaseId = id]
<1>3. new \in Pass /\ new.at = "loop" /\ new.leaseId = id
  BY <1>2 DEF NoPass, Pass
<1> HIDE DEF new
<1>4. /\ pass' \in [Workers -> Pass]
      /\ \A u \in Workers : pass'[u] = IF u = w THEN new ELSE pass[u]
  BY <1>1, <1>3 DEF StateOK, new
<1>5. StateOK'
  BY <1>1, <1>2, <1>4 DEF StateOK, acquire_worker
<1>6. JobsOK'
  BY DEF acquire_worker, JobsOK
<1>7. PassesOK'
  BY <1>2, <1>3, <1>4 DEF PassesOK, PassOK, Running
<1>8. LeasesApart'
  BY <1>2, <1>3, <1>4 DEF LeasesApart
<1>9. PayloadsAgree'
  BY <1>2, <1>3, <1>4 DEF PayloadsAgree, Running, acquire_worker
<1> QED
  BY <1>5, <1>6, <1>7, <1>8, <1>9

(* The steps of passes, tabs and the runtime that leave the jobs alone. *)
PassesOnly ==
    \/ \E w \in Workers :
          \/ claim_checked(w) \/ claim_finds_none(w)
          \/ \E outcome \in Outcomes : finish_checked(w, outcome)
          \/ finish_refused(w) \/ finish_missing(w) \/ finish_not_claimed(w)
          \/ LeaveLoop(w) \/ Trouble(w) \/ Open(w)
    \/ LeaseLapses \/ Restart

(* They keep the invariant. *)
LEMMA PassesOnlyStep ==
    ASSUME IInv, PassesOnly
    PROVE  IInv'
<1> USE DEF IInv
<1> DEFINE Goal == /\ UNCHANGED <<jobs, older>>
                   /\ pass' \in [Workers -> Pass]
                   /\ \A u \in Workers : Follows(pass[u], pass'[u])
                   /\ lease' \in LeaseIds \cup {None}
                   /\ open' \in [Workers -> BOOLEAN]
                   /\ wake' \in [Workers -> BOOLEAN]
<1>1. ASSUME NEW w \in Workers, NEW again \in BOOLEAN, EndPass(w, again),
             UNCHANGED <<jobs, older, open>>
      PROVE  Goal
  <2>1. NoPass \in Pass
    BY DEF NoPass, Pass
  <2> QED
    BY <1>1, <2>1, EndPassType, FollowsTrivially, OnePassFollows DEF StateOK
<1>2. ASSUME NEW w \in Workers, NEW new \in Pass, Follows(pass[w], new),
             pass' = [pass EXCEPT ![w] = new], UNCHANGED <<jobs, older>>,
             lease' \in LeaseIds \cup {None}, open' \in [Workers -> BOOLEAN],
             wake' \in [Workers -> BOOLEAN]
      PROVE  Goal
  BY <1>2, OnePassFollows
<1>3. ASSUME NEW w \in Workers
      PROVE  /\ pass[w] \in Pass /\ PassOK(w)
             /\ Follows(pass[w], pass[w]) /\ Follows(pass[w], NoPass) /\ NoPass \in Pass
  BY FollowsTrivially DEF StateOK, PassesOK, NoPass, Pass
<1>4. Goal
  <2>1. ASSUME NEW w \in Workers, claim_checked(w) PROVE Goal
    <3> DEFINE new == [pass[w] EXCEPT !.at = "claim"]
    <3>1. new \in Pass /\ Follows(pass[w], new)
      BY <1>3, <2>1 DEF claim_checked, Pass, Follows
    <3>2. pass' = [pass EXCEPT ![w] = new]
      BY <2>1 DEF claim_checked
    <3> HIDE DEF new, Goal
    <3> QED
      BY <1>2, <2>1, <3>1, <3>2 DEF claim_checked, StateOK
  <2>2. ASSUME NEW w \in Workers, claim_finds_none(w) PROVE Goal
    <3> HIDE DEF Goal
    <3> QED BY <1>1, <2>2 DEF claim_finds_none
  <2>3. ASSUME NEW w \in Workers, NEW outcome \in Outcomes, finish_checked(w, outcome)
        PROVE  Goal
    <3> DEFINE new == [pass[w] EXCEPT !.at = "finish", !.outcome = outcome]
    <3>1. new \in Pass /\ Follows(pass[w], new)
      BY <1>3, <2>3 DEF finish_checked, Pass, Follows
    <3>2. pass' = [pass EXCEPT ![w] = new]
      BY <2>3 DEF finish_checked, StateOK
    <3> HIDE DEF new, Goal
    <3> QED
      BY <1>2, <2>3, <3>1, <3>2 DEF finish_checked, StateOK
  <2>4. ASSUME NEW w \in Workers, \/ finish_refused(w) \/ finish_not_claimed(w)
                                  \/ LeaveLoop(w) \/ RequestFails(w)
        PROVE  Goal
    <3> HIDE DEF Goal
    <3> QED BY <1>1, <2>4 DEF finish_refused, finish_not_claimed, LeaveLoop, RequestFails
  <2>5. ASSUME NEW w \in Workers, finish_missing(w) PROVE Goal
    <3>1. NextTurn(w) \in Pass /\ Follows(pass[w], NextTurn(w))
      BY <1>3, <2>5 DEF finish_missing, NextTurn, NoPass, Pass, Follows
    <3> HIDE DEF Goal
    <3> QED
      BY <1>2, <2>5, <3>1 DEF finish_missing, StateOK
  <2>6. ASSUME NEW w \in Workers, HeartbeatFails(w) PROVE Goal
    <3> DEFINE new == [pass[w] EXCEPT !.lost = TRUE]
    <3>1. new \in Pass /\ Follows(pass[w], new)
      BY <1>3, <2>6 DEF HeartbeatFails, Pass, Follows, PassOK, Running
    <3>2. pass' = [pass EXCEPT ![w] = new]
      BY <2>6 DEF HeartbeatFails
    <3> HIDE DEF new, Goal
    <3> QED
      BY <1>2, <2>6, <3>1, <3>2 DEF HeartbeatFails, StateOK
  <2>7. ASSUME NEW w \in Workers, Close(w) PROVE Goal
    <3> DEFINE new == IF pass[w].at \in {"claim", "finish"} THEN pass[w] ELSE NoPass
    <3>1. new \in Pass /\ Follows(pass[w], new)
      BY <1>3
    <3>2. pass' = [pass EXCEPT ![w] = new]
      BY <2>7 DEF Close
    <3> HIDE DEF new, Goal
    <3> QED
      BY <1>2, <2>7, <3>1, <3>2 DEF Close, StateOK
  <2>8. ASSUME NEW w \in Workers, Open(w) PROVE Goal
    BY <1>3, <2>8 DEF Open, StateOK
  <2>9. CASE LeaseLapses
    BY <1>3, <2>9 DEF LeaseLapses, StateOK
  <2>10. CASE Restart
    <3>1. pass' \in [Workers -> Pass] /\ \A u \in Workers : pass'[u] \in {pass[u], NoPass}
      BY <1>3, <2>10 DEF Restart
    <3> QED
      BY <1>3, <2>10, <3>1 DEF Restart, StateOK
  <2> HIDE DEF Goal
  <2> QED
    BY <2>1, <2>2, <2>3, <2>4, <2>5, <2>6, <2>7, <2>8, <2>9, <2>10 DEF PassesOnly, Trouble
<1>5. ClaimsStand
  BY <1>4 DEF ClaimsStand
<1>6. PassesOK' /\ LeasesApart' /\ PayloadsAgree'
  BY <1>4, <1>5, FollowingKeeps
<1> QED
  BY <1>4, <1>6 DEF StateOK, JobsOK, JobOK

(* The operation of a claim: the claimed job has no holds. *)
LEMMA ClaimStep ==
    ASSUME IInv, NEW w \in Workers, NEW k \in Keys, claim_takes(w, k)
    PROVE  IInv'
<1> USE DEF IInv
<1> DEFINE id == pass[w].leaseId
           job == Claimed(jobs[k], id)
           new == IF open[w] THEN [pass[w] EXCEPT !.at = "run", !.job = k, !.payload = jobs[k].payload]
                  ELSE NoPass
<1>1. /\ jobs[k] \in Job /\ JobOK(jobs[k]) /\ jobs[k].holds = {}
      /\ jobs[k].status # "missing" /\ id \in LeaseIds /\ pass[w] \in Pass
      /\ pass[w].at = "claim"
  BY DEF StateOK, JobsOK, PassesOK, PassOK, claim_takes, OldestDue, Due, Claimable
<1>2. /\ job \in Job /\ JobOK(job) /\ job.claimLeaseId = id
      /\ job.payload = jobs[k].payload
  BY <1>1, ClaimedOK
<1>3. /\ new \in Pass /\ new.leaseId \in {id, None} /\ new.at \in {"run", "none"}
      /\ new.at = "run" => /\ new.leaseId = id /\ new.job = k
                           /\ new.payload = jobs[k].payload
  BY <1>1 DEF Pass, NoPass, Job
<1>4. jobs' = [jobs EXCEPT ![k] = job] /\ pass' = [pass EXCEPT ![w] = new]
  BY DEF claim_takes
<1> HIDE DEF id, job, new
<1>5. /\ pass' \in [Workers -> Pass]
      /\ \A u \in Workers : pass'[u] = IF u = w THEN new ELSE pass[u]
      /\ \A j \in Keys : jobs'[j] = IF j = k THEN job ELSE jobs[j]
  BY <1>3, <1>4 DEF StateOK
<1>6. jobs' \in [Keys -> Job] /\ JobsOK'
  BY <1>2, <1>4, OneJobStands
<1>7. PassesOK'
  BY <1>1, <1>3, <1>5 DEF PassesOK, PassOK, Running, id
<1>8. LeasesApart'
  BY <1>1, <1>3, <1>5 DEF LeasesApart, id
<1>9. PayloadsAgree'
  <2> SUFFICES ASSUME NEW u \in Workers, Running(u)',
                      jobs'[pass'[u].job].claimLeaseId = pass'[u].leaseId
               PROVE  jobs'[pass'[u].job].payload = pass'[u].payload
    BY DEF PayloadsAgree
  <2>1. CASE u = w
    BY <1>2, <1>3, <1>5, <2>1 DEF Running
  <2>2. CASE u # w
    <3>1. pass'[u] = pass[u] /\ Running(u) /\ pass[u].job \in Keys /\ pass[u].leaseId # id
      BY <1>1, <1>5, <2>2, NoneAssumption DEF Running, PassesOK, PassOK, LeasesApart, id
    <3> QED
      BY <1>2, <1>5, <3>1 DEF PayloadsAgree
  <2> QED
    BY <2>1, <2>2
<1> QED
  BY <1>5, <1>6, <1>7, <1>8, <1>9 DEF StateOK, claim_takes

(* What finish finds: the job is running, under this worker's claim. *)
LEMMA FinishFinds ==
    ASSUME IInv, NEW w \in Workers, finish_records(w)
    PROVE  LET k == pass[w].job
               job == Finished(jobs[k], pass[w].outcome)
           IN /\ k \in Keys /\ jobs[k] \in Job /\ JobOK(jobs[k])
              /\ jobs[k].status = "running" /\ pass[w].outcome \in Outcomes
              /\ jobs' = [jobs EXCEPT ![k] = job]
              /\ job \in Job /\ JobOK(job) /\ job.claimLeaseId = None
              /\ job.holds = jobs[k].holds
<1> DEFINE k == pass[w].job
<1>1. /\ pass[w].at = "finish" /\ jobs[k].claimLeaseId = pass[w].leaseId
      /\ jobs' = [jobs EXCEPT ![k] = Finished(jobs[k], pass[w].outcome)]
  BY DEF finish_records
<1>2. k \in Keys /\ pass[w].outcome \in Outcomes /\ pass[w].leaseId # None
  BY <1>1, NoneAssumption DEF IInv, PassesOK, PassOK, Running
<1>3. jobs[k] \in Job /\ JobOK(jobs[k])
  BY <1>2 DEF IInv, StateOK, JobsOK
<1>4. jobs[k].status = "running"
  BY <1>1, <1>2, <1>3 DEF JobOK
<1> QED
  BY <1>1, <1>2, <1>3, <1>4, FinishedOK

(* The operation of finish: no claim is left. *)
LEMMA FinishStep ==
    ASSUME IInv, NEW w \in Workers, finish_records(w)
    PROVE  IInv'
<1> USE DEF IInv
<1> DEFINE k == pass[w].job
           job == Finished(jobs[k], pass[w].outcome)
<1>1. /\ k \in Keys /\ job \in Job /\ JobOK(job) /\ job.claimLeaseId = None
      /\ jobs' = [jobs EXCEPT ![k] = job]
  BY FinishFinds
<1>2. NextTurn(w) \in Pass /\ Follows(pass[w], NextTurn(w))
  BY DEF finish_records, NextTurn, NoPass, Pass, Follows, StateOK
<1>3. pass' = [pass EXCEPT ![w] = NextTurn(w)] /\ UNCHANGED <<lease, open, wake>>
  BY DEF finish_records
<1>4. older' \in [Keys -> SUBSET Keys]
  BY DEF finish_records, Forget, StateOK
<1> HIDE DEF k, job
<1>5. jobs' \in [Keys -> Job] /\ JobsOK' /\ ClaimsStand
  BY <1>1, OneJobStands
<1>6. pass' \in [Workers -> Pass] /\ \A u \in Workers : Follows(pass[u], pass'[u])
  BY <1>2, <1>3, OnePassFollows
<1> QED
  BY <1>3, <1>4, <1>5, <1>6, FollowingKeeps DEF StateOK

(* The invariant is inductive. *)
LEMMA InitInv == Init => IInv
<1> SUFFICES ASSUME Init PROVE IInv
  OBVIOUS
<1>1. NoPass \in Pass /\ NoPass.at = "none" /\ NoPass.leaseId = None
  BY DEF NoPass, Pass
<1>2. StateOK
  BY <1>1, NoJobOK DEF Init, StateOK
<1>3. JobsOK
  BY NoJobOK DEF Init, JobsOK
<1>4. PassesOK /\ LeasesApart /\ PayloadsAgree
  BY <1>1 DEF Init, PassesOK, PassOK, Running, LeasesApart, PayloadsAgree
<1> QED
  BY <1>2, <1>3, <1>4 DEF IInv

(* The three kinds of steps, and stuttering. *)
LEMMA StepCases ==
    ASSUME Next
    PROVE  \/ Enqueue \/ \E k \in Keys : BackoffEnds(k) \/ \E h \in Holds : HoldLapses(k, h)
           \/ \E w \in Workers : acquire_worker(w)
           \/ PassesOnly
           \/ \E w \in Workers, k \in Keys : claim_takes(w, k)
           \/ \E w \in Workers : finish_records(w)
BY DEF Next, Step, Work, claim, finish, PassesOnly

(* Every step keeps the invariant. *)
LEMMA Inductive == IInv /\ [Next]_vars => IInv'
<1> SUFFICES ASSUME IInv, [Next]_vars PROVE IInv'
  OBVIOUS
<1>1. CASE Next
  BY <1>1, StepCases, JobsChange, AcquireStep, PassesOnlyStep, ClaimStep, FinishStep
<1>2. CASE UNCHANGED vars
  BY <1>2 DEF vars, IInv, StateOK, JobsOK, JobOK, PassesOK, PassOK, Running, LeasesApart,
              PayloadsAgree
<1> QED
  BY <1>1, <1>2

(* It holds in every reachable state. *)
LEMMA Invariance == Spec => []IInv
BY InitInv, Inductive, PTL DEF Spec
-----------------------------------------------------------------------------
(* The fields of the model keep their types. *)
THEOREM TypeCorrect == Spec => []TypeOK
<1>1. Init => unheard \in BOOLEAN
  BY DEF Init
<1>2. unheard \in BOOLEAN /\ [Next]_vars => (unheard \in BOOLEAN)'
  <2>1. Enqueue => unheard' \in BOOLEAN
    <3>1. \A answered \in BOOLEAN : (Asleep /\ ~answered) \in BOOLEAN
      BY Zenon
    <3>2. Enqueue => \E answered \in BOOLEAN : unheard' = (Asleep /\ ~answered)
      BY Zenon, EnqueueCases DEF enqueue
    <3> QED BY <3>1, <3>2
  <2>2. unheard' = (unheard /\ Asleep') => unheard' \in BOOLEAN
    BY Zenon
  <2> QED BY <2>1, <2>2 DEF Next, vars
<1>3. IInv /\ unheard \in BOOLEAN => TypeOK
  BY DEF IInv, StateOK, TypeOK
<1> QED
  BY <1>1, <1>2, <1>3, Invariance, PTL DEF Spec

(* Stored jobs stay consistent: a claim exactly while running, reruns of      *)
(* running jobs only, counted attempts, retries below MAX_ATTEMPTS.           *)
THEOREM JobsAreConsistent == Spec => []JobsConsistent
<1>1. IInv => JobsConsistent
  BY DEF IInv, JobsOK, JobOK, JobsConsistent
<1> QED
  BY <1>1, Invariance, PTL

(* A running job that is held will run again. *)
THEOREM HeldRunsRerun == Spec => []HeldRunReruns
<1>1. IInv => HeldRunReruns
  BY DEF IInv, JobsOK, JobOK, HeldRunReruns
<1> QED
  BY <1>1, Invariance, PTL

(* A standing claim is of one worker, and of the payload it was handed. *)
THEOREM ClaimsAreCurrent == Spec => []ClaimIsCurrent
<1>1. IInv => ClaimIsCurrent
  BY NoneAssumption DEF IInv, PassesOK, PassOK, Running, LeasesApart, PayloadsAgree, ClaimIsCurrent
<1> QED
  BY <1>1, Invariance, PTL
-----------------------------------------------------------------------------
(* Every step but a lapse keeps the holds it does not release. *)
LEMMA HoldsStep ==
    ASSUME IInv, [Next]_vars, NEW k \in Keys, NEW h \in Holds,
           h \in jobs[k].holds, h \notin jobs'[k].holds
    PROVE  \/ HoldLapses(k, h)
           \/ \E w \in Workers, p \in Payloads, answered \in BOOLEAN :
                 enqueue(w, k, p, None, h, answered)
<1> USE DEF IInv
<1>1. jobs' # jobs
  OBVIOUS
<1>2. ASSUME NEW w \in Workers, NEW j \in Keys, NEW p \in Payloads,
             NEW hold \in Holds \cup {None}, NEW release \in Holds \cup {None},
             NEW answered \in BOOLEAN, enqueue(w, j, p, hold, release, answered)
      PROVE  j = k /\ release = h
  <2>1. PICK job \in Job : /\ jobs' = [jobs EXCEPT ![j] = job]
                           /\ job.holds = HoldsAfter(j, hold, release)
    BY <1>2, EnqueueJob
  <2>2. j = k
    BY <2>1 DEF StateOK
  <2>3. jobs'[k] = job
    BY <2>1, <2>2 DEF StateOK
  <2> QED
    BY <2>1, <2>2, <2>3 DEF HoldsAfter
<1>3. CASE Enqueue
  <2>1. PICK w \in Workers, j \in Keys, p \in Payloads, answered \in BOOLEAN :
              \/ enqueue(w, j, p, None, None, answered)
              \/ \E g \in Holds : \/ enqueue(w, j, p, g, None, answered)
                                  \/ enqueue(w, j, p, None, g, answered)
    BY <1>3 DEF Enqueue
  <2>2. ASSUME enqueue(w, j, p, None, None, answered) PROVE FALSE
    <3>1. None = h
      BY <1>2, <2>2
    <3> QED
      BY <3>1, NoneAssumption
  <2>3. ASSUME NEW g \in Holds, enqueue(w, j, p, g, None, answered) PROVE FALSE
    <3>1. None = h
      BY <1>2, <2>3
    <3> QED
      BY <3>1, NoneAssumption
  <2>4. ASSUME NEW g \in Holds, enqueue(w, j, p, None, g, answered)
        PROVE  \E u \in Workers, q \in Payloads, a \in BOOLEAN : enqueue(u, k, q, None, h, a)
    <3>1. j = k /\ g = h
      BY <1>2, <2>4
    <3> QED
      BY <2>4, <3>1
  <2> QED
    BY <2>1, <2>2, <2>3, <2>4
<1>4. ASSUME NEW j \in Keys, BackoffEnds(j) PROVE FALSE
  BY <1>4 DEF BackoffEnds, StateOK, Job
<1>5. ASSUME NEW j \in Keys, NEW g \in Holds, HoldLapses(j, g) PROVE HoldLapses(k, h)
  <2>1. jobs'[k].holds = IF j = k THEN jobs[k].holds \ {g} ELSE jobs[k].holds
    BY <1>5 DEF HoldLapses, StateOK, Job
  <2> QED
    BY <1>5, <2>1
<1>6. ASSUME NEW w \in Workers, acquire_worker(w) PROVE FALSE
  BY <1>1, <1>6 DEF acquire_worker
<1>7. CASE PassesOnly
  BY <1>1, <1>7 DEF PassesOnly, Trouble, claim_checked, claim_finds_none, finish_checked,
       finish_refused, finish_missing, finish_not_claimed, LeaveLoop, HeartbeatFails,
       RequestFails, Close, Open, LeaseLapses, Restart
<1>8. ASSUME NEW w \in Workers, NEW j \in Keys, claim_takes(w, j) PROVE FALSE
  <2>1. jobs[j] \in Job /\ jobs[j].holds = {}
    BY <1>8 DEF claim_takes, OldestDue, Due, StateOK
  <2>2. j # k
    BY <2>1
  <2> QED
    BY <1>8, <2>2 DEF claim_takes, StateOK
<1>9. ASSUME NEW w \in Workers, finish_records(w) PROVE FALSE
  <2>1. PICK j \in Keys, job \in Job : jobs' = [jobs EXCEPT ![j] = job] /\ job.holds = jobs[j].holds
    BY <1>9, FinishFinds
  <2> QED
    BY <2>1 DEF StateOK
<1> QED
  BY <1>1, <1>3, <1>4, <1>5, <1>6, <1>7, <1>8, <1>9, StepCases DEF vars

(* A hold goes only by its own release or lapse. *)
THEOREM HoldsAreKept == Spec => HoldsKept
<1>1. IInv /\ [Next]_vars
        => [\A k \in Keys, h \in Holds :
              h \in jobs[k].holds /\ h \notin jobs'[k].holds
                => \/ HoldLapses(k, h)
                   \/ \E w \in Workers, p \in Payloads, answered \in BOOLEAN :
                         enqueue(w, k, p, None, h, answered)]_vars
  BY HoldsStep
<1> QED
  BY <1>1, Invariance, PTL DEF Spec, HoldsKept
-----------------------------------------------------------------------------
(* A job's place among the others is written when it is first stored.          *)
LEMMA PlacesStep ==
    ASSUME IInv, [Next]_vars, NEW j \in Keys, NEW k \in Keys, Stored(j), Stored(k),
           jobs'[j].status # "missing", jobs'[k].status # "missing"
    PROVE  j \in older[k] <=> j \in older'[k]
<1> USE DEF IInv
<1>1. CASE older' = older
  BY <1>1
<1>2. CASE Enqueue
  <2>1. PICK i \in Keys : older' = Created(i)
    BY <1>2 DEF Enqueue, enqueue
  <2> QED
    BY <2>1 DEF Created, StateOK
<1>3. ASSUME NEW w \in Workers, finish_records(w)
      PROVE  j \in older[k] <=> j \in older'[k]
  <2> DEFINE i == pass[w].job
             job == Finished(jobs[i], pass[w].outcome)
  <2>1. jobs' = [jobs EXCEPT ![i] = job] /\ older' = IF job = NoJob THEN Forget(i) ELSE older
    BY <1>3 DEF finish_records
  <2>2. CASE job = NoJob
    <3>1. jobs'[i].status = "missing" \/ i \notin Keys
      BY <2>1, <2>2 DEF StateOK, NoJob
    <3>2. i # j /\ i # k
      BY <3>1
    <3> HIDE DEF i
    <3> QED
      BY <2>1, <2>2, <3>2 DEF Forget
  <2> QED
    BY <2>1, <2>2
<1> QED
  BY <1>1, <1>2, <1>3, StepCases
     DEF PassesOnly, Trouble, claim_checked, claim_takes, claim_finds_none, finish_checked,
         finish_refused, finish_missing, finish_not_claimed, LeaveLoop, HeartbeatFails,
         RequestFails, Close, Open, LeaseLapses, Restart, acquire_worker, BackoffEnds, HoldLapses, vars

(* No trigger, rerun or retry moves a stored job before or behind another.    *)
THEOREM PlacesAreKept == Spec => PlacesKept
<1>1. IInv /\ [Next]_vars
        => [\A j, k \in Keys :
              Stored(j) /\ Stored(k) /\ jobs'[j].status # "missing" /\ jobs'[k].status # "missing"
                => (j \in older[k] <=> j \in older'[k])]_vars
  BY PlacesStep
<1> QED
  BY <1>1, Invariance, PTL DEF Spec, PlacesKept
-----------------------------------------------------------------------------
(* The board of the refinement. *)
Posted == [k \in Keys |-> Post(jobs[k])]

(* A job rewritten moves one post, to the value of its own. *)
LEMMA PostedMoves ==
    ASSUME StateOK, NEW k \in Keys, NEW job \in Job, jobs' = [jobs EXCEPT ![k] = job]
    PROVE  Posted' = [Posted EXCEPT ![k] = Post(job)]
BY DEF Posted, StateOK

(* What Post says of a job, by cases. *)
LEMMA PostIs ==
    ASSUME NEW job \in Job, JobOK(job)
    PROVE  /\ job.status = "missing" => Post(job) = [state |-> "none", payload |-> None]
           /\ job.rerunRequested => Post(job) = [state |-> "fresh", payload |-> job.rerunPayload]
           /\ job.status = "queued" => Post(job) = [state |-> "fresh", payload |-> job.payload]
           /\ job.status = "failed" => Post(job) = [state |-> "failed", payload |-> job.payload]
           /\ job.status \in {"running", "retryable"} /\ ~job.rerunRequested
                 => Post(job) = [state |-> "taken", payload |-> job.payload]
BY DEF Post, JobOK, Job

(* A step that rewrites one job maps to what happens to its post. *)
LEMMA PostStep ==
    ASSUME StateOK, NEW k \in Keys, NEW job \in Job, jobs' = [jobs EXCEPT ![k] = job]
    PROVE  /\ Post(job) = Post(jobs[k]) => Posted' = Posted
           /\ \A p \in Payloads :
                 Post(job) = [state |-> "fresh", payload |-> p] => Board!Trigger(k, p)
           /\ \A v : Post(jobs[k]) = [state |-> "fresh", payload |-> v]
                       => (Post(job) = [state |-> "taken", payload |-> v] => Board!Take(k))
           /\ \A v : Post(jobs[k]) = [state |-> "taken", payload |-> v]
                       => (   \/ Post(job) = [state |-> "none", payload |-> None]
                              \/ Post(job) = [state |-> "failed", payload |-> v]
                           => Board!Settle(k))
<1>1. Posted' = [Posted EXCEPT ![k] = Post(job)]
  BY PostedMoves
<1>2. Posted[k] = Post(jobs[k])
  BY DEF Posted
<1>3. Posted = [j \in Keys |-> Post(jobs[j])]
  BY DEF Posted
<1>4. ASSUME Post(job) = Post(jobs[k]) PROVE Posted' = Posted
  BY <1>1, <1>2, <1>3, <1>4
<1>5. \A p \in Payloads :
         Post(job) = [state |-> "fresh", payload |-> p] => Board!Trigger(k, p)
  BY <1>1 DEF Board!Trigger, Posted
<1>6. \A v : Post(jobs[k]) = [state |-> "fresh", payload |-> v]
              => (Post(job) = [state |-> "taken", payload |-> v] => Board!Take(k))
  <2> SUFFICES ASSUME NEW v, Post(jobs[k]) = [state |-> "fresh", payload |-> v],
                      Post(job) = [state |-> "taken", payload |-> v]
               PROVE  Board!Take(k)
    OBVIOUS
  <2>1. [Posted[k] EXCEPT !.state = "taken"] = Post(job) /\ Posted[k].state = "fresh"
    BY <1>2
  <2>2. [Posted EXCEPT ![k].state = "taken"] = [Posted EXCEPT ![k] = Post(job)]
    BY <2>1
  <2> QED
    BY <1>1, <2>1, <2>2 DEF Board!Take, Posted
<1>7. \A v : Post(jobs[k]) = [state |-> "taken", payload |-> v]
              => (   \/ Post(job) = [state |-> "none", payload |-> None]
                     \/ Post(job) = [state |-> "failed", payload |-> v]
                  => Board!Settle(k))
  <2> SUFFICES ASSUME NEW v, Post(jobs[k]) = [state |-> "taken", payload |-> v],
                      \/ Post(job) = [state |-> "none", payload |-> None]
                      \/ Post(job) = [state |-> "failed", payload |-> v]
               PROVE  Board!Settle(k)
    OBVIOUS
  <2>1. Posted[k].state = "taken"
    BY <1>2
  <2>2. CASE Post(job) = [state |-> "none", payload |-> None]
    BY <1>1, <2>1, <2>2 DEF Board!Settle, Board!Nothing, Posted
  <2>3. CASE Post(job) = [state |-> "failed", payload |-> v]
    <3>1. [Posted[k] EXCEPT !.state = "failed"] = Post(job)
      BY <1>2, <2>3
    <3>2. [Posted EXCEPT ![k].state = "failed"] = [Posted EXCEPT ![k] = Post(job)]
      BY <3>1
    <3> QED
      BY <1>1, <2>1, <3>2 DEF Board!Settle, Posted
  <2> QED
    BY <2>2, <2>3
<1> QED
  BY <1>4, <1>5, <1>6, <1>7

(* Every step of the queue is a step of the board, or leaves it alone. *)
LEMMA BoardStep ==
    ASSUME IInv, [Next]_vars
    PROVE  Board!Next \/ Posted' = Posted
<1> USE DEF IInv
<1>1. ASSUME jobs' = jobs PROVE Posted' = Posted
  BY <1>1 DEF Posted
<1>2. CASE Enqueue
  <2>1. PICK w \in Workers, k \in Keys, p \in Payloads,
             hold \in Holds \cup {None}, release \in Holds \cup {None}, answered \in BOOLEAN :
               enqueue(w, k, p, hold, release, answered)
    BY <1>2, EnqueueCases
  <2> DEFINE holds == HoldsAfter(k, hold, release)
  <2>2. jobs[k] \in Job /\ JobOK(jobs[k]) /\ holds \in SUBSET Holds
    BY NoneAssumption DEF StateOK, JobsOK, HoldsAfter, Job
  <2>3. PICK job \in Job : /\ jobs' = [jobs EXCEPT ![k] = job]
                           /\ Post(job) = [state |-> "fresh", payload |-> p]
    <3>1. CASE jobs[k].status = "running"
      <4>1. jobs' = [jobs EXCEPT ![k] = Rerun(jobs[k], p, holds)]
        BY <2>1, <3>1 DEF enqueue
      <4>2. Rerun(jobs[k], p, holds) \in Job /\ JobOK(Rerun(jobs[k], p, holds))
        BY <2>2, <3>1, RerunOK
      <4>3. Rerun(jobs[k], p, holds).rerunRequested /\ Rerun(jobs[k], p, holds).rerunPayload = p
        BY <2>2 DEF Rerun, Job
      <4> QED
        BY <4>1, <4>2, <4>3, PostIs
    <3>2. CASE jobs[k].status # "running"
      <4>1. jobs' = [jobs EXCEPT ![k] = Queued(p, holds)]
        BY <2>1, <3>2 DEF enqueue
      <4>2. Queued(p, holds) \in Job /\ JobOK(Queued(p, holds))
        BY <2>2, QueuedOK
      <4>3. Queued(p, holds).status = "queued" /\ Queued(p, holds).payload = p
        BY DEF Queued
      <4> QED
        BY <4>1, <4>2, <4>3, PostIs
    <3> QED
      BY <3>1, <3>2
  <2>4. Board!Trigger(k, p)
    BY <2>3, PostStep
  <2> QED
    BY <2>4 DEF Board!Next
<1>3. ASSUME NEW k \in Keys, BackoffEnds(k) \/ \E h \in Holds : HoldLapses(k, h)
      PROVE  Posted' = Posted
  <2>1. PICK job : /\ jobs' = [jobs EXCEPT ![k] = job]
                   /\ \/ job = [jobs[k] EXCEPT !.due = TRUE]
                      \/ \E h \in Holds : job = [jobs[k] EXCEPT !.holds = jobs[k].holds \ {h}]
    BY <1>3 DEF BackoffEnds, HoldLapses
  <2>2. job \in Job /\ Post(job) = Post(jobs[k])
    <3>1. jobs[k] \in Job
      BY DEF StateOK
    <3> QED
      BY <2>1, <3>1 DEF Job, Post
  <2> QED
    BY <2>1, <2>2, PostStep
<1>4. ASSUME NEW w \in Workers, acquire_worker(w) PROVE jobs' = jobs
  BY <1>4 DEF acquire_worker
<1>5. CASE PassesOnly
  <2>1. jobs' = jobs
    BY <1>5 DEF PassesOnly, Trouble, claim_checked, claim_finds_none, finish_checked,
       finish_refused, finish_missing, finish_not_claimed, LeaveLoop, HeartbeatFails,
       RequestFails, Close, Open, LeaseLapses, Restart
  <2> QED
    BY <1>1, <2>1
<1>6. ASSUME NEW w \in Workers, NEW k \in Keys, claim_takes(w, k)
      PROVE  Board!Next \/ Posted' = Posted
  <2> DEFINE old == jobs[k]
             job == Claimed(jobs[k], pass[w].leaseId)
  <2>1. /\ old \in Job /\ JobOK(old) /\ old.holds = {} /\ pass[w].leaseId \in LeaseIds
        /\ old.status \in {"queued", "retryable", "running"}
    BY <1>6 DEF StateOK, JobsOK, PassesOK, PassOK, claim_takes, OldestDue, Due, Claimable
  <2>2. /\ job \in Job /\ JobOK(job) /\ job.status = "running" /\ job.payload = old.payload
    BY <2>1, ClaimedOK
  <2>3. job.rerunRequested = old.rerunRequested /\ job.rerunPayload = old.rerunPayload
    BY <2>1 DEF Claimed, Job
  <2>4. jobs' = [jobs EXCEPT ![k] = job]
    BY <1>6 DEF claim_takes
  <2> HIDE DEF job
  <2>5. CASE old.rerunRequested
    <3>1. Post(old) = Post(job)
      BY <2>1, <2>2, <2>3, <2>5, PostIs
    <3> QED
      BY <2>2, <2>4, <3>1, PostStep
  <2>6. CASE old.status = "queued"
    <3>1. ~old.rerunRequested
      BY <2>1, <2>6 DEF JobOK
    <3>2. /\ Post(old) = [state |-> "fresh", payload |-> old.payload]
          /\ Post(job) = [state |-> "taken", payload |-> old.payload]
      BY <2>1, <2>2, <2>3, <2>6, <3>1, PostIs
    <3>3. Board!Take(k)
      BY <2>2, <2>4, <3>2, PostStep
    <3> QED
      BY <3>3 DEF Board!Next
  <2>7. CASE old.status # "queued" /\ ~old.rerunRequested
    <3>1. Post(old) = Post(job)
      BY <2>1, <2>2, <2>3, <2>7, PostIs
    <3> QED
      BY <2>2, <2>4, <3>1, PostStep
  <2> QED
    BY <2>5, <2>6, <2>7
<1>7. ASSUME NEW w \in Workers, finish_records(w)
      PROVE  Board!Next \/ Posted' = Posted
  <2> DEFINE k == pass[w].job
             old == jobs[k]
             outcome == pass[w].outcome
             job == Finished(old, outcome)
  <2>1. /\ k \in Keys /\ old \in Job /\ JobOK(old) /\ old.status = "running"
        /\ outcome \in Outcomes /\ jobs' = [jobs EXCEPT ![k] = job]
        /\ job \in Job /\ JobOK(job)
    BY <1>7, FinishFinds
  <2> HIDE DEF k, outcome
  <2>2. CASE old.rerunRequested
    <3>1. job.status = "queued" /\ job.payload = old.rerunPayload
      BY <2>2 DEF Finished, Queued
    <3>2. Post(job) = Post(old)
      <4> HIDE DEF job
      <4> QED BY <2>1, <2>2, <3>1, PostIs
    <3> QED
      BY <2>1, <3>2, PostStep
  <2>3. CASE ~old.rerunRequested
    <3>1. Post(old) = [state |-> "taken", payload |-> old.payload]
      BY <2>1, <2>3, PostIs
    <3>2. \/ job.status = "missing"
          \/ job.status = "failed" /\ job.payload = old.payload
          \/ /\ job.status = "retryable" /\ job.payload = old.payload
             /\ ~job.rerunRequested
      BY <2>1, <2>3 DEF Finished, NoJob, Job
    <3> HIDE DEF job
    <3>3. \/ Post(job) = [state |-> "none", payload |-> None]
          \/ Post(job) = [state |-> "failed", payload |-> old.payload]
          \/ Post(job) = Post(old)
      BY <2>1, <3>1, <3>2, PostIs
    <3>4. Board!Settle(k) \/ Posted' = Posted
      BY <2>1, <3>1, <3>3, PostStep
    <3> QED
      BY <2>1, <3>4 DEF Board!Next
  <2> QED
    BY <2>2, <2>3
<1>8. CASE UNCHANGED vars
  BY <1>1, <1>8 DEF vars
<1> QED
  BY <1>1, <1>2, <1>3, <1>4, <1>5, <1>6, <1>7, <1>8, StepCases

(* A fresh trigger is never lost: the queue implements TriggerBoard. *)
THEOREM QueueImplementsTriggers == Spec => ImplementsTriggers
<1>1. Init => Board!Init
  BY DEF Init, Board!Init, Board!Nothing, Post, NoJob
<1>2. IInv /\ [Next]_vars => [Board!Next]_Posted
  BY BoardStep
<1> QED
  BY <1>1, <1>2, Invariance, PTL DEF Spec, ImplementsTriggers, Board!Spec, Posted
=============================================================================
