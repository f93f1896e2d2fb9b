----------------------- MODULE MemoryMaintenance_proofs -----------------------
(* Proofs about MemoryMaintenance, for any clients, writers and limits.        *)
EXTENDS MemoryMaintenance, TLAPS

(* A pass that asks the runtime for an operation. *)
Asking(p) == p.at \in {"ask", "run"}

(* A pass that has read the memories and not yet settled its job. *)
HasRead(p) ==
    \/ p.at \in {"settled", "spent"}
    \/ Asking(p) /\ p.call.op \in {"batch", "note", "stop", "complete", "redo", "again"}

(* What is left of a pass whose operation the runtime ends on its own. *)
Outlived(p) ==
    \/ p.at \in {"off", "leave"}
    \/ Asking(p) /\ p.call.op \in {"retry", "fail"}

OperationsNamed ==
    /\ \A w \in Workers : Asking(pass[w]) <=> pass[w].call.op # None
    /\ late # None => late.call.op # None

LateApart == late # None => Outlived(pass[late.worker])

(* No write is asked for before it is made. *)
Known == asked <= memory /\ \A v \in Writers : writer[v].write <= memory

(* A job in processing that nobody has made dirty. *)
Clean == ~overtaken /\ job.status = "processing" /\ ~job.dirty

(* A clean job has been enqueued for nothing its lease's owner has not read.   *)
ReadsHeld ==
    Clean =>
        /\ \A w \in Workers : Holds(w) /\ HasRead(pass[w]) => asked <= pass[w].call.read
        /\ late # None /\ late.call.op = "complete" => asked <= late.call.read

IInv ==
    /\ TypeOK /\ OperationsFenced /\ OperationsNamed /\ LateApart
    /\ Known /\ ReadsHeld /\ AskedIsExamined
----------------------------------------------------------------------------
(* What the operators of a pass, a job and the lease return.                  *)
LEMMA CountedType ==
    ASSUME NEW limit \in Nat, NEW n \in 0 .. limit
    PROVE  Counted(n, limit) \in 0 .. limit
BY DEF Counted

LEMMA LeftPass ==
    ASSUME TypeOK, NEW w \in Workers
    PROVE  Left(w) \in Pass /\ Left(w).at = "leave" /\ Left(w).call.op = None
BY LimitsAssumption, BoundsAssumption
DEF TypeOK, Left, NoPass, Pass, Stages, Call, Call0, Writes, Attempts, Totals

LEMMA AsksPass ==
    ASSUME TypeOK, NEW w \in Workers, NEW op \in Operations
    PROVE  /\ Asks(w, op) \in Pass
           /\ Asks(w, op).at = "ask" /\ Asks(w, op).call.op = op
           /\ Asks(w, op).call.read = pass[w].call.read
BY DEF TypeOK, Asks, Pass, Stages, Call

LEMMA AtPass ==
    ASSUME TypeOK, NEW w \in Workers, NEW stage \in Stages
    PROVE  /\ At(w, stage) \in Pass
           /\ At(w, stage).at = stage /\ At(w, stage).call.op = None
           /\ At(w, stage).call.read = pass[w].call.read
BY DEF TypeOK, At, Pass, Stages, Call

LEMMA ErrorPass ==
    ASSUME TypeOK, NEW w \in Workers
    PROVE  Error(w) \in Pass /\ Error(w).at = "ask" /\ Error(w).call.op \in {"retry", "fail"}
BY AsksPass DEF Error, Operations

LEMMA AfterFailurePass ==
    ASSUME TypeOK, NEW w \in Workers
    PROVE  /\ AfterFailure(w) \in Pass
           /\ \/ AfterFailure(w).at = "leave" /\ AfterFailure(w).call.op = None
              \/ AfterFailure(w).at = "ask" /\ AfterFailure(w).call.op \in {"retry", "fail"}
BY LeftPass, ErrorPass DEF AfterFailure

LEMMA LandedJob ==
    ASSUME TypeOK, NEW call \in Call, call.op # None
    PROVE  /\ Landed(call) \in Job
           /\ call.op = "complete" =>
                 Landed(call).status = "completed"
           /\ call.op \notin {"complete", "batch"} => Landed(call).status # "completed"
           /\ call.op \notin {"claim", "note", "batch"} => Landed(call).status # "processing"
           /\ call.op = "batch" => Landed(call) = job
           /\ call.op = "note" => Landed(call).dirty = job.dirty
<1>1. /\ Counted(call.attempts, MAX_MAINTENANCE_ATTEMPTS) \in Attempts
      /\ 0 \in Attempts /\ 0 \in Totals
  BY LimitsAssumption, CountedType DEF Call, Attempts, Totals
<1>2. call.op \in Operations
  BY DEF Call
<1>3. QED
  BY <1>1, <1>2 DEF TypeOK, Landed, Job, Statuses, Call, Fresh, Operations

LEMMA ContinuesPass ==
    ASSUME TypeOK, NEW w \in Workers, pass[w].call.op \in Operations
    PROVE  /\ Continues(w) \in Pass
           /\ Continues(w).at \notin {"off", "run"}
           /\ Asking(Continues(w)) <=> Continues(w).call.op # None
           /\ HasRead(Continues(w)) =>
                 /\ pass[w].call.op \in {"batch", "note", "stop"}
                 /\ Continues(w).call.read = pass[w].call.read
<1>1. pass[w] \in Pass
  BY DEF TypeOK
<1>2. CASE pass[w].call.op = "claim"
  BY <1>2, AtPass DEF Continues, Stages, Asking, HasRead
<1>3. CASE pass[w].call.op = "batch"
  <2>1. Counted(pass[w].call.totalPasses, MAX_TOTAL_PASSES) \in Totals
    BY <1>1, CountedType, LimitsAssumption DEF Pass, Call, Totals
  <2>2. Asks(w, "note").call.totalPasses = pass[w].call.totalPasses
    BY <1>1 DEF Asks, Pass, Call
  <2>3. Continues(w) =
          [Asks(w, "note") EXCEPT !.call.totalPasses =
              Counted(Asks(w, "note").call.totalPasses, MAX_TOTAL_PASSES)]
    BY <1>3 DEF Continues
  <2>4. QED
    BY <1>3, <2>1, <2>2, <2>3, AsksPass, NoneAssumption
    DEF Pass, Call, Operations, Asking, HasRead
<1>4. CASE pass[w].call.op = "note" /\ Spent(w)
  BY <1>4, AsksPass, NoneAssumption DEF Continues, Operations, Asking, HasRead
<1>5. CASE pass[w].call.op = "note" /\ ~Spent(w)
  <2> DEFINE round == Counted(pass[w].round, MAX_PASSES_PER_DRAIN)
             stage == IF round < MAX_PASSES_PER_DRAIN THEN "work" ELSE "spent"
  <2>1. round \in 0 .. MAX_PASSES_PER_DRAIN
    BY <1>1, CountedType, LimitsAssumption DEF Pass
  <2>2. Continues(w) = [At(w, stage) EXCEPT !.round = round]
    BY <1>5 DEF Continues
  <2>3. stage \in {"work", "spent"}
    OBVIOUS
  <2> HIDE DEF round, stage
  <2>4. QED
    BY <1>5, <2>1, <2>2, <2>3, AtPass DEF Stages, Pass, Asking, HasRead
<1>6. CASE pass[w].call.op = "stop"
  BY <1>6, AtPass DEF Continues, Stages, Asking, HasRead
<1>7. CASE pass[w].call.op \notin {"claim", "batch", "note", "stop"}
  BY <1>7, LeftPass DEF Continues, Asking, HasRead
<1>8. QED
  BY <1>2, <1>3, <1>4, <1>5, <1>6, <1>7

LEMMA LatenessCall ==
    ASSUME TypeOK, NEW w \in Workers
    PROVE  /\ Lateness(w) \in LateCall
           /\ Lateness(w).worker = w
           /\ Lateness(w).call.op = pass[w].call.op
           /\ pass[w].call.op = "complete" => Lateness(w).call.read = pass[w].call.read
<1>1. pass[w].call \in Call
  BY DEF TypeOK, Pass
<1>2. 0 \in Attempts /\ 0 \in Totals /\ 0 \in Writes
  BY LimitsAssumption, BoundsAssumption DEF Attempts, Totals, Writes
<1>3. QED
  BY <1>1, <1>2 DEF Lateness, LateCall, Call
----------------------------------------------------------------------------
(* Lease, fence and passes over one step.                                     *)

(* An operation begins or ends: the count stays in its bounds. *)
LEMMA FencedCount ==
    ASSUME TypeOK, OperationsFenced
    PROVE  /\ \A w \in Workers : pass[w].at = "run" =>
                 /\ Holds(w)
                 /\ lease.active_operations = 1 + (IF late # None THEN 1 ELSE 0)
                 /\ \A x \in Workers : pass[x].at = "run" => x = w
           /\ late # None =>
                 /\ Holds(late.worker) /\ late.worker \in Workers
                 /\ lease.active_operations = Running(late.worker) + 1
           /\ lease # None => lease \in Lease
<1>1. late # None => late.worker \in Workers
  BY DEF TypeOK, LateCall
<1>2. QED
  BY <1>1 DEF TypeOK, OperationsFenced, Holds, Running

LEMMA FreeIdle ==
    ASSUME TypeOK, OperationsFenced, lease # None => lease.active_operations = 0
    PROVE  late = None /\ \A w \in Workers : pass[w].at # "run"
BY FencedCount DEF TypeOK, OperationsFenced, Running, Holds

(* An operation ends: its lease goes, or counts one less. *)
Ends == lease' = IF lease.active_operations = 1 /\ lease.release_requested THEN None
                 ELSE [lease EXCEPT !.active_operations = @ - 1]

LEMMA EndsLease ==
    ASSUME lease \in Lease, lease.active_operations \in {1, 2}, Ends
    PROVE  /\ lease' \in Lease \cup {None}
           /\ lease' # None =>
                 /\ lease'.owner = lease.owner
                 /\ lease'.active_operations = lease.active_operations - 1
           /\ lease' = None => lease.active_operations = 1
BY NoneAssumption DEF Ends, Lease

(* A step of a pass that touches nothing else. *)
LEMMA GoesStep ==
    ASSUME IInv, NEW w \in Workers, NEW next \in Pass, Goes(w, next),
           troubles' \in 0 .. MaxTroubles,
           pass[w].at # "run", next.at # "run",
           Asking(next) <=> next.call.op # None,
           Outlived(pass[w]) => Outlived(next),
           HasRead(next) => \/ next.call.read = memory
                            \/ HasRead(pass[w]) /\ next.call.read = pass[w].call.read
    PROVE  IInv'
<1> USE DEF IInv
<1>1. /\ pass' = [pass EXCEPT ![w] = next]
      /\ UNCHANGED <<job, memory, writer, lease, late, asked, examined, overtaken>>
  BY DEF Goes, others, server
<1>2. /\ pass \in [Workers -> Pass] /\ pass'[w] = next
      /\ \A x \in Workers : x # w => pass'[x] = pass[x]
  BY <1>1 DEF TypeOK
<1>3. TypeOK'
  BY <1>1 DEF TypeOK
<1>4. OperationsFenced'
  <2>1. \A x \in Workers : pass'[x].at = "run" <=> pass[x].at = "run"
    BY <1>2
  <2>2. lease # None => lease.owner \in Workers
    BY DEF TypeOK, Lease
  <2>3. QED
    BY <1>1, <2>1, <2>2 DEF OperationsFenced, Holds, Running
<1>5. OperationsNamed'
  BY <1>1, <1>2 DEF OperationsNamed
<1>6. LateApart'
  BY <1>1, <1>2, FencedCount DEF LateApart
<1>7. Known'
  BY <1>1 DEF Known
<1>8. ReadsHeld'
  <2>1. asked <= memory
    BY DEF Known
  <2>2. QED
    BY <1>1, <1>2, <2>1 DEF ReadsHeld, Clean, Holds
<1>9. AskedIsExamined'
  BY <1>1 DEF AskedIsExamined
<1>10. QED
  BY <1>3, <1>4, <1>5, <1>6, <1>7, <1>8, <1>9

LEMMA TroublesCount ==
    ASSUME TypeOK, Well \/ Ill
    PROVE  troubles' \in 0 .. MaxTroubles
BY BoundsAssumption DEF TypeOK, Well, Ill

LEMMA LeavesStep ==
    ASSUME IInv, NEW w \in Workers, Goes(w, Left(w)), Well \/ Ill,
           pass[w].at # "run"
    PROVE  IInv'
BY GoesStep, LeftPass, TroublesCount DEF IInv, Asking, Outlived, HasRead

LEMMA FailsStep ==
    ASSUME IInv, NEW w \in Workers, Goes(w, Error(w)), Well \/ Ill,
           pass[w].at # "run"
    PROVE  IInv'
BY GoesStep, ErrorPass, TroublesCount, NoneAssumption
DEF IInv, Asking, Outlived, HasRead, Operations

LEMMA AsksStep ==
    ASSUME IInv, NEW w \in Workers, NEW op \in Operations, Goes(w, Asks(w, op)), Well \/ Ill,
           pass[w].at \in {"work", "settled", "spent"},
           op \in {"retry", "fail", "pause"} \/ HasRead(pass[w])
    PROVE  IInv'
BY GoesStep, AsksPass, TroublesCount, NoneAssumption
DEF IInv, Asking, Outlived, HasRead, Operations

LEMMA WorkStep ==
    ASSUME IInv, NEW w \in Workers, work(w), Well
    PROVE  IInv'
<1> USE DEF work, IInv
<1>1. ASSUME NEW next \in Pass, Goes(w, [next EXCEPT !.call.read = memory]),
             next.at \in {"ask", "settled"},
             Asking(next) <=> next.call.op # None
      PROVE  IInv'
  <2>1. memory \in Writes
    BY DEF TypeOK
  <2>2. /\ [next EXCEPT !.call.read = memory] \in Pass
        /\ [next EXCEPT !.call.read = memory].at = next.at
        /\ [next EXCEPT !.call.read = memory].call.op = next.call.op
        /\ [next EXCEPT !.call.read = memory].call.read = memory
    BY <2>1 DEF Pass, Call
  <2>3. QED
    BY <1>1, <2>2, GoesStep, TroublesCount, NoneAssumption DEF Asking, Outlived
<1>2. /\ Asks(w, "batch") \in Pass /\ At(w, "settled") \in Pass /\ Asks(w, "stop") \in Pass
      /\ Asking(Asks(w, "batch")) /\ Asks(w, "batch").call.op # None
      /\ Asking(Asks(w, "stop")) /\ Asks(w, "stop").call.op # None
      /\ ~Asking(At(w, "settled")) /\ At(w, "settled").call.op = None
      /\ Asks(w, "batch").at = "ask" /\ Asks(w, "stop").at = "ask"
      /\ At(w, "settled").at = "settled"
  BY AsksPass, AtPass, NoneAssumption DEF Operations, Stages, Asking
<1>3. QED
  BY <1>1, <1>2, FailsStep DEF Reads

LEMMA SettlesStep ==
    ASSUME IInv, NEW w \in Workers, completeJob(w) \/ drains_again(w), Well
    PROVE  IInv'
<1>1. HasRead(pass[w]) /\ pass[w].at \in {"settled", "spent"}
  BY DEF completeJob, drains_again, HasRead
<1>2. CASE Goes(w, Left(w)) \/ Goes(w, Error(w))
  BY <1>1, <1>2, LeavesStep, FailsStep
<1>3. CASE \E op \in {"redo", "complete", "again"} : Goes(w, Asks(w, op))
  BY <1>1, <1>3, AsksStep DEF Operations
<1>4. QED
  BY <1>2, <1>3 DEF completeJob, drains_again

LEMMA RequestStep ==
    ASSUME IInv, NEW w \in Workers, RequestFails(w), Well \/ Ill
    PROVE  IInv'
BY GoesStep, AfterFailurePass, TroublesCount, NoneAssumption
DEF RequestFails, IInv, Asking, Outlived, HasRead, Operations
----------------------------------------------------------------------------
(* The writers, and time. *)
LEMMA WriterStep ==
    ASSUME IInv, NEW v \in Writers, Begin(v) \/ (enqueue_reads(v) /\ Well)
    PROVE  IInv'
<1> USE DEF IInv
<1>1. UNCHANGED <<job, lease, pass, late, asked, examined, overtaken, troubles>>
  BY DEF Begin, enqueue_reads, server, Well
<1>2. /\ memory' \in Writes /\ memory <= memory'
      /\ writer' \in [Writers -> Enqueue]
      /\ \A x \in Writers : writer'[x].write <= memory'
  <2>1. CASE Begin(v)
    BY <2>1, BoundsAssumption DEF Begin, TypeOK, Known, Writes, Enqueue
  <2>2. CASE enqueue_reads(v)
    BY <2>2, BoundsAssumption
    DEF enqueue_reads, TypeOK, Known, Writes, Enqueue, NoEnqueue, Kind
  <2>3. QED
    BY <2>1, <2>2
<1>3. TypeOK'
  BY <1>1, <1>2 DEF TypeOK
<1>4. OperationsFenced' /\ OperationsNamed' /\ LateApart' /\ ReadsHeld' /\ AskedIsExamined'
  BY <1>1 DEF OperationsFenced, OperationsNamed, LateApart, ReadsHeld, AskedIsExamined,
              Holds, Running, Clean
<1>5. Known'
  BY <1>1, <1>2 DEF Known, TypeOK, Writes
<1>6. QED
  BY <1>3, <1>4, <1>5

LEMMA EnqueueStep ==
    ASSUME IInv, NEW v \in Writers, enqueue_writes(v), Well
    PROVE  IInv'
<1> USE DEF IInv
<1>1. UNCHANGED <<memory, lease, pass, late, examined, troubles>>
  BY DEF enqueue_writes, Well
<1>2. /\ writer[v] \in Enqueue /\ writer[v].write <= memory
      /\ writer' = [writer EXCEPT ![v] = NoEnqueue]
      /\ NoEnqueue \in Enqueue /\ 0 <= memory
  BY BoundsAssumption DEF enqueue_writes, TypeOK, Known, Enqueue, NoEnqueue, Writes
<1>3. /\ asked' \in Writes /\ asked' <= memory /\ overtaken' \in BOOLEAN
      /\ job' \in Job
  <2>1. /\ Fresh("pending") \in Job
        /\ [job EXCEPT !.status = "suppressed", !.dirty = FALSE] \in Job
        /\ [job EXCEPT !.dirty = TRUE] \in Job
    <3>1. 0 \in Attempts /\ 0 \in Totals
      BY LimitsAssumption DEF Attempts, Totals
    <3>2. job \in Job
      BY DEF TypeOK
    <3>3. QED
      BY <3>1, <3>2 DEF Fresh, Job, Statuses
  <2>2. Enqueued(writer[v].trigger, writer[v].found) \in Job
    BY <2>1 DEF Enqueued
  <2>3. overtaken \in BOOLEAN /\ Misses(writer[v]) \in BOOLEAN
    BY DEF TypeOK, Misses
  <2>4. overtaken' \in BOOLEAN /\ job' \in Job
    BY <2>2, <2>3 DEF enqueue_writes, TypeOK
  <2>5. asked' \in Writes /\ asked' <= memory
    BY <1>2 DEF enqueue_writes, TypeOK, Known, Enqueue, Writes
  <2>6. QED
    BY <2>4, <2>5
<1>4. \/ UNCHANGED <<job, asked, overtaken>>
      \/ job'.status \notin {"processing", "completed"} /\ asked' = asked
      \/ job'.status = "pending"
      \/ job'.dirty /\ (job'.status = "completed" => overtaken')
  <2>1. job \in Job
    BY DEF TypeOK
  <2>2. CASE UNCHANGED <<job, asked, overtaken>>
    BY <2>2
  <2>3. CASE /\ job' = Enqueued(writer[v].trigger, writer[v].found)
             /\ asked' = IF writer[v].trigger = "write" /\ writer[v].write > asked
                          THEN writer[v].write ELSE asked
             /\ overtaken' = (overtaken \/ Misses(writer[v]))
    BY <2>1, <2>3 DEF Enqueued, Misses, Fresh, Job
  <2>4. QED
    BY <2>2, <2>3 DEF enqueue_writes
<1>5. TypeOK'
  BY <1>1, <1>2, <1>3 DEF TypeOK
<1>6. OperationsFenced' /\ OperationsNamed' /\ LateApart'
  BY <1>1 DEF OperationsFenced, OperationsNamed, LateApart, Holds, Running
<1>7. Known'
  BY <1>1, <1>2, <1>3 DEF Known, TypeOK, NoEnqueue
<1>8. ReadsHeld' /\ AskedIsExamined'
  <2>1. CASE UNCHANGED <<job, asked, overtaken>>
    BY <1>1, <2>1 DEF ReadsHeld, AskedIsExamined, Clean, Holds
  <2>2. CASE /\ job'.status = "processing" => job'.dirty
             /\ job'.status = "completed" => overtaken'
    BY <2>2 DEF ReadsHeld, AskedIsExamined, Clean
  <2>3. QED
    BY <1>4, <2>1, <2>2
<1>9. QED
  BY <1>5, <1>6, <1>7, <1>8

LEMMA BackoffStep ==
    ASSUME IInv, BackoffEnds
    PROVE  IInv'
<1> USE DEF IInv, BackoffEnds, others, Well
<1>1. job' \in Job /\ job'.status = "retryable"
  BY DEF TypeOK, Job, Statuses
<1>2. TypeOK'
  BY <1>1 DEF TypeOK
<1>3. OperationsFenced' /\ OperationsNamed' /\ LateApart'
  BY DEF OperationsFenced, OperationsNamed, LateApart, Holds, Running
<1>4. Known' /\ ReadsHeld' /\ AskedIsExamined'
  BY <1>1 DEF Known, ReadsHeld, AskedIsExamined, Clean
<1>5. QED
  BY <1>2, <1>3, <1>4
----------------------------------------------------------------------------
(* The lease. *)
LEMMA AcquireStep ==
    ASSUME IInv, NEW w \in Workers, acquire(w)
    PROVE  IInv'
<1> USE DEF IInv
<1>1. /\ lease' = Granted(w) /\ Well /\ pass[w].at = "off"
      /\ pass' = [pass EXCEPT ![w].at = "list"]
      /\ UNCHANGED <<memory, writer, asked, job, late, examined, overtaken>>
  BY DEF acquire, others
<1>2. late = None /\ \A x \in Workers : pass[x].at # "run"
  BY FreeIdle DEF acquire, Free
<1>3. /\ pass'[w] \in Pass /\ pass'[w].at = "list" /\ pass'[w].call = pass[w].call
      /\ pass[w].call.op = None
      /\ pass' = [pass EXCEPT ![w] = pass'[w]]
      /\ \A x \in Workers : x # w => pass'[x] = pass[x]
  BY <1>1 DEF TypeOK, OperationsNamed, Asking, Pass, Stages
<1>4. lease' \in Lease /\ lease' # None /\ lease'.owner = w /\ lease'.active_operations = 0
  <2>1. Granted(w) \in Lease
    BY DEF Granted, Lease
  <2>2. Granted(w) # None /\ Granted(w).owner = w /\ Granted(w).active_operations = 0
    BY <2>1, NoneAssumption DEF Granted
  <2>3. QED
    BY <1>1, <2>1, <2>2
<1>5. TypeOK'
  BY <1>1, <1>3, <1>4 DEF TypeOK, Well
<1>6. OperationsFenced'
  BY <1>1, <1>2, <1>3, <1>4 DEF OperationsFenced, Holds, Running
<1>7. OperationsNamed' /\ LateApart' /\ Known' /\ AskedIsExamined'
  BY <1>1, <1>2, <1>3 DEF OperationsNamed, LateApart, Known, AskedIsExamined, Asking
<1>8. ReadsHeld'
  BY <1>1, <1>2, <1>3, <1>4 DEF ReadsHeld, Holds, HasRead, Asking
<1>9. QED
  BY <1>5, <1>6, <1>7, <1>8

(* A lease that keeps its owner and its count. *)
LEMMA LeaseStep ==
    ASSUME IInv, lease \in Lease, lease' \in Lease,
           lease'.owner = lease.owner, lease'.active_operations = lease.active_operations,
           UNCHANGED <<job, memory, writer, pass, late, asked, examined, overtaken>>,
           troubles' \in 0 .. MaxTroubles
    PROVE  IInv'
<1> USE DEF IInv
<1>1. lease # None /\ lease' # None
  BY NoneAssumption
<1>2. TypeOK'
  BY DEF TypeOK
<1>3. OperationsFenced'
  BY <1>1 DEF OperationsFenced, Holds, Running
<1>4. OperationsNamed' /\ LateApart' /\ Known' /\ AskedIsExamined'
  BY DEF OperationsNamed, LateApart, Known, AskedIsExamined
<1>5. ReadsHeld'
  BY <1>1 DEF ReadsHeld, Clean, Holds
<1>6. QED
  BY <1>2, <1>3, <1>4, <1>5

LEMMA HeartbeatStep ==
    ASSUME IInv, NEW w \in Workers, Heartbeat(w)
    PROVE  IInv'
<1>1. lease \in Lease
  BY DEF IInv, TypeOK, Heartbeat, Renewable, Holds
<1>2. /\ lease' \in Lease
      /\ lease'.owner = lease.owner /\ lease'.active_operations = lease.active_operations
  BY <1>1 DEF Heartbeat, Renewed, Lease
<1>3. QED
  BY <1>1, <1>2, LeaseStep, TroublesCount DEF IInv, Heartbeat, others

LEMMA LapseStep ==
    ASSUME IInv, LeaseLapses
    PROVE  IInv'
<1>1. lease \in Lease
  BY DEF IInv, TypeOK, LeaseLapses
<1>2. /\ lease' \in Lease
      /\ lease'.owner = lease.owner /\ lease'.active_operations = lease.active_operations
  BY <1>1 DEF LeaseLapses, Lease
<1>3. Well \/ Ill
  BY DEF LeaseLapses
<1>4. QED
  BY <1>1, <1>2, <1>3, LeaseStep, TroublesCount DEF IInv, LeaseLapses, others

LEMMA LeaveStep ==
    ASSUME IInv, NEW w \in Workers, leave(w), Well \/ Ill
    PROVE  IInv'
<1> USE DEF IInv
<1>1. /\ pass[w].at = "leave" /\ pass' = [pass EXCEPT ![w] = NoPass]
      /\ (Holds(w) /\ lease' = Released) \/ UNCHANGED lease
      /\ UNCHANGED <<memory, writer, asked, job, late, examined, overtaken>>
      /\ troubles' \in 0 .. MaxTroubles
  BY TroublesCount DEF leave, others
<1>2. /\ NoPass \in Pass /\ NoPass.at = "off" /\ NoPass.call.op = None
      /\ pass'[w] = NoPass
      /\ \A x \in Workers : x # w => pass'[x] = pass[x]
  BY <1>1, LimitsAssumption, BoundsAssumption
  DEF TypeOK, NoPass, Pass, Stages, Call, Call0, Writes, Attempts, Totals
<1>3. \/ /\ lease' \in Lease \cup {None}
         /\ lease' = None <=> lease = None
         /\ lease # None => /\ lease'.owner = lease.owner
                            /\ lease'.active_operations = lease.active_operations
      \/ lease' = None /\ late = None /\ \A x \in Workers : pass[x].at # "run"
  <2>1. CASE lease' = lease
    BY <2>1 DEF TypeOK
  <2>2. CASE Holds(w) /\ lease' = Released /\ lease.active_operations = 0
    BY <2>2, FreeIdle DEF Released
  <2>3. CASE Holds(w) /\ lease' = Released /\ lease.active_operations # 0
    <3>1. lease \in Lease
      BY <2>3 DEF TypeOK, Holds
    <3>2. lease' \in Lease /\ lease'.owner = lease.owner
          /\ lease'.active_operations = lease.active_operations
      BY <2>3, <3>1 DEF Released, Lease
    <3>3. QED
      BY <3>1, <3>2, NoneAssumption
  <2>4. QED
    BY <1>1, <2>1, <2>2, <2>3
<1>4. TypeOK'
  BY <1>1, <1>2, <1>3 DEF TypeOK
<1>5. OperationsFenced'
  <2>1. \A x \in Workers : pass'[x].at = "run" <=> pass[x].at = "run"
    BY <1>1, <1>2
  <2>2. lease # None => lease.owner \in Workers
    BY DEF TypeOK, Lease
  <2>3. QED
    BY <1>1, <1>3, <2>1, <2>2 DEF OperationsFenced, Holds, Running
<1>6. OperationsNamed' /\ LateApart' /\ Known' /\ AskedIsExamined'
  BY <1>1, <1>2 DEF OperationsNamed, LateApart, Known, AskedIsExamined, Asking, Outlived
<1>7. ReadsHeld'
  BY <1>1, <1>2, <1>3 DEF ReadsHeld, Clean, Holds, HasRead, Asking
<1>8. QED
  BY <1>4, <1>5, <1>6, <1>7

LEMMA ListStep ==
    ASSUME IInv, NEW w \in Workers, list(w), Well
    PROVE  IInv'
<1> USE DEF IInv
<1> DEFINE next == IF Due(job.status) /\ Renewable(w)
                   THEN [Asks(w, "claim") EXCEPT !.call.attempts = job.attempts,
                                                 !.call.totalPasses = job.totalPasses]
                   ELSE Left(w)
<1>1. /\ pass[w].at = "list" /\ pass' = [pass EXCEPT ![w] = next]
      /\ UNCHANGED <<memory, writer, asked, job, late, examined, overtaken, troubles>>
  BY DEF list, others, Well
<1>2. /\ next \in Pass /\ next.at \in {"ask", "leave"}
      /\ next.at = "ask" => next.call.op = "claim"
      /\ next.at = "leave" => next.call.op = None
  <2>1. CASE Due(job.status) /\ Renewable(w)
    <3>1. job.attempts \in Attempts /\ job.totalPasses \in Totals
      BY DEF TypeOK, Job
    <3>2. /\ Asks(w, "claim") \in Pass /\ Asks(w, "claim").at = "ask"
          /\ Asks(w, "claim").call.op = "claim"
      BY AsksPass DEF Operations
    <3>3. QED
      BY <2>1, <3>1, <3>2 DEF Pass, Call
  <2>2. CASE ~(Due(job.status) /\ Renewable(w))
    BY <2>2, LeftPass
  <2>3. QED
    BY <2>1, <2>2
<1> HIDE DEF next
<1>3. /\ lease' \in Lease \cup {None}
      /\ lease' = None <=> lease = None
      /\ lease # None => /\ lease'.owner = lease.owner
                         /\ lease'.active_operations = lease.active_operations
  <2>1. CASE lease' = lease
    BY <2>1 DEF TypeOK
  <2>2. CASE Renewable(w) /\ lease' = Renewed
    <3>1. lease \in Lease
      BY <2>2 DEF TypeOK, Renewable, Holds
    <3>2. lease' \in Lease /\ lease'.owner = lease.owner
          /\ lease'.active_operations = lease.active_operations
      BY <2>2, <3>1 DEF Renewed, Lease
    <3>3. QED
      BY <3>1, <3>2, NoneAssumption
  <2>3. QED
    BY <2>1, <2>2 DEF list
<1>4. /\ pass'[w] = next /\ "claim" # None
      /\ \A x \in Workers : x # w => pass'[x] = pass[x]
  BY <1>1, NoneAssumption DEF TypeOK, Operations
<1>5. TypeOK'
  BY <1>1, <1>2, <1>3 DEF TypeOK
<1>6. OperationsFenced'
  <2>1. \A x \in Workers : pass'[x].at = "run" <=> pass[x].at = "run"
    BY <1>1, <1>2, <1>4
  <2>2. lease # None => lease.owner \in Workers
    BY DEF TypeOK, Lease
  <2>3. QED
    BY <1>1, <1>3, <2>1, <2>2 DEF OperationsFenced, Holds, Running
<1>7. OperationsNamed' /\ Known' /\ AskedIsExamined'
  BY <1>1, <1>2, <1>4 DEF OperationsNamed, Known, AskedIsExamined, Asking
<1>8. LateApart'
  BY <1>1, <1>4, FencedCount DEF LateApart, Outlived, Asking
<1>9. ReadsHeld'
  BY <1>1, <1>2, <1>3, <1>4 DEF ReadsHeld, Clean, Holds, HasRead, Asking
<1>10. QED
  BY <1>5, <1>6, <1>7, <1>8, <1>9
----------------------------------------------------------------------------
(* The operations under the lease. *)
LEMMA BeginsStep ==
    ASSUME IInv, NEW w \in Workers, begins(w), Well
    PROVE  IInv'
<1> USE DEF IInv
<1>1. /\ pass[w].at = "ask" /\ Holds(w)
      /\ lease' = [lease EXCEPT !.active_operations = @ + 1]
      /\ pass' = [pass EXCEPT ![w].at = "run"]
      /\ UNCHANGED <<memory, writer, asked, job, late, examined, overtaken, troubles>>
  BY DEF begins, others, Well
<1>2. /\ pass'[w] \in Pass /\ pass'[w].at = "run" /\ pass'[w].call = pass[w].call
      /\ pass' = [pass EXCEPT ![w] = pass'[w]]
      /\ \A x \in Workers : x # w => pass'[x] = pass[x]
  BY <1>1 DEF TypeOK, Pass, Stages
<1>3. lease \in Lease /\ lease.owner = w
  BY <1>1 DEF TypeOK, Holds
<1>4. lease.active_operations = IF late # None THEN 1 ELSE 0
  BY <1>1, <1>3 DEF OperationsFenced, Running, Holds
<1>5. /\ lease' \in Lease /\ lease'.owner = w
      /\ lease'.active_operations = 1 + (IF late # None THEN 1 ELSE 0)
  BY <1>1, <1>3, <1>4 DEF Lease
<1>6. lease' # None /\ lease # None
  BY <1>3, <1>5, NoneAssumption
<1>7. TypeOK'
  BY <1>1, <1>2, <1>5 DEF TypeOK
<1>8. OperationsFenced'
  BY <1>1, <1>2, <1>3, <1>5, <1>6 DEF OperationsFenced, Holds, Running
<1>9. OperationsNamed' /\ LateApart' /\ Known' /\ AskedIsExamined'
  BY <1>1, <1>2 DEF OperationsNamed, LateApart, Known, AskedIsExamined, Asking, Outlived
<1>10. ReadsHeld'
  BY <1>1, <1>2, <1>3, <1>5, <1>6 DEF ReadsHeld, Clean, Holds, HasRead, Asking
<1>11. QED
  BY <1>7, <1>8, <1>9, <1>10

(* What an operation of the lease's owner leaves of the job and its history.   *)
LEMMA LandsJob ==
    ASSUME IInv, NEW call \in Call, call.op # None,
           job' = Landed(call),
           examined' = (IF call.op = "complete" THEN call.read ELSE examined),
           overtaken' = (overtaken \/ Overtakes(call.op)),
           asked' = asked,
           call.op = "complete" /\ Clean => asked <= call.read
    PROVE  /\ job' \in Job /\ examined' \in Writes /\ overtaken' \in BOOLEAN
           /\ AskedIsExamined'
           /\ Clean' => call.op = "claim" \/ (call.op \in {"batch", "note"} /\ Clean)
<1> USE DEF IInv
<1>1. job' \in Job
  BY LandedJob
<1>2. examined' \in Writes
  BY DEF TypeOK, Call
<1>3. overtaken' \in BOOLEAN
  BY DEF TypeOK, Overtakes
<1>4. AskedIsExamined'
  <2>1. CASE call.op = "complete"
    BY <2>1 DEF AskedIsExamined, Overtakes, Clean
  <2>2. CASE call.op = "batch"
    BY <2>2, LandedJob DEF AskedIsExamined
  <2>3. CASE call.op \notin {"complete", "batch"}
    BY <2>3, LandedJob DEF AskedIsExamined
  <2>4. QED
    BY <2>1, <2>2, <2>3
<1>5. ASSUME Clean' PROVE call.op = "claim" \/ (call.op \in {"batch", "note"} /\ Clean)
  <2>1. call.op \in {"claim", "note", "batch"}
    BY <1>5, LandedJob DEF Clean
  <2>2. CASE call.op = "batch"
    BY <1>5, <2>2, LandedJob DEF Clean
  <2>3. CASE call.op = "note"
    BY <1>5, <2>3, LandedJob DEF Clean, Overtakes
  <2>4. QED
    BY <2>1, <2>2, <2>3
<1>6. QED
  BY <1>1, <1>2, <1>3, <1>4, <1>5

(* The pass whose operation ends goes on. *)
LEMMA RunEndsStep ==
    ASSUME IInv, NEW w \in Workers, pass[w].at = "run", Ends, Well,
           NEW next \in Pass, pass' = [pass EXCEPT ![w] = next],
           next.at # "run", next.at # "off", Asking(next) <=> next.call.op # None,
           late # None => Outlived(next),
           UNCHANGED <<memory, writer, asked, late>>
    PROVE  /\ OperationsFenced' /\ OperationsNamed' /\ LateApart' /\ Known'
           /\ lease' \in Lease \cup {None} /\ pass' \in [Workers -> Pass]
           /\ \A x \in Workers : Holds(x)' => x = w
           /\ Holds(w)
<1> USE DEF IInv
<1>1. /\ pass'[w] = next /\ \A x \in Workers : x # w => pass'[x] = pass[x]
      /\ pass' \in [Workers -> Pass]
  BY DEF TypeOK
<1>2. /\ lease \in Lease /\ lease # None /\ lease.owner = w /\ Holds(w)
      /\ lease.active_operations = 1 + (IF late # None THEN 1 ELSE 0)
      /\ \A x \in Workers : pass[x].at = "run" => x = w
  BY FencedCount DEF Holds
<1>3. /\ lease' \in Lease \cup {None}
      /\ lease' # None => /\ lease'.owner = w
                          /\ lease'.active_operations = IF late # None THEN 1 ELSE 0
      /\ lease' = None => late = None
  BY <1>2, EndsLease
<1>4. OperationsFenced'
  <2>1. late # None => late.worker = w
    BY <1>2, FencedCount DEF Holds
  <2>2. \A x \in Workers : pass'[x].at # "run"
    BY <1>1, <1>2
  <2>3. QED
    BY <1>3, <2>1, <2>2 DEF OperationsFenced, Holds, Running
<1>5. OperationsNamed' /\ Known'
  BY <1>1 DEF OperationsNamed, Known
<1>6. LateApart'
  BY <1>1, <1>2, FencedCount DEF LateApart, Holds
<1>7. \A x \in Workers : Holds(x)' => x = w
  BY <1>3 DEF Holds
<1>8. QED
  BY <1>1, <1>2, <1>3, <1>4, <1>5, <1>6, <1>7

LEMMA LandsStep ==
    ASSUME IInv, NEW w \in Workers, lands(w), Well
    PROVE  IInv'
<1> USE DEF IInv
<1> DEFINE call == pass[w].call
<1>1. /\ pass[w].at = "run" /\ Ends
      /\ pass' = [pass EXCEPT ![w] = Continues(w)]
      /\ job' = Landed(call)
      /\ examined' = (IF call.op = "complete" THEN call.read ELSE examined)
      /\ overtaken' = (overtaken \/ Overtakes(call.op))
      /\ UNCHANGED <<memory, writer, asked, late, troubles>>
  BY DEF lands, Lands, Ends, others, Well
<1>2. call \in Call /\ call.op \in Operations /\ call.op # None
  BY <1>1, NoneAssumption DEF TypeOK, Pass, Call, OperationsNamed, Asking
<1>3. /\ Continues(w) \in Pass /\ Continues(w).at \notin {"off", "run"}
      /\ Asking(Continues(w)) <=> Continues(w).call.op # None
      /\ HasRead(Continues(w)) =>
            call.op \in {"batch", "note", "stop"} /\ Continues(w).call.read = call.read
  BY <1>2, ContinuesPass
<1>4. late # None => call.op \in {"retry", "fail"} /\ Continues(w) = Left(w)
  <2>1. late # None => Outlived(pass[w])
    BY <1>1, FencedCount DEF LateApart, Holds
  <2>2. QED
    BY <1>1, <2>1 DEF Outlived, Continues
<1>5. late # None => Outlived(Continues(w))
  BY <1>4, LeftPass DEF Outlived
<1>6. /\ OperationsFenced' /\ OperationsNamed' /\ LateApart' /\ Known'
      /\ lease' \in Lease \cup {None} /\ pass' \in [Workers -> Pass]
      /\ \A x \in Workers : Holds(x)' => x = w
      /\ Holds(w)
  BY <1>1, <1>3, <1>5, RunEndsStep
<1>7. call.op = "complete" /\ Clean => asked <= call.read
  BY <1>1, <1>6 DEF ReadsHeld, HasRead, Asking
<1>8. /\ job' \in Job /\ examined' \in Writes /\ overtaken' \in BOOLEAN
      /\ AskedIsExamined'
      /\ Clean' => call.op = "claim" \/ (call.op \in {"batch", "note"} /\ Clean)
  BY <1>1, <1>2, <1>7, LandsJob
<1>9. TypeOK'
  BY <1>1, <1>6, <1>8 DEF TypeOK
<1>10. ReadsHeld'
  <2> SUFFICES ASSUME Clean'
               PROVE  /\ HasRead(Continues(w)) => asked <= Continues(w).call.read
                      /\ late = None
    BY <1>1, <1>6 DEF ReadsHeld, TypeOK
  <2>1. late = None
    BY <1>4, <1>8
  <2>2. HasRead(Continues(w)) => Clean /\ HasRead(pass[w])
    BY <1>1, <1>3, <1>8 DEF HasRead, Asking
  <2>3. QED
    BY <1>3, <1>6, <2>1, <2>2 DEF ReadsHeld
<1>11. QED
  BY <1>6, <1>8, <1>9, <1>10

LEMMA BatchRefusedStep ==
    ASSUME IInv, NEW w \in Workers, batch_refused(w)
    PROVE  IInv'
<1> USE DEF IInv
<1>1. /\ pass[w].at = "run" /\ Ends /\ Well
      /\ pass' = [pass EXCEPT ![w] = Error(w)]
      /\ UNCHANGED <<memory, writer, asked, job, late, examined, overtaken, troubles>>
  BY DEF batch_refused, Ends, others, Well
<1>2. /\ Error(w) \in Pass /\ Error(w).at = "ask" /\ Error(w).call.op \in {"retry", "fail"}
      /\ Asking(Error(w)) /\ Error(w).call.op # None
      /\ Outlived(Error(w)) /\ ~HasRead(Error(w))
  BY ErrorPass, NoneAssumption DEF Asking, Outlived, HasRead, Operations
<1>3. /\ OperationsFenced' /\ OperationsNamed' /\ LateApart' /\ Known'
      /\ lease' \in Lease \cup {None} /\ pass' \in [Workers -> Pass]
      /\ \A x \in Workers : Holds(x)' => x = w
      /\ Holds(w)
  BY <1>1, <1>2, RunEndsStep
<1>4. TypeOK' /\ AskedIsExamined'
  BY <1>1, <1>3 DEF TypeOK, AskedIsExamined
<1>5. ReadsHeld'
  BY <1>1, <1>2, <1>3 DEF ReadsHeld, Clean, TypeOK
<1>6. QED
  BY <1>3, <1>4, <1>5

LEMMA LandsLateStep ==
    ASSUME IInv, lands_late
    PROVE  IInv'
<1> USE DEF IInv
<1> DEFINE call == late.call
           w == late.worker
<1>1. /\ late # None /\ late' = None /\ Ends
      /\ job' = Landed(call)
      /\ examined' = (IF call.op = "complete" THEN call.read ELSE examined)
      /\ overtaken' = (overtaken \/ Overtakes(call.op))
      /\ UNCHANGED <<memory, writer, asked, pass, troubles>>
  BY DEF lands_late, Lands, Ends, others, Well
<1>2. call \in Call /\ call.op # None /\ w \in Workers
  BY <1>1 DEF TypeOK, LateCall, OperationsNamed
<1>3. /\ Holds(w) /\ lease \in Lease /\ lease # None /\ lease.owner = w
      /\ lease.active_operations = Running(w) + 1
      /\ \A x \in Workers : pass[x].at = "run" => x = w
  BY <1>1, FencedCount DEF Holds
<1>4. /\ lease' \in Lease \cup {None}
      /\ lease' # None => lease'.owner = w /\ lease'.active_operations = Running(w)
      /\ lease' = None => Running(w) = 0
  BY <1>1, <1>3, EndsLease DEF Running
<1>5. Outlived(pass[w]) /\ ~HasRead(pass[w])
  BY <1>1 DEF LateApart, Outlived, HasRead, Asking
<1>6. call.op = "complete" /\ Clean => asked <= call.read
  BY <1>1 DEF ReadsHeld
<1>7. /\ job' \in Job /\ examined' \in Writes /\ overtaken' \in BOOLEAN
      /\ AskedIsExamined'
  BY <1>1, <1>2, <1>6, LandsJob
<1>8. TypeOK'
  BY <1>1, <1>4, <1>7 DEF TypeOK
<1>9. OperationsFenced'
  BY <1>1, <1>3, <1>4 DEF OperationsFenced, Holds, Running
<1>10. OperationsNamed' /\ LateApart' /\ Known'
  BY <1>1 DEF OperationsNamed, LateApart, Known
<1>11. ReadsHeld'
  BY <1>1, <1>4, <1>5 DEF ReadsHeld, Holds
<1>12. QED
  BY <1>7, <1>8, <1>9, <1>10, <1>11

(* Nobody waits any more for the operation of a pass. *)
LEMMA OutlivesStep ==
    ASSUME IInv, NEW w \in Workers, pass[w].at = "run", late = None,
           late' = Lateness(w), troubles' \in 0 .. MaxTroubles,
           NEW next \in Pass, pass' = [pass EXCEPT ![w] = next],
           next.at \in {"off", "leave", "ask"}, Outlived(next),
           Asking(next) <=> next.call.op # None,
           UNCHANGED <<memory, writer, asked, job, lease, examined, overtaken>>
    PROVE  IInv'
<1> USE DEF IInv
<1>1. /\ pass'[w] = next /\ \A x \in Workers : x # w => pass'[x] = pass[x]
      /\ pass' \in [Workers -> Pass]
  BY DEF TypeOK
<1>2. /\ Holds(w) /\ lease # None /\ lease.owner = w
      /\ lease.active_operations = 1
      /\ \A x \in Workers : pass[x].at = "run" => x = w
  BY FencedCount DEF Holds
<1>3. /\ late' \in LateCall /\ late'.worker = w /\ late' # None
      /\ late'.call.op = pass[w].call.op
      /\ pass[w].call.op = "complete" => late'.call.read = pass[w].call.read
  BY LatenessCall, NoneAssumption
<1>4. TypeOK'
  BY <1>1, <1>3 DEF TypeOK
<1>5. OperationsFenced'
  BY <1>1, <1>2, <1>3 DEF OperationsFenced, Holds, Running
<1>6. OperationsNamed' /\ LateApart' /\ Known' /\ AskedIsExamined'
  BY <1>1, <1>3 DEF OperationsNamed, LateApart, Known, AskedIsExamined, Asking
<1>7. ~HasRead(next)
  BY DEF Outlived, HasRead, Asking
<1>8. ReadsHeld'
  BY <1>1, <1>2, <1>3, <1>7 DEF ReadsHeld, Clean, Holds, HasRead, Asking
<1>9. QED
  BY <1>4, <1>5, <1>6, <1>8

LEMMA AbandonsStep ==
    ASSUME IInv, NEW w \in Workers, Abandons(w), Well \/ Ill
    PROVE  IInv'
<1>1. /\ AfterFailure(w) \in Pass /\ AfterFailure(w).at \in {"leave", "ask"}
      /\ Outlived(AfterFailure(w))
      /\ Asking(AfterFailure(w)) <=> AfterFailure(w).call.op # None
  BY AfterFailurePass, NoneAssumption DEF IInv, Outlived, Asking, Operations
<1>2. QED
  BY <1>1, OutlivesStep, TroublesCount DEF IInv, Abandons, others

LEMMA CloseStep ==
    ASSUME IInv, NEW w \in Workers, Close(w), Well \/ Ill
    PROVE  IInv'
<1>1. /\ NoPass \in Pass /\ NoPass.at = "off" /\ NoPass.call.op = None
      /\ Outlived(NoPass) /\ ~Asking(NoPass) /\ ~HasRead(NoPass)
  BY LimitsAssumption, BoundsAssumption
  DEF NoPass, Pass, Stages, Call, Call0, Writes, Attempts, Totals, Outlived, Asking, HasRead
<1>2. CASE pass[w].at = "run"
  BY <1>1, <1>2, OutlivesStep, TroublesCount DEF IInv, Close, others
<1>3. CASE pass[w].at # "run"
  BY <1>1, <1>3, GoesStep, TroublesCount DEF IInv, Close, Goes, others, server
<1>4. QED
  BY <1>2, <1>3

LEMMA RestartStep ==
    ASSUME IInv, Restart
    PROVE  IInv'
<1> USE DEF IInv
<1>1. /\ lease' = None /\ late' = None
      /\ writer' = [v \in Writers |-> NoEnqueue]
      /\ UNCHANGED <<job, memory, asked, examined, overtaken>>
      /\ troubles' \in 0 .. MaxTroubles
  BY TroublesCount DEF Restart
<1>2. /\ pass' \in [Workers -> Pass]
      /\ \A w \in Workers :
            /\ pass'[w].at # "run" /\ pass'[w].call = pass[w].call
            /\ Asking(pass'[w]) <=> Asking(pass[w])
  BY DEF Restart, TypeOK, Pass, Stages, Asking
<1>3. NoEnqueue \in Enqueue /\ NoEnqueue.write <= memory
  BY BoundsAssumption DEF NoEnqueue, Enqueue, TypeOK, Writes
<1>4. TypeOK'
  BY <1>1, <1>2, <1>3 DEF TypeOK
<1>5. OperationsFenced' /\ LateApart' /\ AskedIsExamined' /\ ReadsHeld'
  BY <1>1, <1>2 DEF OperationsFenced, LateApart, AskedIsExamined, ReadsHeld, Holds
<1>6. OperationsNamed' /\ Known'
  BY <1>1, <1>2, <1>3 DEF OperationsNamed, Known
<1>7. QED
  BY <1>4, <1>5, <1>6
----------------------------------------------------------------------------
LEMMA InitHolds == Init => IInv
<1> SUFFICES ASSUME Init PROVE IInv
  OBVIOUS
<1>1. /\ 0 \in Attempts /\ 0 \in Totals /\ 0 \in Writes /\ 0 \in 0 .. MaxTroubles
      /\ 0 \in 0 .. MAX_PASSES_PER_DRAIN
  BY LimitsAssumption, BoundsAssumption DEF Attempts, Totals, Writes
<1>2. job \in Job
  BY <1>1 DEF Init, Job, Statuses
<1>3. writer \in [Writers -> Enqueue] /\ \A v \in Writers : writer[v].write = 0
  BY <1>1 DEF Init, Enqueue, NoEnqueue
<1>4. /\ pass \in [Workers -> Pass]
      /\ \A w \in Workers : pass[w].at = "off" /\ pass[w].call.op = None
  BY <1>1 DEF Init, NoPass, Pass, Stages, Call, Call0
<1>5. TypeOK
  BY <1>1, <1>2, <1>3, <1>4 DEF Init, TypeOK
<1>6. OperationsFenced /\ OperationsNamed /\ LateApart /\ Known
  BY <1>3, <1>4 DEF Init, OperationsFenced, OperationsNamed, LateApart, Known, Asking
<1>7. ReadsHeld /\ AskedIsExamined
  BY DEF Init, ReadsHeld, AskedIsExamined, Clean
<1>8. QED
  BY <1>5, <1>6, <1>7 DEF IInv

LEMMA NextStep == IInv /\ [Next]_vars => IInv'
<1> SUFFICES ASSUME IInv, [Next]_vars PROVE IInv'
  OBVIOUS
<1>1. ASSUME NEW v \in Writers, Begin(v) \/ enqueue(v) PROVE IInv'
  BY <1>1, WriterStep, EnqueueStep DEF enqueue
<1>2. ASSUME NEW w \in Workers, Work(w) PROVE IInv'
  <2>1. CASE refused(w)
    BY <1>2, <2>1, LeavesStep DEF Work, refused
  <2>2. QED
    BY <1>2, <2>1, ListStep, BeginsStep, LandsStep, WorkStep, SettlesStep, LeaveStep DEF Work
<1>3. ASSUME NEW w \in Workers, Trouble(w) PROVE IInv'
  <2>1. CASE GivesUp(w)
    BY <1>3, <2>1, LeavesStep DEF Trouble, GivesUp
  <2>2. CASE Interrupted(w)
    BY <1>3, <2>2, AsksStep DEF Trouble, Interrupted, Operations
  <2>3. QED
    BY <1>3, <2>1, <2>2, RequestStep, AbandonsStep, CloseStep DEF Trouble
<1>4. CASE UNCHANGED vars
  BY <1>4 DEF vars, IInv, TypeOK, OperationsFenced, OperationsNamed, LateApart, Known,
              ReadsHeld, AskedIsExamined, Holds, Running, Clean
<1>5. QED
  BY <1>1, <1>2, <1>3, <1>4, AcquireStep, HeartbeatStep, BatchRefusedStep, BackoffStep,
     LapseStep, LandsLateStep, RestartStep DEF Next

THEOREM Invariance == Spec => []IInv
BY InitHolds, NextStep, PTL DEF Spec

(* The job, its lease, the passes and the operations keep their types, for any *)
(* number of clients and writers and any limits of the queue.                 *)
THEOREM TypeCorrect == Spec => []TypeOK
BY Invariance, PTL DEF IInv

(* with_memory_maintenance_lease keeps a lease's operations from overlapping   *)
(* with another's, however leases lapse and clients give up on requests.       *)
THEOREM OperationsAreFenced == Spec => []OperationsFenced
BY Invariance, PTL DEF IInv

(* A drain completes the job for the writes it has read only, as long as no    *)
(* update lands on a job in a state it was not meant for.                      *)
THEOREM AskedWritesAreExamined == Spec => []AskedIsExamined
BY Invariance, PTL DEF IInv
===============================================================================
