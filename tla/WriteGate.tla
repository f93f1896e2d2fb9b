----------------------------- MODULE WriteGate -----------------------------
(* The write gate of the storage crate (crates/storage/src/write_gate.rs):  *)
(* a mutex, a condition variable and six fields, through which every        *)
(* mutation of a collection passes.  The mutex is held from the entry of a   *)
(* begin_* call to its return or its wait, so each evaluation of a call is   *)
(* one step; a woken thread re-evaluates in a later step.  A thread wakes    *)
(* only when it is notified: with spurious wakeups a lost one could not be   *)
(* seen.                                                                    *)
(*                                                                          *)
(* A definition named Faulty... is a variant of the next one with a bug in   *)
(* it; nothing uses it but the mutation runs, which put it in its place.     *)
EXTENDS Naturals, FiniteSets

CONSTANTS Threads,  \* the threads that write
          None      \* stands for Option::None

ASSUME ThreadsAssumption == IsFiniteSet(Threads) /\ None \notin Threads

VARIABLES
    atomic_owner,               \* the fields of WriteGateState
    exclusive_owner,
    active_writes,
    waiting_atomic_updates,
    waiting_exclusive_sections,
    recovery_required,
    held,                       \* the permits each thread has not dropped
    pc,                         \* where each thread is in the gate's functions
    sleeping                    \* the wait set of the condition variable

gate == <<atomic_owner, exclusive_owner, active_writes,
          waiting_atomic_updates, waiting_exclusive_sections>>
vars == <<atomic_owner, exclusive_owner, active_writes,
          waiting_atomic_updates, waiting_exclusive_sections,
          recovery_required, held, pc, sleeping>>

WritePermitKind == {"Ordinary", "Atomic", "Exclusive"}

(* "write": inside begin_write; "atomic" and "exclusive": at the entry of    *)
(* begin_atomic_update and begin_exclusive; the "_wait" forms: counted as    *)
(* waiting and inside their while loops.                                    *)
PC == {"idle", "write", "atomic", "atomic_wait", "exclusive", "exclusive_wait"}

TypeOK ==
    /\ atomic_owner \in Threads \cup {None}
    /\ exclusive_owner \in Threads \cup {None}
    /\ active_writes \in Nat
    /\ waiting_atomic_updates \in Nat
    /\ waiting_exclusive_sections \in Nat
    /\ recovery_required \in BOOLEAN
    /\ held \in [Threads -> SUBSET WritePermitKind]
    /\ pc \in [Threads -> PC]
    /\ sleeping \in SUBSET Threads

(* Opening the store may already have found an append journal it could not   *)
(* recover.                                                                 *)
Init ==
    /\ atomic_owner = None
    /\ exclusive_owner = None
    /\ active_writes = 0
    /\ waiting_atomic_updates = 0
    /\ waiting_exclusive_sections = 0
    /\ recovery_required \in BOOLEAN
    /\ held = [t \in Threads |-> {}]
    /\ pc = [t \in Threads |-> "idle"]
    /\ sleeping = {}
----------------------------------------------------------------------------
Faulty_excluded(t) == FALSE        \* the section's owner is not looked at
excluded(t) == exclusive_owner # None /\ exclusive_owner # t

Faulty_decrement(n) == n - 2       \* counted off by the waiter and by the drop
saturating_sub(n) == IF n = 0 THEN 0 ELSE n - 1

(* The conditions under which the three functions wait. *)
Faulty_WriteBlocked(t) ==          \* no way is made for queued transactions
    atomic_owner # None \/ excluded(t) \/ active_writes > 0

WriteBlocked(t) ==
    \/ atomic_owner # None
    \/ excluded(t)
    \/ active_writes > 0
    \/ /\ exclusive_owner # t
       /\ waiting_atomic_updates > 0 \/ waiting_exclusive_sections > 0

Faulty_AtomicBlocked_writes(t) == atomic_owner # None \/ excluded(t)
AtomicBlocked(t) == atomic_owner # None \/ active_writes > 0 \/ excluded(t)

ExclusiveBlocked ==
    exclusive_owner # None \/ atomic_owner # None \/ active_writes > 0

Wait(t)        == sleeping' = sleeping \cup {t}
notify_all     == sleeping' = {}
Goto(t, label) == pc' = [pc EXCEPT ![t] = label]
Take(t, kind)  == held' = [held EXCEPT ![t] = @ \cup {kind}]
Give(t, kind)  == held' = [held EXCEPT ![t] = @ \ {kind}]
Awake(t, labels) == pc[t] \in labels /\ t \notin sleeping

(* A thread calls one of the three functions.  No caller in the crate keeps  *)
(* an ordinary permit across another call; the owner of an atomic update     *)
(* does call again (its closure may write), to be refused.                  *)
Call(t) ==
    /\ pc[t] = "idle" /\ "Ordinary" \notin held[t]
    /\ \E label \in {"write", "atomic", "exclusive"} : Goto(t, label)
    /\ UNCHANGED <<gate, recovery_required, held, sleeping>>
----------------------------------------------------------------------------
(* begin_write: every turn of the loop starts over. *)
WriteRefused(t) ==
    /\ Awake(t, {"write"})
    /\ recovery_required \/ atomic_owner = t
    /\ Goto(t, "idle")
    /\ UNCHANGED <<gate, recovery_required, held, sleeping>>

WriteWaits(t) ==
    /\ Awake(t, {"write"})
    /\ ~recovery_required /\ atomic_owner # t
    /\ WriteBlocked(t)
    /\ Wait(t)
    /\ UNCHANGED <<gate, recovery_required, held, pc>>

WriteGranted(t) ==
    /\ Awake(t, {"write"})
    /\ ~recovery_required /\ ~WriteBlocked(t)
    /\ active_writes' = active_writes + 1
    /\ Take(t, "Ordinary")
    /\ Goto(t, "idle")
    /\ UNCHANGED <<atomic_owner, exclusive_owner, waiting_atomic_updates,
                   waiting_exclusive_sections, recovery_required, sleeping>>

begin_write(t) == WriteRefused(t) \/ WriteWaits(t) \/ WriteGranted(t)
----------------------------------------------------------------------------
(* begin_atomic_update. *)
AtomicRefused(t) ==
    /\ Awake(t, {"atomic"})
    /\ recovery_required \/ atomic_owner = t
    /\ Goto(t, "idle")
    /\ UNCHANGED <<gate, recovery_required, held, sleeping>>

AtomicQueued(t) ==
    /\ Awake(t, {"atomic"})
    /\ ~recovery_required /\ AtomicBlocked(t) /\ atomic_owner # t
    /\ waiting_atomic_updates' = waiting_atomic_updates + 1
    /\ Goto(t, "atomic_wait")
    /\ Wait(t)
    /\ UNCHANGED <<atomic_owner, exclusive_owner, active_writes,
                   waiting_exclusive_sections, recovery_required, held>>

AtomicWaits(t) ==
    /\ Awake(t, {"atomic_wait"})
    /\ ~recovery_required /\ AtomicBlocked(t)
    /\ Wait(t)
    /\ UNCHANGED <<gate, recovery_required, held, pc>>

AtomicFails(t) ==
    /\ Awake(t, {"atomic_wait"})
    /\ recovery_required
    /\ waiting_atomic_updates' = saturating_sub(waiting_atomic_updates)
    /\ Goto(t, "idle")
    /\ notify_all
    /\ UNCHANGED <<atomic_owner, exclusive_owner, active_writes,
                   waiting_exclusive_sections, recovery_required, held>>

(* Counted as waiting and granted in one step when nothing blocks it. *)
AtomicGranted(t) ==
    /\ Awake(t, {"atomic", "atomic_wait"})
    /\ ~recovery_required /\ ~AtomicBlocked(t)
    /\ waiting_atomic_updates' =
          IF pc[t] = "atomic" THEN waiting_atomic_updates
                              ELSE saturating_sub(waiting_atomic_updates)
    /\ atomic_owner' = t
    /\ Take(t, "Atomic")
    /\ Goto(t, "idle")
    /\ UNCHANGED <<exclusive_owner, active_writes, waiting_exclusive_sections,
                   recovery_required, sleeping>>

begin_atomic_update(t) == \/ AtomicRefused(t) \/ AtomicQueued(t)
                          \/ AtomicWaits(t) \/ AtomicFails(t) \/ AtomicGranted(t)
----------------------------------------------------------------------------
(* begin_exclusive. *)
ExclusiveRefused(t) ==
    /\ Awake(t, {"exclusive"})
    /\ recovery_required \/ exclusive_owner = t \/ atomic_owner = t
    /\ Goto(t, "idle")
    /\ UNCHANGED <<gate, recovery_required, held, sleeping>>

ExclusiveQueued(t) ==
    /\ Awake(t, {"exclusive"})
    /\ ~recovery_required /\ ExclusiveBlocked
    /\ exclusive_owner # t /\ atomic_owner # t
    /\ waiting_exclusive_sections' = waiting_exclusive_sections + 1
    /\ Goto(t, "exclusive_wait")
    /\ Wait(t)
    /\ UNCHANGED <<atomic_owner, exclusive_owner, active_writes,
                   waiting_atomic_updates, recovery_required, held>>

ExclusiveWaits(t) ==
    /\ Awake(t, {"exclusive_wait"})
    /\ ~recovery_required /\ ExclusiveBlocked
    /\ Wait(t)
    /\ UNCHANGED <<gate, recovery_required, held, pc>>

Faulty_ExclusiveFails(t) ==        \* the error path leaves the queue's count
    /\ Awake(t, {"exclusive_wait"})
    /\ recovery_required
    /\ Goto(t, "idle")
    /\ notify_all
    /\ UNCHANGED <<gate, recovery_required, held>>

ExclusiveFails(t) ==
    /\ Awake(t, {"exclusive_wait"})
    /\ recovery_required
    /\ waiting_exclusive_sections' = saturating_sub(waiting_exclusive_sections)
    /\ Goto(t, "idle")
    /\ notify_all
    /\ UNCHANGED <<atomic_owner, exclusive_owner, active_writes,
                   waiting_atomic_updates, recovery_required, held>>

ExclusiveGranted(t) ==
    /\ Awake(t, {"exclusive", "exclusive_wait"})
    /\ ~recovery_required /\ ~ExclusiveBlocked
    /\ waiting_exclusive_sections' =
          IF pc[t] = "exclusive" THEN waiting_exclusive_sections
                                 ELSE saturating_sub(waiting_exclusive_sections)
    /\ exclusive_owner' = t
    /\ Take(t, "Exclusive")
    /\ Goto(t, "idle")
    /\ UNCHANGED <<atomic_owner, active_writes, waiting_atomic_updates,
                   recovery_required, sleeping>>

begin_exclusive(t) == \/ ExclusiveRefused(t) \/ ExclusiveQueued(t)
                      \/ ExclusiveWaits(t) \/ ExclusiveFails(t) \/ ExclusiveGranted(t)
----------------------------------------------------------------------------
(* WritePermit::drop.  Permits are locals of nested scopes, so the permit of *)
(* an exclusive section outlives those taken inside it.                     *)
Faulty_DropOrdinary(t) ==          \* without notify_all
    /\ pc[t] = "idle" /\ "Ordinary" \in held[t]
    /\ active_writes' = saturating_sub(active_writes)
    /\ Give(t, "Ordinary")
    /\ UNCHANGED <<atomic_owner, exclusive_owner, waiting_atomic_updates,
                   waiting_exclusive_sections, recovery_required, pc, sleeping>>

DropOrdinary(t) ==
    /\ pc[t] = "idle" /\ "Ordinary" \in held[t]
    /\ active_writes' = saturating_sub(active_writes)
    /\ Give(t, "Ordinary")
    /\ notify_all
    /\ UNCHANGED <<atomic_owner, exclusive_owner, waiting_atomic_updates,
                   waiting_exclusive_sections, recovery_required, pc>>

DropAtomic(t) ==
    /\ pc[t] = "idle" /\ "Atomic" \in held[t]
    /\ atomic_owner' = None
    /\ Give(t, "Atomic")
    /\ notify_all
    /\ UNCHANGED <<exclusive_owner, active_writes, waiting_atomic_updates,
                   waiting_exclusive_sections, recovery_required, pc>>

DropExclusive(t) ==
    /\ pc[t] = "idle" /\ held[t] = {"Exclusive"}
    /\ exclusive_owner' = None
    /\ Give(t, "Exclusive")
    /\ notify_all
    /\ UNCHANGED <<atomic_owner, active_writes, waiting_atomic_updates,
                   waiting_exclusive_sections, recovery_required, pc>>

(* An append or a grouped upsert, running under its ordinary permit, failed  *)
(* after its commit point and could not be rolled back.                     *)
mark_recovery_required(t) ==
    /\ pc[t] = "idle" /\ "Ordinary" \in held[t]
    /\ recovery_required' = TRUE
    /\ notify_all
    /\ UNCHANGED <<gate, held, pc>>

Begin(t) == begin_write(t) \/ begin_atomic_update(t) \/ begin_exclusive(t)
Drop(t)  == DropOrdinary(t) \/ DropAtomic(t) \/ DropExclusive(t)

Next == \E t \in Threads :
            Call(t) \/ Begin(t) \/ Drop(t) \/ mark_recovery_required(t)

Spec == Init /\ [][Next]_vars

(* A running thread goes on, and what it does under a permit ends: each      *)
(* permit is dropped at the end of a scope that makes finitely many calls,   *)
(* so a permit that can be dropped again and again is dropped.              *)
Fairness == \A t \in Threads :
    /\ WF_vars(Begin(t))
    /\ SF_vars(DropOrdinary(t)) /\ SF_vars(DropAtomic(t)) /\ SF_vars(DropExclusive(t))

FairSpec == Spec /\ Fairness
----------------------------------------------------------------------------
Writers == {t \in Threads : held[t] \cap {"Ordinary", "Atomic"} # {}}

(* The gate's fields agree with the permits the threads really hold: each    *)
(* owner field names the one holder, active_writes is 1 exactly while some   *)
(* thread holds an ordinary permit, and there is one writer at most.         *)
OwnersHold ==
    /\ \A t \in Threads : /\ ("Atomic" \in held[t]) <=> (atomic_owner = t)
                          /\ ("Exclusive" \in held[t]) <=> (exclusive_owner = t)
    /\ active_writes = IF \E t \in Threads : "Ordinary" \in held[t] THEN 1 ELSE 0

(* Mutual exclusion across kinds: two threads never hold permits to mutate   *)
(* at once, no thread holds an ordinary permit inside its own atomic update, *)
(* and during an exclusive section only its owner holds one ("every other    *)
(* thread's writes wait until the returned permit is dropped").              *)
OneWriter ==
    /\ \A t, u \in Writers : t = u
    /\ \A t \in Writers : ~({"Ordinary", "Atomic"} \subseteq held[t])
    /\ exclusive_owner # None => Writers \subseteq {exclusive_owner}

(* The counts that hold ordinary writes back are the numbers of threads in   *)
(* the two queues, so neither a recovery error nor a grant leaks one (a      *)
(* leaked count would block ordinary writes for good).                       *)
CountsAreQueues ==
    /\ waiting_atomic_updates = Cardinality({t \in Threads : pc[t] = "atomic_wait"})
    /\ waiting_exclusive_sections = Cardinality({t \in Threads : pc[t] = "exclusive_wait"})

(* No wakeup is lost: whatever a sleeping thread waits for is still so. The  *)
(* gate is open for recovery errors to be seen, and its wait condition holds.*)
NoLostWakeup ==
    \A t \in sleeping :
        /\ ~recovery_required
        /\ \/ pc[t] = "write" /\ WriteBlocked(t)
           \/ pc[t] = "atomic_wait" /\ AtomicBlocked(t)
           \/ pc[t] = "exclusive_wait" /\ ExclusiveBlocked

(* The thread that mutates collections, for the refinement of WriteSections. *)
Writer == IF Writers = {} THEN None ELSE CHOOSE t \in Writers : TRUE

Sections == INSTANCE WriteSections WITH
    writer <- Writer, section <- exclusive_owner, closed <- recovery_required

(* The gate implements WriteSections: one mutating thread, isolated exclusive *)
(* sections, and nothing granted once recovery is required.                  *)
ImplementsSections == Sections!Spec

(* Once no new call arrives every pending one is answered: no thread sleeps  *)
(* on while the gate is free.                                               *)
CallsAnswered ==
    (<>[][\A t \in Threads : ~Call(t)]_vars)
        => \A t \in Threads : []<>(pc[t] = "idle")

NewTransaction == \E t \in Threads : pc[t] = "idle" /\ pc'[t] \in {"atomic", "exclusive"}

(* Ordinary writers cannot starve a queued atomic update or exclusive        *)
(* section: when no further transaction is started, each queued one is       *)
(* answered however many ordinary writes keep arriving.                      *)
QueuedTransactionsRun ==
    (<>[][~NewTransaction]_vars)
        => \A t \in Threads : []<>(pc[t] \notin {"atomic_wait", "exclusive_wait"})
============================================================================
