-------------------------- MODULE WriteGate_proofs --------------------------
(* Proofs about WriteGate, for every finite set of threads.                 *)
EXTENDS WriteGate, FiniteSetTheorems, TLAPS

Holds(t, kind) == kind \in held[t]

(* What OwnersHold and OneWriter need to be inductive: no thread inside a    *)
(* begin function holds an ordinary permit, and the owner fields exclude     *)
(* each other as the wait conditions read them.                             *)
Exclusion ==
    /\ \A t \in Threads : Holds(t, "Ordinary") => pc[t] = "idle"
    /\ \A t, u \in Threads : Holds(t, "Ordinary") /\ Holds(u, "Ordinary") => t = u
    /\ atomic_owner # None => active_writes = 0
    /\ \A t \in Threads : exclusive_owner # None /\ Holds(t, "Ordinary") => exclusive_owner = t
    /\ exclusive_owner # None /\ atomic_owner # None => exclusive_owner = atomic_owner

IInv == TypeOK /\ OwnersHold /\ Exclusion

(* The fields start typed, and every step of the gate keeps them so.         *)
LEMMA InitType == Init => TypeOK
BY ThreadsAssumption DEF Init, TypeOK, PC, WritePermitKind

(* Every step keeps the types. *)
LEMMA TypeStep == TypeOK /\ [Next]_vars => TypeOK'
<1> SUFFICES ASSUME TypeOK, [Next]_vars PROVE TypeOK'
  OBVIOUS
<1> USE DEF TypeOK, PC, WritePermitKind, gate
<1>1. CASE UNCHANGED vars
  BY <1>1 DEF vars
<1>2. ASSUME NEW t \in Threads, Call(t) PROVE TypeOK'
  BY <1>2 DEF Call, Goto
<1>3. ASSUME NEW t \in Threads, begin_write(t) PROVE TypeOK'
  BY <1>3 DEF begin_write, WriteRefused, WriteWaits, WriteGranted, Wait, Take, Goto
<1>4. ASSUME NEW t \in Threads, begin_atomic_update(t) PROVE TypeOK'
  BY <1>4 DEF begin_atomic_update, AtomicRefused, AtomicQueued, AtomicWaits,
       AtomicFails, AtomicGranted, Wait, Take, Goto, notify_all, saturating_sub
<1>5. ASSUME NEW t \in Threads, begin_exclusive(t) PROVE TypeOK'
  BY <1>5 DEF begin_exclusive, ExclusiveRefused, ExclusiveQueued, ExclusiveWaits,
       ExclusiveFails, ExclusiveGranted, Wait, Take, Goto, notify_all, saturating_sub
<1>6. ASSUME NEW t \in Threads, Drop(t) PROVE TypeOK'
  BY <1>6 DEF Drop, DropOrdinary, DropAtomic, DropExclusive, Give, notify_all, saturating_sub
<1>7. ASSUME NEW t \in Threads, mark_recovery_required(t) PROVE TypeOK'
  BY <1>7 DEF mark_recovery_required, notify_all
<1> QED BY <1>1, <1>2, <1>3, <1>4, <1>5, <1>6, <1>7 DEF Next, Begin

(* Type correctness of the gate: in particular no count leaves Nat.          *)
THEOREM TypeCorrect == Spec => []TypeOK
BY InitType, TypeStep, PTL DEF Spec
-----------------------------------------------------------------------------
(* The inductive step of the gate's exclusion, one step per action.          *)
LEMMA Inductive == IInv /\ [Next]_vars => IInv'
<1> SUFFICES ASSUME IInv, [Next]_vars PROVE (OwnersHold /\ Exclusion)'
  BY TypeStep DEF IInv
<1> USE ThreadsAssumption DEF IInv, TypeOK, PC, WritePermitKind, gate, OwnersHold, Exclusion, Holds
<1>1. CASE UNCHANGED vars
  BY <1>1 DEF vars
<1>2. ASSUME NEW t \in Threads, Call(t) PROVE (OwnersHold /\ Exclusion)'
  BY <1>2 DEF Call, Goto
<1>3. ASSUME NEW t \in Threads, WriteRefused(t) \/ WriteWaits(t) PROVE (OwnersHold /\ Exclusion)'
  BY <1>3 DEF WriteRefused, WriteWaits, Wait, Goto
<1>4. ASSUME NEW t \in Threads, WriteGranted(t) PROVE (OwnersHold /\ Exclusion)'
  <2>1. OwnersHold'
    BY <1>4 DEF WriteGranted, WriteBlocked, excluded, Take, Goto
  <2>2. Exclusion'
    BY <1>4 DEF WriteGranted, WriteBlocked, excluded, Take, Goto
  <2> QED BY <2>1, <2>2
<1>5. ASSUME NEW t \in Threads, begin_atomic_update(t) PROVE (OwnersHold /\ Exclusion)'
  <2>1. CASE AtomicRefused(t) \/ AtomicQueued(t) \/ AtomicWaits(t) \/ AtomicFails(t)
    BY <2>1 DEF AtomicRefused, AtomicQueued, AtomicWaits, AtomicFails, Wait, Goto, notify_all, Awake
  <2>2. CASE AtomicGranted(t)
    BY <2>2 DEF AtomicGranted, AtomicBlocked, excluded, Take, Goto, Awake
  <2> QED BY <1>5, <2>1, <2>2 DEF begin_atomic_update
<1>6. ASSUME NEW t \in Threads, begin_exclusive(t) PROVE (OwnersHold /\ Exclusion)'
  <2>1. CASE ExclusiveRefused(t) \/ ExclusiveQueued(t) \/ ExclusiveWaits(t) \/ ExclusiveFails(t)
    BY <2>1 DEF ExclusiveRefused, ExclusiveQueued, ExclusiveWaits, ExclusiveFails, Wait, Goto, notify_all, Awake
  <2>2. CASE ExclusiveGranted(t)
    BY <2>2 DEF ExclusiveGranted, ExclusiveBlocked, Take, Goto, Awake
  <2> QED BY <1>6, <2>1, <2>2 DEF begin_exclusive
<1>7. ASSUME NEW t \in Threads, Drop(t) PROVE (OwnersHold /\ Exclusion)'
  <2>1. CASE DropOrdinary(t)
    BY <2>1 DEF DropOrdinary, Give, saturating_sub
  <2>2. CASE DropAtomic(t)
    BY <2>2 DEF DropAtomic, Give
  <2>3. CASE DropExclusive(t)
    BY <2>3 DEF DropExclusive, Give
  <2> QED BY <1>7, <2>1, <2>2, <2>3 DEF Drop
<1>8. ASSUME NEW t \in Threads, mark_recovery_required(t) PROVE (OwnersHold /\ Exclusion)'
  BY <1>8 DEF mark_recovery_required
<1> QED BY <1>1, <1>2, <1>3, <1>4, <1>5, <1>6, <1>7, <1>8 DEF Next, Begin, begin_write

(* IInv holds of every reachable state.                                      *)
LEMMA Invariance == Spec => []IInv
<1>1. Init => IInv
  BY InitType, ThreadsAssumption DEF Init, IInv, OwnersHold, Exclusion, Holds
<1> QED BY <1>1, Inductive, PTL DEF Spec

(* The gate's fields never disagree with the permits threads hold.           *)
THEOREM OwnersCorrect == Spec => []OwnersHold
BY Invariance, PTL DEF IInv

(* At most one thread holds a permit to mutate, and only the owner of an     *)
(* exclusive section while one is open.                                     *)
THEOREM MutualExclusion == Spec => []OneWriter
<1>1. IInv => OneWriter
  <2> SUFFICES ASSUME IInv PROVE OneWriter
    OBVIOUS
  <2> USE ThreadsAssumption DEF IInv, TypeOK, OwnersHold, Exclusion, Holds, Writers
  <2>1. \A t, u \in Writers : t = u
    OBVIOUS
  <2>2. \A t \in Writers : ~({"Ordinary", "Atomic"} \subseteq held[t])
    OBVIOUS
  <2>3. exclusive_owner # None => Writers \subseteq {exclusive_owner}
    OBVIOUS
  <2> QED BY <2>1, <2>2, <2>3 DEF OneWriter
<1> QED BY <1>1, Invariance, PTL
-----------------------------------------------------------------------------
(* Every notification the gate owes is sent: a sleeping thread is really     *)
(* blocked, so the thread that ends what blocks it will wake it.             *)
LEMMA WakeupStep == IInv /\ NoLostWakeup /\ [Next]_vars => NoLostWakeup'
<1> SUFFICES ASSUME IInv, NoLostWakeup, [Next]_vars PROVE NoLostWakeup'
  OBVIOUS
<1> USE ThreadsAssumption DEF IInv, TypeOK, NoLostWakeup, gate,
      WriteBlocked, AtomicBlocked, ExclusiveBlocked, excluded
<1>1. CASE UNCHANGED vars
  BY <1>1 DEF vars
<1>2. ASSUME NEW t \in Threads, Call(t) PROVE NoLostWakeup'
  BY <1>2 DEF Call, Goto
<1>3. ASSUME NEW t \in Threads, WriteRefused(t) \/ WriteWaits(t) PROVE NoLostWakeup'
  BY <1>3 DEF WriteRefused, WriteWaits, Wait, Goto, Awake
<1>4. ASSUME NEW t \in Threads, WriteGranted(t) PROVE NoLostWakeup'
  BY <1>4 DEF WriteGranted, Take, Goto, Awake
<1>5. ASSUME NEW t \in Threads, begin_atomic_update(t) PROVE NoLostWakeup'
  <2>1. CASE AtomicRefused(t) \/ AtomicFails(t)
    BY <2>1 DEF AtomicRefused, AtomicFails, Goto, notify_all, Awake
  <2>2. CASE AtomicQueued(t) \/ AtomicWaits(t)
    BY <2>2 DEF AtomicQueued, AtomicWaits, Wait, Goto, Awake
  <2>3. CASE AtomicGranted(t)
    BY <2>3 DEF AtomicGranted, Take, Goto, Awake
  <2> QED BY <1>5, <2>1, <2>2, <2>3 DEF begin_atomic_update
<1>6. ASSUME NEW t \in Threads, begin_exclusive(t) PROVE NoLostWakeup'
  <2>1. CASE ExclusiveRefused(t) \/ ExclusiveFails(t)
    BY <2>1 DEF ExclusiveRefused, ExclusiveFails, Goto, notify_all, Awake
  <2>2. CASE ExclusiveQueued(t) \/ ExclusiveWaits(t)
    BY <2>2 DEF ExclusiveQueued, ExclusiveWaits, Wait, Goto, Awake
  <2>3. CASE ExclusiveGranted(t)
    BY <2>3 DEF ExclusiveGranted, Take, Goto, Awake
  <2> QED BY <1>6, <2>1, <2>2, <2>3 DEF begin_exclusive
<1>7. ASSUME NEW t \in Threads, Drop(t) PROVE NoLostWakeup'
  BY <1>7 DEF Drop, DropOrdinary, DropAtomic, DropExclusive, notify_all
<1>8. ASSUME NEW t \in Threads, mark_recovery_required(t) PROVE NoLostWakeup'
  BY <1>8 DEF mark_recovery_required, notify_all
<1> QED BY <1>1, <1>2, <1>3, <1>4, <1>5, <1>6, <1>7, <1>8 DEF Next, Begin, begin_write

(* No thread sleeps on while what it waits for is over, for any number of    *)
(* threads: every change of the gate notifies all of them.                   *)
THEOREM WakeupsKept == Spec => []NoLostWakeup
<1>1. Init => NoLostWakeup
  BY DEF Init, NoLostWakeup
<1> QED BY <1>1, WakeupStep, Invariance, PTL DEF Spec
-----------------------------------------------------------------------------
(* The threads waiting at a label, and how one jump of one thread changes     *)
(* their number.                                                             *)
Waiting(label) == {t \in Threads : pc[t] = label}

(* Waiting threads are finitely many. *)
LEMMA WaitingCount ==
    ASSUME TypeOK, NEW label \in PC
    PROVE  IsFiniteSet(Waiting(label)) /\ Cardinality(Waiting(label)) \in Nat
<1>1. Waiting(label) \in SUBSET Threads
  BY DEF Waiting
<1>2. IsFiniteSet(Waiting(label))
  BY <1>1, FS_Subset, ThreadsAssumption
<1> QED BY <1>2, FS_CardinalityType

(* A jump of one thread moves the count of the label it leaves or reaches. *)
LEMMA WaitingJump ==
    ASSUME TypeOK, NEW label \in PC, NEW t \in Threads, NEW target \in PC,
           Goto(t, target)
    PROVE  Cardinality(Waiting(label)') =
             IF pc[t] = target \/ label \notin {pc[t], target}
               THEN Cardinality(Waiting(label))
             ELSE IF label = target THEN Cardinality(Waiting(label)) + 1
             ELSE Cardinality(Waiting(label)) - 1
<1> USE DEF Goto, Waiting, TypeOK
<1>1. IsFiniteSet(Waiting(label))
  BY WaitingCount
<1>2. CASE pc[t] = target \/ label \notin {pc[t], target}
  <2>1. Waiting(label)' = Waiting(label)
    BY <1>2
  <2> QED BY <1>2, <2>1
<1>3. CASE pc[t] # target /\ label = target
  <2>1. Waiting(label)' = Waiting(label) \cup {t} /\ t \notin Waiting(label)
    BY <1>3
  <2>2. Cardinality(Waiting(label) \cup {t}) = Cardinality(Waiting(label)) + 1
    BY <1>1, <2>1, FS_AddElement
  <2> QED BY <1>3, <2>1, <2>2
<1>4. CASE pc[t] # target /\ label = pc[t]
  <2>1. Waiting(label)' = Waiting(label) \ {t} /\ t \in Waiting(label)
    BY <1>4
  <2>2. Cardinality(Waiting(label) \ {t}) = Cardinality(Waiting(label)) - 1
    BY <1>1, <2>1, FS_RemoveElement
  <2> QED BY <1>4, <2>1, <2>2
<1> QED BY <1>2, <1>3, <1>4

(* The counts that hold ordinary writes back are the lengths of the queues.  *)
LEMMA CountsStep == TypeOK /\ CountsAreQueues /\ [Next]_vars => CountsAreQueues'
<1> DEFINE Counted(n, label) == n = Cardinality(Waiting(label))
<1> SUFFICES ASSUME TypeOK, CountsAreQueues, [Next]_vars
             PROVE  /\ Counted(waiting_atomic_updates, "atomic_wait")'
                    /\ Counted(waiting_exclusive_sections, "exclusive_wait")'
  BY DEF CountsAreQueues, Waiting
<1>1. /\ waiting_atomic_updates = Cardinality(Waiting("atomic_wait"))
      /\ waiting_exclusive_sections = Cardinality(Waiting("exclusive_wait"))
  BY DEF CountsAreQueues, Waiting
<1>2. /\ waiting_atomic_updates \in Nat
      /\ waiting_exclusive_sections \in Nat
  BY DEF TypeOK
<1>3. "atomic_wait" \in PC /\ "exclusive_wait" \in PC
  BY DEF PC
<1>4. CASE UNCHANGED <<pc, gate>>
  BY <1>4, <1>1 DEF Waiting, gate
<1>5. ASSUME NEW t \in Threads, NEW target \in PC, Goto(t, target),
             waiting_atomic_updates' =
               IF target = "atomic_wait" /\ pc[t] # target THEN waiting_atomic_updates + 1
               ELSE IF pc[t] = "atomic_wait" /\ pc[t] # target THEN saturating_sub(waiting_atomic_updates)
               ELSE waiting_atomic_updates,
             waiting_exclusive_sections' =
               IF target = "exclusive_wait" /\ pc[t] # target THEN waiting_exclusive_sections + 1
               ELSE IF pc[t] = "exclusive_wait" /\ pc[t] # target THEN saturating_sub(waiting_exclusive_sections)
               ELSE waiting_exclusive_sections
      PROVE  /\ Counted(waiting_atomic_updates, "atomic_wait")'
             /\ Counted(waiting_exclusive_sections, "exclusive_wait")'
  <2> DEFINE Jump(label) == Cardinality(Waiting(label)') =
             IF pc[t] = target \/ label \notin {pc[t], target}
               THEN Cardinality(Waiting(label))
             ELSE IF label = target THEN Cardinality(Waiting(label)) + 1
             ELSE Cardinality(Waiting(label)) - 1
  <2>1. Jump("atomic_wait") /\ Jump("exclusive_wait")
    BY <1>3, <1>5, WaitingJump
  <2>2. \A label \in {"atomic_wait", "exclusive_wait"} :
           pc[t] = label => Cardinality(Waiting(label)) # 0
    BY <1>3, WaitingCount, FS_EmptySet DEF Waiting
  <2>3. waiting_atomic_updates' = Cardinality(Waiting("atomic_wait")')
    BY <1>1, <1>2, <1>5, <2>1, <2>2 DEF saturating_sub
  <2>4. waiting_exclusive_sections' = Cardinality(Waiting("exclusive_wait")')
    BY <1>1, <1>2, <1>5, <2>1, <2>2 DEF saturating_sub
  <2> QED BY <2>3, <2>4
<1> DEFINE Counts == /\ Counted(waiting_atomic_updates, "atomic_wait")'
                     /\ Counted(waiting_exclusive_sections, "exclusive_wait")'
<1> HIDE DEF Counted
<1> USE DEF gate, Awake
<1>6. ASSUME NEW t \in Threads, Call(t) PROVE Counts
  <2>1. PICK label \in {"write", "atomic", "exclusive"} : Goto(t, label)
    BY <1>6 DEF Call
  <2> QED BY <1>5, <1>6, <2>1 DEF Call, PC
<1>7. ASSUME NEW t \in Threads, begin_write(t) PROVE Counts
  <2>1. CASE WriteWaits(t)
    BY <1>4, <2>1 DEF WriteWaits
  <2>2. CASE WriteRefused(t)
    BY <1>5, <2>2 DEF WriteRefused, PC
  <2>3. CASE WriteGranted(t)
    BY <1>5, <2>3 DEF WriteGranted, PC
  <2> QED BY <1>7, <2>1, <2>2, <2>3 DEF begin_write
<1>8. ASSUME NEW t \in Threads, begin_atomic_update(t) PROVE Counts
  <2>1. CASE AtomicWaits(t)
    BY <1>4, <2>1 DEF AtomicWaits
  <2>2. CASE AtomicRefused(t)
    BY <1>5, <2>2 DEF AtomicRefused, PC
  <2>3. CASE AtomicQueued(t)
    BY <1>5, <2>3 DEF AtomicQueued, PC
  <2>4. CASE AtomicFails(t)
    BY <1>5, <2>4 DEF AtomicFails, PC
  <2>5. CASE AtomicGranted(t)
    BY <1>5, <2>5 DEF AtomicGranted, PC
  <2> QED BY <1>8, <2>1, <2>2, <2>3, <2>4, <2>5 DEF begin_atomic_update
<1>9. ASSUME NEW t \in Threads, begin_exclusive(t) PROVE Counts
  <2>1. CASE ExclusiveWaits(t)
    BY <1>4, <2>1 DEF ExclusiveWaits
  <2>2. CASE ExclusiveRefused(t)
    BY <1>5, <2>2 DEF ExclusiveRefused, PC
  <2>3. CASE ExclusiveQueued(t)
    BY <1>5, <2>3 DEF ExclusiveQueued, PC
  <2>4. CASE ExclusiveFails(t)
    BY <1>5, <2>4 DEF ExclusiveFails, PC
  <2>5. CASE ExclusiveGranted(t)
    BY <1>5, <2>5 DEF ExclusiveGranted, PC
  <2> QED BY <1>9, <2>1, <2>2, <2>3, <2>4, <2>5 DEF begin_exclusive
<1>10. ASSUME NEW t \in Threads, Drop(t) PROVE Counts
  <2>1. UNCHANGED <<pc, waiting_atomic_updates, waiting_exclusive_sections>>
    BY <1>10 DEF Drop, DropOrdinary, DropAtomic, DropExclusive
  <2> QED BY <1>1, <2>1 DEF Waiting, Counted
<1>11. ASSUME NEW t \in Threads, mark_recovery_required(t) PROVE Counts
  BY <1>4, <1>11 DEF mark_recovery_required
<1>12. CASE UNCHANGED vars
  BY <1>4, <1>12 DEF vars
<1> QED BY <1>6, <1>7, <1>8, <1>9, <1>10, <1>11, <1>12 DEF Next, Begin

(* The waiting counts are the lengths of the queues, for any threads.        *)
THEOREM CountsCorrect == Spec => []CountsAreQueues
<1>1. Init => CountsAreQueues
  <2> SUFFICES ASSUME Init PROVE CountsAreQueues
    OBVIOUS
  <2>1. /\ {t \in Threads : pc[t] = "atomic_wait"} = {}
        /\ {t \in Threads : pc[t] = "exclusive_wait"} = {}
    BY DEF Init
  <2> QED BY <2>1, FS_EmptySet DEF Init, CountsAreQueues
<1> QED BY <1>1, CountsStep, TypeCorrect, PTL DEF Spec
-----------------------------------------------------------------------------
(* No hold and wait: a thread that sleeps in the gate, or is counted as       *)
(* waiting there, has no permit that another one could be waiting for.       *)
WaitersHoldNothing ==
    \A t \in Threads :
        t \in sleeping \/ pc[t] \in {"atomic_wait", "exclusive_wait"} => held[t] = {}

(* A call of an owner that would have to wait is one that is refused: what    *)
(* stands in its way can only be its own update.                             *)
LEMMA WaitersStep == IInv /\ WaitersHoldNothing /\ [Next]_vars => WaitersHoldNothing'
<1> SUFFICES ASSUME IInv, WaitersHoldNothing, [Next]_vars PROVE WaitersHoldNothing'
  OBVIOUS
<1> USE ThreadsAssumption DEF IInv, TypeOK, PC, WritePermitKind, OwnersHold, Exclusion, Holds,
      WaitersHoldNothing, gate
<1>1. CASE UNCHANGED vars
  BY <1>1 DEF vars
<1>2. ASSUME NEW t \in Threads, Call(t) PROVE WaitersHoldNothing'
  BY <1>2 DEF Call, Goto
<1>3. ASSUME NEW t \in Threads, WriteWaits(t) PROVE WaitersHoldNothing'
  <2>1. held[t] = {}
    BY <1>3 DEF WriteWaits, WriteBlocked, excluded, Awake
  <2> QED BY <1>3, <2>1 DEF WriteWaits, Wait
<1>4. ASSUME NEW t \in Threads, WriteRefused(t) \/ WriteGranted(t) PROVE WaitersHoldNothing'
  BY <1>4 DEF WriteRefused, WriteGranted, Take, Goto, Awake
<1>5. ASSUME NEW t \in Threads, begin_atomic_update(t) PROVE WaitersHoldNothing'
  <2>1. CASE AtomicQueued(t) \/ AtomicWaits(t)
    <3>1. held[t] = {}
      BY <2>1 DEF AtomicQueued, AtomicWaits, AtomicBlocked, excluded, Awake
    <3> QED BY <2>1, <3>1 DEF AtomicQueued, AtomicWaits, Wait, Goto
  <2>2. CASE AtomicRefused(t) \/ AtomicFails(t) \/ AtomicGranted(t)
    BY <2>2 DEF AtomicRefused, AtomicFails, AtomicGranted, notify_all, Take, Goto, Awake
  <2> QED BY <1>5, <2>1, <2>2 DEF begin_atomic_update
<1>6. ASSUME NEW t \in Threads, begin_exclusive(t) PROVE WaitersHoldNothing'
  <2>1. CASE ExclusiveQueued(t) \/ ExclusiveWaits(t)
    <3>1. held[t] = {}
      BY <2>1 DEF ExclusiveQueued, ExclusiveWaits, Awake
    <3> QED BY <2>1, <3>1 DEF ExclusiveQueued, ExclusiveWaits, Wait, Goto
  <2>2. CASE ExclusiveRefused(t) \/ ExclusiveFails(t) \/ ExclusiveGranted(t)
    BY <2>2 DEF ExclusiveRefused, ExclusiveFails, ExclusiveGranted, notify_all, Take, Goto, Awake
  <2> QED BY <1>6, <2>1, <2>2 DEF begin_exclusive
<1>7. ASSUME NEW t \in Threads, Drop(t) PROVE WaitersHoldNothing'
  BY <1>7 DEF Drop, DropOrdinary, DropAtomic, DropExclusive, Give, notify_all
<1>8. ASSUME NEW t \in Threads, mark_recovery_required(t) PROVE WaitersHoldNothing'
  BY <1>8 DEF mark_recovery_required, notify_all
<1> QED BY <1>1, <1>2, <1>3, <1>4, <1>5, <1>6, <1>7, <1>8 DEF Next, Begin, begin_write

(* No thread waits for another one while it holds what the other one needs,   *)
(* so no cycle of threads waits in the gate.                                 *)
THEOREM NoHoldAndWait == Spec => []WaitersHoldNothing
<1>1. Init => WaitersHoldNothing
  BY DEF Init, WaitersHoldNothing
<1> QED BY <1>1, WaitersStep, Invariance, PTL DEF Spec

(* When threads sleep, one that is awake has a permit to drop, or is inside a *)
(* begin function and will leave it.                                         *)
SomeoneIsAwake ==
    sleeping # {} => \E t \in Threads : t \notin sleeping /\ (held[t] # {} \/ pc[t] # "idle")

(* The gate never has all of its threads asleep: what a sleeper waits for is  *)
(* so, an owner or a writer is awake, and a queue that holds writes back      *)
(* waits for one of those itself.                                            *)
THEOREM NeverAllAsleep == Spec => []SomeoneIsAwake
<1>1. IInv /\ NoLostWakeup /\ WaitersHoldNothing /\ CountsAreQueues => SomeoneIsAwake
  <2> SUFFICES ASSUME IInv, NoLostWakeup, WaitersHoldNothing, CountsAreQueues,
                      NEW s \in sleeping
               PROVE  \E t \in Threads : t \notin sleeping /\ (held[t] # {} \/ pc[t] # "idle")
    BY DEF SomeoneIsAwake
  <2> USE ThreadsAssumption DEF IInv, TypeOK
  <2>1. ASSUME NEW t \in Threads, held[t] # {} PROVE t \notin sleeping
    BY <2>1 DEF WaitersHoldNothing
  <2>2. CASE atomic_owner # None \/ exclusive_owner # None \/ active_writes > 0
    <3>1. PICK t \in Threads : held[t] # {}
      BY <2>2 DEF OwnersHold
    <3> QED BY <2>1, <3>1
  <2>3. CASE atomic_owner = None /\ exclusive_owner = None /\ ~(active_writes > 0)
    <3>1. pc[s] = "write" /\ (waiting_atomic_updates > 0 \/ waiting_exclusive_sections > 0)
      BY <2>3 DEF NoLostWakeup, WriteBlocked, AtomicBlocked, ExclusiveBlocked, excluded
    <3>2. PICK t \in Threads : pc[t] \in {"atomic_wait", "exclusive_wait"}
      <4>1. Cardinality({}) = 0
        BY FS_EmptySet
      <4>2. Cardinality(Waiting("atomic_wait")) # 0 \/ Cardinality(Waiting("exclusive_wait")) # 0
        BY <3>1 DEF CountsAreQueues, Waiting
      <4>3. Waiting("atomic_wait") # {} \/ Waiting("exclusive_wait") # {}
        BY <4>1, <4>2
      <4> QED BY <4>3 DEF Waiting
    <3>3. t \notin sleeping
      BY <2>3, <3>2 DEF NoLostWakeup, AtomicBlocked, ExclusiveBlocked, excluded
    <3> QED BY <3>2, <3>3
  <2> QED BY <2>2, <2>3
<1> QED BY <1>1, Invariance, WakeupsKept, NoHoldAndWait, CountsCorrect, PTL
-----------------------------------------------------------------------------
(* The writer of the refinement mapping, read off the owner fields.          *)
WriterFacts ==
    /\ \A t \in Threads : (Writer = t) <=> (Holds(t, "Ordinary") \/ Holds(t, "Atomic"))
    /\ (Writer = None) <=> (active_writes = 0 /\ atomic_owner = None)
    /\ Writer \in Threads \cup {None}

(* These facts follow from the invariant. *)
LEMMA WriterIs == IInv => WriterFacts
<1> SUFFICES ASSUME IInv PROVE WriterFacts
  BY DEF WriterFacts
<1> USE ThreadsAssumption DEF IInv, TypeOK, OwnersHold, Exclusion, Holds
<1>1. \A t, u \in Writers : t = u
  BY DEF Writers
<1>2. Writers # {} => Writer \in Writers
  BY DEF Writer
<1>3. Writers = {} => Writer = None
  BY DEF Writer
<1>4. \A t \in Threads : t \in Writers <=> Holds(t, "Ordinary") \/ Holds(t, "Atomic")
  BY DEF Writers
<1>5. Writers \subseteq Threads
  BY DEF Writers
<1>6. Writers = {} <=> active_writes = 0 /\ atomic_owner = None
  BY <1>4, <1>5
<1> HIDE DEF IInv, TypeOK, OwnersHold, Exclusion, Holds
<1> QED BY <1>1, <1>2, <1>3, <1>4, <1>5, <1>6 DEF WriterFacts

(* Likewise after a step. *)
LEMMA WriterIsAfter == IInv' => WriterFacts'
BY WriterIs, PTL

(* Every step of the gate is a step of WriteSections, or leaves it alone. *)
LEMMA SectionsStep ==
    IInv /\ IInv' /\ [Next]_vars => [Sections!Next]_(Sections!vars)
<1> SUFFICES ASSUME IInv, IInv', [Next]_vars PROVE [Sections!Next]_(Sections!vars)
  OBVIOUS
<1> USE ThreadsAssumption DEF gate
<1>1. WriterFacts
  BY WriterIs
<1>2. WriterFacts'
  BY WriterIsAfter
<1>3. held \in [Threads -> SUBSET WritePermitKind]
  BY DEF IInv, TypeOK
<1>4. /\ \A t \in Threads : Holds(t, "Exclusive") <=> exclusive_owner = t
      /\ \A t \in Threads : Holds(t, "Atomic") <=> atomic_owner = t
      /\ active_writes \in Nat /\ (active_writes > 0 <=> \E t \in Threads : Holds(t, "Ordinary"))
  BY DEF IInv, TypeOK, OwnersHold, Holds
<1>5. ASSUME UNCHANGED <<atomic_owner, exclusive_owner, active_writes, recovery_required, held>>
      PROVE  UNCHANGED Sections!vars
  BY <1>5, <1>1, <1>2 DEF Sections!vars, WriterFacts, Holds
<1>6. ASSUME NEW t \in Threads, WriteGranted(t) \/ AtomicGranted(t)
      PROVE  Sections!StartWrite(t)
  <2>1. ~recovery_required /\ exclusive_owner \in {None, t} /\ atomic_owner = None /\ active_writes = 0
    BY <1>4, <1>6 DEF WriteGranted, AtomicGranted, WriteBlocked, AtomicBlocked, excluded
  <2>2. Holds(t, "Ordinary")' \/ Holds(t, "Atomic")'
    BY <1>3, <1>6 DEF WriteGranted, AtomicGranted, Take, Holds
  <2>3. UNCHANGED <<exclusive_owner, recovery_required>>
    BY <1>6 DEF WriteGranted, AtomicGranted
  <2> QED BY <1>1, <1>2, <2>1, <2>2, <2>3 DEF Sections!StartWrite, WriterFacts
<1>7. ASSUME NEW t \in Threads, DropOrdinary(t) \/ DropAtomic(t)
      PROVE  Sections!EndWrite(t)
  <2>1. Holds(t, "Ordinary") \/ Holds(t, "Atomic")
    BY <1>7 DEF DropOrdinary, DropAtomic, Holds
  <2>2. active_writes' = 0 /\ atomic_owner' = None
    BY <1>4, <1>7 DEF DropOrdinary, DropAtomic, IInv, TypeOK, OwnersHold, Exclusion, Holds, saturating_sub
  <2>3. UNCHANGED <<exclusive_owner, recovery_required>>
    BY <1>7 DEF DropOrdinary, DropAtomic
  <2> QED BY <1>1, <1>2, <2>1, <2>2, <2>3 DEF Sections!EndWrite, WriterFacts
<1>8. ASSUME NEW t \in Threads, ExclusiveGranted(t) PROVE Sections!StartSection(t)
  <2>1. ~recovery_required /\ exclusive_owner = None /\ atomic_owner = None /\ active_writes = 0
    BY <1>4, <1>8 DEF ExclusiveGranted, ExclusiveBlocked
  <2>2. UNCHANGED <<active_writes, atomic_owner, recovery_required>> /\ exclusive_owner' = t
    BY <1>8 DEF ExclusiveGranted
  <2> QED BY <1>1, <1>2, <2>1, <2>2 DEF Sections!StartSection, WriterFacts
<1>9. ASSUME NEW t \in Threads, DropExclusive(t) PROVE Sections!EndSection(t)
  <2>1. exclusive_owner = t /\ Writer # t
    BY <1>1, <1>4, <1>9 DEF DropExclusive, WriterFacts, Holds
  <2>2. UNCHANGED <<active_writes, atomic_owner, recovery_required>> /\ exclusive_owner' = None
    BY <1>9 DEF DropExclusive
  <2>3. \A u \in Threads : /\ (Holds(u, "Ordinary")' <=> Holds(u, "Ordinary"))
                           /\ (Holds(u, "Atomic")' <=> Holds(u, "Atomic"))
    BY <1>3, <1>9 DEF DropExclusive, Give, Holds
  <2>4. Writer' = Writer
    BY <1>1, <1>2, <2>2, <2>3 DEF WriterFacts
  <2> QED BY <2>1, <2>2, <2>4 DEF Sections!EndSection
<1>10. ASSUME NEW t \in Threads, mark_recovery_required(t) PROVE Sections!Close
  <2>1. recovery_required' /\ UNCHANGED <<gate, held>>
    BY <1>10 DEF mark_recovery_required
  <2>2. Writer' = Writer
    BY <1>1, <1>2, <2>1 DEF WriterFacts, Holds
  <2>3. recovery_required' = TRUE /\ UNCHANGED exclusive_owner
    BY <1>10 DEF mark_recovery_required
  <2> QED BY <2>2, <2>3 DEF Sections!Close
<1>11. CASE UNCHANGED vars
  BY <1>5, <1>11 DEF vars
<1>12. ASSUME NEW t \in Threads, Call(t) PROVE UNCHANGED Sections!vars
  BY <1>5, <1>12 DEF Call
<1>13. ASSUME NEW t \in Threads, Begin(t)
       PROVE  Sections!Next \/ UNCHANGED Sections!vars
  <2>1. CASE WriteGranted(t) \/ AtomicGranted(t)
    BY <1>6, <2>1 DEF Sections!Next
  <2>2. CASE ExclusiveGranted(t)
    BY <1>8, <2>2 DEF Sections!Next
  <2>3. CASE WriteRefused(t) \/ WriteWaits(t)
    BY <1>5, <2>3 DEF WriteRefused, WriteWaits
  <2>4. CASE AtomicRefused(t) \/ AtomicQueued(t) \/ AtomicWaits(t) \/ AtomicFails(t)
    BY <1>5, <2>4 DEF AtomicRefused, AtomicQueued, AtomicWaits, AtomicFails
  <2>5. CASE ExclusiveRefused(t) \/ ExclusiveQueued(t) \/ ExclusiveWaits(t) \/ ExclusiveFails(t)
    BY <1>5, <2>5 DEF ExclusiveRefused, ExclusiveQueued, ExclusiveWaits, ExclusiveFails
  <2> QED BY <1>13, <2>1, <2>2, <2>3, <2>4, <2>5
        DEF Begin, begin_write, begin_atomic_update, begin_exclusive
<1> QED BY <1>7, <1>9, <1>10, <1>11, <1>12, <1>13 DEF Next, Drop, Sections!Next

(* The write gate, for any number of threads, implements WriteSections: one  *)
(* writer, isolated sections, and nothing granted once recovery is required. *)
THEOREM GateImplementsSections == Spec => ImplementsSections
<1>1. Init => Sections!Init
  BY DEF Init, Sections!Init, Writer, Writers
<1> QED BY <1>1, SectionsStep, Invariance, PTL DEF Spec, ImplementsSections, Sections!Spec
=============================================================================
