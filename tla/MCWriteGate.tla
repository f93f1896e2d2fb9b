---------------------------- MODULE MCWriteGate ----------------------------
(* WriteGate for TLC: three threads suffice for one owner and two different  *)
(* kinds of waiters, the most a wakeup has to choose between.                *)
EXTENDS WriteGate

CONSTANTS t1, t2, t3

ThreeThreads == {t1, t2, t3}
============================================================================
