--------------------------- MODULE WriteSections ---------------------------
(* What the storage write gate promises to the rest of the storage crate,   *)
(* without its counters and its queue: at most one thread mutates the       *)
(* collections at a time, a section reserves mutation for its owner, and a   *)
(* store that is closed for recovery grants nothing any more.               *)
CONSTANTS Threads,  \* the threads of the process
          None      \* stands for Option::None

VARIABLES writer,   \* the thread allowed to mutate collections, or None
          section,  \* the thread whose exclusive section is open, or None
          closed    \* recovery is required: nothing is granted any more

vars == <<writer, section, closed>>

Init == writer = None /\ section = None /\ closed \in BOOLEAN

StartWrite(t) ==
    /\ ~closed /\ writer = None /\ section \in {None, t}
    /\ writer' = t
    /\ UNCHANGED <<section, closed>>

EndWrite(t) ==
    /\ writer = t
    /\ writer' = None
    /\ UNCHANGED <<section, closed>>

StartSection(t) ==
    /\ ~closed /\ writer = None /\ section = None
    /\ section' = t
    /\ UNCHANGED <<writer, closed>>

EndSection(t) ==
    /\ section = t /\ writer # t
    /\ section' = None
    /\ UNCHANGED <<writer, closed>>

Close ==
    /\ closed' = TRUE
    /\ UNCHANGED <<writer, section>>

Next == \/ \E t \in Threads : \/ StartWrite(t) \/ EndWrite(t)
                              \/ StartSection(t) \/ EndSection(t)
        \/ Close

Spec == Init /\ [][Next]_vars
============================================================================
