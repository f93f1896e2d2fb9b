---------------------------- MODULE GroupedWrites ----------------------------
(* What the storage promises a call that writes rows of several collections:  *)
(* they change all together, once, while the call runs; it is answered "ok"   *)
(* only after they have; when it fails, or the process dies, they have all    *)
(* changed or none.  No other row changes with them, and none at any other    *)
(* time: not in a flush, a recovery, a crash or the start after it.           *)
CONSTANTS Cols,       \* collections
          Ids,        \* record ids
          Values,     \* record contents
          NoRow,      \* no record with that id
          Untouched,  \* the call does not name the record
          NoCall      \* stands for the rows of no call

Tables == [Cols -> [Ids -> Values \cup {NoRow}]]
Calls  == [Cols -> [Ids -> Values \cup {NoRow, Untouched}]] \ {NoCall}

VARIABLES table,      \* the rows of every collection
          call,       \* the rows the running call writes
          written,    \* they are in the table
          reply       \* of the last call

Init == /\ table \in Tables
        /\ call = NoCall
        /\ written = FALSE
        /\ reply = "none"

Result(rows, t) ==
    [c \in Cols |-> [i \in Ids |-> IF rows[c][i] = Untouched THEN t[c][i] ELSE rows[c][i]]]

Begin ==
    /\ call = NoCall
    /\ call' \in Calls
    /\ reply' = "none"
    /\ UNCHANGED <<table, written>>

Write ==
    /\ call # NoCall /\ ~written
    /\ table' = Result(call, table)
    /\ written' = TRUE
    /\ UNCHANGED <<call, reply>>

Succeed ==
    /\ written
    /\ call' = NoCall /\ written' = FALSE
    /\ reply' = "ok"
    /\ UNCHANGED table

(* An error, or the death of the process, which answers nothing. *)
Fail ==
    /\ call # NoCall
    /\ call' = NoCall /\ written' = FALSE
    /\ reply' \in {"none", "error"}
    /\ \/ UNCHANGED table
       \/ ~written /\ table' = Result(call, table)

(* The process dies while no call runs. *)
Restart == call = NoCall /\ reply' = "none" /\ UNCHANGED <<table, call, written>>

Next == Begin \/ Write \/ Succeed \/ Fail \/ Restart

Spec == Init /\ [][Next]_<<table, call, written, reply>>
=============================================================================
