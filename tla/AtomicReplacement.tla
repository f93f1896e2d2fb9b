-------------------------- MODULE AtomicReplacement --------------------------
(* What a replacement of several collections promises: the tables change all  *)
(* together, to what was asked for, or not at all.  A power loss returns to   *)
(* the tables as they last became durable; where a sync waits for the disk,   *)
(* the ones before the last replacement at worst.                            *)
CONSTANTS Cols,      \* collections
          Contents,  \* what a collection's file may hold
          Absent,    \* there is no such file
          Syncs      \* a replacement waits until the one before is durable

Tables == [Cols -> Contents \cup {Absent}]

VARIABLES table,     \* the content of every collection
          kept,      \* what a power loss returns it to
          request    \* what the last replacement asks for

Init == /\ table \in Tables
        /\ kept = table
        /\ request = table

Ask ==
    /\ request' \in Tables
    /\ UNCHANGED <<table, kept>>

Replace ==
    /\ Syncs => kept = table
    /\ table' = request
    /\ UNCHANGED <<kept, request>>

MadeDurable ==
    /\ kept' = table
    /\ UNCHANGED <<table, request>>

TakenBack ==
    /\ table' = kept
    /\ UNCHANGED <<kept, request>>

Next == Ask \/ Replace \/ MadeDurable \/ TakenBack

Spec == Init /\ [][Next]_<<table, kept, request>>
=============================================================================
