-------------------------- MODULE MCAppendJournal --------------------------
(* AppendJournal for TLC: two collections and two ids.  One id is appended in *)
(* both (a message and its swipe), removed and appended again; the other is   *)
(* the row whose changes must survive.                                       *)
EXTENDS AppendJournal, TLC

CONSTANTS messages, swipes, i1, i2, v1

MCCols   == {messages, swipes}
MCIds    == {i1, i2}
MCValues == {v1}

Entry(i, v) == [NoJournal EXCEPT ![i] = v]
Both(j, k)  == (messages :> j) @@ (swipes :> k)

MCAppends == {Both(Entry(i2, v1), Entry(i2, v1))}
MCUpserts == {Both(Entry(i1, v1), Entry(i1, v1))}
MCChanges == {Entry(i1, NoRow), Entry(i2, NoRow)}
MCReplacements == {Both(Entry(i1, v1), NoJournal)}
=============================================================================
