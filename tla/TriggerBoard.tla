---------------------------- MODULE TriggerBoard ----------------------------
(* What a background-job queue promises about triggers (the header of         *)
(* commands/storage/background_jobs.rs): the latest trigger of a key stays    *)
(* "fresh" until a run takes its payload; only a taken one is ever settled.   *)
CONSTANTS Keys, Payloads, None
VARIABLE board      \* for each key, its latest trigger

Nothing == [state |-> "none", payload |-> None]
Posts   == [state : {"fresh", "taken", "failed"}, payload : Payloads] \cup {Nothing}

Init == board = [k \in Keys |-> Nothing]

Trigger(k, p) == board' = [board EXCEPT ![k] = [state |-> "fresh", payload |-> p]]

Take(k) ==
    /\ board[k].state = "fresh"
    /\ board' = [board EXCEPT ![k].state = "taken"]

Settle(k) ==
    /\ board[k].state = "taken"
    /\ \/ board' = [board EXCEPT ![k] = Nothing]
       \/ board' = [board EXCEPT ![k].state = "failed"]

Next == \E k \in Keys :
            Take(k) \/ Settle(k) \/ \E p \in Payloads : Trigger(k, p)

Spec == Init /\ [][Next]_board
=============================================================================
