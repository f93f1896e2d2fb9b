------------------------------ MODULE PlanBoard ------------------------------
(* What the Continuity Director promises to a user whose tabs all plan the    *)
(* same chat: a plan comes only from the tab whose claim is the last thing    *)
(* that happened to it, and only the user changes what the user wrote or      *)
(* settled, by a command or by having a beat rerolled.                       *)
EXTENDS Naturals

CONSTANTS Tabs, None

VARIABLES enabled,    \* the user wants plans
          authored,   \* how often what is the user's has changed
          plan,       \* which version of the story the plan is made from, 0: no plan
          claimant,   \* the tab whose claim nothing has superseded
          reroll      \* its claim is for the reroll of a beat

Init == /\ enabled \in BOOLEAN
        /\ authored \in Nat
        /\ plan \in Nat
        /\ claimant = None
        /\ reroll = FALSE

Superseded == claimant' = None /\ reroll' = FALSE

Command ==
    /\ enabled' \in BOOLEAN
    /\ authored' \in {authored, authored + 1}
    /\ Superseded
    /\ UNCHANGED plan

Claim ==
    /\ enabled
    /\ claimant' \in Tabs
    /\ reroll' \in BOOLEAN
    /\ UNCHANGED <<enabled, authored, plan>>

Plan ==
    /\ enabled /\ claimant \in Tabs
    /\ plan' \in Nat
    /\ authored' \in {authored} \cup IF reroll THEN {authored + 1} ELSE {}
    /\ Superseded
    /\ UNCHANGED enabled

GiveUp ==
    /\ Superseded
    /\ UNCHANGED <<enabled, authored, plan>>

Next == Command \/ Claim \/ Plan \/ GiveUp

Spec == Init /\ [][Next]_<<enabled, authored, plan, claimant, reroll>>
=============================================================================
