------------------------- MODULE ContinuityDirector -------------------------
(* The Continuity Director of one chat (engine/modes/roleplay/continuity-     *)
(* director): its state in the chat's metadata, the planner that refreshes    *)
(* the plan with a model call, the scheduler that starts refreshes by itself, *)
(* and the user, in several tabs.  Every write of the state is a conditional  *)
(* write of the whole value (chat_update_if_unchanged), and nothing holds a   *)
(* lock: a run reads, writes its claim over what it read, calls the model,    *)
(* reads again and writes the plan over what it read.                        *)
(*                                                                           *)
(* The durable queue is the one of BackgroundJobs, seen from here: one job,   *)
(* claimed by one tab, and by another when the lease has lapsed.  Time is the *)
(* order of events; a pending attempt may be over ABANDONED_PLANNING_ATTEMPT_MS *)
(* old whenever a decision looks at it.  A definition named Faulty_... is a   *)
(* variant with a bug, for the mutation runs only.                           *)
EXTENDS Naturals

CONSTANTS Tabs,              \* page loads
          Askers,            \* bound: the tabs where the user asks for plans
          CADENCE,           \* refreshEveryAssistantTurns
          MAX_ATTEMPTS,      \* of a background job
          MaxRevision,       \* bound: see Trouble
          EditedAt,          \* bound: the revisions at which the user gives a command
          MaxVersion,        \* bound: versions of the story
          None               \* null, no one

ASSUME NoneAssumption == None \notin Tabs
ASSUME AskersAssumption == Askers \subseteq Tabs
ASSUME CadenceAssumption == CADENCE \in Nat \ {0}
ASSUME AttemptsAssumption == MAX_ATTEMPTS \in Nat \ {0}
ASSUME BoundsAssumption == MaxRevision \in Nat /\ MaxVersion \in Nat

VARIABLES
    director,   \* metadata.roleplayContinuityDirector of the stored chat
    claimant,   \* auxiliary: the tab whose claim is the last write, until it is lost
    story,      \* what loadContinuityDirectorSource reads beside it
    job,        \* the chat's job in the continuity-director queue
    open,       \* which tabs are open
    next,       \* nextTrigger of each tab's own queue (runInThisTab)
    caller,     \* who asks for a refresh in each tab
    run         \* the planner's run of each tab: its entry in pendingRefreshes

vars == <<director, claimant, story, job, open, next, caller, run>>

Modes == {"manual", "scene_events", "cadence"}
Triggers == {"scene_event", "assistant_saved"}

(* revision is raised by every write.  authored stands for what the user      *)
(* wrote or settled in arc, threads and beats; plan, the sourceSnapshot, for  *)
(* what the Director proposes: version 0 is null.                            *)
Plan == [version : Nat, turns : Nat]
NoPlan == [version |-> 0, turns |-> 0]
Director == [revision : Nat, enabled : BOOLEAN, mode : Modes, authored : Nat, plan : Plan,
             attempt : {"none", "pending", "failed"}, attemptTurns : Nat \cup {None}]

Job == [status : {"none", "queued", "running"}, trigger : Triggers \cup {None},
        rerun : Triggers \cup {None}, attempts : 0 .. MAX_ATTEMPTS + 1, by : Tabs \cup {None}]
NoJob == [status |-> "none", trigger |-> None, rerun |-> None, attempts |-> 0, by |-> None]

(* "queue": the run of a claimed job; "tab": drain, when the runtime could    *)
(* not store the job; "user": a refresh, reroll or first plan from the UI.    *)
(* seen: the state a decision is taken from, or the one a first plan expects. *)
Callers == {"queue", "tab", "user"}
Keys == {"refresh", "reroll", "initial"}
Caller == [at : {"none", "chat", "source", "wait", "joined"}, trigger : Triggers \cup {None},
           again : BOOLEAN, key : Keys, seen : Director \cup {None}]
Idle == [at |-> "none", trigger |-> None, again |-> FALSE, key |-> "refresh", seen |-> None]

(* base: the value the run's next conditional write expects to find. *)
Run == [at : {"none", "chat", "source", "claim", "model", "save"},
        key : Keys, base : Director \cup {None}, plan : Plan]
NoRun == [at |-> "none", key |-> "refresh", base |-> None, plan |-> NoPlan]

TypeOK ==
    /\ director \in Director
    /\ claimant \in Tabs \cup {None}
    /\ story \in Plan
    /\ job \in Job
    /\ open \in [Tabs -> BOOLEAN]
    /\ next \in [Tabs -> Triggers \cup {None}]
    /\ caller \in [Tabs -> [Callers -> Caller]]
    /\ run \in [Tabs -> Run]

(* A chat to which a workflow profile has just given a Director; revisions     *)
(* count from there.                                                         *)
Init ==
    /\ director \in {[revision |-> 0, enabled |-> TRUE, mode |-> m, authored |-> 0,
                      plan |-> NoPlan, attempt |-> "none", attemptTurns |-> None]
                     : m \in {"scene_events", "cadence"}}
    /\ claimant = None
    /\ story = [version |-> 1, turns |-> 0]
    /\ job = NoJob
    /\ open = [t \in Tabs |-> TRUE]
    /\ next = [t \in Tabs |-> None]
    /\ caller = [t \in Tabs |-> [c \in Callers |-> Idle]]
    /\ run = [t \in Tabs |-> NoRun]
----------------------------------------------------------------------------
(* continuity-director-state.ts: the states one write makes of another. *)
Attempted(d, turns) ==
    [d EXCEPT !.revision = @ + 1, !.attempt = "pending", !.attemptTurns = turns]

Failed(d) == [d EXCEPT !.revision = @ + 1, !.attempt = "failed"]

(* replace_director_proposals or reroll_beat, the claim's marks dropped.  The  *)
(* first keeps what is the user's; the second settles the beat it replaces,   *)
(* and where there are retainedBeats of them it drops another one, decided or *)
(* edited by the user or not.                                                *)
Planned(key, d, plan) ==
    {[d EXCEPT !.revision = @ + 1, !.plan = plan, !.attempt = "none", !.authored = authored]
     : authored \in {d.authored} \cup IF key = "reroll" THEN {d.authored + 1} ELSE {}}

(* applyContinuityDirectorCommand and applyContinuityDirectorConfiguration. *)
Commanded(d) ==
    {[d EXCEPT !.revision = @ + 1, !.enabled = ~@]}
    \cup {[d EXCEPT !.revision = @ + 1, !.mode = m] : m \in Modes}
    \cup {[d EXCEPT !.revision = @ + 1, !.authored = @ + 1]}

(* Bound: from MaxRevision on the user asks for no more plans, no lease of an *)
(* open tab lapses and no report of a job is lost.                            *)
Trouble == director.revision < MaxRevision

(* The user's command reads the state and writes it back conditionally: it     *)
(* takes effect only if nothing came between, so it is one step.              *)
Command ==
    /\ director.revision \in EditedAt
    /\ director' \in Commanded(director)
    /\ claimant' = None
    /\ UNCHANGED <<story, job, open, next, caller, run>>
----------------------------------------------------------------------------
(* enqueue in the runtime: a running job is to run again. *)
Enqueued(trigger) ==
    IF job.status = "running" THEN [job EXCEPT !.rerun = trigger]
    ELSE [NoJob EXCEPT !.status = "queued", !.trigger = trigger]

(* scheduleDurably, and a turn's hold and its release: the runtime stores the *)
(* job, or this tab runs it.                                                 *)
Schedule(t, trigger) ==
    \/ job' = Enqueued(trigger) /\ UNCHANGED next
    \/ next' = [next EXCEPT ![t] = trigger] /\ UNCHANGED job

(* A reply is saved.  The turn has stored its job before, with a hold that     *)
(* keeps it back until now; only a cadence Director is asked.                 *)
AssistantSaved(t) ==
    /\ open[t] /\ story.version < MaxVersion
    /\ story' = [version |-> story.version + 1, turns |-> story.turns + 1]
    /\ IF director.enabled /\ director.mode = "cadence"
       THEN Schedule(t, "assistant_saved")
       ELSE UNCHANGED <<job, next>>
    /\ UNCHANGED <<director, claimant, open, caller, run>>

(* A scene is created or concluded. *)
SceneEvent(t) ==
    /\ open[t] /\ story.version < MaxVersion
    /\ story' = [story EXCEPT !.version = @ + 1]
    /\ Schedule(t, "scene_event")
    /\ UNCHANGED <<director, claimant, open, caller, run>>
----------------------------------------------------------------------------
(* A tab claims the job: a queued one, one its own earlier run did not         *)
(* finish, or one whose runner's lease has lapsed.                           *)
Faulty_Counted(n) == n + 1
Counted(n) == IF n > MAX_ATTEMPTS THEN n ELSE n + 1

Claimable(t) ==
    \/ job.status = "queued"
    \/ /\ job.status = "running"
       /\ job.by = t \/ ~open[job.by] \/ Trouble

ClaimJob(t) ==
    /\ open[t] /\ caller[t]["queue"].at = "none" /\ Claimable(t)
    /\ job' = [job EXCEPT !.status = "running", !.attempts = Counted(@), !.by = t]
    /\ caller' = [caller EXCEPT ![t]["queue"] =
                     [Idle EXCEPT !.at = "chat", !.trigger = job.trigger,
                                  !.again = job.attempts > 0]]
    /\ UNCHANGED <<director, claimant, story, open, next, run>>

(* runInThisTab's drain takes the trigger that came last. *)
DrainNext(t) ==
    /\ open[t] /\ caller[t]["tab"].at = "none" /\ next[t] # None
    /\ caller' = [caller EXCEPT ![t]["tab"] = [Idle EXCEPT !.at = "chat", !.trigger = next[t]]]
    /\ next' = [next EXCEPT ![t] = None]
    /\ UNCHANGED <<director, claimant, story, job, open, run>>

Finished(outcome) ==
    IF job.rerun # None THEN [NoJob EXCEPT !.status = "queued", !.trigger = job.rerun]
    ELSE IF outcome = "retry" /\ job.attempts < MAX_ATTEMPTS
         THEN [job EXCEPT !.status = "queued", !.by = None]
         ELSE NoJob

(* finish: refused when another tab has claimed the job; the request may fail. *)
Reported(t, outcome) ==
    IF job.status # "running" \/ job.by # t THEN {job}
    ELSE {Finished(outcome)} \cup IF Trouble THEN {job} ELSE {}

RunOneEnds(t, c, outcome) ==
    /\ caller' = [caller EXCEPT ![t][c] = Idle]
    /\ job' \in IF c = "queue" THEN Reported(t, outcome) ELSE {job}
    /\ UNCHANGED <<director, claimant, story, open, next, run>>

(* runOne reads the chat, then its messages.  A first read of the chat, which  *)
(* only skips what the decision on it would skip, is part of this one.        *)
ReadChatToDecide(t, c) ==
    /\ open[t] /\ caller[t][c].at = "chat"
    /\ caller' = [caller EXCEPT ![t][c].at = "source", ![t][c].seen = director]
    /\ UNCHANGED <<director, claimant, story, job, open, next, run>>

(* decideContinuityDirectorRefresh. *)
Matches(d, trigger) ==
    /\ d.enabled
    /\ \/ d.mode = "scene_events" /\ trigger = "scene_event"
       \/ d.mode = "cadence" /\ trigger = "assistant_saved"

Baselines(d, abandoned) ==
    (IF d.plan = NoPlan THEN {} ELSE {d.plan.turns})
    \cup (IF abandoned \/ d.attemptTurns = None THEN {} ELSE {d.attemptTurns})

Due(d, trigger, abandoned) ==
    /\ Matches(d, trigger)
    /\ IF d.mode = "scene_events" THEN d.plan.version # story.version
       ELSE \A turns \in Baselines(d, abandoned) : story.turns >= turns + CADENCE

(* attemptWasAbandoned: by an earlier run of the job, or long ago. *)
Abandoned(d, again) ==
    IF d.attempt # "pending" THEN {FALSE} ELSE IF again THEN {TRUE} ELSE BOOLEAN

Decide(t, c) ==
    LET asks == caller[t][c]
    IN /\ open[t] /\ asks.at = "source"
       /\ \E abandoned \in Abandoned(asks.seen, asks.again) :
             IF Due(asks.seen, asks.trigger, abandoned)
             THEN /\ caller' = [caller EXCEPT ![t][c] = [Idle EXCEPT !.at = "wait"]]
                  /\ UNCHANGED <<director, claimant, story, job, open, next, run>>
             ELSE RunOneEnds(t, c, "done")

(* The chat or its messages cannot be read. *)
SourceFails(t, c) ==
    /\ open[t] /\ caller[t][c].at \in {"chat", "source"}
    /\ RunOneEnds(t, c, "retry")
----------------------------------------------------------------------------
(* The user asks for a plan, for another beat, or for the first plan of the   *)
(* Director a workflow has just enabled.                                     *)
UserAsks(t, key) ==
    /\ open[t] /\ t \in Askers /\ caller[t]["user"].at = "none"
    /\ Trouble
    /\ key = "reroll" => director.plan # NoPlan
    /\ caller' = [caller EXCEPT ![t]["user"] =
                     [Idle EXCEPT !.at = "wait", !.key = key,
                                  !.seen = IF key = "initial" THEN director ELSE None]]
    /\ UNCHANGED <<director, claimant, story, job, open, next, run>>

(* refreshContinuityDirectorPlan: a call starts the tab's run, joins one with  *)
(* its own operation key, or waits for the end of another and calls again.    *)
Call(t, c) ==
    LET asks == caller[t][c]
    IN /\ open[t] /\ asks.at = "wait"
       /\ \/ /\ run[t].at = "none"
             /\ run' = [run EXCEPT ![t] = [NoRun EXCEPT !.at = "chat", !.key = asks.key,
                                                        !.base = asks.seen]]
          \/ /\ run[t].at # "none" /\ run[t].key = asks.key
             /\ UNCHANGED run
       /\ caller' = [caller EXCEPT ![t][c] = [Idle EXCEPT !.at = "joined"]]
       /\ UNCHANGED <<director, claimant, story, job, open, next>>
----------------------------------------------------------------------------
(* The end of a run: its entry is deleted and its callers get the result.  A   *)
(* refresh that failed is done for the queue, too.                            *)
Faulty_Settled(t) == [run EXCEPT ![t] = [@ EXCEPT !.at = "model", !.base = None]]
Settled(t) == [run EXCEPT ![t] = NoRun]

RunEnds(t) ==
    /\ run' = Settled(t)
    /\ caller' = [caller EXCEPT ![t] =
                     [c \in Callers |-> IF @[c].at = "joined" THEN Idle ELSE @[c]]]
    /\ job' \in IF caller[t]["queue"].at = "joined" THEN Reported(t, "done") ELSE {job}

RunGoesOn(t, at, base) ==
    /\ run' = [run EXCEPT ![t].at = at, ![t].base = base]
    /\ UNCHANGED <<caller, job>>

(* What runRefresh refuses before its claim. *)
Refused(key, d) ==
    \/ ~d.enabled
    \/ key = "initial" /\ (d.plan # NoPlan \/ d.authored > 0)
    \/ key = "reroll" /\ d.plan = NoPlan

(* loadContinuityDirectorSource reads the chat first and then the messages.    *)
(* A beat to reroll may be gone.                                             *)
ReadChat(t) ==
    LET d == IF run[t].key = "initial" THEN run[t].base ELSE director
    IN /\ open[t] /\ run[t].at = "chat"
       /\ \/ ~Refused(run[t].key, d) /\ RunGoesOn(t, "source", d)
          \/ (Refused(run[t].key, d) \/ run[t].key = "reroll") /\ RunEnds(t)
       /\ UNCHANGED <<director, claimant, story, open, next>>

ReadSource(t) ==
    /\ open[t] /\ run[t].at = "source"
    /\ run' = [run EXCEPT ![t].at = "claim", ![t].plan = story]
    /\ UNCHANGED <<director, claimant, story, job, open, next, caller>>

(* The source or the connection cannot be read, or the claim is not written.   *)
FailsUnclaimed(t) ==
    /\ open[t] /\ run[t].at \in {"chat", "source", "claim"}
    /\ RunEnds(t)
    /\ UNCHANGED <<director, claimant, story, open, next>>

(* persistDirectorIfUnchanged: the state is still what the run read. *)
Faulty_Unchanged(t) == TRUE
Unchanged(t) == director = run[t].base

(* The claim of a run.  Without an answer the run ends and does not know that  *)
(* its attempt is recorded.                                                  *)
Claim(t) ==
    LET attempted == Attempted(run[t].base, run[t].plan.turns)
    IN /\ open[t] /\ run[t].at = "claim"
       /\ IF Unchanged(t)
          THEN /\ director' = attempted
               /\ \/ claimant' = t /\ RunGoesOn(t, "model", attempted)
                  \/ claimant' = None /\ RunEnds(t)
          ELSE RunEnds(t) /\ UNCHANGED <<director, claimant>>
       /\ UNCHANGED <<story, open, next>>

(* The failure of a claimed run is recorded over its own claim only; if that   *)
(* write fails the attempt stays pending.                                    *)
Faulty_FailureRecorded(t) == UNCHANGED <<director, claimant>>
FailureRecorded(t) ==
    IF Unchanged(t) THEN claimant' = None /\ director' \in {director, Failed(run[t].base)}
                    ELSE UNCHANGED <<director, claimant>>

(* The model's answer cannot be used or does not come in time, or the chat     *)
(* cannot be read or written any more: runRefreshSettlingFailures.            *)
FailsClaimed(t) ==
    /\ open[t] /\ run[t].at \in {"model", "save"}
    /\ FailureRecorded(t)
    /\ RunEnds(t)
    /\ UNCHANGED <<story, open, next>>

(* samePlanningAuthorization. *)
Faulty_Authorized(t) == director.enabled
Authorized(t) == director.enabled /\ director = run[t].base

(* The model has answered: is the state still the one the plan was claimed for? *)
ReadCurrent(t) ==
    /\ open[t] /\ run[t].at = "model"
    /\ IF Authorized(t) THEN RunGoesOn(t, "save", director) /\ UNCHANGED <<director, claimant>>
                        ELSE FailureRecorded(t) /\ RunEnds(t)
    /\ UNCHANGED <<story, open, next>>

(* The plan is saved; a run that gets no answer has nothing to record either. *)
Save(t) ==
    /\ open[t] /\ run[t].at = "save"
    /\ IF Unchanged(t)
       THEN director' \in Planned(run[t].key, run[t].base, run[t].plan) /\ claimant' = None
       ELSE UNCHANGED <<director, claimant>>
    /\ RunEnds(t)
    /\ UNCHANGED <<story, open, next>>
----------------------------------------------------------------------------
(* A tab is closed or reloaded: all that runs in it is gone. *)
Close(t) ==
    /\ open[t] /\ \E u \in Tabs \ {t} : open[u]
    /\ open' = [open EXCEPT ![t] = FALSE]
    /\ claimant' = IF claimant = t THEN None ELSE claimant
    /\ next' = [next EXCEPT ![t] = None]
    /\ caller' = [caller EXCEPT ![t] = [c \in Callers |-> Idle]]
    /\ run' = [run EXCEPT ![t] = NoRun]
    /\ UNCHANGED <<director, story, job>>

RunOne(t, c) == ReadChatToDecide(t, c) \/ Decide(t, c)

RunRefresh(t) == \/ ReadChat(t) \/ ReadSource(t) \/ Claim(t) \/ ReadCurrent(t) \/ Save(t)
                 \/ FailsUnclaimed(t) \/ FailsClaimed(t)

Next ==
    \/ Command
    \/ \E t \in Tabs :
          \/ AssistantSaved(t) \/ SceneEvent(t)
          \/ \E key \in Keys : UserAsks(t, key)
          \/ ClaimJob(t) \/ DrainNext(t)
          \/ \E c \in {"queue", "tab"} : RunOne(t, c) \/ SourceFails(t, c)
          \/ \E c \in Callers : Call(t, c)
          \/ RunRefresh(t) \/ Close(t)

Spec == Init /\ [][Next]_vars

(* Requests are answered, the model answers or its timeout fires, and the      *)
(* continuation of a waiting call runs as soon as the run it waits for ends.  *)
Fairness ==
    \A t \in Tabs : WF_vars(RunRefresh(t)) /\ SF_vars(Call(t, "user"))

FairSpec == Spec /\ Fairness
----------------------------------------------------------------------------
(* An attempt that is marked pending, was not superseded and lost neither its  *)
(* tab nor an answer is at work in that tab, and its next write will find it. *)
Claimed == {"model", "save"}
PendingIsAtWork ==
    claimant # None =>
        /\ director.attempt = "pending" /\ director.enabled
        /\ open[claimant]
        /\ run[claimant].at \in Claimed /\ run[claimant].base = director

(* Only commands, and the reroll of a beat that the user asked for, change     *)
(* what the user wrote or settled, and only the tab whose claim is the last   *)
(* write brings a plan, while the Director is enabled: a plan or a failure    *)
(* never replaces a state its run has not seen.                              *)
Rerolling == claimant # None /\ run[claimant].key = "reroll"

Board == INSTANCE PlanBoard WITH enabled <- director.enabled, authored <- director.authored,
                                 plan <- director.plan.version, reroll <- Rerolling
ImplementsPlanBoard == Board!Spec

(* No plan is replaced by one made from an older story, whichever tabs finish  *)
(* their model calls in whatever order.                                      *)
PlanNeverOlder == [][director'.plan.version >= director.plan.version]_vars

(* A pending attempt is settled or superseded, or its tab or an answer is lost. *)
AttemptsSettle == \A t \in Tabs : claimant = t ~> claimant # t

(* The user's refreshes and rerolls are answered, also those that wait for     *)
(* another operation of the same tab.                                        *)
RequestsAnswered == \A t \in Askers : caller[t]["user"].at = "wait" ~> caller[t]["user"].at = "none"

(* refresh-policy.ts:35: a job is claimed again when its earlier run was cut   *)
(* off, so a pending attempt that the new run finds is nobody's any more.     *)
ResumedAttemptIsAbandoned ==
    [][\A t \in Tabs :
          LET asks == caller[t]["queue"]
          IN (asks.at = "source" /\ asks.again /\ asks.seen = director
                /\ director.attempt = "pending" /\ caller'[t]["queue"].at = "wait")
             => claimant = None]_vars
=============================================================================
