---------------------- MODULE ContinuityDirector_proofs ----------------------
(* Proofs about ContinuityDirector, for any tabs, cadence and bounds.         *)
EXTENDS ContinuityDirector, TLAPS

(* A state of the Director that was stored at some time: no newer than the     *)
(* stored one, its plan from a story no newer than the present one.           *)
Known(d) == d \in Director /\ d.revision <= director.revision /\ d.plan.version <= story.version

SoundCaller(t, c) ==
    caller[t][c].key = "initial" /\ caller[t][c].at = "wait" => Known(caller[t][c].seen)

(* What a run holds: the state it read, a source at least as new as that       *)
(* state's plan, and after its claim a state that is the stored one only as    *)
(* long as the claim is the last write.                                      *)
SoundRun(t) ==
    /\ run[t].at = "chat" /\ run[t].key = "initial" => Known(run[t].base)
    /\ run[t].at \in {"source", "claim", "model", "save"} => Known(run[t].base) /\ run[t].base.enabled
    /\ run[t].at \in {"claim", "model", "save"} =>
          run[t].base.plan.version <= run[t].plan.version /\ run[t].plan.version <= story.version
    /\ run[t].at \in Claimed /\ run[t].base = director => claimant = t

IInv == /\ TypeOK
        /\ PendingIsAtWork
        /\ director.plan.version <= story.version
        /\ \A t \in Tabs, c \in Callers : SoundCaller(t, c)
        /\ \A t \in Tabs : SoundRun(t)

(* What a step may do to the stored state and the claim. *)
Board_vars == <<director.enabled, director.authored, director.plan.version, claimant, Rerolling>>
Advances == director'.plan.version >= director.plan.version
Kept == IInv' /\ [Board!Next]_Board_vars /\ Advances

LEMMA GivingUp ==
    ASSUME claimant' = None, director'.enabled = director.enabled,
           director'.authored = director.authored, director'.plan = director.plan
    PROVE  [Board!Next]_Board_vars
<1>1. Rerolling' = FALSE
  BY Zenon DEF Rerolling
<1>2. Board!Superseded
  BY <1>1 DEF Board!Superseded
<1> QED BY <1>2 DEF Board!Next, Board!GiveUp

LEMMA StandsStill ==
    ASSUME UNCHANGED <<director, claimant>>, claimant # None => run'[claimant].key = run[claimant].key
    PROVE  [Board!Next]_Board_vars
<1>1. Rerolling' = Rerolling
  BY DEF Rerolling
<1> QED BY <1>1 DEF Board_vars
-----------------------------------------------------------------------------
LEMMA JobTypes ==
    ASSUME TypeOK, NEW trigger \in Triggers, NEW t \in Tabs, NEW outcome \in {"done", "retry"}
    PROVE  Enqueued(trigger) \in Job /\ Reported(t, outcome) \subseteq Job
<1>1. NoJob \in Job
  BY AttemptsAssumption DEF NoJob, Job
<1>2. Enqueued(trigger) \in Job
  BY <1>1, AttemptsAssumption DEF TypeOK, Enqueued, NoJob, Job
<1>3. Finished(outcome) \in Job
  BY <1>1, AttemptsAssumption DEF TypeOK, Finished, NoJob, Job
<1> QED BY <1>2, <1>3 DEF Reported, TypeOK

LEMMA IdleTypes == Idle \in Caller /\ NoRun \in Run /\ NoPlan \in Plan
BY DEF Idle, Caller, NoRun, Run, NoPlan, Plan, Keys

(* A state that is stored next, or a story that goes on, makes nothing unknown. *)
LEMMA KnownStays ==
    ASSUME TypeOK, TypeOK', NEW d, Known(d),
           director'.revision >= director.revision, story'.version >= story.version
    PROVE  Known(d)'
BY DEF Known, TypeOK, Director, Plan

(* A step leaves the run of a tab sound that it does not touch, if it writes a *)
(* newer state or takes no claim away from the tab.                           *)
LEMMA OtherRun ==
    ASSUME TypeOK, TypeOK', NEW t \in Tabs, SoundRun(t), run'[t] = run[t],
           story'.version >= story.version,
           \/ director' = director /\ (claimant = t => claimant' = t)
           \/ director'.revision > director.revision
    PROVE  SoundRun(t)'
<1>1. director'.revision >= director.revision
  BY DEF TypeOK, Director
<1>2. \A d : Known(d) => Known(d)'
  BY <1>1, KnownStays
<1>3. run[t].at \in Claimed => Known(run[t].base)
  BY DEF SoundRun, Claimed
<1>4. run[t].at \in Claimed /\ run[t].base = director' => claimant' = t
  BY <1>3 DEF SoundRun, Known, TypeOK, Director, Claimed
<1>5. story.version \in Nat /\ story'.version \in Nat /\ run[t].plan.version \in Nat
  BY DEF TypeOK, Plan, Run
<1> QED BY <1>2, <1>4, <1>5 DEF SoundRun, Claimed

(* The end of a run leaves its tab without one. *)
LEMMA Ended ==
    ASSUME TypeOK, NEW t \in Tabs, RunEnds(t)
    PROVE  /\ run' \in [Tabs -> Run] /\ run'[t] = NoRun
           /\ \A u \in Tabs \ {t} : run'[u] = run[u]
           /\ caller' \in [Tabs -> [Callers -> Caller]]
           /\ \A u \in Tabs, c \in Callers : caller'[u][c] \in {caller[u][c], Idle}
           /\ job' \in Job
<1>1. job' \in Job
  BY JobTypes DEF RunEnds, TypeOK, Triggers
<1>2. run' \in [Tabs -> Run] /\ run'[t] = NoRun /\ \A u \in Tabs \ {t} : run'[u] = run[u]
  BY IdleTypes DEF RunEnds, Settled, TypeOK
<1>3. \A c \in Callers : caller'[t][c] \in {caller[t][c], Idle}
  BY DEF RunEnds, TypeOK
<1>4. \A u \in Tabs \ {t} : caller'[u] = caller[u]
  BY DEF RunEnds, TypeOK
<1>5. caller' \in [Tabs -> [Callers -> Caller]]
  <2> DEFINE new == [c \in Callers |-> IF caller[t][c].at = "joined" THEN Idle ELSE caller[t][c]]
  <2>1. new \in [Callers -> Caller]
    BY IdleTypes DEF TypeOK
  <2>2. caller' = [caller EXCEPT ![t] = new]
    BY DEF RunEnds, TypeOK
  <2> HIDE DEF new
  <2> QED BY <2>1, <2>2 DEF TypeOK
<1> QED BY <1>1, <1>2, <1>3, <1>4, <1>5
-----------------------------------------------------------------------------
LEMMA InitInv == Init => IInv
<1> SUFFICES ASSUME Init PROVE IInv
  OBVIOUS
<1>1. TypeOK
  <2>1. story \in Plan
    BY DEF Init, Plan
  <2>3. director \in Director
    <3>1. PICK m \in {"scene_events", "cadence"} :
             director = [revision |-> 0, enabled |-> TRUE, mode |-> m, authored |-> 0,
                         plan |-> NoPlan, attempt |-> "none", attemptTurns |-> None]
      BY Zenon DEF Init
    <3> QED BY <3>1, IdleTypes DEF Director, Modes
  <2>2. job \in Job
    BY AttemptsAssumption DEF Init, NoJob, Job
  <2> QED BY <2>1, <2>2, <2>3, IdleTypes DEF Init, TypeOK
<1>2. director.plan.version <= story.version
  BY DEF Init, NoPlan
<1>3. \A t \in Tabs, c \in Callers : SoundCaller(t, c)
  BY DEF Init, SoundCaller, Idle
<1>4. \A t \in Tabs : SoundRun(t)
  BY DEF Init, SoundRun, NoRun, Claimed
<1>5. PendingIsAtWork
  BY DEF Init, PendingIsAtWork
<1> QED BY <1>1, <1>2, <1>3, <1>4, <1>5 DEF IInv

(* Steps that leave the stored state, the claims and the runs alone. *)
LEMMA AroundStep ==
    ASSUME IInv, UNCHANGED <<director, claimant, run>>, TypeOK',
           story'.version >= story.version,
           \A t \in Tabs : open'[t] = open[t],
           \A t \in Tabs, c \in Callers : SoundCaller(t, c)'
    PROVE  Kept
<1>1. \A t \in Tabs : SoundRun(t)'
  BY OtherRun DEF IInv
<1>2. PendingIsAtWork'
  BY DEF IInv, TypeOK, PendingIsAtWork
<1>3. director'.plan.version <= story'.version /\ Advances
  BY DEF IInv, TypeOK, Director, Plan, Advances
<1>4. [Board!Next]_Board_vars
  BY StandsStill
<1> QED BY <1>1, <1>2, <1>3, <1>4 DEF IInv, Kept

LEMMA StoryStep ==
    ASSUME IInv, NEW t \in Tabs, AssistantSaved(t) \/ SceneEvent(t)
    PROVE  Kept
<1>1. story' \in Plan /\ story'.version >= story.version
  BY DEF IInv, TypeOK, Plan, AssistantSaved, SceneEvent
<1>2. job' \in Job /\ next' \in [Tabs -> Triggers \cup {None}]
  BY JobTypes DEF IInv, TypeOK, AssistantSaved, SceneEvent, Schedule, Triggers
<1>3. UNCHANGED <<director, claimant, open, caller, run>>
  BY DEF AssistantSaved, SceneEvent
<1>4. TypeOK'
  BY <1>1, <1>2, <1>3 DEF IInv, TypeOK
<1>5. director'.revision >= director.revision
  BY <1>3 DEF IInv, TypeOK, Director
<1>6. \A d : Known(d) => Known(d)'
  BY <1>1, <1>4, <1>5, KnownStays DEF IInv
<1>7. \A u \in Tabs, c \in Callers : SoundCaller(u, c)'
  BY <1>3, <1>6 DEF IInv, SoundCaller
<1> QED BY <1>1, <1>3, <1>4, <1>7, AroundStep

(* A caller that is given a new state. *)
LEMMA CallerStep ==
    ASSUME IInv, UNCHANGED <<director, claimant, story, open, run>>,
           NEW t \in Tabs, NEW c \in Callers, NEW new \in Caller,
           caller' = [caller EXCEPT ![t][c] = new], job' \in Job,
           next' \in [Tabs -> Triggers \cup {None}],
           new.key = "initial" /\ new.at = "wait" => Known(new.seen)
    PROVE  Kept
<1>1. TypeOK'
  <2>1. caller' \in [Tabs -> [Callers -> Caller]]
    BY DEF IInv, TypeOK
  <2> QED BY <2>1 DEF IInv, TypeOK
<1>2. \A u \in Tabs, d \in Callers : SoundCaller(u, d)'
  BY DEF IInv, TypeOK, SoundCaller, Known
<1>3. story'.version >= story.version /\ UNCHANGED <<director, claimant, run>>
  BY DEF IInv, TypeOK, Plan
<1>4. \A u \in Tabs : open'[u] = open[u]
  OBVIOUS
<1> QED BY <1>1, <1>2, <1>3, <1>4, AroundStep

LEMMA AskingStep ==
    ASSUME IInv, NEW t \in Tabs,
           \/ ClaimJob(t) \/ DrainNext(t)
           \/ \E c \in {"queue", "tab"} : RunOne(t, c) \/ SourceFails(t, c)
           \/ \E key \in Keys : UserAsks(t, key)
    PROVE  Kept
<1> USE IdleTypes
<1>0. director \in Director /\ Known(director) /\ job \in Job /\ caller[t] \in [Callers -> Caller]
      /\ next \in [Tabs -> Triggers \cup {None}]
  BY DEF IInv, TypeOK, Known, Director
<1>1. CASE ClaimJob(t)
  <2> DEFINE new == [Idle EXCEPT !.at = "chat", !.trigger = job.trigger,
                                 !.again = job.attempts > 0]
  <2>0. Counted(job.attempts) \in 0 .. MAX_ATTEMPTS + 1 /\ (job.attempts > 0) \in BOOLEAN
        /\ job.trigger \in Triggers \cup {None}
    BY <1>0, AttemptsAssumption DEF Job, Counted
  <2>1. job' \in Job
    <3> HIDE DEF new
    <3>1. job' = [job EXCEPT !.status = "running", !.attempts = Counted(job.attempts), !.by = t]
      BY <1>1 DEF ClaimJob
    <3> QED BY <1>0, <2>0, <3>1 DEF Job
  <2>2. new \in Caller /\ new.at = "chat"
    <3>1. ASSUME NEW trigger \in Triggers \cup {None}, NEW again \in BOOLEAN
          PROVE  LET asks == [Idle EXCEPT !.at = "chat", !.trigger = trigger, !.again = again]
                 IN  asks \in Caller /\ asks.at = "chat"
      BY DEF Idle, Caller, Keys
    <3> QED BY <2>0, <3>1
  <2>3. caller' = [caller EXCEPT ![t]["queue"] = new] /\ next' = next
        /\ UNCHANGED <<director, claimant, story, open, run>>
    BY <1>1 DEF ClaimJob
  <2> HIDE DEF new
  <2> QED BY <1>0, <2>1, <2>2, <2>3, CallerStep DEF Callers
<1>2. CASE DrainNext(t)
  <2>1. [Idle EXCEPT !.at = "chat", !.trigger = next[t]] \in Caller
    BY <1>0 DEF Idle, Caller
  <2> QED BY <1>0, <1>2, <2>1, CallerStep DEF DrainNext, Callers, Idle
<1>3. ASSUME NEW c \in {"queue", "tab"}, NEW outcome \in {"done", "retry"}, RunOneEnds(t, c, outcome)
      PROVE  Kept
  <2>1. job' \in Job
    BY <1>0, <1>3, JobTypes DEF RunOneEnds, IInv, Triggers
  <2> QED BY <1>0, <1>3, <2>1, CallerStep DEF RunOneEnds, Callers, Idle
<1>4. ASSUME NEW c \in {"queue", "tab"}, ReadChatToDecide(t, c)
      PROVE  Kept
  <2> DEFINE new == [caller[t][c] EXCEPT !.at = "source", !.seen = director]
  <2>1. new \in Caller /\ new.at = "source"
    BY <1>0 DEF Caller, Callers
  <2>2. caller' = [caller EXCEPT ![t][c] = new]
    BY <1>0, <1>4 DEF ReadChatToDecide, IInv, TypeOK, Callers, Caller
  <2>3. UNCHANGED <<director, claimant, story, job, open, next, run>>
    BY <1>4 DEF ReadChatToDecide
  <2> HIDE DEF new
  <2> QED BY <1>0, <2>1, <2>2, <2>3, CallerStep DEF Callers
<1>5. ASSUME NEW c \in {"queue", "tab"}, Decide(t, c)
      PROVE  Kept
  <2>1. CASE RunOneEnds(t, c, "done")
    BY <1>3, <2>1
  <2>2. CASE /\ caller' = [caller EXCEPT ![t][c] = [Idle EXCEPT !.at = "wait"]]
             /\ UNCHANGED <<director, claimant, story, job, open, next, run>>
    <3>1. [Idle EXCEPT !.at = "wait"] \in Caller /\ [Idle EXCEPT !.at = "wait"].key = "refresh"
      BY DEF Idle, Caller
    <3> QED BY <1>0, <2>2, <3>1, CallerStep DEF Callers
  <2> QED BY <1>5, <2>1, <2>2 DEF Decide
<1>6. ASSUME NEW key \in Keys, UserAsks(t, key)
      PROVE  Kept
  <2> DEFINE new == [Idle EXCEPT !.at = "wait", !.key = key,
                                 !.seen = IF key = "initial" THEN director ELSE None]
  <2>1. new \in Caller /\ new.key = key /\ (key = "initial" => new.seen = director)
    BY <1>0 DEF Idle, Caller
  <2>2. caller' = [caller EXCEPT ![t]["user"] = new]
    BY <1>6 DEF UserAsks
  <2>3. UNCHANGED <<director, claimant, story, job, open, next, run>>
    BY <1>6 DEF UserAsks
  <2> HIDE DEF new
  <2> QED BY <1>0, <2>1, <2>2, <2>3, CallerStep DEF Callers
<1>7. \A c \in {"queue", "tab"} : SourceFails(t, c) => Kept
  BY <1>3 DEF SourceFails
<1> QED BY <1>1, <1>2, <1>4, <1>5, <1>6, <1>7 DEF RunOne
-----------------------------------------------------------------------------
(* What every step has to show that leaves the story alone. *)
LEMMA Keeps ==
    ASSUME IInv, TypeOK', story' = story,
           \A u \in Tabs : run'[u] = run[u] \/ SoundRun(u)',
           \A u \in Tabs, c \in Callers :
              caller'[u][c] = caller[u][c] \/ caller'[u][c].at # "wait",
           \/ director' = director
              /\ \A u \in Tabs : run'[u] = run[u] /\ claimant = u => claimant' = u
           \/ director'.revision > director.revision,
           PendingIsAtWork', [Board!Next]_Board_vars,
           director'.plan.version >= director.plan.version,
           director'.plan.version <= story.version
    PROVE  Kept
<1>1. director'.revision >= director.revision /\ story'.version >= story.version
  BY DEF IInv, TypeOK, Director, Plan
<1>2. \A d : Known(d) => Known(d)'
  BY <1>1, KnownStays DEF IInv
<1>3. \A u \in Tabs, c \in Callers : SoundCaller(u, c)'
  BY <1>2 DEF IInv, SoundCaller
<1>4. \A u \in Tabs : SoundRun(u)'
  BY <1>1, OtherRun DEF IInv
<1> QED BY <1>3, <1>4 DEF IInv, Kept, Advances

(* A step of a tab's run, or of one that starts, that writes nothing. *)
LEMMA QuietStep ==
    ASSUME IInv, TypeOK', UNCHANGED <<director, claimant, story, open>>, NEW t \in Tabs,
           \A u \in Tabs \ {t} : run'[u] = run[u], SoundRun(t)',
           claimant = t => /\ run'[t].at \in Claimed /\ run'[t].base = director
                           /\ run'[t].key = run[t].key,
           \A u \in Tabs, c \in Callers :
              caller'[u][c] = caller[u][c] \/ caller'[u][c].at # "wait"
    PROVE  Kept
<1>1. PendingIsAtWork'
  BY DEF IInv, TypeOK, PendingIsAtWork
<1>2. [Board!Next]_Board_vars
  BY StandsStill DEF IInv, TypeOK
<1>3. director'.plan.version >= director.plan.version /\ director'.plan.version <= story.version
  BY DEF IInv, TypeOK, Director, Plan
<1> QED BY <1>1, <1>2, <1>3, Keeps

(* A run that ends without a write: the last write is not its claim. *)
LEMMA QuietEnd ==
    ASSUME IInv, NEW t \in Tabs, RunEnds(t), UNCHANGED <<director, claimant, story, open, next>>,
           claimant # t
    PROVE  Kept
<1>1. TypeOK'
  BY Ended DEF IInv, TypeOK
<1>2. SoundRun(t)'
  BY Ended DEF IInv, SoundRun, NoRun, Claimed
<1>3. \A u \in Tabs, c \in Callers : caller'[u][c] = caller[u][c] \/ caller'[u][c].at # "wait"
  BY Ended DEF IInv, Idle
<1>4. \A u \in Tabs \ {t} : run'[u] = run[u]
  BY Ended DEF IInv
<1> QED BY <1>1, <1>2, <1>3, <1>4, QuietStep

LEMMA GoesOn ==
    ASSUME TypeOK, NEW t \in Tabs,
           NEW at \in {"source", "model", "save"}, NEW base \in Director,
           RunGoesOn(t, at, base)
    PROVE  /\ run' \in [Tabs -> Run]
           /\ run'[t].at = at /\ run'[t].base = base /\ run'[t].plan = run[t].plan
           /\ run'[t].key = run[t].key
           /\ \A u \in Tabs \ {t} : run'[u] = run[u]
           /\ UNCHANGED <<caller, job>>
<1> DEFINE new == [run[t] EXCEPT !.at = at, !.base = base]
<1>1. run' = [run EXCEPT ![t] = new] /\ UNCHANGED <<caller, job>>
  BY DEF RunGoesOn, TypeOK, Run
<1>2. new \in Run /\ new.at = at /\ new.base = base /\ new.plan = run[t].plan /\ new.key = run[t].key
  BY DEF TypeOK, Run
<1> HIDE DEF new
<1> QED BY <1>1, <1>2 DEF TypeOK

LEMMA CallStep ==
    ASSUME IInv, NEW t \in Tabs, NEW c \in Callers, Call(t, c)
    PROVE  Kept
<1> DEFINE asks == caller[t][c]
           joined == [Idle EXCEPT !.at = "joined"]
           new == [NoRun EXCEPT !.at = "chat", !.key = asks.key, !.base = asks.seen]
<1>0. UNCHANGED <<director, claimant, story, job, open, next>> /\ asks.at = "wait"
      /\ caller' = [caller EXCEPT ![t][c] = joined]
  BY DEF Call
<1>1. asks \in Caller /\ SoundCaller(t, c)
  BY DEF IInv, TypeOK
<1>2. joined \in Caller /\ joined.at = "joined"
  BY IdleTypes DEF Idle, Caller
<1>3. new \in Run /\ new.at = "chat" /\ new.key = asks.key /\ new.base = asks.seen
  BY <1>1 DEF NoRun, Run, Caller, NoPlan, Plan
<1>4. /\ caller' \in [Tabs -> [Callers -> Caller]]
      /\ \A u \in Tabs, d \in Callers :
            caller'[u][d] = caller[u][d] \/ caller'[u][d].at # "wait"
  <2> HIDE DEF joined
  <2> QED BY <1>0, <1>2 DEF IInv, TypeOK
<1>5. CASE run[t].at = "none" /\ run' = [run EXCEPT ![t] = new]
  <2> HIDE DEF new, joined
  <2>1. run' \in [Tabs -> Run] /\ run'[t] = new /\ \A u \in Tabs \ {t} : run'[u] = run[u]
    BY <1>3, <1>5 DEF IInv, TypeOK
  <2>2. TypeOK'
    BY <1>0, <1>4, <2>1 DEF IInv, TypeOK
  <2>3. SoundRun(t)'
    <3>2. run'[t].at = "chat" /\ run'[t].key = asks.key /\ run'[t].base = asks.seen
      BY <1>3, <2>1
    <3>3. run'[t].key = "initial" => Known(run[t].base)'
      BY <1>0, <1>1, <3>2 DEF SoundCaller, Known
    <3> QED BY <3>2, <3>3 DEF SoundRun, Claimed
  <2>4. claimant # t
    BY <1>5, NoneAssumption DEF IInv, PendingIsAtWork, Claimed
  <2> QED BY <1>0, <1>4, <2>1, <2>2, <2>3, <2>4, QuietStep
<1>6. CASE UNCHANGED run
  <2>1. TypeOK'
    BY <1>0, <1>4, <1>6 DEF IInv, TypeOK
  <2>2. SoundRun(t)'
    <3>1. UNCHANGED <<director, claimant, story, run>>
      BY <1>0, <1>6
    <3>2. SoundRun(t)
      BY DEF IInv
    <3> QED BY <3>1, <3>2 DEF SoundRun, Known, Claimed
  <2>3. claimant = t => run'[t].at \in Claimed /\ run'[t].base = director /\ run'[t].key = run[t].key
    BY <1>6, NoneAssumption DEF IInv, TypeOK, PendingIsAtWork
  <2> QED BY <1>0, <1>4, <1>6, <2>1, <2>2, <2>3, QuietStep
<1> QED BY <1>5, <1>6 DEF Call
-----------------------------------------------------------------------------
(* The state a claim writes. *)
LEMMA AttemptWrite ==
    ASSUME NEW d \in Director, NEW turns \in Nat
    PROVE  LET e == Attempted(d, turns)
           IN  /\ e \in Director /\ e.revision > d.revision /\ e.plan = d.plan
               /\ e.enabled = d.enabled /\ e.authored = d.authored /\ e.attempt = "pending"
<1>1. d.revision \in Nat /\ d.revision + 1 \in Nat /\ d.revision + 1 > d.revision
  BY DEF Director
<1> QED BY <1>1 DEF Attempted, Director

(* The states its other writes make. *)
LEMMA Writes ==
    ASSUME NEW d \in Director, NEW plan \in Plan, NEW key
    PROVE  /\ {Failed(d)} \cup Planned(key, d, plan) \cup Commanded(d) \subseteq Director
           /\ \A e \in {Failed(d)} \cup Planned(key, d, plan) \cup Commanded(d) :
                 e.revision > d.revision
           /\ \A e \in {Failed(d)} :
                 e.plan = d.plan /\ e.enabled = d.enabled /\ e.authored = d.authored
           /\ \A e \in Planned(key, d, plan) :
                 /\ e.plan = plan /\ e.enabled = d.enabled
                 /\ e.authored \in {d.authored} \cup IF key = "reroll" THEN {d.authored + 1} ELSE {}
           /\ \A e \in Commanded(d) :
                 e.plan = d.plan /\ e.authored \in {d.authored, d.authored + 1}
<1>0. d.revision \in Nat /\ d.revision + 1 \in Nat /\ d.revision + 1 > d.revision
      /\ d.authored \in Nat /\ d.authored + 1 \in Nat
  BY DEF Director
<1>1. LET e == Failed(d)
      IN  e \in Director /\ e.revision = d.revision + 1 /\ e.plan = d.plan
          /\ e.enabled = d.enabled /\ e.authored = d.authored
  BY <1>0 DEF Failed, Director
<1>2. ASSUME NEW e \in Planned(key, d, plan)
      PROVE  /\ e \in Director /\ e.revision = d.revision + 1 /\ e.plan = plan
             /\ e.enabled = d.enabled
             /\ e.authored \in {d.authored} \cup IF key = "reroll" THEN {d.authored + 1} ELSE {}
  BY <1>0 DEF Planned, Director
<1>3. ASSUME NEW e \in Commanded(d)
      PROVE  e \in Director /\ e.revision = d.revision + 1 /\ e.plan = d.plan
             /\ e.authored \in {d.authored, d.authored + 1}
  BY <1>0 DEF Commanded, Director, Modes
<1> QED BY <1>0, <1>1, <1>2, <1>3

LEMMA UnclaimedStep ==
    ASSUME IInv, NEW t \in Tabs, ReadChat(t) \/ ReadSource(t) \/ FailsUnclaimed(t)
    PROVE  Kept
<1>0. run[t] \in Run /\ director \in Director /\ story \in Plan /\ SoundRun(t)
  BY DEF IInv, TypeOK
<1>1. UNCHANGED <<director, claimant, story, open, next>>
      /\ run[t].at \in {"chat", "source", "claim"}
  BY DEF ReadChat, ReadSource, FailsUnclaimed
<1>2. claimant # t
  BY <1>1, NoneAssumption DEF IInv, PendingIsAtWork, Claimed
<1>3. CASE RunEnds(t)
  BY <1>1, <1>2, <1>3, QuietEnd
<1>4. ASSUME NEW d, run[t].at = "chat", ~Refused(run[t].key, d), RunGoesOn(t, "source", d),
             d = IF run[t].key = "initial" THEN run[t].base ELSE director
      PROVE  Kept
  <2>1. Known(d) /\ d \in Director /\ d.enabled
    BY <1>0, <1>4 DEF SoundRun, Known, Refused, IInv, Director
  <2>2. /\ run' \in [Tabs -> Run] /\ run'[t].at = "source" /\ run'[t].base = d
        /\ \A u \in Tabs \ {t} : run'[u] = run[u]
        /\ UNCHANGED <<caller, job>>
    BY <1>4, <2>1, GoesOn DEF IInv
  <2>3. TypeOK'
    BY <1>1, <2>2 DEF IInv, TypeOK
  <2>4. SoundRun(t)'
    <3>1. (Known(run[t].base) /\ run[t].base.enabled)'
      BY <1>1, <2>1, <2>2 DEF Known
    <3> QED BY <2>2, <3>1 DEF SoundRun, Claimed
  <2> QED BY <1>1, <1>2, <2>2, <2>3, <2>4, QuietStep
<1>5. CASE ReadSource(t)
  <2> DEFINE new == [run[t] EXCEPT !.at = "claim", !.plan = story]
  <2>1. new \in Run /\ new.at = "claim" /\ new.plan = story /\ new.base = run[t].base
        /\ new.key = run[t].key
    BY <1>0 DEF Run
  <2>2. run' = [run EXCEPT ![t] = new] /\ UNCHANGED <<caller, job>> /\ run[t].at = "source"
    BY <1>5 DEF ReadSource, IInv, TypeOK, Run
  <2> HIDE DEF new
  <2>3. run' \in [Tabs -> Run] /\ run'[t] = new /\ \A u \in Tabs \ {t} : run'[u] = run[u]
    BY <2>1, <2>2 DEF IInv, TypeOK
  <2>4. TypeOK'
    BY <1>1, <2>2, <2>3 DEF IInv, TypeOK
  <2>5. SoundRun(t)'
    <3>1. (Known(run[t].base) /\ run[t].base.enabled)'
      BY <1>0, <1>1, <2>1, <2>2, <2>3 DEF SoundRun, Known
    <3>2. run'[t].base.plan.version <= run'[t].plan.version /\ run'[t].plan.version <= story'.version
      BY <1>0, <1>1, <2>1, <2>3, <3>1 DEF Known, Plan
    <3> QED BY <2>1, <2>3, <3>1, <3>2 DEF SoundRun, Claimed
  <2> QED BY <1>1, <1>2, <2>2, <2>3, <2>4, <2>5, QuietStep
<1>6. CASE ReadChat(t)
  BY <1>3, <1>4, <1>6 DEF ReadChat
<1> QED BY <1>3, <1>5, <1>6 DEF FailsUnclaimed

(* A run whose last act is a write, or that could not record its own failure. *)
LEMMA WriteEnd ==
    ASSUME IInv, NEW t \in Tabs, RunEnds(t), UNCHANGED <<story, open, next>>, claimant' = None,
           director' \in Director,
           (director' = director /\ claimant = t) \/ director'.revision > director.revision,
           [Board!Next]_Board_vars,
           director'.plan.version >= director.plan.version,
           director'.plan.version <= story.version
    PROVE  Kept
<1>1. TypeOK'
  BY Ended DEF IInv, TypeOK
<1>2. SoundRun(t)'
  BY Ended DEF IInv, SoundRun, NoRun, Claimed
<1>3. \A u \in Tabs, c \in Callers : caller'[u][c] = caller[u][c] \/ caller'[u][c].at # "wait"
  BY Ended DEF IInv, Idle
<1>4. \A u \in Tabs : run'[u] = run[u] \/ SoundRun(u)'
  BY <1>2, Ended DEF IInv
<1>5. PendingIsAtWork'
  BY DEF PendingIsAtWork
<1>6. director' = director /\ claimant = t =>
         \A u \in Tabs : run'[u] = run[u] /\ claimant = u => claimant' = u
  <2>1. claimant = t => run[t].at \in Claimed
    BY NoneAssumption DEF IInv, PendingIsAtWork
  <2>2. run'[t].at = "none"
    BY Ended DEF IInv, NoRun
  <2> QED BY <2>1, <2>2 DEF Claimed
<1> QED BY <1>1, <1>3, <1>4, <1>5, <1>6, Keeps

(* What a claimed run finds when the state is still the one it wrote. *)
LEMMA AtWork ==
    ASSUME IInv, NEW t \in Tabs, run[t].at \in Claimed
    PROVE  /\ Unchanged(t) <=> claimant = t
           /\ run[t].base \in Director /\ run[t].plan \in Plan /\ run[t].base.enabled
           /\ run[t].base.plan.version <= run[t].plan.version
           /\ run[t].plan.version <= story.version
<1>1. SoundRun(t) /\ run[t] \in Run
  BY DEF IInv, TypeOK
<1>2. claimant = t => run[t].base = director
  BY NoneAssumption DEF IInv, PendingIsAtWork
<1> QED BY <1>1, <1>2 DEF SoundRun, Claimed, Known, Run, Unchanged

LEMMA FailureStep ==
    ASSUME IInv, NEW t \in Tabs, run[t].at \in Claimed, FailureRecorded(t), RunEnds(t),
           UNCHANGED <<story, open, next>>
    PROVE  Kept
<1>1. CASE Unchanged(t)
  <2>1. claimant = t /\ director = run[t].base /\ director \in Director /\ claimant' = None
        /\ director' \in {director, Failed(director)}
    BY <1>1, AtWork DEF FailureRecorded, Unchanged
  <2>2. director.plan.version <= story.version /\ director.plan.version \in Nat
    BY <2>1 DEF IInv, Director, Plan
  <2>3. CASE director' = director
    <3>1. [Board!Next]_Board_vars
      BY <2>1, <2>3, GivingUp
    <3> QED BY <2>1, <2>2, <2>3, <3>1, WriteEnd
  <2>4. CASE director' = Failed(director)
    <3>1. director' \in Director /\ director'.revision > director.revision
          /\ director'.plan = director.plan /\ director'.enabled = director.enabled
          /\ director'.authored = director.authored
      BY <2>1, <2>4, IdleTypes, Writes
    <3>2. [Board!Next]_Board_vars
      BY <2>1, <3>1, GivingUp
    <3> QED BY <2>1, <2>2, <3>1, <3>2, WriteEnd
  <2> QED BY <2>1, <2>3, <2>4
<1>2. CASE ~Unchanged(t)
  BY <1>2, AtWork, QuietEnd DEF FailureRecorded
<1> QED BY <1>1, <1>2

LEMMA ClaimStep ==
    ASSUME IInv, NEW t \in Tabs, Claim(t)
    PROVE  Kept
<1> DEFINE attempted == Attempted(run[t].base, run[t].plan.turns)
<1>0. /\ run[t].at = "claim" /\ open[t] /\ UNCHANGED <<story, open, next>>
      /\ run[t] \in Run /\ SoundRun(t) /\ director \in Director /\ story \in Plan
  BY DEF Claim, IInv, TypeOK
<1>1. claimant # t
  BY <1>0, NoneAssumption DEF IInv, PendingIsAtWork, Claimed
<1>2. CASE ~Unchanged(t)
  BY <1>0, <1>1, <1>2, QuietEnd DEF Claim
<1>3. CASE Unchanged(t)
  <2>1. run[t].base = director /\ director.enabled /\ run[t].plan \in Plan
        /\ director.plan.version <= run[t].plan.version /\ run[t].plan.version <= story.version
    BY <1>0, <1>3 DEF SoundRun, Unchanged, Run
  <2>2. /\ attempted \in Director /\ attempted.revision > director.revision
        /\ attempted.plan = director.plan /\ attempted.enabled = director.enabled
        /\ attempted.authored = director.authored /\ attempted.attempt = "pending"
    <3>1. run[t].plan.turns \in Nat
      BY <2>1 DEF Plan
    <3> QED BY <1>0, <2>1, <3>1, AttemptWrite
  <2>3. director.plan.version \in Nat /\ director.plan.version <= story.version
    BY <1>0 DEF IInv, Director, Plan
  <2>4. director' = attempted
    BY <1>3 DEF Claim
  <2> HIDE DEF attempted
  <2>5. CASE claimant' = None /\ RunEnds(t)
    <3>1. [Board!Next]_Board_vars
      BY <2>2, <2>4, <2>5, GivingUp
    <3> QED BY <1>0, <2>2, <2>3, <2>4, <2>5, <3>1, WriteEnd
  <2>6. CASE claimant' = t /\ RunGoesOn(t, "model", attempted)
    <3>1. /\ run' \in [Tabs -> Run]
          /\ run'[t].at = "model" /\ run'[t].base = attempted /\ run'[t].plan = run[t].plan
          /\ \A u \in Tabs \ {t} : run'[u] = run[u]
          /\ UNCHANGED <<caller, job>>
      BY <2>2, <2>6, GoesOn DEF IInv
    <3>2. TypeOK'
      BY <1>0, <2>2, <2>4, <2>6, <3>1 DEF IInv, TypeOK
    <3>3. SoundRun(t)'
      <4>0. director' \in Director /\ director'.plan.version <= story'.version
            /\ director'.enabled /\ director'.revision <= director'.revision
        <5>1. director' \in Director /\ director'.plan = director.plan
              /\ director'.enabled = director.enabled
          BY <2>2, <2>4
        <5>2. director'.revision <= director'.revision
          BY <5>1 DEF Director
        <5> QED BY <1>0, <2>1, <2>3, <5>1, <5>2
      <4>1. (Known(run[t].base) /\ run[t].base.enabled)'
        BY <2>4, <3>1, <4>0 DEF Known
      <4>2. run'[t].base.plan.version <= run'[t].plan.version
            /\ run'[t].plan.version <= story'.version
        BY <1>0, <2>1, <2>2, <3>1
      <4> QED BY <2>6, <3>1, <4>1, <4>2 DEF SoundRun, Claimed
    <3>4. PendingIsAtWork'
      BY <1>0, <2>1, <2>2, <2>4, <2>6, <3>1 DEF PendingIsAtWork, Claimed
    <3>5. [Board!Next]_Board_vars
      <4>1. Rerolling' \in BOOLEAN
        BY Zenon DEF Rerolling
      <4> QED BY <2>1, <2>2, <2>4, <2>6, <4>1 DEF Board!Next, Board!Claim
    <3>6. \A u \in Tabs : run'[u] = run[u] \/ SoundRun(u)'
      BY <3>1, <3>3
    <3> QED BY <1>0, <2>2, <2>3, <2>4, <3>1, <3>2, <3>4, <3>5, <3>6, Keeps
  <2> QED BY <1>3, <2>5, <2>6 DEF Claim, attempted
<1> QED BY <1>2, <1>3

LEMMA ClaimedStep ==
    ASSUME IInv, NEW t \in Tabs, FailsClaimed(t) \/ ReadCurrent(t) \/ Save(t)
    PROVE  Kept
<1>1. run[t].at \in Claimed /\ open[t] /\ UNCHANGED <<story, open, next>>
  BY DEF FailsClaimed, ReadCurrent, Save, Claimed
<1>2. CASE FailureRecorded(t) /\ RunEnds(t)
  BY <1>1, <1>2, FailureStep
<1>3. /\ Unchanged(t) <=> claimant = t
      /\ run[t].base \in Director /\ run[t].plan \in Plan /\ run[t].base.enabled
      /\ run[t].base.plan.version <= run[t].plan.version
      /\ run[t].plan.version <= story.version
  BY <1>1, AtWork
<1>4. CASE /\ Authorized(t) /\ RunGoesOn(t, "save", director)
           /\ UNCHANGED <<director, claimant>>
  <2>1. claimant = t /\ run[t].base = director /\ director \in Director
    BY <1>3, <1>4 DEF Authorized, Unchanged
  <2>2. /\ run' \in [Tabs -> Run]
        /\ run'[t].at = "save" /\ run'[t].base = director /\ run'[t].plan = run[t].plan
        /\ run'[t].key = run[t].key
        /\ \A u \in Tabs \ {t} : run'[u] = run[u]
        /\ UNCHANGED <<caller, job>>
    BY <1>4, <2>1, GoesOn DEF IInv
  <2>3. TypeOK'
    BY <1>1, <1>4, <2>2 DEF IInv, TypeOK
  <2>4. SoundRun(t)'
    <3>1. (Known(run[t].base) /\ run[t].base.enabled)'
      BY <1>1, <1>3, <1>4, <2>1, <2>2 DEF Known, IInv, Director
    <3>2. run'[t].base.plan.version <= run'[t].plan.version
          /\ run'[t].plan.version <= story'.version
      BY <1>1, <1>3, <2>1, <2>2
    <3> QED BY <1>4, <2>1, <2>2, <3>1, <3>2 DEF SoundRun, Claimed
  <2> QED BY <1>1, <1>4, <2>1, <2>2, <2>3, <2>4, QuietStep DEF Claimed
<1>5. CASE Save(t)
  <2>1. RunEnds(t)
    BY <1>5 DEF Save
  <2>2. CASE Unchanged(t)
    <3>1. claimant = t /\ run[t].base = director
          /\ director' \in Planned(run[t].key, run[t].base, run[t].plan) /\ claimant' = None
      BY <1>3, <1>5, <2>2 DEF Save, Unchanged
    <3>2. /\ director' \in Director /\ director'.revision > director.revision
          /\ director'.plan = run[t].plan /\ director'.enabled = director.enabled
          /\ director'.authored \in {director.authored} \cup
                IF run[t].key = "reroll" THEN {director.authored + 1} ELSE {}
      BY <1>3, <3>1, Writes
    <3>3. [Board!Next]_Board_vars
      <4>1. Rerolling <=> run[t].key = "reroll"
        BY <3>1, NoneAssumption DEF Rerolling
      <4>2. director'.authored \in {director.authored} \cup
               IF Rerolling THEN {director.authored + 1} ELSE {}
        BY <3>2, <4>1
      <4>3. Rerolling' = FALSE
        BY <3>1, Zenon DEF Rerolling
      <4>4. director'.plan.version \in Nat /\ director.enabled
        BY <1>3, <3>1, <3>2 DEF Plan
      <4> QED BY <3>1, <3>2, <4>2, <4>3, <4>4 DEF Board!Next, Board!Plan, Board!Superseded
    <3> QED BY <1>1, <1>3, <2>1, <3>1, <3>2, <3>3, WriteEnd
  <2>3. CASE ~Unchanged(t)
    BY <1>1, <1>3, <1>5, <2>1, <2>3, QuietEnd DEF Save
  <2> QED BY <2>2, <2>3
<1> QED BY <1>2, <1>4, <1>5 DEF FailsClaimed, ReadCurrent

LEMMA CommandStep ==
    ASSUME IInv, Command
    PROVE  Kept
<1>1. /\ director' \in Commanded(director) /\ claimant' = None /\ director \in Director
      /\ UNCHANGED <<story, job, open, next, caller, run>>
  BY DEF Command, IInv, TypeOK
<1>2. /\ director' \in Director /\ director'.revision > director.revision
      /\ director'.plan = director.plan /\ director'.enabled \in BOOLEAN
      /\ director'.authored \in {director.authored, director.authored + 1}
  <2>1. director' \in Director /\ director'.revision > director.revision
        /\ director'.plan = director.plan
        /\ director'.authored \in {director.authored, director.authored + 1}
    BY <1>1, IdleTypes, Writes
  <2> QED BY <2>1 DEF Director
<1>3. TypeOK' /\ PendingIsAtWork'
  BY <1>1, <1>2 DEF IInv, TypeOK, PendingIsAtWork
<1>4. [Board!Next]_Board_vars
  <2>1. Rerolling' = FALSE
    BY <1>1, Zenon DEF Rerolling
  <2> QED BY <1>1, <1>2, <2>1 DEF Board!Next, Board!Command, Board!Superseded
<1>5. director'.plan.version >= director.plan.version /\ director'.plan.version <= story.version
  BY <1>1, <1>2 DEF IInv, Director, Plan
<1> QED BY <1>1, <1>2, <1>3, <1>4, <1>5, Keeps

LEMMA CloseStep ==
    ASSUME IInv, NEW t \in Tabs, Close(t)
    PROVE  Kept
<1>1. UNCHANGED <<director, story, job>> /\ claimant' = IF claimant = t THEN None ELSE claimant
  BY DEF Close
<1>2. TypeOK'
  BY IdleTypes DEF Close, IInv, TypeOK
<1>3. run'[t] = NoRun /\ \A u \in Tabs \ {t} : run'[u] = run[u] /\ open'[u] = open[u]
  BY DEF Close, IInv, TypeOK
<1>4. \A u \in Tabs : run'[u] = run[u] \/ SoundRun(u)'
  BY <1>3 DEF SoundRun, NoRun, Claimed
<1>5. \A u \in Tabs, c \in Callers : caller'[u][c] = caller[u][c] \/ caller'[u][c].at # "wait"
  BY DEF Close, IInv, TypeOK, Idle
<1>6. claimant = t => run'[t] # run[t]
  BY <1>3, NoneAssumption DEF IInv, PendingIsAtWork, NoRun, Claimed
<1>7. PendingIsAtWork'
  BY <1>1, <1>3 DEF IInv, TypeOK, PendingIsAtWork
<1>8. [Board!Next]_Board_vars
  BY <1>1, <1>3, GivingUp, StandsStill DEF IInv, TypeOK
<1>9. director'.plan.version >= director.plan.version /\ director'.plan.version <= story.version
  BY <1>1 DEF IInv, TypeOK, Director, Plan
<1> QED BY <1>1, <1>2, <1>4, <1>5, <1>6, <1>7, <1>8, <1>9, Keeps

LEMMA Stutter == IInv /\ UNCHANGED vars => Kept
<1> SUFFICES ASSUME IInv, UNCHANGED vars PROVE Kept
  OBVIOUS
<1>1. TypeOK' /\ PendingIsAtWork' /\ (\A u \in Tabs : run'[u] = run[u]) /\ story' = story
      /\ director' = director /\ claimant' = claimant
      /\ \A u \in Tabs, c \in Callers : caller'[u][c] = caller[u][c]
  BY DEF vars, IInv, TypeOK, PendingIsAtWork
<1>2. director'.plan.version >= director.plan.version /\ director'.plan.version <= story.version
  BY <1>1 DEF IInv, TypeOK, Director, Plan
<1>3. [Board!Next]_Board_vars
  BY StandsStill DEF vars
<1> QED BY <1>1, <1>2, <1>3, Keeps

LEMMA Inductive == IInv /\ [Next]_vars => Kept
<1> SUFFICES ASSUME IInv, Next PROVE Kept
  BY Stutter
<1>1. CASE Command
  BY <1>1, CommandStep
<1>2. ASSUME NEW t \in Tabs, AssistantSaved(t) \/ SceneEvent(t)
      PROVE  Kept
  BY <1>2, StoryStep
<1>3. ASSUME NEW t \in Tabs,
             \/ ClaimJob(t) \/ DrainNext(t)
             \/ \E c \in {"queue", "tab"} : RunOne(t, c) \/ SourceFails(t, c)
             \/ \E key \in Keys : UserAsks(t, key)
      PROVE  Kept
  BY <1>3, AskingStep
<1>4. ASSUME NEW t \in Tabs, NEW c \in Callers, Call(t, c)
      PROVE  Kept
  BY <1>4, CallStep
<1>5. ASSUME NEW t \in Tabs, RunRefresh(t)
      PROVE  Kept
  BY <1>5, UnclaimedStep, ClaimStep, ClaimedStep DEF RunRefresh
<1>6. ASSUME NEW t \in Tabs, Close(t)
      PROVE  Kept
  BY <1>6, CloseStep
<1> QED BY <1>1, <1>2, <1>3, <1>4, <1>5, <1>6 DEF Next

LEMMA Invariance == Spec => []IInv /\ [][Kept]_vars
<1>1. IInv /\ [Next]_vars => IInv'
  BY Inductive DEF Kept
<1>2. Spec => []IInv
  BY InitInv, <1>1, PTL DEF Spec
<1>3. IInv /\ [Next]_vars => [Kept]_vars
  BY Inductive
<1> QED BY <1>2, <1>3, PTL DEF Spec
-----------------------------------------------------------------------------
(* Every state the program reaches is of the right types. *)
THEOREM TypeCorrect == Spec => []TypeOK
<1>1. IInv => TypeOK
  BY DEF IInv
<1> QED BY <1>1, Invariance, PTL

(* An attempt that is marked pending, was not superseded and lost neither its  *)
(* tab nor an answer is at work in its tab, and its next write will find it.   *)
THEOREM AttemptsAtWork == Spec => []PendingIsAtWork
<1>1. IInv => PendingIsAtWork
  BY DEF IInv
<1> QED BY <1>1, Invariance, PTL

(* However many tabs plan, no plan is replaced by one from an older story. *)
THEOREM PlansGoForward == Spec => PlanNeverOlder
<1>1. Kept => director'.plan.version >= director.plan.version
  BY DEF Kept, Advances
<1> QED BY <1>1, Invariance, PTL DEF PlanNeverOlder

(* The Director keeps the promise of PlanBoard: a plan comes only from the tab *)
(* whose claim is the last write, and what is the user's changes only by      *)
(* commands and by the rerolls the user asks for.                            *)
THEOREM FollowsBoard == Spec => ImplementsPlanBoard
<1>1. Init => Board!Init
  <2> SUFFICES ASSUME Init PROVE Board!Init
    OBVIOUS
  <2>1. director \in Director
    BY InitInv DEF IInv, TypeOK
  <2>2. director.enabled \in BOOLEAN /\ director.authored \in Nat /\ director.plan.version \in Nat
    BY <2>1 DEF Director, Plan
  <2>3. Rerolling = FALSE
    BY Zenon DEF Init, Rerolling
  <2> QED BY <2>2, <2>3 DEF Init, Board!Init
<1>2. [Kept]_vars => [Board!Next]_<<director.enabled, director.authored,
                                    director.plan.version, claimant, Rerolling>>
  BY DEF Kept, Board_vars, vars, Rerolling
<1> QED BY <1>1, <1>2, Invariance, PTL DEF Spec, ImplementsPlanBoard, Board!Spec
=============================================================================
