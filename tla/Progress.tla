-------------------------------- MODULE Progress -------------------------------
(***************************************************************************)
(* The mowing progress sensor (sensor.py) between three sources that do    *)
(* not agree on what a job is: the states, the stats and the bury points;  *)
(* and the activity sensor beside it, which says that it is rain the job   *)
(* waits for.                                                              *)
(*                                                                         *)
(* The mower starts, interrupts, resumes and ends jobs, and meets errors   *)
(* and recovers from them while it does not mow.  A state push may be lost *)
(* and is made up for by the poll; a bury point may be lost and is not     *)
(* made up for; stats come as pushes, ticks and answers, here at any time, *)
(* and so the refresh the sensor asks for needs no step of its own.  The   *)
(* bus drops repetitions and runs callbacks in the order of events.        *)
(***************************************************************************)
EXTENDS Integers, Sequences, Activity

CONSTANTS None,        \* unknown, absent
          Full,        \* the figure of a job done: 0..Full stands for 0..100 %
          Mowers,      \* the mowers looked at, as records of Mower
          MaxTasks     \* bound on the callbacks waiting, for model checking only

\* What differs from one mower to another: its firmware zeroes the stats when
\* no job runs; every new job's start is announced, with a known trigger; a
\* state answer may be overtaken by what happened since; it has a rain sensor; it
\* meets errors; and, for model checking only, the bound on its jobs.
Mower == [zeroing : BOOLEAN, announced : BOOLEAN, late : BOOLEAN, rains : BOOLEAN,
          faults : BOOLEAN, jobs : Nat]

ASSUME NoneAssumption ==
    None \notin Int \cup {"CLEANING", "PAUSED", "DOCKED", "ERROR", "start", "resume", "stop"}
ASSUME BoundsAssumption == Full \in Nat \ {0} /\ MaxTasks \in Nat \ {0}
ASSUME MowersAssumption == Mowers \subseteq Mower

Figures == 0..Full
States == {"CLEANING", "PAUSED", "DOCKED", "ERROR"}   \* DOCKED stands for RETURNING too

VARIABLES
    kind,      \* which mower it is
    job,       \* how many jobs the mower has begun
    phase,     \* of the last of them: "idle" when it is over
    mowed,     \* and how far it got, past its target perhaps
    truth,     \* the mower's state
    wet,       \* rain stopped it, it has said so, and it has not mown since
    due,       \* the bury point the mower has still to send
    late,      \* the state answer on its way
    busState,  \* the bus's last StateEvent
    busStats,  \* the bus's last MowerStatsEvent: how far it says the job got
    tasks,     \* the sensor's callbacks waiting to run
    lastState, \* _last_state
    jobOver,   \* _job_over
    shown,     \* _attr_native_value
    shownJob   \* history: the job whose event last wrote shown

world == <<kind, job, phase, mowed, truth, wet, due>>
progress == <<jobOver, shown, shownJob>>
sensor == <<lastState, progress, rain>>
vars == <<world, late, busState, busStats, tasks, sensor>>

NoEdge == [phase |-> None, trigger |-> None]
NoAnswer == [state |-> None, job |-> 0]

Init ==
    /\ kind \in Mowers
    /\ job = 0 /\ phase = "idle" /\ mowed = 0 /\ truth = "DOCKED"
    /\ wet = FALSE /\ due = NoEdge
    /\ late = NoAnswer
    /\ busState = None /\ busStats = None /\ tasks = <<>>
    /\ lastState = None /\ jobOver = FALSE /\ shown = None /\ shownJob = 0
    /\ rain = FALSE

-------------------------------------------------------------------------------
(* Events: every one carries the job it is about, for the history only.     *)

StateTask(s, j) == [on |-> "state", state |-> s, job |-> j]
StatsTask(v, j) == [on |-> "stats", figure |-> v, job |-> j]
EdgeTask(e, v, j) == [on |-> "edge", phase |-> e.phase, trigger |-> e.trigger,
                      figure |-> v, job |-> j]
TriggerTask(t) == [on |-> "trigger", trigger |-> t]

\* A StateEvent handed to the bus.
NotifyState(s, j) ==
    /\ Len(tasks) < MaxTasks
    /\ busState' = s
    /\ tasks' = IF s = busState THEN tasks ELSE Append(tasks, StateTask(s, j))

\* A message with a trigger, which is published first and never a repetition.
NotifyMessage(trigger, s, j) ==
    /\ Len(tasks) < MaxTasks
    /\ busState' = s
    /\ tasks' = Append(tasks, TriggerTask(trigger))
                \o IF s = busState THEN <<>> ELSE <<StateTask(s, j)>>

\* A push: it arrives or it is lost.
PushState(s, j) == NotifyState(s, j) \/ UNCHANGED <<busState, tasks>>

-------------------------------------------------------------------------------
(* The mower.                                                               *)

NewTriggers == {"schedule", "app"}
OtherTriggers == {"reborn", "continue"}

\* A new job.
BeginJob ==
    /\ phase = "idle" /\ due = NoEdge /\ job < kind.jobs
    /\ job' = job + 1 /\ phase' = "mowing" /\ mowed' = 0 /\ truth' = "CLEANING"
    /\ due' \in [phase : {"start"},
                 trigger : {"app"} \cup IF kind.announced THEN {} ELSE {"reborn"}]
    /\ wet' = FALSE
    /\ PushState("CLEANING", job + 1)
    /\ UNCHANGED <<kind, late, busStats, sensor>>

Mow ==
    /\ phase = "mowing" /\ mowed <= Full
    /\ mowed' = mowed + 1
    /\ UNCHANGED <<kind, job, phase, truth, wet, due, late, busState, busStats, tasks, sensor>>

\* Where it does not mow.
StandingStates == {"PAUSED", "DOCKED"} \cup IF kind.faults THEN {"ERROR"} ELSE {}

\* A pause by hand, for a charge break, for an error, or for rain whose message
\* is lost; no sensor reads its edge.
Interrupt ==
    /\ phase = "mowing" /\ due = NoEdge
    /\ phase' = "paused"
    /\ truth' \in StandingStates
    /\ PushState(truth', job)
    /\ UNCHANGED <<kind, job, mowed, wet, due, late, busStats, sensor>>

\* Rain, as the mower tells it.
StopForRain ==
    /\ kind.rains
    /\ phase = "mowing" /\ due = NoEdge
    /\ phase' = "paused" /\ wet' = TRUE
    /\ truth' \in {"PAUSED", "DOCKED"}
    /\ NotifyMessage("rain", truth', job)
    /\ UNCHANGED <<kind, job, mowed, due, late, busStats, sensor>>

\* On the dock the message says "workComplete", though it is not.
DockInRain ==
    /\ wet
    /\ truth' = "DOCKED"
    /\ NotifyMessage("workComplete", "DOCKED", job)
    /\ UNCHANGED <<kind, job, phase, mowed, wet, due, late, busStats, sensor>>

\* The job goes on: a resume, or a start that is none.
Continue ==
    /\ phase = "paused" /\ due = NoEdge
    /\ phase' = "mowing" /\ truth' = "CLEANING"
    /\ due' \in {[phase |-> "resume", trigger |-> "continue"],
                 [phase |-> "start", trigger |-> "reborn"]}
    /\ wet' = FALSE
    /\ PushState("CLEANING", job)
    /\ UNCHANGED <<kind, job, mowed, late, busStats, sensor>>

\* Completed, or stopped by somebody.
EndJob(trigger) ==
    /\ phase # "idle" /\ due = NoEdge
    /\ trigger = "workComplete" => phase = "mowing"
    /\ phase' = "idle"
    /\ truth' \in {"PAUSED", "DOCKED"}
    /\ due' = [phase |-> "stop", trigger |-> trigger]
    /\ PushState(truth', job)
    /\ UNCHANGED <<kind, job, mowed, wet, late, busStats, sensor>>

\* A mower that does not mow drives home, meets an error or recovers from it.
Settle ==
    /\ phase # "mowing"
    /\ truth' \in StandingStates \ {truth}
    /\ PushState(truth', job)
    /\ UNCHANGED <<kind, job, phase, mowed, wet, due, late, busStats, sensor>>

\* The bury point, a while after the state it belongs to.  The areas of a stop
\* may be unusable.
Announce ==
    /\ due # NoEdge
    /\ Len(tasks) < MaxTasks
    /\ due' = NoEdge
    /\ \E figure \in {None} \cup IF due.phase = "stop" THEN {mowed} ELSE {} :
          tasks' = Append(tasks, EdgeTask(due, figure, job))
    /\ UNCHANGED <<kind, job, phase, mowed, truth, wet, late, busState, busStats, sensor>>

\* Or it never comes.
AnnouncementLost ==
    /\ due # NoEdge
    /\ ~(kind.announced /\ due.phase = "start" /\ due.trigger \in NewTriggers)
    /\ due' = NoEdge
    /\ UNCHANGED <<kind, job, phase, mowed, truth, wet, late, busState, busStats, tasks, sensor>>

-------------------------------------------------------------------------------
(* What the mower is asked, by the tick or by hand.                         *)

\* The pair of areas as a ratio; unreadable when the firmware zeroes it, which
\* it may still do as a job begins.
Reading ==
    IF phase = "idle" THEN {IF kind.zeroing THEN None ELSE mowed}
    ELSE {mowed} \cup IF kind.zeroing /\ mowed = 0 THEN {None} ELSE {}

\* The areas are in square centimetres, much finer than the figure, so no two
\* readings of a mower that is cutting repeat each other.
Repeats(v) == v = busStats /\ (phase # "mowing" \/ v = None)

Stats ==
    /\ Len(tasks) < MaxTasks
    /\ busStats' \in Reading
    /\ tasks' = IF Repeats(busStats') THEN tasks ELSE Append(tasks, StatsTask(busStats', job))
    /\ UNCHANGED <<world, late, busState, sensor>>

\* A state refresh whose answer nothing overtakes.
Poll ==
    /\ NotifyState(truth, job)
    /\ UNCHANGED <<world, late, busStats, sensor>>

AnswerLeaves ==
    /\ kind.late
    /\ late = NoAnswer
    /\ late' = [state |-> truth, job |-> job]
    /\ UNCHANGED <<world, busState, busStats, tasks, sensor>>

AnswerArrives ==
    /\ late # NoAnswer
    /\ NotifyState(late.state, late.job)
    /\ late' = NoAnswer
    /\ UNCHANGED <<world, busStats, sensor>>

-------------------------------------------------------------------------------
(* The sensor.                                                              *)

Running(handler) == tasks # <<>> /\ Head(tasks).on = handler /\ tasks' = Tail(tasks)

Write(v) == shown' = v /\ shownJob' = Head(tasks).job
LeaveShown == UNCHANGED <<shown, shownJob>>

TrustedStates == {"CLEANING", "PAUSED"}

\* Mutated form: a mower that cut more than its target is past 100 %.
ProgressUncapped(v) == v

\* _progress: the percentage of what was read.
Progress(v) == IF v \in Int /\ v > Full THEN Full ELSE v

\* _on_stats: a figure for a job that may be running, if there is one.
OnStats ==
    /\ Running("stats")
    /\ LET v == Progress(Head(tasks).figure)
       IN  IF ~jobOver /\ lastState \in TrustedStates /\ v # None /\ v # shown
           THEN Write(v) ELSE LeaveShown
    /\ UNCHANGED <<world, late, busState, busStats, lastState, jobOver, rain>>

\* Mutated form: starting to cut is taken for a new job.
OnStateAlwaysResets ==
    /\ Running("state")
    /\ lastState' = Head(tasks).state
    /\ IF Head(tasks).state = "CLEANING" /\ lastState # "CLEANING"
       THEN jobOver' = FALSE /\ Write(0)
       ELSE UNCHANGED jobOver /\ LeaveShown
    /\ RainOnState(Head(tasks).state)
    /\ UNCHANGED <<world, late, busState, busStats>>

\* _on_state: entering CLEANING after a job that is over is a new one.  The
\* activity sensor's callback comes with it.
OnState ==
    /\ Running("state")
    /\ lastState' = Head(tasks).state
    /\ IF Head(tasks).state = "CLEANING" /\ lastState # "CLEANING" /\ jobOver
       THEN jobOver' = FALSE /\ Write(0)
       ELSE UNCHANGED jobOver /\ LeaveShown
    /\ RainOnState(Head(tasks).state)
    /\ UNCHANGED <<world, late, busState, busStats>>

\* Mutated form: a completion is written whether or not it can be read.
CompleteUnguarded(e) ==
    IF e.trigger = "workComplete" THEN Write(Progress(e.figure)) ELSE LeaveShown

\* A completion is written; one nobody can put a number on leaves the figure.
Complete(e) ==
    IF e.trigger = "workComplete" /\ Progress(e.figure) # None
    THEN Write(Progress(e.figure)) ELSE LeaveShown

\* Mutated form: no announcement lowers the latch.
OnJobEdgeStopsOnly ==
    /\ Running("edge")
    /\ IF Head(tasks).phase = "stop"
       THEN jobOver' = TRUE /\ Complete(Head(tasks))
       ELSE UNCHANGED jobOver /\ LeaveShown
    /\ UNCHANGED <<world, late, busState, busStats, lastState, rain>>

\* _on_job_edge: a new job resets, any stop latches, a completion is written.
OnJobEdge ==
    /\ Running("edge")
    /\ LET e == Head(tasks)
       IN  \/ /\ e.phase = "start" /\ e.trigger \in NewTriggers
              /\ jobOver' = FALSE
              /\ IF jobOver THEN Write(0) ELSE LeaveShown
           \/ /\ e.phase = "stop"
              /\ jobOver' = TRUE
              /\ Complete(e)
           \/ /\ e.phase = "resume" \/ (e.phase = "start" /\ e.trigger \in OtherTriggers)
              /\ UNCHANGED jobOver
              /\ LeaveShown
    /\ UNCHANGED <<world, late, busState, busStats, lastState, rain>>

\* The activity sensor's _on_trigger.
OnTrigger ==
    /\ Running("trigger")
    /\ RainOnTrigger(Head(tasks).trigger)
    /\ UNCHANGED <<world, late, busState, busStats, lastState, progress>>

Callback == OnStats \/ OnState \/ OnJobEdge \/ OnTrigger

Next ==
    \/ BeginJob
    \/ Mow
    \/ Interrupt
    \/ StopForRain
    \/ DockInRain
    \/ Continue
    \/ \E trigger \in {"workComplete", "app"} : EndJob(trigger)
    \/ Settle
    \/ Announce
    \/ AnnouncementLost
    \/ Stats
    \/ Poll
    \/ AnswerLeaves
    \/ AnswerArrives
    \/ Callback

\* The event loop runs its tasks; the tick asks again and again for the state
\* and the stats, and is answered again and again; what is due to be announced
\* is announced or lost.  Strong, where a full queue may stand in the way for a
\* moment.
Fairness ==
    /\ WF_vars(Callback)
    /\ SF_vars(Poll)
    /\ SF_vars(Stats)
    /\ SF_vars(Announce \/ AnnouncementLost)

Spec == Init /\ [][Next]_vars /\ Fairness

-------------------------------------------------------------------------------
(* Properties.                                                              *)

Edges == [phase : {"start", "resume", "stop"},
          trigger : NewTriggers \cup OtherTriggers \cup {"workComplete"}]

\* Every variable has its type; a mower that mows says so when asked.
TypeOK ==
    /\ kind \in Mowers
    /\ job \in 0..kind.jobs
    /\ phase \in {"idle", "mowing", "paused"}
    /\ mowed \in 0..Full + 1
    /\ truth \in States /\ (truth = "CLEANING" <=> phase = "mowing")
    /\ wet \in BOOLEAN /\ rain \in BOOLEAN
    /\ due \in Edges \cup {NoEdge}
    /\ late \in [state : States, job : 0..kind.jobs] \cup {NoAnswer}
    /\ {busState, lastState} \subseteq States \cup {None}
    /\ busStats \in 0..Full + 1 \cup {None}
    /\ shown \in Figures \cup {None}
    /\ Len(tasks) <= MaxTasks + 1
    /\ jobOver \in BOOLEAN
    /\ shownJob \in 0..kind.jobs

Rank(v) == IF v = None THEN -1 ELSE v

\* The figure of one job does not fall from one step to the next.
Rising == shownJob' = shownJob => Rank(shown') >= Rank(shown)

\* Within one job the figure never falls: not through a charge break, a reborn
\* start or a zeroed answer while it runs, and not after its completion, which
\* stands until another job writes (issue #73), unless an answer comes late.  And
\* it is never taken back to unknown, however late the answers, and though a
\* completion comes with areas nobody can read.
FigureNeverFalls ==
    [][(~kind.late => Rising) /\ (shown # None => shown' # None)]_vars

\* A job that goes on mowing has its own figure shown in the end, whatever was
\* lost of the one before.  Its start must be announced: behind a latch that
\* was set while CLEANING was the last state, nothing else lowers it.
RunningJobIsShown ==
    (kind.announced /\ phase = "mowing")
        ~> (phase # "mowing" \/ shownJob = job \/ shown = Progress(mowed))

\* Once the callbacks have run, a mower that told of rain is shown waiting for
\* it until it mows again, docked or not and whatever triggers follow, unless it
\* was last heard in error, which is shown instead while it lasts and not after
\* it, or an answer comes late; and a mower last heard mowing leaves no rain to
\* be told at its next stop, though no message says that the rain is over.
RainStopIsTold ==
    tasks = <<>> =>
        /\ wet /\ ~kind.late =>
              \/ Activity(lastState) \in {"paused_rain", "docked_rain_delay"}
              \/ lastState = "ERROR"
        /\ lastState = "CLEANING" => ~rain

===============================================================================
