------------------------------- MODULE JobEvents -------------------------------
(***************************************************************************)
(* The two event entities (event.py): the last mowing job, fed by the      *)
(* library's job report and by the mower's stop announcement, and the job  *)
(* started, fed by its start and resume announcements.                     *)
(*                                                                         *)
(* Firing an event runs automations, so what must not happen is an ending  *)
(* fired twice or not at all.  The bus hands its last event of a type to   *)
(* every new subscriber, and a changed entity ID removes and adds again    *)
(* the same objects: both entities are replayed what they have seen.       *)
(***************************************************************************)
EXTENDS Naturals, Sequences

CONSTANTS None,      \* no event
          MaxJobs,   \* bound on the jobs, for model checking only
          MaxEvents, \* bound on the events, for model checking only
          MaxTasks   \* bound on the callbacks waiting, for model checking only

ASSUME BoundsAssumption == {MaxJobs, MaxEvents, MaxTasks} \subseteq Nat

\* The trigger words: those that tell how a job ended, those that start one,
\* and a word on neither list.
EndTriggers == {"workComplete", "app"}
StartTriggers == {"schedule", "app", "continue", "reborn"}
Words == {"workComplete", "app", "other"}

\* What an event may say, and of what.
AllWords == Words \cup StartTriggers \cup {"lowBattery", "FINISHED", "CLEANING"}
Kinds == {"start", "resume", "pause", "stop", "report"}

ASSUME NoneAssumption ==
    None \notin [id : Nat, job : Nat, kind : Kinds, word : AllWords]

VARIABLES
    job,        \* how many jobs have begun
    running,    \* the last of them still runs
    toReport,   \* the library's report of its end may still come
    toAnnounce, \* its stop announcement may still come
    count,      \* the events made so far: an event's identity is its number
    lastReport, \* the bus's last ReportStatsEvent
    lastEdge,   \* the bus's last MowerJobEdgeEvent
    added,      \* the entities are added
    tasks,      \* their callbacks waiting to run, oldest first
    seen,       \* _library_source_seen
    ending,     \* _reported_ending
    start,      \* _reported_start
    fired,      \* history: the events that were fired, in order
    heard       \* history: the endings the entity was told of, the announced
                \* ones only until the library reported one

mower == <<job, running, toReport, toAnnounce>>
bus == <<count, lastReport, lastEdge>>
entities == <<seen, ending, start>>
vars == <<mower, bus, added, tasks, entities, fired, heard>>

Event(kind, word) == [id |-> count + 1, job |-> job, kind |-> kind, word |-> word]

Init ==
    /\ job = 0 /\ running = FALSE /\ toReport = FALSE /\ toAnnounce = FALSE
    /\ count = 0 /\ lastReport = None /\ lastEdge = None
    /\ added = TRUE /\ tasks = <<>>
    /\ seen = FALSE /\ ending = None /\ start = None
    /\ fired = <<>> /\ heard = {}

-------------------------------------------------------------------------------
(* The mower and the bus.                                                   *)

\* The callbacks of an event: the last-job entity's, then the started one's.
Callbacks(e) ==
    IF e.kind = "report" THEN <<[on |-> "report", event |-> e]>>
    ELSE <<[on |-> "jobEdge", event |-> e], [on |-> "startEdge", event |-> e]>>

Notify(e) ==
    /\ count < MaxEvents
    /\ Len(tasks) + 2 <= MaxTasks
    /\ count' = count + 1
    /\ IF e.kind = "report" THEN lastReport' = e /\ UNCHANGED lastEdge
                            ELSE lastEdge' = e /\ UNCHANGED lastReport
    /\ tasks' = IF added THEN tasks \o Callbacks(e) ELSE tasks
    /\ UNCHANGED <<added, entities, fired, heard>>

BeginJob(word) ==
    /\ ~running /\ job < MaxJobs
    /\ job' = job + 1 /\ running' = TRUE /\ toReport' = FALSE /\ toAnnounce' = FALSE
    /\ Notify([Event("start", word) EXCEPT !.job = job'])

\* An announcement or a report in mid-job: a resume, a pause, a job "cleaning".
MidJob(kind, word) ==
    /\ running
    /\ Notify(Event(kind, word))
    /\ UNCHANGED mower

EndJob ==
    /\ running
    /\ running' = FALSE /\ toReport' = TRUE /\ toAnnounce' = TRUE
    /\ UNCHANGED <<job, bus, added, tasks, entities, fired, heard>>

\* What tells of the end, in either order, or not at all.
Announce(word) ==
    /\ toAnnounce
    /\ toAnnounce' = FALSE
    /\ Notify(Event("stop", word))
    /\ UNCHANGED <<job, running, toReport>>

Report ==
    /\ toReport
    /\ toReport' = FALSE
    /\ Notify(Event("report", "FINISHED"))
    /\ UNCHANGED <<job, running, toAnnounce>>

-------------------------------------------------------------------------------
(* Adding and removing the entities.                                        *)

\* A callback already made a task still runs.
Remove ==
    /\ added
    /\ added' = FALSE
    /\ UNCHANGED <<mower, bus, tasks, entities, fired, heard>>

\* The subscriptions replay.
Add ==
    /\ ~added
    /\ Len(tasks) + 3 <= MaxTasks
    /\ added' = TRUE
    /\ tasks' = tasks \o (IF lastReport = None THEN <<>> ELSE Callbacks(lastReport))
                      \o (IF lastEdge = None THEN <<>> ELSE Callbacks(lastEdge))
    /\ UNCHANGED <<mower, bus, entities, fired, heard>>

-------------------------------------------------------------------------------
(* The callbacks.                                                           *)

Running(handler) == tasks # <<>> /\ Head(tasks).on = handler /\ tasks' = Tail(tasks)
This == Head(tasks).event
Fire == fired' = Append(fired, This)

\* History: the endings handled, the announced ones up to the first report.
IsEnding == This.kind = "stop" /\ This.word \in EndTriggers
IsReport == This.kind = "report" /\ This.word # "CLEANING"
Hear ==
    heard' = IF IsReport \/ (IsEnding /\ \A e \in heard : e.kind = "stop")
             THEN heard \cup {This} ELSE heard

\* Mutated form: any report of the library stands the announcements down.
OnReportLatchesOnArrival ==
    /\ Running("report")
    /\ seen' = TRUE
    /\ IF This.word = "CLEANING" \/ This = ending
       THEN UNCHANGED <<ending, fired>>
       ELSE ending' = This /\ Fire
    /\ Hear
    /\ UNCHANGED <<mower, bus, added, start>>

\* _on_report
OnReport ==
    /\ Running("report")
    /\ seen' = (seen \/ This.word # "CLEANING")
    /\ IF This.word = "CLEANING" \/ This = ending
       THEN UNCHANGED <<ending, fired>>
       ELSE ending' = This /\ Fire
    /\ Hear
    /\ UNCHANGED <<mower, bus, added, start>>

\* Mutated form: the library's report does not stand the announcements down.
OnJobEdgeBothSources ==
    /\ Running("jobEdge")
    /\ IF IsEnding /\ This # ending
       THEN ending' = This /\ Fire
       ELSE UNCHANGED <<ending, fired>>
    /\ Hear
    /\ UNCHANGED <<mower, bus, added, seen, start>>

\* EcovacsLastJobEventEntity._on_job_edge
OnJobEdge ==
    /\ Running("jobEdge")
    /\ IF ~seen /\ IsEnding /\ This # ending
       THEN ending' = This /\ Fire
       ELSE UNCHANGED <<ending, fired>>
    /\ Hear
    /\ UNCHANGED <<mower, bus, added, seen, start>>

\* Mutated form: the app's word starts a job in whatever phase it comes.
OnStartEdgeAnyPhase ==
    /\ Running("startEdge")
    /\ IF This.word \in StartTriggers /\ This # start
       THEN start' = This /\ Fire
       ELSE UNCHANGED <<start, fired>>
    /\ UNCHANGED <<mower, bus, added, seen, ending, heard>>

\* EcovacsJobStartedEventEntity._on_job_edge
OnStartEdge ==
    /\ Running("startEdge")
    /\ IF This.kind \in {"start", "resume"} /\ This.word \in StartTriggers /\ This # start
       THEN start' = This /\ Fire
       ELSE UNCHANGED <<start, fired>>
    /\ UNCHANGED <<mower, bus, added, seen, ending, heard>>

Next ==
    \/ \E word \in {"app", "other"} : BeginJob(word)
    \/ MidJob("resume", "continue")
    \/ MidJob("pause", "lowBattery")
    \/ MidJob("report", "CLEANING")
    \/ EndJob
    \/ \E word \in Words : Announce(word)
    \/ Report
    \/ Remove
    \/ Add
    \/ OnReport
    \/ OnJobEdge
    \/ OnStartEdge

Spec == Init /\ [][Next]_vars

-------------------------------------------------------------------------------
(* Properties.                                                              *)

Events(kinds) == [id : 1..MaxEvents, job : 0..MaxJobs, kind : kinds, word : AllWords]

\* Every variable has its type: what stands as the last ending tells of an end,
\* what stands as the last start of a start or a resume.
TypeOK ==
    /\ {job, count} \subseteq Nat /\ job <= MaxJobs /\ count <= MaxEvents
    /\ {running, toReport, toAnnounce, added, seen} \subseteq BOOLEAN
    /\ lastReport \in Events({"report"}) \cup {None}
    /\ lastEdge \in Events({"start", "resume", "pause", "stop"}) \cup {None}
    /\ \A i \in DOMAIN tasks :
        /\ tasks[i].on \in {"report", "jobEdge", "startEdge"}
        /\ tasks[i].event \in Events(Kinds)
    /\ Len(tasks) <= MaxTasks
    /\ ending \in Events({"report", "stop"}) \cup {None}
    /\ start \in Events({"start", "resume"}) \cup {None}
    /\ heard \subseteq Events({"stop", "report"})

EventsMade == {fired[i] : i \in DOMAIN fired}
TellsOfEnd(e) == e.kind \in {"stop", "report"}

\* No event is fired twice, however often the entities are removed, added and
\* replayed; and a job is fired as ended once, though report and announcement
\* both tell of it, except the job of the first report, which the announcement
\* may precede.
FiredOnce ==
    \A i, j \in DOMAIN fired :
        /\ fired[i] = fired[j] => i = j
        /\ i < j /\ TellsOfEnd(fired[i]) /\ TellsOfEnd(fired[j]) /\ fired[i].job = fired[j].job =>
               /\ fired[j].kind = "report"
               /\ \A k \in 1..(j - 1) : fired[k].kind # "report"

\* While the library has reported no ending, every announced one is fired: job
\* reports that tell of no ending do not silence the announcements (issue #74).
\* The endings it reports are fired all.
AnnouncedEndingFires == heard \subseteq EventsMade

===============================================================================
