----------------------------- MODULE JobEventsProofs -----------------------------
(***************************************************************************)
(* Theorems about JobEvents, for any number of jobs, events and waiting    *)
(* callbacks: its type invariant, that every ending the entity has to tell *)
(* of is fired, and that none is fired twice.                              *)
(***************************************************************************)
EXTENDS JobEvents, SequenceTheorems, TLAPS

EdgeKinds == {"start", "resume", "pause", "stop"}

\* A callback waits with an event of its own type.
Tasks == [on : {"report"}, event : Events({"report"})]
         \cup [on : {"jobEdge", "startEdge"}, event : Events(EdgeKinds)]

\* What _reported_ending holds was fired.
EndingWasFired == ending # None => ending \in EventsMade

\* The announcements stand down only for a report that told of an ending.
SeenWasHeard == seen => \E e \in heard : e.kind = "report"

IInv ==
    /\ TypeOK
    /\ tasks \in Seq(Tasks)
    /\ fired \in Seq(Events(Kinds))
    /\ EndingWasFired
    /\ SeenWasHeard
    /\ AnnouncedEndingFires

-------------------------------------------------------------------------------

LEMMA Bounds == MaxJobs \in Nat /\ MaxEvents \in Nat /\ MaxTasks \in Nat
BY BoundsAssumption

LEMMA NoneApart == None \notin Events(Kinds)
<1> SUFFICES ASSUME None \in Events(Kinds) PROVE FALSE
  OBVIOUS
<1>1. Events(Kinds) \subseteq [id : Nat, job : Nat, kind : Kinds, word : AllWords]
  BY Bounds DEF Events
<1> QED BY <1>1, NoneAssumption

LEMMA InitInv == Init => IInv
<1> SUFFICES ASSUME Init PROVE IInv
  OBVIOUS
<1>1. tasks \in Seq(Tasks) /\ Len(tasks) = 0 /\ DOMAIN tasks = {}
  BY EmptySeq DEF Init
<1>2. fired \in Seq(Events(Kinds))
  BY EmptySeq DEF Init
<1>3. TypeOK
  <2>1. {job, count} \subseteq Nat /\ job <= MaxJobs /\ count <= MaxEvents
    BY Bounds DEF Init
  <2>2. Len(tasks) <= MaxTasks
    BY <1>1, Bounds
  <2>3. {running, toReport, toAnnounce, added, seen} \subseteq BOOLEAN
    BY DEF Init
  <2> QED BY <1>1, <2>1, <2>2, <2>3 DEF Init, TypeOK
<1> QED BY <1>1, <1>2, <1>3 DEF IInv, Init, EndingWasFired, SeenWasHeard, AnnouncedEndingFires

\* The callbacks of an event, behind those that wait.
LEMMA Called ==
    ASSUME NEW s \in Seq(Tasks), NEW e \in Events(Kinds)
    PROVE  /\ s \o Callbacks(e) \in Seq(Tasks)
           /\ Len(s \o Callbacks(e)) \in {Len(s) + 1, Len(s) + 2}
           /\ e.kind = "report" => Len(s \o Callbacks(e)) = Len(s) + 1
<1> DEFINE c == Callbacks(e)
<1>1. CASE e.kind = "report"
  <2>1. [on |-> "report", event |-> e] \in Tasks
    BY <1>1 DEF Tasks, Events
  <2>2. c = <<[on |-> "report", event |-> e]>>
    BY <1>1 DEF Callbacks
  <2>3. c \in Seq(Tasks) /\ Len(c) = 1
    BY <2>1, <2>2
  <2> HIDE DEF c
  <2>4. s \o c \in Seq(Tasks) /\ Len(s \o c) = Len(s) + Len(c)
    BY <2>3, ConcatProperties
  <2> QED BY <2>3, <2>4 DEF c
<1>2. CASE e.kind # "report"
  <2>1. e \in Events(EdgeKinds)
    BY <1>2 DEF Events, Kinds, EdgeKinds
  <2>2. /\ [on |-> "jobEdge", event |-> e] \in Tasks
        /\ [on |-> "startEdge", event |-> e] \in Tasks
    BY <2>1 DEF Tasks
  <2>3. c = <<[on |-> "jobEdge", event |-> e], [on |-> "startEdge", event |-> e]>>
    BY <1>2 DEF Callbacks
  <2>4. c \in Seq(Tasks) /\ Len(c) = 2
    BY <2>2, <2>3
  <2> HIDE DEF c
  <2>5. s \o c \in Seq(Tasks) /\ Len(s \o c) = Len(s) + Len(c)
    BY <2>4, ConcatProperties
  <2> QED BY <1>2, <2>4, <2>5 DEF c
<1> QED BY <1>1, <1>2

\* Events that wait are typed as TypeOK says.
LEMMA TasksTyped ==
    ASSUME NEW s \in Seq(Tasks)
    PROVE  \A i \in DOMAIN s :
               /\ s[i].on \in {"report", "jobEdge", "startEdge"}
               /\ s[i].event \in Events(Kinds)
<1>1. \A i \in DOMAIN s : s[i] \in Tasks
  BY ElementOfSeq, LenProperties
<1>2. Events({"report"}) \subseteq Events(Kinds) /\ Events(EdgeKinds) \subseteq Events(Kinds)
  BY DEF Events, Kinds, EdgeKinds
<1> QED BY <1>1, <1>2 DEF Tasks

\* The mower tells of something: the entities have not handled it yet.
LEMMA NotifyStep ==
    ASSUME IInv, NEW kind \in Kinds, NEW e, e.kind = kind,
           e \in [id : {count + 1}, job : 0..MaxJobs, kind : {kind},
                  word : AllWords],
           Notify(e),
           job' \in Nat, job' <= MaxJobs,
           {running', toReport', toAnnounce'} \subseteq BOOLEAN
    PROVE  IInv'
<1>1. TypeOK /\ tasks \in Seq(Tasks)
  BY DEF IInv
<1>2. count \in Nat /\ count < MaxEvents /\ count' = count + 1
  BY <1>1 DEF Notify, TypeOK
<1>3. count + 1 \in 1..MaxEvents
  BY <1>2, Bounds
<1>4. e \in Events({kind}) /\ e \in Events(Kinds)
  BY <1>3 DEF Events
<1>5. tasks' \in Seq(Tasks) /\ Len(tasks') <= MaxTasks
  <2>1. Len(tasks) \in Nat /\ Len(tasks) + 2 <= MaxTasks
    BY <1>1, LenProperties DEF Notify
  <2>2. CASE added
    <3>1. tasks' = tasks \o Callbacks(e)
      BY <2>2 DEF Notify
    <3>2. tasks' \in Seq(Tasks) /\ Len(tasks') \in {Len(tasks) + 1, Len(tasks) + 2}
      BY <1>1, <1>4, <3>1, Called
    <3> QED BY <2>1, <3>2, Bounds
  <2>3. CASE ~added
    <3>1. tasks' = tasks
      BY <2>3 DEF Notify
    <3> QED BY <1>1, <2>1, <3>1, Bounds
  <2> QED BY <2>2, <2>3
<1>6. /\ lastReport' \in Events({"report"}) \cup {None}
      /\ lastEdge' \in Events(EdgeKinds) \cup {None}
  <2>1. CASE kind = "report"
    BY <1>1, <1>4, <2>1 DEF Notify, TypeOK, EdgeKinds
  <2>2. CASE kind # "report"
    <3>1. e \in Events(EdgeKinds)
      BY <1>4, <2>2 DEF Events, Kinds, EdgeKinds
    <3> QED BY <1>1, <3>1, <2>2 DEF Notify, TypeOK
  <2> QED BY <2>1, <2>2
<1>7. UNCHANGED <<added, seen, ending, start, fired, heard>>
  BY DEF Notify, entities
<1>8. {job', count'} \subseteq Nat /\ count' <= MaxEvents
  BY <1>2, Bounds
<1>9. {running', toReport', toAnnounce', added', seen'} \subseteq BOOLEAN
  BY <1>1, <1>7 DEF TypeOK
<1>10. TypeOK'
  BY <1>1, <1>5, <1>6, <1>7, <1>8, <1>9, TasksTyped DEF TypeOK, Kinds, EdgeKinds
<1> QED
  BY <1>5, <1>7, <1>10
  DEF IInv, EndingWasFired, SeenWasHeard, AnnouncedEndingFires, EventsMade

LEMMA MowerStep ==
    ASSUME IInv,
           \/ \E word \in {"app", "other"} : BeginJob(word)
           \/ MidJob("resume", "continue")
           \/ MidJob("pause", "lowBattery")
           \/ MidJob("report", "CLEANING")
           \/ \E word \in Words : Announce(word)
           \/ Report
    PROVE  IInv'
<1>1. /\ job \in Nat /\ job <= MaxJobs /\ job \in 0..MaxJobs
      /\ {running, toReport, toAnnounce} \subseteq BOOLEAN
  BY Bounds DEF IInv, TypeOK
<1>2. ASSUME NEW word \in {"app", "other"}, BeginJob(word) PROVE IInv'
  <2>1. job' = job + 1 /\ job < MaxJobs
    BY <1>2 DEF BeginJob
  <2>2. job' \in Nat /\ job' <= MaxJobs /\ job' \in 0..MaxJobs
    BY <1>1, <2>1, Bounds
  <2>3. {running', toReport', toAnnounce'} \subseteq BOOLEAN
    BY <1>2 DEF BeginJob
  <2>4. Notify([Event("start", word) EXCEPT !.job = job'])
    BY <1>2 DEF BeginJob
  <2> QED BY <2>2, <2>3, <2>4, NotifyStep DEF Event, AllWords, Words, Kinds
<1>3. ASSUME NEW kind \in {"resume", "pause", "report"},
             NEW word \in {"continue", "lowBattery", "CLEANING"}, MidJob(kind, word)
      PROVE  IInv'
  <2>1. Notify(Event(kind, word)) /\ UNCHANGED <<job, running, toReport, toAnnounce>>
    BY <1>3 DEF MidJob, mower
  <2> QED BY <1>1, <2>1, NotifyStep DEF Event, AllWords, StartTriggers, Kinds
<1>4. ASSUME NEW word \in Words, Announce(word) PROVE IInv'
  <2>1. /\ Notify(Event("stop", word)) /\ toAnnounce' = FALSE
        /\ UNCHANGED <<job, running, toReport>>
    BY <1>4 DEF Announce
  <2> QED BY <1>1, <2>1, NotifyStep DEF Event, AllWords, Kinds
<1>5. CASE Report
  <2>1. /\ Notify(Event("report", "FINISHED")) /\ toReport' = FALSE
        /\ UNCHANGED <<job, running, toAnnounce>>
    BY <1>5 DEF Report
  <2> QED BY <1>1, <2>1, NotifyStep DEF Event, AllWords, Kinds
<1> QED BY <1>2, <1>3, <1>4, <1>5

\* A job ends untold, the entities go: no event, no callback.
LEMMA QuietStep ==
    ASSUME IInv, EndJob \/ Remove \/ UNCHANGED vars
    PROVE  IInv'
<1>1. /\ UNCHANGED <<job, count, lastReport, lastEdge, tasks, seen, ending, start, fired, heard>>
      /\ {running', toReport', toAnnounce', added'} \subseteq BOOLEAN
  BY DEF IInv, TypeOK, EndJob, Remove, vars, mower, bus, entities
<1>2. TypeOK'
  BY <1>1 DEF IInv, TypeOK
<1> QED
  BY <1>1, <1>2
  DEF IInv, EndingWasFired, SeenWasHeard, AnnouncedEndingFires, EventsMade

\* The entities are added again: they are replayed the last events.
LEMMA AddStep ==
    ASSUME IInv, Add
    PROVE  IInv'
<1> DEFINE first == tasks \o (IF lastReport = None THEN <<>> ELSE Callbacks(lastReport))
<1>1. TypeOK /\ tasks \in Seq(Tasks) /\ Len(tasks) \in Nat
  BY LenProperties DEF IInv
<1>2. /\ lastReport # None => lastReport \in Events(Kinds) /\ lastReport.kind = "report"
      /\ lastEdge # None => lastEdge \in Events(Kinds)
  BY <1>1 DEF TypeOK, Events, Kinds, EdgeKinds
<1>3. first \in Seq(Tasks) /\ Len(first) \in {Len(tasks), Len(tasks) + 1}
  <2>1. CASE lastReport = None
    BY <1>1, <2>1, ConcatEmptySeq
  <2>2. CASE lastReport # None
    <3>1. Len(tasks \o Callbacks(lastReport)) = Len(tasks) + 1
      BY <1>1, <1>2, <2>2, Called
    <3> QED BY <1>1, <1>2, <2>2, <3>1, Called
  <2> QED BY <2>1, <2>2
<1>4. tasks' = first \o (IF lastEdge = None THEN <<>> ELSE Callbacks(lastEdge))
  BY DEF Add
<1> HIDE DEF first
<1>5. tasks' \in Seq(Tasks) /\ Len(tasks') \in {Len(first), Len(first) + 1, Len(first) + 2}
  <2>1. CASE lastEdge = None
    BY <1>3, <1>4, <2>1, ConcatEmptySeq
  <2>2. CASE lastEdge # None
    BY <1>2, <1>3, <1>4, <2>2, Called
  <2> QED BY <2>1, <2>2
<1>6. Len(tasks') <= MaxTasks
  <2>1. Len(tasks) + 3 <= MaxTasks
    BY DEF Add
  <2> QED BY <1>1, <1>3, <1>5, <2>1, Bounds
<1>7. UNCHANGED <<job, running, toReport, toAnnounce, count, lastReport, lastEdge,
                  seen, ending, start, fired, heard>> /\ added' = TRUE
  BY DEF Add, mower, bus, entities
<1>8. TypeOK'
  BY <1>1, <1>5, <1>6, <1>7, TasksTyped DEF TypeOK, Kinds, EdgeKinds
<1> QED
  BY <1>5, <1>7, <1>8
  DEF IInv, EndingWasFired, SeenWasHeard, AnnouncedEndingFires, EventsMade

\* A callback leaves the queue.
LEMMA Ran ==
    ASSUME IInv, NEW handler, Running(handler)
    PROVE  /\ This \in Events(Kinds) /\ This # None
           /\ handler = "report" => This \in Events({"report"})
           /\ handler \in {"jobEdge", "startEdge"} => This \in Events(EdgeKinds)
           /\ tasks' \in Seq(Tasks) /\ Len(tasks') <= MaxTasks
<1>1. TypeOK /\ tasks \in Seq(Tasks) /\ tasks # <<>> /\ Head(tasks).on = handler
  BY DEF IInv, Running
<1>2. /\ Head(tasks) \in Tasks /\ tasks' \in Seq(Tasks)
      /\ Len(tasks') = Len(tasks) - 1 /\ Len(tasks) \in Nat
  BY <1>1, HeadTailProperties, LenProperties DEF Running
<1>3. Len(tasks') <= MaxTasks
  BY <1>1, <1>2, Bounds DEF TypeOK
<1>4. /\ handler = "report" => This \in Events({"report"})
      /\ handler \in {"jobEdge", "startEdge"} => This \in Events(EdgeKinds)
      /\ This \in Events({"report"}) \cup Events(EdgeKinds)
  BY <1>1, <1>2 DEF Tasks, This
<1>5. This \in Events(Kinds)
  BY <1>4 DEF Events, Kinds, EdgeKinds
<1> QED BY <1>2, <1>3, <1>4, <1>5, NoneApart

\* Firing an event adds it to those that were fired.
LEMMA Fires ==
    ASSUME fired \in Seq(Events(Kinds)), This \in Events(Kinds), Fire
    PROVE  /\ fired' \in Seq(Events(Kinds))
           /\ EventsMade' = EventsMade \cup {This}
<1>1. fired' = Append(fired, This)
  BY DEF Fire
<1>2. /\ fired' \in Seq(Events(Kinds)) /\ Len(fired') = Len(fired) + 1
      /\ \A i \in 1..Len(fired) : fired'[i] = fired[i]
      /\ fired'[Len(fired) + 1] = This
      /\ DOMAIN fired = 1..Len(fired) /\ DOMAIN fired' = 1..Len(fired) + 1
      /\ Len(fired) \in Nat
  BY <1>1, AppendProperties, LenProperties
<1>3. \A i \in 1..Len(fired) + 1 : i \in 1..Len(fired) \/ i = Len(fired) + 1
  BY <1>2
<1>4. 1..Len(fired) \subseteq 1..Len(fired) + 1 /\ Len(fired) + 1 \in 1..Len(fired) + 1
  BY <1>2
<1>5. ASSUME NEW e \in EventsMade' PROVE e \in EventsMade \cup {This}
  BY <1>2, <1>3, <1>5 DEF EventsMade
<1>6. ASSUME NEW e \in EventsMade \cup {This} PROVE e \in EventsMade'
  BY <1>2, <1>4, <1>6 DEF EventsMade
<1> QED BY <1>2, <1>5, <1>6

LEMMA ReportStep ==
    ASSUME IInv, OnReport
    PROVE  IInv'
<1>1. /\ This \in Events(Kinds) /\ This # None /\ This \in Events({"report"})
      /\ tasks' \in Seq(Tasks) /\ Len(tasks') <= MaxTasks
  BY Ran DEF OnReport
<1>2. This.kind = "report" /\ This \in Events({"report", "stop"})
  BY <1>1 DEF Events
<1>3. UNCHANGED <<job, running, toReport, toAnnounce, count, lastReport, lastEdge, added, start>>
  BY DEF OnReport, mower, bus
<1>4. /\ fired' \in Seq(Events(Kinds)) /\ EventsMade \subseteq EventsMade'
      /\ ending' \in Events({"report", "stop"}) \cup {None}
      /\ ending' # None => ending' \in EventsMade'
      /\ This.word # "CLEANING" => This \in EventsMade'
  <2>1. CASE This.word = "CLEANING" \/ This = ending
    BY <1>1, <2>1 DEF OnReport, IInv, TypeOK, EndingWasFired, EventsMade
  <2>2. CASE ~(This.word = "CLEANING" \/ This = ending)
    <3>1. ending' = This /\ Fire
      BY <2>2 DEF OnReport
    <3> QED BY <1>1, <1>2, <3>1, Fires DEF IInv
  <2> QED BY <2>1, <2>2
<1>5. seen' = (seen \/ This.word # "CLEANING") /\ Hear
  BY DEF OnReport
<1>6. heard' = IF This.word # "CLEANING" THEN heard \cup {This} ELSE heard
  BY <1>2, <1>5 DEF Hear, IsReport, IsEnding
<1>7. seen' \in BOOLEAN
  BY <1>5
<1>8. SeenWasHeard'
  BY <1>2, <1>5, <1>6 DEF IInv, SeenWasHeard
<1>9. heard' \subseteq EventsMade'
  BY <1>4, <1>6 DEF IInv, AnnouncedEndingFires
<1>10. heard' \subseteq Events({"stop", "report"})
  BY <1>2, <1>6 DEF IInv, TypeOK
<1>11. {running', toReport', toAnnounce', added', seen'} \subseteq BOOLEAN
  BY <1>3, <1>7 DEF IInv, TypeOK
<1>12. TypeOK'
  BY <1>1, <1>3, <1>4, <1>10, <1>11, TasksTyped DEF IInv, TypeOK, Kinds, EdgeKinds
<1> QED
  BY <1>1, <1>4, <1>8, <1>9, <1>12
  DEF IInv, EndingWasFired, AnnouncedEndingFires

LEMMA JobEdgeStep ==
    ASSUME IInv, OnJobEdge
    PROVE  IInv'
<1>1. /\ This \in Events(Kinds) /\ This # None /\ This \in Events(EdgeKinds)
      /\ tasks' \in Seq(Tasks) /\ Len(tasks') <= MaxTasks
  BY Ran DEF OnJobEdge
<1>2. /\ ~IsReport
      /\ IsEnding => This \in Events({"report", "stop"}) /\ This.kind = "stop"
  BY <1>1 DEF Events, EdgeKinds, IsReport, IsEnding
<1>3. UNCHANGED <<job, running, toReport, toAnnounce, count, lastReport, lastEdge,
                  added, start, seen>>
  BY DEF OnJobEdge, mower, bus
<1>4. /\ fired' \in Seq(Events(Kinds)) /\ EventsMade \subseteq EventsMade'
      /\ ending' \in Events({"report", "stop"}) \cup {None}
      /\ ending' # None => ending' \in EventsMade'
      /\ ~seen /\ IsEnding => This \in EventsMade'
  <2>1. CASE ~(~seen /\ IsEnding /\ This # ending)
    BY <1>1, <2>1 DEF OnJobEdge, IInv, TypeOK, EndingWasFired, EventsMade
  <2>2. CASE ~seen /\ IsEnding /\ This # ending
    <3>1. ending' = This /\ Fire
      BY <2>2 DEF OnJobEdge
    <3> QED BY <1>1, <1>2, <2>2, <3>1, Fires DEF IInv
  <2> QED BY <2>1, <2>2
<1>5. heard' = IF IsEnding /\ \A e \in heard : e.kind = "stop" THEN heard \cup {This} ELSE heard
  BY <1>2 DEF OnJobEdge, Hear
<1>6. (\A e \in heard : e.kind = "stop") => ~seen
  BY DEF IInv, SeenWasHeard
<1>7. heard' \subseteq EventsMade'
  BY <1>4, <1>5, <1>6 DEF IInv, AnnouncedEndingFires
<1>8. heard' \subseteq Events({"stop", "report"})
  BY <1>2, <1>5 DEF IInv, TypeOK
<1>9. SeenWasHeard'
  BY <1>3, <1>5 DEF IInv, SeenWasHeard
<1>10. TypeOK'
  BY <1>1, <1>3, <1>4, <1>8, TasksTyped DEF IInv, TypeOK, Kinds, EdgeKinds
<1> QED
  BY <1>1, <1>4, <1>7, <1>9, <1>10
  DEF IInv, EndingWasFired, AnnouncedEndingFires

LEMMA StartEdgeStep ==
    ASSUME IInv, OnStartEdge
    PROVE  IInv'
<1>1. /\ This \in Events(Kinds) /\ This \in Events(EdgeKinds)
      /\ tasks' \in Seq(Tasks) /\ Len(tasks') <= MaxTasks
  BY Ran DEF OnStartEdge
<1>2. UNCHANGED <<job, running, toReport, toAnnounce, count, lastReport, lastEdge,
                  added, seen, ending, heard>>
  BY DEF OnStartEdge, mower, bus
<1>3. /\ fired' \in Seq(Events(Kinds)) /\ EventsMade \subseteq EventsMade'
      /\ start' \in Events({"start", "resume"}) \cup {None}
  <2>1. CASE UNCHANGED <<start, fired>>
    BY <2>1 DEF IInv, TypeOK, EventsMade
  <2>2. CASE This.kind \in {"start", "resume"} /\ start' = This /\ Fire
    <3>1. This \in Events({"start", "resume"})
      BY <1>1, <2>2 DEF Events
    <3> QED BY <1>1, <2>2, <3>1, Fires DEF IInv
  <2> QED BY <2>1, <2>2 DEF OnStartEdge
<1>4. TypeOK'
  BY <1>1, <1>2, <1>3, TasksTyped DEF IInv, TypeOK, Kinds, EdgeKinds
<1> QED
  BY <1>1, <1>2, <1>3, <1>4
  DEF IInv, EndingWasFired, SeenWasHeard, AnnouncedEndingFires

LEMMA NextInv == IInv /\ [Next]_vars => IInv'
BY MowerStep, QuietStep, AddStep, ReportStep, JobEdgeStep, StartEdgeStep DEF Next

-------------------------------------------------------------------------------
(* What is fired once.                                                      *)

\* The events that are still to be told of, or were.
Around ==
    EventsMade \cup {tasks[i].event : i \in DOMAIN tasks}
    \cup ({lastReport, lastEdge} \ {None})

\* An event is known by its number, and no later one is of an earlier job.
Numbered ==
    /\ \A e \in Around : e.id <= count /\ e.job <= job
    /\ \A e, f \in Around :
           /\ e.id = f.id => e = f
           /\ e.id <= f.id => e.job <= f.job

\* A job is reported over once, and announced over once.
Reports(e) == e.kind = "report" /\ e.word # "CLEANING"
ToldOnce ==
    /\ toReport \/ toAnnounce => ~running
    /\ \A e \in Around : e.job = job =>
           /\ Reports(e) => ~running /\ ~toReport
           /\ e.kind = "stop" => ~running /\ ~toAnnounce
    /\ \A e, f \in Around : e.job = f.job =>
           /\ Reports(e) /\ Reports(f) => e = f
           /\ e.kind = "stop" /\ f.kind = "stop" => e = f

\* The last event of its type on the bus is at or after what waits and what was
\* fired, and what waits for a callback is at or after what that has fired.
Source(e) == IF e.kind = "report" THEN lastReport ELSE lastEdge
Starts(e) == e.kind \in {"start", "resume"}
Waits(t, e) == \/ t.on = "report" /\ e.kind = "report"
               \/ t.on = "startEdge" /\ Starts(e)
               \/ t.on = "jobEdge" /\ e.kind = "stop" /\ ~seen
InOrder ==
    /\ \A i \in DOMAIN tasks :
           Source(tasks[i].event) # None /\ tasks[i].event.id <= Source(tasks[i].event).id
    /\ \A e \in EventsMade : Source(e) # None /\ e.id <= Source(e).id
    /\ \A i, j \in DOMAIN tasks :
           i < j /\ tasks[i].on = tasks[j].on => tasks[i].event.id <= tasks[j].event.id
    /\ \A i \in DOMAIN tasks : \A e \in EventsMade :
           Waits(tasks[i], e) => e.id <= tasks[i].event.id

\* What the entities hold is the last they fired.
LastFired ==
    /\ \A e \in EventsMade :
           /\ Starts(e) => start # None /\ e.id <= start.id
           /\ e.kind = "stop" /\ ~seen => ending # None /\ ending.kind = "stop" /\ e.id <= ending.id
           /\ e.kind = "report" =>
                  /\ Reports(e) /\ seen
                  /\ ending # None /\ ending.kind = "report" /\ e.id <= ending.id
    /\ start # None => start \in EventsMade
    /\ seen => \E e \in EventsMade : e.kind = "report"

\* Once a report was fired, no stop is, and the reports come in order.
ReportsLast ==
    \A i, j \in DOMAIN fired : i < j /\ fired[i].kind = "report" =>
        /\ fired[j].kind # "stop"
        /\ fired[j].kind = "report" => fired[i].id < fired[j].id
StopsBefore ==
    \A e, f \in EventsMade : e.kind = "stop" /\ f.kind = "report" => e.id < f.id

\* Nothing that waits ahead of the first report of an ending is younger.
EndingReport(t) == t.on = "report" /\ Reports(t.event)
Ahead(i) == \A r \in DOMAIN tasks : r < i => ~EndingReport(tasks[r])
FirstReport ==
    ~seen => \A i \in DOMAIN tasks : EndingReport(tasks[i]) =>
        /\ \A e \in EventsMade : e.kind = "stop" => e.id < tasks[i].event.id
        /\ \A q \in DOMAIN tasks :
               q < i /\ tasks[q].on = "jobEdge" /\ Ahead(q) => tasks[q].event.id < tasks[i].event.id

\* A report of an ending that does not wait was made while nobody listened.
MissedReport ==
    ~seen /\ lastReport # None /\ Reports(lastReport)
    /\ (\A i \in DOMAIN tasks : ~EndingReport(tasks[i])) =>
        /\ ~added
        /\ \A e \in EventsMade : e.kind = "stop" => e.id < lastReport.id
        /\ \A i \in DOMAIN tasks : tasks[i].on = "jobEdge" => tasks[i].event.id < lastReport.id

\* No event is fired twice.
Distinct == \A i, j \in DOMAIN fired : fired[i] = fired[j] => i = j

OInv ==
    /\ Numbered
    /\ ToldOnce
    /\ InOrder
    /\ LastFired
    /\ ReportsLast
    /\ StopsBefore
    /\ FirstReport
    /\ MissedReport
    /\ Distinct

\* Everything around is an event, with numbers to compare.
Typed ==
    /\ Around \subseteq Events(Kinds)
    /\ \A e \in Around : e.id \in Nat /\ e.job \in Nat /\ e.kind \in Kinds
    /\ EventsMade \subseteq Around
    /\ \A i \in DOMAIN fired : fired[i] \in EventsMade
    /\ \A i \in DOMAIN tasks :
           /\ tasks[i].event \in Around
           /\ tasks[i].on \in {"report", "jobEdge", "startEdge"}
           /\ tasks[i].on = "report" <=> tasks[i].event.kind = "report"
    /\ lastReport # None => lastReport \in Around /\ lastReport.kind = "report"
    /\ lastEdge # None => lastEdge \in Around /\ lastEdge.kind # "report"
    /\ count \in Nat /\ job \in Nat /\ None \notin Around

LEMMA AroundTyped == IInv => Typed
<1> SUFFICES ASSUME IInv PROVE Typed
  OBVIOUS
<1>1. TypeOK /\ tasks \in Seq(Tasks) /\ fired \in Seq(Events(Kinds))
  BY DEF IInv
<1>2. \A i \in DOMAIN fired : fired[i] \in Events(Kinds)
  BY <1>1, ElementOfSeq, LenProperties
<1>3. EventsMade \subseteq Events(Kinds) /\ \A i \in DOMAIN fired : fired[i] \in EventsMade
  BY <1>2 DEF EventsMade
<1>4. \A i \in DOMAIN tasks : tasks[i] \in Tasks
  BY <1>1, ElementOfSeq, LenProperties
<1>5. Events({"report"}) \subseteq Events(Kinds) /\ Events(EdgeKinds) \subseteq Events(Kinds)
  BY DEF Events, Kinds, EdgeKinds
<1>6. /\ \A e \in Events({"report"}) : e.kind = "report"
      /\ \A e \in Events(EdgeKinds) : e.kind # "report"
      /\ \A e \in Events(Kinds) : e.id \in Nat /\ e.job \in Nat /\ e.kind \in Kinds
  BY Bounds DEF Events, EdgeKinds
<1>7. \A i \in DOMAIN tasks :
          /\ tasks[i].event \in Events(Kinds)
          /\ tasks[i].on \in {"report", "jobEdge", "startEdge"}
          /\ tasks[i].on = "report" <=> tasks[i].event.kind = "report"
  BY <1>4, <1>5, <1>6 DEF Tasks
<1>8. /\ lastReport # None => lastReport \in Events(Kinds) /\ lastReport.kind = "report"
      /\ lastEdge # None => lastEdge \in Events(Kinds) /\ lastEdge.kind # "report"
  BY <1>1, <1>5, <1>6 DEF TypeOK, EdgeKinds
<1>9. Around \subseteq Events(Kinds)
  BY <1>3, <1>7, <1>8 DEF Around
<1>10. count \in Nat /\ job \in Nat
  BY <1>1 DEF TypeOK
<1> QED BY <1>3, <1>6, <1>7, <1>8, <1>9, <1>10, NoneApart DEF Around, Typed

\* The callbacks of an event come behind those that wait.
Behind(s, t, e) ==
    /\ \A i \in DOMAIN s : i \in DOMAIN t /\ t[i] = s[i]
    /\ \A i \in DOMAIN t : i \in DOMAIN s \/
           /\ \A k \in DOMAIN s : k < i
           /\ t[i].event = e
    /\ e.kind = "report" => \E i \in DOMAIN t :
           /\ t[i] = [on |-> "report", event |-> e]
           /\ \A q \in DOMAIN t : q \in DOMAIN s \/ q = i

LEMMA CalledBehind ==
    ASSUME NEW s \in Seq(Tasks), NEW e \in Events(Kinds)
    PROVE  Behind(s, s \o Callbacks(e), e)
<1>0. PICK t : t = s \o Callbacks(e)
  OBVIOUS
<1> DEFINE c == Callbacks(e)
           n == Len(s)
           m == Len(c)
<1>1. /\ c \in Seq(Tasks) /\ m \in 1..2
      /\ \A k \in 1..m : c[k].event = e
      /\ e.kind = "report" => m = 1 /\ c[1] = [on |-> "report", event |-> e]
  <2>1. CASE e.kind = "report"
    <3>1. [on |-> "report", event |-> e] \in Tasks
      BY <2>1 DEF Tasks, Events
    <3>2. c = <<[on |-> "report", event |-> e]>>
      BY <2>1 DEF Callbacks
    <3>3. c \in Seq(Tasks) /\ m = 1 /\ c[1] = [on |-> "report", event |-> e]
      BY <3>1, <3>2
    <3> HIDE DEF c, m
    <3> QED BY <3>3
  <2>2. CASE e.kind # "report"
    <3>1. e \in Events(EdgeKinds)
      BY <2>2 DEF Events, Kinds, EdgeKinds
    <3>2. /\ [on |-> "jobEdge", event |-> e] \in Tasks
          /\ [on |-> "startEdge", event |-> e] \in Tasks
      BY <3>1 DEF Tasks
    <3>3. c = <<[on |-> "jobEdge", event |-> e], [on |-> "startEdge", event |-> e]>>
      BY <2>2 DEF Callbacks
    <3>4. /\ c \in Seq(Tasks) /\ m = 2
          /\ c[1] = [on |-> "jobEdge", event |-> e] /\ c[2] = [on |-> "startEdge", event |-> e]
      BY <3>2, <3>3
    <3> HIDE DEF c, m
    <3> QED BY <2>2, <3>4
  <2> QED BY <2>1, <2>2
<1> HIDE DEF c
<1>2. /\ n \in Nat /\ m \in Nat /\ DOMAIN s = 1..n
      /\ Len(t) = n + m /\ DOMAIN t = 1..(n + m)
      /\ \A i \in 1..(n + m) : t[i] = IF i <= n THEN s[i] ELSE c[i - n]
  <2>1. t = s \o c
    BY <1>0 DEF c
  <2>2. t \in Seq(Tasks)
    BY <1>1, <2>1, ConcatProperties
  <2> QED BY <1>1, <2>1, <2>2, ConcatProperties, LenProperties
<1> HIDE DEF n, m
<1>3. \A i \in DOMAIN s : i \in DOMAIN t /\ t[i] = s[i]
  BY <1>1, <1>2
<1>4. ASSUME NEW i \in DOMAIN t, i \notin DOMAIN s
      PROVE  (\A k \in DOMAIN s : k < i) /\ t[i].event = e
  <2>1. i \in 1..(n + m) /\ ~(i <= n)
    BY <1>2, <1>4
  <2>2. i - n \in 1..m
    BY <1>2, <2>1
  <2>3. \A k \in DOMAIN s : k < i
    BY <1>2, <2>1
  <2> QED BY <1>1, <1>2, <2>1, <2>2, <2>3
<1>5. ASSUME e.kind = "report"
      PROVE  \E i \in DOMAIN t : /\ t[i] = [on |-> "report", event |-> e]
                                 /\ \A q \in DOMAIN t : q \in DOMAIN s \/ q = i
  <2> DEFINE l == n + 1
  <2>1. l \in 1..(n + m) /\ l - n = 1 /\ ~(l <= n)
    BY <1>1, <1>2, <1>5
  <2>2. \A q \in 1..(n + m) : q \in 1..n \/ q = l
    BY <1>1, <1>2, <1>5
  <2> HIDE DEF l
  <2>3. t[l] = c[1]
    BY <1>2, <2>1
  <2> QED BY <1>1, <1>2, <1>5, <2>1, <2>2, <2>3
<1>6. Behind(s, t, e)
  BY <1>3, <1>4, <1>5 DEF Behind
<1> QED BY <1>0, <1>6

\* The last event of a type, after the step.
Later(e) == IF e.kind = "report" THEN lastReport' ELSE lastEdge'

\* The callbacks that wait are still there, and those behind them are of the
\* last event of its type, reports first.  No entity has handled anything.
Grown ==
    /\ UNCHANGED <<seen, ending, start, fired>>
    /\ \A i \in DOMAIN tasks : i \in DOMAIN tasks' /\ tasks'[i] = tasks[i]
    /\ \A i \in DOMAIN tasks' : i \in DOMAIN tasks \/
           /\ \A k \in DOMAIN tasks : k < i
           /\ Later(tasks'[i].event) # None
           /\ tasks'[i].event = Later(tasks'[i].event)
    /\ \A i, q \in DOMAIN tasks' :
           i \notin DOMAIN tasks /\ q \notin DOMAIN tasks /\ tasks'[i].on = "report"
               => tasks'[q].on # "jobEdge" \/ i < q
    /\ \A e \in Around : Source(e) # None =>
           Later(e) # None /\ Source(e).id <= Later(e).id

\* The mower tells of something: the event is the last there is.
LEMMA NotifyGrows ==
    ASSUME IInv, Numbered, NEW e \in Events(Kinds), e.id = count + 1, Notify(e)
    PROVE  /\ Grown
           /\ Around' \subseteq Around \cup {e}
           /\ e \in Around'
           /\ \A f \in Around : f.id < e.id
           /\ count' = count + 1 /\ UNCHANGED <<added, EventsMade>>
           /\ IF e.kind = "report" THEN lastReport' = e /\ lastEdge' = lastEdge
                                   ELSE lastReport' = lastReport /\ lastEdge' = e
           /\ ~added => tasks' = tasks
           /\ added /\ e.kind = "report" =>
                  \E i \in DOMAIN tasks' : tasks'[i].on = "report" /\ tasks'[i].event = e
           /\ e # None
<1>1. /\ count' = count + 1 /\ UNCHANGED <<added, seen, ending, start, fired>>
      /\ IF e.kind = "report" THEN lastReport' = e /\ lastEdge' = lastEdge
                              ELSE lastReport' = lastReport /\ lastEdge' = e
      /\ tasks' = IF added THEN tasks \o Callbacks(e) ELSE tasks
  BY DEF Notify, entities
<1>2. UNCHANGED EventsMade
  BY <1>1 DEF EventsMade
<1>3. e # None /\ e.id \in Nat /\ count \in Nat
  BY NoneApart, Bounds, AroundTyped DEF Events, Typed
<1>4. \A f \in Around : f.id < e.id /\ f.id <= e.id
  BY <1>3, AroundTyped DEF Numbered, Typed
<1>5. Later(e) = e /\ \A f : Later(f) = Source(f) \/ Later(f) = e
  BY <1>1 DEF Source, Later
<1>6. /\ \A i \in DOMAIN tasks : i \in DOMAIN tasks' /\ tasks'[i] = tasks[i]
      /\ \A i \in DOMAIN tasks' : i \in DOMAIN tasks \/
             /\ \A k \in DOMAIN tasks : k < i
             /\ tasks'[i].event = e
      /\ added /\ e.kind = "report" => \E i \in DOMAIN tasks' :
             /\ tasks'[i] = [on |-> "report", event |-> e]
             /\ \A q \in DOMAIN tasks' : q \in DOMAIN tasks \/ q = i
      /\ e.kind # "report" => \A i \in DOMAIN tasks' : i \notin DOMAIN tasks => tasks'[i].on # "report"
  <2>1. tasks \in Seq(Tasks) /\ tasks' \in Seq(Tasks)
    BY <1>1, Called DEF IInv
  <2>2. \A i \in DOMAIN tasks' : tasks'[i].on = "report" => tasks'[i].event.kind = "report"
    <3>1. \A i \in DOMAIN tasks' : tasks'[i] \in Tasks
      BY <2>1, ElementOfSeq, LenProperties
    <3> QED BY <3>1 DEF Tasks, Events, EdgeKinds
  <2>3. CASE added
    <3>1. tasks' = tasks \o Callbacks(e)
      BY <1>1, <2>3
    <3>2. Behind(tasks, tasks', e)
      BY <2>1, <3>1, CalledBehind
    <3> QED BY <2>2, <2>3, <3>2 DEF Behind
  <2>4. CASE ~added
    BY <1>1, <2>4
  <2> QED BY <2>3, <2>4
<1>7. \A f \in Around : Source(f) # None => Later(f) # None /\ Source(f).id <= Later(f).id
  <2> SUFFICES ASSUME NEW f \in Around, Source(f) # None
               PROVE  Later(f) # None /\ Source(f).id <= Later(f).id
    OBVIOUS
  <2>1. Source(f) \in Around
    BY AroundTyped DEF Source, Later, Typed
  <2>2. Source(f).id \in Nat /\ Source(f).id <= e.id
    BY <1>4, <2>1, AroundTyped DEF Typed
  <2>3. Source(f).id <= Source(f).id
    BY <2>2
  <2> QED BY <1>3, <1>5, <2>2, <2>3
<1>8. \A i, q \in DOMAIN tasks' :
          i \notin DOMAIN tasks /\ q \notin DOMAIN tasks /\ tasks'[i].on = "report"
              => tasks'[q].on # "jobEdge" \/ i < q
  <2>1. CASE added /\ e.kind = "report"
    BY <1>6, <2>1
  <2>2. CASE ~added
    BY <1>1, <2>2
  <2>3. CASE e.kind # "report"
    BY <1>6, <2>3
  <2> QED BY <2>1, <2>2, <2>3
<1>9. \A i \in DOMAIN tasks' : i \in DOMAIN tasks \/
          /\ \A k \in DOMAIN tasks : k < i
          /\ Later(tasks'[i].event) # None
          /\ tasks'[i].event = Later(tasks'[i].event)
  BY <1>3, <1>5, <1>6
<1>10. Grown
  BY <1>1, <1>6, <1>7, <1>8, <1>9 DEF Grown
<1>11. Around' \subseteq Around \cup {e}
  BY <1>1, <1>2, <1>6 DEF Around
<1>12. e \in Around'
  BY <1>1, <1>3 DEF Around
<1>13. added /\ e.kind = "report" =>
           \E i \in DOMAIN tasks' : tasks'[i].on = "report" /\ tasks'[i].event = e
  BY <1>6
<1> QED BY <1>1, <1>2, <1>3, <1>4, <1>10, <1>11, <1>12, <1>13

\* The entities are added again: the last report and the last edge come behind.
LEMMA AddGrows ==
    ASSUME IInv, Add
    PROVE  /\ Grown
           /\ Around' \subseteq Around
           /\ UNCHANGED <<mower, bus, EventsMade>>
           /\ lastReport # None =>
                  \E i \in DOMAIN tasks' : tasks'[i].on = "report" /\ tasks'[i].event = lastReport
<1>0. PICK first : first = tasks \o (IF lastReport = None THEN <<>> ELSE Callbacks(lastReport))
  OBVIOUS
<1>1. /\ tasks \in Seq(Tasks)
      /\ UNCHANGED <<mower, bus, seen, ending, start, fired>>
      /\ tasks' = first \o (IF lastEdge = None THEN <<>> ELSE Callbacks(lastEdge))
  BY <1>0 DEF IInv, Add, entities
<1>2. UNCHANGED EventsMade /\ \A e : Later(e) = Source(e)
  BY <1>1 DEF EventsMade, Source, Later, bus
<1>3. /\ lastReport # None => lastReport \in Events(Kinds) /\ lastReport.kind = "report"
      /\ lastEdge # None => lastEdge \in Events(Kinds) /\ lastEdge.kind # "report"
  BY AroundTyped DEF Typed
<1>4. /\ first \in Seq(Tasks)
      /\ \A i \in DOMAIN tasks : i \in DOMAIN first /\ first[i] = tasks[i]
      /\ \A i \in DOMAIN first : i \in DOMAIN tasks \/
             /\ lastReport # None
             /\ \A k \in DOMAIN tasks : k < i
             /\ first[i].event = lastReport
             /\ first[i].on = "report"
      /\ lastReport # None => \E i \in DOMAIN first : first[i].on = "report" /\ first[i].event = lastReport
  <2>1. CASE lastReport = None
    BY <1>0, <1>1, <2>1, ConcatEmptySeq
  <2>2. CASE lastReport # None
    <3>1. first = tasks \o Callbacks(lastReport)
      BY <1>0, <2>2
    <3>2. first \in Seq(Tasks)
      BY <1>1, <1>3, <2>2, <3>1, Called
    <3>3. Behind(tasks, first, lastReport)
      BY <1>1, <1>3, <2>2, <3>1, CalledBehind
    <3> QED BY <1>3, <2>2, <3>2, <3>3 DEF Behind
  <2> QED BY <2>1, <2>2
<1>5. /\ tasks' \in Seq(Tasks)
      /\ \A i \in DOMAIN first : i \in DOMAIN tasks' /\ tasks'[i] = first[i]
      /\ \A i \in DOMAIN tasks' : i \in DOMAIN first \/
             /\ lastEdge # None
             /\ \A k \in DOMAIN first : k < i
             /\ tasks'[i].event = lastEdge
             /\ tasks'[i].on # "report"
  <2>1. CASE lastEdge = None
    BY <1>1, <1>4, <2>1, ConcatEmptySeq
  <2>2. CASE lastEdge # None
    <3>1. tasks' = first \o Callbacks(lastEdge)
      BY <1>1, <2>2
    <3>2. tasks' \in Seq(Tasks)
      BY <1>3, <1>4, <2>2, <3>1, Called
    <3>3. Behind(first, tasks', lastEdge)
      BY <1>3, <1>4, <2>2, <3>1, CalledBehind
    <3>4. \A i \in DOMAIN tasks' : tasks'[i] \in Tasks
      BY <3>2, ElementOfSeq, LenProperties
    <3>5. \A i \in DOMAIN tasks' : tasks'[i].event = lastEdge => tasks'[i].on # "report"
      BY <1>3, <2>2, <3>4 DEF Tasks, Events
    <3> QED BY <2>2, <3>2, <3>3, <3>5 DEF Behind
  <2> QED BY <2>1, <2>2
<1>6. \A i \in DOMAIN tasks' : i \in DOMAIN tasks \/
          /\ \A k \in DOMAIN tasks : k < i
          /\ \/ lastReport # None /\ tasks'[i].event = lastReport
             \/ lastEdge # None /\ tasks'[i].event = lastEdge
  BY <1>4, <1>5
<1>7. \A i \in DOMAIN tasks' : i \in DOMAIN tasks \/
          /\ \A k \in DOMAIN tasks : k < i
          /\ Later(tasks'[i].event) # None
          /\ tasks'[i].event = Later(tasks'[i].event)
  BY <1>2, <1>3, <1>6 DEF Source, Later
<1>8. \A i, q \in DOMAIN tasks' :
          i \notin DOMAIN tasks /\ q \notin DOMAIN tasks /\ tasks'[i].on = "report"
              => tasks'[q].on # "jobEdge" \/ i < q
  BY <1>4, <1>5
<1>9. \A e \in Around : Source(e) # None => Later(e) # None /\ Source(e).id <= Later(e).id
  <2> SUFFICES ASSUME NEW e \in Around, Source(e) # None
               PROVE  Later(e) # None /\ Source(e).id <= Later(e).id
    OBVIOUS
  <2>1. Source(e) \in Around
    BY AroundTyped DEF Source, Later, Typed
  <2>2. Source(e).id \in Nat
    BY <2>1, AroundTyped DEF Typed
  <2>3. Source(e).id <= Source(e).id
    BY <2>2
  <2> QED BY <1>2, <2>3
<1>10. \A i \in DOMAIN tasks : i \in DOMAIN tasks' /\ tasks'[i] = tasks[i]
  BY <1>4, <1>5
<1>11. Grown
  BY <1>1, <1>7, <1>8, <1>9, <1>10 DEF Grown
<1>12. Around' \subseteq Around
  BY <1>1, <1>2, <1>6, <1>10 DEF Around, bus
<1>13. lastReport # None =>
           \E i \in DOMAIN tasks' : tasks'[i].on = "report" /\ tasks'[i].event = lastReport
  BY <1>4, <1>5
<1> QED BY <1>1, <1>2, <1>11, <1>12, <1>13

\* The same after a step.
LEMMA AroundStaysTyped == IInv' => Typed'
BY AroundTyped, PTL

\* Callbacks that come behind keep the order of what waits and what was fired.
LEMMA GrownInOrder ==
    ASSUME IInv, IInv', InOrder, Grown
    PROVE  InOrder'
<1>1. Typed /\ Typed' /\ EventsMade' = EventsMade
  BY AroundTyped, AroundStaysTyped DEF Grown, EventsMade
<1>2. /\ \A i \in DOMAIN tasks :
             Source(tasks[i].event) # None /\ tasks[i].event.id <= Source(tasks[i].event).id
      /\ \A e \in EventsMade : Source(e) # None /\ e.id <= Source(e).id
      /\ \A i, j \in DOMAIN tasks :
             i < j /\ tasks[i].on = tasks[j].on => tasks[i].event.id <= tasks[j].event.id
      /\ \A i \in DOMAIN tasks : \A e \in EventsMade :
             Waits(tasks[i], e) => e.id <= tasks[i].event.id
  BY DEF InOrder
<1>3. /\ \A i \in DOMAIN tasks : i \in DOMAIN tasks' /\ tasks'[i] = tasks[i]
      /\ \A i \in DOMAIN tasks' : i \in DOMAIN tasks \/
             /\ \A k \in DOMAIN tasks : k < i
             /\ Later(tasks'[i].event) # None
             /\ tasks'[i].event = Later(tasks'[i].event)
      /\ \A e \in Around : Source(e) # None =>
             Later(e) # None /\ Source(e).id <= Later(e).id
  BY DEF Grown
<1>4. \A e, f : (e.kind = "report" <=> f.kind = "report") => Later(e) = Later(f)
  BY DEF Later
<1>5. \A e \in Around : Source(e) # None => Source(e).id \in Nat
  BY <1>1 DEF Typed, Source
<1>6. \A e : Later(e) # None => Later(e).id \in Nat
  BY <1>1 DEF Typed, Later
<1>7. ASSUME NEW e \in Around, Source(e) # None, e.id <= Source(e).id
      PROVE  Later(e) # None /\ e.id <= Later(e).id
  <2>1. e.id \in Nat /\ Source(e).id \in Nat /\ Later(e).id \in Nat /\ Source(e).id <= Later(e).id
    BY <1>1, <1>3, <1>5, <1>6, <1>7 DEF Typed
  <2> QED BY <1>3, <1>7, <2>1
<1>8. \A e \in EventsMade : Later(e) # None /\ e.id <= Later(e).id
  BY <1>1, <1>2, <1>7 DEF Typed
<1>9. \A i \in DOMAIN tasks : Later(tasks[i].event) # None /\ tasks[i].event.id <= Later(tasks[i].event).id
  BY <1>1, <1>2, <1>7 DEF Typed
<1>10. \A i \in DOMAIN tasks' : tasks'[i].event.id \in Nat
  BY <1>1 DEF Typed
<1>11. \A i \in DOMAIN tasks' :
           Later(tasks'[i].event) # None /\ tasks'[i].event.id <= Later(tasks'[i].event).id
  <2> SUFFICES ASSUME NEW i \in DOMAIN tasks'
               PROVE  Later(tasks'[i].event) # None /\ tasks'[i].event.id <= Later(tasks'[i].event).id
    OBVIOUS
  <2>1. CASE i \in DOMAIN tasks
    BY <1>3, <1>9, <2>1
  <2>2. CASE i \notin DOMAIN tasks
    <3>1. Later(tasks'[i].event) # None /\ tasks'[i].event = Later(tasks'[i].event)
      BY <1>3, <2>2
    <3>2. tasks'[i].event.id <= tasks'[i].event.id
      BY <1>10
    <3> QED BY <3>1, <3>2
  <2> QED BY <2>1, <2>2
<1>12. ASSUME NEW i \in DOMAIN tasks', NEW j \in DOMAIN tasks', i < j, tasks'[i].on = tasks'[j].on
       PROVE  tasks'[i].event.id <= tasks'[j].event.id
  <2>1. CASE j \in DOMAIN tasks
    <3>1. i \in DOMAIN tasks
      <4>1. i \in Nat /\ j \in Nat
        BY LenProperties DEF IInv
      <4>2. ~(j < i)
        BY <1>12, <4>1
      <4> QED BY <1>3, <2>1, <4>2
    <3> QED BY <1>2, <1>3, <1>12, <2>1, <3>1
  <2>2. CASE j \notin DOMAIN tasks
    <3>1. tasks'[j].event = Later(tasks'[j].event)
      BY <1>3, <2>2
    <3>2. Later(tasks'[i].event) = Later(tasks'[j].event)
      BY <1>1, <1>4, <1>12 DEF Typed
    <3> QED BY <1>11, <3>1, <3>2
  <2> QED BY <2>1, <2>2
<1>13. ASSUME NEW i \in DOMAIN tasks', NEW e \in EventsMade, Waits(tasks'[i], e)
       PROVE  e.id <= tasks'[i].event.id
  <2>1. CASE i \in DOMAIN tasks
    BY <1>2, <1>3, <1>13, <2>1
  <2>2. CASE i \notin DOMAIN tasks
    <3>1. tasks'[i].event = Later(tasks'[i].event)
      BY <1>3, <2>2
    <3>2. tasks'[i].event.kind = "report" <=> e.kind = "report"
      BY <1>1, <1>13 DEF Typed, Waits, Starts
    <3>3. Later(e) = tasks'[i].event
      BY <1>4, <3>1, <3>2
    <3> QED BY <1>8, <3>3
  <2> QED BY <2>1, <2>2
<1>14. seen' = seen
  BY DEF Grown
<1> QED
  BY <1>1, <1>8, <1>11, <1>12, <1>13, <1>14 DEF InOrder, Waits, Source, Later

\* While no report of an ending was handled, the last one is younger than every
\* stop announcement that was fired or waits ahead of the reports.
LEMMA LatestReport ==
    ASSUME IInv, OInv, ~seen, lastReport # None, Reports(lastReport)
    PROVE  /\ \A e \in EventsMade : e.kind = "stop" => e.id < lastReport.id
           /\ \A q \in DOMAIN tasks :
                  tasks[q].on = "jobEdge" /\ Ahead(q) => tasks[q].event.id < lastReport.id
<1>1. Typed /\ \A q \in DOMAIN tasks : q \in Nat
  BY AroundTyped, LenProperties DEF IInv
<1>2. CASE \A i \in DOMAIN tasks : ~EndingReport(tasks[i])
  BY <1>2 DEF OInv, MissedReport
<1>3. ASSUME NEW r \in DOMAIN tasks, EndingReport(tasks[r])
      PROVE  /\ \A e \in EventsMade : e.kind = "stop" => e.id < lastReport.id
             /\ \A q \in DOMAIN tasks :
                    tasks[q].on = "jobEdge" /\ Ahead(q) => tasks[q].event.id < lastReport.id
  <2>1. tasks[r].event.id <= lastReport.id
    BY <1>3 DEF OInv, InOrder, Source, EndingReport, Reports
  <2>2. tasks[r].event.id \in Nat /\ lastReport.id \in Nat
    BY <1>1 DEF Typed
  <2>3. ASSUME NEW e \in EventsMade, e.kind = "stop" PROVE e.id < lastReport.id
    <3>1. e.id < tasks[r].event.id
      BY <1>3, <2>3 DEF OInv, FirstReport
    <3>2. e.id \in Nat
      BY <1>1 DEF Typed
    <3> QED BY <2>1, <2>2, <3>1, <3>2
  <2>4. ASSUME NEW q \in DOMAIN tasks, tasks[q].on = "jobEdge", Ahead(q)
        PROVE  tasks[q].event.id < lastReport.id
    <3>1. ~(r < q) /\ r # q
      BY <1>3, <2>4 DEF Ahead, EndingReport
    <3>2. q < r
      BY <1>1, <3>1
    <3>3. tasks[q].event.id < tasks[r].event.id
      BY <1>3, <2>4, <3>2 DEF OInv, FirstReport
    <3>4. tasks[q].event.id \in Nat
      BY <1>1 DEF Typed
    <3> QED BY <2>1, <2>2, <3>3, <3>4
  <2> QED BY <2>3, <2>4
<1> QED BY <1>2, <1>3

\* Callbacks that come behind keep the first report of an ending the youngest.
LEMMA GrownFirst ==
    ASSUME IInv, IInv', OInv, Grown,
           lastReport' = lastReport \/ \A f \in Around : f.id < lastReport'.id
    PROVE  FirstReport'
<1>1. Typed /\ Typed' /\ EventsMade' = EventsMade /\ seen' = seen
  BY AroundTyped, AroundStaysTyped DEF Grown, EventsMade
<1>2. /\ \A i \in DOMAIN tasks : i \in DOMAIN tasks' /\ tasks'[i] = tasks[i]
      /\ \A i \in DOMAIN tasks' : i \in DOMAIN tasks \/
             /\ \A k \in DOMAIN tasks : k < i
             /\ Later(tasks'[i].event) # None
             /\ tasks'[i].event = Later(tasks'[i].event)
      /\ \A i, q \in DOMAIN tasks' :
             i \notin DOMAIN tasks /\ q \notin DOMAIN tasks /\ tasks'[i].on = "report"
                 => tasks'[q].on # "jobEdge" \/ i < q
  BY DEF Grown
<1>3. \A i \in DOMAIN tasks' : i \in Nat
  BY LenProperties DEF IInv
<1> SUFFICES ASSUME ~seen, NEW i \in DOMAIN tasks', EndingReport(tasks'[i])
             PROVE  /\ \A e \in EventsMade : e.kind = "stop" => e.id < tasks'[i].event.id
                    /\ \A q \in DOMAIN tasks' :
                           /\ q < i /\ tasks'[q].on = "jobEdge"
                           /\ \A r \in DOMAIN tasks' : r < q => ~EndingReport(tasks'[r])
                           => tasks'[q].event.id < tasks'[i].event.id
  BY <1>1 DEF FirstReport, Ahead, EndingReport, Reports
<1>4. ASSUME NEW q \in DOMAIN tasks', q \in DOMAIN tasks,
             \A r \in DOMAIN tasks' : r < q => ~EndingReport(tasks'[r])
      PROVE  Ahead(q)
  BY <1>2, <1>4 DEF Ahead
<1>5. CASE i \in DOMAIN tasks
  <2>1. \A q \in DOMAIN tasks' : q < i => q \in DOMAIN tasks
    <3> SUFFICES ASSUME NEW q \in DOMAIN tasks', q < i, q \notin DOMAIN tasks PROVE FALSE
      OBVIOUS
    <3>1. i < q
      BY <1>2, <1>5
    <3> QED BY <1>3, <3>1
  <2>2. EndingReport(tasks[i]) /\ tasks'[i] = tasks[i]
    BY <1>2, <1>5
  <2> QED BY <1>2, <1>4, <1>5, <2>1, <2>2 DEF OInv, FirstReport
<1>6. CASE i \notin DOMAIN tasks
  <2>1. /\ tasks'[i].event = lastReport' /\ lastReport' # None
        /\ Reports(lastReport') /\ tasks'[i].on = "report"
    BY <1>2, <1>6 DEF Later, EndingReport, Reports
  <2>2. \A q \in DOMAIN tasks' : q < i /\ tasks'[q].on = "jobEdge" => q \in DOMAIN tasks
    <3> SUFFICES ASSUME NEW q \in DOMAIN tasks', q < i, tasks'[q].on = "jobEdge",
                        q \notin DOMAIN tasks
                 PROVE  FALSE
      OBVIOUS
    <3>1. i < q
      BY <1>2, <1>6, <2>1
    <3> QED BY <1>3, <3>1
  <2>3. CASE lastReport' = lastReport
    <3>1. /\ \A e \in EventsMade : e.kind = "stop" => e.id < lastReport.id
          /\ \A q \in DOMAIN tasks :
                 tasks[q].on = "jobEdge" /\ Ahead(q) => tasks[q].event.id < lastReport.id
      BY <2>1, <2>3, LatestReport
    <3> QED BY <1>2, <1>4, <2>1, <2>2, <2>3, <3>1
  <2>4. CASE \A f \in Around : f.id < lastReport'.id
    <3>1. \A q \in DOMAIN tasks : tasks[q].event.id < lastReport'.id
      BY <1>1, <2>4 DEF Typed
    <3>2. \A e \in EventsMade : e.id < lastReport'.id
      BY <1>1, <2>4 DEF Typed
    <3> QED BY <1>2, <2>1, <2>2, <3>1, <3>2
  <2> QED BY <2>3, <2>4
<1> QED BY <1>5, <1>6

\* No entity handled anything: what was fired and what it holds stands.
LEMMA GrownKeeps ==
    ASSUME OInv, Grown
    PROVE  LastFired' /\ ReportsLast' /\ StopsBefore' /\ Distinct'
<1>1. UNCHANGED <<seen, ending, start, fired>> /\ EventsMade' = EventsMade
  BY DEF Grown, EventsMade
<1> QED BY <1>1 DEF OInv, LastFired, ReportsLast, StopsBefore, Distinct, EventsMade

\* An event is told of when its job's end is not told of in the same way yet.
LEMMA TellsOnce ==
    ASSUME IInv, ToldOnce, Numbered, NEW e, e.job = job', Around' \subseteq Around \cup {e},
           \/ /\ e.kind \in {"start", "resume", "pause"} \/ (e.kind = "report" /\ e.word = "CLEANING")
              /\ \/ mower' = mower
                 \/ job' = job + 1 /\ toReport' = FALSE /\ toAnnounce' = FALSE
           \/ /\ e.kind = "stop" /\ toAnnounce /\ toAnnounce' = FALSE
              /\ UNCHANGED <<job, running, toReport>>
           \/ /\ Reports(e) /\ toReport /\ toReport' = FALSE
              /\ UNCHANGED <<job, running, toAnnounce>>
    PROVE  ToldOnce'
<1>1. /\ \A f \in Around : f.job \in Nat /\ f.job <= job
      /\ job \in Nat
  BY AroundTyped DEF Typed, Numbered
<1>2. /\ toReport \/ toAnnounce => ~running
      /\ \A f \in Around : f.job = job =>
             /\ Reports(f) => ~running /\ ~toReport
             /\ f.kind = "stop" => ~running /\ ~toAnnounce
      /\ \A f, g \in Around : f.job = g.job =>
             /\ Reports(f) /\ Reports(g) => f = g
             /\ f.kind = "stop" /\ g.kind = "stop" => f = g
  BY DEF ToldOnce
<1>3. CASE e.kind \in {"start", "resume", "pause"} \/ (e.kind = "report" /\ e.word = "CLEANING")
  <2>1. ~Reports(e) /\ e.kind # "stop"
    BY <1>3 DEF Reports
  <2>2. CASE mower' = mower
    <3>1. UNCHANGED <<job, running, toReport, toAnnounce>>
      BY <2>2 DEF mower
    <3> QED BY <1>2, <2>1, <3>1 DEF ToldOnce, Reports
  <2>3. CASE job' = job + 1 /\ toReport' = FALSE /\ toAnnounce' = FALSE
    <3>1. \A f \in Around : f.job # job'
      BY <1>1, <2>3
    <3> QED BY <1>2, <2>1, <2>3, <3>1 DEF ToldOnce, Reports
  <2>4. CASE ~(mower' = mower) /\ ~(job' = job + 1 /\ toReport' = FALSE /\ toAnnounce' = FALSE)
    BY <1>3, <2>1, <2>4
  <2> QED BY <2>2, <2>3, <2>4
<1>4. CASE /\ e.kind = "stop" /\ toAnnounce /\ toAnnounce' = FALSE
           /\ UNCHANGED <<job, running, toReport>>
  <2>1. ~Reports(e)
    BY <1>4 DEF Reports
  <2>2. \A f \in Around : f.job = e.job => f.kind # "stop"
    BY <1>2, <1>4
  <2> QED BY <1>2, <1>4, <2>1, <2>2 DEF ToldOnce, Reports
<1>5. CASE /\ Reports(e) /\ toReport /\ toReport' = FALSE
           /\ UNCHANGED <<job, running, toAnnounce>>
  <2>1. e.kind # "stop"
    BY <1>5 DEF Reports
  <2>2. \A f \in Around : f.job = e.job => ~Reports(f)
    BY <1>2, <1>5
  <2> QED BY <1>2, <1>5, <2>1, <2>2 DEF ToldOnce, Reports
<1> QED BY <1>3, <1>4, <1>5

\* The mower tells of something, of which it has not told.
LEMMA TellStep ==
    ASSUME IInv, IInv', OInv, NEW e \in Events(Kinds), e.id = count + 1, e.job = job',
           job' \in {job, job + 1}, Notify(e), ToldOnce'
    PROVE  OInv'
<1>0. Numbered /\ Typed
  BY AroundTyped DEF OInv
<1>1. /\ Grown
      /\ Around' \subseteq Around \cup {e}
      /\ e \in Around'
      /\ \A f \in Around : f.id < e.id
      /\ count' = count + 1 /\ UNCHANGED <<added, EventsMade>>
      /\ IF e.kind = "report" THEN lastReport' = e /\ lastEdge' = lastEdge
                              ELSE lastReport' = lastReport /\ lastEdge' = e
      /\ ~added => tasks' = tasks
      /\ added /\ e.kind = "report" =>
             \E i \in DOMAIN tasks' : tasks'[i].on = "report" /\ tasks'[i].event = e
      /\ e # None
  BY <1>0, NotifyGrows
<1>2. InOrder' /\ LastFired' /\ ReportsLast' /\ StopsBefore' /\ Distinct'
  BY <1>1, GrownInOrder, GrownKeeps DEF OInv
<1>3. FirstReport'
  BY <1>1, GrownFirst
<1>4. Numbered'
  <2>1. \A f \in Around : f.id \in Nat /\ f.job \in Nat /\ f.id <= count /\ f.job <= job
    BY <1>0 DEF Typed, Numbered
  <2>2. count \in Nat /\ job \in Nat
    BY <1>0 DEF Typed
  <2>3. \A f \in Around' : f.id <= count' /\ f.job <= job'
    <3>1. \A f \in Around : f.id <= count + 1 /\ f.job <= job'
      BY <2>1, <2>2
    <3>2. count + 1 <= count + 1 /\ job' <= job'
      BY <2>2
    <3> QED BY <1>1, <3>1, <3>2
  <2>4. ASSUME NEW f \in Around', NEW g \in Around'
        PROVE  (f.id = g.id => f = g) /\ (f.id <= g.id => f.job <= g.job)
    <3>1. CASE f = e /\ g = e
      BY <2>2, <3>1
    <3>2. CASE f \in Around /\ g = e
      <4>1. f.id < e.id /\ f.id \in Nat /\ e.id \in Nat /\ f.job <= job
        BY <1>1, <2>1, <2>2, <3>2
      <4>2. f.job <= job' /\ f.id # e.id
        BY <2>1, <2>2, <3>2, <4>1
      <4> QED BY <3>2, <4>2
    <3>3. CASE f = e /\ g \in Around
      <4>1. g.id < e.id /\ g.id \in Nat /\ e.id \in Nat
        BY <1>1, <2>1, <2>2, <3>3
      <4>2. ~(e.id <= g.id) /\ e.id # g.id
        BY <4>1
      <4> QED BY <3>3, <4>2
    <3>4. CASE f \in Around /\ g \in Around
      BY <1>0, <3>4 DEF Numbered
    <3> QED BY <1>1, <2>4, <3>1, <3>2, <3>3, <3>4
  <2> QED BY <2>3, <2>4 DEF Numbered
<1>5. MissedReport'
  <2> SUFFICES ASSUME ~seen, lastReport' # None, Reports(lastReport'),
                      \A i \in DOMAIN tasks' : ~EndingReport(tasks'[i])
               PROVE  /\ ~added'
                      /\ \A f \in EventsMade : f.kind = "stop" => f.id < lastReport'.id
                      /\ \A i \in DOMAIN tasks' :
                             tasks'[i].on = "jobEdge" => tasks'[i].event.id < lastReport'.id
    BY <1>1 DEF MissedReport, Grown, EndingReport, Reports
  <2>1. \A i \in DOMAIN tasks : ~EndingReport(tasks[i])
    BY <1>1 DEF Grown
  <2>2. CASE e.kind = "report"
    <3>1. lastReport' = e /\ \A i \in DOMAIN tasks' : ~(tasks'[i].on = "report" /\ tasks'[i].event = e)
      BY <1>1, <2>2 DEF EndingReport
    <3>2. ~added /\ tasks' = tasks /\ added' = added
      BY <1>1, <2>2, <3>1
    <3> QED BY <1>0, <1>1, <3>1, <3>2 DEF Typed
  <2>3. CASE e.kind # "report"
    <3>1. lastReport' = lastReport
      BY <1>1, <2>3
    <3>2. /\ ~added
          /\ \A f \in EventsMade : f.kind = "stop" => f.id < lastReport.id
          /\ \A i \in DOMAIN tasks : tasks[i].on = "jobEdge" => tasks[i].event.id < lastReport.id
      BY <2>1, <3>1 DEF OInv, MissedReport
    <3> QED BY <1>1, <3>1, <3>2
  <2> QED BY <2>2, <2>3
<1> QED BY <1>2, <1>3, <1>4, <1>5 DEF OInv

\* Whatever the mower tells of, the order of the events stands.
LEMMA MowerTells ==
    ASSUME IInv, IInv', OInv,
           \/ \E word \in {"app", "other"} : BeginJob(word)
           \/ MidJob("resume", "continue")
           \/ MidJob("pause", "lowBattery")
           \/ MidJob("report", "CLEANING")
           \/ \E word \in Words : Announce(word)
           \/ Report
    PROVE  OInv'
<1>1. job \in 0..MaxJobs /\ count \in Nat /\ Numbered /\ ToldOnce
  BY Bounds DEF IInv, TypeOK, OInv
<1>2. ASSUME NEW e \in Events(Kinds), Notify(e), e.id = count + 1
      PROVE  Around' \subseteq Around \cup {e}
  BY <1>1, <1>2, NotifyGrows
<1>3. ASSUME NEW e, Notify(e) PROVE count + 1 \in 1..MaxEvents
  BY <1>1, <1>3, Bounds DEF Notify
<1>4. ASSUME NEW word \in {"app", "other"}, BeginJob(word) PROVE OInv'
  <2> DEFINE e == [Event("start", word) EXCEPT !.job = job']
  <2>1. /\ job' = job + 1 /\ job' \in 0..MaxJobs
        /\ toReport' = FALSE /\ toAnnounce' = FALSE /\ Notify(e)
    BY <1>1, <1>4, Bounds DEF BeginJob
  <2>2. e = [id |-> count + 1, job |-> job', kind |-> "start", word |-> word]
    BY DEF Event
  <2> HIDE DEF e
  <2>3. e \in Events(Kinds) /\ e.id = count + 1 /\ e.job = job' /\ e.kind = "start"
    BY <1>3, <2>1, <2>2 DEF Events, Kinds, AllWords, Words
  <2>4. ToldOnce'
    BY <1>1, <1>2, <2>1, <2>3, TellsOnce
  <2> QED BY <2>1, <2>3, <2>4, TellStep
<1>5. ASSUME NEW kind \in {"resume", "pause", "report"},
             NEW word \in {"continue", "lowBattery", "CLEANING"}, MidJob(kind, word),
             kind = "report" => word = "CLEANING"
      PROVE  OInv'
  <2> DEFINE e == Event(kind, word)
  <2>1. mower' = mower /\ job' = job /\ Notify(e)
    BY <1>5 DEF MidJob, mower
  <2>2. e = [id |-> count + 1, job |-> job, kind |-> kind, word |-> word]
    BY DEF Event
  <2> HIDE DEF e
  <2>3. /\ e \in Events(Kinds) /\ e.id = count + 1 /\ e.job = job'
        /\ e.kind \in {"start", "resume", "pause"} \/ (e.kind = "report" /\ e.word = "CLEANING")
    BY <1>1, <1>3, <1>5, <2>1, <2>2 DEF Events, Kinds, AllWords, StartTriggers
  <2>4. ToldOnce'
    BY <1>1, <1>2, <2>1, <2>3, TellsOnce
  <2> QED BY <2>1, <2>3, <2>4, TellStep
<1>6. ASSUME NEW word \in Words, Announce(word) PROVE OInv'
  <2> DEFINE e == Event("stop", word)
  <2>1. /\ toAnnounce /\ toAnnounce' = FALSE /\ UNCHANGED <<job, running, toReport>>
        /\ Notify(e)
    BY <1>6 DEF Announce
  <2>2. e = [id |-> count + 1, job |-> job, kind |-> "stop", word |-> word]
    BY DEF Event
  <2> HIDE DEF e
  <2>3. e \in Events(Kinds) /\ e.id = count + 1 /\ e.job = job' /\ e.kind = "stop"
    BY <1>1, <1>3, <2>1, <2>2 DEF Events, Kinds, AllWords
  <2>4. ToldOnce'
    BY <1>1, <1>2, <2>1, <2>3, TellsOnce
  <2> QED BY <2>1, <2>3, <2>4, TellStep
<1>7. CASE Report
  <2> DEFINE e == Event("report", "FINISHED")
  <2>1. /\ toReport /\ toReport' = FALSE /\ UNCHANGED <<job, running, toAnnounce>>
        /\ Notify(e)
    BY <1>7 DEF Report
  <2>2. e = [id |-> count + 1, job |-> job, kind |-> "report", word |-> "FINISHED"]
    BY DEF Event
  <2> HIDE DEF e
  <2>3. e \in Events(Kinds) /\ e.id = count + 1 /\ e.job = job' /\ Reports(e)
    BY <1>1, <1>3, <2>1, <2>2 DEF Events, Kinds, AllWords, Reports
  <2>4. ToldOnce'
    BY <1>1, <1>2, <2>1, <2>3, TellsOnce
  <2> QED BY <2>1, <2>3, <2>4, TellStep
<1> QED BY <1>4, <1>5, <1>6, <1>7

\* The entities are added again: what they are replayed is the last there is.
LEMMA AddAgain ==
    ASSUME IInv, IInv', OInv, Add
    PROVE  OInv'
<1>1. /\ Grown
      /\ Around' \subseteq Around
      /\ UNCHANGED <<mower, bus, EventsMade>>
      /\ lastReport # None =>
             \E i \in DOMAIN tasks' : tasks'[i].on = "report" /\ tasks'[i].event = lastReport
  BY AddGrows
<1>2. UNCHANGED <<job, running, toReport, toAnnounce, count, lastReport, lastEdge>>
  BY <1>1 DEF mower, bus
<1>3. InOrder' /\ LastFired' /\ ReportsLast' /\ StopsBefore' /\ Distinct'
  BY <1>1, GrownInOrder, GrownKeeps DEF OInv
<1>4. FirstReport'
  BY <1>1, <1>2, GrownFirst
<1>5. Numbered' /\ ToldOnce'
  BY <1>1, <1>2 DEF OInv, Numbered, ToldOnce, Reports
<1>6. MissedReport'
  BY <1>1, <1>2 DEF MissedReport, EndingReport, Reports
<1> QED BY <1>3, <1>4, <1>5, <1>6 DEF OInv

\* A job ends, the entities go: no event, no callback.
LEMMA NothingTold ==
    ASSUME IInv, OInv, EndJob \/ Remove \/ UNCHANGED vars
    PROVE  OInv'
<1>1. UNCHANGED <<job, count, lastReport, lastEdge, tasks, seen, ending, start, fired>>
  BY DEF EndJob, Remove, vars, mower, bus, entities
<1>2. UNCHANGED <<Around, EventsMade>>
  BY <1>1 DEF Around, EventsMade
<1>3. \/ running /\ running' = FALSE
      \/ UNCHANGED <<running, toReport, toAnnounce>>
  BY DEF EndJob, Remove, vars, mower
<1>4. ToldOnce'
  BY <1>1, <1>2, <1>3 DEF OInv, ToldOnce, Reports
<1>5. MissedReport'
  <2>1. added' = added \/ added' = FALSE
    BY DEF EndJob, Remove, vars
  <2> QED BY <1>1, <1>2, <2>1 DEF OInv, MissedReport, EndingReport, Reports
<1>6. Numbered' /\ InOrder' /\ LastFired' /\ ReportsLast' /\ StopsBefore' /\ Distinct'
  BY <1>1, <1>2
  DEF OInv, Numbered, InOrder, Source, Waits, Starts, LastFired, ReportsLast, StopsBefore,
      Distinct, Reports
<1>7. FirstReport'
  BY <1>1, <1>2 DEF OInv, FirstReport, EndingReport, Ahead, Reports
<1> QED BY <1>4, <1>5, <1>6, <1>7 DEF OInv

\* The first callback leaves the queue, the others move up.
LEMMA Popped ==
    ASSUME IInv, NEW handler, Running(handler)
    PROVE  /\ 1 \in DOMAIN tasks /\ tasks[1].event = This /\ tasks[1].on = handler
           /\ \A i \in DOMAIN tasks' : i + 1 \in DOMAIN tasks /\ tasks'[i] = tasks[i + 1]
                                       /\ i \in Nat /\ 1 < i + 1
           /\ \A j \in DOMAIN tasks : j = 1 \/
                  \E i \in DOMAIN tasks' : i + 1 = j /\ tasks'[i] = tasks[j]
<1>1. tasks \in Seq(Tasks) /\ tasks # <<>> /\ Head(tasks).on = handler /\ tasks' = Tail(tasks)
  BY DEF IInv, Running
<1> DEFINE n == Len(tasks)
<1>2. /\ n \in Nat /\ n > 0 /\ DOMAIN tasks = 1..n
      /\ DOMAIN tasks' = 1..(n - 1) /\ tasks[1] = Head(tasks)
      /\ \A i \in 1..(n - 1) : tasks'[i] = tasks[i + 1]
  BY <1>1, HeadTailProperties, LenProperties, EmptySeq
<1> HIDE DEF n
<1>3. 1 \in DOMAIN tasks /\ tasks[1].event = This /\ tasks[1].on = handler
  BY <1>1, <1>2 DEF This
<1>4. \A i \in DOMAIN tasks' : /\ i + 1 \in DOMAIN tasks /\ tasks'[i] = tasks[i + 1]
                               /\ i \in Nat /\ 1 < i + 1
  BY <1>2
<1>5. ASSUME NEW j \in DOMAIN tasks, j # 1
      PROVE  \E i \in DOMAIN tasks' : i + 1 = j /\ tasks'[i] = tasks[j]
  <2>1. j - 1 \in 1..(n - 1) /\ (j - 1) + 1 = j
    BY <1>2, <1>5
  <2> QED BY <1>2, <2>1
<1> QED BY <1>3, <1>4, <1>5

\* Firing puts an event behind those that were fired.
LEMMA FiredBehind ==
    ASSUME IInv, This \in Events(Kinds), Fire
    PROVE  \E n \in Nat : /\ DOMAIN fired = 1..n /\ DOMAIN fired' = 1..(n + 1)
                          /\ \A i \in 1..n : fired'[i] = fired[i]
                          /\ fired'[n + 1] = This
<1>1. fired \in Seq(Events(Kinds)) /\ fired' = Append(fired, This)
  BY DEF IInv, Fire
<1> DEFINE n == Len(fired)
<1>2. /\ n \in Nat /\ DOMAIN fired = 1..n /\ DOMAIN fired' = 1..(n + 1)
      /\ \A i \in 1..n : fired'[i] = fired[i]
      /\ fired'[n + 1] = This
  BY <1>1, AppendProperties, LenProperties
<1> HIDE DEF n
<1> QED BY <1>2

\* What a callback may do: nothing, or fire the event it was called with, one
\* that is not among those of its kind an entity still holds.
Handles(handler) ==
    /\ Running(handler)
    /\ UNCHANGED <<mower, bus, added>>
    /\ \/ UNCHANGED <<fired, ending, start, seen>>
       \/ /\ handler = "report" /\ Reports(This) /\ This # ending
          /\ Fire /\ ending' = This /\ seen' = TRUE /\ start' = start
       \/ /\ handler = "jobEdge" /\ This.kind = "stop" /\ This # ending /\ ~seen
          /\ Fire /\ ending' = This /\ UNCHANGED <<seen, start>>
       \/ /\ handler = "startEdge" /\ Starts(This) /\ This # start
          /\ Fire /\ start' = This /\ UNCHANGED <<seen, ending>>
    /\ ~seen' => ~(handler = "report" /\ Reports(This))

\* The three callbacks are such steps.
LEMMA CallbackHandles ==
    ASSUME IInv, OInv
    PROVE  /\ OnReport => Handles("report")
           /\ OnJobEdge => Handles("jobEdge")
           /\ OnStartEdge => Handles("startEdge")
<1>1. ASSUME OnReport PROVE Handles("report")
  <2>1. /\ Running("report") /\ UNCHANGED <<mower, bus, added>> /\ start' = start
        /\ seen' = (seen \/ This.word # "CLEANING")
        /\ IF This.word = "CLEANING" \/ This = ending
           THEN UNCHANGED <<ending, fired>>
           ELSE ending' = This /\ Fire
    BY <1>1 DEF OnReport
  <2>2. This.kind = "report" /\ This # None
    BY <2>1, Ran DEF Events
  <2>3. This.word = "CLEANING" => ~Reports(This) /\ seen' = seen
    BY <2>1 DEF Reports, IInv, TypeOK
  <2>4. This = ending => seen
    <3>1. ASSUME This = ending PROVE seen
      <4>1. ending \in EventsMade /\ ending.kind = "report"
        BY <2>2, <3>1 DEF IInv, EndingWasFired
      <4> QED BY <4>1 DEF OInv, LastFired
    <3> QED BY <3>1
  <2>5. CASE This.word = "CLEANING"
    BY <2>1, <2>3, <2>5 DEF Handles
  <2>6. CASE This.word # "CLEANING"
    <3>1. seen' = TRUE /\ Reports(This)
      BY <2>1, <2>2, <2>6 DEF Reports
    <3>2. CASE This = ending
      <4>1. seen' = seen
        BY <2>4, <3>1, <3>2 DEF IInv, TypeOK
      <4> QED BY <2>1, <3>1, <3>2, <4>1 DEF Handles
    <3>3. CASE This # ending
      BY <2>1, <2>6, <3>1, <3>3 DEF Handles
    <3> QED BY <3>2, <3>3
  <2> QED BY <2>5, <2>6
<1>2. ASSUME OnJobEdge PROVE Handles("jobEdge")
  BY <1>2 DEF OnJobEdge, Handles, IsEnding
<1>3. ASSUME OnStartEdge PROVE Handles("startEdge")
  BY <1>3 DEF OnStartEdge, Handles, Starts
<1> QED BY <1>1, <1>2, <1>3

\* What is fired was not fired before, and is younger than all of its kind.
LEMMA FiresNew ==
    ASSUME IInv, OInv, NEW handler, Handles(handler)
    PROVE  \/ UNCHANGED <<fired, ending, start, seen>>
           \/ /\ Fire /\ This \notin EventsMade
              /\ Waits(tasks[1], This) /\ tasks[1].on = handler
              /\ \A e \in EventsMade : Waits(tasks[1], e) => e.id < This.id
<1>1. /\ 1 \in DOMAIN tasks /\ tasks[1].event = This /\ tasks[1].on = handler
      /\ Typed
  BY Popped, AroundTyped DEF Handles
<1>2. This \in Around /\ This.id \in Nat
  BY <1>1 DEF Typed
<1>3. \A e \in EventsMade : Waits(tasks[1], e) => e.id <= This.id /\ e.id \in Nat
  BY <1>1 DEF OInv, InOrder, Typed
<1>4. \A e \in EventsMade : e.id = This.id => e = This
  BY <1>1, <1>2 DEF OInv, Numbered, Typed
<1>5. ASSUME This \notin EventsMade, Fire, Waits(tasks[1], This)
      PROVE  \A e \in EventsMade : Waits(tasks[1], e) => e.id < This.id
  <2> SUFFICES ASSUME NEW e \in EventsMade, Waits(tasks[1], e) PROVE e.id < This.id
    OBVIOUS
  <2>1. e.id # This.id
    BY <1>4, <1>5
  <2> QED BY <1>2, <1>3, <2>1
<1>6. ASSUME NEW h \in EventsMade, This \in EventsMade, h # This, Waits(tasks[1], h), This.id <= h.id
      PROVE  FALSE
  <2>1. h.id = This.id
    BY <1>2, <1>3, <1>6
  <2> QED BY <1>4, <1>6, <2>1
<1>7. CASE /\ handler = "report" /\ Reports(This) /\ This # ending /\ Fire
  <2>1. Waits(tasks[1], This)
    BY <1>1, <1>7 DEF Waits, Reports
  <2>2. ASSUME This \in EventsMade PROVE FALSE
    <3>1. ending # None /\ ending.kind = "report" /\ This.id <= ending.id
      BY <1>7, <2>2 DEF OInv, LastFired, Reports
    <3>2. ending \in EventsMade /\ Waits(tasks[1], ending)
      BY <1>1, <1>7, <3>1 DEF IInv, EndingWasFired, Waits
    <3> QED BY <1>6, <1>7, <2>2, <3>1, <3>2
  <2> QED BY <1>1, <1>5, <1>7, <2>1, <2>2
<1>8. CASE /\ handler = "jobEdge" /\ This.kind = "stop" /\ This # ending /\ ~seen /\ Fire
  <2>1. Waits(tasks[1], This)
    BY <1>1, <1>8 DEF Waits
  <2>2. ASSUME This \in EventsMade PROVE FALSE
    <3>1. ending # None /\ ending.kind = "stop" /\ This.id <= ending.id
      BY <1>8, <2>2 DEF OInv, LastFired
    <3>2. ending \in EventsMade /\ Waits(tasks[1], ending)
      BY <1>1, <1>8, <3>1 DEF IInv, EndingWasFired, Waits
    <3> QED BY <1>6, <1>8, <2>2, <3>1, <3>2
  <2> QED BY <1>1, <1>5, <1>8, <2>1, <2>2
<1>9. CASE /\ handler = "startEdge" /\ Starts(This) /\ This # start /\ Fire
  <2>1. Waits(tasks[1], This)
    BY <1>1, <1>9 DEF Waits
  <2>2. ASSUME This \in EventsMade PROVE FALSE
    <3>1. start # None /\ start \in EventsMade /\ This.id <= start.id
      BY <1>9, <2>2 DEF OInv, LastFired
    <3>2. Waits(tasks[1], start)
      BY <1>1, <1>9, <3>1 DEF IInv, TypeOK, Events, Waits, Starts
    <3> QED BY <1>6, <1>9, <2>2, <3>1, <3>2
  <2> QED BY <1>1, <1>5, <1>9, <2>1, <2>2
<1> QED BY <1>7, <1>8, <1>9 DEF Handles

\* A callback takes what waits and what was fired no further apart.
LEMMA HandledInOrder ==
    ASSUME IInv, OInv, NEW handler, Handles(handler), This \in Events(Kinds)
    PROVE  InOrder' /\ EventsMade \subseteq EventsMade'
           /\ EventsMade' \subseteq EventsMade \cup {This} /\ Around' \subseteq Around
           /\ (UNCHANGED <<fired, ending, start, seen>> => EventsMade' = EventsMade)
           /\ (Fire => EventsMade' = EventsMade \cup {This})
<1>1. /\ 1 \in DOMAIN tasks /\ tasks[1].event = This /\ tasks[1].on = handler
      /\ \A i \in DOMAIN tasks' : i + 1 \in DOMAIN tasks /\ tasks'[i] = tasks[i + 1]
                                  /\ i \in Nat /\ 1 < i + 1
      /\ Typed
  BY Popped, AroundTyped DEF Handles
<1>2. UNCHANGED <<lastReport, lastEdge>> /\ (~seen' => ~seen)
  BY DEF Handles, bus, IInv, TypeOK
<1>3. /\ UNCHANGED <<fired, ending, start, seen>> => EventsMade' = EventsMade
      /\ Fire => EventsMade' = EventsMade \cup {This}
  BY Fires DEF IInv, EventsMade
<1>4. /\ EventsMade \subseteq EventsMade' /\ EventsMade' \subseteq EventsMade \cup {This}
      /\ Fire \/ UNCHANGED <<fired, ending, start, seen>>
  BY <1>3 DEF Handles
<1>5. Around' \subseteq Around
  BY <1>1, <1>2, <1>4 DEF Around
<1>6. /\ \A i \in DOMAIN tasks :
             Source(tasks[i].event) # None /\ tasks[i].event.id <= Source(tasks[i].event).id
      /\ \A e \in EventsMade : Source(e) # None /\ e.id <= Source(e).id
      /\ \A i, j \in DOMAIN tasks :
             i < j /\ tasks[i].on = tasks[j].on => tasks[i].event.id <= tasks[j].event.id
      /\ \A i \in DOMAIN tasks : \A e \in EventsMade :
             Waits(tasks[i], e) => e.id <= tasks[i].event.id
  BY DEF OInv, InOrder
<1>7. \A e : Source(e) = Later(e)
  BY <1>2 DEF Source, Later
<1>8. \A i \in DOMAIN tasks' :
          Later(tasks'[i].event) # None /\ tasks'[i].event.id <= Later(tasks'[i].event).id
  BY <1>1, <1>6, <1>7
<1>9. \A e \in EventsMade' : Later(e) # None /\ e.id <= Later(e).id
  BY <1>1, <1>4, <1>6, <1>7
<1>10. ASSUME NEW i \in DOMAIN tasks', NEW j \in DOMAIN tasks', i < j, tasks'[i].on = tasks'[j].on
       PROVE  tasks'[i].event.id <= tasks'[j].event.id
  <2>1. i + 1 < j + 1
    BY <1>1, <1>10
  <2> QED BY <1>1, <1>6, <1>10, <2>1
<1>11. ASSUME NEW i \in DOMAIN tasks', NEW e \in EventsMade', Waits(tasks'[i], e)
       PROVE  e.id <= tasks'[i].event.id
  <2>1. CASE e \in EventsMade
    BY <1>1, <1>6, <1>11, <2>1
  <2>2. CASE e = This /\ e \notin EventsMade
    <3>1. tasks[1].on = tasks[i + 1].on
      <4>1. Waits(tasks[1], This)
        BY <1>3, <1>11, <2>2, FiresNew
      <4> QED BY <1>1, <1>11, <2>2, <4>1 DEF Waits, Starts
    <3> QED BY <1>1, <1>6, <2>2, <3>1
  <2> QED BY <1>3, <1>4, <1>11, <2>1, <2>2
<1>12. \A t, e : (\/ t.on = "report" /\ e.kind = "report"
                  \/ t.on = "startEdge" /\ Starts(e)
                  \/ t.on = "jobEdge" /\ e.kind = "stop" /\ ~seen') => Waits(t, e)
  BY <1>2 DEF Waits
<1>13. InOrder'
  BY <1>8, <1>9, <1>10, <1>11, <1>12 DEF InOrder, Source, Later, Waits, Starts
<1> QED BY <1>3, <1>4, <1>5, <1>13

\* What an entity holds is the last it fired, after a callback too.
LEMMA HandledLast ==
    ASSUME IInv, OInv, NEW handler, Handles(handler), This \in Events(Kinds)
    PROVE  LastFired' /\ StopsBefore'
<1>1. /\ 1 \in DOMAIN tasks /\ tasks[1].event = This /\ tasks[1].on = handler
      /\ Typed /\ This \in Around /\ This.id \in Nat
  BY Popped, AroundTyped DEF Handles, Typed
<1>2. /\ UNCHANGED <<fired, ending, start, seen>> => EventsMade' = EventsMade
      /\ Fire => EventsMade' = EventsMade \cup {This}
  BY HandledInOrder
<1>3. /\ \A e \in EventsMade :
             /\ Starts(e) => start # None /\ e.id <= start.id
             /\ e.kind = "stop" /\ ~seen => ending # None /\ ending.kind = "stop" /\ e.id <= ending.id
             /\ e.kind = "report" =>
                    /\ Reports(e) /\ seen
                    /\ ending # None /\ ending.kind = "report" /\ e.id <= ending.id
      /\ start # None => start \in EventsMade
      /\ seen => \E e \in EventsMade : e.kind = "report"
      /\ \A e, f \in EventsMade : e.kind = "stop" /\ f.kind = "report" => e.id < f.id
  BY DEF OInv, LastFired, StopsBefore
<1>4. CASE UNCHANGED <<fired, ending, start, seen>>
  BY <1>2, <1>3, <1>4 DEF LastFired, StopsBefore, Starts, Reports
<1>5. ASSUME Fire
      PROVE  /\ \A e \in EventsMade' : Waits(tasks[1], e) => e.id <= This.id
             /\ This # None /\ This.id <= This.id
  <2>1. \A e \in EventsMade : Waits(tasks[1], e) => e.id <= This.id
    BY <1>1 DEF OInv, InOrder
  <2>2. This.id <= This.id
    BY <1>1
  <2> QED BY <1>1, <1>2, <1>5, <2>1, <2>2 DEF Typed
<1>6. CASE /\ handler = "report" /\ Reports(This)
           /\ Fire /\ ending' = This /\ seen' = TRUE /\ start' = start
  <2>1. This.kind = "report" /\ ~Starts(This)
    BY <1>6 DEF Reports, Starts
  <2>2. \A e \in EventsMade' : e.kind = "report" => e.id <= This.id
    BY <1>1, <1>5, <1>6 DEF Waits
  <2>3. LastFired'
    BY <1>2, <1>3, <1>5, <1>6, <2>1, <2>2 DEF LastFired, Starts, Reports
  <2>4. ASSUME NEW e \in EventsMade, e.kind = "stop" PROVE e.id < This.id
    <3>1. CASE ~seen
      <4>1. EndingReport(tasks[1])
        BY <1>1, <1>6 DEF EndingReport
      <4> QED BY <1>1, <2>4, <3>1, <4>1 DEF OInv, FirstReport
    <3>2. CASE seen
      <4>1. PICK f \in EventsMade : f.kind = "report"
        BY <1>3, <3>2
      <4>2. e.id < f.id /\ f.id <= This.id
        BY <1>2, <1>3, <1>6, <2>2, <2>4, <4>1
      <4>3. e.id \in Nat /\ f.id \in Nat
        BY <1>1, <2>4, <4>1 DEF Typed
      <4> QED BY <1>1, <4>2, <4>3
    <3> QED BY <1>3, <3>1, <3>2
  <2>5. StopsBefore'
    BY <1>2, <1>3, <1>6, <2>1, <2>4 DEF StopsBefore
  <2> QED BY <2>3, <2>5
<1>7. CASE /\ handler = "jobEdge" /\ This.kind = "stop" /\ ~seen
           /\ Fire /\ ending' = This /\ UNCHANGED <<seen, start>>
  <2>1. \A e \in EventsMade' : e.kind = "stop" => e.id <= This.id
    BY <1>1, <1>5, <1>7 DEF Waits
  <2>2. \A e \in EventsMade' : e.kind # "report"
    BY <1>2, <1>3, <1>7
  <2>3. ~Starts(This)
    BY <1>7 DEF Starts
  <2>4. LastFired'
    BY <1>2, <1>3, <1>5, <1>7, <2>1, <2>2, <2>3 DEF LastFired, Starts, Reports
  <2>5. StopsBefore'
    BY <2>2 DEF StopsBefore
  <2> QED BY <2>4, <2>5
<1>8. CASE /\ handler = "startEdge" /\ Starts(This)
           /\ Fire /\ start' = This /\ UNCHANGED <<seen, ending>>
  <2>1. \A e \in EventsMade' : Starts(e) => e.id <= This.id
    BY <1>1, <1>5, <1>8 DEF Waits
  <2>2. This.kind # "stop" /\ This.kind # "report"
    BY <1>8 DEF Starts
  <2>3. LastFired'
    BY <1>2, <1>3, <1>5, <1>8, <2>1, <2>2 DEF LastFired, Starts, Reports
  <2>4. StopsBefore'
    BY <1>2, <1>3, <1>8, <2>2 DEF StopsBefore
  <2> QED BY <2>3, <2>4
<1> QED BY <1>4, <1>6, <1>7, <1>8 DEF Handles

\* What is fired is fired once, and no stop behind a report.
LEMMA HandledOnce ==
    ASSUME IInv, OInv, NEW handler, Handles(handler), This \in Events(Kinds)
    PROVE  Distinct' /\ ReportsLast'
<1>1. CASE UNCHANGED <<fired, ending, start, seen>>
  BY <1>1 DEF OInv, Distinct, ReportsLast
<1>2. CASE Fire /\ ~UNCHANGED <<fired, ending, start, seen>>
  <2>1. /\ This \notin EventsMade
        /\ Waits(tasks[1], This) /\ tasks[1].on = handler
        /\ \A e \in EventsMade : Waits(tasks[1], e) => e.id < This.id
    BY <1>2, FiresNew
  <2>2. PICK n \in Nat : /\ DOMAIN fired = 1..n /\ DOMAIN fired' = 1..(n + 1)
                         /\ \A i \in 1..n : fired'[i] = fired[i]
                         /\ fired'[n + 1] = This
    BY <1>2, FiredBehind
  <2>3. \A i \in 1..n : fired[i] \in EventsMade
    BY <2>2 DEF EventsMade
  <2>4. \A i \in 1..(n + 1) : i \in 1..n \/ i = n + 1
    OBVIOUS
  <2>5. \A i \in 1..n : fired'[i] # This
    BY <2>1, <2>2, <2>3
  <2>6. \A i, j \in 1..n : fired'[i] = fired'[j] => i = j
    BY <2>2 DEF OInv, Distinct
  <2>7. Distinct'
    <3>1. \A i, j \in 1..(n + 1) : fired'[i] = fired'[j] => i = j
      BY <2>2, <2>4, <2>5, <2>6
    <3> QED BY <2>2, <3>1 DEF Distinct
  <2>8. ASSUME NEW i \in 1..n, fired[i].kind = "report"
        PROVE  This.kind # "stop" /\ (This.kind = "report" => fired[i].id < This.id)
    <3>1. fired[i] \in EventsMade /\ seen
      BY <2>3, <2>8 DEF OInv, LastFired
    <3>2. This.kind # "stop"
      BY <2>1, <3>1 DEF Waits, Starts
    <3>3. This.kind = "report" => Waits(tasks[1], fired[i])
      BY <2>1, <2>8 DEF Waits, Starts
    <3> QED BY <2>1, <3>1, <3>2, <3>3
  <2>9. \A i, j \in 1..(n + 1) : i < j => i \in 1..n /\ (j \in 1..n \/ j = n + 1)
    OBVIOUS
  <2>10. \A i, j \in 1..n : i < j /\ fired'[i].kind = "report" =>
             /\ fired'[j].kind # "stop"
             /\ fired'[j].kind = "report" => fired'[i].id < fired'[j].id
    BY <2>2 DEF OInv, ReportsLast
  <2>11. ReportsLast'
    <3>1. \A i, j \in 1..(n + 1) : i < j /\ fired'[i].kind = "report" =>
              /\ fired'[j].kind # "stop"
              /\ fired'[j].kind = "report" => fired'[i].id < fired'[j].id
      BY <2>2, <2>8, <2>9, <2>10
    <3> QED BY <2>2, <3>1 DEF ReportsLast
  <2> QED BY <2>7, <2>11
<1> QED BY <1>1, <1>2 DEF Handles

\* The first report of an ending stays the youngest of what waits ahead of it.
LEMMA HandledFirst ==
    ASSUME IInv, OInv, NEW handler, Handles(handler), This \in Events(Kinds)
    PROVE  FirstReport' /\ MissedReport'
<1>1. /\ 1 \in DOMAIN tasks /\ tasks[1].event = This /\ tasks[1].on = handler
      /\ \A i \in DOMAIN tasks' : i + 1 \in DOMAIN tasks /\ tasks'[i] = tasks[i + 1]
                                  /\ i \in Nat /\ 1 < i + 1
      /\ \A j \in DOMAIN tasks : j = 1 \/
             \E i \in DOMAIN tasks' : i + 1 = j /\ tasks'[i] = tasks[j]
      /\ Typed
  BY Popped, AroundTyped DEF Handles
<1>2. \A j \in DOMAIN tasks : ~(j < 1)
  BY LenProperties DEF IInv
<1> SUFFICES ASSUME ~seen' PROVE FirstReport' /\ MissedReport'
  BY DEF FirstReport, MissedReport
<1>3. ~seen /\ ~EndingReport(tasks[1]) /\ UNCHANGED <<lastReport, added>>
  BY <1>1 DEF Handles, EndingReport, bus, IInv, TypeOK
<1>4. \A e \in EventsMade' : e.kind = "stop" =>
          e \in EventsMade \/ (e = This /\ tasks[1].on = "jobEdge")
  BY <1>1, HandledInOrder DEF Handles, Starts, Reports
<1>5. Ahead(1)
  BY <1>2 DEF Ahead
<1>6. ASSUME NEW q \in DOMAIN tasks',
             \A r \in DOMAIN tasks' : r < q => ~EndingReport(tasks'[r])
      PROVE  Ahead(q + 1)
  <2> SUFFICES ASSUME NEW r \in DOMAIN tasks, r < q + 1 PROVE ~EndingReport(tasks[r])
    BY DEF Ahead
  <2>1. CASE r = 1
    BY <1>3, <2>1
  <2>2. ASSUME NEW i \in DOMAIN tasks', i + 1 = r, tasks'[i] = tasks[r]
        PROVE  ~EndingReport(tasks[r])
    <3>1. i < q
      BY <1>1, <2>2
    <3> QED BY <1>6, <2>2, <3>1
  <2> QED BY <1>1, <2>1, <2>2
<1>7. ASSUME NEW i \in DOMAIN tasks', EndingReport(tasks'[i])
      PROVE  /\ \A e \in EventsMade' : e.kind = "stop" => e.id < tasks'[i].event.id
             /\ \A q \in DOMAIN tasks' :
                    /\ q < i /\ tasks'[q].on = "jobEdge"
                    /\ \A r \in DOMAIN tasks' : r < q => ~EndingReport(tasks'[r])
                    => tasks'[q].event.id < tasks'[i].event.id
  <2>1. i + 1 \in DOMAIN tasks /\ EndingReport(tasks[i + 1]) /\ tasks'[i] = tasks[i + 1] /\ 1 < i + 1
    BY <1>1, <1>7
  <2>2. /\ \A e \in EventsMade : e.kind = "stop" => e.id < tasks[i + 1].event.id
        /\ \A q \in DOMAIN tasks :
               q < i + 1 /\ tasks[q].on = "jobEdge" /\ Ahead(q) => tasks[q].event.id < tasks[i + 1].event.id
    BY <1>3, <2>1 DEF OInv, FirstReport
  <2>3. \A e \in EventsMade' : e.kind = "stop" => e.id < tasks'[i].event.id
    BY <1>1, <1>4, <1>5, <2>1, <2>2
  <2>4. ASSUME NEW q \in DOMAIN tasks', q < i, tasks'[q].on = "jobEdge",
               \A r \in DOMAIN tasks' : r < q => ~EndingReport(tasks'[r])
        PROVE  tasks'[q].event.id < tasks'[i].event.id
    <3>1. q + 1 < i + 1
      BY <1>1, <2>4
    <3>2. Ahead(q + 1)
      BY <1>6, <2>4
    <3> QED BY <1>1, <2>1, <2>2, <2>4, <3>1, <3>2
  <2> QED BY <2>3, <2>4
<1>8. FirstReport'
  BY <1>7 DEF FirstReport, Ahead, EndingReport, Reports
<1>9. ASSUME lastReport # None, Reports(lastReport),
             \A i \in DOMAIN tasks' : ~EndingReport(tasks'[i])
      PROVE  /\ ~added
             /\ \A e \in EventsMade' : e.kind = "stop" => e.id < lastReport.id
             /\ \A i \in DOMAIN tasks' :
                    tasks'[i].on = "jobEdge" => tasks'[i].event.id < lastReport.id
  <2>1. \A j \in DOMAIN tasks : ~EndingReport(tasks[j])
    BY <1>1, <1>3, <1>9
  <2>2. /\ ~added
        /\ \A e \in EventsMade : e.kind = "stop" => e.id < lastReport.id
        /\ \A i \in DOMAIN tasks : tasks[i].on = "jobEdge" => tasks[i].event.id < lastReport.id
    BY <1>3, <1>9, <2>1 DEF OInv, MissedReport
  <2> QED BY <1>1, <1>4, <2>2
<1>10. MissedReport'
  BY <1>3, <1>9 DEF MissedReport, EndingReport, Reports
<1> QED BY <1>8, <1>10

\* A callback keeps the order of the events.
LEMMA CallbackKeeps ==
    ASSUME IInv, OInv, OnReport \/ OnJobEdge \/ OnStartEdge
    PROVE  OInv'
<1>1. PICK handler : Handles(handler)
  BY CallbackHandles
<1>2. This \in Events(Kinds)
  BY <1>1, Ran DEF Handles
<1>3. Around' \subseteq Around /\ InOrder'
  BY <1>1, <1>2, HandledInOrder
<1>4. UNCHANGED <<job, running, toReport, toAnnounce, count>>
  BY <1>1 DEF Handles, mower, bus
<1>5. Numbered' /\ ToldOnce'
  BY <1>3, <1>4 DEF OInv, Numbered, ToldOnce, Reports
<1>6. LastFired' /\ StopsBefore' /\ Distinct' /\ ReportsLast' /\ FirstReport' /\ MissedReport'
  BY <1>1, <1>2, HandledLast, HandledOnce, HandledFirst
<1> QED BY <1>3, <1>5, <1>6 DEF OInv

\* At first there is no event.
LEMMA InitOrdered == Init => OInv
<1> SUFFICES ASSUME Init PROVE OInv
  OBVIOUS
<1>1. DOMAIN tasks = {} /\ DOMAIN fired = {}
  BY EmptySeq DEF Init
<1>2. EventsMade = {} /\ Around = {} /\ lastReport = None /\ ~seen /\ start = None
      /\ ~toReport /\ ~toAnnounce
  BY <1>1 DEF Init, EventsMade, Around
<1> QED
  BY <1>1, <1>2
  DEF OInv, Numbered, ToldOnce, InOrder, LastFired, ReportsLast, StopsBefore, FirstReport,
      MissedReport, Distinct

\* Every step keeps the order of the events.
LEMMA NextOrdered == IInv /\ IInv' /\ OInv /\ [Next]_vars => OInv'
BY MowerTells, AddAgain, NothingTold, CallbackKeeps DEF Next

\* The order of the events tells that none was fired twice.
LEMMA OrderedOnce == IInv /\ OInv => FiredOnce
<1> SUFFICES ASSUME IInv, OInv, NEW i \in DOMAIN fired, NEW j \in DOMAIN fired
             PROVE  /\ fired[i] = fired[j] => i = j
                    /\ i < j /\ TellsOfEnd(fired[i]) /\ TellsOfEnd(fired[j])
                       /\ fired[i].job = fired[j].job =>
                           /\ fired[j].kind = "report"
                           /\ \A k \in 1..(j - 1) : fired[k].kind # "report"
  BY DEF FiredOnce
<1>1. Typed /\ \E n \in Nat : DOMAIN fired = 1..n
  BY AroundTyped, LenProperties DEF IInv
<1>2. \A k \in DOMAIN fired : /\ fired[k] \in EventsMade /\ fired[k] \in Around
                              /\ fired[k].id \in Nat /\ fired[k].job \in Nat /\ k \in Nat
  BY <1>1 DEF Typed
<1>3. fired[i] = fired[j] => i = j
  BY DEF OInv, Distinct
<1>4. ASSUME i < j, TellsOfEnd(fired[i]), TellsOfEnd(fired[j]), fired[i].job = fired[j].job
      PROVE  /\ fired[j].kind = "report"
             /\ \A k \in 1..(j - 1) : fired[k].kind # "report"
  <2>1. i # j /\ fired[i] # fired[j]
    BY <1>2, <1>3, <1>4
  <2>2. \A e \in EventsMade : e.kind = "report" => Reports(e)
    BY DEF OInv, LastFired
  <2>3. ~(fired[i].kind = "stop" /\ fired[j].kind = "stop")
    BY <1>2, <1>4, <2>1 DEF OInv, ToldOnce
  <2>4. ~(fired[i].kind = "report" /\ fired[j].kind = "report")
    BY <1>2, <1>4, <2>1, <2>2 DEF OInv, ToldOnce
  <2>5. ~(fired[i].kind = "report" /\ fired[j].kind = "stop")
    BY <1>4 DEF OInv, ReportsLast
  <2>6. fired[i].kind = "stop" /\ fired[j].kind = "report"
    BY <1>4, <2>3, <2>4, <2>5 DEF TellsOfEnd
  <2>7. ASSUME NEW k \in 1..(j - 1), fired[k].kind = "report" PROVE FALSE
    <3>1. k \in DOMAIN fired /\ k < j /\ k # j
      BY <1>1, <1>2
    <3>2. fired[k].id < fired[j].id
      BY <2>6, <2>7, <3>1 DEF OInv, ReportsLast
    <3>3. fired[i].id < fired[k].id
      BY <1>2, <2>6, <2>7, <3>1 DEF OInv, StopsBefore
    <3>4. fired[i].id <= fired[k].id /\ fired[k].id <= fired[j].id
      BY <1>2, <3>1, <3>2, <3>3
    <3>5. fired[i].job <= fired[k].job /\ fired[k].job <= fired[j].job
      BY <1>2, <3>1, <3>4 DEF OInv, Numbered
    <3>6. fired[k].job = fired[j].job
      BY <1>2, <1>4, <3>1, <3>5
    <3>7. fired[k] = fired[j]
      BY <1>2, <2>2, <2>6, <2>7, <3>1, <3>6 DEF OInv, ToldOnce
    <3> QED BY <3>1, <3>7 DEF OInv, Distinct
  <2> QED BY <2>6, <2>7
<1> QED BY <1>3, <1>4

-------------------------------------------------------------------------------

\* For any number of jobs and events every variable keeps its type: what
\* _reported_ending holds tells of an end, what _reported_start holds of a start.
THEOREM TypeCorrect == Spec => []TypeOK
<1>1. IInv => TypeOK
  BY DEF IInv
<1> QED BY <1>1, InitInv, NextInv, PTL DEF Spec

\* Every ending that the library reports is fired, and so is every announced one
\* as long as the library has reported none, over any number of jobs, removals
\* and replays (issue #74).
THEOREM EndingFires == Spec => []AnnouncedEndingFires
<1>1. IInv => AnnouncedEndingFires
  BY DEF IInv
<1> QED BY <1>1, InitInv, NextInv, PTL DEF Spec

\* No event is fired twice, however often the entities are removed, added and
\* replayed, and a job is fired as ended once, though the library's report and
\* the stop announcement both tell of it, except the job of the first report.
THEOREM FiresOnce == Spec => []FiredOnce
<1>1. Init => IInv /\ OInv
  BY InitInv, InitOrdered
<1>2. IInv /\ OInv /\ [Next]_vars => IInv' /\ OInv'
  BY NextInv, NextOrdered
<1>3. IInv /\ OInv => FiredOnce
  BY OrderedOnce
<1> QED BY <1>1, <1>2, <1>3, PTL DEF Spec

===============================================================================
