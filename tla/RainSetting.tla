------------------------------- MODULE RainSetting -------------------------------
(***************************************************************************)
(* A setting the mower takes only as a pair, and two entities that each    *)
(* own one half of it: the rain switch and the rain delay (switch.py,      *)
(* number.py, messages.py).  Each resends the half it does not own as the  *)
(* mower last reported it.  Animal protection is the same with the switch  *)
(* alone.                                                                  *)
(*                                                                         *)
(* Reports come as pushes, when the setting changes, and as answers to the *)
(* refresh that follows a write; either may be lost, late or unreadable.   *)
(* A report without a usable toggle is dropped, one without a usable delay *)
(* leaves the delay unknown.                                               *)
(* No name is also one of AreaWrite: one module holds the proofs of both.  *)
(***************************************************************************)
EXTENDS Naturals, Sequences

CONSTANTS Absent,      \* nothing reported, nothing on its way, unusable
          Holds,       \* the delays, or the windows
          Entities,    \* the entities enabled: "switch" and perhaps "number"
          MaxChanges,  \* bound on the app's changes and the calls, and
          MaxTasks     \* on the events waiting, for model checking only

ASSUME AbsentAssumption == Absent \notin Holds \cup BOOLEAN
ASSUME EntitiesAssumption == Entities \subseteq {"switch", "number"}
ASSUME RainBoundsAssumption == MaxChanges \in Nat /\ MaxTasks \in Nat \ {0}

Pairs == [on : BOOLEAN, hold : Holds]
RainReports == [on : BOOLEAN \cup {Absent}, hold : Holds \cup {Absent}]
Events == [on : BOOLEAN, hold : Holds \cup {Absent}]
Nothing == [on |-> Absent, hold |-> Absent]

ASSUME RainReportsAssumption == Absent \notin RainReports

VARIABLES
    setting,     \* the pair the mower has
    rainPush,    \* the onRainDelay on its way
    rainRefresh, \* getRainDelay: "none", "asked", "answered"
    rainReply,   \* its answer on its way
    strayPair,   \* a set that was given up on and may still be taken
    lastEvent,   \* the bus's last MowerRainDelayEvent
    tasks,       \* the events each entity has still to see
    kept,        \* what each entity holds: its own half and the other
    added,       \* the entities that are added
    write,       \* per entity: where its write is, and the pair it sent
    changes,     \* how many changes and calls there were
    had,         \* history: the values the mower has held
    owed         \* history: a write's refresh is on its way, undisturbed

wire == <<rainPush, rainRefresh, rainReply, strayPair>>
rainVars == <<setting, wire, lastEvent, tasks, kept, added, write, changes, had, owed>>

Idle == [at |-> "idle", pair |-> Nothing]

RainInit ==
    /\ setting \in Pairs
    /\ rainPush = Absent /\ rainRefresh = "none" /\ rainReply = Absent /\ strayPair = Absent
    /\ lastEvent = Absent
    /\ tasks = [e \in Entities |-> <<>>]
    /\ kept = [e \in Entities |-> Nothing]
    /\ added = {}
    /\ write = [e \in Entities |-> Idle]
    /\ changes = 0
    /\ had = [on |-> {setting.on}, hold |-> {setting.hold}]
    /\ owed = FALSE

-------------------------------------------------------------------------------
(* The mower.                                                               *)

\* How a setting may read on the wire.
Readings(pair) == {pair, [pair EXCEPT !.on = Absent], [pair EXCEPT !.hold = Absent]}

\* It takes a pair and, when that changes anything, pushes it, perhaps in vain.
TakePair(pair) ==
    /\ setting' = pair
    /\ had' = [on |-> had.on \cup {pair.on}, hold |-> had.hold \cup {pair.hold}]
    /\ rainPush' \in {rainPush} \cup (IF pair # setting /\ rainPush = Absent THEN Readings(pair) ELSE {})
    /\ owed' = FALSE

AppChanges(pair) ==
    /\ changes < MaxChanges /\ pair # setting
    /\ changes' = changes + 1
    /\ TakePair(pair)
    /\ UNCHANGED <<rainRefresh, rainReply, strayPair, lastEvent, tasks, kept, added, write>>

StrayTaken ==
    /\ strayPair # Absent
    /\ TakePair(strayPair)
    /\ strayPair' = Absent
    /\ UNCHANGED <<rainRefresh, rainReply, lastEvent, tasks, kept, added, write, changes>>

RainAnswered ==
    /\ rainRefresh = "asked"
    /\ rainRefresh' = "answered"
    /\ rainReply' \in Readings(setting)
    /\ owed' = (owed /\ rainReply' = setting)
    /\ UNCHANGED <<setting, rainPush, strayPair, lastEvent, tasks, kept, added, write, changes, had>>

-------------------------------------------------------------------------------
(* Reports and the bus.                                                     *)

Ask == rainRefresh' = IF rainRefresh = "none" THEN "asked" ELSE rainRefresh

\* EventBus.notify
Notify(event) ==
    /\ lastEvent' = event
    /\ tasks' = IF event = lastEvent THEN tasks
                ELSE [e \in Entities |-> IF e \in added THEN Append(tasks[e], event) ELSE <<>>]

\* OnRainDelay, for a push and an answer alike.
Handle(report) ==
    /\ \A e \in Entities : Len(tasks[e]) < MaxTasks
    /\ IF report.on = Absent THEN UNCHANGED <<lastEvent, tasks>> ELSE Notify(report)

RainPushArrives ==
    /\ rainPush # Absent
    /\ Handle(rainPush)
    /\ rainPush' = Absent
    /\ owed' = (owed /\ rainPush = setting)
    /\ UNCHANGED <<setting, rainRefresh, rainReply, strayPair, kept, added, write, changes, had>>

RainAnswerArrives ==
    /\ rainRefresh = "answered"
    /\ Handle(rainReply)
    /\ rainRefresh' = "none" /\ rainReply' = Absent
    /\ UNCHANGED <<setting, rainPush, strayPair, kept, added, write, changes, had, owed>>

RainAnswerLost ==
    /\ rainRefresh # "none"
    /\ rainRefresh' = "none" /\ rainReply' = Absent
    /\ owed' = FALSE
    /\ UNCHANGED <<setting, rainPush, strayPair, lastEvent, tasks, kept, added, write, changes, had>>

-------------------------------------------------------------------------------
(* The entities.                                                            *)

\* async_added_to_hass: the subscription replays the last event; the first one
\* asks for the setting.
AddEntity(e) ==
    /\ e \notin added
    /\ added' = added \cup {e}
    /\ tasks' = [tasks EXCEPT ![e] = IF lastEvent = Absent THEN <<>> ELSE <<lastEvent>>]
    /\ IF added = {} THEN Ask ELSE UNCHANGED rainRefresh
    /\ UNCHANGED <<setting, rainPush, rainReply, strayPair, lastEvent, kept, write, changes, had, owed>>

\* on_event of either entity: the whole event is held.
OnEvent(e) ==
    /\ tasks[e] # <<>>
    /\ kept' = [kept EXCEPT ![e] = Head(tasks[e])]
    /\ tasks' = [tasks EXCEPT ![e] = Tail(@)]
    /\ UNCHANGED <<setting, wire, lastEvent, added, write, changes, had, owed>>

\* The pair an entity sends: its half changed, the other as it is held.
Sent(e, half) ==
    IF e = "switch" THEN [on |-> half, hold |-> kept[e].hold]
                    ELSE [on |-> kept[e].on, hold |-> half]
Halves(e) == IF e = "switch" THEN BOOLEAN ELSE Holds

\* Mutated form: an unknown half gets a default.
SetWithDefault(e, half) ==
    /\ e \in added /\ write[e] = Idle /\ changes < MaxChanges
    /\ LET pair == Sent(e, half)
           hold == IF pair.hold = Absent THEN CHOOSE h \in Holds : TRUE ELSE pair.hold
       IN  write' = [write EXCEPT ![e] = [at |-> "sent", pair |-> [on |-> pair.on = TRUE, hold |-> hold]]]
    /\ changes' = changes + 1
    /\ UNCHANGED <<setting, wire, lastEvent, tasks, kept, added, had, owed>>

\* Mutated form: not refused while the other half is unknown.
SetUnasked(e, half) ==
    /\ e \in added /\ write[e] = Idle /\ changes < MaxChanges
    /\ write' = [write EXCEPT ![e] = [at |-> "sent", pair |-> Sent(e, half)]]
    /\ changes' = changes + 1
    /\ UNCHANGED <<setting, wire, lastEvent, tasks, kept, added, had, owed>>

\* _set and async_set_native_value: refused while the other half is unknown.
Set(e, half) ==
    /\ e \in added /\ write[e] = Idle /\ changes < MaxChanges
    /\ Sent(e, half) \in Pairs
    /\ write' = [write EXCEPT ![e] = [at |-> "sent", pair |-> Sent(e, half)]]
    /\ changes' = changes + 1
    /\ UNCHANGED <<setting, wire, lastEvent, tasks, kept, added, had, owed>>

Taken(e) ==
    /\ write[e].at = "sent"
    /\ TakePair(write[e].pair)
    /\ write' = [write EXCEPT ![e].at = "taken"]
    /\ UNCHANGED <<rainRefresh, rainReply, strayPair, lastEvent, tasks, kept, added, changes>>

\* Mutated form: the push is trusted to come.
EndSetUnasked(e) ==
    /\ write[e].at \in {"sent", "taken"}
    /\ write' = [write EXCEPT ![e] = Idle]
    /\ strayPair' \in {strayPair} \cup (IF write[e].at = "sent" /\ strayPair = Absent THEN {write[e].pair} ELSE {})
    /\ owed' = (owed \/ (write[e].at = "taken" /\ rainRefresh = "none"))
    /\ UNCHANGED <<setting, rainPush, rainRefresh, rainReply, lastEvent, tasks, kept, added, changes, had>>

\* Confirmed or not, the write ends with a refresh.  A set that was given up on
\* before the mower took it may still be on its way.
EndSet(e) ==
    /\ write[e].at \in {"sent", "taken"}
    /\ write' = [write EXCEPT ![e] = Idle]
    /\ strayPair' \in {strayPair} \cup (IF write[e].at = "sent" /\ strayPair = Absent THEN {write[e].pair} ELSE {})
    /\ owed' = (owed \/ (write[e].at = "taken" /\ rainRefresh = "none"))
    /\ Ask
    /\ UNCHANGED <<setting, rainPush, rainReply, lastEvent, tasks, kept, added, changes, had>>

RainNext ==
    \/ \E pair \in Pairs : AppChanges(pair)
    \/ StrayTaken
    \/ RainAnswered
    \/ RainPushArrives
    \/ RainAnswerArrives
    \/ RainAnswerLost
    \/ \E e \in Entities :
        \/ AddEntity(e)
        \/ OnEvent(e)
        \/ \E half \in Halves(e) : Set(e, half)
        \/ Taken(e)
        \/ EndSet(e)

\* The event loop runs its tasks, and an answer that is not lost comes.
RainFairness ==
    /\ WF_rainVars(RainAnswered)
    /\ WF_rainVars(RainAnswerArrives)
    /\ \A e \in Entities : WF_rainVars(OnEvent(e))

RainSpec == RainInit /\ [][RainNext]_rainVars /\ RainFairness

-------------------------------------------------------------------------------
(* Properties.                                                              *)

\* Every variable has its type; what is on its way to the mower is a whole pair.
RainTypeOK ==
    /\ setting \in Pairs
    /\ {rainPush, rainReply} \subseteq RainReports \cup {Absent}
    /\ rainRefresh \in {"none", "asked", "answered"}
    /\ strayPair \in Pairs \cup {Absent}
    /\ lastEvent \in Events \cup {Absent}
    /\ \A e \in Entities : Len(tasks[e]) <= MaxTasks
    /\ \A e \in Entities : kept[e] \in Events \cup {Nothing}
    /\ added \subseteq Entities
    /\ \A e \in Entities : write[e] = Idle
           \/ (write[e].at \in {"sent", "taken"} /\ write[e].pair \in Pairs)
    /\ owed \in BOOLEAN

\* The half an entity does not own.
Other(e, pair) == IF e = "switch" THEN pair.hold ELSE pair.on

\* No write carries a toggle or a delay that the mower never held ("any default
\* here is a hold the owner never chose"): not from an unreadable report, and
\* not before the first.
OnlyReportedIsResent ==
    \A e \in Entities : write[e].at # "idle" =>
        Other(e, write[e].pair) \in (IF e = "switch" THEN had.hold ELSE had.on)

\* A write that was confirmed is shown in the end, though its push is lost: the
\* refresh that follows tells, unless it is lost too or something else changes
\* or is reported meanwhile.
WrittenIsShown == owed ~> (~owed \/ \A e \in added : kept[e] = setting)

===============================================================================
