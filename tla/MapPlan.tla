--------------------------------- MODULE MapPlan --------------------------------
(***************************************************************************)
(* The rows of onMapTrack, from the mower's messages to the map and its    *)
(* store (map_messages.py, geometry.py, map.py, controller.py).            *)
(*                                                                         *)
(* On a class with the remaining-plan reading a row is what is still to    *)
(* mow: single rows are pushed as they shrink, the whole plan comes in     *)
(* fragments when it is asked for, and the stop of a job clears it.  On    *)
(* every other class a row is coverage, merged for ever.  A release may    *)
(* move a class from the second reading to the first.                      *)
(*                                                                         *)
(* Messages arrive in the order they were sent, or not at all.  The bus    *)
(* drops an event equal to its last one.  Home Assistant may reload the    *)
(* entry, stop, or crash; the map is saved with a delay.                   *)
(***************************************************************************)
EXTENDS Naturals, Sequences, SequencesExt

CONSTANTS None,        \* no row, no event
          Rows,        \* the rows of the lawn, one fragment of a plan each
          MaxLength,   \* how long a row is at most
          MaxBatches,  \* FragmentBuffer's capacity
          MaxJobs,     \* the rest are bounds for model checking only: on the
          MaxAnswers,  \* jobs, on the plans asked for, on the restarts, on
          MaxRestarts, \* the messages under way and on the callbacks waiting
          MaxWire,
          MaxTasks

Lengths == 0..MaxLength
Partial == [Rows -> Lengths \cup {None}]
Empty == [r \in Rows |-> None]
Readings == {"coverage", "remaining"}
Events == [rows : Partial, complete : BOOLEAN]

ASSUME NoneAssumption == None \notin Nat \cup Readings \cup Events
ASSUME RowsAssumption == IsFiniteSet(Rows) /\ MaxLength \in Nat
ASSUME BatchesAssumption == MaxBatches \in Nat \ {0}
ASSUME BoundsAssumption == MaxWire \in Nat /\ MaxTasks \in Nat

VARIABLES
    running,   \* a job runs
    plan,      \* the length left of each row
    jobs,      \* how many jobs have begun
    answers,   \* how many plans were asked for
    wire,      \* the messages on their way
    buffer,    \* the incomplete plans, least recently extended first
    lastEvent, \* the bus's last row event
    tasks,     \* the row events the controller has still to see
    reading,   \* the class's reading of the rows in this release
    map,       \* MowerMap.remaining or MowerMap.lanes: a finished row is absent
    timer,     \* a delayed save is due
    store,     \* the saved rows, and the key they are under
    leftover,  \* what the previous setup's store has still to write
    stage,     \* of the controller: "up", "saving" the map, "down"
    restarts,  \* how often it went down
    reported,  \* history: the rows as the messages handed in tell of them
    stopped,   \* history: the last job's stop was handed in
    planned,   \* history: the rows reported under the remaining reading since
               \* it is the class's, all of them if it always was
    missed     \* history: a restart, or a store that could not be read, lost a
               \* change of the map

mower == <<running, plan, jobs, answers>>
events == <<lastEvent, tasks>>
saved == <<timer, store, leftover, missed>>
life == <<stage, restarts, reading>>
told == <<reported, stopped, planned>>
vars == <<mower, wire, buffer, events, map, saved, life, told>>

Rowless == [key |-> None, rows |-> Empty]

Init ==
    /\ running = FALSE /\ plan = [r \in Rows |-> 0]
    /\ jobs = 0 /\ answers = 0
    /\ wire = <<>> /\ buffer = <<>>
    /\ lastEvent = None /\ tasks = <<>>
    /\ reading \in Readings
    /\ map = Empty
    /\ timer = FALSE /\ store = Rowless /\ leftover = Rowless /\ missed = FALSE
    /\ stage = "up" /\ restarts = 0
    /\ reported = Empty /\ stopped = FALSE
    /\ planned = IF reading = "remaining" THEN Rows ELSE {}

-------------------------------------------------------------------------------
(* The mower.                                                               *)

\* The message goes out, or is lost.
Send(message) ==
    /\ wire' \in {wire, Append(wire, message)}
    /\ Len(wire') <= MaxWire

BeginJob ==
    /\ ~running /\ jobs < MaxJobs
    /\ jobs' = jobs + 1 /\ running' = TRUE
    /\ plan' \in [Rows -> Lengths] \ {[r \in Rows |-> 0]}
    /\ stopped' = FALSE
    /\ UNCHANGED <<answers, wire, buffer, events, map, saved, life, reported, planned>>

\* The row under the mower shrinks, and is pushed.
Mow(r) ==
    /\ running /\ plan[r] > 0
    /\ plan' = [plan EXCEPT ![r] = @ - 1]
    /\ Send([kind |-> "row", row |-> r, length |-> plan'[r]])
    /\ UNCHANGED <<running, jobs, answers, buffer, events, map, saved, life, told>>

\* The tick or the app asks for the plan, one fragment a row, and some of them
\* are lost; with no job the mower refuses.
SendPlan ==
    /\ running /\ answers < MaxAnswers
    /\ answers' = answers + 1
    /\ Len(wire) + Cardinality(Rows) <= MaxWire
    /\ \E sent \in SUBSET Rows :
           LET order == SetToSeq(sent)
               fragment(r) == [kind |-> "part", batch |-> answers', row |-> r,
                               length |-> plan[r], of |-> plan]
           IN  wire' = wire \o [i \in 1..Cardinality(sent) |-> fragment(order[i])]
    /\ UNCHANGED <<running, plan, jobs, buffer, events, map, saved, life, told>>

\* Completed, ended by somebody or by rain; a firmware may leave the word out.
EndJob(trigger) ==
    /\ running
    /\ trigger = "workComplete" => \A r \in Rows : plan[r] = 0
    /\ running' = FALSE
    /\ plan' = [r \in Rows |-> 0]
    /\ Send([kind |-> "stop", job |-> jobs, trigger |-> trigger])
    /\ UNCHANGED <<jobs, answers, buffer, events, map, saved, life, told>>

-------------------------------------------------------------------------------
(* The handlers of the messages.                                            *)

Arriving(kind) ==
    /\ stage # "down"
    /\ wire # <<>> /\ Head(wire).kind = kind
    /\ wire' = Tail(wire)
    /\ Len(tasks) < MaxTasks

\* EventBus.notify
Publish(rows, complete) ==
    LET event == [rows |-> rows, complete |-> complete]
    IN  /\ lastEvent' = event
        /\ tasks' = IF event = lastEvent THEN tasks ELSE Append(tasks, event)

Merged(old, new) == [r \in Rows |-> IF new[r] = None THEN old[r] ELSE new[r]]
Reported(rows) == {r \in Rows : rows[r] # None}

\* History: what these rows tell on top of what was told before.
Tell(rows, whole) ==
    /\ reported' = IF whole THEN rows ELSE Merged(reported, rows)
    /\ planned' = IF reading = "remaining" THEN planned \cup Reported(rows) ELSE planned
    /\ UNCHANGED stopped

\* The fragment's batch, the buffer without it, and what it holds of the plan.
Known(part) == \E i \in DOMAIN buffer : buffer[i].batch = part.batch
Slot(part) == CHOOSE i \in DOMAIN buffer : buffer[i].batch = part.batch
Others(part) == IF Known(part) THEN RemoveAt(buffer, Slot(part)) ELSE buffer
Held(part) == IF Known(part) THEN buffer[Slot(part)].parts ELSE Empty
Batch(part, held) == [batch |-> part.batch, parts |-> [held EXCEPT ![part.row] = part.length]]

\* Mutated forms: fragments meet under one key; a lost fragment is waited for.
ExtendedKeyless(part) ==
    <<Batch(part, IF buffer = <<>> THEN Empty ELSE Head(buffer).parts)>>
ExtendedUnbounded(part) == Append(Others(part), Batch(part, Held(part)))

\* FragmentBuffer.add: the fragment joins its batch, which is now the most
\* recent one; over capacity the least recent is dropped.
Extended(part) ==
    LET all == Append(Others(part), Batch(part, Held(part)))
    IN  IF Len(all) > MaxBatches THEN Tail(all) ELSE all

\* The buffer after a message of one fragment passed through it.
Passed == IF Len(buffer) = MaxBatches THEN Tail(buffer) ELSE buffer

\* OnMapTrack with a single row: both readings merge it.
RowArrives ==
    /\ Arriving("row")
    /\ LET rows == [Empty EXCEPT ![Head(wire).row] = Head(wire).length]
       IN  Publish(rows, FALSE) /\ Tell(rows, FALSE)
    /\ buffer' = Passed
    /\ UNCHANGED <<mower, map, saved, life>>

\* A finished row is absent from a whole plan, not reported empty.
Unfinished(parts) == [r \in Rows |-> IF parts[r] = 0 THEN None ELSE parts[r]]

\* OnMapTrack with a whole plan.  Under the coverage reading an empty one says
\* nothing; as a plan it says that the job is finished.
PublishPlan(rows) ==
    IF rows = Empty /\ reading = "coverage" THEN UNCHANGED <<events, told>>
    ELSE Publish(rows, reading = "remaining") /\ Tell(rows, reading = "remaining")

PartArrives ==
    /\ Arriving("part")
    /\ LET after == Extended(Head(wire))
           batch == Last(after)
       IN  IF Reported(batch.parts) = Rows
           THEN buffer' = Front(after) /\ PublishPlan(Unfinished(batch.parts))
           ELSE buffer' = after /\ UNCHANGED <<events, told>>
    /\ UNCHANGED <<mower, map, saved, life>>

\* Mutated forms: only a completed job's plan is gone; coverage is cleared as
\* well.
ResetOnCompletion(trigger) ==
    /\ IF trigger = "workComplete" /\ reading = "remaining"
       THEN Publish(Empty, TRUE) ELSE UNCHANGED events
    /\ UNCHANGED map
ResetAnyReading(trigger) == Publish(Empty, TRUE) /\ UNCHANGED map

\* reset_remaining_plan
Reset(trigger) ==
    /\ IF reading = "remaining" THEN Publish(Empty, TRUE) ELSE UNCHANGED events
    /\ UNCHANGED map

\* The job edge of a stop; without a trigger it is given up on before the reset.
StopArrives ==
    /\ Arriving("stop")
    /\ LET trigger == Head(wire).trigger
           gone == trigger # None /\ reading = "remaining"
       IN  /\ IF trigger = None THEN UNCHANGED <<events, map>> ELSE Reset(trigger)
           /\ reported' = IF gone THEN Empty ELSE reported
           /\ stopped' = (gone /\ ~running /\ Head(wire).job = jobs)
    /\ UNCHANGED <<mower, buffer, saved, life, planned>>

-------------------------------------------------------------------------------
(* The controller: map and store.                                           *)

\* Mutated form: a map that a reset empties is not saved.
OnRowsResetUnsaved ==
    /\ tasks # <<>>
    /\ tasks' = Tail(tasks)
    /\ LET event == Head(tasks)
       IN  /\ map' = IF event.complete THEN event.rows ELSE Merged(map, event.rows)
           /\ timer' = (timer \/ event.rows # Empty)
    /\ missed' = (missed \/ stage = "saving")
    /\ UNCHANGED <<mower, wire, buffer, lastEvent, store, leftover, life, told>>

\* on_remaining and on_coverage: update_remaining, update_coverage, and a save.
OnRows ==
    /\ tasks # <<>>
    /\ tasks' = Tail(tasks)
    /\ LET event == Head(tasks)
       IN  map' = IF event.complete THEN event.rows ELSE Merged(map, event.rows)
    /\ timer' = TRUE
    /\ missed' = (missed \/ stage = "saving")
    /\ UNCHANGED <<mower, wire, buffer, lastEvent, store, leftover, life, told>>

\* as_dict: only the reading's own key is written.
AsDict == [key |-> reading, rows |-> map]

\* from_dict: only the reading's own key is read.
FromDict(now) == IF store.key = now THEN store.rows ELSE Empty

\* MAP_SAVE_DELAY is over.
DelayedSave ==
    /\ timer /\ stage # "down"
    /\ store' = AsDict
    /\ timer' = FALSE
    /\ UNCHANGED <<mower, wire, buffer, events, map, leftover, missed, life, told>>

\* teardown: the map is saved, then the device goes and its tasks with it.  A
\* change in between is left to a timer of the old store.
Teardown ==
    /\ stage = "up" /\ restarts < MaxRestarts
    /\ stage' = "saving"
    /\ restarts' = restarts + 1
    /\ store' = AsDict
    /\ timer' = FALSE
    /\ UNCHANGED <<mower, wire, buffer, events, map, leftover, missed, reading, told>>

TeardownDevice ==
    /\ stage = "saving"
    /\ stage' = "down"
    /\ missed' = (missed \/ tasks # <<>>)
    /\ lastEvent' = None /\ tasks' = <<>>
    /\ leftover' = IF timer THEN AsDict ELSE leftover
    /\ timer' = FALSE
    /\ UNCHANGED <<mower, wire, buffer, map, store, restarts, reading, told>>

LeftoverSave ==
    /\ leftover # Rowless
    /\ store' = leftover
    /\ leftover' = Rowless
    /\ UNCHANGED <<mower, wire, buffer, events, map, timer, missed, life, told>>

\* The process dies, with everything that is not in the store.
Crash ==
    /\ stage # "down" /\ restarts < MaxRestarts
    /\ stage' = "down"
    /\ restarts' = restarts + 1
    /\ missed' = (missed \/ timer \/ tasks # <<>>)
    /\ lastEvent' = None /\ tasks' = <<>>
    /\ timer' = FALSE /\ leftover' = Rowless
    /\ buffer' = <<>>
    /\ UNCHANGED <<mower, wire, map, store, reading, told>>

\* What is sent to nobody is gone.
Unheard ==
    /\ stage = "down" /\ wire # <<>>
    /\ wire' = Tail(wire)
    /\ UNCHANGED <<mower, buffer, events, map, saved, life, told>>

\* Setup, of this release or of one with the measured reading.
Setup ==
    /\ stage = "down"
    /\ stage' = "up"
    /\ reading' \in {reading, "remaining"}
    /\ map' = FromDict(reading')
    /\ reported' = FromDict(reading')
    /\ UNCHANGED <<mower, wire, buffer, events, saved, restarts, stopped, planned>>

\* Setup with a store that cannot be read: it is discarded, and the map is empty.
SetupDiscarding ==
    /\ stage = "down" /\ store # Rowless
    /\ stage' = "up"
    /\ store' = Rowless
    /\ map' = Empty /\ reported' = Empty
    /\ missed' = TRUE
    /\ UNCHANGED <<mower, wire, buffer, events, timer, leftover, restarts, reading,
                   stopped, planned>>

Next ==
    \/ BeginJob
    \/ \E r \in Rows : Mow(r)
    \/ SendPlan
    \/ \E trigger \in {"workComplete", "other", None} : EndJob(trigger)
    \/ RowArrives
    \/ PartArrives
    \/ StopArrives
    \/ OnRows
    \/ DelayedSave
    \/ Teardown
    \/ TeardownDevice
    \/ LeftoverSave
    \/ Crash
    \/ Unheard
    \/ Setup
    \/ SetupDiscarding

\* The event loop runs its tasks and its timers.  A save is put off while changes
\* go on, but they end: a job has so many rows.
Fairness == WF_vars(OnRows) /\ WF_vars(DelayedSave)

Spec == Init /\ [][Next]_vars /\ Fairness

-------------------------------------------------------------------------------
(* Properties.                                                              *)

\* Every variable has its type, and the buffer keeps to its capacity.
TypeOK ==
    /\ plan \in [Rows -> Lengths]
    /\ {running, timer, stopped, missed} \subseteq BOOLEAN
    /\ \A m \in Range(wire) : m.kind \in {"row", "part", "stop"}
    /\ Len(wire) <= MaxWire /\ Len(tasks) <= MaxTasks /\ Len(buffer) <= MaxBatches
    /\ \A b \in Range(buffer) : b.parts \in Partial /\ Reported(b.parts) \notin {{}, Rows}
    /\ lastEvent \in Events \cup {None}
    /\ Range(tasks) \subseteq Events
    /\ reading \in Readings
    /\ {map, reported} \subseteq Partial
    /\ {store, leftover} \subseteq [key : Readings \cup {None}, rows : Partial]
    /\ stage \in {"up", "saving", "down"}
    /\ planned \subseteq Rows

Settled == stage = "up" /\ tasks = <<>>

\* Once the controller has caught up, the map holds the rows as the messages
\* tell of them: the bus's dropping of repetitions costs it nothing, though a
\* job like the one before sends the very plan that was cleared.  An announced
\* end, of a completed job or not, leaves nothing to mow on it, nor does a
\* restart bring that back if no change was missed; and what was stored as
\* coverage is never drawn as still to mow.
DrawnAsReported ==
    Settled => /\ map = reported
               /\ stopped /\ ~missed => map = Empty
               /\ reading = "remaining" => Reported(map) \subseteq planned

\* No whole plan is pieced together from two: what a fragment completes is the
\* plan that the fragment was cut from.
NoTornPlan ==
    [][PartArrives /\ lastEvent' # lastEvent
        => lastEvent'.rows = Unfinished(Head(wire).of)]_vars

\* Coverage survives jobs, plans and restarts, unless a change of it was missed.
CoverageSurvives ==
    [][reading = "coverage" /\ reading' = reading /\ ~missed'
        => Reported(map) \subseteq Reported(map')]_vars

\* A change of the map is stored in the end, the reset that empties it included,
\* without another change and whether or not a delayed save is already due, as long
\* as the controller is up.  A map that is empty because nothing was stored under
\* this reading is no change.
DrawnIsStored ==
    (stage = "up" /\ ~missed /\ store # AsDict /\ (map # Empty \/ store.key = reading))
        ~> (stage # "up" \/ missed \/ store = AsDict)

===============================================================================
