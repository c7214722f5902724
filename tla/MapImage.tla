------------------------------- MODULE MapImage -------------------------------
(***************************************************************************)
(* The map image entity (image.py) on the map that the controller keeps    *)
(* (controller.py): which events count as a new image, and the throttle    *)
(* that lets two positions a second through every two seconds only, with   *)
(* one refresh left behind for the last of a burst.                        *)
(*                                                                         *)
(* Both subscribe to the same events, the controller first, and neither    *)
(* callback awaits, so an event updates the map and reaches the entity in  *)
(* one step.  Time is counted since the last image; timers are punctual.   *)
(* The same entity object may be removed and added again (its entity ID is *)
(* changed): its callbacks already made into tasks still run in between,   *)
(* but Home Assistant writes no state of an entity that is not there.      *)
(* No name is also one of MapPlan: one module holds the proofs of both.    *)
(***************************************************************************)
EXTENDS Naturals, Sequences

CONSTANTS Places,    \* where the mower may be
          Outlines,  \* what there is to draw: boundaries, plan, coverage, ...
          Names,     \* the area labels
          Interval,  \* POSITION_UPDATE_INTERVAL_SECONDS, in ticks
          Nothing,   \* no event yet, no refresh due
          MaxWaiting \* bound on the events waiting, for model checking only

ASSUME NothingAssumption == Nothing \notin Places \cup Outlines \cup Names \cup 0..Interval
ASSUME IntervalAssumption == Interval \in Nat \ {0} /\ MaxWaiting \in Nat \ {0}

VARIABLES
    last,     \* the bus's last event of each type
    awaited,  \* the events whose callbacks have still to run
    mowerMap, \* what the controller's map holds
    added,    \* the entity is there
    age,      \* the time since image_last_updated, up to the interval
    due,      \* when the trailing refresh is due, or Nothing
    written   \* what the map held when the entity's state was last written

bus == <<last, awaited>>
image == <<added, age, due, written>>
imageVars == <<bus, mowerMap, image>>

Types == {"position", "outline", "names"}
Values == [position |-> Places, outline |-> Outlines, names |-> Names]
Maps == [position : Places \cup {Nothing}, outline : Outlines \cup {Nothing},
         names : Names \cup {Nothing}]
NoMap == [position |-> Nothing, outline |-> Nothing, names |-> Nothing]

\* A map as it was stored: the marker and the track are not.
ImageInit ==
    /\ last = NoMap
    /\ awaited = <<>>
    /\ mowerMap \in {m \in Maps : m.position = Nothing}
    /\ added = FALSE
    /\ age = 0
    /\ due = Nothing
    /\ written = NoMap

-------------------------------------------------------------------------------
(* The mower and the bus.                                                   *)

\* The entity does not subscribe to the areas that the labels are made of.
Subscribed == {"position", "outline"}

\* A report, unless it repeats the last one.
Report(type, value) ==
    /\ value # last[type]
    /\ Len(awaited) < MaxWaiting
    /\ last' = [last EXCEPT ![type] = value]
    /\ awaited' = Append(awaited, [type |-> type, value |-> value,
                               map |-> TRUE, image |-> added /\ type \in Subscribed])
    /\ UNCHANGED <<mowerMap, image>>

-------------------------------------------------------------------------------
(* The entity's handlers, given the map as the controller left it.          *)

\* Mutated form: the pending refresh is left to come.
BumpLeavesRefresh(now) ==
    /\ age' = 0
    /\ written' = IF added THEN now ELSE written
    /\ UNCHANGED due

\* _bump: every write supersedes a pending refresh.
Bump(now) ==
    /\ due' = Nothing
    /\ age' = 0
    /\ written' = IF added THEN now ELSE written

\* Mutated form: what the throttle skips is gone.
OnPositionsSkips(now) ==
    IF age >= Interval THEN Bump(now) ELSE UNCHANGED <<age, due, written>>

\* Mutated form: the refresh is put off by a whole interval.
OnPositionsWholeInterval(now) ==
    IF age >= Interval THEN Bump(now)
    ELSE /\ due' = IF due = Nothing THEN Interval ELSE due
         /\ UNCHANGED <<age, written>>

\* _on_positions: at most one refresh is scheduled, for the end of the interval.
OnPositions(now) ==
    IF age >= Interval THEN Bump(now)
    ELSE /\ due' = IF due = Nothing THEN Interval - age ELSE due
         /\ UNCHANGED <<age, written>>

\* The controller's callback, then the entity's, which runs even if the entity has
\* been removed since its task was made.
RunEvent ==
    /\ awaited # <<>>
    /\ awaited' = Tail(awaited)
    /\ LET e == Head(awaited)
       IN  /\ mowerMap' = IF e.map THEN [mowerMap EXCEPT ![e.type] = e.value] ELSE mowerMap
           /\ \/ e.image /\ e.type = "outline" /\ Bump(mowerMap')
              \/ e.image /\ e.type = "position" /\ OnPositions(mowerMap')
              \/ ~e.image /\ UNCHANGED <<age, due, written>>
    /\ UNCHANGED <<last, added>>

\* _on_trailing_bump
Trailing ==
    /\ due = 0
    /\ Bump(mowerMap)
    /\ UNCHANGED <<bus, mowerMap, added>>

\* A tick of the clock; a timer that is due does not wait for it.
Tick ==
    /\ due # 0
    /\ age < Interval
    /\ age' = age + 1
    /\ due' = IF due = Nothing THEN Nothing ELSE due - 1
    /\ UNCHANGED <<bus, mowerMap, added, written>>

\* The entity is added, or added again with the image_last_updated and the refresh
\* that it has: its state is written, and the bus replays to it alone the last
\* events of the types that it subscribes to.
AddImage ==
    /\ ~added
    /\ Len(awaited) <= MaxWaiting
    /\ added' = TRUE
    /\ written' = mowerMap
    /\ LET replay(type) ==
               IF last[type] = Nothing THEN <<>>
               ELSE <<[type |-> type, value |-> last[type],
                       map |-> FALSE, image |-> TRUE]>>
       IN  awaited' = awaited \o replay("outline") \o replay("position")
    /\ UNCHANGED <<last, mowerMap, age, due>>

\* async_will_remove_from_hass, and the subscriptions are given up.  The tasks
\* already made stay.
RemoveImage ==
    /\ added
    /\ added' = FALSE
    /\ due' = Nothing
    /\ UNCHANGED <<bus, mowerMap, age, written>>

\* The entry is reloaded: another map from the store, another bus and another
\* entity.  A stored map has no position.  What the tasks of the old entity still
\* do is seen nowhere.
Reload ==
    /\ ~added
    /\ last' = NoMap
    /\ awaited' = <<>>
    /\ mowerMap' = [mowerMap EXCEPT !.position = Nothing]
    /\ age' = 0
    /\ due' = Nothing
    /\ UNCHANGED <<added, written>>

ImageNext ==
    \/ \E type \in Types : \E value \in Values[type] : Report(type, value)
    \/ RunEvent
    \/ Trailing
    \/ Tick
    \/ AddImage
    \/ RemoveImage
    \/ Reload

\* The event loop runs its tasks and its timers, and time goes on.
ImageFairness == WF_imageVars(RunEvent) /\ WF_imageVars(Trailing) /\ WF_imageVars(Tick)

ImageSpec == ImageInit /\ [][ImageNext]_imageVars /\ ImageFairness

-------------------------------------------------------------------------------
(* Properties.                                                              *)

\* Every variable has its type, and a refresh is for the end of the interval that
\* the last image began, also one that a late task leaves to a removed entity and
\* that the entity, added again, still has.
ImageTypeOK ==
    /\ last \in Maps /\ mowerMap \in Maps /\ written \in Maps
    /\ Len(awaited) <= MaxWaiting + 2
    /\ \A i \in DOMAIN awaited : awaited[i].value \in Values[awaited[i].type]
    /\ added \in BOOLEAN
    /\ age \in 0..Interval
    /\ due # Nothing => due \in 0..Interval /\ due + age = Interval

Drawn(m) == <<m.position, m.outline>>

\* What the map draws is written in the end, and so is the last position of a
\* burst that nothing follows.  The labels are not among it: no event that
\* makes the image new tells of them.
LastIsWritten ==
    (added /\ Drawn(written) # Drawn(mowerMap)) ~> (~added \/ Drawn(written) = Drawn(mowerMap))

\* A position makes the image new only an interval after it was last made so,
\* by whatever event, and whether it comes itself or left a refresh behind.
PositionsAreThrottled ==
    [][/\ Trailing \/ (RunEvent /\ Head(awaited).type = "position")
       /\ written' # written
       => age = Interval]_imageVars

===============================================================================
