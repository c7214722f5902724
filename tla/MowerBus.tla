------------------------------- MODULE MowerBus -------------------------------
(***************************************************************************)
(* One mower's event bus (deebot_client), as far as the controller's own   *)
(* subscribers and the fault entities use it.                              *)
(*                                                                         *)
(* The bus drops an event equal to the last of its type, keeps the last of *)
(* each for a later subscriber, and runs the callbacks of an event as      *)
(* tasks, in the order of the notifications.  No callback here awaits, so  *)
(* the tasks of one event run back to back: a waiting event is one entry.  *)
(***************************************************************************)
EXTENDS Naturals, Sequences

CONSTANTS Codes,     \* the error codes other than 0
          None,      \* no event yet, no fault held, nothing read
          NoEvent,   \* no fault event yet: a fault event may itself say None
          MaxTasks   \* bound on the events waiting, for model checking only

\* PAUSED stands for every state these subscribers do not tell apart from it.
States == {"CLEANING", "DOCKED", "ERROR", "PAUSED"}

ASSUME CodesAssumption ==
    /\ 0 \notin Codes
    /\ None \notin Codes \cup {0}
    /\ None \notin States \cup {"dock", "yard"}
    /\ NoEvent \notin Codes \cup {None}
ASSUME MaxTasksAssumption == MaxTasks \in Nat

VARIABLES
    lastError,   \* the bus's last ErrorEvent: its code
    lastState,   \* the bus's last StateEvent
    lastFault,   \* the bus's last MowerFaultEvent: its code, or NoEvent
    tasks        \* the events whose callbacks have still to run

bus == <<lastError, lastState, lastFault, tasks>>

Event == [type : {"error"}, value : Codes \cup {0}]
         \cup [type : {"state"}, value : States]
         \cup [type : {"fault"}, value : Codes \cup {None}]

BusInit ==
    /\ lastError = None
    /\ lastState = None
    /\ lastFault = NoEvent
    /\ tasks = <<>>

BusTypeOK ==
    /\ lastError \in Codes \cup {0, None}
    /\ lastState \in States \cup {None}
    /\ lastFault \in Codes \cup {None, NoEvent}
    /\ tasks \in Seq(Event)
    /\ Len(tasks) <= MaxTasks + 1

Quiet == tasks = <<>>

\* What a notification adds to the queue: nothing if it repeats the last event.
Passed(last, type, value) ==
    IF last = value THEN <<>> ELSE <<[type |-> type, value |-> value]>>

NotifyState(s) ==
    /\ Len(tasks) < MaxTasks
    /\ lastState' = s
    /\ tasks' = tasks \o Passed(lastState, "state", s)
    /\ UNCHANGED <<lastError, lastFault>>

\* A report of an error: a code publishes ERROR first, a zero only itself.
NotifyError(c) ==
    /\ Len(tasks) < MaxTasks
    /\ lastError' = c
    /\ lastState' = IF c = 0 THEN lastState ELSE "ERROR"
    /\ tasks' = tasks \o (IF c = 0 THEN <<>> ELSE Passed(lastState, "state", "ERROR"))
                      \o Passed(lastError, "error", c)
    /\ UNCHANGED lastFault

\* A fault event, given the queue before it: it waits for no one if no entity
\* has subscribed, and is kept all the same.
NotifyFault(c, subscribed, queue) ==
    /\ lastFault' = c
    /\ tasks' = queue \o (IF subscribed THEN Passed(lastFault, "fault", c) ELSE <<>>)

===============================================================================
