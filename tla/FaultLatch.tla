------------------------------ MODULE FaultLatch ------------------------------
(***************************************************************************)
(* The fault latch (fault.py), the clear button and the fault binary       *)
(* sensor: the handlers Controller composes with the polling.              *)
(***************************************************************************)
EXTENDS MowerBus

RecoveryStates == {"DOCKED", "CLEANING"}

VARIABLES
    code,        \* FaultLatch._code
    subscribed,  \* the binary sensor has been added
    shown,       \* the code the binary sensor shows, None when off
    news         \* history: the code the bus passed on and nothing resolved

latch == <<code, subscribed, shown, news>>

LatchInit ==
    /\ code = None
    /\ subscribed = FALSE
    /\ shown = None
    /\ news = None

LatchTypeOK ==
    /\ code \in Codes \cup {None}
    /\ subscribed \in BOOLEAN
    /\ shown \in Codes \cup {None}
    /\ news \in Codes \cup {None}

-------------------------------------------------------------------------------
(* The latch.  Each handler is given the queue its events are added to.     *)

\* Mutated form: a code replaces an earlier one without telling the sensor.
HoldKeepsQuietOnReplacement(c, queue) ==
    /\ code' = c
    /\ IF code = None THEN NotifyFault(c, subscribed, queue)
       ELSE tasks' = queue /\ UNCHANGED lastFault

\* _latch: hold the code, replacing an earlier one.
Hold(c, queue) ==
    IF c = code THEN tasks' = queue /\ UNCHANGED <<code, lastFault>>
    ELSE code' = c /\ NotifyFault(c, subscribed, queue)

\* _clear, if anything is held.
Clear(queue) ==
    IF code = None THEN tasks' = queue /\ UNCHANGED <<code, lastFault>>
    ELSE code' = None /\ NotifyFault(None, subscribed, queue)

\* Mutated form: the zeros are latched like any code.
OnErrorLatchesZero(c, queue) == Hold(c, queue)

\* _on_error: a zero is not evidence of anything.
OnError(c, queue) ==
    IF c = 0 THEN tasks' = queue /\ UNCHANGED <<code, lastFault>>
    ELSE Hold(c, queue)

\* _on_state: clear on a state that cannot coexist with a fault.
OnState(s, queue) ==
    IF s \in RecoveryStates THEN Clear(queue)
    ELSE tasks' = queue /\ UNCHANGED <<code, lastFault>>

\* The clear button: no event runs first.
ClearByRequest ==
    /\ Len(tasks) < MaxTasks
    /\ Clear(tasks)
    /\ news' = None
    /\ UNCHANGED <<lastError, lastState, subscribed, shown>>

-------------------------------------------------------------------------------
(* The binary sensor.                                                       *)

\* Added: the bus replays the last fault event, if there is one.
Subscribe ==
    /\ ~subscribed
    /\ Len(tasks) < MaxTasks
    /\ subscribed' = TRUE
    /\ tasks' = tasks \o IF lastFault = NoEvent THEN <<>>
                         ELSE <<[type |-> "fault", value |-> lastFault]>>
    /\ UNCHANGED <<lastError, lastState, lastFault, code, shown, news>>

===============================================================================
