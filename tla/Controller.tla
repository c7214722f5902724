------------------------------ MODULE Controller ------------------------------
(***************************************************************************)
(* The controller's subscribers of one mower together: the polling and the *)
(* fault latch listen to the same StateEvents, and the latch speaks to the *)
(* fault binary sensor over the same bus.  The latch has no timer of its   *)
(* own: a fault whose recovery was never pushed is released only because   *)
(* the polling keeps asking a mower that is shown in trouble.              *)
(***************************************************************************)
EXTENDS FaultLatch, Polling

vars == <<bus, latch, poll>>

Init == BusInit /\ LatchInit /\ PollInit

-------------------------------------------------------------------------------
(* What comes in.                                                           *)

\* The histories after a StateEvent.
Noted(s) ==
    /\ started' = (started /\ lastState' = "DOCKED")
    /\ news' = IF s \in RecoveryStates THEN None ELSE news

\* A push: it may be late, so it may say anything the mower ever did.
StatePush(s) ==
    /\ stage # "down"
    /\ NotifyState(s)
    /\ Noted(s)
    /\ UNCHANGED <<code, subscribed, shown, truth, refresh, stage>>

ErrorPush(c) ==
    /\ stage # "down"
    /\ NotifyError(c)
    /\ started' = (started /\ lastState' = "DOCKED")
    /\ news' = IF c = 0 \/ c = lastError THEN news ELSE c
    /\ UNCHANGED <<code, subscribed, shown, truth, refresh, stage>>

AnswerArrives ==
    /\ stage # "down"
    /\ AnswerRead
    /\ Noted(answer)
    /\ UNCHANGED <<code, subscribed, shown, truth, polling, network, stage>>

-------------------------------------------------------------------------------
(* The callbacks, in the order of the notifications.                        *)

\* on_status, then the latch's _on_state.
RunState ==
    /\ ~Quiet /\ Head(tasks).type = "state"
    /\ OnStatus(Head(tasks).value)
    /\ OnState(Head(tasks).value, Tail(tasks))
    /\ UNCHANGED <<lastError, lastState, subscribed, shown, news,
                   truth, answer, stage, started>>

RunError ==
    /\ ~Quiet /\ Head(tasks).type = "error"
    /\ OnError(Head(tasks).value, Tail(tasks))
    /\ UNCHANGED <<lastError, lastState, subscribed, shown, news, poll>>

\* The binary sensor's callback.
RunFault ==
    /\ ~Quiet /\ Head(tasks).type = "fault"
    /\ shown' = Head(tasks).value
    /\ tasks' = Tail(tasks)
    /\ UNCHANGED <<lastError, lastState, lastFault, code, subscribed, news, poll>>

RunEvent == RunState \/ RunError \/ RunFault

-------------------------------------------------------------------------------
(* The user and the unloading of the entry.                                 *)

Press == stage = "up" /\ ClearByRequest /\ UNCHANGED poll

AddSensor == stage = "up" /\ Subscribe /\ UNCHANGED poll

\* The platforms are gone; teardown, up to the awaits of the map stores' saves.
Teardown ==
    /\ stage = "up"
    /\ stage' = "saving"
    /\ polling' = FALSE
    /\ subscribed' = FALSE
    /\ UNCHANGED <<bus, code, shown, news, truth, answer, network, started>>

\* Its remainder: the device goes, and with it its bus, its subscribers and
\* their tasks.  A timer started meanwhile stays.
TeardownDevice ==
    /\ stage = "saving"
    /\ stage' = "down"
    /\ lastError' = None /\ lastState' = None /\ lastFault' = NoEvent /\ tasks' = <<>>
    /\ code' = None /\ shown' = None /\ news' = None
    /\ answer' = "none"
    /\ started' = FALSE
    /\ UNCHANGED <<subscribed, truth, polling, network>>

\* The entry is set up again: a new controller, which knows no timer.
Setup ==
    /\ stage = "down"
    /\ stage' = "up"
    /\ answer' = "asked"
    /\ network' = "asked"
    /\ polling' = FALSE
    /\ UNCHANGED <<bus, latch, truth, started>>

Next ==
    \/ \E s \in States : MowerChanges(s) /\ UNCHANGED latch
    \/ \E s \in States \ {"ERROR"} : StatePush(s)
    \/ \E c \in Codes \cup {0} : ErrorPush(c)
    \/ MowerAnswers /\ UNCHANGED latch
    \/ AnswerArrives
    \/ AnswerLost /\ UNCHANGED latch
    \/ NetworkAnswer /\ UNCHANGED latch
    \/ RunEvent
    \/ MowCommand /\ UNCHANGED latch
    \/ Tick /\ UNCHANGED latch
    \/ UpdateEntity /\ UNCHANGED latch
    \/ Press
    \/ AddSensor
    \/ Teardown
    \/ TeardownDevice
    \/ Setup

\* The event loop runs its tasks and its timers, a mower that is asked again
\* and again answers in the end, and the network answer is not lost.  Nothing
\* is owed for pushes, commands or what the mower does.
Fairness ==
    /\ WF_vars(RunEvent)
    /\ WF_vars(Tick /\ UNCHANGED latch)
    /\ WF_vars(NetworkAnswer /\ UNCHANGED latch)
    /\ WF_vars(TeardownDevice)
    /\ SF_vars(MowerAnswers /\ UNCHANGED latch)
    /\ SF_vars(AnswerArrives)

Spec == Init /\ [][Next]_vars /\ Fairness

-------------------------------------------------------------------------------
(* Properties.                                                              *)

\* Every variable has its type, and the queue stays within its bound.
TypeOK == BusTypeOK /\ LatchTypeOK /\ PollTypeOK

Up == stage = "up"
Out == truth # "DOCKED"
ShownOut == lastState \in States \ {"DOCKED"}

\* In whatever order errors, recoveries and presses arrived and however late
\* the tasks ran: a mower last heard docked or mowing has no latched fault; a
\* fault the bus passed on with no recovery and no press since is latched, zeros
\* and other states notwithstanding (issue #53); and the sensor, whenever it was
\* added, shows what is latched, one code replacing another included.
FaultFollowsEvents ==
    Up /\ Quiet => /\ lastState \in RecoveryStates => code = None
                   /\ news # None => code # None
                   /\ subscribed => shown = code

\* Once on_status has caught up, a mower shown out is polled, whatever order
\* pushes, late answers and commands came in: pausing is no reason to stop.
ShownOutIsPolled == Up /\ Quiet /\ ShownOut => polling

\* A mower that parked while it was shown out is shown docked in the end, even
\* if every push is lost (the mowing that was shown for two hours, const.py).
ParkedIsShown == (Up /\ ShownOut /\ ~Out) ~> (~Up \/ ~ShownOut \/ Out)

\* A run started from Home Assistant on a settled, docked mower is shown in the
\* end, even if every push of it is lost.
StartedRunIsShown == (Up /\ started /\ Out) ~> (~Up \/ ShownOut \/ ~Out)

\* Back from a polled run, a Wi-Fi signal read in the yard is read again
\* (issue #139).
HomeSignalIsRead ==
    (Up /\ polling /\ ~Out /\ network = "yard") ~> (~Up \/ Out \/ network = "dock")

\* A fault is released in the end once the mower answers that it mows or is
\* docked, even if no push says so: ERROR is no reason to stop asking.
RecoveredFaultClears ==
    (Up /\ code # None /\ truth \in RecoveryStates)
        ~> (~Up \/ code = None \/ truth \notin RecoveryStates)

===============================================================================
