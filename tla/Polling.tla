-------------------------------- MODULE Polling --------------------------------
(***************************************************************************)
(* The controller's polling of one mower (controller.py): the subscriber   *)
(* that starts and stops the five-minute tick, the nudge a mow command     *)
(* gives it, the tick itself and the teardown, as Controller composes them *)
(* with the fault latch.                                                   *)
(*                                                                         *)
(* The mower moves on its own.  What it does reaches the controller as a   *)
(* push, which may be late or lost, or as the answer to a state refresh,   *)
(* which says how things were when the mower gave it and may be lost as    *)
(* well.  What a StateEvent is made from is MowerState's business: here a  *)
(* push and an answer carry the state that comes out of it.                *)
(***************************************************************************)
EXTENDS MowerBus

VARIABLES
    truth,     \* what the mower would answer
    answer,    \* the state refresh: "none", "asked", or the answer on its way
    polling,   \* a timer is in _unsub_polls
    network,   \* where the Wi-Fi signal was last read, "asked" while a reading
               \* is on its way
    stage,     \* of the controller: "up", "saving" the maps, "down"
    started    \* history: a mow command from Home Assistant found the mower
               \* shown docked, and it has been shown so ever since

refresh == <<answer, polling, network>>
poll == <<truth, refresh, stage, started>>

\* Setup has just subscribed, which asks for a first state and network reading.
PollInit ==
    /\ truth \in States
    /\ answer = "asked"
    /\ polling = FALSE
    /\ network = "asked"
    /\ stage = "up"
    /\ started = FALSE

PollTypeOK ==
    /\ truth \in States
    /\ answer \in States \cup {"none", "asked"}
    /\ polling \in BOOLEAN
    /\ network \in {"asked", "dock", "yard"}
    /\ stage \in {"up", "saving", "down"}
    /\ started \in BOOLEAN

-------------------------------------------------------------------------------
(* The mower and its answers.                                               *)

MowerChanges(s) ==
    /\ s # truth
    /\ truth' = s
    /\ UNCHANGED <<refresh, stage, started, bus>>

MowerAnswers ==
    /\ answer = "asked"
    /\ answer' = truth
    /\ UNCHANGED <<truth, polling, network, stage, started, bus>>

\* Where it could arrive as well: the bound on the queue loses nothing.
AnswerLost ==
    /\ answer # "none"
    /\ answer \in States => Len(tasks) < MaxTasks
    /\ answer' = "none"
    /\ UNCHANGED <<truth, polling, network, stage, started, bus>>

\* The answer becomes a StateEvent.
AnswerRead ==
    /\ answer \in States
    /\ NotifyState(answer)
    /\ answer' = "none"

NetworkAnswer ==
    /\ network = "asked"
    /\ network' = IF truth = "DOCKED" THEN "dock" ELSE "yard"
    /\ UNCHANGED <<truth, answer, polling, stage, started, bus>>

-------------------------------------------------------------------------------
(* The controller.                                                          *)

\* Mutated form: a paused mower is taken for one that is done.
OnStatusStopsOnPause(s) ==
    /\ polling' = (s \notin {"DOCKED", "PAUSED"})
    /\ network' = IF s = "DOCKED" /\ polling THEN "asked" ELSE network

\* Mutated form: a mower in trouble is not worth asking.
OnStatusStopsOnError(s) ==
    /\ polling' = (s \notin {"DOCKED", "ERROR"})
    /\ network' = IF s = "DOCKED" /\ polling THEN "asked" ELSE network

\* Mutated form: the timer is dropped before the network is asked about.
OnStatusStopsFirst(s) ==
    /\ polling' = (s # "DOCKED")
    /\ UNCHANGED network

\* on_status: docked stops the tick, and asks for the Wi-Fi signal when there
\* was one to stop; any other state starts it.
OnStatus(s) ==
    /\ polling' = (s # "DOCKED")
    /\ network' = IF s = "DOCKED" /\ polling THEN "asked" ELSE network

\* Mutated form: no nudge, the push is trusted to come.
MowCommandTrustsPush ==
    /\ stage = "up"
    /\ UNCHANGED polling
    /\ started' = (started \/ (lastState = "DOCKED" /\ Quiet))
    /\ UNCHANGED <<truth, answer, network, stage, bus>>

\* Start, mow area or mow border: the nudge, then a command the mower may obey.
MowCommand ==
    /\ stage = "up"
    /\ polling' = TRUE
    /\ started' = (started \/ (lastState = "DOCKED" /\ Quiet))
    /\ UNCHANGED <<truth, answer, network, stage, bus>>

\* _poll.  A refresh already on its way is not doubled.
Tick ==
    /\ polling
    /\ answer' = IF answer = "none" THEN "asked" ELSE answer
    /\ network' = "asked"
    /\ UNCHANGED <<truth, polling, stage, started, bus>>

\* The update_entity service, docked or not.
UpdateEntity ==
    /\ stage = "up"
    /\ answer = "none"
    /\ answer' = "asked"
    /\ UNCHANGED <<truth, polling, network, stage, started, bus>>

===============================================================================
