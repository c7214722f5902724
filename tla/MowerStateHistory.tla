-------------------------- MODULE MowerStateHistory --------------------------
(***************************************************************************)
(* MowerState with history variables, for the properties that speak of     *)
(* what was heard earlier.  They restrict nothing.                         *)
(*                                                                         *)
(* The refinement maps the history to Departure: CLEANING is inferred      *)
(* exactly on two recent, standing facts.  plan is what the mower itself   *)
(* has said of a job: nothing yet ("none"), that there is one ("seen"),    *)
(* with its type ("typed"), or that it is over ("over").  answered says    *)
(* that the mower is shown returning by the answer to a dock command.      *)
(***************************************************************************)
EXTENDS MowerState

VARIABLES announced, unplugged, source, plan, answered

history == <<announced, unplugged, source, plan>>
hvars == <<vars, history, answered>>

D == INSTANCE Departure WITH shown <- lastState

HInit ==
    /\ Init
    /\ announced = None
    /\ unplugged = None
    /\ source = "report"
    /\ plan = "none"
    /\ answered = FALSE

Settle == announced' = None /\ unplugged' = None

SeenIn(m) == m.content # None \/ m.cleanState \in {"working", "pause"}

PlanAfter(m) ==
    IF EndsJob(m) THEN "over"
    ELSE IF m.content # None THEN "typed"
    ELSE IF SeenIn(m) /\ plan # "typed" THEN "seen"
    ELSE plan

HJobEdge(phase, trigger) ==
    /\ JobEdge(phase, trigger)
    /\ source' = "evidence"
    /\ CASE phase \notin {"start", "resume"} -> Settle
         [] phase \in {"start", "resume"} /\ ~MayBeOnCharger ->
                UNCHANGED <<announced, unplugged>>
         [] OTHER ->
                IF WithinWindow(unplugged) THEN Settle
                ELSE announced' = now /\ UNCHANGED unplugged
    /\ plan' = IF phase = "stop" /\ trigger = "workComplete" THEN "over"
               ELSE IF phase # "stop" /\ plan # "typed" THEN "seen"
               ELSE plan

HUnplugPush ==
    /\ UnplugPush
    /\ source' = "evidence"
    /\ IF WithinWindow(announced) THEN Settle
       ELSE unplugged' = now /\ UNCHANGED announced
    /\ UNCHANGED plan

\* A clean-info message, pushed or answered, that reached the handler.
HCleanInfo(m) ==
    /\ IF Withheld(m) /\ ~EndsJob(m) THEN UNCHANGED <<announced, unplugged>> ELSE Settle
    /\ plan' = PlanAfter(m)

HReport ==
    \/ \E m \in CleanInfos : CleanInfoPush(m) /\ HCleanInfo(m)
    \/ \E m \in CleanInfos :
         /\ CleanAnswer(m)
         /\ IF m.state = "idle" /\ ~m.alert THEN UNCHANGED <<announced, unplugged, plan>>
            ELSE HCleanInfo(m)
    \/ ReturnStart /\ Settle /\ UNCHANGED plan
    \/ (\E s \in {"RETURNING", "ERROR"} : ChargeInfoPush(s)) /\ Settle /\ UNCHANGED plan
    \/ ChargePush /\ unplugged' = None /\ UNCHANGED <<announced, plan>>
    \/ \E a \in {"charging", "notCharging", "silent", "offline"} :
         /\ ChargeAnswer(a)
         /\ unplugged' = IF a = "charging" THEN None ELSE unplugged
         /\ UNCHANGED <<announced, plan>>
    \/ ErrorPush /\ Settle /\ UNCHANGED plan
    \/ ErrorAnswer /\ UNCHANGED <<announced, unplugged, plan>>
    \/ Restart /\ Settle /\ plan' = "none"

\* Steps that publish nothing and settle nothing.
HQuiet ==
    /\ \/ PosAway
       \/ RefreshStart
       \/ NoCleanAnswer
    /\ UNCHANGED history

\* A new job of our own ends what was said of the last one.
HCommand ==
    /\ \/ \E a \in Actions : CleanCommand(a)
       \/ \E t \in {"spotArea", "border"} : MowTask(t)
    /\ plan' = IF sent'.act = "START" /\ plan = "over" THEN "none" ELSE plan
    /\ UNCHANGED <<announced, unplugged, source>>

HTick == Tick /\ UNCHANGED history

\* The answer to a dock command says nothing of a departure or of a job.
HDockAnswer ==
    /\ \E s \in {"RETURNING", "DOCKED"} : DockAnswer(s) /\ answered' = (s = "RETURNING")
    /\ source' = "report"
    /\ UNCHANGED <<announced, unplugged, plan>>

HOther ==
    \/ \E p \in Phases, t \in Triggers : HJobEdge(p, t)
    \/ HUnplugPush
    \/ HReport /\ source' = "report"
    \/ HQuiet
    \/ HCommand
    \/ HTick

HNext ==
    \/ HDockAnswer
    \/ HOther /\ answered' = (answered /\ lastState' = lastState)

HSpec == HInit /\ [][HNext]_hvars

-------------------------------------------------------------------------------
(* Properties.                                                              *)

HistoryTypeOK ==
    /\ TypeOK
    /\ announced \in Time \cup {None}
    /\ unplugged \in Time \cup {None}
    /\ source \in {"report", "evidence"}
    /\ plan \in {"none", "seen", "typed", "over"}
    /\ answered \in BOOLEAN

\* No message of the mower shows it anywhere else than docked or in error while
\* the record has it on its charger, whatever order the charge, plan and position
\* messages came in (issue #67).  Only the answer to a dock command, which the
\* library publishes past the record, shows such a mower returning.
DockedIsShown ==
    docked => \/ lastState \in {"DOCKED", "ERROR"}
              \/ answered /\ lastState = "RETURNING"

\* CLEANING is inferred on a start or resume bury point and an unplug push, in
\* either order and within the window, never on one of them, never again on the
\* same ones, never over a fault, and never after a message of the mower that
\* settled them (issue #120).  An answer to something we asked or commanded
\* settles nothing.
DepartureKept == D!Spec

\* A job the mower described by its type and never ended is resumed from the
\* dock, not started over, however the mower got there (issue #104).  Only an
\* idle withheld on the dock says otherwise.
SuspendedJobResumed ==
    docked /\ plan = "typed" /\ suppressed # "IDLE" => EffectiveAction("START") = "RESUME"

\* end_job: "A later start begins a new auto job."  Once the mower has said the
\* job is over and nothing of another since, a start from the dock is a start.
EndedJobIsNotResumed ==
    docked /\ plan = "over" => EffectiveAction("START") = "START"

===============================================================================
