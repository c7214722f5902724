------------------------------ MODULE MowerState ------------------------------
(***************************************************************************)
(* What the patch layer remembers of one mower and what it publishes.      *)
(*                                                                         *)
(* MowerStateRecord (deebot_patch/state_precedence.py) and every handler   *)
(* that writes it or publishes a StateEvent: the state pushes, the task    *)
(* bury points, the charge and error pushes, the position samples, the     *)
(* two halves of a state refresh, the mow commands, which read the record  *)
(* to choose between start and resume, and the dock command, which is the  *)
(* library's and leaves the record alone.                                  *)
(*                                                                         *)
(* A handler runs to its end without an await, so each is one action.  The *)
(* event bus is the library's: lastState is the StateEvent it keeps, and   *)
(* it turns an IDLE that follows a DOCKED into another DOCKED.             *)
(***************************************************************************)
EXTENDS Integers

CONSTANTS None,       \* absent state, type or time
          JobTypes,   \* the wire's job types
          Window,     \* DEPARTURE_WINDOW
          MaxTime     \* bound on the clock, for model checking only

States == {"IDLE", "CLEANING", "RETURNING", "DOCKED", "ERROR", "PAUSED"}

ASSUME NoneAssumption == None \notin States \cup JobTypes \cup Int
ASSUME JobTypesAssumption == {"auto", "spotArea", "border"} \subseteq JobTypes
ASSUME TimeAssumption == Window \in Nat /\ MaxTime \in Nat

VARIABLES
    docked,      \* record.docked
    suppressed,  \* record.suppressed: the plan state withheld on the dock
    jobType,     \* record.job_type
    edgeAt,      \* record.departure_edge_at
    leftAt,      \* record.charge_left_at
    lastState,   \* the bus's last StateEvent
    now,         \* the monotonic clock
    refresh,     \* which half of a state refresh awaits its answer
    sent         \* the latest mow command sent: its action and type

record == <<docked, suppressed, jobType, edgeAt, leftAt>>
vars == <<docked, suppressed, jobType, edgeAt, leftAt, lastState, now, refresh, sent>>

Time == 0..MaxTime
Actions == {"START", "RESUME", "PAUSE", "STOP"}
NoCommand == [act |-> None, type |-> None]
Commands == [act : Actions, type : JobTypes] \cup {NoCommand}

(* What a clean-info payload says.  cleanState is its motionState, or       *)
(* "absent" when there is none; content is cleanState.content.type.         *)
CleanInfos ==
    { m \in [ alert : BOOLEAN, state : {"clean", "goCharging", "idle"},
              cleanState : {"absent", "working", "pause", "goCharging"},
              content : JobTypes \cup {None} ] :
        m.cleanState = "absent" => m.content = None }

Phases == {"start", "resume", "pause", "stop"}
Triggers == {"absent", "workComplete", "other"}

-------------------------------------------------------------------------------
\* A fresh record on a fresh bus.
Init ==
    /\ docked = FALSE
    /\ suppressed = None
    /\ jobType = None
    /\ edgeAt = None
    /\ leftAt = None
    /\ lastState = None
    /\ now = 0
    /\ refresh = "none"
    /\ sent = NoCommand

\* Handing a StateEvent to the bus.
Publish(s) ==
    lastState' = IF s = "IDLE" /\ lastState = "DOCKED" THEN "DOCKED" ELSE s

-------------------------------------------------------------------------------
(* MowerStateRecord's methods.                                              *)

WithinWindow(stamp) == stamp # None /\ now - stamp <= Window

CancelDeparture == edgeAt' = None /\ leftAt' = None

\* Mutated form: docking takes the job for finished.
DockEndsJob ==
    /\ docked' = TRUE
    /\ leftAt' = None
    /\ jobType' = None
    /\ UNCHANGED <<suppressed, edgeAt>>

Dock ==
    /\ docked' = TRUE
    /\ leftAt' = None
    /\ UNCHANGED <<suppressed, jobType, edgeAt>>

Move == docked' = FALSE /\ suppressed' = None

\* What a half that finds no partner does: it waits, and drops a stale one.
NoteDepartureEdge == edgeAt' = now /\ leftAt' = None
NoteChargeLeft == leftAt' = now /\ edgeAt' = None

-------------------------------------------------------------------------------
(* Departure from the dock.                                                 *)

MayBeOnCharger == docked \/ lastState \in {None, "DOCKED"}

\* Both halves arrived; a published ERROR settles the pair instead.
ConfirmDeparture ==
    /\ CancelDeparture
    /\ IF lastState = "ERROR"
       THEN UNCHANGED <<docked, suppressed, lastState>>
       ELSE Move /\ Publish("CLEANING")

DepartureEdge ==
    \/ /\ ~MayBeOnCharger
       /\ UNCHANGED <<docked, suppressed, edgeAt, leftAt, lastState>>
    \/ /\ MayBeOnCharger
       /\ WithinWindow(leftAt)
       /\ ConfirmDeparture
    \/ /\ MayBeOnCharger
       /\ ~WithinWindow(leftAt)
       /\ NoteDepartureEdge
       /\ UNCHANGED <<docked, suppressed, lastState>>

\* A task bury point.  One without a trigger stops before the job can end.
JobEdge(phase, trigger) ==
    /\ IF phase \in {"start", "resume"}
       THEN DepartureEdge
       ELSE CancelDeparture /\ UNCHANGED <<docked, suppressed, lastState>>
    /\ jobType' = IF phase = "stop" /\ trigger = "workComplete" THEN None ELSE jobType
    /\ UNCHANGED <<now, refresh, sent>>

\* The return-normal-start bury point, which may arrive late.
ReturnStart ==
    /\ ~docked
    /\ lastState # "ERROR"
    /\ CancelDeparture
    /\ Move
    /\ Publish("RETURNING")
    /\ UNCHANGED <<jobType, now, refresh, sent>>

-------------------------------------------------------------------------------
(* State reports.                                                           *)

CleanStatus(m) ==
    IF m.alert THEN "ERROR"
    ELSE CASE m.state = "goCharging" -> "RETURNING"
           [] m.state = "idle"       -> "IDLE"
           [] m.state = "clean"      ->
                CASE m.cleanState = "working"    -> "CLEANING"
                  [] m.cleanState = "pause"      -> "PAUSED"
                  [] m.cleanState = "goCharging" -> "RETURNING"
                  [] OTHER                       -> None

EndsJob(m) == m.state = "idle" /\ m.cleanState = "absent"

NotedJob(m) ==
    IF EndsJob(m) THEN None ELSE IF m.content # None THEN m.content ELSE jobType

\* Mutated forms: no charge gate, and one that also withholds an error.
WithheldNever(m) == m \notin CleanInfos
WithheldErrorToo(m) == docked /\ CleanStatus(m) \in {"PAUSED", "IDLE", "ERROR"}

Withheld(m) == docked /\ CleanStatus(m) \in {"PAUSED", "IDLE"}

\* handle_clean_info: the charge gate over the plan state.
HandleCleanInfo(m) ==
    /\ CleanStatus(m) # None
    /\ jobType' = NotedJob(m)
    /\ \/ /\ Withheld(m)
          /\ suppressed' = CleanStatus(m)
          /\ IF EndsJob(m) THEN CancelDeparture ELSE UNCHANGED <<edgeAt, leftAt>>
          /\ UNCHANGED <<docked, lastState>>
       \/ /\ ~Withheld(m)
          /\ IF CleanStatus(m) \in {"CLEANING", "RETURNING"}
             THEN Move
             ELSE UNCHANGED <<docked, suppressed>>
          /\ CancelDeparture
          /\ Publish(CleanStatus(m))

\* onCleanInfo and onScheduleTaskInfo.
CleanInfoPush(m) == HandleCleanInfo(m) /\ UNCHANGED <<now, refresh, sent>>

\* onChargeInfo on the way home, and with an alert.
ChargeInfoPush(s) ==
    /\ s \in {"RETURNING", "ERROR"}
    /\ CancelDeparture
    /\ IF s = "RETURNING" THEN Move ELSE UNCHANGED <<docked, suppressed>>
    /\ Publish(s)
    /\ UNCHANGED <<jobType, now, refresh, sent>>

\* On the charger: an answer, a push, or onChargeInfo's idle.
ChargeConfirmed == Dock /\ Publish("DOCKED")

ChargePush == ChargeConfirmed /\ UNCHANGED <<now, refresh, sent>>

\* The mower's own push that it stopped charging.
UnplugPush ==
    /\ IF WithinWindow(edgeAt)
       THEN ConfirmDeparture
       ELSE NoteChargeLeft /\ UNCHANGED <<docked, suppressed, lastState>>
    /\ UNCHANGED <<jobType, now, refresh, sent>>

\* onError with a code, and getError's answer with one.
\* Mutated form: the push is left to the library, which cancels nothing.
ErrorPushCancelsNothing ==
    /\ Publish("ERROR")
    /\ UNCHANGED <<record, now, refresh, sent>>

ErrorPush ==
    /\ CancelDeparture
    /\ Publish("ERROR")
    /\ UNCHANGED <<docked, suppressed, jobType, now, refresh, sent>>

ErrorAnswer ==
    /\ Publish("ERROR")
    /\ UNCHANGED <<record, now, refresh, sent>>

\* A position clearly away from the dock.
PosAway ==
    /\ docked
    /\ Move
    /\ UNCHANGED <<jobType, edgeAt, leftAt, lastState, now, refresh, sent>>

-------------------------------------------------------------------------------
(* The state refresh: the charge half is awaited first.                     *)

RefreshStart ==
    /\ refresh = "none"
    /\ refresh' = "charge"
    /\ UNCHANGED <<record, lastState, now, sent>>

\* "silent" is a timeout or an error answer; only "offline" stops the refresh.
ChargeAnswer(a) ==
    /\ refresh = "charge"
    /\ refresh' = IF a = "offline" THEN "none" ELSE "clean"
    /\ IF a = "charging" THEN ChargeConfirmed ELSE UNCHANGED <<record, lastState>>
    /\ UNCHANGED <<now, sent>>

\* A polled idle without an alert says nothing.
CleanAnswer(m) ==
    /\ refresh = "clean"
    /\ refresh' = "none"
    /\ IF m.state = "idle" /\ ~m.alert
       THEN UNCHANGED <<record, lastState>>
       ELSE HandleCleanInfo(m)
    /\ UNCHANGED <<now, sent>>

NoCleanAnswer ==
    /\ refresh = "clean"
    /\ refresh' = "none"
    /\ UNCHANGED <<record, lastState, now, sent>>

-------------------------------------------------------------------------------
(* The mow commands.                                                        *)

\* START or RESUME, from the state the mower is really in.
EffectiveAction(action) ==
    IF action \notin {"START", "RESUME"} THEN action
    ELSE IF suppressed = None /\ docked /\ jobType # None THEN "RESUME"
    ELSE IF (IF suppressed # None THEN suppressed ELSE lastState) = "PAUSED"
         THEN "RESUME" ELSE "START"

EchoedType(action) ==
    IF action = "START" \/ jobType = None THEN "auto" ELSE jobType

\* CleanMower: the decision, and the type of a job it starts, before any await.
CleanCommand(action) ==
    LET act == EffectiveAction(action)
    IN  /\ sent' = [act |-> act, type |-> EchoedType(act)]
        /\ jobType' = IF act = "START" THEN "auto" ELSE jobType
        /\ UNCHANGED <<docked, suppressed, edgeAt, leftAt, lastState, now, refresh>>

\* MowArea and MowBorder: a start of a named task.
MowTask(type) ==
    /\ sent' = [act |-> "START", type |-> type]
    /\ jobType' = type
    /\ UNCHANGED <<docked, suppressed, edgeAt, leftAt, lastState, now, refresh>>

-------------------------------------------------------------------------------
(* The dock command is the library's Charge.  Sending it changes nothing;   *)
(* its answer is published past the record: on the way, or already there.   *)

DockAnswer(s) ==
    /\ s \in {"RETURNING", "DOCKED"}
    /\ Publish(s)
    /\ UNCHANGED <<record, now, refresh, sent>>

-------------------------------------------------------------------------------
Tick ==
    /\ now < MaxTime
    /\ now' = now + 1
    /\ UNCHANGED <<record, lastState, refresh, sent>>

\* The integration is set up again: a new bus and, with it, a new record.
Restart ==
    /\ docked' = FALSE
    /\ suppressed' = None
    /\ jobType' = None
    /\ CancelDeparture
    /\ lastState' = None
    /\ refresh' = "none"
    /\ sent' = NoCommand
    /\ UNCHANGED now

Next ==
    \/ \E p \in Phases, t \in Triggers : JobEdge(p, t)
    \/ ReturnStart
    \/ \E m \in CleanInfos : CleanInfoPush(m)
    \/ \E s \in {"RETURNING", "ERROR"} : ChargeInfoPush(s)
    \/ ChargePush
    \/ UnplugPush
    \/ ErrorPush
    \/ ErrorAnswer
    \/ PosAway
    \/ RefreshStart
    \/ \E a \in {"charging", "notCharging", "silent", "offline"} : ChargeAnswer(a)
    \/ \E m \in CleanInfos : CleanAnswer(m)
    \/ NoCleanAnswer
    \/ \E a \in Actions : CleanCommand(a)
    \/ \E t \in {"spotArea", "border"} : MowTask(t)
    \/ \E s \in {"RETURNING", "DOCKED"} : DockAnswer(s)
    \/ Tick
    \/ Restart

Spec == Init /\ [][Next]_vars

-------------------------------------------------------------------------------
(* Properties.                                                              *)

\* Every variable has the type the code gives it.
TypeOK ==
    /\ docked \in BOOLEAN
    /\ suppressed \in {None, "PAUSED", "IDLE"}
    /\ jobType \in JobTypes \cup {None}
    /\ edgeAt \in Time \cup {None}
    /\ leftAt \in Time \cup {None}
    /\ lastState \in States \cup {None}
    /\ now \in Time
    /\ refresh \in {"none", "charge", "clean"}
    /\ sent \in Commands

\* A withheld plan state never outlives the stay on the dock it was withheld
\* for, so the mow command cannot resume a plan from an earlier stay.
WithheldOnlyOnDock == suppressed # None => docked

\* The record never holds both halves of a departure: one arriving either
\* completes the pair or replaces the half that was too old.
OneHalfWaits == edgeAt = None \/ leftAt = None

===============================================================================
