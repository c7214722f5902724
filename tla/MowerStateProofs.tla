--------------------------- MODULE MowerStateProofs ---------------------------
(***************************************************************************)
(* What holds of MowerState for every set of job types, every window and   *)
(* every bound on the clock.                                               *)
(*                                                                         *)
(* Each handler is one step, so the proofs go handler by handler.  The     *)
(* invariant is a conjunction whose parts need one another only through    *)
(* the charge gate: a docked record is what withholds a plan state.        *)
(*                                                                         *)
(* With the history: a mower on its charger is shown there, because only a *)
(* step that undocks the record, or the answer to a dock command,          *)
(* publishes a state of a mower that is out; a job described by its type   *)
(* is resumed from the dock; and the handlers implement the departure      *)
(* promise.                                                                *)
(***************************************************************************)
EXTENDS MowerStateHistory, TLAPS

Safe == WithheldOnlyOnDock /\ OneHalfWaits
IInv == TypeOK /\ Safe

\* What the bus keeps is a state, and a DOCKED it keeps stays DOCKED on IDLE.
LEMMA PublishType ==
    ASSUME NEW s \in States, Publish(s)
    PROVE  /\ lastState' \in States
           /\ s # "IDLE" => lastState' = s
BY DEF Publish, States

\* The status read from a clean-info payload is a state, or None.
LEMMA CleanStatusType ==
    ASSUME NEW m \in CleanInfos
    PROVE  /\ CleanStatus(m) \in {None, "ERROR", "RETURNING", "IDLE", "CLEANING", "PAUSED"}
           /\ m.content \in JobTypes \cup {None}
BY DEF CleanStatus, CleanInfos

\* The clean-info handler keeps the record well typed and the gate shut.
LEMMA CleanInfoSafe ==
    ASSUME IInv, NEW m \in CleanInfos, HandleCleanInfo(m)
    PROVE  /\ docked' \in BOOLEAN
           /\ suppressed' \in {None, "PAUSED", "IDLE"}
           /\ jobType' \in JobTypes \cup {None}
           /\ edgeAt' \in Time \cup {None}
           /\ leftAt' \in Time \cup {None}
           /\ lastState' \in States \cup {None}
           /\ Safe'
<1>1. /\ CleanStatus(m) \in {"ERROR", "RETURNING", "IDLE", "CLEANING", "PAUSED"}
      /\ m.content \in JobTypes \cup {None}
  BY CleanStatusType DEF HandleCleanInfo
<1>2. jobType' \in JobTypes \cup {None}
  BY <1>1 DEF HandleCleanInfo, NotedJob, IInv, TypeOK
<1>3. CASE Withheld(m)
  <2>1. /\ docked /\ UNCHANGED <<docked, lastState>>
        /\ suppressed' \in {"PAUSED", "IDLE"}
        /\ (edgeAt' = None /\ leftAt' = None) \/ UNCHANGED <<edgeAt, leftAt>>
    BY <1>3 DEF HandleCleanInfo, Withheld, CancelDeparture
  <2>2. QED
    BY <1>2, <2>1 DEF IInv, TypeOK, Safe, WithheldOnlyOnDock, OneHalfWaits
<1>4. CASE ~Withheld(m)
  <2>1. edgeAt' = None /\ leftAt' = None /\ Publish(CleanStatus(m))
    BY <1>4 DEF HandleCleanInfo, CancelDeparture
  <2>2. lastState' \in States /\ (CleanStatus(m) # "IDLE" => lastState' = CleanStatus(m))
    BY <1>1, <2>1, PublishType DEF States
  <2>3. CASE CleanStatus(m) \in {"CLEANING", "RETURNING"}
    <3>1. docked' = FALSE /\ suppressed' = None
      BY <1>4, <2>3 DEF HandleCleanInfo, Move
    <3>2. QED
      BY <1>2, <2>1, <2>2, <3>1
         DEF IInv, TypeOK, Safe, WithheldOnlyOnDock, OneHalfWaits
  <2>4. CASE CleanStatus(m) \notin {"CLEANING", "RETURNING"}
    <3>1. UNCHANGED <<docked, suppressed>>
      BY <1>4, <2>4 DEF HandleCleanInfo
    <3>2. docked => CleanStatus(m) = "ERROR"
      BY <1>1, <1>4, <2>4 DEF Withheld
    <3>3. QED
      BY <1>2, <2>1, <2>2, <3>1, <3>2
         DEF IInv, TypeOK, Safe, WithheldOnlyOnDock, OneHalfWaits
  <2>5. QED
    BY <2>3, <2>4
<1>5. QED
  BY <1>3, <1>4

\* The two halves of a departure, whichever completes it.
LEMMA EvidenceSafe ==
    ASSUME IInv, DepartureEdge \/ UnplugPush
    PROVE  /\ docked' \in BOOLEAN
           /\ suppressed' \in {None, "PAUSED", "IDLE"}
           /\ edgeAt' \in Time \cup {None}
           /\ leftAt' \in Time \cup {None}
           /\ lastState' \in States \cup {None}
           /\ Safe'
<1> USE DEF IInv, TypeOK, Safe, WithheldOnlyOnDock, OneHalfWaits
<1>1. CASE ConfirmDeparture
  BY <1>1, PublishType
     DEF ConfirmDeparture, CancelDeparture, Move, States
<1>2. CASE /\ \/ UNCHANGED <<edgeAt, leftAt>>
              \/ NoteDepartureEdge
              \/ NoteChargeLeft
           /\ UNCHANGED <<docked, suppressed, lastState>>
  BY <1>2 DEF NoteDepartureEdge, NoteChargeLeft
<1>3. QED
  BY <1>1, <1>2 DEF DepartureEdge, UnplugPush

\* The initial record is safe, and no handler makes it unsafe.
LEMMA InitSafe == Init => IInv
<1> SUFFICES ASSUME Init PROVE IInv
  OBVIOUS
<1>1. now \in Time
  BY TimeAssumption DEF Init, Time
<1>2. TypeOK
  BY <1>1 DEF Init, TypeOK, Commands
<1>3. Safe
  BY DEF Init, Safe, WithheldOnlyOnDock, OneHalfWaits
<1>4. QED
  BY <1>2, <1>3 DEF IInv

LEMMA NextSafe == IInv /\ [Next]_vars => IInv'
<1> SUFFICES ASSUME IInv, [Next]_vars PROVE IInv'
  OBVIOUS
<1> USE DEF IInv
<1>1. ASSUME NEW p \in Phases, NEW t \in Triggers, JobEdge(p, t) PROVE IInv'
  <2>1. jobType' \in JobTypes \cup {None} /\ UNCHANGED <<now, refresh, sent>>
    BY <1>1 DEF JobEdge, TypeOK
  <2>2. CASE p \in {"start", "resume"}
    <3>1. DepartureEdge
      BY <1>1, <2>2 DEF JobEdge
    <3>2. QED
      BY <2>1, <3>1, EvidenceSafe DEF TypeOK
  <2>3. CASE p \notin {"start", "resume"}
    <3>1. edgeAt' = None /\ leftAt' = None /\ UNCHANGED <<docked, suppressed, lastState>>
      BY <1>1, <2>3 DEF JobEdge, CancelDeparture
    <3>2. QED
      BY <2>1, <3>1 DEF TypeOK, Safe, WithheldOnlyOnDock, OneHalfWaits
  <2>4. QED
    BY <2>2, <2>3
<1>2. CASE ReturnStart
  BY <1>2, PublishType
     DEF ReturnStart, CancelDeparture, Move, States, TypeOK, Safe,
         WithheldOnlyOnDock, OneHalfWaits
<1>3. ASSUME NEW m \in CleanInfos, CleanInfoPush(m) PROVE IInv'
  BY <1>3, CleanInfoSafe DEF CleanInfoPush, TypeOK
<1>4. ASSUME NEW s \in {"RETURNING", "ERROR"}, ChargeInfoPush(s) PROVE IInv'
  BY <1>4, PublishType
     DEF ChargeInfoPush, CancelDeparture, Move, States, TypeOK, Safe,
         WithheldOnlyOnDock, OneHalfWaits
<1>5. CASE ChargePush
  BY <1>5, PublishType
     DEF ChargePush, ChargeConfirmed, Dock, States, TypeOK, Safe,
         WithheldOnlyOnDock, OneHalfWaits
<1>6. CASE UnplugPush
  <2>1. UNCHANGED <<jobType, now, refresh, sent>>
    BY <1>6 DEF UnplugPush
  <2>2. QED
    BY <1>6, <2>1, EvidenceSafe DEF TypeOK
<1>7. CASE ErrorPush \/ ErrorAnswer
  BY <1>7, PublishType
     DEF ErrorPush, ErrorAnswer, record, CancelDeparture, States, TypeOK, Safe,
         WithheldOnlyOnDock, OneHalfWaits
<1>8. CASE PosAway
  BY <1>8
     DEF PosAway, Move, TypeOK, Safe, WithheldOnlyOnDock, OneHalfWaits
<1>9. CASE RefreshStart \/ NoCleanAnswer
  BY <1>9
     DEF RefreshStart, NoCleanAnswer, record, TypeOK, Safe,
         WithheldOnlyOnDock, OneHalfWaits
<1>10. ASSUME NEW a \in {"charging", "notCharging", "silent", "offline"}, ChargeAnswer(a)
       PROVE  IInv'
  <2>1. CASE a = "charging"
    BY <1>10, <2>1, PublishType
       DEF ChargeAnswer, ChargeConfirmed, Dock, States, TypeOK, Safe,
           WithheldOnlyOnDock, OneHalfWaits
  <2>2. CASE a # "charging"
    BY <1>10, <2>2
       DEF ChargeAnswer, record, TypeOK, Safe, WithheldOnlyOnDock,
           OneHalfWaits
  <2>3. QED
    BY <2>1, <2>2
<1>11. ASSUME NEW m \in CleanInfos, CleanAnswer(m) PROVE IInv'
  <2>1. CASE m.state = "idle" /\ ~m.alert
    BY <1>11, <2>1
       DEF CleanAnswer, record, TypeOK, Safe, WithheldOnlyOnDock,
           OneHalfWaits
  <2>2. CASE ~(m.state = "idle" /\ ~m.alert)
    <3>1. HandleCleanInfo(m) /\ refresh' = "none" /\ UNCHANGED <<now, sent>>
      BY <1>11, <2>2 DEF CleanAnswer
    <3>2. QED
      BY <3>1, CleanInfoSafe DEF TypeOK
  <2>3. QED
    BY <2>1, <2>2
<1>12. ASSUME NEW a \in Actions, CleanCommand(a) PROVE IInv'
  <2>1. EffectiveAction(a) \in Actions
    BY DEF EffectiveAction, Actions
  <2>2. EchoedType(EffectiveAction(a)) \in JobTypes
    BY JobTypesAssumption DEF EchoedType, TypeOK
  <2>3. QED
    BY <1>12, <2>1, <2>2, JobTypesAssumption
       DEF CleanCommand, Commands, TypeOK, Safe, WithheldOnlyOnDock,
           OneHalfWaits
<1>13. ASSUME NEW t \in {"spotArea", "border"}, MowTask(t) PROVE IInv'
  BY <1>13, JobTypesAssumption
     DEF MowTask, Commands, Actions, TypeOK, Safe, WithheldOnlyOnDock,
         OneHalfWaits
<1>14. ASSUME NEW s \in {"RETURNING", "DOCKED"}, DockAnswer(s) PROVE IInv'
  BY <1>14, PublishType
     DEF DockAnswer, record, States, TypeOK, Safe, WithheldOnlyOnDock, OneHalfWaits
<1>15. CASE Tick
  BY <1>15, TimeAssumption
     DEF Tick, record, Time, TypeOK, Safe, WithheldOnlyOnDock,
         OneHalfWaits
<1>16. CASE Restart
  BY <1>16
     DEF Restart, CancelDeparture, Commands, TypeOK, Safe,
         WithheldOnlyOnDock, OneHalfWaits
<1>17. CASE UNCHANGED vars
  BY <1>17
     DEF vars, TypeOK, Safe, WithheldOnlyOnDock, OneHalfWaits
<1>18. QED
  BY <1>1, <1>2, <1>3, <1>4, <1>5, <1>6, <1>7, <1>8, <1>9, <1>10, <1>11, <1>12,
     <1>13, <1>14, <1>15, <1>16, <1>17
     DEF Next

-------------------------------------------------------------------------------
\* The record, the bus and the command in flight are always well typed.
THEOREM TypeCorrect == Spec => []TypeOK
<1>1. IInv => TypeOK
  BY DEF IInv
<1>2. QED
  BY <1>1, InitSafe, NextSafe, PTL DEF Spec

\* A withheld plan never outlives the stay on the dock it was withheld for.
THEOREM WithheldOnDock == Spec => []WithheldOnlyOnDock
<1>1. IInv => WithheldOnlyOnDock
  BY DEF IInv, Safe
<1>2. QED
  BY <1>1, InitSafe, NextSafe, PTL DEF Spec

\* At most one half of a departure waits for the other.
THEOREM OneHalfOnly == Spec => []OneHalfWaits
<1>1. IInv => OneHalfWaits
  BY DEF IInv, Safe
<1>2. QED
  BY <1>1, InitSafe, NextSafe, PTL DEF Spec

-------------------------------------------------------------------------------
(* The history.                                                             *)

\* The history variables restrict nothing: without them a step is a step of
\* MowerState.
LEMMA HistorySteps ==
    /\ HInit => Init
    /\ [HNext]_hvars => [Next]_vars
<1>1. HInit => Init
  BY DEF HInit
<1>2. ASSUME HNext PROVE Next
  <2>1. CASE \E p \in Phases, t \in Triggers : HJobEdge(p, t)
    BY <2>1 DEF HJobEdge, Next
  <2>2. CASE HUnplugPush
    BY <2>2 DEF HUnplugPush, Next
  <2>3. CASE HReport \/ HDockAnswer
    BY <2>3 DEF HReport, HDockAnswer, Next
  <2>4. CASE HQuiet
    BY <2>4 DEF HQuiet, Next
  <2>5. CASE HCommand
    BY <2>5 DEF HCommand, Next
  <2>6. CASE HTick
    BY <2>6 DEF HTick, Next
  <2>7. QED
    BY <1>2, <2>1, <2>2, <2>3, <2>4, <2>5, <2>6 DEF HNext, HOther
<1>3. UNCHANGED hvars => UNCHANGED vars
  BY DEF hvars
<1>4. QED
  BY <1>1, <1>2, <1>3

\* A step that leaves the record docked either publishes a state of a mower on its
\* dock, or an error, or publishes nothing and found the record docked.
ShownOnDock ==
    docked' => \/ lastState' \in {"DOCKED", "ERROR"}
               \/ docked /\ UNCHANGED lastState

LEMMA CleanInfoShows ==
    ASSUME TypeOK, NEW m \in CleanInfos, HandleCleanInfo(m)
    PROVE  ShownOnDock
<1>1. CleanStatus(m) \in {"ERROR", "RETURNING", "IDLE", "CLEANING", "PAUSED"}
  BY CleanStatusType DEF HandleCleanInfo
<1>2. CASE Withheld(m)
  BY <1>2 DEF HandleCleanInfo, ShownOnDock
<1>3. CASE ~Withheld(m) /\ CleanStatus(m) \in {"CLEANING", "RETURNING"}
  BY <1>3 DEF HandleCleanInfo, Move, ShownOnDock
<1>4. CASE ~Withheld(m) /\ CleanStatus(m) \notin {"CLEANING", "RETURNING"}
  <2>1. UNCHANGED docked /\ Publish(CleanStatus(m))
    BY <1>4 DEF HandleCleanInfo
  <2>2. docked => CleanStatus(m) = "ERROR"
    BY <1>1, <1>4 DEF Withheld
  <2>3. QED
    BY <2>1, <2>2 DEF Publish, ShownOnDock
<1>5. QED
  BY <1>2, <1>3, <1>4

LEMMA NextShows ==
    ASSUME TypeOK, [HOther]_hvars
    PROVE  ShownOnDock
<1>1. ASSUME NEW p \in Phases, NEW t \in Triggers, HJobEdge(p, t) PROVE ShownOnDock
  BY <1>1 DEF HJobEdge, JobEdge, DepartureEdge, ConfirmDeparture, Move, ShownOnDock
<1>2. CASE HUnplugPush
  BY <1>2 DEF HUnplugPush, UnplugPush, ConfirmDeparture, Move, ShownOnDock
<1>3. CASE HReport
  <2>1. ASSUME NEW m \in CleanInfos, CleanInfoPush(m) \/ CleanAnswer(m) PROVE ShownOnDock
    BY <2>1, CleanInfoShows DEF CleanInfoPush, CleanAnswer, record, ShownOnDock
  <2>2. CASE ReturnStart \/ \E s \in {"RETURNING", "ERROR"} : ChargeInfoPush(s)
    BY <2>2 DEF ReturnStart, ChargeInfoPush, Move, Publish, ShownOnDock
  <2>3. CASE ChargePush \/ ErrorPush \/ ErrorAnswer \/ Restart
    BY <2>3 DEF ChargePush, ChargeConfirmed, Dock, ErrorPush, ErrorAnswer, Restart, record,
                Publish, ShownOnDock
  <2>4. ASSUME NEW a \in {"charging", "notCharging", "silent", "offline"}, ChargeAnswer(a)
        PROVE  ShownOnDock
    BY <2>4 DEF ChargeAnswer, ChargeConfirmed, Dock, Publish, record, ShownOnDock
  <2>5. QED
    BY <1>3, <2>1, <2>2, <2>3, <2>4 DEF HReport
<1>4. CASE HQuiet \/ HCommand \/ HTick \/ UNCHANGED hvars
  BY <1>4 DEF HQuiet, HCommand, HTick, PosAway, Move, RefreshStart, NoCleanAnswer,
              CleanCommand, MowTask, Tick, record, hvars, vars, ShownOnDock
<1>5. QED
  BY <1>1, <1>2, <1>3, <1>4 DEF HOther

\* With the answers to dock commands, which leave the record alone.
LEMMA NextStaysShown ==
    ASSUME TypeOK, DockedIsShown, [HNext]_hvars
    PROVE  DockedIsShown'
<1>1. CASE HDockAnswer
  BY <1>1 DEF HDockAnswer, DockAnswer, Publish, DockedIsShown
<1>2. CASE HOther /\ answered' = (answered /\ lastState' = lastState)
  <2>1. ShownOnDock
    BY <1>2, NextShows
  <2>2. CASE docked' /\ docked /\ lastState' = lastState
    BY <1>2, <2>2 DEF DockedIsShown
  <2>3. QED
    BY <2>1, <2>2 DEF ShownOnDock, DockedIsShown
<1>3. CASE UNCHANGED hvars
  BY <1>3 DEF hvars, vars, DockedIsShown
<1>4. QED
  BY <1>1, <1>2, <1>3 DEF HNext

\* A mower that the record has on its charger is shown docked or in error, but
\* for the RETURNING that answers a dock command, which is published past the
\* record (lawn_mower.py, async_dock).
THEOREM DockedShown == HSpec => []DockedIsShown
<1>1. HInit => IInv /\ DockedIsShown
  BY InitSafe DEF HInit, Init, DockedIsShown
<1>2. IInv /\ DockedIsShown /\ [HNext]_hvars => (IInv /\ DockedIsShown)'
  BY NextSafe, HistorySteps, NextStaysShown DEF IInv
<1>3. QED
  BY <1>1, <1>2, PTL DEF HSpec

\* A job described by its type is remembered by its type.
TypedIsRemembered == plan = "typed" => jobType # None

LEMMA CleanInfoRemembers ==
    ASSUME TypedIsRemembered, NEW m \in CleanInfos, HandleCleanInfo(m), HCleanInfo(m)
    PROVE  TypedIsRemembered'
<1>1. jobType' = NotedJob(m) /\ plan' = PlanAfter(m)
  BY DEF HandleCleanInfo, HCleanInfo
<1>2. QED
  BY <1>1 DEF NotedJob, PlanAfter, TypedIsRemembered

LEMMA NextRemembers ==
    ASSUME TypedIsRemembered, TypeOK, [HNext]_hvars
    PROVE  TypedIsRemembered'
<1>1. CASE \E p \in Phases, t \in Triggers : HJobEdge(p, t)
  BY <1>1 DEF HJobEdge, JobEdge, TypedIsRemembered
<1>2. CASE HUnplugPush
  BY <1>2 DEF HUnplugPush, UnplugPush, TypedIsRemembered
<1>3. CASE HReport
  <2>1. ASSUME NEW m \in CleanInfos, CleanInfoPush(m), HCleanInfo(m)
        PROVE  TypedIsRemembered'
    BY <2>1, CleanInfoRemembers DEF CleanInfoPush
  <2>2. ASSUME NEW m \in CleanInfos, CleanAnswer(m),
               IF m.state = "idle" /\ ~m.alert THEN UNCHANGED <<announced, unplugged, plan>>
               ELSE HCleanInfo(m)
        PROVE  TypedIsRemembered'
    <3>1. CASE m.state = "idle" /\ ~m.alert
      BY <2>2, <3>1 DEF CleanAnswer, record, TypedIsRemembered
    <3>2. CASE ~(m.state = "idle" /\ ~m.alert)
      BY <2>2, <3>2, CleanInfoRemembers DEF CleanAnswer
    <3>3. QED
      BY <3>1, <3>2
  <2>3. CASE UNCHANGED <<jobType, plan>> \/ plan' = "none"
    BY <2>3 DEF TypedIsRemembered
  <2>4. CASE \/ ReturnStart /\ Settle /\ UNCHANGED plan
             \/ (\E s \in {"RETURNING", "ERROR"} : ChargeInfoPush(s)) /\ UNCHANGED plan
             \/ ChargePush /\ UNCHANGED plan
             \/ (\E a \in {"charging", "notCharging", "silent", "offline"} : ChargeAnswer(a))
                    /\ UNCHANGED plan
             \/ ErrorPush /\ UNCHANGED plan
             \/ ErrorAnswer /\ UNCHANGED plan
    BY <2>3, <2>4 DEF ReturnStart, ChargeInfoPush, ChargePush, ChargeAnswer, ChargeConfirmed,
                      Dock, ErrorPush, ErrorAnswer, record
  <2>5. QED
    BY <1>3, <2>1, <2>2, <2>3, <2>4 DEF HReport
<1>4. CASE HQuiet \/ HTick \/ UNCHANGED hvars
  BY <1>4 DEF HQuiet, HTick, PosAway, RefreshStart, NoCleanAnswer, Tick, record, history,
              hvars, vars, TypedIsRemembered
<1>5. CASE HCommand
  <2>1. plan' = "none" \/ plan' = plan
    BY <1>5 DEF HCommand
  <2>2. jobType' = jobType \/ jobType' \in {"auto", "spotArea", "border"}
    BY <1>5 DEF HCommand, CleanCommand, MowTask
  <2>3. None \notin {"auto", "spotArea", "border"}
    BY NoneAssumption, JobTypesAssumption
  <2>4. QED
    BY <2>1, <2>2, <2>3 DEF TypedIsRemembered
<1>6. CASE HDockAnswer
  BY <1>6 DEF HDockAnswer, DockAnswer, record, TypedIsRemembered
<1>7. QED
  BY <1>1, <1>2, <1>3, <1>4, <1>5, <1>6 DEF HNext, HOther

\* A job that the mower described by its type and never ended is resumed from
\* the dock, unless the plan withheld there is an idle one (CleanMower).
THEOREM SuspendedResumes == HSpec => []SuspendedJobResumed
<1>1. HInit => IInv /\ TypedIsRemembered
  BY InitSafe, HistorySteps DEF HInit, TypedIsRemembered
<1>2. IInv /\ TypedIsRemembered /\ [HNext]_hvars => (IInv /\ TypedIsRemembered)'
  BY NextSafe, HistorySteps, NextRemembers DEF IInv
<1>3. IInv /\ TypedIsRemembered => SuspendedJobResumed
  BY DEF IInv, TypeOK, TypedIsRemembered, SuspendedJobResumed, EffectiveAction
<1>4. QED
  BY <1>1, <1>2, <1>3, PTL DEF HSpec

-------------------------------------------------------------------------------
(* The departure promise.  The record keeps one half of a departure, the    *)
(* promise remembers the latest of each kind.  They agree because a half    *)
(* the record has dropped without settling it is older than the window, and *)
(* stays so.                                                                *)

\* A half of the record stands for the fact of its kind that is remembered.
StandsFor(at, stamp) ==
    \/ at # None /\ stamp = at
    \/ at = None /\ (stamp = None \/ now - stamp > Window)

Halves ==
    /\ now \in Nat
    /\ edgeAt \in Nat \cup {None}
    /\ leftAt \in Nat \cup {None}
    /\ announced \in Nat \cup {None}
    /\ unplugged \in Nat \cup {None}
    /\ StandsFor(edgeAt, announced)
    /\ StandsFor(leftAt, unplugged)

LEMMA InitHalves == HInit => Halves /\ D!Init
BY DEF HInit, Init, Halves, StandsFor, D!Init

\* The record pairs a half exactly when the promise does.
LEMMA SamePairs ==
    ASSUME Halves
    PROVE  /\ WithinWindow(edgeAt) <=> D!Recent(announced)
           /\ WithinWindow(leftAt) <=> D!Recent(unplugged)
           /\ WithinWindow(announced) <=> D!Recent(announced)
           /\ WithinWindow(unplugged) <=> D!Recent(unplugged)
BY NoneAssumption DEF Halves, StandsFor, WithinWindow, D!Recent

\* A step that settles both halves on both sides, leaving the clock alone.
LEMMA SettledHalves ==
    ASSUME Halves, CancelDeparture, Settle, UNCHANGED now
    PROVE  Halves'
BY DEF Halves, CancelDeparture, Settle, StandsFor

LEMMA SameHalves ==
    ASSUME Halves, UNCHANGED <<edgeAt, leftAt, announced, unplugged, now>>
    PROVE  Halves'
BY DEF Halves, StandsFor

\* The answer to a question or a dock command is published and settles nothing.
LEMMA AnswerStep ==
    ASSUME Halves, NEW s \in {"ERROR", "RETURNING", "DOCKED"}, Publish(s),
           source' = "report", UNCHANGED <<edgeAt, leftAt, announced, unplugged, now>>
    PROVE  Halves' /\ D!Next
<1>1. D!Answer(s)
  BY DEF Publish, D!Answer
<1>2. QED
  BY <1>1, SameHalves DEF D!Next

\* Publishing a state is a report of a state.
LEMMA PublishReports ==
    ASSUME NEW s \in States, Publish(s), Settle, source' = "report", UNCHANGED now
    PROVE  D!Next
<1>1. lastState' \in States
  BY DEF Publish, States
<1>2. D!Report(lastState')
  BY DEF D!Report, D!Settle, Settle
<1>3. QED
  BY <1>1, <1>2 DEF D!Next

LEMMA CleanInfoStep ==
    ASSUME Halves, NEW m \in CleanInfos, HandleCleanInfo(m), HCleanInfo(m),
           source' = "report", UNCHANGED now
    PROVE  Halves' /\ D!Next
<1>1. CASE Withheld(m) /\ ~EndsJob(m)
  <2>1. UNCHANGED <<edgeAt, leftAt, announced, unplugged, lastState>>
    BY <1>1 DEF HandleCleanInfo, HCleanInfo
  <2>2. D!Ignore
    BY <2>1 DEF D!Ignore
  <2>3. QED
    BY <2>1, <2>2, SameHalves DEF D!Next
<1>2. CASE Withheld(m) /\ EndsJob(m)
  <2>1. CancelDeparture /\ Settle /\ UNCHANGED lastState
    BY <1>2 DEF HandleCleanInfo, HCleanInfo
  <2>2. D!Cancel
    BY <2>1 DEF D!Cancel, D!Settle, Settle
  <2>3. QED
    BY <2>1, <2>2, SettledHalves DEF D!Next
<1>3. CASE ~Withheld(m)
  <2>1. CancelDeparture /\ Settle /\ Publish(CleanStatus(m))
    BY <1>3 DEF HandleCleanInfo, HCleanInfo
  <2>2. CleanStatus(m) \in States
    BY DEF HandleCleanInfo, CleanInfos, CleanStatus, States
  <2>3. QED
    BY <2>1, <2>2, SettledHalves, PublishReports
<1>4. QED
  BY <1>1, <1>2, <1>3

LEMMA JobEdgeStep ==
    ASSUME Halves, NEW p \in Phases, NEW t \in Triggers, HJobEdge(p, t)
    PROVE  Halves' /\ D!Next
<1> UNCHANGED now /\ source' = "evidence"
  BY DEF HJobEdge, JobEdge
<1>1. CASE p \notin {"start", "resume"}
  <2>1. CancelDeparture /\ UNCHANGED lastState /\ Settle
    BY <1>1 DEF HJobEdge, JobEdge
  <2>2. D!Cancel
    BY <2>1 DEF D!Cancel, D!Settle, Settle
  <2>3. QED
    BY <2>1, <2>2, SettledHalves DEF D!Next
<1>2. CASE p \in {"start", "resume"} /\ ~MayBeOnCharger
  <2>1. UNCHANGED <<edgeAt, leftAt, announced, unplugged, lastState>>
    BY <1>2 DEF HJobEdge, JobEdge, DepartureEdge
  <2>2. D!Ignore
    BY <2>1 DEF D!Ignore
  <2>3. QED
    BY <2>1, <2>2, SameHalves DEF D!Next
<1>3. CASE p \in {"start", "resume"} /\ MayBeOnCharger /\ WithinWindow(leftAt)
  <2>1. ConfirmDeparture /\ Settle /\ D!Recent(unplugged)
    BY <1>3, SamePairs DEF HJobEdge, JobEdge, DepartureEdge
  <2>2. lastState' = IF lastState = "ERROR" THEN lastState ELSE "CLEANING"
    BY <2>1 DEF ConfirmDeparture, Publish
  <2>3. D!Announce
    BY <2>1, <2>2 DEF D!Announce, D!Leave, D!Settle, Settle
  <2>4. QED
    BY <2>1, <2>3, SettledHalves DEF ConfirmDeparture, D!Next
<1>4. CASE p \in {"start", "resume"} /\ MayBeOnCharger /\ ~WithinWindow(leftAt)
  <2>1. /\ NoteDepartureEdge
        /\ ~D!Recent(unplugged)
        /\ announced' = now
        /\ UNCHANGED <<unplugged, lastState>>
    BY <1>4, SamePairs DEF HJobEdge, JobEdge, DepartureEdge
  <2>2. D!Announce
    BY <2>1 DEF D!Announce
  <2>3. Halves'
    BY <2>1, NoneAssumption, TimeAssumption DEF NoteDepartureEdge, Halves, StandsFor, D!Recent
  <2>4. QED
    BY <2>2, <2>3 DEF D!Next
<1>5. QED
  BY <1>1, <1>2, <1>3, <1>4

LEMMA UnplugStep ==
    ASSUME Halves, HUnplugPush
    PROVE  Halves' /\ D!Next
<1> UNCHANGED now /\ source' = "evidence"
  BY DEF HUnplugPush, UnplugPush
<1>1. CASE WithinWindow(edgeAt)
  <2>1. ConfirmDeparture /\ Settle /\ D!Recent(announced)
    BY <1>1, SamePairs DEF HUnplugPush, UnplugPush
  <2>2. lastState' = IF lastState = "ERROR" THEN lastState ELSE "CLEANING"
    BY <2>1 DEF ConfirmDeparture, Publish
  <2>3. D!Unplug
    BY <2>1, <2>2 DEF D!Unplug, D!Leave, D!Settle, Settle
  <2>4. QED
    BY <2>1, <2>3, SettledHalves DEF ConfirmDeparture, D!Next
<1>2. CASE ~WithinWindow(edgeAt)
  <2>1. /\ NoteChargeLeft
        /\ ~D!Recent(announced)
        /\ unplugged' = now
        /\ UNCHANGED <<announced, lastState>>
    BY <1>2, SamePairs DEF HUnplugPush, UnplugPush
  <2>2. D!Unplug
    BY <2>1 DEF D!Unplug
  <2>3. Halves'
    BY <2>1, NoneAssumption, TimeAssumption DEF NoteChargeLeft, Halves, StandsFor, D!Recent
  <2>4. QED
    BY <2>2, <2>3 DEF D!Next
<1>3. QED
  BY <1>1, <1>2

\* The charger's confirmation refutes the unplugging on both sides.
LEMMA ChargingStep ==
    ASSUME Halves, ChargeConfirmed, unplugged' = None, source' = "report",
           UNCHANGED <<announced, now>>
    PROVE  Halves' /\ D!Next
<1>1. lastState' = "DOCKED" /\ leftAt' = None /\ UNCHANGED edgeAt
  BY DEF ChargeConfirmed, Dock, Publish
<1>2. D!Charging
  BY <1>1 DEF D!Charging
<1>3. Halves'
  BY <1>1 DEF Halves, StandsFor
<1>4. QED
  BY <1>2, <1>3 DEF D!Next

LEMMA ReportStep ==
    ASSUME Halves, HReport, source' = "report"
    PROVE  Halves' /\ D!Next
<1>1. ASSUME NEW m \in CleanInfos, CleanInfoPush(m), HCleanInfo(m)
      PROVE  Halves' /\ D!Next
  BY <1>1, CleanInfoStep DEF CleanInfoPush
<1>2. ASSUME NEW m \in CleanInfos, CleanAnswer(m),
             IF m.state = "idle" /\ ~m.alert THEN UNCHANGED <<announced, unplugged, plan>>
             ELSE HCleanInfo(m)
      PROVE  Halves' /\ D!Next
  <2>1. CASE m.state = "idle" /\ ~m.alert
    <3>1. UNCHANGED <<edgeAt, leftAt, announced, unplugged, now, lastState>>
      BY <1>2, <2>1 DEF CleanAnswer, record
    <3>2. D!Ignore
      BY <3>1 DEF D!Ignore
    <3>3. QED
      BY <3>1, <3>2, SameHalves DEF D!Next
  <2>2. CASE ~(m.state = "idle" /\ ~m.alert)
    BY <1>2, <2>2, CleanInfoStep DEF CleanAnswer
  <2>3. QED
    BY <2>1, <2>2
<1>3. CASE ReturnStart /\ Settle
  BY <1>3, SettledHalves, PublishReports DEF ReturnStart, States
<1>4. ASSUME NEW s \in {"RETURNING", "ERROR"}, ChargeInfoPush(s), Settle
      PROVE  Halves' /\ D!Next
  BY <1>4, SettledHalves, PublishReports DEF ChargeInfoPush, States
<1>5. CASE ChargePush /\ unplugged' = None /\ UNCHANGED announced
  BY <1>5, ChargingStep DEF ChargePush
<1>6. ASSUME NEW a \in {"charging", "notCharging", "silent", "offline"}, ChargeAnswer(a),
             unplugged' = (IF a = "charging" THEN None ELSE unplugged),
             UNCHANGED announced
      PROVE  Halves' /\ D!Next
  <2>1. CASE a = "charging"
    BY <1>6, <2>1, ChargingStep DEF ChargeAnswer
  <2>2. CASE a # "charging"
    <3>1. UNCHANGED <<edgeAt, leftAt, announced, unplugged, now, lastState>>
      BY <1>6, <2>2 DEF ChargeAnswer, record
    <3>2. D!Ignore
      BY <3>1 DEF D!Ignore
    <3>3. QED
      BY <3>1, <3>2, SameHalves DEF D!Next
  <2>3. QED
    BY <2>1, <2>2
<1>7. CASE ErrorPush /\ Settle
  BY <1>7, SettledHalves, PublishReports DEF ErrorPush, States
<1>8. CASE ErrorAnswer /\ UNCHANGED <<announced, unplugged>>
  BY <1>8, AnswerStep DEF ErrorAnswer, record
<1>9. CASE Restart /\ Settle
  <2>1. CancelDeparture /\ lastState' = None /\ UNCHANGED now
    BY <1>9 DEF Restart
  <2>2. D!Forget
    BY <1>9, <2>1 DEF D!Forget, D!Settle, Settle
  <2>3. QED
    BY <1>9, <2>1, <2>2, SettledHalves DEF D!Next
<1>10. QED
  BY <1>1, <1>2, <1>3, <1>4, <1>5, <1>6, <1>7, <1>8, <1>9 DEF HReport

\* Every step of the handlers is a step of the promise, or none.
LEMMA NextRefines ==
    ASSUME Halves, [HNext]_hvars
    PROVE  Halves' /\ [D!Next]_(D!vars)
<1>1. CASE \E p \in Phases, t \in Triggers : HJobEdge(p, t)
  BY <1>1, JobEdgeStep
<1>2. CASE HUnplugPush
  BY <1>2, UnplugStep
<1>3. CASE HReport /\ source' = "report"
  BY <1>3, ReportStep
<1>4. CASE HQuiet \/ HCommand \/ UNCHANGED hvars
  <2>1. UNCHANGED <<edgeAt, leftAt, announced, unplugged, now, lastState, source>>
    BY <1>4 DEF HQuiet, HCommand, PosAway, RefreshStart, NoCleanAnswer, CleanCommand,
                MowTask, hvars, vars, history, record
  <2>2. QED
    BY <2>1, SameHalves DEF D!vars
<1>5. CASE HTick
  <2>1. /\ now' = now + 1
        /\ UNCHANGED <<edgeAt, leftAt, announced, unplugged, lastState, source>>
    BY <1>5 DEF HTick, Tick, record, history
  <2>2. Halves'
    BY <2>1, TimeAssumption, NoneAssumption DEF Halves, StandsFor
  <2>3. D!Tick
    BY <2>1 DEF D!Tick
  <2>4. QED
    BY <2>2, <2>3 DEF D!Next
<1>6. CASE HDockAnswer
  BY <1>6, AnswerStep DEF HDockAnswer, DockAnswer, record
<1>7. QED
  BY <1>1, <1>2, <1>3, <1>4, <1>5, <1>6 DEF HNext, HOther

\* CLEANING is inferred on two recent standing facts, and on nothing less; only
\* messages of the mower settle them, not answers to what we asked or commanded.
THEOREM DepartureRefinement == HSpec => DepartureKept
<1>1. HInit => Halves /\ D!Init
  BY InitHalves
<1>2. Halves /\ [HNext]_hvars => Halves' /\ [D!Next]_(D!vars)
  BY NextRefines
<1>3. QED
  BY <1>1, <1>2, PTL DEF HSpec, DepartureKept, D!Spec

===============================================================================
