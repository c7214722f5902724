------------------------------ MODULE Departure ------------------------------
(***************************************************************************)
(* What the patch layer promises about a departure it infers.              *)
(*                                                                         *)
(* Some firmware leaves the dock without a state message.  Mowing may then *)
(* be shown on two indirect facts only, an announcement and an unplugging, *)
(* when both were heard at most Window apart and no message of the mower   *)
(* settled the question in between.  An answer to something we asked or    *)
(* commanded may be shown in between and settles nothing.  This module     *)
(* states that promise and nothing of how it is kept: it remembers the     *)
(* latest fact of each kind, where the code keeps only the one that is     *)
(* still waiting.                                                          *)
(***************************************************************************)
EXTENDS Integers

CONSTANTS States,   \* the states a mower can be shown in
          None,     \* no state, no time
          Window    \* how far apart the two facts may be

VARIABLES shown,      \* the state shown, or None before the first
          now,        \* monotonic time
          announced,  \* when the latest standing announcement was heard
          unplugged,  \* when the latest standing unplugging was heard
          source      \* what the latest message was: a report or evidence

vars == <<shown, now, announced, unplugged, source>>

Recent(stamp) == stamp # None /\ now - stamp <= Window

Init ==
    /\ shown = None
    /\ now = 0
    /\ announced = None
    /\ unplugged = None
    /\ source = "report"

Settle == announced' = None /\ unplugged' = None

\* Time passes; nothing else changes.
Tick == now' = now + 1 /\ UNCHANGED <<shown, announced, unplugged, source>>

\* Both facts are there: the mower is out, unless a fault is being shown.
Leave ==
    /\ source' = "evidence"
    /\ Settle
    /\ shown' = IF shown = "ERROR" THEN shown ELSE "CLEANING"
    /\ UNCHANGED now

\* One fact arrives.  It makes a departure exactly when the other is recent.
Announce ==
    \/ Recent(unplugged) /\ Leave
    \/ /\ ~Recent(unplugged)
       /\ announced' = now
       /\ source' = "evidence"
       /\ UNCHANGED <<shown, now, unplugged>>

Unplug ==
    \/ Recent(announced) /\ Leave
    \/ /\ ~Recent(announced)
       /\ unplugged' = now
       /\ source' = "evidence"
       /\ UNCHANGED <<shown, now, announced>>

\* A message that says nothing of the departure.
Ignore ==
    /\ source' \in {"report", "evidence"}
    /\ UNCHANGED <<shown, now, announced, unplugged>>

\* The job the facts belonged to is over: they prove nothing any more.
Cancel ==
    /\ source' \in {"report", "evidence"}
    /\ Settle
    /\ UNCHANGED <<shown, now>>

\* The mower says what it is doing, which is better evidence than either fact.
Report(s) ==
    /\ source' = "report"
    /\ shown' = s
    /\ Settle
    /\ UNCHANGED now

\* The charger confirms the mower: an unplugging is refuted.
Charging ==
    /\ source' = "report"
    /\ shown' = "DOCKED"
    /\ unplugged' = None
    /\ UNCHANGED <<now, announced>>

\* The answer to a question or to a dock command of our own: it is shown and
\* settles nothing.
Answer(s) ==
    /\ source' = "report"
    /\ shown' = s
    /\ UNCHANGED <<now, announced, unplugged>>

\* The program starts again and knows nothing.
Forget ==
    /\ source' = "report"
    /\ shown' = None
    /\ Settle
    /\ UNCHANGED now

Next ==
    \/ Tick
    \/ Announce
    \/ Unplug
    \/ Ignore
    \/ Cancel
    \/ \E s \in States : Report(s)
    \/ Charging
    \/ \E s \in {"ERROR", "RETURNING", "DOCKED"} : Answer(s)
    \/ Forget

Spec == Init /\ [][Next]_vars

==============================================================================
