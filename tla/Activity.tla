-------------------------------- MODULE Activity -------------------------------
(***************************************************************************)
(* The activity sensor (sensor.py): the mower's state with rain folded in. *)
(* Progress runs its two callbacks with its own, on the same StateEvents.  *)
(*                                                                         *)
(* Rain is told once, by the trigger of one message; the end of the delay  *)
(* is not announced, and other triggers follow while it lasts.             *)
(***************************************************************************)

VARIABLE rain   \* _interrupted_by_rain

\* What the sensor shows.  DOCKED stands for RETURNING too.  Rain changes neither
\* mowing nor an error, which is the more important fact.
ActivityOf == [CLEANING |-> "mowing", PAUSED |-> "paused", DOCKED |-> "docked",
               ERROR |-> "error"]
RainActivityOf == [ActivityOf EXCEPT !.PAUSED = "paused_rain",
                                     !.DOCKED = "docked_rain_delay"]

\* _activity
Activity(s) == IF rain THEN RainActivityOf[s] ELSE ActivityOf[s]

\* _on_state: cutting again is what ends a rain stop.
RainOnState(s) == rain' = (rain /\ s # "CLEANING")

\* Mutated form: the latest trigger is taken for the reason.
RainOnLatestTrigger(trigger) == rain' = (trigger = "rain")

\* _on_trigger: only rain sets the flag, and no trigger clears it.
RainOnTrigger(trigger) == rain' = (rain \/ trigger = "rain")

===============================================================================
