----------------------------- MODULE MCMowerState -----------------------------
(***************************************************************************)
(* MowerStateHistory for TLC: three job types, and a clock that runs one   *)
(* tick past the window, so that a half of a departure can come too late.  *)
(***************************************************************************)
EXTENDS MowerStateHistory

MCJobTypes == {"auto", "spotArea", "border"}

===============================================================================
