-------------------------------- MODULE MCLogin --------------------------------
(***************************************************************************)
(* Login for TLC: four pairs of an account can be told apart, as many as   *)
(* entry, controller and flow can remember beside a new one.               *)
(***************************************************************************)
EXTENDS Login

MCIds == 1..4

===============================================================================
