----------------------------- MODULE MCController -----------------------------
(***************************************************************************)
(* Controller for TLC: two codes, so that one can replace the other.       *)
(***************************************************************************)
EXTENDS Controller

MCCodes == {406, 407}

===============================================================================
