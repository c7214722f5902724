------------------------------ MODULE MCAreaWrite ------------------------------
(***************************************************************************)
(* AreaWrite for TLC.  The callers are interchangeable.                    *)
(***************************************************************************)
EXTENDS AreaWrite, TLC

Symmetry == Permutations(Callers)

===============================================================================
