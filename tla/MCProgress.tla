------------------------------- MODULE MCProgress ------------------------------
(***************************************************************************)
(* Progress for TLC: the mowers it is checked for.                         *)
(***************************************************************************)
EXTENDS Progress

AMower(z, a, l, r, f, n) ==
    [zeroing |-> z, announced |-> a, late |-> l, rains |-> r, faults |-> f, jobs |-> n]

\* One that zeroes its stats and may not announce, one that leaves them standing,
\* announces and has a second job, one whose answers come late, and one that rain
\* stops and that meets errors.
MCMowers == {AMower(TRUE, FALSE, FALSE, FALSE, FALSE, 1),
             AMower(FALSE, TRUE, FALSE, FALSE, FALSE, 2),
             AMower(TRUE, TRUE, TRUE, FALSE, FALSE, 1),
             AMower(FALSE, TRUE, FALSE, TRUE, TRUE, 1)}

===============================================================================
