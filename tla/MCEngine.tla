------------------------------ MODULE MCEngine ------------------------------
(* Small instances of Engine: r1 and r2 are runs of the same request id,   *)
(* r3 has its own.                                                         *)
EXTENDS Engine, TLC

CONSTANTS r1, r2, r3, q1, q2

MCRequestOf == [p \in Runs |-> IF p = r3 THEN q2 ELSE q1]
MCSymmetry == Permutations({r1, r2})
=============================================================================
