---------------------------- MODULE MCAuditChain ----------------------------
(* Small instances of AuditChain. *)
EXTENDS AuditChain, TLC

CONSTANTS e1, e2, e3, w1, w2, c1, c2

MCSymmetry == Permutations(Events) \cup Permutations(Writers) \cup Permutations(Auditors)
=============================================================================
