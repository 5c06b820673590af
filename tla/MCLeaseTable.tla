---------------------------- MODULE MCLeaseTable ----------------------------
(* Small instances of LeaseTable: one principal who alternates between two *)
(* (tool, target) pairs, so that the per-tool and the global rate differ.  *)
EXTENDS LeaseTable, TLC

CONSTANTS r1, r2, r3, p1, s1, s2

MCPrincipalOf == [r \in Runs |-> p1]
MCSiteOf == [r \in Runs |-> IF r = r3 THEN s2 ELSE s1]

(* r1 and r2 are interchangeable: same principal, same pair. *)
MCSymmetry == Permutations({r1, r2})
=============================================================================
