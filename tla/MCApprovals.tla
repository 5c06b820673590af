---------------------------- MODULE MCApprovals ----------------------------
(* Small instances of Approvals.  alice asks and runs; bob approves, and   *)
(* also has a request of his own that no approval fits.                    *)
EXTENDS Approvals, TLC

CONSTANTS alice, bob, q1, q2, q3, x1, s1, s2, g1, g2, a1

MCRequesterOf == [q \in Requests |-> IF q = q3 THEN bob ELSE alice]
MCSubjectOf == [q \in Requests |-> x1]
MCSymmetry == Permutations(Sessions) \cup Permutations(GrantIds) \cup Permutations({q1, q2})
=============================================================================
