----------------------------- MODULE MCRecords -----------------------------
(* An instance of Records: a run finds nothing, or one thing and proves it. *)
EXTENDS Records, TLC

CONSTANTS r1, r2

Refused == [launched |-> FALSE, finds |-> <<>>]
Found == [launched |-> TRUE, finds |-> <<"confirmed">>]
MCPlans == [r \in {r1, r2} |-> IF r = r1 THEN {Found} ELSE {Found, Refused}]
MCEarlier == <<r1>>
MCEarlierFindings == <<[run |-> r1, k |-> 1, grade |-> "confirmed"]>>
=============================================================================
