------------------------------ MODULE AuditLog ------------------------------
(***************************************************************************)
(* What AuditSink.emit promises to its callers (noble/audit.py): events    *)
(* are appended one by one, nothing is changed or removed afterwards, and  *)
(* an emit that returned has its event in the log.  Module AuditChain is   *)
(* shown to implement this.                                                *)
(***************************************************************************)
EXTENDS Naturals, Sequences

CONSTANT Events

VARIABLES
    logged,   \* the events in their order
    acked     \* events whose emit returned

Init == logged = <<>> /\ acked = {}

Holds(e) == \E i \in 1..Len(logged) : logged[i] = e

AppendEvent(e) ==
    /\ ~Holds(e)
    /\ logged' = Append(logged, e)
    /\ UNCHANGED acked

Acknowledge(e) ==
    /\ Holds(e)
    /\ acked' = acked \cup {e}
    /\ UNCHANGED logged

Next == \E e \in Events : AppendEvent(e) \/ Acknowledge(e)

Spec == Init /\ [][Next]_<<logged, acked>>
=============================================================================
