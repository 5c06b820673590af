---------------------------- MODULE StateMachine ----------------------------
(***************************************************************************)
(* The lifecycle of an execution of noble-cascade                          *)
(* (noble/state_machine.py) as a specification of its own: what a caller   *)
(* of validate_transition can ever do to the state of a run.  The engine   *)
(* is shown to implement it in module Engine.                              *)
(***************************************************************************)
EXTENDS Naturals, Sequences, SequencesExt

CONSTANT Runs

VARIABLE history    \* the states each run went through, CREATED first

TerminalStates == {"COMPLETED", "BLOCKED", "FAILED", "TIMED_OUT", "CANCELLED"}

(* The way to a worker: no state of it can be skipped. *)
GatePath == <<"CREATED", "VALIDATING", "SCOPE_CHECK", "AUTHORIZATION_CHECK",
              "RISK_ASSESSMENT", "WAITING_FOR_APPROVAL", "APPROVED">>

WorkStates == {"PLANNED", "DISPATCHED", "RUNNING", "EXECUTING", "COLLECTING_EVIDENCE",
               "VALIDATING_RESULT", "REPORTING"}
States == {GatePath[i] : i \in 1..7} \cup WorkStates \cup TerminalStates

(* ALLOWED_TRANSITIONS, after the extended states have replaced the rows   *)
(* of APPROVED and VALIDATING_RESULT; edges into terminal states are in    *)
(* CanEnd, and validate_transition allows all of them.                     *)
AllowedTransitions ==
    {<<GatePath[i], GatePath[i + 1]>> : i \in 1..6}
    \cup {<<"APPROVED", "PLANNED">>, <<"PLANNED", "DISPATCHED">>, <<"DISPATCHED", "RUNNING">>,
          <<"RUNNING", "COLLECTING_EVIDENCE">>, <<"APPROVED", "EXECUTING">>,
          <<"EXECUTING", "COLLECTING_EVIDENCE">>,
          <<"COLLECTING_EVIDENCE", "VALIDATING_RESULT">>,
          <<"VALIDATING_RESULT", "REPORTING">>}

(* Where ALLOWED_TRANSITIONS itself names an edge into a terminal state. *)
CanEnd(from, to) ==
    \/ /\ to = "FAILED"
       /\ from \notin TerminalStates \cup {"CREATED"}
    \/ /\ to = "BLOCKED"
       /\ from \in ({GatePath[i] : i \in 2..7} \cup {"PLANNED", "DISPATCHED", "EXECUTING"})
    \/ /\ to = "TIMED_OUT"
       /\ from \in {"RUNNING", "EXECUTING"}
    \/ /\ to = "COMPLETED"
       /\ from \in {"VALIDATING_RESULT", "REPORTING"}

CanTransition(from, to) == <<from, to>> \in AllowedTransitions \/ CanEnd(from, to)

(* validate_transition accepts: nothing leaves a terminal state, anything  *)
(* else may end, the rest is up to the table.                              *)
ValidTransition(from, to) ==
    /\ from \notin TerminalStates
    /\ to \in TerminalStates \/ CanTransition(from, to)

(* The type of the state. *)
TypeOK == history \in [Runs -> Seq(States)] /\ \A r \in Runs : history[r] # <<>>

Init == history = [r \in Runs |-> <<"CREATED">>]

Advance(r, state) ==
    /\ ValidTransition(Last(history[r]), state)
    /\ history' = [history EXCEPT ![r] = Append(@, state)]

Next == \E r \in Runs, state \in States : Advance(r, state)

Spec == Init /\ [][Next]_history

-----------------------------------------------------------------------------
(* Properties. *)

(* No caller reaches a state in which a tool runs, or has run, other than  *)
(* through every gate in its order.                                        *)
Started(h) == \E i \in 1..Len(h) : h[i] \in WorkStates
GatesNotSkipped == \A r \in Runs : Started(history[r]) => IsPrefix(GatePath, history[r])

(* Terminal states are absorbing and no state is entered twice. *)
EndsOnce ==
    \A r \in Runs : \A i, j \in 1..Len(history[r]) :
        i < j => /\ history[r][i] # history[r][j]
                 /\ history[r][i] \notin TerminalStates
=============================================================================
