------------------------------- MODULE Engine -------------------------------
(***************************************************************************)
(* NobleEngine.run (noble/engine.py): the pipeline that takes a request    *)
(* through its gates to a worker and back, as run by several processes     *)
(* over one database (noble/store.py).                                     *)
(*                                                                         *)
(* One step of a run is one transaction of the database, or the worker,    *)
(* with the local work around it.  What a gate decides is open: scope,     *)
(* grants, risk and approvals have their own modules.  When leases expire  *)
(* is the subject of LeaseTable; here any row may have expired.            *)
(*                                                                         *)
(* Faults: a run may crash, be interrupted (KeyboardInterrupt, or any      *)
(* exception that neither except clause names), meet a failing             *)
(* transaction, or fail to delete its lease.                               *)
(***************************************************************************)
EXTENDS Integers, FiniteSets, Sequences, SequencesExt

CONSTANTS
    Runs, Requests, RequestOf,   \* calls of run and the request id of each
    MaxConcurrent,               \* limits.global_concurrency
    MaxObservations,             \* limits.max_observations
    Faults                       \* the failures a run of the model may meet

ASSUME EngineAssumption ==
    /\ IsFiniteSet(Runs)
    /\ RequestOf \in [Runs -> Requests]
    /\ MaxConcurrent \in Nat \ {0}
    /\ MaxObservations \in Nat
    /\ Faults \subseteq {"crash", "interrupt", "store", "cleanup"}

VARIABLES
    pc,            \* what each run does next
    history,       \* the states it went through (state_history)
    owners,        \* runs with request_reserved
    leaseIds,      \* runs that named a lease
    observed,      \* observations in the output of each run's worker
    trail,         \* the audit events each run appended
    reservations,  \* table request_reservations
    results,       \* table requests
    asked,         \* runs that created a row of approvals
    leases,        \* table active_leases, by run
    launched,      \* runs that started a worker
    evidence,      \* table evidence
    findings,      \* table findings
    ledgers        \* table ledger, by run

local == <<history, owners, leaseIds, observed>>
tables == <<trail, reservations, results, asked, leases, launched, evidence, findings, ledgers>>
vars == <<pc, local, tables>>

FSM == INSTANCE StateMachine

(* The verdict that each gate appends before the run moves on. *)
Verdict ==
    [VALIDATING |-> "REQUESTED", SCOPE_CHECK |-> "ALLOW", AUTHORIZATION_CHECK |-> "AUTHORIZED",
     RISK_ASSESSMENT |-> "CLASSIFIED", WAITING_FOR_APPROVAL |-> "APPROVAL_CHECKED",
     APPROVED |-> "PRECONDITIONS_PASSED"]
(* Mutant: LOW and MEDIUM risk skip the approval state. *)
BugOnward ==
    [VALIDATING |-> "SCOPE_CHECK", SCOPE_CHECK |-> "AUTHORIZATION_CHECK",
     AUTHORIZATION_CHECK |-> "RISK_ASSESSMENT", RISK_ASSESSMENT |-> "APPROVED",
     WAITING_FOR_APPROVAL |-> "APPROVED"]
Onward ==
    [VALIDATING |-> "SCOPE_CHECK", SCOPE_CHECK |-> "AUTHORIZATION_CHECK",
     AUTHORIZATION_CHECK |-> "RISK_ASSESSMENT", RISK_ASSESSMENT |-> "WAITING_FOR_APPROVAL",
     WAITING_FOR_APPROVAL |-> "APPROVED"]

Events == {Verdict[s] : s \in DOMAIN Verdict}
    \cup {"DENY", "APPROVAL_REQUESTED", "APPROVAL_PENDING", "EXECUTING", "TOOL_FINISHED",
          "OUTPUT_VALIDATED", "FINISHED"}

(* The body of the try statement, its finally clause, and the ways to end: *)
(* returned (also by an exception), returned with audit_failure, or dead.  *)
DbPCs == {"reserve", "gate", "ask", "pending", "lease", "announce", "finished", "check",
          "collect"}
TryPCs == DbPCs \cup {"spawn", "work"}
FinallyPCs == {"cleanup", "finish", "ledger", "save"}
EndPCs == {"returned", "unsaved", "dead"}
PCs == {"idle"} \cup TryPCs \cup FinallyPCs \cup EndPCs

EvidenceRows == [run : Runs, obs : 1..MaxObservations, item : 1..2]
FindingRows == [run : Runs, obs : 1..MaxObservations, items : 1..2]
ResultRows == [run : Runs, states : Seq(FSM!States), findings : SUBSET FindingRows]

(* The type of the state. *)
TypeOK ==
    /\ pc \in [Runs -> PCs]
    /\ FSM!TypeOK
    /\ owners \subseteq Runs
    /\ leaseIds \subseteq Runs
    /\ observed \in [Runs -> 0..MaxObservations]
    /\ trail \in [Runs -> Seq(Events)]
    /\ reservations \subseteq Requests
    /\ results \subseteq ResultRows
    /\ asked \subseteq Runs
    /\ leases \subseteq leaseIds
    /\ launched \subseteq Runs
    /\ evidence \subseteq EvidenceRows
    /\ findings \subseteq FindingRows
    /\ ledgers \subseteq Runs

Init ==
    /\ pc = [p \in Runs |-> "idle"]
    /\ FSM!Init
    /\ owners = {}
    /\ leaseIds = {}
    /\ observed = [p \in Runs |-> 0]
    /\ trail = [p \in Runs |-> <<>>]
    /\ reservations = {}
    /\ results = {}
    /\ asked = {}
    /\ leases = {}
    /\ launched = {}
    /\ evidence = {}
    /\ findings = {}
    /\ ledgers = {}

State(p) == Last(history[p])
Goto(p, label) == pc' = [pc EXCEPT ![p] = label]
Enter(p, state) == history' = [history EXCEPT ![p] = Append(@, state)]
Audit(p, event) == trail' = [trail EXCEPT ![p] = Append(@, event)]

(* Both except clauses: a state for the error, then the finally clause.    *)
(* validate_transition never objects (FollowsStateMachine), so that its    *)
(* RuntimeError is no step of this module.                                 *)
Fail(p, state) == Enter(p, state) /\ Goto(p, "cleanup")

-----------------------------------------------------------------------------
(* Admission. *)
Begin(p) ==
    /\ pc[p] = "idle"
    /\ Enter(p, "VALIDATING")
    /\ Goto(p, "reserve")
    /\ UNCHANGED <<owners, leaseIds, observed, tables>>

(* Malformed id or requester, or a requester that is not the OS user. *)
RefuseIdentity(p) ==
    /\ pc[p] = "reserve"
    /\ Fail(p, "BLOCKED")
    /\ UNCHANGED <<owners, leaseIds, observed, tables>>

(* reserve_request looks at both tables in one transaction. *)
(* Mutant: the table of results is not consulted. *)
BugTaken(q) == q \in reservations
Taken(q) == q \in reservations \/ \E row \in results : RequestOf[row.run] = q

Reserve(p) ==
    /\ pc[p] = "reserve"
    /\ ~Taken(RequestOf[p])
    /\ reservations' = reservations \cup {RequestOf[p]}
    /\ owners' = owners \cup {p}
    /\ Goto(p, "gate")
    /\ UNCHANGED <<history, leaseIds, observed, trail, results, asked, leases, launched,
                   evidence, findings, ledgers>>

RefuseDuplicate(p) ==
    /\ pc[p] = "reserve"
    /\ Taken(RequestOf[p])
    /\ Fail(p, "BLOCKED")
    /\ UNCHANGED <<owners, leaseIds, observed, tables>>

-----------------------------------------------------------------------------
(* The gates, one state each: input, scope, grant, risk, approval and      *)
(* preconditions.  A gate that is passed says so in the audit log first.   *)
PassGate(p) ==
    /\ pc[p] = "gate"
    /\ State(p) # "APPROVED"
    /\ Audit(p, Verdict[State(p)])
    /\ Enter(p, Onward[State(p)])
    /\ UNCHANGED <<pc, owners, leaseIds, observed, reservations, results, asked, leases,
                   launched, evidence, findings, ledgers>>

(* The last gate; then the worker gets an identity and the lease an id. *)
(* Mutant: the lease id is not kept for the finally clause. *)
BugPrepare(p) ==
    /\ pc[p] = "gate"
    /\ State(p) = "APPROVED"
    /\ Audit(p, Verdict["APPROVED"])
    /\ Goto(p, "lease")
    /\ UNCHANGED <<local, reservations, results, asked, leases, launched, evidence, findings,
                   ledgers>>
Prepare(p) ==
    /\ pc[p] = "gate"
    /\ State(p) = "APPROVED"
    /\ Audit(p, Verdict["APPROVED"])
    /\ leaseIds' = leaseIds \cup {p}
    /\ Goto(p, "lease")
    /\ UNCHANGED <<history, owners, observed, reservations, results, asked, leases, launched,
                   evidence, findings, ledgers>>

(* A gate that refuses raises; the risk assessment never does. *)
RefuseAtGate(p) ==
    /\ pc[p] = "gate"
    /\ State(p) # "RISK_ASSESSMENT"
    /\ Fail(p, "BLOCKED")
    /\ UNCHANGED <<owners, leaseIds, observed, tables>>

(* The scope policy's DENY or UNKNOWN is audited before it is raised. *)
DenyScope(p) ==
    /\ pc[p] = "gate"
    /\ State(p) = "SCOPE_CHECK"
    /\ Audit(p, "DENY")
    /\ Fail(p, "BLOCKED")
    /\ UNCHANGED <<owners, leaseIds, observed, reservations, results, asked, leases, launched,
                   evidence, findings, ledgers>>

(* ApprovalRequired: an approval is requested for the run, which then ends. *)
NeedApproval(p) ==
    /\ pc[p] = "gate"
    /\ State(p) = "WAITING_FOR_APPROVAL"
    /\ Audit(p, "APPROVAL_REQUESTED")
    /\ Goto(p, "ask")
    /\ UNCHANGED <<local, reservations, results, asked, leases, launched, evidence, findings,
                   ledgers>>

PutApproval(p) ==
    /\ pc[p] = "ask"
    /\ asked' = asked \cup {p}
    /\ Goto(p, "pending")
    /\ UNCHANGED <<local, trail, reservations, results, leases, launched, evidence, findings,
                   ledgers>>

ReportPending(p) ==
    /\ pc[p] = "pending"
    /\ Audit(p, "APPROVAL_PENDING")
    /\ Fail(p, "BLOCKED")
    /\ UNCHANGED <<owners, leaseIds, observed, reservations, results, asked, leases, launched,
                   evidence, findings, ledgers>>

-----------------------------------------------------------------------------
(* Execution.  acquire_lease deletes what has expired, then inserts a row. *)
InsertLease(p) ==
    \E expired \in SUBSET leases :
        /\ Cardinality(leases \ expired) < MaxConcurrent
        /\ leases' = (leases \ expired) \cup {p}

(* Mutant: the run does not enter EXECUTING. *)
BugAcquireLease(p) ==
    /\ pc[p] = "lease"
    /\ InsertLease(p)
    /\ Goto(p, "announce")
    /\ UNCHANGED <<local, trail, reservations, results, asked, launched, evidence, findings,
                   ledgers>>
AcquireLease(p) ==
    /\ pc[p] = "lease"
    /\ InsertLease(p)
    /\ Enter(p, "EXECUTING")
    /\ Goto(p, "announce")
    /\ UNCHANGED <<owners, leaseIds, observed, trail, reservations, results, asked, launched,
                   evidence, findings, ledgers>>

(* RateLimited, by the limit on leases or by a rate. *)
RefuseLease(p) ==
    /\ pc[p] = "lease"
    /\ Fail(p, "BLOCKED")
    /\ UNCHANGED <<owners, leaseIds, observed, tables>>

(* Mutant: the run goes on when the event could not be written. *)
BugAnnounce(p) ==
    /\ pc[p] = "announce"
    /\ Audit(p, "EXECUTING") \/ UNCHANGED trail
    /\ Goto(p, "spawn")
    /\ UNCHANGED <<local, reservations, results, asked, leases, launched, evidence, findings,
                   ledgers>>
Announce(p) ==
    /\ pc[p] = "announce"
    /\ Audit(p, "EXECUTING")
    /\ Goto(p, "spawn")
    /\ UNCHANGED <<local, reservations, results, asked, leases, launched, evidence, findings,
                   ledgers>>

(* CommandRunner.run before Popen: sandbox, deadline, registration. *)
RefuseLaunch(p) ==
    /\ pc[p] = "spawn"
    /\ \E state \in {"BLOCKED", "FAILED", "TIMED_OUT"} : Fail(p, state)
    /\ UNCHANGED <<owners, leaseIds, observed, tables>>

Launch(p) ==
    /\ pc[p] = "spawn"
    /\ launched' = launched \cup {p}
    /\ Goto(p, "work")
    /\ UNCHANGED <<local, trail, reservations, results, asked, leases, evidence, findings,
                   ledgers>>

(* Mutant: a worker that failed ends the run without the finally clause. *)
BugWorkerFails(p) ==
    /\ pc[p] = "work"
    /\ Enter(p, "FAILED")
    /\ Goto(p, "returned")
    /\ UNCHANGED <<owners, leaseIds, observed, tables>>
WorkerFails(p) ==
    /\ pc[p] = "work"
    /\ \E state \in {"FAILED", "TIMED_OUT"} : Fail(p, state)
    /\ UNCHANGED <<owners, leaseIds, observed, tables>>

WorkerSucceeds(p) ==
    /\ pc[p] = "work"
    /\ Enter(p, "COLLECTING_EVIDENCE")
    /\ Goto(p, "finished")
    /\ UNCHANGED <<owners, leaseIds, observed, tables>>

ReportTool(p) ==
    /\ pc[p] = "finished"
    /\ Audit(p, "TOOL_FINISHED")
    /\ Enter(p, "VALIDATING_RESULT")
    /\ Goto(p, "check")
    /\ UNCHANGED <<owners, leaseIds, observed, reservations, results, asked, leases, launched,
                   evidence, findings, ledgers>>

RejectOutput(p) ==
    /\ pc[p] = "check"
    /\ Fail(p, "FAILED")
    /\ UNCHANGED <<owners, leaseIds, observed, tables>>

AcceptOutput(p) ==
    /\ pc[p] = "check"
    /\ Audit(p, "OUTPUT_VALIDATED")
    /\ \E n \in 0..MaxObservations : observed' = [observed EXCEPT ![p] = n]
    /\ Goto(p, "collect")
    /\ UNCHANGED <<history, owners, leaseIds, reservations, results, asked, leases, launched,
                   evidence, findings, ledgers>>

-----------------------------------------------------------------------------
(* The loop over the observations, a transaction for every row: one item   *)
(* of evidence, a second one if the observation was reproduced, then the   *)
(* finding that rests on them.                                             *)
FindingsOf(p) == {f \in findings : f.run = p}
Current(p) == Cardinality(FindingsOf(p)) + 1
EvidenceFor(p, obs) == {e \in evidence : e.run = p /\ e.obs = obs}

PutEvidence(p) ==
    LET items == Cardinality(EvidenceFor(p, Current(p))) IN
    /\ pc[p] = "collect"
    /\ Current(p) <= observed[p]
    /\ items < 2
    /\ evidence' = evidence \cup {[run |-> p, obs |-> Current(p), item |-> items + 1]}
    /\ UNCHANGED <<pc, local, trail, reservations, results, asked, leases, launched, findings,
                   ledgers>>

(* Mutant: the finding is stored before the item that confirms it. *)
BugPutFinding(p) ==
    /\ pc[p] = "collect"
    /\ Current(p) <= observed[p]
    /\ EvidenceFor(p, Current(p)) # {}
    /\ findings' = findings \cup {[run |-> p, obs |-> Current(p), items |-> 2]}
    /\ UNCHANGED <<pc, local, trail, reservations, results, asked, leases, launched, evidence,
                   ledgers>>
PutFinding(p) ==
    LET items == Cardinality(EvidenceFor(p, Current(p))) IN
    /\ pc[p] = "collect"
    /\ Current(p) <= observed[p]
    /\ items > 0
    /\ findings' = findings \cup {[run |-> p, obs |-> Current(p), items |-> items]}
    /\ UNCHANGED <<pc, local, trail, reservations, results, asked, leases, launched, evidence,
                   ledgers>>

Complete(p) ==
    /\ pc[p] = "collect"
    /\ Current(p) > observed[p]
    /\ Enter(p, "COMPLETED")
    /\ Goto(p, "cleanup")
    /\ UNCHANGED <<owners, leaseIds, observed, tables>>

-----------------------------------------------------------------------------
(* The finally clause. *)
(* Mutant: only a run that completed gives its lease back. *)
BugRelease(p) ==
    /\ pc[p] = "cleanup"
    /\ leases' = IF State(p) = "COMPLETED" THEN leases \ {p} ELSE leases
    /\ Goto(p, "finish")
    /\ UNCHANGED <<local, trail, reservations, results, asked, launched, evidence, findings,
                   ledgers>>
Release(p) ==
    /\ pc[p] = "cleanup"
    /\ leases' = leases \ {p}
    /\ Goto(p, "finish")
    /\ UNCHANGED <<local, trail, reservations, results, asked, launched, evidence, findings,
                   ledgers>>

(* lease_cleanup_failed goes round validate_transition. *)
ReleaseFails(p) ==
    /\ "cleanup" \in Faults
    /\ pc[p] = "cleanup"
    /\ p \in leaseIds
    /\ IF State(p) = "FAILED" THEN UNCHANGED history ELSE Enter(p, "FAILED")
    /\ Goto(p, "finish")
    /\ UNCHANGED <<owners, leaseIds, observed, tables>>

Finish(p) ==
    /\ pc[p] = "finish"
    /\ Audit(p, "FINISHED")
    /\ Goto(p, "ledger")
    /\ UNCHANGED <<local, reservations, results, asked, leases, launched, evidence, findings,
                   ledgers>>

(* execution_id is set once the lease is there. *)
Executed(p) == Contains(history[p], "EXECUTING")
Completed(p) == Contains(history[p], "COMPLETED")

SaveLedger(p) ==
    /\ pc[p] = "ledger"
    /\ ledgers' = IF Executed(p) THEN ledgers \cup {p} ELSE ledgers
    /\ Goto(p, "save")
    /\ UNCHANGED <<local, trail, reservations, results, asked, leases, launched, evidence,
                   findings>>

(* A failure to write the ledger is swallowed. *)
LoseLedger(p) ==
    /\ "store" \in Faults
    /\ pc[p] = "ledger"
    /\ Executed(p)
    /\ Goto(p, "save")
    /\ UNCHANGED <<local, tables>>

(* put_result: the row and the end of the reservation in one transaction.  *)
(* The ids of the findings reach the result only after the whole loop.     *)
ResultOf(p) ==
    [run |-> p, states |-> history[p],
     findings |-> IF Completed(p) THEN FindingsOf(p) ELSE {}]
(* Mutant: the reservation is not deleted. *)
BugSaveResult(p) ==
    /\ pc[p] = "save"
    /\ p \in owners
    /\ results' = results \cup {ResultOf(p)}
    /\ Goto(p, "returned")
    /\ UNCHANGED <<local, trail, reservations, asked, leases, launched, evidence, findings,
                   ledgers>>
SaveResult(p) ==
    /\ pc[p] = "save"
    /\ p \in owners
    /\ results' = results \cup {ResultOf(p)}
    /\ reservations' = reservations \ {RequestOf[p]}
    /\ Goto(p, "returned")
    /\ UNCHANGED <<local, trail, asked, leases, launched, evidence, findings, ledgers>>

Return(p) ==
    /\ pc[p] = "save"
    /\ p \notin owners
    /\ Goto(p, "returned")
    /\ UNCHANGED <<local, tables>>

-----------------------------------------------------------------------------
(* Failures.  A transaction fails as a whole; sqlite3.Error and OSError    *)
(* take the second except clause.                                          *)
StoreFails(p) ==
    /\ "store" \in Faults
    /\ pc[p] \in DbPCs
    /\ Fail(p, "FAILED")
    /\ UNCHANGED <<owners, leaseIds, observed, tables>>

(* In the finally clause it becomes audit_failure: the caller gets FAILED, *)
(* the database no result.                                                 *)
(* Mutant: the failure is swallowed and the result returned as it is. *)
BugLoseResult(p) ==
    /\ "store" \in Faults
    /\ pc[p] = "finish" \/ (pc[p] = "save" /\ p \in owners)
    /\ Goto(p, "returned")
    /\ UNCHANGED <<local, tables>>
(* Mutant: the claim is given up so that the request can be tried again. *)
BugFreeClaim(p) ==
    /\ "store" \in Faults
    /\ pc[p] = "finish" \/ (pc[p] = "save" /\ p \in owners)
    /\ reservations' = IF p \in owners THEN reservations \ {RequestOf[p]} ELSE reservations
    /\ Goto(p, "unsaved")
    /\ UNCHANGED <<local, trail, results, asked, leases, launched, evidence, findings, ledgers>>
LoseResult(p) ==
    /\ "store" \in Faults
    /\ pc[p] = "finish" \/ (pc[p] = "save" /\ p \in owners)
    /\ Goto(p, "unsaved")
    /\ UNCHANGED <<local, tables>>

(* An exception that no clause names: only the finally clause runs. *)
Interrupt(p) ==
    /\ "interrupt" \in Faults
    /\ pc[p] \in TryPCs
    /\ Goto(p, "cleanup")
    /\ UNCHANGED <<local, tables>>

(* The exception may also come after a COMMIT and before the run noted it: *)
(* the row or the event is there, its effect on the run is not.            *)
InterruptReserve(p) ==
    /\ "interrupt" \in Faults
    /\ pc[p] = "reserve"
    /\ ~Taken(RequestOf[p])
    /\ reservations' = reservations \cup {RequestOf[p]}
    /\ Goto(p, "cleanup")
    /\ UNCHANGED <<local, trail, results, asked, leases, launched, evidence, findings, ledgers>>

InterruptLease(p) ==
    /\ "interrupt" \in Faults
    /\ pc[p] = "lease"
    /\ InsertLease(p)
    /\ Goto(p, "cleanup")
    /\ UNCHANGED <<local, trail, reservations, results, asked, launched, evidence, findings,
                   ledgers>>

InterruptAudit(p) ==
    /\ "interrupt" \in Faults
    /\ \/ pc[p] = "gate" /\ Audit(p, Verdict[State(p)])
       \/ pc[p] = "gate" /\ State(p) = "SCOPE_CHECK" /\ Audit(p, "DENY")
       \/ pc[p] = "pending" /\ Audit(p, "APPROVAL_PENDING")
       \/ pc[p] = "finished" /\ Audit(p, "TOOL_FINISHED")
       \/ pc[p] = "check" /\ Audit(p, "OUTPUT_VALIDATED")
    /\ Goto(p, "cleanup")
    /\ UNCHANGED <<local, reservations, results, asked, leases, launched, evidence, findings,
                   ledgers>>

(* The process dies.  An interrupt inside the finally clause is the same   *)
(* for the database.                                                       *)
Crash(p) ==
    /\ "crash" \in Faults
    /\ pc[p] \in TryPCs \cup FinallyPCs
    /\ Goto(p, "dead")
    /\ UNCHANGED <<local, tables>>

Ended == \A p \in Runs : pc[p] \in EndPCs
Finished == Ended /\ UNCHANGED vars

Admission(p) == Begin(p) \/ RefuseIdentity(p) \/ Reserve(p) \/ RefuseDuplicate(p)
Gating(p) ==
    \/ PassGate(p) \/ Prepare(p) \/ RefuseAtGate(p) \/ DenyScope(p)
    \/ NeedApproval(p) \/ PutApproval(p) \/ ReportPending(p)
Execution(p) ==
    \/ AcquireLease(p) \/ RefuseLease(p) \/ Announce(p) \/ RefuseLaunch(p) \/ Launch(p)
    \/ WorkerFails(p) \/ WorkerSucceeds(p) \/ ReportTool(p)
    \/ RejectOutput(p) \/ AcceptOutput(p)
    \/ PutEvidence(p) \/ PutFinding(p) \/ Complete(p)
Ending(p) ==
    \/ Release(p) \/ ReleaseFails(p) \/ Finish(p) \/ SaveLedger(p) \/ LoseLedger(p)
    \/ SaveResult(p) \/ Return(p)
Step(p) == Admission(p) \/ Gating(p) \/ Execution(p) \/ Ending(p)
Failing(p) ==
    \/ StoreFails(p) \/ LoseResult(p)
    \/ Interrupt(p) \/ InterruptReserve(p) \/ InterruptLease(p) \/ InterruptAudit(p)
    \/ Crash(p)

Next == \/ \E p \in Runs : Step(p) \/ Failing(p)
        \/ Finished

Spec == Init /\ [][Next]_vars

(* A process that was not killed keeps running, and the wall-time limit    *)
(* ends a worker that does not.                                            *)
FairSpec == Spec /\ \A p \in Runs : WF_vars(Step(p))

-----------------------------------------------------------------------------
(* Properties. *)

(* However the runs of one request id interleave, crash and restart, at    *)
(* most one of them ever starts a worker.                                  *)
OneLaunchPerRequest == \A p, q \in launched : RequestOf[p] = RequestOf[q] => p = q

(* Every worker belongs to a run that went through each gate, in order.    *)
LaunchGated == \A p \in launched : IsPrefix(FSM!GatePath, history[p])

(* "NEVER execute without audit" (noble/audit.py): when a worker starts,   *)
(* the log holds the verdict of every gate and the start, in that order.   *)
LaunchTrail == <<"REQUESTED", "ALLOW", "AUTHORIZED", "CLASSIFIED", "APPROVAL_CHECKED",
                 "PRECONDITIONS_PASSED", "EXECUTING">>
LaunchAudited == \A p \in launched : IsPrefix(LaunchTrail, trail[p])

(* A request id has a reservation or one result, never both, and a stored  *)
(* result was announced by FINISHED as the last event of its run.          *)
ResultReplacesReservation ==
    \A row \in results :
        /\ RequestOf[row.run] \notin reservations
        /\ \A other \in results : RequestOf[other.run] = RequestOf[row.run] => other = row
        /\ Last(trail[row.run]) = "FINISHED"

(* Whatever fails in the middle of the loop, a finding in the database     *)
(* rests on as many items of evidence in the database as it claims, and a  *)
(* completed result lists a finding for every observation.                 *)
FindingsRest ==
    /\ \A f \in findings :
        \A i \in 1..f.items : [run |-> f.run, obs |-> f.obs, item |-> i] \in evidence
    /\ \A row \in results :
        /\ row.findings \subseteq findings
        /\ Contains(row.states, "COMPLETED") =>
            {f.obs : f \in row.findings} = 1..observed[row.run]

(* A caller that is told COMPLETED can rely on the stored result. *)
CompletedIsDurable ==
    \A p \in Runs :
        pc[p] = "returned" /\ State(p) = "COMPLETED" =>
            \E row \in results : row.run = p /\ Last(row.states) = "COMPLETED"

(* A run that returned left no lease behind, unless it says FAILED. *)
NoLeaseLeftBehind ==
    \A p \in leases : pc[p] \in {"returned", "unsaved"} => State(p) = "FAILED"

(* lease_cleanup_failed writes a FAILED that validate_transition is not    *)
(* asked for, perhaps behind a terminal state.  Every other state that a   *)
(* run enters is one that validate_transition accepts: it never raises,    *)
(* whatever fails.                                                         *)
Overruled(h) ==
    Len(h) > 1 /\ h[Len(h)] = "FAILED" /\ h[Len(h) - 1] \in FSM!TerminalStates
Accepted(p) == IF Overruled(history[p]) THEN Front(history[p]) ELSE history[p]
Lifecycle == INSTANCE StateMachine WITH history <- [p \in Runs |-> Accepted(p)]
FollowsStateMachine == Lifecycle!Spec

(* The two tables of request ids keep the promise of reserve_request. *)
StatusOf(q) ==
    IF q \in reservations THEN "claimed"
    ELSE IF \E row \in results : RequestOf[row.run] = q THEN "resolved" ELSE "fresh"
Once == INSTANCE RequestOnce WITH status <- [q \in Requests |-> StatusOf(q)]
FollowsRequestOnce == Once!Spec

(* Without crashes and failing transactions, a claim that its run knows of *)
(* is resolved, also by a run whose body was interrupted.                  *)
ClaimsAreResolved == \A p \in Runs : p \in owners ~> RequestOf[p] \notin reservations

=============================================================================
