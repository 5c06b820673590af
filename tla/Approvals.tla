----------------------------- MODULE Approvals -----------------------------
(***************************************************************************)
(* Authorization grants and high-risk approvals of noble-cascade           *)
(* (noble/authorization.py, noble/approvals.py, the grants and approvals   *)
(* tables of noble/store.py), driven by sessions that run at the same      *)
(* time: CLI processes and engine runs over one database.                  *)
(*                                                                         *)
(* Every change of a row follows the same pattern: build the new row from  *)
(* what was read, append an audit event that states the intent, then       *)
(* commit.  Nothing is locked between these steps; a compare-and-swap on   *)
(* the state of the approval is all that orders racing sessions.           *)
(*                                                                         *)
(* A subject stands for everything a grant or an approval is bound to      *)
(* beyond the principal: action, target, tool, parameters, scope, risk     *)
(* tier and purpose.  All requests of this module are HIGH risk.           *)
(***************************************************************************)
EXTENDS Integers, FiniteSets

CONSTANTS
    Users, Subjects,
    Requests, RequesterOf, SubjectOf,   \* requests, one request id each
    GrantIds, AppIds,                   \* identifiers that can be minted
    Sessions,                           \* processes at work at a time
    GrantLives, ApprovalLife,           \* lifetimes of rows
    MaxClock                            \* bound of the model on the clock

None == [state |-> "NONE"]

ASSUME ApprovalAssumption ==
    /\ RequesterOf \in [Requests -> Users]
    /\ SubjectOf \in [Requests -> Subjects]
    /\ GrantLives \subseteq Nat
    /\ {ApprovalLife, MaxClock} \subseteq Nat

VARIABLES
    clock,
    grants,     \* table grants: a row or None for each id
    approvals,  \* table approvals: a row or None for each id
    events,     \* audit events, as a set of [decision, id, by]
    minted,     \* identifiers handed out by new_id
    started,    \* requests whose id was used by an engine run
    session,    \* what each session is doing
    passes      \* runs that passed the approval gate

vars == <<clock, grants, approvals, events, minted, started, session, passes>>

-----------------------------------------------------------------------------
(* Rows. *)
Roles == {"operator", "approver"}
Grant == [state : {"GRANT"}, principal : Users, role : Roles, subject : Subjects,
          from : Nat, until : Nat]

NoApprover == "nobody"
Decisions == {"APPROVED", "REJECTED"}
States == Decisions \cup {"PENDING", "EXPIRED", "REVOKED"}
Approval == [state : States, requester : Users, subject : Subjects, expires : Nat,
             approver : Users \cup {NoApprover}, decided : Nat]

(* AuthorizationGrant.active_at: both ends belong to the interval. *)
ActiveAt(g, t) == g.from <= t /\ t <= g.until

(* What a session holds between two of its steps. *)
Idle == [phase |-> "idle"]
Judge(a, u, g, row) == [phase |-> "judge", id |-> a, user |-> u, grant |-> g, row |-> row]
Write(phase, kind, id, user, expected, row) ==
    [phase |-> phase, kind |-> kind, id |-> id, user |-> user,
     expected |-> expected, row |-> row]
Gate(q, g, t) == [phase |-> "gate", req |-> q, grant |-> g, authorized |-> t]
Check(q, g, t, a, row) ==
    [phase |-> "check", req |-> q, grant |-> g, authorized |-> t, id |-> a, row |-> row]

Kinds == {"issue", "ask", "decide", "revoke", "expire"}
Jobs ==
    {Idle}
    \cup [phase : {"judge"}, id : AppIds, user : Users, grant : GrantIds, row : Approval]
    \cup [phase : {"emit", "commit", "report"}, kind : {"issue"}, id : GrantIds, user : Users,
          expected : {"NONE"}, row : Grant]
    \cup [phase : {"emit", "commit", "report"}, kind : Kinds \ {"issue"}, id : AppIds,
          user : Users, expected : {"NONE", "PENDING", "APPROVED"}, row : Approval]
    \cup [phase : {"gate"}, req : Requests, grant : GrantIds, authorized : Nat]
    \cup [phase : {"check"}, req : Requests, grant : GrantIds, authorized : Nat,
          id : AppIds, row : Approval]

Pass == [req : Requests, app : AppIds, grant : GrantIds, authorized : Nat, at : Nat]

(* The types of the tables, the audit log and the sessions. *)
TypeOK ==
    /\ clock \in Nat
    /\ grants \in [GrantIds -> Grant \cup {None}]
    /\ approvals \in [AppIds -> Approval \cup {None}]
    /\ \A e \in events : e.by \in Users
    /\ minted \subseteq GrantIds \cup AppIds
    /\ started \subseteq Requests
    /\ \A s \in Sessions : session[s] \in Jobs
    /\ passes \subseteq Pass

Init ==
    /\ clock = 0
    /\ grants = [g \in GrantIds |-> None]
    /\ approvals = [a \in AppIds |-> None]
    /\ events = {}
    /\ minted = {}
    /\ started = {}
    /\ session = [s \in Sessions |-> Idle]
    /\ passes = {}

Become(s, job) == session' = [session EXCEPT ![s] = job]
Tables == <<grants, approvals, events, minted, started, passes>>

-----------------------------------------------------------------------------
(* Authorizer.issue builds a grant that starts now.  Its only caller, the  *)
(* CLI, is issuer and principal at once; the checks on role and capability *)
(* leave these two kinds of grant.                                         *)
Issue(s, g, u) ==
    /\ session[s] = Idle
    /\ g \in GrantIds \ minted
    /\ minted' = minted \cup {g}
    /\ \E role \in Roles, x \in Subjects, life \in GrantLives :
        Become(s, Write("emit", "issue", g, u, "NONE",
                        [state |-> "GRANT", principal |-> u, role |-> role, subject |-> x,
                         from |-> clock, until |-> clock + life]))
    /\ UNCHANGED <<clock, grants, approvals, events, started, passes>>

(* ApprovalManager.decide reads the approval ... *)
ReadToDecide(s, a, u, g) ==
    /\ session[s] = Idle
    /\ approvals[a] # None
    /\ Become(s, Judge(a, u, g, approvals[a]))
    /\ UNCHANGED <<clock, Tables>>

(* ... and then the clock and the approver's grant, and decides.  The      *)
(* grant must be the approver's own, for this subject, and active.         *)
(* Mutant: the self-approval check is missing. *)
BugMayDecide(j) ==
    /\ grants[j.grant] # None
    /\ LET g == grants[j.grant] IN
        g.principal = j.user /\ g.role = "approver" /\ g.subject = j.row.subject
        /\ ActiveAt(g, clock)
MayDecide(j) ==
    /\ j.user # j.row.requester
    /\ grants[j.grant] # None
    /\ LET g == grants[j.grant] IN
        /\ g.principal = j.user
        /\ g.role = "approver"
        /\ g.subject = j.row.subject
        /\ ActiveAt(g, clock)

Overdue(j) == clock > j.row.expires

Decide(s) ==
    LET j == session[s] IN
    /\ j.phase = "judge"
    /\ j.row.state = "PENDING" /\ ~Overdue(j) /\ MayDecide(j)
    /\ \E verdict \in Decisions :
        Become(s, Write("emit", "decide", j.id, j.user, "PENDING",
                        [j.row EXCEPT !.state = verdict, !.approver = j.user, !.decided = clock]))
    /\ UNCHANGED <<clock, Tables>>

(* An overdue approval is marked expired without an audit event. *)
FindOverdue(s) ==
    LET j == session[s] IN
    /\ j.phase = "judge"
    /\ j.row.state = "PENDING" /\ Overdue(j)
    /\ Become(s, Write("commit", "expire", j.id, j.user, "PENDING",
                       [j.row EXCEPT !.state = "EXPIRED"]))
    /\ UNCHANGED <<clock, Tables>>

(* Not pending any more, a self-approval or no fitting grant. *)
RefuseDecision(s) ==
    LET j == session[s] IN
    /\ j.phase = "judge"
    /\ j.row.state # "PENDING" \/ (~Overdue(j) /\ ~MayDecide(j))
    /\ Become(s, Idle)
    /\ UNCHANGED <<clock, Tables>>

(* ApprovalManager.revoke: only what is approved, only by its approver. *)
Revoke(s, a, u) ==
    /\ session[s] = Idle
    /\ approvals[a].state = "APPROVED"
    /\ approvals[a].approver = u
    /\ Become(s, Write("emit", "revoke", a, u, "APPROVED",
                       [approvals[a] EXCEPT !.state = "REVOKED", !.decided = clock]))
    /\ UNCHANGED <<clock, Tables>>

-----------------------------------------------------------------------------
(* The tail that all operations share. *)
Intent(j) ==
    CASE j.kind = "issue"  -> "GRANT_ISSUANCE_REQUESTED"
      [] j.kind = "ask"    -> "APPROVAL_REQUESTED"
      [] j.kind = "decide" -> "APPROVAL_DECISION_REQUESTED"
      [] j.kind = "revoke" -> "APPROVAL_REVOCATION_REQUESTED"

(* The audit event that states the intent; without it nothing is written. *)
(* Mutant: the event is not written. *)
BugEmit(s) ==
    LET j == session[s] IN
    /\ j.phase = "emit"
    /\ events' = events
    /\ Become(s, [j EXCEPT !.phase = "commit"])
    /\ UNCHANGED <<clock, grants, approvals, minted, started, passes>>
Emit(s) ==
    LET j == session[s] IN
    /\ j.phase = "emit"
    /\ events' = events \cup {[decision |-> Intent(j), id |-> j.id, by |-> j.user]}
    /\ Become(s, [j EXCEPT !.phase = "commit"])
    /\ UNCHANGED <<clock, grants, approvals, minted, started, passes>>

(* put_grant, put_approval, or the compare-and-swap of update_approval. *)
Reported(j) == j.kind \in {"issue", "ask", "decide"}
AfterCommit(j) == IF Reported(j) THEN [j EXCEPT !.phase = "report"] ELSE Idle

CommitGrant(s) ==
    LET j == session[s] IN
    /\ j.phase = "commit" /\ j.kind = "issue"
    /\ grants[j.id] = None
    /\ grants' = [grants EXCEPT ![j.id] = j.row]
    /\ Become(s, AfterCommit(j))
    /\ UNCHANGED <<clock, approvals, events, minted, started, passes>>

(* Mutant: a plain UPDATE without comparing the state. *)
BugCommitApproval(s) ==
    LET j == session[s] IN
    /\ j.phase = "commit" /\ j.kind # "issue"
    /\ approvals' = [approvals EXCEPT ![j.id] = j.row]
    /\ Become(s, AfterCommit(j))
    /\ UNCHANGED <<clock, grants, events, minted, started, passes>>
CommitApproval(s) ==
    LET j == session[s] IN
    /\ j.phase = "commit" /\ j.kind # "issue"
    /\ approvals[j.id].state = j.expected
    /\ approvals' = [approvals EXCEPT ![j.id] = j.row]
    /\ Become(s, AfterCommit(j))
    /\ UNCHANGED <<clock, grants, events, minted, started, passes>>

(* Another session was faster: the operation is refused. *)
(* Mutant: the result of the compare-and-swap is ignored. *)
BugLoseRace(s) ==
    LET j == session[s] IN
    /\ j.phase = "commit" /\ j.kind # "issue"
    /\ approvals[j.id].state # j.expected
    /\ Become(s, AfterCommit(j))
    /\ UNCHANGED <<clock, Tables>>
LoseRace(s) ==
    LET j == session[s] IN
    /\ j.phase = "commit" /\ j.kind # "issue"
    /\ approvals[j.id].state # j.expected
    /\ Become(s, Idle)
    /\ UNCHANGED <<clock, Tables>>

(* The caller's own event after the fact: GRANT_ISSUED and the decision in *)
(* the CLI, APPROVAL_PENDING in the engine.                                *)
Outcome(j) ==
    CASE j.kind = "issue"  -> "GRANT_ISSUED"
      [] j.kind = "ask"    -> "APPROVAL_PENDING"
      [] j.kind = "decide" -> j.row.state

Report(s) ==
    LET j == session[s] IN
    /\ j.phase = "report"
    /\ events' = events \cup {[decision |-> Outcome(j), id |-> j.id, by |-> j.user]}
    /\ Become(s, Idle)
    /\ UNCHANGED <<clock, grants, approvals, minted, started, passes>>

(* The process dies, or the audit sink fails and the operation is refused. *)
Abort(s) ==
    /\ session[s] # Idle
    /\ Become(s, Idle)
    /\ UNCHANGED <<clock, Tables>>

-----------------------------------------------------------------------------
(* An engine run with a token: Authorizer.check first ... *)
Authorizes(g, q) ==
    /\ g # None
    /\ g.principal = RequesterOf[q]
    /\ g.subject = SubjectOf[q]
    /\ g.role = "operator"
    /\ ActiveAt(g, clock)

Authorize(s, q, g) ==
    /\ session[s] = Idle
    /\ q \in Requests \ started
    /\ started' = started \cup {q}
    /\ Authorizes(grants[g], q)
    /\ Become(s, Gate(q, g, clock))
    /\ UNCHANGED <<clock, grants, approvals, events, minted, passes>>

RefuseAuthorization(s, q, g) ==
    /\ session[s] = Idle
    /\ q \in Requests \ started
    /\ started' = started \cup {q}
    /\ ~Authorizes(grants[g], q)
    /\ UNCHANGED <<clock, session, grants, approvals, events, minted, passes>>

(* ... then the gate of approvals.  A run without a token asks for an      *)
(* approval that is bound to its request, and ends ...                     *)
Ask(s, a) ==
    LET j == session[s] IN
    /\ j.phase = "gate"
    /\ a \in AppIds \ minted
    /\ minted' = minted \cup {a}
    /\ Become(s, Write("emit", "ask", a, RequesterOf[j.req], "NONE",
                       [state |-> "PENDING", requester |-> RequesterOf[j.req],
                        subject |-> SubjectOf[j.req], expires |-> clock + ApprovalLife,
                        approver |-> NoApprover, decided |-> 0]))
    /\ UNCHANGED <<clock, grants, approvals, events, started, passes>>

(* ... with a token, ApprovalManager.ensure reads the approval (a run      *)
(* whose token is unknown just ends, as in Abort) ...                      *)
ReadToEnsure(s, a) ==
    LET j == session[s] IN
    /\ j.phase = "gate"
    /\ approvals[a] # None
    /\ Become(s, Check(j.req, j.grant, j.authorized, a, approvals[a]))
    /\ UNCHANGED <<clock, Tables>>

(* ... and last the clock. *)
(* Mutant: the state of the approval is not looked at. *)
BugUsable(row, q) ==
    /\ clock <= row.expires
    /\ row.approver # RequesterOf[q]
    /\ row.subject = SubjectOf[q]
    /\ row.requester = RequesterOf[q]
Usable(row, q) ==
    /\ clock <= row.expires
    /\ row.state = "APPROVED"
    /\ row.approver # RequesterOf[q]
    /\ row.subject = SubjectOf[q]
    /\ row.requester = RequesterOf[q]

Ensure(s) ==
    LET j == session[s] IN
    /\ j.phase = "check"
    /\ Usable(j.row, j.req)
    /\ passes' = passes \cup {[req |-> j.req, app |-> j.id, grant |-> j.grant,
                               authorized |-> j.authorized, at |-> clock]}
    /\ Become(s, Idle)
    /\ UNCHANGED <<clock, grants, approvals, events, minted, started>>

(* Mutant: a refused run keeps its session. *)
BugRefuseRun(s) ==
    LET j == session[s] IN
    /\ j.phase = "check"
    /\ ~Usable(j.row, j.req)
    /\ Become(s, [j EXCEPT !.phase = "refused"])
    /\ UNCHANGED <<clock, Tables>>
RefuseRun(s) ==
    LET j == session[s] IN
    /\ j.phase = "check"
    /\ ~Usable(j.row, j.req)
    /\ Become(s, Idle)
    /\ UNCHANGED <<clock, Tables>>

Tick ==
    /\ clock < MaxClock
    /\ clock' = clock + 1
    /\ UNCHANGED <<session, Tables>>

Next ==
    \/ \E s \in Sessions :
        \/ \E g \in GrantIds, u \in Users : Issue(s, g, u)
        \/ \E a \in AppIds, u \in Users, g \in GrantIds : ReadToDecide(s, a, u, g)
        \/ Decide(s) \/ FindOverdue(s) \/ RefuseDecision(s)
        \/ \E a \in AppIds, u \in Users : Revoke(s, a, u)
        \/ Emit(s) \/ CommitGrant(s) \/ CommitApproval(s) \/ LoseRace(s) \/ Report(s)
        \/ Abort(s)
        \/ \E q \in Requests, g \in GrantIds :
            Authorize(s, q, g) \/ RefuseAuthorization(s, q, g)
        \/ \E a \in AppIds : Ask(s, a) \/ ReadToEnsure(s, a)
        \/ Ensure(s) \/ RefuseRun(s)
    \/ Tick

Spec == Init /\ [][Next]_vars

-----------------------------------------------------------------------------
(* Properties. *)

(* An approval that is, or was, approved names an approver other than its  *)
(* requester who held an approver grant for its subject; while it stands,  *)
(* the grant was active and the approval not overdue at the decision.      *)
Vouches(g, row) ==
    g # None /\ g.principal = row.approver /\ g.role = "approver" /\ g.subject = row.subject
ApprovedByDistinctHolder ==
    \A a \in AppIds :
        LET row == approvals[a] IN
        row.state \in {"APPROVED", "REVOKED"} =>
            /\ row.approver # row.requester
            /\ \E i \in GrantIds :
                /\ Vouches(grants[i], row)
                /\ row.state = "APPROVED" =>
                    ActiveAt(grants[i], row.decided) /\ row.decided <= row.expires

(* Whoever races: an approval leaves PENDING once, an approved one can     *)
(* only be revoked, everything else is final, and what the approval is     *)
(* bound to never changes.                                                 *)
LegalChange(old, new) ==
    \/ old = new
    \/ old = None /\ new.state = "PENDING"
    \/ /\ <<old.state, new.state>> \in
            ({"PENDING"} \X {"APPROVED", "REJECTED", "EXPIRED"}) \cup {<<"APPROVED", "REVOKED">>}
       /\ old.requester = new.requester
       /\ old.subject = new.subject
       /\ old.expires = new.expires
       /\ new.state = "REVOKED" => old.approver = new.approver
DecisionsAreFinal == [][\A a \in AppIds : LegalChange(approvals[a], approvals'[a])]_vars

(* No grant, approval, decision or revocation exists without the event     *)
(* that stated the intent of the one who made it.                          *)
Recorded(what, i) == \E e \in events : e.decision = what /\ e.id = i
RecordedBy(what, i, u) == [decision |-> what, id |-> i, by |-> u] \in events
EffectsAudited ==
    /\ \A g \in GrantIds : grants[g] # None => Recorded("GRANT_ISSUANCE_REQUESTED", g)
    /\ \A a \in AppIds :
        LET row == approvals[a] IN
        /\ row # None => RecordedBy("APPROVAL_REQUESTED", a, row.requester)
        /\ row.state \in {"APPROVED", "REJECTED", "REVOKED"} =>
            RecordedBy("APPROVAL_DECISION_REQUESTED", a, row.approver)
        /\ row.state = "REVOKED" => RecordedBy("APPROVAL_REVOCATION_REQUESTED", a, row.approver)

(* The event that reports a decision is never a lie: the loser of a race   *)
(* reports nothing.                                                        *)
ReportsAreTrue ==
    \A a \in AppIds :
        /\ Recorded("REJECTED", a) => approvals[a].state = "REJECTED"
        /\ Recorded("APPROVED", a) => approvals[a].state \in {"APPROVED", "REVOKED"}

(* A run that passed the gate had an active grant when it was authorized   *)
(* and, later, an approval of its own subject and requester that another   *)
(* user had approved and that was not overdue.                             *)
PassJustified ==
    \A p \in passes :
        LET row == approvals[p.app]
            g == grants[p.grant]
        IN  /\ row.state \in {"APPROVED", "REVOKED"}
            /\ row.requester = RequesterOf[p.req] /\ row.approver # RequesterOf[p.req]
            /\ row.subject = SubjectOf[p.req]
            /\ p.authorized <= p.at /\ p.at <= row.expires
            /\ g # None
            /\ g.principal = RequesterOf[p.req] /\ g.subject = SubjectOf[p.req]
            /\ ActiveAt(g, p.authorized)
=============================================================================
