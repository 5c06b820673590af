------------------------- MODULE Approvals_proofs --------------------------
(* Proofs about Approvals: however many sessions race, a decision is final *)
(* and was taken by a granted user other than the requester.               *)
EXTENDS Approvals, TLAPS

(* The fields of a job, by its phase. *)
LEMMA JobFields ==
    ASSUME NEW j \in Jobs
    PROVE  /\ j.phase = "judge" =>
                j.id \in AppIds /\ j.user \in Users /\ j.grant \in GrantIds /\ j.row \in Approval
           /\ j.phase \in {"emit", "commit", "report"} /\ j.kind = "issue" =>
                j.id \in GrantIds /\ j.row \in Grant /\ j.user \in Users
           /\ j.phase \in {"emit", "commit", "report"} /\ j.kind # "issue" =>
                /\ j.id \in AppIds /\ j.row \in Approval /\ j.user \in Users
                /\ j.expected \in {"NONE", "PENDING", "APPROVED"}
                /\ j.kind \in Kinds
           /\ j.phase = "gate" => j.req \in Requests /\ j.grant \in GrantIds /\ j.authorized \in Nat
           /\ j.phase = "check" => /\ j.req \in Requests /\ j.grant \in GrantIds
                                   /\ j.authorized \in Nat /\ j.id \in AppIds /\ j.row \in Approval
BY DEF Jobs, Idle, Kinds

(* A write job moves through its phases. *)
LEMMA JobAdvances ==
    ASSUME NEW j \in Jobs, j.phase \in {"emit", "commit"}, NEW p \in {"commit", "report"}
    PROVE  [j EXCEPT !.phase = p] \in Jobs
BY DEF Jobs, Idle, Kinds

(* Rows that are never mistaken for a missing one. *)
LEMMA RowsAreNotNone ==
    /\ \A row \in Approval : row # None /\ row.state # "NONE"
    /\ \A row \in Grant : row # None
    /\ None.state = "NONE"
BY DEF Approval, Grant, None, States, Decisions

(* Init establishes the types and every step keeps them. *)
THEOREM TypeCorrect == Spec => []TypeOK
<1>1. Init => TypeOK
  BY DEF Init, TypeOK, Jobs
<1>2. TypeOK /\ [Next]_vars => TypeOK'
  <2> SUFFICES ASSUME TypeOK, [Next]_vars PROVE TypeOK'
    OBVIOUS
  <2> USE ApprovalAssumption DEF TypeOK
  <2>0. ASSUME NEW s \in Sessions, NEW job \in Jobs, Become(s, job)
        PROVE  \A o \in Sessions : session'[o] \in Jobs
    BY <2>0 DEF Become
  <2>1. ASSUME NEW s \in Sessions, NEW g \in GrantIds, NEW u \in Users, Issue(s, g, u)
        PROVE  TypeOK'
    <3>1. PICK role \in Roles, x \in Subjects, life \in GrantLives :
            Become(s, Write("emit", "issue", g, u, "NONE",
                        [state |-> "GRANT", principal |-> u, role |-> role, subject |-> x,
                         from |-> clock, until |-> clock + life]))
      BY <2>1 DEF Issue
    <3>2. clock + life \in Nat
      OBVIOUS
    <3>3. [state |-> "GRANT", principal |-> u, role |-> role, subject |-> x,
           from |-> clock, until |-> clock + life] \in Grant
      BY <3>2 DEF Grant
    <3>4. \A o \in Sessions : session'[o] \in Jobs
      BY <2>0, <3>1, <3>3 DEF Jobs, Write
    <3> QED
      BY <2>1, <3>4 DEF Issue
  <2>2. ASSUME NEW s \in Sessions, NEW a \in AppIds, Ask(s, a)
        PROVE  TypeOK'
    <3> DEFINE q == session[s].req
               row == [state |-> "PENDING", requester |-> RequesterOf[q],
                       subject |-> SubjectOf[q], expires |-> clock + ApprovalLife,
                       approver |-> NoApprover, decided |-> 0]
    <3>1. q \in Requests
      BY <2>2, JobFields DEF Ask
    <3>2. row \in Approval
      BY <3>1 DEF Approval, States
    <3>3. Write("emit", "ask", a, RequesterOf[q], "NONE", row) \in Jobs
      <4> HIDE DEF row, q
      <4> QED
        BY <3>1, <3>2 DEF Jobs, Write, Kinds
    <3>4. \A o \in Sessions : session'[o] \in Jobs
      BY <2>0, <2>2, <3>3 DEF Ask
    <3> QED
      BY <2>2, <3>4 DEF Ask
  <2>3. ASSUME NEW s \in Sessions, NEW a \in AppIds, NEW u \in Users, NEW g \in GrantIds,
               ReadToDecide(s, a, u, g)
        PROVE  TypeOK'
    <3>1. Judge(a, u, g, approvals[a]) \in Jobs
      BY <2>3 DEF ReadToDecide, Judge, Jobs
    <3>2. \A o \in Sessions : session'[o] \in Jobs
      BY <2>0, <2>3, <3>1 DEF ReadToDecide
    <3> QED
      BY <2>3, <3>2 DEF ReadToDecide, Tables
  <2>4. ASSUME NEW s \in Sessions, Decide(s) PROVE TypeOK'
    <3> DEFINE j == session[s]
    <3>1. /\ j.id \in AppIds /\ j.user \in Users /\ j.row \in Approval
      BY <2>4, JobFields DEF Decide
    <3>2. PICK verdict \in Decisions :
            Become(s, Write("emit", "decide", j.id, j.user, "PENDING",
              [j.row EXCEPT !.state = verdict, !.approver = j.user, !.decided = clock]))
      BY <2>4 DEF Decide
    <3>3. [j.row EXCEPT !.state = verdict, !.approver = j.user, !.decided = clock] \in Approval
      BY <3>1 DEF Approval, States
    <3>4. \A o \in Sessions : session'[o] \in Jobs
      BY <2>0, <3>1, <3>2, <3>3 DEF Jobs, Write, Kinds
    <3> QED
      BY <2>4, <3>4 DEF Decide, Tables
  <2>5. ASSUME NEW s \in Sessions, FindOverdue(s) PROVE TypeOK'
    <3> DEFINE j == session[s]
    <3>1. j.id \in AppIds /\ j.user \in Users /\ j.row \in Approval
      BY <2>5, JobFields DEF FindOverdue
    <3>2. [j.row EXCEPT !.state = "EXPIRED"] \in Approval
      BY <3>1 DEF Approval, States
    <3>3. \A o \in Sessions : session'[o] \in Jobs
      BY <2>0, <2>5, <3>1, <3>2 DEF FindOverdue, Jobs, Write, Kinds
    <3> QED
      BY <2>5, <3>3 DEF FindOverdue, Tables
  <2>6. ASSUME NEW s \in Sessions, NEW a \in AppIds, NEW u \in Users, Revoke(s, a, u)
        PROVE  TypeOK'
    <3>1. approvals[a] \in Approval
      BY <2>6 DEF Revoke, None
    <3>2. [approvals[a] EXCEPT !.state = "REVOKED", !.decided = clock] \in Approval
      BY <3>1 DEF Approval, States
    <3>3. \A o \in Sessions : session'[o] \in Jobs
      BY <2>0, <2>6, <3>2 DEF Revoke, Jobs, Write, Kinds
    <3> QED
      BY <2>6, <3>3 DEF Revoke, Tables
  <2>7. ASSUME NEW s \in Sessions, Emit(s) PROVE TypeOK'
    <3>1. session[s].user \in Users
      BY <2>7, JobFields DEF Emit
    <3>2. [session[s] EXCEPT !.phase = "commit"] \in Jobs
      BY <2>7, JobAdvances DEF Emit
    <3>3. \A o \in Sessions : session'[o] \in Jobs
      BY <2>0, <2>7, <3>2 DEF Emit
    <3> QED
      BY <2>7, <3>1, <3>3 DEF Emit
  <2>8. ASSUME NEW s \in Sessions, CommitGrant(s) \/ CommitApproval(s) PROVE TypeOK'
    <3>1. AfterCommit(session[s]) \in Jobs
      BY <2>8, JobAdvances DEF CommitGrant, CommitApproval, AfterCommit, Jobs
    <3>2. \A o \in Sessions : session'[o] \in Jobs
      BY <2>0, <2>8, <3>1 DEF CommitGrant, CommitApproval
    <3>3. CASE CommitGrant(s)
      <4>1. session[s].row \in Grant /\ session[s].id \in GrantIds
        BY <3>3, JobFields DEF CommitGrant
      <4> QED
        BY <3>2, <3>3, <4>1 DEF CommitGrant
    <3>4. CASE CommitApproval(s)
      <4>1. session[s].row \in Approval /\ session[s].id \in AppIds
        BY <3>4, JobFields DEF CommitApproval
      <4> QED
        BY <3>2, <3>4, <4>1 DEF CommitApproval
    <3> QED
      BY <2>8, <3>3, <3>4
  <2>9. ASSUME NEW s \in Sessions, Report(s) PROVE TypeOK'
    <3>1. session[s].user \in Users
      BY <2>9, JobFields DEF Report, Jobs
    <3>2. \A o \in Sessions : session'[o] \in Jobs
      BY <2>0, <2>9 DEF Report, Jobs
    <3> QED
      BY <2>9, <3>1, <3>2 DEF Report
  <2>10. ASSUME NEW s \in Sessions,
                RefuseDecision(s) \/ LoseRace(s) \/ Abort(s) \/ RefuseRun(s)
         PROVE  TypeOK'
    <3>1. \A o \in Sessions : session'[o] \in Jobs
      BY <2>0, <2>10 DEF RefuseDecision, LoseRace, Abort, RefuseRun, Jobs
    <3> QED
      BY <2>10, <3>1 DEF RefuseDecision, LoseRace, Abort, RefuseRun, Tables
  <2>11. ASSUME NEW s \in Sessions, NEW q \in Requests, NEW g \in GrantIds,
                Authorize(s, q, g) \/ RefuseAuthorization(s, q, g)
         PROVE  TypeOK'
    <3>1. Gate(q, g, clock) \in Jobs
      BY DEF Gate, Jobs
    <3>2. \A o \in Sessions : session'[o] \in Jobs
      BY <2>0, <2>11, <3>1 DEF Authorize, RefuseAuthorization
    <3> QED
      BY <2>11, <3>2 DEF Authorize, RefuseAuthorization
  <2>12. ASSUME NEW s \in Sessions, NEW a \in AppIds, ReadToEnsure(s, a) PROVE TypeOK'
    <3>1. Check(session[s].req, session[s].grant, session[s].authorized, a, approvals[a]) \in Jobs
      BY <2>12, JobFields DEF ReadToEnsure, Check, Jobs
    <3>2. \A o \in Sessions : session'[o] \in Jobs
      BY <2>0, <2>12, <3>1 DEF ReadToEnsure
    <3> QED
      BY <2>12, <3>2 DEF ReadToEnsure, Tables
  <2>13. ASSUME NEW s \in Sessions, Ensure(s) PROVE TypeOK'
    <3>1. /\ session[s].req \in Requests /\ session[s].grant \in GrantIds
          /\ session[s].authorized \in Nat /\ session[s].id \in AppIds
      BY <2>13, JobFields DEF Ensure
    <3>2. \A o \in Sessions : session'[o] \in Jobs
      BY <2>0, <2>13 DEF Ensure, Jobs
    <3> QED
      BY <2>13, <3>1, <3>2 DEF Ensure, Pass
  <2>14. CASE Tick
    BY <2>14 DEF Tick, Tables
  <2>15. CASE UNCHANGED vars
    BY <2>15 DEF vars
  <2> QED
    BY <2>1, <2>2, <2>3, <2>4, <2>5, <2>6, <2>7, <2>8, <2>9, <2>10, <2>11, <2>12, <2>13,
       <2>14, <2>15 DEF Next
<1> QED
  BY <1>1, <1>2, PTL DEF Spec

-----------------------------------------------------------------------------
(* What a session read or is about to write stays related to the row in    *)
(* the table, whatever the other sessions commit meanwhile.                *)
SameBinding(old, new) ==
    /\ new \in Approval
    /\ old.requester = new.requester /\ old.subject = new.subject /\ old.expires = new.expires
Descends(old, new) ==
    /\ SameBinding(old, new)
    /\ old.state \in {"APPROVED", "REVOKED"} =>
        new.state \in {"APPROVED", "REVOKED"} /\ new.approver = old.approver
SoundDecision(gs, row) ==
    /\ row.approver # row.requester
    /\ \E i \in GrantIds : Vouches(gs[i], row) /\ ActiveAt(gs[i], row.decided)
    /\ row.decided <= row.expires
Granted(gs, now, q, g, t) ==
    /\ gs[g] # None
    /\ gs[g].principal = RequesterOf[q] /\ gs[g].subject = SubjectOf[q]
    /\ ActiveAt(gs[g], t)
    /\ t <= now

(* What a job may rely on, given the tables gs and as and the clock now. *)
Writing(j, kind) == j.phase \in {"emit", "commit"} /\ j.kind = kind
JobInv(gs, as, now, j) ==
    /\ j.phase \in {"judge", "check"} => Descends(j.row, as[j.id])
    /\ Writing(j, "ask") => j.row.state = "PENDING" /\ j.expected = "NONE"
    /\ Writing(j, "decide") =>
        /\ j.expected = "PENDING" /\ j.row.state \in Decisions
        /\ SameBinding(j.row, as[j.id]) /\ SoundDecision(gs, j.row)
    /\ Writing(j, "expire") =>
        /\ j.expected = "PENDING" /\ j.row.state = "EXPIRED"
        /\ SameBinding(j.row, as[j.id])
    /\ Writing(j, "revoke") =>
        /\ j.expected = "APPROVED" /\ j.row.state = "REVOKED"
        /\ Descends(j.row, as[j.id])
    /\ j.phase \in {"gate", "check"} => Granted(gs, now, j.req, j.grant, j.authorized)

JobsInv == \A s \in Sessions : JobInv(grants, approvals, clock, session[s])

(* The facts of a step that the sessions which do not act rely on. *)
Moves ==
    /\ clock <= clock'
    /\ \A a \in AppIds : LegalChange(approvals[a], approvals'[a])
    /\ \A i \in GrantIds : grants[i] # None => grants'[i] = grants[i]

(* A legal change keeps what descends from an earlier row. *)
LEMMA DescendsOn ==
    ASSUME NEW old, NEW x \in Approval, NEW y, LegalChange(x, y), y \in Approval \cup {None}
    PROVE  /\ y \in Approval
           /\ SameBinding(old, x) => SameBinding(old, y)
           /\ Descends(old, x) => Descends(old, y)
<1>1. x # None /\ None.state = "NONE"
  BY RowsAreNotNone
<1>2. CASE y = x
  BY <1>2 DEF SameBinding, Descends
<1>3. CASE /\ <<x.state, y.state>> \in ({"PENDING"} \X {"APPROVED", "REJECTED", "EXPIRED"})
                                        \cup {<<"APPROVED", "REVOKED">>}
           /\ x.requester = y.requester /\ x.subject = y.subject /\ x.expires = y.expires
           /\ y.state = "REVOKED" => x.approver = y.approver
  <2>1. y # None
    BY <1>1, <1>3
  <2> QED
    BY <1>3, <2>1 DEF SameBinding, Descends
<1> QED
  BY <1>1, <1>2, <1>3 DEF LegalChange

(* Grants only appear, so what rests on one keeps resting on it. *)
LEMMA GrantsKept ==
    ASSUME TypeOK, TypeOK', Moves
    PROVE  /\ \A row : SoundDecision(grants, row) => SoundDecision(grants', row)
           /\ \A row, i \in GrantIds : Vouches(grants[i], row) => Vouches(grants'[i], row)
           /\ \A q \in Requests, g \in GrantIds, t \in Nat :
                Granted(grants, clock, q, g, t) => Granted(grants', clock', q, g, t)
<1>1. \A i \in GrantIds : grants[i] # None => grants'[i] = grants[i]
  BY DEF Moves
<1>2. ASSUME NEW i \in GrantIds, NEW row, Vouches(grants[i], row)
      PROVE  grants'[i] = grants[i] /\ Vouches(grants'[i], row)
  BY <1>1, <1>2 DEF Vouches
<1>3. clock \in Nat /\ clock' \in Nat /\ clock <= clock'
  BY DEF TypeOK, Moves
<1>4. ASSUME NEW row, SoundDecision(grants, row) PROVE SoundDecision(grants', row)
  <2>1. PICK i \in GrantIds : Vouches(grants[i], row) /\ ActiveAt(grants[i], row.decided)
    BY <1>4 DEF SoundDecision
  <2>2. Vouches(grants'[i], row) /\ ActiveAt(grants'[i], row.decided)
    BY <1>2, <2>1
  <2> QED
    BY <1>4, <2>2 DEF SoundDecision
<1>5. ASSUME NEW q \in Requests, NEW g \in GrantIds, NEW t \in Nat,
             Granted(grants, clock, q, g, t)
      PROVE  Granted(grants', clock', q, g, t)
  BY <1>1, <1>3, <1>5 DEF Granted
<1> QED
  BY <1>2, <1>4, <1>5

(* A job that its session keeps is still sound after the step of another. *)
LEMMA JobKept ==
    ASSUME TypeOK, TypeOK', Moves, NEW j \in Jobs, JobInv(grants, approvals, clock, j)
    PROVE  JobInv(grants', approvals', clock', j)
<1>1. ASSUME NEW a \in AppIds, NEW row, SameBinding(row, approvals[a])
      PROVE  /\ SameBinding(row, approvals'[a])
             /\ Descends(row, approvals[a]) => Descends(row, approvals'[a])
  <2>1. approvals[a] \in Approval /\ approvals'[a] \in Approval \cup {None}
    BY <1>1 DEF SameBinding, TypeOK
  <2>2. LegalChange(approvals[a], approvals'[a])
    BY DEF Moves
  <2> QED
    BY <1>1, <2>1, <2>2, DescendsOn
<1>2. ASSUME NEW a \in AppIds, NEW row, Descends(row, approvals[a])
      PROVE  Descends(row, approvals'[a])
  BY <1>1, <1>2 DEF Descends
<1>3. /\ j.phase \in {"judge", "check"} => j.id \in AppIds
      /\ Writing(j, "decide") \/ Writing(j, "expire") \/ Writing(j, "revoke") => j.id \in AppIds
      /\ j.phase \in {"gate", "check"} =>
            j.req \in Requests /\ j.grant \in GrantIds /\ j.authorized \in Nat
  BY JobFields DEF Writing
<1>4. SoundDecision(grants, j.row) => SoundDecision(grants', j.row)
  BY GrantsKept
<1>5. j.phase \in {"gate", "check"} => Granted(grants', clock', j.req, j.grant, j.authorized)
  <2>1. j.phase \in {"gate", "check"} => Granted(grants, clock, j.req, j.grant, j.authorized)
    BY DEF JobInv
  <2> QED
    BY <1>3, <2>1, GrantsKept
<1> QED
  BY <1>1, <1>2, <1>3, <1>4, <1>5 DEF JobInv

(* A committed write changes its row the way its operation says. *)
LEMMA CommitIsLegal ==
    ASSUME TypeOK, JobsInv, NEW s \in Sessions, CommitApproval(s)
    PROVE  LegalChange(approvals[session[s].id], session[s].row)
<1> DEFINE j == session[s]
           old == approvals[j.id]
<1>1. /\ j \in Jobs /\ j.phase = "commit" /\ j.kind # "issue" /\ old.state = j.expected
  BY DEF CommitApproval, TypeOK
<1>2. j.id \in AppIds /\ j.row \in Approval /\ j.kind \in {"ask", "decide", "revoke", "expire"}
  BY <1>1, JobFields DEF Kinds
<1>3. JobInv(grants, approvals, clock, j)
  BY DEF JobsInv
<1>4. old \in Approval \cup {None}
  BY <1>2 DEF TypeOK
<1>5. CASE j.kind = "ask"
  <2>1. j.row.state = "PENDING" /\ old.state = "NONE"
    BY <1>1, <1>3, <1>5 DEF JobInv, Writing
  <2>2. old = None
    BY <1>4, <2>1, RowsAreNotNone
  <2> QED
    BY <2>1, <2>2 DEF LegalChange
<1>6. CASE j.kind = "decide"
  BY <1>1, <1>3, <1>6 DEF JobInv, Writing, SameBinding, Decisions, LegalChange
<1>7. CASE j.kind = "expire"
  BY <1>1, <1>3, <1>7 DEF JobInv, Writing, SameBinding, LegalChange
<1>8. CASE j.kind = "revoke"
  BY <1>1, <1>3, <1>8 DEF JobInv, Writing, Descends, SameBinding, LegalChange
<1> QED
  BY <1>2, <1>5, <1>6, <1>7, <1>8

(* Only a commit changes a table, and only the clock's own step the clock. *)
LEMMA StepMoves ==
    ASSUME TypeOK, JobsInv, [Next]_vars
    PROVE  Moves
<1>1. \A old : LegalChange(old, old)
  BY DEF LegalChange
<1>2. clock \in Nat
  BY DEF TypeOK
<1>3. ASSUME NEW s \in Sessions, CommitGrant(s) PROVE Moves
  BY <1>1, <1>2, <1>3 DEF CommitGrant, Moves, TypeOK
<1>4. ASSUME NEW s \in Sessions, CommitApproval(s) PROVE Moves
  <2>1. LegalChange(approvals[session[s].id], session[s].row)
    BY <1>4, CommitIsLegal
  <2>2. approvals' = [approvals EXCEPT ![session[s].id] = session[s].row]
        /\ grants' = grants /\ clock' = clock
    BY <1>4 DEF CommitApproval
  <2>3. ASSUME NEW a \in AppIds PROVE LegalChange(approvals[a], approvals'[a])
    <3>1. CASE a = session[s].id
      <4>1. approvals'[a] = session[s].row
        BY <2>2, <3>1 DEF TypeOK
      <4> QED
        BY <2>1, <3>1, <4>1
    <3>2. CASE a # session[s].id
      <4>1. approvals'[a] = approvals[a]
        BY <2>2, <3>2 DEF TypeOK
      <4> QED
        BY <1>1, <4>1
    <3> QED
      BY <3>1, <3>2
  <2> QED
    BY <1>2, <2>2, <2>3 DEF Moves
<1>5. CASE Tick
  BY <1>1, <1>2, <1>5 DEF Tick, Tables, Moves
<1>6. CASE UNCHANGED <<clock, grants, approvals>>
  BY <1>1, <1>2, <1>6 DEF Moves
<1> QED
  BY <1>3, <1>4, <1>5, <1>6
     DEF Next, vars, Tables, Issue, Ask, ReadToDecide, Decide, FindOverdue, RefuseDecision, Revoke,
         Emit, LoseRace, Report, Abort, Authorize, RefuseAuthorization, ReadToEnsure, Ensure,
         RefuseRun

(* Every session keeps a sound job, or goes on to one. *)
LEMMA StepJobs ==
    ASSUME TypeOK, TypeOK', JobsInv, [Next]_vars
    PROVE  JobsInv'
<1>0. Moves
  BY StepMoves
<1>1. ASSUME NEW s \in Sessions PROVE JobInv(grants', approvals', clock', session[s])
  <2>1. session[s] \in Jobs /\ JobInv(grants, approvals, clock, session[s])
    BY DEF TypeOK, JobsInv
  <2> QED
    BY <1>0, <2>1, JobKept
<1>2. ASSUME NEW s \in Sessions, NEW job, Become(s, job), JobInv(grants', approvals', clock', job)
      PROVE  JobsInv'
  <2>1. ASSUME NEW o \in Sessions PROVE JobInv(grants', approvals', clock', session'[o])
    <3>1. session'[o] = job \/ session'[o] = session[o]
      BY <1>2 DEF Become, TypeOK
    <3> QED
      BY <1>1, <1>2, <3>1
  <2> QED
    BY <2>1 DEF JobsInv
<1>3. \A gs, as, now : JobInv(gs, as, now, Idle)
  BY DEF JobInv, Writing, Idle
<1>4. ASSUME NEW s \in Sessions, NEW g \in GrantIds, NEW u \in Users, Issue(s, g, u)
      PROVE  JobsInv'
  <2>1. PICK row : Become(s, Write("emit", "issue", g, u, "NONE", row))
    BY <1>4 DEF Issue
  <2>2. JobInv(grants', approvals', clock', Write("emit", "issue", g, u, "NONE", row))
    BY DEF JobInv, Writing, Write
  <2> QED
    BY <1>2, <2>1, <2>2
<1>5. ASSUME NEW s \in Sessions, NEW a \in AppIds, Ask(s, a)
      PROVE  JobsInv'
  <2>1. PICK u, row : /\ Become(s, Write("emit", "ask", a, u, "NONE", row))
                      /\ row.state = "PENDING"
    BY <1>5 DEF Ask
  <2>2. JobInv(grants', approvals', clock', Write("emit", "ask", a, u, "NONE", row))
    BY <2>1 DEF JobInv, Writing, Write
  <2> QED
    BY <1>2, <2>1, <2>2
<1>6. ASSUME NEW s \in Sessions, NEW a \in AppIds, NEW u \in Users, NEW g \in GrantIds,
             ReadToDecide(s, a, u, g)
      PROVE  JobsInv'
  <2>1. approvals' = approvals /\ approvals[a] \in Approval
    BY <1>6 DEF ReadToDecide, Tables, TypeOK
  <2>2. Descends(approvals[a], approvals'[a])
    BY <2>1 DEF Descends, SameBinding
  <2>3. JobInv(grants', approvals', clock', Judge(a, u, g, approvals[a]))
    BY <2>2 DEF JobInv, Writing, Judge
  <2> QED
    BY <1>2, <1>6, <2>3 DEF ReadToDecide
<1>7. ASSUME NEW s \in Sessions, Decide(s) PROVE JobsInv'
  <2> DEFINE j == session[s]
  <2>1. /\ j.phase = "judge" /\ j.id \in AppIds /\ j.row \in Approval /\ j.grant \in GrantIds
        /\ Descends(j.row, approvals'[j.id])
    BY <1>1, <1>7, JobFields DEF Decide, JobInv, TypeOK
  <2>2. PICK verdict \in Decisions :
          Become(s, Write("emit", "decide", j.id, j.user, "PENDING",
            [j.row EXCEPT !.state = verdict, !.approver = j.user, !.decided = clock]))
    BY <1>7 DEF Decide
  <2> DEFINE row == [j.row EXCEPT !.state = verdict, !.approver = j.user, !.decided = clock]
  <2>3. /\ row.state = verdict /\ row.approver = j.user /\ row.decided = clock
        /\ row.requester = j.row.requester /\ row.subject = j.row.subject
        /\ row.expires = j.row.expires
    BY <2>1 DEF Approval
  <2>4. /\ MayDecide(j) /\ ~Overdue(j) /\ grants' = grants
    BY <1>7 DEF Decide, Tables
  <2>5. clock <= j.row.expires
    <3>1. clock \in Nat /\ j.row.expires \in Nat
      BY <2>1 DEF TypeOK, Approval
    <3> QED
      BY <2>4, <3>1 DEF Overdue
  <2>6. SoundDecision(grants', row)
    <3>1. Vouches(grants[j.grant], row) /\ ActiveAt(grants[j.grant], row.decided)
      BY <2>3, <2>4 DEF MayDecide, Vouches
    <3>2. row.approver # row.requester
      BY <2>3, <2>4 DEF MayDecide
    <3> HIDE DEF row, j
    <3> QED
      BY <2>1, <2>3, <2>4, <2>5, <3>1, <3>2 DEF SoundDecision
  <2>7. SameBinding(row, approvals'[j.id])
    BY <2>1, <2>3 DEF Descends, SameBinding
  <2>8. JobInv(grants', approvals', clock', Write("emit", "decide", j.id, j.user, "PENDING", row))
    <3> HIDE DEF row, j
    <3> QED
      BY <2>3, <2>6, <2>7 DEF JobInv, Writing, Write
  <2> QED
    BY <1>2, <2>2, <2>8
<1>8. ASSUME NEW s \in Sessions, FindOverdue(s) PROVE JobsInv'
  <2> DEFINE j == session[s]
             row == [j.row EXCEPT !.state = "EXPIRED"]
  <2>1. j.row \in Approval /\ Descends(j.row, approvals'[j.id])
    BY <1>1, <1>8, JobFields DEF FindOverdue, JobInv, TypeOK
  <2>2. /\ row.state = "EXPIRED" /\ row.requester = j.row.requester
        /\ row.subject = j.row.subject /\ row.expires = j.row.expires
    BY <2>1 DEF Approval
  <2>3. SameBinding(row, approvals'[j.id])
    BY <2>1, <2>2 DEF Descends, SameBinding
  <2>4. Become(s, Write("commit", "expire", j.id, j.user, "PENDING", row))
    BY <1>8 DEF FindOverdue
  <2>5. JobInv(grants', approvals', clock', Write("commit", "expire", j.id, j.user, "PENDING", row))
    <3> HIDE DEF row, j
    <3> QED
      BY <2>2, <2>3 DEF JobInv, Writing, Write
  <2> QED
    BY <1>2, <2>4, <2>5
<1>9. ASSUME NEW s \in Sessions, NEW a \in AppIds, NEW u \in Users, Revoke(s, a, u)
      PROVE  JobsInv'
  <2> DEFINE row == [approvals[a] EXCEPT !.state = "REVOKED", !.decided = clock]
  <2>1. approvals[a] \in Approval /\ approvals' = approvals /\ approvals[a].state = "APPROVED"
    BY <1>9, RowsAreNotNone DEF Revoke, Tables, TypeOK
  <2>2. /\ row.state = "REVOKED" /\ row.requester = approvals[a].requester
        /\ row.subject = approvals[a].subject /\ row.expires = approvals[a].expires
        /\ row.approver = approvals[a].approver
    BY <2>1 DEF Approval
  <2>3. Descends(row, approvals'[a])
    BY <2>1, <2>2 DEF Descends, SameBinding
  <2>4. Become(s, Write("emit", "revoke", a, u, "APPROVED", row))
    BY <1>9 DEF Revoke
  <2>5. JobInv(grants', approvals', clock', Write("emit", "revoke", a, u, "APPROVED", row))
    <3> HIDE DEF row
    <3> QED
      BY <2>2, <2>3 DEF JobInv, Writing, Write
  <2> QED
    BY <1>2, <2>4, <2>5
<1>10. ASSUME NEW s \in Sessions, Emit(s) PROVE JobsInv'
  <2> DEFINE j == session[s]
             next == [j EXCEPT !.phase = "commit"]
  <2>1. j \in Jobs /\ j.phase = "emit" /\ JobInv(grants', approvals', clock', j)
    BY <1>1, <1>10 DEF Emit, TypeOK
  <2>2. /\ next.phase = "commit" /\ next.kind = j.kind /\ next.id = j.id
        /\ next.row = j.row /\ next.expected = j.expected
    BY <2>1 DEF Jobs, Idle
  <2>3. JobInv(grants', approvals', clock', next)
    <3> HIDE DEF next, j
    <3> QED
      BY <2>1, <2>2 DEF JobInv, Writing
  <2> QED
    BY <1>2, <1>10, <2>3 DEF Emit
<1>11. ASSUME NEW s \in Sessions, CommitGrant(s) \/ CommitApproval(s) PROVE JobsInv'
  <2> DEFINE j == session[s]
  <2>1. j \in Jobs /\ j.phase = "commit" /\ Become(s, AfterCommit(j))
    BY <1>11 DEF CommitGrant, CommitApproval, TypeOK
  <2>2. Reported(j) => [j EXCEPT !.phase = "report"].phase = "report"
    BY <2>1 DEF Jobs, Idle
  <2>3. JobInv(grants', approvals', clock', AfterCommit(j))
    <3> HIDE DEF j
    <3>1. CASE Reported(j)
      BY <2>2, <3>1 DEF AfterCommit, JobInv, Writing
    <3>2. CASE ~Reported(j)
      BY <1>3, <3>2 DEF AfterCommit
    <3> QED
      BY <3>1, <3>2
  <2> QED
    BY <1>2, <2>1, <2>3
<1>12. ASSUME NEW s \in Sessions,
              \/ RefuseDecision(s) \/ LoseRace(s) \/ Report(s) \/ Abort(s)
              \/ Ensure(s) \/ RefuseRun(s)
       PROVE  JobsInv'
  <2>1. Become(s, Idle)
    BY <1>12 DEF RefuseDecision, LoseRace, Report, Abort, Ensure, RefuseRun
  <2> QED
    BY <1>2, <1>3, <2>1
<1>13. ASSUME NEW s \in Sessions, NEW q \in Requests, NEW g \in GrantIds, Authorize(s, q, g)
       PROVE  JobsInv'
  <2>1. Granted(grants', clock', q, g, clock)
    BY <1>13 DEF Authorize, Authorizes, Granted, TypeOK
  <2>2. JobInv(grants', approvals', clock', Gate(q, g, clock))
    BY <2>1 DEF JobInv, Writing, Gate
  <2> QED
    BY <1>2, <1>13, <2>2 DEF Authorize
<1>14. ASSUME NEW s \in Sessions, NEW a \in AppIds, ReadToEnsure(s, a) PROVE JobsInv'
  <2> DEFINE j == session[s]
  <2>1. approvals' = approvals /\ approvals[a] \in Approval /\ j.phase = "gate"
    BY <1>14 DEF ReadToEnsure, Tables, TypeOK
  <2>2. Descends(approvals[a], approvals'[a])
    BY <2>1 DEF Descends, SameBinding
  <2>3. Granted(grants', clock', j.req, j.grant, j.authorized)
    BY <1>1, <2>1 DEF JobInv
  <2>4. JobInv(grants', approvals', clock', Check(j.req, j.grant, j.authorized, a, approvals[a]))
    <3> HIDE DEF j
    <3> QED
      BY <2>2, <2>3 DEF JobInv, Writing, Check
  <2> QED
    BY <1>2, <1>14, <2>4 DEF ReadToEnsure
<1>15. CASE UNCHANGED session
  BY <1>1, <1>15 DEF JobsInv
<1> QED
  BY <1>4, <1>5, <1>6, <1>7, <1>8, <1>9, <1>10, <1>11, <1>12, <1>13, <1>14, <1>15
     DEF Next, vars, Tick, RefuseAuthorization

-----------------------------------------------------------------------------
(* The row that a commit writes keeps approvals distinct and vouched for. *)
LEMMA StepApproved ==
    ASSUME TypeOK, TypeOK', JobsInv, ApprovedByDistinctHolder, [Next]_vars
    PROVE  ApprovedByDistinctHolder'
<1>0. Moves
  BY StepMoves
<1> DEFINE Good(gs, row) ==
        row.state \in {"APPROVED", "REVOKED"} =>
            /\ row.approver # row.requester
            /\ \E i \in GrantIds :
                /\ Vouches(gs[i], row)
                /\ row.state = "APPROVED" =>
                    ActiveAt(gs[i], row.decided) /\ row.decided <= row.expires
<1>1. ASSUME NEW row, Good(grants, row) PROVE Good(grants', row)
  <2>1. \A i \in GrantIds : Vouches(grants[i], row) => grants'[i] = grants[i]
    BY <1>0 DEF Moves, Vouches
  <2> QED
    BY <1>1, <2>1
<1>2. \A a \in AppIds : Good(grants, approvals[a])
  BY DEF ApprovedByDistinctHolder
<1>3. ASSUME NEW a \in AppIds PROVE Good(grants', approvals'[a])
  <2>1. CASE approvals'[a] = approvals[a]
    <3> HIDE DEF Good
    <3> QED
      BY <1>1, <1>2, <2>1
  <2>2. CASE approvals'[a] # approvals[a]
    <3>1. PICK s \in Sessions : CommitApproval(s)
      BY <2>2 DEF Next, vars, Tables, Tick, Issue, Ask, ReadToDecide, Decide, FindOverdue,
          RefuseDecision, Revoke, Emit, CommitGrant, LoseRace, Report, Abort, Authorize,
          RefuseAuthorization, ReadToEnsure, Ensure, RefuseRun
    <3> DEFINE j == session[s]
    <3>2. /\ j \in Jobs /\ j.phase = "commit" /\ j.kind # "issue"
          /\ approvals[j.id].state = j.expected /\ grants' = grants
          /\ approvals' = [approvals EXCEPT ![j.id] = j.row]
      BY <3>1 DEF CommitApproval, TypeOK
    <3>3. a = j.id /\ approvals'[a] = j.row
      BY <2>2, <3>2 DEF TypeOK
    <3>4. j.kind \in {"ask", "decide", "revoke", "expire"} /\ JobInv(grants, approvals, clock, j)
      BY <3>2, JobFields DEF Kinds, JobsInv
    <3>5. CASE j.kind = "ask"
      BY <3>2, <3>3, <3>4, <3>5 DEF JobInv, Writing
    <3>6. CASE j.kind = "decide"
      <4>1. SoundDecision(grants, j.row)
        BY <3>2, <3>4, <3>6 DEF JobInv, Writing
      <4>2. Good(grants, j.row)
        BY <4>1 DEF SoundDecision
      <4> HIDE DEF Good
      <4> QED
        BY <3>2, <3>3, <4>2
    <3>7. CASE j.kind = "expire"
      BY <3>2, <3>3, <3>4, <3>7 DEF JobInv, Writing
    <3>8. CASE j.kind = "revoke"
      <4>1. /\ approvals[a].state = "APPROVED" /\ j.row.state = "REVOKED"
            /\ Descends(j.row, approvals[a])
        BY <3>2, <3>3, <3>4, <3>8 DEF JobInv, Writing
      <4>2. /\ approvals[a].approver = j.row.approver /\ approvals[a].subject = j.row.subject
            /\ approvals[a].requester = j.row.requester
        BY <4>1 DEF Descends, SameBinding
      <4>3. /\ approvals[a].approver # approvals[a].requester
            /\ \E i \in GrantIds : Vouches(grants[i], approvals[a])
        BY <1>2, <4>1
      <4>4. \E i \in GrantIds : Vouches(grants[i], j.row)
        BY <4>2, <4>3 DEF Vouches
      <4> QED
        BY <3>2, <3>3, <4>1, <4>2, <4>3, <4>4
    <3> QED
      BY <3>4, <3>5, <3>6, <3>7, <3>8
  <2> QED
    BY <2>1, <2>2
<1> QED
  BY <1>3 DEF ApprovedByDistinctHolder

(* A pass is justified when it happens, and stays so. *)
LEMMA StepPasses ==
    ASSUME TypeOK, TypeOK', JobsInv, PassJustified, [Next]_vars
    PROVE  PassJustified'
<1>0. Moves
  BY StepMoves
<1> DEFINE RowFits(row, p) ==
        /\ row.state \in {"APPROVED", "REVOKED"}
        /\ row.requester = RequesterOf[p.req] /\ row.approver # RequesterOf[p.req]
        /\ row.subject = SubjectOf[p.req]
        /\ p.at <= row.expires
    GrantFits(g, p) ==
        /\ g # None
        /\ g.principal = RequesterOf[p.req] /\ g.subject = SubjectOf[p.req]
        /\ ActiveAt(g, p.authorized)
<1>1. ASSUME NEW p \in passes PROVE p \in Pass /\ p.authorized <= p.at
                                    /\ RowFits(approvals[p.app], p) /\ GrantFits(grants[p.grant], p)
  BY <1>1 DEF PassJustified, TypeOK
<1>2. ASSUME NEW p \in Pass, RowFits(approvals[p.app], p), GrantFits(grants[p.grant], p)
      PROVE  RowFits(approvals'[p.app], p) /\ GrantFits(grants'[p.grant], p)
  <2>1. p.app \in AppIds /\ p.grant \in GrantIds
    BY DEF Pass
  <2>2. grants'[p.grant] = grants[p.grant]
    BY <1>0, <1>2, <2>1 DEF Moves
  <2>3. LegalChange(approvals[p.app], approvals'[p.app])
    BY <1>0, <2>1 DEF Moves
  <2>4. approvals[p.app] # None
    BY <1>2, RowsAreNotNone
  <2> QED
    BY <1>2, <2>2, <2>3, <2>4 DEF LegalChange
<1>3. ASSUME NEW p \in passes'
      PROVE  p.authorized <= p.at
             /\ RowFits(approvals'[p.app], p) /\ GrantFits(grants'[p.grant], p)
  <2>1. CASE p \in passes
    <3> HIDE DEF RowFits, GrantFits
    <3> QED
      BY <1>1, <1>2, <2>1
  <2>2. CASE p \notin passes
    <3>1. PICK s \in Sessions : Ensure(s)
      BY <1>3, <2>2 DEF Next, vars, Tables, Tick, Issue, Ask, ReadToDecide, Decide, FindOverdue,
          RefuseDecision, Revoke, Emit, CommitGrant, CommitApproval, LoseRace, Report, Abort,
          Authorize, RefuseAuthorization, ReadToEnsure, RefuseRun
    <3> DEFINE j == session[s]
    <3>2. /\ j \in Jobs /\ j.phase = "check" /\ Usable(j.row, j.req)
          /\ p = [req |-> j.req, app |-> j.id, grant |-> j.grant,
                  authorized |-> j.authorized, at |-> clock]
          /\ approvals' = approvals /\ grants' = grants
      BY <1>3, <2>2, <3>1 DEF Ensure, TypeOK
    <3>3. Descends(j.row, approvals[j.id]) /\ Granted(grants, clock, j.req, j.grant, j.authorized)
      BY <3>2 DEF JobsInv, JobInv
    <3>4. RowFits(approvals[p.app], p)
      BY <3>2, <3>3 DEF Usable, Descends, SameBinding
    <3>5. GrantFits(grants[p.grant], p) /\ p.authorized <= p.at
      BY <3>2, <3>3 DEF Granted
    <3> HIDE DEF RowFits, GrantFits
    <3> QED
      BY <3>2, <3>4, <3>5
  <2> QED
    BY <2>1, <2>2
<1> QED
  BY <1>3 DEF PassJustified

(* The inductive invariant behind the next three theorems. *)
ApprovalInv == TypeOK /\ JobsInv /\ ApprovedByDistinctHolder /\ PassJustified

LEMMA Inductive == Spec => []ApprovalInv
<1>1. Init => JobsInv /\ ApprovedByDistinctHolder /\ PassJustified
  <2> SUFFICES ASSUME Init PROVE JobsInv /\ ApprovedByDistinctHolder /\ PassJustified
    OBVIOUS
  <2>1. JobsInv
    BY DEF Init, JobsInv, JobInv, Writing, Idle
  <2>2. ApprovedByDistinctHolder
    BY DEF Init, ApprovedByDistinctHolder, None
  <2>3. PassJustified
    BY DEF Init, PassJustified
  <2> QED
    BY <2>1, <2>2, <2>3
<1>2. TypeOK /\ TypeOK' /\ JobsInv /\ ApprovedByDistinctHolder /\ PassJustified /\ [Next]_vars
        => JobsInv' /\ ApprovedByDistinctHolder' /\ PassJustified'
  BY StepJobs, StepApproved, StepPasses
<1> QED
  BY <1>1, <1>2, TypeCorrect, PTL DEF Spec, ApprovalInv

(* Four eyes: whatever is approved was approved by another user than its   *)
(* requester, who held an active approver grant for its subject.           *)
THEOREM DistinctApprover == Spec => []ApprovedByDistinctHolder
BY Inductive, PTL DEF ApprovalInv

(* No run passes the approval gate on an unapproved or an overdue approval *)
(* or without a grant that was active at its authorization.                *)
THEOREM GatePassesJustified == Spec => []PassJustified
BY Inductive, PTL DEF ApprovalInv

(* However decide, revoke and expiry race, no decision is ever undone. *)
THEOREM DecisionsFinal == Spec => DecisionsAreFinal
<1>1. ApprovalInv /\ [Next]_vars => [\A a \in AppIds : LegalChange(approvals[a], approvals'[a])]_vars
  BY StepMoves DEF ApprovalInv, Moves
<1> QED
  BY <1>1, Inductive, PTL DEF Spec, DecisionsAreFinal

-----------------------------------------------------------------------------
(* The audit log.  What a session may rely on in it, given the events es   *)
(* and the approvals as: its intent is there before it writes, and what it *)
(* is about to report has happened and cannot be undone.                   *)
Told(verdict, row) ==
    /\ verdict \in Decisions
    /\ verdict = "REJECTED" => row.state = "REJECTED"
    /\ verdict = "APPROVED" => row.state \in {"APPROVED", "REVOKED"}
EventOf(j) == [decision |-> Intent(j), id |-> j.id, by |-> j.user]
JobAudited(es, as, j) ==
    /\ j.phase = "emit" => j.kind # "expire"
    /\ j.phase = "commit" /\ j.kind # "expire" => EventOf(j) \in es
    /\ Writing(j, "ask") => j.row.requester = j.user
    /\ Writing(j, "decide") \/ Writing(j, "revoke") => j.row.approver = j.user
    /\ j.phase = "report" => Reported(j)
    /\ j.phase = "report" /\ j.kind = "decide" => Told(j.row.state, as[j.id])
JobsAudited == \A s \in Sessions : JobAudited(events, approvals, session[s])

(* A decision that was told stays told. *)
LEMMA ToldStays ==
    ASSUME NEW verdict, NEW old, NEW row, Told(verdict, old), LegalChange(old, row)
    PROVE  Told(verdict, row)
<1>1. old.state \in {"REJECTED", "APPROVED", "REVOKED"}
  BY DEF Told, Decisions
<1>2. old # None
  BY <1>1 DEF None
<1> QED
  BY <1>1, <1>2 DEF Told, LegalChange

(* The log only grows. *)
LEMMA StepEvents ==
    ASSUME [Next]_vars
    PROVE  events \subseteq events'
BY DEF Next, vars, Tables, Tick, Issue, Ask, ReadToDecide, Decide, FindOverdue, RefuseDecision,
       Revoke, Emit, CommitGrant, CommitApproval, LoseRace, Report, Abort, Authorize,
       RefuseAuthorization, ReadToEnsure, Ensure, RefuseRun

LEMMA StepJobsAudited ==
    ASSUME TypeOK, JobsInv, JobsAudited, [Next]_vars
    PROVE  JobsAudited'
<1>0. Moves /\ events \subseteq events'
  BY StepMoves, StepEvents
<1>1. ASSUME NEW s \in Sessions PROVE JobAudited(events', approvals', session[s])
  <2> DEFINE j == session[s]
  <2>1. j \in Jobs /\ JobAudited(events, approvals, j)
    BY DEF TypeOK, JobsAudited
  <2>2. j.phase = "report" /\ j.kind = "decide" => Told(j.row.state, approvals'[j.id])
    <3>1. j.phase = "report" /\ j.kind = "decide" =>
            LegalChange(approvals[j.id], approvals'[j.id])
      BY <1>0, <2>1, JobFields DEF Moves
    <3> QED
      BY <2>1, <3>1, ToldStays DEF JobAudited
  <2> HIDE DEF j
  <2>3. JobAudited(events', approvals', j)
    BY <1>0, <2>1, <2>2 DEF JobAudited
  <2> QED
    BY <2>3 DEF j
<1>2. ASSUME NEW s \in Sessions, NEW job, Become(s, job), JobAudited(events', approvals', job)
      PROVE  JobsAudited'
  <2>1. ASSUME NEW o \in Sessions PROVE JobAudited(events', approvals', session'[o])
    <3>1. session'[o] = job \/ session'[o] = session[o]
      BY <1>2 DEF Become, TypeOK
    <3> QED
      BY <1>1, <1>2, <3>1
  <2> QED
    BY <2>1 DEF JobsAudited
<1>3. ASSUME NEW s \in Sessions, NEW job, Become(s, job),
             job.phase \in {"idle", "judge", "gate", "check"}
      PROVE  JobsAudited'
  <2>1. JobAudited(events', approvals', job)
    BY <1>3 DEF JobAudited, Writing
  <2> QED
    BY <1>2, <1>3, <2>1
<1>4. ASSUME NEW s \in Sessions, NEW phase, NEW kind, NEW i, NEW u, NEW expected, NEW row,
             Become(s, Write(phase, kind, i, u, expected, row)),
             (phase = "emit" /\ kind # "expire") \/ (phase = "commit" /\ kind = "expire"),
             kind = "ask" => row.requester = u,
             kind \in {"decide", "revoke"} => row.approver = u
      PROVE  JobsAudited'
  <2>1. JobAudited(events', approvals', Write(phase, kind, i, u, expected, row))
    BY <1>4 DEF JobAudited, Writing, Write
  <2> QED
    BY <1>2, <1>4, <2>1
<1>5. ASSUME NEW s \in Sessions, NEW g \in GrantIds, NEW u \in Users, Issue(s, g, u)
      PROVE  JobsAudited'
  BY <1>4, <1>5 DEF Issue
<1>6. ASSUME NEW s \in Sessions, NEW a \in AppIds, Ask(s, a) PROVE JobsAudited'
  BY <1>4, <1>6 DEF Ask
<1>7. ASSUME NEW s \in Sessions, Decide(s) PROVE JobsAudited'
  <2> DEFINE j == session[s]
  <2>1. j.row \in Approval
    BY <1>7, JobFields DEF Decide, TypeOK
  <2>2. PICK verdict \in Decisions :
          Become(s, Write("emit", "decide", j.id, j.user, "PENDING",
            [j.row EXCEPT !.state = verdict, !.approver = j.user, !.decided = clock]))
    BY <1>7 DEF Decide
  <2> DEFINE row == [j.row EXCEPT !.state = verdict, !.approver = j.user, !.decided = clock]
  <2>3. row.approver = j.user
    BY <2>1 DEF Approval
  <2>4. Become(s, Write("emit", "decide", j.id, j.user, "PENDING", row))
    BY <2>2
  <2> HIDE DEF row, j
  <2> QED
    BY <1>4, <2>3, <2>4
<1>8. ASSUME NEW s \in Sessions, FindOverdue(s) PROVE JobsAudited'
  BY <1>4, <1>8 DEF FindOverdue
<1>9. ASSUME NEW s \in Sessions, NEW a \in AppIds, NEW u \in Users, Revoke(s, a, u)
      PROVE  JobsAudited'
  <2>1. approvals[a] \in Approval /\ approvals[a].approver = u
    BY <1>9, RowsAreNotNone DEF Revoke, TypeOK
  <2>2. [approvals[a] EXCEPT !.state = "REVOKED", !.decided = clock].approver = u
    BY <2>1 DEF Approval
  <2> QED
    BY <1>4, <1>9, <2>2 DEF Revoke
<1>10. ASSUME NEW s \in Sessions, Emit(s) PROVE JobsAudited'
  <2> DEFINE j == session[s]
             next == [j EXCEPT !.phase = "commit"]
  <2>1. j \in Jobs /\ j.phase = "emit" /\ JobAudited(events', approvals', j)
        /\ EventOf(j) \in events' /\ Become(s, next)
    BY <1>1, <1>10 DEF Emit, TypeOK, EventOf
  <2>2. /\ next.phase = "commit" /\ next.kind = j.kind /\ next.id = j.id
        /\ next.row = j.row /\ next.user = j.user
    BY <2>1 DEF Jobs, Idle
  <2>3. EventOf(next) = EventOf(j)
    <3> HIDE DEF next, j
    <3> QED
      BY <2>2 DEF EventOf, Intent
  <2>4. JobAudited(events', approvals', next)
    <3> HIDE DEF next, j
    <3> QED
      BY <2>1, <2>2, <2>3 DEF JobAudited, Writing
  <2> QED
    BY <1>2, <2>1, <2>4
<1>11. ASSUME NEW s \in Sessions, CommitGrant(s) \/ CommitApproval(s) PROVE JobsAudited'
  <2> DEFINE j == session[s]
             next == [j EXCEPT !.phase = "report"]
  <2>1. /\ j \in Jobs /\ j.phase = "commit" /\ Become(s, AfterCommit(j))
        /\ j.kind # "issue" => approvals' = [approvals EXCEPT ![j.id] = j.row]
        /\ CommitApproval(s) => j.kind # "issue"
        /\ JobInv(grants, approvals, clock, j)
    BY <1>11 DEF CommitGrant, CommitApproval, TypeOK, JobsInv
  <2>2. CASE ~Reported(j)
    <3>1. AfterCommit(j).phase = "idle"
      BY <2>2 DEF AfterCommit, Idle
    <3> QED
      BY <1>3, <2>1, <3>1
  <2>3. CASE Reported(j)
    <3>1. next.phase = "report" /\ next.kind = j.kind /\ next.id = j.id /\ next.row = j.row
      BY <2>1 DEF Jobs, Idle
    <3>2. j.kind = "decide" => Told(j.row.state, approvals'[j.id])
      <4>1. j.kind = "decide" => j.id \in AppIds /\ j.row.state \in Decisions
        BY <2>1, JobFields DEF JobInv, Writing
      <4>2. j.kind = "decide" => approvals'[j.id] = j.row
        BY <2>1, <4>1 DEF TypeOK
      <4> QED
        BY <4>1, <4>2 DEF Told
    <3>3. JobAudited(events', approvals', next)
      <4> HIDE DEF next, j
      <4> QED
        BY <2>3, <3>1, <3>2 DEF JobAudited, Writing, Reported
    <3> QED
      BY <1>2, <2>1, <2>3, <3>3 DEF AfterCommit
  <2> QED
    BY <2>2, <2>3
<1>12. ASSUME NEW s \in Sessions,
              \/ RefuseDecision(s) \/ LoseRace(s) \/ Report(s) \/ Abort(s)
              \/ Ensure(s) \/ RefuseRun(s)
       PROVE  JobsAudited'
  <2>1. Become(s, Idle) /\ Idle.phase = "idle"
    BY <1>12 DEF RefuseDecision, LoseRace, Report, Abort, Ensure, RefuseRun, Idle
  <2> QED
    BY <1>3, <2>1
<1>13. ASSUME NEW s \in Sessions, NEW q \in Requests, NEW g \in GrantIds, Authorize(s, q, g)
       PROVE  JobsAudited'
  BY <1>3, <1>13 DEF Authorize, Gate
<1>14. ASSUME NEW s \in Sessions, NEW a \in AppIds, NEW u \in Users, NEW g \in GrantIds,
              ReadToDecide(s, a, u, g)
       PROVE  JobsAudited'
  BY <1>3, <1>14 DEF ReadToDecide, Judge
<1>15. ASSUME NEW s \in Sessions, NEW a \in AppIds, ReadToEnsure(s, a) PROVE JobsAudited'
  BY <1>3, <1>15 DEF ReadToEnsure, Check
<1>16. CASE UNCHANGED session
  BY <1>1, <1>16 DEF JobsAudited
<1> QED
  BY <1>5, <1>6, <1>7, <1>8, <1>9, <1>10, <1>11, <1>12, <1>13, <1>14, <1>15, <1>16
     DEF Next, vars, Tick, RefuseAuthorization

(* The tables follow the log: the row that is committed was announced. *)
RowAudited(es, a, row) ==
    /\ row # None =>
        [decision |-> "APPROVAL_REQUESTED", id |-> a, by |-> row.requester] \in es
    /\ row.state \in {"APPROVED", "REJECTED", "REVOKED"} =>
        [decision |-> "APPROVAL_DECISION_REQUESTED", id |-> a, by |-> row.approver] \in es
    /\ row.state = "REVOKED" =>
        [decision |-> "APPROVAL_REVOCATION_REQUESTED", id |-> a, by |-> row.approver] \in es

LEMMA StepEffects ==
    ASSUME TypeOK, JobsInv, JobsAudited, EffectsAudited, [Next]_vars
    PROVE  EffectsAudited'
<1>0. events \subseteq events'
  BY StepEvents
<1>1. ASSUME NEW g \in GrantIds, grants'[g] # None
      PROVE  \E e \in events' : e.decision = "GRANT_ISSUANCE_REQUESTED" /\ e.id = g
  <2>1. CASE grants'[g] = grants[g]
    BY <1>0, <1>1, <2>1 DEF EffectsAudited, Recorded
  <2>2. CASE grants'[g] # grants[g]
    <3>1. PICK s \in Sessions : CommitGrant(s)
      BY <2>2 DEF Next, vars, Tables, Tick, Issue, Ask, ReadToDecide, Decide, FindOverdue,
          RefuseDecision, Revoke, Emit, CommitApproval, LoseRace, Report, Abort, Authorize,
          RefuseAuthorization, ReadToEnsure, Ensure, RefuseRun
    <3> DEFINE j == session[s]
    <3>2. /\ j.phase = "commit" /\ j.kind = "issue" /\ JobAudited(events, approvals, j)
          /\ grants' = [grants EXCEPT ![j.id] = j.row]
      BY <3>1 DEF CommitGrant, JobsAudited
    <3>3. g = j.id
      BY <2>2, <3>2 DEF TypeOK
    <3>4. EventOf(j) \in events /\ EventOf(j).decision = "GRANT_ISSUANCE_REQUESTED"
          /\ EventOf(j).id = j.id
      BY <3>2 DEF JobAudited, EventOf, Intent
    <3> QED
      BY <1>0, <3>3, <3>4
  <2> QED
    BY <2>1, <2>2
<1>2. ASSUME NEW a \in AppIds PROVE RowAudited(events', a, approvals'[a])
  <2>0. RowAudited(events, a, approvals[a])
    BY DEF EffectsAudited, RecordedBy, RowAudited
  <2>1. CASE approvals'[a] = approvals[a]
    BY <1>0, <2>0, <2>1 DEF RowAudited
  <2>2. CASE approvals'[a] # approvals[a]
    <3>1. PICK s \in Sessions : CommitApproval(s)
      BY <2>2 DEF Next, vars, Tables, Tick, Issue, Ask, ReadToDecide, Decide, FindOverdue,
          RefuseDecision, Revoke, Emit, CommitGrant, LoseRace, Report, Abort, Authorize,
          RefuseAuthorization, ReadToEnsure, Ensure, RefuseRun
    <3> DEFINE j == session[s]
    <3>2. /\ j \in Jobs /\ j.phase = "commit" /\ j.kind # "issue"
          /\ approvals[j.id].state = j.expected
          /\ approvals' = [approvals EXCEPT ![j.id] = j.row]
          /\ JobAudited(events, approvals, j) /\ JobInv(grants, approvals, clock, j)
      BY <3>1 DEF CommitApproval, TypeOK, JobsInv, JobsAudited
    <3>3. a = j.id /\ approvals'[a] = j.row
      BY <2>2, <3>2 DEF TypeOK
    <3>4. /\ j.kind \in {"ask", "decide", "revoke", "expire"}
          /\ j.kind # "expire" => EventOf(j) \in events
      BY <3>2, JobFields DEF Kinds, JobAudited
    <3>5. CASE j.kind = "ask"
      <4>1. j.row.state = "PENDING" /\ j.row.requester = j.user
            /\ EventOf(j) = [decision |-> "APPROVAL_REQUESTED", id |-> a, by |-> j.user]
        BY <3>2, <3>3, <3>5 DEF JobInv, JobAudited, Writing, EventOf, Intent
      <4> QED
        BY <1>0, <3>3, <3>4, <3>5, <4>1 DEF RowAudited
    <3>6. CASE j.kind = "decide"
      <4>1. /\ approvals[a].state = "PENDING" /\ j.row.state \in Decisions
            /\ j.row.requester = approvals[a].requester /\ j.row.approver = j.user
            /\ EventOf(j) = [decision |-> "APPROVAL_DECISION_REQUESTED", id |-> a, by |-> j.user]
        BY <3>2, <3>3, <3>6 DEF JobInv, JobAudited, Writing, EventOf, Intent, SameBinding
      <4>2. approvals[a] # None
        BY <4>1 DEF None
      <4> QED
        BY <1>0, <2>0, <3>3, <3>4, <3>6, <4>1, <4>2 DEF RowAudited, Decisions
    <3>7. CASE j.kind = "expire"
      <4>1. /\ approvals[a].state = "PENDING" /\ j.row.state = "EXPIRED"
            /\ j.row.requester = approvals[a].requester
        BY <3>2, <3>3, <3>7 DEF JobInv, Writing, SameBinding
      <4>2. approvals[a] # None
        BY <4>1 DEF None
      <4> QED
        BY <1>0, <2>0, <3>3, <4>1, <4>2 DEF RowAudited
    <3>8. CASE j.kind = "revoke"
      <4>1. /\ approvals[a].state = "APPROVED" /\ j.row.state = "REVOKED"
            /\ Descends(j.row, approvals[a]) /\ j.row.approver = j.user
            /\ EventOf(j) = [decision |-> "APPROVAL_REVOCATION_REQUESTED", id |-> a, by |-> j.user]
        BY <3>2, <3>3, <3>8 DEF JobInv, JobAudited, Writing, EventOf, Intent
      <4>2. /\ approvals[a] # None /\ approvals[a].approver = j.row.approver
            /\ approvals[a].requester = j.row.requester
        BY <4>1 DEF None, Descends, SameBinding
      <4> QED
        BY <1>0, <2>0, <3>3, <3>4, <3>8, <4>1, <4>2 DEF RowAudited
    <3> QED
      BY <3>4, <3>5, <3>6, <3>7, <3>8
  <2> QED
    BY <2>1, <2>2
<1> QED
  BY <1>1, <1>2 DEF EffectsAudited, Recorded, RecordedBy, RowAudited

LEMMA StepReports ==
    ASSUME TypeOK, JobsInv, JobsAudited, ReportsAreTrue, [Next]_vars
    PROVE  ReportsAreTrue'
<1>0. Moves
  BY StepMoves
<1>1. ASSUME NEW a \in AppIds, NEW e \in events', e.id = a, e.decision \in Decisions
      PROVE  Told(e.decision, approvals'[a])
  <2>0. LegalChange(approvals[a], approvals'[a])
    BY <1>0 DEF Moves
  <2>1. CASE e \in events
    <3>1. Told(e.decision, approvals[a])
      BY <1>1, <2>1 DEF ReportsAreTrue, Recorded, Told
    <3> QED
      BY <2>0, <3>1, ToldStays
  <2>2. CASE e \notin events
    <3>1. PICK s \in Sessions : Emit(s) \/ Report(s)
      BY <2>2 DEF Next, vars, Tables, Tick, Issue, Ask, ReadToDecide, Decide, FindOverdue,
          RefuseDecision, Revoke, CommitGrant, CommitApproval, LoseRace, Abort, Authorize,
          RefuseAuthorization, ReadToEnsure, Ensure, RefuseRun
    <3> DEFINE j == session[s]
    <3>2. j \in Jobs /\ JobAudited(events, approvals, j)
      BY DEF TypeOK, JobsAudited
    <3>3. CASE Emit(s)
      <4>1. j.phase = "emit" /\ j.kind # "expire" /\ e.decision = Intent(j)
        BY <2>2, <3>2, <3>3 DEF Emit, JobAudited
      <4>2. j.kind \in {"issue", "ask", "decide", "revoke"}
        BY <3>2, <4>1 DEF Jobs, Idle, Kinds
      <4> QED
        BY <1>1, <4>1, <4>2 DEF Intent, Decisions
    <3>4. CASE Report(s)
      <4>1. /\ j.phase = "report" /\ j.kind \in {"issue", "ask", "decide"}
            /\ e.decision = Outcome(j) /\ e.id = j.id
        BY <2>2, <3>2, <3>4 DEF Report, JobAudited, Reported
      <4>2. j.kind = "decide"
        BY <1>1, <4>1 DEF Outcome, Decisions
      <4>3. e.decision = j.row.state /\ Told(j.row.state, approvals[j.id])
        BY <3>2, <4>1, <4>2 DEF Outcome, JobAudited
      <4> QED
        BY <1>1, <2>0, <4>1, <4>3, ToldStays
    <3> QED
      BY <3>1, <3>3, <3>4
  <2> QED
    BY <2>1, <2>2
<1> QED
  BY <1>1 DEF ReportsAreTrue, Recorded, Told, Decisions

LEMMA Audited == Spec => [](JobsAudited /\ EffectsAudited /\ ReportsAreTrue)
<1>1. Init => JobsAudited /\ EffectsAudited /\ ReportsAreTrue
  <2> SUFFICES ASSUME Init PROVE JobsAudited /\ EffectsAudited /\ ReportsAreTrue
    OBVIOUS
  <2>1. JobsAudited
    BY DEF Init, JobsAudited, JobAudited, Writing, Idle
  <2>2. EffectsAudited
    BY DEF Init, EffectsAudited, None
  <2>3. ReportsAreTrue
    BY DEF Init, ReportsAreTrue, Recorded
  <2> QED
    BY <2>1, <2>2, <2>3
<1>2. ApprovalInv /\ JobsAudited /\ EffectsAudited /\ ReportsAreTrue /\ [Next]_vars
        => (JobsAudited /\ EffectsAudited /\ ReportsAreTrue)'
  BY StepJobsAudited, StepEffects, StepReports DEF ApprovalInv
<1> QED
  BY <1>1, <1>2, Inductive, PTL DEF Spec

(* Whoever crashes between the event and the write: a row in a table never *)
(* says more than the log announced, and the log names the one who decided *)
(* or revoked.                                                             *)
THEOREM NoEffectUnaudited == Spec => []EffectsAudited
BY Audited, PTL

(* A verdict in the log is the verdict in the table: of two deciders that  *)
(* raced, only the one that won the compare-and-swap reported.             *)
THEOREM NoFalseReport == Spec => []ReportsAreTrue
BY Audited, PTL
=============================================================================
