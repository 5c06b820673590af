--------------------------- MODULE Engine_proofs ----------------------------
(* Proofs about Engine, for any number of runs and requests. *)
EXTENDS Engine, FiniteSetTheorems, SequenceTheorems, TLAPS

(* What the helpers of the actions do to the types. *)
LEMMA StatesKnown ==
    /\ {"CREATED", "VALIDATING", "SCOPE_CHECK", "AUTHORIZATION_CHECK", "RISK_ASSESSMENT",
        "WAITING_FOR_APPROVAL", "APPROVED", "EXECUTING", "COLLECTING_EVIDENCE",
        "VALIDATING_RESULT", "COMPLETED", "BLOCKED", "FAILED", "TIMED_OUT"} \subseteq FSM!States
    /\ \A s \in DOMAIN Onward : Onward[s] \in FSM!States
    /\ DOMAIN Onward = {"VALIDATING", "SCOPE_CHECK", "AUTHORIZATION_CHECK", "RISK_ASSESSMENT",
                        "WAITING_FOR_APPROVAL"}
    /\ DOMAIN Verdict = DOMAIN Onward \cup {"APPROVED"}
<1>1. \A i \in 1..7 : FSM!GatePath[i] \in FSM!States
  BY DEF FSM!States
<1>2. {"CREATED", "VALIDATING", "SCOPE_CHECK", "AUTHORIZATION_CHECK", "RISK_ASSESSMENT",
       "WAITING_FOR_APPROVAL", "APPROVED"} \subseteq FSM!States
  BY <1>1 DEF FSM!GatePath
<1>3. {"EXECUTING", "COLLECTING_EVIDENCE", "VALIDATING_RESULT", "COMPLETED", "BLOCKED",
       "FAILED", "TIMED_OUT"} \subseteq FSM!States
  BY DEF FSM!States, FSM!WorkStates, FSM!TerminalStates
<1>4. DOMAIN Onward = {"VALIDATING", "SCOPE_CHECK", "AUTHORIZATION_CHECK", "RISK_ASSESSMENT",
                        "WAITING_FOR_APPROVAL"}
  BY DEF Onward
<1>5. \A s \in DOMAIN Onward : Onward[s] \in FSM!States
  BY <1>2 DEF Onward
<1>6. DOMAIN Verdict = DOMAIN Onward \cup {"APPROVED"}
  BY DEF Onward, Verdict
<1> QED
  BY <1>2, <1>3, <1>4, <1>5, <1>6

LEMMA EnterType ==
    ASSUME FSM!TypeOK, NEW p \in Runs, NEW state \in FSM!States, Enter(p, state)
    PROVE  /\ FSM!TypeOK'
           /\ history'[p] = Append(history[p], state) /\ State(p)' = state
           /\ \A o \in Runs \ {p} : history'[o] = history[o]
<1>1. history[p] \in Seq(FSM!States) /\ history[p] # <<>>
  BY DEF FSM!TypeOK
<1>2. Append(history[p], state) \in Seq(FSM!States) /\ Append(history[p], state) # <<>>
      /\ Last(Append(history[p], state)) = state
  BY <1>1 DEF Last
<1>3. history'[p] = Append(history[p], state) /\ \A o \in Runs \ {p} : history'[o] = history[o]
  BY DEF Enter, FSM!TypeOK
<1>4. FSM!TypeOK'
  BY <1>2 DEF Enter, FSM!TypeOK
<1> QED
  BY <1>2, <1>3, <1>4 DEF State

LEMMA AuditType ==
    ASSUME trail \in [Runs -> Seq(Events)], NEW p \in Runs, NEW event \in Events, Audit(p, event)
    PROVE  /\ trail' \in [Runs -> Seq(Events)]
           /\ trail'[p] = Append(trail[p], event)
           /\ \A o \in Runs \ {p} : trail'[o] = trail[o]
<1>1. Append(trail[p], event) \in Seq(Events)
  OBVIOUS
<1> QED
  BY <1>1 DEF Audit

LEMMA EventsKnown ==
    /\ \A s \in DOMAIN Verdict : Verdict[s] \in Events
    /\ {"DENY", "APPROVAL_REQUESTED", "APPROVAL_PENDING", "EXECUTING", "TOOL_FINISHED",
        "OUTPUT_VALIDATED", "FINISHED"} \subseteq Events
BY DEF Events

(* An event that a gate, or an interrupted step, appends is a known one. *)
LEMMA VerdictKnown ==
    ASSUME NEW state \in DOMAIN Onward \cup {"APPROVED"}
    PROVE  Verdict[state] \in Events
BY StatesKnown, EventsKnown

LEMMA GotoType ==
    ASSUME pc \in [Runs -> PCs], NEW p \in Runs, NEW label \in PCs, Goto(p, label)
    PROVE  /\ pc' \in [Runs -> PCs]
           /\ pc'[p] = label
           /\ \A o \in Runs \ {p} : pc'[o] = pc[o]
BY DEF Goto

-----------------------------------------------------------------------------
(* Where a run stands: the state that goes with each place in the program. *)
Gates == DOMAIN Onward \cup {"APPROVED"}
At(label, state) ==
    /\ label = "idle" => state = "CREATED"
    /\ label = "reserve" => state = "VALIDATING"
    /\ label = "gate" => state \in Gates
    /\ label \in {"ask", "pending"} => state = "WAITING_FOR_APPROVAL"
    /\ label = "lease" => state = "APPROVED"
    /\ label \in {"announce", "spawn", "work"} => state = "EXECUTING"
    /\ label = "finished" => state = "COLLECTING_EVIDENCE"
    /\ label \in {"check", "collect"} => state = "VALIDATING_RESULT"
InPlace == \A p \in Runs : At(pc[p], State(p))
Bounded == IsFiniteSet(evidence) /\ IsFiniteSet(findings)

Control == pc \in [Runs -> PCs] /\ FSM!TypeOK /\ InPlace

(* A run that goes to a place which suits its state leaves all in place. *)
LEMMA Moved ==
    ASSUME Control, NEW p \in Runs, NEW label \in PCs, Goto(p, label),
           NEW state \in FSM!States,
           Enter(p, state) \/ (history' = history /\ state = State(p)),
           At(label, state)
    PROVE  Control'
<1>1. /\ pc' \in [Runs -> PCs] /\ pc'[p] = label
      /\ \A o \in Runs \ {p} : pc'[o] = pc[o]
  BY GotoType DEF Control
<1>2. /\ FSM!TypeOK' /\ State(p)' = state
      /\ \A o \in Runs \ {p} : history'[o] = history[o]
  <2>1. CASE Enter(p, state)
    BY <2>1, EnterType DEF Control
  <2>2. CASE history' = history /\ state = State(p)
    BY <2>2 DEF Control, FSM!TypeOK, State
  <2> QED
    BY <2>1, <2>2
<1>3. \A o \in Runs \ {p} : At(pc'[o], Last(history'[o]))
  BY <1>1, <1>2 DEF Control, InPlace, State
<1>4. At(pc'[p], Last(history'[p]))
  BY <1>1, <1>2 DEF State
<1> QED
  BY <1>1, <1>2, <1>3, <1>4 DEF Control, InPlace, State

LEMMA Failed ==
    ASSUME Control, NEW p \in Runs, NEW state \in {"BLOCKED", "FAILED", "TIMED_OUT"},
           Fail(p, state)
    PROVE  Control'
<1>1. "cleanup" \in PCs /\ state \in FSM!States /\ At("cleanup", state)
  BY StatesKnown DEF PCs, FinallyPCs, At
<1> QED
  BY <1>1, Moved DEF Fail

LEMMA Stays ==
    ASSUME Control, NEW p \in Runs, NEW label \in FinallyPCs \cup EndPCs, Goto(p, label),
           history' = history
    PROVE  Control'
<1>1. label \in PCs /\ State(p) \in FSM!States /\ At(label, State(p))
  BY DEF PCs, FinallyPCs, EndPCs, At, Control, FSM!TypeOK, State, Last
<1> QED
  BY <1>1, Moved

(* At most two items of evidence rest behind an observation. *)
LEMMA EvidenceBound ==
    ASSUME TypeOK, Bounded, NEW p \in Runs, NEW obs \in Nat
    PROVE  Cardinality(EvidenceFor(p, obs)) \in 0..2
<1> DEFINE row(i) == [run |-> p, obs |-> obs, item |-> i]
           rows == {row(1), row(2)}
<1>1. EvidenceFor(p, obs) \subseteq rows
  <2> SUFFICES ASSUME NEW e \in EvidenceFor(p, obs) PROVE e \in rows
    OBVIOUS
  <2>1. e \in EvidenceRows /\ e.run = p /\ e.obs = obs
    BY DEF EvidenceFor, TypeOK
  <2>2. e.item \in {1, 2} /\ e = [run |-> p, obs |-> obs, item |-> e.item]
    BY <2>1 DEF EvidenceRows
  <2> QED
    BY <2>2
<1>2. IsFiniteSet(rows) /\ Cardinality(rows) <= 2
  <2> HIDE DEF row
  <2>1. CASE row(1) = row(2)
    <3>1. rows = {row(1)}
      BY <2>1
    <3>2. IsFiniteSet({row(1)}) /\ Cardinality({row(1)}) = 1
      BY FS_Singleton
    <3> HIDE DEF rows
    <3> QED
      BY <3>1, <3>2
  <2>2. CASE row(1) # row(2)
    <3>1. IsFiniteSet({row(1)}) /\ Cardinality({row(1)}) = 1
      BY FS_Singleton
    <3>2. rows = {row(1)} \cup {row(2)} /\ row(2) \notin {row(1)}
      BY <2>2
    <3>3. IsFiniteSet(rows) /\ Cardinality(rows) = Cardinality({row(1)}) + 1
      BY <3>1, <3>2, FS_AddElement
    <3> QED
      BY <3>1, <3>3
  <2> QED
    BY <2>1, <2>2
<1> HIDE DEF rows
<1>3. IsFiniteSet(EvidenceFor(p, obs)) /\ Cardinality(EvidenceFor(p, obs)) <= Cardinality(rows)
  BY <1>1, <1>2, FS_Subset
<1>4. Cardinality(EvidenceFor(p, obs)) \in Nat /\ Cardinality(rows) \in Nat
  BY <1>2, <1>3, FS_CardinalityType
<1> QED
  BY <1>2, <1>3, <1>4

LEMMA CurrentType ==
    ASSUME TypeOK, Bounded, NEW p \in Runs
    PROVE  Current(p) \in Nat \ {0}
<1>1. IsFiniteSet(FindingsOf(p))
  <2>1. FindingsOf(p) \subseteq findings
    BY DEF FindingsOf
  <2> QED
    BY <2>1, FS_Subset DEF Bounded
<1>2. Cardinality(FindingsOf(p)) \in Nat
  BY <1>1, FS_CardinalityType
<1> QED
  BY <1>2 DEF Current

-----------------------------------------------------------------------------
(* Every step leaves every run in a place that suits its state. *)
LEMMA StepControl ==
    ASSUME Control, [Next]_vars
    PROVE  Control'
<1> USE StatesKnown
<1>1. ASSUME NEW p \in Runs, Admission(p) PROVE Control'
  <2>1. CASE Begin(p)
    <3>1. At("reserve", "VALIDATING") /\ "reserve" \in PCs
      BY DEF At, PCs, TryPCs, DbPCs
    <3> QED
      BY <2>1, <3>1, Moved DEF Begin
  <2>2. CASE RefuseIdentity(p) \/ RefuseDuplicate(p)
    BY <2>2, Failed DEF RefuseIdentity, RefuseDuplicate
  <2>3. CASE Reserve(p)
    <3>1. State(p) = "VALIDATING"
      BY <2>3 DEF Reserve, Control, InPlace, At
    <3>2. At("gate", State(p)) /\ "gate" \in PCs
      BY <3>1 DEF At, PCs, TryPCs, DbPCs, Gates
    <3> QED
      BY <2>3, <3>1, <3>2, Moved DEF Reserve
  <2> QED
    BY <1>1, <2>1, <2>2, <2>3 DEF Admission
<1>2. ASSUME NEW p \in Runs, Gating(p) PROVE Control'
  <2>1. CASE PassGate(p)
    <3>1. State(p) \in DOMAIN Onward
      BY <2>1 DEF PassGate, Control, InPlace, At, Gates
    <3>2. At("gate", Onward[State(p)]) /\ "gate" \in PCs
      BY <3>1 DEF At, PCs, TryPCs, DbPCs, Gates, Onward
    <3>3. Goto(p, "gate")
      BY <2>1 DEF PassGate, Goto, Control
    <3> QED
      BY <2>1, <3>1, <3>2, <3>3, Moved DEF PassGate
  <2>2. CASE Prepare(p)
    <3>1. At("lease", State(p)) /\ "lease" \in PCs /\ State(p) = "APPROVED"
      BY <2>2 DEF Prepare, At, PCs, TryPCs, DbPCs
    <3> QED
      BY <2>2, <3>1, Moved DEF Prepare
  <2>3. CASE RefuseAtGate(p) \/ DenyScope(p) \/ ReportPending(p)
    BY <2>3, Failed DEF RefuseAtGate, DenyScope, ReportPending
  <2>4. CASE NeedApproval(p) \/ PutApproval(p)
    <3>1. State(p) = "WAITING_FOR_APPROVAL" /\ history' = history
      BY <2>4 DEF NeedApproval, PutApproval, Control, InPlace, At, local
    <3>2. PICK label \in {"ask", "pending"} : Goto(p, label)
      BY <2>4 DEF NeedApproval, PutApproval
    <3>3. At(label, State(p)) /\ label \in PCs
      BY <3>1 DEF At, PCs, TryPCs, DbPCs
    <3> QED
      BY <3>1, <3>2, <3>3, Moved
  <2> QED
    BY <1>2, <2>1, <2>2, <2>3, <2>4 DEF Gating
<1>3. ASSUME NEW p \in Runs, Execution(p) PROVE Control'
  <2>1. CASE AcquireLease(p)
    <3>1. At("announce", "EXECUTING") /\ "announce" \in PCs
      BY DEF At, PCs, TryPCs, DbPCs
    <3> QED
      BY <2>1, <3>1, Moved DEF AcquireLease
  <2>2. CASE RefuseLease(p) \/ RefuseLaunch(p) \/ WorkerFails(p) \/ RejectOutput(p)
    BY <2>2, Failed DEF RefuseLease, RefuseLaunch, WorkerFails, RejectOutput
  <2>3. CASE Announce(p) \/ Launch(p)
    <3>1. State(p) = "EXECUTING" /\ history' = history
      BY <2>3 DEF Announce, Launch, Control, InPlace, At, local
    <3>2. PICK label \in {"spawn", "work"} : Goto(p, label)
      BY <2>3 DEF Announce, Launch
    <3>3. At(label, State(p)) /\ label \in PCs
      BY <3>1 DEF At, PCs, TryPCs
    <3> QED
      BY <3>1, <3>2, <3>3, Moved
  <2>4. CASE WorkerSucceeds(p)
    <3>1. At("finished", "COLLECTING_EVIDENCE") /\ "finished" \in PCs
      BY DEF At, PCs, TryPCs, DbPCs
    <3> QED
      BY <2>4, <3>1, Moved DEF WorkerSucceeds
  <2>5. CASE ReportTool(p)
    <3>1. At("check", "VALIDATING_RESULT") /\ "check" \in PCs
      BY DEF At, PCs, TryPCs, DbPCs
    <3> QED
      BY <2>5, <3>1, Moved DEF ReportTool
  <2>6. CASE AcceptOutput(p)
    <3>1. State(p) = "VALIDATING_RESULT"
      BY <2>6 DEF AcceptOutput, Control, InPlace, At
    <3>2. At("collect", State(p)) /\ "collect" \in PCs
      BY <3>1 DEF At, PCs, TryPCs, DbPCs
    <3> QED
      BY <2>6, <3>1, <3>2, Moved DEF AcceptOutput
  <2>7. CASE PutEvidence(p) \/ PutFinding(p)
    <3>1. pc' = pc /\ history' = history
      BY <2>7 DEF PutEvidence, PutFinding, local
    <3> QED
      BY <3>1 DEF Control, InPlace, State, FSM!TypeOK
  <2>8. CASE Complete(p)
    <3>1. At("cleanup", "COMPLETED") /\ "cleanup" \in PCs
      BY DEF At, PCs, FinallyPCs
    <3> QED
      BY <2>8, <3>1, Moved DEF Complete
  <2> QED
    BY <1>3, <2>1, <2>2, <2>3, <2>4, <2>5, <2>6, <2>7, <2>8 DEF Execution
<1>4. ASSUME NEW p \in Runs, Ending(p) \/ Failing(p) PROVE Control'
  <2>1. CASE ReleaseFails(p)
    <3>1. At("finish", State(p)) /\ At("finish", "FAILED") /\ "finish" \in PCs
          /\ State(p) \in FSM!States
      BY DEF At, PCs, FinallyPCs, Control, FSM!TypeOK, State, Last
    <3> QED
      BY <2>1, <3>1, Moved DEF ReleaseFails
  <2>2. CASE StoreFails(p)
    BY <2>2, Failed DEF StoreFails
  <2>3. CASE ~ReleaseFails(p) /\ ~StoreFails(p)
    <3>1. /\ history' = history
          /\ \E label \in FinallyPCs \cup EndPCs : Goto(p, label)
      BY <1>4, <2>3
         DEF Ending, Failing, Release, Finish, SaveLedger, LoseLedger, SaveResult, Return,
             LoseResult, Interrupt,
         InterruptReserve, InterruptLease, InterruptAudit, Crash, local, FinallyPCs, EndPCs
    <3> QED
      BY <3>1, Stays
  <2> QED
    BY <2>1, <2>2, <2>3
<1>5. CASE UNCHANGED vars
  BY <1>5 DEF vars, local, Control, InPlace, State, FSM!TypeOK
<1> QED
  BY <1>1, <1>2, <1>3, <1>4, <1>5 DEF Next, Step, Finished

LEMMA InterruptEvent ==
    ASSUME Control, NEW p \in Runs, InterruptAudit(p)
    PROVE  \E event \in Events : Audit(p, event)
<1>1. CASE pc[p] = "gate" /\ Audit(p, Verdict[State(p)])
  <2>1. State(p) \in DOMAIN Onward \cup {"APPROVED"}
    BY <1>1 DEF Control, InPlace, At, Gates
  <2> QED
    BY <1>1, <2>1, VerdictKnown
<1> QED
  BY <1>1, EventsKnown DEF InterruptAudit

-----------------------------------------------------------------------------
(* Only two actions add rows with counters in them. *)
LEMMA StepRows ==
    ASSUME TypeOK, Bounded, [Next]_vars
    PROVE  evidence' \subseteq EvidenceRows /\ findings' \subseteq FindingRows /\ Bounded'
<1>1. ASSUME NEW p \in Runs, PutEvidence(p)
      PROVE  evidence' \subseteq EvidenceRows /\ Bounded' /\ findings' = findings
  <2> DEFINE items == Cardinality(EvidenceFor(p, Current(p)))
             row == [run |-> p, obs |-> Current(p), item |-> items + 1]
  <2>1. Current(p) \in Nat \ {0}
    BY CurrentType
  <2>2. items \in 0..2
    BY <2>1, EvidenceBound
  <2>3. items < 2 /\ Current(p) <= observed[p] /\ evidence' = evidence \cup {row}
        /\ findings' = findings
    BY <1>1 DEF PutEvidence, local
  <2>4. observed[p] \in 0..MaxObservations /\ MaxObservations \in Nat
    BY EngineAssumption DEF TypeOK
  <2>5. Current(p) \in 1..MaxObservations /\ items + 1 \in 1..2
    <3> HIDE DEF items
    <3> QED
      BY <2>1, <2>2, <2>3, <2>4
  <2>6. row \in EvidenceRows
    <3> HIDE DEF items
    <3> QED
      BY <2>5 DEF EvidenceRows
  <2>7. IsFiniteSet(evidence \cup {row})
    BY FS_AddElement DEF Bounded
  <2> HIDE DEF row
  <2> QED
    BY <2>3, <2>6, <2>7 DEF TypeOK, Bounded
<1>2. ASSUME NEW p \in Runs, PutFinding(p)
      PROVE  findings' \subseteq FindingRows /\ Bounded' /\ evidence' = evidence
  <2> DEFINE items == Cardinality(EvidenceFor(p, Current(p)))
             row == [run |-> p, obs |-> Current(p), items |-> items]
  <2>1. Current(p) \in Nat \ {0}
    BY CurrentType
  <2>2. items \in 0..2
    BY <2>1, EvidenceBound
  <2>3. items > 0 /\ Current(p) <= observed[p] /\ findings' = findings \cup {row}
        /\ evidence' = evidence
    BY <1>2 DEF PutFinding, local
  <2>4. observed[p] \in 0..MaxObservations /\ MaxObservations \in Nat
    BY EngineAssumption DEF TypeOK
  <2>5. Current(p) \in 1..MaxObservations /\ items \in 1..2
    <3> HIDE DEF items
    <3> QED
      BY <2>1, <2>2, <2>3, <2>4
  <2>6. row \in FindingRows
    <3> HIDE DEF items
    <3> QED
      BY <2>5 DEF FindingRows
  <2>7. IsFiniteSet(findings \cup {row})
    BY FS_AddElement DEF Bounded
  <2> HIDE DEF row
  <2> QED
    BY <2>3, <2>6, <2>7 DEF TypeOK, Bounded
<1>3. CASE evidence' = evidence /\ findings' = findings
  BY <1>3 DEF TypeOK, Bounded
<1> QED
  BY <1>1, <1>2, <1>3
     DEF TypeOK, Next, Step, Failing, Finished, Admission, Gating, Execution, Ending, vars, local,
         tables, Begin, RefuseIdentity, Reserve, RefuseDuplicate, PassGate, Prepare, RefuseAtGate,
         DenyScope, NeedApproval, PutApproval, ReportPending, AcquireLease, RefuseLease, Announce,
         RefuseLaunch, Launch, WorkerFails, WorkerSucceeds, ReportTool, RejectOutput,
         AcceptOutput, Complete, Release, ReleaseFails, Finish, SaveLedger, LoseLedger,
         SaveResult, Return, StoreFails, LoseResult, Interrupt,
         InterruptReserve, InterruptLease, InterruptAudit, Crash

(* The audit events and the other tables. *)
LEMMA StepTrail ==
    ASSUME TypeOK, Control, [Next]_vars
    PROVE  trail' \in [Runs -> Seq(Events)]
<1>1. ASSUME NEW p \in Runs, NEW event \in Events, Audit(p, event)
      PROVE  trail' \in [Runs -> Seq(Events)]
  BY <1>1, AuditType DEF TypeOK
<1>2. ASSUME NEW p \in Runs, PassGate(p) PROVE trail' \in [Runs -> Seq(Events)]
  <2>1. State(p) \in DOMAIN Onward
    BY <1>2 DEF PassGate, Control, InPlace, At, Gates
  <2>2. Verdict[State(p)] \in Events
    BY <2>1, StatesKnown, EventsKnown
  <2> QED
    BY <1>1, <1>2, <2>2 DEF PassGate
<1>3. ASSUME NEW p \in Runs, Prepare(p) PROVE trail' \in [Runs -> Seq(Events)]
  <2>1. Verdict["APPROVED"] \in Events
    BY StatesKnown, EventsKnown
  <2> QED
    BY <1>1, <1>3, <2>1 DEF Prepare
<1>4. ASSUME NEW p \in Runs,
             \/ DenyScope(p) \/ NeedApproval(p) \/ ReportPending(p) \/ Announce(p)
             \/ ReportTool(p) \/ AcceptOutput(p) \/ Finish(p)
      PROVE  trail' \in [Runs -> Seq(Events)]
  BY <1>1, <1>4, EventsKnown
     DEF DenyScope, NeedApproval, ReportPending, Announce, ReportTool, AcceptOutput, Finish
<1>5. CASE trail' = trail
  BY <1>5 DEF TypeOK
<1>6. ASSUME NEW p \in Runs, InterruptAudit(p) PROVE trail' \in [Runs -> Seq(Events)]
  BY <1>1, <1>6, InterruptEvent
<1> QED
  BY <1>2, <1>3, <1>4, <1>5, <1>6
     DEF Next, Step, Failing, Finished, Admission, Gating, Execution, Ending, vars, local,
         tables, Begin, RefuseIdentity, Reserve, RefuseDuplicate, RefuseAtGate, PutApproval,
         AcquireLease, RefuseLease, RefuseLaunch, Launch, WorkerFails, WorkerSucceeds,
         RejectOutput, PutEvidence, PutFinding, Complete, Release, ReleaseFails, SaveLedger,
         LoseLedger, SaveResult, Return, StoreFails, LoseResult, Interrupt,
         InterruptReserve, InterruptLease, Crash

LEMMA StepTables ==
    ASSUME TypeOK, Control, [Next]_vars
    PROVE  /\ owners' \subseteq Runs /\ leaseIds' \subseteq Runs
           /\ observed' \in [Runs -> 0..MaxObservations]
           /\ reservations' \subseteq Requests /\ results' \subseteq ResultRows
           /\ asked' \subseteq Runs /\ leases' \subseteq Runs
           /\ launched' \subseteq Runs /\ ledgers' \subseteq Runs
<1>1. ASSUME NEW p \in Runs, SaveResult(p) PROVE results' \subseteq ResultRows
  <2>1. history[p] \in Seq(FSM!States)
    BY DEF TypeOK, FSM!TypeOK
  <2>2. (IF Completed(p) THEN FindingsOf(p) ELSE {}) \subseteq FindingRows
    BY DEF TypeOK, FindingsOf
  <2>3. ResultOf(p) \in ResultRows
    BY <2>1, <2>2 DEF ResultOf, ResultRows
  <2> QED
    BY <1>1, <2>3 DEF SaveResult, TypeOK
<1>2. ASSUME NEW p \in Runs, AcquireLease(p) \/ InterruptLease(p) PROVE leases' \subseteq Runs
  BY <1>2 DEF AcquireLease, InterruptLease, InsertLease, TypeOK
<1>3. CASE \E p \in Runs : AcceptOutput(p)
  <2>1. PICK p \in Runs : AcceptOutput(p)
    BY <1>3
  <2>2. PICK n \in 0..MaxObservations : observed' = [observed EXCEPT ![p] = n]
    BY <2>1 DEF AcceptOutput
  <2>3. observed' \in [Runs -> 0..MaxObservations]
    BY <2>2 DEF TypeOK
  <2> QED
    BY <2>1, <2>3 DEF AcceptOutput, TypeOK
<1>4. CASE \E p \in Runs : SaveResult(p)
  BY <1>1, <1>4 DEF SaveResult, TypeOK, local
<1>5. CASE \E p \in Runs : AcquireLease(p) \/ InterruptLease(p)
  BY <1>2, <1>5 DEF AcquireLease, InterruptLease, TypeOK, local
<1>6. CASE ~\E p \in Runs :
              AcceptOutput(p) \/ SaveResult(p) \/ AcquireLease(p) \/ InterruptLease(p)
  BY <1>6, EngineAssumption
     DEF TypeOK, Next, Step, Failing, Finished, Admission, Gating, Execution, Ending, vars, local,
         tables, Begin, RefuseIdentity, Reserve, RefuseDuplicate, PassGate, Prepare, RefuseAtGate,
         DenyScope, NeedApproval, PutApproval, ReportPending, RefuseLease, Announce,
         RefuseLaunch, Launch, WorkerFails, WorkerSucceeds, ReportTool, RejectOutput,
         PutEvidence, PutFinding, Complete, Release, ReleaseFails, Finish, SaveLedger, LoseLedger,
         Return, StoreFails, LoseResult, Interrupt,
         InterruptReserve, InterruptLease, InterruptAudit, Crash
<1> QED
  BY <1>3, <1>4, <1>5, <1>6

-----------------------------------------------------------------------------
(* The claims on request ids, and how far a run with a claim has come. *)
Claiming == TryPCs \ {"reserve"}
Unlaunched == {"idle", "reserve", "gate", "ask", "pending", "lease", "announce", "spawn"}

OwnersClaim ==
    \A p \in Runs :
        /\ pc[p] \in {"idle", "reserve"} => p \notin owners
        /\ pc[p] \in Claiming => p \in owners
        /\ pc[p] = "lease" => p \in leaseIds
ClaimsStand ==
    \A p \in owners :
        /\ pc[p] # "returned" => RequestOf[p] \in reservations
        /\ Taken(RequestOf[p])
ClaimsDiffer == \A p, o \in owners : RequestOf[p] = RequestOf[o] => p = o
LaunchesClaim == \A p \in launched : p \in owners /\ pc[p] \notin Unlaunched
Claims == OwnersClaim /\ ClaimsStand /\ ClaimsDiffer /\ LaunchesClaim

(* A move that neither takes nor gives back a claim. *)
Forward(from, to) ==
    /\ from # "returned"
    /\ to # "idle"
    /\ to = "reserve" => from = "idle"
    /\ to \in Claiming => from \in Claiming
    /\ to \in Unlaunched => from \in Unlaunched
Quiet(p) ==
    /\ owners' = owners /\ launched' = launched
    /\ reservations' = reservations /\ results' = results
    /\ \E to \in PCs :
        /\ Goto(p, to)
        /\ Forward(pc[p], to)
        /\ to = "lease" => p \in leaseIds'
    /\ leaseIds \subseteq leaseIds'

LEMMA QuietClaims ==
    ASSUME TypeOK, Claims, NEW p \in Runs, Quiet(p)
    PROVE  Claims'
<1>1. PICK to \in PCs : Goto(p, to) /\ Forward(pc[p], to) /\ (to = "lease" => p \in leaseIds')
  BY DEF Quiet
<1>2. pc'[p] = to /\ \A o \in Runs \ {p} : pc'[o] = pc[o]
  BY <1>1, GotoType DEF TypeOK
<1>3. owners' = owners /\ launched' = launched /\ owners \subseteq Runs /\ launched \subseteq Runs
      /\ reservations' = reservations /\ results' = results /\ leaseIds \subseteq leaseIds'
  BY DEF Quiet, TypeOK
<1>4. OwnersClaim'
  <2> SUFFICES ASSUME NEW o \in Runs
               PROVE  /\ pc'[o] \in {"idle", "reserve"} => o \notin owners
                      /\ pc'[o] \in Claiming => o \in owners
                      /\ pc'[o] = "lease" => o \in leaseIds'
    BY <1>3 DEF OwnersClaim
  <2>1. CASE o = p
    BY <2>1, <1>1, <1>2 DEF Claims, OwnersClaim, Forward
  <2>2. CASE o # p
    BY <2>2, <1>2, <1>3 DEF Claims, OwnersClaim
  <2> QED
    BY <2>1, <2>2
<1>5. ClaimsStand'
  <2> SUFFICES ASSUME NEW o \in owners
               PROVE  /\ pc'[o] # "returned" => RequestOf[o] \in reservations
                      /\ Taken(RequestOf[o])
    BY <1>3 DEF ClaimsStand, Taken
  <2>1. CASE o = p
    BY <2>1, <1>1, <1>2 DEF Claims, ClaimsStand, Forward
  <2>2. CASE o # p
    BY <2>2, <1>2, <1>3 DEF Claims, ClaimsStand
  <2> QED
    BY <2>1, <2>2
<1>6. ClaimsDiffer'
  BY <1>3 DEF Claims, ClaimsDiffer
<1>7. LaunchesClaim'
  <2> SUFFICES ASSUME NEW o \in launched
               PROVE  o \in owners /\ pc'[o] \notin Unlaunched
    BY <1>3 DEF LaunchesClaim
  <2>1. CASE o = p
    BY <2>1, <1>1, <1>2 DEF Claims, LaunchesClaim, Forward
  <2>2. CASE o # p
    BY <2>2, <1>2, <1>3 DEF Claims, LaunchesClaim
  <2> QED
    BY <2>1, <2>2
<1> QED
  BY <1>4, <1>5, <1>6, <1>7 DEF Claims

(* All but three actions are quiet about claims or stutter on them. *)
LEMMA MostAreQuiet ==
    ASSUME TypeOK, NEW p \in Runs, Step(p) \/ Failing(p)
    PROVE  \/ Quiet(p)
           \/ Reserve(p) \/ InterruptReserve(p) \/ Launch(p) \/ SaveResult(p)
           \/ PutEvidence(p) \/ PutFinding(p) \/ PassGate(p)
<1> USE DEF PCs, TryPCs, DbPCs, FinallyPCs, EndPCs, Claiming, Unlaunched, Forward, local, tables
<1>1. ASSUME NEW from \in PCs, NEW to \in PCs, pc[p] = from, Goto(p, to), Forward(from, to),
             owners' = owners, launched' = launched, reservations' = reservations,
             results' = results, leaseIds \subseteq leaseIds', to = "lease" => p \in leaseIds'
      PROVE  Quiet(p)
  BY <1>1 DEF Quiet
<1>2. CASE Admission(p)
  BY <1>1, <1>2 DEF Admission, Begin, RefuseIdentity, RefuseDuplicate, Fail
<1>3. CASE Gating(p)
  BY <1>1, <1>3
     DEF Gating, Prepare, RefuseAtGate, DenyScope, NeedApproval, PutApproval, ReportPending, Fail
<1>4. CASE Execution(p)
  BY <1>1, <1>4
     DEF Execution, AcquireLease, RefuseLease, Announce, RefuseLaunch, WorkerFails,
         WorkerSucceeds, ReportTool, RejectOutput, AcceptOutput, Complete, Fail
<1>5. CASE Ending(p)
  BY <1>1, <1>5
     DEF Ending, Release, ReleaseFails, Finish, SaveLedger, LoseLedger, Return
<1>6. CASE StoreFails(p)
  BY <1>1, <1>6 DEF StoreFails, Fail
<1>7. CASE LoseResult(p)
  BY <1>1, <1>7 DEF LoseResult
<1>8. CASE Interrupt(p) \/ InterruptLease(p) \/ InterruptAudit(p)
  BY <1>1, <1>8 DEF Interrupt, InterruptLease, InterruptAudit
<1>9. CASE Crash(p)
  BY <1>1, <1>9 DEF Crash
<1> QED
  BY <1>2, <1>3, <1>4, <1>5, <1>6, <1>7, <1>8, <1>9 DEF Step, Failing

LEMMA StepClaims ==
    ASSUME TypeOK, Claims, [Next]_vars
    PROVE  Claims' /\ leases' \subseteq leaseIds'
<1>1. owners \subseteq Runs /\ launched \subseteq Runs /\ leases \subseteq leaseIds
  BY DEF TypeOK
<1>2. ASSUME UNCHANGED <<pc, owners, leaseIds, launched, reservations, results>>
      PROVE  Claims'
  BY <1>2, <1>1
     DEF Claims, OwnersClaim, ClaimsStand, ClaimsDiffer, LaunchesClaim, Taken, TypeOK
<1>3. ASSUME NEW p \in Runs, Reserve(p) PROVE Claims'
  <2>1. /\ pc[p] = "reserve" /\ ~Taken(RequestOf[p]) /\ p \notin owners
        /\ pc' = [pc EXCEPT ![p] = "gate"]
        /\ owners' = owners \cup {p} /\ reservations' = reservations \cup {RequestOf[p]}
        /\ UNCHANGED <<leaseIds, launched, results>>
    BY <1>3 DEF Reserve, Goto, Claims, OwnersClaim
  <2>2. pc'[p] = "gate" /\ \A o \in Runs \ {p} : pc'[o] = pc[o]
    BY <2>1 DEF TypeOK
  <2>3. OwnersClaim'
    BY <2>1, <2>2 DEF Claims, OwnersClaim, Claiming, TryPCs, DbPCs
  <2>4. ClaimsStand'
    BY <2>1, <2>2, <1>1 DEF Claims, ClaimsStand, Taken
  <2>5. ClaimsDiffer'
    <3>1. \A o \in owners : RequestOf[o] # RequestOf[p]
      BY <2>1 DEF Claims, ClaimsStand
    <3> QED
      BY <2>1, <3>1 DEF Claims, ClaimsDiffer
  <2>6. LaunchesClaim'
    BY <2>1, <2>2, <1>1 DEF Claims, LaunchesClaim
  <2> QED
    BY <2>3, <2>4, <2>5, <2>6 DEF Claims
<1>4. ASSUME NEW p \in Runs, Launch(p) PROVE Claims'
  <2>1. /\ pc[p] = "spawn" /\ pc' = [pc EXCEPT ![p] = "work"]
        /\ launched' = launched \cup {p}
        /\ UNCHANGED <<leaseIds, owners, reservations, results>>
    BY <1>4 DEF Launch, Goto, local
  <2>2. pc'[p] = "work" /\ \A o \in Runs \ {p} : pc'[o] = pc[o]
    BY <2>1 DEF TypeOK
  <2>3. p \in owners
    BY <2>1 DEF Claims, OwnersClaim, Claiming, TryPCs
  <2>4. OwnersClaim'
    BY <2>1, <2>2, <2>3 DEF Claims, OwnersClaim
  <2>5. ClaimsStand'
    BY <2>1, <2>2, <1>1 DEF Claims, ClaimsStand, Taken
  <2>6. ClaimsDiffer'
    BY <2>1 DEF Claims, ClaimsDiffer
  <2>7. LaunchesClaim'
    BY <2>1, <2>2, <2>3, <1>1 DEF Claims, LaunchesClaim, Unlaunched
  <2> QED
    BY <2>4, <2>5, <2>6, <2>7 DEF Claims
<1>5. ASSUME NEW p \in Runs, SaveResult(p) PROVE Claims'
  <2>1. /\ pc[p] = "save" /\ p \in owners /\ pc' = [pc EXCEPT ![p] = "returned"]
        /\ results' = results \cup {ResultOf(p)}
        /\ reservations' = reservations \ {RequestOf[p]}
        /\ UNCHANGED <<leaseIds, owners, launched>>
    BY <1>5 DEF SaveResult, Goto, local
  <2>2. pc'[p] = "returned" /\ \A o \in Runs \ {p} : pc'[o] = pc[o]
    BY <2>1 DEF TypeOK
  <2>3. \A o \in owners \ {p} : RequestOf[o] # RequestOf[p]
    BY <2>1 DEF Claims, ClaimsDiffer
  <2>4. OwnersClaim'
    BY <2>1, <2>2 DEF Claims, OwnersClaim, Claiming, TryPCs, DbPCs
  <2>5. ClaimsStand'
    <3>1. \A o \in owners' : pc'[o] # "returned" => RequestOf[o] \in reservations'
      BY <2>1, <2>2, <2>3, <1>1 DEF Claims, ClaimsStand
    <3>2. ASSUME NEW o \in owners PROVE Taken(RequestOf[o])'
      <4>1. CASE o = p
        <5>1. ResultOf(p) \in results' /\ RequestOf[ResultOf(p).run] = RequestOf[p]
          BY <2>1 DEF ResultOf
        <5> QED
          BY <4>1, <5>1 DEF Taken
      <4>2. CASE o # p
        <5>1. RequestOf[o] # RequestOf[p] /\ Taken(RequestOf[o])
          BY <4>2, <2>3 DEF Claims, ClaimsStand
        <5> QED
          BY <5>1, <2>1 DEF Taken
      <4> QED
        BY <4>1, <4>2
    <3> QED
      BY <2>1, <3>1, <3>2 DEF ClaimsStand
  <2>6. ClaimsDiffer'
    BY <2>1 DEF Claims, ClaimsDiffer
  <2>7. LaunchesClaim'
    BY <2>1, <2>2, <1>1 DEF Claims, LaunchesClaim, Unlaunched
  <2> QED
    BY <2>4, <2>5, <2>6, <2>7 DEF Claims
<1>6. ASSUME NEW p \in Runs, PutEvidence(p) \/ PutFinding(p) PROVE Claims'
  BY <1>6, <1>2 DEF PutEvidence, PutFinding, local
<1>7. ASSUME NEW p \in Runs, PassGate(p) PROVE Claims'
  BY <1>7, <1>2 DEF PassGate
<1>8. ASSUME NEW p \in Runs, InterruptReserve(p) PROVE Claims'
  <2>1. /\ pc[p] = "reserve" /\ pc' = [pc EXCEPT ![p] = "cleanup"]
        /\ reservations' = reservations \cup {RequestOf[p]}
        /\ UNCHANGED <<leaseIds, owners, launched, results>>
    BY <1>8 DEF InterruptReserve, Goto, local
  <2>2. pc'[p] = "cleanup" /\ \A o \in Runs \ {p} : pc'[o] = pc[o]
    BY <2>1 DEF TypeOK
  <2>3. p \notin owners /\ p \notin launched
    BY <2>1 DEF Claims, OwnersClaim, LaunchesClaim
  <2>4. OwnersClaim'
    BY <2>1, <2>2 DEF Claims, OwnersClaim, Claiming, TryPCs, DbPCs
  <2>5. ClaimsStand'
    BY <2>1, <2>2, <2>3, <1>1 DEF Claims, ClaimsStand, Taken
  <2>6. ClaimsDiffer' /\ LaunchesClaim'
    BY <2>1, <2>2, <2>3, <1>1 DEF Claims, ClaimsDiffer, LaunchesClaim
  <2> QED
    BY <2>4, <2>5, <2>6 DEF Claims
<1>9. ASSUME UNCHANGED vars PROVE Claims'
  BY <1>9, <1>2 DEF vars, local, tables
<1>10. Claims'
  <2>1. ASSUME NEW p \in Runs, Step(p) \/ Failing(p) PROVE Claims'
    BY <2>1, <1>3, <1>4, <1>5, <1>6, <1>7, <1>8, MostAreQuiet, QuietClaims
  <2> QED
    BY <2>1, <1>9 DEF Next, Finished
<1>11. leases' \subseteq leaseIds'
  <2>1. ASSUME NEW p \in Runs, AcquireLease(p) \/ InterruptLease(p)
        PROVE  leases' \subseteq leaseIds'
    <3>1. p \in leaseIds /\ leaseIds' = leaseIds /\ leases' \subseteq leases \cup {p}
      BY <2>1 DEF AcquireLease, InterruptLease, InsertLease, local, Claims, OwnersClaim
    <3> QED
      BY <3>1, <1>1
  <2>2. CASE leases' \subseteq leases /\ leaseIds \subseteq leaseIds'
    BY <2>2, <1>1
  <2> QED
    BY <2>1, <2>2
       DEF Next, Step, Failing, Finished, Admission, Gating, Execution, Ending, vars, local,
           tables, Begin, RefuseIdentity, Reserve, RefuseDuplicate, PassGate, Prepare,
           RefuseAtGate, DenyScope, NeedApproval, PutApproval, ReportPending, RefuseLease,
           Announce, RefuseLaunch, Launch, WorkerFails, WorkerSucceeds, ReportTool, RejectOutput,
           AcceptOutput, PutEvidence, PutFinding, Complete, Release, ReleaseFails, Finish,
           SaveLedger, LoseLedger, SaveResult, Return, StoreFails, LoseResult, Interrupt,
         InterruptReserve, InterruptLease, InterruptAudit, Crash
<1> QED
  BY <1>10, <1>11

-----------------------------------------------------------------------------
(* The inductive invariant. *)
IInv == TypeOK /\ Control /\ Bounded /\ Claims

LEMMA InitIInv == Init => IInv
<1> SUFFICES ASSUME Init PROVE IInv
  OBVIOUS
<1>1. FSM!TypeOK /\ \A p \in Runs : State(p) = "CREATED"
  <2>1. <<"CREATED">> \in Seq(FSM!States) /\ <<"CREATED">> # <<>> /\ Last(<<"CREATED">>) = "CREATED"
    BY StatesKnown DEF Last
  <2> QED
    BY <2>1 DEF Init, FSM!Init, FSM!TypeOK, State
<1>2. TypeOK
  <2>1. 0 \in 0..MaxObservations /\ "idle" \in PCs /\ <<>> \in Seq(Events)
    BY EngineAssumption DEF PCs
  <2> QED
    BY <1>1, <2>1 DEF Init, TypeOK
<1>3. Control
  BY <1>1, <1>2 DEF Control, InPlace, At, Init, TypeOK, Gates
<1>4. Bounded
  BY FS_EmptySet DEF Init, Bounded
<1>5. Claims
  BY DEF Init, Claims, OwnersClaim, ClaimsStand, ClaimsDiffer, LaunchesClaim, Claiming, TryPCs,
         DbPCs
<1> QED
  BY <1>2, <1>3, <1>4, <1>5 DEF IInv

LEMMA Inductive == IInv /\ [Next]_vars => IInv'
<1> SUFFICES ASSUME IInv, [Next]_vars PROVE IInv'
  OBVIOUS
<1>1. Control' /\ Claims' /\ leases' \subseteq leaseIds'
  BY StepControl, StepClaims DEF IInv
<1>2. evidence' \subseteq EvidenceRows /\ findings' \subseteq FindingRows /\ Bounded'
  BY StepRows DEF IInv
<1>3. trail' \in [Runs -> Seq(Events)]
  BY StepTrail DEF IInv
<1>4. TypeOK'
  BY <1>1, <1>2, <1>3, StepTables DEF IInv, TypeOK, Control
<1> QED
  BY <1>1, <1>2, <1>4 DEF IInv

LEMMA Invariance == Spec => []IInv
BY InitIInv, Inductive, PTL DEF Spec

(* In every state of every interleaving the tables and the runs have the   *)
(* types of the code: in particular every lease row was named by its run   *)
(* before it was written, so that the finally clause knows its id.         *)
THEOREM TypeCorrect == Spec => []TypeOK
<1>1. IInv => TypeOK
  BY DEF IInv
<1> QED
  BY <1>1, Invariance, PTL

(* Two runs of one request id never both start a worker, whatever crashes, *)
(* interrupts and failing transactions come between reserve_request and    *)
(* put_result.                                                             *)
THEOREM OneLaunch == Spec => []OneLaunchPerRequest
<1>1. IInv => OneLaunchPerRequest
  BY DEF IInv, Claims, ClaimsDiffer, LaunchesClaim, OneLaunchPerRequest
<1> QED
  BY <1>1, Invariance, PTL

-----------------------------------------------------------------------------
(* The refinement of RequestOnce. *)
LEMMA ClaimedStatus ==
    ASSUME NEW q \in Requests, q \in reservations
    PROVE  StatusOf(q) = "claimed"
BY DEF StatusOf

LEMMA OnceStep == IInv /\ [Next]_vars => [Once!Next]_(Once!vars)
<1> SUFFICES ASSUME IInv, [Next]_vars PROVE [Once!Next]_(Once!vars)
  OBVIOUS
<1> DEFINE status == [q \in Requests |-> StatusOf(q)]
<1>1. ASSUME UNCHANGED <<reservations, results, owners, launched>>
      PROVE  UNCHANGED Once!vars
  BY <1>1 DEF Once!vars, StatusOf
<1>2. ASSUME NEW p \in Runs, Reserve(p) PROVE Once!Claim(p)
  <2>1. ~Taken(RequestOf[p]) /\ reservations' = reservations \cup {RequestOf[p]}
        /\ results' = results /\ owners' = owners \cup {p} /\ launched' = launched
    BY <1>2 DEF Reserve
  <2>2. RequestOf[p] \in Requests
    BY EngineAssumption
  <2>3. status[RequestOf[p]] = "fresh"
    BY <2>1, <2>2 DEF Taken, StatusOf
  <2>4. status' = [status EXCEPT ![RequestOf[p]] = "claimed"]
    BY <2>1, <2>2 DEF StatusOf
  <2> HIDE DEF status
  <2> QED
    BY <2>1, <2>3, <2>4 DEF Once!Claim, status
<1>3. ASSUME NEW p \in Runs, InterruptReserve(p) PROVE Once!ClaimUnseen(p)
  <2>1. ~Taken(RequestOf[p]) /\ reservations' = reservations \cup {RequestOf[p]}
        /\ results' = results /\ owners' = owners /\ launched' = launched
    BY <1>3 DEF InterruptReserve, local
  <2>2. RequestOf[p] \in Requests
    BY EngineAssumption
  <2>3. status[RequestOf[p]] = "fresh"
    BY <2>1, <2>2 DEF Taken, StatusOf
  <2>4. status' = [status EXCEPT ![RequestOf[p]] = "claimed"]
    BY <2>1, <2>2 DEF StatusOf
  <2> HIDE DEF status
  <2> QED
    BY <2>1, <2>3, <2>4 DEF Once!ClaimUnseen, status
<1>4. ASSUME NEW p \in Runs, Launch(p) PROVE Once!Launch(p)
  <2>1. /\ pc[p] = "spawn" /\ launched' = launched \cup {p}
        /\ UNCHANGED <<reservations, results, owners>>
    BY <1>4 DEF Launch, local
  <2>2. p \in owners \ launched
    BY <2>1 DEF IInv, Claims, OwnersClaim, LaunchesClaim, Claiming, TryPCs, Unlaunched
  <2>3. RequestOf[p] \in reservations /\ RequestOf[p] \in Requests
    BY <2>1, <2>2, EngineAssumption DEF IInv, Claims, ClaimsStand
  <2>4. status[RequestOf[p]] = "claimed" /\ status' = status
    BY <2>1, <2>3 DEF StatusOf
  <2> HIDE DEF status
  <2> QED
    BY <2>1, <2>2, <2>4 DEF Once!Launch, status
<1>5. ASSUME NEW p \in Runs, SaveResult(p) PROVE Once!Resolve(p)
  <2>1. /\ pc[p] = "save" /\ p \in owners /\ results' = results \cup {ResultOf(p)}
        /\ reservations' = reservations \ {RequestOf[p]}
        /\ UNCHANGED <<owners, launched>>
    BY <1>5 DEF SaveResult, local
  <2>2. RequestOf[p] \in reservations /\ RequestOf[p] \in Requests
    BY <2>1, EngineAssumption DEF IInv, Claims, ClaimsStand
  <2>3. status[RequestOf[p]] = "claimed"
    BY <2>2 DEF StatusOf
  <2>4. ResultOf(p).run = p
    BY DEF ResultOf
  <2>5. ASSUME NEW q \in Requests
        PROVE  StatusOf(q)' = IF q = RequestOf[p] THEN "resolved" ELSE StatusOf(q)
    <3>1. q = RequestOf[p] => StatusOf(q)' = "resolved"
      BY <2>1, <2>4 DEF StatusOf
    <3>2. q # RequestOf[p] =>
            /\ q \in reservations' <=> q \in reservations
            /\ (\E row \in results' : RequestOf[row.run] = q)
               <=> \E row \in results : RequestOf[row.run] = q
      BY <2>1, <2>4
    <3>3. q # RequestOf[p] => StatusOf(q)' = StatusOf(q)
      BY <3>2 DEF StatusOf
    <3> QED
      BY <3>1, <3>3
  <2>6. status' = [status EXCEPT ![RequestOf[p]] = "resolved"]
    BY <2>2, <2>5
  <2> HIDE DEF status
  <2> QED
    BY <2>1, <2>3, <2>6 DEF Once!Resolve, status
<1>6. ASSUME NEW p \in Runs, Quiet(p) \/ PutEvidence(p) \/ PutFinding(p) \/ PassGate(p)
      PROVE  UNCHANGED Once!vars
  BY <1>1, <1>6 DEF Quiet, PutEvidence, PutFinding, PassGate, local
<1>7. ASSUME UNCHANGED vars PROVE UNCHANGED Once!vars
  BY <1>1, <1>7 DEF vars, local, tables
<1>8. ASSUME NEW p \in Runs, Step(p) \/ Failing(p) PROVE [Once!Next]_(Once!vars)
  BY <1>2, <1>4, <1>5, <1>6, <1>8, <1>3, MostAreQuiet DEF IInv, Once!Next
<1> QED
  BY <1>7, <1>8 DEF Next, Finished

(* engine.run with the two tables of request ids implements the promise of *)
(* reserve_request: one claim for an id, launches only under it, and a     *)
(* claim that stands until a result replaces it.                           *)
THEOREM ImplementsRequestOnce == Spec => FollowsRequestOnce
<1>1. Init => Once!Init
  BY DEF Init, Once!Init, StatusOf
<1> QED
  BY <1>1, OnceStep, Invariance, PTL DEF Spec, FollowsRequestOnce, Once!Spec

(* The effect of a step on the three sequences of the run that takes it. *)
Moves(p) ==
    /\ pc' = pc \/ \E label \in PCs : Goto(p, label)
    /\ history' = history \/ \E state \in FSM!States : Enter(p, state)
    /\ trail' = trail \/ \E event \in Events : Audit(p, event)

LEMMA StepMoves ==
    ASSUME IInv, NEW p \in Runs, Step(p) \/ Failing(p)
    PROVE  Moves(p)
<1> USE StatesKnown, EventsKnown DEF PCs, TryPCs, DbPCs, FinallyPCs, EndPCs
<1>1. ASSUME NEW state \in {"BLOCKED", "FAILED", "TIMED_OUT"}, Fail(p, state),
             trail' = trail \/ \E event \in Events : Audit(p, event)
      PROVE  Moves(p)
  BY <1>1 DEF Moves, Fail
<1>2. CASE Admission(p)
  BY <1>1, <1>2
     DEF Moves, Admission, tables, Begin, RefuseIdentity, Reserve, RefuseDuplicate
<1>3. CASE Gating(p)
  <2>1. CASE PassGate(p)
    <3>1. State(p) \in DOMAIN Onward
      BY <2>1 DEF PassGate, IInv, Control, InPlace, At, Gates
    <3>2. Onward[State(p)] \in FSM!States /\ Verdict[State(p)] \in Events
      BY <3>1
    <3> QED
      BY <2>1, <3>2 DEF PassGate, Moves
  <2>2. CASE RefuseAtGate(p) \/ DenyScope(p) \/ ReportPending(p)
    BY <1>1, <2>2 DEF RefuseAtGate, DenyScope, ReportPending, tables
  <2>3. CASE Prepare(p) \/ NeedApproval(p) \/ PutApproval(p)
    BY <2>3 DEF Prepare, NeedApproval, PutApproval, Moves, local
  <2> QED
    BY <1>3, <2>1, <2>2, <2>3 DEF Gating
<1>4. CASE Execution(p)
  <2>1. CASE RefuseLease(p) \/ RefuseLaunch(p) \/ WorkerFails(p) \/ RejectOutput(p)
    BY <1>1, <2>1 DEF RefuseLease, RefuseLaunch, WorkerFails, RejectOutput, tables
  <2>2. CASE AcquireLease(p) \/ Announce(p) \/ Launch(p) \/ WorkerSucceeds(p)
    BY <2>2 DEF AcquireLease, Announce, Launch, WorkerSucceeds, Moves, local, tables
  <2>3. CASE ReportTool(p) \/ AcceptOutput(p)
    BY <2>3 DEF ReportTool, AcceptOutput, Moves
  <2>4. CASE PutEvidence(p) \/ PutFinding(p) \/ Complete(p)
    BY <2>4 DEF PutEvidence, PutFinding, Complete, Moves, local, tables
  <2> QED
    BY <1>4, <2>1, <2>2, <2>3, <2>4 DEF Execution
<1>5. CASE Ending(p)
  BY <1>5
     DEF Moves, Ending, local, tables, Release, ReleaseFails, Finish, SaveLedger, LoseLedger,
         SaveResult, Return
<1>6. CASE Failing(p)
  <2>1. CASE InterruptAudit(p)
    <3>1. \E event \in Events : Audit(p, event)
      BY <2>1, InterruptEvent DEF IInv
    <3> QED
      BY <2>1, <3>1 DEF InterruptAudit, Moves, local
  <2>2. CASE StoreFails(p)
    BY <1>1, <2>2 DEF StoreFails, tables
  <2> QED
    BY <1>6, <2>1, <2>2
       DEF Moves, Failing, local, tables, LoseResult, Interrupt, InterruptReserve,
           InterruptLease, Crash
<1> QED
  BY <1>2, <1>3, <1>4, <1>5, <1>6 DEF Step

-----------------------------------------------------------------------------
(* The refinement of StateMachine. *)
LEMMA EngineEdges ==
    /\ \A s \in DOMAIN Onward : <<s, Onward[s]>> \in FSM!AllowedTransitions
    /\ {<<"CREATED", "VALIDATING">>, <<"APPROVED", "EXECUTING">>,
        <<"EXECUTING", "COLLECTING_EVIDENCE">>,
        <<"COLLECTING_EVIDENCE", "VALIDATING_RESULT">>} \subseteq FSM!AllowedTransitions
<1>1. \A i \in 1..6 : <<FSM!GatePath[i], FSM!GatePath[i + 1]>> \in FSM!AllowedTransitions
  BY DEF FSM!AllowedTransitions
<1>2. /\ FSM!GatePath[1] = "CREATED" /\ FSM!GatePath[2] = "VALIDATING"
      /\ FSM!GatePath[3] = "SCOPE_CHECK" /\ FSM!GatePath[4] = "AUTHORIZATION_CHECK"
      /\ FSM!GatePath[5] = "RISK_ASSESSMENT" /\ FSM!GatePath[6] = "WAITING_FOR_APPROVAL"
      /\ FSM!GatePath[7] = "APPROVED"
  BY DEF FSM!GatePath
<1>3. /\ <<FSM!GatePath[1], FSM!GatePath[2]>> \in FSM!AllowedTransitions
      /\ <<FSM!GatePath[2], FSM!GatePath[3]>> \in FSM!AllowedTransitions
      /\ <<FSM!GatePath[3], FSM!GatePath[4]>> \in FSM!AllowedTransitions
      /\ <<FSM!GatePath[4], FSM!GatePath[5]>> \in FSM!AllowedTransitions
      /\ <<FSM!GatePath[5], FSM!GatePath[6]>> \in FSM!AllowedTransitions
      /\ <<FSM!GatePath[6], FSM!GatePath[7]>> \in FSM!AllowedTransitions
  <2>1. 1 \in 1..6 /\ 2 \in 1..6 /\ 3 \in 1..6 /\ 4 \in 1..6 /\ 5 \in 1..6 /\ 6 \in 1..6
        /\ 1 + 1 = 2 /\ 2 + 1 = 3 /\ 3 + 1 = 4 /\ 4 + 1 = 5 /\ 5 + 1 = 6 /\ 6 + 1 = 7
    OBVIOUS
  <2> QED
    BY <1>1, <2>1
<1>4. \A s \in DOMAIN Onward : <<s, Onward[s]>> \in FSM!AllowedTransitions
  BY <1>2, <1>3, StatesKnown DEF Onward
<1>5. {<<"APPROVED", "EXECUTING">>, <<"EXECUTING", "COLLECTING_EVIDENCE">>,
       <<"COLLECTING_EVIDENCE", "VALIDATING_RESULT">>} \subseteq FSM!AllowedTransitions
  BY DEF FSM!AllowedTransitions
<1> QED
  BY <1>2, <1>3, <1>4, <1>5

LEMMA NotYetTerminal ==
    ASSUME Control, NEW p \in Runs, pc[p] \in {"idle"} \cup TryPCs
    PROVE  State(p) \notin FSM!TerminalStates
BY StatesKnown DEF Control, InPlace, At, TryPCs, DbPCs, Gates, FSM!TerminalStates

(* What validate_transition was asked for.  Until a run gives its lease    *)
(* back, that is its whole history.                                        *)
Kept == [p \in Runs |-> Accepted(p)]
Working == {"idle", "cleanup"} \cup TryPCs
Whole == \A p \in Runs : pc[p] \in Working => ~Overruled(history[p])

LEMMA KeptStands ==
    ASSUME UNCHANGED history
    PROVE  UNCHANGED Kept
BY DEF Kept, Accepted

LEMMA SameTable ==
    /\ Lifecycle!States = FSM!States
    /\ \A from, to : Lifecycle!ValidTransition(from, to) <=> FSM!ValidTransition(from, to)
<1>1. /\ Lifecycle!States = FSM!States /\ Lifecycle!TerminalStates = FSM!TerminalStates
      /\ Lifecycle!GatePath = FSM!GatePath
      /\ Lifecycle!AllowedTransitions = FSM!AllowedTransitions
  BY DEF Lifecycle!States, FSM!States, Lifecycle!TerminalStates, FSM!TerminalStates,
         Lifecycle!GatePath, FSM!GatePath, Lifecycle!WorkStates, FSM!WorkStates,
         Lifecycle!AllowedTransitions, FSM!AllowedTransitions
<1> QED
  BY <1>1 DEF Lifecycle!ValidTransition, FSM!ValidTransition, Lifecycle!CanTransition,
              FSM!CanTransition, Lifecycle!CanEnd, FSM!CanEnd

(* A state behind one that is not terminal does not overrule it.           *)
LEMMA Entered ==
    ASSUME Control, NEW p \in Runs, NEW state \in FSM!States, Enter(p, state),
           State(p) \notin FSM!TerminalStates
    PROVE  ~Overruled(history'[p])
<1>1. history[p] \in Seq(FSM!States) /\ history[p] # <<>>
  BY DEF Control, FSM!TypeOK
<1>2. history'[p] = Append(history[p], state)
  BY EnterType DEF Control
<1>3. /\ Len(history'[p]) = Len(history[p]) + 1 /\ Len(history[p]) \in Nat \ {0}
      /\ history'[p][Len(history[p])] = history[p][Len(history[p])]
  BY <1>1, <1>2
<1>4. history[p][Len(history[p])] = State(p)
  BY DEF State, Last
<1>5. history'[p][Len(history'[p]) - 1] = State(p)
  BY <1>3, <1>4
<1> QED
  BY <1>5 DEF Overruled

LEMMA Validated ==
    ASSUME Control, Whole, NEW p \in Runs, NEW state \in FSM!States, Enter(p, state),
           pc[p] \in Working, State(p) \notin FSM!TerminalStates,
           \/ state \in FSM!TerminalStates
           \/ <<State(p), state>> \in FSM!AllowedTransitions
    PROVE  [Lifecycle!Next]_Kept
<1>1. /\ history \in [Runs -> Seq(FSM!States)]
      /\ history'[p] = Append(history[p], state)
      /\ \A o \in Runs \ {p} : history'[o] = history[o]
  BY EnterType DEF Control, FSM!TypeOK
<1>2. Kept[p] = history[p] /\ Kept'[p] = Append(history[p], state)
  BY <1>1, Entered DEF Whole, Kept, Accepted
<1>3. \A o \in Runs \ {p} : Kept'[o] = Kept[o]
  BY <1>1 DEF Kept, Accepted
<1>4. Kept' = [Kept EXCEPT ![p] = Append(Kept[p], state)]
  BY <1>2, <1>3 DEF Kept
<1>5. Lifecycle!ValidTransition(Lifecycle!Last(Kept[p]), state)
  <2>1. FSM!ValidTransition(State(p), state)
    BY DEF FSM!ValidTransition, FSM!CanTransition
  <2> QED
    BY <1>2, <2>1, SameTable DEF State, Last, Lifecycle!Last
<1>6. Lifecycle!Advance(p, state)
  BY <1>4, <1>5 DEF Lifecycle!Advance, Kept
<1> QED
  BY <1>6, SameTable DEF Lifecycle!Next

LEMMA FailureValidated ==
    ASSUME Control, Whole, NEW p \in Runs, NEW state \in {"BLOCKED", "FAILED", "TIMED_OUT"},
           Fail(p, state), pc[p] \in TryPCs
    PROVE  [Lifecycle!Next]_Kept
<1>1. state \in FSM!States /\ state \in FSM!TerminalStates
  BY StatesKnown DEF FSM!TerminalStates
<1> QED
  BY <1>1, NotYetTerminal, Validated DEF Fail, Working

LEMMA FrontIs ==
    ASSUME NEW S, NEW s \in Seq(S), s # <<>>
    PROVE  /\ Front(s) \in Seq(S) /\ Len(Front(s)) = Len(s) - 1
           /\ \A i \in 1..(Len(s) - 1) : Front(s)[i] = s[i]
<1>1. Len(s) \in Nat \ {0} /\ \A i \in 1..Len(s) : s[i] \in S
  OBVIOUS
<1>2. PICK n \in Nat : n = Len(s) - 1
  BY <1>1
<1>3. Front(s) = SubSeq(s, 1, n)
  BY <1>2 DEF Front
<1>4. /\ SubSeq(s, 1, n) \in Seq(S) /\ Len(SubSeq(s, 1, n)) = n
      /\ \A i \in 1..n : SubSeq(s, 1, n)[i] = s[i]
  <2>1. \A i \in 1..n : s[i] \in S
    BY <1>1, <1>2
  <2>2. n - 1 + 1 = n /\ (1 <= n \/ n = 0) /\ \A i \in 1..n : 1 + i - 1 = i
    BY <1>2
  <2> QED
    BY <2>1, <2>2, SubSeqProperties
<1> QED
  BY <1>2, <1>3, <1>4

LEMMA SameStart ==
    ASSUME NEW S, NEW s \in Seq(S), NEW t \in Seq(S), NEW n \in Nat, n <= Len(s), n <= Len(t),
           \A i \in 1..n : s[i] = t[i]
    PROVE  SubSeq(s, 1, n) = SubSeq(t, 1, n)
<1>1. /\ SubSeq(s, 1, n) \in Seq(S) /\ Len(SubSeq(s, 1, n)) = n
      /\ \A i \in 1..n : SubSeq(s, 1, n)[i] = s[i]
  BY SubSeqProperties
<1>2. /\ SubSeq(t, 1, n) \in Seq(S) /\ Len(SubSeq(t, 1, n)) = n
      /\ \A i \in 1..n : SubSeq(t, 1, n)[i] = t[i]
  BY SubSeqProperties
<1> QED
  BY <1>1, <1>2, SeqEqual

LEMMA FrontOfAppend ==
    ASSUME NEW S, NEW s \in Seq(S), NEW x \in S
    PROVE  Front(Append(s, x)) = s
<1>1. /\ Append(s, x) \in Seq(S) /\ Len(Append(s, x)) = Len(s) + 1 /\ Len(s) \in Nat
      /\ \A i \in 1..Len(s) : Append(s, x)[i] = s[i]
      /\ Append(s, x) # <<>>
  OBVIOUS
<1>2. /\ Front(Append(s, x)) \in Seq(S) /\ Len(Front(Append(s, x))) = Len(Append(s, x)) - 1
      /\ \A i \in 1..(Len(Append(s, x)) - 1) : Front(Append(s, x))[i] = Append(s, x)[i]
  BY <1>1, FrontIs
<1>3. Len(Front(Append(s, x))) = Len(s) /\ \A i \in 1..Len(s) : Front(Append(s, x))[i] = s[i]
  BY <1>1, <1>2
<1> QED
  BY <1>2, <1>3, SeqEqual

(* lease_cleanup_failed ends a history, or writes behind its end.          *)
LEMMA OverruledAtMost ==
    ASSUME Control, Whole, NEW p \in Runs, ReleaseFails(p)
    PROVE  [Lifecycle!Next]_Kept
<1>1. pc[p] = "cleanup" /\ (history' = history \/ Enter(p, "FAILED"))
  BY DEF ReleaseFails
<1>2. "FAILED" \in FSM!States /\ "FAILED" \in FSM!TerminalStates
  BY StatesKnown DEF FSM!TerminalStates
<1>3. CASE Enter(p, "FAILED") /\ State(p) \notin FSM!TerminalStates
  BY <1>1, <1>2, <1>3, Validated DEF Working
<1>4. CASE Enter(p, "FAILED") /\ State(p) \in FSM!TerminalStates
  <2>1. /\ history[p] \in Seq(FSM!States) /\ history[p] # <<>>
        /\ history'[p] = Append(history[p], "FAILED")
        /\ \A o \in Runs \ {p} : history'[o] = history[o]
    BY <1>2, <1>4, EnterType DEF Control, FSM!TypeOK
  <2>2. /\ Len(history'[p]) = Len(history[p]) + 1 /\ Len(history[p]) \in Nat \ {0}
        /\ history'[p][Len(history[p])] = history[p][Len(history[p])]
        /\ history'[p][Len(history[p]) + 1] = "FAILED"
    BY <2>1
  <2>3. history[p][Len(history[p])] = State(p)
    BY DEF State, Last
  <2>4. Overruled(history'[p])
    BY <1>4, <2>2, <2>3 DEF Overruled
  <2>5. Front(history'[p]) = history[p]
    BY <1>2, <2>1, FrontOfAppend
  <2>6. Kept'[p] = Kept[p]
    BY <1>1, <2>4, <2>5 DEF Kept, Accepted, Whole, Working
  <2>7. \A o \in Runs \ {p} : Kept'[o] = Kept[o]
    BY <2>1 DEF Kept, Accepted
  <2> QED
    BY <2>6, <2>7 DEF Kept
<1> QED
  BY <1>1, <1>3, <1>4, KeptStands

(* Nobody takes a run back to the body or to its lease.                    *)
LEMMA StepForward ==
    ASSUME IInv, NEW p \in Runs, Step(p) \/ Failing(p)
    PROVE  /\ \A o \in Runs \ {p} : pc'[o] = pc[o] /\ history'[o] = history[o]
           /\ history' = history \/ \E state \in FSM!States : Enter(p, state)
           /\ pc'[p] \in Working => pc[p] \in {"idle"} \cup TryPCs
<1>1. Moves(p)
  BY StepMoves
<1>2. pc \in [Runs -> PCs] /\ history \in [Runs -> Seq(FSM!States)]
  BY DEF IInv, TypeOK, FSM!TypeOK
<1>3. \A o \in Runs \ {p} : pc'[o] = pc[o] /\ history'[o] = history[o]
  BY <1>1, <1>2 DEF Moves, Goto, Enter
<1>4. ASSUME pc[p] \notin {"idle"} \cup TryPCs PROVE pc'[p] \notin Working
  <2>1. Ending(p) \/ LoseResult(p) \/ Crash(p)
    BY <1>4 DEF Step, Failing, Admission, Gating, Execution, Begin, RefuseIdentity, Reserve,
            RefuseDuplicate, PassGate, Prepare, RefuseAtGate, DenyScope, NeedApproval, PutApproval,
            ReportPending, AcquireLease, RefuseLease, Announce, RefuseLaunch, Launch, WorkerFails,
            WorkerSucceeds, ReportTool, RejectOutput, AcceptOutput, PutEvidence, PutFinding,
            Complete, StoreFails, Interrupt, InterruptReserve, InterruptLease, InterruptAudit,
            TryPCs, DbPCs
  <2>2. \E label \in {"finish", "ledger", "save", "returned", "unsaved", "dead"} : Goto(p, label)
    BY <2>1 DEF Ending, Release, ReleaseFails, Finish, SaveLedger, LoseLedger, SaveResult, Return,
                LoseResult, Crash
  <2> QED
    BY <1>2, <2>2 DEF Goto, Working, TryPCs, DbPCs
<1> QED
  BY <1>1, <1>3, <1>4 DEF Moves

LEMMA StepWhole ==
    ASSUME IInv, Whole, [Next]_vars
    PROVE  Whole'
<1>1. ASSUME NEW p \in Runs, Step(p) \/ Failing(p) PROVE Whole'
  <2>1. /\ \A o \in Runs \ {p} : pc'[o] = pc[o] /\ history'[o] = history[o]
        /\ history' = history \/ \E state \in FSM!States : Enter(p, state)
        /\ pc'[p] \in Working => pc[p] \in {"idle"} \cup TryPCs
    BY <1>1, StepForward
  <2>2. pc'[p] \in Working => ~Overruled(history'[p])
    BY <2>1, NotYetTerminal, Entered DEF IInv, Whole, Working
  <2> QED
    BY <2>1, <2>2 DEF Whole
<1>2. CASE UNCHANGED vars
  BY <1>2 DEF vars, local, Whole
<1> QED
  BY <1>1, <1>2 DEF Next, Finished

LEMMA FSMStep ==
    ASSUME Control, Whole, [Next]_vars
    PROVE  [Lifecycle!Next]_Kept
<1> USE StatesKnown, EngineEdges, KeptStands DEF TryPCs, DbPCs, Working
<1>1. ASSUME NEW p \in Runs, Admission(p) PROVE [Lifecycle!Next]_Kept
  <2>1. CASE Begin(p)
    <3>1. State(p) = "CREATED"
      BY <2>1 DEF Begin, Control, InPlace, At
    <3> QED
      BY <2>1, <3>1, NotYetTerminal, Validated DEF Begin
  <2>2. CASE RefuseIdentity(p) \/ RefuseDuplicate(p)
    BY <2>2, FailureValidated DEF RefuseIdentity, RefuseDuplicate
  <2> QED
    BY <1>1, <2>1, <2>2 DEF Admission, Reserve
<1>2. ASSUME NEW p \in Runs, Gating(p) PROVE [Lifecycle!Next]_Kept
  <2>1. CASE PassGate(p)
    <3>1. State(p) \in DOMAIN Onward
      BY <2>1 DEF PassGate, Control, InPlace, At, Gates
    <3>2. Onward[State(p)] \in FSM!States
          /\ <<State(p), Onward[State(p)]>> \in FSM!AllowedTransitions
      BY <3>1
    <3> QED
      BY <2>1, <3>2, NotYetTerminal, Validated DEF PassGate
  <2>2. CASE RefuseAtGate(p) \/ DenyScope(p) \/ ReportPending(p)
    BY <2>2, FailureValidated DEF RefuseAtGate, DenyScope, ReportPending
  <2> QED
    BY <1>2, <2>1, <2>2 DEF Gating, Prepare, NeedApproval, PutApproval, local
<1>3. ASSUME NEW p \in Runs, Execution(p) PROVE [Lifecycle!Next]_Kept
  <2>1. CASE AcquireLease(p)
    <3>1. State(p) = "APPROVED"
      BY <2>1 DEF AcquireLease, Control, InPlace, At
    <3> QED
      BY <2>1, <3>1, NotYetTerminal, Validated DEF AcquireLease
  <2>2. CASE RefuseLease(p) \/ RefuseLaunch(p) \/ WorkerFails(p) \/ RejectOutput(p)
    BY <2>2, FailureValidated DEF RefuseLease, RefuseLaunch, WorkerFails, RejectOutput
  <2>3. CASE WorkerSucceeds(p)
    <3>1. State(p) = "EXECUTING"
      BY <2>3 DEF WorkerSucceeds, Control, InPlace, At
    <3> QED
      BY <2>3, <3>1, NotYetTerminal, Validated DEF WorkerSucceeds
  <2>4. CASE ReportTool(p)
    <3>1. State(p) = "COLLECTING_EVIDENCE"
      BY <2>4 DEF ReportTool, Control, InPlace, At
    <3> QED
      BY <2>4, <3>1, NotYetTerminal, Validated DEF ReportTool
  <2>5. CASE Complete(p)
    <3>1. "COMPLETED" \in FSM!TerminalStates
      BY DEF FSM!TerminalStates
    <3> QED
      BY <2>5, <3>1, NotYetTerminal, Validated DEF Complete
  <2> QED
    BY <1>3, <2>1, <2>2, <2>3, <2>4, <2>5
       DEF Execution, Announce, Launch, AcceptOutput, PutEvidence, PutFinding, local
<1>4. ASSUME NEW p \in Runs, Ending(p) PROVE [Lifecycle!Next]_Kept
  BY <1>4, OverruledAtMost
     DEF Ending, Release, Finish, SaveLedger, LoseLedger, SaveResult, Return, local
<1>5. ASSUME NEW p \in Runs, Failing(p) PROVE [Lifecycle!Next]_Kept
  <2>1. CASE StoreFails(p)
    BY <2>1, FailureValidated DEF StoreFails
  <2> QED
    BY <1>5, <2>1 DEF Failing, LoseResult, Interrupt,
         InterruptReserve, InterruptLease, InterruptAudit, Crash, local
<1>6. ASSUME UNCHANGED vars PROVE [Lifecycle!Next]_Kept
  BY <1>6 DEF vars, local
<1> QED
  BY <1>1, <1>2, <1>3, <1>4, <1>5, <1>6 DEF Next, Step, Finished

(* Whatever fails, validate_transition accepts every state that the engine *)
(* asks it for: its RuntimeError is unreachable, and nothing but the       *)
(* FAILED of lease_cleanup_failed comes after a terminal state.            *)
THEOREM ImplementsStateMachine == Spec => FollowsStateMachine
<1>1. Init => Lifecycle!Init /\ Whole
  <2> SUFFICES ASSUME Init PROVE Lifecycle!Init /\ Whole
    OBVIOUS
  <2>1. \A p \in Runs : history[p] = <<"CREATED">> /\ ~Overruled(history[p])
    BY DEF Init, FSM!Init, Overruled
  <2> QED
    BY <2>1 DEF Lifecycle!Init, Accepted, Whole
<1>2. IInv /\ Whole /\ [Next]_vars => Whole'
  BY StepWhole
<1>3. IInv /\ Whole /\ [Next]_vars => [Lifecycle!Next]_Kept
  BY FSMStep DEF IInv
<1> QED
  BY <1>1, <1>2, <1>3, Invariance, PTL DEF Spec, FollowsStateMachine, Lifecycle!Spec, Kept

-----------------------------------------------------------------------------
(* The audit trail of a run on its way to a worker: as many events of      *)
(* LaunchTrail as the run has gates behind it, and no others.              *)
Stage ==
    [VALIDATING |-> 0, SCOPE_CHECK |-> 1, AUTHORIZATION_CHECK |-> 2, RISK_ASSESSMENT |-> 3,
     WAITING_FOR_APPROVAL |-> 4, APPROVED |-> 5]
Begins(events, n) == Len(events) >= n /\ \A i \in 1..n : events[i] = LaunchTrail[i]
Holds(events, n) == Len(events) = n /\ Begins(events, n)

TrailSuits(label, state, events) ==
    /\ label \in {"idle", "reserve"} => Holds(events, 0)
    /\ label = "gate" => Holds(events, Stage[state])
    /\ label \in {"lease", "announce"} => Holds(events, 6)
    /\ label = "spawn" => Holds(events, 7)
OnTheWay == {"idle", "reserve", "gate", "lease", "announce", "spawn"}
AuditOrder == \A p \in Runs : TrailSuits(pc[p], State(p), trail[p])
AuditKept == \A p \in launched : Begins(trail[p], 7)

LEMMA HoldsMore ==
    ASSUME NEW events \in Seq(Events), NEW n \in 0..6, Holds(events, n),
           LaunchTrail[n + 1] \in Events
    PROVE  Holds(Append(events, LaunchTrail[n + 1]), n + 1)
<1> DEFINE e == LaunchTrail[n + 1]
           more == Append(events, e)
<1> HIDE DEF e
<1>1. /\ Len(more) = n + 1 /\ more[n + 1] = e
      /\ \A i \in 1..n : more[i] = events[i]
  BY AppendProperties DEF Holds, e
<1>2. \A i \in 1..(n + 1) : i \in 1..n \/ i = n + 1
  OBVIOUS
<1> HIDE DEF more
<1>3. \A i \in 1..(n + 1) : more[i] = LaunchTrail[i]
  BY <1>1, <1>2 DEF Holds, Begins, e
<1>4. Holds(more, n + 1)
  BY <1>1, <1>3 DEF Holds, Begins
<1> QED
  BY <1>4 DEF more, e

LEMMA BeginsStays ==
    ASSUME NEW events \in Seq(Events), NEW e \in Events, Begins(events, 7)
    PROVE  Begins(Append(events, e), 7)
<1>1. /\ Len(Append(events, e)) = Len(events) + 1
      /\ \A i \in 1..Len(events) : Append(events, e)[i] = events[i]
  BY AppendProperties
<1>2. Len(events) \in Nat /\ Len(events) >= 7 /\ \A i \in 1..7 : i \in 1..Len(events)
  BY DEF Begins
<1> QED
  BY <1>1, <1>2 DEF Begins

LEMMA StageOnward ==
    /\ \A s \in DOMAIN Onward :
        /\ Stage[s] \in 0..4 /\ Stage[Onward[s]] = Stage[s] + 1
        /\ Verdict[s] = LaunchTrail[Stage[s] + 1]
    /\ Stage["APPROVED"] = 5 /\ Verdict["APPROVED"] = LaunchTrail[6]
    /\ LaunchTrail[7] = "EXECUTING"
    /\ Stage["VALIDATING"] = 0
<1>1. /\ LaunchTrail[1] = "REQUESTED" /\ LaunchTrail[2] = "ALLOW"
      /\ LaunchTrail[3] = "AUTHORIZED" /\ LaunchTrail[4] = "CLASSIFIED"
      /\ LaunchTrail[5] = "APPROVAL_CHECKED" /\ LaunchTrail[6] = "PRECONDITIONS_PASSED"
      /\ LaunchTrail[7] = "EXECUTING"
  BY DEF LaunchTrail
<1>2. /\ Verdict["VALIDATING"] = "REQUESTED" /\ Verdict["SCOPE_CHECK"] = "ALLOW"
      /\ Verdict["AUTHORIZATION_CHECK"] = "AUTHORIZED"
      /\ Verdict["RISK_ASSESSMENT"] = "CLASSIFIED"
      /\ Verdict["WAITING_FOR_APPROVAL"] = "APPROVAL_CHECKED"
      /\ Verdict["APPROVED"] = "PRECONDITIONS_PASSED"
  BY DEF Verdict
<1>3. /\ Stage["VALIDATING"] = 0 /\ Stage["SCOPE_CHECK"] = 1
      /\ Stage["AUTHORIZATION_CHECK"] = 2 /\ Stage["RISK_ASSESSMENT"] = 3
      /\ Stage["WAITING_FOR_APPROVAL"] = 4 /\ Stage["APPROVED"] = 5
  BY DEF Stage
<1>4. /\ Onward["VALIDATING"] = "SCOPE_CHECK" /\ Onward["SCOPE_CHECK"] = "AUTHORIZATION_CHECK"
      /\ Onward["AUTHORIZATION_CHECK"] = "RISK_ASSESSMENT"
      /\ Onward["RISK_ASSESSMENT"] = "WAITING_FOR_APPROVAL"
      /\ Onward["WAITING_FOR_APPROVAL"] = "APPROVED"
  BY DEF Onward
<1>5. /\ 0 + 1 = 1 /\ 1 + 1 = 2 /\ 2 + 1 = 3 /\ 3 + 1 = 4 /\ 4 + 1 = 5
      /\ 0 \in 0..4 /\ 1 \in 0..4 /\ 2 \in 0..4 /\ 3 \in 0..4 /\ 4 \in 0..4
  OBVIOUS
<1> QED
  BY <1>1, <1>2, <1>3, <1>4, <1>5, StatesKnown

(* Only one run moves in a step. *)
OthersStand(p) ==
    \A o \in Runs \ {p} : pc'[o] = pc[o] /\ history'[o] = history[o] /\ trail'[o] = trail[o]

LEMMA TrailSuitsStep ==
    ASSUME AuditOrder, NEW p \in Runs, OthersStand(p),
           TrailSuits(pc'[p], Last(history'[p]), trail'[p])
    PROVE  AuditOrder'
<1> SUFFICES ASSUME NEW o \in Runs PROVE TrailSuits(pc'[o], Last(history'[o]), trail'[o])
  BY DEF AuditOrder, State
<1>1. CASE o = p
  BY <1>1
<1>2. CASE o # p
  BY <1>2 DEF OthersStand, AuditOrder, State
<1> QED
  BY <1>1, <1>2

LEMMA StepStands ==
    ASSUME IInv, NEW p \in Runs, Moves(p)
    PROVE  OthersStand(p)
<1>1. pc \in [Runs -> PCs] /\ history \in [Runs -> Seq(FSM!States)]
      /\ trail \in [Runs -> Seq(Events)]
  BY DEF IInv, TypeOK, FSM!TypeOK
<1> QED
  BY <1>1 DEF Moves, OthersStand, Goto, Enter, Audit

LEMMA StepAudited ==
    ASSUME IInv, AuditOrder, NEW p \in Runs, Step(p) \/ Failing(p)
    PROVE  AuditOrder'
<1>1. Moves(p) /\ OthersStand(p)
  BY StepMoves, StepStands
<1>2. /\ pc \in [Runs -> PCs] /\ trail[p] \in Seq(Events) /\ trail \in [Runs -> Seq(Events)]
      /\ history \in [Runs -> Seq(FSM!States)] /\ FSM!TypeOK
  BY DEF IInv, TypeOK, FSM!TypeOK
<1>3. TrailSuits(pc[p], State(p), trail[p])
  BY DEF AuditOrder
<1>4. ASSUME NEW label \in PCs \ OnTheWay, Goto(p, label) PROVE AuditOrder'
  <2>1. pc'[p] = label
    BY <1>2, <1>4 DEF Goto
  <2>2. TrailSuits(pc'[p], Last(history'[p]), trail'[p])
    BY <2>1 DEF TrailSuits, OnTheWay
  <2> QED
    BY <1>1, <2>2, TrailSuitsStep
<1>5. ASSUME NEW label \in PCs, NEW state \in FSM!States, Goto(p, label), Enter(p, state),
             TrailSuits(label, state, trail'[p])
      PROVE  AuditOrder'
  <2>1. pc'[p] = label
    BY <1>2, <1>5 DEF Goto
  <2>2. Last(history'[p]) = state
    BY <1>2, <1>5, EnterType DEF State
  <2> QED
    BY <1>1, <1>5, <2>1, <2>2, TrailSuitsStep
<1>6. ASSUME NEW label \in PCs, Goto(p, label), history' = history,
             TrailSuits(label, State(p), trail'[p])
      PROVE  AuditOrder'
  <2>1. pc'[p] = label
    BY <1>2, <1>6 DEF Goto
  <2>2. Last(history'[p]) = State(p)
    BY <1>6 DEF State
  <2> QED
    BY <1>1, <1>6, <2>1, <2>2, TrailSuitsStep
<1>7. CASE Begin(p)
  <2>1. Holds(trail[p], 0) /\ trail' = trail
    BY <1>3, <1>7 DEF Begin, TrailSuits, tables
  <2>2. TrailSuits("reserve", "VALIDATING", trail'[p]) /\ "reserve" \in PCs
    BY <2>1 DEF TrailSuits, PCs, TryPCs, DbPCs
  <2> QED
    BY <1>5, <1>7, <2>2, StatesKnown DEF Begin
<1>8. CASE Reserve(p)
  <2>1. /\ Holds(trail[p], 0) /\ trail' = trail /\ history' = history
        /\ State(p) = "VALIDATING" /\ Goto(p, "gate")
    BY <1>3, <1>8 DEF Reserve, TrailSuits, IInv, Control, InPlace, At
  <2>2. TrailSuits("gate", State(p), trail'[p]) /\ "gate" \in PCs
    BY <2>1, StageOnward DEF TrailSuits, PCs, TryPCs, DbPCs
  <2> QED
    BY <1>6, <2>1, <2>2
<1>9. CASE PassGate(p)
  <2> DEFINE s == State(p)
  <2>1. s \in DOMAIN Onward /\ Holds(trail[p], Stage[s])
    BY <1>3, <1>9 DEF PassGate, TrailSuits, IInv, Control, InPlace, At, Gates
  <2>2. /\ Stage[s] \in 0..4 /\ Stage[Onward[s]] = Stage[s] + 1
        /\ Verdict[s] = LaunchTrail[Stage[s] + 1] /\ Verdict[s] \in Events
        /\ Onward[s] \in FSM!States
    BY <2>1, StageOnward, StatesKnown, EventsKnown
  <2>3. trail'[p] = Append(trail[p], Verdict[s])
    BY <1>9, <1>2, <2>2, AuditType DEF PassGate
  <2>4. Stage[s] \in 0..6
    BY <2>2
  <2> HIDE DEF s
  <2>5. Holds(trail'[p], Stage[Onward[s]])
    BY <1>2, <2>1, <2>2, <2>3, <2>4, HoldsMore
  <2>6. TrailSuits("gate", Onward[s], trail'[p]) /\ "gate" \in PCs
    BY <2>5 DEF TrailSuits, PCs, TryPCs, DbPCs
  <2>7. Goto(p, "gate") /\ Enter(p, Onward[s])
    BY <1>9, <1>2 DEF PassGate, Goto, s
  <2> QED
    BY <1>5, <2>2, <2>6, <2>7
<1>10. CASE Prepare(p)
  <2>1. /\ Holds(trail[p], 5) /\ history' = history /\ Goto(p, "lease")
        /\ Audit(p, Verdict["APPROVED"])
    BY <1>3, <1>10, StageOnward DEF Prepare, TrailSuits
  <2>2. Verdict["APPROVED"] = LaunchTrail[5 + 1] /\ Verdict["APPROVED"] \in Events
    BY StageOnward, StatesKnown, EventsKnown
  <2>3. trail'[p] = Append(trail[p], LaunchTrail[5 + 1])
    BY <1>2, <2>1, <2>2, AuditType
  <2>4. Holds(trail'[p], 5 + 1) /\ 5 \in 0..6 /\ 5 + 1 = 6
    BY <1>2, <2>1, <2>2, <2>3, HoldsMore
  <2>5. TrailSuits("lease", State(p), trail'[p]) /\ "lease" \in PCs
    BY <2>4 DEF TrailSuits, PCs, TryPCs, DbPCs
  <2> QED
    BY <1>6, <2>1, <2>5
<1>11. CASE AcquireLease(p)
  <2>1. Holds(trail[p], 6) /\ trail' = trail
    BY <1>3, <1>11 DEF AcquireLease, TrailSuits
  <2>2. TrailSuits("announce", "EXECUTING", trail'[p]) /\ "announce" \in PCs
    BY <2>1 DEF TrailSuits, PCs, TryPCs, DbPCs
  <2> QED
    BY <1>5, <1>11, <2>2, StatesKnown DEF AcquireLease
<1>12. CASE Announce(p)
  <2>1. Holds(trail[p], 6) /\ history' = history /\ Goto(p, "spawn") /\ Audit(p, "EXECUTING")
    BY <1>3, <1>12 DEF Announce, TrailSuits, local
  <2>2. "EXECUTING" = LaunchTrail[6 + 1] /\ "EXECUTING" \in Events
    BY StageOnward, EventsKnown
  <2>3. trail'[p] = Append(trail[p], LaunchTrail[6 + 1])
    BY <1>2, <2>1, <2>2, AuditType
  <2>4. Holds(trail'[p], 6 + 1) /\ 6 \in 0..6 /\ 6 + 1 = 7
    BY <1>2, <2>1, <2>2, <2>3, HoldsMore
  <2>5. TrailSuits("spawn", State(p), trail'[p]) /\ "spawn" \in PCs
    BY <2>4 DEF TrailSuits, PCs, TryPCs, DbPCs
  <2> QED
    BY <1>6, <2>1, <2>5
<1>13. CASE PutEvidence(p) \/ PutFinding(p)
  <2>1. UNCHANGED <<pc, history, trail>>
    BY <1>13 DEF PutEvidence, PutFinding, local
  <2> QED
    BY <2>1 DEF AuditOrder, State
<1> HIDE DEF TrailSuits
<1>14. CASE Admission(p)
  BY <1>4, <1>7, <1>8, <1>14
     DEF Admission, RefuseIdentity, RefuseDuplicate, Fail, PCs, FinallyPCs, OnTheWay
<1>15. CASE Gating(p)
  BY <1>4, <1>9, <1>10, <1>15
     DEF Gating, RefuseAtGate, DenyScope, NeedApproval, PutApproval, ReportPending, Fail, PCs,
         TryPCs, DbPCs, FinallyPCs, OnTheWay
<1>16. CASE Execution(p)
  BY <1>4, <1>11, <1>12, <1>13, <1>16
     DEF Execution, RefuseLease, RefuseLaunch, Launch, WorkerFails, WorkerSucceeds, ReportTool,
         RejectOutput, AcceptOutput, Complete, Fail, PCs, TryPCs, DbPCs, FinallyPCs, OnTheWay
<1>17. CASE Ending(p) \/ Failing(p)
  BY <1>4, <1>17
     DEF Ending, Release, ReleaseFails, Finish, SaveLedger, LoseLedger, SaveResult, Return,
         Failing, StoreFails, LoseResult, Interrupt,
         InterruptReserve, InterruptLease, InterruptAudit, Crash, Fail, PCs, FinallyPCs, EndPCs,
         OnTheWay
<1> QED
  BY <1>14, <1>15, <1>16, <1>17 DEF Step

LEMMA StepKept ==
    ASSUME IInv, AuditOrder, AuditKept, NEW p \in Runs, Step(p) \/ Failing(p)
    PROVE  AuditKept'
<1>1. Moves(p)
  BY StepMoves
<1>2. trail \in [Runs -> Seq(Events)] /\ launched \subseteq Runs
  BY DEF IInv, TypeOK
<1>3. ASSUME NEW o \in Runs, Begins(trail[o], 7) PROVE Begins(trail'[o], 7)
  <2>1. CASE trail'[o] = trail[o]
    BY <1>3, <2>1
  <2>2. CASE trail'[o] # trail[o]
    <3>1. PICK event \in Events : Audit(p, event)
      BY <1>1, <2>2 DEF Moves
    <3>2. trail'[o] = Append(trail[o], event)
      BY <1>2, <2>2, <3>1, AuditType
    <3> QED
      BY <1>2, <1>3, <3>2, BeginsStays
  <2> QED
    BY <2>1, <2>2
<1>4. CASE Launch(p)
  <2>1. pc[p] = "spawn" /\ launched' = launched \cup {p}
    BY <1>4 DEF Launch
  <2>2. Begins(trail[p], 7)
    BY <2>1 DEF AuditOrder, TrailSuits, Holds
  <2>3. \A o \in launched' : o \in Runs /\ Begins(trail[o], 7)
    BY <1>2, <2>1, <2>2 DEF AuditKept
  <2> QED
    BY <1>3, <2>3 DEF AuditKept
<1>5. CASE launched' = launched
  BY <1>2, <1>3, <1>5 DEF AuditKept
<1> QED
  BY <1>4, <1>5, MostAreQuiet
     DEF IInv, Quiet, Reserve, InterruptReserve, SaveResult, PutEvidence, PutFinding, PassGate,
         local

(* "NEVER execute without audit" (noble/audit.py): however runs interleave *)
(* and whatever fails, a worker starts only after the log holds the six    *)
(* verdicts of its run and the announcement, and they stay there.          *)
THEOREM NoLaunchUnaudited == Spec => []LaunchAudited
<1>1. Init => AuditOrder /\ AuditKept
  <2> SUFFICES ASSUME Init PROVE AuditOrder /\ AuditKept
    OBVIOUS
  <2>1. \A p \in Runs : pc[p] = "idle" /\ trail[p] = <<>>
    BY DEF Init
  <2>2. Holds(<<>>, 0)
    BY DEF Holds, Begins
  <2>3. \A p \in Runs : TrailSuits(pc[p], State(p), trail[p])
    BY <2>1, <2>2 DEF TrailSuits
  <2> QED
    BY <2>3 DEF AuditOrder, AuditKept, Init
<1>2. IInv /\ AuditOrder /\ AuditKept /\ [Next]_vars => (AuditOrder /\ AuditKept)'
  <2>1. ASSUME UNCHANGED vars, AuditOrder, AuditKept PROVE (AuditOrder /\ AuditKept)'
    BY <2>1 DEF vars, local, tables, AuditOrder, AuditKept, State
  <2> QED
    BY <2>1, StepAudited, StepKept DEF Next, Finished
<1>3. IInv /\ AuditKept => LaunchAudited
  <2> SUFFICES ASSUME IInv, AuditKept, NEW p \in launched
               PROVE  IsPrefix(LaunchTrail, trail[p])
    BY DEF LaunchAudited
  <2>1. trail[p] \in Seq(Events) /\ Begins(trail[p], 7)
    BY DEF IInv, TypeOK, AuditKept
  <2>2. LaunchTrail \in Seq(Events) /\ Len(LaunchTrail) = 7
    <3>1. /\ Verdict["VALIDATING"] \in Events /\ Verdict["SCOPE_CHECK"] \in Events
          /\ Verdict["AUTHORIZATION_CHECK"] \in Events /\ Verdict["RISK_ASSESSMENT"] \in Events
          /\ Verdict["WAITING_FOR_APPROVAL"] \in Events /\ Verdict["APPROVED"] \in Events
      BY StatesKnown, EventsKnown
    <3>2. /\ "REQUESTED" \in Events /\ "ALLOW" \in Events /\ "AUTHORIZED" \in Events
          /\ "CLASSIFIED" \in Events /\ "APPROVAL_CHECKED" \in Events
          /\ "PRECONDITIONS_PASSED" \in Events
      BY <3>1 DEF Verdict
    <3>3. <<"REQUESTED", "ALLOW", "AUTHORIZED", "CLASSIFIED", "APPROVAL_CHECKED",
            "PRECONDITIONS_PASSED", "EXECUTING">> \in Seq(Events)
      BY <3>2, EventsKnown
    <3>4. LaunchTrail \in Seq(Events)
      BY <3>3 DEF LaunchTrail
    <3>5. Len(LaunchTrail) = 7
      BY DEF LaunchTrail
    <3> QED
      BY <3>4, <3>5
  <2>3. SubSeq(trail[p], 1, 7) = SubSeq(LaunchTrail, 1, 7)
    BY <2>1, <2>2 DEF Begins
  <2> QED
    BY <2>1, <2>2, <2>3 DEF IsPrefix, Begins
<1> QED
  BY <1>1, <1>2, <1>3, Invariance, PTL DEF Spec

-----------------------------------------------------------------------------
(* What the refinement of StateMachine gives for free. *)
Path == INSTANCE Promises_proofs WITH
            history <- [p \in Runs |-> Accepted(p)], status <- [q \in Requests |-> StatusOf(q)]

Begun == \A p \in launched : Path!Started(history[p])

LEMMA StepBegun ==
    ASSUME IInv, Begun, NEW p \in Runs, Step(p) \/ Failing(p)
    PROVE  Begun'
<1>1. Moves(p)
  BY StepMoves
<1>2. /\ history \in [Runs -> Seq(FSM!States)] /\ launched \subseteq Runs
      /\ \A o \in Runs : history[o] # <<>>
  BY DEF IInv, TypeOK, FSM!TypeOK
<1>3. ASSUME NEW o \in Runs, Path!Started(history[o]) PROVE Path!Started(history'[o])
  <2>1. CASE history'[o] = history[o]
    BY <1>3, <2>1
  <2>2. CASE history'[o] # history[o]
    <3>1. PICK state \in FSM!States : history'[o] = Append(history[o], state)
      BY <1>1, <1>2, <2>2 DEF Moves, Enter
    <3>2. PICK i \in 1..Len(history[o]) : history[o][i] \in Path!WorkStates
      BY <1>3 DEF Path!Started
    <3>3. i \in 1..Len(history'[o]) /\ history'[o][i] = history[o][i]
      BY <1>2, <3>1
    <3> QED
      BY <3>2, <3>3 DEF Path!Started
  <2> QED
    BY <2>1, <2>2
<1>4. CASE Launch(p)
  <2>1. pc[p] = "spawn" /\ launched' = launched \cup {p}
    BY <1>4 DEF Launch
  <2>2. history[p][Len(history[p])] = "EXECUTING" /\ Len(history[p]) \in 1..Len(history[p])
    BY <1>2, <2>1 DEF IInv, Control, InPlace, At, State, Last
  <2>3. Path!Started(history[p])
    BY <2>2 DEF Path!Started, Path!WorkStates
  <2> QED
    BY <1>2, <1>3, <2>1, <2>3 DEF Begun
<1>5. CASE launched' = launched
  BY <1>2, <1>3, <1>5 DEF Begun
<1> QED
  BY <1>4, <1>5, MostAreQuiet
     DEF IInv, Quiet, Reserve, InterruptReserve, SaveResult, PutEvidence, PutFinding, PassGate,
         local

(* The state that lease_cleanup_failed overrules is not one of a worker.   *)
LEMMA StartedAccepted ==
    ASSUME IInv, NEW p \in Runs, Path!Started(history[p])
    PROVE  Path!Started(Accepted(p))
<1>1. history[p] \in Seq(FSM!States) /\ history[p] # <<>>
  BY DEF IInv, TypeOK, FSM!TypeOK
<1>2. PICK i \in 1..Len(history[p]) : history[p][i] \in Path!WorkStates
  BY DEF Path!Started
<1>3. CASE Overruled(history[p])
  <2>1. i # Len(history[p])
    BY <1>2, <1>3 DEF Overruled, Path!WorkStates
  <2>2. /\ Len(Front(history[p])) = Len(history[p]) - 1
        /\ \A k \in 1..(Len(history[p]) - 1) : Front(history[p])[k] = history[p][k]
    BY <1>1, FrontIs
  <2>3. i \in 1..Len(Front(history[p])) /\ Front(history[p])[i] = history[p][i]
    BY <1>1, <1>2, <2>1, <2>2
  <2> QED
    BY <1>2, <1>3, <2>3 DEF Path!Started, Accepted
<1> QED
  BY <1>3 DEF Accepted

LEMMA PrefixAccepted ==
    ASSUME IInv, NEW p \in Runs, IsPrefix(FSM!GatePath, Accepted(p))
    PROVE  IsPrefix(FSM!GatePath, history[p])
<1>1. history[p] \in Seq(FSM!States) /\ history[p] # <<>>
  BY DEF IInv, TypeOK, FSM!TypeOK
<1>2. CASE Overruled(history[p])
  <2>1. /\ Len(Front(history[p])) = Len(history[p]) - 1 /\ Len(history[p]) \in Nat
        /\ \A k \in 1..(Len(history[p]) - 1) : Front(history[p])[k] = history[p][k]
    BY <1>1, FrontIs
  <2>2. PICK n \in Nat : n = Len(FSM!GatePath)
    BY DEF FSM!GatePath
  <2>3. /\ n <= Len(Front(history[p]))
        /\ SubSeq(FSM!GatePath, 1, n) = SubSeq(Front(history[p]), 1, n)
    BY <1>2, <2>2 DEF IsPrefix, Accepted
  <2>4. n <= Len(history[p]) /\ \A k \in 1..n : Front(history[p])[k] = history[p][k]
    BY <2>1, <2>3
  <2>5. SubSeq(Front(history[p]), 1, n) = SubSeq(history[p], 1, n)
    <3>1. Front(history[p]) \in Seq(FSM!States)
      BY <1>1, FrontIs
    <3> QED
      BY <1>1, <2>3, <2>4, <3>1, SameStart
  <2> QED
    BY <2>2, <2>3, <2>4, <2>5 DEF IsPrefix
<1> QED
  BY <1>2 DEF Accepted

LEMMA LifecycleIsPath == Lifecycle!Spec => Path!Spec
<1>1. /\ Lifecycle!States = Path!States /\ Lifecycle!GatePath = Path!GatePath
      /\ Lifecycle!TerminalStates = Path!TerminalStates
      /\ Lifecycle!AllowedTransitions = Path!AllowedTransitions
  BY DEF Lifecycle!States, Path!States, Lifecycle!GatePath, Path!GatePath,
         Lifecycle!TerminalStates, Path!TerminalStates, Lifecycle!WorkStates, Path!WorkStates,
         Lifecycle!AllowedTransitions, Path!AllowedTransitions
<1>2. ASSUME NEW from, NEW to
      PROVE  Lifecycle!ValidTransition(from, to) <=> Path!ValidTransition(from, to)
  BY <1>1 DEF Lifecycle!ValidTransition, Path!ValidTransition, Lifecycle!CanTransition,
              Path!CanTransition, Lifecycle!CanEnd, Path!CanEnd
<1>3. Lifecycle!Init => Path!Init
  BY DEF Lifecycle!Init, Path!Init
<1>4. [Lifecycle!Next]_Kept => [Path!Next]_Kept
  BY <1>1, <1>2 DEF Lifecycle!Next, Path!Next, Lifecycle!Advance, Path!Advance, Lifecycle!Last,
                    Path!Last
<1> QED
  BY <1>3, <1>4, PTL DEF Lifecycle!Spec, Path!Spec, Kept

(* What validate_transition guarantees to any caller holds of the engine:  *)
(* a worker belongs to a run that was in EXECUTING, which only the gates   *)
(* lead to, whatever fails and whatever is written over its history.       *)
THEOREM NoLaunchUngated == Spec => []LaunchGated
<1>1. Spec => []Path!GatesNotSkipped
  BY ImplementsStateMachine, LifecycleIsPath, Path!NoGateSkipped, PTL DEF FollowsStateMachine
<1>2. Init => Begun
  BY DEF Init, Begun
<1>3. IInv /\ Begun /\ [Next]_vars => Begun'
  <2>1. ASSUME UNCHANGED vars, Begun PROVE Begun'
    BY <2>1 DEF vars, local, tables, Begun
  <2> QED
    BY <2>1, StepBegun DEF Next, Finished
<1>4. Begun /\ Path!GatesNotSkipped /\ IInv => LaunchGated
  <2> SUFFICES ASSUME Begun, Path!GatesNotSkipped, IInv, NEW p \in launched
               PROVE  IsPrefix(FSM!GatePath, history[p])
    BY DEF LaunchGated
  <2>1. FSM!GatePath = Path!GatePath /\ p \in Runs
    BY DEF FSM!GatePath, Path!GatePath, IInv, TypeOK
  <2>2. Path!Started(Accepted(p))
    BY <2>1, StartedAccepted DEF Begun
  <2>3. IsPrefix(FSM!GatePath, Accepted(p))
    BY <2>1, <2>2 DEF Path!GatesNotSkipped, IsPrefix, Path!IsPrefix
  <2> QED
    BY <2>1, <2>3, PrefixAccepted
<1> QED
  BY <1>1, <1>2, <1>3, <1>4, Invariance, PTL DEF Spec

(* And nothing but that FAILED follows a terminal state of a history.      *)
THEOREM NoStateFollowsAnEnd == Spec => []Path!EndsOnce
BY ImplementsStateMachine, LifecycleIsPath, Path!NoReturn, PTL DEF FollowsStateMachine

-----------------------------------------------------------------------------
(* How runs end, and what they leave in the tables.                        *)
AfterRelease == {"finish", "ledger", "save", "returned", "unsaved"}
RunSettled(p) ==
    /\ pc[p] \in {"ledger", "save", "returned"} => Last(trail[p]) = "FINISHED"
    /\ State(p) = "COMPLETED" => p \in owners
    /\ p \in leases /\ pc[p] \in AfterRelease => State(p) = "FAILED"
RunsSettled == \A p \in Runs : RunSettled(p)

RowSettled(row) ==
    /\ row.run \in owners /\ pc[row.run] = "returned"
    /\ row.states = history[row.run]
    /\ RequestOf[row.run] \notin reservations
RowsSettled ==
    /\ \A row \in results : RowSettled(row)
    /\ \A row, other \in results : row.run = other.run => row = other
    /\ \A p \in owners : pc[p] = "returned" => \E row \in results : row.run = p

(* A step of p adds no claim or lease of another run, and takes no claim. *)
LEMMA StepOthers ==
    ASSUME IInv, NEW p \in Runs, Step(p) \/ Failing(p)
    PROVE  owners \subseteq owners' /\ leases' \subseteq leases \cup {p}
<1>1. CASE AcquireLease(p) \/ InterruptLease(p)
  BY <1>1 DEF AcquireLease, InterruptLease, InsertLease, local
<1>2. CASE ~(AcquireLease(p) \/ InterruptLease(p))
  BY <1>2
     DEF Step, Failing, Admission, Gating, Execution, Ending, local,
         tables, Begin, RefuseIdentity, Reserve, RefuseDuplicate, PassGate, Prepare,
         RefuseAtGate, DenyScope, NeedApproval, PutApproval, ReportPending, RefuseLease,
         Announce, RefuseLaunch, Launch, WorkerFails, WorkerSucceeds, ReportTool, RejectOutput,
         AcceptOutput, PutEvidence, PutFinding, Complete, Release, ReleaseFails, Finish,
         SaveLedger, LoseLedger, SaveResult, Return, StoreFails, LoseResult, Interrupt,
         InterruptReserve, InterruptLease, InterruptAudit, Crash
<1> QED
  BY <1>1, <1>2

(* The run that takes the step. *)
LEMMA MoverSettled ==
    ASSUME IInv, NEW p \in Runs, RunSettled(p), Step(p) \/ Failing(p)
    PROVE  RunSettled(p)'
<1>1. /\ pc \in [Runs -> PCs] /\ FSM!TypeOK /\ trail \in [Runs -> Seq(Events)]
      /\ trail[p] \in Seq(Events)
  BY DEF IInv, TypeOK
<1>2. owners \subseteq owners' /\ leases' \subseteq leases \cup {p}
  BY StepOthers
<1>3. ASSUME NEW label \in PCs, Goto(p, label) PROVE pc'[p] = label
  BY <1>1, <1>3, GotoType
<1>4. ASSUME history' = history PROVE State(p)' = State(p)
  BY <1>4 DEF State
<1>5. ASSUME NEW state \in FSM!States, Enter(p, state) PROVE State(p)' = state
  BY <1>1, <1>5, EnterType
<1>6. ASSUME NEW label \in PCs \ AfterRelease, Goto(p, label),
             history' = history \/ \E state \in FSM!States \ {"COMPLETED"} : Enter(p, state)
      PROVE  RunSettled(p)'
  <2>1. pc'[p] = label /\ label \notin {"ledger", "save", "returned"}
    BY <1>3, <1>6 DEF AfterRelease
  <2>2. State(p)' = "COMPLETED" => p \in owners'
    BY <1>2, <1>4, <1>5, <1>6 DEF RunSettled
  <2> QED
    BY <1>6, <2>1, <2>2 DEF RunSettled
<1>7. ASSUME NEW label \in PCs, Goto(p, label), history' = history, trail' = trail,
             p \in leases' => p \in leases /\ pc[p] \in AfterRelease,
             label \in {"ledger", "save", "returned"} => pc[p] \in {"ledger", "save"}
      PROVE  RunSettled(p)'
  BY <1>2, <1>3, <1>4, <1>7 DEF RunSettled
<1> USE StatesKnown DEF PCs, TryPCs, DbPCs, FinallyPCs, EndPCs, AfterRelease
<1>8. CASE PassGate(p)
  <2>1. State(p) \in DOMAIN Onward /\ pc[p] = "gate" /\ Goto(p, "gate")
    BY <1>1, <1>8 DEF PassGate, IInv, Control, InPlace, At, Gates, Goto
  <2>2. Onward[State(p)] \in FSM!States \ {"COMPLETED"}
    BY <2>1 DEF Onward
  <2> QED
    BY <1>6, <1>8, <2>1, <2>2 DEF PassGate
<1>9. CASE Complete(p)
  <2>1. p \in owners /\ pc'[p] = "cleanup" /\ State(p)' = "COMPLETED"
    BY <1>3, <1>5, <1>9 DEF Complete, IInv, Claims, OwnersClaim, Claiming
  <2> QED
    BY <1>2, <2>1 DEF RunSettled
<1>10. CASE PutEvidence(p) \/ PutFinding(p)
  BY <1>10 DEF PutEvidence, PutFinding, local, RunSettled, State
<1>11. CASE Admission(p)
  BY <1>6, <1>11 DEF Admission, Begin, RefuseIdentity, Reserve, RefuseDuplicate, Fail
<1>12. CASE Gating(p)
  BY <1>6, <1>8, <1>12
     DEF Gating, Prepare, RefuseAtGate, DenyScope, NeedApproval, PutApproval, ReportPending,
         Fail, local
<1>13. CASE Execution(p)
  BY <1>6, <1>9, <1>10, <1>13
     DEF Execution, AcquireLease, RefuseLease, Announce, RefuseLaunch, Launch, WorkerFails,
         WorkerSucceeds, ReportTool, RejectOutput, AcceptOutput, Fail, local
<1>14. CASE Release(p)
  BY <1>7, <1>14 DEF Release, local
<1>15. CASE ReleaseFails(p)
  <2>1. pc'[p] = "finish" /\ State(p)' = "FAILED"
    BY <1>3, <1>4, <1>5, <1>15 DEF ReleaseFails
  <2> QED
    BY <2>1 DEF RunSettled
<1>16. CASE Finish(p)
  <2>1. /\ pc[p] = "finish" /\ pc'[p] = "ledger" /\ State(p)' = State(p)
        /\ trail'[p] = Append(trail[p], "FINISHED") /\ leases' = leases
    BY <1>1, <1>3, <1>4, <1>16, AuditType, EventsKnown DEF Finish, local
  <2>2. Last(trail'[p]) = "FINISHED"
    BY <1>1, <2>1, AppendProperties, EventsKnown DEF Last
  <2> QED
    BY <1>2, <2>1, <2>2 DEF RunSettled
<1>17. CASE SaveLedger(p) \/ LoseLedger(p) \/ SaveResult(p) \/ Return(p) \/ LoseResult(p)
  BY <1>7, <1>17
     DEF SaveLedger, LoseLedger, SaveResult, Return, LoseResult, local, tables
<1>18. CASE Failing(p)
  BY <1>6, <1>17, <1>18
     DEF Failing, StoreFails, Interrupt, InterruptReserve, InterruptLease, InterruptAudit,
         Crash, Fail, local
<1> QED
  BY <1>11, <1>12, <1>13, <1>14, <1>15, <1>16, <1>17, <1>18 DEF Step, Ending

LEMMA StepRuns ==
    ASSUME IInv, RunsSettled, NEW p \in Runs, Step(p) \/ Failing(p)
    PROVE  RunsSettled'
<1> SUFFICES ASSUME NEW o \in Runs PROVE RunSettled(o)'
  BY DEF RunsSettled
<1>1. CASE o = p
  BY <1>1, MoverSettled DEF RunsSettled
<1>2. CASE o # p
  <2>1. OthersStand(p)
    BY StepMoves, StepStands
  <2>2. pc'[o] = pc[o] /\ history'[o] = history[o] /\ trail'[o] = trail[o]
    BY <1>2, <2>1 DEF OthersStand
  <2>3. owners \subseteq owners' /\ (o \in leases' => o \in leases)
    BY <1>2, StepOthers
  <2> QED
    BY <2>2, <2>3 DEF RunsSettled, RunSettled, State
<1> QED
  BY <1>1, <1>2

(* Only put_result lets an owner return. *)
LEMMA OwnersReturn ==
    ASSUME IInv, NEW p \in Runs, Step(p) \/ Failing(p), pc'[p] = "returned"
    PROVE  SaveResult(p) \/ Return(p)
<1>1. pc \in [Runs -> PCs]
  BY DEF IInv, TypeOK
<1>2. ASSUME NEW label \in PCs, Goto(p, label) PROVE label = "returned"
  BY <1>1, <1>2, GotoType
<1>3. ASSUME pc' = pc, pc[p] \in TryPCs PROVE FALSE
  BY <1>3 DEF TryPCs, DbPCs
<1> QED
  BY <1>2, <1>3
     DEF PCs, TryPCs, DbPCs, FinallyPCs, EndPCs,
         Step, Failing, Admission, Gating, Execution, Ending, local,
         tables, Begin, RefuseIdentity, Reserve, RefuseDuplicate, PassGate, Prepare,
         RefuseAtGate, DenyScope, NeedApproval, PutApproval, ReportPending, AcquireLease,
         RefuseLease, Announce, RefuseLaunch, Launch, WorkerFails, WorkerSucceeds, ReportTool,
         RejectOutput, AcceptOutput, PutEvidence, PutFinding, Complete, Release, ReleaseFails,
         Finish, SaveLedger, LoseLedger, StoreFails, LoseResult, Interrupt,
         InterruptReserve, InterruptLease, InterruptAudit, Crash, Fail

LEMMA StepSettled ==
    ASSUME IInv, RowsSettled, NEW p \in Runs, Step(p) \/ Failing(p)
    PROVE  RowsSettled'
<1>1. /\ OthersStand(p) /\ owners \subseteq owners' /\ owners \subseteq Runs
      /\ pc \in [Runs -> PCs]
  BY StepMoves, StepStands, StepOthers DEF IInv, TypeOK
<1>2. ASSUME results' = results, pc[p] # "returned",
             \A row \in results : RequestOf[row.run] \notin reservations',
             owners' = owners \/ (owners' = owners \cup {p} /\ pc'[p] # "returned")
      PROVE  RowsSettled'
  <2>1. ASSUME NEW row \in results PROVE RowSettled(row)'
    <3>1. RowSettled(row) /\ row.run \in Runs \ {p}
      BY <1>1, <1>2 DEF RowsSettled, RowSettled
    <3> QED
      BY <1>1, <1>2, <3>1 DEF RowSettled, OthersStand
  <2>2. ASSUME NEW o \in owners', pc'[o] = "returned" PROVE \E row \in results : row.run = o
    <3>1. CASE o = p
      <4>1. p \in owners /\ ~SaveResult(p) => FALSE
        BY <2>2, <3>1, <1>2, OwnersReturn DEF Return
      <4>2. SaveResult(p) => ResultOf(p) \in results /\ ResultOf(p).run = p
        BY <1>2 DEF SaveResult, ResultOf
      <4> QED
        BY <1>2, <2>2, <3>1, <4>1, <4>2
    <3>2. CASE o # p
      BY <1>1, <1>2, <2>2, <3>2 DEF RowsSettled, OthersStand
    <3> QED
      BY <3>1, <3>2
  <2> QED
    BY <1>2, <2>1, <2>2 DEF RowsSettled
<1>3. ASSUME Reserve(p) \/ InterruptReserve(p) PROVE RowsSettled'
  <2>1. /\ pc[p] = "reserve" /\ ~Taken(RequestOf[p]) /\ results' = results
        /\ reservations' = reservations \cup {RequestOf[p]}
        /\ owners' = owners \/ owners' = owners \cup {p}
        /\ Goto(p, "gate") \/ Goto(p, "cleanup")
    BY <1>3 DEF Reserve, InterruptReserve, local
  <2>2. pc'[p] # "returned"
    BY <1>1, <2>1 DEF Goto
  <2>3. \A row \in results : RequestOf[row.run] \notin reservations'
    BY <2>1 DEF Taken, RowsSettled, RowSettled
  <2> QED
    BY <1>2, <2>1, <2>2, <2>3
<1>4. ASSUME SaveResult(p) PROVE RowsSettled'
  <2>1. /\ pc[p] = "save" /\ p \in owners /\ results' = results \cup {ResultOf(p)}
        /\ reservations' = reservations \ {RequestOf[p]} /\ owners' = owners
        /\ history' = history /\ pc'[p] = "returned"
    BY <1>1, <1>4 DEF SaveResult, local, Goto
  <2>2. ASSUME NEW row \in results PROVE row.run # p /\ RowSettled(row)'
    <3>1. RowSettled(row) /\ row.run # p
      BY <2>1 DEF RowsSettled, RowSettled
    <3> QED
      BY <1>1, <2>1, <3>1 DEF RowSettled, OthersStand
  <2>3. ResultOf(p).run = p /\ ResultOf(p).states = history[p]
    BY DEF ResultOf
  <2>4. RowSettled(ResultOf(p))'
    BY <2>1, <2>3 DEF RowSettled, ResultOf
  <2>5. \A o \in owners : pc'[o] = "returned" => \E row \in results' : row.run = o
    BY <1>1, <2>1, <2>3 DEF RowsSettled, OthersStand
  <2>6. \A row, other \in results' : row.run = other.run => row = other
    BY <2>1, <2>2, <2>3 DEF RowsSettled
  <2>7. ASSUME NEW row \in results' PROVE RowSettled(row)'
    <3>1. CASE row \in results
      BY <2>2, <3>1
    <3>2. CASE row = ResultOf(p)
      BY <2>1, <2>3, <3>2 DEF RowSettled
    <3> QED
      BY <2>1, <3>1, <3>2
  <2> QED
    BY <2>1, <2>5, <2>6, <2>7 DEF RowsSettled
<1>5. ASSUME Quiet(p) \/ Launch(p) \/ PutEvidence(p) \/ PutFinding(p) \/ PassGate(p)
      PROVE  RowsSettled'
  <2>1. /\ results' = results /\ reservations' = reservations /\ owners' = owners
        /\ pc[p] # "returned"
    BY <1>5 DEF Quiet, Forward, Launch, PutEvidence, PutFinding, PassGate, local
  <2> QED
    BY <1>2, <2>1 DEF RowsSettled, RowSettled
<1> QED
  BY <1>3, <1>4, <1>5, MostAreQuiet DEF IInv

LEMMA Settled == Spec => [](RunsSettled /\ RowsSettled)
<1>1. Init => RunsSettled /\ RowsSettled
  <2> SUFFICES ASSUME Init PROVE RunsSettled /\ RowsSettled
    OBVIOUS
  <2>1. IInv
    BY InitIInv
  <2>2. ASSUME NEW p \in Runs PROVE RunSettled(p)
    <3>1. pc[p] = "idle" /\ p \notin leases
      BY DEF Init
    <3>2. State(p) = "CREATED"
      BY <2>1, <3>1 DEF IInv, Control, InPlace, At
    <3> QED
      BY <3>1, <3>2 DEF RunSettled
  <2> QED
    BY <2>2 DEF Init, RunsSettled, RowsSettled
<1>2. IInv /\ RunsSettled /\ RowsSettled /\ [Next]_vars => (RunsSettled /\ RowsSettled)'
  <2>1. ASSUME UNCHANGED vars, RunsSettled, RowsSettled PROVE (RunsSettled /\ RowsSettled)'
    BY <2>1 DEF vars, local, tables, RunsSettled, RunSettled, RowsSettled, RowSettled, State
  <2> QED
    BY <2>1, StepRuns, StepSettled DEF Next, Finished
<1> QED
  BY <1>1, <1>2, Invariance, PTL DEF Spec

(* However runs of one request interleave and fail: put_result leaves one  *)
(* row in the place of the reservation, for good, and FINISHED was the     *)
(* last thing its run appended to the audit log.                           *)
THEOREM ResultIsFinal == Spec => []ResultReplacesReservation
<1>1. IInv /\ RunsSettled /\ RowsSettled => ResultReplacesReservation
  <2> SUFFICES ASSUME IInv, RunsSettled, RowsSettled, NEW row \in results
               PROVE  /\ RequestOf[row.run] \notin reservations
                      /\ \A other \in results :
                            RequestOf[other.run] = RequestOf[row.run] => other = row
                      /\ Last(trail[row.run]) = "FINISHED"
    BY DEF ResultReplacesReservation
  <2>1. RowSettled(row) /\ row.run \in Runs
    BY DEF RowsSettled, RowSettled, IInv, TypeOK
  <2>2. \A other \in results : RequestOf[other.run] = RequestOf[row.run] => other = row
    BY DEF RowsSettled, RowSettled, IInv, Claims, ClaimsDiffer
  <2> QED
    BY <2>1, <2>2 DEF RowSettled, RunsSettled, RunSettled
<1> QED
  BY <1>1, Settled, Invariance, PTL

(* A caller of run that gets COMPLETED can rely on the table of requests,  *)
(* whatever the transactions of the finally clause met.                    *)
THEOREM CompletedIsStored == Spec => []CompletedIsDurable
<1>1. RunsSettled /\ RowsSettled => CompletedIsDurable
  <2> SUFFICES ASSUME RunsSettled, RowsSettled, NEW p \in Runs, pc[p] = "returned",
                      State(p) = "COMPLETED"
               PROVE  \E row \in results : row.run = p /\ Last(row.states) = "COMPLETED"
    BY DEF CompletedIsDurable
  <2>1. PICK row \in results : row.run = p
    BY DEF RunsSettled, RunSettled, RowsSettled
  <2>2. row.states = history[p]
    BY <2>1 DEF RowsSettled, RowSettled
  <2> QED
    BY <2>1, <2>2 DEF State
<1> QED
  BY <1>1, Settled, PTL

(* The finally clause gives the lease of a run back, or the run says that  *)
(* it could not; also when a lease of it was committed by a transaction    *)
(* that an interrupt cut off from the run.                                 *)
THEOREM LeasesGivenBack == Spec => []NoLeaseLeftBehind
<1>1. IInv /\ RunsSettled => NoLeaseLeftBehind
  BY DEF IInv, TypeOK, RunsSettled, RunSettled, NoLeaseLeftBehind, AfterRelease
<1> QED
  BY <1>1, Settled, Invariance, PTL

-----------------------------------------------------------------------------
(* What the loop over the observations leaves behind.                      *)
Item(p, obs, i) == [run |-> p, obs |-> obs, item |-> i]
EvidenceOrdered == \A e \in evidence : e.item = 2 => Item(e.run, e.obs, 1) \in evidence
FindingsSupported == \A f \in findings : \A i \in 1..f.items : Item(f.run, f.obs, i) \in evidence

(* The findings of a run are those of its first observations, and a run    *)
(* that completed has one for each.                                        *)
Body == {"idle"} \cup TryPCs
Count(p) == Cardinality(FindingsOf(p))
RunCollected(p) ==
    /\ {f.obs : f \in FindingsOf(p)} = 1..Count(p)
    /\ pc[p] \in Body \ {"collect"} => FindingsOf(p) = {}
    /\ Count(p) <= observed[p]
    /\ Completed(p) => pc[p] \notin Body /\ observed[p] <= Count(p)
RunsCollected == \A p \in Runs : RunCollected(p)

RowCollected(row) ==
    /\ row.findings \subseteq findings
    /\ Contains(row.states, "COMPLETED") => {f.obs : f \in row.findings} = 1..observed[row.run]
RowsCollected == \A row \in results : RowCollected(row)

(* The items behind an observation are numbered as they are counted. *)
LEMMA ItemsCounted ==
    ASSUME TypeOK, Bounded, EvidenceOrdered, NEW p \in Runs, NEW obs \in Nat
    PROVE  \A i \in 1..Cardinality(EvidenceFor(p, obs)) : Item(p, obs, i) \in evidence
<1> DEFINE c == Cardinality(EvidenceFor(p, obs))
<1>1. c \in 0..2
  BY EvidenceBound
<1>2. ASSUME NEW e \in EvidenceFor(p, obs)
      PROVE  /\ e.item \in {1, 2} /\ e = Item(p, obs, e.item)
             /\ Item(p, obs, 1) \in evidence
  <2>1. e \in EvidenceRows /\ e \in evidence /\ e.run = p /\ e.obs = obs
    BY DEF EvidenceFor, TypeOK
  <2>2. e.item \in {1, 2} /\ e = Item(p, obs, e.item)
    BY <2>1 DEF EvidenceRows, Item
  <2> QED
    BY <2>1, <2>2 DEF EvidenceOrdered
<1>3. c > 0 => Item(p, obs, 1) \in evidence
  <2>1. EvidenceFor(p, obs) = {} => c = 0
    BY FS_EmptySet
  <2> QED
    BY <1>2, <2>1
<1>4. c = 2 => Item(p, obs, 2) \in evidence
  <2> SUFFICES ASSUME Item(p, obs, 2) \notin evidence PROVE c # 2
    OBVIOUS
  <2>1. EvidenceFor(p, obs) \subseteq {Item(p, obs, 1)}
    BY <1>2 DEF EvidenceFor
  <2>2. IsFiniteSet({Item(p, obs, 1)}) /\ Cardinality({Item(p, obs, 1)}) = 1
    BY FS_Singleton
  <2>3. c <= 1
    BY <2>1, <2>2, FS_Subset
  <2> QED
    BY <1>1, <2>3
<1> HIDE DEF c
<1>5. ASSUME NEW i \in 1..c PROVE Item(p, obs, i) \in evidence
  <2>1. (i = 1 /\ c > 0) \/ (i = 2 /\ c = 2)
    BY <1>1
  <2> QED
    BY <1>3, <1>4, <2>1
<1> QED
  BY <1>5 DEF c

LEMMA CountType ==
    ASSUME Bounded, NEW p
    PROVE  IsFiniteSet(FindingsOf(p)) /\ Count(p) \in Nat
<1>1. FindingsOf(p) \subseteq findings
  BY DEF FindingsOf
<1> QED
  BY <1>1, FS_Subset, FS_CardinalityType DEF Bounded, Count

(* A step that adds no finding and reads no output. *)
LEMMA CollectedStays ==
    ASSUME NEW p \in Runs, RunCollected(p),
           findings' = findings, observed'[p] = observed[p],
           pc'[p] \in Body => pc[p] \in Body \ {"collect"} \/ pc'[p] = pc[p],
           Completed(p)' => Completed(p) \/ (pc'[p] \notin Body /\ observed[p] <= Count(p))
    PROVE  RunCollected(p)'
<1>1. FindingsOf(p)' = FindingsOf(p)
  BY DEF FindingsOf
<1>2. Count(p)' = Count(p)
  BY <1>1 DEF Count
<1> QED
  BY <1>1, <1>2 DEF RunCollected

LEMMA CompletedLater ==
    ASSUME IInv, NEW p \in Runs,
           history' = history \/ \E state \in FSM!States \ {"COMPLETED"} : Enter(p, state)
    PROVE  Completed(p)' => Completed(p)
<1>1. CASE history' = history
  BY <1>1 DEF Completed
<1>2. ASSUME NEW state \in FSM!States \ {"COMPLETED"}, Enter(p, state)
      PROVE  Completed(p)' => Completed(p)
  <2>1. history[p] \in Seq(FSM!States) /\ history'[p] = Append(history[p], state)
    BY <1>2, EnterType DEF IInv, TypeOK, FSM!TypeOK
  <2> QED
    BY <1>2, <2>1 DEF Completed, Contains
<1> QED
  BY <1>1, <1>2

(* The run that takes the step. *)
LEMMA MoverCollected ==
    ASSUME IInv, NEW p \in Runs, RunCollected(p), Step(p) \/ Failing(p)
    PROVE  RunCollected(p)'
<1>1. /\ pc \in [Runs -> PCs] /\ observed \in [Runs -> 0..MaxObservations]
      /\ MaxObservations \in Nat
  BY EngineAssumption DEF IInv, TypeOK
<1>2. Count(p) \in Nat /\ IsFiniteSet(FindingsOf(p)) /\ Current(p) = Count(p) + 1
  BY CountType DEF IInv, Current, Count
<1>3. ASSUME NEW label \in PCs, Goto(p, label), findings' = findings, observed' = observed,
             label \in Body => pc[p] \in Body \ {"collect"},
             history' = history \/ \E state \in FSM!States \ {"COMPLETED"} : Enter(p, state)
      PROVE  RunCollected(p)'
  BY <1>1, <1>3, GotoType, CollectedStays, CompletedLater
<1>4. CASE PutFinding(p)
  <2> DEFINE n == Cardinality(EvidenceFor(p, Current(p)))
             f == [run |-> p, obs |-> Current(p), items |-> n]
  <2>1. /\ findings' = findings \cup {f} /\ pc[p] = "collect" /\ Current(p) <= observed[p]
        /\ UNCHANGED <<pc, history, observed>>
    BY <1>4 DEF PutFinding, local
  <2>2. FindingsOf(p)' = FindingsOf(p) \cup {f}
    BY <2>1 DEF FindingsOf
  <2> HIDE DEF n
  <2>3. f \notin FindingsOf(p) /\ f.obs = Count(p) + 1
    <3>1. f.obs = Count(p) + 1
      BY <1>2
    <3>2. Count(p) + 1 \notin 1..Count(p)
      BY <1>2
    <3>3. \A g \in FindingsOf(p) : g.obs \in 1..Count(p)
      BY DEF RunCollected
    <3> QED
      BY <3>1, <3>2, <3>3
  <2> HIDE DEF f
  <2>4. Count(p)' = Count(p) + 1
    BY <1>2, <2>2, <2>3, FS_AddElement DEF Count
  <2>5. {g.obs : g \in FindingsOf(p)'} = 1..(Count(p) + 1)
    <3>1. {g.obs : g \in FindingsOf(p)'} = {g.obs : g \in FindingsOf(p)} \cup {f.obs}
      BY <2>2
    <3>2. 1..(Count(p) + 1) = 1..Count(p) \cup {Count(p) + 1}
      BY <1>2
    <3> QED
      BY <2>3, <3>1, <3>2 DEF RunCollected
  <2>6. ~Completed(p)'
    BY <2>1 DEF RunCollected, Completed, Body, TryPCs, DbPCs
  <2> QED
    BY <1>1, <1>2, <2>1, <2>4, <2>5, <2>6 DEF RunCollected
<1>5. CASE AcceptOutput(p)
  <2>1. PICK n \in 0..MaxObservations : observed' = [observed EXCEPT ![p] = n]
    BY <1>5 DEF AcceptOutput
  <2>2. /\ pc[p] = "check" /\ pc'[p] = "collect" /\ findings' = findings /\ history' = history
        /\ observed'[p] = n /\ n \in Nat
    BY <1>1, <1>5, <2>1 DEF AcceptOutput, Goto
  <2>3. FindingsOf(p) = {} /\ FindingsOf(p)' = {} /\ ~Completed(p)'
    BY <2>2 DEF RunCollected, Completed, FindingsOf, Body, TryPCs, DbPCs
  <2>4. Count(p)' = 0
    BY <2>3, FS_EmptySet DEF Count
  <2> QED
    BY <2>2, <2>3, <2>4 DEF RunCollected
<1>6. CASE Complete(p)
  <2>1. /\ observed[p] <= Count(p) /\ pc'[p] = "cleanup" /\ findings' = findings
        /\ observed' = observed
    BY <1>1, <1>2, <1>6, GotoType DEF Complete, tables, PCs, FinallyPCs
  <2> QED
    BY <2>1, CollectedStays DEF Body, TryPCs, DbPCs
<1>7. CASE PutEvidence(p)
  BY <1>7, CollectedStays, CompletedLater DEF PutEvidence, local
<1> USE StatesKnown DEF PCs, TryPCs, DbPCs, FinallyPCs, EndPCs, Body
<1>8. CASE PassGate(p)
  <2>1. State(p) \in DOMAIN Onward /\ pc[p] = "gate" /\ Goto(p, "gate")
    BY <1>1, <1>8 DEF PassGate, IInv, Control, InPlace, At, Gates, Goto
  <2>2. Onward[State(p)] \in FSM!States \ {"COMPLETED"}
    BY <2>1 DEF Onward
  <2> QED
    BY <1>3, <1>8, <2>1, <2>2 DEF PassGate
<1>9. CASE Admission(p)
  BY <1>3, <1>9 DEF Admission, Begin, RefuseIdentity, Reserve, RefuseDuplicate, Fail, tables
<1>10. CASE Gating(p)
  BY <1>3, <1>8, <1>10
     DEF Gating, Prepare, RefuseAtGate, DenyScope, NeedApproval, PutApproval, ReportPending,
         Fail, local, tables
<1>11. CASE Execution(p)
  BY <1>3, <1>4, <1>5, <1>6, <1>7, <1>11
     DEF Execution, AcquireLease, RefuseLease, Announce, RefuseLaunch, Launch, WorkerFails,
         WorkerSucceeds, ReportTool, RejectOutput, Fail, local, tables
<1>12. CASE Ending(p)
  BY <1>3, <1>12
     DEF Ending, Release, ReleaseFails, Finish, SaveLedger, LoseLedger, SaveResult, Return,
         local, tables
<1>13. CASE Failing(p)
  BY <1>3, <1>13
     DEF Failing, StoreFails, LoseResult, Interrupt, InterruptReserve, InterruptLease,
         InterruptAudit, Crash, Fail, local, tables
<1> QED
  BY <1>9, <1>10, <1>11, <1>12, <1>13 DEF Step

(* Only three actions write what the other runs' findings rest on. *)
LEMMA CollectionQuiet ==
    ASSUME NEW p \in Runs, Step(p) \/ Failing(p)
    PROVE  \/ PutEvidence(p) \/ PutFinding(p)
           \/ AcceptOutput(p) /\ evidence' = evidence /\ findings' = findings
           \/ UNCHANGED <<evidence, findings, observed>>
BY DEF Step, Failing, Admission, Gating, Execution, Ending, local,
       tables, Begin, RefuseIdentity, Reserve, RefuseDuplicate, PassGate, Prepare,
       RefuseAtGate, DenyScope, NeedApproval, PutApproval, ReportPending, AcquireLease,
       RefuseLease, Announce, RefuseLaunch, Launch, WorkerFails, WorkerSucceeds, ReportTool,
       RejectOutput, AcceptOutput, Complete, Release, ReleaseFails,
       Finish, SaveLedger, LoseLedger, SaveResult, Return, StoreFails, LoseResult, Interrupt,
       InterruptReserve, InterruptLease, InterruptAudit, Crash

LEMMA StepCollected ==
    ASSUME IInv, RunsCollected, NEW p \in Runs, Step(p) \/ Failing(p)
    PROVE  RunsCollected'
<1> SUFFICES ASSUME NEW o \in Runs PROVE RunCollected(o)'
  BY DEF RunsCollected
<1>1. CASE o = p
  BY <1>1, MoverCollected DEF RunsCollected
<1>2. CASE o # p
  <2>1. pc'[o] = pc[o] /\ history'[o] = history[o]
    BY <1>2, StepMoves, StepStands DEF OthersStand
  <2>2. observed'[o] = observed[o] /\ FindingsOf(o)' = FindingsOf(o)
    <3>1. observed \in [Runs -> 0..MaxObservations]
      BY DEF IInv, TypeOK
    <3> QED
      BY <1>2, <3>1, CollectionQuiet
         DEF PutEvidence, PutFinding, AcceptOutput, FindingsOf, local
  <2>3. Count(o)' = Count(o) /\ Completed(o)' = Completed(o)
    BY <2>1, <2>2 DEF Count, Completed
  <2> QED
    BY <2>1, <2>2, <2>3 DEF RunsCollected, RunCollected
<1> QED
  BY <1>1, <1>2

LEMMA StepSupported ==
    ASSUME IInv, EvidenceOrdered, FindingsSupported, NEW p \in Runs, Step(p) \/ Failing(p)
    PROVE  EvidenceOrdered' /\ FindingsSupported'
<1> DEFINE n == Cardinality(EvidenceFor(p, Current(p)))
<1>1. Current(p) \in Nat /\ n \in 0..2
  BY CurrentType, EvidenceBound DEF IInv
<1>2. \A i \in 1..n : Item(p, Current(p), i) \in evidence
  BY <1>1, ItemsCounted DEF IInv
<1>3. CASE PutEvidence(p)
  <2>1. evidence' = evidence \cup {Item(p, Current(p), n + 1)} /\ findings' = findings
    BY <1>3 DEF PutEvidence, Item, local
  <2> HIDE DEF n
  <2>2. n + 1 = 2 => Item(p, Current(p), 1) \in evidence
    BY <1>1, <1>2
  <2> QED
    BY <2>1, <2>2 DEF EvidenceOrdered, FindingsSupported, Item
<1>4. CASE PutFinding(p)
  <2>1. /\ findings' = findings \cup {[run |-> p, obs |-> Current(p), items |-> n]}
        /\ evidence' = evidence
    BY <1>4 DEF PutFinding, local
  <2> HIDE DEF n
  <2> QED
    BY <1>2, <2>1 DEF EvidenceOrdered, FindingsSupported
<1>5. CASE evidence' = evidence /\ findings' = findings
  BY <1>5 DEF EvidenceOrdered, FindingsSupported
<1> QED
  BY <1>3, <1>4, <1>5, CollectionQuiet

LEMMA ResultsCollected ==
    ASSUME IInv, RowsSettled, RunsCollected, RowsCollected,
           NEW p \in Runs, Step(p) \/ Failing(p)
    PROVE  RowsCollected'
<1>1. findings \subseteq findings'
  BY CollectionQuiet DEF PutEvidence, PutFinding, local
<1>2. ASSUME NEW row \in results PROVE RowCollected(row)'
  <2>1. RowCollected(row) /\ pc[row.run] = "returned"
    BY DEF RowsCollected, RowsSettled, RowSettled
  <2>2. observed'[row.run] = observed[row.run]
    <3>1. observed \in [Runs -> 0..MaxObservations] /\ row.run \in Runs
      BY DEF IInv, TypeOK, RowsSettled, RowSettled
    <3> QED
      BY <2>1, <3>1, CollectionQuiet DEF PutEvidence, PutFinding, AcceptOutput, local
  <2> QED
    BY <1>1, <2>1, <2>2 DEF RowCollected
<1>3. CASE SaveResult(p)
  <2>1. results' = results \cup {ResultOf(p)} /\ UNCHANGED <<findings, observed, history>>
    BY <1>3 DEF SaveResult, local
  <2>2. /\ ResultOf(p).run = p /\ ResultOf(p).states = history[p]
        /\ ResultOf(p).findings = IF Completed(p) THEN FindingsOf(p) ELSE {}
    BY DEF ResultOf
  <2>3. Completed(p) => {f.obs : f \in FindingsOf(p)} = 1..observed[p]
    <3>1. Count(p) \in Nat /\ observed[p] \in Nat
      BY CountType, EngineAssumption DEF IInv, TypeOK
    <3>2. Completed(p) => Count(p) = observed[p]
      BY <3>1 DEF RunsCollected, RunCollected
    <3> QED
      BY <3>2 DEF RunsCollected, RunCollected
  <2>4. RowCollected(ResultOf(p))
    BY <2>2, <2>3 DEF RowCollected, Completed, FindingsOf
  <2>5. ASSUME NEW row \in results' PROVE RowCollected(row)
    BY <2>1, <2>4, <2>5 DEF RowsCollected
  <2> QED
    BY <2>1, <2>5 DEF RowsCollected, RowCollected
<1>4. CASE results' = results
  BY <1>2, <1>4 DEF RowsCollected
<1> QED
  BY <1>3, <1>4, MostAreQuiet
     DEF IInv, Quiet, Reserve, InterruptReserve, Launch, PutEvidence, PutFinding, PassGate,
         local

LEMMA Collection ==
    Spec => [](EvidenceOrdered /\ FindingsSupported /\ RunsCollected /\ RowsCollected)
<1>1. Init => EvidenceOrdered /\ FindingsSupported /\ RunsCollected /\ RowsCollected
  <2> SUFFICES ASSUME Init
               PROVE  EvidenceOrdered /\ FindingsSupported /\ RunsCollected /\ RowsCollected
    OBVIOUS
  <2>1. ASSUME NEW p \in Runs PROVE RunCollected(p)
    <3>1. FindingsOf(p) = {} /\ observed[p] = 0 /\ history[p] = <<"CREATED">>
      BY DEF Init, FSM!Init, FindingsOf
    <3>2. Count(p) = 0 /\ ~Completed(p)
      BY <3>1, FS_EmptySet DEF Count, Completed, Contains
    <3> QED
      BY <3>1, <3>2 DEF RunCollected
  <2> QED
    BY <2>1 DEF Init, EvidenceOrdered, FindingsSupported, RunsCollected, RowsCollected
<1>2. /\ IInv /\ RowsSettled /\ [Next]_vars
      /\ EvidenceOrdered /\ FindingsSupported /\ RunsCollected /\ RowsCollected
      => (EvidenceOrdered /\ FindingsSupported /\ RunsCollected /\ RowsCollected)'
  <2>1. ASSUME UNCHANGED vars,
               EvidenceOrdered, FindingsSupported, RunsCollected, RowsCollected
        PROVE  (EvidenceOrdered /\ FindingsSupported /\ RunsCollected /\ RowsCollected)'
    BY <2>1
       DEF vars, local, tables, EvidenceOrdered, FindingsSupported, RunsCollected, RunCollected,
           RowsCollected, RowCollected, Count, FindingsOf, Completed
  <2> QED
    BY <2>1, StepSupported, StepCollected, ResultsCollected DEF Next, Finished
<1> QED
  BY <1>1, <1>2, Settled, Invariance, PTL DEF Spec

(* Whatever interrupts the loop over the observations, each finding in the *)
(* database rests on the items it counts, and a stored COMPLETED lists a   *)
(* finding for every observation the worker reported.                      *)
THEOREM FindingsHaveEvidence == Spec => []FindingsRest
<1>1. FindingsSupported /\ RowsCollected => FindingsRest
  BY DEF FindingsSupported, RowsCollected, RowCollected, FindingsRest, Item
<1> QED
  BY <1>1, Collection, PTL
=============================================================================
