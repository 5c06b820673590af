# A TLA+ model of noble-cascade

noble-cascade (`noble/`) runs security tools for an operator, and only after a
chain of gates: identity, scope, authorization, risk, approval, preconditions.
Every run leaves an audit trail, evidence, findings, a result and a ledger row
in one SQLite database, which any number of command-line and engine processes
use at the same time.  This project models the parts of it whose correctness
depends on the order of things: what several processes do to the tables, what a
failure, an interrupt or a death in the middle of a run leaves behind, what is
stale when it is used, and what the code decides in several places that must
decide alike.

The paths below are relative to `src/`.  `PROJECT.json` names, for every
definition that models code, the file and lines it models.

## 1. The system

### 1.1 Processes and shared state

* One SQLite database, opened anew for every operation (`Store._connection`,
  `noble/store.py:70-78`): autocommit, a rollback journal, a busy timeout of
  10 s.  A multi-statement transaction starts with `BEGIN IMMEDIATE`, which
  waits for the write lock; what is not wrapped in one sees the database of each
  statement's own instant.  A connection that is closed in the middle of a
  transaction rolls it back.
* Engine processes, each of which performs `NobleEngine.run` for one request.
* One worker child process per run, in a session of its own
  (`noble/execution.py:112-127`), killed by its engine process at the wall-time
  limit.
* Operators' command-line processes that issue grants, request and decide
  approvals, take and verify checkpoints, recover, back up and restore.

There are no threads and no message queues; processes interact through the
tables, the audit log and the clock.

### 1.2 Components

| Component | State | Operations | Hard behaviour | What makes it correct |
|---|---|---|---|---|
| Execution engine (`engine.py`) | locals of a run: state, history, identifiers, what was released | `run` | every statement may fail, be interrupted or be the last one; the except and finally clauses must fit every position | one launch per request id, no launch without its audit trail, results and findings consistent with the tables, what the caller is told is durable |
| Requests and results (`store.py`) | `request_reservations`, `requests` | `reserve_request`, `put_result` | two processes with the same id; death between launch and result | a request id is used once, also after restarts |
| Execution state machine (`state_machine.py`) | the transition table | `validate_transition` | the table is patched at import by the extended states | no gate is skipped on the way to work, terminal states absorb |
| Rate and concurrency limits (`store.py`, `engine.py`) | `rate_calls`, `active_leases` | `acquire_lease`, `release_lease` | the timestamp is older than the transaction; rows expire while workers run | no row is pruned before its timeout and grace; worker processes, not rows, stay within the limit; the rate is kept |
| Command runner (`execution.py`) | the child process, two pipes | spawn, write, read, kill, wait | exit racing the kill; a kill that does not succeed; a write without a time limit; the parent's death | every call returns; no worker outlives what the lease says |
| Grants (`authorization.py`) | `grants` | `issue`, `check` | expiry and use at different moments | a check passes only with an active grant of the same principal and subject |
| Approvals (`approvals.py`) | `approvals` | `request`, `decide`, `revoke`, `ensure`, expiry | several deciders with the same read; expiry; audit event and row in two transactions | separation of duties, decisions are final, nothing without its event |
| Audit log (`audit.py`, `store.py`) | `audit_events`, a hash chain | `emit`, `verify_audit` | concurrent appends to one chain; a failure after the commit | append-only, acknowledged events stay, corruption is located |
| Ledger checkpoints (`ledger_integrity.py`) | `ledger_checkpoints`, `checkpoint.json`, the recovered file | write, verify, detect, recover | four reads outside a transaction; replacement of a checkpoint during its verification | checkpoints are never ahead of the store, growth is accepted, recovery exports the true prefix |
| Recovery and health (`recovery.py`, `health.py`) | none of its own | delete expired leases and calls; probes | runs beside live runs with its own clock | no row of a live run is lost |
| Built-in workers (`builtins/`) | none | read the request, scan files, verify the fixture | files and links change while they are read; limits on files, observations and output | complete means inspected |
| Evidence and reasoning (`evidence.py`, `reasoning.py`) | `evidence`, `findings` | validate an output, build evidence, evaluate an observation | what was scanned is looked up again in files that changed; a failure in the middle of the loop | an answer is accepted for what it is; a finding rests on stored evidence |
| Ledger, replay, reports (`ledger.py`, `replay.py`, `reporting.py`) | `ledger` | build and verify a chain, replay, render | limits of the lists they read; several reads while engines write | what is stored is found, and what is replayed is what happened |
| Worker identity (`worker_identity.py`) | `workers` | register, verify, retire, destroy | a registry failure replaced by fresh ids | a run goes on without its row |
| Backup and restore (`backup.py`) | backup directories | create, verify, restore | a copy of a live database; a directory used twice; restoring under running processes | the copy holds what the sealed export lists |
| Scope, targets, risk, simulation (`scope.py`, `targets.py`, `risk.py`, `simulate.py`) | the policy file | decide about a request | a window that closes, a policy that is edited between decisions; the same gates in three programs | the copies agree, an approval holds under the exclusions it was given |
| Tool registry (`registry.py`) | none | select a tool | last check before a worker | nothing beyond a quiet local tool is launched |
| Configuration (`config.py`, `config_schema.py`), kernel (`kernel.py`) | `runtime.yaml` | load, validate | two validations of one file | they accept the same |
| Metrics, observability | none | aggregation | counting twice | each run counted once |
| Policy versions, drift, migration, governance, certification, release, supply chain, diagnostics, legacy skills, dashboard | files | load, hash, compare, report | none that depends on order | not protocols |

`noble/cli.py` is the shell around all of these.  Two of its commands close an
operation (the decision event of `approve`, `GRANT_ISSUED` of `authorize`); those
steps are part of the model of approvals.  The conditions of `authorize` are in
`Policies`, and the commands that replay, report, back up and restore are the
environment of `Records`.

## 2. The modules

| Module | Models | Used by |
|---|---|---|
| `StateMachine` | `state_machine.py`: the table and `validate_transition`, for callers that attempt anything | abstract specification of `Engine` |
| `RequestOnce` | the promise of `reserve_request`/`put_result`: a request id goes from fresh to claimed to resolved and never back | abstract specification of `Engine` |
| `Engine` | `NobleEngine.run`, statement by statement, for several runs over the shared tables, with failing transactions, interrupts and crashes | |
| `LeaseTable` | `acquire_lease`, `release_lease`, the worker's life, the recovery pass, and the clock | |
| `Approvals` | grants, approvals, the gate of the engine that uses them, and the audit events around them | |
| `AuditLog` | what `AuditSink.emit` promises | abstract specification of `AuditChain` |
| `AuditChain` | `append_audit`, `verify_audit`, checkpoints, detection and recovery, and a disk that corrupts rows | |
| `Policies` | the gates that decide about a request: configuration, target, scope, risk, the binding of an approval, selection; and the simulator, the kernel and `noble authorize`, which decide the same | |
| `ToolRun` | one call of the runner: the parent, the worker and its files, the pipes, the validator | |
| `Records` | the rows a run stores, one by one, and the three programs that read them back: backup and restore, replay, report | |
| `MC*` | small instances of the module of the same name | the `.cfg` files |
| `*_proofs` | theorems about the module of the same name | |
| `Promises_proofs` | theorems about the two abstract specifications, `StateMachine` and `RequestOnce` | `Engine_proofs` |

`Engine` instantiates both abstract modules by refinement mappings: `Lifecycle`
maps each run's `history`, without a FAILED that a failing DELETE wrote behind
its end, `Once` maps the tables `requests` and
`request_reservations` to a status per id.  The lease of `Engine` is only a
slot; its expiry is the subject of `LeaseTable`.  The approval gate of `Engine`
may decide anything; how it decides is in `Approvals`.  The audit log of
`Engine` is a sequence of events per run; that rows of several writers form one
chain is shown by `AuditChain`.

Three modules look into what `Engine` leaves open or makes one step.  `Policies`
is what its gates may decide, `ToolRun` is its launch, from the call of the
runner to the verdict of the validator, and `Records` is what it stores, seen
from outside.  They are kept apart because their states have nothing in common
but an outcome: a gate that passes or refuses, an output that is accepted or
not, a row that is stored or not.

### 2.1 Correspondence

**Engine.** `pc[p]` is the statement a run is at, `history[p]` the states it
entered, `trail[p]` its events in the audit log, `owners` the runs whose local
`request_reserved` is true.  An action covers the code from one commit to the
next: `Reserve` is the transaction of `reserve_request`, `PassGate` the checks,
the audit call and the transition of a gate, `InsertLease` the transaction of
`acquire_lease` and `AcquireLease` what the engine does with its return.  The
except clauses are `Fail`, the finally clause is `Release`/`ReleaseFails`,
`Finish`, `SaveLedger`/`LoseLedger`, `SaveResult`, `Return`.  `StoreFails` is
a transaction that fails (`sqlite3.Error`, `OSError`); the `Interrupt…` actions
are `KeyboardInterrupt`, which the except clauses do not name: at a statement,
and in the gaps between a commit and the assignment of its result
(`InterruptReserve`, `InterruptLease`, `InterruptAudit`).  `Crash` ends the
process.  What a gate, the validator or an evaluation decides is open.

**LeaseTable.** `stamp[r]` is the timestamp that `acquire_lease` reads before
`BEGIN IMMEDIATE` (`store.py:356`), `admitted[r]` the instant of its commit,
`spawned[r]` that of the worker's start.  `ReadClock` and `Acquire` are therefore
two steps with up to `LockWait` between them.  The transaction prunes with the
stale timestamp, counts, and either inserts both rows or rolls the pruning back.
`KillWorker`, `Unkillable` and `WorkerExits` are the three ways a worker's
supervision ends, `Crash` leaves the worker alive.  The recovery pass
runs when the queue check finds all slots taken.

**Approvals.** A session is one command or one run; `session[s]` is the record
of what it read and what it is about to write.  An operation is: read,
check, emit the intent (`Emit`), commit with compare-and-swap
(`CommitApproval`) or lose (`LoseRace`), report.  `Abort` may end it between
any two.  A grant is bound to a principal and one `subject`, which stands for
the action, target, tool and parameters whose fingerprint the code compares.

**StateMachine.** `history[r]` grows by `Advance` to any state that
`validate_transition` accepts from the last one.

**RequestOnce.** `ClaimUnseen` is a claim whose transaction committed and whose
caller did not learn it: the id is used up although nobody will launch.

**AuditChain.** A row keeps its data, previous hash and hash; a digest is
modelled by what it digested (`Digest(prev, data) == Append(prev, data)`), which
makes different contents have different digests: SHA-256 without collisions.
`Begin`, `ReadHead`, `Insert` are the statements of `append_audit`; the commit
is with the insert, and `EmitFails` after it is a caller that never hears of
it.  `job[c]` is a checkpoint, verification or recovery in progress: `Probe`
performs one of the four SELECTs of `compute_ledger_checkpoint`, in the code's
order.  `Damage` changes the stored event or digest of a row; `written` and
`damaged` are history variables that only properties and `Damage` read.  The
state of a recovery keeps what it has read in its own variables, as the code
does, so that events appended between its three reads are seen or not seen as
they would be.

**Policies.** A path, host, repository or address is a sequence of labels, the
most significant first, so that a directory, a wildcard and a network are
prefixes; a raw target is a record of the features `normalize_target` asks
about, in its order (`KindOf`, `Normalizes`).  A run is taken from `Start`, where
an engine loads both files, through one action per gate in the order of
`NobleEngine.run`; `policy` in its record is the file as it was at the start,
while `EditPolicy` changes the file.  `Boundary` is the text `_scope_digest`
hashes, which is its parts joined with "|" and nothing escaped.  An entry of the
policy may itself have a "|", so the lists of what is excluded are kept as the
pieces between the bars (`Pieces`), with a mark on a piece whose entry goes on
behind it (`open`); `Entries` are the entries, which the scope check reads, and
`Text` is what the join leaves of a list, the pieces without the marks.
`Honoured` is `ensure`.  Whether a grant is
in force, and when an approval expires, is the business of `Approvals`: here
both are open.

**ToolRun.** `host` is the runner and then the validator, `child` the worker.
`stdin` and `pipe` count what is in the two pipes, in units of one read.
`Check` to `Settle` are `CommandRunner.run`, `ReadInput` to `Exit` the worker,
`Parse` and `CheckNext` the validator; `Die` is a resource limit or a signal.
A file has a kind (a source, out of the workspace, too big, unreadable, one
that raises what nobody catches, one whose lines are counted differently by the
validator) and its sinks.  `Edit` changes files, `Relink` what the requested
name leads to, at any moment; the target is resolved three times, when it is
authorized, by the worker and by the validator.  `edited` is a history variable.

**Records.** Every statement of the store is a step of its own, so a run is
`Begin`, `RegisterWorker`, `PutEvidence` and `PutFinding` for each observation,
`Finish`, `SaveLedger`, `SaveResult`; a row that cannot be stored is done
without (`Insert`) or ends the run (`Fail`, `Finish`).  A run that is refused
between its reservation and its first event, or whose first event cannot be
stored, goes from `Begin` straight to `Finish`: it has a result and a FINISHED
event and no other.  `Steps` is the order in
which `create_backup` reads the tables, writes its export, copies the file and
writes the hash.  The copy is two steps, and the tables in `Late` lie in pages
that the second one reads.  `Restore` is the copy back, which may die half way.
`reader` is a replay or a report, with one step for each query: of a report,
`todo` are the findings it has still to look up and `cited` counts the rows of
evidence of the first of them that it has found.  `ReadFails` is a query that
fails (a busy timeout, an I/O error): the search in the ledger swallows it and
says that the execution is not found (`replay.py:34`), the other queries raise,
which the command answers with `not_found` too (`cli.py:877`), and a report ends.  `erred` marks an
answer that comes from it.  `EarlierFindings` is what the
earlier runs stored, in any order.  `gen`, `across` and `tainted` are history
variables that say which rows a restore has come between.

## 3. What is checked

Every run finishes within about a minute on two workers.  `StateMachine` and
`RequestOnce` have no run of their own: TLC evaluates them as the properties
`FollowsStateMachine` and `FollowsRequestOnce` of `EngineFaults`, and what they
imply is proved.  "Faults" says what can go
wrong in the run.

| Run | Instance | Faults | Properties |
|---|---|---|---|
| `EngineFaults` | 2 runs of one request id, 2 observations, 1 slot | crash, interrupt, failing transactions, failing DELETE of the lease | `TypeOK`, `OneLaunchPerRequest`, `LaunchGated`, `LaunchAudited`, `ResultReplacesReservation`, `FindingsRest`, `CompletedIsDurable`, `FollowsStateMachine`, `FollowsRequestOnce` |
| `EngineShare` | 2 runs of two ids, 1 observation, 1 slot | interrupt, failing DELETE of the lease | `NoLeaseLeftBehind`, `ClaimsAreResolved` |
| `LeaseLimit` | 3 runs, limit 1, rates 1 and 2, two tools, recovery pass | failing DELETE | `WorkersWithinLimit`, `LeaseOutlivesWorker`, `AdmissionRate` |
| `LeaseFaults` | 2 runs, limit 1, a lock wait of 2 against a grace of 1, recovery pass | crash, unkillable worker | `ReservationsHold`, `ReservedWithinLimit`, `EveryRunEnds` |
| `ApprovalRaces` | 2 users, 2 sessions, 3 requests, 2 grants, 1 approval, grants of life 0 and 1 | death at every step | `TypeOK`, `ApprovedByDistinctHolder`, `EffectsAudited`, `ReportsAreTrue`, `PassJustified`, `DecisionsAreFinal` |
| `ChainGrowth` | 2 events, 2 writers, 1 auditor that checkpoints and verifies | failing and dying emits | `TypeOK`, `CheckpointsReached`, `GrowthAccepted`, `FollowsAuditLog` |
| `ChainDamage` | 3 events, 2 writers, 1 recovery | one corrupted row, failing emits | `CorruptionLocated`, `RecoveredIsTrue` |
| `PolicyGates` | 2 runs, 11 requests, 6 policy files, 7 configurations | edits of the policy, a window that closes | `SimulatorAgrees`, `DuplicatedChecksAgree`, `OnlyQuietLocalRunsClear`, `ApprovedUnderSameBoundary` |
| `ToolRace` | 8 invocations, 3 files, 6 contents of the workspace | death of the worker, a kill that fails, time limit, edits and links at every step | `CompleteIsCovered`, `JudgedForWhatItIs`, `RunnerReturns` |
| `RecordsKept` | 2 runs (one of them earlier), 1 backup, 1 restore, 1 reader | one row not stored or not read, or one process dead, at every step | `BackupHoldsExport`, `ReplayFinds`, `ReplayIsWhole`, `ReportsAreSound` |

What the runs say about the code, in short:

* **A request id starts at most one worker** (`OneLaunchPerRequest`), whatever
  crashes, fails or is interrupted: the reservation is looked up in both tables
  inside one transaction, and the result replaces it inside another.
* **No worker starts unaudited** (`LaunchAudited`): all six verdicts and the
  EXECUTING event are in the log, in order, before the launch.
* **What remains after a failure is consistent**: findings rest on stored
  evidence (`FindingsRest`), a result and a reservation never coexist
  (`ResultReplacesReservation`), COMPLETED is only told when it is stored
  (`CompletedIsDurable`), a run that did not say FAILED gave back its lease
  (`NoLeaseLeftBehind`), a claim its run knows of is resolved
  (`ClaimsAreResolved`).
* **The limits are about processes.** Whatever fails, and however long the lock
  was waited for, a run or an orphan keeps its row until its timeout and grace
  are over, counted from the timestamp it read before the wait
  (`ReservationsHold`), and the workers within that time stay within the limit
  (`ReservedWithinLimit`).  So a worker beyond the limit is one that outlived
  its reservation, or that a run left behind when it ended.  If the grace covers
  the lock wait, the launch and the kill, and no process dies, there is no such
  worker (`WorkersWithinLimit`, `LeaseOutlivesWorker`);
  admissions stay within the rates over the window shortened by the lock wait
  (`AdmissionRate`): timestamps out of order cost no more than that.
* **Approvals keep separation of duties under races**
  (`ApprovedByDistinctHolder`, `DecisionsAreFinal`, `PassJustified`), no grant or
  decision lacks its event (`EffectsAudited`), and the loser of a race reports
  nothing (`ReportsAreTrue`).
* **No worker starts ungated** (`LaunchGated`), although the transition table is
  patched at import, and the engine never asks for a transition that the table
  refuses (`FollowsStateMachine`).  For every caller of `validate_transition`,
  not only the engine, this is a theorem (section 4).
* **The chain is an append-only log** (`FollowsAuditLog`); verification stops
  exactly at the first corrupted row, also when events were appended after it
  (`CorruptionLocated`), and recovery exports what was written before it
  (`RecoveredIsTrue`).  A store that grew is not rejected (`GrowthAccepted`), as
  long as one process takes checkpoints.  Reading the heads before the counts is what keeps a
  checkpoint from being ahead of the store (`CheckpointsReached`).

* **Gates written several times agree.**  What clears the engine the simulator
  allows, and what scope, approval or selection refuse the simulator blocks;
  `noble authorize` gives no grant that is useless for the action of its tool
  (`SimulatorAgrees`).  The engine repeats the kernel's checks, and runs only on
  limits the schema accepts (`DuplicatedChecksAgree`); the converse has one
  exception, a limit written as `60.0`, which the schema accepts and the engine
  refuses.
* **An approval is bound to its request and window, and to what was excluded
  unless a "|" hides it** (`ApprovedUnderSameBoundary`): when the policy is edited
  before the approval is used, the window is the same, and if no entry of either
  policy has a "|", everything that was excluded still is, as a target or as an
  action.  The digest joins both lists, so that an entry moved from one to the
  other is not seen; what a "|" inside an entry does is in section 3.1.
* **Approvals never lead to a launch** with the registry as it is
  (`OnlyQuietLocalRunsClear`): the actions that need one have no tool, so the
  run is refused at selection, after an approval was asked, given and honoured.
* **An answer is accepted for what it is** (`JudgedForWhatItIs`): the whole
  output of a worker that ended well and worked on the authorized target, and
  nothing else, however files and links move.  A complete scan inspected
  everything that was there when it began, unless it found as much as it may
  report (`CompleteIsCovered`).
* **The runner returns** (`RunnerReturns`) although the write of the input has no
  time limit, because `max_input_bytes` (65536) is no more than a pipe holds; it
  leaves a worker behind only when it reports a timeout.
* **A verified backup has a copy beside it that holds what the export lists**
  (`BackupHoldsExport`), if nothing was written while the file was copied.
  What was stored is found, unless a read fails (`ReplayFinds`), and whole
  (`ReplayIsWhole`), and a report is never refused because an engine is in the
  middle of storing (`ReportsAreSound`): evidence comes before the finding that
  cites it, in the engine and on disk.

### 3.1 Where code and documentation differ

Two runs are expected to end with a counterexample; `PROJECT.json` quotes the
lines that state the properties.

| Run | Property | Counterexample |
|---|---|---|
| `LeaseLateLock` | `WorkersWithinLimit` | a run waits for the lock longer than the grace; its row expires while its worker is within its timeout; a second worker is admitted. The code's own values (10 s wait, 5 s grace) are of this kind |
| `ScanFull` | `CompleteMeansAll` | a scan finds as much as it may report with the last sink of a file; the rest is not inspected, and the scan is called complete, so that the engine answers SUCCESS_WITH_FINDINGS and not INCONCLUSIVE (`scanner.py:103`, `engine.py:482-488`) |

Five more differences follow from the models and have no run of their own:

* When the DELETE of the lease fails after COMPLETED, BLOCKED or TIMED_OUT, the
  finally clause appends FAILED to the history (`engine.py:534-536`), where
  `state_machine.py:3-4` says that terminal states are absorbing.
  `FollowsStateMachine` therefore speaks of the history without that FAILED
  (`Accepted`), which is what `validate_transition` was asked for; of the whole
  history it would be violated.
* An interrupt inside the body stores a result whose last state is, e.g.,
  EXECUTING (`engine.py:577`), where `docs/architecture.md:53` lists the terminal
  states a run ends in.
* Two processes that take checkpoints of the same heads replace one row, since
  the hash covers the heads and not the counts (`ledger_integrity.py:38`); when
  this happens between the count and the read of a verification, a store that
  only grew is reported as "possible truncation" (`ledger_integrity.py:84`),
  against the comment at line 83.  With a second auditor and without its first
  line, `GrowthAccepted` is violated.
* The digest of an approval joins its parts with "|" and escapes nothing
  (`approvals.py:33-47`), and a policy entry is any nonempty text
  (`scope.py:27-32`).  When two excluded targets, `production-db.*` and `/ws`, are
  edited into the one entry `production-db.*|/ws`, the digest stays the same, and
  the approval is honoured although neither is excluded any more, where line 1
  calls approvals "bound to request and policy scope".  Without the condition
  `BarFree` TLC finds `ApprovedUnderSameBoundary` violated.
* `partial_recovery` uses the number of valid events as the limit on ledger
  rows too (`ledger_integrity.py:147`), so that ledgers of runs whose events lie
  after the corruption are exported with what line 7 calls the "valid prefix".

What else the models show, and no run states:

* After a death of the engine process its worker may run on beyond its
  reservation, beside the next one (add `"crash"` to `Faults` in
  `LeaseLimit.cfg`); until then its row keeps the slot.
* A replay by execution id says "not found" also when the ledger or the result
  could not be read (`replay.py:34`); without `~reader.erred` TLC finds
  `ReplayFinds` violated.
* A run that is refused before its first event (`engine.py:245-251`), or whose
  first event cannot be stored, still stores FINISHED and a result: a result
  does not imply a REQUESTED event, and a replay of it shows none.
* An approval serves any number of requests of the same content until it
  expires.
* `verify_checkpoint` with a hash compares counts only, so that no corruption of
  a row makes it answer no.  It and `partial_recovery` have no command of their
  own; they are reached through the Python interface.
* Nothing looks at the copy of the database in a backup: a copy taken while an
  engine wrote, a copy whose process died, or, when two backups go to one
  directory, an older copy than the export verifies all the same.  The
  conditions of `BackupHoldsExport` and of the other properties of `Records` are
  each necessary: without one of them TLC finds a violation.  An empty hash file
  makes `verify_backup` raise `IndexError` (`backup.py:80`).
* A restore under a running engine can leave a finding whose evidence is gone,
  and then every later report is refused.  It also frees the request ids and
  brings back the approvals of its time.
* A run that fails half way lists no finding (`engine.py:465-466`), although the
  findings of its first observations are stored and a report shows them.
* A replay by execution id finds an execution that is not among the newest 1000
  results only through its ledger row, which may have been lost; its events
  beyond the newest 1000 are missing without a sign.
* A link to another part of the workspace, or a file with other line separators,
  makes the validator reject a scan of files that did not change.
* The engine is built from the policy file once, and the version it records is
  of the file as it is when the run starts (`engine.py:131`).
* The metrics count a result of `tool_failed` twice among the failed
  (`metrics.py:77`); the queue check counts leases that have expired.

### 3.2 Bounds, and why they are enough

* `MaxClock` bounds the clock.  In `LeaseLimit` (7) and `LeaseLateLock`
  (8) it allows a row to be inserted, to expire and a second worker to start and
  to be killed, and three windows of the rate to pass.  In `Approvals` lives
  are 0 and 1 and `MaxClock` is 1: "active", "at its end" and "over" all occur.
* `LeaseLimit` satisfies `LockWait + LaunchDelay + KillWait <= Grace`, the
  hypothesis of the corollary `NoExcess`; `LeaseLateLock` and `LeaseFaults`
  violate it as the code's values do.  In `LeaseFaults` the rates never reject,
  so that the limit alone does, and `MaxClock` is 8, enough for a late row to
  expire under a worker or an orphan and for the other run to be admitted,
  launched and killed.  `LaunchDelay` is 1 there, and 0 in the other two, where a
  delay is only another summand.
* Three runs for the limits: one admitted, one that is wrongly admitted or
  rejected, one that prunes.  Two runs of one id for `EngineFaults`: a pair is
  all that two claims need.
* `MaxObservations` 2 lets a failure fall between two iterations of the loop.
* `ApprovalRaces` has one approval because the invariants relate an approval
  with grants and requests, never two approvals; two sessions give every
  pairwise race, and a third request belongs to the approver himself.
* `MaxDamage` 1 and three events put the corrupted row first, in the middle and
  last, and let events arrive after it.  `Tasks` selects what auditors do, which
  keeps each question in a run of its own.  `ChainDamage` checks one corrupted row; the
  theorem `StopsAtCorruption` is for any number.
* `PolicyGates` has one request for each way out of the gates and policy files
  that differ in what the properties speak of: the window, a further exclusion,
  the same words in the other list, a "|" that divides two entries or is part of
  one, directories outside the workspace; and a configuration for each edge of
  the two validations.  The clock has two values:
  within the window and after it.
* `ToolRace`: three files, one of them in an ignored directory, and links that
  may lead to the directory or to either file; `MaxObservations` 2 and
  `maxFiles` 1 or 2 make both limits bite with a file left.  `MaxOutput` 3 is
  reached by one of the widths, and the input has one unit more than the worker
  takes, or more than the runner does.
* `RecordsKept`: an earlier run whose rows a backup may already hold, and a
  second that is refused or proves one finding, which has two rows of evidence.
  `RecentResults` 1 and `RecentEvents` 3 make the earlier run fall out of what a
  replay reads.  One fault (`MaxFaults`: a row that is not stored, a query that
  fails, or a death), one backup (`MaxBackups`; the directory may hold an older one) and one restore (`MaxRestores`), at any moment.  `Late`
  puts findings and results into the pages that are copied last, which is the
  worse order for reports.
* Symmetry is used for interchangeable runs, sessions, grants, events, writers
  and auditors, and never in a run with a liveness property.

`CHECK_DEADLOCK FALSE` stands where everything that can happen has happened:
the clock of the model at its bound (`Approvals`), all events written
(`AuditChain`), all runs cleared or refused (`Policies`), all runs ended
(`Records`).
`Engine`, `LeaseTable` and `ToolRun` have an explicit end, so TLC looks for deadlocks there.

### 3.3 Fairness

`EngineShare` assumes weak fairness of each run's own steps (`FairSpec` in
`Engine`): a process that is not dead executes its next statement, and SQLite
and the gates return.  Nothing forces faults, and `Faults` there excludes
crashes and failing transactions: a reservation whose run died stays, by design
(`store.py:211-217`).

`LeaseFaults` assumes weak fairness of the clock and of each run's steps.  The
worker's exit, a crash and the recovery pass are not fair: that a run ends is
due to the wall-time limit and to `wait(timeout=2)`, which return whatever the
worker does.  A worker that ignores SIGKILL is within the model; it outlives its
run.

`ToolRace` assumes weak fairness of the parent's steps (`HostStep`) and of the
wall-time limit.  The worker is not fair: it may stop anywhere, also before it
reads its input, and the runner returns all the same, because what it writes
fits into the pipe, and everything else is under the limit.

## 4. What is proved

All theorems hold for every value of the constants that the modules' named
assumptions allow: any number of runs, users, events, writers, any limits and
delays.

| Theorem | Statement | Argument |
|---|---|---|
| `Engine_proofs!TypeCorrect`, `OneLaunch` | `TypeOK`, `OneLaunchPerRequest` | `IInv == TypeOK /\ Control /\ Bounded /\ Claims`. A launch is only possible for a run in `owners`; owners of one id are one run (`ClaimsDiffer`), because their claim stands in one of the two tables (`ClaimsStand`) and `Taken` looks at both. The launch alone is not inductive: it needs that a run past `reserve` is an owner and that an owner's id is never free again |
| `Engine_proofs!ImplementsRequestOnce` | `FollowsRequestOnce` | each step of a run is a claim, an unseen claim, a launch, a resolution or a stutter of `RequestOnce`, by cases of `Next` under `IInv` |
| `Engine_proofs!ImplementsStateMachine` | `FollowsStateMachine` | `InPlace` ties each `pc` to the states in which it occurs, so that each transition is an edge of the table; until a run gives back its lease its history has not been overruled (`Whole`), so that the one state written without `validate_transition` is an end or stands behind one |
| `Engine_proofs!NoLaunchUngated`, `NoStateFollowsAnEnd` | `LaunchGated`; `EndsOnce` for the engine | from the refinement and `Promises_proofs!NoGateSkipped`, `NoReturn`: a run with a worker was in EXECUTING (`Begun`), which is still there when a later FAILED is left out |
| `Engine_proofs!NoLaunchUnaudited` | `LaunchAudited` | `AuditOrder`: at each place on the way to the launch the trail is exactly that many events of `LaunchTrail`; `AuditKept`: afterwards it only grows |
| `Engine_proofs!ResultIsFinal`, `CompletedIsStored`, `LeasesGivenBack` | `ResultReplacesReservation`, `CompletedIsDurable`, `NoLeaseLeftBehind` | `RunsSettled`: what the finally clause has done by each of its places; `RowsSettled`: a row belongs to an owner that returned, and its states are that run's history. One row for an id then follows from `ClaimsDiffer`, and a caller who was told COMPLETED was an owner, because only a run with a claim gets there |
| `Engine_proofs!FindingsHaveEvidence` | `FindingsRest` | `EvidenceOrdered`: a second item has a first, so that counting the items tells which they are (`ItemsCounted`); `RunsCollected`: the findings of a run are those of its first observations, all of them once it completed; `RowsCollected` carries this to the stored rows, whose runs read no more output |
| `LeaseTable_proofs!TypeCorrect`, `ReservationsKept`, `ReservedWorkersBounded` | `TypeOK`, `ReservationsHold`, `ReservedWithinLimit`, for any faults and delays | `LeaseInv`: a timestamp is never in the future (`StampsPast`), so whoever prunes with one spares every row that has not expired; a run without a row has no worker yet (`NotYetSpawned`); and the table stays within the limit (`TableBounded`), because the transaction that inserts has counted what is left. Workers within their reservation have rows, so they are no more than rows (`RowsBoundWorkers`) |
| `LeaseTable_proofs!RateLimit` | `AdmissionRate` | `RateInv`: what was admitted in the shortened window is still in `calls`, whoever pruned with whatever stale timestamp, so the next admission counted it |
| `Approvals_proofs!TypeCorrect`, `DistinctApprover`, `GatePassesJustified`, `DecisionsFinal` | `TypeOK`, `ApprovedByDistinctHolder`, `PassJustified`, `DecisionsAreFinal` | `ApprovalInv`: what a session remembers of a row, a grant and the clock is still justified by the tables (`JobsInv`), because rows and grants only move forward (`Moves`) |
| `Approvals_proofs!NoEffectUnaudited`, `NoFalseReport` | `EffectsAudited`, `ReportsAreTrue` | `JobsAudited`: a session that is about to commit has its intent in the log, and what it is about to report has happened to the row (`Told`), which no legal change of the row undoes (`Descends`, `SameBinding`) |
| `Promises_proofs!TypeCorrect`, `NoGateSkipped`, `NoReturn` | `TypeOK`, `GatesNotSkipped`, `EndsOnce`, for every caller of `validate_transition` | `PathInv`: ranks rise along a history, and a history that is beyond the gates begins with their path |
| `Promises_proofs!OneLaunchHolds` | `OneLaunch`, for anything that implements `RequestOnce` | `Owned`: who launched, or may launch, is the one who claimed |
| `AuditChain_proofs!TypeCorrect`, `StopsAtCorruption` | `TypeOK`, `CorruptionLocated` | `ChainInv`: the lock belongs to the one who read the head (`LockHeld`), which is the last hash (`HeadRead`), and each row is linked and true unless damaged, and broken or unlinked if damaged (`Rows`); the least corrupted row is where verification stops |
| `AuditChain_proofs!ImplementsAuditLog` | `FollowsAuditLog`, for `MaxDamage = 0` | `EventsInv`: an event on its way is nobody else's and not yet written; the data of the rows are the events as written |
| `AuditChain_proofs!CheckpointsHold` | `CheckpointsReached` | `ReachInv`: what a probe has read so far is in the log and the ledger (`SeenTrue`), the head bounded by the length now until the count is read, by the count afterwards; an intact store only `Grows`, which keeps it true (`TrueStays`) |
| `AuditChain_proofs!RecoveryIsExact` | `RecoveredIsTrue`, for `MaxDamage <= 1` | `RecoverInv`: whoever is past the detection knows that a row is corrupted, which is then the only one, so that the prefix it found stays the right one (`SaneStays`) although events arrive between its readings |
| `AuditChain_proofs!GrowthIsAccepted` | `GrowthAccepted` | `GrowthInv`: the row a hash names is replaced but never goes away (`KeysStored`), and for a single auditor no stored row is ahead of what it has counted (`Ahead`), which needs `ReachInv` at the moment it counts |
| `Policies_proofs!TypeCorrect`, `SimulatorIsRight`, `ChecksAgree`, `QuietLocalRuns`, `ScoresFitTiers` | `TypeOK`, `SimulatorAgrees`, `DuplicatedChecksAgree`, `OnlyQuietLocalRunsClear`, `ScoreFitsTier`, for any requests, policy files and configurations | `GateInv`: a run that is past a gate, or refused at it, still has what the gate established (`ConfigurationGate` to `SelectionGate`); the properties say of a run that has ended what was decided gates earlier, so the invariant has to carry it |
| `Policies_proofs!SameBoundaryApproved` | `ApprovedUnderSameBoundary`, for any two contents of the policy file | `AskedByEnded` and `PassedOnApproval` give two policies with one text; its last two pieces are the window (`SameEnd`); if neither policy has a "|" in its name or in what it excludes (`BarFree`), the first part has three pieces, so that the texts have the same middle (`BoundaryTells`), and the middle is what is excluded, each piece an entry (`TextOfList`, `MiddleIsExcluded`), wherever the targets end and the actions begin |
| `ToolRun_proofs!TypeCorrect` | `TypeOK`, and a worker has at most `MaxObservations` observations (`Bounded`) | the worker's record changes by the few operations of `Prints`, `ScanCases` and `Verify`, and each keeps its type |
| `ToolRun_proofs!CompleteScansCover`, `AnswersAreJudged` | `CompleteIsCovered`, `JudgedForWhatItIs`, for any workspace, any links, any pipes and limits | `RunInv`: while it scans, the worker has inspected what it has taken from its list, or says that it is incomplete, and each observation names a sink of a listed file that stands there as long as nothing is edited (`WorkerOK`); what the runner has read and what is in the pipe are together what a worker that ended well has printed (`PipeOK`), so a runner that goes on has the whole answer (`WholeAnswer`); an observation that is not confirmed on an unchanged disk is then one of the two kinds of line or link that the validator reads otherwise (`Confirms`) |
| `Records_proofs!TypeCorrect`, `BackupHolds`, `ReplayFinding`, `ReplayWhole`, `ReportsSound` | `TypeOK`; `BackupHoldsExport`, `ReplayFinds`, `ReplayIsWhole`, `ReportsAreSound`, for any runs, plans, limits, pages copied late, and any number of backups, restores and faults | see below |

**The invariant of `Records_proofs`.**  A row passes through up to six places
(database, export in memory, export, hash, copy in the making, copy), and a
restore may bring an old one back, so the invariant is about places and not
about orders of events.

* `Effect(r, t, x)`: whatever an engine does, a step of run `r` stores at most
  the one row `x` in table `t`, moves only `r`, and nobody had stored `x`
  before.  Each action of an engine is shown to be one (`Effects`), and
  the rest of the proof sees no other fact about engines.
* `RunsOK` is how far a run's counters and places go together; `WrittenInv`
  says that a row in any of the six places was written by its run, as far as
  that run has come (`Written`).  Hence what is about to be stored is nowhere
  yet.
* `BackupInv` gives `BackupHoldsExport`.  It needs, besides the order of the
  steps of `create_backup`, that a row of a sealed export that is missing from
  a sound copy can neither be in the database nor be on its way to a new export
  (`Sealed`): a second backup into the directory that dies before its last step
  leaves a new export or a new copy beside the old hash, and if the two exports
  are equal the directory still verifies.
* `CleanInv` gives the two properties of readers.  A run that no restore was made
  under finds its own earlier rows in the database (`Current`), and in a
  database or a copy that is not part of another there is no result and no
  finding without the rows that are stored before it (`Complete`).  A copy made
  under a running engine is complete if nothing was committed between its two
  halves; one that is not is part of a copy, whichever tables lie in `Late`, and
  restoring it sets `tainted`.
* `ReaderInv`: what a reader has read so far is what it would read now, while
  nobody has replaced the database (`ReplayOK`, `WholeOK`, `ReportOK`), unless
  it is at its end because a query failed (`erred`).  That a log has its first
  event holds only of runs that launched.

No theorem about leases has a hypothesis.  `WorkersWithinLimit` and
`LeaseOutlivesWorker`, which bound workers that have outlived their reservation
too, follow where none does: the corollary `LeaseTable_proofs!NoExcess` derives
both under `GraceCovers` and `NoOrphans`, by deadlines that every run keeps
(`InTime`).  The first fails for the values in `store.py` (`LeaseLateLock`), the
second after a crash, so the corollary says what a deployment would have to
arrange, and not what the code does.

**Only model-checked**: the liveness properties `ClaimsAreResolved`,
`EveryRunEnds` and `RunnerReturns`.  Every other property that a
passing run checks is a theorem, but for the two of the corollary above.
**Only proved**: that the score of a risk belongs to its tier (`ScoreFitsTier`), and
`TypeOK` of `LeaseTable`, `Policies`, `ToolRun` and `Records`.  Liveness
under fairness, `ENABLED`, recursive operators, and induction theorems that
take an operator as a parameter are beyond what the installed provers do.  No
module here uses RECURSIVE; where an induction over a sequence was needed
(`ValidPrefix`), the proof takes the least counterexample (`LeastNumber`).

## 5. What is abstracted, and what is not modelled

* Contents: requests, parameters, targets, outputs, evidence and reports are
  identifiers or records of features; scores other than the risk score, texts,
  redaction and formats are left out.  No target in `Policies` has a "|" in its
  name, so an entry with one matches none.  What makes a line a sink, and what is
  written in a finding, is data.
* Resource limits of the worker are one action that ends it (`Die`).
* A corrupted checkpoint row or ledger row; the model corrupts audit rows, which
  is what detection reads.
* Of the simulator, the answer for a named tool; without one it answers for the
  scope and the risk alone.
* `retire` and `destroy` of a worker, `assert_can_execute`,
  `validate_runtime_config` and the fields `approval_required_actions` and
  `rate_limits` of a scope policy have no caller or no reader in the system.
* Files and reports without a protocol: policy versions and differences, drift,
  migration, governance (except the kernel's validation), certification,
  release, supply chain, diagnostics, benchmarks, dashboard, legacy skills.
  They load, hash and compare files that nobody changes meanwhile, and a model
  would repeat their text.

## 6. Plan

Done, in this order: state machine, leases, approvals, requests, engine, audit
chain, policies, tool run, records, each with its proofs.  The runs are as many
as the project means to keep; what is left is proof:

* `ReplayIsWhole` for a copy that engines wrote to, for the values of `Late` for
  which it is complete all the same: those that do not hold a table stored after
  one outside of it.
