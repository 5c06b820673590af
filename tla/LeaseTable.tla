----------------------------- MODULE LeaseTable -----------------------------
(***************************************************************************)
(* The rate and concurrency reservations of noble-cascade: the tables      *)
(* rate_calls and active_leases of noble/store.py, the engine runs that    *)
(* reserve and release them (noble/engine.py), the worker processes that   *)
(* the reservations are meant to bound (noble/execution.py) and the        *)
(* recovery pass that clears what expired (noble/recovery.py).             *)
(*                                                                         *)
(* Time is an integer clock.  A run reads it BEFORE it asks SQLite for the *)
(* write lock, so the timestamp a transaction works with can be older than *)
(* the transaction by up to the busy timeout; the worker's wall-time limit *)
(* counts from its spawn, later still.  Rows are keyed by run: a run       *)
(* inserts at most one row of each table, both derived from stamp[r].      *)
(***************************************************************************)
EXTENDS Integers, FiniteSets

CONSTANTS
    Runs,             \* engine runs, each with its own lease id
    Principals, PrincipalOf,   \* who a run acts for
    Sites, SiteOf,    \* the (tool, target) pair a run uses
    MaxConcurrent,    \* limits.global_concurrency
    PerMinute,        \* rate_limit_per_minute of the tool
    GlobalPerMinute,  \* limits.rate_per_minute
    Window,           \* 60 seconds in the code
    Timeout,          \* timeout_seconds of the tool
    Grace,            \* 5 seconds in the code
    LockWait,         \* SQLite busy timeout, 10 seconds in the code
    LaunchDelay,      \* longest delay from COMMIT of the lease to the spawn
    KillWait,         \* 4 seconds in the code: _kill_group waits 2, at most twice
    Faults,           \* the failures a run of the model may meet
    MaxClock          \* bound of the model on the clock

FaultKinds == {"crash", "unkillable", "release"}

ASSUME LeaseAssumption ==
    /\ IsFiniteSet(Runs)
    /\ PrincipalOf \in [Runs -> Principals]
    /\ SiteOf \in [Runs -> Sites]
    /\ {MaxConcurrent, PerMinute, GlobalPerMinute} \subseteq Nat \ {0}
    /\ {Window, Timeout, Grace, LockWait, LaunchDelay, KillWait, MaxClock} \subseteq Nat
    /\ Faults \subseteq FaultKinds

VARIABLES
    clock,     \* time.time(), in whole units
    pc,        \* where each run is
    stamp,     \* the timestamp a run read before BEGIN IMMEDIATE
    admitted,  \* when the transaction of a run committed (NotAdmitted: never)
    spawned,   \* when the worker of a run was started
    alive,     \* runs whose worker process exists
    leases,    \* rows of active_leases
    calls,     \* rows of rate_calls
    recovery   \* what the recovery pass does next

vars == <<clock, pc, stamp, admitted, spawned, alive, leases, calls, recovery>>

NotAdmitted == -1
PCs == {"idle", "waiting", "leased", "running", "releasing", "done", "crashed"}

(* The type of the state; rows and workers are named by their run. *)
TypeOK ==
    /\ clock \in Nat
    /\ pc \in [Runs -> PCs]
    /\ stamp \in [Runs -> Nat]
    /\ admitted \in [Runs -> Nat \cup {NotAdmitted}]
    /\ spawned \in [Runs -> Nat]
    /\ alive \subseteq Runs
    /\ leases \subseteq Runs
    /\ calls \subseteq Runs
    /\ recovery \in {"off", "leases", "calls"}

Init ==
    /\ clock = 0
    /\ pc = [r \in Runs |-> "idle"]
    /\ stamp = [r \in Runs |-> 0]
    /\ admitted = [r \in Runs |-> NotAdmitted]
    /\ spawned = [r \in Runs |-> 0]
    /\ alive = {}
    /\ leases = {}
    /\ calls = {}
    /\ recovery = "off"

Goto(r, label) == pc' = [pc EXCEPT ![r] = label]

-----------------------------------------------------------------------------
(* Rows.  An expired row is one that the DELETE of a transaction with      *)
(* timestamp t removes.                                                    *)

(* Mutant: the grace is forgotten. *)
BugExpiresAt(r) == stamp[r] + Timeout
ExpiresAt(r) == stamp[r] + Timeout + Grace

Live(t) == {r \in leases : ExpiresAt(r) >= t}

Recent(t) == {r \in calls : stamp[r] >= t - Window}

(* The counts of acquire_lease, over the rows that survive the pruning. *)
(* Mutant: the per-tool rate is off by one. *)
BugWithinRates(r, t) ==
    /\ Cardinality({c \in Recent(t) : /\ PrincipalOf[c] = PrincipalOf[r]
                                      /\ SiteOf[c] = SiteOf[r]}) <= PerMinute
    /\ Cardinality({c \in Recent(t) : PrincipalOf[c] = PrincipalOf[r]}) < GlobalPerMinute
WithinRates(r, t) ==
    /\ Cardinality({c \in Recent(t) : /\ PrincipalOf[c] = PrincipalOf[r]
                                      /\ SiteOf[c] = SiteOf[r]}) < PerMinute
    /\ Cardinality({c \in Recent(t) : PrincipalOf[c] = PrincipalOf[r]}) < GlobalPerMinute
(* Mutant: the limit on workers is off by one. *)
BugWithinLimits(r, t) == WithinRates(r, t) /\ Cardinality(Live(t)) <= MaxConcurrent
WithinLimits(r, t) == WithinRates(r, t) /\ Cardinality(Live(t)) < MaxConcurrent

-----------------------------------------------------------------------------
(* A run reaches acquire_lease and reads the clock; the write lock comes   *)
(* later.  The bound keeps enough clock for the run to end.                *)
Horizon == LockWait + LaunchDelay + Timeout + KillWait

ReadClock(r) ==
    /\ pc[r] = "idle"
    /\ clock + Horizon <= MaxClock
    /\ stamp' = [stamp EXCEPT ![r] = clock]
    /\ Goto(r, "waiting")
    /\ UNCHANGED <<clock, admitted, spawned, alive, leases, calls, recovery>>

(* The transaction: prune both tables, count, insert one row in each. *)
Acquire(r) ==
    /\ pc[r] = "waiting"
    /\ WithinLimits(r, stamp[r])
    /\ leases' = Live(stamp[r]) \cup {r}
    /\ calls' = Recent(stamp[r]) \cup {r}
    /\ admitted' = [admitted EXCEPT ![r] = clock]
    /\ Goto(r, "leased")
    /\ UNCHANGED <<clock, stamp, spawned, alive, recovery>>

(* ROLLBACK undoes the pruning too; the engine's finally still releases. *)
Reject(r) ==
    /\ pc[r] = "waiting"
    /\ ~WithinLimits(r, stamp[r])
    /\ Goto(r, "releasing")
    /\ UNCHANGED <<clock, stamp, admitted, spawned, alive, leases, calls, recovery>>

(* "database is locked" after the busy timeout. *)
LockTimeout(r) ==
    /\ pc[r] = "waiting"
    /\ clock - stamp[r] >= LockWait
    /\ Goto(r, "releasing")
    /\ UNCHANGED <<clock, stamp, admitted, spawned, alive, leases, calls, recovery>>

(* CommandRunner.run starts the worker in a session of its own. *)
Spawn(r) ==
    /\ pc[r] = "leased"
    /\ spawned' = [spawned EXCEPT ![r] = clock]
    /\ alive' = alive \cup {r}
    /\ Goto(r, "running")
    /\ UNCHANGED <<clock, stamp, admitted, leases, calls, recovery>>

(* The EXECUTING audit event fails, or the runner refuses before Popen. *)
AbortLaunch(r) ==
    /\ pc[r] = "leased"
    /\ Goto(r, "releasing")
    /\ UNCHANGED <<clock, stamp, admitted, spawned, alive, leases, calls, recovery>>

(* The worker ends by itself or is killed for its output size. *)
WorkerExits(r) ==
    /\ pc[r] = "running"
    /\ r \in alive
    /\ alive' = alive \ {r}
    /\ Goto(r, "releasing")
    /\ UNCHANGED <<clock, stamp, admitted, spawned, leases, calls, recovery>>

(* The wall-time limit: SIGKILL to the process group, then wait. *)
KillWorker(r) ==
    /\ pc[r] = "running"
    /\ clock - spawned[r] >= Timeout
    /\ alive' = alive \ {r}
    /\ Goto(r, "releasing")
    /\ UNCHANGED <<clock, stamp, admitted, spawned, leases, calls, recovery>>

(* wait(timeout=2) expires: ToolTimeout although the worker still lives. *)
Unkillable(r) ==
    /\ "unkillable" \in Faults
    /\ pc[r] = "running"
    /\ clock - spawned[r] >= Timeout + KillWait
    /\ Goto(r, "releasing")
    /\ UNCHANGED <<clock, stamp, admitted, spawned, alive, leases, calls, recovery>>

(* The finally clause of the engine; deleting no row is no error. *)
(* Mutant: the row is deleted by (tool, target) instead of by lease id. *)
BugRelease(r) ==
    /\ pc[r] = "releasing"
    /\ leases' = {o \in leases : SiteOf[o] # SiteOf[r]}
    /\ Goto(r, "done")
    /\ UNCHANGED <<clock, stamp, admitted, spawned, alive, calls, recovery>>
(* Mutant: a run without a row waits for one to delete. *)
BugReleaseOwn(r) ==
    /\ pc[r] = "releasing"
    /\ r \in leases
    /\ leases' = leases \ {r}
    /\ Goto(r, "done")
    /\ UNCHANGED <<clock, stamp, admitted, spawned, alive, calls, recovery>>
Release(r) ==
    /\ pc[r] = "releasing"
    /\ leases' = leases \ {r}
    /\ Goto(r, "done")
    /\ UNCHANGED <<clock, stamp, admitted, spawned, alive, calls, recovery>>

(* The DELETE fails: lease_cleanup_failed, the row waits for its expiry. *)
ReleaseFails(r) ==
    /\ "release" \in Faults
    /\ pc[r] = "releasing"
    /\ Goto(r, "done")
    /\ UNCHANGED <<clock, stamp, admitted, spawned, alive, leases, calls, recovery>>

(* The process of the run dies; its worker is in another session. *)
Crash(r) ==
    /\ "crash" \in Faults
    /\ pc[r] \in {"waiting", "leased", "running", "releasing"}
    /\ Goto(r, "crashed")
    /\ UNCHANGED <<clock, stamp, admitted, spawned, alive, leases, calls, recovery>>

(* A worker nobody waits for any more ends on its own, whenever it does. *)
OrphanExits(r) ==
    /\ pc[r] \in {"releasing", "done", "crashed"}
    /\ r \in alive
    /\ alive' = alive \ {r}
    /\ UNCHANGED <<clock, pc, stamp, admitted, spawned, leases, calls, recovery>>

-----------------------------------------------------------------------------
(* RecoveryManager.attempt_recovery: the queue check counts every row,     *)
(* expired or not; the two deletions follow, each with its own timestamp.  *)
RecoverCheck ==
    /\ recovery = "off"
    /\ Cardinality(leases) >= MaxConcurrent
    /\ recovery' = "leases"
    /\ UNCHANGED <<clock, pc, stamp, admitted, spawned, alive, leases, calls>>

RecoverLeases ==
    /\ recovery = "leases"
    /\ \E t \in (clock - LockWait)..clock : leases' = Live(t)
    /\ recovery' = "calls"
    /\ UNCHANGED <<clock, pc, stamp, admitted, spawned, alive, calls>>

RecoverCalls ==
    /\ recovery = "calls"
    /\ \E t \in (clock - LockWait)..clock : calls' = Recent(t)
    /\ recovery' = "off"
    /\ UNCHANGED <<clock, pc, stamp, admitted, spawned, alive, leases>>

(* The clock moves unless a run has a deadline of its own at this instant. *)
Tick ==
    /\ clock < MaxClock
    /\ \A r \in Runs :
        /\ pc[r] = "waiting" => clock < stamp[r] + LockWait
        /\ pc[r] = "leased" => clock < admitted[r] + LaunchDelay
        /\ pc[r] = "running" => clock < spawned[r] + Timeout + KillWait
    /\ clock' = clock + 1
    /\ UNCHANGED <<pc, stamp, admitted, spawned, alive, leases, calls, recovery>>

Ended(r) == pc[r] \in {"done", "crashed"}

(* Every run is over and no more can start before the bound of the clock. *)
Finished ==
    /\ \A r \in Runs : Ended(r) \/ pc[r] = "idle"
    /\ UNCHANGED vars

Step(r) ==
    \/ Acquire(r) \/ Reject(r) \/ LockTimeout(r)
    \/ Spawn(r) \/ AbortLaunch(r)
    \/ KillWorker(r) \/ Unkillable(r)
    \/ Release(r) \/ ReleaseFails(r)

Next ==
    \/ \E r \in Runs :
        \/ ReadClock(r)
        \/ Step(r)
        \/ WorkerExits(r)
        \/ Crash(r)
        \/ OrphanExits(r)
    \/ RecoverCheck \/ RecoverLeases \/ RecoverCalls
    \/ Tick
    \/ Finished

Spec == Init /\ [][Next]_vars

(* A run that is not crashed keeps executing and time passes.  Nothing     *)
(* forces a worker to exit by itself, a crash, or a recovery pass.         *)
Fairness == WF_vars(Tick) /\ \A r \in Runs : WF_vars(Step(r))
FairSpec == Spec /\ Fairness

-----------------------------------------------------------------------------
(* Properties. *)

(* The concurrency limit is about processes, not rows: never more worker   *)
(* processes than global_concurrency, although rows expire by a timestamp  *)
(* taken before the lock and workers are timed from their spawn.           *)
WorkersWithinLimit == Cardinality(alive) <= MaxConcurrent

(* A run that holds a lease and has not ended still has its row, whoever   *)
(* pruned the table meanwhile.                                             *)
HoldsRow(r) == pc[r] \in {"leased", "running"} \/ r \in alive
LeaseOutlivesWorker == \A r \in Runs : HoldsRow(r) => r \in leases

(* Nobody takes a reservation away early: until Timeout + Grace after its  *)
(* timestamp a run that has not given its lease back still has its row,    *)
(* and so has the worker of a run that died or that gave up the kill,      *)
(* whoever prunes with whatever stale timestamp.                           *)
Reserved(r) == HoldsRow(r) /\ pc[r] # "done" /\ clock <= stamp[r] + Timeout + Grace
ReservationsHold == \A r \in Runs : Reserved(r) => r \in leases

(* What the limit bounds whatever fails and however long the lock is       *)
(* waited for: the workers within their reservation, orphans included.     *)
(* Every worker beyond the limit has outlived its Timeout + Grace, or was  *)
(* left alive by a run that has ended.                                     *)
ReservedWithinLimit == Cardinality({r \in alive : Reserved(r)}) <= MaxConcurrent

(* Admissions of the last Window - LockWait units stay within both rates:  *)
(* timestamps out of order can cost the limiter the oldest LockWait units  *)
(* of its window, no more.                                                 *)
Admitted(r) == admitted[r] # NotAdmitted
JustAdmitted == {r \in Runs : Admitted(r) /\ admitted[r] >= clock - (Window - LockWait)}
AdmissionRate ==
    \A p \in Principals :
        /\ Cardinality({r \in JustAdmitted : PrincipalOf[r] = p}) <= GlobalPerMinute
        /\ \A s \in Sites :
            Cardinality({r \in JustAdmitted : PrincipalOf[r] = p /\ SiteOf[r] = s}) <= PerMinute

(* A run that asked for a lease ends, even when its worker never does. *)
EveryRunEnds == \A r \in Runs : pc[r] = "waiting" ~> Ended(r)
=============================================================================
