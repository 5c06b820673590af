------------------------- MODULE LeaseTable_proofs -------------------------
(* Proofs about LeaseTable: the type of its state, the reservations and    *)
(* the bound on the workers within them, and the admission rate.           *)
EXTENDS LeaseTable, FiniteSetTheorems, TLAPS

(* Init establishes the type of the state and every step keeps it. *)
THEOREM TypeCorrect == Spec => []TypeOK
<1>1. Init => TypeOK
  BY LeaseAssumption DEF Init, TypeOK, PCs, NotAdmitted
<1>2. TypeOK /\ [Next]_vars => TypeOK'
  <2> SUFFICES ASSUME TypeOK, [Next]_vars PROVE TypeOK'
    OBVIOUS
  <2> USE LeaseAssumption DEF TypeOK, PCs, NotAdmitted
  <2>1. ASSUME NEW r \in Runs, ReadClock(r) PROVE TypeOK'
    BY <2>1 DEF ReadClock, Goto
  <2>2. ASSUME NEW r \in Runs, Acquire(r) PROVE TypeOK'
    BY <2>2 DEF Acquire, Goto, Live, Recent
  <2>3. ASSUME NEW r \in Runs, Reject(r) \/ LockTimeout(r) \/ AbortLaunch(r) \/ Unkillable(r)
        PROVE TypeOK'
    BY <2>3 DEF Reject, LockTimeout, AbortLaunch, Unkillable, Goto
  <2>4. ASSUME NEW r \in Runs, Spawn(r) PROVE TypeOK'
    BY <2>4 DEF Spawn, Goto
  <2>5. ASSUME NEW r \in Runs, WorkerExits(r) \/ KillWorker(r) PROVE TypeOK'
    BY <2>5 DEF WorkerExits, KillWorker, Goto
  <2>6. ASSUME NEW r \in Runs, Release(r) \/ ReleaseFails(r) \/ Crash(r) \/ OrphanExits(r)
        PROVE TypeOK'
    BY <2>6 DEF Release, ReleaseFails, Crash, OrphanExits, Goto
  <2>7. CASE RecoverCheck \/ RecoverLeases \/ RecoverCalls
    BY <2>7 DEF RecoverCheck, RecoverLeases, RecoverCalls, Live, Recent
  <2>8. CASE Tick
    BY <2>8 DEF Tick
  <2>9. CASE Finished \/ UNCHANGED vars
    BY <2>9 DEF Finished, vars
  <2> QED
    BY <2>1, <2>2, <2>3, <2>4, <2>5, <2>6, <2>7, <2>8, <2>9 DEF Next, Step
<1> QED
  BY <1>1, <1>2, PTL DEF Spec

-----------------------------------------------------------------------------
(* Reservations.  A timestamp is never in the future, so no transaction    *)
(* prunes what has not expired, whatever fails and however late it is; and *)
(* a transaction that inserts has counted what is left.                    *)
NotYetSpawned == \A r \in Runs : pc[r] \in {"idle", "waiting"} => r \notin alive
StampsPast == \A r \in Runs : stamp[r] <= clock
TableBounded == Cardinality(leases) <= MaxConcurrent

LeaseInv == NotYetSpawned /\ StampsPast /\ ReservationsHold /\ TableBounded

(* Rows are finitely many. *)
LEMMA FiniteRows ==
    ASSUME TypeOK
    PROVE  /\ IsFiniteSet(leases) /\ Cardinality(leases) \in Nat
           /\ IsFiniteSet(alive) /\ Cardinality(alive) \in Nat
BY LeaseAssumption, FS_Subset, FS_CardinalityType DEF TypeOK

(* A transaction with a timestamp not in the future prunes no reservation. *)
LEMMA PruneSpares ==
    ASSUME TypeOK, ReservationsHold, NEW t \in Int, t <= clock, NEW r \in Runs, Reserved(r)
    PROVE  r \in Live(t)
BY LeaseAssumption DEF TypeOK, ReservationsHold, Reserved, Live, ExpiresAt

(* Fewer rows keep the table within the limit. *)
LEMMA FewerRows ==
    ASSUME TypeOK, TableBounded, leases' \subseteq leases
    PROVE  TableBounded'
<1>1. IsFiniteSet(leases') /\ Cardinality(leases') <= Cardinality(leases)
  BY FiniteRows, FS_Subset
<1>2. Cardinality(leases') \in Nat
  BY <1>1, FS_CardinalityType
<1> QED
  BY <1>1, <1>2, FiniteRows, LeaseAssumption DEF TableBounded

(* The transaction that admits a run keeps the reservations and the limit. *)
LEMMA AcquireKeeps ==
    ASSUME TypeOK, LeaseInv, NEW r \in Runs, Acquire(r)
    PROVE  LeaseInv'
<1>1. stamp[r] \in Int /\ stamp[r] <= clock
  BY DEF TypeOK, LeaseInv, StampsPast
<1>2. \A o \in Runs : Reserved(o) => o \in Live(stamp[r])
  BY <1>1, PruneSpares DEF LeaseInv
<1>3. leases' = Live(stamp[r]) \cup {r} /\ Cardinality(Live(stamp[r])) < MaxConcurrent
  BY DEF Acquire, WithinLimits
<1>4. ReservationsHold'
  <2>1. \A o \in Runs : o # r /\ Reserved(o)' => Reserved(o)
    BY DEF Acquire, Goto, TypeOK, Reserved, HoldsRow
  <2> QED
    BY <1>2, <1>3, <2>1 DEF ReservationsHold
<1>5. TableBounded'
  <2>1. Live(stamp[r]) \in SUBSET leases
    BY DEF Live
  <2>2. IsFiniteSet(Live(stamp[r])) /\ Cardinality(Live(stamp[r])) \in Nat
    BY <2>1, FiniteRows, FS_Subset, FS_CardinalityType
  <2>3. Cardinality(Live(stamp[r]) \cup {r})
          \in {Cardinality(Live(stamp[r])), Cardinality(Live(stamp[r])) + 1}
    BY <2>2, FS_AddElement
  <2> QED
    BY <1>3, <2>2, <2>3, LeaseAssumption DEF TableBounded
<1> QED
  BY <1>4, <1>5 DEF LeaseInv, Acquire, Goto, NotYetSpawned, StampsPast, TypeOK

(* Every step keeps the lease invariant. *)
LEMMA LeaseStep ==
    ASSUME TypeOK, TypeOK', LeaseInv, [Next]_vars
    PROVE  LeaseInv'
<1> USE LeaseAssumption DEF TypeOK, PCs
<1> USE DEF LeaseInv, NotYetSpawned, StampsPast, ReservationsHold, Reserved, HoldsRow
<1>1. ASSUME NEW r \in Runs, ReadClock(r) PROVE LeaseInv'
  BY <1>1 DEF ReadClock, Goto, TableBounded
<1>2. ASSUME NEW r \in Runs, Acquire(r) PROVE LeaseInv'
  <2> HIDE DEF TypeOK, LeaseInv
  <2> QED
    BY <1>2, AcquireKeeps
<1>3. ASSUME NEW r \in Runs, Reject(r) \/ LockTimeout(r) \/ AbortLaunch(r) PROVE LeaseInv'
  BY <1>3 DEF Reject, LockTimeout, AbortLaunch, Goto, TableBounded
<1>4. ASSUME NEW r \in Runs, Spawn(r) \/ WorkerExits(r) \/ KillWorker(r) PROVE LeaseInv'
  BY <1>4 DEF Spawn, WorkerExits, KillWorker, Goto, TableBounded
<1>5. ASSUME NEW r \in Runs, Unkillable(r) \/ ReleaseFails(r) \/ Crash(r) \/ OrphanExits(r)
      PROVE  LeaseInv'
  BY <1>5 DEF Unkillable, ReleaseFails, Crash, OrphanExits, Goto, TableBounded
<1>6. ASSUME NEW r \in Runs, Release(r) PROVE LeaseInv'
  <2>1. NotYetSpawned' /\ StampsPast' /\ ReservationsHold'
    BY <1>6 DEF Release, Goto
  <2>2. TableBounded'
    BY <1>6, FewerRows DEF Release
  <2> QED
    BY <2>1, <2>2
<1>7. CASE RecoverLeases
  <2>1. PICK t \in (clock - LockWait)..clock : leases' = Live(t)
    BY <1>7 DEF RecoverLeases
  <2>2. t \in Int /\ t <= clock
    BY <2>1
  <2>3. \A r \in Runs : Reserved(r) => r \in Live(t)
    <3> HIDE DEF TypeOK, ReservationsHold, Reserved
    <3> QED
      BY <2>2, PruneSpares
  <2>4. ReservationsHold'
    BY <1>7, <2>1, <2>3 DEF RecoverLeases
  <2>5. TableBounded'
    BY <2>1, FewerRows DEF Live
  <2> QED
    BY <1>7, <2>4, <2>5 DEF RecoverLeases
<1>8. CASE RecoverCheck \/ RecoverCalls \/ Finished \/ UNCHANGED vars
  BY <1>8 DEF RecoverCheck, RecoverCalls, Finished, vars, TableBounded
<1>9. CASE Tick
  BY <1>9 DEF Tick, TableBounded
<1> QED
  BY <1>1, <1>2, <1>3, <1>4, <1>5, <1>6, <1>7, <1>8, <1>9 DEF Next, Step

(* The lease invariant holds for all faults and all delays. *)
LEMMA LeaseInvariant == Spec => [](TypeOK /\ LeaseInv)
<1>1. Init => LeaseInv
  BY LeaseAssumption, FS_EmptySet
     DEF Init, LeaseInv, NotYetSpawned, StampsPast, ReservationsHold, Reserved, HoldsRow,
         TableBounded
<1>2. TypeOK /\ TypeOK' /\ LeaseInv /\ [Next]_vars => LeaseInv'
  BY LeaseStep
<1> QED
  BY <1>1, <1>2, TypeCorrect, PTL DEF Spec

(* Nobody prunes the row of a run or of an orphan before Timeout + Grace   *)
(* after its timestamp, with any faults, delays, limits and runs.          *)
THEOREM ReservationsKept == Spec => []ReservationsHold
<1>1. LeaseInv => ReservationsHold
  BY DEF LeaseInv
<1> QED
  BY <1>1, LeaseInvariant, PTL

(* In no set of rows that the limit allows there is room for more workers  *)
(* within their reservation than the limit.                                *)
LEMMA RowsBoundWorkers ==
    ASSUME TypeOK, LeaseInv, NEW W, W \subseteq {r \in alive : Reserved(r)}
    PROVE  Cardinality(W) <= MaxConcurrent
<1>1. W \in SUBSET leases
  BY DEF TypeOK, LeaseInv, ReservationsHold
<1>2. IsFiniteSet(W) /\ Cardinality(W) <= Cardinality(leases)
  BY <1>1, FiniteRows, FS_Subset
<1>3. Cardinality(W) \in Nat
  BY <1>2, FS_CardinalityType
<1> QED
  BY <1>2, <1>3, FiniteRows, LeaseAssumption DEF LeaseInv, TableBounded

(* The workers within their reservation never exceed global_concurrency,   *)
(* whatever crashes, cannot be killed or cannot be released, and however   *)
(* long the write lock is waited for.                                      *)
THEOREM ReservedWorkersBounded == Spec => []ReservedWithinLimit
<1>1. TypeOK /\ LeaseInv => ReservedWithinLimit
  BY RowsBoundWorkers DEF ReservedWithinLimit
<1> QED
  BY <1>1, LeaseInvariant, PTL

-----------------------------------------------------------------------------
(* The bound on all workers follows where every worker stays within its    *)
(* reservation: the grace must cover the wait for the write lock, the way  *)
(* from the lease to the spawn and the way from the kill to the exit, and  *)
(* a worker must not outlive its run.                                      *)
GraceCovers == LockWait + LaunchDelay + KillWait <= Grace
NoOrphans == Faults \subseteq {"release"}

(* The clock has not passed the deadline of the phase a run is in. *)
InTime ==
    \A r \in Runs :
        /\ pc[r] = "waiting" => clock <= stamp[r] + LockWait
        /\ pc[r] = "leased" => /\ admitted[r] # NotAdmitted
                               /\ admitted[r] <= stamp[r] + LockWait
                               /\ clock <= admitted[r] + LaunchDelay
        /\ pc[r] = "running" => /\ spawned[r] <= stamp[r] + LockWait + LaunchDelay
                                /\ clock <= spawned[r] + Timeout + KillWait

WorkersSupervised == \A r \in alive : pc[r] = "running"

SupervisedInv == InTime /\ WorkersSupervised

(* Without orphans, deadlines and supervision are kept by every step. *)
LEMMA Supervised ==
    ASSUME NoOrphans
    PROVE  Spec => []SupervisedInv
<1>1. Init => SupervisedInv
  BY DEF Init, SupervisedInv, InTime, WorkersSupervised
<1>2. TypeOK /\ TypeOK' /\ SupervisedInv /\ [Next]_vars => SupervisedInv'
  <2> SUFFICES ASSUME TypeOK, TypeOK', SupervisedInv, [Next]_vars PROVE SupervisedInv'
    OBVIOUS
  <2> USE LeaseAssumption DEF TypeOK, PCs, NotAdmitted, SupervisedInv, InTime, WorkersSupervised
  <2>1. ASSUME NEW r \in Runs, ReadClock(r) \/ Acquire(r) PROVE SupervisedInv'
    BY <2>1 DEF ReadClock, Acquire, Goto
  <2>2. ASSUME NEW r \in Runs, Reject(r) \/ LockTimeout(r) \/ AbortLaunch(r) PROVE SupervisedInv'
    BY <2>2 DEF Reject, LockTimeout, AbortLaunch, Goto
  <2>3. ASSUME NEW r \in Runs, Spawn(r) PROVE SupervisedInv'
    <3>1. spawned'[r] = clock /\ clock <= stamp[r] + LockWait + LaunchDelay
      BY <2>3 DEF Spawn
    <3> QED
      BY <2>3, <3>1 DEF Spawn, Goto
  <2>4. ASSUME NEW r \in Runs, WorkerExits(r) \/ KillWorker(r) PROVE SupervisedInv'
    BY <2>4 DEF WorkerExits, KillWorker, Goto
  <2>5. ASSUME NEW r \in Runs, Release(r) \/ ReleaseFails(r) \/ OrphanExits(r) PROVE SupervisedInv'
    BY <2>5 DEF Release, ReleaseFails, OrphanExits, Goto
  <2>6. ASSUME NEW r \in Runs, Unkillable(r) \/ Crash(r) PROVE SupervisedInv'
    BY <2>6 DEF Unkillable, Crash, NoOrphans
  <2>7. CASE Tick
    <3>1. \A r \in Runs : pc[r] = "waiting" => clock + 1 <= stamp[r] + LockWait
      BY <2>7 DEF Tick
    <3>2. \A r \in Runs : pc[r] = "leased" => clock + 1 <= admitted[r] + LaunchDelay
      BY <2>7 DEF Tick
    <3>3. \A r \in Runs : pc[r] = "running" => clock + 1 <= spawned[r] + Timeout + KillWait
      BY <2>7 DEF Tick
    <3> QED
      BY <2>7, <3>1, <3>2, <3>3 DEF Tick
  <2>8. CASE RecoverCheck \/ RecoverLeases \/ RecoverCalls \/ Finished \/ UNCHANGED vars
    BY <2>8 DEF RecoverCheck, RecoverLeases, RecoverCalls, Finished, vars
  <2> QED
    BY <2>1, <2>2, <2>3, <2>4, <2>5, <2>6, <2>7, <2>8 DEF Next, Step
<1> QED
  BY <1>1, <1>2, TypeCorrect, PTL DEF Spec

(* A run in flight is then within its reservation. *)
LEMMA InFlightReserved ==
    ASSUME GraceCovers, TypeOK, SupervisedInv, NEW r \in Runs, HoldsRow(r)
    PROVE  Reserved(r)
<1>1. pc[r] \in {"leased", "running"}
  BY DEF SupervisedInv, WorkersSupervised, HoldsRow
<1>2. clock <= stamp[r] + Timeout + LockWait + LaunchDelay + KillWait
  BY <1>1, LeaseAssumption DEF TypeOK, SupervisedInv, InTime, NotAdmitted
<1> QED
  BY <1>1, <1>2, LeaseAssumption DEF TypeOK, GraceCovers, Reserved

(* So no row is pruned under a run in flight, and there are never more     *)
(* workers than the limit.                                                 *)
COROLLARY NoExcess ==
    ASSUME GraceCovers, NoOrphans
    PROVE  Spec => [](LeaseOutlivesWorker /\ WorkersWithinLimit)
<1>1. TypeOK /\ LeaseInv /\ SupervisedInv => LeaseOutlivesWorker /\ WorkersWithinLimit
  <2> SUFFICES ASSUME TypeOK, LeaseInv, SupervisedInv PROVE LeaseOutlivesWorker /\ WorkersWithinLimit
    OBVIOUS
  <2>1. \A r \in Runs : HoldsRow(r) => Reserved(r)
    BY InFlightReserved
  <2>2. alive \subseteq {r \in alive : Reserved(r)}
    BY <2>1 DEF TypeOK, HoldsRow
  <2> QED
    BY <2>1, <2>2, RowsBoundWorkers
       DEF LeaseInv, ReservationsHold, LeaseOutlivesWorker, WorkersWithinLimit
<1> QED
  BY <1>1, LeaseInvariant, Supervised, PTL

-----------------------------------------------------------------------------
(* The admission rate.  The rows of what was admitted lately are still in  *)
(* the table, so the next transaction counts them.                         *)
StampedInTime ==
    \A r \in Runs :
        /\ stamp[r] <= clock
        /\ pc[r] = "idle" => ~Admitted(r)
        /\ pc[r] = "waiting" => clock <= stamp[r] + LockWait
        /\ Admitted(r) => admitted[r] <= clock /\ admitted[r] <= stamp[r] + LockWait

RateInv == StampedInTime /\ JustAdmitted \subseteq calls /\ AdmissionRate

(* One more element keeps a set that was below a bound within it. *)
LEMMA AddOne ==
    ASSUME NEW T, IsFiniteSet(T), NEW x, NEW n \in Nat, Cardinality(T) < n,
           NEW S, S \subseteq T \cup {x}
    PROVE  Cardinality(S) <= n
<1>1. IsFiniteSet(T \cup {x}) /\ Cardinality(T) \in Nat
  BY FS_AddElement, FS_CardinalityType
<1>2. Cardinality(T \cup {x}) \in {Cardinality(T), Cardinality(T) + 1}
  BY FS_AddElement
<1>3. Cardinality(S) \in Nat /\ Cardinality(S) <= Cardinality(T \cup {x})
  BY <1>1, FS_Subset, FS_CardinalityType
<1> QED
  BY <1>1, <1>2, <1>3

(* A transaction with a timestamp not in the future counts every late      *)
(* admission.                                                              *)
LEMMA LateAdmissionsCounted ==
    ASSUME TypeOK, StampedInTime, JustAdmitted \subseteq calls, NEW t \in Int, t <= clock
    PROVE  JustAdmitted \subseteq Recent(t)
BY LeaseAssumption DEF TypeOK, StampedInTime, JustAdmitted, Admitted, Recent, NotAdmitted

(* A step that admits nobody keeps the rate. *)
LEMMA RateShrinks ==
    ASSUME TypeOK, AdmissionRate, JustAdmitted' \subseteq JustAdmitted
    PROVE  AdmissionRate'
<1> DEFINE Of(p) == {r \in JustAdmitted : PrincipalOf[r] = p}
           At(p, s) == {r \in JustAdmitted : PrincipalOf[r] = p /\ SiteOf[r] = s}
<1>1. IsFiniteSet(JustAdmitted)
  BY LeaseAssumption, FS_Subset DEF JustAdmitted
<1>2. ASSUME NEW p \in Principals PROVE Cardinality(Of(p)') <= GlobalPerMinute
  <2>1. IsFiniteSet(Of(p)) /\ Of(p)' \in SUBSET Of(p)
    BY <1>1, FS_Subset
  <2>2. Cardinality(Of(p)') <= Cardinality(Of(p)) /\ IsFiniteSet(Of(p)')
    BY <2>1, FS_Subset
  <2>3. Cardinality(Of(p)) \in Nat /\ Cardinality(Of(p)') \in Nat
    BY <2>1, <2>2, FS_CardinalityType
  <2> QED
    BY <2>2, <2>3, LeaseAssumption DEF AdmissionRate
<1>3. ASSUME NEW p \in Principals, NEW s \in Sites PROVE Cardinality(At(p, s)') <= PerMinute
  <2>1. IsFiniteSet(At(p, s)) /\ At(p, s)' \in SUBSET At(p, s)
    BY <1>1, FS_Subset
  <2>2. Cardinality(At(p, s)') <= Cardinality(At(p, s)) /\ IsFiniteSet(At(p, s)')
    BY <2>1, FS_Subset
  <2>3. Cardinality(At(p, s)) \in Nat /\ Cardinality(At(p, s)') \in Nat
    BY <2>1, <2>2, FS_CardinalityType
  <2>4. Cardinality(At(p, s)) <= PerMinute
    BY DEF AdmissionRate
  <2> QED
    BY <2>2, <2>3, <2>4, LeaseAssumption
<1> QED
  BY <1>2, <1>3 DEF AdmissionRate

(* The transaction that admits a run keeps the rate. *)
LEMMA RateAcquire ==
    ASSUME TypeOK, RateInv, NEW r \in Runs, Acquire(r)
    PROVE  AdmissionRate'
<1> DEFINE T == Recent(stamp[r])
           Of(S, p) == {c \in S : PrincipalOf[c] = p}
           At(S, p, s) == {c \in S : PrincipalOf[c] = p /\ SiteOf[c] = s}
<1>1. stamp[r] \in Int /\ stamp[r] <= clock
  BY DEF TypeOK, RateInv, StampedInTime
<1>2. JustAdmitted \subseteq T
  BY <1>1, LateAdmissionsCounted DEF RateInv
<1>3. JustAdmitted' \subseteq JustAdmitted \cup {r}
  BY DEF Acquire, JustAdmitted, Admitted, TypeOK
<1>4. IsFiniteSet(T) /\ IsFiniteSet(JustAdmitted)
  BY LeaseAssumption, FS_Subset DEF Recent, TypeOK, JustAdmitted
<1>5. ASSUME NEW p \in Principals PROVE Cardinality(Of(JustAdmitted', p)) <= GlobalPerMinute
  <2>1. CASE p = PrincipalOf[r]
    <3>1. IsFiniteSet(Of(T, p)) /\ Cardinality(Of(T, p)) < GlobalPerMinute
      BY <1>4, <2>1, FS_Subset DEF Acquire, WithinLimits, WithinRates
    <3>2. Of(JustAdmitted', p) \subseteq Of(T, p) \cup {r}
      BY <1>2, <1>3
    <3> QED
      BY <3>1, <3>2, AddOne, LeaseAssumption
  <2>2. CASE p # PrincipalOf[r]
    <3>1. Of(JustAdmitted', p) \in SUBSET Of(JustAdmitted, p) /\ IsFiniteSet(Of(JustAdmitted, p))
      BY <1>3, <1>4, <2>2, FS_Subset
    <3>2. Cardinality(Of(JustAdmitted, p)) <= GlobalPerMinute
      BY DEF RateInv, AdmissionRate
    <3>3. /\ Cardinality(Of(JustAdmitted', p)) <= Cardinality(Of(JustAdmitted, p))
          /\ IsFiniteSet(Of(JustAdmitted', p))
      BY <3>1, FS_Subset
    <3>4. Cardinality(Of(JustAdmitted', p)) \in Nat /\ Cardinality(Of(JustAdmitted, p)) \in Nat
      BY <3>1, <3>3, FS_CardinalityType
    <3> QED
      BY <3>2, <3>3, <3>4, LeaseAssumption
  <2> QED
    BY <2>1, <2>2
<1>6. ASSUME NEW p \in Principals, NEW s \in Sites
      PROVE  Cardinality(At(JustAdmitted', p, s)) <= PerMinute
  <2>1. CASE p = PrincipalOf[r] /\ s = SiteOf[r]
    <3>1. IsFiniteSet(At(T, p, s)) /\ Cardinality(At(T, p, s)) < PerMinute
      BY <1>4, <2>1, FS_Subset DEF Acquire, WithinLimits, WithinRates
    <3>2. At(JustAdmitted', p, s) \subseteq At(T, p, s) \cup {r}
      BY <1>2, <1>3
    <3> QED
      BY <3>1, <3>2, AddOne, LeaseAssumption
  <2>2. CASE ~(p = PrincipalOf[r] /\ s = SiteOf[r])
    <3>1. /\ At(JustAdmitted', p, s) \in SUBSET At(JustAdmitted, p, s)
          /\ IsFiniteSet(At(JustAdmitted, p, s))
      BY <1>3, <1>4, <2>2, FS_Subset
    <3>2. Cardinality(At(JustAdmitted, p, s)) <= PerMinute
      BY DEF RateInv, AdmissionRate
    <3>3. /\ Cardinality(At(JustAdmitted', p, s)) <= Cardinality(At(JustAdmitted, p, s))
          /\ IsFiniteSet(At(JustAdmitted', p, s))
      BY <3>1, FS_Subset
    <3>4. /\ Cardinality(At(JustAdmitted', p, s)) \in Nat
          /\ Cardinality(At(JustAdmitted, p, s)) \in Nat
      BY <3>1, <3>3, FS_CardinalityType
    <3> QED
      BY <3>2, <3>3, <3>4, LeaseAssumption
  <2> QED
    BY <2>1, <2>2
<1> QED
  BY <1>5, <1>6 DEF AdmissionRate

(* Every step keeps the rate invariant. *)
LEMMA RateStep ==
    ASSUME TypeOK, TypeOK', RateInv, [Next]_vars
    PROVE  RateInv'
<1> USE LeaseAssumption DEF TypeOK, PCs, NotAdmitted
<1> DEFINE Same == UNCHANGED <<clock, admitted>>
<1>1. Same => JustAdmitted' = JustAdmitted
  BY DEF JustAdmitted, Admitted
<1>2. JustAdmitted' \subseteq JustAdmitted => AdmissionRate'
  <2> HIDE DEF TypeOK
  <2> QED
    BY RateShrinks DEF RateInv
<1>3. ASSUME NEW r \in Runs, ReadClock(r) PROVE RateInv'
  <2>1. StampedInTime' /\ Same /\ UNCHANGED calls
    BY <1>3 DEF ReadClock, Goto, RateInv, StampedInTime, Admitted
  <2> QED
    BY <1>1, <1>2, <2>1 DEF RateInv
<1>4. ASSUME NEW r \in Runs, Acquire(r) PROVE RateInv'
  <2>1. AdmissionRate'
    <3> HIDE DEF TypeOK
    <3> QED
      BY <1>4, RateAcquire
  <2>2. StampedInTime'
    BY <1>4 DEF Acquire, Goto, RateInv, StampedInTime, Admitted
  <2>3. JustAdmitted \subseteq Recent(stamp[r])
    <3>1. stamp[r] \in Int /\ stamp[r] <= clock
      BY DEF RateInv, StampedInTime
    <3> HIDE DEF TypeOK
    <3> QED
      BY <3>1, LateAdmissionsCounted DEF RateInv
  <2>4. JustAdmitted' \subseteq JustAdmitted \cup {r}
    BY <1>4 DEF Acquire, JustAdmitted, Admitted
  <2> QED
    BY <1>4, <2>1, <2>2, <2>3, <2>4 DEF RateInv, Acquire
<1>5. ASSUME NEW r \in Runs, Step(r), ~Acquire(r) PROVE RateInv'
  <2>1. StampedInTime' /\ Same /\ UNCHANGED calls
    BY <1>5 DEF Step, Reject, LockTimeout, Spawn, AbortLaunch, KillWorker, Unkillable,
                Release, ReleaseFails, Goto, RateInv, StampedInTime, Admitted
  <2> QED
    BY <1>1, <1>2, <2>1 DEF RateInv
<1>6. ASSUME NEW r \in Runs, WorkerExits(r) \/ Crash(r) \/ OrphanExits(r) PROVE RateInv'
  <2>1. StampedInTime' /\ Same /\ UNCHANGED calls
    BY <1>6 DEF WorkerExits, Crash, OrphanExits, Goto, RateInv, StampedInTime, Admitted
  <2> QED
    BY <1>1, <1>2, <2>1 DEF RateInv
<1>7. CASE RecoverCheck \/ RecoverLeases \/ Finished \/ UNCHANGED vars
  <2>1. StampedInTime' /\ Same /\ UNCHANGED calls
    BY <1>7 DEF RecoverCheck, RecoverLeases, Finished, vars, RateInv, StampedInTime, Admitted
  <2> QED
    BY <1>1, <1>2, <2>1 DEF RateInv
<1>8. CASE RecoverCalls
  <2>1. PICK t \in (clock - LockWait)..clock : calls' = Recent(t)
    BY <1>8 DEF RecoverCalls
  <2>2. t \in Int /\ t <= clock
    BY <2>1
  <2>3. JustAdmitted \subseteq Recent(t)
    <3> HIDE DEF TypeOK
    <3> QED
      BY <2>2, LateAdmissionsCounted DEF RateInv
  <2>4. StampedInTime' /\ Same
    BY <1>8 DEF RecoverCalls, RateInv, StampedInTime, Admitted
  <2> QED
    BY <1>1, <1>2, <2>1, <2>3, <2>4 DEF RateInv
<1>9. CASE Tick
  <2>1. \A r \in Runs : pc[r] = "waiting" => clock + 1 <= stamp[r] + LockWait
    BY <1>9 DEF Tick
  <2>2. StampedInTime'
    BY <1>9, <2>1 DEF Tick, RateInv, StampedInTime, Admitted
  <2>3. JustAdmitted' \subseteq JustAdmitted
    BY <1>9 DEF Tick, JustAdmitted, Admitted
  <2> QED
    BY <1>2, <1>9, <2>2, <2>3 DEF RateInv, Tick
<1> QED
  BY <1>3, <1>4, <1>5, <1>6, <1>7, <1>8, <1>9 DEF Next

(* Whatever the faults and the delays, no principal is admitted more often *)
(* than its rates allow in any span of Window - LockWait.                  *)
THEOREM RateLimit == Spec => []AdmissionRate
<1>1. Init => RateInv
  <2> SUFFICES ASSUME Init PROVE RateInv
    OBVIOUS
  <2>1. StampedInTime /\ JustAdmitted = {}
    BY LeaseAssumption DEF Init, StampedInTime, JustAdmitted, Admitted, NotAdmitted
  <2>2. Cardinality({}) = 0
    BY FS_EmptySet
  <2>3. AdmissionRate
    <3>1. \A p : {r \in JustAdmitted : PrincipalOf[r] = p} = {}
      BY <2>1
    <3>2. \A p, s : {r \in JustAdmitted : PrincipalOf[r] = p /\ SiteOf[r] = s} = {}
      BY <2>1
    <3> QED
      BY <2>2, <3>1, <3>2, LeaseAssumption DEF AdmissionRate
  <2> QED
    BY <2>1, <2>3 DEF RateInv
<1>2. TypeOK /\ TypeOK' /\ RateInv /\ [Next]_vars => RateInv'
  BY RateStep
<1>3. RateInv => AdmissionRate
  BY DEF RateInv
<1> QED
  BY <1>1, <1>2, <1>3, TypeCorrect, PTL DEF Spec
=============================================================================
