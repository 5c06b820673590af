------------------------- MODULE AuditChain_proofs -------------------------
(* Proofs about AuditChain: types, where verify_audit stops, that the      *)
(* table is an append-only log, and what a checkpoint, a recovery and a    *)
(* verification by hash may rely on.                                       *)
EXTENDS AuditChain, FiniteSetTheorems, SequenceTheorems, WellFoundedInduction, TLAPS

(* What is in a row, a job or an emit when only a part of it matters. *)
LEMMA EmitFields ==
    ASSUME NEW x \in Emits
    PROVE  /\ x.pc \in {"idle", "locked", "read", "committed"}
           /\ x.prev \in Hashes
           /\ x.pc # "idle" => /\ x.event \in Events
                               /\ x \in [pc : {"locked", "read", "committed"}, event : Events,
                                         prev : Hashes]
<1>1. Resting.prev \in Hashes
    BY DEF Resting, Hashes, Zero
<1> QED  BY <1>1 DEF Emits, Resting

LEMMA HashesGrow ==
    ASSUME NEW h \in Hashes, NEW e \in Events
    PROVE  Digest(h, e) \in Hashes
BY DEF Digest, Hashes

LEMMA LastHashType == TypeOK => LastHash(log) \in Hashes
<1> SUFFICES ASSUME TypeOK  PROVE LastHash(log) \in Hashes
    OBVIOUS
<1>1. log \in Seq(Row)
    BY DEF TypeOK
<1>2. CASE Len(log) = 0
    BY <1>2 DEF LastHash, HashAt, Zero, Hashes
<1>3. CASE Len(log) # 0
  <2>1. log[Len(log)] \in Row
      BY <1>1, <1>3
  <2> QED  BY <2>1, <1>3 DEF LastHash, HashAt, Row
<1> QED  BY <1>2, <1>3

LEMMA LedgerHeadType == TypeOK => LedgerHead \in Events \cup {Nothing}
<1> SUFFICES ASSUME TypeOK, ledger # <<>>  PROVE Last(ledger) \in Events
    BY DEF LedgerHead
<1> QED  BY DEF TypeOK, Last

LEMMA UnreadType == Unread \in Checkpoint
BY DEF Unread, Checkpoint, Zero, Hashes

(* A probe leaves a checkpoint of the right type. *)
LEMMA ProbeType ==
    ASSUME TypeOK, NEW c \in Auditors, Probe(c)
    PROVE  job'[c] \in Jobs
<1> DEFINE Looks == [goal : {"write", "check", "verify"}, key : Checkpoint,
                     seen : Checkpoint, next : 1..5]
           j == job[c]
<1>1. j \in Looks
    BY DEF TypeOK, Jobs, Probe, Idle
<1>2. LastHash(log) \in Hashes /\ LedgerHead \in Events \cup {Nothing}
    BY LastHashType, LedgerHeadType
<1>3. Len(log) \in Nat /\ Len(ledger) \in Nat
    BY DEF TypeOK
<1>4. PICK seen \in Checkpoint : See(c, seen) /\ j.next \in 1..4
  <2>1. j.seen \in Checkpoint
      BY <1>1
  <2>2. /\ [j.seen EXCEPT !.audit_head = LastHash(log)] \in Checkpoint
        /\ [j.seen EXCEPT !.ledger_head = LedgerHead] \in Checkpoint
        /\ [j.seen EXCEPT !.audit_count = Len(log)] \in Checkpoint
        /\ [j.seen EXCEPT !.ledger_count = Len(ledger)] \in Checkpoint
      BY <2>1, <1>2, <1>3 DEF Checkpoint
  <2>3. CASE j.next = 1 /\ See(c, [j.seen EXCEPT !.audit_head = LastHash(log)])
      BY <2>2, <2>3
  <2>4. CASE j.next = 2 /\ See(c, [j.seen EXCEPT !.ledger_head = LedgerHead])
      BY <2>2, <2>4
  <2>5. CASE j.next = 3 /\ See(c, [j.seen EXCEPT !.audit_count = Len(log)])
      BY <2>2, <2>5
  <2>6. CASE j.next = 4 /\ See(c, [j.seen EXCEPT !.ledger_count = Len(ledger)])
      BY <2>2, <2>6
  <2> QED  BY <2>3, <2>4, <2>5, <2>6 DEF Probe
<1>5. Look(j.goal, j.key, seen, j.next + 1) \in Looks
    BY <1>1, <1>4 DEF Look
<1> QED  BY <1>4, <1>5 DEF See, Become, Jobs, TypeOK

-----------------------------------------------------------------------------
(* The steps on the tables of events and of runs. *)
LEMMA StepTables ==
    ASSUME TypeOK, [Next]_vars
    PROVE  /\ log' \in Seq(Row) /\ ledger' \in Seq(Events)
           /\ lock' \in Writers \cup {NoOne}
           /\ writing' \in [Writers -> Emits]
           /\ acked' \subseteq Events
           /\ written' \in Seq(Events)
           /\ damaged' \subseteq 1..Len(log')
<1> DEFINE Tables == /\ log \in Seq(Row) /\ ledger \in Seq(Events)
                     /\ lock \in Writers \cup {NoOne}
                     /\ writing \in [Writers -> Emits]
                     /\ acked \subseteq Events
                     /\ written \in Seq(Events)
                     /\ damaged \subseteq 1..Len(log)
<1> Tables
    BY DEF TypeOK
<1> SUFFICES Tables'
    OBVIOUS
<1>1. ASSUME NEW w \in Writers, NEW e \in Events, Begin(w, e)  PROVE Tables'
  <2>1. Zero \in Hashes
      BY DEF Zero, Hashes
  <2>2. [pc |-> "locked", event |-> e, prev |-> Zero] \in Emits
      BY <2>1 DEF Emits
  <2> QED  BY <2>2, <1>1 DEF Begin, Write
<1>2. ASSUME NEW w \in Writers, ReadHead(w)  PROVE Tables'
  <2>1. [writing[w] EXCEPT !.pc = "read", !.prev = LastHash(log)] \in Emits
      BY <1>2, LastHashType, EmitFields DEF ReadHead, Emits
  <2> QED  BY <2>1, <1>2 DEF ReadHead, Write, store
<1>3. ASSUME NEW w \in Writers, Insert(w)  PROVE Tables'
  <2> DEFINE e == writing[w].event
             row == [data |-> e, prev |-> writing[w].prev, hash |-> Digest(writing[w].prev, e)]
  <2>1. writing[w] \in [pc : {"locked", "read", "committed"}, event : Events, prev : Hashes]
      BY <1>3, EmitFields DEF Insert
  <2>2. row \in Row
      BY <2>1, HashesGrow DEF Row
  <2>3. [writing[w] EXCEPT !.pc = "committed"] \in Emits
      BY <2>1 DEF Emits
  <2>4. log' = Append(log, row) /\ written' = Append(written, e)
      BY <1>3 DEF Insert
  <2>5. log' \in Seq(Row) /\ Len(log') = Len(log) + 1
      BY <2>2, <2>4
  <2> QED  BY <2>1, <2>3, <2>4, <2>5, <1>3 DEF Insert, Write
<1>4. ASSUME NEW w \in Writers, EmitReturns(w)  PROVE Tables'
  <2>1. writing[w].event \in Events
      BY <1>4, EmitFields DEF EmitReturns
  <2> QED  BY <2>1, <1>4 DEF EmitReturns, Rest, Write, Emits, store
<1>5. ASSUME NEW w \in Writers, EmitFails(w)  PROVE Tables'
    BY <1>5 DEF EmitFails, Rest, Write, Emits
<1>6. ASSUME NEW e \in Events, PutLedger(e)  PROVE Tables'
    BY <1>6 DEF PutLedger
<1>7. ASSUME NEW i \in 1..Len(log), Damage(i)  PROVE Tables'
  <2>1. log[i] \in Row /\ <<BadHash>> \in Hashes
      BY DEF Hashes
  <2>2. [log[i] EXCEPT !.data = BadData] \in Row /\ [log[i] EXCEPT !.hash = <<BadHash>>] \in Row
      BY <2>1 DEF Row
  <2>3. PICK row \in Row : log' = [log EXCEPT ![i] = row]
      BY <2>2, <1>7 DEF Damage
  <2>4. log' \in Seq(Row) /\ Len(log') = Len(log)
      BY <2>3
  <2> QED  BY <2>4, <1>7 DEF Damage
<1>8. CASE UNCHANGED <<store, writing, acked, written, damaged>>
    BY <1>8 DEF store
<1> QED
    BY <1>1, <1>2, <1>3, <1>4, <1>5, <1>6, <1>7, <1>8
    DEF Next, vars, StartWrite, StartCheck, StartVerify, Probe, StoreCheckpoint, WriteFile,
        Compare, CheckChain, Detect, Locate, ExportEvents, ExportLedgers, Leave

-----------------------------------------------------------------------------
(* A non-empty set of numbers has a least one, by way of the library's     *)
(* theorem on well-founded relations.                                      *)
Less == {p \in Nat \X Nat : p[1] < p[2]}
LEMMA LeastNumber ==
    ASSUME NEW T \in SUBSET Nat, T # {}
    PROVE  \E x \in T : \A y \in T : x <= y
<1>1. IsWellFoundedOn(Less, Nat)
    BY NatLessThanWellFounded, Zenon DEF Less, OpToRel
<1>2. PICK x \in T : \A y \in T : <<y, x>> \notin Less
    BY <1>1, WFMin
<1>3. \A y \in T : ~(y < x)
  <2>1. \A y \in Nat : y < x => <<y, x>> \in Less
      BY Zenon DEF Less
  <2> QED  BY <2>1, <1>2
<1> QED  BY <1>3

(* verify_audit stops somewhere, whatever is in the table. *)
Stops(l, n) == /\ \A i \in 1..n : Linked(l, i)
               /\ n < Len(l) => ~Linked(l, n + 1)
LEMMA PrefixStops ==
    ASSUME NEW l, Len(l) \in Nat
    PROVE  ValidPrefix(l) \in 0..Len(l) /\ Stops(l, ValidPrefix(l))
<1> DEFINE Broken == {n \in 0..Len(l) : n < Len(l) => ~Linked(l, n + 1)}
<1>1. Len(l) \in Broken /\ Broken \in SUBSET Nat
    OBVIOUS
<1>2. PICK n \in Broken : \A m \in Broken : n <= m
    BY <1>1, LeastNumber
<1>3. \A i \in 1..n : Linked(l, i)
  <2> SUFFICES ASSUME NEW i \in 1..n, ~Linked(l, i)  PROVE FALSE
      OBVIOUS
  <2>1. i - 1 \in 0..Len(l) /\ (i - 1) + 1 = i
      OBVIOUS
  <2>2. i - 1 \in Broken
      BY <2>1
  <2>3. n <= i - 1
      BY <2>2, <1>2
  <2> QED  BY <2>3
<1>4. \E m \in 0..Len(l) : Stops(l, m)
    BY <1>2, <1>3 DEF Stops
<1> HIDE DEF Broken
<1>5. ValidPrefix(l) = CHOOSE m \in 0..Len(l) : Stops(l, m)
    BY DEF ValidPrefix, Stops
<1> QED  BY <1>4, <1>5

(* A table has one stopping point. *)
LEMMA OnePrefix ==
    ASSUME NEW l, Len(l) \in Nat, NEW n \in 0..Len(l), Stops(l, n)
    PROVE  ValidPrefix(l) = n
<1> DEFINE m == ValidPrefix(l)
<1>1. m \in 0..Len(l) /\ Stops(l, m)
    BY PrefixStops
<1>2. CASE m < n
  <2>1. m + 1 \in 1..n /\ m < Len(l)
      BY <1>1, <1>2
  <2> QED  BY <2>1, <1>1 DEF Stops
<1>3. CASE n < m
  <2>1. n + 1 \in 1..m /\ n < Len(l)
      BY <1>1, <1>3
  <2> QED  BY <2>1, <1>1 DEF Stops
<1>4. ~(m < n) /\ ~(n < m)
    BY <1>2, <1>3
<1>5. m \in Nat
    BY <1>1
<1> HIDE DEF m
<1>6. m = n
    BY <1>4, <1>5
<1> QED  BY <1>6 DEF m

-----------------------------------------------------------------------------
(* The steps of the auditors. *)
LEMMA DataType ==
    ASSUME TypeOK, NEW n \in Nat
    PROVE  DataOf(FirstOf(log, n)) \in Seq(Events \cup {BadData})
<1> DEFINE rows == FirstOf(log, n)
<1>1. rows \in Seq(Row)
    BY DEF TypeOK, FirstOf
<1> HIDE DEF rows
<1>2. \A i \in 1..Len(rows) : rows[i].data \in Events \cup {BadData}
  <2>1. \A i \in 1..Len(rows) : rows[i] \in Row
      BY <1>1
  <2> QED  BY <2>1 DEF Row
<1>3. Len(rows) \in Nat
    BY <1>1
<1> DEFINE Data == Events \cup {BadData}
<1>4. DataOf(rows) \in [1..Len(rows) -> Data]
    BY <1>2 DEF DataOf
<1> HIDE DEF Data
<1>5. DataOf(rows) \in Seq(Data)
    BY <1>3, <1>4, SeqDef, Zenon
<1> QED  BY <1>5 DEF rows, Data

LEMMA PrefixType == TypeOK => ValidPrefix(log) \in Nat
<1> SUFFICES ASSUME TypeOK  PROVE ValidPrefix(log) \in Nat
    OBVIOUS
<1>1. Len(log) \in Nat
    BY DEF TypeOK
<1>2. ValidPrefix(log) \in 0..Len(log)
    BY <1>1, PrefixStops
<1> QED  BY <1>1, <1>2

TableKeyed == \A cp, other \in table : Key(cp) = Key(other) => cp = other

LEMMA StepChecks ==
    ASSUME TypeOK, [Next]_vars
    PROVE  /\ table' \subseteq Checkpoint /\ file' \subseteq Checkpoint
           /\ TableKeyed'
           /\ job' \in [Auditors -> Jobs]
<1> DEFINE Looks == [goal : {"write", "check", "verify"}, key : Checkpoint,
                     seen : Checkpoint, next : 1..5]
           Goal == /\ table \subseteq Checkpoint /\ file \subseteq Checkpoint
                   /\ TableKeyed
                   /\ job \in [Auditors -> Jobs]
<1> Goal
    BY DEF TypeOK, TableKeyed
<1> SUFFICES Goal'
    OBVIOUS
<1> Idle \in Jobs
    BY DEF Jobs
<1>1. ASSUME NEW c \in Auditors, NEW x \in Jobs, Become(c, x), UNCHANGED <<table, file>>
      PROVE  Goal'
    BY <1>1 DEF Become, TableKeyed
<1>2. \A goal \in {"write", "check", "verify"}, key \in Checkpoint :
          Look(goal, key, Unread, 1) \in Jobs
    BY UnreadType DEF Look, Jobs
<1>3. ASSUME NEW c \in Auditors, StartWrite(c) \/ StartCheck(c)  PROVE Goal'
    BY <1>1, <1>2, <1>3, UnreadType DEF StartWrite, StartCheck
<1>4. ASSUME NEW c \in Auditors, StartVerify(c)  PROVE Goal'
    BY <1>1, <1>2, <1>4 DEF StartVerify
<1>5. ASSUME NEW c \in Auditors, Probe(c)  PROVE Goal'
  <2>1. PICK x : Become(c, x)
      BY <1>5 DEF Probe, See
  <2>2. x \in Jobs
      BY <2>1, <1>5, ProbeType DEF Become
  <2> QED  BY <2>1, <2>2, <1>1, <1>5 DEF Probe
<1>6. ASSUME NEW c \in Auditors, StoreCheckpoint(c)  PROVE Goal'
  <2> DEFINE cp == job[c].seen
  <2>1. cp \in Checkpoint
      BY <1>6 DEF StoreCheckpoint, Ready, Jobs, Idle
  <2>2. [goal |-> "file", seen |-> cp] \in Jobs
      BY <2>1 DEF Jobs
  <2>3. table' = {old \in table : Key(old) # Key(cp)} \cup {cp}
      BY <1>6 DEF StoreCheckpoint
  <2>4. table' \subseteq Checkpoint /\ TableKeyed'
      BY <2>1, <2>3 DEF TableKeyed
  <2> QED  BY <2>2, <2>4, <1>6 DEF StoreCheckpoint, Become
<1>7. ASSUME NEW c \in Auditors, WriteFile(c)  PROVE Goal'
  <2>1. job[c].seen \in Checkpoint
      BY <1>7 DEF WriteFile, Jobs, Idle
  <2> QED  BY <2>1, <1>7 DEF WriteFile, Become, TableKeyed
<1>8. ASSUME NEW c \in Auditors, Compare(c) \/ CheckChain(c)  PROVE Goal'
  <2>1. \A key \in {"checkpoint", "chain"}, ok \in BOOLEAN : Told(key, ok) \in Jobs
      BY DEF Told, Jobs
  <2>2. PICK key \in {"checkpoint", "chain"}, ok \in BOOLEAN : Become(c, Told(key, ok))
      BY <1>8 DEF Compare, CheckChain, Verified
  <2> QED  BY <2>1, <2>2, <1>1, <1>8 DEF Compare, CheckChain
<1>9. ASSUME NEW c \in Auditors, Detect(c) \/ Locate(c) \/ Leave(c)  PROVE Goal'
  <2>1. [goal |-> "locate"] \in Jobs /\ [goal |-> "export", prefix |-> ValidPrefix(log)] \in Jobs
      BY PrefixType DEF Jobs
  <2> QED  BY <2>1, <1>1, <1>9 DEF Detect, Locate, Leave
<1>10. ASSUME NEW c \in Auditors, ExportEvents(c) \/ ExportLedgers(c)  PROVE Goal'
  <2>1. CASE ExportLedgers(c)
      BY <2>1, <1>1 DEF ExportLedgers
  <2>2. CASE ExportEvents(c)
    <3>1. job[c].prefix \in Nat
        BY <2>2 DEF ExportEvents, Jobs, Idle
    <3>2. [goal |-> "ledgers", prefix |-> job[c].prefix,
           events |-> DataOf(FirstOf(log, job[c].prefix))] \in Jobs
        BY <3>1, DataType DEF Jobs
    <3> QED  BY <3>2, <2>2, <1>1 DEF ExportEvents
  <2> QED  BY <2>1, <2>2, <1>10
<1>11. CASE UNCHANGED checks
    BY <1>11 DEF checks, TableKeyed
<1> QED
    BY <1>3, <1>4, <1>5, <1>6, <1>7, <1>8, <1>9, <1>10, <1>11
    DEF Next, vars, Begin, ReadHead, Insert, EmitReturns, EmitFails, PutLedger, Damage

(* The tables hold what they should and checkpoint_hash stays a key. *)
THEOREM TypeCorrect == Spec => []TypeOK
<1>1. Init => TypeOK
    BY DEF Init, TypeOK, Emits, Jobs
<1>2. TypeOK /\ [Next]_vars => TypeOK'
    BY StepTables, StepChecks DEF TypeOK, TableKeyed
<1> QED  BY <1>1, <1>2, PTL DEF Spec

-----------------------------------------------------------------------------
(* The chain.  The lock is what makes the hash that a writer read still    *)
(* the last one when it inserts; a corrupted row fails its own digest, and *)
(* a sound row fits the row before it unless that one was corrupted.       *)
LockHeld == \A w \in Writers : writing[w].pc \in {"locked", "read"} => lock = w
HeadRead ==
    \A w \in Writers :
        writing[w].pc = "read" /\ Len(log) \notin damaged => writing[w].prev = LastHash(log)
Sound(i) ==
    i \notin damaged =>
        /\ log[i].data = written[i]
        /\ log[i].hash = Digest(log[i].prev, log[i].data)
        /\ i - 1 \notin damaged => log[i].prev = HashAt(log, i - 1)
Broken(i) == i \in damaged => log[i].hash # Digest(log[i].prev, log[i].data)
Rows == Len(written) = Len(log) /\ \A i \in 1..Len(log) : Sound(i) /\ Broken(i)
ChainInv == LockHeld /\ HeadRead /\ Rows

LEMMA DigestsDiffer ==
    ASSUME NEW h \in Hashes, NEW e \in Events
    PROVE  /\ Digest(h, e) # Digest(h, BadData)
           /\ Digest(h, e) # <<BadHash>>
<1>1. e # BadData /\ e # BadHash
    BY ChainAssumption
<1>2. /\ Digest(h, e)[Len(h) + 1] = e
      /\ Digest(h, BadData)[Len(h) + 1] = BadData
      /\ Len(Digest(h, e)) = Len(h) + 1
      /\ Len(h) \in Nat
    BY DEF Digest, Hashes
<1>3. CASE Len(h) = 0
    BY <1>1, <1>2, <1>3
<1>4. CASE Len(h) # 0
    BY <1>1, <1>2, <1>4
<1> QED  BY <1>3, <1>4

LEMMA StepLock == TypeOK /\ LockHeld /\ [Next]_vars => LockHeld'
<1> SUFFICES ASSUME TypeOK, LockHeld, [Next]_vars  PROVE LockHeld'
    OBVIOUS
<1> lock \in Writers \cup {NoOne} /\ writing \in [Writers -> Emits] /\ NoOne \notin Writers
    BY ChainAssumption DEF TypeOK
<1>1. ASSUME NEW w \in Writers, NEW e \in Events, Begin(w, e)  PROVE LockHeld'
    BY <1>1 DEF Begin, Write, LockHeld
<1>2. ASSUME NEW w \in Writers, ReadHead(w)  PROVE LockHeld'
    BY <1>2 DEF ReadHead, Write, LockHeld, store
<1>3. ASSUME NEW w \in Writers, Insert(w)  PROVE LockHeld'
    BY <1>3 DEF Insert, Write, LockHeld
<1>4. ASSUME NEW w \in Writers, EmitReturns(w)  PROVE LockHeld'
    BY <1>4 DEF EmitReturns, Rest, Write, Resting, LockHeld, store
<1>5. ASSUME NEW w \in Writers, EmitFails(w)  PROVE LockHeld'
    BY <1>5 DEF EmitFails, Rest, Write, Resting, LockHeld
<1>6. CASE UNCHANGED <<lock, writing>>
    BY <1>6 DEF LockHeld
<1> QED
    BY <1>1, <1>2, <1>3, <1>4, <1>5, <1>6
    DEF Next, vars, store, PutLedger, Damage, StartWrite, StartCheck, StartVerify, Probe,
        StoreCheckpoint, WriteFile, Compare, CheckChain, Detect, Locate, ExportEvents,
        ExportLedgers, Leave

(* The only steps that change a row. *)
LEMMA InsertRows ==
    ASSUME TypeOK, ChainInv, NEW w \in Writers, Insert(w)
    PROVE  Rows' /\ HeadRead'
<1>0. PICK n \in Nat : n = Len(log)
    BY DEF TypeOK
<1> DEFINE e == writing[w].event
           prev == writing[w].prev
           row == [data |-> e, prev |-> prev, hash |-> Digest(prev, e)]
<1>1. /\ log \in Seq(Row) /\ written \in Seq(Events) /\ n \in Nat
      /\ damaged \subseteq 1..n /\ writing \in [Writers -> Emits] /\ Len(written) = n
      /\ n = Len(log)
    BY <1>0 DEF TypeOK, ChainInv, Rows
<1>2. e \in Events /\ prev \in Hashes
    BY EmitFields, <1>1 DEF Insert
<1>3. row \in Row
    BY <1>2, HashesGrow DEF Row
<1>4. log' = Append(log, row) /\ written' = Append(written, e) /\ damaged' = damaged
    BY DEF Insert
<1>5. Len(log') = n + 1 /\ Len(written') = n + 1
    BY <1>1, <1>2, <1>3, <1>4
<1>6. \A i \in 1..n : log'[i] = log[i] /\ written'[i] = written[i]
    BY <1>1, <1>2, <1>3, <1>4
<1>7. \A i \in 0..n : HashAt(log', i) = HashAt(log, i)
    BY <1>6 DEF HashAt
<1>8. ASSUME NEW i \in 1..n  PROVE Sound(i)' /\ Broken(i)'
  <2>1. Sound(i) /\ Broken(i)
      BY <1>1 DEF ChainInv, Rows
  <2>2. i - 1 \in 0..n
      BY <1>1
  <2> QED  BY <2>1, <2>2, <1>4, <1>6, <1>7 DEF Sound, Broken
<1>9. Sound(n + 1)' /\ Broken(n + 1)'
  <2>1. log'[n + 1] = row /\ written'[n + 1] = e
      BY <1>1, <1>2, <1>3, <1>4
  <2>2. n + 1 \notin damaged
      BY <1>1
  <2>3. n \notin damaged => prev = HashAt(log', n)
      BY <1>1, <1>7 DEF ChainInv, HeadRead, Insert, LastHash
  <2>4. (n + 1) - 1 = n
      BY <1>1
  <2> QED  BY <2>1, <2>2, <2>3, <2>4, <1>4 DEF Sound, Broken
<1>10. Rows'
  <2> SUFFICES ASSUME NEW i \in 1..Len(log')  PROVE Sound(i)' /\ Broken(i)'
      BY <1>5 DEF Rows
  <2>1. i \in 1..n \/ i = n + 1
      BY <1>1, <1>5
  <2> QED  BY <2>1, <1>8, <1>9
<1>11. HeadRead'
  <2>1. \A v \in Writers : v # w => writing[v].pc # "read"
      BY DEF ChainInv, LockHeld, Insert
  <2>2. writing' = [writing EXCEPT ![w] = [writing[w] EXCEPT !.pc = "committed"]]
      BY DEF Insert, Write
  <2>3. \A v \in Writers : writing'[v].pc # "read"
      BY <2>1, <2>2, <1>1
  <2> QED  BY <2>3 DEF HeadRead
<1> QED  BY <1>10, <1>11

LEMMA DamageRows ==
    ASSUME TypeOK, ChainInv, NEW k \in 1..Len(log), Damage(k)
    PROVE  Rows' /\ HeadRead'
<1> DEFINE n == Len(log)
<1>1. /\ log \in Seq(Row) /\ written \in Seq(Events) /\ n \in Nat /\ Len(written) = n
      /\ UNCHANGED <<written, writing>>
      /\ damaged' = damaged \cup {k}
    BY DEF TypeOK, ChainInv, Rows, Damage
<1>2. Len(log') = n /\ \A i \in 1..n : i # k => log'[i] = log[i]
    BY <1>1 DEF Damage
<1>3. log[k].data \in Events /\ log[k].prev \in Hashes
      /\ log[k].hash = Digest(log[k].prev, log[k].data)
  <2>1. log[k] \in Row /\ written[k] \in Events
      BY <1>1
  <2>2. Sound(k) /\ k \notin damaged
      BY DEF ChainInv, Rows, Damage
  <2> QED  BY <2>1, <2>2 DEF Sound, Row
<1>4. Broken(k)'
  <2> SUFFICES log'[k].hash # Digest(log'[k].prev, log'[k].data)
      BY DEF Broken
  <2>1. log[k] \in Row
      BY <1>1
  <2>2. CASE log' = [log EXCEPT ![k].data = BadData]
    <3>1. log'[k] = [log[k] EXCEPT !.data = BadData]
        BY <2>2, <1>1
    <3>2. log'[k].hash = log[k].hash /\ log'[k].prev = log[k].prev /\ log'[k].data = BadData
        BY <3>1, <2>1 DEF Row
    <3>3. Digest(log[k].prev, log[k].data) # Digest(log[k].prev, BadData)
        BY <1>3, DigestsDiffer
    <3> QED  BY <3>2, <3>3, <1>3
  <2>3. CASE log' = [log EXCEPT ![k].hash = <<BadHash>>]
    <3>1. log'[k] = [log[k] EXCEPT !.hash = <<BadHash>>]
        BY <2>3, <1>1
    <3>2. log'[k].hash = <<BadHash>> /\ log'[k].prev = log[k].prev /\ log'[k].data = log[k].data
        BY <3>1, <2>1 DEF Row
    <3>3. Digest(log[k].prev, log[k].data) # <<BadHash>>
        BY <1>3, DigestsDiffer
    <3> QED  BY <3>2, <3>3
  <2> QED  BY <2>2, <2>3 DEF Damage
<1>5. ASSUME NEW i \in 1..n, i # k  PROVE Sound(i)' /\ Broken(i)'
  <2>1. Sound(i) /\ Broken(i) /\ log'[i] = log[i]
      BY <1>2, <1>5 DEF ChainInv, Rows
  <2>2. i - 1 \notin damaged' => HashAt(log', i - 1) = HashAt(log, i - 1)
      BY <1>1, <1>2 DEF HashAt
  <2> QED  BY <2>1, <2>2, <1>1, <1>5 DEF Sound, Broken
<1>6. Sound(k)'
    BY <1>1 DEF Sound
<1>7. n \notin damaged' => LastHash(log') = LastHash(log)
    BY <1>1, <1>2 DEF LastHash, HashAt
<1>8. HeadRead'
    BY <1>1, <1>2, <1>7 DEF ChainInv, HeadRead
<1> QED  BY <1>1, <1>2, <1>4, <1>5, <1>6, <1>8 DEF Rows

LEMMA StepRows == TypeOK /\ ChainInv /\ [Next]_vars => Rows' /\ HeadRead'
<1> SUFFICES ASSUME TypeOK, ChainInv, [Next]_vars  PROVE Rows' /\ HeadRead'
    OBVIOUS
<1> DEFINE Same == UNCHANGED <<log, written, damaged>>
<1> writing \in [Writers -> Emits]
    BY DEF TypeOK
<1>1. Same => Rows'
    BY DEF ChainInv, Rows, Sound, Broken, HashAt
<1>2. Same => LastHash(log') = LastHash(log)
    OBVIOUS
<1>3. ASSUME NEW w \in Writers, NEW e \in Events, Begin(w, e)  PROVE Same /\ HeadRead'
    BY <1>2, <1>3 DEF Begin, Write, ChainInv, HeadRead
<1>4. ASSUME NEW w \in Writers, ReadHead(w)  PROVE Same /\ HeadRead'
  <2>1. writing' = [writing EXCEPT ![w] = [writing[w] EXCEPT !.pc = "read", !.prev = LastHash(log)]]
      BY <1>4 DEF ReadHead, Write
  <2>2. writing'[w].prev = LastHash(log)
      BY <2>1, EmitFields, <1>4 DEF ReadHead
  <2>3. \A v \in Writers : v # w => writing'[v] = writing[v]
      BY <2>1
  <2>4. Same
      BY <1>4 DEF ReadHead, store
  <2> QED  BY <2>2, <2>3, <2>4, <1>2 DEF ChainInv, HeadRead
<1>5. ASSUME NEW w \in Writers, EmitReturns(w) \/ EmitFails(w)  PROVE Same /\ HeadRead'
    BY <1>2, <1>5 DEF EmitReturns, EmitFails, Rest, Resting, Write, ChainInv, HeadRead, store
<1>6. UNCHANGED <<log, written, damaged, writing>> => Same /\ HeadRead'
    BY <1>2 DEF ChainInv, HeadRead
<1> HIDE DEF Same
<1> QED
    BY <1>1, <1>3, <1>4, <1>5, <1>6, InsertRows, DamageRows
    DEF Next, vars, store, PutLedger, StartWrite, StartCheck, StartVerify, Probe,
        StoreCheckpoint, WriteFile, Compare, CheckChain, Detect, Locate, ExportEvents,
        ExportLedgers, Leave

LEMMA ChainInvariance == Spec => [](TypeOK /\ ChainInv)
<1>1. Init => ChainInv
    BY DEF Init, ChainInv, LockHeld, HeadRead, Rows, Resting
<1>2. TypeOK /\ ChainInv /\ [Next]_vars => ChainInv'
    BY StepLock, StepRows DEF ChainInv
<1> QED  BY <1>1, <1>2, TypeCorrect, PTL DEF Spec

(* A corrupted row is broken, or does not fit; every row before it fits. *)
LEMMA Locates == TypeOK /\ ChainInv => CorruptionLocated
<1> SUFFICES ASSUME TypeOK, ChainInv  PROVE CorruptionLocated
    OBVIOUS
<1>1. /\ Len(log) \in Nat /\ damaged \subseteq 1..Len(log)
      /\ \A i \in 1..Len(log) : Sound(i) /\ Broken(i)
    BY DEF TypeOK, ChainInv, Rows
<1>2. ASSUME damaged # {}
      PROVE  FirstDamaged \in damaged /\ \A j \in damaged : FirstDamaged <= j
  <2>1. damaged \in SUBSET Nat
      BY <1>1
  <2>2. \E i \in damaged : \A j \in damaged : i <= j
      BY <1>2, <2>1, LeastNumber
  <2> QED  BY <2>2, Zenon DEF FirstDamaged
<1>3. /\ Undamaged \in 0..Len(log)
      /\ \A i \in 1..Undamaged : i \notin damaged
      /\ Undamaged < Len(log) => Undamaged + 1 \in damaged
  <2>1. CASE damaged = {}
      BY <2>1, <1>1 DEF Undamaged
  <2>2. CASE damaged # {}
    <3>1. PICK f \in damaged : f = FirstDamaged /\ \A j \in damaged : f <= j
        BY <2>2, <1>2
    <3>2. f \in 1..Len(log) /\ Undamaged = f - 1
        BY <3>1, <1>1, <2>2 DEF Undamaged
    <3> QED  BY <3>1, <3>2, <1>1
  <2> QED  BY <2>1, <2>2
<1>4. ASSUME NEW i \in 1..Undamaged  PROVE Sound(i) /\ i - 1 \notin damaged
  <2>1. i \in 1..Len(log) /\ (i - 1 \in 1..Undamaged \/ i - 1 = 0)
      BY <1>1, <1>3
  <2> QED  BY <2>1, <1>1, <1>3
<1>5. \A i \in 1..Undamaged : Linked(log, i) /\ log[i].data = written[i]
    BY <1>3, <1>4 DEF Sound, Linked
<1>6. Undamaged < Len(log) => ~Linked(log, Undamaged + 1)
  <2> SUFFICES ASSUME Undamaged < Len(log)  PROVE ~Linked(log, Undamaged + 1)
      OBVIOUS
  <2>1. Undamaged + 1 \in 1..Len(log) /\ Undamaged + 1 \in damaged
      BY <1>1, <1>3
  <2>2. Broken(Undamaged + 1)
      BY <2>1, <1>1
  <2> QED  BY <2>1, <2>2 DEF Broken, Linked
<1>7. ValidPrefix(log) = Undamaged
    BY <1>1, <1>3, <1>5, <1>6, OnePrefix DEF Stops
<1> QED  BY <1>5, <1>7 DEF CorruptionLocated

(* However many rows the disk corrupts: verify_audit counts exactly the    *)
(* rows before the first corrupted one, and these are as written.          *)
THEOREM StopsAtCorruption == Spec => []CorruptionLocated
BY Locates, ChainInvariance, PTL

-----------------------------------------------------------------------------
(* The log that is only appended to. *)

(* An event that is on its way is not in the log and on no other way; one  *)
(* whose transaction committed is in it.                                   *)
OnItsWay ==
    \A w \in Writers :
        LET e == writing[w].event IN
        /\ writing[w].pc \in {"locked", "read"} => ~Contains(written, e)
        /\ writing[w].pc = "committed" => Contains(written, e)
Apart ==
    \A v, w \in Writers :
        v # w /\ writing[v].pc # "idle" /\ writing[w].pc # "idle" =>
            writing[v].event # writing[w].event
EventsInv == OnItsWay /\ Apart

LEMMA AppendHolds ==
    ASSUME NEW s \in Seq(Events), NEW e \in Events, NEW x
    PROVE  Contains(Append(s, e), x) <=> x = e \/ Contains(s, x)
<1>1. /\ Len(Append(s, e)) = Len(s) + 1 /\ Append(s, e)[Len(s) + 1] = e /\ Len(s) \in Nat
      /\ \A i \in 1..Len(s) : Append(s, e)[i] = s[i]
    OBVIOUS
<1>2. \A i \in 1..(Len(s) + 1) : i \in 1..Len(s) \/ i = Len(s) + 1
    BY <1>1
<1> QED  BY <1>1, <1>2 DEF Contains

LEMMA StepEvents == TypeOK /\ LockHeld /\ EventsInv /\ [Next]_vars => EventsInv'
<1> SUFFICES ASSUME TypeOK, LockHeld, EventsInv, [Next]_vars  PROVE EventsInv'
    OBVIOUS
<1> writing \in [Writers -> Emits] /\ written \in Seq(Events)
    BY DEF TypeOK
<1>1. ASSUME NEW w \in Writers, NEW e \in Events, Begin(w, e)  PROVE EventsInv'
  <2>1. writing' = [writing EXCEPT ![w] = [pc |-> "locked", event |-> e, prev |-> Zero]]
      BY <1>1 DEF Begin, Write
  <2>2. UNCHANGED written /\ ~Contains(written, e) /\ \A v \in Writers : writing[v].event # e
      BY <1>1 DEF Begin
  <2> QED  BY <2>1, <2>2 DEF EventsInv, OnItsWay, Apart
<1>2. ASSUME NEW w \in Writers, ReadHead(w)  PROVE EventsInv'
  <2>1. writing[w].pc = "locked" /\ UNCHANGED written
      BY <1>2 DEF ReadHead
  <2>2. writing'[w].pc = "read" /\ writing'[w].event = writing[w].event
      BY <1>2, EmitFields DEF ReadHead, Write
  <2>3. \A v \in Writers : v # w => writing'[v] = writing[v]
      BY <1>2 DEF ReadHead, Write
  <2> QED  BY <2>1, <2>2, <2>3 DEF EventsInv, OnItsWay, Apart
<1>3. ASSUME NEW w \in Writers, Insert(w)  PROVE EventsInv'
  <2> DEFINE e == writing[w].event
  <2>1. writing[w].pc = "read" /\ written' = Append(written, e) /\ e \in Events
      BY <1>3, EmitFields DEF Insert
  <2>2. writing'[w].pc = "committed" /\ writing'[w].event = e
      BY <1>3, EmitFields DEF Insert, Write
  <2>3. \A v \in Writers : v # w => writing'[v] = writing[v]
      BY <1>3 DEF Insert, Write
  <2>4. \A x : Contains(written', x) <=> x = e \/ Contains(written, x)
      BY <2>1, AppendHolds
  <2> HIDE DEF e
  <2>5. \A v \in Writers : v # w /\ writing[v].pc # "idle" => writing[v].event # e
      BY <2>1 DEF EventsInv, Apart, e
  <2>6. OnItsWay'
      BY <2>1, <2>2, <2>3, <2>4, <2>5 DEF EventsInv, OnItsWay
  <2>7. Apart'
      BY <2>1, <2>2, <2>3, <2>5 DEF EventsInv, Apart, e
  <2> QED  BY <2>6, <2>7 DEF EventsInv
<1>4. ASSUME NEW w \in Writers, EmitReturns(w) \/ EmitFails(w)  PROVE EventsInv'
  <2>1. writing' = [writing EXCEPT ![w] = Resting] /\ UNCHANGED written
      BY <1>4 DEF EmitReturns, EmitFails, Rest, Write
  <2> QED  BY <2>1 DEF EventsInv, OnItsWay, Apart, Resting
<1>5. UNCHANGED <<writing, written>> => EventsInv'
    BY DEF EventsInv, OnItsWay, Apart
<1> QED
    BY <1>1, <1>2, <1>3, <1>4, <1>5
    DEF Next, vars, store, PutLedger, Damage, StartWrite, StartCheck, StartVerify, Probe,
        StoreCheckpoint, WriteFile, Compare, CheckChain, Detect, Locate, ExportEvents,
        ExportLedgers, Leave

Intact == damaged = {}
LEMMA StepIntact ==
    ASSUME MaxDamage = 0, Intact, [Next]_vars  PROVE Intact'
<1>1. ASSUME NEW i \in 1..Len(log), Damage(i)  PROVE FALSE
    BY <1>1, FS_EmptySet DEF Damage, Intact
<1> QED
    BY <1>1
    DEF Intact, Next, vars, store, Begin, ReadHead, Insert, EmitReturns, EmitFails, PutLedger,
        StartWrite, StartCheck, StartVerify, Probe, StoreCheckpoint, WriteFile, Compare,
        CheckChain, Detect, Locate, ExportEvents, ExportLedgers, Leave

(* Without corruption the data of the rows are the events as written. *)
Matching == DataOf(log) = written
LEMMA DataIsWritten == TypeOK /\ ChainInv /\ Intact => Matching
<1> SUFFICES ASSUME TypeOK, Rows, Intact  PROVE DataOf(log) = written
    BY DEF ChainInv, Matching
<1>1. Len(written) = Len(log) /\ \A i \in 1..Len(log) : log[i].data = written[i]
    BY DEF Rows, Sound, Intact
<1>2. written = [i \in 1..Len(written) |-> written[i]]
    BY DEF TypeOK
<1> QED  BY <1>1, <1>2 DEF DataOf

LogInv == TypeOK /\ EventsInv /\ Intact /\ Matching

LEMMA LogStep ==
    ASSUME MaxDamage = 0, LogInv, LogInv', [Next]_vars
    PROVE  [Abstract!Next]_<<DataOf(log), acked>>
<1>1. DataOf(log) = written /\ DataOf(log') = written'
    BY DEF LogInv, Matching
<1>2. \A e : Abstract!Holds(e) <=> Contains(written, e)
    BY <1>1 DEF Abstract!Holds, Contains
<1>3. ASSUME NEW w \in Writers, Insert(w)  PROVE Abstract!Next
  <2> DEFINE e == writing[w].event
  <2>1. e \in Events /\ ~Contains(written, e)
      BY <1>3, EmitFields DEF Insert, LogInv, TypeOK, EventsInv, OnItsWay
  <2>2. written' = Append(written, e) /\ UNCHANGED acked
      BY <1>3 DEF Insert
  <2>3. Abstract!AppendEvent(e)
      BY <2>1, <2>2, <1>1, <1>2 DEF Abstract!AppendEvent
  <2> QED  BY <2>1, <2>3 DEF Abstract!Next
<1>4. ASSUME NEW w \in Writers, EmitReturns(w)  PROVE Abstract!Next
  <2> DEFINE e == writing[w].event
  <2>1. e \in Events /\ Contains(written, e)
      BY <1>4, EmitFields DEF EmitReturns, LogInv, TypeOK, EventsInv, OnItsWay
  <2>2. acked' = acked \cup {e} /\ UNCHANGED written
      BY <1>4 DEF EmitReturns
  <2>3. Abstract!Acknowledge(e)
      BY <2>1, <2>2, <1>1, <1>2 DEF Abstract!Acknowledge
  <2> QED  BY <2>1, <2>3 DEF Abstract!Next
<1>5. UNCHANGED <<written, acked>> => UNCHANGED <<DataOf(log), acked>>
    BY <1>1
<1> QED
    BY <1>3, <1>4, <1>5
    DEF Next, vars, store, Begin, ReadHead, EmitFails, PutLedger, StartWrite, StartCheck,
        StartVerify, Probe, StoreCheckpoint, WriteFile, Compare, CheckChain, Detect, Locate,
        ExportEvents, ExportLedgers, Leave, Damage

(* However emits race and fail, the table is a log to which events are     *)
(* appended once and for all, and no emit returns before its event is in.  *)
THEOREM ImplementsAuditLog ==
    ASSUME MaxDamage = 0  PROVE Spec => FollowsAuditLog
<1>1. Init => EventsInv /\ Intact /\ Abstract!Init
    BY DEF Init, EventsInv, OnItsWay, Apart, Resting, Intact, Abstract!Init, DataOf
<1>2. TypeOK /\ ChainInv /\ EventsInv /\ Intact /\ [Next]_vars => EventsInv' /\ Intact'
    BY StepEvents, StepIntact DEF ChainInv
<1>3. Spec => []LogInv
    BY <1>1, <1>2, DataIsWritten, ChainInvariance, PTL DEF LogInv, Spec
<1>4. LogInv /\ LogInv' /\ [Next]_vars => [Abstract!Next]_<<DataOf(log), acked>>
    BY LogStep
<1> QED  BY <1>1, <1>3, <1>4, PTL DEF Spec, FollowsAuditLog, Abstract!Spec

-----------------------------------------------------------------------------
(* The steps of the store leave the auditors alone, and the reverse. *)
AuditorStep(c) ==
    \/ StartWrite(c) \/ StartCheck(c) \/ StartVerify(c) \/ Probe(c)
    \/ StoreCheckpoint(c) \/ WriteFile(c) \/ Compare(c) \/ CheckChain(c)
    \/ Detect(c) \/ Locate(c) \/ ExportEvents(c) \/ ExportLedgers(c)
    \/ Leave(c)

LEMMA Frames ==
    ASSUME [Next]_vars
    PROVE  \/ UNCHANGED checks
           \/ UNCHANGED <<store, written, damaged>> /\ \E c \in Auditors : AuditorStep(c)
BY DEF Next, vars, AuditorStep, Begin, ReadHead, Insert, EmitReturns, EmitFails, PutLedger,
       Damage, StartWrite, StartCheck, StartVerify, Probe, StoreCheckpoint, WriteFile, Compare,
       CheckChain, Detect, Locate, ExportEvents, ExportLedgers, Leave

(* The tables grow at their ends. *)
Grows(s, t) == Len(s) <= Len(t) /\ \A i \in 1..Len(s) : t[i] = s[i]
LEMMA AppendGrows ==
    ASSUME NEW T, NEW s \in Seq(T), NEW x
    PROVE  Grows(s, Append(s, x))
<1>1. /\ Len(s) \in Nat /\ Len(Append(s, x)) = Len(s) + 1
      /\ \A i \in 1..Len(s) : Append(s, x)[i] = s[i]
    OBVIOUS
<1> QED  BY <1>1 DEF Grows

LEMMA StoreGrows ==
    ASSUME TypeOK, [Next]_vars
    PROVE  /\ Grows(ledger, ledger') /\ Grows(written, written') /\ Len(log) <= Len(log')
           /\ damaged \subseteq damaged'
           /\ damaged' = {} => Grows(log, log')
<1> DEFINE Goal == /\ Grows(ledger, ledger') /\ Grows(written, written') /\ Len(log) <= Len(log')
                   /\ damaged \subseteq damaged'
                   /\ damaged' = {} => Grows(log, log')
<1>1. /\ log \in Seq(Row) /\ ledger \in Seq(Events) /\ written \in Seq(Events)
      /\ Len(log) \in Nat /\ Len(ledger) \in Nat /\ Len(written) \in Nat
    BY DEF TypeOK
<1>2. UNCHANGED log => Grows(log, log') /\ Len(log) <= Len(log')
    BY <1>1 DEF Grows
<1>3. UNCHANGED ledger => Grows(ledger, ledger')
    BY <1>1 DEF Grows
<1>4. UNCHANGED written => Grows(written, written')
    BY <1>1 DEF Grows
<1>5. ASSUME NEW w \in Writers, Insert(w)  PROVE Goal
  <2>1. Grows(log, log') /\ Grows(written, written')
      BY <1>1, <1>5, AppendGrows DEF Insert
  <2>2. UNCHANGED <<ledger, damaged>>
      BY <1>5 DEF Insert
  <2> QED  BY <2>1, <2>2, <1>3 DEF Grows
<1>6. ASSUME NEW e \in Events, PutLedger(e)  PROVE Goal
  <2>1. Grows(ledger, ledger') /\ UNCHANGED <<log, written, damaged>>
      BY <1>1, <1>6, AppendGrows DEF PutLedger
  <2> QED  BY <2>1, <1>2, <1>4
<1>7. ASSUME NEW i \in 1..Len(log), Damage(i)  PROVE Goal
  <2>1. Len(log') = Len(log)
      BY <1>1, <1>7 DEF Damage
  <2>2. damaged' = damaged \cup {i} /\ UNCHANGED <<ledger, written>>
      BY <1>7 DEF Damage
  <2> QED  BY <2>1, <2>2, <1>1, <1>3, <1>4
<1>8. UNCHANGED <<log, ledger, written, damaged>> => Goal
    BY <1>2, <1>3, <1>4
<1> HIDE DEF Goal
<1>9. Goal
  <2>1. CASE \E c \in Auditors : AuditorStep(c)
    <3>1. UNCHANGED <<store, written, damaged>>
        BY <2>1 DEF AuditorStep, StartWrite, StartCheck, StartVerify, Probe, StoreCheckpoint,
           WriteFile, Compare, CheckChain, Detect, Locate, ExportEvents, ExportLedgers, Leave
    <3> QED  BY <3>1, <1>8 DEF store
  <2>2. CASE \E w \in Writers : \/ \E e \in Events : Begin(w, e)
                                \/ ReadHead(w) \/ EmitReturns(w) \/ EmitFails(w)
    <3>1. UNCHANGED <<log, ledger, written, damaged>>
        BY <2>2 DEF Begin, ReadHead, EmitReturns, EmitFails, store
    <3> QED  BY <3>1, <1>8
  <2>3. CASE UNCHANGED vars
      BY <2>3, <1>8 DEF vars, store
  <2> QED  BY <2>1, <2>2, <2>3, <1>5, <1>6, <1>7 DEF Next, AuditorStep
<1> QED  BY <1>9 DEF Goal

(* What is said of a head survives growth. *)
HeadIn(l, h, n) == \E k \in 0..n : h = HashAt(l, k)
RunIn(g, r, m) == r # Nothing => \E k \in 1..m : r = g[k]
LEMMA HeadsStay ==
    ASSUME NEW l, NEW m, Len(l) \in Nat, Len(m) \in Nat, Grows(l, m)
    PROVE  /\ \A n \in 0..Len(l) : \A h : HeadIn(l, h, n) => HeadIn(m, h, n)
           /\ \A n \in 0..Len(l) : \A r : RunIn(l, r, n) => RunIn(m, r, n)
<1>1. \A k \in 0..Len(l) : HashAt(m, k) = HashAt(l, k)
    BY DEF Grows, HashAt
<1>2. \A n \in 0..Len(l) : \A k \in 0..n : k \in 0..Len(l)
    OBVIOUS
<1>3. \A n \in 0..Len(l) : \A k \in 1..n : k \in 1..Len(l)
    OBVIOUS
<1> QED  BY <1>1, <1>2, <1>3 DEF Grows, HeadIn, RunIn

(* What a probe has read is within the log and the ledger, and the head it *)
(* read first is no later than the count it read afterwards.               *)
Looking(j) == j.goal \in {"write", "check", "verify"}
SeenTrue(l, g, j) ==
    LET cp == j.seen IN
    /\ cp.audit_count <= Len(l) /\ cp.ledger_count <= Len(g)
    /\ HeadIn(l, cp.audit_head, IF j.next >= 4 THEN cp.audit_count ELSE Len(l))
    /\ RunIn(g, cp.ledger_head, IF j.next = 5 THEN cp.ledger_count ELSE Len(g))
Reached(l, g, cp) ==
    /\ cp.audit_count <= Len(l) /\ cp.ledger_count <= Len(g)
    /\ HeadIn(l, cp.audit_head, cp.audit_count)
    /\ RunIn(g, cp.ledger_head, cp.ledger_count)
JobsTrue == \A c \in Auditors : Looking(job[c]) => SeenTrue(log, ledger, job[c])
ReachInv ==
    damaged = {} => JobsTrue /\ \A cp \in table : Reached(log, ledger, cp)

(* The fields of a look. *)
LEMMA LookFields ==
    ASSUME NEW goal, NEW key, NEW seen, NEW next
    PROVE  LET j == Look(goal, key, seen, next) IN
           j.goal = goal /\ j.key = key /\ j.seen = seen /\ j.next = next
BY DEF Look

(* A longer stretch holds what a shorter one does. *)
LEMMA Stretch ==
    ASSUME NEW l, NEW n \in Nat, NEW m \in Nat, n <= m
    PROVE  /\ \A h : HeadIn(l, h, n) => HeadIn(l, h, m)
           /\ \A r : RunIn(l, r, n) => RunIn(l, r, m)
BY DEF HeadIn, RunIn

LEMMA LooksTyped ==
    ASSUME NEW j \in Jobs, Looking(j)
    PROVE  j.seen \in Checkpoint /\ j.key \in Checkpoint /\ j.next \in 1..5
BY DEF Jobs, Looking, Idle

LEMMA TrueStays ==
    ASSUME NEW l, NEW m, NEW g, NEW h,
           Len(l) \in Nat, Len(m) \in Nat, Len(g) \in Nat, Len(h) \in Nat,
           Grows(l, m), Grows(g, h)
    PROVE  /\ \A j : j.seen \in Checkpoint /\ j.next \in 1..5 /\ SeenTrue(l, g, j)
                         => SeenTrue(m, h, j)
           /\ \A cp \in Checkpoint : Reached(l, g, cp) => Reached(m, h, cp)
<1>1. Len(l) <= Len(m) /\ Len(g) <= Len(h)
    BY DEF Grows
<1>2. ASSUME NEW j, j.seen \in Checkpoint, j.next \in 1..5, SeenTrue(l, g, j)
      PROVE  SeenTrue(m, h, j)
  <2> DEFINE cp == j.seen
  <2>1. /\ cp.audit_count \in 0..Len(l) /\ cp.ledger_count \in 0..Len(g)
        /\ HeadIn(l, cp.audit_head, IF j.next >= 4 THEN cp.audit_count ELSE Len(l))
        /\ RunIn(g, cp.ledger_head, IF j.next = 5 THEN cp.ledger_count ELSE Len(g))
      BY <1>2 DEF SeenTrue, Checkpoint
  <2> HIDE DEF cp
  <2>2. HeadIn(m, cp.audit_head, IF j.next >= 4 THEN cp.audit_count ELSE Len(m))
    <3>1. CASE j.next >= 4
        BY <3>1, <2>1, HeadsStay
    <3>2. CASE ~(j.next >= 4)
      <4>1. Len(l) \in 0..Len(l)
          OBVIOUS
      <4>2. HeadIn(l, cp.audit_head, Len(l))
          BY <3>2, <2>1
      <4>3. HeadIn(m, cp.audit_head, Len(l))
          BY <4>1, <4>2, HeadsStay
      <4>4. HeadIn(m, cp.audit_head, Len(m))
          BY <4>3, <1>1, Stretch
      <4> QED  BY <4>4, <3>2
    <3> QED  BY <3>1, <3>2
  <2>3. RunIn(h, cp.ledger_head, IF j.next = 5 THEN cp.ledger_count ELSE Len(h))
    <3>1. CASE j.next = 5
        BY <3>1, <2>1, HeadsStay
    <3>2. CASE j.next # 5
      <4>1. Len(g) \in 0..Len(g)
          OBVIOUS
      <4>2. RunIn(g, cp.ledger_head, Len(g))
          BY <3>2, <2>1
      <4>3. RunIn(h, cp.ledger_head, Len(g))
          BY <4>1, <4>2, HeadsStay
      <4>4. RunIn(h, cp.ledger_head, Len(h))
          BY <4>3, <1>1, Stretch
      <4> QED  BY <4>4, <3>2
    <3> QED  BY <3>1, <3>2
  <2>4. cp.audit_count <= Len(m) /\ cp.ledger_count <= Len(h)
      BY <2>1, <1>1
  <2> QED  BY <2>2, <2>3, <2>4 DEF SeenTrue, cp
<1>3. ASSUME NEW cp \in Checkpoint, Reached(l, g, cp)  PROVE Reached(m, h, cp)
  <2>1. cp.audit_count \in 0..Len(l) /\ cp.ledger_count \in 0..Len(g)
      BY <1>3 DEF Reached, Checkpoint
  <2>2. HeadIn(m, cp.audit_head, cp.audit_count) /\ RunIn(h, cp.ledger_head, cp.ledger_count)
      BY <2>1, <1>3, HeadsStay DEF Reached
  <2> QED  BY <2>1, <2>2, <1>1 DEF Reached
<1> QED  BY <1>2, <1>3

(* The steps of one auditor. *)
LEMMA UnreadTrue ==
    ASSUME TypeOK, NEW goal, NEW key
    PROVE  SeenTrue(log, ledger, Look(goal, key, Unread, 1))
<1>1. Len(log) \in Nat /\ Len(ledger) \in Nat
    BY DEF TypeOK
<1>2. 0 \in 0..Len(log) /\ Zero = HashAt(log, 0)
    BY <1>1 DEF HashAt
<1> QED  BY <1>1, <1>2 DEF SeenTrue, Look, Unread, HeadIn, RunIn

LEMMA ProbeTrue ==
    ASSUME TypeOK, NEW c \in Auditors, Probe(c), SeenTrue(log, ledger, job[c])
    PROVE  SeenTrue(log, ledger, job'[c])
<1> DEFINE j == job[c]
           cp == j.seen
<1>1. j \in Jobs /\ Looking(j) /\ job \in [Auditors -> Jobs]
    BY DEF TypeOK, Probe, Looking
<1>2. cp \in Checkpoint /\ j.next \in 1..5
    BY <1>1, LooksTyped
<1>3. Len(log) \in Nat /\ Len(ledger) \in Nat
    BY DEF TypeOK
<1>4. \A seen : See(c, seen) => job'[c] = Look(j.goal, j.key, seen, j.next + 1)
    BY <1>1 DEF See, Become
<1>5. ASSUME NEW seen, See(c, seen)  PROVE job'[c].seen = seen /\ job'[c].next = j.next + 1
  <2>1. job'[c] = Look(j.goal, j.key, seen, j.next + 1)
      BY <1>4, <1>5
  <2> QED  BY <2>1, LookFields
<1>6. /\ cp.audit_count <= Len(log) /\ cp.ledger_count <= Len(ledger)
      /\ HeadIn(log, cp.audit_head, IF j.next >= 4 THEN cp.audit_count ELSE Len(log))
      /\ RunIn(ledger, cp.ledger_head, IF j.next = 5 THEN cp.ledger_count ELSE Len(ledger))
    BY DEF SeenTrue
<1>7. CASE j.next = 1 /\ See(c, [cp EXCEPT !.audit_head = LastHash(log)])
  <2> DEFINE new == job'[c].seen
  <2>1. /\ new.audit_head = LastHash(log) /\ new.ledger_head = cp.ledger_head
        /\ new.audit_count = cp.audit_count /\ new.ledger_count = cp.ledger_count
        /\ job'[c].next = 2
      BY <1>7, <1>5, <1>2 DEF Checkpoint
  <2>2. HeadIn(log, LastHash(log), Len(log))
      BY <1>3 DEF HeadIn, LastHash
  <2> QED  BY <2>1, <2>2, <1>6, <1>7 DEF SeenTrue
<1>8. CASE j.next = 2 /\ See(c, [cp EXCEPT !.ledger_head = LedgerHead])
  <2> DEFINE new == job'[c].seen
  <2>1. /\ new.audit_head = cp.audit_head /\ new.ledger_head = LedgerHead
        /\ new.audit_count = cp.audit_count /\ new.ledger_count = cp.ledger_count
        /\ job'[c].next = 3
      BY <1>8, <1>5, <1>2 DEF Checkpoint
  <2>2. RunIn(ledger, LedgerHead, Len(ledger))
    <3>1. ledger \in Seq(Events)
        BY DEF TypeOK
    <3>2. ledger # <<>> => Len(ledger) \in 1..Len(ledger)
        BY <3>1
    <3> QED  BY <3>2 DEF RunIn, LedgerHead, Last
  <2> QED  BY <2>1, <2>2, <1>6, <1>8 DEF SeenTrue
<1>9. CASE j.next = 3 /\ See(c, [cp EXCEPT !.audit_count = Len(log)])
  <2> DEFINE new == job'[c].seen
  <2>1. /\ new.audit_head = cp.audit_head /\ new.ledger_head = cp.ledger_head
        /\ new.audit_count = Len(log) /\ new.ledger_count = cp.ledger_count
        /\ job'[c].next = 4
      BY <1>9, <1>5, <1>2 DEF Checkpoint
  <2> QED  BY <2>1, <1>3, <1>6, <1>9 DEF SeenTrue
<1>10. CASE j.next = 4 /\ See(c, [cp EXCEPT !.ledger_count = Len(ledger)])
  <2> DEFINE new == job'[c].seen
  <2>1. /\ new.audit_head = cp.audit_head /\ new.ledger_head = cp.ledger_head
        /\ new.audit_count = cp.audit_count /\ new.ledger_count = Len(ledger)
        /\ job'[c].next = 5
      BY <1>10, <1>5, <1>2 DEF Checkpoint
  <2> QED  BY <2>1, <1>3, <1>6, <1>10 DEF SeenTrue
<1> QED  BY <1>7, <1>8, <1>9, <1>10 DEF Probe

(* An auditor that does not probe only begins, or has nothing to look at. *)
LEMMA OtherLooks ==
    ASSUME TypeOK, NEW c \in Auditors, AuditorStep(c), ~Probe(c)
    PROVE  \E x : /\ Become(c, x)
                  /\ Looking(x) => \E goal, key : x = Look(goal, key, Unread, 1)
<1>1. ASSUME StartWrite(c) \/ StartCheck(c) \/ StartVerify(c)
      PROVE  \E goal, key : Become(c, Look(goal, key, Unread, 1))
    BY <1>1 DEF StartWrite, StartCheck, StartVerify
<1>2. ASSUME NEW x, ~Looking(x), Become(c, x)  PROVE \E y : Become(c, y) /\ ~Looking(y)
    BY <1>2
<1>3. ~Looking(Idle) /\ (\A key, ok : ~Looking(Told(key, ok)))
    BY DEF Looking, Idle, Told
<1>4. /\ \A s : ~Looking([goal |-> "file", seen |-> s])
      /\ ~Looking([goal |-> "locate"])
      /\ \A n : ~Looking([goal |-> "export", prefix |-> n])
      /\ \A n, e : ~Looking([goal |-> "ledgers", prefix |-> n, events |-> e])
    BY DEF Looking
<1>5. ASSUME ~(StartWrite(c) \/ StartCheck(c) \/ StartVerify(c))
      PROVE  \E x : ~Looking(x) /\ Become(c, x)
    BY <1>3, <1>4, <1>5
    DEF AuditorStep, StoreCheckpoint, WriteFile, Compare, CheckChain, Detect, Locate,
        ExportEvents, ExportLedgers, Leave
<1> QED  BY <1>1, <1>5

LEMMA StepReach == TypeOK /\ ReachInv /\ [Next]_vars => ReachInv'
<1> SUFFICES ASSUME TypeOK, ReachInv, [Next]_vars, damaged' = {}
             PROVE  JobsTrue' /\ \A cp \in table' : Reached(log', ledger', cp)
    BY DEF ReachInv
<1>1. JobsTrue /\ \A cp \in table : Reached(log, ledger, cp)
    BY StoreGrows DEF ReachInv
<1>2. /\ Len(log) \in Nat /\ Len(ledger) \in Nat /\ Len(log') \in Nat /\ Len(ledger') \in Nat
      /\ job \in [Auditors -> Jobs] /\ table \subseteq Checkpoint
    BY StepTables DEF TypeOK
<1>3. Grows(log, log') /\ Grows(ledger, ledger')
    BY StoreGrows
<1>4. CASE UNCHANGED checks
  <2>1. UNCHANGED <<job, table>>
      BY <1>4 DEF checks
  <2>2. \A c \in Auditors : Looking(job[c]) => SeenTrue(log', ledger', job[c])
      BY <1>1, <1>2, <1>3, TrueStays, LooksTyped DEF JobsTrue
  <2>3. \A cp \in table : Reached(log', ledger', cp)
      BY <1>1, <1>2, <1>3, TrueStays
  <2> QED  BY <2>1, <2>2, <2>3 DEF JobsTrue
<1>5. ASSUME NEW c \in Auditors, AuditorStep(c), UNCHANGED store
      PROVE  JobsTrue' /\ \A cp \in table' : Reached(log', ledger', cp)
  <2>1. UNCHANGED <<log, ledger>>
      BY <1>5 DEF store
  <2>2. PICK x : Become(c, x)
      BY <1>5, OtherLooks DEF Probe, See
  <2>3. job'[c] = x /\ \A d \in Auditors : d # c => job'[d] = job[d]
      BY <2>2, <1>2 DEF Become
  <2>4. Looking(job'[c]) => SeenTrue(log, ledger, job'[c])
    <3>1. CASE Probe(c)
        BY <3>1, <1>1, ProbeTrue DEF JobsTrue, Probe, Looking
    <3>2. CASE ~Probe(c)
      <4>1. PICK y : Become(c, y) /\ (Looking(y) => \E goal, key : y = Look(goal, key, Unread, 1))
          BY <3>2, <1>5, OtherLooks
      <4>2. job'[c] = y
          BY <4>1, <1>2 DEF Become
      <4> QED  BY <4>1, <4>2, UnreadTrue
    <3> QED  BY <3>1, <3>2
  <2>5. JobsTrue'
      BY <2>1, <2>3, <2>4, <1>1 DEF JobsTrue
  <2>6. \A cp \in table' : cp \in table \/ (Ready(c, "write") /\ cp = job[c].seen)
      BY <1>5 DEF AuditorStep, StartWrite, StartCheck, StartVerify, Probe, StoreCheckpoint,
         WriteFile, Compare, CheckChain, Detect, Locate, ExportEvents, ExportLedgers, Leave
  <2>7. Ready(c, "write") => Reached(log, ledger, job[c].seen)
      BY <1>1 DEF JobsTrue, Looking, Ready, SeenTrue, Reached
  <2> QED  BY <2>1, <2>5, <2>6, <2>7, <1>1
<1> QED  BY <1>4, <1>5, Frames

LEMMA ReachInvariance == Spec => []ReachInv
<1>1. Init => ReachInv
    BY DEF Init, ReachInv, JobsTrue, Looking, Idle
<1> QED  BY <1>1, StepReach, TypeCorrect, PTL DEF Spec

(* A checkpoint is put together from four statements with any steps of the *)
(* writers between them, and is still never ahead of the store.            *)
THEOREM CheckpointsHold == Spec => []CheckpointsReached
<1>1. TypeOK /\ ReachInv => CheckpointsReached
    BY DEF TypeOK, ReachInv, Reached, HeadIn, RunIn, CheckpointsReached
<1> QED  BY <1>1, ReachInvariance, TypeCorrect, PTL

-----------------------------------------------------------------------------
(* The recovery, when the disk corrupts at most one row: what it found is  *)
(* still the first corrupted row however many events arrive meanwhile.     *)
Sane == SubSeq(written, 1, FirstDamaged - 1)
RecoveryTrue(j) ==
    /\ j.goal \in {"locate", "export", "ledgers"} => damaged # {}
    /\ j.goal = "export" => j.prefix = FirstDamaged - 1
    /\ j.goal = "ledgers" => j.events = Sane
RecoverInv ==
    /\ \A c \in Auditors : RecoveryTrue(job[c])
    /\ \A out \in recovered : damaged # {} /\ out.events = Sane

LEMMA FirstRow ==
    ASSUME TypeOK, ChainInv, damaged # {}
    PROVE  FirstDamaged \in 1..Len(log) /\ Len(written) = Len(log)
<1>1. damaged \subseteq 1..Len(log) /\ damaged \in SUBSET Nat
    BY DEF TypeOK
<1>2. \E i \in damaged : \A j \in damaged : i <= j
    BY <1>1, LeastNumber
<1>3. FirstDamaged \in damaged
    BY <1>2, Zenon DEF FirstDamaged
<1> QED  BY <1>1, <1>3 DEF ChainInv, Rows

LEMMA OneDamage ==
    ASSUME MaxDamage <= 1, TypeOK, damaged # {}, [Next]_vars
    PROVE  damaged' = damaged
<1>1. ASSUME NEW i \in 1..Len(log), Damage(i)  PROVE FALSE
  <2>1. IsFiniteSet(damaged)
    <3>1. Len(log) \in Nat /\ damaged \subseteq 1..Len(log)
        BY DEF TypeOK
    <3>2. IsFiniteSet(1..Len(log))
        BY <3>1, FS_Interval
    <3> QED  BY <3>1, <3>2, FS_Subset
  <2>2. Cardinality(damaged) \in Nat /\ Cardinality(damaged) # 0
      BY <2>1, FS_CardinalityType, FS_EmptySet
  <2>3. Cardinality(damaged) < MaxDamage
      BY <1>1 DEF Damage
  <2> QED  BY <2>2, <2>3, ChainAssumption
<1> QED
    BY <1>1
    DEF Next, vars, store, Begin, ReadHead, Insert, EmitReturns, EmitFails, PutLedger,
        StartWrite, StartCheck, StartVerify, Probe, StoreCheckpoint, WriteFile, Compare,
        CheckChain, Detect, Locate, ExportEvents, ExportLedgers, Leave

(* The events before the corrupted row stay what they are. *)
LEMMA SaneStays ==
    ASSUME MaxDamage <= 1, TypeOK, ChainInv, damaged # {}, [Next]_vars
    PROVE  damaged' = damaged /\ FirstDamaged' = FirstDamaged /\ Sane' = Sane
<1> DEFINE n == FirstDamaged - 1
<1>1. damaged' = damaged
    BY OneDamage
<1>2. FirstDamaged' = FirstDamaged
    BY <1>1 DEF FirstDamaged
<1>3. n \in Nat /\ n < Len(log) /\ Len(written) = Len(log) /\ Len(log) \in Nat
    BY FirstRow DEF TypeOK
<1>4. written \in Seq(Events) /\ written' \in Seq(Events) /\ Grows(written, written')
    BY StepTables, StoreGrows DEF TypeOK
<1> HIDE DEF n
<1>5. Len(written) <= Len(written') /\ Len(written') \in Nat
    BY <1>4 DEF Grows
<1>6. \A i \in 1..n : i \in 1..Len(written) /\ written'[i] = written[i]
    BY <1>3, <1>4 DEF Grows
<1>7. SubSeq(written, 1, n) = [i \in 1..n |-> written[i]]
    BY <1>3, <1>4
<1>8. SubSeq(written', 1, n) = [i \in 1..n |-> written'[i]]
    BY <1>3, <1>4, <1>5
<1>9. SubSeq(written', 1, n) = SubSeq(written, 1, n)
    BY <1>6, <1>7, <1>8
<1> QED  BY <1>1, <1>2, <1>9 DEF Sane, n

(* The data that is exported are the events that were written. *)
LEMMA ExportedIsSane ==
    ASSUME TypeOK, ChainInv, damaged # {}
    PROVE  DataOf(FirstOf(log, FirstDamaged - 1)) = Sane
<1> DEFINE n == FirstDamaged - 1
           rows == FirstOf(log, n)
<1>1. n \in Nat /\ n < Len(log) /\ Len(written) = Len(log) /\ Len(log) \in Nat
    BY FirstRow DEF TypeOK
<1>2. log \in Seq(Row) /\ written \in Seq(Events)
    BY DEF TypeOK
<1>3. \A i \in 1..n : log[i].data = written[i]
    BY Locates DEF CorruptionLocated, Undamaged
<1> HIDE DEF n
<1>4. rows = SubSeq(log, 1, n)
    BY <1>1 DEF FirstOf
<1>5. SubSeq(log, 1, n) = [i \in 1..n |-> log[i]] /\ Len(SubSeq(log, 1, n)) = n
    BY <1>1, <1>2
<1>6. SubSeq(written, 1, n) = [i \in 1..n |-> written[i]]
    BY <1>1, <1>2
<1>7. Len(rows) = n /\ \A i \in 1..n : rows[i] = log[i]
    BY <1>4, <1>5
<1> HIDE DEF rows
<1>8. DataOf(rows) = [i \in 1..n |-> written[i]]
    BY <1>3, <1>7 DEF DataOf
<1> QED  BY <1>6, <1>8 DEF n, rows, Sane

LEMMA StepRecover ==
    ASSUME MaxDamage <= 1
    PROVE  TypeOK /\ ChainInv /\ RecoverInv /\ [Next]_vars => RecoverInv'
<1> SUFFICES ASSUME TypeOK, ChainInv, RecoverInv, [Next]_vars  PROVE RecoverInv'
    OBVIOUS
<1>1. job \in [Auditors -> Jobs]
    BY DEF TypeOK
<1>2. \A d \in Auditors : job'[d] = job[d] => RecoveryTrue(job[d])'
    BY SaneStays DEF RecoverInv, RecoveryTrue
<1>3. \A out \in recovered : damaged' # {} /\ out.events = Sane'
    BY SaneStays DEF RecoverInv
<1>4. CASE UNCHANGED checks
    BY <1>2, <1>3, <1>4 DEF RecoverInv, checks
<1>5. ASSUME NEW c \in Auditors, AuditorStep(c), UNCHANGED <<store, written, damaged>>
      PROVE  RecoverInv'
  <2>1. UNCHANGED <<log, ledger, written, damaged, FirstDamaged, Sane>>
      BY <1>5 DEF store, FirstDamaged, Sane
  <2>2. PICK x : Become(c, x)
      BY <1>5, OtherLooks DEF Probe, See
  <2>3. job'[c] = x /\ \A d \in Auditors : d # c => job'[d] = job[d]
      BY <2>2, <1>1 DEF Become
  <2>4. RecoveryTrue(job[c])'
    <3>1. CASE Detect(c)
      <4>1. ~Verified(log) /\ job'[c] = [goal |-> "locate"]
          BY <3>1, <1>1 DEF Detect, Become
      <4>2. damaged # {}
          BY <4>1, Locates DEF CorruptionLocated, Undamaged, Verified
      <4> QED  BY <4>1, <4>2, <2>1 DEF RecoveryTrue
    <3>2. CASE Locate(c)
      <4>1. job[c].goal = "locate" /\ job'[c] = [goal |-> "export", prefix |-> ValidPrefix(log)]
          BY <3>2, <1>1 DEF Locate, Become
      <4>2. damaged # {}
          BY <4>1 DEF RecoverInv, RecoveryTrue
      <4>3. ValidPrefix(log) = FirstDamaged - 1
          BY <4>2, Locates DEF CorruptionLocated, Undamaged
      <4> QED  BY <4>1, <4>2, <4>3, <2>1 DEF RecoveryTrue
    <3>3. CASE ExportEvents(c)
      <4> DEFINE data == DataOf(FirstOf(log, job[c].prefix))
      <4>1. /\ job[c].goal = "export"
            /\ job'[c] = [goal |-> "ledgers", prefix |-> job[c].prefix, events |-> data]
          BY <3>3, <1>1 DEF ExportEvents, Become
      <4>2. damaged # {} /\ job[c].prefix = FirstDamaged - 1
          BY <4>1 DEF RecoverInv, RecoveryTrue
      <4>3. data = Sane
          BY <4>2, ExportedIsSane
      <4> HIDE DEF data
      <4> QED  BY <4>1, <4>2, <4>3, <2>1 DEF RecoveryTrue
    <3>4. CASE Probe(c)
      <4>1. Looking(job[c])
          BY <3>4 DEF Probe, Looking
      <4>2. \A key, seen, next : Look(job[c].goal, key, seen, next).goal = job[c].goal
          BY LookFields
      <4>3. job'[c].goal = job[c].goal
          BY <3>4, <4>2, <1>1 DEF Probe, See, Become
      <4> QED  BY <4>1, <4>3 DEF Looking, RecoveryTrue
    <3>5. CASE \/ StartWrite(c) \/ StartCheck(c) \/ StartVerify(c) \/ StoreCheckpoint(c)
               \/ WriteFile(c) \/ Compare(c) \/ CheckChain(c) \/ ExportLedgers(c) \/ Leave(c)
      <4>1. \A goal, key, seen, next : Look(goal, key, seen, next).goal = goal
          BY DEF Look
      <4>2. Idle.goal = "none" /\ \A key, ok : Told(key, ok).goal = "told"
          BY DEF Idle, Told
      <4>3. job'[c].goal \in {"write", "check", "verify", "file", "none", "told"}
        <5>1. CASE StartWrite(c) \/ StartCheck(c) \/ StartVerify(c)
            BY <5>1, <4>1, <1>1 DEF StartWrite, StartCheck, StartVerify, Become
        <5>2. CASE StoreCheckpoint(c)
            BY <5>2, <1>1 DEF StoreCheckpoint, Become
        <5>3. CASE Compare(c) \/ CheckChain(c)
          <6>1. PICK key \in {"checkpoint", "chain"}, ok \in BOOLEAN : Become(c, Told(key, ok))
              BY <5>3 DEF Compare, CheckChain, Verified
          <6>2. job'[c] = Told(key, ok)
              BY <6>1, <1>1 DEF Become
          <6> QED  BY <6>2 DEF Told
        <5>4. CASE WriteFile(c) \/ ExportLedgers(c) \/ Leave(c)
            BY <5>4, <4>2, <1>1 DEF WriteFile, ExportLedgers, Leave, Become
        <5> QED  BY <3>5, <5>1, <5>2, <5>3, <5>4
      <4> QED  BY <4>3 DEF RecoveryTrue
    <3> QED  BY <1>5, <3>1, <3>2, <3>3, <3>4, <3>5 DEF AuditorStep
  <2>5. \A out \in recovered' : damaged' # {} /\ out.events = Sane'
    <3>1. CASE ExportLedgers(c)
      <4>1. job[c].goal = "ledgers" /\ \A out \in recovered' : out.events = job[c].events
          BY <3>1 DEF ExportLedgers
      <4>2. damaged # {} /\ job[c].events = Sane
          BY <4>1 DEF RecoverInv, RecoveryTrue
      <4> QED  BY <4>1, <4>2, <2>1
    <3>2. CASE ~ExportLedgers(c)
      <4>1. UNCHANGED recovered
          BY <3>2, <1>5
          DEF AuditorStep, StartWrite, StartCheck, StartVerify, Probe, StoreCheckpoint,
              WriteFile, Compare, CheckChain, Detect, Locate, ExportEvents, Leave
      <4> QED  BY <4>1, <1>3
    <3> QED  BY <3>1, <3>2
  <2> QED  BY <2>3, <2>4, <2>5, <1>2 DEF RecoverInv
<1> QED  BY <1>4, <1>5, Frames

(* While writers append, a recovery that reads the log three times exports *)
(* exactly the events before the corrupted row.                            *)
THEOREM RecoveryIsExact ==
    ASSUME MaxDamage <= 1  PROVE Spec => []RecoveredIsTrue
<1>1. Init => RecoverInv
    BY DEF Init, RecoverInv, RecoveryTrue, Idle
<1>2. TypeOK /\ ChainInv /\ RecoverInv /\ [Next]_vars => RecoverInv'
    BY StepRecover
<1>3. RecoverInv => RecoveredIsTrue
    BY DEF RecoverInv, RecoveredIsTrue, Sane
<1> QED  BY <1>1, <1>2, <1>3, ChainInvariance, PTL DEF Spec

-----------------------------------------------------------------------------
(* The verification by hash.  The row that the hash names is replaced, but *)
(* never goes away.                                                        *)
Stored(t, cp) == \E old \in t : Key(old) = Key(cp)
KeysStored ==
    /\ \A cp \in file : Stored(table, cp)
    /\ \A c \in Auditors : /\ job[c].goal = "file" => Stored(table, job[c].seen)
                           /\ job[c].goal = "verify" => Stored(table, job[c].key)

(* The goal of a step of an auditor. *)
LEMMA ProbeKeeps ==
    ASSUME TypeOK, NEW c \in Auditors, Probe(c)
    PROVE  /\ job'[c].goal = job[c].goal /\ job'[c].key = job[c].key
           /\ job'[c].goal \in {"write", "check", "verify"}
           /\ UNCHANGED <<table, file>>
<1>1. PICK seen : See(c, seen)
    BY DEF Probe
<1>2. job'[c] = Look(job[c].goal, job[c].key, seen, job[c].next + 1)
    BY <1>1 DEF See, Become, TypeOK
<1> QED  BY <1>2, LookFields DEF Probe

LEMMA StepKeys == TypeOK /\ KeysStored /\ [Next]_vars => KeysStored'
<1> SUFFICES ASSUME TypeOK, KeysStored, [Next]_vars  PROVE KeysStored'
    OBVIOUS
<1>1. job \in [Auditors -> Jobs]
    BY DEF TypeOK
<1>2. CASE UNCHANGED checks
    BY <1>2 DEF checks, KeysStored, Stored
<1>3. ASSUME NEW c \in Auditors, AuditorStep(c)  PROVE KeysStored'
  <2>1. PICK x : Become(c, x)
      BY <1>3, OtherLooks DEF Probe, See
  <2>2. \A d \in Auditors : d # c => job'[d] = job[d]
      BY <2>1, <1>1 DEF Become
  <2>3. CASE StoreCheckpoint(c)
    <3> DEFINE cp == job[c].seen
    <3>1. /\ table' = {old \in table : Key(old) # Key(cp)} \cup {cp}
          /\ job'[c] = [goal |-> "file", seen |-> cp] /\ UNCHANGED file
        BY <2>3, <1>1 DEF StoreCheckpoint, Become
    <3> HIDE DEF cp
    <3>2. \A d : Stored(table, d) => Stored(table', d)
        BY <3>1 DEF Stored
    <3>3. Stored(table', cp)
        BY <3>1 DEF Stored
    <3>4. Stored(table', job'[c].seen) /\ job'[c].goal = "file"
        BY <3>1, <3>3
    <3>5. \A d \in Auditors : d # c => /\ job'[d].goal = "file" => Stored(table', job'[d].seen)
                                       /\ job'[d].goal = "verify" => Stored(table', job'[d].key)
        BY <3>2, <2>2 DEF KeysStored, Stored
    <3>6. \A d \in file' : Stored(table', d)
        BY <3>1, <3>2 DEF KeysStored
    <3> QED  BY <3>4, <3>5, <3>6 DEF KeysStored, Stored
  <2>4. CASE ~StoreCheckpoint(c)
    <3>1. UNCHANGED table
        BY <2>4, <1>3
        DEF AuditorStep, StartWrite, StartCheck, StartVerify, Probe, WriteFile, Compare,
            CheckChain, Detect, Locate, ExportEvents, ExportLedgers, Leave
    <3>2. \A cp \in file' : Stored(table, cp)
      <4>1. WriteFile(c) => job[c].goal = "file" /\ file' = {job[c].seen}
          BY DEF WriteFile
      <4>2. ~WriteFile(c) => UNCHANGED file
          BY <2>4, <1>3
          DEF AuditorStep, StartWrite, StartCheck, StartVerify, Probe, Compare,
              CheckChain, Detect, Locate, ExportEvents, ExportLedgers, Leave
      <4> QED  BY <4>1, <4>2 DEF KeysStored
    <3>3. /\ job'[c].goal = "file" => Stored(table, job'[c].seen)
          /\ job'[c].goal = "verify" => Stored(table, job'[c].key)
      <4>1. CASE Probe(c)
          BY <4>1, ProbeKeeps DEF KeysStored
      <4>2. CASE StartWrite(c) \/ StartCheck(c) \/ StartVerify(c)
        <5>1. PICK goal, key : /\ job'[c] = Look(goal, key, Unread, 1)
                               /\ goal \in {"write", "check"} \/ (goal = "verify" /\ key \in file)
            BY <4>2, <1>1 DEF StartWrite, StartCheck, StartVerify, Become
        <5>2. job'[c].goal = goal /\ job'[c].key = key
            BY <5>1 DEF Look
        <5> QED  BY <5>1, <5>2 DEF KeysStored
      <4>3. CASE Compare(c) \/ CheckChain(c)
        <5>1. PICK key \in {"checkpoint", "chain"}, ok \in BOOLEAN : Become(c, Told(key, ok))
            BY <4>3 DEF Compare, CheckChain, Verified
        <5>2. job'[c] = Told(key, ok)
            BY <5>1, <1>1 DEF Become
        <5> QED  BY <5>2 DEF Told
      <4>4. CASE \/ WriteFile(c) \/ Detect(c) \/ Locate(c) \/ ExportEvents(c)
                 \/ ExportLedgers(c) \/ Leave(c)
        <5>1. job'[c].goal \in {"none", "locate", "export", "ledgers"}
            BY <4>4, <1>1
            DEF WriteFile, Detect, Locate, ExportEvents, ExportLedgers, Leave, Become, Idle
        <5> QED  BY <5>1
      <4> QED  BY <2>4, <1>3, <4>1, <4>2, <4>3, <4>4 DEF AuditorStep
    <3> QED  BY <3>1, <3>2, <3>3, <2>2 DEF KeysStored, Stored
  <2> QED  BY <2>3, <2>4
<1> QED  BY <1>2, <1>3, Frames

(* One auditor, on a sound store: once it has counted, no stored row is    *)
(* ahead of its count, because nobody else stores one.                     *)
Alone == \A c, d \in Auditors : c = d
Ahead ==
    \A c \in Auditors, old \in table :
        Looking(job[c]) =>
            /\ job[c].next >= 4 => old.audit_count <= job[c].seen.audit_count
            /\ job[c].next = 5 => old.ledger_count <= job[c].seen.ledger_count
Verdicts == \A c \in Auditors : job[c].goal = "told" /\ ~job[c].ok => damaged # {}
GrowthInv == KeysStored /\ (Alone => Verdicts /\ (damaged = {} => Ahead))

LEMMA ProbeAhead ==
    ASSUME TypeOK, ReachInv, damaged = {}, NEW c \in Auditors, Probe(c), NEW old \in table,
           /\ job[c].next >= 4 => old.audit_count <= job[c].seen.audit_count
           /\ job[c].next = 5 => old.ledger_count <= job[c].seen.ledger_count
    PROVE  /\ job'[c].next >= 4 => old.audit_count <= job'[c].seen.audit_count
           /\ job'[c].next = 5 => old.ledger_count <= job'[c].seen.ledger_count
<1> DEFINE j == job[c]
           cp == j.seen
<1>1. j \in Jobs /\ Looking(j) /\ job \in [Auditors -> Jobs]
    BY DEF TypeOK, Probe, Looking
<1>2. cp \in Checkpoint /\ j.next \in 1..5
    BY <1>1, LooksTyped
<1>3. old.audit_count <= Len(log) /\ old.ledger_count <= Len(ledger)
    BY DEF ReachInv, Reached
<1>4. ASSUME NEW seen, See(c, seen)  PROVE job'[c].seen = seen /\ job'[c].next = j.next + 1
  <2>1. job'[c] = Look(j.goal, j.key, seen, j.next + 1)
      BY <1>1, <1>4 DEF See, Become
  <2> QED  BY <2>1, LookFields
<1>5. CASE j.next = 3 /\ See(c, [cp EXCEPT !.audit_count = Len(log)])
  <2>1. job'[c].seen.audit_count = Len(log) /\ job'[c].next = 4
      BY <1>5, <1>4, <1>2 DEF Checkpoint
  <2> QED  BY <2>1, <1>3
<1>6. CASE j.next = 4 /\ See(c, [cp EXCEPT !.ledger_count = Len(ledger)])
  <2>1. /\ job'[c].seen.audit_count = cp.audit_count
        /\ job'[c].seen.ledger_count = Len(ledger) /\ job'[c].next = 5
      BY <1>6, <1>4, <1>2 DEF Checkpoint
  <2> QED  BY <2>1, <1>3, <1>6
<1>7. CASE j.next \in {1, 2}
  <2>1. PICK seen : See(c, seen)
      BY DEF Probe
  <2>2. job'[c].next \in {2, 3}
      BY <2>1, <1>4, <1>7
  <2> QED  BY <2>2
<1> QED  BY <1>5, <1>6, <1>7 DEF Probe

LEMMA StepGrowth ==
    TypeOK /\ ChainInv /\ ReachInv /\ GrowthInv /\ [Next]_vars => GrowthInv'
<1> SUFFICES ASSUME TypeOK, ChainInv, ReachInv, GrowthInv, [Next]_vars, Alone
             PROVE Verdicts' /\ (damaged' = {} => Ahead')
    BY StepKeys DEF GrowthInv, Alone
<1>1. job \in [Auditors -> Jobs] /\ damaged \subseteq damaged'
    BY StoreGrows DEF TypeOK
<1>2. KeysStored /\ Verdicts /\ (damaged = {} => Ahead)
    BY DEF GrowthInv
<1>3. CASE UNCHANGED checks
    BY <1>1, <1>2, <1>3 DEF checks, Verdicts, Ahead, Looking
<1>4. ASSUME NEW c \in Auditors, AuditorStep(c), UNCHANGED <<store, written, damaged>>
      PROVE  Verdicts' /\ (damaged' = {} => Ahead')
  <2>1. UNCHANGED <<log, ledger, damaged>> /\ \A d \in Auditors : d = c
      BY <1>4 DEF store, Alone
  <2>2. job'[c].goal = "told" /\ ~job'[c].ok => damaged # {}
    <3>1. CASE Compare(c)
      <4> DEFINE stored == {cp \in table : Key(cp) = Key(job[c].key)}
                 ok == \E cp \in stored : Reaches(job[c].seen, cp)
      <4>1. Ready(c, "verify") /\ job'[c] = Told("checkpoint", ok)
          BY <3>1, <1>1 DEF Compare, Become
      <4>2. job'[c].ok = ok
          BY <4>1 DEF Told
      <4>3. PICK cp \in table : Key(cp) = Key(job[c].key)
          BY <4>1, <1>2 DEF KeysStored, Stored, Ready
      <4>4. damaged = {} => Reaches(job[c].seen, cp)
          BY <4>1, <1>2 DEF Ahead, Ready, Looking, Reaches
      <4>5. damaged = {} => ok
          BY <4>3, <4>4
      <4> HIDE DEF ok
      <4> QED  BY <4>2, <4>5
    <3>2. CASE CheckChain(c)
      <4>1. job'[c] = Told("chain", Verified(log))
          BY <3>2, <1>1 DEF CheckChain, Become
      <4>2. job'[c].ok = Verified(log)
          BY <4>1 DEF Told
      <4>3. damaged = {} => Verified(log)
          BY Locates DEF CorruptionLocated, Undamaged, Verified
      <4> QED  BY <4>2, <4>3
    <3>3. CASE Probe(c)
        BY <3>3, ProbeKeeps
    <3>4. CASE StartWrite(c) \/ StartCheck(c) \/ StartVerify(c)
      <4>1. \A goal, key, seen, next : Look(goal, key, seen, next).goal = goal
          BY DEF Look
      <4>2. job'[c].goal # "told"
          BY <3>4, <4>1, <1>1 DEF StartWrite, StartCheck, StartVerify, Become
      <4> QED  BY <4>2
    <3>5. CASE \/ StoreCheckpoint(c) \/ WriteFile(c) \/ Detect(c) \/ Locate(c)
               \/ ExportEvents(c) \/ ExportLedgers(c) \/ Leave(c)
      <4>1. job'[c].goal # "told"
          BY <3>5, <1>1
          DEF StoreCheckpoint, WriteFile, Detect, Locate, ExportEvents, ExportLedgers, Leave,
              Become, Idle
      <4> QED  BY <4>1
    <3> QED  BY <1>4, <3>1, <3>2, <3>3, <3>4, <3>5 DEF AuditorStep
  <2>3. Verdicts'
      BY <2>1, <2>2 DEF Verdicts
  <2>4. ASSUME damaged = {}, NEW old \in table', Looking(job'[c])
        PROVE  /\ job'[c].next >= 4 => old.audit_count <= job'[c].seen.audit_count
               /\ job'[c].next = 5 => old.ledger_count <= job'[c].seen.ledger_count
    <3>1. CASE Probe(c)
      <4>1. old \in table /\ Looking(job[c])
          BY <3>1, <2>4 DEF Probe, Looking
      <4>2. /\ job[c].next >= 4 => old.audit_count <= job[c].seen.audit_count
            /\ job[c].next = 5 => old.ledger_count <= job[c].seen.ledger_count
          BY <4>1, <1>2, <2>4 DEF Ahead
      <4> QED  BY <3>1, <4>1, <4>2, <2>4, ProbeAhead
    <3>2. CASE ~Probe(c)
      <4>1. PICK y : Become(c, y) /\ (Looking(y) => \E goal, key : y = Look(goal, key, Unread, 1))
          BY <3>2, <1>4, OtherLooks
      <4>2. job'[c] = y
          BY <4>1, <1>1 DEF Become
      <4>3. job'[c].next = 1
          BY <4>1, <4>2, <2>4 DEF Look
      <4> QED  BY <4>3
    <3> QED  BY <3>1, <3>2
  <2>5. damaged' = {} => Ahead'
      BY <2>1, <2>4 DEF Ahead
  <2> QED  BY <2>3, <2>5
<1> QED  BY <1>3, <1>4, Frames

(* A single auditor that verifies what it wrote, by the chain or by the    *)
(* hash, never rejects a store that only grew.                             *)
THEOREM GrowthIsAccepted == Spec => []GrowthAccepted
<1>1. Init => GrowthInv
    BY DEF Init, GrowthInv, KeysStored, Verdicts, Ahead, Idle
<1>2. TypeOK /\ ChainInv /\ ReachInv /\ GrowthInv /\ [Next]_vars => GrowthInv'
    BY StepGrowth
<1>3. GrowthInv => GrowthAccepted
    BY DEF GrowthInv, Alone, Verdicts, GrowthAccepted
<1> QED  BY <1>1, <1>2, <1>3, ChainInvariance, ReachInvariance, PTL DEF Spec
=============================================================================
