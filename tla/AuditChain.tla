----------------------------- MODULE AuditChain -----------------------------
(***************************************************************************)
(* The hash-chained audit log of noble-cascade (Store.append_audit and     *)
(* verify_audit in noble/store.py, AuditSink in noble/audit.py) with the   *)
(* checkpoints, the detection of corruption and the partial recovery of    *)
(* noble/ledger_integrity.py.                                              *)
(*                                                                         *)
(* A digest is modelled by what it digested, the sequence of events, so    *)
(* different contents never have the same digest.  Every SELECT outside a  *)
(* transaction sees the database of its own instant.                       *)
(***************************************************************************)
EXTENDS Integers, FiniteSets, Sequences, SequencesExt

CONSTANTS
    Events,      \* audit events, each with its own event_id
    Writers,     \* processes that emit events
    Auditors,    \* processes at a checkpoint, a verification or a recovery
    Tasks,       \* what the auditors of the model are asked to do
    MaxDamage    \* bound of the model on the rows that the disk corrupts

BadData == "bad data"
BadHash == "bad hash"
NoOne == "no one"
Nothing == "nothing"

ASSUME ChainAssumption ==
    /\ {BadData, BadHash, Nothing} \cap Events = {}
    /\ NoOne \notin Writers
    /\ Tasks \subseteq {"write", "check", "verify", "recover"}
    /\ MaxDamage \in Nat

VARIABLES
    log,        \* table audit_events in the order of its sequence
    ledger,     \* table ledger: a run is named by its FINISHED event
    lock,       \* who holds the write lock of the database
    writing,    \* what each writer is doing
    acked,      \* events whose emit returned
    table,      \* table ledger_checkpoints
    file,       \* the checkpoint in checkpoint.json, if any
    job,        \* what each auditor is doing
    recovered,  \* the output file of partial_recovery, if any
    written,    \* history: the events as they were appended
    damaged     \* history: the rows of the log that were corrupted

store == <<log, ledger, lock>>
checks == <<table, file, job, recovered>>
vars == <<store, writing, acked, checks, written, damaged>>

-----------------------------------------------------------------------------
(* The chain. *)
Zero == <<>>
Digest(prev, data) == Append(prev, data)
HashAt(l, n) == IF n = 0 THEN Zero ELSE l[n].hash
LastHash(l) == HashAt(l, Len(l))

(* A row that verify_audit and detect_corruption accept after the rows     *)
(* before it.                                                              *)
Linked(l, i) ==
    /\ l[i].prev = HashAt(l, i - 1)
    /\ l[i].hash = Digest(l[i].prev, l[i].data)

(* How many rows verify_audit counts before it stops. *)
ValidPrefix(l) ==
    CHOOSE n \in 0..Len(l) :
        /\ \A i \in 1..n : Linked(l, i)
        /\ n < Len(l) => ~Linked(l, n + 1)
Verified(l) == ValidPrefix(l) = Len(l)

Hashes == Seq(Events \cup {BadData, BadHash})
Row == [data : Events \cup {BadData}, prev : Hashes, hash : Hashes]

-----------------------------------------------------------------------------
(* Checkpoints. *)
Unread == [audit_head |-> Zero, ledger_head |-> Nothing, audit_count |-> 0, ledger_count |-> 0]
Checkpoint == [audit_head : Hashes, ledger_head : Events \cup {Nothing},
               audit_count : Nat, ledger_count : Nat]
(* The checkpoint_hash digests the two heads, not the counts. *)
Key(cp) == <<cp.audit_head, cp.ledger_head>>

Idle == [goal |-> "none"]
Look(goal, key, seen, next) == [goal |-> goal, key |-> key, seen |-> seen, next |-> next]
Told(key, ok) == [goal |-> "told", key |-> key, ok |-> ok]

Jobs ==
    {Idle}
    \cup [goal : {"write", "check", "verify"}, key : Checkpoint, seen : Checkpoint, next : 1..5]
    \cup [goal : {"file"}, seen : Checkpoint]
    \cup [goal : {"told"}, key : {"checkpoint", "chain"}, ok : BOOLEAN]
    \cup [goal : {"locate"}]
    \cup [goal : {"export"}, prefix : Nat]
    \cup [goal : {"ledgers"}, prefix : Nat, events : Seq(Events \cup {BadData})]

Resting == [pc |-> "idle", event |-> Nothing, prev |-> Zero]
Emits == {Resting} \cup [pc : {"locked", "read", "committed"}, event : Events, prev : Hashes]

(* The types of the tables and the writers; checkpoint_hash is a key. *)
TypeOK ==
    /\ log \in Seq(Row)
    /\ ledger \in Seq(Events)
    /\ lock \in Writers \cup {NoOne}
    /\ writing \in [Writers -> Emits]
    /\ acked \subseteq Events
    /\ table \subseteq Checkpoint
    /\ \A cp, other \in table : Key(cp) = Key(other) => cp = other
    /\ file \subseteq Checkpoint
    /\ job \in [Auditors -> Jobs]
    /\ written \in Seq(Events)
    /\ damaged \subseteq 1..Len(log)

Init ==
    /\ log = <<>> /\ ledger = <<>> /\ lock = NoOne
    /\ writing = [w \in Writers |-> Resting]
    /\ acked = {}
    /\ table = {} /\ file = {}
    /\ job = [c \in Auditors |-> Idle]
    /\ recovered = {}
    /\ written = <<>> /\ damaged = {}

-----------------------------------------------------------------------------
(* Store.append_audit: BEGIN IMMEDIATE, the last hash, the row, COMMIT.    *)
Write(w, new) == writing' = [writing EXCEPT ![w] = new]

(* Mutant: BEGIN without IMMEDIATE takes no lock. *)
BugBegin(w, e) ==
    /\ writing[w].pc = "idle"
    /\ ~Contains(written, e) /\ \A v \in Writers : writing[v].event # e
    /\ Write(w, [pc |-> "locked", event |-> e, prev |-> Zero])
    /\ UNCHANGED <<store, acked, checks, written, damaged>>
Begin(w, e) ==
    /\ writing[w].pc = "idle"
    /\ ~Contains(written, e) /\ \A v \in Writers : writing[v].event # e
    /\ lock = NoOne
    /\ lock' = w
    /\ Write(w, [pc |-> "locked", event |-> e, prev |-> Zero])
    /\ UNCHANGED <<log, ledger, acked, checks, written, damaged>>

ReadHead(w) ==
    /\ writing[w].pc = "locked"
    /\ Write(w, [writing[w] EXCEPT !.pc = "read", !.prev = LastHash(log)])
    /\ UNCHANGED <<store, acked, checks, written, damaged>>

Insert(w) ==
    LET e == writing[w].event
        prev == writing[w].prev
    IN
    /\ writing[w].pc = "read"
    /\ log' = Append(log, [data |-> e, prev |-> prev, hash |-> Digest(prev, e)])
    /\ written' = Append(written, e)
    /\ lock' = NoOne
    /\ Write(w, [writing[w] EXCEPT !.pc = "committed"])
    /\ UNCHANGED <<ledger, acked, checks, damaged>>

Rest(w) == Write(w, Resting)

EmitReturns(w) ==
    /\ writing[w].pc = "committed"
    /\ acked' = acked \cup {writing[w].event}
    /\ Rest(w)
    /\ UNCHANGED <<store, checks, written, damaged>>

(* The process dies or the transaction fails: SQLite rolls back.  After    *)
(* the COMMIT the event stays although emit never returned.                *)
(* Mutant: a failed emit is reported like any other. *)
BugEmitFails(w) ==
    /\ writing[w].pc # "idle"
    /\ lock' = IF lock = w THEN NoOne ELSE lock
    /\ acked' = acked \cup {writing[w].event}
    /\ Rest(w)
    /\ UNCHANGED <<log, ledger, checks, written, damaged>>
EmitFails(w) ==
    /\ writing[w].pc # "idle"
    /\ lock' = IF lock = w THEN NoOne ELSE lock
    /\ Rest(w)
    /\ UNCHANGED <<log, ledger, acked, checks, written, damaged>>

(* Store.put_ledger of a run, after its FINISHED event. *)
PutLedger(e) ==
    /\ lock = NoOne
    /\ e \in acked /\ ~Contains(ledger, e)
    /\ ledger' = Append(ledger, e)
    /\ UNCHANGED <<log, lock, writing, acked, checks, written, damaged>>

(* The disk corrupts a stored event or digest. *)
Damage(i) ==
    /\ Cardinality(damaged) < MaxDamage
    /\ i \in (1..Len(log)) \ damaged
    /\ \/ log' = [log EXCEPT ![i].data = BadData]
       \/ log' = [log EXCEPT ![i].hash = <<BadHash>>]
    /\ damaged' = damaged \cup {i}
    /\ UNCHANGED <<ledger, lock, writing, acked, checks, written>>

-----------------------------------------------------------------------------
(* ledger_integrity.py. *)
Become(c, new) == job' = [job EXCEPT ![c] = new]

StartWrite(c) ==
    /\ "write" \in Tasks
    /\ job[c] = Idle
    /\ Become(c, Look("write", Unread, Unread, 1))
    /\ UNCHANGED <<store, writing, acked, table, file, recovered, written, damaged>>

(* verify_checkpoint without a hash, as the CLI calls it, and with the     *)
(* hash that the file names.                                               *)
StartCheck(c) ==
    /\ "check" \in Tasks
    /\ job[c] = Idle
    /\ Become(c, Look("check", Unread, Unread, 1))
    /\ UNCHANGED <<store, writing, acked, table, file, recovered, written, damaged>>

StartVerify(c) ==
    /\ "verify" \in Tasks
    /\ job[c] = Idle
    /\ \E cp \in file : Become(c, Look("verify", cp, Unread, 1))
    /\ UNCHANGED <<store, writing, acked, table, file, recovered, written, damaged>>

(* compute_ledger_checkpoint: both heads, then both counts. *)
LedgerHead == IF ledger = <<>> THEN Nothing ELSE Last(ledger)
See(c, seen) == Become(c, Look(job[c].goal, job[c].key, seen, job[c].next + 1))

(* Mutant: the counts are read before the heads. *)
BugProbe(c) ==
    LET seen == job[c].seen
        next == job[c].next
    IN
    /\ job[c].goal \in {"write", "verify", "check"}
    /\ \/ next = 1 /\ See(c, [seen EXCEPT !.audit_count = Len(log)])
       \/ next = 2 /\ See(c, [seen EXCEPT !.ledger_count = Len(ledger)])
       \/ next = 3 /\ See(c, [seen EXCEPT !.audit_head = LastHash(log)])
       \/ next = 4 /\ See(c, [seen EXCEPT !.ledger_head = LedgerHead])
    /\ UNCHANGED <<store, writing, acked, table, file, recovered, written, damaged>>
Probe(c) ==
    LET seen == job[c].seen
        next == job[c].next
    IN
    /\ job[c].goal \in {"write", "verify", "check"}
    /\ \/ next = 1 /\ See(c, [seen EXCEPT !.audit_head = LastHash(log)])
       \/ next = 2 /\ See(c, [seen EXCEPT !.ledger_head = LedgerHead])
       \/ next = 3 /\ See(c, [seen EXCEPT !.audit_count = Len(log)])
       \/ next = 4 /\ See(c, [seen EXCEPT !.ledger_count = Len(ledger)])
    /\ UNCHANGED <<store, writing, acked, table, file, recovered, written, damaged>>

Ready(c, goal) == job[c].goal = goal /\ job[c].next = 5

(* INSERT OR REPLACE by checkpoint_hash, then the file. *)
(* Mutant: a plain INSERT keeps both rows. *)
BugStoreCheckpoint(c) ==
    /\ Ready(c, "write")
    /\ lock = NoOne
    /\ table' = table \cup {job[c].seen}
    /\ Become(c, [goal |-> "file", seen |-> job[c].seen])
    /\ UNCHANGED <<store, writing, acked, file, recovered, written, damaged>>
StoreCheckpoint(c) ==
    LET cp == job[c].seen IN
    /\ Ready(c, "write")
    /\ lock = NoOne
    /\ table' = {old \in table : Key(old) # Key(cp)} \cup {cp}
    /\ Become(c, [goal |-> "file", seen |-> cp])
    /\ UNCHANGED <<store, writing, acked, file, recovered, written, damaged>>

WriteFile(c) ==
    /\ job[c].goal = "file"
    /\ file' = {job[c].seen}
    /\ Become(c, Idle)
    /\ UNCHANGED <<store, writing, acked, table, recovered, written, damaged>>

(* With a hash only the counts are compared. *)
(* Mutant: a store that has grown is rejected. *)
BugReaches(now, cp) ==
    now.audit_count = cp.audit_count /\ now.ledger_count = cp.ledger_count
Reaches(now, cp) ==
    now.audit_count >= cp.audit_count /\ now.ledger_count >= cp.ledger_count

Compare(c) ==
    LET stored == {cp \in table : Key(cp) = Key(job[c].key)} IN
    /\ Ready(c, "verify")
    /\ Become(c, Told("checkpoint", \E cp \in stored : Reaches(job[c].seen, cp)))
    /\ UNCHANGED <<store, writing, acked, table, file, recovered, written, damaged>>

(* Without one, the chain is verified. *)
CheckChain(c) ==
    /\ Ready(c, "check")
    /\ Become(c, Told("chain", Verified(log)))
    /\ UNCHANGED <<store, writing, acked, table, file, recovered, written, damaged>>

(* detect_corruption first asks verify_audit; partial_recovery ends if it  *)
(* finds nothing ...                                                       *)
Detect(c) ==
    /\ "recover" \in Tasks
    /\ job[c] = Idle
    /\ ~Verified(log)
    /\ Become(c, [goal |-> "locate"])
    /\ UNCHANGED <<store, writing, acked, table, file, recovered, written, damaged>>

(* ... else the rows are read again for the first broken one ... *)
(* Mutant: the broken row counts as valid. *)
BugLocate(c) ==
    /\ job[c].goal = "locate"
    /\ Become(c, [goal |-> "export", prefix |-> ValidPrefix(log) + 1])
    /\ UNCHANGED <<store, writing, acked, table, file, recovered, written, damaged>>
Locate(c) ==
    /\ job[c].goal = "locate"
    /\ Become(c, [goal |-> "export", prefix |-> ValidPrefix(log)])
    /\ UNCHANGED <<store, writing, acked, table, file, recovered, written, damaged>>

(* ... and the rows before it are exported, then as many of the ledger. *)
FirstOf(s, n) == SubSeq(s, 1, IF n < Len(s) THEN n ELSE Len(s))
DataOf(rows) == [i \in 1..Len(rows) |-> rows[i].data]
ExportEvents(c) ==
    LET n == job[c].prefix IN
    /\ job[c].goal = "export"
    /\ Become(c, [goal |-> "ledgers", prefix |-> n, events |-> DataOf(FirstOf(log, n))])
    /\ UNCHANGED <<store, writing, acked, table, file, recovered, written, damaged>>

ExportLedgers(c) ==
    /\ job[c].goal = "ledgers"
    /\ recovered' = {[events |-> job[c].events, ledgers |-> FirstOf(ledger, job[c].prefix)]}
    /\ Become(c, Idle)
    /\ UNCHANGED <<store, writing, acked, table, file, written, damaged>>

(* The process dies at any point, or ends after its verdict. *)
Leave(c) ==
    /\ job[c] # Idle
    /\ Become(c, Idle)
    /\ UNCHANGED <<store, writing, acked, table, file, recovered, written, damaged>>

Next ==
    \/ \E w \in Writers :
        \/ \E e \in Events : Begin(w, e)
        \/ ReadHead(w) \/ Insert(w) \/ EmitReturns(w) \/ EmitFails(w)
    \/ \E e \in Events : PutLedger(e)
    \/ \E i \in 1..Len(log) : Damage(i)
    \/ \E c \in Auditors :
        \/ StartWrite(c) \/ StartCheck(c) \/ StartVerify(c) \/ Probe(c)
        \/ StoreCheckpoint(c) \/ WriteFile(c) \/ Compare(c) \/ CheckChain(c)
        \/ Detect(c) \/ Locate(c) \/ ExportEvents(c) \/ ExportLedgers(c)
        \/ Leave(c)

Spec == Init /\ [][Next]_vars

-----------------------------------------------------------------------------
(* Properties. *)

(* Whatever was corrupted and however many events were appended since,     *)
(* verify_audit stops at the first corrupted row and nowhere else, and     *)
(* the rows it counted hold the events that were written.                  *)
FirstDamaged == CHOOSE i \in damaged : \A j \in damaged : i <= j
Undamaged == IF damaged = {} THEN Len(log) ELSE FirstDamaged - 1
CorruptionLocated ==
    /\ ValidPrefix(log) = Undamaged
    /\ \A i \in 1..Undamaged : log[i].data = written[i]

(* Without corruption the table behaves like a log that is appended to.    *)
Abstract == INSTANCE AuditLog WITH logged <- DataOf(log)
FollowsAuditLog == Abstract!Spec

(* A checkpoint is torn over four statements, but never ahead of the       *)
(* store: its heads are rows of the log and the ledger, no later than its  *)
(* counts, which the store has reached.                                    *)
CheckpointsReached ==
    damaged = {} =>
        \A cp \in table :
            /\ cp.audit_count <= Len(log) /\ cp.ledger_count <= Len(ledger)
            /\ \E n \in 0..cp.audit_count : cp.audit_head = HashAt(log, n)
            /\ cp.ledger_head # Nothing =>
                \E m \in 1..cp.ledger_count : cp.ledger_head = ledger[m]

(* While the disk corrupts one row and events keep arriving, the recovered *)
(* events are exactly those written before the corrupted one.              *)
RecoveredIsTrue ==
    \A out \in recovered : out.events = SubSeq(written, 1, FirstDamaged - 1)

(* "allow current to have grown beyond checkpoint"                         *)
(* (noble/ledger_integrity.py): a store that only grew is not rejected, as *)
(* long as one process takes checkpoints.  A second one can replace the    *)
(* stored row, under the same hash and with larger counts, after the       *)
(* counts were read and before the row is.                                 *)
GrowthAccepted ==
    (\A c, d \in Auditors : c = d) =>
        \A c \in Auditors : job[c].goal = "told" /\ ~job[c].ok => damaged # {}

=============================================================================
