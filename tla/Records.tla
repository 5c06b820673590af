------------------------------ MODULE Records ------------------------------
(***************************************************************************)
(* What an execution leaves in the database (noble/engine.py,              *)
(* noble/store.py, noble/worker_identity.py, noble/ledger.py), and the     *)
(* three programs that read it back while engines are running: replay      *)
(* (noble/replay.py), the report (noble/reporting.py) and the backup       *)
(* (noble/backup.py), which can also put an old database in its place.     *)
(*                                                                         *)
(* Every call of the store opens a connection of its own, so each row is   *)
(* stored, and each table is read, in a step of its own.  A row is known   *)
(* by the run it belongs to and by its place in the run.                   *)
(***************************************************************************)
EXTENDS Integers, Sequences, FiniteSets, SequencesExt

CONSTANTS
    Runs,            \* request ids; a run's execution id is one to one with it
    Plans,           \* what may become of each: is a tool launched, and what does it observe
    Earlier,         \* runs that completed before, in their order
    EarlierFindings, \* what they found, in the order in which it was stored
    Late,            \* the tables in the last pages of the database file
    RecentResults,   \* results that replay searches: 1000
    RecentEvents,    \* events that replay reads: 1000
    RecentFindings,  \* findings that a report lists: 100
    MaxRestores,
    MaxBackups,
    MaxFaults        \* rows that cannot be stored or read, and processes that die

Grades == {"candidate", "confirmed"}
ASSUME RecordsAssumption ==
    /\ \A r \in Runs : Plans[r] \subseteq [launched : BOOLEAN, finds : Seq(Grades)]
    /\ {RecentResults, RecentEvents, RecentFindings} \subseteq Nat \ {0}
    /\ {MaxRestores, MaxBackups, MaxFaults} \subseteq Nat

(* The earlier runs launched their tools and stored what they found.       *)
Before == ToSet(Earlier)
PastPlan(r) == (CHOOSE plan \in Plans[r] : plan.launched).finds
PastFindings(r) == {[run |-> r, k |-> k, grade |-> PastPlan(r)[k]] : k \in DOMAIN PastPlan(r)}
ASSUME EarlierAssumption ==
    /\ Earlier \in Seq(Runs)
    /\ \A r \in Before : \E plan \in Plans[r] : plan.launched
    /\ ToSet(EarlierFindings) = UNION {PastFindings(r) : r \in Before}
    /\ EarlierFindings \in Seq(ToSet(EarlierFindings))

VARIABLES
    db,          \* the tables of state.db
    run,         \* the engine's side of each run
    dir,         \* the backup directory
    creator,     \* the process that makes backups
    restorer,    \* the process that restores one
    reader,      \* a replay or a report
    made, faults,    \* bounds: backups begun and faults so far
    gen,         \* history: restores so far
    across,      \* history: runs that were under way at a restore
    tainted      \* history: was the database ever restored in part?

history == <<gen, across, tainted>>
backups == <<dir, creator>>
vars == <<db, run, dir, creator, restorer, reader, made, faults, gen, across, tainted>>

NoTables == [events |-> <<>>, workers |-> {}, evidence |-> {}, findings |-> <<>>, ledger |-> {},
             results |-> <<>>]
NoRows == [findings |-> {}, events |-> {}, results |-> {}, workers |-> {}]
(* One source row for each observation, and the reproduction's row for a   *)
(* verified one.                                                           *)
Parts(grade) == IF grade = "confirmed" THEN 2 ELSE 1
Rows(tables, t) == IF t = "workers" THEN tables.workers ELSE ToSet(tables[t])
Newest(rows, n) == SubSeq(rows, 1 + Len(rows) - (IF Len(rows) < n THEN Len(rows) ELSE n), Len(rows))

NoBackup == [at |-> 1, rows |-> NoRows, tables |-> NoTables, gen |-> 0]
NoReader == [at |-> "idle", run |-> "none", stored |-> FALSE, erred |-> FALSE, gen |-> 0, names |-> {},
             evidence |-> {}, findings |-> {}, events |-> {}, all |-> FALSE, todo |-> <<>>, cited |-> 0]

(* The database may hold earlier runs, and the directory a backup of it.   *)
PastTables ==
    [events |-> [i \in 1..(2 * Len(Earlier)) |-> [run |-> Earlier[(i + 1) \div 2],
                                                  event |-> IF i % 2 = 1 THEN "begun" ELSE "finished"]],
     workers |-> Before,
     evidence |-> UNION {[run : {f.run}, k : {f.k}, part : 1..Parts(f.grade)] : f \in ToSet(EarlierFindings)},
     findings |-> EarlierFindings,
     ledger |-> Before,
     results |-> [i \in DOMAIN Earlier |-> [run |-> Earlier[i], launched |-> TRUE,
                                           findings |-> PastFindings(Earlier[i])]]]
Dirs ==
    LET None == [state |-> "absent", rows |-> NoRows]
        Export == [state |-> "whole", rows |-> [t \in DOMAIN NoRows |-> Rows(PastTables, t)]]
    IN {[json |-> None, copy |-> [state |-> "absent", tables |-> NoTables, sound |-> FALSE], hash |-> None],
        [json |-> Export, copy |-> [state |-> "whole", tables |-> PastTables, sound |-> TRUE], hash |-> Export]}

Init ==
    /\ db = PastTables
    /\ run = [r \in Runs |->
                IF r \in Before
                THEN [at |-> "end", plan |-> PastPlan(r), done |-> Len(PastPlan(r)), parts |-> 0,
                      launched |-> TRUE, failed |-> FALSE]
                ELSE [at |-> "idle", plan |-> <<>>, done |-> 0, parts |-> 0, launched |-> FALSE,
                      failed |-> FALSE]]
    /\ dir \in Dirs
    /\ creator = NoBackup
    /\ restorer = "idle"
    /\ reader = NoReader
    /\ made = 0 /\ faults = 0
    /\ gen = 0 /\ across = {} /\ tainted = FALSE

(******************************** the engine *******************************)
(* A finding is named by its run and its observation.                      *)
Evidence(r, k) == [run : {r}, k : {k}, part : 1..Parts(run[r].plan[k])]
Finding(r, k) == [run |-> r, k |-> k, grade |-> run[r].plan[k]]

UnderWay(r) == run[r].at \notin {"idle", "end"}
RunAt(r, at) == run[r].at = at
RunGo(r, at) == run' = [run EXCEPT ![r].at = at]
Logged(r, event) == db' = [db EXCEPT !.events = Append(@, [run |-> r, event |-> event])]
ByRun == UNCHANGED <<backups, restorer, reader, made, history>>
Sound == UNCHANGED faults
Fault == faults < MaxFaults /\ faults' = faults + 1

(* A row that the caller does without when it cannot be stored.            *)
Insert(stored) == (db' = stored /\ Sound) \/ (UNCHANGED db /\ Fault)

(* The request id is reserved.  The request is refused at once, or its     *)
(* first event cannot be stored; or it is admitted, and then a later gate  *)
(* refuses it, or a tool is selected.                                      *)
Begin(r) ==
    /\ RunAt(r, "idle")
    /\ \/ /\ \E plan \in Plans[r] :
               run' = [run EXCEPT ![r].at = IF plan.launched THEN "worker" ELSE "finish",
                                  ![r].launched = plan.launched, ![r].plan = plan.finds,
                                  ![r].failed = ~plan.launched]
          /\ Logged(r, "begun") /\ Sound
       \/ /\ run' = [run EXCEPT ![r].at = "finish", ![r].failed = TRUE]
          /\ UNCHANGED db
          /\ Fault \/ (Sound /\ \E plan \in Plans[r] : ~plan.launched)
    /\ ByRun

(* A worker gets its identity; a row that cannot be stored is done without. *)
RegisterWorker(r) ==
    /\ RunAt(r, "worker")
    /\ Insert([db EXCEPT !.workers = @ \cup {r}])
    /\ RunGo(r, "collect")
    /\ ByRun

(* Mutant: the loop ends one observation early.                            *)
BugCollected(r) == run[r].done >= Len(run[r].plan) - 1

Collected(r) == run[r].done = Len(run[r].plan)

(* Mutant: the finding is stored before the reproduction it rests on.      *)
BugReady(r) == ~Collected(r) /\ run[r].parts >= 1

Ready(r) == ~Collected(r) /\ run[r].parts = Parts(run[r].plan[run[r].done + 1])

PutEvidence(r) ==
    /\ RunAt(r, "collect") /\ ~Collected(r) /\ ~Ready(r)
    /\ db' = [db EXCEPT !.evidence = @ \cup {[run |-> r, k |-> run[r].done + 1, part |-> run[r].parts + 1]}]
    /\ run' = [run EXCEPT ![r].parts = @ + 1]
    /\ Sound /\ ByRun

PutFinding(r) ==
    /\ RunAt(r, "collect") /\ Ready(r)
    /\ db' = [db EXCEPT !.findings = Append(@, Finding(r, run[r].done + 1))]
    /\ run' = [run EXCEPT ![r].parts = 0, ![r].done = @ + 1]
    /\ Sound /\ ByRun

(* The tool, its output or a row is refused: the rest is not collected.    *)
Fail(r) ==
    /\ RunAt(r, "collect")
    /\ run' = [run EXCEPT ![r].at = "finish", ![r].failed = TRUE]
    /\ UNCHANGED db
    /\ Fault /\ ByRun

(* The last event, without which neither ledger nor result is stored.      *)
Finish(r) ==
    /\ RunAt(r, "finish") \/ (RunAt(r, "collect") /\ Collected(r))
    /\ \/ /\ Logged(r, "finished") /\ Sound
          /\ RunGo(r, IF run[r].launched THEN "ledger" ELSE "result")
       \/ UNCHANGED db /\ Fault /\ RunGo(r, "end")
    /\ ByRun

(* A result names what was collected, and nothing if the run failed.       *)
Summary(r) ==
    [run |-> r, launched |-> run[r].launched,
     findings |-> IF run[r].failed THEN {} ELSE {Finding(r, k) : k \in 1..run[r].done}]

(* The chain of an execution, which is done without if it is not stored.   *)
SaveLedger(r) ==
    /\ RunAt(r, "ledger")
    /\ Insert([db EXCEPT !.ledger = @ \cup {r}])
    /\ RunGo(r, "result")
    /\ ByRun

SaveResult(r) ==
    /\ RunAt(r, "result")
    /\ Insert([db EXCEPT !.results = Append(@, Summary(r))])
    /\ RunGo(r, "end")
    /\ ByRun

Crash(r) == UnderWay(r) /\ RunGo(r, "end") /\ UNCHANGED db /\ Fault /\ ByRun

(******************************** the backup *******************************)
(* Mutant: the hash is taken as soon as there is an export.                *)
BugSteps == <<"findings", "events", "results", "workers", "export", "hash", "copy", "copied">>

(* The order in which a backup reads the tables, writes its export, copies *)
(* the database and seals the export.  At its first step it has not begun. *)
Steps == <<"findings", "events", "results", "workers", "export", "copy", "copied", "hash">>

Making(step) == Steps[creator.at] = step
Onward == 1 + (creator.at % Len(Steps))
ByCreator == UNCHANGED <<db, run, restorer, reader, history>>

(* One table after the other; the workers are done without if they cannot  *)
(* be read.                                                                *)
List ==
    /\ \/ Making("findings") /\ made < MaxBackups /\ made' = made + 1
       \/ ~Making("findings") /\ UNCHANGED made
    /\ \E step \in DOMAIN NoRows :
         /\ Making(step)
         /\ LET begun == [creator EXCEPT !.at = Onward, !.gen = IF Making("findings") THEN gen ELSE @] IN
            \/ creator' = [begun EXCEPT !.rows[step] = Rows(db, step)] /\ Sound
            \/ step = "workers" /\ creator' = begun /\ Fault
    /\ UNCHANGED dir
    /\ ByCreator

(* The export replaces the file of an earlier backup in the directory; the *)
(* process may die while it writes.                                        *)
WriteExport ==
    /\ Making("export")
    /\ \/ /\ dir' = [dir EXCEPT !.json = [state |-> "whole", rows |-> creator.rows]]
          /\ creator' = [creator EXCEPT !.at = Onward]
          /\ Sound
       \/ /\ dir' = [dir EXCEPT !.json = [state |-> "partial", rows |-> NoRows]]
          /\ creator' = NoBackup
          /\ Fault
    /\ UNCHANGED made /\ ByCreator

(* The file is copied under no lock: what is committed meanwhile shows in  *)
(* the pages that are read late and not in the others.                     *)
Mixed(early, late) == [t \in DOMAIN NoTables |-> IF t \in Late THEN late[t] ELSE early[t]]
CopyDatabase ==
    /\ \/ /\ Making("copy")
          /\ creator' = [creator EXCEPT !.at = Onward, !.tables = db]
          /\ dir' = [dir EXCEPT !.copy = [state |-> "partial", tables |-> Mixed(db, NoTables), sound |-> FALSE]]
       \/ /\ Making("copied")
          /\ creator' = [creator EXCEPT !.at = Onward, !.tables = NoTables]
          /\ dir' = [dir EXCEPT !.copy = [state |-> IF db = creator.tables THEN "whole" ELSE "partial",
                                          tables |-> Mixed(creator.tables, db),
                                          sound |-> db = creator.tables /\ gen = creator.gen]]
    /\ UNCHANGED made /\ Sound /\ ByCreator

(* Of the export as it is on disk.                                         *)
WriteHash ==
    /\ Making("hash")
    /\ dir' = [dir EXCEPT !.hash = dir.json]
    /\ creator' = [creator EXCEPT !.at = Onward, !.rows = NoRows, !.gen = 0]
    /\ UNCHANGED made /\ Sound /\ ByCreator

CrashBackup ==
    /\ ~Making("findings")
    /\ creator' = NoBackup
    /\ UNCHANGED <<dir, made>> /\ Fault /\ ByCreator

(* The export is there, and is the one the hash is of.  The copy of the    *)
(* database is not looked at.                                              *)
Verified == dir.json.state = "whole" /\ dir.hash = dir.json

(* A restore verifies, then copies over the database of whoever is         *)
(* running; it may die before its last page.                               *)
VerifyBackup ==
    /\ restorer = "idle" /\ gen < MaxRestores /\ Verified
    /\ restorer' = "copying"
    /\ UNCHANGED <<db, run, backups, reader, made, faults, history>>

Restore ==
    /\ restorer = "copying" /\ dir.copy.state # "absent"
    /\ \/ /\ db' = dir.copy.tables /\ Sound
          /\ tainted' = (tainted \/ dir.copy.state # "whole")
       \/ /\ db' = Mixed(dir.copy.tables, db) /\ Fault
          /\ tainted' = TRUE
    /\ gen' = gen + 1
    /\ across' = across \cup {r \in Runs : UnderWay(r)}
    /\ restorer' = "idle"
    /\ UNCHANGED <<run, backups, reader, made>>

(******************************** the readers ******************************)
ReaderAt(at) == reader.at = at
ByReader == UNCHANGED <<db, run, backups, restorer, made, faults, history>>
ResultsOf(r, results) == {s \in ToSet(results) : s.run = r}
Launched(results) == {s \in results : s.launched}
Use(found) == [reader EXCEPT !.at = "evidence", !.names = (CHOOSE s \in found : TRUE).findings]

(* Replay takes an execution id or a request id.  (History: is there       *)
(* anything to find?)                                                      *)
StartReplay(r) ==
    /\ ReaderAt("idle")
    /\ \E at \in {"search", "result"} :
         reader' = [reader EXCEPT !.at = at, !.run = r, !.gen = gen,
                      !.stored = IF at = "result" THEN ResultsOf(r, db.results) # {}
                                 ELSE Launched(ResultsOf(r, db.results)) # {} /\ r \in db.ledger]
    /\ ByReader

(* Mutant: an execution that is not among the recent results is unknown.   *)
BugFallback == "missing"

Fallback == "ledger"
SearchResults ==
    /\ ReaderAt("search")
    /\ LET found == Launched(ResultsOf(reader.run, Newest(db.results, RecentResults))) IN
         reader' = IF found # {} THEN Use(found) ELSE [reader EXCEPT !.at = Fallback]
    /\ ByReader

ReadLedger ==
    /\ ReaderAt("ledger")
    /\ reader' = [reader EXCEPT !.at = IF reader.run \in db.ledger THEN "result" ELSE "missing"]
    /\ ByReader

ReadResult ==
    /\ ReaderAt("result")
    /\ LET found == ResultsOf(reader.run, db.results) IN
         reader' = IF found # {} THEN Use(found) ELSE [reader EXCEPT !.at = "missing"]
    /\ ByReader

(* All evidence of the request, the findings its result names, and its     *)
(* events among the recent ones.                                           *)
ReadRows ==
    /\ \/ /\ ReaderAt("evidence")
          /\ reader' = [reader EXCEPT !.at = "findings", !.evidence = {e \in db.evidence : e.run = reader.run}]
       \/ /\ ReaderAt("findings")
          /\ reader' = [reader EXCEPT !.at = "events", !.findings = reader.names \cap ToSet(db.findings)]
       \/ /\ ReaderAt("events")
          /\ reader' = [reader EXCEPT !.at = "replayed", !.all = Len(db.events) <= RecentEvents,
                          !.events = {e \in ToSet(Newest(db.events, RecentEvents)) : e.run = reader.run}]
    /\ ByReader

(* A report reads the findings, then for each the rows of evidence that it *)
(* cites, and for a confirmed one the reproduction again.                  *)
Cited(f) == IF f.grade = "confirmed" THEN <<1, 2, 2>> ELSE <<1>>
StartReport ==
    /\ ReaderAt("idle")
    /\ LET listed == Newest(db.findings, RecentFindings) IN
         reader' = [reader EXCEPT !.at = "report", !.gen = gen, !.findings = ToSet(listed), !.todo = listed]
    /\ ByReader

CheckCitation ==
    /\ ReaderAt("report")
    /\ IF reader.todo = <<>> THEN reader' = [reader EXCEPT !.at = "reported"]
       ELSE LET f == Head(reader.todo)
                n == reader.cited + 1
            IN  IF [run |-> f.run, k |-> f.k, part |-> Cited(f)[n]] \notin db.evidence
                THEN reader' = [reader EXCEPT !.at = "rejected"]
                ELSE IF n < Len(Cited(f)) THEN reader' = [reader EXCEPT !.cited = n]
                ELSE reader' = [reader EXCEPT !.todo = Tail(@), !.cited = 0]
    /\ ByReader

(* A read fails, for one on a database that stays locked.  A replay says   *)
(* of it what it says of an id that it does not know: the search in the    *)
(* ledger swallows the error, and the command answers every other one      *)
(* alike.  A report ends with the error.                                   *)
ReadFails ==
    /\ \/ /\ reader.at \in {"search", "ledger", "result", "evidence", "findings", "events"}
          /\ reader' = [reader EXCEPT !.at = "missing", !.erred = TRUE]
       \/ ReaderAt("report") /\ reader' = NoReader
    /\ Fault
    /\ UNCHANGED <<db, run, backups, restorer, made, history>>

Forget ==
    /\ reader.at \in {"missing", "replayed", "reported", "rejected"}
    /\ reader' = NoReader
    /\ ByReader

Next ==
    \/ \E r \in Runs :
         \/ Begin(r) \/ RegisterWorker(r) \/ PutEvidence(r) \/ PutFinding(r) \/ Fail(r)
         \/ Finish(r) \/ SaveLedger(r) \/ SaveResult(r) \/ Crash(r)
         \/ StartReplay(r)
    \/ List \/ WriteExport \/ CopyDatabase \/ WriteHash \/ CrashBackup
    \/ VerifyBackup \/ Restore
    \/ SearchResults \/ ReadLedger \/ ReadResult \/ ReadRows
    \/ StartReport \/ CheckCitation \/ ReadFails \/ Forget

Spec == Init /\ [][Next]_vars

(********************************* properties ******************************)
Places == {"idle", "worker", "collect", "finish", "ledger", "result", "end"}
ReaderPlaces == {"idle", "search", "ledger", "result", "evidence", "findings", "events", "report",
                 "missing", "replayed", "reported", "rejected"}
FileStates == {"absent", "partial", "whole"}
EventRows == [run : Runs, event : {"begun", "finished"}]
EvidenceRows == [run : Runs, k : Nat, part : Nat]
FindingRows == [run : Runs, k : Nat, grade : Grades]
ResultRows == [run : Runs, launched : BOOLEAN, findings : SUBSET FindingRows]
Tables == [events : Seq(EventRows), workers : SUBSET Runs, evidence : SUBSET EvidenceRows,
           findings : Seq(FindingRows), ledger : SUBSET Runs, results : Seq(ResultRows)]
Exports == [findings : SUBSET FindingRows, events : SUBSET EventRows, results : SUBSET ResultRows,
            workers : SUBSET Runs]

(* The types of the rows, of the files and of the programs. *)
TypeOK ==
    /\ db \in Tables
    /\ run \in [Runs -> [at : Places, plan : Seq(Grades), done : Nat, parts : Nat,
                         launched : BOOLEAN, failed : BOOLEAN]]
    /\ dir \in [json : [state : FileStates, rows : Exports],
                copy : [state : FileStates, tables : Tables, sound : BOOLEAN],
                hash : [state : FileStates, rows : Exports]]
    /\ creator \in [at : DOMAIN Steps, rows : Exports, tables : Tables, gen : Nat]
    /\ restorer \in {"idle", "copying"}
    /\ reader \in [at : ReaderPlaces, run : Runs \cup {"none"}, stored : BOOLEAN, erred : BOOLEAN,
                   gen : Nat, names : SUBSET FindingRows, evidence : SUBSET EvidenceRows,
                   findings : SUBSET FindingRows, events : SUBSET EventRows, all : BOOLEAN,
                   todo : Seq(FindingRows), cited : Nat]
    /\ made \in Nat /\ faults \in Nat /\ gen \in Nat /\ across \subseteq Runs /\ tainted \in BOOLEAN

Undisturbed == reader.gen = gen

(* A backup that verifies has a copy of the database beside it, although   *)
(* nothing checks the copy; and if no one wrote while the file was copied, *)
(* and nothing was restored since the backup began, then every row of the  *)
(* export is in the copy: in whatever order engines, crashes and repeated  *)
(* backups into the same directory come.                                   *)
BackupHoldsExport ==
    Verified =>
        /\ dir.copy.state # "absent"
        /\ dir.copy.sound =>
             \A t \in DOMAIN NoRows : dir.json.rows[t] \subseteq Rows(dir.copy.tables, t)

(* What was stored when a replay began, a request's result, or the result  *)
(* and the chain of an execution, is found, however many results are newer *)
(* and whatever engines store meanwhile.  A replay that says otherwise had *)
(* its database replaced, or a read of it failed: the replay swallows that *)
(* error, and what it then says of the id is not to be relied on.          *)
ReplayFinds == ReaderAt("missing") /\ reader.stored /\ ~reader.erred => ~Undisturbed

(* A replay of a run that completed shows every observation, with all its  *)
(* evidence, and if the log is not longer than what a replay reads, it     *)
(* shows of every run the last event and of one that launched its tool the *)
(* first one, even from a database restored from a copy made while the     *)
(* engine was running.  It is not so for a run that was under way at a     *)
(* restore, or from a database that is only part of a copy.                *)
ReplayIsWhole ==
    ReaderAt("replayed") /\ Undisturbed /\ ~tainted /\ reader.run \notin across =>
        LET r == reader.run IN
        /\ ~run[r].failed =>
             /\ reader.findings = {Finding(r, k) : k \in DOMAIN run[r].plan}
             /\ reader.evidence = UNION {Evidence(r, k) : k \in DOMAIN run[r].plan}
        /\ reader.all =>
             LET shown == {e.event : e \in reader.events} IN
             "finished" \in shown /\ (run[r].launched => "begun" \in shown)

(* A report is never refused because an engine is in the middle of storing *)
(* what it found: a missing row means a restore during the report or from  *)
(* part of a copy, or a finding of a run that a restore was made under.    *)
ReportsAreSound ==
    ReaderAt("rejected") /\ Undisturbed => tainted \/ \E f \in reader.findings : f.run \in across

=============================================================================
