--------------------------- MODULE Records_proofs ---------------------------
(* Proofs about Records, for any runs, plans, limits and numbers of        *)
(* backups, restores and faults.                                           *)
EXTENDS Records, SequenceTheorems, TLAPS

RunType == [at : Places, plan : Seq(Grades), done : Nat, parts : Nat,
            launched : BOOLEAN, failed : BOOLEAN]
CopyType == [state : FileStates, tables : Tables, sound : BOOLEAN]
FileType == [state : FileStates, rows : Exports]
CreatorType == [at : DOMAIN Steps, rows : Exports, tables : Tables, gen : Nat]
ReaderType == [at : ReaderPlaces, run : Runs \cup {"none"}, stored : BOOLEAN, erred : BOOLEAN,
               gen : Nat, names : SUBSET FindingRows, evidence : SUBSET EvidenceRows,
               findings : SUBSET FindingRows, events : SUBSET EventRows, all : BOOLEAN,
               todo : Seq(FindingRows), cited : Nat]

LEMMA TypedParts ==
    ASSUME TypeOK
    PROVE  /\ db \in Tables /\ run \in [Runs -> RunType] /\ creator \in CreatorType
           /\ dir \in [json : FileType, copy : CopyType, hash : FileType]
           /\ reader \in ReaderType /\ gen \in Nat /\ across \subseteq Runs /\ tainted \in BOOLEAN
BY DEF TypeOK, RunType, CopyType, FileType, CreatorType, ReaderType

-----------------------------------------------------------------------------
(* Rows and tables. *)
LEMMA PartsType == ASSUME NEW g  PROVE Parts(g) \in {1, 2}
BY DEF Parts

LEMMA Exported == DOMAIN NoRows = {"events", "workers", "findings", "results"}
BY DEF NoRows

LEMMA RowsAre ==
    ASSUME NEW T
    PROVE  /\ Rows(T, "events") = ToSet(T.events) /\ Rows(T, "workers") = T.workers
           /\ Rows(T, "findings") = ToSet(T.findings) /\ Rows(T, "results") = ToSet(T.results)
BY DEF Rows

LEMMA RowsTyped ==
    ASSUME NEW S, NEW s \in Seq(S)
    PROVE  ToSet(s) \in SUBSET S
BY DEF ToSet

LEMMA Appended ==
    ASSUME NEW S, NEW s \in Seq(S), NEW x \in S
    PROVE  Append(s, x) \in Seq(S) /\ ToSet(Append(s, x)) = ToSet(s) \cup {x}
<1>1. /\ Append(s, x) \in Seq(S) /\ DOMAIN Append(s, x) = 1..(Len(s) + 1)
      /\ \A i \in 1..Len(s) : Append(s, x)[i] = s[i]
      /\ Append(s, x)[Len(s) + 1] = x /\ Len(s) \in Nat /\ DOMAIN s = 1..Len(s)
    OBVIOUS
<1>2. \A i \in 1..(Len(s) + 1) : i \in 1..Len(s) \/ i = Len(s) + 1
    BY <1>1
<1> QED  BY <1>1, <1>2 DEF ToSet

(* The newest rows are rows, and all of them if there are no more. *)
LEMMA NewestRows ==
    ASSUME NEW S, NEW s \in Seq(S), NEW n \in Nat
    PROVE  /\ Newest(s, n) \in Seq(S) /\ ToSet(Newest(s, n)) \subseteq ToSet(s)
           /\ Len(s) <= n => Newest(s, n) = s
<1> DEFINE m == 1 + Len(s) - (IF Len(s) < n THEN Len(s) ELSE n)
<1>1. m \in 1..(Len(s) + 1) /\ Len(s) \in Nat /\ (Len(s) <= n => m = 1)
  <2>1. Len(s) \in Nat
      OBVIOUS
  <2>2. \A l \in Nat : LET k == 1 + l - (IF l < n THEN l ELSE n) IN k \in 1..(l + 1) /\ (l <= n => k = 1)
      OBVIOUS
  <2> QED  BY <2>1, <2>2
<1>2. Newest(s, n) = SubSeq(s, m, Len(s))
    BY DEF Newest
<1> HIDE DEF m
<1>3. /\ SubSeq(s, m, Len(s)) \in Seq(S)
      /\ \A i \in DOMAIN SubSeq(s, m, Len(s)) :
            SubSeq(s, m, Len(s))[i] = s[m + i - 1] /\ m + i - 1 \in DOMAIN s
  <2>1. \A i \in m..Len(s) : s[i] \in S
      BY <1>1
  <2>2. /\ SubSeq(s, m, Len(s)) \in Seq(S) /\ DOMAIN SubSeq(s, m, Len(s)) = 1..(Len(s) - m + 1)
        /\ \A i \in 1..(Len(s) - m + 1) : SubSeq(s, m, Len(s))[i] = s[m + i - 1]
      BY <1>1, <2>1, SubSeqProperties
  <2> QED  BY <1>1, <2>2
<1>4. m = 1 => SubSeq(s, m, Len(s)) = s
    BY SubSeqFull
<1> QED  BY <1>1, <1>2, <1>3, <1>4 DEF ToSet

(* A copy that was made while somebody wrote, table by table. *)
LEMMA MixedTables ==
    ASSUME NEW T \in Tables, NEW U \in Tables
    PROVE  /\ Mixed(T, U) \in Tables /\ Mixed(T, T) = T
           /\ \A t \in DOMAIN NoTables : Mixed(T, U)[t] = T[t] \/ Mixed(T, U)[t] = U[t]
<1>1. DOMAIN NoTables = {"events", "workers", "evidence", "findings", "ledger", "results"}
    BY DEF NoTables
<1>2. \A t \in DOMAIN NoTables : Mixed(T, U)[t] = T[t] \/ Mixed(T, U)[t] = U[t]
    BY DEF Mixed
<1>3. DOMAIN Mixed(T, U) = DOMAIN NoTables
    BY DEF Mixed
<1>4. Mixed(T, U) \in Tables
  <2> DEFINE M == Mixed(T, U)
  <2>1. M = [events |-> M.events, workers |-> M.workers, evidence |-> M.evidence,
             findings |-> M.findings, ledger |-> M.ledger, results |-> M.results]
      BY <1>1 DEF Mixed
  <2>2. /\ M.events \in Seq(EventRows) /\ M.workers \in SUBSET Runs
        /\ M.evidence \in SUBSET EvidenceRows /\ M.findings \in Seq(FindingRows)
        /\ M.ledger \in SUBSET Runs /\ M.results \in Seq(ResultRows)
      BY <1>1, <1>2 DEF Tables
  <2> HIDE DEF M
  <2> QED  BY <2>1, <2>2 DEF Tables, M
<1>5. Mixed(T, T) = T
    BY <1>1 DEF Mixed, Tables
<1> QED  BY <1>2, <1>4, <1>5

(* The content of a table. *)
Content(T, t) == IF t \in {"workers", "evidence", "ledger"} THEN T[t] ELSE ToSet(T[t])
LEMMA ContentIs ==
    ASSUME NEW T
    PROVE  /\ Content(T, "events") = ToSet(T.events) /\ Content(T, "workers") = T.workers
           /\ Content(T, "evidence") = T.evidence /\ Content(T, "findings") = ToSet(T.findings)
           /\ Content(T, "ledger") = T.ledger /\ Content(T, "results") = ToSet(T.results)
           /\ \A t \in DOMAIN NoRows : Content(T, t) = Rows(T, t)
           /\ DOMAIN NoTables = {"events", "workers", "evidence", "findings", "ledger", "results"}
           /\ DOMAIN NoRows \subseteq DOMAIN NoTables
<1>1. DOMAIN NoTables = {"events", "workers", "evidence", "findings", "ledger", "results"}
    BY DEF NoTables
<1> QED  BY <1>1, Exported DEF Content, Rows

-----------------------------------------------------------------------------
(* What runs have stored.  A row in a table, in a copy of it, in an export *)
(* or in a list was written by its run, as far as that run has come.       *)
Observed(p, r, k) == [run |-> r, k |-> k, grade |-> p.plan[k]]
Told(p, r) == [run |-> r, launched |-> p.launched,
               findings |-> IF p.failed THEN {} ELSE {Observed(p, r, k) : k \in 1..p.done}]
Written(R, t, x) ==
    /\ t = "workers" => x \in Runs /\ R[x].at \notin {"idle", "worker"}
    /\ t \in {"events", "evidence", "findings", "results"} => x.run \in Runs
    /\ t = "events" =>
         /\ R[x.run].at # "idle"
         /\ x.event = "finished" => R[x.run].at \in {"ledger", "result", "end"}
    /\ t = "evidence" =>
         \/ x.k \in 1..R[x.run].done /\ x.part \in 1..Parts(R[x.run].plan[x.k])
         \/ x.k = R[x.run].done + 1 /\ x.part \in 1..R[x.run].parts
    /\ t = "findings" => x.k \in 1..R[x.run].done /\ x.grade = R[x.run].plan[x.k]
    /\ t = "results" =>
         /\ R[x.run].at = "end" /\ x = Told(R[x.run], x.run)
         /\ ~R[x.run].failed => R[x.run].done = Len(R[x.run].plan)
WrittenTables(R, T) == \A t \in DOMAIN NoTables : \A x \in Content(T, t) : Written(R, t, x)
WrittenRows(R, rows) == \A t \in DOMAIN NoRows : \A x \in rows[t] : Written(R, t, x)

(* The counters of a run. *)
RunOK(p) ==
    /\ p.at \in {"idle", "worker"} => p.done = 0 /\ p.parts = 0
    /\ p.at = "idle" => ~p.launched
    /\ p.done <= Len(p.plan)
    /\ p.done = Len(p.plan) => p.parts = 0
    /\ p.done < Len(p.plan) => p.parts <= Parts(p.plan[p.done + 1])
    /\ p.at = "finish" => p.failed
    /\ p.at \in {"ledger", "result"} /\ ~p.failed => p.done = Len(p.plan)
RunsOK == \A r \in Runs : RunOK(run[r])

(* A step of a run moves it on and stores at most one row, which nobody    *)
(* has stored before.                                                      *)
Later(p, q) ==
    /\ p.at # "end" /\ q.at # "idle"
    /\ p.at \in {"ledger", "result"} => q.at \in {"ledger", "result", "end"}
    /\ p.at \notin {"idle", "worker"} => q.at # "worker"
    /\ p.at # "idle" => q.plan = p.plan /\ q.launched = p.launched
    /\ \/ q.done = p.done /\ p.parts <= q.parts
       \/ q.done = p.done + 1 /\ p.at = "collect" /\ p.parts = Parts(p.plan[p.done + 1])
Effect(r, t, x) ==
    /\ db' \in Tables /\ run' \in [Runs -> RunType]
    /\ \A o \in Runs \ {r} : run'[o] = run[o]
    /\ Later(run[r], run'[r]) /\ RunOK(run'[r])
    /\ \A u \in DOMAIN NoTables : Content(db', u) = Content(db, u) \cup (IF u = t THEN {x} ELSE {})
    /\ t \in DOMAIN NoTables => Written(run', t, x)
    /\ t \in DOMAIN NoRows => ~Written(run, t, x)
    /\ t = "results" => run[r].at = "result"
    /\ UNCHANGED <<dir, creator, restorer, reader, gen, across, tainted>>

(* The steps, one by one.  First what they do to the tables. *)
LEMMA NewRow ==
    ASSUME NEW T \in Tables, NEW U, NEW t \in DOMAIN NoTables, NEW x,
           \/ t = "events" /\ x \in EventRows /\ U = [T EXCEPT !.events = Append(T.events, x)]
           \/ t = "workers" /\ x \in Runs /\ U = [T EXCEPT !.workers = T.workers \cup {x}]
           \/ t = "evidence" /\ x \in EvidenceRows /\ U = [T EXCEPT !.evidence = T.evidence \cup {x}]
           \/ t = "findings" /\ x \in FindingRows /\ U = [T EXCEPT !.findings = Append(T.findings, x)]
           \/ t = "ledger" /\ x \in Runs /\ U = [T EXCEPT !.ledger = T.ledger \cup {x}]
           \/ t = "results" /\ x \in ResultRows /\ U = [T EXCEPT !.results = Append(T.results, x)]
    PROVE  /\ U \in Tables
           /\ \A u \in DOMAIN NoTables : Content(U, u) = Content(T, u) \cup (IF u = t THEN {x} ELSE {})
<1>5. DOMAIN NoTables = {"events", "workers", "evidence", "findings", "ledger", "results"}
    BY ContentIs
<1>6. /\ Content(T, "events") = ToSet(T.events) /\ Content(T, "workers") = T.workers
      /\ Content(T, "evidence") = T.evidence /\ Content(T, "findings") = ToSet(T.findings)
      /\ Content(T, "ledger") = T.ledger /\ Content(T, "results") = ToSet(T.results)
    BY ContentIs
<1>7. /\ Content(U, "events") = ToSet(U.events) /\ Content(U, "workers") = U.workers
      /\ Content(U, "evidence") = U.evidence /\ Content(U, "findings") = ToSet(U.findings)
      /\ Content(U, "ledger") = U.ledger /\ Content(U, "results") = ToSet(U.results)
    BY ContentIs
<1>1. CASE t = "events"
  <2>1. /\ Append(T.events, x) \in Seq(EventRows)
        /\ ToSet(Append(T.events, x)) = ToSet(T.events) \cup {x}
      BY <1>1, Appended DEF Tables
  <2>2. /\ U \in Tables /\ U.events = Append(T.events, x) /\ U.workers = T.workers /\ U.evidence = T.evidence
        /\ U.findings = T.findings /\ U.ledger = T.ledger /\ U.results = T.results
      BY <1>1, <2>1 DEF Tables
  <2> QED  BY <1>1, <2>1, <2>2, <1>5, <1>6, <1>7
<1>2. CASE t = "findings"
  <2>1. /\ Append(T.findings, x) \in Seq(FindingRows)
        /\ ToSet(Append(T.findings, x)) = ToSet(T.findings) \cup {x}
      BY <1>2, Appended DEF Tables
  <2>2. /\ U \in Tables /\ U.findings = Append(T.findings, x) /\ U.events = T.events /\ U.workers = T.workers
        /\ U.evidence = T.evidence /\ U.ledger = T.ledger /\ U.results = T.results
      BY <1>2, <2>1 DEF Tables
  <2> QED  BY <1>2, <2>1, <2>2, <1>5, <1>6, <1>7
<1>3. CASE t = "results"
  <2>1. /\ Append(T.results, x) \in Seq(ResultRows)
        /\ ToSet(Append(T.results, x)) = ToSet(T.results) \cup {x}
      BY <1>3, Appended DEF Tables
  <2>2. /\ U \in Tables /\ U.results = Append(T.results, x) /\ U.events = T.events /\ U.workers = T.workers
        /\ U.evidence = T.evidence /\ U.findings = T.findings /\ U.ledger = T.ledger
      BY <1>3, <2>1 DEF Tables
  <2> QED  BY <1>3, <2>1, <2>2, <1>5, <1>6, <1>7
<1>4. CASE t \in {"workers", "evidence", "ledger"}
    BY <1>4, ContentIs DEF Tables
<1> QED  BY <1>1, <1>2, <1>3, <1>4, ContentIs

LEMMA NewFinding ==
    ASSUME NEW T \in Tables, NEW x \in FindingRows
    PROVE  LET U == [T EXCEPT !.findings = Append(T.findings, x)] IN
           /\ U \in Tables
           /\ \A u \in DOMAIN NoTables : Content(U, u) = Content(T, u) \cup (IF u = "findings" THEN {x} ELSE {})
<1> DEFINE U == [T EXCEPT !.findings = Append(T.findings, x)]
<1>1. "findings" \in DOMAIN NoTables /\ U = [T EXCEPT !.findings = Append(T.findings, x)]
    BY ContentIs
<1> HIDE DEF U
<1>2. /\ U \in Tables
      /\ \A u \in DOMAIN NoTables : Content(U, u) = Content(T, u) \cup (IF u = "findings" THEN {x} ELSE {})
    BY <1>1, NewRow
<1> QED  BY <1>2 DEF U

LEMMA NewResult ==
    ASSUME NEW T \in Tables, NEW x \in ResultRows
    PROVE  LET U == [T EXCEPT !.results = Append(T.results, x)] IN
           /\ U \in Tables
           /\ \A u \in DOMAIN NoTables : Content(U, u) = Content(T, u) \cup (IF u = "results" THEN {x} ELSE {})
<1> DEFINE U == [T EXCEPT !.results = Append(T.results, x)]
<1>1. /\ Append(T.results, x) \in Seq(ResultRows)
      /\ ToSet(Append(T.results, x)) = ToSet(T.results) \cup {x}
    BY Appended DEF Tables
<1>2. /\ U \in Tables /\ U.results = Append(T.results, x) /\ U.events = T.events /\ U.workers = T.workers
      /\ U.evidence = T.evidence /\ U.findings = T.findings /\ U.ledger = T.ledger
    BY <1>1 DEF Tables
<1> HIDE DEF U
<1>3. \A u \in DOMAIN NoTables : Content(U, u) = Content(T, u) \cup (IF u = "results" THEN {x} ELSE {})
  <2>1. DOMAIN NoTables = {"events", "workers", "evidence", "findings", "ledger", "results"}
      BY ContentIs
  <2>2. /\ Content(T, "events") = ToSet(T.events) /\ Content(T, "workers") = T.workers
        /\ Content(T, "evidence") = T.evidence /\ Content(T, "findings") = ToSet(T.findings)
        /\ Content(T, "ledger") = T.ledger /\ Content(T, "results") = ToSet(T.results)
      BY ContentIs
  <2>3. /\ Content(U, "events") = ToSet(U.events) /\ Content(U, "workers") = U.workers
        /\ Content(U, "evidence") = U.evidence /\ Content(U, "findings") = ToSet(U.findings)
        /\ Content(U, "ledger") = U.ledger /\ Content(U, "results") = ToSet(U.results)
      BY ContentIs
  <2> QED  BY <1>1, <1>2, <2>1, <2>2, <2>3
<1> QED  BY <1>2, <1>3 DEF U

(* Then what they do to the run. *)
Others(r) == \A o \in Runs \ {r} : run'[o] = run[o]
Counts(p, q) == q.plan = p.plan /\ q.done = p.done /\ q.parts = p.parts /\ q.launched = p.launched
LEMMA GoesTo ==
    ASSUME TypeOK, NEW r \in Runs, NEW at \in Places, RunGo(r, at)
    PROVE  /\ run' \in [Runs -> RunType] /\ Others(r)
           /\ run'[r].at = at /\ Counts(run[r], run'[r])
           /\ run'[r].launched = run[r].launched /\ run'[r].failed = run[r].failed
BY TypedParts DEF RunGo, Others, Counts, RunType

LEMMA Begins ==
    ASSUME TypeOK, NEW r \in Runs, Begin(r)
    PROVE  /\ run' \in [Runs -> RunType] /\ Others(r) /\ run[r].at = "idle"
           /\ run'[r].at \in {"worker", "finish"} /\ (run'[r].at = "finish" => run'[r].failed)
           /\ run'[r].done = run[r].done /\ run'[r].parts = run[r].parts
           /\ \/ Logged(r, "begun")
              \/ UNCHANGED db /\ run'[r].launched = run[r].launched
<1>1. run[r].at = "idle" /\ run \in [Runs -> RunType] /\ run[r] \in RunType
    BY TypedParts DEF Begin, RunAt
<1>2. CASE \E plan \in Plans[r] :
              /\ run' = [run EXCEPT ![r].at = IF plan.launched THEN "worker" ELSE "finish",
                                    ![r].launched = plan.launched, ![r].plan = plan.finds,
                                    ![r].failed = ~plan.launched]
              /\ Logged(r, "begun")
  <2>1. PICK plan \in Plans[r] :
          /\ run' = [run EXCEPT ![r].at = IF plan.launched THEN "worker" ELSE "finish",
                                ![r].launched = plan.launched, ![r].plan = plan.finds,
                                ![r].failed = ~plan.launched]
          /\ Logged(r, "begun")
      BY <1>2
  <2>2. plan.launched \in BOOLEAN /\ plan.finds \in Seq(Grades)
      BY RecordsAssumption
  <2> DEFINE q == [run[r] EXCEPT !.at = IF plan.launched THEN "worker" ELSE "finish",
                                 !.launched = plan.launched, !.plan = plan.finds,
                                 !.failed = ~plan.launched]
  <2>3. run' = [run EXCEPT ![r] = q]
      BY <1>1, <2>1 DEF RunType
  <2>4. /\ q \in RunType /\ q.at \in {"worker", "finish"} /\ (q.at = "finish" => q.failed)
        /\ q.done = run[r].done /\ q.parts = run[r].parts
      BY <1>1, <2>2 DEF RunType, Places
  <2> HIDE DEF q
  <2>5. Logged(r, "begun")
      BY <2>1
  <2>6. run' \in [Runs -> RunType] /\ Others(r) /\ run'[r] = q
      BY <1>1, <2>3, <2>4 DEF Others
  <2> QED  BY <1>1, <2>4, <2>5, <2>6
<1>3. CASE run' = [run EXCEPT ![r].at = "finish", ![r].failed = TRUE] /\ UNCHANGED db
  <2> DEFINE q == [run[r] EXCEPT !.at = "finish", !.failed = TRUE]
  <2>1. run' = [run EXCEPT ![r] = q]
      BY <1>1, <1>3 DEF RunType
  <2>2. /\ q \in RunType /\ q.at = "finish" /\ q.failed /\ q.launched = run[r].launched
        /\ q.done = run[r].done /\ q.parts = run[r].parts
      BY <1>1 DEF RunType, Places
  <2> HIDE DEF q
  <2> QED  BY <1>1, <1>3, <2>1, <2>2 DEF Others
<1> QED  BY <1>2, <1>3 DEF Begin

LEMMA Counted ==
    ASSUME TypeOK, NEW r \in Runs
    PROVE  /\ PutEvidence(r) =>
                /\ run' \in [Runs -> RunType] /\ Others(r) /\ run'[r].at = run[r].at
                /\ run'[r].plan = run[r].plan /\ run'[r].done = run[r].done
                /\ run'[r].launched = run[r].launched
                /\ run'[r].parts = run[r].parts + 1 /\ run'[r].failed = run[r].failed
           /\ PutFinding(r) =>
                /\ run' \in [Runs -> RunType] /\ Others(r) /\ run'[r].at = run[r].at
                /\ run'[r].plan = run[r].plan /\ run'[r].done = run[r].done + 1
                /\ run'[r].launched = run[r].launched
                /\ run'[r].parts = 0 /\ run'[r].failed = run[r].failed
           /\ Fail(r) =>
                /\ run' \in [Runs -> RunType] /\ Others(r) /\ run'[r].at = "finish"
                /\ Counts(run[r], run'[r]) /\ run'[r].failed
<1>1. run[r].parts + 1 \in Nat /\ run[r].done + 1 \in Nat /\ run[r] \in RunType
      /\ run \in [Runs -> RunType]
    BY TypedParts DEF RunType
<1>2. ASSUME PutEvidence(r)
      PROVE  /\ run' \in [Runs -> RunType] /\ Others(r) /\ run'[r].at = run[r].at
             /\ run'[r].plan = run[r].plan /\ run'[r].done = run[r].done
             /\ run'[r].launched = run[r].launched
             /\ run'[r].parts = run[r].parts + 1 /\ run'[r].failed = run[r].failed
  <2>1. run' = [run EXCEPT ![r].parts = run[r].parts + 1]
      BY <1>2 DEF PutEvidence
  <2> QED  BY <2>1, <1>1 DEF Others, RunType
<1>3. ASSUME PutFinding(r)
      PROVE  /\ run' \in [Runs -> RunType] /\ Others(r) /\ run'[r].at = run[r].at
             /\ run'[r].plan = run[r].plan /\ run'[r].done = run[r].done + 1
             /\ run'[r].launched = run[r].launched
             /\ run'[r].parts = 0 /\ run'[r].failed = run[r].failed
  <2>1. run' = [run EXCEPT ![r].parts = 0, ![r].done = run[r].done + 1]
      BY <1>3, <1>1 DEF PutFinding
  <2> QED  BY <2>1, <1>1 DEF Others, RunType
<1>4. ASSUME Fail(r)
      PROVE  /\ run' \in [Runs -> RunType] /\ Others(r) /\ run'[r].at = "finish"
             /\ Counts(run[r], run'[r]) /\ run'[r].failed
  <2>1. run' = [run EXCEPT ![r].at = "finish", ![r].failed = TRUE]
      BY <1>4 DEF Fail
  <2> QED  BY <2>1, <1>1 DEF Others, Counts, RunType, Places
<1> QED  BY <1>2, <1>3, <1>4

(* What the tables hold of a run that no restore has disturbed. *)
HasEvidence(T, r, k, n) == \A i \in 1..n : [run |-> r, k |-> k, part |-> i] \in Content(T, "evidence")
HasEvent(T, r, event) == [run |-> r, event |-> event] \in Content(T, "events")
HasBegun(T, p, r) == p.launched => HasEvent(T, r, "begun")
HasAll(T, p, r) ==
    \A k \in 1..p.done : /\ HasEvidence(T, r, k, Parts(p.plan[k]))
                          /\ Observed(p, r, k) \in Content(T, "findings")
Current(T, p, r) ==
    /\ HasBegun(T, p, r) /\ HasAll(T, p, r)
    /\ HasEvidence(T, r, p.done + 1, p.parts)
    /\ p.at \in {"ledger", "result"} => HasEvent(T, r, "finished")
Going(p) == p.at \notin {"idle", "end"}
Keeps(r) == (Going(run[r]) => Current(db, run[r], r)) => (Going(run'[r]) => Current(db', run'[r], r))
Grown(T, U) == \A u \in DOMAIN NoTables : Content(T, u) \subseteq Content(U, u)

LEMMA CurrentStays ==
    ASSUME NEW T, NEW U, Grown(T, U), NEW p, NEW q, NEW r, Counts(p, q), Current(T, p, r),
           q.at \in {"ledger", "result"} => p.at \in {"ledger", "result"} \/ HasEvent(U, r, "finished")
    PROVE  Current(U, q, r)
<1>1. /\ Content(T, "events") \subseteq Content(U, "events")
      /\ Content(T, "evidence") \subseteq Content(U, "evidence")
      /\ Content(T, "findings") \subseteq Content(U, "findings")
    BY ContentIs DEF Grown
<1>2. HasBegun(U, q, r) /\ HasEvidence(U, r, q.done + 1, q.parts)
    BY <1>1 DEF Current, Counts, HasBegun, HasEvent, HasEvidence
<1>3. HasAll(U, q, r)
    BY <1>1 DEF Current, Counts, HasAll, HasEvidence, Observed
<1>4. q.at \in {"ledger", "result"} => HasEvent(U, r, "finished")
    BY <1>1 DEF Current, HasEvent
<1> QED  BY <1>2, <1>3, <1>4 DEF Current

LEMMA Unstored ==
    ASSUME TypeOK, UNCHANGED db
    PROVE  \A u \in DOMAIN NoTables : Content(db', u) = Content(db, u) \cup (IF u = "none" THEN {"none"} ELSE {})
BY ContentIs

LEMMA EffectGrows == ASSUME NEW r, NEW t, NEW x, Effect(r, t, x)  PROVE Grown(db, db')
BY DEF Effect, Grown

LEMMA BeginEffect ==
    ASSUME TypeOK, RunsOK, NEW r \in Runs, Begin(r)
    PROVE  (\E t, x : Effect(r, t, x)) /\ Keeps(r)
<1>1. /\ run' \in [Runs -> RunType] /\ Others(r) /\ run[r].at = "idle"
      /\ run'[r].at \in {"worker", "finish"} /\ (run'[r].at = "finish" => run'[r].failed)
      /\ run'[r].done = run[r].done /\ run'[r].parts = run[r].parts
    BY Begins
<1>2. /\ run[r].done = 0 /\ run[r].parts = 0 /\ ~run[r].launched
      /\ run'[r] \in RunType /\ run[r] \in RunType
    BY <1>1, TypedParts DEF RunsOK, RunOK
<1>3. Later(run[r], run'[r]) /\ RunOK(run'[r])
  <2>1. Later(run[r], run'[r])
      BY <1>1, <1>2 DEF Later
  <2>2. Len(run'[r].plan) \in Nat /\ Parts(run'[r].plan[1]) \in {1, 2}
      BY <1>2, PartsType DEF RunType
  <2>3. RunOK(run'[r])
      BY <1>1, <1>2, <2>2 DEF RunOK
  <2> QED  BY <2>1, <2>3
<1>4. ASSUME HasBegun(db', run'[r], r)  PROVE Keeps(r)
  <2>1. Current(db', run'[r], r)
      BY <1>1, <1>2, <1>4 DEF Current, HasAll, HasEvidence
  <2> QED  BY <2>1 DEF Keeps
<1>5. CASE Logged(r, "begun")
  <2> DEFINE x == [run |-> r, event |-> "begun"]
  <2>1. db' = [db EXCEPT !.events = Append(db.events, x)] /\ x \in EventRows
      BY <1>5 DEF Logged, EventRows
  <2> HIDE DEF x
  <2>2. "events" \in DOMAIN NoTables /\ db \in Tables
      BY ContentIs, TypedParts
  <2>3. /\ db' \in Tables
        /\ \A u \in DOMAIN NoTables :
              Content(db', u) = Content(db, u) \cup (IF u = "events" THEN {x} ELSE {})
      BY <2>1, <2>2, NewRow
  <2>4. Written(run', "events", x) /\ ~Written(run, "events", x)
      BY <1>1 DEF Written, x
  <2>5. Effect(r, "events", x)
      BY <1>1, <1>3, <2>3, <2>4 DEF Effect, Others, Begin, ByRun, history, backups
  <2>6. HasBegun(db', run'[r], r)
      BY <2>2, <2>3 DEF HasBegun, HasEvent, x
  <2> QED  BY <1>4, <2>5, <2>6
<1>6. CASE UNCHANGED db /\ run'[r].launched = run[r].launched
  <2>1. db' \in Tables /\ "none" \notin DOMAIN NoTables /\ "none" \notin DOMAIN NoRows
      BY <1>6, TypedParts, ContentIs
  <2>2. Effect(r, "none", "none")
      BY <1>1, <1>3, <1>6, <2>1, Unstored DEF Effect, Others, Begin, ByRun, history, backups
  <2>3. HasBegun(db', run'[r], r)
      BY <1>2, <1>6 DEF HasBegun
  <2> QED  BY <1>4, <2>2, <2>3
<1> QED  BY <1>5, <1>6, Begins

(* A step that changes only the place of the run, and may store a row. *)
LEMMA GoEffect ==
    ASSUME TypeOK, RunsOK, NEW r \in Runs, NEW at \in Places \ {"idle", "worker"}, RunGo(r, at), ByRun,
           Going(run[r]), run[r].at \in {"ledger", "result"} => at \in {"ledger", "result", "end"},
           run[r].at = "worker" => at \in {"collect", "end"}, at = "finish" => run[r].failed,
           at \in {"ledger", "result"} =>
             \/ run[r].failed \/ run[r].done = Len(run[r].plan),
           NEW t, NEW x, db' \in Tables,
           \A u \in DOMAIN NoTables : Content(db', u) = Content(db, u) \cup (IF u = t THEN {x} ELSE {}),
           t \in DOMAIN NoTables => Written(run', t, x),
           t \in DOMAIN NoRows => ~Written(run, t, x),
           t = "results" => run[r].at = "result",
           at \in {"ledger", "result"} =>
             run[r].at \in {"ledger", "result"} \/ HasEvent(db', r, "finished")
    PROVE  (\E u, y : Effect(r, u, y)) /\ Keeps(r)
<1>1. /\ run' \in [Runs -> RunType] /\ Others(r) /\ run'[r].at = at /\ Counts(run[r], run'[r])
      /\ run'[r].failed = run[r].failed /\ run[r] \in RunType
    BY GoesTo, TypedParts
<1>2. Later(run[r], run'[r])
    BY <1>1 DEF Later, Counts, Going, RunType
<1>3. RunOK(run'[r])
    BY <1>1 DEF RunsOK, RunOK, Counts
<1>4. Effect(r, t, x)
    BY <1>1, <1>2, <1>3 DEF Effect, Others, ByRun, history, backups
<1>5. Keeps(r)
    BY <1>1, <1>4, EffectGrows, CurrentStays DEF Keeps
<1> QED  BY <1>4, <1>5

LEMMA RegisterEffect ==
    ASSUME TypeOK, RunsOK, NEW r \in Runs, RegisterWorker(r)
    PROVE  (\E t, x : Effect(r, t, x)) /\ Keeps(r)
<1>1. run[r].at = "worker" /\ RunGo(r, "collect") /\ ByRun /\ "collect" \in Places \ {"idle", "worker"}
    BY DEF RegisterWorker, RunAt, Places
<1>2. /\ run' \in [Runs -> RunType] /\ Others(r) /\ run'[r].at = "collect" /\ Counts(run[r], run'[r])
      /\ run'[r].failed = run[r].failed /\ run[r] \in RunType
    BY <1>1, GoesTo, TypedParts
<1>3. CASE db' = [db EXCEPT !.workers = db.workers \cup {r}]
  <2>1. "workers" \in DOMAIN NoTables /\ db \in Tables
      BY ContentIs, TypedParts
  <2>2. /\ db' \in Tables
        /\ \A u \in DOMAIN NoTables :
              Content(db', u) = Content(db, u) \cup (IF u = "workers" THEN {r} ELSE {})
      BY <1>3, <2>1, NewRow
  <2>3. Written(run', "workers", r) /\ ~Written(run, "workers", r)
      BY <1>1, <1>2 DEF Written
  <2> QED  BY <1>1, <2>2, <2>3, GoEffect DEF Going
<1>4. CASE UNCHANGED db
  <2>1. db' \in Tables /\ "none" \notin DOMAIN NoTables /\ "none" \notin DOMAIN NoRows
      BY <1>4, TypedParts, ContentIs
  <2> QED  BY <1>1, <1>4, <2>1, Unstored, GoEffect DEF Going
<1> QED  BY <1>3, <1>4 DEF RegisterWorker, Insert

LEMMA EvidenceEffect ==
    ASSUME TypeOK, RunsOK, NEW r \in Runs, PutEvidence(r)
    PROVE  (\E t, x : Effect(r, t, x)) /\ Keeps(r)
<1> DEFINE x == [run |-> r, k |-> run[r].done + 1, part |-> run[r].parts + 1]
<1>1. /\ run' \in [Runs -> RunType] /\ Others(r) /\ run'[r].at = run[r].at
      /\ run'[r].plan = run[r].plan /\ run'[r].done = run[r].done
      /\ run'[r].launched = run[r].launched
      /\ run'[r].parts = run[r].parts + 1 /\ run'[r].failed = run[r].failed
    BY Counted
<1>2. /\ run[r].at = "collect" /\ run[r].done # Len(run[r].plan)
      /\ run[r].parts # Parts(run[r].plan[run[r].done + 1])
    BY DEF PutEvidence, RunAt, Collected, Ready
<1>3. /\ run[r].done \in Nat /\ run[r].parts \in Nat /\ run[r] \in RunType
      /\ Len(run[r].plan) \in Nat /\ Parts(run[r].plan[run[r].done + 1]) \in {1, 2} /\ RunOK(run[r])
    BY TypedParts, PartsType DEF RunType, RunsOK
<1>4. db' = [db EXCEPT !.evidence = db.evidence \cup {x}] /\ x \in EvidenceRows
    BY <1>3 DEF PutEvidence, EvidenceRows
<1>5. Written(run', "evidence", x)
    BY <1>1, <1>3 DEF Written
<1>6. "evidence" \in DOMAIN NoTables /\ "evidence" \notin DOMAIN NoRows /\ db \in Tables
    BY ContentIs, TypedParts, Exported
<1> HIDE DEF x
<1>7. /\ db' \in Tables
      /\ \A u \in DOMAIN NoTables :
            Content(db', u) = Content(db, u) \cup (IF u = "evidence" THEN {x} ELSE {})
    BY <1>4, <1>6, NewRow
<1>8. Later(run[r], run'[r])
    BY <1>1, <1>2, <1>3 DEF Later
<1>9. RunOK(run'[r])
    BY <1>1, <1>2, <1>3 DEF RunOK
<1>10. Effect(r, "evidence", x)
    BY <1>1, <1>5, <1>6, <1>7, <1>8, <1>9 DEF Effect, Others, PutEvidence, ByRun, history, backups
<1>11. ASSUME Current(db, run[r], r)  PROVE Current(db', run'[r], r)
  <2>1. /\ Content(db, "events") \subseteq Content(db', "events")
        /\ Content(db', "evidence") = Content(db, "evidence") \cup {x}
        /\ Content(db, "findings") \subseteq Content(db', "findings")
      BY <1>7, ContentIs
  <2>2. HasEvidence(db', r, run'[r].done + 1, run'[r].parts)
    <3>1. \A i \in 1..(run[r].parts + 1) : i \in 1..run[r].parts \/ i = run[r].parts + 1
        BY <1>3
    <3> QED  BY <1>1, <1>11, <2>1, <3>1 DEF Current, HasEvidence, x
  <2>3. HasAll(db', run'[r], r)
      BY <1>1, <1>11, <2>1 DEF Current, HasAll, HasEvidence, Observed
  <2>4. HasBegun(db', run'[r], r) /\ run'[r].at \notin {"ledger", "result"}
      BY <1>1, <1>2, <1>11, <2>1 DEF Current, HasBegun, HasEvent
  <2> QED  BY <2>2, <2>3, <2>4 DEF Current
<1> QED  BY <1>2, <1>10, <1>11 DEF Keeps, Going

LEMMA FindingEffect ==
    ASSUME TypeOK, RunsOK, NEW r \in Runs, PutFinding(r)
    PROVE  (\E t, x : Effect(r, t, x)) /\ Keeps(r)
<1> DEFINE n == run[r].done + 1
           x == Observed(run[r], r, n)
<1>1. /\ run' \in [Runs -> RunType] /\ Others(r) /\ run'[r].at = run[r].at
      /\ run'[r].plan = run[r].plan /\ run'[r].done = n
      /\ run'[r].launched = run[r].launched
      /\ run'[r].parts = 0 /\ run'[r].failed = run[r].failed
    BY Counted
<1>2. /\ run[r].at = "collect" /\ run[r].done # Len(run[r].plan)
      /\ run[r].parts = Parts(run[r].plan[n])
    BY DEF PutFinding, RunAt, Collected, Ready
<1>3. /\ run[r].done \in Nat /\ run[r].parts \in Nat /\ run[r] \in RunType
      /\ Len(run[r].plan) \in Nat /\ run[r].plan \in Seq(Grades) /\ RunOK(run[r])
    BY TypedParts DEF RunType, RunsOK
<1>4. n \in 1..Len(run[r].plan) /\ n \in Nat
    BY <1>2, <1>3 DEF RunOK
<1>5. x \in FindingRows
    BY <1>3, <1>4 DEF Observed, FindingRows
<1>6. db' = [db EXCEPT !.findings = Append(db.findings, x)]
  <2>1. db' = [db EXCEPT !.findings = Append(db.findings, Finding(r, n))]
      BY DEF PutFinding
  <2>2. Finding(r, n) = x
      BY DEF Finding, Observed
  <2> HIDE DEF x, n
  <2> QED  BY <2>1, <2>2
<1>7. Written(run', "findings", x) /\ ~Written(run, "findings", x)
  <2>1. x.run = r /\ x.k = n /\ x.grade = run[r].plan[n] /\ n \in 1..n /\ n \notin 1..run[r].done
      BY <1>3, <1>4 DEF Observed
  <2> HIDE DEF x, n
  <2> QED  BY <1>1, <2>1 DEF Written
<1>8. Later(run[r], run'[r])
    BY <1>1, <1>2, <1>3 DEF Later
<1>9. RunOK(run'[r])
  <2>1. Parts(run[r].plan[n + 1]) \in {1, 2}
      BY PartsType
  <2> QED  BY <1>1, <1>2, <1>3, <1>4, <2>1 DEF RunOK
<1> HIDE DEF x
<1>10. "findings" \in DOMAIN NoTables /\ db \in Tables
    BY ContentIs, TypedParts
<1>11. /\ db' \in Tables
      /\ \A u \in DOMAIN NoTables :
            Content(db', u) = Content(db, u) \cup (IF u = "findings" THEN {x} ELSE {})
  <2> HIDE DEF n
  <2> QED  BY <1>5, <1>6, <1>10, NewFinding
<1>12. Effect(r, "findings", x)
    BY <1>1, <1>7, <1>8, <1>9, <1>11 DEF Effect, Others, PutFinding, ByRun, history, backups
<1>13. ASSUME Current(db, run[r], r)  PROVE Current(db', run'[r], r)
  <2>1. /\ Content(db, "events") \subseteq Content(db', "events")
        /\ Content(db, "evidence") \subseteq Content(db', "evidence")
        /\ Content(db', "findings") = Content(db, "findings") \cup {x}
      BY <1>11, ContentIs
  <2>2. HasEvidence(db', r, run'[r].done + 1, run'[r].parts)
      BY <1>1 DEF HasEvidence
  <2>3. HasAll(db', run'[r], r)
    <3>1. \A k \in 1..n : k \in 1..run[r].done \/ k = n
        BY <1>3
    <3>2. HasEvidence(db', r, n, Parts(run[r].plan[n]))
        BY <1>2, <1>13, <2>1 DEF Current, HasEvidence
    <3>3. \A k \in 1..run[r].done : /\ HasEvidence(db', r, k, Parts(run[r].plan[k]))
                                    /\ Observed(run[r], r, k) \in Content(db', "findings")
        BY <1>13, <2>1 DEF Current, HasAll, HasEvidence
    <3>4. \A k \in 1..n : Observed(run'[r], r, k) = Observed(run[r], r, k)
        BY <1>1 DEF Observed
    <3> HIDE DEF n
    <3> QED  BY <1>1, <2>1, <3>1, <3>2, <3>3, <3>4 DEF HasAll, x
  <2>4. HasBegun(db', run'[r], r) /\ run'[r].at \notin {"ledger", "result"}
      BY <1>1, <1>2, <1>13, <2>1 DEF Current, HasBegun, HasEvent
  <2> QED  BY <2>2, <2>3, <2>4 DEF Current
<1> QED  BY <1>2, <1>12, <1>13 DEF Keeps, Going

LEMMA FailEffect ==
    ASSUME TypeOK, RunsOK, NEW r \in Runs, Fail(r)
    PROVE  (\E t, x : Effect(r, t, x)) /\ Keeps(r)
<1>1. /\ run' \in [Runs -> RunType] /\ Others(r) /\ run'[r].at = "finish"
      /\ Counts(run[r], run'[r]) /\ run'[r].failed
    BY Counted
<1>2. run[r].at = "collect" /\ UNCHANGED db /\ run[r] \in RunType
    BY TypedParts DEF Fail, RunAt
<1>3. db' \in Tables /\ "none" \notin DOMAIN NoTables /\ "none" \notin DOMAIN NoRows
    BY <1>2, TypedParts, ContentIs
<1>4. Later(run[r], run'[r]) /\ RunOK(run'[r])
  <2>1. Later(run[r], run'[r])
      BY <1>1, <1>2 DEF Later, Counts, RunType
  <2>2. RunOK(run'[r])
      BY <1>1, <1>2 DEF RunsOK, RunOK, Counts
  <2> QED  BY <2>1, <2>2
<1>5. Effect(r, "none", "none")
    BY <1>1, <1>2, <1>3, <1>4, Unstored DEF Effect, Others, Fail, ByRun, history, backups
<1>6. Keeps(r)
    BY <1>1, <1>2, <1>5, EffectGrows, CurrentStays DEF Keeps, Going
<1> QED  BY <1>5, <1>6

LEMMA FinishEffect ==
    ASSUME TypeOK, RunsOK, NEW r \in Runs, Finish(r)
    PROVE  (\E t, x : Effect(r, t, x)) /\ Keeps(r)
<1> DEFINE x == [run |-> r, event |-> "finished"]
           at == IF run[r].launched THEN "ledger" ELSE "result"
<1>1. /\ run[r].at \in {"finish", "collect"} /\ ByRun /\ RunOK(run[r]) /\ run[r] \in RunType
      /\ run[r].at = "collect" => run[r].done = Len(run[r].plan)
    BY TypedParts DEF Finish, RunAt, Collected, RunsOK
<1>2. /\ "events" \in DOMAIN NoTables /\ db \in Tables
      /\ "none" \notin DOMAIN NoTables /\ "none" \notin DOMAIN NoRows
    BY ContentIs, TypedParts
<1>3. CASE Logged(r, "finished") /\ RunGo(r, at)
  <2>1. db' = [db EXCEPT !.events = Append(db.events, x)] /\ x \in EventRows
      BY <1>3 DEF Logged, EventRows
  <2>2. at \in {"ledger", "result"}
      OBVIOUS
  <2> HIDE DEF at
  <2>3. at \in Places \ {"idle", "worker"}
      BY <2>2 DEF Places
  <2>4. run'[r].at = at
      BY <1>3, <2>3, GoesTo
  <2>5. Written(run', "events", x) /\ ~Written(run, "events", x)
      BY <1>1, <2>2, <2>4 DEF Written
  <2>6. x = [run |-> r, event |-> "finished"]
      OBVIOUS
  <2> HIDE DEF x
  <2>7. /\ db' \in Tables
        /\ \A u \in DOMAIN NoTables :
              Content(db', u) = Content(db, u) \cup (IF u = "events" THEN {x} ELSE {})
      BY <1>2, <2>1, NewRow
  <2>8. HasEvent(db', r, "finished")
      BY <1>2, <2>6, <2>7 DEF HasEvent
  <2>9. Going(run[r]) /\ (run[r].failed \/ run[r].done = Len(run[r].plan))
      BY <1>1 DEF Going, RunOK
  <2>10. RunGo(r, at)
      BY <1>3 DEF at
  <2> QED  BY <1>1, <2>2, <2>3, <2>5, <2>7, <2>8, <2>9, <2>10, GoEffect
<1>4. CASE UNCHANGED db /\ RunGo(r, "end")
  <2>1. db' \in Tables /\ "end" \in Places \ {"idle", "worker"}
      BY <1>2, <1>4 DEF Places
  <2> QED  BY <1>1, <1>2, <1>4, <2>1, Unstored, GoEffect DEF Going
<1> QED  BY <1>3, <1>4 DEF Finish

LEMMA LedgerEffect ==
    ASSUME TypeOK, RunsOK, NEW r \in Runs, SaveLedger(r)
    PROVE  (\E t, x : Effect(r, t, x)) /\ Keeps(r)
<1>1. /\ run[r].at = "ledger" /\ RunGo(r, "result") /\ ByRun /\ "result" \in Places \ {"idle", "worker"}
      /\ run[r].failed \/ run[r].done = Len(run[r].plan)
    BY DEF SaveLedger, RunAt, Places, RunsOK, RunOK
<1>2. CASE db' = [db EXCEPT !.ledger = db.ledger \cup {r}]
  <2>1. "ledger" \in DOMAIN NoTables /\ db \in Tables /\ "ledger" \notin DOMAIN NoRows
      BY ContentIs, TypedParts, Exported
  <2>2. /\ db' \in Tables
        /\ \A u \in DOMAIN NoTables :
              Content(db', u) = Content(db, u) \cup (IF u = "ledger" THEN {r} ELSE {})
      BY <1>2, <2>1, NewRow
  <2>3. Written(run', "ledger", r)
      BY DEF Written
  <2> QED  BY <1>1, <2>1, <2>2, <2>3, GoEffect DEF Going
<1>3. CASE UNCHANGED db
  <2>1. db' \in Tables /\ "none" \notin DOMAIN NoTables /\ "none" \notin DOMAIN NoRows
      BY <1>3, TypedParts, ContentIs
  <2> QED  BY <1>1, <1>3, <2>1, Unstored, GoEffect DEF Going
<1> QED  BY <1>2, <1>3 DEF SaveLedger, Insert

LEMMA SummaryIs ==
    ASSUME TypeOK, RunsOK, NEW r \in Runs
    PROVE  Summary(r) = Told(run[r], r) /\ Summary(r) \in ResultRows
<1>1. /\ run[r].done \in Nat /\ run[r].done <= Len(run[r].plan) /\ run[r].plan \in Seq(Grades)
      /\ run[r].launched \in BOOLEAN /\ Len(run[r].plan) \in Nat
    BY TypedParts DEF RunType, RunsOK, RunOK
<1>2. \A k \in 1..run[r].done : Finding(r, k) = Observed(run[r], r, k) /\ Finding(r, k) \in FindingRows
    BY <1>1 DEF Finding, Observed, FindingRows
<1>3. {Finding(r, k) : k \in 1..run[r].done} = {Observed(run[r], r, k) : k \in 1..run[r].done}
    BY <1>2
<1>4. Summary(r).findings \in SUBSET FindingRows
    BY <1>2 DEF Summary
<1> QED  BY <1>1, <1>3, <1>4 DEF Summary, Told, ResultRows

LEMMA ResultEffect ==
    ASSUME TypeOK, RunsOK, NEW r \in Runs, SaveResult(r)
    PROVE  (\E t, x : Effect(r, t, x)) /\ Keeps(r)
<1>1. /\ run[r].at = "result" /\ RunGo(r, "end") /\ ByRun /\ "end" \in Places \ {"idle", "worker"}
      /\ ~run[r].failed => run[r].done = Len(run[r].plan)
    BY DEF SaveResult, RunAt, Places, RunsOK, RunOK
<1>2. /\ run' \in [Runs -> RunType] /\ run'[r].at = "end" /\ Counts(run[r], run'[r])
      /\ run'[r].launched = run[r].launched /\ run'[r].failed = run[r].failed
    BY <1>1, GoesTo
<1>3. CASE db' = [db EXCEPT !.results = Append(db.results, Summary(r))]
  <2> DEFINE x == Summary(r)
  <2>1. "results" \in DOMAIN NoTables /\ db \in Tables
      BY ContentIs, TypedParts
  <2>2. x = Told(run[r], r) /\ x \in ResultRows /\ db' = [db EXCEPT !.results = Append(db.results, x)]
    <3>1. x = Told(run[r], r) /\ x \in ResultRows
        BY SummaryIs
    <3> QED  BY <1>3, <3>1
  <2> HIDE DEF x
  <2>3. /\ db' \in Tables
        /\ \A u \in DOMAIN NoTables :
              Content(db', u) = Content(db, u) \cup (IF u = "results" THEN {x} ELSE {})
      BY <2>1, <2>2, NewResult
  <2>4. x.run = r
      BY <2>2 DEF Told
  <2>5. Told(run'[r], r) = Told(run[r], r)
      BY <1>2 DEF Told, Observed, Counts
  <2>6. Written(run', "results", x) /\ ~Written(run, "results", x)
      BY <1>1, <1>2, <2>2, <2>4, <2>5 DEF Written, Counts
  <2> QED  BY <1>1, <2>1, <2>3, <2>6, GoEffect DEF Going
<1>4. CASE UNCHANGED db
  <2>1. db' \in Tables /\ "none" \notin DOMAIN NoTables /\ "none" \notin DOMAIN NoRows
      BY <1>4, TypedParts, ContentIs
  <2> QED  BY <1>1, <1>4, <2>1, Unstored, GoEffect DEF Going
<1> QED  BY <1>3, <1>4 DEF SaveResult, Insert

LEMMA CrashEffect ==
    ASSUME TypeOK, RunsOK, NEW r \in Runs, Crash(r)
    PROVE  (\E t, x : Effect(r, t, x)) /\ Keeps(r)
<1>1. db' \in Tables /\ "none" \notin DOMAIN NoTables /\ "none" \notin DOMAIN NoRows
    BY TypedParts, ContentIs DEF Crash
<1>2. "end" \in Places \ {"idle", "worker"} /\ RunGo(r, "end") /\ ByRun /\ UNCHANGED db /\ Going(run[r])
    BY DEF Crash, Places, UnderWay, Going
<1> QED  BY <1>1, <1>2, Unstored, GoEffect

(* A step of an engine. *)
Engine(r) ==
    \/ Begin(r) \/ RegisterWorker(r) \/ PutEvidence(r) \/ PutFinding(r) \/ Fail(r)
    \/ Finish(r) \/ SaveLedger(r) \/ SaveResult(r) \/ Crash(r)
LEMMA Effects ==
    ASSUME TypeOK, RunsOK, NEW r \in Runs, Engine(r)
    PROVE  (\E t, x : Effect(r, t, x)) /\ Keeps(r)
BY BeginEffect, RegisterEffect, EvidenceEffect, FindingEffect, FailEffect, FinishEffect,
   LedgerEffect, ResultEffect, CrashEffect DEF Engine
-----------------------------------------------------------------------------
(* The inductive invariant.  What is in any table or export was written by *)
(* its run.                                                                *)
WrittenInv ==
    /\ WrittenTables(run, db) /\ WrittenTables(run, dir.copy.tables) /\ WrittenTables(run, creator.tables)
    /\ WrittenRows(run, creator.rows) /\ WrittenRows(run, dir.json.rows) /\ WrittenRows(run, dir.hash.rows)

(* How far a backup has come, and what the files of the directory have to  *)
(* do with each other: no row of an export that was sealed can be in the   *)
(* database, or on its way to a new export, and be missing from the copy.  *)
Sealed(t) == dir.hash.rows[t] \cap (Content(db, t) \cup creator.rows[t] \cup dir.json.rows[t])
BackupInv ==
    /\ creator.gen <= gen
    /\ creator.at = 1 => creator.rows = NoRows
    /\ creator.at \in {6, 7, 8} => dir.json.rows = creator.rows
    /\ creator.gen = gen => \A t \in DOMAIN NoRows : creator.rows[t] \subseteq Content(db, t)
    /\ creator.at = 8 => dir.copy.state # "absent"
    /\ creator.at = 8 /\ dir.copy.sound =>
         \A t \in DOMAIN NoRows : dir.json.rows[t] \subseteq Content(dir.copy.tables, t)
    /\ dir.hash.state = "whole" => dir.copy.state # "absent"
    /\ dir.copy.sound => \A t \in DOMAIN NoRows : Sealed(t) \subseteq Content(dir.copy.tables, t)

(* Tables are complete when no result and no finding is there without the  *)
(* rows that are stored before it, but for runs that a restore was made    *)
(* under.                                                                  *)
HasResult(T, r) == \E s \in Content(T, "results") : s.run = r
Complete(R, A, T) ==
    \A r \in Runs \ A :
        /\ HasResult(T, r) => HasBegun(T, R[r], r) /\ HasEvent(T, r, "finished") /\ HasAll(T, R[r], r)
        /\ \A f \in Content(T, "findings") : f.run = r => HasEvidence(T, r, f.k, Parts(f.grade))
CleanInv ==
    /\ \A r \in Runs \ across : Going(run[r]) => Current(db, run[r], r)
    /\ ~tainted => Complete(run, across, db)
    /\ ~tainted /\ dir.copy.state = "whole" => Complete(run, across, dir.copy.tables)

(* What a reader has seen so far. *)
Observations(p, r) == {Observed(p, r, k) : k \in DOMAIN p.plan}
Proofs(p, r) == UNION {[run : {r}, k : {k}, part : 1..Parts(p.plan[k])] : k \in DOMAIN p.plan}
Reading == {"evidence", "findings", "events", "replayed"}
ReplayOK(R, T, d) ==
    /\ d.stored /\ ~d.erred => /\ HasResult(T, d.run) /\ d.at # "missing"
                               /\ d.at \in {"search", "ledger"} => d.run \in T.ledger
    /\ d.at \in Reading => HasResult(T, d.run) /\ d.names = Told(R[d.run], d.run).findings
Shown(p, events) ==
    LET shown == {e.event : e \in events} IN "finished" \in shown /\ (p.launched => "begun" \in shown)
WholeOK(R, d) ==
    /\ d.at \in {"findings", "events", "replayed"} /\ ~R[d.run].failed => d.evidence = Proofs(R[d.run], d.run)
    /\ d.at \in {"events", "replayed"} /\ ~R[d.run].failed => d.findings = Observations(R[d.run], d.run)
    /\ d.at = "replayed" /\ d.all => Shown(R[d.run], d.events)
ReportOK(T, d) ==
    /\ d.at # "rejected"
    /\ d.at = "report" => \A f \in d.findings : HasEvidence(T, f.run, f.k, Parts(f.grade))
ReaderInv ==
    /\ reader.gen <= gen
    /\ reader.at = "idle" => reader.cited = 0 /\ ~reader.stored
    /\ reader.at = "report" =>
         /\ ToSet(reader.todo) \subseteq reader.findings
         /\ reader.todo # <<>> => reader.cited < Len(Cited(Head(reader.todo)))
    /\ Undisturbed =>
         /\ ReplayOK(run, db, reader)
         /\ ~tainted /\ reader.run \notin across => WholeOK(run, reader)
         /\ ~tainted /\ (\A f \in reader.findings : f.run \notin across) => ReportOK(db, reader)

IInv == TypeOK /\ RunsOK /\ WrittenInv /\ BackupInv /\ CleanInv /\ ReaderInv

(* A step of an engine keeps each of them. *)
LEMMA EngineType ==
    ASSUME TypeOK, RunsOK, NEW r \in Runs, Engine(r), NEW t, NEW x, Effect(r, t, x)
    PROVE  TypeOK' /\ RunsOK'
<1>1. /\ db' \in Tables /\ run' \in [Runs -> RunType]
      /\ UNCHANGED <<dir, creator, restorer, reader, gen, across, tainted>>
      /\ \A o \in Runs \ {r} : run'[o] = run[o]
      /\ RunOK(run'[r])
    BY DEF Effect
<1>2. made' = made
    BY DEF Engine, Begin, RegisterWorker, PutEvidence, PutFinding, Fail, Finish, SaveLedger, SaveResult, Crash, ByRun
<1>3. faults' \in {faults, faults + 1}
    BY DEF Engine, Begin, RegisterWorker, PutEvidence, PutFinding, Fail, Finish, SaveLedger, SaveResult, Crash,
           Insert, Sound, Fault
<1>4. TypeOK'
  <2>1. dir' = dir /\ creator' = creator /\ restorer' = restorer /\ reader' = reader
      BY <1>1
  <2>2. made' \in Nat /\ faults' \in Nat /\ gen' \in Nat /\ across' \subseteq Runs /\ tainted' \in BOOLEAN
      BY <1>1, <1>2, <1>3 DEF TypeOK
  <2>3. run' \in [Runs -> [at : Places, plan : Seq(Grades), done : Nat, parts : Nat,
                           launched : BOOLEAN, failed : BOOLEAN]]
      BY <1>1 DEF RunType
  <2> QED  BY <1>1, <2>1, <2>2, <2>3 DEF TypeOK
<1>5. RunsOK'
    BY <1>1 DEF RunsOK
<1> QED  BY <1>4, <1>5

LEMMA WrittenStays ==
    ASSUME RunsOK, run \in [Runs -> RunType], NEW r \in Runs, NEW t, NEW x, Effect(r, t, x),
           NEW u, NEW y, Written(run, u, y)
    PROVE  Written(run', u, y)
<1>1. /\ \A o \in Runs \ {r} : run'[o] = run[o]
      /\ Later(run[r], run'[r]) /\ RunOK(run[r])
      /\ run[r] \in RunType /\ run'[r] \in RunType
    BY DEF Effect, RunsOK
<1>2. CASE u = "workers"
    BY <1>1, <1>2 DEF Written, Later
<1>3. CASE u \in {"events", "evidence", "findings", "results"} /\ y.run # r
    BY <1>1, <1>3 DEF Written
<1>4. CASE u = "events" /\ y.run = r
    BY <1>1, <1>4 DEF Written, Later
<1>5. CASE u = "findings" /\ y.run = r
  <2>1. run[r].at # "idle"
      BY <1>1, <1>5 DEF Written, RunOK, RunType
  <2>2. run'[r].plan = run[r].plan /\ run'[r].done \in {run[r].done, run[r].done + 1}
      BY <1>1, <2>1 DEF Later
  <2> QED  BY <1>1, <1>5, <2>2 DEF Written, RunType
<1>6. CASE u = "evidence" /\ y.run = r
  <2>1. run[r].at # "idle"
      BY <1>1, <1>6 DEF Written, RunOK, RunType
  <2>2. /\ run'[r].plan = run[r].plan
        /\ \/ run'[r].done = run[r].done /\ run[r].parts <= run'[r].parts
           \/ run'[r].done = run[r].done + 1 /\ run[r].parts = Parts(run[r].plan[run[r].done + 1])
        /\ run[r].done \in Nat /\ run[r].parts \in Nat /\ run'[r].parts \in Nat
      BY <1>1, <2>1 DEF Later, RunType
  <2>3. CASE y.k \in 1..run[r].done /\ y.part \in 1..Parts(run[r].plan[y.k])
      BY <1>6, <2>2, <2>3 DEF Written
  <2>4. CASE y.k = run[r].done + 1 /\ y.part \in 1..run[r].parts
      BY <1>6, <2>2, <2>4 DEF Written
  <2> QED  BY <1>6, <2>3, <2>4 DEF Written
<1>7. CASE u = "results" /\ y.run = r
    BY <1>1, <1>7 DEF Written, Later
<1>8. CASE u \notin {"workers", "events", "evidence", "findings", "results"}
    BY <1>8 DEF Written
<1> QED  BY <1>2, <1>3, <1>4, <1>5, <1>6, <1>7, <1>8

LEMMA EngineWritten ==
    ASSUME TypeOK, RunsOK, WrittenInv, NEW r \in Runs, NEW t, NEW x, Effect(r, t, x)
    PROVE  WrittenInv'
<1>1. \A u, y : Written(run, u, y) => Written(run', u, y)
    BY TypedParts, WrittenStays
<1>2. UNCHANGED <<dir, creator>>
    BY DEF Effect
<1>3. WrittenTables(run', db')
  <2>1. \A u \in DOMAIN NoTables : Content(db', u) = Content(db, u) \cup (IF u = t THEN {x} ELSE {})
      BY DEF Effect
  <2>2. t \in DOMAIN NoTables => Written(run', t, x)
      BY DEF Effect
  <2> QED  BY <1>1, <2>1, <2>2 DEF WrittenInv, WrittenTables
<1>4. WrittenTables(run', dir'.copy.tables) /\ WrittenTables(run', creator'.tables)
    BY <1>1, <1>2 DEF WrittenInv, WrittenTables
<1>5. /\ WrittenRows(run', creator'.rows) /\ WrittenRows(run', dir'.json.rows)
      /\ WrittenRows(run', dir'.hash.rows)
    BY <1>1, <1>2 DEF WrittenInv, WrittenRows
<1> QED  BY <1>3, <1>4, <1>5 DEF WrittenInv

(* A new row is in no export yet. *)
LEMMA EngineBackup ==
    ASSUME TypeOK, WrittenInv, BackupInv, NEW r \in Runs, NEW t, NEW x, Effect(r, t, x)
    PROVE  BackupInv'
<1>1. UNCHANGED <<dir, creator, gen>>
    BY DEF Effect
<1>2. \A u \in DOMAIN NoRows : Content(db', u) = Content(db, u) \cup (IF u = t THEN {x} ELSE {})
    BY ContentIs DEF Effect
<1>3. \A u \in DOMAIN NoRows : u = t => x \notin dir.hash.rows[u]
  <2>1. t \in DOMAIN NoRows => ~Written(run, t, x)
      BY DEF Effect
  <2> QED  BY <2>1 DEF WrittenInv, WrittenRows
<1>4. \A u \in DOMAIN NoRows : Sealed(u)' = Sealed(u)
    BY <1>1, <1>2, <1>3 DEF Sealed
<1>5. creator'.gen = gen' => \A u \in DOMAIN NoRows : creator'.rows[u] \subseteq Content(db', u)
    BY <1>1, <1>2 DEF BackupInv
<1> QED  BY <1>1, <1>4, <1>5 DEF BackupInv

(* Runs with a result are at their end, so what they leave stays complete. *)
LEMMA CompleteStays ==
    ASSUME NEW r \in Runs, NEW t, NEW x, Effect(r, t, x), NEW A, NEW T, WrittenTables(run, T), Complete(run, A, T)
    PROVE  Complete(run', A, T)
<1>1. run[r].at # "end" /\ \A o \in Runs \ {r} : run'[o] = run[o]
    BY DEF Effect, Later
<1>2. ASSUME NEW o \in Runs, HasResult(T, o)  PROVE run'[o] = run[o]
  <2>1. PICK s \in Content(T, "results") : s.run = o
      BY <1>2 DEF HasResult
  <2>2. Written(run, "results", s)
      BY <2>1, ContentIs DEF WrittenTables
  <2> QED  BY <1>1, <2>1, <2>2 DEF Written
<1> QED  BY <1>2 DEF Complete

LEMMA MoreIsKept ==
    ASSUME NEW T, NEW U, Grown(T, U), NEW r
    PROVE  /\ \A e : HasEvent(T, r, e) => HasEvent(U, r, e)
           /\ \A k, n : HasEvidence(T, r, k, n) => HasEvidence(U, r, k, n)
           /\ \A p : HasBegun(T, p, r) => HasBegun(U, p, r)
           /\ \A p : HasAll(T, p, r) => HasAll(U, p, r)
           /\ HasResult(T, r) => HasResult(U, r)
<1>1. /\ Content(T, "events") \subseteq Content(U, "events")
      /\ Content(T, "evidence") \subseteq Content(U, "evidence")
      /\ Content(T, "findings") \subseteq Content(U, "findings")
      /\ Content(T, "results") \subseteq Content(U, "results")
    BY ContentIs DEF Grown
<1> QED  BY <1>1 DEF HasBegun, HasEvent, HasEvidence, HasAll, HasResult

LEMMA EngineClean ==
    ASSUME TypeOK, RunsOK, WrittenInv, CleanInv, NEW r \in Runs, NEW t, NEW x, Effect(r, t, x), Keeps(r)
    PROVE  CleanInv'
<1>1. /\ UNCHANGED <<dir, across, tainted>> /\ Grown(db, db')
      /\ \A o \in Runs \ {r} : run'[o] = run[o]
      /\ \A u \in DOMAIN NoTables : Content(db', u) = Content(db, u) \cup (IF u = t THEN {x} ELSE {})
      /\ t \in DOMAIN NoTables => Written(run', t, x)
      /\ t \in DOMAIN NoRows => ~Written(run, t, x)
      /\ t = "results" => run[r].at = "result"
      /\ Later(run[r], run'[r]) /\ run[r] \in RunType /\ run'[r] \in RunType
    BY EffectGrows, TypedParts DEF Effect
<1>2. ASSUME NEW o \in Runs \ across, Going(run'[o])  PROVE Current(db', run'[o], o)
  <2>1. CASE o = r
      BY <1>2, <2>1 DEF Keeps, CleanInv
  <2>2. CASE o # r
    <3>1. Current(db, run[o], o) /\ run'[o] = run[o]
        BY <1>1, <1>2, <2>2 DEF CleanInv
    <3> QED  BY <1>1, <3>1, CurrentStays DEF Counts
  <2> QED  BY <2>1, <2>2
<1>3. ASSUME ~tainted  PROVE Complete(run', across, db')
  <2> SUFFICES ASSUME NEW o \in Runs \ across
               PROVE  /\ HasResult(db', o) => HasBegun(db', run'[o], o) /\ HasEvent(db', o, "finished")
                                              /\ HasAll(db', run'[o], o)
                      /\ \A f \in Content(db', "findings") : f.run = o => HasEvidence(db', o, f.k, Parts(f.grade))
      BY DEF Complete
  <2>1. Complete(run', across, db)
      BY <1>3, CompleteStays DEF CleanInv, WrittenInv
  <2>2. ASSUME HasResult(db', o)
        PROVE  HasBegun(db', run'[o], o) /\ HasEvent(db', o, "finished") /\ HasAll(db', run'[o], o)
    <3>1. CASE HasResult(db, o)
        BY <1>1, <2>1, <3>1, MoreIsKept DEF Complete
    <3>2. CASE ~HasResult(db, o)
      <4>1. t = "results" /\ x.run = o
          BY <1>1, <2>2, <3>2, ContentIs DEF HasResult
      <4>2. Written(run', "results", x) /\ ~Written(run, "results", x)
          BY <1>1, <4>1, ContentIs, Exported
      <4>3. o = r
          BY <1>1, <4>1, <4>2 DEF Written
      <4>4. Going(run[r]) /\ Current(db, run[r], r) /\ run[r].at = "result"
          BY <1>1, <4>1, <4>3 DEF Going, CleanInv
      <4>5. run'[r].plan = run[r].plan /\ run'[r].done = run[r].done /\ run'[r].launched = run[r].launched
          BY <1>1, <4>4 DEF Later
      <4>6. HasAll(db', run[r], r) /\ HasBegun(db', run[r], r) /\ HasEvent(db', r, "finished")
          BY <1>1, <4>4, MoreIsKept DEF Current
      <4>7. HasAll(db', run'[r], r) /\ HasBegun(db', run'[r], r)
          BY <4>5, <4>6 DEF HasAll, HasBegun, Observed
      <4> QED  BY <4>3, <4>6, <4>7
    <3> QED  BY <3>1, <3>2
  <2>3. ASSUME NEW f \in Content(db', "findings"), f.run = o  PROVE HasEvidence(db', o, f.k, Parts(f.grade))
    <3>1. CASE f \in Content(db, "findings")
        BY <1>1, <2>1, <2>3, <3>1, MoreIsKept DEF Complete
    <3>2. CASE f \notin Content(db, "findings")
      <4>1. t = "findings" /\ f = x
          BY <1>1, <2>3, <3>2, ContentIs
      <4>2. Written(run', "findings", f) /\ ~Written(run, "findings", f)
          BY <1>1, <4>1, ContentIs, Exported
      <4>3. o = r
          BY <1>1, <2>3, <4>2 DEF Written
      <4>4. f.k \in 1..run'[r].done /\ f.grade = run'[r].plan[f.k]
          BY <2>3, <4>2, <4>3 DEF Written
      <4>5. ~(f.k \in 1..run[r].done /\ f.grade = run[r].plan[f.k])
          BY <2>3, <4>2, <4>3 DEF Written
      <4>6. run[r].done \in Nat /\ run'[r].done \in Nat
          BY <1>1 DEF RunType
      <4>7. run[r].at # "idle"
        <5>1. CASE run[r].at = "idle"
          <6>1. run[r].done = 0 /\ run[r].parts = 0
              BY <5>1 DEF RunsOK, RunOK
          <6>2. run'[r].done = 0
              BY <1>1, <5>1, <6>1 DEF Later
          <6> QED  BY <4>4, <6>2
        <5> QED  BY <5>1
      <4>8. run'[r].plan = run[r].plan
          BY <1>1, <4>7 DEF Later
      <4>9. f.k \notin 1..run[r].done
          BY <4>4, <4>5, <4>8
      <4>10. run'[r].done # run[r].done
          BY <4>4, <4>9
      <4>11. f.k = run[r].done + 1 /\ run[r].at = "collect" /\ run[r].parts = Parts(run[r].plan[run[r].done + 1])
        <5>1. /\ run'[r].done = run[r].done + 1 /\ run[r].at = "collect"
              /\ run[r].parts = Parts(run[r].plan[run[r].done + 1])
            BY <1>1, <4>10 DEF Later
        <5> QED  BY <4>4, <4>6, <4>9, <5>1
      <4>12. HasEvidence(db, r, f.k, Parts(f.grade))
          BY <4>3, <4>4, <4>8, <4>11 DEF CleanInv, Going, Current
      <4> QED  BY <1>1, <4>3, <4>12, MoreIsKept
    <3> QED  BY <3>1, <3>2
  <2> QED  BY <2>2, <2>3
<1>4. ASSUME ~tainted, dir.copy.state = "whole"  PROVE Complete(run', across, dir.copy.tables)
    BY <1>4, CompleteStays DEF CleanInv, WrittenInv
<1> QED  BY <1>1, <1>2, <1>3, <1>4 DEF CleanInv

LEMMA EngineReader ==
    ASSUME TypeOK, RunsOK, WrittenInv, ReaderInv, NEW r \in Runs, NEW t, NEW x, Effect(r, t, x)
    PROVE  ReaderInv'
<1>1. /\ UNCHANGED <<reader, gen, across, tainted>> /\ Grown(db, db')
      /\ \A o \in Runs \ {r} : run'[o] = run[o]
      /\ run[r].at # "end"
    BY EffectGrows DEF Effect, Later
<1>2. Content(db, "ledger") \subseteq Content(db', "ledger")
    BY <1>1, ContentIs DEF Grown
<1>3. db.ledger \subseteq db'.ledger
    BY <1>2, ContentIs
<1>4. HasResult(db, reader.run) => run'[reader.run] = run[reader.run] /\ HasResult(db', reader.run)
  <2>1. HasResult(db, reader.run) => run'[reader.run] = run[reader.run]
    <3>1. SUFFICES ASSUME NEW s \in Content(db, "results"), s.run = reader.run
                   PROVE  run'[reader.run] = run[reader.run]
        BY DEF HasResult
    <3>2. Written(run, "results", s)
        BY ContentIs DEF WrittenInv, WrittenTables
    <3> QED  BY <1>1, <3>1, <3>2 DEF Written
  <2> QED  BY <1>1, <2>1, MoreIsKept
<1>5. ReplayOK(run, db, reader) => ReplayOK(run', db', reader)
    BY <1>3, <1>4 DEF ReplayOK
<1>6. ReplayOK(run, db, reader) /\ WholeOK(run, reader) => WholeOK(run', reader)
    BY <1>4 DEF ReplayOK, WholeOK, Reading
<1>7. ReportOK(db, reader) => ReportOK(db', reader)
    BY <1>1, MoreIsKept DEF ReportOK
<1> QED  BY <1>1, <1>5, <1>6, <1>7 DEF ReaderInv, Undisturbed

-----------------------------------------------------------------------------
(* A step of a backup. *)
DirType == [json : FileType, copy : CopyType, hash : FileType]
LEMMA StepsAre ==
    ASSUME TypeOK
    PROVE  /\ creator.at \in 1..8 /\ Onward = (IF creator.at = 8 THEN 1 ELSE creator.at + 1)
           /\ Making("findings") <=> creator.at = 1
           /\ Making("events") <=> creator.at = 2
           /\ Making("results") <=> creator.at = 3
           /\ Making("workers") <=> creator.at = 4
           /\ Making("export") <=> creator.at = 5
           /\ Making("copy") <=> creator.at = 6
           /\ Making("copied") <=> creator.at = 7
           /\ Making("hash") <=> creator.at = 8
           /\ DOMAIN Steps = 1..8
<1>1. DOMAIN Steps = 1..8 /\ Len(Steps) = 8
    BY DEF Steps
<1>2. creator.at \in 1..8
    BY <1>1, TypedParts DEF CreatorType
<1>3. Onward = (IF creator.at = 8 THEN 1 ELSE creator.at + 1)
  <2>1. \A n \in 1..8 : 1 + (n % 8) = (IF n = 8 THEN 1 ELSE n + 1)
      OBVIOUS
  <2> QED  BY <1>1, <1>2, <2>1 DEF Onward
<1>4. /\ Steps[1] = "findings" /\ Steps[2] = "events" /\ Steps[3] = "results" /\ Steps[4] = "workers"
      /\ Steps[5] = "export" /\ Steps[6] = "copy" /\ Steps[7] = "copied" /\ Steps[8] = "hash"
    BY DEF Steps
<1>5. creator.at = 1 \/ creator.at = 2 \/ creator.at = 3 \/ creator.at = 4 \/ creator.at = 5
      \/ creator.at = 6 \/ creator.at = 7 \/ creator.at = 8
    BY <1>2
<1> QED  BY <1>1, <1>2, <1>3, <1>4, <1>5 DEF Making

LEMMA CreatorIs == CreatorType = [at : 1..8, rows : Exports, tables : Tables, gen : Nat]
<1>1. DOMAIN Steps = 1..8
    BY DEF Steps
<1> QED  BY <1>1 DEF CreatorType

LEMMA CreatorFields ==
    ASSUME NEW c \in [at : 1..8, rows : Exports, tables : Tables, gen : Nat], NEW n, NEW E, NEW T, NEW g
    PROVE  /\ [c EXCEPT !.at = n, !.gen = g] = [at |-> n, rows |-> c.rows, tables |-> c.tables, gen |-> g]
           /\ [c EXCEPT !.at = n, !.tables = T] = [at |-> n, rows |-> c.rows, tables |-> T, gen |-> c.gen]
           /\ [c EXCEPT !.at = n, !.rows = E, !.gen = g] = [at |-> n, rows |-> E, tables |-> c.tables, gen |-> g]
<1>1. ASSUME NEW d, d = [c EXCEPT !.at = n, !.gen = g]
      PROVE  d = [at |-> n, rows |-> c.rows, tables |-> c.tables, gen |-> g]
    BY <1>1
<1>2. ASSUME NEW d, d = [c EXCEPT !.at = n, !.tables = T]
      PROVE  d = [at |-> n, rows |-> c.rows, tables |-> T, gen |-> c.gen]
    BY <1>2
<1>3. ASSUME NEW d, d = [c EXCEPT !.at = n, !.rows = E, !.gen = g]
      PROVE  d = [at |-> n, rows |-> E, tables |-> c.tables, gen |-> g]
    BY <1>3
<1> QED  BY <1>1, <1>2, <1>3, Zenon

LEMMA NothingTyped ==
    /\ NoRows \in Exports /\ NoTables \in Tables /\ NoBackup \in CreatorType
    /\ \A t \in DOMAIN NoRows : NoRows[t] = {}
    /\ \A t \in DOMAIN NoTables : Content(NoTables, t) = {}
<1>1. NoRows \in Exports /\ \A t \in DOMAIN NoRows : NoRows[t] = {}
    BY DEF NoRows, Exports
<1>2. NoTables \in Tables
    BY DEF NoTables, Tables
<1>3. \A t \in DOMAIN NoTables : Content(NoTables, t) = {}
  <2>1. ToSet(<<>>) = {}
      BY DEF ToSet
  <2> QED  BY <2>1 DEF Content, NoTables
<1>4. 1 \in DOMAIN Steps
    BY DEF Steps
<1> QED  BY <1>1, <1>2, <1>3, <1>4 DEF NoBackup, CreatorType

LEMMA CreatorFrame ==
    ASSUME TypeOK, RunsOK, CleanInv, ReaderInv, UNCHANGED <<db, run, restorer, reader, gen, across, tainted>>,
           dir' \in DirType, creator' \in CreatorType, made' \in Nat, faults' \in Nat
    PROVE  TypeOK' /\ RunsOK' /\ ReaderInv' /\ (dir'.copy = dir.copy => CleanInv')
<1>1. TypeOK'
  <2>1. /\ dir' \in [json : [state : FileStates, rows : Exports],
                     copy : [state : FileStates, tables : Tables, sound : BOOLEAN],
                     hash : [state : FileStates, rows : Exports]]
        /\ creator' \in [at : DOMAIN Steps, rows : Exports, tables : Tables, gen : Nat]
      BY DEF DirType, FileType, CopyType, CreatorType
  <2> QED  BY <2>1 DEF TypeOK
<1>2. RunsOK'
    BY DEF RunsOK
<1>3. ReaderInv'
    BY DEF ReaderInv, Undisturbed
<1>4. dir'.copy = dir.copy => CleanInv'
    BY DEF CleanInv
<1> QED  BY <1>1, <1>2, <1>3, <1>4

LEMMA Bounded ==
    ASSUME TypeOK
    PROVE  /\ (Sound => faults' \in Nat) /\ (Fault => faults' \in Nat)
           /\ made \in Nat /\ made + 1 \in Nat
BY DEF TypeOK, Sound, Fault

LEMMA ListStep == IInv /\ List => IInv'
<1> SUFFICES ASSUME IInv, List  PROVE IInv'
    OBVIOUS
<1>1. /\ TypeOK /\ RunsOK /\ WrittenInv /\ BackupInv /\ CleanInv /\ ReaderInv
      /\ UNCHANGED <<db, run, restorer, reader, gen, across, tainted, dir>>
    BY DEF IInv, List, ByCreator, history
<1>2. PICK step \in DOMAIN NoRows :
        /\ Making(step)
        /\ LET begun == [creator EXCEPT !.at = Onward, !.gen = IF Making("findings") THEN gen ELSE @] IN
            \/ creator' = [begun EXCEPT !.rows[step] = Rows(db, step)] /\ Sound
            \/ step = "workers" /\ creator' = begun /\ Fault
    BY DEF List
<1> DEFINE begun == [creator EXCEPT !.at = Onward, !.gen = IF creator.at = 1 THEN gen ELSE creator.gen]
<1>3. /\ creator \in CreatorType /\ gen \in Nat /\ db \in Tables /\ dir \in DirType
      /\ creator.rows \in Exports /\ creator.gen \in Nat /\ creator.at \in 1..8
    BY <1>1, TypedParts, StepsAre DEF CreatorType, DirType
<1>4. creator.at \in 1..4 /\ Onward = creator.at + 1 /\ DOMAIN Steps = 1..8
  <2>1. step \in {"events", "workers", "findings", "results"}
      BY Exported
  <2> QED  BY <1>1, <1>2, <2>1, StepsAre
<1>5. /\ begun \in CreatorType /\ begun.at = creator.at + 1 /\ begun.rows = creator.rows
      /\ begun.tables = creator.tables
      /\ begun.gen = IF creator.at = 1 THEN gen ELSE creator.gen
  <2> DEFINE n == creator.at + 1
             g == IF creator.at = 1 THEN gen ELSE creator.gen
  <2>1. n \in 1..8 /\ g \in Nat
      BY <1>3, <1>4
  <2>2. begun = [creator EXCEPT !.at = n, !.gen = g]
      BY <1>4
  <2> HIDE DEF n, g, begun
  <2>3. /\ begun \in CreatorType /\ begun.at = n /\ begun.gen = g /\ begun.rows = creator.rows
        /\ begun.tables = creator.tables
      BY <1>3, <2>1, <2>2, CreatorFields, CreatorIs
  <2> QED  BY <2>3 DEF n, g
<1>6. \/ creator' = [begun EXCEPT !.rows[step] = Rows(db, step)]
      \/ creator' = begun
    BY <1>1, <1>2, StepsAre
<1>7. Rows(db, step) = Content(db, step)
    BY ContentIs
<1>8. [creator.rows EXCEPT ![step] = Rows(db, step)] \in Exports
  <2>1. /\ ToSet(db.events) \in SUBSET EventRows /\ db.workers \in SUBSET Runs
        /\ ToSet(db.findings) \in SUBSET FindingRows /\ ToSet(db.results) \in SUBSET ResultRows
      BY <1>3, RowsTyped DEF Tables
  <2>2. /\ Rows(db, "events") \in SUBSET EventRows /\ Rows(db, "workers") \in SUBSET Runs
        /\ Rows(db, "findings") \in SUBSET FindingRows /\ Rows(db, "results") \in SUBSET ResultRows
      BY <2>1, RowsAre
  <2> QED  BY <1>3, <2>2, Exported DEF Exports
<1> HIDE DEF begun
<1>9. /\ creator' \in CreatorType /\ creator'.at = creator.at + 1 /\ creator'.tables = creator.tables
      /\ creator'.gen = (IF creator.at = 1 THEN gen ELSE creator.gen)
      /\ \A t \in DOMAIN NoRows : \/ creator'.rows[t] = creator.rows[t]
                                  \/ creator'.rows[t] = Content(db, t)
  <2>1. CASE creator' = begun
      BY <1>5, <2>1
  <2>2. CASE creator' = [begun EXCEPT !.rows[step] = Rows(db, step)]
    <3>1. creator' = [begun EXCEPT !.rows = [creator.rows EXCEPT ![step] = Rows(db, step)]]
        BY <1>5, <2>2
    <3>2. /\ creator'.rows = [creator.rows EXCEPT ![step] = Rows(db, step)] /\ creator'.at = begun.at
          /\ creator'.tables = begun.tables /\ creator'.gen = begun.gen /\ creator' \in CreatorType
        BY <1>5, <1>8, <3>1 DEF CreatorType
    <3>3. DOMAIN creator.rows = DOMAIN NoRows
        BY <1>3, Exported DEF Exports
    <3>4. \A t \in DOMAIN NoRows : \/ creator'.rows[t] = creator.rows[t]
                                   \/ creator'.rows[t] = Content(db, t)
        BY <1>7, <3>2, <3>3
    <3> QED  BY <1>5, <3>2, <3>4
  <2> QED  BY <1>6, <2>1, <2>2
<1>10. made' \in Nat /\ faults' \in Nat
    BY <1>1, Bounded DEF List
<1>11. TypeOK' /\ RunsOK' /\ ReaderInv' /\ CleanInv'
    BY <1>1, <1>3, <1>9, <1>10, CreatorFrame
<1>12. WrittenInv'
  <2>1. /\ WrittenTables(run', db') /\ WrittenTables(run', dir'.copy.tables)
        /\ WrittenTables(run', creator'.tables)
      BY <1>1, <1>9 DEF WrittenInv
  <2>2. WrittenRows(run', creator'.rows)
      BY <1>1, <1>9, ContentIs DEF WrittenInv, WrittenRows, WrittenTables
  <2>3. WrittenRows(run', dir'.json.rows) /\ WrittenRows(run', dir'.hash.rows)
      BY <1>1 DEF WrittenInv
  <2> QED  BY <2>1, <2>2, <2>3 DEF WrittenInv
<1>13. BackupInv'
  <2>1. creator'.gen <= gen' /\ creator'.at \in 2..5
      BY <1>1, <1>3, <1>4, <1>9 DEF BackupInv
  <2>2. creator'.gen = gen' => \A t \in DOMAIN NoRows : creator'.rows[t] \subseteq Content(db', t)
      BY <1>1, <1>9, NothingTyped DEF BackupInv
  <2>3. \A t \in DOMAIN NoRows : Sealed(t)' \subseteq Sealed(t)
      BY <1>1, <1>9 DEF Sealed
  <2>4. dir'.copy.sound => \A t \in DOMAIN NoRows : Sealed(t)' \subseteq Content(dir'.copy.tables, t)
      BY <1>1, <2>3 DEF BackupInv
  <2> QED  BY <1>1, <2>1, <2>2, <2>4 DEF BackupInv
<1> QED  BY <1>11, <1>12, <1>13 DEF IInv

LEMMA ExportStep == IInv /\ WriteExport => IInv'
<1> SUFFICES ASSUME IInv, WriteExport  PROVE IInv'
    OBVIOUS
<1>1. /\ TypeOK /\ RunsOK /\ WrittenInv /\ BackupInv /\ CleanInv /\ ReaderInv
      /\ UNCHANGED <<db, run, restorer, reader, gen, across, tainted, made>>
      /\ creator.at = 5 /\ Onward = 6 /\ DOMAIN Steps = 1..8
    BY StepsAre DEF IInv, WriteExport, ByCreator, history
<1>2. /\ creator \in CreatorType /\ gen \in Nat /\ dir \in DirType /\ creator.rows \in Exports
      /\ dir.copy \in CopyType /\ dir.hash \in FileType
    BY <1>1, TypedParts DEF CreatorType, DirType
<1>3. faults' \in Nat /\ made' \in Nat
    BY <1>1, Bounded DEF WriteExport
<1>4. /\ dir' \in DirType /\ dir'.copy = dir.copy /\ dir'.hash = dir.hash
      /\ creator' \in CreatorType
      /\ \/ creator' = NoBackup /\ dir'.json.rows = NoRows
         \/ /\ creator'.at = 6 /\ creator'.rows = creator.rows /\ creator'.gen = creator.gen
            /\ creator'.tables = creator.tables /\ dir'.json.rows = creator.rows
  <2>1. CASE /\ dir' = [dir EXCEPT !.json = [state |-> "whole", rows |-> creator.rows]]
             /\ creator' = [creator EXCEPT !.at = Onward]
      BY <1>1, <1>2, <2>1 DEF DirType, FileType, FileStates, CreatorType
  <2>2. CASE /\ dir' = [dir EXCEPT !.json = [state |-> "partial", rows |-> NoRows]]
             /\ creator' = NoBackup
      BY <1>2, <2>2, NothingTyped DEF DirType, FileType, FileStates
  <2> QED  BY <2>1, <2>2 DEF WriteExport
<1>5. TypeOK' /\ RunsOK' /\ ReaderInv' /\ CleanInv'
    BY <1>1, <1>3, <1>4, CreatorFrame
<1>6. CASE creator' = NoBackup /\ dir'.json.rows = NoRows
  <2>1. creator'.rows = NoRows /\ creator'.tables = NoTables /\ creator'.gen = 0 /\ creator'.at = 1
      BY <1>6 DEF NoBackup
  <2>2. WrittenInv'
      BY <1>1, <1>4, <1>6, <2>1, NothingTyped DEF WrittenInv, WrittenTables, WrittenRows
  <2>3. \A t \in DOMAIN NoRows : Sealed(t)' \subseteq Sealed(t)
      BY <1>1, <1>4, <1>6, <2>1, NothingTyped DEF Sealed
  <2>4. BackupInv'
      BY <1>1, <1>2, <1>4, <2>1, <2>3, NothingTyped DEF BackupInv
  <2> QED  BY <1>5, <2>2, <2>4 DEF IInv
<1>7. CASE /\ creator'.at = 6 /\ creator'.rows = creator.rows /\ creator'.gen = creator.gen
           /\ creator'.tables = creator.tables /\ dir'.json.rows = creator.rows
  <2>1. WrittenInv'
      BY <1>1, <1>4, <1>7 DEF WrittenInv
  <2>2. \A t \in DOMAIN NoRows : Sealed(t)' \subseteq Sealed(t)
      BY <1>1, <1>4, <1>7 DEF Sealed
  <2>3. BackupInv'
      BY <1>1, <1>4, <1>7, <2>2 DEF BackupInv
  <2> QED  BY <1>5, <2>1, <2>3 DEF IInv
<1> QED  BY <1>4, <1>6, <1>7

LEMMA CopyStep == IInv /\ CopyDatabase => IInv'
<1> SUFFICES ASSUME IInv, CopyDatabase  PROVE IInv'
    OBVIOUS
<1>1. /\ TypeOK /\ RunsOK /\ WrittenInv /\ BackupInv /\ CleanInv /\ ReaderInv
      /\ UNCHANGED <<db, run, restorer, reader, gen, across, tainted, made, faults>> /\ DOMAIN Steps = 1..8
    BY StepsAre DEF IInv, CopyDatabase, Sound, ByCreator, history
<1>2. /\ creator \in CreatorType /\ gen \in Nat /\ dir \in DirType /\ db \in Tables
      /\ creator.tables \in Tables /\ dir.copy \in CopyType /\ dir.hash \in FileType /\ dir.json \in FileType
    BY <1>1, TypedParts DEF CreatorType, DirType
<1>3. made' \in Nat /\ faults' \in Nat
    BY <1>1 DEF TypeOK
<1>4. CASE Making("copy")
  <2> DEFINE copy == [state |-> "partial", tables |-> Mixed(db, NoTables), sound |-> FALSE]
  <2>1. creator.at = 6 /\ Onward = 7
      BY <1>1, <1>4, StepsAre
  <2>2. creator' = [creator EXCEPT !.at = 7, !.tables = db] /\ dir' = [dir EXCEPT !.copy = copy]
      BY <1>1, <2>1, StepsAre DEF CopyDatabase
  <2>3. copy \in CopyType
      BY <1>2, MixedTables, NothingTyped DEF CopyType, FileStates
  <2>4. copy.state = "partial" /\ copy.sound = FALSE /\ copy.tables = Mixed(db, NoTables)
      OBVIOUS
  <2> HIDE DEF copy
  <2>5. /\ dir' \in DirType /\ dir'.copy = copy /\ dir'.hash = dir.hash /\ dir'.json = dir.json
        /\ creator' \in CreatorType /\ creator'.at = 7 /\ creator'.tables = db
        /\ creator'.rows = creator.rows /\ creator'.gen = creator.gen
    <3>1. dir' \in DirType /\ dir'.copy = copy /\ dir'.hash = dir.hash /\ dir'.json = dir.json
        BY <1>2, <2>2, <2>3 DEF DirType
    <3>2. /\ creator' \in CreatorType /\ creator'.at = 7 /\ creator'.tables = db
          /\ creator'.rows = creator.rows /\ creator'.gen = creator.gen
      <4>1. 7 \in 1..8
          OBVIOUS
      <4> QED  BY <1>2, <2>2, <4>1, CreatorFields, CreatorIs
    <3> QED  BY <3>1, <3>2
  <2>6. TypeOK' /\ RunsOK' /\ ReaderInv'
      BY <1>1, <1>3, <2>5, CreatorFrame
  <2>7. CleanInv'
      BY <1>1, <2>4, <2>5 DEF CleanInv
  <2>8. \A t \in DOMAIN NoTables : Content(copy.tables, t) \subseteq Content(db, t)
    <3>1. \A t \in DOMAIN NoTables :
            Content(copy.tables, t) = Content(db, t) \/ Content(copy.tables, t) = Content(NoTables, t)
        BY <1>2, <2>4, MixedTables, NothingTyped DEF Content
    <3> QED  BY <3>1, NothingTyped
  <2>9. WrittenInv'
      BY <1>1, <2>5, <2>8 DEF WrittenInv, WrittenTables
  <2>10. BackupInv'
      BY <1>1, <2>1, <2>4, <2>5 DEF BackupInv
  <2> QED  BY <2>6, <2>7, <2>9, <2>10 DEF IInv
<1>5. CASE Making("copied")
  <2> DEFINE copy == [state |-> IF db = creator.tables THEN "whole" ELSE "partial",
                      tables |-> Mixed(creator.tables, db),
                      sound |-> db = creator.tables /\ gen = creator.gen]
  <2>1. creator.at = 7 /\ Onward = 8
      BY <1>1, <1>5, StepsAre
  <2>2. creator' = [creator EXCEPT !.at = 8, !.tables = NoTables] /\ dir' = [dir EXCEPT !.copy = copy]
      BY <1>1, <2>1, StepsAre DEF CopyDatabase
  <2>3. copy \in CopyType
      BY <1>2, MixedTables DEF CopyType, FileStates
  <2>4. /\ copy.state # "absent" /\ (copy.state = "whole" => copy.tables = db)
        /\ copy.sound => copy.tables = db /\ gen = creator.gen
        /\ copy.tables = Mixed(creator.tables, db)
      BY <1>2, MixedTables
  <2> HIDE DEF copy
  <2>5. /\ dir' \in DirType /\ dir'.copy = copy /\ dir'.hash = dir.hash /\ dir'.json = dir.json
        /\ creator' \in CreatorType /\ creator'.at = 8 /\ creator'.tables = NoTables
        /\ creator'.rows = creator.rows /\ creator'.gen = creator.gen
    <3>1. dir' \in DirType /\ dir'.copy = copy /\ dir'.hash = dir.hash /\ dir'.json = dir.json
        BY <1>2, <2>2, <2>3 DEF DirType
    <3>2. /\ creator' \in CreatorType /\ creator'.at = 8 /\ creator'.tables = NoTables
          /\ creator'.rows = creator.rows /\ creator'.gen = creator.gen
      <4>1. 8 \in 1..8
          OBVIOUS
      <4> QED  BY <1>2, <2>2, <4>1, CreatorFields, CreatorIs, NothingTyped
    <3> QED  BY <3>1, <3>2
  <2>6. TypeOK' /\ RunsOK' /\ ReaderInv'
      BY <1>1, <1>3, <2>5, CreatorFrame
  <2>7. CleanInv'
      BY <1>1, <2>4, <2>5 DEF CleanInv
  <2>8. \A t \in DOMAIN NoTables :
          Content(copy.tables, t) = Content(creator.tables, t) \/ Content(copy.tables, t) = Content(db, t)
      BY <1>2, <2>4, MixedTables DEF Content
  <2>9. WrittenInv'
      BY <1>1, <2>5, <2>8, NothingTyped DEF WrittenInv, WrittenTables
  <2>10. dir'.json.rows = creator.rows
      BY <1>1, <2>1, <2>5 DEF BackupInv
  <2>11. copy.sound => \A t \in DOMAIN NoRows : creator.rows[t] \subseteq Content(db, t)
      BY <1>1, <2>4 DEF BackupInv
  <2>12. copy.sound => \A t \in DOMAIN NoRows : Sealed(t)' \subseteq Content(db, t)
      BY <1>1, <2>5, <2>10, <2>11 DEF Sealed
  <2>13. BackupInv'
      BY <1>1, <2>1, <2>4, <2>5, <2>10, <2>11, <2>12 DEF BackupInv
  <2> QED  BY <2>6, <2>7, <2>9, <2>13 DEF IInv
<1> QED  BY <1>4, <1>5 DEF CopyDatabase

LEMMA HashStep == IInv /\ WriteHash => IInv'
<1> SUFFICES ASSUME IInv, WriteHash  PROVE IInv'
    OBVIOUS
<1>1. /\ TypeOK /\ RunsOK /\ WrittenInv /\ BackupInv /\ CleanInv /\ ReaderInv
      /\ UNCHANGED <<db, run, restorer, reader, gen, across, tainted, made, faults>>
      /\ creator.at = 8 /\ Onward = 1 /\ DOMAIN Steps = 1..8
    BY StepsAre DEF IInv, WriteHash, Sound, ByCreator, history
<1>2. creator \in CreatorType /\ gen \in Nat /\ dir \in DirType
    BY <1>1, TypedParts DEF DirType
<1>3. made' \in Nat /\ faults' \in Nat
    BY <1>1 DEF TypeOK
<1>4. /\ dir' \in DirType /\ dir'.copy = dir.copy /\ dir'.hash = dir.json /\ dir'.json = dir.json
      /\ creator' \in CreatorType /\ creator'.at = 1 /\ creator'.tables = creator.tables
      /\ creator'.rows = NoRows /\ creator'.gen = 0
  <2>1. dir' \in DirType /\ dir'.copy = dir.copy /\ dir'.hash = dir.json /\ dir'.json = dir.json
      BY <1>2 DEF WriteHash, DirType
  <2>2. /\ creator' \in CreatorType /\ creator'.at = 1 /\ creator'.tables = creator.tables
        /\ creator'.rows = NoRows /\ creator'.gen = 0
    <3>1. creator' = [creator EXCEPT !.at = 1, !.rows = NoRows, !.gen = 0]
        BY <1>1 DEF WriteHash
    <3>2. 1 \in 1..8 /\ 0 \in Nat
        OBVIOUS
    <3> QED  BY <1>2, <3>1, <3>2, CreatorFields, CreatorIs, NothingTyped
  <2> QED  BY <2>1, <2>2
<1>5. TypeOK' /\ RunsOK' /\ ReaderInv' /\ CleanInv'
    BY <1>1, <1>3, <1>4, CreatorFrame
<1>6. WrittenInv'
    BY <1>1, <1>4, NothingTyped DEF WrittenInv, WrittenRows
<1>7. \A t \in DOMAIN NoRows : Sealed(t)' \subseteq dir.json.rows[t]
    BY <1>4 DEF Sealed
<1>8. BackupInv'
    BY <1>1, <1>2, <1>4, <1>7, NothingTyped DEF BackupInv
<1> QED  BY <1>5, <1>6, <1>8 DEF IInv

LEMMA CrashBackupStep == IInv /\ CrashBackup => IInv'
<1> SUFFICES ASSUME IInv, CrashBackup  PROVE IInv'
    OBVIOUS
<1>1. /\ TypeOK /\ RunsOK /\ WrittenInv /\ BackupInv /\ CleanInv /\ ReaderInv
      /\ UNCHANGED <<db, run, restorer, reader, gen, across, tainted, made, dir>>
      /\ creator'.at = 1 /\ creator'.rows = NoRows /\ creator'.tables = NoTables /\ creator'.gen = 0
      /\ creator' \in CreatorType
    BY NothingTyped DEF IInv, CrashBackup, ByCreator, history, NoBackup
<1>2. gen \in Nat /\ dir \in DirType /\ made' \in Nat /\ faults' \in Nat
    BY <1>1, TypedParts, Bounded DEF CrashBackup, DirType
<1>3. TypeOK' /\ RunsOK' /\ ReaderInv' /\ CleanInv'
    BY <1>1, <1>2, CreatorFrame
<1>4. WrittenInv'
    BY <1>1, NothingTyped DEF WrittenInv, WrittenRows, WrittenTables
<1>5. \A t \in DOMAIN NoRows : Sealed(t)' \subseteq Sealed(t)
    BY <1>1, NothingTyped DEF Sealed
<1>6. BackupInv'
    BY <1>1, <1>2, <1>5, NothingTyped DEF BackupInv
<1> QED  BY <1>3, <1>4, <1>6 DEF IInv

-----------------------------------------------------------------------------
(* A restore replaces the database by the copy, or part of it. *)
LEMMA VerifyStep == IInv /\ VerifyBackup => IInv'
<1> SUFFICES ASSUME IInv, VerifyBackup  PROVE IInv'
    OBVIOUS
<1>1. /\ TypeOK /\ RunsOK /\ WrittenInv /\ BackupInv /\ CleanInv /\ ReaderInv
      /\ UNCHANGED <<db, run, dir, creator, reader, made, faults, gen, across, tainted>>
      /\ restorer' \in {"idle", "copying"}
    BY DEF IInv, VerifyBackup, backups, history
<1>2. TypeOK'
    BY <1>1 DEF TypeOK
<1>3. RunsOK' /\ WrittenInv' /\ CleanInv'
    BY <1>1 DEF RunsOK, WrittenInv, CleanInv
<1>4. BackupInv'
    BY <1>1 DEF BackupInv, Sealed
<1>5. ReaderInv'
    BY <1>1 DEF ReaderInv, Undisturbed
<1> QED  BY <1>2, <1>3, <1>4, <1>5 DEF IInv

LEMMA RestoreStep == IInv /\ Restore => IInv'
<1> SUFFICES ASSUME IInv, Restore  PROVE IInv'
    OBVIOUS
<1>1. /\ TypeOK /\ RunsOK /\ WrittenInv /\ BackupInv /\ CleanInv /\ ReaderInv
      /\ UNCHANGED <<run, dir, creator, reader, made>> /\ gen' = gen + 1 /\ restorer' = "idle"
      /\ across' = across \cup {r \in Runs : UnderWay(r)}
    BY DEF IInv, Restore, backups
<1>2. dir.copy.tables \in Tables /\ db \in Tables /\ gen \in Nat /\ creator.gen \in Nat /\ reader.gen \in Nat
    BY <1>1, TypedParts DEF CopyType, CreatorType, ReaderType
<1>3. \/ db' = dir.copy.tables /\ tainted' = (tainted \/ dir.copy.state # "whole")
      \/ db' = Mixed(dir.copy.tables, db) /\ tainted' = TRUE
    BY DEF Restore
<1>4. db' \in Tables /\ faults' \in Nat /\ tainted' \in BOOLEAN
    BY <1>1, <1>2, <1>3, MixedTables, Bounded DEF Restore
<1>5. \A t \in DOMAIN NoTables : \/ Content(db', t) = Content(dir.copy.tables, t)
                                 \/ Content(db', t) = Content(db, t)
    BY <1>2, <1>3, MixedTables DEF Content
<1>6. TypeOK'
  <2>1. gen' \in Nat /\ across' \subseteq Runs
      BY <1>1, <1>2 DEF TypeOK
  <2> QED  BY <1>1, <1>4, <2>1 DEF TypeOK
<1>7. RunsOK'
    BY <1>1 DEF RunsOK
<1>8. WrittenInv'
  <2>1. WrittenTables(run', db')
      BY <1>1, <1>5 DEF WrittenInv, WrittenTables
  <2> QED  BY <1>1, <2>1 DEF WrittenInv
<1>9. BackupInv'
  <2>1. creator'.gen <= gen' /\ creator'.gen # gen'
      BY <1>1, <1>2 DEF BackupInv
  <2>2. \A t \in DOMAIN NoRows : Sealed(t)' \subseteq Sealed(t) \cup Content(dir.copy.tables, t)
      BY <1>1, <1>5, ContentIs DEF Sealed
  <2>3. dir'.copy.sound => \A t \in DOMAIN NoRows : Sealed(t)' \subseteq Content(dir'.copy.tables, t)
      BY <1>1, <2>2 DEF BackupInv
  <2> QED  BY <1>1, <2>1, <2>3 DEF BackupInv
<1>10. CleanInv'
  <2>1. ASSUME NEW r \in Runs \ across'  PROVE ~Going(run'[r])
      BY <1>1, <2>1 DEF UnderWay, Going
  <2>2. \A T : Complete(run, across, T) => Complete(run', across', T)
      BY <1>1 DEF Complete
  <2>3. ~tainted' => ~tainted /\ dir.copy.state = "whole" /\ db' = dir.copy.tables
      BY <1>3
  <2> QED  BY <1>1, <2>1, <2>2, <2>3 DEF CleanInv
<1>11. ReaderInv'
  <2>1. reader'.gen <= gen' /\ reader'.gen # gen'
      BY <1>1, <1>2 DEF ReaderInv
  <2> QED  BY <1>1, <2>1 DEF ReaderInv, Undisturbed
<1> QED  BY <1>6, <1>7, <1>8, <1>9, <1>10, <1>11 DEF IInv

-----------------------------------------------------------------------------
(* A step of a reader. *)
Reads == UNCHANGED <<db, run, dir, creator, restorer, made, gen, across, tainted>> /\ faults' \in Nat
LEMMA ReaderFrame ==
    ASSUME IInv, ByReader \/ Reads
    PROVE  /\ RunsOK' /\ WrittenInv' /\ BackupInv' /\ CleanInv'
           /\ reader' \in ReaderType => TypeOK'
<1>1. /\ TypeOK /\ RunsOK /\ WrittenInv /\ BackupInv /\ CleanInv
      /\ UNCHANGED <<db, run, dir, creator, restorer, made, gen, across, tainted>> /\ faults' \in Nat
    BY DEF IInv, ByReader, Reads, backups, history, TypeOK
<1>2. reader' \in ReaderType => TypeOK'
    BY <1>1 DEF TypeOK, ReaderType
<1>3. RunsOK' /\ WrittenInv' /\ CleanInv'
    BY <1>1 DEF RunsOK, WrittenInv, CleanInv
<1>4. BackupInv'
    BY <1>1 DEF BackupInv, Sealed
<1> QED  BY <1>2, <1>3, <1>4

(* What a reader's next state has to satisfy. *)
LEMMA ReaderGoal ==
    ASSUME IInv, ByReader \/ Reads, reader' \in ReaderType, reader'.gen <= gen,
           reader'.at = "idle" => reader'.cited = 0 /\ ~reader'.stored,
           reader'.at = "report" =>
             /\ ToSet(reader'.todo) \subseteq reader'.findings
             /\ reader'.todo # <<>> => reader'.cited < Len(Cited(Head(reader'.todo))),
           reader'.gen = gen =>
             /\ ReplayOK(run, db, reader')
             /\ ~tainted /\ reader'.run \notin across => WholeOK(run, reader')
             /\ ~tainted /\ (\A f \in reader'.findings : f.run \notin across) => ReportOK(db, reader')
    PROVE  IInv'
<1>1. UNCHANGED <<db, run, gen, across, tainted>>
    BY DEF ByReader, Reads, history
<1>2. ReaderInv'
    BY <1>1 DEF ReaderInv, Undisturbed
<1> QED  BY <1>2, ReaderFrame DEF IInv

LEMMA IdleTyped == NoReader \in ReaderType /\ NoReader.at = "idle" /\ NoReader.gen = 0 /\ NoReader.cited = 0
                   /\ NoReader.stored = FALSE /\ NoReader.findings = {} /\ NoReader.todo = <<>>
BY DEF NoReader, ReaderType, ReaderPlaces

LEMMA ForgetStep == IInv /\ Forget => IInv'
<1> SUFFICES ASSUME IInv, Forget  PROVE IInv'
    OBVIOUS
<1>1. reader' = NoReader /\ ByReader /\ TypeOK
    BY DEF Forget, IInv
<1>2. ReplayOK(run, db, NoReader) /\ WholeOK(run, NoReader) /\ ReportOK(db, NoReader)
    BY IdleTyped DEF ReplayOK, WholeOK, ReportOK, Reading
<1>3. 0 <= gen
    BY <1>1, TypedParts
<1> QED  BY <1>1, <1>2, <1>3, IdleTyped, ReaderGoal

LEMMA ReadFailsStep == IInv /\ ReadFails => IInv'
<1> SUFFICES ASSUME IInv, ReadFails  PROVE IInv'
    OBVIOUS
<1>1. TypeOK /\ ReaderInv /\ reader \in ReaderType /\ gen \in Nat /\ reader.gen <= gen
    BY TypedParts DEF IInv, ReaderInv
<1>2. Reads
  <2>1. faults' \in Nat
      BY <1>1, Bounded DEF ReadFails
  <2> QED  BY <2>1 DEF Reads, ReadFails, backups, history
<1>3. CASE reader' = NoReader
  <2>1. ReplayOK(run, db, NoReader) /\ WholeOK(run, NoReader) /\ ReportOK(db, NoReader)
      BY IdleTyped DEF ReplayOK, WholeOK, ReportOK, Reading
  <2>2. 0 <= gen
      BY <1>1
  <2> QED  BY <1>2, <1>3, <2>1, <2>2, IdleTyped, ReaderGoal
<1>4. CASE reader' = [reader EXCEPT !.at = "missing", !.erred = TRUE]
  <2>1. reader' \in ReaderType /\ reader'.at = "missing" /\ reader'.erred = TRUE /\ reader'.gen = reader.gen
      BY <1>1, <1>4 DEF ReaderType, ReaderPlaces
  <2>2. ReplayOK(run, db, reader') /\ WholeOK(run, reader') /\ ReportOK(db, reader')
      BY <2>1 DEF ReplayOK, WholeOK, ReportOK, Reading
  <2> QED  BY <1>1, <1>2, <2>1, <2>2, ReaderGoal
<1> QED  BY <1>3, <1>4 DEF ReadFails

LEMMA ResultIn ==
    ASSUME NEW T, NEW r
    PROVE  ResultsOf(r, T.results) # {} <=> HasResult(T, r)
<1>1. Content(T, "results") = ToSet(T.results)
    BY ContentIs
<1> QED  BY <1>1 DEF ResultsOf, HasResult

LEMMA StartReplayStep == ASSUME NEW r \in Runs  PROVE IInv /\ StartReplay(r) => IInv'
<1> SUFFICES ASSUME IInv, StartReplay(r)  PROVE IInv'
    OBVIOUS
<1>1. TypeOK /\ ByReader /\ reader \in ReaderType /\ gen \in Nat
    BY TypedParts DEF IInv, StartReplay
<1>2. PICK at \in {"search", "result"} :
        reader' = [reader EXCEPT !.at = at, !.run = r, !.gen = gen,
                     !.stored = IF at = "result" THEN ResultsOf(r, db.results) # {}
                                ELSE Launched(ResultsOf(r, db.results)) # {} /\ r \in db.ledger]
    BY DEF StartReplay
<1> DEFINE b == IF at = "result" THEN ResultsOf(r, db.results) # {}
                ELSE Launched(ResultsOf(r, db.results)) # {} /\ r \in db.ledger
<1>3. b \in BOOLEAN /\ (b => HasResult(db, r) /\ (at = "search" => r \in db.ledger))
    BY ResultIn DEF Launched
<1>4. reader' = [reader EXCEPT !.at = at, !.run = r, !.gen = gen, !.stored = b]
    BY <1>2
<1> HIDE DEF b
<1>5. /\ reader' \in ReaderType /\ reader'.at = at /\ reader'.run = r /\ reader'.gen = gen
      /\ reader'.stored = b
    BY <1>1, <1>3, <1>4 DEF ReaderType, ReaderPlaces
<1>6. ReplayOK(run, db, reader') /\ WholeOK(run, reader') /\ ReportOK(db, reader')
    BY <1>3, <1>5 DEF ReplayOK, WholeOK, ReportOK, Reading
<1> QED  BY <1>1, <1>5, <1>6, ReaderGoal

(* A result that is found tells what its run collected. *)
LEMMA UseIs ==
    ASSUME IInv, NEW found, found # {}, \A s \in found : s \in ToSet(db.results) /\ s.run = reader.run,
           reader' = Use(found), ByReader, reader.at \in {"search", "result"}
    PROVE  IInv'
<1> DEFINE s == CHOOSE x \in found : TRUE
<1>1. TypeOK /\ WrittenInv /\ ReaderInv /\ reader \in ReaderType /\ gen \in Nat /\ db \in Tables
    BY TypedParts DEF IInv
<1>2. s \in found
    OBVIOUS
<1>3. reader' = [reader EXCEPT !.at = "evidence", !.names = s.findings]
    BY DEF Use
<1> HIDE DEF s
<1>4. s \in Content(db, "results") /\ s.run = reader.run /\ s \in ResultRows
  <2>1. s \in ToSet(db.results) /\ s.run = reader.run
      BY <1>2
  <2>2. ToSet(db.results) \in SUBSET ResultRows
      BY <1>1, RowsTyped DEF Tables
  <2> QED  BY <2>1, <2>2, ContentIs
<1>5. HasResult(db, reader.run) /\ s.findings = Told(run[reader.run], reader.run).findings
  <2>1. Written(run, "results", s)
      BY <1>1, <1>4, ContentIs DEF WrittenInv, WrittenTables
  <2> QED  BY <1>4, <2>1 DEF Written, HasResult
<1>6. /\ reader' \in ReaderType /\ reader'.at = "evidence" /\ reader'.names = s.findings
      /\ reader'.run = reader.run /\ reader'.gen = reader.gen
      /\ reader'.stored = reader.stored /\ reader'.erred = reader.erred
    BY <1>1, <1>3, <1>4 DEF ReaderType, ReaderPlaces, ResultRows
<1>7. ReplayOK(run, db, reader') /\ WholeOK(run, reader') /\ ReportOK(db, reader')
    BY <1>5, <1>6 DEF ReplayOK, WholeOK, ReportOK, Reading
<1>8. reader.gen <= gen
    BY <1>1 DEF ReaderInv
<1> QED  BY <1>6, <1>7, <1>8, ReaderGoal

(* A search, or a look at the ledger, that goes on elsewhere. *)
LEMMA Elsewhere ==
    ASSUME IInv, NEW at \in {"ledger", "result", "missing"}, reader' = [reader EXCEPT !.at = at], ByReader,
           reader.at \in {"search", "ledger", "result"},
           Undisturbed /\ reader.stored /\ ~reader.erred => at # "missing" /\ reader.at \in {"search", "ledger"}
    PROVE  IInv'
<1>1. TypeOK /\ ReaderInv /\ reader \in ReaderType /\ gen \in Nat
    BY TypedParts DEF IInv
<1>2. /\ reader' \in ReaderType /\ reader'.at = at /\ reader'.run = reader.run
      /\ reader'.gen = reader.gen /\ reader'.stored = reader.stored /\ reader'.erred = reader.erred
    BY <1>1 DEF ReaderType, ReaderPlaces
<1>3. WholeOK(run, reader') /\ ReportOK(db, reader')
    BY <1>2 DEF WholeOK, ReportOK
<1>4. reader.gen <= gen
    BY <1>1 DEF ReaderInv
<1>5. reader.gen = gen => ReplayOK(run, db, reader')
    BY <1>1, <1>2 DEF ReaderInv, Undisturbed, ReplayOK, Reading
<1> QED  BY <1>1, <1>2, <1>3, <1>4, <1>5, ReaderGoal

LEMMA SearchStep == IInv /\ SearchResults => IInv'
<1> SUFFICES ASSUME IInv, SearchResults  PROVE IInv'
    OBVIOUS
<1> DEFINE found == Launched(ResultsOf(reader.run, Newest(db.results, RecentResults)))
<1>1. /\ ByReader /\ reader.at = "search" /\ db \in Tables /\ RecentResults \in Nat
      /\ reader' = IF found # {} THEN Use(found) ELSE [reader EXCEPT !.at = Fallback]
    BY TypedParts, RecordsAssumption DEF IInv, SearchResults, ReaderAt
<1>2. ToSet(Newest(db.results, RecentResults)) \subseteq ToSet(db.results)
    BY <1>1, NewestRows DEF Tables
<1>3. \A s \in found : s \in ToSet(db.results) /\ s.run = reader.run
    BY <1>2 DEF Launched, ResultsOf
<1> HIDE DEF found
<1>4. CASE found # {}
    BY <1>1, <1>3, <1>4, UseIs
<1>5. CASE found = {}
    BY <1>1, <1>5, Elsewhere DEF Fallback
<1> QED  BY <1>4, <1>5

LEMMA ReadLedgerStep == IInv /\ ReadLedger => IInv'
<1> SUFFICES ASSUME IInv, ReadLedger  PROVE IInv'
    OBVIOUS
<1> DEFINE at == IF reader.run \in db.ledger THEN "result" ELSE "missing"
<1>1. ByReader /\ reader.at = "ledger" /\ reader' = [reader EXCEPT !.at = at]
    BY DEF ReadLedger, ReaderAt
<1>2. Undisturbed /\ reader.stored /\ ~reader.erred => reader.run \in db.ledger
    BY <1>1 DEF IInv, ReaderInv, ReplayOK
<1>3. at \in {"ledger", "result", "missing"} /\ (Undisturbed /\ reader.stored /\ ~reader.erred => at # "missing")
    BY <1>2
<1> HIDE DEF at
<1> QED  BY <1>1, <1>3, Elsewhere

LEMMA ReadResultStep == IInv /\ ReadResult => IInv'
<1> SUFFICES ASSUME IInv, ReadResult  PROVE IInv'
    OBVIOUS
<1> DEFINE found == ResultsOf(reader.run, db.results)
<1>1. /\ ByReader /\ reader.at = "result"
      /\ reader' = IF found # {} THEN Use(found) ELSE [reader EXCEPT !.at = "missing"]
    BY DEF ReadResult, ReaderAt
<1>2. \A s \in found : s \in ToSet(db.results) /\ s.run = reader.run
    BY DEF ResultsOf
<1>3. Undisturbed /\ reader.stored /\ ~reader.erred => found # {}
    BY ResultIn DEF IInv, ReaderInv, ReplayOK
<1> HIDE DEF found
<1>4. CASE found # {}
    BY <1>1, <1>2, <1>4, UseIs
<1>5. CASE found = {}
    BY <1>1, <1>3, <1>5, Elsewhere
<1> QED  BY <1>4, <1>5

(* All that a run with a result stored is there. *)
LEMMA WholeRun ==
    ASSUME IInv, ~tainted, NEW r, r \notin across, HasResult(db, r)
    PROVE  /\ r \in Runs /\ run[r] \in RunType
           /\ HasBegun(db, run[r], r) /\ HasEvent(db, r, "finished") /\ HasAll(db, run[r], r)
           /\ ~run[r].failed => run[r].done = Len(run[r].plan) /\ run[r].parts = 0
<1>1. TypeOK /\ RunsOK /\ WrittenInv /\ CleanInv /\ db \in Tables
    BY TypedParts DEF IInv
<1>2. PICK s \in Content(db, "results") : s.run = r
    BY DEF HasResult
<1>3. Written(run, "results", s)
    BY <1>1, <1>2, ContentIs DEF WrittenInv, WrittenTables
<1>4. r \in Runs /\ (~run[r].failed => run[r].done = Len(run[r].plan))
    BY <1>2, <1>3 DEF Written
<1>5. ~run[r].failed => run[r].parts = 0
    BY <1>1, <1>4 DEF RunsOK, RunOK
<1>6. run[r] \in RunType
    BY <1>1, <1>4, TypedParts
<1>7. HasBegun(db, run[r], r) /\ HasEvent(db, r, "finished") /\ HasAll(db, run[r], r)
    BY <1>1, <1>4 DEF CleanInv, Complete
<1> QED  BY <1>4, <1>5, <1>6, <1>7

LEMMA AllEvidence ==
    ASSUME IInv, ~tainted, NEW r, r \notin across, HasResult(db, r), ~run[r].failed
    PROVE  {e \in db.evidence : e.run = r} = Proofs(run[r], r)
<1>1. /\ r \in Runs /\ HasAll(db, run[r], r) /\ run[r].done = Len(run[r].plan) /\ run[r].parts = 0
      /\ run[r].plan \in Seq(Grades)
    BY WholeRun DEF RunType
<1>2. db \in Tables /\ WrittenInv /\ Content(db, "evidence") = db.evidence /\ db.evidence \subseteq EvidenceRows
    BY TypedParts, ContentIs DEF IInv, Tables
<1>3. DOMAIN run[r].plan = 1..run[r].done
    BY <1>1
<1>4. ASSUME NEW e \in db.evidence, e.run = r  PROVE e \in Proofs(run[r], r)
  <2>1. Written(run, "evidence", e)
      BY <1>2, ContentIs DEF WrittenInv, WrittenTables
  <2>2. e.k \in 1..run[r].done /\ e.part \in 1..Parts(run[r].plan[e.k])
      BY <1>1, <1>4, <2>1 DEF Written
  <2>3. e = [run |-> e.run, k |-> e.k, part |-> e.part]
      BY <1>2 DEF EvidenceRows
  <2>4. e \in [run : {r}, k : {e.k}, part : 1..Parts(run[r].plan[e.k])]
      BY <1>4, <2>2, <2>3
  <2> QED  BY <1>3, <2>2, <2>4 DEF Proofs
<1>5. ASSUME NEW e \in Proofs(run[r], r)  PROVE e \in db.evidence /\ e.run = r
  <2>1. PICK k \in 1..run[r].done : e \in [run : {r}, k : {k}, part : 1..Parts(run[r].plan[k])]
      BY <1>3 DEF Proofs
  <2>2. e = [run |-> r, k |-> k, part |-> e.part] /\ e.part \in 1..Parts(run[r].plan[k]) /\ e.run = r
      BY <2>1
  <2>3. HasEvidence(db, r, k, Parts(run[r].plan[k]))
      BY <1>1 DEF HasAll
  <2> QED  BY <1>2, <2>2, <2>3 DEF HasEvidence
<1> QED  BY <1>4, <1>5

LEMMA AllFindings ==
    ASSUME IInv, ~tainted, NEW r, r \notin across, HasResult(db, r), ~run[r].failed
    PROVE  Told(run[r], r).findings \cap ToSet(db.findings) = Observations(run[r], r)
<1>1. /\ HasAll(db, run[r], r) /\ run[r].done = Len(run[r].plan) /\ run[r].plan \in Seq(Grades)
    BY WholeRun DEF RunType
<1>2. DOMAIN run[r].plan = 1..run[r].done /\ Content(db, "findings") = ToSet(db.findings)
    BY <1>1, ContentIs
<1>3. Told(run[r], r).findings = Observations(run[r], r)
    BY <1>2 DEF Told, Observations
<1>4. Observations(run[r], r) \subseteq ToSet(db.findings)
    BY <1>1, <1>2 DEF HasAll, Observations
<1> QED  BY <1>3, <1>4

LEMMA AllEvents ==
    ASSUME IInv, ~tainted, NEW r, r \notin across, HasResult(db, r)
    PROVE  Shown(run[r], {x \in ToSet(db.events) : x.run = r})
<1>1. db \in Tables /\ Content(db, "events") = ToSet(db.events)
    BY TypedParts, ContentIs DEF IInv
<1>2. /\ run[r].launched => [run |-> r, event |-> "begun"] \in ToSet(db.events)
      /\ [run |-> r, event |-> "finished"] \in ToSet(db.events)
    BY <1>1, WholeRun DEF HasBegun, HasEvent
<1> QED  BY <1>2 DEF Shown

LEMMA ReadRowsStep == IInv /\ ReadRows => IInv'
<1> SUFFICES ASSUME IInv, ReadRows  PROVE IInv'
    OBVIOUS
<1>1. /\ TypeOK /\ ReaderInv /\ ByReader /\ reader \in ReaderType /\ gen \in Nat /\ db \in Tables
      /\ reader.gen <= gen /\ RecentEvents \in Nat
    BY TypedParts, RecordsAssumption DEF IInv, ReadRows, ReaderInv
<1> DEFINE r == reader.run
           good == ~tainted /\ r \notin across
<1>2. reader.gen = gen /\ reader.at \in Reading =>
        /\ HasResult(db, r) /\ reader.names = Told(run[r], r).findings
        /\ ReplayOK(run, db, reader) /\ (good => WholeOK(run, reader))
    BY <1>1 DEF ReaderInv, Undisturbed, ReplayOK
<1>3. CASE /\ reader.at = "evidence"
           /\ reader' = [reader EXCEPT !.at = "findings", !.evidence = {e \in db.evidence : e.run = reader.run}]
  <2> DEFINE E == {e \in db.evidence : e.run = r}
  <2>1. E \in SUBSET EvidenceRows /\ reader' = [reader EXCEPT !.at = "findings", !.evidence = E]
      BY <1>1, <1>3 DEF Tables
  <2>2. reader.gen = gen /\ good /\ ~run[r].failed => E = Proofs(run[r], r)
      BY <1>2, <1>3, AllEvidence DEF Reading
  <2> HIDE DEF E
  <2>3. /\ reader' \in ReaderType /\ reader'.at = "findings" /\ reader'.run = r /\ reader'.gen = reader.gen
        /\ reader'.stored = reader.stored /\ reader'.erred = reader.erred /\ reader'.names = reader.names /\ reader'.evidence = E
      BY <1>1, <2>1 DEF ReaderType, ReaderPlaces
  <2>4. ReportOK(db, reader')
      BY <2>3 DEF ReportOK
  <2>5. reader.gen = gen => ReplayOK(run, db, reader')
      BY <1>2, <1>3, <2>3 DEF ReplayOK, Reading
  <2>6. reader.gen = gen /\ good => WholeOK(run, reader')
      BY <2>2, <2>3 DEF WholeOK
  <2> QED  BY <1>1, <2>3, <2>4, <2>5, <2>6, ReaderGoal
<1>4. CASE /\ reader.at = "findings"
           /\ reader' = [reader EXCEPT !.at = "events", !.findings = reader.names \cap ToSet(db.findings)]
  <2> DEFINE F == reader.names \cap ToSet(db.findings)
  <2>1. F \in SUBSET FindingRows /\ reader' = [reader EXCEPT !.at = "events", !.findings = F]
      BY <1>1, <1>4 DEF ReaderType
  <2>2. reader.gen = gen /\ good /\ ~run[r].failed => F = Observations(run[r], r)
      BY <1>2, <1>4, AllFindings DEF Reading
  <2> HIDE DEF F
  <2>3. /\ reader' \in ReaderType /\ reader'.at = "events" /\ reader'.run = r /\ reader'.gen = reader.gen
        /\ reader'.stored = reader.stored /\ reader'.erred = reader.erred /\ reader'.names = reader.names
        /\ reader'.evidence = reader.evidence /\ reader'.findings = F
      BY <1>1, <2>1 DEF ReaderType, ReaderPlaces
  <2>4. ReportOK(db, reader')
      BY <2>3 DEF ReportOK
  <2>5. reader.gen = gen => ReplayOK(run, db, reader')
      BY <1>2, <1>4, <2>3 DEF ReplayOK, Reading
  <2>6. reader.gen = gen /\ good => WholeOK(run, reader')
      BY <1>2, <1>4, <2>2, <2>3 DEF WholeOK, Reading
  <2> QED  BY <1>1, <2>3, <2>4, <2>5, <2>6, ReaderGoal
<1>5. CASE /\ reader.at = "events"
           /\ reader' = [reader EXCEPT !.at = "replayed", !.all = Len(db.events) <= RecentEvents,
                           !.events = {e \in ToSet(Newest(db.events, RecentEvents)) : e.run = reader.run}]
  <2> DEFINE b == Len(db.events) <= RecentEvents
             V == {e \in ToSet(Newest(db.events, RecentEvents)) : e.run = r}
  <2>1. /\ b \in BOOLEAN /\ reader' = [reader EXCEPT !.at = "replayed", !.all = b, !.events = V]
        /\ b => Newest(db.events, RecentEvents) = db.events
        /\ V \in SUBSET EventRows
    <3>1. /\ ToSet(Newest(db.events, RecentEvents)) \subseteq ToSet(db.events)
          /\ b => Newest(db.events, RecentEvents) = db.events
        BY <1>1, NewestRows DEF Tables
    <3>2. ToSet(db.events) \in SUBSET EventRows
        BY <1>1, RowsTyped DEF Tables
    <3> QED  BY <1>5, <3>1, <3>2
  <2>2. reader.gen = gen /\ good /\ b => Shown(run[r], V)
    <3>1. b => V = {x \in ToSet(db.events) : x.run = r}
        BY <2>1
    <3>2. reader.gen = gen /\ good => Shown(run[r], {x \in ToSet(db.events) : x.run = r})
        BY <1>2, <1>5, AllEvents DEF Reading
    <3> HIDE DEF V, b
    <3> QED  BY <3>1, <3>2
  <2> HIDE DEF b, V
  <2>3. /\ reader' \in ReaderType /\ reader'.at = "replayed" /\ reader'.run = r /\ reader'.gen = reader.gen
        /\ reader'.stored = reader.stored /\ reader'.erred = reader.erred /\ reader'.names = reader.names
        /\ reader'.evidence = reader.evidence /\ reader'.findings = reader.findings
        /\ reader'.all = b /\ reader'.events = V
      BY <1>1, <2>1 DEF ReaderType, ReaderPlaces
  <2>4. ReportOK(db, reader')
      BY <2>3 DEF ReportOK
  <2>5. reader.gen = gen => ReplayOK(run, db, reader')
      BY <1>2, <1>5, <2>3 DEF ReplayOK, Reading
  <2>6. reader.gen = gen /\ good => WholeOK(run, reader')
      BY <1>2, <1>5, <2>2, <2>3 DEF WholeOK, Reading
  <2> QED  BY <1>1, <2>3, <2>4, <2>5, <2>6, ReaderGoal
<1> QED  BY <1>3, <1>4, <1>5 DEF ReadRows, ReaderAt

(* What a report cites. *)
LEMMA CitedIs ==
    ASSUME NEW f
    PROVE  /\ Len(Cited(f)) \in {1, 3}
           /\ \A n \in 1..Len(Cited(f)) : Cited(f)[n] \in 1..Parts(f.grade)
BY DEF Cited, Parts

LEMMA StartReportStep == IInv /\ StartReport => IInv'
<1> SUFFICES ASSUME IInv, StartReport  PROVE IInv'
    OBVIOUS
<1>1. /\ TypeOK /\ ReaderInv /\ CleanInv /\ WrittenInv /\ ByReader /\ reader \in ReaderType /\ gen \in Nat
      /\ db \in Tables /\ RecentFindings \in Nat /\ reader.at = "idle" /\ reader.cited = 0 /\ ~reader.stored
    BY TypedParts, RecordsAssumption DEF IInv, StartReport, ReaderInv, ReaderAt
<1> DEFINE listed == Newest(db.findings, RecentFindings)
           L == ToSet(listed)
<1>2. reader' = [reader EXCEPT !.at = "report", !.gen = gen, !.findings = L, !.todo = listed]
    BY DEF StartReport
<1>3. listed \in Seq(FindingRows) /\ L \subseteq ToSet(db.findings)
    BY <1>1, NewestRows DEF Tables
<1>4. L \in SUBSET FindingRows
  <2>1. ToSet(db.findings) \in SUBSET FindingRows
      BY <1>1, RowsTyped DEF Tables
  <2> QED  BY <1>3, <2>1
<1>5. ASSUME ~tainted, NEW f \in L, f.run \notin across
      PROVE  HasEvidence(db, f.run, f.k, Parts(f.grade))
  <2>1. f \in Content(db, "findings") /\ f.run \in Runs
      BY <1>3, <1>4, ContentIs DEF FindingRows
  <2> QED  BY <1>1, <1>5, <2>1 DEF CleanInv, Complete
<1>6. ToSet(listed) \subseteq L
    OBVIOUS
<1> HIDE DEF L, listed
<1>7. /\ reader' \in ReaderType /\ reader'.at = "report" /\ reader'.gen = gen /\ reader'.findings = L
      /\ reader'.todo = listed /\ reader'.stored = reader.stored /\ reader'.run = reader.run
      /\ reader'.cited = 0
    BY <1>1, <1>2, <1>3, <1>4 DEF ReaderType, ReaderPlaces
<1>8. listed # <<>> => 0 < Len(Cited(Head(listed)))
  <2>1. Len(Cited(Head(listed))) \in {1, 3}
      BY CitedIs
  <2>2. \A n \in {1, 3} : 0 < n
      OBVIOUS
  <2> QED  BY <2>1, <2>2
<1>9. ReplayOK(run, db, reader') /\ WholeOK(run, reader')
    BY <1>1, <1>7 DEF ReplayOK, WholeOK, Reading
<1>10. ~tainted /\ (\A f \in L : f.run \notin across) => ReportOK(db, reader')
    BY <1>5, <1>7 DEF ReportOK
<1> QED  BY <1>1, <1>6, <1>7, <1>8, <1>9, <1>10, ReaderGoal

LEMMA CheckCitationStep == IInv /\ CheckCitation => IInv'
<1> SUFFICES ASSUME IInv, CheckCitation  PROVE IInv'
    OBVIOUS
<1>1. /\ TypeOK /\ ReaderInv /\ ByReader /\ reader \in ReaderType /\ gen \in Nat /\ reader.at = "report"
      /\ reader.todo \in Seq(FindingRows) /\ reader.cited \in Nat /\ reader.gen <= gen
      /\ ToSet(reader.todo) \subseteq reader.findings
    BY TypedParts DEF IInv, CheckCitation, ReaderInv, ReaderAt, ReaderType
<1>2. reader.gen = gen =>
        /\ ReplayOK(run, db, reader)
        /\ ~tainted /\ (\A f \in reader.findings : f.run \notin across) => ReportOK(db, reader)
    BY <1>1 DEF ReaderInv, Undisturbed
<1>3. ASSUME NEW at \in {"reported", "rejected", "report"}, reader'.at = at, reader' \in ReaderType,
             reader'.run = reader.run, reader'.gen = reader.gen, reader'.stored = reader.stored,
             reader'.erred = reader.erred, reader'.findings = reader.findings
      PROVE  /\ reader.gen = gen => ReplayOK(run, db, reader')
             /\ WholeOK(run, reader')
             /\ at # "rejected" /\ ReportOK(db, reader) => ReportOK(db, reader')
  <2>1. reader.gen = gen => ReplayOK(run, db, reader')
      BY <1>1, <1>2, <1>3 DEF ReplayOK, Reading
  <2>2. WholeOK(run, reader')
      BY <1>3 DEF WholeOK
  <2>3. at # "rejected" /\ ReportOK(db, reader) => ReportOK(db, reader')
      BY <1>1, <1>3 DEF ReportOK
  <2> QED  BY <2>1, <2>2, <2>3
<1>4. CASE reader.todo = <<>> /\ reader' = [reader EXCEPT !.at = "reported"]
  <2>1. /\ reader' \in ReaderType /\ reader'.at = "reported" /\ reader'.run = reader.run
        /\ reader'.gen = reader.gen /\ reader'.stored = reader.stored
        /\ reader'.erred = reader.erred /\ reader'.findings = reader.findings
      BY <1>1, <1>4 DEF ReaderType, ReaderPlaces
  <2> QED  BY <1>1, <1>2, <1>3, <2>1, ReaderGoal
<1>5. CASE reader.todo # <<>>
  <2> DEFINE f == Head(reader.todo)
             n == reader.cited + 1
  <2>1. /\ f \in FindingRows /\ f \in reader.findings /\ n \in Nat /\ n \in 1..Len(Cited(f))
        /\ Tail(reader.todo) \in Seq(FindingRows) /\ ToSet(Tail(reader.todo)) \subseteq reader.findings
        /\ Cited(f)[n] \in 1..Parts(f.grade)
    <3>1. f \in FindingRows /\ Tail(reader.todo) \in Seq(FindingRows)
        BY <1>1, <1>5
    <3>2. f \in ToSet(reader.todo)
        BY <1>1, <1>5 DEF ToSet
    <3>3. ToSet(Tail(reader.todo)) \subseteq ToSet(reader.todo)
      <4>1. \A i \in DOMAIN Tail(reader.todo) :
              i + 1 \in DOMAIN reader.todo /\ Tail(reader.todo)[i] = reader.todo[i + 1]
          BY <1>1, <1>5
      <4> QED  BY <4>1 DEF ToSet
    <3>4. n \in Nat /\ n \in 1..Len(Cited(f))
      <4>1. reader.cited < Len(Cited(f)) /\ Len(Cited(f)) \in {1, 3}
          BY <1>1, <1>5, CitedIs DEF ReaderInv
      <4>2. \A c \in Nat : \A l \in {1, 3} : c < l => c + 1 \in Nat /\ c + 1 \in 1..l
          OBVIOUS
      <4> QED  BY <1>1, <4>1, <4>2
    <3>5. Cited(f)[n] \in 1..Parts(f.grade)
        BY <3>4, CitedIs
    <3> QED  BY <1>1, <3>1, <3>2, <3>3, <3>4, <3>5
  <2>2. \/ /\ [run |-> f.run, k |-> f.k, part |-> Cited(f)[n]] \notin db.evidence
           /\ reader' = [reader EXCEPT !.at = "rejected"]
        \/ n < Len(Cited(f)) /\ reader' = [reader EXCEPT !.cited = n]
        \/ reader' = [reader EXCEPT !.todo = Tail(reader.todo), !.cited = 0]
    <3>1. IF [run |-> f.run, k |-> f.k, part |-> Cited(f)[n]] \notin db.evidence
          THEN reader' = [reader EXCEPT !.at = "rejected"]
          ELSE IF n < Len(Cited(f)) THEN reader' = [reader EXCEPT !.cited = n]
          ELSE reader' = [reader EXCEPT !.todo = Tail(@), !.cited = 0]
        BY <1>5 DEF CheckCitation
    <3> HIDE DEF f, n
    <3> QED  BY <3>1
  <2> DEFINE l == Len(Cited(f))
             rest == Tail(reader.todo)
  <2>3. f = Head(reader.todo) /\ l = Len(Cited(Head(reader.todo)))
      OBVIOUS
  <2>4. CASE /\ [run |-> f.run, k |-> f.k, part |-> Cited(f)[n]] \notin db.evidence
             /\ reader' = [reader EXCEPT !.at = "rejected"]
    <3>1. /\ reader' \in ReaderType /\ reader'.at = "rejected" /\ reader'.run = reader.run
          /\ reader'.gen = reader.gen /\ reader'.stored = reader.stored
          /\ reader'.erred = reader.erred /\ reader'.findings = reader.findings
        BY <1>1, <2>4 DEF ReaderType, ReaderPlaces
    <3>2. ~ReportOK(db, reader)
      <4> SUFFICES ASSUME ReportOK(db, reader)  PROVE FALSE
          OBVIOUS
      <4>1. HasEvidence(db, f.run, f.k, Parts(f.grade))
          BY <1>1, <2>1 DEF ReportOK
      <4>2. [run |-> f.run, k |-> f.k, part |-> Cited(f)[n]] \in Content(db, "evidence")
          BY <2>1, <4>1 DEF HasEvidence
      <4> QED  BY <2>4, <4>2, ContentIs
    <3> QED  BY <1>1, <1>2, <1>3, <3>1, <3>2, ReaderGoal
  <2>5. CASE n < Len(Cited(f)) /\ reader' = [reader EXCEPT !.cited = n]
    <3>0. n \in Nat /\ n < l /\ reader' = [reader EXCEPT !.cited = n]
        BY <2>1, <2>5
    <3> HIDE DEF n, l
    <3>1. /\ reader' \in ReaderType /\ reader'.at = "report" /\ reader'.run = reader.run
          /\ reader'.gen = reader.gen /\ reader'.stored = reader.stored
          /\ reader'.erred = reader.erred /\ reader'.findings = reader.findings
          /\ reader'.todo = reader.todo /\ reader'.cited = n
        BY <1>1, <3>0 DEF ReaderType, ReaderPlaces
    <3>2. reader'.cited < Len(Cited(Head(reader'.todo)))
        BY <2>3, <3>0, <3>1
    <3> QED  BY <1>1, <1>2, <1>3, <3>1, <3>2, ReaderGoal
  <2>6. CASE reader' = [reader EXCEPT !.todo = rest, !.cited = 0]
    <3>0. rest \in Seq(FindingRows) /\ ToSet(rest) \subseteq reader.findings
        BY <2>1
    <3> HIDE DEF rest
    <3>1. /\ reader' \in ReaderType /\ reader'.at = "report" /\ reader'.run = reader.run
          /\ reader'.gen = reader.gen /\ reader'.stored = reader.stored
          /\ reader'.erred = reader.erred /\ reader'.findings = reader.findings
          /\ reader'.todo = rest /\ reader'.cited = 0
        BY <1>1, <2>6, <3>0 DEF ReaderType, ReaderPlaces
    <3>2. reader'.cited < Len(Cited(Head(reader'.todo)))
      <4>1. Len(Cited(Head(reader'.todo))) \in {1, 3}
          BY CitedIs
      <4>2. \A m \in {1, 3} : 0 < m
          OBVIOUS
      <4> QED  BY <3>1, <4>1, <4>2
    <3> QED  BY <1>1, <1>2, <1>3, <3>0, <3>1, <3>2, ReaderGoal
  <2> QED  BY <2>2, <2>4, <2>5, <2>6
<1> QED  BY <1>4, <1>5 DEF CheckCitation

-----------------------------------------------------------------------------
(* At the beginning the tables hold what the earlier runs left. *)
LEMMA Halves ==
    ASSUME NEW n \in Nat
    PROVE  /\ \A i \in 1..(2 * n) : (i + 1) \div 2 \in 1..n
           /\ \A j \in 1..n : /\ 2 * j - 1 \in 1..(2 * n) /\ ((2 * j - 1) + 1) \div 2 = j /\ (2 * j - 1) % 2 = 1
                              /\ 2 * j \in 1..(2 * n) /\ (2 * j + 1) \div 2 = j /\ (2 * j) % 2 = 0
OBVIOUS

Past(p, r) ==
    /\ p.at = "end" /\ p.plan = PastPlan(r) /\ p.done = Len(PastPlan(r)) /\ p.parts = 0
    /\ p.launched = TRUE /\ p.failed = FALSE
LEMMA Pasts ==
    /\ Before \subseteq Runs /\ Before = {Earlier[i] : i \in 1..Len(Earlier)} /\ Len(Earlier) \in Nat
    /\ \A r \in Before : PastPlan(r) \in Seq(Grades) /\ PastFindings(r) \subseteq FindingRows
    /\ ToSet(EarlierFindings) = UNION {PastFindings(r) : r \in Before}
    /\ EarlierFindings \in Seq(FindingRows)
<1>1. Before \subseteq Runs /\ Before = {Earlier[i] : i \in 1..Len(Earlier)} /\ Len(Earlier) \in Nat
  <2>1. Earlier \in Seq(Runs)
      BY EarlierAssumption
  <2>2. ToSet(Earlier) \in SUBSET Runs
      BY <2>1, RowsTyped
  <2> QED  BY <2>1, <2>2 DEF Before, ToSet
<1>2. ASSUME NEW r \in Before  PROVE PastPlan(r) \in Seq(Grades) /\ PastFindings(r) \subseteq FindingRows
  <2>1. (CHOOSE plan \in Plans[r] : plan.launched) \in Plans[r]
      BY EarlierAssumption
  <2>2. PastPlan(r) \in Seq(Grades)
      BY <1>1, <1>2, <2>1, RecordsAssumption DEF PastPlan
  <2> QED  BY <1>1, <2>2 DEF PastFindings, FindingRows
<1>3. ToSet(EarlierFindings) = UNION {PastFindings(r) : r \in Before}
    BY EarlierAssumption
<1>4. EarlierFindings \in Seq(FindingRows)
  <2>1. ToSet(EarlierFindings) \subseteq FindingRows
      BY <1>2, <1>3
  <2>2. EarlierFindings \in Seq(ToSet(EarlierFindings))
      BY EarlierAssumption
  <2>3. /\ DOMAIN EarlierFindings = 1..Len(EarlierFindings) /\ Len(EarlierFindings) \in Nat
        /\ \A i \in 1..Len(EarlierFindings) : EarlierFindings[i] \in FindingRows
        /\ EarlierFindings = [i \in 1..Len(EarlierFindings) |-> EarlierFindings[i]]
      BY <2>1, <2>2
  <2> QED  BY <2>3
<1> QED  BY <1>1, <1>2, <1>3, <1>4

LEMMA PastRows ==
    /\ Content(PastTables, "events") = {[run |-> r, event |-> e] : r \in Before, e \in {"begun", "finished"}}
    /\ Content(PastTables, "workers") = Before /\ Content(PastTables, "ledger") = Before
    /\ Content(PastTables, "evidence") =
         UNION {[run : {f.run}, k : {f.k}, part : 1..Parts(f.grade)] : f \in ToSet(EarlierFindings)}
    /\ Content(PastTables, "findings") = ToSet(EarlierFindings)
    /\ Content(PastTables, "results") =
         {[run |-> r, launched |-> TRUE, findings |-> PastFindings(r)] : r \in Before}
    /\ PastTables \in Tables
<1> DEFINE n == Len(Earlier)
           events == [i \in 1..(2 * n) |-> [run |-> Earlier[(i + 1) \div 2],
                                            event |-> IF i % 2 = 1 THEN "begun" ELSE "finished"]]
           results == [i \in 1..n |-> [run |-> Earlier[i], launched |-> TRUE, findings |-> PastFindings(Earlier[i])]]
           evidence == UNION {[run : {f.run}, k : {f.k}, part : 1..Parts(f.grade)] : f \in ToSet(EarlierFindings)}
           P == PastTables
<1>1. n \in Nat /\ DOMAIN Earlier = 1..n /\ Before = {Earlier[i] : i \in 1..n} /\ Before \subseteq Runs
    BY Pasts, EarlierAssumption
<1>2. /\ P.events = events /\ P.workers = Before /\ P.evidence = evidence
      /\ P.findings = EarlierFindings /\ P.ledger = Before /\ P.results = results
      /\ P = [events |-> events, workers |-> Before, evidence |-> evidence, findings |-> EarlierFindings,
              ledger |-> Before, results |-> results]
    BY <1>1 DEF PastTables
<1>3. /\ events \in Seq(EventRows)
      /\ ToSet(events) = {[run |-> r, event |-> e] : r \in Before, e \in {"begun", "finished"}}
  <2>1. \A i \in 1..(2 * n) : (i + 1) \div 2 \in 1..n
      BY <1>1, Halves
  <2>2. ASSUME NEW i \in 1..(2 * n)
        PROVE  /\ events[i] \in EventRows
               /\ events[i] \in {[run |-> r, event |-> e] : r \in Before, e \in {"begun", "finished"}}
    <3> DEFINE q == Earlier[(i + 1) \div 2]
               v == IF i % 2 = 1 THEN "begun" ELSE "finished"
    <3>1. q \in Before /\ q \in Runs /\ v \in {"begun", "finished"}
        BY <1>1, <2>1
    <3>2. events[i] = [run |-> q, event |-> v]
        OBVIOUS
    <3> HIDE DEF q, v, events
    <3>3. [run |-> q, event |-> v] \in {[run |-> r, event |-> e] : r \in Before, e \in {"begun", "finished"}}
        BY <3>1
    <3> QED  BY <3>1, <3>2, <3>3 DEF EventRows
  <2>3. ASSUME NEW j \in 1..n
        PROVE  /\ [run |-> Earlier[j], event |-> "begun"] \in ToSet(events)
               /\ [run |-> Earlier[j], event |-> "finished"] \in ToSet(events)
    <3>1. /\ 2 * j - 1 \in 1..(2 * n) /\ ((2 * j - 1) + 1) \div 2 = j /\ (2 * j - 1) % 2 = 1
          /\ 2 * j \in 1..(2 * n) /\ (2 * j + 1) \div 2 = j /\ (2 * j) % 2 = 0
        BY <1>1, Halves
    <3>2. /\ events[2 * j - 1] = [run |-> Earlier[j], event |-> "begun"]
          /\ events[2 * j] = [run |-> Earlier[j], event |-> "finished"]
        BY <3>1
    <3>3. DOMAIN events = 1..(2 * n)
        OBVIOUS
    <3> HIDE DEF events
    <3> QED  BY <3>1, <3>2, <3>3 DEF ToSet
  <2>4. 2 * n \in Nat /\ DOMAIN events = 1..(2 * n)
      BY <1>1
  <2>5. events \in Seq(EventRows)
    <3> DEFINE m == 2 * n
    <3>1. m \in Nat /\ events = [i \in 1..m |-> events[i]] /\ \A i \in 1..m : events[i] \in EventRows
        BY <2>2, <2>4
    <3> HIDE DEF m, events
    <3>2. events \in [1..m -> EventRows]
        BY <3>1
    <3> QED  BY <3>1, <3>2
  <2> HIDE DEF events
  <2>6. ToSet(events) \subseteq {[run |-> r, event |-> e] : r \in Before, e \in {"begun", "finished"}}
      BY <2>2, <2>4 DEF ToSet
  <2>7. {[run |-> r, event |-> e] : r \in Before, e \in {"begun", "finished"}} \subseteq ToSet(events)
    <3>1. ASSUME NEW x, \E r \in Before : \E e \in {"begun", "finished"} : x = [run |-> r, event |-> e]
          PROVE  x \in ToSet(events)
      <4>1. PICK r \in Before : x = [run |-> r, event |-> "begun"] \/ x = [run |-> r, event |-> "finished"]
          BY <3>1
      <4>2. PICK j \in 1..n : r = Earlier[j]
          BY <1>1
      <4> QED  BY <2>3, <4>1, <4>2
    <3> QED  BY <3>1
  <2> QED  BY <2>5, <2>6, <2>7
<1>4. /\ results \in Seq(ResultRows)
      /\ ToSet(results) = {[run |-> r, launched |-> TRUE, findings |-> PastFindings(r)] : r \in Before}
  <2>1. \A i \in 1..n : Earlier[i] \in Before /\ results[i] \in ResultRows
      BY <1>1, Pasts DEF ResultRows
  <2>2. results \in Seq(ResultRows)
      BY <1>1, <2>1
  <2>3. DOMAIN results = 1..n
      OBVIOUS
  <2> QED  BY <1>1, <2>1, <2>2, <2>3 DEF ToSet
<1>5. evidence \in SUBSET EvidenceRows /\ EarlierFindings \in Seq(FindingRows)
  <2>1. ToSet(EarlierFindings) \in SUBSET FindingRows
      BY Pasts, RowsTyped
  <2>2. ASSUME NEW f \in ToSet(EarlierFindings)
        PROVE  [run : {f.run}, k : {f.k}, part : 1..Parts(f.grade)] \subseteq EvidenceRows
    <3>1. f.run \in Runs /\ f.k \in Nat /\ Parts(f.grade) \in {1, 2}
        BY <2>1, PartsType DEF FindingRows
    <3> QED  BY <3>1 DEF EvidenceRows
  <2> QED  BY <2>2, Pasts
<1> HIDE DEF events, results, evidence, n
<1>6. P \in Tables
    BY <1>1, <1>2, <1>3, <1>4, <1>5 DEF Tables
<1>7. /\ Content(P, "events") = ToSet(P.events) /\ Content(P, "workers") = P.workers
      /\ Content(P, "evidence") = P.evidence /\ Content(P, "findings") = ToSet(P.findings)
      /\ Content(P, "ledger") = P.ledger /\ Content(P, "results") = ToSet(P.results)
    BY ContentIs
<1> QED  BY <1>2, <1>3, <1>4, <1>6, <1>7 DEF evidence

LEMMA InitRuns ==
    ASSUME Init
    PROVE  /\ run \in [Runs -> RunType] /\ RunsOK
           /\ \A r \in Before : Past(run[r], r)
           /\ \A r \in Runs \ Before : run[r].at = "idle"
<1>1. run = [r \in Runs |->
                IF r \in Before
                THEN [at |-> "end", plan |-> PastPlan(r), done |-> Len(PastPlan(r)), parts |-> 0,
                      launched |-> TRUE, failed |-> FALSE]
                ELSE [at |-> "idle", plan |-> <<>>, done |-> 0, parts |-> 0, launched |-> FALSE,
                      failed |-> FALSE]]
    BY DEF Init
<1>2. \A r \in Before : r \in Runs /\ PastPlan(r) \in Seq(Grades) /\ Len(PastPlan(r)) \in Nat
    BY Pasts
<1>3. \A r \in Runs : run[r] \in RunType
    BY <1>1, <1>2 DEF RunType, Places
<1>4. \A r \in Before : Past(run[r], r)
    BY <1>1, <1>2 DEF Past
<1>5. \A r \in Runs : RunOK(run[r])
    BY <1>1, <1>2 DEF RunOK
<1>6. \A r \in Runs \ Before : run[r].at = "idle"
    BY <1>1
<1> QED  BY <1>1, <1>3, <1>4, <1>5, <1>6 DEF RunsOK

LEMMA InitWritten ==
    ASSUME Init
    PROVE  WrittenTables(run, PastTables) /\ Complete(run, across, PastTables)
<1>1. \A r \in Before : Past(run[r], r) /\ r \in Runs /\ PastPlan(r) \in Seq(Grades) /\ Len(PastPlan(r)) \in Nat
                        /\ DOMAIN PastPlan(r) = 1..Len(PastPlan(r))
    BY InitRuns, Pasts
<1>2. ASSUME NEW f \in ToSet(EarlierFindings)
      PROVE  /\ f.run \in Before /\ f.k \in 1..run[f.run].done /\ f.grade = run[f.run].plan[f.k]
             /\ f = Observed(run[f.run], f.run, f.k)
  <2>1. PICK r \in Before : f \in PastFindings(r)
      BY Pasts
  <2>2. PICK k \in DOMAIN PastPlan(r) : f = [run |-> r, k |-> k, grade |-> PastPlan(r)[k]]
      BY <2>1 DEF PastFindings
  <2> QED  BY <1>1, <2>1, <2>2 DEF Past, Observed
<1>3. \A r \in Before : PastFindings(r) = {Observed(run[r], r, k) : k \in 1..run[r].done}
    BY <1>1 DEF PastFindings, Past, Observed
<1>4. DOMAIN NoTables = {"events", "workers", "evidence", "findings", "ledger", "results"}
    BY ContentIs
<1>5. ASSUME NEW t \in DOMAIN NoTables, NEW x \in Content(PastTables, t)  PROVE Written(run, t, x)
  <2>1. CASE t = "events"
      BY <1>1, <1>5, <2>1, PastRows DEF Written, Past
  <2>2. CASE t = "workers"
      BY <1>1, <1>5, <2>2, PastRows DEF Written, Past
  <2>3. CASE t = "evidence"
    <3>1. PICK f \in ToSet(EarlierFindings) : x \in [run : {f.run}, k : {f.k}, part : 1..Parts(f.grade)]
        BY <1>5, <2>3, PastRows
    <3>2. x.run = f.run /\ x.k = f.k /\ x.part \in 1..Parts(f.grade)
        BY <3>1
    <3> QED  BY <1>1, <1>2, <2>3, <3>2 DEF Written
  <2>4. CASE t = "findings"
      BY <1>1, <1>2, <1>5, <2>4, PastRows DEF Written
  <2>5. CASE t = "ledger"
      BY <2>5 DEF Written
  <2>6. CASE t = "results"
    <3>1. PICK r \in Before : x = [run |-> r, launched |-> TRUE, findings |-> PastFindings(r)]
        BY <1>5, <2>6, PastRows
    <3>2. x = Told(run[r], r) /\ x.run = r
        BY <1>1, <1>3, <3>1 DEF Told, Past
    <3> QED  BY <1>1, <2>6, <3>2 DEF Written, Past
  <2> QED  BY <1>4, <2>1, <2>2, <2>3, <2>4, <2>5, <2>6
<1>6. ASSUME NEW f \in ToSet(EarlierFindings)
      PROVE  HasEvidence(PastTables, f.run, f.k, Parts(f.grade))
    BY PastRows DEF HasEvidence
<1>7. ASSUME NEW r \in Runs \ across, HasResult(PastTables, r)
      PROVE  HasEvent(PastTables, r, "begun") /\ HasEvent(PastTables, r, "finished") /\ HasAll(PastTables, run[r], r)
  <2>1. r \in Before
      BY <1>7, PastRows DEF HasResult
  <2>2. HasEvent(PastTables, r, "begun") /\ HasEvent(PastTables, r, "finished")
      BY <2>1, PastRows DEF HasEvent
  <2>3. ASSUME NEW k \in 1..run[r].done
        PROVE  /\ HasEvidence(PastTables, r, k, Parts(run[r].plan[k]))
               /\ Observed(run[r], r, k) \in Content(PastTables, "findings")
    <3> DEFINE f == Observed(run[r], r, k)
    <3>1. f \in ToSet(EarlierFindings)
        BY <1>3, <2>1, Pasts
    <3>2. f.run = r /\ f.k = k /\ f.grade = run[r].plan[k]
        BY DEF Observed
    <3> HIDE DEF f
    <3>3. HasEvidence(PastTables, r, k, Parts(run[r].plan[k])) /\ f \in Content(PastTables, "findings")
        BY <1>6, <3>1, <3>2, PastRows
    <3> QED  BY <3>3 DEF f
  <2> QED  BY <2>2, <2>3 DEF HasAll
<1>8. ASSUME NEW r \in Runs \ across, NEW f \in Content(PastTables, "findings"), f.run = r
      PROVE  HasEvidence(PastTables, r, f.k, Parts(f.grade))
    BY <1>6, <1>8, PastRows
<1>9. WrittenTables(run, PastTables)
    BY <1>5 DEF WrittenTables
<1>10. Complete(run, across, PastTables)
    BY <1>7, <1>8 DEF Complete, HasBegun
<1> QED  BY <1>9, <1>10

LEMMA InitInv == Init => IInv
<1> SUFFICES ASSUME Init  PROVE IInv
    OBVIOUS
<1>1. /\ db = PastTables /\ dir \in Dirs /\ creator = NoBackup /\ restorer = "idle" /\ reader = NoReader
      /\ made = 0 /\ faults = 0 /\ gen = 0 /\ across = {} /\ tainted = FALSE
    BY DEF Init
<1>2. run \in [Runs -> RunType] /\ RunsOK /\ WrittenTables(run, PastTables) /\ Complete(run, across, PastTables)
    BY InitRuns, InitWritten
<1> DEFINE E == [t \in DOMAIN NoRows |-> Rows(PastTables, t)]
<1>3. E \in Exports /\ \A t \in DOMAIN NoRows : E[t] = Content(PastTables, t)
  <2>1. \A t \in DOMAIN NoRows : E[t] = Content(PastTables, t)
      BY ContentIs
  <2>2. /\ Rows(PastTables, "events") \in SUBSET EventRows /\ Rows(PastTables, "workers") \in SUBSET Runs
        /\ Rows(PastTables, "findings") \in SUBSET FindingRows
        /\ Rows(PastTables, "results") \in SUBSET ResultRows
    <3>1. PastTables \in Tables
        BY PastRows
    <3>2. /\ ToSet(PastTables.events) \in SUBSET EventRows /\ PastTables.workers \in SUBSET Runs
          /\ ToSet(PastTables.findings) \in SUBSET FindingRows
          /\ ToSet(PastTables.results) \in SUBSET ResultRows
        BY <3>1, RowsTyped DEF Tables
    <3> QED  BY <3>2, RowsAre
  <2>3. E = [findings |-> Rows(PastTables, "findings"), events |-> Rows(PastTables, "events"),
             results |-> Rows(PastTables, "results"), workers |-> Rows(PastTables, "workers")]
      BY Exported
  <2> HIDE DEF E
  <2> QED  BY <2>1, <2>2, <2>3 DEF Exports
<1>4. \/ dir = [json |-> [state |-> "absent", rows |-> NoRows],
                copy |-> [state |-> "absent", tables |-> NoTables, sound |-> FALSE],
                hash |-> [state |-> "absent", rows |-> NoRows]]
      \/ dir = [json |-> [state |-> "whole", rows |-> E],
                copy |-> [state |-> "whole", tables |-> PastTables, sound |-> TRUE],
                hash |-> [state |-> "whole", rows |-> E]]
    BY <1>1 DEF Dirs
<1> HIDE DEF E
<1>5. /\ dir \in DirType
      /\ dir.json.rows \in {NoRows, E} /\ dir.hash.rows \in {NoRows, E} /\ dir.copy.tables \in {NoTables, PastTables}
      /\ dir.hash.state = "whole" => dir.copy.state # "absent"
      /\ dir.copy.state = "whole" => dir.copy.tables = PastTables
      /\ dir.copy.sound => dir.copy.tables = PastTables
  <2>1. E \in Exports /\ NoRows \in Exports /\ NoTables \in Tables /\ PastTables \in Tables
      BY <1>3, NothingTyped, PastRows
  <2>2. dir \in DirType
    <3>1. /\ [state |-> "absent", rows |-> NoRows] \in FileType
          /\ [state |-> "absent", tables |-> NoTables, sound |-> FALSE] \in CopyType
          /\ [state |-> "whole", rows |-> E] \in FileType
          /\ [state |-> "whole", tables |-> PastTables, sound |-> TRUE] \in CopyType
        BY <2>1 DEF FileType, CopyType, FileStates
    <3>2. \A j \in FileType : \A c \in CopyType : [json |-> j, copy |-> c, hash |-> j] \in DirType
        BY DEF DirType
    <3> QED  BY <1>4, <3>1, <3>2
  <2>3. CASE dir = [json |-> [state |-> "absent", rows |-> NoRows],
                    copy |-> [state |-> "absent", tables |-> NoTables, sound |-> FALSE],
                    hash |-> [state |-> "absent", rows |-> NoRows]]
    <3>1. /\ dir.json.rows = NoRows /\ dir.hash.rows = NoRows /\ dir.copy.tables = NoTables
          /\ dir.hash.state = "absent" /\ dir.copy.state = "absent" /\ dir.copy.sound = FALSE
        BY <2>3
    <3> QED  BY <2>2, <3>1
  <2>4. CASE dir = [json |-> [state |-> "whole", rows |-> E],
                    copy |-> [state |-> "whole", tables |-> PastTables, sound |-> TRUE],
                    hash |-> [state |-> "whole", rows |-> E]]
    <3>1. /\ dir.json.rows = E /\ dir.hash.rows = E /\ dir.copy.tables = PastTables
          /\ dir.copy.state = "whole"
        BY <2>4
    <3> QED  BY <2>2, <3>1
  <2> QED  BY <1>4, <2>3, <2>4
<1>6. TypeOK
  <2>1. dir \in [json : [state : FileStates, rows : Exports],
                 copy : [state : FileStates, tables : Tables, sound : BOOLEAN],
                 hash : [state : FileStates, rows : Exports]]
      BY <1>5 DEF DirType, FileType, CopyType
  <2>2. creator \in [at : DOMAIN Steps, rows : Exports, tables : Tables, gen : Nat]
      BY <1>1, NothingTyped DEF CreatorType
  <2>3. reader \in [at : ReaderPlaces, run : Runs \cup {"none"}, stored : BOOLEAN, erred : BOOLEAN,
                    gen : Nat, names : SUBSET FindingRows, evidence : SUBSET EvidenceRows,
                    findings : SUBSET FindingRows, events : SUBSET EventRows, all : BOOLEAN,
                    todo : Seq(FindingRows), cited : Nat]
      BY <1>1, IdleTyped DEF ReaderType
  <2>4. run \in [Runs -> [at : Places, plan : Seq(Grades), done : Nat, parts : Nat,
                         launched : BOOLEAN, failed : BOOLEAN]]
      BY <1>2 DEF RunType
  <2>5. db \in Tables
      BY <1>1, PastRows
  <2> QED  BY <1>1, <2>1, <2>2, <2>3, <2>4, <2>5 DEF TypeOK
<1>7. creator.at = 1 /\ creator.rows = NoRows /\ creator.tables = NoTables /\ creator.gen = 0
    BY <1>1 DEF NoBackup
<1>8. WrittenInv
  <2>1. WrittenTables(run, NoTables) /\ WrittenRows(run, NoRows) /\ WrittenRows(run, E)
      BY <1>2, <1>3, NothingTyped, ContentIs DEF WrittenTables, WrittenRows
  <2> QED  BY <1>1, <1>2, <1>5, <1>7, <2>1 DEF WrittenInv
<1>9. BackupInv
  <2>1. \A t \in DOMAIN NoRows : Sealed(t) \subseteq Content(PastTables, t)
      BY <1>1, <1>3, <1>5, <1>7, NothingTyped DEF Sealed
  <2> QED  BY <1>1, <1>5, <1>7, <2>1, NothingTyped DEF BackupInv
<1>10. CleanInv
  <2>1. \A r \in Runs : ~Going(run[r])
      BY InitRuns DEF Past, Going
  <2> QED  BY <1>1, <1>2, <1>5, <2>1 DEF CleanInv
<1>11. ReaderInv
  <2>1. ReplayOK(run, db, NoReader) /\ WholeOK(run, NoReader) /\ ReportOK(db, NoReader)
      BY IdleTyped DEF ReplayOK, WholeOK, ReportOK, Reading
  <2> QED  BY <1>1, <2>1, IdleTyped DEF ReaderInv
<1> QED  BY <1>2, <1>6, <1>8, <1>9, <1>10, <1>11 DEF IInv

-----------------------------------------------------------------------------
(* The invariant holds of every behaviour, and what it is for follows. *)
LEMMA EngineStep == ASSUME NEW r \in Runs  PROVE IInv /\ Engine(r) => IInv'
<1> SUFFICES ASSUME IInv, Engine(r)  PROVE IInv'
    OBVIOUS
<1>1. TypeOK /\ RunsOK /\ WrittenInv /\ BackupInv /\ CleanInv /\ ReaderInv
    BY DEF IInv
<1>2. (\E t, x : Effect(r, t, x)) /\ Keeps(r)
    BY <1>1, Effects
<1>3. PICK t, x : Effect(r, t, x)
    BY <1>2
<1>4. TypeOK' /\ RunsOK' /\ WrittenInv'
    BY <1>1, <1>3, EngineType, EngineWritten
<1>5. BackupInv'
    BY <1>1, <1>3, EngineBackup
<1>6. CleanInv'
    BY <1>1, <1>2, <1>3, EngineClean
<1>7. ReaderInv'
    BY <1>1, <1>3, EngineReader
<1> QED  BY <1>4, <1>5, <1>6, <1>7 DEF IInv

LEMMA InvStays == IInv /\ UNCHANGED vars => IInv'
<1> SUFFICES ASSUME IInv, UNCHANGED vars  PROVE IInv'
    OBVIOUS
<1>1. UNCHANGED <<db, run, dir, creator, restorer, reader, made, faults, gen, across, tainted>>
    BY DEF vars
<1>2. TypeOK' /\ RunsOK'
    BY <1>1 DEF IInv, TypeOK, RunsOK
<1>3. WrittenInv' /\ CleanInv'
    BY <1>1 DEF IInv, WrittenInv, CleanInv
<1>4. BackupInv'
    BY <1>1 DEF IInv, BackupInv, Sealed
<1>5. ReaderInv'
    BY <1>1 DEF IInv, ReaderInv, Undisturbed
<1> QED  BY <1>2, <1>3, <1>4, <1>5 DEF IInv

LEMMA Inductive == Spec => []IInv
<1>1. IInv /\ Next => IInv'
  <2> SUFFICES ASSUME IInv, Next  PROVE IInv'
      OBVIOUS
  <2>1. CASE \E r \in Runs : Engine(r)
      BY <2>1, EngineStep
  <2>2. CASE \E r \in Runs : StartReplay(r)
      BY <2>2, StartReplayStep
  <2>3. CASE List \/ WriteExport \/ CopyDatabase \/ WriteHash \/ CrashBackup
      BY <2>3, ListStep, ExportStep, CopyStep, HashStep, CrashBackupStep
  <2>4. CASE VerifyBackup \/ Restore
      BY <2>4, VerifyStep, RestoreStep
  <2>5. CASE SearchResults \/ ReadLedger \/ ReadResult \/ ReadRows
      BY <2>5, SearchStep, ReadLedgerStep, ReadResultStep, ReadRowsStep
  <2>6. CASE StartReport \/ CheckCitation \/ ReadFails \/ Forget
      BY <2>6, StartReportStep, CheckCitationStep, ReadFailsStep, ForgetStep
  <2> QED  BY <2>1, <2>2, <2>3, <2>4, <2>5, <2>6 DEF Next, Engine
<1>2. IInv /\ [Next]_vars => IInv'
    BY <1>1, InvStays
<1> QED  BY InitInv, <1>2, PTL DEF Spec

(* Rows, files, counters and programs have their types. *)
THEOREM TypeCorrect == Spec => []TypeOK
<1>1. IInv => TypeOK
    BY DEF IInv
<1> QED  BY <1>1, Inductive, PTL

(* In whatever order any number of engines, backups into the same          *)
(* directory, crashes and restores come, a directory that verify_backup    *)
(* accepts has a copy of the database beside its export, and if no one     *)
(* wrote while the file was copied, and nothing was restored since that    *)
(* backup began, every row of the export is in the copy.                   *)
THEOREM BackupHolds == Spec => []BackupHoldsExport
<1>1. IInv => BackupHoldsExport
  <2> SUFFICES ASSUME BackupInv, Verified
               PROVE  /\ dir.copy.state # "absent"
                      /\ dir.copy.sound =>
                           \A t \in DOMAIN NoRows : dir.json.rows[t] \subseteq Rows(dir.copy.tables, t)
      BY DEF IInv, BackupHoldsExport
  <2>1. dir.hash.state = "whole" /\ dir.hash.rows = dir.json.rows
      BY DEF Verified
  <2>2. \A t \in DOMAIN NoRows : Content(dir.copy.tables, t) = Rows(dir.copy.tables, t)
      BY ContentIs
  <2> QED  BY <2>1, <2>2 DEF BackupInv, Sealed
<1> QED  BY <1>1, Inductive, PTL

(* What was stored when a replay began is found, for any limit on the      *)
(* results that it searches, unless the database is replaced meanwhile or  *)
(* a read fails, the error of which the replay swallows.                   *)
THEOREM ReplayFinding == Spec => []ReplayFinds
<1>1. IInv => ReplayFinds
    BY DEF IInv, ReaderInv, ReplayOK, ReplayFinds, ReaderAt
<1> QED  BY <1>1, Inductive, PTL

(* A replay of a run that completed shows every observation with all its   *)
(* evidence, and if it reads the whole log, the last event of every run    *)
(* and the first one of a run that launched its tool: for any plans, any   *)
(* limits, and any copies and restores that no part of the run was under.  *)
THEOREM ReplayWhole == Spec => []ReplayIsWhole
<1>1. IInv => ReplayIsWhole
  <2> SUFFICES ASSUME IInv, reader.at = "replayed", Undisturbed, ~tainted, reader.run \notin across
               PROVE  LET r == reader.run IN
                      /\ ~run[r].failed =>
                           /\ reader.findings = {Finding(r, k) : k \in DOMAIN run[r].plan}
                           /\ reader.evidence = UNION {Evidence(r, k) : k \in DOMAIN run[r].plan}
                      /\ reader.all =>
                           LET shown == {e.event : e \in reader.events} IN
                           "finished" \in shown /\ (run[r].launched => "begun" \in shown)
      BY DEF ReplayIsWhole, ReaderAt
  <2>1. WholeOK(run, reader)
      BY DEF IInv, ReaderInv
  <2>2. \A r : Observations(run[r], r) = {Finding(r, k) : k \in DOMAIN run[r].plan}
      BY DEF Observations, Observed, Finding
  <2>3. \A r : Proofs(run[r], r) = UNION {Evidence(r, k) : k \in DOMAIN run[r].plan}
      BY DEF Proofs, Evidence
  <2> QED  BY <2>1, <2>2, <2>3 DEF WholeOK, Shown
<1> QED  BY <1>1, Inductive, PTL

(* A report is refused for a missing row only if a restore came during it, *)
(* from part of a copy, or under the run whose finding it lists.           *)
THEOREM ReportsSound == Spec => []ReportsAreSound
<1>1. IInv => ReportsAreSound
    BY DEF IInv, ReaderInv, ReportOK, ReportsAreSound, ReaderAt
<1> QED  BY <1>1, Inductive, PTL
=============================================================================
