------------------------------ MODULE ToolRun ------------------------------
(***************************************************************************)
(* One run of a built-in tool: the runner in the engine's process          *)
(* (noble/execution.py), the worker in a process of its own                *)
(* (noble/builtins/worker.py, scanner.py, fixture_sql.py), and the         *)
(* validation of what it printed (noble/evidence.py), over files that      *)
(* change while they are read.                                             *)
(*                                                                         *)
(* Input, output and the pipes between the processes are counted in units: *)
(* what a reader takes in one read.  A file is known by what the worker    *)
(* makes of it and by its sinks, the lines that interpolate SQL, in order. *)
(***************************************************************************)
EXTENDS Integers, Sequences, SequencesExt

CONSTANTS
    Invocations,       \* what the engine asks the runner for
    Listing,           \* every path of the workspace, sorted
    Ignored,           \* paths below .git, .venv, ...
    Below,             \* what lies at or below each target; a file's target is its path
    Fixture,           \* the path of the synthetic fixture
    Lines,             \* the text of a line with a sink
    Trees,             \* the contents the workspace may have
    MaxInput,          \* max_input_bytes of the runner
    WorkerInput,       \* what the worker reads at most
    StdinCapacity,     \* of the pipe to the worker
    StdoutCapacity,    \* of the pipe from the worker
    MaxOutput,         \* max_output_bytes
    MaxObservations

ASSUME RunnerAssumption ==
    /\ {MaxInput, WorkerInput, StdinCapacity, StdoutCapacity, MaxOutput, MaxObservations} \subseteq Nat \ {0}
    /\ MaxInput <= StdinCapacity

(* What a reader makes of a path.  Only the fixture itself is exact, and   *)
(* it has a sink.                                                          *)
Paths == Range(Listing)
Kinds == {"source", "shifted", "elsewhere", "outside", "big", "broken", "absent", "poison"}
Content == [kind : Kinds, sinks : Seq(Lines), exact : BOOLEAN]
Targets == DOMAIN Below
Nowhere == {"missing", "outside"}

ASSUME WorkspaceAssumption ==
    /\ Listing \in Seq(Paths) /\ Fixture \in Paths
    /\ Trees \subseteq [Paths -> Content]
    /\ \A tree \in Trees : tree[Fixture].exact => tree[Fixture].sinks # <<>>
    /\ Below \in [Targets -> SUBSET Paths] /\ Targets \cap Nowhere = {}
    /\ \A t \in Targets \cap Paths : Below[t] = {t}
    /\ \A i \in Invocations : /\ i.target \in Targets
                             /\ {i.size, i.maxFiles, i.width} \subseteq Nat

VARIABLES
    inv,       \* the invocation
    disk,      \* content of every path
    leads,     \* the target that the requested name leads to: links move
    host,      \* the runner and the validator
    child,     \* the worker
    stdin,     \* units on their way to the worker
    pipe,      \* units on their way back
    late,      \* has the wall-time limit passed?
    edited     \* history: has anything on disk changed since the invocation?

files == <<disk, leads, edited>>
vars == <<inv, disk, leads, host, child, stdin, pipe, late, edited>>

Init ==
    /\ inv \in Invocations
    /\ disk \in Trees
    /\ leads = inv.target
    /\ host = [pc |-> "checking", outcome |-> "none", sent |-> 0, buffer |-> 0,
               reaped |-> FALSE, real |-> "missing", checked |-> 0]
    /\ child = [pc |-> "absent", code |-> 0, input |-> 0, target |-> "missing", todo |-> {}, listed |-> {},
                seen |-> 0, obs |-> <<>>, complete |-> TRUE, left |-> 0, covered |-> {}]
    /\ stdin = 0 /\ pipe = 0
    /\ late = FALSE /\ edited = FALSE

Gone == child.pc \in {"closed", "gone"}      \* its ends of the pipes are closed
HostAt(pc) == host.pc = pc
HostGo(pc) == host' = [host EXCEPT !.pc = pc]
HostEnd(pc, outcome) == host' = [host EXCEPT !.pc = pc, !.outcome = outcome]

(******************************** the runner *******************************)
(* Mutant: no limit on the payload.                                        *)
BugFits(i) == TRUE

(* What is refused before a process exists: a context that is not the      *)
(* definition's, a sandbox or network it cannot have, another tool, a      *)
(* payload that is too long.                                               *)
Fits(i) == i.size <= MaxInput
Check ==
    /\ HostAt("checking")
    /\ IF ~inv.bound THEN HostEnd("done", "refused")
       ELSE IF late THEN HostEnd("done", "timeout")
       ELSE IF inv.tool \notin {"static-code-scan", "fixture-sql-verify"} THEN HostEnd("done", "unavailable")
       ELSE IF ~Fits(inv) THEN HostEnd("done", "refused")
       ELSE HostGo("spawning")
    /\ UNCHANGED <<inv, files, child, stdin, pipe, late>>

Spawn ==
    /\ HostAt("spawning")
    /\ \/ HostGo("writing") /\ child' = [child EXCEPT !.pc = "reading"]
       \/ HostEnd("done", "unavailable") /\ UNCHANGED child
    /\ UNCHANGED <<inv, files, stdin, pipe, late>>

(* The write blocks on a full pipe, and no time limit applies to it.       *)
WriteInput ==
    /\ HostAt("writing") /\ ~Gone
    /\ host.sent < inv.size /\ stdin < StdinCapacity
    /\ stdin' = stdin + 1
    /\ host' = [host EXCEPT !.sent = @ + 1]
    /\ UNCHANGED <<inv, files, child, pipe, late>>

CloseInput ==
    /\ HostAt("writing")
    /\ host.sent = inv.size
    /\ HostGo("collecting")
    /\ UNCHANGED <<inv, files, child, stdin, pipe, late>>

BrokenInput ==
    /\ HostAt("writing") /\ Gone
    /\ host.sent < inv.size
    /\ HostEnd("final", "failed")
    /\ UNCHANGED <<inv, files, child, stdin, pipe, late>>

(* One unit at a time; the limit is looked at after each.                  *)
Collect ==
    /\ HostAt("collecting") /\ ~late
    /\ pipe > 0
    /\ pipe' = pipe - 1
    /\ host' = IF host.buffer + 1 > MaxOutput
               THEN [host EXCEPT !.buffer = @ + 1, !.outcome = "truncated", !.pc = "killing"]
               ELSE [host EXCEPT !.buffer = @ + 1]
    /\ UNCHANGED <<inv, files, child, stdin, late>>

EndOfOutput ==
    /\ HostAt("collecting")
    /\ pipe = 0 /\ Gone
    /\ HostGo("waiting")
    /\ UNCHANGED <<inv, files, child, stdin, pipe, late>>

Wait ==
    /\ HostAt("waiting") /\ child.pc = "gone"
    /\ host' = [host EXCEPT !.pc = "final", !.reaped = TRUE]
    /\ UNCHANGED <<inv, files, child, stdin, pipe, late>>

Expire ==
    /\ late
    /\ HostAt("collecting") \/ (HostAt("waiting") /\ child.pc # "gone")
    /\ HostEnd("killing", "timeout")
    /\ UNCHANGED <<inv, files, child, stdin, pipe, late>>

(* _kill_group, in the loop and again in the finally clause unless the     *)
(* worker was reaped.  A kill that has no effect within two seconds is     *)
(* reported as a timeout.                                                  *)
Kill ==
    /\ HostAt("killing") \/ (HostAt("final") /\ ~host.reaped)
    /\ child' = IF child.pc = "gone" THEN child ELSE [child EXCEPT !.pc = "gone", !.code = 9]
    /\ host' = [host EXCEPT !.pc = "final", !.reaped = TRUE]
    /\ UNCHANGED <<inv, files, stdin, pipe, late>>

KillFails ==
    /\ child.pc # "gone"
    /\ \/ HostAt("killing") /\ HostEnd("final", "timeout")
       \/ HostAt("final") /\ ~host.reaped /\ HostEnd("done", "timeout")
    /\ UNCHANGED <<inv, files, child, stdin, pipe, late>>

Settle ==
    /\ HostAt("final") /\ host.reaped
    /\ IF host.outcome # "none" THEN HostGo("done")
       ELSE IF child.code # 0 THEN HostEnd("done", "failed")
       ELSE HostGo("parsing")
    /\ UNCHANGED <<inv, files, child, stdin, pipe, late>>

(******************************* the worker ********************************)
ChildAt(pc) == child.pc = pc
Output(obs) == 1 + inv.width * Len(obs)      \* units; how long a line is differs
Printing(c) == [c EXCEPT !.pc = "printing", !.left = Output(c.obs)]
Refusing(c) == [c EXCEPT !.pc = "printing", !.left = 1, !.code = 2, !.obs = <<>>]

(* It reads to the end of its input, or one unit more than it accepts.     *)
ReadInput ==
    /\ ChildAt("reading")
    /\ \/ /\ stdin > 0
          /\ stdin' = stdin - 1
          /\ child' = LET c == [child EXCEPT !.input = @ + 1]
                      IN  IF c.input > WorkerInput THEN Refusing(c) ELSE c
       \/ /\ stdin = 0 /\ ~HostAt("writing")
          /\ child' = [child EXCEPT !.pc = "resolving"]
          /\ UNCHANGED stdin
    /\ UNCHANGED <<inv, files, host, pipe, late>>

(* The requested name is resolved again, here; the list of files is taken  *)
(* once.                                                                   *)
Resolve ==
    /\ ChildAt("resolving")
    /\ child' = IF leads \in Nowhere THEN Refusing(child)
                ELSE LET found == {p \in Below[leads] \ Ignored : disk[p].kind # "absent"}
                     IN  [child EXCEPT !.pc = IF inv.tool = "fixture-sql-verify"
                                              THEN "verifying" ELSE "scanning",
                                       !.target = leads,
                                       !.todo = found, !.listed = found]
    /\ UNCHANGED <<inv, files, host, stdin, pipe, late>>

(* One sink, as the schema of an observation has it.                       *)
Observation(p, i, verified) ==
    [file |-> p, line |-> i, snippet |-> disk[p].sinks[i], verified |-> verified]

(* Mutant: what is passed over is not mentioned.                           *)
BugSkip(c) == c
Skip(c) == [c EXCEPT !.complete = FALSE]

(* One file of the list.  Links out of the workspace, oversized and        *)
(* unreadable files make the scan incomplete; an exception that is not     *)
(* expected ends it.                                                       *)
Inspect(c, p) ==
    LET f == disk[p]
        room == MaxObservations - Len(c.obs)
    IN  CASE f.kind \in {"outside", "big", "broken", "absent"} -> Skip(c)
          [] f.kind = "poison" -> Refusing(c)
          [] OTHER ->
               [c EXCEPT !.obs = @ \o [i \in 1..(IF Len(f.sinks) < room THEN Len(f.sinks) ELSE room) |->
                                        Observation(p, i, FALSE)],
                         !.complete = @ /\ Len(f.sinks) <= room,
                         !.covered = @ \cup {p}]

First(found) == Listing[CHOOSE i \in DOMAIN Listing : /\ Listing[i] \in found
                                                     /\ \A j \in 1..(i - 1) : Listing[j] \notin found]
ScanFile ==
    /\ ChildAt("scanning") /\ child.todo # {}
    /\ LET p == First(child.todo)
           c == [child EXCEPT !.todo = @ \ {p}, !.seen = @ + 1]
           d == Inspect(c, p)
       IN  child' = IF child.seen >= inv.maxFiles THEN Printing(Skip(child))
                    ELSE IF d.pc = "scanning" /\ Len(d.obs) >= MaxObservations THEN Printing(d)
                    ELSE d
    /\ UNCHANGED <<inv, files, host, stdin, pipe, late>>

ScanEnds ==
    /\ ChildAt("scanning") /\ child.todo = {}
    /\ child' = Printing(child)
    /\ UNCHANGED <<inv, files, host, stdin, pipe, late>>

(* Only the known fixture, byte for byte, can be verified.                 *)
Exact(p) == p = Fixture /\ disk[p].kind = "source" /\ disk[p].exact
Verify ==
    /\ ChildAt("verifying")
    /\ child' = IF child.target = Fixture /\ Exact(Fixture)
                THEN Printing([child EXCEPT !.obs = <<Observation(Fixture, 1, TRUE)>>,
                               !.covered = {Fixture}])
                ELSE Refusing(child)
    /\ UNCHANGED <<inv, files, host, stdin, pipe, late>>

WriteOut ==
    /\ ChildAt("printing")
    /\ IF child.left = 0
       THEN child' = [child EXCEPT !.pc = "closed"] /\ UNCHANGED pipe
       ELSE /\ pipe < StdoutCapacity
            /\ pipe' = pipe + 1
            /\ child' = [child EXCEPT !.left = @ - 1]
    /\ UNCHANGED <<inv, files, host, stdin, late>>

Exit ==
    /\ ChildAt("closed")
    /\ child' = [child EXCEPT !.pc = "gone"]
    /\ UNCHANGED <<inv, files, host, stdin, pipe, late>>

(* A resource limit, or anything else that ends it.                        *)
Die ==
    /\ child.pc \notin {"absent", "closed", "gone"}
    /\ child' = [child EXCEPT !.pc = "closed", !.code = 9]
    /\ UNCHANGED <<inv, files, host, stdin, pipe, late>>

(****************************** the validation *****************************)
(* Mutant: the worker's own target is not compared.                        *)
BugBelongs(c) == TRUE

(* The answer is about the request, its tool and the target as it was      *)
(* authorized.                                                             *)
Belongs(c) == c.target = inv.target

(* The text is one whole document of the declared schema.                  *)
IsDocument == host.buffer = Output(child.obs) /\ Len(child.obs) <= MaxObservations

Parse ==
    /\ HostAt("parsing")
    /\ IF /\ IsDocument
          /\ Belongs(child)
          /\ inv.tool = "fixture-sql-verify" => Len(child.obs) = 1
       THEN host' = [host EXCEPT !.pc = "validating", !.real = leads]
       ELSE HostEnd("done", "rejected")
    /\ UNCHANGED <<inv, files, child, stdin, pipe, late>>

(* Each observation is looked up again in the file it names.  A line that  *)
(* other separators shifted is not found; a link that stays inside the     *)
(* workspace leads out of the target.                                      *)
Confirmed(o) ==
    /\ host.real \notin Nowhere
    /\ o.file \in Below[host.real]
    /\ disk[o.file].kind = "source"
    /\ o.line \in DOMAIN disk[o.file].sinks
    /\ disk[o.file].sinks[o.line] = o.snippet
    /\ o.verified = (inv.tool = "fixture-sql-verify")
    /\ o.verified => child.complete /\ Exact(o.file)

CheckNext ==
    /\ HostAt("validating")
    /\ IF host.checked = Len(child.obs) THEN HostEnd("done", "accepted")
       ELSE IF Confirmed(child.obs[host.checked + 1]) THEN host' = [host EXCEPT !.checked = @ + 1]
       ELSE HostEnd("done", "rejected")
    /\ UNCHANGED <<inv, files, child, stdin, pipe, late>>

(***************************** the environment *****************************)
TimeUp ==
    /\ ~late
    /\ late' = TRUE
    /\ UNCHANGED <<inv, files, host, child, stdin, pipe>>

Edit ==
    /\ disk' \in Trees \ {disk}
    /\ edited' = TRUE
    /\ UNCHANGED <<inv, leads, host, child, stdin, pipe, late>>

Relink ==
    /\ leads' \in (DOMAIN Below \cup Nowhere) \ {leads}
    /\ edited' = TRUE
    /\ UNCHANGED <<inv, disk, host, child, stdin, pipe, late>>

HostStep ==
    \/ Check \/ Spawn \/ WriteInput \/ CloseInput \/ BrokenInput \/ Collect \/ EndOfOutput
    \/ Wait \/ Expire \/ Kill \/ KillFails \/ Settle \/ Parse \/ CheckNext

ChildStep == ReadInput \/ Resolve \/ ScanFile \/ ScanEnds \/ Verify \/ WriteOut \/ Exit \/ Die

Running == host.pc # "done"
Finished == ~Running /\ UNCHANGED vars

Next == \/ HostStep
        \/ Running /\ (ChildStep \/ TimeUp \/ Edit \/ Relink)
        \/ Finished

Spec == Init /\ [][Next]_vars

(* The engine's process goes on and time passes; the worker need not.      *)
FairSpec == Spec /\ WF_vars(HostStep) /\ WF_vars(TimeUp /\ Running)

(******************************* properties ********************************)
HostPCs == {"checking", "spawning", "writing", "collecting", "waiting", "killing", "final",
            "parsing", "validating", "done"}
ChildPCs == {"absent", "reading", "resolving", "scanning", "verifying", "printing", "closed", "gone"}
Outcomes == {"none", "refused", "unavailable", "timeout", "truncated", "failed", "rejected", "accepted"}

(* The types of the processes, of what they share and of what they count.  *)
Observed == [file : Paths, line : Nat, snippet : Lines, verified : BOOLEAN]
TypeOK ==
    /\ inv \in Invocations /\ disk \in Trees /\ leads \in Targets \cup Nowhere
    /\ host \in [pc : HostPCs, outcome : Outcomes, sent : Nat, buffer : Nat, reaped : BOOLEAN,
                 real : Targets \cup Nowhere, checked : Nat]
    /\ child \in [pc : ChildPCs, code : {0, 2, 9}, input : Nat, target : Targets \cup {"missing"},
                  todo : SUBSET Paths, listed : SUBSET Paths, seen : Nat, obs : Seq(Observed),
                  complete : BOOLEAN, left : Nat, covered : SUBSET Paths]
    /\ stdin \in 0..StdinCapacity /\ pipe \in 0..StdoutCapacity
    /\ late \in BOOLEAN /\ edited \in BOOLEAN

Ended(outcome) == HostAt("done") /\ host.outcome = outcome

(* A scan that is accepted and calls itself complete has inspected every   *)
(* file that was there when it began, unless it found as much as it may    *)
(* report: nothing that vanished, grew or broke while it ran is passed     *)
(* over in silence.                                                        *)
CompleteIsCovered ==
    Ended("accepted") /\ child.complete =>
        child.listed \subseteq child.covered \/ Len(child.obs) = MaxObservations

(* scan_python is to "fail inconclusive on skipped" inputs: complete means *)
(* that no file was left out.                                              *)
CompleteMeansAll ==
    Ended("accepted") /\ child.complete => child.listed \subseteq child.covered

(* An answer is judged for what it is.  It is accepted only as the whole   *)
(* output of a worker that ended well, and only if the worker worked on    *)
(* the authorized target although links moved; and it is rejected only if  *)
(* something changed on disk, or if a sink stands where the validator      *)
(* cannot find it again: behind other line separators, or in a link to     *)
(* another part of the workspace.                                          *)
JudgedForWhatItIs ==
    /\ Ended("accepted") =>
          /\ child.code = 0 /\ host.buffer = Output(child.obs)
          /\ child.target = inv.target
          /\ \A i \in DOMAIN child.obs : child.obs[i].file \in Below[inv.target]
    /\ Ended("rejected") =>
          \/ edited
          \/ \E p \in child.listed : disk[p].kind \in {"shifted", "elsewhere"} /\ disk[p].sinks # <<>>

(* The call returns, whatever the worker does, and it leaves a worker      *)
(* behind only when it says that it timed out.                             *)
RunnerReturns ==
    <>[](HostAt("done") /\ (child.pc \in {"absent", "gone"} \/ host.outcome = "timeout"))

=============================================================================
