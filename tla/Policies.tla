------------------------------ MODULE Policies ------------------------------
(***************************************************************************)
(* The gates a request passes before a worker is chosen: target            *)
(* normalisation (noble/targets.py), the deny-by-default scope policy      *)
(* (noble/scope.py), the risk table (noble/risk.py), the approval's        *)
(* binding to the scope it was asked under (noble/approvals.py), the tool  *)
(* registry (noble/registry.py), in the order NobleEngine.run applies them *)
(* (noble/engine.py), next to the two other places that decide the same:   *)
(* the policy simulator (noble/simulate.py) and the security kernel's      *)
(* request validation (noble/kernel.py).                                   *)
(*                                                                         *)
(* A name is a sequence of labels, the most significant first: a path from *)
(* its root, a host from its top-level domain, a repository from its       *)
(* owner, an address and a network from their leading bits.  A wildcard is *)
(* then a proper extension, and containment a prefix.                      *)
(***************************************************************************)
EXTENDS Integers, Sequences, Functions

CONSTANTS
    Runs,            \* engine runs, each of its own engine
    Requests,        \* what operators ask for
    PolicyFiles,     \* the contents the scope policy file may have
    Configs,         \* the contents runtime.yaml may have
    MaxClock         \* bound of the model on the clock

(* An entry of a list of the policy, by the names it matches (see below).  *)
Patterns == [form : {"name", "under", "begins"}, stem : Seq(STRING)]

(* The lists of what is excluded, as their text has them: cut at every     *)
(* "|", also inside an entry, where the piece is open to the next.         *)
Pieces == [form : {"name", "under", "begins"}, stem : Seq(STRING), open : BOOLEAN]
Lists == {l \in Seq(Pieces) : l # <<>> => ~l[Len(l)].open}

ASSUME PolicyAssumption ==
    /\ MaxClock \in Nat
    /\ \A p \in PolicyFiles : /\ {p.forbidden, p.forbiddenActions} \subseteq Lists
                              /\ p.name \in Seq(Patterns) \ {<<>>}
    /\ \A q \in Requests : {"action", "params"} \subseteq DOMAIN q
    /\ \A c \in Configs :
          /\ c = [version |-> c.version, floats |-> c.floats, network_enabled |-> c.network_enabled,
                  state_directory |-> c.state_directory, limits |-> c.limits]
          /\ \A k \in DOMAIN c.limits : c.limits[k] \in Int

VARIABLES
    clock,    \* wall clock
    file,     \* content of scope-policy.yaml
    config,   \* content of runtime.yaml
    run,      \* each engine run
    asked     \* the approval each run has created, if it has

vars == <<clock, file, config, run, asked>>

(************************* the runtime configuration ***********************)
Ceiling == [max_output_bytes |-> 1048576, max_input_bytes |-> 65536, max_file_bytes |-> 1048576,
            max_files |-> 1000, max_observations |-> 100, timeout_seconds |-> 60,
            memory_mb |-> 1024, global_concurrency |-> 8, rate_per_minute |-> 120]
LimitKeys == DOMAIN Ceiling \cup {"cpu_seconds"}

(* RuntimeConfig.load: every limit is there and positive, none is above    *)
(* its ceiling, and the CPU limit fits into the wall time.  "floats" are   *)
(* the limits written as 60.0, which Python does not take for an int; the  *)
(* version, however, may be true or 1.0, which are equal to 1.             *)
Loads(c) ==
    /\ c.version \in {"1", "true"} /\ ~c.network_enabled /\ c.state_directory = ".noble"
    /\ LimitKeys \subseteq DOMAIN c.limits
    /\ c.floats \cap LimitKeys = {}
    /\ \A k \in LimitKeys : c.limits[k] > 0
    /\ \A k \in DOMAIN Ceiling : c.limits[k] <= Ceiling[k]
    /\ c.limits["cpu_seconds"] <= c.limits["timeout_seconds"]

(* The schema of config_schema.py and its cross-field check.  For JSON     *)
(* schema 60.0 is an integer, and true is not 1.                           *)
SchemaAccepts(c) ==
    /\ c.version = "1" /\ ~c.network_enabled /\ c.state_directory = ".noble"
    /\ DOMAIN c.limits = LimitKeys
    /\ \A k \in LimitKeys :
          c.limits[k] \in 1..(IF k = "cpu_seconds" THEN 60 ELSE Ceiling[k])
    /\ c.limits["cpu_seconds"] <= c.limits["timeout_seconds"]

(*************************** names and patterns ****************************)
Prefix(s, t) == Len(s) <= Len(t) /\ SubSeq(t, 1, Len(s)) = s

(* A pattern is an exact name, everything under a name ("*.name",          *)
(* "owner/*"), or every host that begins with a name ("name.*").           *)
Exactly(p, name) == p.form = "name" /\ name = p.stem
HostMatch(p, host) ==
    \/ Exactly(p, host)
    \/ p.form = "under" /\ Prefix(p.stem, host) /\ Len(host) > Len(p.stem)
RepoMatch(p, name) ==
    \/ Exactly(p, name)
    \/ p.form = "under" /\ Prefix(p.stem, name) /\ Len(name) = Len(p.stem) + 1
BeginsWith(p, host) ==
    /\ p.form = "begins"
    /\ Len(host) > Len(p.stem)
    /\ SubSeq(host, Len(host) - Len(p.stem) + 1, Len(host)) = p.stem

(* The entries of a list are the pieces that stand alone; what an entry    *)
(* with a "|" would match has one in its name, and no target here does.    *)
Bare(piece) == [form |-> piece.form, stem |-> piece.stem]
Alone(list, i) == ~list[i].open /\ (i > 1 => ~list[i - 1].open)
Entries(list) == {Bare(list[i]) : i \in {k \in DOMAIN list : Alone(list, k)}}

(* A name, such as that of an action, as an entry of a list.               *)
Named(name) == [form |-> "name", stem |-> name]

HostKinds == {"host", "url", "ip"}
LocalKinds == {"path", "local-workspace"}

(* An excluded host is excluded in a URL too; an excluded network range or *)
(* directory only under its own name.                                      *)
ForbiddenMatch(p, t) ==
    \/ t.kind = "repository" /\ RepoMatch(p, t.name)
    \/ t.kind \in HostKinds /\ \/ BeginsWith(p, t.host)
                               \/ HostMatch(p, t.host) \/ HostMatch(p, t.name)
    \/ t.kind \notin HostKinds \cup {"repository"} /\ Exactly(p, t.name)

(********************************* targets *********************************)
(* What the text of a target is, in the order the code asks.  A raw target *)
(* is known by its features: clean (no empty, overlong, control or         *)
(* double-encoded text), plain (no credentials, query, bad port or illegal *)
(* host), and its shape.                                                   *)
KindOf(raw) ==
    CASE raw.shape = "scheme"      -> "url"
      [] raw.shape = "address/len" -> "cidr"
      [] raw.shape = "address"     -> "ip"
      [] raw.shape = "owner/name"  -> "repository"
      [] raw.shape = "word"        -> "host"
      [] raw.shape = "root"        -> "local-workspace"
      [] OTHER                     -> "path"

(* Text with a slash that is neither a slug nor rooted is no path.         *)
Normalizes(raw) == raw.clean /\ raw.plain /\ raw.shape # "host/path"
Target(raw) == [kind |-> KindOf(raw), name |-> raw.name, host |-> raw.host]

(***************************** the scope policy ****************************)
(* What the constructor of ScopeEngine insists on; an absent window bound  *)
(* is one the clock does not reach.                                        *)
WellFormed(p) ==
    /\ p.default = "deny"
    /\ p.from <= p.until
    /\ \A d \in p.repositories \cup p.domains : d.form # "begins" /\ d.stem # <<>>
    /\ \A d \in p.directories : Prefix(p.workspace, d)

Active(p, now) == p.from <= now /\ now <= p.until

InScope(p, t) ==
    \/ t.kind = "repository" /\ \E d \in p.repositories : RepoMatch(d, t.name)
    \/ t.kind \in {"host", "url"} /\ \E d \in p.domains : HostMatch(d, t.host)
       /\ (t.kind = "host" \/ p.endpoints = {} \/ t.name \in p.endpoints)
    \/ t.kind \in {"ip", "cidr"} /\ \E n \in p.networks : Prefix(n, t.name)
    \/ t.kind \in LocalKinds /\ \E d \in p.directories : Prefix(d, t.name)

Evaluate(p, t, action, now) ==
    IF \/ ~Active(p, now) \/ Named(<<action>>) \in Entries(p.forbiddenActions)
       \/ action \notin p.actions \/ \E f \in Entries(p.forbidden) : ForbiddenMatch(f, t)
    THEN "DENY"
    ELSE IF InScope(p, t) THEN "ALLOW" ELSE "UNKNOWN"

(* A list within a longer text: its pieces, without what tells where an    *)
(* entry ends.                                                             *)
Text(list) == [i \in DOMAIN list |-> Bare(list[i])]
Asked(p, q) == p.name \o <<Named(q.raw.name), Named(<<q.action>>)>>

(* Mutant: a digest without the excluded targets.                          *)
BugBoundary(p, q) == Asked(p, q) \o Text(p.forbiddenActions) \o <<p.from, p.until>>

(* What an approval digest covers of the scope it was asked under: neither *)
(* the version of the policy nor its lists of what is allowed.  All is     *)
(* joined to one text by "|", which is not escaped: the text tells neither *)
(* where the excluded targets end and the excluded actions begin, nor an   *)
(* entry with a "|" from two entries.                                      *)
Boundary(p, q) ==
    Asked(p, q) \o Text(p.forbidden) \o Text(p.forbiddenActions) \o <<p.from, p.until>>

(******************************* risk and tools ****************************)
LowActions == {"static-analysis", "dependency-audit", "secret-scanning", "reconnaissance"}
MediumActions == {"local-unit-test-verification", "non-destructive-fuzzing"}
HighActions == {"poc-execution", "active-fuzzing", "credential-testing", "exploit-verification"}
CriticalActions == {"production-modification", "data-exfiltration", "denial-of-service",
                    "destructive-database-drop"}

Rank == [LOW |-> 0, MEDIUM |-> 1, HIGH |-> 2, CRITICAL |-> 3]
Larger(a, b) == IF a < b THEN b ELSE a
Smaller(a, b) == IF a < b THEN a ELSE b

Tier(score) == IF score >= 90 THEN "CRITICAL" ELSE IF score >= 60 THEN "HIGH"
               ELSE IF score >= 30 THEN "MEDIUM" ELSE "LOW"

(* The environment of a target stays "unknown": nothing sets it.           *)
Score(q) ==
    LET base == IF q.action \in LowActions THEN 10 ELSE IF q.action \in MediumActions THEN 35
                ELSE IF q.action \in HighActions THEN 70 ELSE 95
    IN  IF q.action \in CriticalActions THEN 100
        ELSE Smaller(100, base + (IF "network" \in q.params THEN 25 ELSE 0)
                               + (IF "write" \in q.params THEN 20 ELSE 0))

(* The two tools of the registry; neither needs the network or writes.     *)
Tools == [n \in {"static-code-scan", "fixture-sql-verify"} |->
            IF n = "static-code-scan"
            THEN [action |-> "static-analysis", tier |-> "LOW", kinds |-> LocalKinds, verifies |-> FALSE]
            ELSE [action |-> "local-unit-test-verification", tier |-> "MEDIUM", kinds |-> LocalKinds,
                  verifies |-> TRUE]]

(* The request's own risk, before the floor of the registered tool.        *)
Assessed(q) == [tier |-> Tier(Score(q)), score |-> Score(q)]

Raised(risk, floor) ==
    IF Rank[risk.tier] < Rank[floor]
    THEN [tier |-> floor, score |-> Larger(risk.score, IF floor = "HIGH" THEN 70 ELSE 35)]
    ELSE risk

(* Mutant: any action for any tool.                                        *)
BugSelectable(q) == KindOf(q.raw) \in Tools[q.tool].kinds

(* ToolRegistry.validate_selection, after the tool was found.              *)
Selectable(q) == /\ Tools[q.tool].action = q.action
                 /\ KindOf(q.raw) \in Tools[q.tool].kinds

(*************** the command line, the simulator and the kernel ************)
(* noble authorize, before it issues a grant for a tool and a target.      *)
Grantable(p, q, role, now) ==
    /\ q.tool \in DOMAIN Tools /\ Normalizes(q.raw)
    /\ Evaluate(p, Target(q.raw), Tools[q.tool].action, now) = "ALLOW"
    /\ KindOf(q.raw) \in Tools[q.tool].kinds
    /\ Tools[q.tool].verifies => role # "operator"

(* Mutant: the kinds of target a tool takes are forgotten.                 *)
BugSimulate(p, q, now) ==
    IF /\ Evaluate(p, Target(q.raw), q.action, now) = "ALLOW"
       /\ q.tool \in DOMAIN Tools /\ Tools[q.tool].action = q.action
       /\ Rank[Tier(Score([q EXCEPT !.params = {}]))] < Rank["HIGH"]
    THEN "ALLOWED" ELSE "BLOCKED"

(* PolicySimulator.simulate for a named tool: ALLOWED or BLOCKED.          *)
Simulate(p, q, now) ==
    IF /\ Evaluate(p, Target(q.raw), q.action, now) = "ALLOW"
       /\ q.tool \in DOMAIN Tools
       /\ Tools[q.tool].action = q.action
       /\ KindOf(q.raw) \in Tools[q.tool].kinds
       /\ Rank[Tier(Score([q EXCEPT !.params = {}]))] < Rank["HIGH"]
    THEN "ALLOWED" ELSE "BLOCKED"

(* SecurityKernel.validate_request.                                        *)
KernelAccepts(q) ==
    /\ q.wellFormed
    /\ q.requester = "actor"
    /\ q.action # "" /\ q.tool # ""
    /\ q.mapping

(********************************* the runs ********************************)
Idle == [pc |-> "idle"]
NoAsk == [state |-> "NONE"]
At(r, pc) == run[r].pc = pc
Goto(r, pc) == run' = [run EXCEPT ![r] = [@ EXCEPT !.pc = pc]]
Refuse(r, why) == run' = [run EXCEPT ![r] = [@ EXCEPT !.pc = "refused", !.why = why]]
Req(r) == run[r].q
Policy(r) == run[r].policy

(* Rank, of the risk a run was given, as RiskAssessment.requires_approval. *)
NeedsApproval(r) == Rank[run[r].risk.tier] >= Rank["HIGH"]

Init ==
    /\ clock = 0
    /\ file \in PolicyFiles
    /\ config \in Configs
    /\ run = [r \in Runs |-> Idle]
    /\ asked = [r \in Runs |-> NoAsk]

(* An engine is built from the policy file as it is now and takes a        *)
(* request, which may name the approval of an earlier one.                 *)
Start(r) ==
    /\ At(r, "idle")
    /\ \E q \in Requests, token \in {a \in Runs : asked[a].state # "NONE"} \cup {r} :
         run' = [run EXCEPT ![r] =
                   [pc |-> IF WellFormed(file) /\ Loads(config) THEN "validating" ELSE "refused",
                    why |-> "configuration", policy |-> file, q |-> q, token |-> token,
                    when |-> 0, risk |-> Assessed(q)]]
    /\ UNCHANGED <<clock, file, config, asked>>

(* Mutant: a request of somebody else's.                                   *)
BugEngineAccepts(q) ==
    q.wellFormed /\ q.action # "" /\ q.tool # "" /\ q.mapping /\ q.params \subseteq {"max_files"}

(* The engine's own validation: structure, principal, tool and schema,     *)
(* whose only parameter is max_files.                                      *)
EngineAccepts(q) ==
    /\ q.wellFormed
    /\ q.requester = "actor"
    /\ q.action # "" /\ q.tool # ""
    /\ q.mapping
    /\ q.params \subseteq {"max_files"}

Validate(r) ==
    /\ At(r, "validating")
    /\ IF ~EngineAccepts(Req(r)) THEN Refuse(r, "invalid")
       ELSE IF Req(r).tool \notin DOMAIN Tools THEN Refuse(r, "tool")
       ELSE Goto(r, "scope")
    /\ UNCHANGED <<clock, file, config, asked>>

(* The decision that is audited; a name that looks like a credential is    *)
(* refused before it.                                                      *)
CheckScope(r) ==
    /\ At(r, "scope")
    /\ IF ~Normalizes(Req(r).raw) \/ Req(r).raw.credential THEN Refuse(r, "invalid")
       ELSE LET pass == Evaluate(Policy(r), Target(Req(r).raw), Req(r).action, clock) = "ALLOW"
            IN  run' = [run EXCEPT ![r] = [@ EXCEPT !.when = clock, !.why = "scope",
                                             !.pc = IF pass THEN "snapshot" ELSE "refused"]]
    /\ UNCHANGED <<clock, file, config, asked>>

(* The snapshot the run carries on evaluates the scope a second time; the  *)
(* window may have closed in between.                                      *)
Snapshot(r) ==
    /\ At(r, "snapshot")
    /\ IF Evaluate(Policy(r), Target(Req(r).raw), Req(r).action, clock) = "ALLOW"
       THEN Goto(r, "authorization") ELSE Refuse(r, "snapshot")
    /\ UNCHANGED <<clock, file, config, asked>>

(* Whether a grant is in force is the business of module Approvals.        *)
Authorize(r) ==
    /\ At(r, "authorization")
    /\ Goto(r, "risk") \/ Refuse(r, "authorization")
    /\ UNCHANGED <<clock, file, config, asked>>

Classify(r) ==
    /\ At(r, "risk")
    /\ run' = [run EXCEPT ![r] = [@ EXCEPT !.pc = "approval",
                 !.risk = Raised(Assessed(Req(r)), Tools[Req(r).tool].tier)]]
    /\ UNCHANGED <<clock, file, config, asked>>

(* ApprovalManager.ensure on the approval the request names.               *)
Honoured(r, a) ==
    /\ a.state = "APPROVED"
    /\ a.q = Req(r)
    /\ a.boundary = Boundary(Policy(r), Req(r))
    /\ a.tier = run[r].risk.tier

PassApproval(r) ==
    /\ At(r, "approval")
    /\ ~NeedsApproval(r) \/ Honoured(r, asked[run[r].token])
    /\ Goto(r, "selection")
    /\ UNCHANGED <<clock, file, config, asked>>

RejectApproval(r) ==
    /\ At(r, "approval")
    /\ NeedsApproval(r) /\ run[r].token # r /\ ~Honoured(r, asked[run[r].token])
    /\ Refuse(r, "approval")
    /\ UNCHANGED <<clock, file, config, asked>>

(* Without a token the run asks for an approval and ends.                  *)
AskApproval(r) ==
    /\ At(r, "approval")
    /\ NeedsApproval(r) /\ run[r].token = r
    /\ asked' = [asked EXCEPT ![r] =
         [state |-> "PENDING", q |-> Req(r), tier |-> run[r].risk.tier,
          boundary |-> Boundary(Policy(r), Req(r)), under |-> Policy(r)]]
    /\ Refuse(r, "approval")
    /\ UNCHANGED <<clock, file, config>>

(* Selection and preconditions; what is on disk is the environment's.      *)
Select(r) ==
    /\ At(r, "selection")
    /\ IF ~Selectable(Req(r)) THEN Refuse(r, "selection")
       ELSE Goto(r, "cleared") \/ Refuse(r, "precondition")
    /\ UNCHANGED <<clock, file, config, asked>>

(* An approver decides; an approval expires or is revoked.                 *)
Decide(r) ==
    /\ asked[r].state = "PENDING"
    /\ \E s \in {"APPROVED", "REJECTED"} : asked' = [asked EXCEPT ![r].state = s]
    /\ UNCHANGED <<clock, file, config, run>>

Withdraw(r) ==
    /\ asked[r].state = "APPROVED"
    /\ asked' = [asked EXCEPT ![r].state = "REVOKED"]
    /\ UNCHANGED <<clock, file, config, run>>

EditPolicy ==
    /\ file' \in PolicyFiles \ {file}
    /\ UNCHANGED <<clock, config, run, asked>>

Tick ==
    /\ clock < MaxClock
    /\ clock' = clock + 1
    /\ UNCHANGED <<file, config, run, asked>>

RunStep(r) ==
    \/ Start(r) \/ Validate(r) \/ CheckScope(r) \/ Snapshot(r) \/ Authorize(r)
    \/ Classify(r) \/ PassApproval(r) \/ RejectApproval(r) \/ AskApproval(r) \/ Select(r)

Next ==
    \/ \E r \in Runs : RunStep(r) \/ Decide(r) \/ Withdraw(r)
    \/ EditPolicy
    \/ Tick

Spec == Init /\ [][Next]_vars

(******************************* properties ********************************)
PCs == {"idle", "validating", "scope", "snapshot", "authorization", "risk", "approval",
        "selection", "cleared", "refused"}
Reasons == {"configuration", "invalid", "tool", "scope", "snapshot", "authorization",
            "approval", "selection", "precondition"}
Risks == [tier : {"LOW", "MEDIUM", "HIGH", "CRITICAL"}, score : 0..100]

(* The type of the state.                                                  *)
TypeOK ==
    /\ clock \in 0..MaxClock
    /\ file \in PolicyFiles /\ config \in Configs
    /\ run \in [Runs -> {Idle} \cup [pc : PCs, why : Reasons, policy : PolicyFiles, q : Requests,
                                    token : Runs, when : 0..MaxClock, risk : Risks]]
    /\ \A r \in Runs : asked[r].state \in {"NONE", "PENDING", "APPROVED", "REJECTED", "REVOKED"}

(* The simulator and the engine, written twice, decide alike: a run that   *)
(* clears every gate is one the simulator allows under the same policy at  *)
(* the moment of the scope decision, and one that the scope, the approval, *)
(* the tool or its selection refuse is one the simulator blocks.  Nor does *)
(* noble authorize, which checks the scope and the tool a third time, give *)
(* a grant that the scope or the selection makes useless: for the action   *)
(* of the tool it agrees with them on every request.                       *)
SimulatorAgrees ==
    \A r \in Runs :
        LET answer == Simulate(Policy(r), Req(r), run[r].when)
            grant == Grantable(Policy(r), Req(r), "security-auditor", run[r].when)
        IN  /\ At(r, "cleared") => answer = "ALLOWED" /\ grant
            /\ At(r, "refused") /\ run[r].why \in {"scope", "approval", "selection"} => answer = "BLOCKED"
            /\ (/\ At(r, "refused") /\ run[r].why \in {"scope", "selection"}
                /\ Req(r).action = Tools[Req(r).tool].action) => ~grant

(* What the code checks in two places it checks alike.  No run gets past   *)
(* the engine's validation with a request that the kernel, which repeats   *)
(* it, refuses.  An engine runs only on limits the schema accepts, and     *)
(* what the schema and the scope policy accept is never refused as         *)
(* configuration, unless a limit is written as a float.                    *)
DuplicatedChecksAgree ==
    \A r \in Runs :
        /\ run[r].pc \notin {"idle", "validating", "refused"} => KernelAccepts(Req(r))
        /\ run[r].pc \notin {"idle", "refused"} =>
              SchemaAccepts([config EXCEPT !.version = "1", !.limits = [k \in LimitKeys |-> @[k]]])
        /\ At(r, "refused") /\ run[r].why = "configuration" /\ SchemaAccepts(config) =>
              ~WellFormed(Policy(r)) \/ config.floats # {}

(* Whatever the policy lists and the approvers decide, only a request of   *)
(* LOW or MEDIUM risk on a local target is ever handed to a worker: an     *)
(* approval is asked, given and checked, and the run is refused all the    *)
(* same, as no registered tool serves an action that needs one.            *)
OnlyQuietLocalRunsClear ==
    \A r \in Runs : At(r, "cleared") =>
        run[r].risk.tier \in {"LOW", "MEDIUM"} /\ KindOf(Req(r).raw) \in LocalKinds

(* The score that is reported and the tier that is enforced agree, also    *)
(* after the tier was raised to the floor of the tool.                     *)
ScoreFitsTier ==
    \A r \in Runs : run[r].pc \in {"approval", "selection", "cleared"} =>
        Tier(run[r].risk.score) = run[r].risk.tier

(* A run that passes on an approval has the window and the target the      *)
(* approver was shown, and everything that was excluded then, be it as a   *)
(* target or as an action, is still excluded, as one or the other, even    *)
(* when the policy file was edited between the asking and the use: if      *)
(* neither policy has a "|" in its name or in what it excludes.            *)
Excluded(p) == Entries(p.forbidden) \cup Entries(p.forbiddenActions)
BarFree(p) ==
    Len(p.name) = 1 /\ \A piece \in Range(p.forbidden) \cup Range(p.forbiddenActions) : ~piece.open
ApprovedUnderSameBoundary ==
    \A r \in Runs : At(r, "selection") /\ NeedsApproval(r) =>
        LET a == asked[run[r].token]
        IN  /\ a.q = Req(r)
            /\ <<a.under.from, a.under.until>> = <<Policy(r).from, Policy(r).until>>
            /\ BarFree(a.under) /\ BarFree(Policy(r)) => Excluded(a.under) = Excluded(Policy(r))

=============================================================================
