----------------------------- MODULE MCPolicies -----------------------------
(* An instance of Policies: one request for each way through the gates and *)
(* six contents of the policy file.                                        *)
EXTENDS Policies, TLC

CONSTANTS r1, r2

MCSymmetry == Permutations({r1, r2})

Raw(shape, name) ==
    [clean |-> TRUE, plain |-> TRUE, shape |-> shape, name |-> name, host |-> name,
     credential |-> FALSE]

Base == [wellFormed |-> TRUE, requester |-> "actor", mapping |-> TRUE, params |-> {},
         action |-> "static-analysis", tool |-> "static-code-scan",
         raw |-> Raw("rooted", <<"ws", "src">>)]

MCRequests ==
    { Base,
      [Base EXCEPT !.requester = "other"],
      [Base EXCEPT !.params = {"network"}],
      [Base EXCEPT !.tool = "nmap"],
      [Base EXCEPT !.tool = "fixture-sql-verify"],
      [Base EXCEPT !.raw = Raw("scheme", <<"local", "app">>)],
      [Base EXCEPT !.raw = Raw("rooted", <<"etc">>)],
      [Base EXCEPT !.raw.credential = TRUE],
      [Base EXCEPT !.raw = Raw("host/path", <<"ws", "src">>)],
      [Base EXCEPT !.action = "poc-execution"],
      [Base EXCEPT !.action = "local-unit-test-verification", !.tool = "fixture-sql-verify",
                   !.raw = Raw("root", <<"ws">>)] }

Piece(form, stem) == [form |-> form, stem |-> stem, open |-> FALSE]
Production == Piece("begins", <<"production-db">>)
Workspace == Piece("name", <<"ws">>)

Policy0 ==
    [default |-> "deny", name |-> <<Named(<<"scope">>)>>, workspace |-> <<"ws">>, from |-> 0, until |-> 9,
     repositories |-> {[form |-> "under", stem |-> <<"vishnubedi3">>]},
     domains |-> {[form |-> "under", stem |-> <<"local">>]}, endpoints |-> {},
     networks |-> {<<1, 0>>}, directories |-> {<<"ws">>},
     actions |-> {"static-analysis", "local-unit-test-verification", "poc-execution"},
     forbidden |-> <<Production>>,
     forbiddenActions |-> <<Piece("name", <<"data-exfiltration">>)>>]

(* Among them two that differ in a "|" between two excluded targets, which *)
(* divides two entries or is part of one.                                  *)
MCPolicyFiles ==
    { Policy0,
      [Policy0 EXCEPT !.until = 0],
      [Policy0 EXCEPT !.forbidden = <<Production, Workspace>>],
      [Policy0 EXCEPT !.forbidden = <<[Production EXCEPT !.open = TRUE], Workspace>>],
      [Policy0 EXCEPT !.forbidden = <<Production, Piece("name", <<"data-exfiltration">>)>>,
                      !.forbiddenActions = <<>>],
      [Policy0 EXCEPT !.directories = {<<"etc">>}] }

(* Every limit at its ceiling; the version as a Boolean; a limit as a      *)
(* float; one above its ceiling; a wall time below the CPU limit; a limit  *)
(* of zero; a CPU limit of more than a minute.                             *)
AtCeilings ==
    [version |-> "1", floats |-> {}, network_enabled |-> FALSE, state_directory |-> ".noble",
     limits |-> [k \in LimitKeys |-> IF k = "cpu_seconds" THEN 60 ELSE Ceiling[k]]]

MCConfigs ==
    { AtCeilings,
      [AtCeilings EXCEPT !.version = "true"],
      [AtCeilings EXCEPT !.floats = {"memory_mb"}],
      [AtCeilings EXCEPT !.limits["max_files"] = 1001],
      [AtCeilings EXCEPT !.limits["timeout_seconds"] = 59],
      [AtCeilings EXCEPT !.limits["rate_per_minute"] = 0],
      [AtCeilings EXCEPT !.limits["cpu_seconds"] = 61] }

=============================================================================
