----------------------------- MODULE MCToolRun -----------------------------
(* An instance of ToolRun: a directory with two files, one of which is the *)
(* fixture, with a subdirectory that is ignored; links may lead to either. *)
EXTENDS ToolRun

CONSTANTS f1, f2, f3

Source(sinks) == [kind |-> "source", sinks |-> sinks, exact |-> FALSE]
Kind(kind) == [Source(<<>>) EXCEPT !.kind = kind]
TheFixture == [Source(<<"q">>) EXCEPT !.exact = TRUE]

MCListing == <<f1, f2, f3>>
MCBelow == [t \in {"dir", f2, f3} |-> IF t = "dir" THEN {f1, f2, f3} ELSE {t}]

Tree(x, y) == [p \in {f1, f2, f3} |-> IF p = f1 THEN x ELSE IF p = f2 THEN y ELSE Source(<<"c">>)]
MCTrees ==
    { Tree(Source(<<"p">>), TheFixture),
      Tree(Source(<<"q">>), Kind("poison")),
      Tree(Kind("absent"), TheFixture),
      Tree([Source(<<"p">>) EXCEPT !.kind = "shifted"], Kind("big")),
      Tree(Kind("outside"), [Source(<<"p">>) EXCEPT !.kind = "elsewhere"]),
      Tree(Source(<<"p", "q">>), TheFixture) }

Scan == [bound |-> TRUE, tool |-> "static-code-scan", size |-> 1, target |-> "dir", maxFiles |-> 2,
         width |-> 1]
MCInvocations ==
    { Scan,
      [Scan EXCEPT !.maxFiles = 1],
      [Scan EXCEPT !.width = 2],
      [Scan EXCEPT !.size = 2],
      [Scan EXCEPT !.size = 3],
      [Scan EXCEPT !.bound = FALSE],
      [Scan EXCEPT !.tool = "nmap"],
      [Scan EXCEPT !.tool = "fixture-sql-verify", !.target = f2] }
=============================================================================
