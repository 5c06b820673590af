--------------------------- MODULE Policies_proofs ---------------------------
(***************************************************************************)
(* What the runs of module Policies check on a small instance holds for    *)
(* any number of runs, any requests, policy files and configurations.  The *)
(* registry (Tools) and the ceilings are those of the code.                *)
(***************************************************************************)
EXTENDS Policies, SequenceTheorems, TLAPS

TierNames == {"LOW", "MEDIUM", "HIGH", "CRITICAL"}
AskStates == {"PENDING", "APPROVED", "REJECTED", "REVOKED"}
Boundaries == {Boundary(p, q) : p \in PolicyFiles, q \in Requests}
Asks == [state : AskStates, q : Requests, tier : TierNames, boundary : Boundaries, under : PolicyFiles]
Live == [pc : PCs, why : Reasons, policy : PolicyFiles, q : Requests, token : Runs,
         when : 0..MaxClock, risk : Risks]

(**************************** the inductive invariant ***********************)
(* A run at one of the stages, or refused for one of the reasons.          *)
Within(x, stages, reasons) == x.pc \in stages \/ (x.pc = "refused" /\ x.why \in reasons)

HighRisk(x) == Rank[x.risk.tier] >= Rank["HIGH"]

(* What each gate has established about a run that is past it or that it   *)
(* has refused: the configuration, the engine's validation, the scope, the *)
(* risk, the approval, the selection.                                      *)
ConfigurationGate(x, c) ==
    IF x.pc = "refused" /\ x.why = "configuration"
    THEN ~(WellFormed(x.policy) /\ Loads(c)) ELSE WellFormed(x.policy) /\ Loads(c)
ValidationGate(x) ==
    Within(x, {"scope", "snapshot", "authorization", "risk", "approval", "selection", "cleared"},
           {"approval", "selection"})
        => EngineAccepts(x.q) /\ x.q.tool \in DOMAIN Tools
Allowed(x) == Evaluate(x.policy, Target(x.q.raw), x.q.action, x.when) = "ALLOW"
ScopeGate(x) ==
    /\ Within(x, {"snapshot", "authorization", "risk", "approval", "selection", "cleared"}, {})
          => Normalizes(x.q.raw) /\ Allowed(x)
    /\ Within(x, {}, {"scope"}) => ~Allowed(x)
RiskGate(x) ==
    Within(x, {"approval", "selection", "cleared"}, {"approval"})
        => x.risk = Raised(Assessed(x.q), Tools[x.q.tool].tier)
ApprovalGate(x) == Within(x, {}, {"approval"}) => HighRisk(x)
SelectionGate(x) ==
    /\ Within(x, {"cleared"}, {}) => Selectable(x.q)
    /\ Within(x, {}, {"selection"}) => ~Selectable(x.q)

Gates(x, c) ==
    /\ x \in Live
    /\ ConfigurationGate(x, c) /\ ValidationGate(x) /\ ScopeGate(x)
    /\ RiskGate(x) /\ ApprovalGate(x) /\ SelectionGate(x)

(* An approval that exists was asked by a run that has ended, and carries  *)
(* the text of the policy it was asked under.                              *)
AskedByEnded ==
    \A r \in Runs : asked[r].state # "NONE" =>
        /\ At(r, "refused")
        /\ asked[r].boundary = Boundary(asked[r].under, asked[r].q)

(* A run past the approval has one that fits, if it needs one.             *)
PassedOnApproval ==
    \A r \in Runs : At(r, "selection") /\ NeedsApproval(r) =>
        LET a == asked[run[r].token]
        IN  a.state # "NONE" /\ a.q = Req(r) /\ a.boundary = Boundary(Policy(r), Req(r))

GateInv ==
    /\ TypeOK
    /\ asked \in [Runs -> {NoAsk} \cup Asks]
    /\ \A r \in Runs : run[r].pc # "idle" => Gates(run[r], config)
    /\ AskedByEnded
    /\ PassedOnApproval

(****************************** scores and tiers ****************************)
(* The weights of the risk table stay within 0..100.                       *)
LEMMA ScoreInRange == \A q : Score(q) \in 0..100
BY DEF Score, Smaller

(* Every score has a tier.                                                 *)
LEMMA TierKnown == \A n : Tier(n) \in TierNames
BY DEF Tier, TierNames

LEMMA AssessedIsRisk == \A q : Assessed(q) \in Risks
BY ScoreInRange, TierKnown DEF Assessed, Risks, TierNames

(* Tier and score agree before the floor of a tool, and after it.          *)
LEMMA AssessedFits == \A q : Tier(Assessed(q).score) = Assessed(q).tier
BY DEF Assessed

LEMMA ToolFloors == \A n \in DOMAIN Tools : Tools[n].tier \in {"LOW", "MEDIUM"}
BY DEF Tools

LEMMA RaisedFits ==
  ASSUME NEW risk \in Risks, NEW floor \in {"LOW", "MEDIUM"}, Tier(risk.score) = risk.tier
  PROVE  /\ Raised(risk, floor) \in Risks
         /\ Tier(Raised(risk, floor).score) = Raised(risk, floor).tier
<1>1. CASE Rank[risk.tier] < Rank[floor]
  <2>1. risk.tier = "LOW" /\ floor = "MEDIUM"
    BY <1>1 DEF Rank, Risks
  <2>2. risk.score \in 0..29
    BY <2>1 DEF Tier, Risks
  <2> QED
    BY <1>1, <2>1, <2>2 DEF Raised, Larger, Tier, Risks
<1>2. CASE ~(Rank[risk.tier] < Rank[floor])
  BY <1>2 DEF Raised
<1> QED
  BY <1>1, <1>2

(* A floor never lifts a risk to one that needs an approval.               *)
LEMMA FloorStaysLow ==
  ASSUME NEW risk \in Risks, NEW floor \in {"LOW", "MEDIUM"},
         Rank[Raised(risk, floor).tier] >= Rank["HIGH"]
  PROVE  Raised(risk, floor) = risk
BY DEF Raised, Rank, Risks

(***************************** the approval digest **************************)
(* Concatenation, for the steps that must not unfold it.                   *)
Cat(s, t) == s \o t

(* Two texts over S, each of two parts, split at the same place.           *)
SplitAlike(S, x, y, u, v) ==
    /\ x \in Seq(S) /\ y \in Seq(S) /\ u \in Seq(S) /\ v \in Seq(S)
    /\ Len(x) = Len(u)

(* If they are equal, so are their parts.                                  *)
LEMMA SameSplit ==
  ASSUME NEW S, NEW x, NEW y, NEW u, NEW v, SplitAlike(S, x, y, u, v), Cat(x, y) = Cat(u, v)
  PROVE  x = u /\ y = v
<1>0. /\ x \in Seq(S) /\ y \in Seq(S) /\ u \in Seq(S) /\ v \in Seq(S)
      /\ Len(x) = Len(u) /\ x \o y = u \o v
  BY DEF SplitAlike, Cat
<1>1. x = u
  <2>1. \A i \in 1..(Len(x) + Len(y)) : (x \o y)[i] = IF i <= Len(x) THEN x[i] ELSE y[i - Len(x)]
    BY <1>0, ConcatProperties
  <2>2. \A i \in 1..(Len(u) + Len(v)) : (u \o v)[i] = IF i <= Len(u) THEN u[i] ELSE v[i - Len(u)]
    BY <1>0, ConcatProperties
  <2>3. ASSUME NEW i \in 1..Len(x)
        PROVE  x[i] = u[i]
    <3>1. i \in 1..(Len(x) + Len(y)) /\ i \in 1..(Len(u) + Len(v)) /\ i <= Len(x) /\ i <= Len(u)
      BY <1>0
    <3>2. (x \o y)[i] = x[i]
      BY <2>1, <3>1
    <3>3. (u \o v)[i] = u[i]
      BY <2>2, <3>1
    <3> QED
      BY <1>0, <3>2, <3>3
  <2> QED
    BY <1>0, <2>3, SeqEqual
<1> QED
  BY <1>0, <1>1, ConcatSimplifications

(* A text over S of four parts, the first of three entries and the last of *)
(* two.                                                                    *)
Digest(S, x, s, t, z) ==
    x \in Seq(S) /\ s \in Seq(S) /\ t \in Seq(S) /\ z \in Seq(S) /\ Len(x) = 3 /\ Len(z) = 2

Joined(x, s, t, z) == x \o s \o t \o z

(* Four texts joined are the first, and the rest with its middle joined.   *)
LEMMA Regrouped ==
  ASSUME NEW S, NEW x, NEW s, NEW t, NEW z, Digest(S, x, s, t, z)
  PROVE  /\ Joined(x, s, t, z) = Cat(x, Cat(Cat(s, t), z))
         /\ Cat(s, t) \in Seq(S)
         /\ Cat(Cat(s, t), z) \in Seq(S)
         /\ Len(Cat(Cat(s, t), z)) = Len(Cat(s, t)) + 2
<1> DEFINE m == s \o t
<1>0. x \in Seq(S) /\ s \in Seq(S) /\ t \in Seq(S) /\ z \in Seq(S) /\ Len(z) = 2
  BY DEF Digest
<1>1. m \in Seq(S) /\ (x \o s) \o t = x \o m
  BY <1>0, ConcatProperties, ConcatAssociative
<1>2. Joined(x, s, t, z) = (x \o m) \o z
  BY <1>1 DEF Joined
<1>3. Cat(s, t) = m
  BY DEF Cat
<1> HIDE DEF m
<1>4. (x \o m) \o z = x \o (m \o z)
  <2>1. x \in Seq(S) /\ m \in Seq(S) /\ z \in Seq(S)
    BY <1>0, <1>1
  <2> QED
    BY ONLY <2>1, ConcatAssociative, SMTT(30)
<1>5. m \o z \in Seq(S) /\ Len(m \o z) = Len(m) + 2
  <2>1. m \in Seq(S) /\ z \in Seq(S)
    BY <1>0, <1>1
  <2>2. m \o z \in Seq(S) /\ Len(m \o z) = Len(m) + Len(z)
    BY <2>1, ConcatProperties
  <2> QED
    BY <1>0, <2>2
<1> QED
  BY <1>1, <1>2, <1>3, <1>4, <1>5 DEF Cat

(* So two of them that are equal have the same middle and the same end,    *)
(* wherever the middle is divided.                                         *)
LEMMA SameMiddle ==
  ASSUME NEW S, NEW x, NEW s, NEW t, NEW z, NEW u, NEW v, NEW w, NEW y,
         Digest(S, x, s, t, z), Digest(S, u, v, w, y),
         Joined(x, s, t, z) = Joined(u, v, w, y)
  PROVE  Cat(s, t) = Cat(v, w) /\ z = y
<1> DEFINE middle == Cat(s, t)
           other == Cat(v, w)
<1>1. /\ Joined(x, s, t, z) = Cat(x, Cat(middle, z))
      /\ middle \in Seq(S) /\ Cat(middle, z) \in Seq(S)
      /\ Len(Cat(middle, z)) = Len(middle) + 2
  BY Regrouped
<1>2. /\ Joined(u, v, w, y) = Cat(u, Cat(other, y))
      /\ other \in Seq(S) /\ Cat(other, y) \in Seq(S)
      /\ Len(Cat(other, y)) = Len(other) + 2
  BY Regrouped
<1>3. x \in Seq(S) /\ u \in Seq(S) /\ z \in Seq(S) /\ y \in Seq(S) /\ Len(x) = Len(u)
  BY DEF Digest
<1> HIDE DEF middle, other
<1>4. Cat(middle, z) = Cat(other, y)
  <2>1. SplitAlike(S, x, Cat(middle, z), u, Cat(other, y))
    BY <1>1, <1>2, <1>3 DEF SplitAlike
  <2> QED
    BY <1>1, <1>2, <2>1, SameSplit
<1>5. Len(middle) = Len(other)
  <2>1. Len(middle) \in Nat /\ Len(other) \in Nat
    BY <1>1, <1>2
  <2>2. Len(middle) + 2 = Len(other) + 2
    BY <1>1, <1>2, <1>4
  <2> QED
    BY <2>1, <2>2
<1>6. SplitAlike(S, middle, z, other, y)
  BY <1>1, <1>2, <1>3, <1>5 DEF SplitAlike
<1>7. middle = other /\ z = y
  BY <1>4, <1>6, SameSplit
<1> QED
  BY <1>7 DEF middle, other

(* Two texts that end alike as texts end in the same two entries, wherever *)
(* what comes before is divided.                                           *)
LEMMA SameEnd ==
  ASSUME NEW S, NEW x, NEW z, NEW u, NEW y,
         x \in Seq(S), u \in Seq(S), z \in Seq(S), y \in Seq(S), Len(z) = 2, Len(y) = 2,
         Cat(x, z) = Cat(u, y)
  PROVE  z = y
<1>1. Len(Cat(x, z)) = Len(x) + 2 /\ Len(Cat(u, y)) = Len(u) + 2
  <2>1. Len(x \o z) = Len(x) + Len(z) /\ Len(u \o y) = Len(u) + Len(y)
    BY ConcatProperties
  <2> QED
    BY <2>1 DEF Cat
<1>2. Len(x) = Len(u)
  <2>1. Len(x) \in Nat /\ Len(u) \in Nat
    OBVIOUS
  <2> QED
    BY <1>1, <2>1
<1> QED
  BY <1>2, SameSplit DEF SplitAlike

(* A list stands in the text with one pattern for each of its pieces; if   *)
(* no piece is open, these are its entries.                                *)
LEMMA TextOfList ==
  ASSUME NEW list \in Lists
  PROVE  /\ Text(list) \in Seq(Patterns)
         /\ (\A piece \in Range(list) : ~piece.open) => Entries(list) = Range(Text(list))
<1>1. /\ list \in Seq(Pieces) /\ DOMAIN list = 1..Len(list) /\ Len(list) \in Nat
      /\ \A i \in 1..Len(list) : list[i] \in Pieces
  BY DEF Lists
<1>2. Text(list) \in [1..Len(list) -> Patterns]
  <2>1. \A i \in 1..Len(list) : Bare(list[i]) \in Patterns
    BY <1>1 DEF Pieces, Bare, Patterns
  <2> QED
    BY <1>1, <2>1 DEF Text
<1>3. Text(list) \in Seq(Patterns)
  BY <1>1, <1>2
<1>4. ASSUME \A piece \in Range(list) : ~piece.open
      PROVE  Entries(list) = Range(Text(list))
  <2>1. \A i \in 1..Len(list) : ~list[i].open
    BY <1>1, <1>4 DEF Range
  <2>2. \A i \in 1..Len(list) : Alone(list, i)
    BY <2>1 DEF Alone
  <2>3. Entries(list) = {Bare(list[i]) : i \in 1..Len(list)}
    BY <1>1, <2>2 DEF Entries
  <2>4. DOMAIN Text(list) = 1..Len(list) /\ \A i \in 1..Len(list) : Text(list)[i] = Bare(list[i])
    BY <1>1 DEF Text
  <2> QED
    BY <2>3, <2>4 DEF Range
<1> QED
  BY <1>3, <1>4

(* What the middle of an approval digest holds is what the policy          *)
(* excludes, if no entry has a "|".                                        *)
LEMMA MiddleIsExcluded ==
  ASSUME NEW p \in PolicyFiles, BarFree(p)
  PROVE  Excluded(p) = Range(Cat(Text(p.forbidden), Text(p.forbiddenActions)))
<1>1. p.forbidden \in Lists /\ p.forbiddenActions \in Lists
  BY PolicyAssumption
<1>2. /\ \A piece \in Range(p.forbidden) : ~piece.open
      /\ \A piece \in Range(p.forbiddenActions) : ~piece.open
  BY DEF BarFree
<1> QED
  BY <1>1, <1>2, TextOfList, RangeConcatenation DEF Excluded, Cat

(* Two policies with the same text for a request have the same window, and *)
(* exclude the same things if neither has a "|".                           *)
LEMMA BoundaryTells ==
  ASSUME NEW p \in PolicyFiles, NEW o \in PolicyFiles, NEW q, Boundary(p, q) = Boundary(o, q)
  PROVE  /\ p.from = o.from /\ p.until = o.until
         /\ BarFree(p) /\ BarFree(o) => Excluded(p) = Excluded(o)
<1> DEFINE S == Patterns \cup {Named(q.raw.name), Named(<<q.action>>),
                               p.from, p.until, o.from, o.until}
           tail == <<Named(q.raw.name), Named(<<q.action>>)>>
           x == Asked(p, q)
           u == Asked(o, q)
           z == <<p.from, p.until>>
           y == <<o.from, o.until>>
           s == Text(p.forbidden)
           v == Text(o.forbidden)
           t == Text(p.forbiddenActions)
           w == Text(o.forbiddenActions)
<1>1. s \in Seq(S) /\ t \in Seq(S) /\ v \in Seq(S) /\ w \in Seq(S)
  <2>1. s \in Seq(Patterns) /\ t \in Seq(Patterns) /\ v \in Seq(Patterns) /\ w \in Seq(Patterns)
    BY PolicyAssumption, TextOfList
  <2> QED
    BY <2>1, SeqMonotonic
<1>2. tail \in Seq(S) /\ Len(tail) = 2 /\ z \in Seq(S) /\ y \in Seq(S) /\ Len(z) = 2 /\ Len(y) = 2
  OBVIOUS
<1>3. p.name \in Seq(S) /\ o.name \in Seq(S)
  <2>1. p.name \in Seq(Patterns) /\ o.name \in Seq(Patterns)
    BY PolicyAssumption
  <2> QED
    BY <2>1, SeqMonotonic
<1>4. x = p.name \o tail /\ u = o.name \o tail
  BY DEF Asked
<1>5. z = y => p.from = o.from /\ p.until = o.until
  OBVIOUS
<1>6. Joined(x, s, t, z) = Joined(u, v, w, y)
  BY DEF Boundary, Joined
<1> HIDE DEF S, tail, x, u, z, y, s, v, t, w
<1>7. /\ x \in Seq(S) /\ Len(x) = Len(p.name) + 2
      /\ u \in Seq(S) /\ Len(u) = Len(o.name) + 2
  <2>1. /\ p.name \o tail \in Seq(S) /\ Len(p.name \o tail) = Len(p.name) + Len(tail)
        /\ o.name \o tail \in Seq(S) /\ Len(o.name \o tail) = Len(o.name) + Len(tail)
    BY <1>2, <1>3, ConcatProperties
  <2> QED
    BY <1>2, <1>4, <2>1
<1>8. z = y
  <2> DEFINE a == (x \o s) \o t
             b == (u \o v) \o w
  <2>1. x \o s \in Seq(S) /\ u \o v \in Seq(S)
    BY <1>1, <1>7, ConcatProperties
  <2>2. a \in Seq(S) /\ b \in Seq(S)
    BY <1>1, <2>1, ConcatProperties
  <2>3. Cat(a, z) = Cat(b, y)
    BY <1>6 DEF Joined, Cat
  <2> HIDE DEF a, b
  <2> QED
    BY <1>2, <2>2, <2>3, SameEnd
<1>9. ASSUME BarFree(p), BarFree(o)
      PROVE  Excluded(p) = Excluded(o)
  <2>1. Len(x) = 3 /\ Len(u) = 3
    BY <1>7, <1>9 DEF BarFree
  <2>2. Digest(S, x, s, t, z) /\ Digest(S, u, v, w, y)
    BY <1>1, <1>2, <1>7, <2>1 DEF Digest
  <2>3. Cat(s, t) = Cat(v, w)
    BY <1>6, <2>2, SameMiddle
  <2>4. Excluded(p) = Range(Cat(s, t)) /\ Excluded(o) = Range(Cat(v, w))
    BY <1>9, MiddleIsExcluded DEF s, t, v, w
  <2> QED
    BY <2>3, <2>4
<1> QED
  BY <1>5, <1>8, <1>9

(****************************** the invariant holds *************************)
LEMMA InitGates == Init => GateInv
BY PolicyAssumption
   DEF Init, GateInv, TypeOK, Idle, NoAsk, AskedByEnded, PassedOnApproval, At, PCs

(* What a step of run r does to the runs, if its gates hold afterwards.    *)
Moved(r) == \E x \in Live : Gates(x, config) /\ run' = [run EXCEPT ![r] = x]

(* A live run that passes a gate, or is refused there.                     *)
LEMMA LiveRun ==
  ASSUME NEW r \in Runs, GateInv, run[r].pc # "idle"
  PROVE  run[r] \in Live /\ Gates(run[r], config)
BY DEF GateInv, Gates

LEMMA StartGates ==
  ASSUME NEW r \in Runs, GateInv, Start(r)
  PROVE  Moved(r)
<1>1. PICK q \in Requests, token \in {a \in Runs : asked[a].state # "NONE"} \cup {r} :
         run' = [run EXCEPT ![r] =
                   [pc |-> IF WellFormed(file) /\ Loads(config) THEN "validating" ELSE "refused",
                    why |-> "configuration", policy |-> file, q |-> q, token |-> token,
                    when |-> 0, risk |-> Assessed(q)]]
  BY DEF Start
<1> DEFINE x == [pc |-> IF WellFormed(file) /\ Loads(config) THEN "validating" ELSE "refused",
                 why |-> "configuration", policy |-> file, q |-> q, token |-> token,
                 when |-> 0, risk |-> Assessed(q)]
<1>2. x \in Live
  <2>1. token \in Runs /\ 0 \in 0..MaxClock /\ file \in PolicyFiles
    BY PolicyAssumption DEF GateInv, TypeOK
  <2>2. Assessed(q) \in Risks
    BY AssessedIsRisk
  <2> QED
    BY <2>1, <2>2 DEF Live, PCs, Reasons
<1>3. Gates(x, config)
  BY <1>2 DEF Gates, ConfigurationGate, ValidationGate, ScopeGate, RiskGate, ApprovalGate,
              SelectionGate, Within
<1>4. run' = [run EXCEPT ![r] = x]
  BY <1>1
<1> HIDE DEF x
<1> QED
  BY <1>2, <1>3, <1>4 DEF Moved

(* The stages that are one Goto apart.                                     *)
Stages == {<<"validating", "scope">>, <<"snapshot", "authorization">>, <<"authorization", "risk">>,
           <<"approval", "selection">>, <<"selection", "cleared">>}

LEMMA GotoGates ==
  ASSUME NEW r \in Runs, GateInv, NEW pc, <<run[r].pc, pc>> \in Stages, Goto(r, pc),
         pc = "scope" => EngineAccepts(Req(r)) /\ Req(r).tool \in DOMAIN Tools,
         pc = "cleared" => Selectable(Req(r))
  PROVE  Moved(r)
<1> DEFINE x == run[r]
           y == [x EXCEPT !.pc = pc]
<1>1. x.pc \in {"validating", "snapshot", "authorization", "approval", "selection"}
      /\ pc \in {"scope", "authorization", "risk", "selection", "cleared"}
  BY DEF Stages
<1>2. x \in Live /\ Gates(x, config)
  BY <1>1, LiveRun
<1>3. /\ y \in Live /\ y.pc = pc /\ y.policy = x.policy /\ y.q = x.q
      /\ y.when = x.when /\ y.risk = x.risk
  BY <1>1, <1>2 DEF Live, PCs
<1>4. run' = [run EXCEPT ![r] = y]
  BY DEF Goto
<1>5. pc = "scope" => EngineAccepts(x.q) /\ x.q.tool \in DOMAIN Tools
  BY DEF Req
<1>6. pc = "cleared" => Selectable(x.q)
  BY DEF Req
<1>7. x.pc = "validating" => pc = "scope"
  BY DEF Stages
<1>8. /\ x.pc = "snapshot" <=> pc = "authorization"
      /\ x.pc = "authorization" <=> pc = "risk"
      /\ x.pc = "approval" <=> pc = "selection"
      /\ x.pc = "selection" <=> pc = "cleared"
      /\ x.pc = "validating" <=> pc = "scope"
  BY DEF Stages
<1> HIDE DEF y, x
<1>9. Gates(y, config)
  <2>1. ConfigurationGate(y, config)
    BY <1>1, <1>2, <1>3 DEF Gates, ConfigurationGate
  <2>2. ValidationGate(y)
    <3>1. CASE pc = "scope"
      BY <1>3, <1>5, <3>1 DEF ValidationGate
    <3>2. CASE pc # "scope"
      <4>1. EngineAccepts(x.q) /\ x.q.tool \in DOMAIN Tools
        BY <1>1, <1>2, <1>8, <3>2 DEF Gates, ValidationGate, Within
      <4> QED
        BY <1>3, <4>1 DEF ValidationGate
    <3> QED
      BY <3>1, <3>2
  <2>3. ScopeGate(y)
    BY <1>1, <1>2, <1>3, <1>8 DEF Gates, ScopeGate, Within, Allowed
  <2>4. RiskGate(y)
    <3>1. pc \in {"selection", "cleared"} => x.risk = Raised(Assessed(x.q), Tools[x.q.tool].tier)
      BY <1>1, <1>2, <1>8 DEF Gates, RiskGate, Within
    <3> QED
      BY <1>1, <1>3, <3>1 DEF RiskGate, Within
  <2>5. ApprovalGate(y) /\ SelectionGate(y)
    BY <1>1, <1>3, <1>6 DEF ApprovalGate, SelectionGate, Within
  <2> QED
    BY <1>3, <2>1, <2>2, <2>3, <2>4, <2>5 DEF Gates
<1> QED
  BY <1>3, <1>4, <1>9 DEF Moved

(* A refusal at a stage after the configuration, for another reason than   *)
(* the scope.                                                              *)
LEMMA RefuseGates ==
  ASSUME NEW r \in Runs, GateInv, run[r].pc \notin {"idle", "refused"},
         NEW why \in Reasons \ {"configuration", "scope"}, Refuse(r, why),
         why = "approval" => At(r, "approval") /\ NeedsApproval(r),
         why = "selection" => At(r, "selection") /\ ~Selectable(Req(r))
  PROVE  Moved(r)
<1> DEFINE x == run[r]
           y == [x EXCEPT !.pc = "refused", !.why = why]
<1>1. x \in Live /\ Gates(x, config)
  BY LiveRun
<1>2. /\ y \in Live /\ y.pc = "refused" /\ y.why = why /\ y.policy = x.policy /\ y.q = x.q
      /\ y.when = x.when /\ y.risk = x.risk
  BY <1>1 DEF Live, PCs
<1>3. run' = [run EXCEPT ![r] = y]
  BY DEF Refuse
<1>4. /\ x.pc # "refused"
      /\ why = "approval" => x.pc = "approval" /\ HighRisk(x)
      /\ why = "selection" => x.pc = "selection" /\ ~Selectable(x.q)
  BY DEF At, NeedsApproval, HighRisk, Req
<1> HIDE DEF y, x
<1>5. Gates(y, config)
  <2>1. ConfigurationGate(y, config)
    BY <1>1, <1>2, <1>4 DEF Gates, ConfigurationGate
  <2>2. ValidationGate(y)
    <3>1. why \in {"approval", "selection"} => EngineAccepts(x.q) /\ x.q.tool \in DOMAIN Tools
      BY <1>1, <1>4 DEF Gates, ValidationGate, Within
    <3> QED
      BY <1>2, <3>1 DEF ValidationGate, Within
  <2>3. ScopeGate(y) /\ SelectionGate(y)
    BY <1>2, <1>4 DEF ScopeGate, SelectionGate, Within
  <2>4. RiskGate(y) /\ ApprovalGate(y)
    <3>1. why = "approval" => x.risk = Raised(Assessed(x.q), Tools[x.q.tool].tier)
      BY <1>1, <1>4 DEF Gates, RiskGate, Within
    <3>2. why = "approval" => Rank[x.risk.tier] >= Rank["HIGH"]
      BY <1>4 DEF HighRisk
    <3> QED
      BY <1>2, <3>1, <3>2 DEF RiskGate, ApprovalGate, Within, HighRisk
  <2> QED
    BY <1>2, <2>1, <2>2, <2>3, <2>4 DEF Gates
<1> QED
  BY <1>2, <1>3, <1>5 DEF Moved

LEMMA CheckScopeGates ==
  ASSUME NEW r \in Runs, GateInv, CheckScope(r)
  PROVE  Moved(r)
<1> DEFINE x == run[r]
           pass == Evaluate(Policy(r), Target(Req(r).raw), Req(r).action, clock) = "ALLOW"
           y == [x EXCEPT !.when = clock, !.why = "scope", !.pc = IF pass THEN "snapshot" ELSE "refused"]
<1>1. x \in Live /\ Gates(x, config) /\ x.pc = "scope"
  BY LiveRun DEF CheckScope, At
<1>2. CASE ~Normalizes(Req(r).raw) \/ Req(r).raw.credential
  <2>1. Refuse(r, "invalid")
    BY <1>2 DEF CheckScope
  <2> QED
    BY <1>1, <2>1, RefuseGates DEF Reasons
<1>3. CASE ~(~Normalizes(Req(r).raw) \/ Req(r).raw.credential)
  <2>1. run' = [run EXCEPT ![r] = y]
    BY <1>3 DEF CheckScope
  <2>2. y \in Live /\ y.pc = (IF pass THEN "snapshot" ELSE "refused") /\ y.why = "scope"
        /\ y.policy = x.policy /\ y.q = x.q /\ y.when = clock
    BY <1>1 DEF Live, PCs, Reasons, GateInv, TypeOK
  <2>3. pass <=> Evaluate(x.policy, Target(x.q.raw), x.q.action, clock) = "ALLOW"
    BY DEF Policy, Req
  <2>4. Normalizes(x.q.raw)
    BY <1>3 DEF Req
  <2> HIDE DEF pass, y, x
  <2>5. Gates(y, config)
    BY <1>1, <2>2, <2>3, <2>4 DEF Gates, ConfigurationGate, ValidationGate, ScopeGate, RiskGate,
       ApprovalGate, SelectionGate, Within, Allowed
  <2> QED
    BY <2>1, <2>2, <2>5 DEF Moved
<1> QED
  BY <1>2, <1>3

LEMMA ClassifyGates ==
  ASSUME NEW r \in Runs, GateInv, Classify(r)
  PROVE  Moved(r)
<1> DEFINE x == run[r]
           risk == Raised(Assessed(Req(r)), Tools[Req(r).tool].tier)
           y == [x EXCEPT !.pc = "approval", !.risk = risk]
<1>1. x \in Live /\ Gates(x, config) /\ x.pc = "risk"
  BY LiveRun DEF Classify, At
<1>2. EngineAccepts(x.q) /\ x.q.tool \in DOMAIN Tools
  BY <1>1 DEF Gates, ValidationGate, Within
<1>3. risk \in Risks
  BY <1>2, AssessedIsRisk, AssessedFits, ToolFloors, RaisedFits DEF Req
<1>4. y \in Live /\ y.pc = "approval" /\ y.policy = x.policy /\ y.q = x.q /\ y.when = x.when
      /\ y.risk = Raised(Assessed(x.q), Tools[x.q.tool].tier)
  BY <1>1, <1>3 DEF Live, PCs, Req
<1>5. run' = [run EXCEPT ![r] = y]
  BY DEF Classify
<1> HIDE DEF y, x, risk
<1>6. Gates(y, config)
  BY <1>1, <1>4 DEF Gates, ConfigurationGate, ValidationGate, ScopeGate, RiskGate,
     ApprovalGate, SelectionGate, Within, Allowed
<1> QED
  BY <1>4, <1>5, <1>6 DEF Moved

(* Every step of a run keeps what its gates have established.              *)
LEMMA RunStepGates ==
  ASSUME NEW r \in Runs, GateInv, RunStep(r)
  PROVE  Moved(r)
<1>1. CASE Validate(r)
  <2>1. PICK why \in {"invalid", "tool", "none"} :
           IF why = "none" THEN Goto(r, "scope") /\ EngineAccepts(Req(r)) /\ Req(r).tool \in DOMAIN Tools
           ELSE Refuse(r, why)
    BY <1>1 DEF Validate
  <2>2. run[r].pc = "validating"
    BY <1>1 DEF Validate, At
  <2>3. CASE why = "none"
    BY <2>1, <2>2, <2>3, GotoGates DEF Stages
  <2>4. CASE why # "none"
    BY <2>1, <2>2, <2>4, RefuseGates DEF Reasons
  <2> QED
    BY <2>3, <2>4
<1>2. CASE Snapshot(r)
  <2>1. run[r].pc = "snapshot" /\ (Goto(r, "authorization") \/ Refuse(r, "snapshot"))
    BY <1>2 DEF Snapshot, At
  <2> QED
    BY <2>1, GotoGates, RefuseGates DEF Stages, Reasons
<1>3. CASE Authorize(r)
  <2>1. run[r].pc = "authorization" /\ (Goto(r, "risk") \/ Refuse(r, "authorization"))
    BY <1>3 DEF Authorize, At
  <2> QED
    BY <2>1, GotoGates, RefuseGates DEF Stages, Reasons
<1>4. CASE PassApproval(r)
  <2>1. run[r].pc = "approval" /\ Goto(r, "selection")
    BY <1>4 DEF PassApproval, At
  <2> QED
    BY <2>1, GotoGates DEF Stages
<1>5. CASE RejectApproval(r) \/ AskApproval(r)
  <2>1. At(r, "approval") /\ run[r].pc = "approval" /\ NeedsApproval(r) /\ Refuse(r, "approval")
    BY <1>5 DEF RejectApproval, AskApproval, At
  <2> QED
    BY <2>1, RefuseGates DEF Reasons
<1>6. CASE Select(r)
  <2>1. At(r, "selection") /\ run[r].pc = "selection"
    BY <1>6 DEF Select, At
  <2>2. CASE Selectable(Req(r))
    BY <1>6, <2>1, <2>2, GotoGates, RefuseGates DEF Select, Stages, Reasons
  <2>3. CASE ~Selectable(Req(r))
    BY <1>6, <2>1, <2>3, RefuseGates DEF Select, Reasons
  <2> QED
    BY <2>2, <2>3
<1> QED
  BY <1>1, <1>2, <1>3, <1>4, <1>5, <1>6, StartGates, CheckScopeGates, ClassifyGates DEF RunStep

(* What a step of a run leaves alone.                                      *)
LEMMA RunStepFrame ==
  ASSUME NEW r \in Runs, GateInv, RunStep(r)
  PROVE  /\ clock' = clock /\ file' = file /\ config' = config
         /\ run[r].pc # "refused"
         /\ run' \in [Runs -> {Idle} \cup Live]
         /\ \A s \in Runs : s # r => run'[s] = run[s]
         /\ \A s \in Runs : run'[s].pc # "idle" => Gates(run'[s], config)
         /\ asked' = asked \/ AskApproval(r)
<1>1. PICK x \in Live : Gates(x, config) /\ run' = [run EXCEPT ![r] = x]
  BY RunStepGates DEF Moved
<1>2. run \in [Runs -> {Idle} \cup Live]
  BY DEF GateInv, TypeOK, Live
<1>3. /\ run' \in [Runs -> {Idle} \cup Live] /\ run'[r] = x
      /\ \A s \in Runs : s # r => run'[s] = run[s]
  BY <1>1, <1>2
<1>4. \A s \in Runs : run'[s].pc # "idle" => Gates(run'[s], config)
  BY <1>1, <1>3 DEF GateInv
<1>5. /\ clock' = clock /\ file' = file /\ config' = config
      /\ run[r].pc # "refused" /\ (asked' = asked \/ AskApproval(r))
  BY DEF RunStep, Start, Validate, CheckScope, Snapshot, Authorize, Classify, PassApproval,
         RejectApproval, AskApproval, Select, At
<1> QED
  BY <1>3, <1>4, <1>5

LEMMA AskApprovalKeeps ==
  ASSUME NEW r \in Runs, GateInv, AskApproval(r)
  PROVE  /\ asked' \in [Runs -> {NoAsk} \cup Asks]
         /\ \A s \in Runs : s # r => asked'[s] = asked[s]
         /\ asked'[r].boundary = Boundary(asked'[r].under, asked'[r].q)
         /\ asked[r].state = "NONE"
         /\ run'[r].pc = "refused"
<1>1. run[r].pc = "approval" /\ run[r] \in Live
  BY LiveRun DEF AskApproval, At
<1>2. asked' = [asked EXCEPT ![r] =
         [state |-> "PENDING", q |-> Req(r), tier |-> run[r].risk.tier,
          boundary |-> Boundary(Policy(r), Req(r)), under |-> Policy(r)]]
  BY DEF AskApproval
<1>3. /\ Req(r) \in Requests /\ Policy(r) \in PolicyFiles /\ run[r].risk.tier \in TierNames
  BY <1>1 DEF Req, Policy, Live, Risks, TierNames
<1>4. Boundary(Policy(r), Req(r)) \in Boundaries
  BY <1>3 DEF Boundaries
<1>5. [state |-> "PENDING", q |-> Req(r), tier |-> run[r].risk.tier,
       boundary |-> Boundary(Policy(r), Req(r)), under |-> Policy(r)] \in Asks
  BY <1>3, <1>4 DEF Asks, AskStates
<1>6. asked \in [Runs -> {NoAsk} \cup Asks]
  BY DEF GateInv
<1>7. asked[r].state = "NONE"
  BY <1>1 DEF GateInv, AskedByEnded, At
<1>8. run'[r].pc = "refused"
  BY <1>1 DEF AskApproval, Refuse, GateInv, TypeOK, Live
<1> QED
  BY <1>2, <1>5, <1>6, <1>7, <1>8

LEMMA PassesHonoured ==
  ASSUME NEW r \in Runs, GateInv, RunStep(r), run'[r].pc = "selection", NeedsApproval(r)'
  PROVE  /\ asked' = asked
         /\ LET a == asked[run'[r].token]
            IN  /\ a.state = "APPROVED" /\ a.q = run'[r].q
                /\ a.boundary = Boundary(run'[r].policy, run'[r].q)
<1>1. run \in [Runs -> {Idle} \cup Live]
  BY DEF GateInv, TypeOK, Live
<1>2. CASE PassApproval(r)
  <2>1. run[r] \in Live
    BY <1>2, LiveRun DEF PassApproval, At
  <2>2. run'[r] = [run[r] EXCEPT !.pc = "selection"]
    BY <1>1, <1>2 DEF PassApproval, Goto
  <2>3. /\ run'[r].q = run[r].q /\ run'[r].policy = run[r].policy
        /\ run'[r].token = run[r].token /\ run'[r].risk = run[r].risk
    BY <2>1, <2>2 DEF Live
  <2>4. Honoured(r, asked[run[r].token])
    BY <1>2, <2>3 DEF PassApproval, NeedsApproval
  <2> QED
    BY <1>2, <2>3, <2>4 DEF PassApproval, Honoured, Req, Policy
<1>3. CASE Start(r)
  BY <1>1, <1>3 DEF Start
<1>4. CASE Validate(r) \/ Snapshot(r) \/ Authorize(r) \/ RejectApproval(r) \/ AskApproval(r) \/ Select(r)
  <2>1. run[r] \in Live
    BY <1>4, LiveRun
       DEF Validate, Snapshot, Authorize, RejectApproval, AskApproval, Select, At
  <2>2. PICK pc \in {"scope", "authorization", "risk", "cleared", "refused"} :
           \/ Goto(r, pc)
           \/ pc = "refused" /\ \E why \in Reasons : Refuse(r, why)
    BY <1>4 DEF Validate, Snapshot, Authorize, RejectApproval, AskApproval, Select, Reasons
  <2>3. run'[r].pc = pc
    BY <1>1, <2>1, <2>2 DEF Goto, Refuse, Live
  <2> QED
    BY <2>3
<1>5. CASE CheckScope(r) \/ Classify(r)
  <2>1. run[r] \in Live
    BY <1>5, LiveRun DEF CheckScope, Classify, At
  <2>2. CASE Classify(r)
    BY <1>1, <2>1, <2>2 DEF Classify, Live
  <2>3. CASE CheckScope(r) /\ Refuse(r, "invalid")
    BY <1>1, <2>1, <2>3 DEF Refuse, Live
  <2>4. CASE CheckScope(r) /\ ~Refuse(r, "invalid")
    <3>1. PICK pc \in {"snapshot", "refused"} :
             run' = [run EXCEPT ![r] = [@ EXCEPT !.when = clock, !.why = "scope", !.pc = pc]]
      BY <2>4 DEF CheckScope
    <3> QED
      BY <1>1, <2>1, <3>1 DEF Live
  <2> QED
    BY <1>5, <2>2, <2>3, <2>4
<1> QED
  BY <1>2, <1>3, <1>4, <1>5 DEF RunStep

LEMMA RunStepKeeps ==
  ASSUME NEW r \in Runs, GateInv, RunStep(r)
  PROVE  GateInv'
<1>1. /\ clock' = clock /\ file' = file /\ config' = config
      /\ run[r].pc # "refused"
      /\ run' \in [Runs -> {Idle} \cup Live]
      /\ \A s \in Runs : s # r => run'[s] = run[s]
      /\ \A s \in Runs : run'[s].pc # "idle" => Gates(run'[s], config)
  BY RunStepFrame
<1>2. /\ asked' \in [Runs -> {NoAsk} \cup Asks]
      /\ \A s \in Runs : s # r => asked'[s] = asked[s]
      /\ \/ asked' = asked
         \/ /\ asked'[r].boundary = Boundary(asked'[r].under, asked'[r].q)
            /\ asked[r].state = "NONE" /\ run'[r].pc = "refused"
  <2>1. CASE asked' = asked
    BY <2>1 DEF GateInv
  <2>2. CASE AskApproval(r)
    BY <2>2, AskApprovalKeeps
  <2> QED
    BY <2>1, <2>2, RunStepFrame
<1>3. TypeOK'
  <2>1. \A s \in Runs : asked'[s].state \in {"NONE", "PENDING", "APPROVED", "REJECTED", "REVOKED"}
    BY <1>2 DEF NoAsk, Asks, AskStates
  <2>2. clock \in 0..MaxClock /\ file \in PolicyFiles /\ config \in Configs
    BY DEF GateInv, TypeOK
  <2> QED
    BY <1>1, <2>1, <2>2 DEF TypeOK, Live
<1>4. AskedByEnded'
  <2>1. AskedByEnded
    BY DEF GateInv
  <2>2. asked[r].state = "NONE"
    BY <1>1, <2>1 DEF AskedByEnded, At
  <2>3. \A s \in Runs : s # r /\ asked'[s].state # "NONE" =>
           run'[s].pc = "refused" /\ asked'[s].boundary = Boundary(asked'[s].under, asked'[s].q)
    BY <1>1, <1>2, <2>1 DEF AskedByEnded, At
  <2>4. asked'[r].state # "NONE" =>
           run'[r].pc = "refused" /\ asked'[r].boundary = Boundary(asked'[r].under, asked'[r].q)
    BY <1>2, <2>2
  <2> QED
    BY <2>3, <2>4 DEF AskedByEnded, At
<1>5. PassedOnApproval'
  <2> SUFFICES ASSUME NEW s \in Runs, At(s, "selection")', NeedsApproval(s)'
               PROVE  LET a == asked'[run'[s].token]
                      IN  /\ a.state # "NONE" /\ a.q = run'[s].q
                          /\ a.boundary = Boundary(run'[s].policy, run'[s].q)
    BY DEF PassedOnApproval, Req, Policy
  <2>1. CASE s = r
    BY <2>1, PassesHonoured DEF At
  <2>2. CASE s # r
    <3>1. run'[s] = run[s] /\ At(s, "selection") /\ NeedsApproval(s)
      BY <1>1, <2>2 DEF At, NeedsApproval
    <3>2. LET a == asked[run[s].token]
          IN  a.state # "NONE" /\ a.q = run[s].q /\ a.boundary = Boundary(run[s].policy, run[s].q)
      BY <3>1 DEF GateInv, PassedOnApproval, Req, Policy
    <3>3. run[s].token \in Runs
      BY <3>1, LiveRun DEF At, Live
    <3>4. run[s].token # r
      BY <1>1, <3>2, <3>3 DEF GateInv, AskedByEnded, At
    <3> QED
      BY <1>2, <3>1, <3>2, <3>3, <3>4
  <2> QED
    BY <2>1, <2>2
<1> QED
  BY <1>1, <1>2, <1>3, <1>4, <1>5 DEF GateInv

(* An approver's decision changes the state of an approval and nothing     *)
(* the gates depend on.                                                    *)
LEMMA DecisionKeeps ==
  ASSUME NEW r \in Runs, GateInv, Decide(r) \/ Withdraw(r)
  PROVE  GateInv'
<1>1. PICK st \in AskStates : asked' = [asked EXCEPT ![r].state = st] /\ asked[r].state # "NONE"
  BY DEF Decide, Withdraw, AskStates
<1>2. UNCHANGED <<clock, file, config, run>>
  BY DEF Decide, Withdraw
<1>3. asked \in [Runs -> {NoAsk} \cup Asks]
  BY DEF GateInv
<1>4. asked[r] \in Asks
  BY <1>1, <1>3 DEF NoAsk
<1>5. /\ asked'[r] \in Asks /\ asked'[r].q = asked[r].q
      /\ asked'[r].boundary = asked[r].boundary /\ asked'[r].under = asked[r].under
      /\ asked'[r].state = st
  BY <1>1, <1>3, <1>4 DEF Asks
<1>6. \A s \in Runs : s # r => asked'[s] = asked[s]
  BY <1>1, <1>3
<1>7. asked' \in [Runs -> {NoAsk} \cup Asks]
  BY <1>1, <1>3, <1>5, <1>6
<1>8. st # "NONE"
  BY DEF AskStates
<1>9. TypeOK'
  BY <1>2, <1>7 DEF GateInv, TypeOK, NoAsk, Asks, AskStates
<1>10. AskedByEnded'
  BY <1>1, <1>2, <1>5, <1>6, <1>8 DEF GateInv, AskedByEnded, At
<1>11. PassedOnApproval'
  <2> SUFFICES ASSUME NEW s \in Runs, At(s, "selection"), NeedsApproval(s)
               PROVE  LET a == asked'[run[s].token]
                      IN  /\ a.state # "NONE" /\ a.q = run[s].q
                          /\ a.boundary = Boundary(run[s].policy, run[s].q)
    BY <1>2 DEF PassedOnApproval, Req, Policy, At, NeedsApproval
  <2>1. LET a == asked[run[s].token]
        IN  a.state # "NONE" /\ a.q = run[s].q /\ a.boundary = Boundary(run[s].policy, run[s].q)
    BY DEF GateInv, PassedOnApproval, Req, Policy
  <2>2. run[s].token \in Runs
    BY LiveRun DEF At, Live
  <2> QED
    BY <1>5, <1>6, <1>8, <2>1, <2>2
<1>12. \A s \in Runs : run'[s].pc # "idle" => Gates(run'[s], config')
  BY <1>2 DEF GateInv
<1> QED
  BY <1>7, <1>9, <1>10, <1>11, <1>12 DEF GateInv

LEMMA NextGates == GateInv /\ [Next]_vars => GateInv'
<1> SUFFICES ASSUME GateInv, [Next]_vars
             PROVE  GateInv'
  OBVIOUS
<1>1. CASE \E r \in Runs : RunStep(r)
  BY <1>1, RunStepKeeps
<1>2. CASE \E r \in Runs : Decide(r) \/ Withdraw(r)
  BY <1>2, DecisionKeeps
<1>3. CASE EditPolicy \/ Tick \/ UNCHANGED vars
  <2>1. UNCHANGED <<config, run, asked>> /\ file' \in PolicyFiles /\ clock' \in 0..MaxClock
    BY <1>3, PolicyAssumption DEF EditPolicy, Tick, vars, GateInv, TypeOK
  <2>2. TypeOK'
    BY <2>1 DEF GateInv, TypeOK
  <2>3. AskedByEnded' /\ PassedOnApproval'
    BY <2>1 DEF GateInv, AskedByEnded, PassedOnApproval, At, NeedsApproval, Req, Policy
  <2> QED
    BY <2>1, <2>2, <2>3 DEF GateInv
<1> QED
  BY <1>1, <1>2, <1>3 DEF Next

LEMMA GatesHold == Spec => []GateInv
<1>1. Init => GateInv
  BY InitGates
<1>2. GateInv /\ [Next]_vars => GateInv'
  BY NextGates
<1> QED
  BY <1>1, <1>2, PTL DEF Spec

(********************************* theorems *********************************)
(* The state has its type.                                                 *)
THEOREM TypeCorrect == Spec => []TypeOK
<1>1. GateInv => TypeOK
  BY DEF GateInv
<1> QED
  BY <1>1, GatesHold, PTL

(* The score that is reported and the tier that is enforced agree, for any *)
(* requests, also after the tier was raised to the floor of the tool.      *)
THEOREM ScoresFitTiers == Spec => []ScoreFitsTier
<1>1. ASSUME GateInv, NEW r \in Runs, run[r].pc \in {"approval", "selection", "cleared"}
      PROVE  Tier(run[r].risk.score) = run[r].risk.tier
  <2>1. Gates(run[r], config)
    BY <1>1, LiveRun
  <2>2. /\ run[r].risk = Raised(Assessed(run[r].q), Tools[run[r].q.tool].tier)
        /\ run[r].q.tool \in DOMAIN Tools
    BY <1>1, <2>1 DEF Gates, RiskGate, ValidationGate, Within
  <2> QED
    BY <2>2, ToolFloors, AssessedIsRisk, AssessedFits, RaisedFits
<1>2. GateInv => ScoreFitsTier
  BY <1>1 DEF ScoreFitsTier
<1> QED
  BY <1>2, GatesHold, PTL

(* A tool takes one action, and its risk on a parameter the engine accepts *)
(* is at most that of its own tier.                                        *)
LEMMA SelectableIsQuiet ==
  ASSUME NEW q, EngineAccepts(q), q.tool \in DOMAIN Tools, Selectable(q)
  PROVE  /\ Assessed(q).tier \in {"LOW", "MEDIUM"}
         /\ Raised(Assessed(q), Tools[q.tool].tier).tier \in {"LOW", "MEDIUM"}
         /\ KindOf(q.raw) \in LocalKinds
<1>1. q.action \in {"static-analysis", "local-unit-test-verification"} /\ KindOf(q.raw) \in LocalKinds
  BY DEF Selectable, Tools
<1>2. "network" \notin q.params /\ "write" \notin q.params
  BY DEF EngineAccepts
<1>3. Score(q) \in {10, 35}
  BY <1>1, <1>2 DEF Score, Smaller, LowActions, MediumActions, HighActions, CriticalActions
<1>4. Assessed(q).tier \in {"LOW", "MEDIUM"}
  BY <1>3 DEF Assessed, Tier
<1>5. Tools[q.tool].tier \in {"LOW", "MEDIUM"}
  BY ToolFloors
<1> QED
  BY <1>1, <1>4, <1>5 DEF Raised

(* Whatever the policies list and the approvers decide, only a request of  *)
(* LOW or MEDIUM risk on a local target is handed to a worker.             *)
THEOREM QuietLocalRuns == Spec => []OnlyQuietLocalRunsClear
<1>1. ASSUME GateInv, NEW r \in Runs, At(r, "cleared")
      PROVE  run[r].risk.tier \in {"LOW", "MEDIUM"} /\ KindOf(Req(r).raw) \in LocalKinds
  <2>1. Gates(run[r], config) /\ run[r].pc = "cleared"
    BY <1>1, LiveRun DEF At
  <2>2. /\ run[r].risk = Raised(Assessed(run[r].q), Tools[run[r].q.tool].tier)
        /\ EngineAccepts(run[r].q) /\ run[r].q.tool \in DOMAIN Tools /\ Selectable(run[r].q)
    BY <2>1 DEF Gates, RiskGate, ValidationGate, SelectionGate, Within
  <2> QED
    BY <2>2, SelectableIsQuiet DEF Req
<1>2. GateInv => OnlyQuietLocalRunsClear
  BY <1>1 DEF OnlyQuietLocalRunsClear
<1> QED
  BY <1>2, GatesHold, PTL

(* A run that passes on an approval runs in the window the approver was    *)
(* shown, for any two contents of the policy file; and under the           *)
(* exclusions the approver was shown, if neither has a "|" in an entry.    *)
THEOREM SameBoundaryApproved == Spec => []ApprovedUnderSameBoundary
<1>1. ASSUME GateInv, NEW r \in Runs, At(r, "selection"), NeedsApproval(r)
      PROVE  LET a == asked[run[r].token]
             IN  /\ a.q = Req(r)
                 /\ <<a.under.from, a.under.until>> = <<Policy(r).from, Policy(r).until>>
                 /\ BarFree(a.under) /\ BarFree(Policy(r)) => Excluded(a.under) = Excluded(Policy(r))
  <2> DEFINE a == asked[run[r].token]
  <2>1. run[r] \in Live
    BY <1>1, LiveRun DEF At
  <2>2. run[r].token \in Runs /\ Policy(r) \in PolicyFiles
    BY <2>1 DEF Live, Policy
  <2>3. a.state # "NONE" /\ a.q = Req(r) /\ a.boundary = Boundary(Policy(r), Req(r))
    BY <1>1 DEF GateInv, PassedOnApproval
  <2>4. a.boundary = Boundary(a.under, a.q)
    BY <1>1, <2>2, <2>3 DEF GateInv, AskedByEnded
  <2>5. a.under \in PolicyFiles
    BY <1>1, <2>2, <2>3 DEF GateInv, NoAsk, Asks
  <2>6. Boundary(a.under, Req(r)) = Boundary(Policy(r), Req(r))
    BY <2>3, <2>4
  <2> HIDE DEF a
  <2>7. /\ a.under.from = Policy(r).from /\ a.under.until = Policy(r).until
        /\ BarFree(a.under) /\ BarFree(Policy(r)) => Excluded(a.under) = Excluded(Policy(r))
    BY <2>2, <2>5, <2>6, BoundaryTells
  <2> QED
    BY <2>3, <2>7 DEF a
<1>2. GateInv => ApprovedUnderSameBoundary
  BY <1>1 DEF ApprovedUnderSameBoundary
<1> QED
  BY <1>2, GatesHold, PTL

(* What the engine accepts in a request, the kernel accepts.               *)
LEMMA EngineWithinKernel == \A q : EngineAccepts(q) => KernelAccepts(q)
BY DEF EngineAccepts, KernelAccepts

(* Limits the runtime loads are limits the schema takes, but for the       *)
(* version's type and the keys nobody reads.                               *)
LEMMA LoadedFitsSchema ==
  ASSUME NEW c \in Configs, Loads(c)
  PROVE  SchemaAccepts([c EXCEPT !.version = "1", !.limits = [k \in LimitKeys |-> @[k]]])
<1> DEFINE limits == [k \in LimitKeys |-> c.limits[k]]
           d == [c EXCEPT !.version = "1", !.limits = limits]
<1>1. /\ d.version = "1" /\ d.network_enabled = c.network_enabled
      /\ d.state_directory = c.state_directory /\ d.limits = limits
  <2>1. c = [version |-> c.version, floats |-> c.floats, network_enabled |-> c.network_enabled,
             state_directory |-> c.state_directory, limits |-> c.limits]
    BY PolicyAssumption
  <2> QED
    BY <2>1
<1>2. \A k \in LimitKeys : limits[k] = c.limits[k] /\ limits[k] \in Int /\ limits[k] > 0
  BY PolicyAssumption DEF Loads
<1>3. \A k \in LimitKeys : k # "cpu_seconds" => limits[k] <= Ceiling[k] /\ Ceiling[k] \in Int
  BY <1>2 DEF Loads, LimitKeys, Ceiling
<1>4. limits["cpu_seconds"] <= limits["timeout_seconds"] /\ limits["timeout_seconds"] <= 60
  BY <1>2 DEF Loads, LimitKeys, Ceiling
<1>5. "cpu_seconds" \in LimitKeys /\ "timeout_seconds" \in LimitKeys
  BY DEF LimitKeys, Ceiling
<1>6. DOMAIN limits = LimitKeys
  OBVIOUS
<1> HIDE DEF limits, d
<1>7. \A k \in LimitKeys : limits[k] \in 1..(IF k = "cpu_seconds" THEN 60 ELSE Ceiling[k])
  BY <1>2, <1>3, <1>4, <1>5
<1>8. SchemaAccepts(d)
  BY <1>1, <1>4, <1>6, <1>7 DEF SchemaAccepts, Loads
<1> QED
  BY <1>8 DEF d, limits

LEMMA SchemaIsLoaded ==
  ASSUME NEW c \in Configs, SchemaAccepts(c), c.floats = {}
  PROVE  Loads(c)
BY DEF SchemaAccepts, Loads, LimitKeys, Ceiling

(* What the code checks in two places it checks alike, for any request,    *)
(* any configuration and any policy.                                       *)
THEOREM ChecksAgree == Spec => []DuplicatedChecksAgree
<1>1. ASSUME GateInv, NEW r \in Runs
      PROVE  /\ run[r].pc \notin {"idle", "validating", "refused"} => KernelAccepts(Req(r))
             /\ run[r].pc \notin {"idle", "refused"} =>
                  SchemaAccepts([config EXCEPT !.version = "1", !.limits = [k \in LimitKeys |-> @[k]]])
             /\ At(r, "refused") /\ run[r].why = "configuration" /\ SchemaAccepts(config) =>
                  ~WellFormed(Policy(r)) \/ config.floats # {}
  <2>1. config \in Configs
    BY <1>1 DEF GateInv, TypeOK
  <2>2. run[r].pc # "idle" => run[r].pc \in PCs /\ Gates(run[r], config)
    BY <1>1, LiveRun DEF Live
  <2>3. run[r].pc \notin {"idle", "validating", "refused"} => KernelAccepts(Req(r))
    BY <2>2, EngineWithinKernel DEF PCs, Gates, ValidationGate, Within, Req
  <2>4. run[r].pc \notin {"idle", "refused"} => Loads(config)
    BY <2>2 DEF Gates, ConfigurationGate
  <2>5. At(r, "refused") /\ run[r].why = "configuration" =>
           ~(WellFormed(Policy(r)) /\ Loads(config))
    BY <2>2 DEF Gates, ConfigurationGate, At, Policy
  <2> QED
    BY <2>1, <2>3, <2>4, <2>5, LoadedFitsSchema, SchemaIsLoaded
<1>2. GateInv => DuplicatedChecksAgree
  BY <1>1 DEF DuplicatedChecksAgree
<1> QED
  BY <1>2, GatesHold, PTL

(* The simulator scores a request without its parameters; those the engine *)
(* accepts do not change the score.                                        *)
LEMMA SameScore ==
  ASSUME NEW q \in Requests, EngineAccepts(q)
  PROVE  Score([q EXCEPT !.params = {}]) = Score(q)
<1> DEFINE d == [q EXCEPT !.params = {}]
<1>1. d.action = q.action /\ d.params = {}
  BY PolicyAssumption
<1>2. "network" \notin q.params /\ "write" \notin q.params
  BY DEF EngineAccepts
<1> HIDE DEF d
<1>3. Score(d) = Score(q)
  BY <1>1, <1>2 DEF Score
<1> QED
  BY <1>3 DEF d

(* The simulator, noble authorize and the engine decide alike, for any     *)
(* request, policy and time.                                               *)
THEOREM SimulatorIsRight == Spec => []SimulatorAgrees
<1>1. ASSUME GateInv, NEW r \in Runs, run[r].pc # "idle"
      PROVE  LET x == run[r]
             IN  x \in Live /\ Gates(x, config)
  BY <1>1, LiveRun
<1>2. ASSUME GateInv, NEW r \in Runs, At(r, "cleared")
      PROVE  /\ Simulate(Policy(r), Req(r), run[r].when) = "ALLOWED"
             /\ Grantable(Policy(r), Req(r), "security-auditor", run[r].when)
  <2>1. run[r].pc = "cleared" /\ run[r].q \in Requests /\ Gates(run[r], config)
    BY <1>1, <1>2 DEF At, Live
  <2>2. /\ EngineAccepts(run[r].q) /\ run[r].q.tool \in DOMAIN Tools /\ Selectable(run[r].q)
        /\ Normalizes(run[r].q.raw) /\ Allowed(run[r])
    BY <2>1 DEF Gates, ValidationGate, SelectionGate, ScopeGate, Within
  <2>3. Tier(Score(run[r].q)) \in {"LOW", "MEDIUM"}
    BY <2>2, SelectableIsQuiet DEF Assessed
  <2>4. Rank[Tier(Score([run[r].q EXCEPT !.params = {}]))] < Rank["HIGH"]
    BY <2>1, <2>2, <2>3, SameScore DEF Rank
  <2> QED
    BY <2>2, <2>4 DEF Simulate, Grantable, Selectable, Allowed, Policy, Req
<1>3. ASSUME GateInv, NEW r \in Runs, At(r, "refused"), run[r].why \in {"scope", "approval", "selection"}
      PROVE  Simulate(Policy(r), Req(r), run[r].when) = "BLOCKED"
  <2>1. run[r].pc = "refused" /\ run[r].q \in Requests /\ Gates(run[r], config)
    BY <1>1, <1>3 DEF At, Live
  <2>2. CASE run[r].why = "scope"
    <3>1. ~Allowed(run[r])
      BY <2>1, <2>2 DEF Gates, ScopeGate, Within
    <3> QED
      BY <3>1 DEF Simulate, Allowed, Policy, Req
  <2>3. CASE run[r].why = "approval"
    <3>1. /\ EngineAccepts(run[r].q) /\ run[r].q.tool \in DOMAIN Tools
          /\ run[r].risk = Raised(Assessed(run[r].q), Tools[run[r].q.tool].tier)
          /\ Rank[run[r].risk.tier] >= Rank["HIGH"]
      BY <2>1, <2>3 DEF Gates, ValidationGate, RiskGate, ApprovalGate, HighRisk, Within
    <3>2. run[r].risk = Assessed(run[r].q)
      BY <3>1, AssessedIsRisk, ToolFloors, FloorStaysLow
    <3>3. Rank[Tier(Score(run[r].q))] >= Rank["HIGH"]
      BY <3>1, <3>2 DEF Assessed
    <3>4. ~(Rank[Tier(Score([run[r].q EXCEPT !.params = {}]))] < Rank["HIGH"])
      BY <2>1, <3>1, <3>3, SameScore, TierKnown DEF Rank, TierNames
    <3> QED
      BY <3>4 DEF Simulate, Req
  <2>4. CASE run[r].why = "selection"
    <3>1. ~Selectable(run[r].q)
      BY <2>1, <2>4 DEF Gates, SelectionGate, Within
    <3> QED
      BY <3>1 DEF Simulate, Selectable, Req
  <2> QED
    BY <1>3, <2>2, <2>3, <2>4
<1>4. ASSUME GateInv, NEW r \in Runs, At(r, "refused"), run[r].why \in {"scope", "selection"},
             Req(r).action = Tools[Req(r).tool].action
      PROVE  ~Grantable(Policy(r), Req(r), "security-auditor", run[r].when)
  <2>1. run[r].pc = "refused" /\ Gates(run[r], config)
    BY <1>1, <1>4 DEF At
  <2>2. ~Allowed(run[r]) \/ ~Selectable(run[r].q)
    BY <1>4, <2>1 DEF Gates, ScopeGate, SelectionGate, Within
  <2> QED
    BY <1>4, <2>2 DEF Grantable, Selectable, Allowed, Policy, Req
<1>5. GateInv => SimulatorAgrees
  BY <1>2, <1>3, <1>4 DEF SimulatorAgrees
<1> QED
  BY <1>5, GatesHold, PTL

=============================================================================
