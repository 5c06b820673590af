--------------------------- MODULE ToolRun_proofs ---------------------------
(* Proofs about ToolRun: types, and that an answer is accepted only for    *)
(* what the worker found where it was authorized to look.                  *)
EXTENDS ToolRun, SequenceTheorems, WellFoundedInduction, TLAPS

ChildType == [pc : ChildPCs, code : {0, 2, 9}, input : Nat, target : Targets \cup {"missing"},
              todo : SUBSET Paths, listed : SUBSET Paths, seen : Nat, obs : Seq(Observed),
              complete : BOOLEAN, left : Nat, covered : SUBSET Paths]
HostType == [pc : HostPCs, outcome : Outcomes, sent : Nat, buffer : Nat, reaped : BOOLEAN,
             real : Targets \cup Nowhere, checked : Nat]

(* The constants, one by one. *)
LEMMA Workspace ==
    /\ Trees \subseteq [Paths -> Content] /\ Fixture \in Paths
    /\ \A tree \in Trees : tree[Fixture].exact => tree[Fixture].sinks # <<>>
    /\ \A t \in Targets : Below[t] \subseteq Paths
    /\ \A t \in Targets \cap Paths : Below[t] = {t}
    /\ \A t \in Targets : t \notin Nowhere
    /\ \A i \in Invocations : i.target \in Targets /\ i.size \in Nat /\ i.width \in Nat
    /\ \A n \in {MaxInput, WorkerInput, StdinCapacity, StdoutCapacity, MaxOutput, MaxObservations} :
           n \in Nat \ {0}
BY WorkspaceAssumption, RunnerAssumption

-----------------------------------------------------------------------------
(* The next file of the list. *)
Less == {p \in Nat \X Nat : p[1] < p[2]}
LEMMA LeastNumber ==
    ASSUME NEW T \in SUBSET Nat, T # {}
    PROVE  \E x \in T : \A y \in T : x <= y
<1>1. IsWellFoundedOn(Less, Nat)
    BY NatLessThanWellFounded, Zenon DEF Less, OpToRel
<1>2. PICK x \in T : \A y \in T : <<y, x>> \notin Less
    BY <1>1, WFMin
<1>3. \A y \in T : ~(y < x)
  <2>1. \A y \in Nat : y < x => <<y, x>> \in Less
      BY Zenon DEF Less
  <2> QED  BY <2>1, <1>2
<1> QED  BY <1>3

LEMMA FirstIsIn ==
    ASSUME NEW found \in SUBSET Paths, found # {}
    PROVE  First(found) \in found
<1>1. /\ DOMAIN Listing = 1..Len(Listing) /\ Len(Listing) \in Nat
      /\ \A p \in Paths : \E i \in DOMAIN Listing : Listing[i] = p
    BY WorkspaceAssumption DEF Paths, Range
<1> DEFINE T == {i \in DOMAIN Listing : Listing[i] \in found}
<1>2. T # {} /\ T \in SUBSET Nat
    BY <1>1
<1>3. PICK i \in T : \A j \in T : i <= j
    BY <1>2, LeastNumber
<1>4. \A j \in 1..(i - 1) : Listing[j] \notin found
  <2> SUFFICES ASSUME NEW j \in 1..(i - 1), Listing[j] \in found  PROVE FALSE
      OBVIOUS
  <2>1. j \in DOMAIN Listing /\ i \in Nat
      BY <1>1, <1>3
  <2> QED  BY <2>1, <1>3
<1>5. \E k \in DOMAIN Listing : /\ Listing[k] \in found
                                /\ \A j \in 1..(k - 1) : Listing[j] \notin found
    BY <1>3, <1>4
<1> QED  BY <1>5, Zenon DEF First

-----------------------------------------------------------------------------
(* What one file adds to the observations. *)
Added(c, p) ==
    LET room == MaxObservations - Len(c.obs)
        sinks == disk[p].sinks
    IN  [i \in 1..(IF Len(sinks) < room THEN Len(sinks) ELSE room) |-> Observation(p, i, FALSE)]

LEMMA AddedIs ==
    ASSUME NEW c \in ChildType, NEW p \in Paths, disk \in Trees, Len(c.obs) <= MaxObservations
    PROVE  /\ Added(c, p) \in Seq(Observed)
           /\ Len(c.obs) + Len(Added(c, p)) <= MaxObservations
           /\ \A i \in 1..Len(Added(c, p)) : /\ i \in DOMAIN disk[p].sinks
                                             /\ Added(c, p)[i] = Observation(p, i, FALSE)
<1> DEFINE sinks == disk[p].sinks
           room == MaxObservations - Len(c.obs)
           n == IF Len(sinks) < room THEN Len(sinks) ELSE room
<1>1. sinks \in Seq(Lines)
    BY Workspace DEF Content
<1>2. room \in Nat /\ Len(c.obs) \in Nat /\ MaxObservations \in Nat
    BY Workspace DEF ChildType
<1>3. n \in Nat /\ n <= room /\ n <= Len(sinks) /\ DOMAIN sinks = 1..Len(sinks)
  <2> HIDE DEF sinks, room
  <2>1. Len(sinks) \in Nat /\ DOMAIN sinks = 1..Len(sinks)
      BY <1>1
  <2> QED  BY <2>1, <1>2
<1>4. Added(c, p) = [i \in 1..n |-> Observation(p, i, FALSE)]
    BY DEF Added
<1>5. \A i \in 1..n : i \in Nat /\ i \in DOMAIN sinks /\ sinks[i] \in Lines
    BY <1>1, <1>3
<1>6. \A i \in 1..n : Observation(p, i, FALSE) \in Observed
    BY <1>5 DEF Observation, Observed
<1> HIDE DEF n
<1>7. Added(c, p) \in [1..n -> Observed]
    BY <1>4, <1>6
<1>8. Added(c, p) \in Seq(Observed) /\ Len(Added(c, p)) = n
    BY <1>3, <1>7, SeqDef
<1> QED  BY <1>2, <1>3, <1>4, <1>5, <1>8

(* Each file is passed over, ends the scan, or is inspected. *)
Inspected(c, p) ==
    [c EXCEPT !.obs = c.obs \o Added(c, p),
              !.complete = c.complete /\ Len(disk[p].sinks) <= MaxObservations - Len(c.obs),
              !.covered = c.covered \cup {p}]
LEMMA InspectCases ==
    ASSUME NEW c, NEW p \in Paths, disk \in Trees
    PROVE  \/ Inspect(c, p) = Skip(c)
           \/ Inspect(c, p) = Refusing(c)
           \/ /\ Inspect(c, p) = Inspected(c, p)
              /\ disk[p].kind \in {"source", "shifted", "elsewhere"}
<1>1. disk[p].kind \in Kinds
    BY Workspace DEF Content
<1>2. CASE disk[p].kind \in {"outside", "big", "broken", "absent"}
    BY <1>2 DEF Inspect
<1>3. CASE disk[p].kind = "poison"
    BY <1>3 DEF Inspect
<1>4. CASE disk[p].kind \in {"source", "shifted", "elsewhere"}
    BY <1>4 DEF Inspect, Inspected, Added
<1> QED  BY <1>1, <1>2, <1>3, <1>4 DEF Kinds

LEMMA InspectedFields ==
    ASSUME NEW c \in ChildType, NEW p \in Paths, disk \in Trees, Len(c.obs) <= MaxObservations
    PROVE  /\ Inspected(c, p) \in ChildType
           /\ Inspected(c, p) = [c EXCEPT !.obs = Inspected(c, p).obs,
                                          !.complete = Inspected(c, p).complete,
                                          !.covered = c.covered \cup {p}]
           /\ Len(Inspected(c, p).obs) <= MaxObservations
           /\ Inspected(c, p).complete => c.complete
           /\ \A i \in DOMAIN Inspected(c, p).obs :
                  \/ i \in DOMAIN c.obs /\ Inspected(c, p).obs[i] = c.obs[i]
                  \/ \E k \in DOMAIN disk[p].sinks :
                         k \in Nat /\ Inspected(c, p).obs[i] = Observation(p, k, FALSE)
<1> DEFINE new == Added(c, p)
           d == Inspected(c, p)
<1>1. /\ new \in Seq(Observed) /\ c.obs \in Seq(Observed)
      /\ Len(c.obs) + Len(new) <= MaxObservations
      /\ \A i \in 1..Len(new) : i \in DOMAIN disk[p].sinks /\ new[i] = Observation(p, i, FALSE)
    BY AddedIs DEF ChildType
<1> HIDE DEF new
<1>2. d.obs = c.obs \o new
    BY DEF Inspected, ChildType, new
<1>3. /\ c.obs \o new \in Seq(Observed) /\ Len(c.obs \o new) = Len(c.obs) + Len(new)
      /\ \A i \in 1..(Len(c.obs) + Len(new)) :
             (c.obs \o new)[i] = IF i <= Len(c.obs) THEN c.obs[i] ELSE new[i - Len(c.obs)]
    BY <1>1, ConcatProperties
<1>4. d \in ChildType
    BY <1>3 DEF Inspected, ChildType, new
<1>5. d.complete => c.complete
    BY DEF Inspected, ChildType
<1>6. \A i \in DOMAIN d.obs :
          \/ i \in DOMAIN c.obs /\ d.obs[i] = c.obs[i]
          \/ \E k \in DOMAIN disk[p].sinks : k \in Nat /\ d.obs[i] = Observation(p, k, FALSE)
  <2> DEFINE old == c.obs
             obs == d.obs
  <2>1. Len(old) \in Nat /\ Len(new) \in Nat /\ DOMAIN old = 1..Len(old)
      BY <1>1
  <2>2. obs = old \o new /\ DOMAIN obs = 1..(Len(old) + Len(new))
      BY <1>2, <1>3
  <2> HIDE DEF obs, old, d
  <2> SUFFICES ASSUME NEW i \in 1..(Len(old) + Len(new))
               PROVE  \/ i \in DOMAIN old /\ obs[i] = old[i]
                      \/ \E k \in DOMAIN disk[p].sinks :
                             k \in Nat /\ obs[i] = Observation(p, k, FALSE)
      BY <2>2 DEF obs, old
  <2>3. obs[i] = IF i <= Len(old) THEN old[i] ELSE new[i - Len(old)]
      BY <1>3, <2>2 DEF old
  <2>4. CASE i <= Len(old)
    <3>1. i \in DOMAIN old /\ obs[i] = old[i]
        BY <2>1, <2>3, <2>4
    <3> QED  BY <3>1
  <2>5. CASE ~(i <= Len(old))
    <3>1. PICK k \in 1..Len(new) : k = i - Len(old)
        BY <2>1, <2>5
    <3>2. k \in Nat
        BY <2>1
    <3>3. k \in DOMAIN disk[p].sinks /\ new[k] = Observation(p, k, FALSE)
        BY <1>1, Zenon
    <3>4. obs[i] = new[k]
        BY <3>1, <2>3, <2>5
    <3> QED  BY <3>2, <3>3, <3>4
  <2> QED  BY <2>4, <2>5
<1>7. d = [c EXCEPT !.obs = d.obs, !.complete = d.complete, !.covered = c.covered \cup {p}]
    BY DEF Inspected, ChildType
<1> QED  BY <1>1, <1>2, <1>3, <1>4, <1>5, <1>6, <1>7

-----------------------------------------------------------------------------
(* Types. *)
Bounded == Len(child.obs) <= MaxObservations
Typed == TypeOK /\ Bounded

LEMMA TypedParts ==
    ASSUME TypeOK
    PROVE  /\ host \in HostType /\ child \in ChildType
           /\ inv \in Invocations /\ disk \in Trees /\ leads \in Targets \cup Nowhere
           /\ pipe \in Nat /\ stdin \in Nat /\ late \in BOOLEAN /\ edited \in BOOLEAN
           /\ inv.target \in Targets /\ inv.size \in Nat /\ inv.width \in Nat
BY Workspace DEF TypeOK, HostType, ChildType

LEMMA ObservationType ==
    ASSUME disk \in Trees, NEW p \in Paths, NEW k \in DOMAIN disk[p].sinks, NEW v \in BOOLEAN
    PROVE  Observation(p, k, v) \in Observed
<1>1. disk[p].sinks \in Seq(Lines)
    BY Workspace DEF Content
<1>2. k \in Nat /\ disk[p].sinks[k] \in Lines
    BY <1>1
<1> QED  BY <1>2 DEF Observation, Observed

LEMMA FixtureSink ==
    ASSUME disk \in Trees, Exact(Fixture)
    PROVE  1 \in DOMAIN disk[Fixture].sinks
<1>1. disk[Fixture].sinks \in Seq(Lines) /\ disk[Fixture].sinks # <<>>
    BY Workspace DEF Exact, Content
<1> QED  BY <1>1

LEMMA OutputType ==
    ASSUME TypeOK, NEW obs \in Seq(Observed)
    PROVE  Output(obs) \in Nat
<1>1. inv.width \in Nat /\ Len(obs) \in Nat
    BY TypedParts
<1> QED  BY <1>1 DEF Output

LEMMA Prints ==
    ASSUME TypeOK, NEW c \in ChildType
    PROVE  /\ Printing(c) \in ChildType /\ Refusing(c) \in ChildType /\ Skip(c) \in ChildType
           /\ Printing(c).obs = c.obs /\ Refusing(c).obs = <<>> /\ Skip(c).obs = c.obs
<1>1. Output(c.obs) \in Nat
    BY OutputType DEF ChildType
<1>2. <<>> \in Seq(Observed)
    OBVIOUS
<1> QED  BY <1>1, <1>2 DEF Printing, Refusing, Skip, ChildType, ChildPCs

(* The file that is inspected next, and what becomes of the worker. *)
Opened(p) == [child EXCEPT !.todo = child.todo \ {p}, !.seen = child.seen + 1]
LEMMA OpenedType ==
    ASSUME Typed, ChildAt("scanning"), child.todo # {}
    PROVE  LET p == First(child.todo) IN
           /\ p \in child.todo /\ p \in Paths /\ Opened(p) \in ChildType
           /\ Len(Opened(p).obs) <= MaxObservations
<1>1. child \in ChildType /\ child.todo \in SUBSET Paths
    BY TypedParts DEF Typed, ChildType
<1>2. First(child.todo) \in child.todo
    BY <1>1, FirstIsIn
<1>3. \A p : child.todo \ {p} \in SUBSET Paths
    BY <1>1
<1>4. child.seen + 1 \in Nat
    BY <1>1 DEF ChildType
<1>5. \A p : Opened(p) \in ChildType /\ Opened(p).obs = child.obs
    BY <1>1, <1>3, <1>4 DEF Opened, ChildType
<1> QED  BY <1>1, <1>2, <1>5 DEF Typed, Bounded

LEMMA ScanCases ==
    ASSUME Typed, ScanFile
    PROVE  LET p == First(child.todo)
               c == Opened(p)
               d == Inspected(c, p)
           IN  \/ child' = Printing(Skip(child))
               \/ child' = Skip(c)
               \/ child' = Refusing(c)
               \/ child' = Printing(Skip(c)) /\ Len(c.obs) >= MaxObservations
               \/ /\ disk[p].kind \in {"source", "shifted", "elsewhere"}
                  /\ \/ child' = d
                     \/ child' = Printing(d) /\ Len(d.obs) >= MaxObservations
<1> DEFINE p == First(child.todo)
           c == Opened(p)
           d == Inspected(c, p)
           e == Inspect(c, p)
<1>1. p \in Paths /\ disk \in Trees /\ c \in ChildType
    BY OpenedType, TypedParts DEF ScanFile, Typed
<1>2. child' = IF child.seen >= inv.maxFiles THEN Printing(Skip(child))
               ELSE IF e.pc = "scanning" /\ Len(e.obs) >= MaxObservations THEN Printing(e)
               ELSE e
    BY DEF ScanFile, Opened
<1>3. Refusing(c).pc = "printing" /\ Skip(c).obs = c.obs
    BY <1>1, Prints DEF Typed, Refusing, ChildType
<1>4. \/ e = Skip(c) \/ e = Refusing(c)
      \/ e = d /\ disk[p].kind \in {"source", "shifted", "elsewhere"}
    BY <1>1, InspectCases
<1> HIDE DEF p, c, d, e
<1>5. CASE e = Skip(c)
    BY <1>2, <1>3, <1>5 DEF p, c, d
<1>6. CASE e = Refusing(c)
    BY <1>2, <1>3, <1>6 DEF p, c, d
<1>7. CASE e = d /\ disk[p].kind \in {"source", "shifted", "elsewhere"}
    BY <1>2, <1>7 DEF p, c, d
<1> QED  BY <1>4, <1>5, <1>6, <1>7

LEMMA ChildTyped ==
    ASSUME Typed, ChildStep
    PROVE  child' \in ChildType /\ Len(child'.obs) <= MaxObservations
<1> DEFINE Good(c) == c \in ChildType /\ Len(c.obs) <= MaxObservations
<1>1. Good(child) /\ MaxObservations \in Nat /\ leads \in Targets \cup Nowhere
    BY TypedParts, Workspace DEF Typed, Bounded
<1>2. \A c : Good(c) => Good(Printing(c)) /\ Good(Refusing(c)) /\ Good(Skip(c))
  <2> SUFFICES ASSUME NEW c, Good(c)
               PROVE  Good(Printing(c)) /\ Good(Refusing(c)) /\ Good(Skip(c))
      OBVIOUS
  <2>1. Len(<<>>) <= MaxObservations
      BY <1>1
  <2> QED  BY <2>1, Prints DEF Typed
<1> SUFFICES Good(child')
    OBVIOUS
<1>3. CASE ReadInput
  <2> DEFINE c == [child EXCEPT !.input = @ + 1]
  <2>1. Good(c) /\ Good([child EXCEPT !.pc = "resolving"])
      BY <1>1 DEF ChildType, ChildPCs
  <2>2. \/ child' = c \/ child' = Refusing(c)
        \/ child' = [child EXCEPT !.pc = "resolving"]
      BY <1>3 DEF ReadInput
  <2> HIDE DEF Good, c
  <2>3. Good(Refusing(c))
      BY <2>1, <1>2
  <2> QED  BY <2>1, <2>2, <2>3
<1>4. CASE Resolve
  <2>1. CASE leads \in Nowhere
      BY <2>1, <1>1, <1>2, <1>4 DEF Resolve
  <2>2. CASE leads \notin Nowhere
    <3> DEFINE found == {p \in Below[leads] \ Ignored : disk[p].kind # "absent"}
               pc == IF inv.tool = "fixture-sql-verify" THEN "verifying" ELSE "scanning"
    <3>1. found \in SUBSET Paths /\ leads \in Targets /\ pc \in ChildPCs
        BY <1>1, <2>2, Workspace DEF ChildPCs
    <3>2. child' = [child EXCEPT !.pc = pc, !.target = leads, !.todo = found, !.listed = found]
        BY <1>4, <2>2 DEF Resolve
    <3> HIDE DEF found, pc
    <3> QED  BY <3>1, <3>2, <1>1 DEF ChildType
  <2> QED  BY <2>1, <2>2
<1>5. CASE ScanFile
  <2> DEFINE p == First(child.todo)
             c == Opened(p)
             d == Inspected(c, p)
  <2>1. Good(c) /\ p \in Paths /\ disk \in Trees
      BY <1>5, OpenedType, TypedParts DEF ScanFile, Typed
  <2>2. Good(d)
      BY <2>1, InspectedFields
  <2> HIDE DEF Good
  <2> QED  BY <1>1, <1>2, <1>5, <2>1, <2>2, ScanCases
<1>6. CASE ScanEnds
  <2> HIDE DEF Good
  <2> QED  BY <1>1, <1>2, <1>6 DEF ScanEnds
<1>7. CASE Verify
  <2> DEFINE done == [child EXCEPT !.obs = <<Observation(Fixture, 1, TRUE)>>,
                                   !.covered = {Fixture}]
  <2>1. ASSUME Exact(Fixture)  PROVE Good(done)
    <3>1. Observation(Fixture, 1, TRUE) \in Observed
        BY <2>1, FixtureSink, ObservationType, Workspace, TypedParts DEF Typed
    <3>2. <<Observation(Fixture, 1, TRUE)>> \in Seq(Observed)
          /\ Len(<<Observation(Fixture, 1, TRUE)>>) = 1
      <4>1. \A o \in Observed : <<o>> \in Seq(Observed) /\ Len(<<o>>) = 1
          OBVIOUS
      <4> QED  BY <3>1, <4>1
    <3>3. MaxObservations >= 1
        BY Workspace
    <3> QED  BY <3>2, <3>3, <1>1, Workspace DEF ChildType
  <2> HIDE DEF Good, done
  <2> QED  BY <1>1, <1>2, <1>7, <2>1 DEF Verify, done
<1>8. CASE WriteOut
  <2>1. child.left # 0 => child.left - 1 \in Nat
      BY <1>1 DEF ChildType
  <2> QED  BY <2>1, <1>1, <1>8 DEF WriteOut, ChildType, ChildPCs
<1>9. CASE Exit \/ Die
    BY <1>1, <1>9 DEF Exit, Die, ChildType, ChildPCs
<1> QED  BY <1>3, <1>4, <1>5, <1>6, <1>7, <1>8, <1>9 DEF ChildStep

LEMMA HostTyped ==
    ASSUME Typed, HostStep
    PROVE  /\ host' \in HostType /\ child' \in ChildType /\ Len(child'.obs) <= MaxObservations
           /\ stdin' \in 0..StdinCapacity /\ pipe' \in 0..StdoutCapacity
           /\ UNCHANGED <<inv, files, late>>
<1>1. /\ host \in HostType /\ child \in ChildType /\ Len(child.obs) <= MaxObservations
      /\ stdin \in 0..StdinCapacity /\ pipe \in 0..StdoutCapacity
      /\ StdinCapacity \in Nat /\ StdoutCapacity \in Nat /\ leads \in Targets \cup Nowhere
    BY TypedParts, Workspace DEF Typed, Bounded, TypeOK
<1> DEFINE Calm == host' \in HostType /\ UNCHANGED <<inv, files, child, stdin, pipe, late>>
<1>2. CASE Check
    BY <1>1, <1>2 DEF Check, HostGo, HostEnd, HostType, HostPCs, Outcomes
<1>3. CASE Spawn
    BY <1>1, <1>3 DEF Spawn, HostGo, HostEnd, HostType, HostPCs, Outcomes, ChildType, ChildPCs
<1>4. CASE WriteInput
  <2>1. stdin' \in 0..StdinCapacity
      BY <1>1, <1>4 DEF WriteInput
  <2> QED  BY <2>1, <1>1, <1>4 DEF WriteInput, HostType
<1>5. CASE CloseInput \/ BrokenInput \/ EndOfOutput \/ Wait \/ Expire
    BY <1>1, <1>5
    DEF CloseInput, BrokenInput, EndOfOutput, Wait, Expire, HostGo, HostEnd, HostType, HostPCs, Outcomes
<1>6. CASE Collect
  <2>1. pipe' \in 0..StdoutCapacity
      BY <1>1, <1>6 DEF Collect
  <2>2. host' \in HostType
    <3>1. host.buffer + 1 \in Nat
        BY <1>1 DEF HostType
    <3>2. [host EXCEPT !.buffer = host.buffer + 1] \in HostType
        BY <3>1, <1>1 DEF HostType
    <3>3. [host EXCEPT !.buffer = host.buffer + 1, !.outcome = "truncated", !.pc = "killing"]
            \in HostType
        BY <3>1, <1>1 DEF HostType, HostPCs, Outcomes
    <3>4. \/ host' = [host EXCEPT !.buffer = host.buffer + 1]
          \/ host' = [host EXCEPT !.buffer = host.buffer + 1, !.outcome = "truncated", !.pc = "killing"]
        BY <1>6 DEF Collect
    <3> QED  BY <3>2, <3>3, <3>4
  <2> QED  BY <2>1, <2>2, <1>1, <1>6 DEF Collect
<1>7. CASE Kill
    BY <1>1, <1>7 DEF Kill, HostType, HostPCs, ChildType, ChildPCs
<1>8. CASE KillFails \/ Settle \/ Parse
  <2>1. \A pc \in HostPCs, outcome \in Outcomes :
            /\ [host EXCEPT !.pc = pc] \in HostType
            /\ [host EXCEPT !.pc = pc, !.outcome = outcome] \in HostType
            /\ [host EXCEPT !.pc = pc, !.real = leads] \in HostType
      BY <1>1 DEF HostType
  <2>2. \/ \E pc \in HostPCs, outcome \in Outcomes : HostGo(pc) \/ HostEnd(pc, outcome)
        \/ host' = [host EXCEPT !.pc = "validating", !.real = leads]
      BY <1>8 DEF KillFails, Settle, Parse, HostPCs, Outcomes
  <2>3. UNCHANGED <<inv, files, child, stdin, pipe, late>>
      BY <1>8 DEF KillFails, Settle, Parse
  <2>4. "validating" \in HostPCs
      BY DEF HostPCs
  <2>5. CASE host' = [host EXCEPT !.pc = "validating", !.real = leads]
      BY <2>1, <2>3, <2>4, <2>5, <1>1 DEF Outcomes
  <2>6. ASSUME NEW pc \in HostPCs, NEW outcome \in Outcomes, HostGo(pc) \/ HostEnd(pc, outcome)
        PROVE  host' \in HostType
      BY <2>1, <2>6 DEF HostGo, HostEnd
  <2> QED  BY <2>2, <2>3, <2>5, <2>6, <1>1
<1>9. CASE CheckNext
  <2>1. host.checked + 1 \in Nat
      BY <1>1 DEF HostType
  <2>2. /\ [host EXCEPT !.checked = host.checked + 1] \in HostType
        /\ \A outcome \in Outcomes : [host EXCEPT !.pc = "done", !.outcome = outcome] \in HostType
      BY <2>1, <1>1 DEF HostType, HostPCs
  <2>3. host' \in HostType
      BY <2>2, <1>9 DEF CheckNext, HostEnd, Outcomes
  <2> QED  BY <2>3, <1>1, <1>9 DEF CheckNext
<1> QED  BY <1>2, <1>3, <1>4, <1>5, <1>6, <1>7, <1>8, <1>9 DEF HostStep

LEMMA StepTyped == Typed /\ [Next]_vars => Typed'
<1> SUFFICES ASSUME Typed, [Next]_vars  PROVE Typed'
    OBVIOUS
<1>1. CASE HostStep
  <2>1. UNCHANGED <<inv, disk, leads, edited, late>>
      BY <1>1, HostTyped DEF files
  <2> QED  BY <2>1, <1>1, HostTyped DEF Typed, TypeOK, Bounded, HostType, ChildType
<1>2. CASE ChildStep
  <2>1. UNCHANGED <<inv, disk, leads, edited, host, late>>
      BY <1>2 DEF ChildStep, ReadInput, Resolve, ScanFile, ScanEnds, Verify, WriteOut, Exit, Die, files
  <2>2. stdin' \in 0..StdinCapacity /\ pipe' \in 0..StdoutCapacity
    <3>1. /\ stdin \in 0..StdinCapacity /\ pipe \in 0..StdoutCapacity
          /\ StdinCapacity \in Nat /\ StdoutCapacity \in Nat
        BY Workspace DEF Typed, TypeOK
    <3> QED  BY <3>1, <1>2
             DEF ChildStep, ReadInput, Resolve, ScanFile, ScanEnds, Verify, WriteOut, Exit, Die
  <2> QED  BY <2>1, <2>2, <1>2, ChildTyped DEF Typed, TypeOK, Bounded, ChildType
<1>3. CASE TimeUp \/ Edit \/ Relink \/ UNCHANGED vars
  <2>1. UNCHANGED <<inv, host, child, stdin, pipe>>
      BY <1>3 DEF TimeUp, Edit, Relink, vars
  <2>2. /\ disk' \in Trees /\ leads' \in Targets \cup Nowhere
        /\ late' \in BOOLEAN /\ edited' \in BOOLEAN
      BY <1>3 DEF TimeUp, Edit, Relink, vars, files, Typed, TypeOK, Targets
  <2> QED  BY <2>1, <2>2 DEF Typed, TypeOK, Bounded
<1> QED  BY <1>1, <1>2, <1>3 DEF Next, Finished

LEMMA InitTyped == Init => Typed
<1> SUFFICES ASSUME Init  PROVE Typed
    OBVIOUS
<1>1. Len(<<>>) = 0 /\ <<>> \in Seq(Observed) /\ MaxObservations \in Nat
      /\ 0 \in 0..StdinCapacity /\ 0 \in 0..StdoutCapacity
    BY Workspace
<1>2. inv \in Invocations /\ inv.target \in Targets
    BY Workspace DEF Init
<1>3. host \in HostType
    BY DEF Init, HostType, HostPCs, Outcomes, Nowhere
<1>4. child \in ChildType
    BY <1>1 DEF Init, ChildType, ChildPCs
<1>5. Bounded
    BY <1>1 DEF Init, Bounded
<1> QED  BY <1>1, <1>2, <1>3, <1>4, <1>5 DEF Init, Typed, TypeOK, HostType, ChildType

(* Whatever the processes do, and whatever changes on disk meanwhile.      *)
THEOREM TypeCorrect == Spec => [](TypeOK /\ Bounded)
<1>1. Spec => []Typed
    BY InitTyped, StepTyped, PTL DEF Spec
<1> QED  BY <1>1, PTL DEF Typed

-----------------------------------------------------------------------------
(* The worker.  An observation names a sink of a file that the worker      *)
(* listed, and while nothing changes on disk it can be found again.        *)
Verifies == inv.tool = "fixture-sql-verify"
Stands(c, o) ==
    /\ o.line \in DOMAIN disk[o.file].sinks /\ disk[o.file].sinks[o.line] = o.snippet
    /\ IF o.verified THEN Exact(o.file)
       ELSE o.file \in c.listed /\ disk[o.file].kind \in {"source", "shifted", "elsewhere"}
ObsFits(c, o) ==
    /\ o.file \in Below[c.target]
    /\ o.verified <=> Verifies
    /\ o.verified => c.complete
    /\ ~edited => Stands(c, o)
Core(c) ==
    /\ c.target \in Targets /\ c.listed \subseteq Below[c.target]
    /\ ~edited => c.target = inv.target
    /\ \A i \in DOMAIN c.obs : ObsFits(c, c.obs[i])
Covers(c) == c.complete => c.listed \subseteq c.covered \/ Len(c.obs) = MaxObservations
Answered(c) == c.pc \in {"printing", "closed", "gone"} /\ c.code = 0

WorkerOK(c) ==
    /\ c.pc \in {"absent", "reading", "resolving"} => c.code = 0 /\ c.obs = <<>> /\ c.complete
    /\ c.pc = "scanning" =>
         /\ c.code = 0 /\ Core(c) /\ ~Verifies /\ c.todo \subseteq c.listed
         /\ c.complete => c.listed \subseteq c.covered \cup c.todo
    /\ c.pc = "verifying" => c.code = 0 /\ Core(c) /\ Verifies /\ c.obs = <<>> /\ c.complete
    /\ Answered(c) => Core(c) /\ Covers(c) /\ (Verifies => Len(c.obs) = 1)
WorkerInv == WorkerOK(child) /\ (~edited => leads = inv.target)

LEMMA RefusingOK == ASSUME NEW c \in ChildType  PROVE WorkerOK(Refusing(c))
BY DEF Refusing, ChildType, WorkerOK, Answered

LEMMA PrintingOK ==
    ASSUME NEW c \in ChildType, Core(c), Covers(c), Verifies => Len(c.obs) = 1
    PROVE  WorkerOK(Printing(c))
<1> DEFINE d == Printing(c)
<1>1. /\ d.pc = "printing" /\ d.obs = c.obs /\ d.target = c.target /\ d.listed = c.listed
      /\ d.complete = c.complete /\ d.covered = c.covered
    BY DEF Printing, ChildType
<1> HIDE DEF d
<1> QED  BY <1>1 DEF d, WorkerOK, Answered, Core, Covers, ObsFits, Stands

(* Passing over a file, or inspecting it, keeps what holds of a scan.      *)
Scanning(c) ==
    /\ Core(c) /\ ~Verifies /\ c.todo \subseteq c.listed /\ c.pc = "scanning" /\ c.code = 0
Remains(c) == c.complete => c.listed \subseteq c.covered \cup c.todo

LEMMA SkipOK ==
    ASSUME NEW c \in ChildType, Scanning(c)
    PROVE  Scanning(Skip(c)) /\ Remains(Skip(c)) /\ Covers(Skip(c))
<1> DEFINE d == Skip(c)
<1>1. /\ d.pc = c.pc /\ d.obs = c.obs /\ d.target = c.target /\ d.listed = c.listed
      /\ ~d.complete /\ d.todo = c.todo /\ d.code = c.code
    BY DEF Skip, ChildType
<1> HIDE DEF d
<1> QED  BY <1>1 DEF d, Scanning, Remains, Core, Covers, ObsFits, Stands

LEMMA InspectedOK ==
    ASSUME Typed, NEW c \in ChildType, Len(c.obs) <= MaxObservations, Scanning(c),
           NEW p \in c.listed, c.complete => c.listed \subseteq c.covered \cup {p} \cup c.todo,
           disk[p].kind \in {"source", "shifted", "elsewhere"}
    PROVE  Scanning(Inspected(c, p)) /\ Remains(Inspected(c, p))
<1> DEFINE d == Inspected(c, p)
<1>1. p \in Paths /\ disk \in Trees
    BY TypedParts DEF ChildType, Typed
<1>2. /\ d.complete => c.complete
      /\ d = [c EXCEPT !.obs = d.obs, !.complete = d.complete, !.covered = c.covered \cup {p}]
      /\ \A i \in DOMAIN d.obs :
            \/ i \in DOMAIN c.obs /\ d.obs[i] = c.obs[i]
            \/ \E k \in DOMAIN disk[p].sinks : k \in Nat /\ d.obs[i] = Observation(p, k, FALSE)
    BY <1>1, InspectedFields
<1>3. /\ d.pc = c.pc /\ d.code = c.code /\ d.target = c.target /\ d.listed = c.listed
      /\ d.todo = c.todo /\ d.covered = c.covered \cup {p}
    BY DEF Inspected, ChildType
<1> HIDE DEF d
<1>4. ASSUME NEW i \in DOMAIN d.obs  PROVE ObsFits(d, d.obs[i])
  <2>1. CASE i \in DOMAIN c.obs /\ d.obs[i] = c.obs[i]
      BY <2>1, <1>3 DEF Scanning, Core, ObsFits, Stands
  <2>2. ASSUME NEW k \in DOMAIN disk[p].sinks, d.obs[i] = Observation(p, k, FALSE)
        PROVE  ObsFits(d, d.obs[i])
    <3> DEFINE o == d.obs[i]
    <3>1. /\ o.file = p /\ o.line = k /\ o.snippet = disk[p].sinks[k] /\ o.verified = FALSE
        BY <2>2 DEF Observation
    <3> HIDE DEF o
    <3>2. p \in Below[d.target] /\ p \in d.listed /\ ~Verifies
        BY <1>3 DEF Scanning, Core
    <3>3. Stands(d, o)
        BY <3>1, <3>2 DEF Stands
    <3>4. ObsFits(d, o)
        BY <3>1, <3>2, <3>3 DEF ObsFits
    <3> QED  BY <3>4 DEF o
  <2> QED  BY <2>1, <2>2, <1>2
<1>5. Core(d)
    BY <1>3, <1>4 DEF Scanning, Core
<1> QED  BY <1>2, <1>3, <1>5 DEF d, Scanning, Remains

LEMMA ScanningOK == ASSUME NEW c, Scanning(c), Remains(c)  PROVE WorkerOK(c)
BY DEF Scanning, Remains, WorkerOK, Answered

LEMMA FullCovers ==
    ASSUME NEW c \in ChildType, Len(c.obs) <= MaxObservations, Len(c.obs) >= MaxObservations
    PROVE  Covers(c)
<1>1. Len(c.obs) \in Nat /\ MaxObservations \in Nat
    BY Workspace DEF ChildType
<1> QED  BY <1>1 DEF Covers

LEMMA ScanOK == ASSUME Typed, WorkerInv, ScanFile  PROVE WorkerOK(child')
<1> DEFINE p == First(child.todo)
           c == Opened(p)
           d == Inspected(c, p)
<1>1. /\ child \in ChildType /\ Scanning(child) /\ Remains(child) /\ disk \in Trees
    BY TypedParts DEF Typed, WorkerInv, WorkerOK, Scanning, Remains, ScanFile, ChildAt
<1>2. /\ p \in child.todo /\ p \in Paths /\ c \in ChildType
      /\ Len(c.obs) <= MaxObservations
    BY OpenedType DEF ScanFile
<1>3. /\ c.pc = child.pc /\ c.obs = child.obs /\ c.target = child.target /\ c.listed = child.listed
      /\ c.complete = child.complete /\ c.todo = child.todo \ {p} /\ c.code = child.code
      /\ c.covered = child.covered
    BY <1>1 DEF Opened, ChildType
<1> HIDE DEF p, c
<1>4. Scanning(c) /\ p \in c.listed
    BY <1>1, <1>2, <1>3 DEF Scanning, Core, ObsFits, Stands
<1>5. c.complete => c.listed \subseteq c.covered \cup {p} \cup c.todo
    BY <1>1, <1>3 DEF Remains
<1>6. disk[p].kind \in {"source", "shifted", "elsewhere"} =>
          /\ Scanning(d) /\ Remains(d) /\ d \in ChildType /\ Len(d.obs) <= MaxObservations
    BY <1>2, <1>4, <1>5, <1>1, InspectedOK, InspectedFields
<1> HIDE DEF d
<1>7. \A x \in ChildType : Scanning(x) => Core(x) /\ ~Verifies
    BY DEF Scanning
<1>8. WorkerOK(Printing(Skip(child)))
    BY <1>1, <1>7, SkipOK, Prints, PrintingOK DEF Typed
<1>9. WorkerOK(Skip(c)) /\ WorkerOK(Printing(Skip(c)))
    BY <1>2, <1>4, <1>7, SkipOK, ScanningOK, Prints, PrintingOK DEF Typed
<1>10. WorkerOK(Refusing(c))
    BY <1>2, RefusingOK
<1>11. disk[p].kind \in {"source", "shifted", "elsewhere"} =>
           /\ WorkerOK(d)
           /\ Len(d.obs) >= MaxObservations => WorkerOK(Printing(d))
    BY <1>6, <1>7, ScanningOK, FullCovers, PrintingOK
<1> QED  BY <1>8, <1>9, <1>10, <1>11, ScanCases DEF p, c, d

LEMMA VerifyOK == ASSUME Typed, WorkerInv, Verify  PROVE WorkerOK(child')
<1> DEFINE o == Observation(Fixture, 1, TRUE)
           c == [child EXCEPT !.obs = <<o>>, !.covered = {Fixture}]
<1>1. child \in ChildType /\ Core(child) /\ Verifies /\ child.complete /\ child.pc = "verifying"
    BY TypedParts DEF Typed, WorkerInv, WorkerOK, Verify, ChildAt
<1>2. CASE child' = Refusing(child)
    BY <1>1, <1>2, RefusingOK
<1>3. CASE child.target = Fixture /\ Exact(Fixture) /\ child' = Printing(c)
  <2>1. disk \in Trees /\ 1 \in DOMAIN disk[Fixture].sinks
      BY <1>3, FixtureSink, TypedParts DEF Typed
  <2>2. o \in Observed
      BY <2>1, ObservationType, Workspace
  <2>3. /\ o.file = Fixture /\ o.line = 1 /\ o.snippet = disk[Fixture].sinks[1] /\ o.verified = TRUE
      BY DEF Observation
  <2> HIDE DEF o
  <2>4. <<o>> \in Seq(Observed) /\ Len(<<o>>) = 1 /\ DOMAIN <<o>> = {1} /\ <<o>>[1] = o
      BY <2>2
  <2>5. /\ c \in ChildType /\ c.obs = <<o>> /\ c.target = Fixture /\ c.listed = child.listed
        /\ c.complete /\ c.covered = {Fixture} /\ c.target = child.target
      BY <2>4, <1>1, <1>3, Workspace DEF ChildType
  <2> HIDE DEF c
  <2>6. Fixture \in Targets /\ Below[Fixture] = {Fixture}
      BY <1>1, <1>3, Workspace DEF Core
  <2>7. ObsFits(c, o)
      BY <2>1, <2>3, <2>5, <2>6, <1>1, <1>3 DEF ObsFits, Stands
  <2>8. Core(c)
      BY <2>4, <2>5, <2>7, <1>1 DEF Core
  <2>9. Covers(c)
      BY <2>5, <2>6, <1>1 DEF Covers, Core
  <2> QED  BY <2>4, <2>5, <2>8, <2>9, <1>3, PrintingOK
<1> QED  BY <1>2, <1>3 DEF Verify

LEMMA ChildOK == ASSUME Typed, WorkerInv, ChildStep  PROVE WorkerOK(child')
<1>1. child \in ChildType /\ WorkerOK(child) /\ leads \in Targets \cup Nowhere
    BY TypedParts DEF Typed, WorkerInv
<1>2. CASE ReadInput
  <2> DEFINE c == [child EXCEPT !.input = @ + 1]
  <2>1. child.pc = "reading"
      BY <1>2 DEF ReadInput, ChildAt
  <2>2. c \in ChildType /\ c.pc = "reading" /\ c.code = child.code /\ c.obs = child.obs /\ c.complete = child.complete
      BY <1>1, <2>1 DEF ChildType
  <2>3. WorkerOK(c) /\ WorkerOK(Refusing(c))
      BY <2>1, <2>2, <1>1, RefusingOK DEF WorkerOK, Answered
  <2>4. WorkerOK([child EXCEPT !.pc = "resolving"])
      BY <2>1, <1>1 DEF WorkerOK, Answered, ChildType
  <2> HIDE DEF WorkerOK
  <2> QED  BY <2>3, <2>4, <1>2 DEF ReadInput
<1>3. CASE Resolve
  <2>1. CASE leads \in Nowhere
      BY <2>1, <1>1, <1>3, RefusingOK DEF Resolve
  <2>2. CASE leads \notin Nowhere
    <3> DEFINE found == {p \in Below[leads] \ Ignored : disk[p].kind # "absent"}
               pc == IF Verifies THEN "verifying" ELSE "scanning"
    <3>1. child' = [child EXCEPT !.pc = pc, !.target = leads, !.todo = found, !.listed = found]
        BY <1>3, <2>2 DEF Resolve, Verifies
    <3>2. found \subseteq Below[leads] /\ leads \in Targets
        BY <1>1, <2>2
    <3>3. child.code = 0 /\ child.obs = <<>> /\ child.complete
        BY <1>1, <1>3 DEF WorkerOK, Resolve, ChildAt
    <3> HIDE DEF found, pc
    <3>4. /\ child'.pc = pc /\ child'.target = leads /\ child'.todo = found /\ child'.listed = found
          /\ child'.code = 0 /\ child'.obs = <<>> /\ child'.complete
        BY <3>1, <3>3, <1>1 DEF ChildType
    <3>5. ~edited => leads = inv.target
        BY DEF WorkerInv
    <3> QED  BY <3>2, <3>4, <3>5 DEF WorkerOK, Core, Answered, pc
  <2> QED  BY <2>1, <2>2
<1>4. CASE ScanEnds
  <2>1. Core(child) /\ Covers(child) /\ ~Verifies
      BY <1>1, <1>4 DEF ScanEnds, ChildAt, WorkerOK, Covers
  <2> QED  BY <2>1, <1>1, <1>4, PrintingOK DEF ScanEnds
<1>5. CASE WriteOut \/ Exit
  <2>1. /\ child'.obs = child.obs /\ child'.target = child.target /\ child'.listed = child.listed
        /\ child'.complete = child.complete /\ child'.covered = child.covered
        /\ child'.code = child.code /\ child'.pc \in {"printing", "closed", "gone"}
        /\ child.pc \in {"printing", "closed"}
      BY <1>1, <1>5 DEF WriteOut, Exit, ChildAt, ChildType
  <2> QED  BY <2>1, <1>1 DEF WorkerOK, Answered, Core, Covers, ObsFits, Stands
<1>6. CASE Die
  <2>1. child'.pc = "closed" /\ child'.code = 9
      BY <1>1, <1>6 DEF Die, ChildType
  <2> QED  BY <2>1 DEF WorkerOK, Answered
<1> QED  BY <1>2, <1>3, <1>4, <1>5, <1>6, ScanOK, VerifyOK DEF ChildStep

-----------------------------------------------------------------------------
(* The runner.  What it has read and what is in the pipe is what a worker  *)
(* that ended well has printed, and it goes on only if such a worker is    *)
(* gone and the pipe is empty.                                             *)
PipeOK(c, n) ==
    /\ c.pc \in {"absent", "reading", "resolving", "scanning", "verifying"} => n = 0
    /\ c.pc = "printing" /\ c.code = 0 => n + c.left = Output(c.obs)
    /\ c.pc \in {"closed", "gone"} /\ c.code = 0 => n = Output(c.obs)
Idle == pipe = 0 /\ child.pc = "gone"
HostInv ==
    /\ host.pc \in {"checking", "spawning"} => child.pc = "absent"
    /\ host.pc \in {"checking", "spawning", "writing", "collecting"} => host.outcome = "none"
    /\ host.pc = "waiting" => host.outcome = "none" /\ pipe = 0 /\ Gone
    /\ host.pc = "killing" => host.outcome \in {"truncated", "timeout"}
    /\ host.pc = "final" =>
         \/ host.outcome \in {"truncated", "timeout", "failed"}
         \/ host.outcome = "none" /\ Idle /\ host.reaped
    /\ host.pc \in {"parsing", "validating"} => host.outcome = "none" /\ Idle /\ child.code = 0
    /\ host.pc = "validating" => IsDocument /\ Belongs(child) /\ host.checked <= Len(child.obs)
    /\ host.pc \notin {"validating", "done"} => host.checked = 0
    /\ host.pc = "done" /\ host.outcome \in {"accepted", "rejected"} => Idle /\ child.code = 0
    /\ host.pc = "done" /\ host.outcome = "accepted" => IsDocument /\ Belongs(child)

(* A rejection has its reason on disk. *)
Reason ==
    \/ edited
    \/ \E p \in child.listed : disk[p].kind \in {"shifted", "elsewhere"} /\ disk[p].sinks # <<>>
Judged ==
    /\ host.pc = "validating" => (~edited => host.real = inv.target)
    /\ host.pc = "done" /\ host.outcome = "rejected" => Reason
RunInv == WorkerInv /\ PipeOK(child, host.buffer + pipe) /\ HostInv /\ Judged

LEMMA InitRun == Init => RunInv
<1> SUFFICES ASSUME Init  PROVE RunInv
    OBVIOUS
<1>1. WorkerInv
    BY DEF Init, WorkerInv, WorkerOK, Answered
<1>2. PipeOK(child, host.buffer + pipe)
    BY DEF Init, PipeOK
<1>3. HostInv /\ Judged
    BY DEF Init, HostInv, Judged
<1> QED  BY <1>1, <1>2, <1>3 DEF RunInv

(* The steps of the worker. *)
LEMMA PrintedPipe ==
    ASSUME Typed, NEW c \in ChildType, c.code = 0 \/ c.code = 2
    PROVE  PipeOK(Printing(c), 0) /\ PipeOK(Refusing(c), 0)
<1>1. Output(c.obs) \in Nat
    BY OutputType DEF Typed, ChildType
<1>2. /\ Printing(c).pc = "printing" /\ Printing(c).left = Output(c.obs) /\ Printing(c).obs = c.obs
      /\ Refusing(c).pc = "printing" /\ Refusing(c).code = 2
    BY DEF Printing, Refusing, ChildType
<1> QED  BY <1>1, <1>2 DEF PipeOK

LEMMA ChildPipe ==
    ASSUME Typed, RunInv, ChildStep  PROVE PipeOK(child', host.buffer + pipe')
<1> DEFINE n == host.buffer + pipe
           Early == {"absent", "reading", "resolving", "scanning", "verifying"}
<1>1. /\ child \in ChildType /\ PipeOK(child, n) /\ host.buffer \in Nat /\ pipe \in Nat
      /\ WorkerOK(child) /\ disk \in Trees
    BY TypedParts DEF Typed, RunInv, HostType, WorkerInv
<1>2. CASE ChildAt("reading") \/ ChildAt("resolving") \/ ChildAt("scanning") \/ ChildAt("verifying")
  <2>1. n = 0 /\ child.code = 0
      BY <1>1, <1>2 DEF PipeOK, WorkerOK, ChildAt
  <2>2. \A c \in ChildType : c.pc \in Early => PipeOK(c, 0)
      BY DEF PipeOK
  <2>3. \A c \in ChildType : c.code = 0 => PipeOK(Printing(c), 0) /\ PipeOK(Refusing(c), 0)
      BY PrintedPipe
  <2>4. CASE ReadInput
    <3> DEFINE c == [child EXCEPT !.input = @ + 1]
    <3>1. c \in ChildType /\ c.pc = "reading" /\ c.code = 0 /\ UNCHANGED pipe
        BY <2>1, <2>4, <1>1 DEF ReadInput, ChildAt, ChildType
    <3>2. LET e == [child EXCEPT !.pc = "resolving"] IN e \in ChildType /\ e.pc = "resolving"
        BY <1>1 DEF ChildType, ChildPCs
    <3> HIDE DEF c
    <3>3. PipeOK(c, 0) /\ PipeOK(Refusing(c), 0) /\ PipeOK([child EXCEPT !.pc = "resolving"], 0)
        BY <3>1, <3>2, <2>2, <2>3
    <3>4. PipeOK(child', 0)
        BY <3>3, <2>4 DEF ReadInput, c
    <3> QED  BY <3>1, <3>4, <2>1
  <2>5. CASE Resolve
    <3>1. child' = Refusing(child) \/ child'.pc \in {"verifying", "scanning"}
        BY <1>1, <2>5 DEF Resolve, ChildType
    <3>2. PipeOK(child', 0)
        BY <3>1, <2>1, <2>2, <2>3, <1>1, <2>5, ChildTyped DEF ChildStep
    <3> QED  BY <3>2, <2>1, <2>5 DEF Resolve
  <2>6. CASE ScanFile
    <3> DEFINE p == First(child.todo)
               c == Opened(p)
               d == Inspected(c, p)
    <3>1. /\ c \in ChildType /\ c.pc = "scanning" /\ c.code = 0
      <4>1. child.pc = "scanning"
          BY <2>6 DEF ScanFile, ChildAt
      <4> QED  BY <4>1, <2>1, <1>1, <2>6, OpenedType DEF ScanFile, Opened, ChildType
    <3>2. p \in Paths /\ Len(c.obs) <= MaxObservations
        BY <2>6, OpenedType DEF ScanFile
    <3> HIDE DEF p, c
    <3>3. d \in ChildType /\ d.pc = "scanning" /\ d.code = 0
      <4>1. d \in ChildType
          BY <3>1, <3>2, <1>1, InspectedFields
      <4>2. d.pc = c.pc /\ d.code = c.code
          BY <3>1 DEF Inspected, ChildType
      <4> QED  BY <4>1, <4>2, <3>1
    <3>4. /\ Skip(c) \in ChildType /\ Skip(c).pc = "scanning" /\ Skip(c).code = 0
          /\ Skip(child) \in ChildType /\ Skip(child).code = 0
        BY <3>1, <1>1, <2>1 DEF Skip, ChildType
    <3> HIDE DEF d
    <3>5. PipeOK(child', 0)
        BY <3>1, <3>3, <3>4, <2>2, <2>3, <2>6, ScanCases DEF p, c, d
    <3> QED  BY <3>5, <2>1, <2>6 DEF ScanFile
  <2>7. CASE ScanEnds
    <3>1. PipeOK(child', 0)
        BY <2>1, <2>3, <2>7, <1>1 DEF ScanEnds
    <3> QED  BY <3>1, <2>1, <2>7 DEF ScanEnds
  <2>8. CASE Verify
    <3>1. \/ child' = Refusing(child)
          \/ \E c \in ChildType : child' = Printing(c) /\ c.code = 0
      <4> DEFINE c == [child EXCEPT !.obs = <<Observation(Fixture, 1, TRUE)>>, !.covered = {Fixture}]
      <4>1. ASSUME Exact(Fixture)  PROVE c \in ChildType /\ c.code = 0
        <5>1. Observation(Fixture, 1, TRUE) \in Observed
            BY <4>1, <1>1, FixtureSink, ObservationType, Workspace
        <5>2. \A o \in Observed : <<o>> \in Seq(Observed)
            OBVIOUS
        <5> QED  BY <5>1, <5>2, <1>1, <2>1, Workspace DEF ChildType
      <4> HIDE DEF c
      <4> QED  BY <4>1, <2>8 DEF Verify, c
    <3>2. PipeOK(child', 0)
        BY <3>1, <2>1, <2>3, <1>1
    <3> QED  BY <3>2, <2>1, <2>8 DEF Verify
  <2>9. CASE Die
    <3>1. child'.pc = "closed" /\ child'.code = 9
        BY <1>1, <2>9 DEF Die, ChildType
    <3> QED  BY <3>1 DEF PipeOK
  <2> QED  BY <1>2, <2>4, <2>5, <2>6, <2>7, <2>8, <2>9 DEF ChildStep, WriteOut, Exit, ChildAt
<1>3. CASE WriteOut
  <2>1. child.pc = "printing" /\ child.left \in Nat
      BY <1>1, <1>3 DEF WriteOut, ChildAt, ChildType
  <2>2. CASE child.left = 0
    <3>1. /\ child'.pc = "closed" /\ child'.obs = child.obs /\ child'.code = child.code /\ UNCHANGED pipe
        BY <2>2, <1>1, <1>3 DEF WriteOut, ChildType
    <3> QED  BY <2>1, <2>2, <3>1, <1>1 DEF PipeOK
  <2>3. CASE child.left # 0
    <3>1. /\ child'.pc = "printing" /\ child'.obs = child.obs /\ child'.code = child.code
          /\ child'.left = child.left - 1 /\ pipe' = pipe + 1
        BY <2>1, <2>3, <1>1, <1>3 DEF WriteOut, ChildType
    <3>2. host.buffer + pipe' + child'.left = n + child.left
        BY <3>1, <2>1, <1>1
    <3> QED  BY <2>1, <3>1, <3>2, <1>1 DEF PipeOK
  <2> QED  BY <2>2, <2>3
<1>4. CASE Exit
  <2>1. /\ child.pc = "closed" /\ child'.pc = "gone" /\ child'.obs = child.obs
        /\ child'.code = child.code /\ UNCHANGED pipe
      BY <1>1, <1>4 DEF Exit, ChildAt, ChildType
  <2> QED  BY <2>1, <1>1 DEF PipeOK
<1>5. CASE Die
  <2>1. child'.pc = "closed" /\ child'.code = 9
      BY <1>1, <1>5 DEF Die, ChildType
  <2> QED  BY <2>1 DEF PipeOK
<1> QED
    BY <1>2, <1>3, <1>4, <1>5
    DEF ChildStep, ReadInput, Resolve, ScanFile, ScanEnds, Verify

(* A worker that is gone stays as it is. *)
LEMMA GoneStays ==
    ASSUME Typed, ChildStep
    PROVE  /\ child.pc # "gone" /\ child.pc # "absent" /\ child'.pc # "absent"
           /\ Gone => child'.pc = "gone" /\ UNCHANGED pipe
           /\ UNCHANGED <<inv, files, host, late>>
<1>1. child \in ChildType /\ child' \in ChildType
    BY TypedParts, ChildTyped DEF Typed
<1>2. /\ child.pc # "gone" /\ child.pc # "absent" /\ UNCHANGED <<inv, files, host, late>>
      /\ child.pc = "closed" => Exit
    BY DEF ChildStep, ReadInput, Resolve, ScanFile, ScanEnds, Verify, WriteOut, Exit, Die, ChildAt
<1>3. child'.pc # "absent"
  <2>1. \A c \in ChildType : Printing(c).pc = "printing" /\ Refusing(c).pc = "printing"
                             /\ Skip(c).pc = c.pc
      BY DEF Printing, Refusing, Skip, ChildType
  <2>2. CASE ScanFile
    <3> DEFINE p == First(child.todo)
               c == Opened(p)
               d == Inspected(c, p)
    <3>1. child.pc = "scanning"
        BY <2>2 DEF ScanFile, ChildAt
    <3>2. c \in ChildType /\ c.pc = "scanning" /\ p \in Paths /\ Len(c.obs) <= MaxObservations
        BY <2>2, <3>1, <1>1, OpenedType DEF ScanFile, Opened, ChildType
    <3> HIDE DEF p, c
    <3>3. d \in ChildType
        BY <3>2, InspectedFields, TypedParts DEF Typed
    <3>4. d.pc = "scanning"
        BY <3>2 DEF Inspected, ChildType
    <3>5. Skip(child) \in ChildType /\ Skip(c) \in ChildType
        BY <1>1, <3>2, Prints DEF Typed
    <3> HIDE DEF d
    <3>6. \/ child' = Printing(Skip(child)) \/ child' = Skip(c) \/ child' = Refusing(c)
          \/ child' = Printing(Skip(c)) \/ child' = d \/ child' = Printing(d)
        BY <2>2, ScanCases DEF p, c, d
    <3> QED  BY <3>2, <3>3, <3>4, <3>5, <3>6, <2>1
  <2>3. CASE Verify
    <3>1. child'.pc = "printing"
        BY <2>3, <1>1 DEF Verify, Printing, Refusing, ChildType
    <3> QED  BY <3>1
  <2>4. CASE ReadInput
    <3>1. child'.pc \in {"reading", "resolving", "printing"}
        BY <2>4, <1>1 DEF ReadInput, ChildAt, Refusing, ChildType
    <3> QED  BY <3>1
  <2>5. CASE Resolve \/ ScanEnds
    <3>1. child'.pc \in {"scanning", "verifying", "printing"}
        BY <2>5, <1>1 DEF Resolve, ScanEnds, Printing, Refusing, ChildType
    <3> QED  BY <3>1
  <2>6. CASE WriteOut \/ Exit \/ Die
    <3>1. child'.pc \in {"printing", "closed", "gone"}
        BY <2>6, <1>1 DEF WriteOut, Exit, Die, ChildAt, ChildType
    <3> QED  BY <3>1
  <2> QED  BY <2>2, <2>3, <2>4, <2>5, <2>6 DEF ChildStep
<1>4. Gone => child'.pc = "gone" /\ UNCHANGED pipe
    BY <1>1, <1>2 DEF Gone, Exit, ChildType
<1> QED  BY <1>2, <1>3, <1>4

LEMMA StepChild == ASSUME Typed, RunInv, ChildStep, Running  PROVE RunInv'
<1>1. /\ child.pc # "gone" /\ child.pc # "absent" /\ child'.pc # "absent"
      /\ Gone => child'.pc = "gone" /\ UNCHANGED pipe
      /\ UNCHANGED <<inv, disk, leads, edited, host>>
    BY GoneStays DEF files
<1>2. WorkerInv'
  <2>1. WorkerOK(child')
      BY ChildOK DEF RunInv
  <2>2. WorkerOK(child)'
      BY <2>1, <1>1
      DEF WorkerOK, Core, Covers, Answered, Verifies, ObsFits, Stands, Exact
  <2> QED  BY <2>2, <1>1 DEF RunInv, WorkerInv
<1>3. PipeOK(child, host.buffer + pipe)'
  <2>1. PipeOK(child', host.buffer + pipe')
      BY ChildPipe
  <2> QED  BY <2>1, <1>1 DEF PipeOK, Output
<1>4. HostInv'
  <2>1. ~Idle
      BY <1>1 DEF Idle
  <2>2. Gone => Gone'
      BY <1>1 DEF Gone
  <2>3. HostInv
      BY DEF RunInv
  <2>4. host.pc \notin {"checking", "spawning", "parsing", "validating", "done"}
      BY <2>1, <2>3, <1>1 DEF HostInv, Running
  <2> QED  BY <2>1, <2>2, <2>3, <2>4, <1>1 DEF HostInv
<1>5. Judged'
    BY <1>1 DEF RunInv, HostInv, Idle, Judged, Running
<1> QED  BY <1>2, <1>3, <1>4, <1>5 DEF RunInv

(* What changes on disk changes nothing that was claimed without it. *)
LEMMA StepWorld ==
    ASSUME Typed, RunInv, Running, TimeUp \/ Edit \/ Relink
    PROVE  RunInv'
<1>1. UNCHANGED <<inv, host, child, stdin, pipe>>
    BY DEF TimeUp, Edit, Relink
<1>2. edited' \/ UNCHANGED <<disk, leads, edited>>
    BY DEF TimeUp, Edit, Relink, files
<1>3. WorkerInv'
    BY <1>1, <1>2
    DEF RunInv, WorkerInv, WorkerOK, Core, Covers, Answered, Verifies, ObsFits, Stands, Exact
<1>4. PipeOK(child, host.buffer + pipe)'
    BY <1>1 DEF RunInv, PipeOK, Output
<1>5. HostInv'
    BY <1>1 DEF RunInv, HostInv, Gone, Idle, IsDocument, Belongs, Output
<1>6. Judged'
    BY <1>1, <1>2 DEF RunInv, Judged, Running
<1> QED  BY <1>3, <1>4, <1>5, <1>6 DEF RunInv

(* The steps of the runner. *)
LEMMA HostWorker == ASSUME Typed, RunInv, HostStep  PROVE WorkerInv'
<1>1. child \in ChildType /\ WorkerInv /\ HostInv /\ UNCHANGED <<inv, disk, leads, edited>>
    BY TypedParts, HostTyped DEF RunInv, Typed, files
<1>2. UNCHANGED child => WorkerInv'
    BY <1>1
    DEF WorkerInv, WorkerOK, Core, Covers, Answered, Verifies, ObsFits, Stands, Exact
<1>3. ASSUME ~UNCHANGED child  PROVE WorkerOK(child')
  <2>1. Spawn \/ Kill
      BY <1>3
      DEF HostStep, Check, WriteInput, CloseInput, BrokenInput, Collect, EndOfOutput, Wait,
          Expire, KillFails, Settle, Parse, CheckNext
  <2>2. CASE Spawn
    <3>1. child.pc = "absent" /\ child' = [child EXCEPT !.pc = "reading"]
        BY <2>2, <1>1, <1>3 DEF Spawn, HostAt, HostInv
    <3>2. child'.pc = "reading" /\ child'.code = 0 /\ child'.obs = <<>> /\ child'.complete
        BY <3>1, <1>1 DEF ChildType, WorkerInv, WorkerOK
    <3> QED  BY <3>2 DEF WorkerOK, Answered
  <2>3. CASE Kill
    <3>1. child' = [child EXCEPT !.pc = "gone", !.code = 9]
        BY <2>3, <1>3 DEF Kill
    <3>2. child'.pc = "gone" /\ child'.code = 9
        BY <3>1, <1>1 DEF ChildType
    <3> QED  BY <3>2 DEF WorkerOK, Answered
  <2> QED  BY <2>1, <2>2, <2>3
<1>4. WorkerOK(child') => WorkerOK(child)'
    BY <1>1 DEF WorkerOK, Core, Covers, Answered, Verifies, ObsFits, Stands, Exact
<1> QED  BY <1>1, <1>2, <1>3, <1>4 DEF WorkerInv

LEMMA HostPipe == ASSUME Typed, RunInv, HostStep  PROVE PipeOK(child, host.buffer + pipe)'
<1> DEFINE n == host.buffer + pipe
<1>1. /\ child \in ChildType /\ host \in HostType /\ pipe \in Nat /\ UNCHANGED inv
      /\ PipeOK(child, n) /\ HostInv
    BY TypedParts, HostTyped DEF RunInv, Typed
<1>2. host'.buffer + pipe' = n
  <2>1. CASE Collect
    <3>1. pipe' = pipe - 1 /\ host'.buffer = host.buffer + 1
        BY <2>1, <1>1 DEF Collect, HostType
    <3> QED  BY <3>1, <1>1 DEF HostType
  <2>2. CASE ~Collect
    <3>1. host'.buffer = host.buffer /\ UNCHANGED pipe
        BY <2>2, <1>1
        DEF HostStep, HostType, HostGo, HostEnd, Check, Spawn, WriteInput, CloseInput,
            BrokenInput, EndOfOutput, Wait, Expire, Kill, KillFails, Settle, Parse, CheckNext
    <3> QED  BY <3>1
  <2> QED  BY <2>1, <2>2
<1> HIDE DEF n
<1>3. PipeOK(child', n)
  <2>1. UNCHANGED child => PipeOK(child', n)
      BY <1>1
  <2>2. ASSUME ~UNCHANGED child  PROVE PipeOK(child', n)
    <3>1. Spawn \/ Kill
        BY <2>2
        DEF HostStep, Check, WriteInput, CloseInput, BrokenInput, Collect, EndOfOutput, Wait,
            Expire, KillFails, Settle, Parse, CheckNext
    <3>2. CASE Spawn
      <4>1. child.pc = "absent" /\ child'.pc = "reading"
          BY <3>2, <2>2, <1>1 DEF Spawn, HostAt, HostInv, ChildType
      <4> QED  BY <4>1, <1>1 DEF PipeOK
    <3>3. CASE Kill
      <4>1. child'.pc = "gone" /\ child'.code = 9
          BY <3>3, <2>2, <1>1 DEF Kill, ChildType
      <4> QED  BY <4>1 DEF PipeOK
    <3> QED  BY <3>1, <3>2, <3>3
  <2> QED  BY <2>1, <2>2
<1> QED  BY <1>1, <1>2, <1>3 DEF PipeOK, Output, n

(* A worker that is gone and ended well has printed its whole answer.      *)
LEMMA WholeAnswer ==
    ASSUME Typed, RunInv, Idle, child.code = 0
    PROVE  IsDocument /\ Core(child) /\ Covers(child) /\ (Verifies => Len(child.obs) = 1)
<1>1. host.buffer = Output(child.obs)
    BY TypedParts DEF Typed, RunInv, PipeOK, Idle, HostType
<1> QED  BY <1>1 DEF Typed, Bounded, IsDocument, RunInv, WorkerInv, WorkerOK, Answered, Idle

(* While nothing changes, an observation is refused only for its file.     *)
LEMMA Confirms ==
    ASSUME Typed, RunInv, HostAt("validating"), ~edited, NEW i \in DOMAIN child.obs,
           ~Confirmed(child.obs[i])
    PROVE  Reason
<1> DEFINE o == child.obs[i]
<1>1. Idle /\ child.code = 0 /\ host.real = inv.target
    BY DEF RunInv, HostInv, Judged, HostAt
<1>2. ObsFits(child, o) /\ child.target = inv.target /\ child.target \in Targets
    BY <1>1, WholeAnswer DEF Core
<1>3. inv.target \notin Nowhere
    BY <1>2, Workspace
<1> HIDE DEF o
<1>4. Stands(child, o) /\ o.file \in Below[host.real] /\ (o.verified <=> Verifies)
    BY <1>1, <1>2 DEF ObsFits
<1>5. o.verified \in BOOLEAN
  <2>1. child.obs \in Seq(Observed)
      BY TypedParts DEF Typed, ChildType
  <2>2. child.obs[i] \in Observed
      BY <2>1
  <2> QED  BY <2>2 DEF o, Observed
<1>6. disk[o.file].kind # "source"
  <2> SUFFICES ASSUME disk[o.file].kind = "source"  PROVE Confirmed(o)
      BY DEF o
  <2>1. o.verified = (inv.tool = "fixture-sql-verify")
      BY <1>4, <1>5 DEF Verifies
  <2>2. o.verified => child.complete /\ Exact(o.file)
      BY <1>2, <1>4 DEF ObsFits, Stands
  <2> QED  BY <1>1, <1>3, <1>4, <2>1, <2>2 DEF Confirmed, Stands
<1>7. ~o.verified
    BY <1>4, <1>6 DEF Stands, Exact
<1>8. /\ o.file \in child.listed /\ disk[o.file].kind \in {"shifted", "elsewhere"}
      /\ disk[o.file].sinks # <<>>
    BY <1>4, <1>6, <1>7 DEF Stands
<1> QED  BY <1>8 DEF Reason

LEMMA HostJudges == ASSUME Typed, RunInv, HostStep  PROVE HostInv' /\ Judged'
<1>1. /\ child \in ChildType /\ host \in HostType /\ HostInv /\ Judged
      /\ UNCHANGED <<inv, disk, leads, edited>>
    BY TypedParts, HostTyped DEF RunInv, Typed, files
<1>2. CASE Check
    BY <1>1, <1>2 DEF Check, HostAt, HostGo, HostEnd, HostType, HostInv, Judged
<1>3. CASE Spawn
    BY <1>1, <1>3 DEF Spawn, HostAt, HostGo, HostEnd, HostType, HostInv, Judged
<1>4. CASE WriteInput \/ CloseInput \/ BrokenInput \/ Collect
    BY <1>1, <1>4
    DEF WriteInput, CloseInput, BrokenInput, Collect, HostAt, HostGo, HostEnd, HostType,
        HostInv, Judged
<1>5. CASE EndOfOutput \/ Wait \/ Expire
    BY <1>1, <1>5
    DEF EndOfOutput, Wait, Expire, HostAt, HostGo, HostEnd, HostType, HostInv, Judged, Gone, Idle
<1>6. CASE Kill
    BY <1>1, <1>6 DEF Kill, HostAt, HostType, HostInv, Judged
<1>7. CASE KillFails
    BY <1>1, <1>7 DEF KillFails, HostAt, HostEnd, HostType, HostInv, Judged
<1>8. CASE Settle
    BY <1>1, <1>8 DEF Settle, HostAt, HostGo, HostEnd, HostType, HostInv, Judged, Idle
<1>9. CASE Parse
  <2>1. host.pc = "parsing" /\ Idle /\ child.code = 0 /\ UNCHANGED <<child, pipe>>
      BY <1>1, <1>9 DEF Parse, HostAt, HostInv
  <2>2. IsDocument /\ Core(child) /\ (Verifies => Len(child.obs) = 1)
      BY <2>1, WholeAnswer
  <2>3. CASE host' = [host EXCEPT !.pc = "validating", !.real = leads] /\ Belongs(child)
    <3>1. /\ host'.pc = "validating" /\ host'.real = leads /\ host'.buffer = host.buffer
          /\ host'.outcome = host.outcome /\ host'.checked = 0
        BY <2>1, <2>3, <1>1 DEF HostType, HostInv
    <3>2. 0 <= Len(child.obs) /\ host.outcome = "none"
        BY <2>1, <1>1 DEF ChildType, HostInv
    <3>3. IsDocument' /\ Belongs(child)' /\ Idle'
        BY <2>1, <2>2, <2>3, <3>1, <1>1 DEF IsDocument, Belongs, Output, Idle
    <3>4. ~edited => leads = inv.target
        BY DEF RunInv, WorkerInv
    <3> QED  BY <2>1, <3>1, <3>2, <3>3, <3>4, <1>1 DEF HostInv, Judged
  <2>4. CASE HostEnd("done", "rejected") /\ ~Belongs(child)
    <3>1. host'.pc = "done" /\ host'.outcome = "rejected"
        BY <2>4, <1>1 DEF HostEnd, HostType
    <3>2. edited
        BY <2>2, <2>4 DEF Belongs, Core
    <3> QED  BY <2>1, <3>1, <3>2, <1>1 DEF HostInv, Judged, Reason, Idle
  <2> QED  BY <2>2, <2>3, <2>4, <1>9 DEF Parse, Verifies
<1>10. CASE CheckNext
  <2> DEFINE i == host.checked + 1
  <2>1. host.pc = "validating" /\ UNCHANGED <<child, pipe>>
      BY <1>10 DEF CheckNext, HostAt
  <2>2. /\ Idle /\ child.code = 0 /\ IsDocument /\ Belongs(child) /\ host.checked <= Len(child.obs)
        /\ host.checked \in Nat /\ Len(child.obs) \in Nat /\ host.outcome = "none"
        /\ DOMAIN child.obs = 1..Len(child.obs)
      BY <2>1, <1>1 DEF HostInv, HostType, ChildType
  <2>3. CASE HostEnd("done", "accepted")
    <3>1. host'.pc = "done" /\ host'.outcome = "accepted" /\ host'.buffer = host.buffer
        BY <2>3, <1>1 DEF HostEnd, HostType
    <3>2. IsDocument' /\ Belongs(child)' /\ Idle'
        BY <2>1, <2>2, <3>1, <1>1 DEF IsDocument, Belongs, Output, Idle
    <3> QED  BY <2>1, <2>2, <3>1, <3>2 DEF HostInv, Judged
  <2>4. CASE host' = [host EXCEPT !.checked = host.checked + 1] /\ host.checked # Len(child.obs)
    <3>1. /\ host'.pc = "validating" /\ host'.checked = i /\ host'.buffer = host.buffer
          /\ host'.outcome = "none" /\ host'.real = host.real
        BY <2>1, <2>2, <2>4, <1>1 DEF HostType
    <3>2. i <= Len(child.obs)
        BY <2>2, <2>4
    <3>3. IsDocument' /\ Belongs(child)' /\ Idle'
        BY <2>1, <2>2, <3>1, <1>1 DEF IsDocument, Belongs, Output, Idle
    <3> QED  BY <2>1, <2>2, <3>1, <3>2, <3>3, <1>1 DEF HostInv, Judged
  <2>5. CASE HostEnd("done", "rejected") /\ host.checked # Len(child.obs) /\ ~Confirmed(child.obs[i])
    <3>1. host'.pc = "done" /\ host'.outcome = "rejected"
        BY <2>5, <1>1 DEF HostEnd, HostType
    <3>2. i \in DOMAIN child.obs
        BY <2>2, <2>5
    <3>3. Reason
      <4>1. ~edited => Reason
          BY <3>2, <2>1, <2>5, Confirms DEF HostAt
      <4> QED  BY <4>1 DEF Reason
    <3>4. Reason' /\ Idle'
        BY <3>3, <2>1, <2>2, <1>1 DEF Reason, Idle
    <3> QED  BY <2>1, <2>2, <3>1, <3>4 DEF HostInv, Judged
  <2> QED  BY <2>3, <2>4, <2>5, <1>10 DEF CheckNext
<1> QED  BY <1>2, <1>3, <1>4, <1>5, <1>6, <1>7, <1>8, <1>9, <1>10 DEF HostStep

LEMMA StepHost == ASSUME Typed, RunInv, HostStep  PROVE RunInv'
BY HostJudges, HostWorker, HostPipe DEF RunInv

LEMMA RunInvariance == Spec => [](Typed /\ RunInv)
<1>1. Typed /\ RunInv /\ [Next]_vars => RunInv'
  <2> SUFFICES ASSUME Typed, RunInv, [Next]_vars  PROVE RunInv'
      OBVIOUS
  <2>1. CASE UNCHANGED vars
    <3>1. UNCHANGED <<inv, disk, leads, host, child, pipe, edited>>
        BY <2>1 DEF vars
    <3>2. WorkerOK(child)'
        BY <3>1
        DEF RunInv, WorkerInv, WorkerOK, Core, Covers, Answered, Verifies, ObsFits, Stands, Exact
    <3>3. WorkerInv'
        BY <3>1, <3>2 DEF RunInv, WorkerInv
    <3>4. PipeOK(child, host.buffer + pipe)'
        BY <3>1 DEF RunInv, PipeOK, Output
    <3>5. HostInv'
        BY <3>1 DEF RunInv, HostInv, Gone, Idle, IsDocument, Belongs, Output
    <3>6. Judged'
        BY <3>1 DEF RunInv, Judged, Reason
    <3> QED  BY <3>3, <3>4, <3>5, <3>6 DEF RunInv
  <2> QED  BY <2>1, StepHost, StepChild, StepWorld DEF Next, Finished
<1> QED  BY <1>1, InitTyped, InitRun, StepTyped, PTL DEF Spec

(* An accepted scan that calls itself complete has inspected every file    *)
(* that was there when it began, or has found as much as it may report.    *)
THEOREM CompleteScansCover == Spec => []CompleteIsCovered
<1>1. Typed /\ RunInv => CompleteIsCovered
  <2> SUFFICES ASSUME Typed, RunInv, Ended("accepted")  PROVE Covers(child)
      BY DEF CompleteIsCovered, Covers
  <2>1. Idle /\ child.code = 0
      BY DEF RunInv, HostInv, Ended, HostAt
  <2> QED  BY <2>1, WholeAnswer
<1> QED  BY <1>1, RunInvariance, PTL

(* An answer is accepted only as the whole output of a worker that ended   *)
(* well and looked where it was authorized to, and is not rejected without *)
(* a reason.                                                               *)
THEOREM AnswersAreJudged == Spec => []JudgedForWhatItIs
<1>1. Typed /\ RunInv => JudgedForWhatItIs
  <2> SUFFICES ASSUME Typed, RunInv  PROVE JudgedForWhatItIs
      OBVIOUS
  <2>1. ASSUME Ended("accepted")
        PROVE  /\ child.code = 0 /\ host.buffer = Output(child.obs) /\ child.target = inv.target
               /\ \A i \in DOMAIN child.obs : child.obs[i].file \in Below[inv.target]
    <3>1. Idle /\ child.code = 0 /\ IsDocument /\ Belongs(child)
        BY <2>1 DEF RunInv, HostInv, Ended, HostAt
    <3>2. Core(child)
        BY <3>1, WholeAnswer
    <3> QED  BY <3>1, <3>2 DEF IsDocument, Belongs, Core, ObsFits
  <2>2. Ended("rejected") => Reason
      BY DEF RunInv, Judged, Ended, HostAt
  <2> QED  BY <2>1, <2>2 DEF JudgedForWhatItIs, Reason
<1> QED  BY <1>1, RunInvariance, PTL
=============================================================================
