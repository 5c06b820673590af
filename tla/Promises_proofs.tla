-------------------------- MODULE Promises_proofs ---------------------------
(* What the two specifications that Engine implements promise: StateMachine *)
(* and RequestOnce, for any runs and request ids.                           *)
EXTENDS StateMachine, TLAPS

LEMMA LastOfAppend ==
    ASSUME NEW h \in Seq(States), NEW state \in States
    PROVE  /\ Append(h, state) \in Seq(States)
           /\ Len(Append(h, state)) = Len(h) + 1
           /\ Append(h, state)[Len(h) + 1] = state
           /\ \A i \in 1..Len(h) : Append(h, state)[i] = h[i]
           /\ Last(Append(h, state)) = state
BY DEF Last

(* Init establishes the type and a step appends one state. *)
THEOREM TypeCorrect == Spec => []TypeOK
<1>1. Init => TypeOK
  <2>1. <<"CREATED">> \in Seq(States) /\ <<"CREATED">> # <<>>
    <3>1. GatePath[1] = "CREATED"
      BY DEF GatePath
    <3>2. "CREATED" \in States
      BY <3>1 DEF States
    <3> QED
      BY <3>2
  <2> QED
    BY <2>1 DEF Init, TypeOK
<1>2. TypeOK /\ [Next]_history => TypeOK'
  <2> SUFFICES ASSUME TypeOK, NEW r \in Runs, NEW state \in States, Advance(r, state)
               PROVE  TypeOK'
    BY DEF Next, TypeOK
  <2>1. history[r] \in Seq(States)
    BY DEF TypeOK
  <2>2. Append(history[r], state) \in Seq(States) /\ Append(history[r], state) # <<>>
    BY <2>1
  <2> QED
    BY <2>2 DEF Advance, TypeOK
<1> QED
  BY <1>1, <1>2, PTL DEF Spec

-----------------------------------------------------------------------------
(* Every step the table allows goes up in this order, so that no state is  *)
(* entered twice and nothing follows a terminal state.                     *)
Rank(state) ==
    CASE state = "CREATED" -> 1
      [] state = "VALIDATING" -> 2
      [] state = "SCOPE_CHECK" -> 3
      [] state = "AUTHORIZATION_CHECK" -> 4
      [] state = "RISK_ASSESSMENT" -> 5
      [] state = "WAITING_FOR_APPROVAL" -> 6
      [] state = "APPROVED" -> 7
      [] state = "PLANNED" -> 8
      [] state = "DISPATCHED" -> 9
      [] state \in {"RUNNING", "EXECUTING"} -> 10
      [] state = "COLLECTING_EVIDENCE" -> 11
      [] state = "VALIDATING_RESULT" -> 12
      [] state = "REPORTING" -> 13
      [] OTHER -> 14

LEMMA Edges ==
    ASSUME NEW from \in States, NEW to \in States, ValidTransition(from, to)
    PROVE  /\ Rank(from) < Rank(to)
           /\ \A k \in 1..7 : to = GatePath[k] => k > 1 /\ from = GatePath[k - 1]
           /\ to \in WorkStates => from = GatePath[7] \/ from \in WorkStates
<1> DEFINE path == {GatePath[i] : i \in 1..7}
<1>1. /\ GatePath[1] = "CREATED" /\ GatePath[2] = "VALIDATING" /\ GatePath[3] = "SCOPE_CHECK"
      /\ GatePath[4] = "AUTHORIZATION_CHECK" /\ GatePath[5] = "RISK_ASSESSMENT"
      /\ GatePath[6] = "WAITING_FOR_APPROVAL" /\ GatePath[7] = "APPROVED"
  BY DEF GatePath
<1>2. path = {"CREATED", "VALIDATING", "SCOPE_CHECK", "AUTHORIZATION_CHECK",
              "RISK_ASSESSMENT", "WAITING_FOR_APPROVAL", "APPROVED"}
  BY <1>1
<1>3. CASE to \in TerminalStates
  <2>1. from \in path \/ from \in WorkStates
    BY DEF ValidTransition, States
  <2> QED
    BY <1>1, <1>2, <1>3, <2>1 DEF Rank, TerminalStates, WorkStates
<1>4. CASE to \notin TerminalStates
  <2>1. ~CanEnd(from, to)
    BY <1>4 DEF CanEnd, TerminalStates
  <2>2. <<from, to>> \in AllowedTransitions
    BY <1>4, <2>1 DEF ValidTransition, CanTransition
  <2>3. CASE \E i \in 1..6 : from = GatePath[i] /\ to = GatePath[i + 1]
    BY <1>1, <2>3 DEF Rank, WorkStates
  <2>4. CASE <<from, to>> \in
              {<<"APPROVED", "PLANNED">>, <<"PLANNED", "DISPATCHED">>, <<"DISPATCHED", "RUNNING">>,
               <<"RUNNING", "COLLECTING_EVIDENCE">>, <<"APPROVED", "EXECUTING">>,
               <<"EXECUTING", "COLLECTING_EVIDENCE">>,
               <<"COLLECTING_EVIDENCE", "VALIDATING_RESULT">>,
               <<"VALIDATING_RESULT", "REPORTING">>}
    BY <1>1, <2>4 DEF Rank, WorkStates
  <2> QED
    BY <2>2, <2>3, <2>4 DEF AllowedTransitions
<1> QED
  BY <1>3, <1>4

LEMMA RankBound == \A state : Rank(state) \in 1..14 /\ (state \in TerminalStates => Rank(state) = 14)
BY DEF Rank, TerminalStates

Follows(h, k) == Len(h) >= k /\ \A i \in 1..k : h[i] = GatePath[i]
Climbs(h) == \A i, j \in 1..Len(h) : i < j => Rank(h[i]) < Rank(h[j])
OnPath(h) == \A k \in 1..7 : Last(h) = GatePath[k] => Len(h) = k /\ Follows(h, k)
PathInv ==
    \A r \in Runs :
        LET h == history[r] IN
        /\ Climbs(h)
        /\ OnPath(h)
        /\ Started(h) => Follows(h, 7)

LEMMA PathStep ==
    ASSUME NEW h \in Seq(States), h # <<>>, NEW state \in States,
           ValidTransition(Last(h), state),
           Climbs(h), OnPath(h), Started(h) => Follows(h, 7)
    PROVE  /\ Climbs(Append(h, state))
           /\ OnPath(Append(h, state))
           /\ Started(Append(h, state)) => Follows(Append(h, state), 7)
<1> DEFINE g == Append(h, state)
           n == Len(h)
<1>1. /\ n \in Nat /\ n >= 1 /\ Last(h) = h[n] /\ h[n] \in States
      /\ \A i \in 1..n : h[i] \in States
  BY DEF Last
<1>2. /\ g \in Seq(States) /\ Len(g) = n + 1 /\ g[n + 1] = state /\ Last(g) = state
      /\ \A i \in 1..n : g[i] = h[i]
  BY LastOfAppend
<1>3. /\ Rank(Last(h)) < Rank(state)
      /\ \A k \in 1..7 : state = GatePath[k] => k > 1 /\ Last(h) = GatePath[k - 1]
      /\ state \in WorkStates => Last(h) = GatePath[7] \/ Last(h) \in WorkStates
  BY <1>1, Edges
<1>4. \A s : Rank(s) \in 1..14
  BY RankBound
<1> HIDE DEF g, n
<1>5. Climbs(g)
  <2> SUFFICES ASSUME NEW i \in 1..Len(g), NEW j \in 1..Len(g), i < j
               PROVE  Rank(g[i]) < Rank(g[j])
    BY DEF Climbs
  <2>1. CASE j \in 1..n
    BY <1>1, <1>2, <2>1 DEF Climbs, n
  <2>2. CASE j = n + 1
    <3>1. i \in 1..n /\ g[i] = h[i] /\ g[j] = state
      BY <1>1, <1>2, <2>2
    <3>2. Rank(h[i]) <= Rank(h[n])
      <4>1. CASE i = n
        BY <1>4, <4>1
      <4>2. CASE i < n
        <5>1. n \in 1..Len(h) /\ i \in 1..Len(h)
          BY <1>1, <3>1 DEF n
        <5>2. Rank(h[i]) < Rank(h[n])
          BY <4>2, <5>1 DEF Climbs
        <5> QED
          BY <1>4, <5>2
      <4> QED
        BY <1>1, <3>1, <4>1, <4>2
    <3>3. Rank(h[i]) \in Int /\ Rank(h[n]) \in Int /\ Rank(state) \in Int
      BY <1>4
    <3> QED
      BY <1>1, <1>3, <3>1, <3>2, <3>3
  <2> QED
    BY <1>1, <1>2, <2>1, <2>2
<1>6. \A k \in 1..7 : Follows(h, k) => Follows(g, k)
  BY <1>1, <1>2 DEF Follows, n
<1>7. OnPath(g)
  <2> SUFFICES ASSUME NEW k \in 1..7, state = GatePath[k]
               PROVE  Len(g) = k /\ Follows(g, k)
    BY <1>2 DEF OnPath
  <2>1. k - 1 \in 1..7 /\ Last(h) = GatePath[k - 1]
    BY <1>3
  <2>2. n = k - 1 /\ Follows(h, k - 1)
    BY <2>1 DEF OnPath, n
  <2>3. \A i \in 1..(k - 1) : g[i] = GatePath[i]
    BY <1>1, <1>2, <2>2 DEF Follows
  <2> QED
    BY <1>1, <1>2, <2>2, <2>3 DEF Follows
<1>8. ASSUME Started(g) PROVE Follows(g, 7)
  <2>1. CASE Started(h)
    BY <1>6, <2>1
  <2>2. CASE ~Started(h)
    <3>1. state \in WorkStates
      <4>1. PICK i \in 1..Len(g) : g[i] \in WorkStates
        BY <1>8 DEF Started
      <4>2. i \notin 1..n
        BY <1>2, <2>2, <4>1 DEF Started, n
      <4> QED
        BY <1>1, <1>2, <4>1, <4>2
    <3>2. Last(h) \notin WorkStates
      BY <1>1, <2>2 DEF Started, n
    <3>3. Last(h) = GatePath[7]
      BY <1>3, <3>1, <3>2
    <3> QED
      BY <1>6, <3>3 DEF OnPath
  <2> QED
    BY <2>1, <2>2
<1> QED
  BY <1>5, <1>7, <1>8 DEF g

LEMMA PathInvariant == Spec => []PathInv
<1>1. Init => PathInv
  <2> SUFFICES ASSUME Init, NEW r \in Runs
               PROVE  Climbs(history[r]) /\ OnPath(history[r])
                      /\ (Started(history[r]) => Follows(history[r], 7))
    BY DEF PathInv
  <2>1. history[r] = <<"CREATED">> /\ Len(history[r]) = 1 /\ history[r][1] = "CREATED"
        /\ Last(history[r]) = "CREATED"
    BY DEF Init, Last
  <2>2. Climbs(history[r]) /\ ~Started(history[r])
    BY <2>1 DEF Climbs, Started, WorkStates
  <2>3. OnPath(history[r])
    BY <2>1 DEF OnPath, Follows, GatePath
  <2> QED
    BY <2>2, <2>3
<1>2. TypeOK /\ PathInv /\ [Next]_history => PathInv'
  <2> SUFFICES ASSUME TypeOK, PathInv, NEW r \in Runs, NEW state \in States, Advance(r, state)
               PROVE  PathInv'
    BY DEF Next, PathInv
  <2>1. history[r] \in Seq(States) /\ history[r] # <<>> /\ ValidTransition(Last(history[r]), state)
    BY DEF TypeOK, Advance
  <2>2. ASSUME NEW o \in Runs
        PROVE  /\ Climbs(history'[o]) /\ OnPath(history'[o])
               /\ Started(history'[o]) => Follows(history'[o], 7)
    <3>1. history'[o] = IF o = r THEN Append(history[r], state) ELSE history[o]
      BY DEF Advance, TypeOK
    <3>2. Climbs(history[o]) /\ OnPath(history[o]) /\ (Started(history[o]) => Follows(history[o], 7))
      BY DEF PathInv
    <3>3. CASE o = r
      BY <2>1, <3>1, <3>2, <3>3, PathStep
    <3>4. CASE o # r
      BY <3>1, <3>2, <3>4
    <3> QED
      BY <3>3, <3>4
  <2> QED
    BY <2>2 DEF PathInv
<1> QED
  BY <1>1, <1>2, TypeCorrect, PTL DEF Spec

(* Whatever a caller asks for, a tool state is reached through every gate. *)
THEOREM NoGateSkipped == Spec => []GatesNotSkipped
<1>1. TypeOK /\ PathInv => GatesNotSkipped
  <2> SUFFICES ASSUME TypeOK, PathInv, NEW r \in Runs, Started(history[r])
               PROVE  IsPrefix(GatePath, history[r])
    BY DEF GatesNotSkipped
  <2> DEFINE h == history[r]
  <2>1. h \in Seq(States) /\ Len(h) >= 7 /\ \A i \in 1..7 : h[i] = GatePath[i]
    BY DEF TypeOK, PathInv, Follows
  <2>2. GatePath \in Seq(States) /\ Len(GatePath) = 7
    <3>1. <<"CREATED", "VALIDATING", "SCOPE_CHECK", "AUTHORIZATION_CHECK", "RISK_ASSESSMENT",
            "WAITING_FOR_APPROVAL", "APPROVED">> \in Seq(States)
      <4>1. \A i \in 1..7 : GatePath[i] \in States
        BY DEF States
      <4>2. /\ "CREATED" \in States /\ "VALIDATING" \in States /\ "SCOPE_CHECK" \in States
            /\ "AUTHORIZATION_CHECK" \in States /\ "RISK_ASSESSMENT" \in States
            /\ "WAITING_FOR_APPROVAL" \in States /\ "APPROVED" \in States
        BY <4>1 DEF GatePath
      <4> HIDE DEF GatePath
      <4> QED
        BY <4>2
    <3>2. GatePath \in Seq(States)
      BY <3>1 DEF GatePath
    <3>3. Len(GatePath) = 7
      BY DEF GatePath
    <3> QED
      BY <3>2, <3>3
  <2>3. SubSeq(h, 1, 7) = SubSeq(GatePath, 1, 7)
    BY <2>1, <2>2
  <2> QED
    BY <2>1, <2>2, <2>3 DEF IsPrefix
<1> QED
  BY <1>1, TypeCorrect, PathInvariant, PTL

(* Terminal states absorb, and no run goes back. *)
THEOREM NoReturn == Spec => []EndsOnce
<1>1. TypeOK /\ PathInv => EndsOnce
  <2> SUFFICES ASSUME TypeOK, PathInv, NEW r \in Runs,
                      NEW i \in 1..Len(history[r]), NEW j \in 1..Len(history[r]), i < j
               PROVE  history[r][i] # history[r][j] /\ history[r][i] \notin TerminalStates
    BY DEF EndsOnce
  <2>1. Rank(history[r][i]) < Rank(history[r][j])
    BY DEF PathInv, Climbs
  <2>2. Rank(history[r][i]) \in 1..14 /\ Rank(history[r][j]) \in 1..14
        /\ (history[r][i] \in TerminalStates => Rank(history[r][i]) = 14)
    BY RankBound
  <2> QED
    BY <2>1, <2>2
<1> QED
  BY <1>1, TypeCorrect, PathInvariant, PTL

-----------------------------------------------------------------------------
(* Request ids. *)
CONSTANTS Requests, RequestOf
VARIABLES status, owners, launched
Once == INSTANCE RequestOnce

(* A fresh id has no owner, and no two runs own the same one. *)
Owned ==
    /\ \A r \in owners : status[RequestOf[r]] # "fresh"
    /\ \A r, s \in owners : RequestOf[r] = RequestOf[s] => r = s

LEMMA OwnedInductive ==
    ASSUME RequestOf \in [Runs -> Requests]
    PROVE  Once!TypeOK /\ Owned /\ [Once!Next]_(Once!vars) => (Once!TypeOK /\ Owned)'
<1> SUFFICES ASSUME Once!TypeOK, Owned, [Once!Next]_(Once!vars) PROVE (Once!TypeOK /\ Owned)'
  OBVIOUS
<1>1. ASSUME NEW r \in Runs, Once!Claim(r) PROVE (Once!TypeOK /\ Owned)'
  <2>1. \A s \in owners : RequestOf[s] # RequestOf[r]
    BY <1>1 DEF Once!Claim, Owned
  <2>2. Once!TypeOK'
    BY <1>1 DEF Once!Claim, Once!TypeOK
  <2>3. Owned'
    BY <1>1, <2>1 DEF Once!Claim, Once!TypeOK, Owned
  <2> QED
    BY <2>2, <2>3
<1>2. ASSUME NEW r \in Runs, Once!ClaimUnseen(r) PROVE (Once!TypeOK /\ Owned)'
  BY <1>2 DEF Once!ClaimUnseen, Once!TypeOK, Owned
<1>3. ASSUME NEW r \in Runs, Once!Launch(r) PROVE (Once!TypeOK /\ Owned)'
  BY <1>3 DEF Once!Launch, Once!TypeOK, Owned
<1>4. ASSUME NEW r \in Runs, Once!Resolve(r) PROVE (Once!TypeOK /\ Owned)'
  BY <1>4 DEF Once!Resolve, Once!TypeOK, Owned
<1>5. CASE UNCHANGED Once!vars
  BY <1>5 DEF Once!vars, Once!TypeOK, Owned
<1> QED
  BY <1>1, <1>2, <1>3, <1>4, <1>5 DEF Once!Next

(* reserve_request "rejects replay" (noble/store.py): whatever implements  *)
(* this specification starts at most one worker for a request id.          *)
THEOREM OneLaunchHolds ==
    ASSUME RequestOf \in [Runs -> Requests]
    PROVE  Once!Spec => []Once!OneLaunch
<1>1. Once!Init => Once!TypeOK /\ Owned
  BY DEF Once!Init, Once!TypeOK, Owned
<1>2. Once!TypeOK /\ Owned => Once!OneLaunch
  BY DEF Once!TypeOK, Owned, Once!OneLaunch
<1> QED
  BY <1>1, <1>2, OwnedInductive, PTL DEF Once!Spec
=============================================================================
