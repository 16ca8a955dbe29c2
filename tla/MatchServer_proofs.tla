------------------------- MODULE MatchServer_proofs -------------------------
(***************************************************************************)
(* Proofs about MatchServer for every set of rooms, servers, nodes and     *)
(* results, every placement of servers and every number of claims, and     *)
(* about ServerAccess for every set of players and every roster.           *)
(***************************************************************************)
EXTENDS ServerAccess, FiniteSetTheorems, TLAPS

(* A rank is larger than any number that counts ranked rooms. *)
LEMMA RankType ==
    ASSUME NEW at
    PROVE  /\ Cardinality({r \in Rooms : at[r] # 0}) \in Nat
           /\ Rank(at) \in Nat
           /\ Rank(at) = 1 + Cardinality({r \in Rooms : at[r] # 0})
<1> DEFINE S == {r \in Rooms : at[r] # 0}
<1>1. IsFiniteSet(S)
    BY RoomsAssumption, FS_Subset
<1>2. Cardinality(S) \in Nat
    BY <1>1, FS_CardinalityType
<1>3. QED
    BY <1>2 DEF Rank

LEMMA VerdictType ==
    ASSUME NEW r, NEW outcome \in Outcomes
    PROVE  /\ Verdict(r, outcome) \in Reasons
           /\ outcome = "FAILED" <=> Verdict(r, outcome) = "prepare_match_failed"
BY DEF Verdict, Outcomes, Reasons

(* Whatever a finalization does, only a PROVISIONING room changes, and it is *)
(* decided.                                                                  *)
LEMMA FinalizeEffect ==
    ASSUME TypeOK, NEW r \in Rooms, NEW outcome \in Outcomes,
           FinalizePrepareMatchRoom(r, outcome)
    PROVE  /\ room' \in [Rooms -> Statuses] /\ reason' \in [Rooms -> Reasons]
           /\ \A q \in Rooms : q # r => room'[q] = room[q] /\ reason'[q] = reason[q]
           /\ room[r] # "PROVISIONING" => room'[r] = room[r] /\ reason'[r] = reason[r]
           /\ room[r] = "PROVISIONING" =>
                 /\ \/ room'[r] = "JOINABLE" /\ outcome = "SUCCEEDED" /\ reason'[r] = "NULL"
                    \/ room'[r] = "FAILED" /\ reason'[r] # "NULL"
                 /\ outcome = "FAILED" <=> reason'[r] = "prepare_match_failed"
<1>1. CASE room[r] # "PROVISIONING"
    BY <1>1 DEF FinalizePrepareMatchRoom, TypeOK, sagaVars
<1>2. CASE room[r] = "PROVISIONING"
    <2> DEFINE verdict == Verdict(r, outcome)
    <2>1. /\ verdict \in Reasons
          /\ outcome = "FAILED" <=> verdict = "prepare_match_failed"
        BY VerdictType
    <2>2. /\ room'   = [room EXCEPT ![r] = IF verdict = "NULL" THEN "JOINABLE" ELSE "FAILED"]
          /\ reason' = [reason EXCEPT ![r] = verdict]
        BY <1>2 DEF FinalizePrepareMatchRoom
    <2> HIDE DEF verdict
    <2>3. QED
        BY <1>2, <2>1, <2>2 DEF TypeOK, Statuses, Outcomes
<1>3. QED
    BY <1>1, <1>2

-----------------------------------------------------------------------------
LEMMA TypeInit == Init => TypeOK
BY AttemptsAssumption, RoomsAssumption
   DEF Init, TypeOK, Statuses, Reasons, Outcomes

LEMMA TypeStep ==
    ASSUME TypeOK, [Next]_vars
    PROVE  TypeOK'
<1>1. ASSUME NEW r \in Rooms, BecomeReady(r)
      PROVE  TypeOK'
    <2> DEFINE rank == Rank(readyAt)
    <2>1. rank \in Nat
        BY RankType
    <2>2. readyAt' = [readyAt EXCEPT ![r] = rank]
        BY <1>1 DEF BecomeReady
    <2> HIDE DEF rank
    <2>3. readyAt' \in [Rooms -> Nat]
        BY <2>1, <2>2 DEF TypeOK
    <2>4. QED
        BY <1>1, <2>3 DEF BecomeReady, TypeOK, Statuses, bindVars, commandVars, envVars
<1>2. ASSUME NEW r \in Rooms, NEW n \in Nodes, NEW s \in Servers, AssignNextReady(n, s, r)
      PROVE  TypeOK'
    <2> DEFINE rank == Rank(issuedAt)
    <2>1. rank \in Nat
        BY RankType
    <2>2. issuedAt' = [issuedAt EXCEPT ![r] = rank]
        BY <1>2 DEF AssignNextReady
    <2> HIDE DEF rank
    <2>3. issuedAt' \in [Rooms -> Nat]
        BY <2>1, <2>2 DEF TypeOK
    <2>4. QED
        BY <1>2, <2>3 DEF AssignNextReady, TypeOK, Statuses, envVars
<1>3. ASSUME NEW r \in Rooms, NEW n \in Nodes, ClaimNextCommand(n, r)
      PROVE  TypeOK'
    <2> DEFINE next == attempt[r] + 1
    <2>1. next \in 0..MaxAttempts
        BY <1>3, AttemptsAssumption DEF ClaimNextCommand, TypeOK
    <2>2. attempt' = [attempt EXCEPT ![r] = next]
        BY <1>3 DEF ClaimNextCommand
    <2> HIDE DEF next
    <2>3. attempt' \in [Rooms -> 0..MaxAttempts]
        BY <2>1, <2>2 DEF TypeOK
    <2>4. QED
        BY <1>3, <2>3 DEF ClaimNextCommand, TypeOK, sagaVars, bindVars, envVars
<1>4. ASSUME NEW r \in Rooms, ExpireLease(r)
      PROVE  TypeOK'
    BY <1>4 DEF ExpireLease, TypeOK, sagaVars, bindVars, envVars
<1>5. ASSUME NEW r \in Rooms, NEW token \in 1..attempt[r], NEW outcome \in Outcomes,
             NEW body \in Bodies, RecordResult(r, token, outcome, body)
      PROVE  TypeOK'
    <2>1. token \in 0..MaxAttempts
        BY AttemptsAssumption DEF TypeOK
    <2>2. room' \in [Rooms -> Statuses] /\ reason' \in [Rooms -> Reasons]
        BY <1>5, FinalizeEffect DEF RecordResult
    <2>3. answeredBy' \in [Rooms -> 0..MaxAttempts]
        BY <1>5, <2>1 DEF RecordResult, TypeOK
    <2>4. QED
        BY <1>5, <2>2, <2>3 DEF RecordResult, TypeOK, Outcomes, bindVars, envVars
<1>6. ASSUME NEW r \in Rooms, NEW token \in 1..attempt[r], NEW outcome \in Outcomes,
             NEW body \in Bodies, ReplayResult(r, token, outcome, body)
      PROVE  TypeOK'
    <2>1. room' \in [Rooms -> Statuses] /\ reason' \in [Rooms -> Reasons]
        BY <1>6, FinalizeEffect DEF ReplayResult, TypeOK, sagaVars
    <2>2. QED
        BY <1>6, <2>1 DEF ReplayResult, TypeOK, bindVars, commandVars, envVars
<1>7. ASSUME NEW r \in Rooms, NEW s \in Servers, SeriesEnd(s, r)
      PROVE  TypeOK'
    BY <1>7 DEF SeriesEnd, TypeOK, Statuses, sagaVars, commandVars, envVars
<1>8. ASSUME NEW r \in Rooms, ChangeRoster(r)
      PROVE  TypeOK'
    BY <1>8 DEF ChangeRoster, TypeOK, sagaVars, bindVars, commandVars
<1>9. ASSUME NEW s \in Servers, ChangeServer(s)
      PROVE  TypeOK'
    BY <1>9 DEF ChangeServer, TypeOK, sagaVars, bindVars, commandVars
<1>10. CASE UNCHANGED vars
    BY <1>10 DEF vars, TypeOK, sagaVars, bindVars, commandVars, envVars
<1>11. QED
    BY <1>1, <1>2, <1>3, <1>4, <1>5, <1>6, <1>7, <1>8, <1>9, <1>10 DEF Next, SubmitCommandResult

(* Every column keeps to its type, in every reachable state. *)
THEOREM TypeCorrect == Spec => []TypeOK
<1>1. TypeOK /\ [Next]_vars => TypeOK'
    BY TypeStep
<1>2. QED
    BY <1>1, TypeInit, PTL DEF Spec

-----------------------------------------------------------------------------
(***************************************************************************)
(* A step of the saga is about one room.  What it may do to that room's    *)
(* binding, command and status is stated once, as Effect, and each         *)
(* property then follows from Effect alone.                                *)
(***************************************************************************)
Untouched(q) ==
    /\ room'[q] = room[q] /\ reason'[q] = reason[q]
    /\ server'[q] = server[q]
    /\ command'[q] = command[q] /\ result'[q] = result[q]
    /\ attempt'[q] = attempt[q] /\ answeredBy'[q] = answeredBy[q]
    /\ q \in released' <=> q \in released
    /\ \A s \in Servers : <<s, q>> \in ended' <=> <<s, q>> \in ended

Effect(r) ==
    \/ Untouched(r)
    \/ /\ room[r] = "SETUP" /\ room'[r] = "READY"
       /\ reason'[r] = reason[r] /\ server'[r] = server[r] /\ command'[r] = command[r]
       /\ result'[r] = result[r] /\ attempt'[r] = attempt[r] /\ answeredBy'[r] = answeredBy[r]
       /\ UNCHANGED <<released, ended>>
    \/ /\ room[r] = "READY" /\ room'[r] = "PROVISIONING"
       /\ ~Bound(r) /\ server'[r] \in Servers /\ Free(server'[r])
       /\ command'[r] = "PENDING"
       /\ reason'[r] = reason[r] /\ attempt'[r] = attempt[r]
       /\ UNCHANGED <<released, ended>>
    \/ /\ command[r] \in {"PENDING", "CLAIMED"} /\ command'[r] = "CLAIMED"
       /\ room'[r] = room[r] /\ reason'[r] = reason[r] /\ server'[r] = server[r]
       /\ UNCHANGED <<released, ended>>
    \/ \E outcome \in Outcomes :
          /\ CanFinalize(r, outcome) /\ FinalizePrepareMatchRoom(r, outcome)
          /\ command'[r] = outcome
          /\ server'[r] = server[r] /\ attempt'[r] = attempt[r]
          /\ \/ command[r] = "CLAIMED" /\ answeredBy'[r] = attempt[r]
             \/ /\ command[r] = outcome
                /\ result'[r] = result[r] /\ answeredBy'[r] = answeredBy[r]
          /\ UNCHANGED <<released, ended>>
    \/ /\ room[r] \in {"JOINABLE", "COMPLETED"} /\ room'[r] = "COMPLETED"
       /\ Bound(r)
       /\ released' = IF room[r] = "JOINABLE" THEN released \cup {r} ELSE released
       /\ ended' = ended \cup {<<server[r], r>>}
       /\ reason'[r] = reason[r] /\ server'[r] = server[r] /\ command'[r] = command[r]
       /\ result'[r] = result[r] /\ attempt'[r] = attempt[r] /\ answeredBy'[r] = answeredBy[r]

StepEffect ==
    \/ \A q \in Rooms : Untouched(q)
    \/ \E r \in Rooms : Effect(r) /\ \A q \in Rooms : q # r => Untouched(q)

LEMMA StepHasEffect ==
    ASSUME TypeOK, [Next]_vars
    PROVE  StepEffect
<1>1. ASSUME NEW r \in Rooms, BecomeReady(r)
      PROVE  StepEffect
    <2>1. \A q \in Rooms : q # r => Untouched(q)
        BY <1>1 DEF BecomeReady, Untouched, TypeOK, bindVars, commandVars
    <2>2. Effect(r)
        BY <1>1 DEF BecomeReady, Effect, TypeOK, bindVars, commandVars
    <2>3. QED
        BY <2>1, <2>2 DEF StepEffect
<1>2. ASSUME NEW r \in Rooms, NEW n \in Nodes, NEW s \in Servers, AssignNextReady(n, s, r)
      PROVE  StepEffect
    <2>1. \A q \in Rooms : q # r => Untouched(q)
        BY <1>2 DEF AssignNextReady, Untouched, TypeOK
    <2>2. Effect(r)
        BY <1>2 DEF AssignNextReady, FirstReady, Effect, TypeOK
    <2>3. QED
        BY <2>1, <2>2 DEF StepEffect
<1>3. ASSUME NEW r \in Rooms, NEW n \in Nodes, ClaimNextCommand(n, r)
      PROVE  StepEffect
    <2>1. \A q \in Rooms : q # r => Untouched(q)
        BY <1>3 DEF ClaimNextCommand, Untouched, TypeOK, sagaVars, bindVars
    <2>2. Effect(r)
        BY <1>3 DEF ClaimNextCommand, Claimable, Effect, TypeOK, sagaVars, bindVars
    <2>3. QED
        BY <2>1, <2>2 DEF StepEffect
<1>4. ASSUME NEW r \in Rooms, ExpireLease(r)
      PROVE  StepEffect
    BY <1>4 DEF ExpireLease, Untouched, StepEffect, sagaVars, bindVars
<1>5. ASSUME NEW r \in Rooms, NEW token \in 1..attempt[r], NEW outcome \in Outcomes,
             NEW body \in Bodies, RecordResult(r, token, outcome, body)
      PROVE  StepEffect
    <2>1. \A q \in Rooms : q # r => room'[q] = room[q] /\ reason'[q] = reason[q]
        BY <1>5, FinalizeEffect DEF RecordResult
    <2>2. \A q \in Rooms : q # r => Untouched(q)
        BY <1>5, <2>1 DEF RecordResult, Untouched, TypeOK, bindVars
    <2>3. Effect(r)
        BY <1>5 DEF RecordResult, Effect, TypeOK, bindVars
    <2>4. QED
        BY <2>2, <2>3 DEF StepEffect
<1>6. ASSUME NEW r \in Rooms, NEW token \in 1..attempt[r], NEW outcome \in Outcomes,
             NEW body \in Bodies, ReplayResult(r, token, outcome, body)
      PROVE  StepEffect
    <2>1. CASE UNCHANGED sagaVars
        BY <1>6, <2>1 DEF ReplayResult, StepEffect, Untouched, bindVars, commandVars, sagaVars
    <2>2. CASE CanFinalize(r, outcome) /\ FinalizePrepareMatchRoom(r, outcome)
        <3>1. \A q \in Rooms : q # r => room'[q] = room[q] /\ reason'[q] = reason[q]
            BY <2>2, FinalizeEffect
        <3>2. \A q \in Rooms : q # r => Untouched(q)
            BY <1>6, <3>1 DEF ReplayResult, Untouched, bindVars, commandVars
        <3>3. Effect(r)
            BY <1>6, <2>2 DEF ReplayResult, ExactReplay, Effect, bindVars, commandVars
        <3>4. QED
            BY <3>2, <3>3 DEF StepEffect
    <2>3. QED
        BY <1>6, <2>1, <2>2 DEF ReplayResult
<1>7. ASSUME NEW r \in Rooms, NEW s \in Servers, SeriesEnd(s, r)
      PROVE  StepEffect
    <2>1. \A q \in Rooms : q # r => Untouched(q)
        <3>1. \A q \in Rooms : q # r => room'[q] = room[q] /\ (q \in released' <=> q \in released)
            BY <1>7 DEF SeriesEnd, TypeOK, sagaVars
        <3>2. \A q \in Rooms, t \in Servers : q # r => (<<t, q>> \in ended' <=> <<t, q>> \in ended)
            BY <1>7 DEF SeriesEnd
        <3>3. reason' = reason /\ UNCHANGED <<server, commandVars>>
            BY <1>7 DEF SeriesEnd, sagaVars
        <3>4. QED
            BY <3>1, <3>2, <3>3 DEF Untouched, commandVars
    <2>2. Bound(r) /\ s = server[r]
        BY <1>7, ServersAssumption DEF SeriesEnd, Bound
    <2>3. Effect(r)
        BY <1>7, <2>2 DEF SeriesEnd, Effect, TypeOK, commandVars, sagaVars
    <2>4. QED
        BY <2>1, <2>3 DEF StepEffect
<1>8. ASSUME NEW r \in Rooms, ChangeRoster(r)
      PROVE  StepEffect
    BY <1>8 DEF ChangeRoster, StepEffect, Untouched, sagaVars, bindVars, commandVars
<1>9. ASSUME NEW s \in Servers, ChangeServer(s)
      PROVE  StepEffect
    BY <1>9 DEF ChangeServer, StepEffect, Untouched, sagaVars, bindVars, commandVars
<1>10. CASE UNCHANGED vars
    BY <1>10 DEF vars, StepEffect, Untouched, sagaVars, bindVars, commandVars
<1>11. QED
    BY <1>1, <1>2, <1>3, <1>4, <1>5, <1>6, <1>7, <1>8, <1>9, <1>10 DEF Next, SubmitCommandResult

-----------------------------------------------------------------------------
(* Two matches never share a server, in every reachable state.               *)
LEMMA ExclusiveStep ==
    ASSUME TypeOK, ServerExclusive, StepEffect
    PROVE  ServerExclusive'
<1>1. CASE \A q \in Rooms : Untouched(q)
    BY <1>1 DEF ServerExclusive, Holds, Untouched
<1>2. ASSUME NEW r \in Rooms, Effect(r), \A q \in Rooms : q # r => Untouched(q)
      PROVE  ServerExclusive'
    <2>1. \A q \in Rooms, s \in Servers : q # r => (Holds(q, s)' <=> Holds(q, s))
        BY <1>2 DEF Holds, Untouched
    <2>2. CASE server'[r] = server[r]
        <3>1. r \in released => r \in released'
            BY <1>2 DEF Effect, Untouched
        <3>2. \A s \in Servers : Holds(r, s)' => Holds(r, s)
            BY <2>2, <3>1 DEF Holds
        <3>3. QED
            BY <2>1, <3>2 DEF ServerExclusive, Holds
    <2>3. CASE server'[r] # server[r]
        <3>1. server'[r] \in Servers /\ Free(server'[r])
            BY <1>2, <2>3 DEF Effect, Untouched
        <3>2. \A q \in Rooms, s \in Servers : q # r /\ s = server'[r] => ~Holds(q, s)'
            BY <2>1, <3>1 DEF Free, Holds
        <3>3. \A s \in Servers : Holds(r, s)' => s = server'[r]
            BY DEF Holds
        <3>4. QED
            BY <2>1, <3>2, <3>3 DEF ServerExclusive, Holds
    <2>4. QED
        BY <2>2, <2>3
<1>3. QED
    BY <1>1, <1>2 DEF StepEffect

THEOREM Exclusive == Spec => []ServerExclusive
<1>1. Init => ServerExclusive
    BY ServersAssumption DEF Init, ServerExclusive, Holds, Bound
<1>2. TypeOK /\ ServerExclusive /\ [Next]_vars => ServerExclusive'
    BY StepHasEffect, ExclusiveStep
<1>3. QED
    BY <1>1, <1>2, TypeCorrect, PTL DEF Spec

-----------------------------------------------------------------------------
(* SagaCoherent, of one room. *)
AgreesAt(r) ==
    /\ Bound(r) <=> room[r] \in {"PROVISIONING", "JOINABLE", "FAILED", "COMPLETED"}
    /\ r \in released <=> room[r] = "COMPLETED"
    /\ room[r] \in {"SETUP", "READY"} <=> command[r] = "NONE"
    /\ room[r] = "PROVISIONING" => r \in LegacyRooms \/ ~Terminal(r)
    /\ room[r] \in {"JOINABLE", "COMPLETED"} => command[r] = "SUCCEEDED" /\ reason[r] = "NULL"
    /\ room[r] = "FAILED" =>
          /\ Terminal(r) /\ reason[r] # "NULL"
          /\ command[r] = "FAILED" <=> reason[r] = "prepare_match_failed"

Agrees == \A r \in Rooms : AgreesAt(r)

LEMMA AgreesIs == Agrees <=> SagaCoherent
BY DEF Agrees, AgreesAt, SagaCoherent, AssignmentFollowsRoom, CommandFollowsRoom

LEMMA AgreesStep ==
    ASSUME TypeOK, Agrees, StepEffect
    PROVE  Agrees'
<1>1. ASSUME NEW q \in Rooms, Untouched(q)
      PROVE  AgreesAt(q)'
    BY <1>1 DEF Untouched, Agrees, AgreesAt, Bound, Terminal
<1>2. ASSUME NEW r \in Rooms, Effect(r)
      PROVE  AgreesAt(r)'
    <2>1. AgreesAt(r)
        BY DEF Agrees
    <2>2. ASSUME NEW outcome \in Outcomes,
                 CanFinalize(r, outcome), FinalizePrepareMatchRoom(r, outcome),
                 command'[r] = outcome, server'[r] = server[r], released' = released,
                 command[r] = "CLAIMED" \/ command[r] = outcome
          PROVE  AgreesAt(r)'
        <3>1. CASE room[r] = "PROVISIONING"
            <4>1. /\ \/ room'[r] = "JOINABLE" /\ outcome = "SUCCEEDED" /\ reason'[r] = "NULL"
                     \/ room'[r] = "FAILED" /\ reason'[r] # "NULL"
                  /\ outcome = "FAILED" <=> reason'[r] = "prepare_match_failed"
                BY <2>2, <3>1, FinalizeEffect
            <4>2. QED
                BY <2>1, <2>2, <3>1, <4>1 DEF AgreesAt, Bound, Terminal, Outcomes
        <3>2. CASE room[r] # "PROVISIONING"
            <4>1. room'[r] = room[r] /\ reason'[r] = reason[r]
                BY <2>2, <3>2, FinalizeEffect
            <4>2. command[r] = outcome
                BY <2>1, <2>2, <3>2 DEF AgreesAt, CanFinalize, Coherent, Terminal, Outcomes
            <4>3. QED
                BY <2>1, <2>2, <4>1, <4>2 DEF AgreesAt, Bound, Terminal
        <3>3. QED
            BY <3>1, <3>2
    <2>3. CASE Untouched(r)
        BY <1>1, <2>3
    <2>4. CASE room[r] = "SETUP" /\ room'[r] = "READY"
        BY <1>2, <2>1, <2>4 DEF Effect, AgreesAt, Bound, Terminal, Outcomes,
                                CanFinalize, Coherent, Untouched
    <2>5. CASE /\ room'[r] = "PROVISIONING" /\ server'[r] \in Servers
               /\ command'[r] = "PENDING" /\ released' = released /\ room[r] = "READY"
        BY <2>1, <2>5, ServersAssumption DEF AgreesAt, Bound, Terminal, Outcomes
    <2>6. CASE /\ command[r] \in {"PENDING", "CLAIMED"} /\ command'[r] = "CLAIMED"
               /\ room'[r] = room[r] /\ reason'[r] = reason[r] /\ server'[r] = server[r]
               /\ released' = released
        BY <2>1, <2>6 DEF AgreesAt, Bound, Terminal, Outcomes
    <2>7. CASE /\ room[r] \in {"JOINABLE", "COMPLETED"} /\ room'[r] = "COMPLETED"
               /\ released' = IF room[r] = "JOINABLE" THEN released \cup {r} ELSE released
               /\ reason'[r] = reason[r] /\ server'[r] = server[r] /\ command'[r] = command[r]
        BY <2>1, <2>7 DEF AgreesAt, Bound, Terminal
    <2>8. QED
        BY <1>2, <2>2, <2>3, <2>4, <2>5, <2>6, <2>7 DEF Effect
<1>3. QED
    BY <1>1, <1>2 DEF StepEffect, Agrees

(* The room, its assignment and its command agree, in every reachable state. *)
THEOREM SagaAgrees == Spec => []SagaCoherent
<1>1. Init => Agrees
    BY DEF Init, Agrees, AgreesAt, Bound, Terminal, Outcomes
<1>2. TypeOK /\ Agrees /\ [Next]_vars => Agrees'
    BY StepHasEffect, AgreesStep
<1>3. QED
    BY <1>1, <1>2, TypeCorrect, AgreesIs, PTL DEF Spec

-----------------------------------------------------------------------------
(* The recorded result came with the token of the last claim, in every       *)
(* reachable state.                                                          *)
LEMMA AnswerStep ==
    ASSUME LeaseHolderAnswers, StepEffect
    PROVE  LeaseHolderAnswers'
<1>1. ASSUME NEW q \in Rooms, Untouched(q), Terminal(q)'
      PROVE  (answeredBy[q] = attempt[q])'
    BY <1>1 DEF Untouched, LeaseHolderAnswers, Terminal
<1>2. ASSUME NEW r \in Rooms, Effect(r), Terminal(r)'
      PROVE  (answeredBy[r] = attempt[r])'
    BY <1>1, <1>2 DEF Effect, LeaseHolderAnswers, Terminal, Outcomes
<1>3. QED
    BY <1>1, <1>2 DEF StepEffect, LeaseHolderAnswers

THEOREM LastLeaseAnswers == Spec => []LeaseHolderAnswers
<1>1. Init => LeaseHolderAnswers
    BY DEF Init, LeaseHolderAnswers, Terminal, Outcomes
<1>2. TypeOK /\ LeaseHolderAnswers /\ [Next]_vars => LeaseHolderAnswers'
    BY StepHasEffect, AnswerStep
<1>3. QED
    BY <1>1, <1>2, TypeCorrect, PTL DEF Spec

(* A stored series_end has had its effect, in every reachable state.         *)
LEMMA StoredStep ==
    ASSUME TypeOK, StoredEndIsProjected, StepEffect
    PROVE  StoredEndIsProjected'
<1>1. ASSUME NEW q \in Rooms, NEW s \in Servers, Untouched(q), <<s, q>> \in ended'
      PROVE  (room[q] = "COMPLETED" /\ server[q] = s)'
    BY <1>1 DEF Untouched, StoredEndIsProjected
<1>2. ASSUME NEW r \in Rooms, NEW s \in Servers, Effect(r), <<s, r>> \in ended'
      PROVE  (room[r] = "COMPLETED" /\ server[r] = s)'
    <2>1. CASE ended' = ended \cup {<<server[r], r>>} /\ room'[r] = "COMPLETED" /\ server'[r] = server[r]
        BY <1>2, <2>1 DEF StoredEndIsProjected
    <2>2. CASE ended' = ended
        <3>1. room[r] = "COMPLETED" /\ server[r] = s
            BY <1>2, <2>2 DEF StoredEndIsProjected
        <3>2. \A outcome \in Outcomes : FinalizePrepareMatchRoom(r, outcome) => room'[r] = room[r]
            BY <3>1, FinalizeEffect
        <3>3. QED
            BY <1>2, <3>1, <3>2 DEF Effect, Untouched
    <2>3. CASE Untouched(r)
        BY <1>1, <1>2, <2>3
    <2>4. QED
        BY <1>2, <2>1, <2>2, <2>3 DEF Effect
<1>3. QED
    BY <1>1, <1>2 DEF StepEffect, StoredEndIsProjected

THEOREM StoredProjected == Spec => []StoredEndIsProjected
<1>1. Init => StoredEndIsProjected
    BY DEF Init, StoredEndIsProjected
<1>2. TypeOK /\ StoredEndIsProjected /\ [Next]_vars => StoredEndIsProjected'
    BY StepHasEffect, StoredStep
<1>3. QED
    BY <1>1, <1>2, TypeCorrect, PTL DEF Spec

-----------------------------------------------------------------------------
Stands(r) ==
    /\ Terminal(r) => /\ command'[r] = command[r]
                      /\ result'[r] = result[r]
                      /\ answeredBy'[r] = answeredBy[r]
    /\ room[r] = "JOINABLE" => room'[r] \in {"JOINABLE", "COMPLETED"}
    /\ room[r] \in {"FAILED", "COMPLETED"} => room'[r] = room[r] /\ reason'[r] = reason[r]

LEMMA StandsStep ==
    ASSUME TypeOK, Agrees, StepEffect
    PROVE  \A r \in Rooms : Stands(r)
<1>1. ASSUME NEW q \in Rooms, Untouched(q)
      PROVE  Stands(q)
    BY <1>1 DEF Untouched, Stands
<1>2. ASSUME NEW r \in Rooms, Effect(r)
      PROVE  Stands(r)
    <2>1. room[r] = "READY" => ~Terminal(r)
        BY DEF Agrees, AgreesAt, Terminal, Outcomes
    <2>2. \A outcome \in Outcomes :
              FinalizePrepareMatchRoom(r, outcome) /\ room[r] # "PROVISIONING" =>
                  room'[r] = room[r] /\ reason'[r] = reason[r]
        BY FinalizeEffect
    <2>3. QED
        BY <1>1, <1>2, <2>1, <2>2 DEF Effect, Stands, Terminal, Outcomes
<1>3. QED
    BY <1>1, <1>2 DEF StepEffect

(* A recorded result and a decision are never taken back, by any step.       *)
THEOREM Final == Spec => ResultStands
<1>1. Init => Agrees
    BY DEF Init, Agrees, AgreesAt, Bound, Terminal, Outcomes
<1>2. TypeOK /\ Agrees /\ [Next]_vars => Agrees' /\ [\A r \in Rooms : Stands(r)]_vars
    BY StepHasEffect, AgreesStep, StandsStep
<1>3. Spec => [][\A r \in Rooms : Stands(r)]_vars
    BY <1>1, <1>2, TypeCorrect, PTL DEF Spec
<1>4. QED
    BY <1>3 DEF ResultStands, Stands

-----------------------------------------------------------------------------
(***************************************************************************)
(* Fairness of the queue.  Ranks grow: no room has a rank above the number *)
(* of rooms ranked so far, so a room ranked now comes after all of them.   *)
(***************************************************************************)
Ranked(at) == {r \in Rooms : at[r] # 0}

RankBound(at) == \A r \in Rooms : at[r] <= Cardinality(Ranked(at))

Queue ==
    /\ RankBound(readyAt) /\ RankBound(issuedAt)
    /\ \A r \in Rooms :
          /\ room[r] = "SETUP" => readyAt[r] = 0
          /\ room[r] \in {"SETUP", "READY"} => issuedAt[r] = 0
          /\ room[r] \notin {"SETUP", "READY"} => issuedAt[r] # 0

QueueInv == Queue /\ FifoService

(* A rank given to an unranked room is above all others and keeps the bound. *)
LEMMA NewRank ==
    ASSUME NEW at \in [Rooms -> Nat], RankBound(at), NEW r \in Rooms, at[r] = 0,
           NEW new, new = [at EXCEPT ![r] = Rank(at)]
    PROVE  /\ RankBound(new)
           /\ new[r] # 0 /\ \A q \in Rooms : q # r => new[q] = at[q] /\ new[q] < new[r]
<1> DEFINE n == Cardinality(Ranked(at))
           rank == Rank(at)
<1>1. n \in Nat /\ rank = n + 1
    BY RankType DEF Ranked
<1>2. IsFiniteSet(Ranked(at))
    BY RoomsAssumption, FS_Subset DEF Ranked
<1>3. new[r] = rank /\ \A q \in Rooms : q # r => new[q] = at[q]
    OBVIOUS
<1> HIDE DEF rank
<1>4. Ranked(new) = Ranked(at) \cup {r}
    BY <1>1, <1>3 DEF Ranked
<1>5. r \notin Ranked(at)
    BY DEF Ranked
<1>6. Cardinality(Ranked(new)) = n + 1
    BY <1>2, <1>4, <1>5, FS_AddElement
<1>7. \A q \in Rooms : at[q] \in Nat /\ at[q] <= n
    BY DEF RankBound
<1> HIDE DEF n
<1>8. QED
    BY <1>1, <1>3, <1>6, <1>7 DEF RankBound

(* No room starts or ends waiting for a server. *)
SameWaiting ==
    \A q \in Rooms : \/ room'[q] = room[q]
                     \/ room[q] \notin {"SETUP", "READY"} /\ room'[q] \notin {"SETUP", "READY"}

(* Steps that rank no room and neither make one READY nor assign one. *)
LEMMA QueueFrame ==
    ASSUME QueueInv, readyAt' = readyAt, issuedAt' = issuedAt,
           SameWaiting
    PROVE  QueueInv'
<1>1. RankBound(readyAt') /\ RankBound(issuedAt')
    BY DEF QueueInv, Queue
<1>2. Queue'
    BY <1>1 DEF QueueInv, Queue, SameWaiting
<1>3. FifoService'
    BY DEF QueueInv, FifoService
<1>4. QED
    BY <1>2, <1>3 DEF QueueInv

LEMMA QueueStep ==
    ASSUME TypeOK, QueueInv, [Next]_vars
    PROVE  QueueInv'
<1>1. ASSUME NEW r \in Rooms, BecomeReady(r)
      PROVE  QueueInv'
    <2>1. /\ readyAt \in [Rooms -> Nat] /\ RankBound(readyAt) /\ readyAt[r] = 0
          /\ readyAt' = [readyAt EXCEPT ![r] = Rank(readyAt)]
          /\ issuedAt' = issuedAt /\ issuedAt[r] = 0
        BY <1>1 DEF BecomeReady, QueueInv, Queue, TypeOK, commandVars
    <2>2. /\ RankBound(readyAt') /\ readyAt'[r] # 0
          /\ \A q \in Rooms : q # r => readyAt'[q] = readyAt[q] /\ readyAt'[q] < readyAt'[r]
        BY <2>1, NewRank
    <2>3. room'[r] = "READY" /\ \A q \in Rooms : q # r => room'[q] = room[q]
        BY <1>1 DEF BecomeReady, TypeOK
    <2>4. Queue'
        BY <2>1, <2>2, <2>3 DEF QueueInv, Queue, RankBound, Ranked
    <2>5. readyAt'[r] \in Nat /\ \A q \in Rooms : readyAt[q] \in Nat
        <3>1. TypeOK'
            BY TypeStep
        <3>2. QED
            BY <3>1 DEF TypeOK
    <2>6. FifoService'
        <3>1. ASSUME NEW a \in Rooms \ LegacyRooms, NEW b \in Rooms \ LegacyRooms,
                     readyAt'[a] # 0, readyAt'[a] < readyAt'[b], issuedAt[b] # 0
              PROVE  issuedAt[a] # 0 /\ issuedAt[a] < issuedAt[b]
            <4>1. b # r
                BY <2>1, <3>1
            <4>2. a # r
                BY <2>2, <2>5, <3>1, <4>1
            <4>3. QED
                BY <2>2, <3>1, <4>1, <4>2 DEF QueueInv, FifoService
        <3>2. QED
            BY <2>1, <3>1 DEF FifoService
    <2>7. QED
        BY <2>4, <2>6 DEF QueueInv
<1>2. ASSUME NEW r \in Rooms, NEW n \in Nodes, NEW s \in Servers, AssignNextReady(n, s, r)
      PROVE  QueueInv'
    <2>1. /\ issuedAt \in [Rooms -> Nat] /\ RankBound(issuedAt) /\ issuedAt[r] = 0
          /\ issuedAt' = [issuedAt EXCEPT ![r] = Rank(issuedAt)]
          /\ readyAt' = readyAt
        BY <1>2 DEF AssignNextReady, FirstReady, QueueInv, Queue, TypeOK
    <2>2. /\ RankBound(issuedAt') /\ issuedAt'[r] # 0
          /\ \A q \in Rooms : q # r => issuedAt'[q] = issuedAt[q] /\ issuedAt'[q] < issuedAt'[r]
        BY <2>1, NewRank
    <2>3. /\ room[r] = "READY" /\ room'[r] = "PROVISIONING"
          /\ \A q \in Rooms : q # r => room'[q] = room[q]
        BY <1>2 DEF AssignNextReady, FirstReady, TypeOK
    <2>4. Queue'
        BY <2>1, <2>2, <2>3 DEF QueueInv, Queue, RankBound, Ranked
    <2>5. \A q \in Rooms : room[q] = "READY" => readyAt[r] <= readyAt[q]
        BY <1>2 DEF AssignNextReady, FirstReady
    <2>6. \A q \in Rooms : readyAt[q] \in Nat
        BY DEF TypeOK
    <2>7. ASSUME NEW a \in Rooms \ LegacyRooms, NEW b \in Rooms \ LegacyRooms,
                 readyAt[a] # 0, readyAt[a] < readyAt[b], issuedAt'[b] # 0
          PROVE  issuedAt'[a] # 0 /\ issuedAt'[a] < issuedAt'[b]
        <3>1. CASE b = r
            <4>1. room[a] \notin {"SETUP", "READY"}
                BY <2>5, <2>6, <2>7, <3>1 DEF QueueInv, Queue
            <4>2. issuedAt[a] # 0
                BY <4>1 DEF QueueInv, Queue
            <4>3. a # r
                BY <2>3, <4>1
            <4>4. QED
                BY <2>2, <3>1, <4>2, <4>3
        <3>2. CASE b # r
            <4>1. issuedAt[a] # 0 /\ issuedAt[a] < issuedAt[b]
                BY <2>2, <2>7, <3>2 DEF QueueInv, FifoService
            <4>2. a # r
                BY <2>1, <4>1
            <4>3. QED
                BY <2>2, <3>2, <4>1, <4>2
        <3>3. QED
            BY <3>1, <3>2
    <2>8. FifoService'
        BY <2>1, <2>7 DEF FifoService
    <2>9. QED
        BY <2>4, <2>8 DEF QueueInv
<1>3. ASSUME NEW r \in Rooms, NEW n \in Nodes, ClaimNextCommand(n, r)
      PROVE  QueueInv'
    BY QueueFrame, <1>3 DEF ClaimNextCommand, sagaVars, SameWaiting
<1>4. ASSUME NEW r \in Rooms, NEW token \in 1..attempt[r], NEW outcome \in Outcomes,
             NEW body \in Bodies, SubmitCommandResult(r, token, outcome, body)
      PROVE  QueueInv'
    <2>1. readyAt' = readyAt /\ issuedAt' = issuedAt
        BY <1>4 DEF SubmitCommandResult, RecordResult, ReplayResult, commandVars
    <2>2. UNCHANGED sagaVars \/ FinalizePrepareMatchRoom(r, outcome)
        BY <1>4 DEF SubmitCommandResult, RecordResult, ReplayResult
    <2>3. SameWaiting
        <3>1. CASE UNCHANGED sagaVars
            BY <3>1 DEF sagaVars, SameWaiting
        <3>2. CASE FinalizePrepareMatchRoom(r, outcome)
            BY <3>2, FinalizeEffect DEF SameWaiting
        <3>3. QED
            BY <2>2, <3>1, <3>2
    <2>4. QED
        BY QueueFrame, <2>1, <2>3
<1>5. ASSUME NEW r \in Rooms, NEW s \in Servers, SeriesEnd(s, r)
      PROVE  QueueInv'
    <2>1. SameWaiting
        BY <1>5 DEF SeriesEnd, TypeOK, sagaVars, SameWaiting
    <2>2. QED
        BY QueueFrame, <1>5, <2>1 DEF SeriesEnd, commandVars
<1>6. ASSUME NEW r \in Rooms, ExpireLease(r) \/ ChangeRoster(r)
      PROVE  QueueInv'
    BY QueueFrame, <1>6 DEF ExpireLease, ChangeRoster, sagaVars, commandVars, SameWaiting
<1>7. ASSUME NEW s \in Servers, ChangeServer(s)
      PROVE  QueueInv'
    BY QueueFrame, <1>7 DEF ChangeServer, sagaVars, commandVars, SameWaiting
<1>8. CASE UNCHANGED vars
    BY QueueFrame, <1>8 DEF vars, sagaVars, commandVars, SameWaiting
<1>9. QED
    BY <1>1, <1>2, <1>3, <1>4, <1>5, <1>6, <1>7, <1>8 DEF Next

LEMMA QueueInit == Init => QueueInv
<1> SUFFICES ASSUME Init
             PROVE  QueueInv
    OBVIOUS
<1>1. ASSUME NEW at, at = [r \in Rooms |-> IF r \in LegacyRooms THEN 1 ELSE 0]
      PROVE  RankBound(at)
    <2>1. Ranked(at) = LegacyRooms /\ IsFiniteSet(LegacyRooms)
        BY <1>1, RoomsAssumption, FS_Subset DEF Ranked
    <2>2. Cardinality(LegacyRooms) \in Nat
        BY <2>1, FS_CardinalityType
    <2>3. LegacyRooms # {} => Cardinality(LegacyRooms) >= 1
        BY <2>1, <2>2, FS_EmptySet
    <2>4. QED
        BY <1>1, <2>1, <2>2, <2>3 DEF RankBound
<1>2. RankBound(readyAt) /\ RankBound(issuedAt)
    BY <1>1 DEF Init
<1>3. QED
    BY <1>2 DEF Init, QueueInv, Queue, FifoService

(* Rooms get their servers in the order in which they became READY.          *)
THEOREM Fifo == Spec => []FifoService
<1>1. TypeOK /\ QueueInv /\ [Next]_vars => QueueInv'
    BY QueueStep
<1>2. QueueInv => FifoService
    BY DEF QueueInv
<1>3. QED
    BY <1>1, <1>2, QueueInit, TypeCorrect, PTL DEF Spec

-----------------------------------------------------------------------------
(* Who may enter.  The checks, one after the other, as a case distinction. *)
LEMMA FirstOf ==
    ASSUME NEW n \in Nat, NEW checks, DOMAIN checks = 1..n, NEW otherwise
    PROVE  /\ \A k \in 1..n : ~checks[k][1] /\ (\A j \in 1..n : j < k => checks[j][1]) =>
                  FirstRefusal(checks, otherwise) = checks[k][2]
           /\ (\A k \in 1..n : checks[k][1]) => FirstRefusal(checks, otherwise) = otherwise
<1> DEFINE failing == {k \in DOMAIN checks : ~checks[k][1]}
<1>1. ASSUME NEW k \in 1..n, ~checks[k][1], \A j \in 1..n : j < k => checks[j][1]
      PROVE  FirstRefusal(checks, otherwise) = checks[k][2]
    <2>1. k \in failing /\ \A j \in failing : k <= j /\ j \in Nat
        BY <1>1
    <2> HIDE DEF failing
    <2>2. (CHOOSE h \in failing : \A j \in failing : h <= j) = k
        <3> DEFINE h0 == CHOOSE h \in failing : \A j \in failing : h <= j
        <3>1. h0 \in failing /\ \A j \in failing : h0 <= j
            BY <2>1
        <3>2. h0 <= k /\ k <= h0 /\ h0 \in Nat /\ k \in Nat
            BY <2>1, <3>1 DEF MembershipStatuses
        <3>3. QED
            BY <3>2 DEF MembershipStatuses
    <2>3. failing # {}
        BY <2>1
    <2>4. QED
        BY <2>2, <2>3 DEF FirstRefusal, failing
<1>2. ASSUME \A k \in 1..n : checks[k][1]
      PROVE  FirstRefusal(checks, otherwise) = otherwise
    BY <1>2 DEF FirstRefusal
<1>3. QED
    BY <1>1, <1>2

LEMMA FirstOf3 ==
    ASSUME NEW a \in BOOLEAN, NEW b \in BOOLEAN, NEW c \in BOOLEAN, NEW x, NEW y, NEW z, NEW otherwise
    PROVE  FirstRefusal(<< <<a, x>>, <<b, y>>, <<c, z>> >>, otherwise) =
           IF ~a THEN x ELSE IF ~b THEN y ELSE IF ~c THEN z ELSE otherwise
<1> DEFINE checks == << <<a, x>>, <<b, y>>, <<c, z>> >>
<1>1. DOMAIN checks = 1..3
    OBVIOUS
<1>2. checks[1] = <<a, x>> /\ checks[2] = <<b, y>> /\ checks[3] = <<c, z>>
    OBVIOUS
<1> HIDE DEF checks
<1>3. /\ \A k \in 1..3 : ~checks[k][1] /\ (\A j \in 1..3 : j < k => checks[j][1]) =>
                  FirstRefusal(checks, otherwise) = checks[k][2]
      /\ (\A k \in 1..3 : checks[k][1]) => FirstRefusal(checks, otherwise) = otherwise
    BY <1>1, FirstOf
<1>4. FirstRefusal(checks, otherwise) = IF ~a THEN x ELSE IF ~b THEN y ELSE IF ~c THEN z ELSE otherwise
    BY <1>2, <1>3
<1>5. QED
    BY <1>4 DEF checks

LEMMA FirstOf4 ==
    ASSUME NEW a \in BOOLEAN, NEW b \in BOOLEAN, NEW c \in BOOLEAN, NEW d \in BOOLEAN, NEW u, NEW v, NEW x, NEW y, NEW otherwise
    PROVE  FirstRefusal(<< <<a, u>>, <<b, v>>, <<c, x>>, <<d, y>> >>, otherwise) =
           IF ~a THEN u ELSE IF ~b THEN v ELSE IF ~c THEN x ELSE IF ~d THEN y ELSE otherwise
<1> DEFINE checks == << <<a, u>>, <<b, v>>, <<c, x>>, <<d, y>> >>
<1>1. DOMAIN checks = 1..4
    OBVIOUS
<1>2. checks[1] = <<a, u>> /\ checks[2] = <<b, v>> /\ checks[3] = <<c, x>> /\ checks[4] = <<d, y>>
    OBVIOUS
<1> HIDE DEF checks
<1>3. /\ \A k \in 1..4 : ~checks[k][1] /\ (\A j \in 1..4 : j < k => checks[j][1]) =>
                  FirstRefusal(checks, otherwise) = checks[k][2]
      /\ (\A k \in 1..4 : checks[k][1]) => FirstRefusal(checks, otherwise) = otherwise
    BY <1>1, FirstOf
<1>4. FirstRefusal(checks, otherwise) =
      IF ~a THEN u ELSE IF ~b THEN v ELSE IF ~c THEN x ELSE IF ~d THEN y ELSE otherwise
    BY <1>2, <1>3
<1>5. QED
    BY <1>4 DEF checks

LEMMA FirstOf5 ==
    ASSUME NEW a \in BOOLEAN, NEW b \in BOOLEAN, NEW c \in BOOLEAN, NEW d \in BOOLEAN, NEW e \in BOOLEAN, NEW u, NEW v, NEW x, NEW y, NEW z, NEW otherwise
    PROVE  FirstRefusal(<< <<a, u>>, <<b, v>>, <<c, x>>, <<d, y>>, <<e, z>> >>, otherwise) =
           IF ~a THEN u ELSE IF ~b THEN v ELSE IF ~c THEN x ELSE IF ~d THEN y ELSE IF ~e THEN z ELSE otherwise
<1> DEFINE checks == << <<a, u>>, <<b, v>>, <<c, x>>, <<d, y>>, <<e, z>> >>
<1>1. DOMAIN checks = 1..5
    OBVIOUS
<1>2. checks[1] = <<a, u>> /\ checks[2] = <<b, v>> /\ checks[3] = <<c, x>> /\ checks[4] = <<d, y>> /\ checks[5] = <<e, z>>
    OBVIOUS
<1> HIDE DEF checks
<1>3. /\ \A k \in 1..5 : ~checks[k][1] /\ (\A j \in 1..5 : j < k => checks[j][1]) =>
                  FirstRefusal(checks, otherwise) = checks[k][2]
      /\ (\A k \in 1..5 : checks[k][1]) => FirstRefusal(checks, otherwise) = otherwise
    BY <1>1, FirstOf
<1>4. FirstRefusal(checks, otherwise) =
      IF ~a THEN u ELSE IF ~b THEN v ELSE IF ~c THEN x ELSE IF ~d THEN y ELSE IF ~e THEN z ELSE otherwise
    BY <1>2, <1>3
<1>5. QED
    BY <1>4 DEF checks

(* What the query can find, and what each check makes of it.                 *)
LEMMA IdentityType ==
    ASSUME NEW i \in Identities
    PROVE  /\ i.linked \in BOOLEAN /\ i.account \in {"active", "disabled"}
           /\ i.membership \in MembershipStatuses \cup {"NULL"} /\ i.expires \in {"NULL", "AHEAD", "PASSED"}
           /\ i.membership = "NULL" => i.linked /\ i.account = "active"
           /\ i.membership # "NULL" => EffectiveStatus(i) \in MembershipStatuses
<1>1. /\ i.linked \in BOOLEAN /\ i.account \in {"active", "disabled"}
      /\ i.membership \in MembershipStatuses \cup {"NULL"} /\ i.expires \in {"NULL", "AHEAD", "PASSED"}
      /\ i.membership = "NULL" => i.linked /\ i.account = "active"
    <2>1. ASSUME NEW linked \in BOOLEAN, NEW account \in {"active", "disabled"},
                 NEW membership \in MembershipStatuses \cup {"NULL"}, NEW expires \in {"NULL", "AHEAD", "PASSED"},
                 i = Standing(linked, account, membership, expires)
          PROVE  i.linked = linked /\ i.account = account /\ i.membership = membership /\ i.expires = expires
        BY <2>1 DEF Standing
    <2>2. CASE i \in {Standing(linked, account, "active", "AHEAD") :
                         linked \in BOOLEAN, account \in {"active", "disabled"}}
        <3>1. PICK linked \in BOOLEAN, account \in {"active", "disabled"} :
                  i = Standing(linked, account, "active", "AHEAD")
            BY <2>2
        <3>2. i.linked = linked /\ i.account = account /\ i.membership = "active" /\ i.expires = "AHEAD"
            BY <2>1, <3>1 DEF MembershipStatuses
        <3>3. QED
            BY <3>2 DEF MembershipStatuses
    <2>3. CASE i = Standing(TRUE, "active", "NULL", "NULL")
        BY <2>1, <2>3
    <2>4. CASE i \in {Standing(TRUE, "active", membership, expires) :
                         membership \in MembershipStatuses, expires \in {"NULL", "AHEAD", "PASSED"}}
        <3>1. PICK membership \in MembershipStatuses, expires \in {"NULL", "AHEAD", "PASSED"} :
                  i = Standing(TRUE, "active", membership, expires)
            BY <2>4 DEF Standing
        <3>2. i.linked = TRUE /\ i.account = "active" /\ i.membership = membership /\ i.expires = expires
            BY <2>1, <3>1
        <3>3. QED
            BY <3>2
    <2>5. QED
        BY <2>2, <2>3, <2>4 DEF Identities, Standing
<1>2. QED
    BY <1>1 DEF EffectiveStatus, MembershipStatuses

LEMMA DecisionOf ==
    /\ MembershipDecision("inactive")  = "membership_inactive"
    /\ MembershipDecision("active")    = "membership_active"
    /\ MembershipDecision("suspended") = "membership_suspended"
    /\ MembershipDecision("expired")   = "membership_expired"
    /\ MembershipDecision("cancelled") = "membership_cancelled"
BY DEF MembershipDecision

LEMMA GeneralIs ==
    ASSUME NEW i \in Identities
    PROVE  GeneralDecision[i] =
           IF ~i.linked THEN "steam_identity_not_linked"
           ELSE IF i.account # "active" THEN "player_account_disabled"
           ELSE IF i.membership = "NULL" THEN "membership_required"
           ELSE MembershipDecision(EffectiveStatus(i))
<1> DEFINE a == i.linked
           b == i.account = "active"
           c == i.membership # "NULL"
           last == MembershipDecision(EffectiveStatus(i))
<1>1. GeneralDecision[i] =
      FirstRefusal(<< <<a, "steam_identity_not_linked">>, <<b, "player_account_disabled">>,
                      <<c, "membership_required">> >>, last)
    BY DEF GeneralDecision
<1>2. a \in BOOLEAN /\ b \in BOOLEAN /\ c \in BOOLEAN
    BY IdentityType
<1> HIDE DEF a, b, c, last
<1>3. GeneralDecision[i] = IF ~a THEN "steam_identity_not_linked" ELSE IF ~b THEN "player_account_disabled"
                           ELSE IF ~c THEN "membership_required" ELSE last
    BY <1>1, <1>2, FirstOf3
<1>4. QED
    BY <1>3 DEF a, b, c, last

LEMMA SeatIs ==
    ASSUME NEW i \in Identities
    PROVE  SeatRefusal(i) = "NONE" <=> /\ i.linked /\ i.account = "active" /\ i.membership # "NULL"
                                      /\ EffectiveStatus(i) = "active"
<1> DEFINE a == i.account = "active"
           b == i.linked
           c == i.membership # "NULL"
           d == EffectiveStatus(i) = "active"
           other == MembershipDecision(EffectiveStatus(i))
<1>1. SeatRefusal(i) =
      FirstRefusal(<< <<a, "player_account_disabled">>, <<b, "steam_identity_not_linked">>,
                      <<c, "membership_required">>, <<d, other>> >>, "NONE")
    BY DEF SeatRefusal
<1>2. a \in BOOLEAN /\ b \in BOOLEAN /\ c \in BOOLEAN /\ d \in BOOLEAN
    BY IdentityType
<1>3. c => other # "NONE"
    BY IdentityType, DecisionOf DEF MembershipStatuses
<1> HIDE DEF a, b, c, d, other
<1>4. SeatRefusal(i) = IF ~a THEN "player_account_disabled" ELSE IF ~b THEN "steam_identity_not_linked"
                       ELSE IF ~c THEN "membership_required" ELSE IF ~d THEN other ELSE "NONE"
    BY <1>1, <1>2, FirstOf4
<1>5. QED
    BY <1>3, <1>4 DEF a, b, c, d

LEMMA MembershipIs ==
    ASSUME NEW i \in Identities
    PROVE  MembershipRefusal(i) =
           IF i.membership = "NULL" THEN "membership_required"
           ELSE IF EffectiveStatus(i) = "active" THEN "NONE" ELSE MembershipDecision(EffectiveStatus(i))
<1> DEFINE a == i.membership # "NULL"
           b == EffectiveStatus(i) # "inactive"
           c == EffectiveStatus(i) # "suspended"
           d == EffectiveStatus(i) # "expired"
           e == EffectiveStatus(i) # "cancelled"
<1>1. MembershipRefusal(i) =
      FirstRefusal(<< <<a, "membership_required">>, <<b, "membership_inactive">>, <<c, "membership_suspended">>,
                      <<d, "membership_expired">>, <<e, "membership_cancelled">> >>, "NONE")
    BY DEF MembershipRefusal
<1>2. a \in BOOLEAN /\ b \in BOOLEAN /\ c \in BOOLEAN /\ d \in BOOLEAN /\ e \in BOOLEAN
    OBVIOUS
<1> HIDE DEF a, b, c, d, e
<1>3. MembershipRefusal(i) =
      IF ~a THEN "membership_required" ELSE IF ~b THEN "membership_inactive" ELSE IF ~c THEN "membership_suspended"
      ELSE IF ~d THEN "membership_expired" ELSE IF ~e THEN "membership_cancelled" ELSE "NONE"
    BY <1>1, <1>2, FirstOf5
<1>4. QED
    BY <1>3, IdentityType, DecisionOf DEF a, b, c, d, e, MembershipStatuses

(* The contextual check refuses exactly whom the general one refuses, and    *)
(* for the same reason.                                                      *)
LEMMA IdentityIs ==
    ASSUME NEW i \in Identities
    PROVE  IdentityRefusal[i] = IF GeneralDecision[i] = "membership_active" THEN "NONE" ELSE GeneralDecision[i]
<1> DEFINE a == i.linked
           b == i.account = "active"
           c == MembershipRefusal(i) = "NONE"
           other == MembershipRefusal(i)
<1>1. IdentityRefusal[i] =
      FirstRefusal(<< <<a, "steam_identity_not_linked">>, <<b, "player_account_disabled">>, <<c, other>> >>, "NONE")
    BY DEF IdentityRefusal
<1>2. a \in BOOLEAN /\ b \in BOOLEAN /\ c \in BOOLEAN
    BY IdentityType
<1> HIDE DEF a, b, c, other
<1>3. IdentityRefusal[i] = IF ~a THEN "steam_identity_not_linked" ELSE IF ~b THEN "player_account_disabled"
                           ELSE IF ~c THEN other ELSE "NONE"
    BY <1>1, <1>2, FirstOf3
<1>4. CASE i.membership = "NULL"
    BY <1>3, <1>4, MembershipIs, GeneralIs DEF a, b, c, other
<1>5. CASE i.membership # "NULL"
    <2>1. EffectiveStatus(i) \in MembershipStatuses
        BY <1>5, IdentityType
    <2>2. /\ MembershipDecision(EffectiveStatus(i)) = "membership_active" <=> EffectiveStatus(i) = "active"
          /\ MembershipDecision(EffectiveStatus(i)) # "NONE"
        BY <2>1, DecisionOf DEF MembershipStatuses
    <2>3. QED
        BY <1>3, <1>5, <2>2, MembershipIs, GeneralIs DEF a, b, c, other
<1>6. QED
    BY <1>4, <1>5

(* Refused by identity: nobody gets to the match.  Otherwise it decides.     *)
LEMMA ContextIs ==
    ASSUME NEW i \in Identities, NEW p, NEW s
    PROVE  ContextualDecisions(i, p, s) =
           IF GeneralDecision[i] = "membership_active" THEN MatchDecisions(p, s) ELSE {GeneralDecision[i]}
<1>1. GeneralDecision[i] # "NONE"
    BY GeneralIs, IdentityType, DecisionOf DEF MembershipStatuses
<1>2. QED
    BY <1>1, IdentityIs DEF ContextualDecisions

LEMMA GeneralFacts ==
    ASSUME NEW i \in Identities
    PROVE  /\ GeneralDecision[i] = "membership_active" <=> SeatRefusal(i) = "NONE"
           /\ GeneralDecision[i] # "match_joinable"
           /\ i.linked /\ i.account = "active" =>
                 /\ GeneralDecision[i] = "membership_active" <=> Entitled(i)
                 /\ MembershipShown(i) # "NULL" => GeneralDecision[i] = MembershipDecision(MembershipShown(i))
<1>1. CASE i.membership = "NULL"
    BY <1>1, GeneralIs, SeatIs DEF Entitled, MembershipForEntitlements, MembershipShown
<1>2. CASE i.membership # "NULL"
    <2>1. EffectiveStatus(i) \in MembershipStatuses
        BY <1>2, IdentityType
    <2>2. /\ MembershipDecision(EffectiveStatus(i)) = "membership_active" <=> EffectiveStatus(i) = "active"
          /\ MembershipDecision(EffectiveStatus(i)) # "match_joinable"
        BY <2>1, DecisionOf DEF MembershipStatuses
    <2>3. QED
        BY <1>2, <2>2, GeneralIs, SeatIs DEF Entitled, MembershipForEntitlements, MembershipShown
<1>3. QED
    BY <1>1, <1>2

LEMMA UnremarkableIs == Unremarkable \in Identities /\ GeneralDecision[Unremarkable] = "membership_active"
<1>1. Unremarkable \in Identities
    BY DEF Unremarkable, Identities, Standing, MembershipStatuses
<1>2. Unremarkable.linked /\ Unremarkable.account = "active" /\ Unremarkable.membership = "active"
      /\ Unremarkable.expires = "AHEAD"
    BY DEF Unremarkable, Standing
<1>3. EffectiveStatus(Unremarkable) = "active"
    BY <1>2 DEF EffectiveStatus
<1>4. QED
    BY <1>1, <1>2, <1>3, GeneralIs, DecisionOf

LEMMA AccessChecks == AccessChecksAgree
<1>1. ASSUME NEW i \in Identities, NEW p \in Players, NEW s \in Servers
      PROVE  IF GeneralDecision[i] = "membership_active"
             THEN Admits(i, p, s) <=> Admits(Unremarkable, p, s)
             ELSE ContextualDecisions(i, p, s) = {GeneralDecision[i]}
    BY ContextIs, UnremarkableIs DEF Admits
<1>2. QED
    BY <1>1, GeneralFacts DEF AccessChecksAgree

(* Admission restricts the saga and adds no step: what holds of the saga     *)
(* holds of it.                                                              *)
LEMMA AccessIsSaga == AccessSpec => Spec
<1>1. [AccessNext]_vars => [Next]_vars
    BY DEF AccessNext
<1>2. QED
    BY <1>1, PTL DEF AccessSpec, Spec

(* The five places of the code that look at an identity agree with each      *)
(* other, at every server and every moment of every match.                   *)
THEOREM ChecksAgree == AccessSpec => []AccessChecksAgree
BY AccessChecks, PTL

-----------------------------------------------------------------------------
(* Two matches that are being played have no player in common: what          *)
(* AccessNext keeps of MatchRoom!OneActiveRoom.                              *)
RostersApart ==
    \A r, q \in Rooms : r # q /\ Playing(r) /\ Playing(q) => Roster[r] \cap Roster[q] = {}

LEMMA PlayingStep ==
    ASSUME TypeOK, NEW r \in Rooms, Effect(r), ~Playing(r)
    PROVE  Playing(r)' => room'[r] = "READY"
<1> USE DEF Playing
<1>1. ASSUME NEW outcome \in Outcomes, FinalizePrepareMatchRoom(r, outcome)
      PROVE  room'[r] = room[r]
    BY <1>1, FinalizeEffect
<1>2. QED
    BY <1>1 DEF Effect, Untouched

LEMMA ApartStep ==
    ASSUME TypeOK, RostersApart, [AccessNext]_vars
    PROVE  RostersApart'
<1>1. CASE UNCHANGED vars
    BY <1>1 DEF vars, sagaVars, RostersApart, Playing
<1>2. CASE AccessNext
    <2>1. StepEffect
        BY <1>2, StepHasEffect DEF AccessNext
    <2>2. CASE \A q \in Rooms : Untouched(q)
        BY <2>2 DEF Untouched, RostersApart, Playing
    <2>3. ASSUME NEW r \in Rooms, Effect(r), \A q \in Rooms : q # r => Untouched(q)
          PROVE  RostersApart'
        <3>1. \A q \in Rooms : q # r => (Playing(q)' <=> Playing(q))
            BY <2>3 DEF Untouched, Playing
        <3>2. ASSUME NEW q \in Rooms, q # r, Playing(q), Playing(r)'
              PROVE  Roster[q] \cap Roster[r] = {}
            <4>1. CASE Playing(r)
                BY <3>2, <4>1 DEF RostersApart
            <4>2. CASE ~Playing(r)
                BY <1>2, <2>3, <3>2, <4>2, PlayingStep DEF AccessNext
            <4>3. QED
                BY <4>1, <4>2
        <3>3. QED
            BY <3>1, <3>2 DEF RostersApart
    <2>4. QED
        BY <2>1, <2>2, <2>3 DEF StepEffect
<1>3. QED
    BY <1>1, <1>2

LEMMA ApartInit == Init => RostersApart
BY RosterAssumption DEF Init, RostersApart, Playing

(* The match lets in the players of its roster, at its server, while its     *)
(* room is JOINABLE.                                                         *)
LEMMA MatchIs ==
    ASSUME NEW p, NEW s
    PROVE  /\ "match_joinable" \in MatchDecisions(p, s) <=>
                  /\ s \in Servers /\ s \in enabled
                  /\ \E r \in AssignedTo(s) : p \in Roster[r] /\ room[r] = "JOINABLE"
           /\ (\A r \in AssignedTo(s) : room[r] \in {"PROVISIONING", "JOINABLE", "FAILED"}) =>
                  "ERROR" \notin MatchDecisions(p, s)
<1> DEFINE a == s \in Servers
           b == s \in enabled
           c == AssignedTo(s) # {}
           refusal == FirstRefusal(<< <<a, "server_not_registered">>, <<b, "server_disabled">>,
                                      <<c, "server_unassigned">> >>, "NONE")
           answer(r) == IF p \in Roster[r] THEN RoomDecision(r) ELSE "not_match_roster"
<1>1. a \in BOOLEAN /\ b \in BOOLEAN /\ c \in BOOLEAN
    OBVIOUS
<1>2. MatchDecisions(p, s) = IF refusal # "NONE" THEN {refusal} ELSE {answer(r) : r \in AssignedTo(s)}
    BY DEF MatchDecisions
<1> HIDE DEF a, b, c
<1>3. refusal = IF ~a THEN "server_not_registered" ELSE IF ~b THEN "server_disabled"
                ELSE IF ~c THEN "server_unassigned" ELSE "NONE"
    BY <1>1, FirstOf3
<1> HIDE DEF refusal
<1>4. \A r : /\ RoomDecision(r) = "match_joinable" <=> room[r] = "JOINABLE"
             /\ room[r] \in {"PROVISIONING", "JOINABLE", "FAILED"} => RoomDecision(r) # "ERROR"
    BY DEF RoomDecision
<1>5. \A r : /\ answer(r) = "match_joinable" <=> p \in Roster[r] /\ room[r] = "JOINABLE"
             /\ room[r] \in {"PROVISIONING", "JOINABLE", "FAILED"} => answer(r) # "ERROR"
    BY <1>4
<1> HIDE DEF answer
<1>6. CASE ~(a /\ b /\ c)
    <2>1. refusal \notin {"NONE", "match_joinable", "ERROR"}
        BY <1>3, <1>6
    <2>2. QED
        BY <1>2, <1>6, <2>1 DEF a, b, c
<1>7. CASE a /\ b /\ c
    <2>1. MatchDecisions(p, s) = {answer(r) : r \in AssignedTo(s)}
        BY <1>2, <1>3, <1>7
    <2>2. QED
        BY <1>5, <1>7, <2>1 DEF a, b, c
<1>8. QED
    BY <1>6, <1>7

LEMMA OneWayInHolds ==
    ASSUME TypeOK, RostersApart, SagaCoherent, StoredEndIsProjected
    PROVE  OneWayIn
<1>1. ASSUME NEW i \in Identities, NEW p, NEW s
      PROVE  Admits(i, p, s) <=> /\ SeatRefusal(i) = "NONE"
                                 /\ s \in Servers /\ s \in enabled
                                 /\ \E r \in AssignedTo(s) : p \in Roster[r] /\ room[r] = "JOINABLE"
    BY ContextIs, GeneralFacts, MatchIs DEF Admits
<1>2. SeatRefusal(Unremarkable) = "NONE"
    BY UnremarkableIs, GeneralFacts
<1>3. ASSUME NEW p \in Players, NEW s \in Servers, NEW t \in Servers,
             Admits(Unremarkable, p, s), Admits(Unremarkable, p, t)
      PROVE  s = t
    <2>1. PICK r \in AssignedTo(s) : p \in Roster[r] /\ room[r] = "JOINABLE"
        BY <1>1, <1>3, UnremarkableIs
    <2>2. PICK q \in AssignedTo(t) : p \in Roster[q] /\ room[q] = "JOINABLE"
        BY <1>1, <1>3, UnremarkableIs
    <2>3. r = q
        BY <2>1, <2>2 DEF RostersApart, Playing, AssignedTo
    <2>4. QED
        BY <2>1, <2>2, <2>3 DEF AssignedTo, Holds
<1>4. ASSUME NEW p \in Players, NEW i \in Identities, NEW s \in Servers
      PROVE  (\E r \in Rooms : s \in ViewerJoin(i, p, r)) <=> Admits(i, p, s) /\ s \in launchable
    <2>1. ASSUME NEW r \in Rooms
          PROVE  s \in ViewerJoin(i, p, r) <=>
                     /\ s \in enabled /\ s \in launchable /\ room[r] = "JOINABLE" /\ p \in Roster[r] /\ SeatRefusal(i) = "NONE"
                     /\ r \in AssignedTo(s)
        BY DEF ViewerJoin, AssignedTo, Holds
    <2>2. \A r \in AssignedTo(s) : r \in Rooms
        BY DEF AssignedTo
    <2>3. QED
        BY <1>1, <2>1, <2>2
<1>5. ASSUME NEW p \in Players, NEW s \in Servers
      PROVE  "ERROR" \notin ContextualDecisions(Unremarkable, p, s)
    <2>1. \A r \in AssignedTo(s) : room[r] \in {"PROVISIONING", "JOINABLE", "FAILED"}
        BY ServersAssumption DEF AssignedTo, Holds, Bound, SagaCoherent, AssignmentFollowsRoom
    <2>2. QED
        BY <2>1, ContextIs, UnremarkableIs, MatchIs
<1>6. ASSUME NEW p \in Players, NEW s \in Servers, Admits(Unremarkable, p, s)
      PROVE  \E r \in Rooms : p \in Roster[r] /\ server[r] = s /\ command[r] = "SUCCEEDED" /\ <<s, r>> \notin ended
    <2>1. PICK r \in AssignedTo(s) : p \in Roster[r] /\ room[r] = "JOINABLE"
        BY <1>1, <1>6, UnremarkableIs
    <2>2. r \in Rooms /\ server[r] = s
        BY DEF AssignedTo, Holds
    <2>3. command[r] = "SUCCEEDED" /\ <<s, r>> \notin ended
        BY <2>1, <2>2 DEF SagaCoherent, CommandFollowsRoom, StoredEndIsProjected
    <2>4. QED
        BY <2>1, <2>2, <2>3
<1>7. QED
    BY <1>3, <1>4, <1>5, <1>6 DEF OneWayIn

(* A player in good standing gets into one server at most, and only while    *)
(* his own match is being played there; a room shows him a server exactly    *)
(* when it admits him and has a launch_uri.                                  *)
THEOREM OneWay == AccessSpec => []OneWayIn
<1>1. AccessSpec => []TypeOK /\ []SagaCoherent /\ []StoredEndIsProjected
    BY AccessIsSaga, TypeCorrect, SagaAgrees, StoredProjected, PTL
<1>2. TypeOK /\ RostersApart /\ [AccessNext]_vars => RostersApart'
    BY ApartStep
<1>3. AccessSpec => []RostersApart
    BY <1>1, <1>2, ApartInit, PTL DEF AccessSpec
<1>4. TypeOK /\ RostersApart /\ SagaCoherent /\ StoredEndIsProjected => OneWayIn
    BY OneWayInHolds
<1>5. QED
    BY <1>1, <1>3, <1>4, PTL

=============================================================================
