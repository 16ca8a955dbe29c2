------------------------- MODULE MatchIngress_proofs -------------------------
(***************************************************************************)
(* Theorems about MatchIngress, for any edges, messages, rooms, requests   *)
(* and number of crashes.                                                  *)
(***************************************************************************)
EXTENDS MatchIngress, TLAPS

-----------------------------------------------------------------------------
(* A request that is under way carries a message that was not malformed.     *)
Carrying ==
    \A q \in Requests : phase[q] # "IDLE" => message[q] \in Messages /\ WellFormed(message[q])

TypeInv == TypeOK /\ Carrying

LEMMA MessageFields ==
    ASSUME NEW m \in Messages
    PROVE  /\ Key(m) \in Keys
           /\ WellFormed(m) /\ m.name = "series_end" => m.room \in Rooms
BY MessagesAssumption DEF Key, Keys, WellFormed

LEMMA InitTyped == Init => TypeInv
BY BoundsAssumption DEF Init, TypeInv, TypeOK, Carrying, Phases

(* What a request does to the tables when it is over.                        *)
LEMMA FinishTyped ==
    ASSUME TypeInv, NEW q \in Requests, Finish(q)
    PROVE  /\ inserting' \in [Keys -> Requests \cup {Nothing}]
           /\ phase' \in [Requests -> Phases]
           /\ message' \in [Requests -> Messages \cup {Nothing}]
           /\ Carrying'
<1>1. phase' = [phase EXCEPT ![q] = "IDLE"] /\ message' = [message EXCEPT ![q] = Nothing]
    BY DEF Finish
<1>2. inserting' = [k \in Keys |-> IF inserting[k] = q THEN Nothing ELSE inserting[k]]
    BY DEF Finish, Release
<1>3. QED
    BY <1>1, <1>2 DEF TypeInv, TypeOK, Carrying, Phases, WellFormed

(* A request that is under way gets on.                                      *)
LEMMA ContinueTyped ==
    ASSUME TypeInv, NEW q \in Requests, phase[q] # "IDLE", NEW step \in Phases, Continue(q, step),
           row' \in [Keys -> Messages \cup {Nothing}],
           inserting' \in [Keys -> Requests \cup {Nothing}],
           room' \in [Rooms -> {"PROVISIONING", "JOINABLE", "FAILED", "COMPLETED"}],
           UNCHANGED crashes
    PROVE  TypeInv'
BY DEF Continue, TypeInv, TypeOK, Carrying, WellFormed, histVars

LEMMA TypeStep == TypeInv /\ [Next]_vars => TypeInv'
<1> SUFFICES ASSUME TypeInv, [Next]_vars PROVE TypeInv'
    OBVIOUS
<1> USE DEF TypeInv, TypeOK
<1>1. CASE UNCHANGED vars
    BY <1>1 DEF vars, histVars, Carrying, WellFormed
<1>2. ASSUME NEW q \in Requests, Refuse(q), UNCHANGED crashes PROVE TypeInv'
    BY <1>2, FinishTyped DEF Refuse, histVars
<1>3. ASSUME NEW q \in Requests, NEW m \in Messages, Receive(q, m) PROVE TypeInv'
    BY <1>3 DEF Receive, Carrying, Phases, WellFormed, histVars
<1>4. ASSUME NEW q \in Requests, phase[q] # "IDLE", Found(q), UNCHANGED crashes PROVE TypeInv'
    BY <1>2, <1>4, ContinueTyped DEF Found, Phases
<1>5. ASSUME NEW q \in Requests, LookUp(q), UNCHANGED crashes PROVE TypeInv'
    BY <1>4, <1>5, ContinueTyped DEF LookUp, Phases
<1>6. ASSUME NEW q \in Requests, Insert(q), UNCHANGED crashes PROVE TypeInv'
    <2>1. phase[q] = "MISSING" /\ message[q] \in Messages /\ Key(message[q]) \in Keys
        BY <1>6, MessageFields DEF Insert, Carrying
    <2>2. CASE Found(q)
        BY <1>4, <1>6, <2>1, <2>2
    <2>3. CASE /\ Continue(q, "INSERTED")
               /\ inserting' = [inserting EXCEPT ![Key(message[q])] = q]
               /\ UNCHANGED <<row, room>>
        BY <1>6, <2>1, <2>3, ContinueTyped DEF Phases
    <2>4. CASE /\ Continue(q, "STORED")
               /\ row' = [row EXCEPT ![Key(message[q])] = message[q]]
               /\ UNCHANGED <<inserting, room>>
        BY <1>6, <2>1, <2>4, ContinueTyped DEF Phases
    <2>5. QED
        BY <1>6, <2>2, <2>3, <2>4 DEF Insert
<1>7. ASSUME NEW q \in Requests, Project(q), UNCHANGED crashes PROVE TypeInv'
    <2>1. phase[q] # "IDLE" /\ message[q] \in Messages /\ Key(message[q]) \in Keys
        BY <1>7, MessageFields DEF Project, Carrying
    <2>2. CASE Refuse(q)
        BY <1>2, <1>7, <2>2
    <2>3. CASE /\ room' = [room EXCEPT ![message[q].room] = IF @ = "JOINABLE" THEN "COMPLETED" ELSE @]
               /\ row'  = [row EXCEPT ![Key(message[q])] = message[q]]
               /\ Continue(q, IF phase[q] = "DUPLICATE" THEN "REPEATED" ELSE "STORED")
               /\ Release(q)
        BY <1>7, <2>1, <2>3, ContinueTyped DEF Phases, Release
    <2>4. QED
        BY <1>7, <2>2, <2>3 DEF Project
<1>8. ASSUME NEW q \in Requests, Answer(q), UNCHANGED crashes PROVE TypeInv'
    <2>1. message[q] \in Messages /\ Key(message[q]) \in Keys
        BY <1>8, MessageFields DEF Answer, Carrying
    <2>2. QED
        BY <1>8, <2>1, FinishTyped DEF Answer
<1>9. ASSUME NEW q \in Requests, Crash(q) PROVE TypeInv'
    <2>1. Key(message[q]) \in Keys
        BY <1>9, MessageFields DEF Crash, Carrying
    <2>2. QED
        BY <1>9, <2>1, FinishTyped, BoundsAssumption DEF Crash
<1>10. ASSUME NEW r \in Rooms, FinalizePrepareMatchRoom(r) PROVE TypeInv'
    BY <1>10 DEF FinalizePrepareMatchRoom, Carrying, WellFormed, histVars
<1>11. QED
    BY <1>1, <1>3, <1>5, <1>6, <1>7, <1>8, <1>9, <1>10 DEF Next, Step

(* Every reachable state is well typed. *)
THEOREM TypeCorrect == Spec => []TypeOK
<1>1. TypeInv => TypeOK
    BY DEF TypeInv
<1>2. QED
    BY InitTyped, TypeStep, <1>1, PTL DEF Spec

-----------------------------------------------------------------------------
(* A match that a series_end names is over, and it came from the right edge. *)
Projected(m) ==
    m.name = "series_end" => room[m.room] = "COMPLETED" /\ EdgeOf[m.room] = m.source

(* A request and the tables are in step: one whose row is not committed holds *)
(* its key, and nothing is stored there; one that found or committed its      *)
(* event has it stored, and after the commit projected; one that stored it    *)
(* and has its answer to give is the first to give it.                        *)
InStep(q) ==
    LET k == Key(message[q]) IN
    /\ phase[q] = "INSERTED" => inserting[k] = q /\ row[k] = Nothing
    /\ phase[q] \in {"DUPLICATE", "STORED", "REPEATED"} => row[k] = message[q]
    /\ phase[q] \in {"STORED", "REPEATED"} => Projected(message[q])
    /\ phase[q] = "STORED" => accepted[k] = 0 /\ k \notin unheard

AllInStep == \A q \in Requests : InStep(q)

(* A key's row was stored by one request. *)
OneStored ==
    \A q, x \in Requests :
        phase[q] = "STORED" /\ phase[x] = "STORED" /\ Key(message[q]) = Key(message[x]) => q = x

UnheardStored == \A k \in unheard : row[k] # Nothing

WellAnswered == \A m \in answered : WellFormed(m)

Stored ==
    /\ AllInStep /\ OneStored /\ UnheardStored /\ WellAnswered
    /\ AcceptedOnce /\ AcknowledgedIsKept

LEMMA InitStored == Init => Stored
BY DEF Init, Stored, AllInStep, InStep, OneStored, UnheardStored, WellAnswered, AcceptedOnce,
   AcknowledgedIsKept

(* The other requests stay in step while rows, completed rooms and what was   *)
(* said do not change behind their backs.                                     *)
OthersAlone(q) ==
    \A x \in Requests : x # q =>
        /\ phase'[x] = phase[x] /\ message'[x] = message[x]
        /\ \A k \in Keys : inserting[k] = x => inserting'[k] = x

RowsStay == \A k \in Keys : row[k] # Nothing => row'[k] = row[k]

RoomsStay == \A r \in Rooms : room[r] = "COMPLETED" => room'[r] = "COMPLETED"

LEMMA OthersKeep ==
    ASSUME TypeInv, Stored, NEW q \in Requests, NEW x \in Requests, x # q, OthersAlone(q), RoomsStay,
           \A k \in Keys : row'[k] = row[k] \/ (row[k] = Nothing /\ inserting[k] \in {q, Nothing}),
           \A k \in Keys : \/ accepted'[k] = accepted[k] /\ (k \in unheard' => k \in unheard)
                           \/ phase[q] = "STORED" /\ k = Key(message[q])
    PROVE  InStep(x)'
<1>1. /\ phase'[x] = phase[x] /\ message'[x] = message[x]
      /\ \A k \in Keys : inserting[k] = x => inserting'[k] = x
    BY DEF OthersAlone
<1>2. CASE phase[x] = "IDLE"
    BY <1>1, <1>2 DEF InStep
<1>3. CASE phase[x] # "IDLE"
    <2> DEFINE k == Key(message[x])
    <2>1. message[x] \in Messages /\ k \in Keys /\ message[x] # Nothing
        BY <1>3, MessageFields, NothingAssumption DEF TypeInv, Carrying
    <2>2. InStep(x)
        BY DEF Stored, AllInStep
    <2>3. phase[x] = "INSERTED" => inserting'[k] = x /\ row'[k] = Nothing
        BY <1>1, <2>1, <2>2, NothingAssumption DEF InStep
    <2>4. phase[x] \in {"DUPLICATE", "STORED", "REPEATED"} => row'[k] = message[x]
        BY <2>1, <2>2 DEF InStep
    <2>5. phase[x] \in {"STORED", "REPEATED"} /\ message[x].name = "series_end" =>
              room'[message[x].room] = "COMPLETED" /\ EdgeOf[message[x].room] = message[x].source
        BY <1>3, <2>1, <2>2, MessageFields DEF InStep, Projected, RoomsStay, TypeInv, Carrying
    <2>6. phase[x] = "STORED" => accepted'[k] = 0 /\ k \notin unheard'
        BY <2>1, <2>2 DEF InStep, Stored, OneStored
    <2>7. QED
        BY <1>1, <2>3, <2>4, <2>5, <2>6 DEF InStep, Projected, Key
<1>4. QED
    BY <1>2, <1>3

(* What was acknowledged stays so when rows and completed rooms do.          *)
LEMMA KeptStays ==
    ASSUME TypeInv, Stored, RowsStay, RoomsStay, answered' = answered
    PROVE  AcknowledgedIsKept' /\ WellAnswered'
<1>1. WellAnswered'
    BY DEF Stored, WellAnswered, WellFormed
<1>2. ASSUME NEW m \in answered
      PROVE  /\ row'[Key(m)] = m
             /\ m.name = "series_end" => room'[m.room] = "COMPLETED" /\ EdgeOf[m.room] = m.source
    <2>1. m \in Messages /\ WellFormed(m)
        BY DEF TypeInv, TypeOK, Stored, WellAnswered
    <2>2. /\ row[Key(m)] = m
          /\ m.name = "series_end" => room[m.room] = "COMPLETED" /\ EdgeOf[m.room] = m.source
        BY DEF Stored, AcknowledgedIsKept
    <2>3. Key(m) \in Keys /\ m # Nothing /\ (m.name = "series_end" => m.room \in Rooms)
        BY <2>1, MessageFields, NothingAssumption
    <2>4. QED
        BY <2>2, <2>3 DEF RowsStay, RoomsStay
<1>3. AcknowledgedIsKept'
    BY <1>2 DEF AcknowledgedIsKept, Key
<1>4. QED
    BY <1>1, <1>3

(* A request that has committed nothing gets on or gives up, without a word. *)
LEMMA QuietStored ==
    ASSUME TypeInv, Stored, NEW q \in Requests, phase[q] # "STORED", phase'[q] # "STORED",
           OthersAlone(q), InStep(q)', RoomsStay, UNCHANGED <<row, histVars>>
    PROVE  Stored'
<1>1. row' = row /\ accepted' = accepted /\ answered' = answered /\ unheard' = unheard
    BY DEF histVars
<1>2. AllInStep'
    BY <1>1, OthersKeep DEF AllInStep
<1>3. OneStored'
    BY DEF OthersAlone, Stored, OneStored, Key
<1>4. UnheardStored'
    BY <1>1 DEF Stored, UnheardStored
<1>5. AcknowledgedIsKept' /\ WellAnswered'
    BY <1>1, KeptStays DEF RowsStay
<1>6. ASSUME NEW x \in Requests, NEW k \in Keys, phase[x] = "STORED", Key(message[x]) = k
      PROVE  phase'[x] = "STORED" /\ Key(message'[x]) = k
    BY <1>6 DEF OthersAlone
<1>7. AcceptedOnce'
    BY <1>1, <1>6 DEF Stored, AcceptedOnce, Key
<1>8. QED
    BY <1>2, <1>3, <1>4, <1>5, <1>7 DEF Stored

(* A finished request gives up its own key and nobody else's.                *)
LEMMA FinishEffect ==
    ASSUME TypeInv, NEW q \in Requests, Finish(q)
    PROVE  phase'[q] = "IDLE" /\ OthersAlone(q)
<1>1. phase' = [phase EXCEPT ![q] = "IDLE"] /\ message' = [message EXCEPT ![q] = Nothing]
    BY DEF Finish
<1>2. inserting' = [k \in Keys |-> IF inserting[k] = q THEN Nothing ELSE inserting[k]]
    BY DEF Finish, Release
<1>3. QED
    BY <1>1, <1>2 DEF TypeInv, TypeOK, OthersAlone

LEMMA RefuseStored ==
    ASSUME TypeInv, Stored, NEW q \in Requests, phase[q] # "STORED", Refuse(q)
    PROVE  Stored'
<1>1. UNCHANGED <<row, room, histVars>> /\ Finish(q)
    BY DEF Refuse
<1>2. InStep(q)'
    BY <1>1, FinishEffect DEF InStep
<1>3. QED
    BY <1>1, <1>2, FinishEffect, QuietStored DEF RoomsStay

(* A request that is under way changes its own phase. *)
LEMMA ContinueEffect ==
    ASSUME TypeInv, NEW q \in Requests, NEW step, Continue(q, step),
           \A x \in Requests, k \in Keys : x # q /\ inserting[k] = x => inserting'[k] = x
    PROVE  /\ phase'[q] = step /\ message'[q] = message[q] /\ OthersAlone(q)
           /\ UNCHANGED histVars
BY DEF Continue, TypeInv, TypeOK, OthersAlone

(* The event is stored and projected now, and nobody else holds its key.     *)
LEMMA StoreKeeps ==
    ASSUME TypeInv, Stored, NEW q \in Requests, phase[q] \notin {"IDLE", "STORED"},
           Continue(q, "STORED"), OthersAlone(q), RoomsStay,
           row[Key(message[q])] = Nothing,
           inserting[Key(message[q])] \in {q, Nothing},
           row' = [row EXCEPT ![Key(message[q])] = message[q]],
           message[q].name = "series_end" =>
               room'[message[q].room] = "COMPLETED" /\ EdgeOf[message[q].room] = message[q].source
    PROVE  Stored'
<1> DEFINE k == Key(message[q])
<1>1. /\ phase'[q] = "STORED" /\ message'[q] = message[q]
      /\ accepted' = accepted /\ answered' = answered /\ unheard' = unheard
    BY DEF Continue, histVars, TypeInv, TypeOK
<1>2. message[q] \in Messages /\ k \in Keys /\ message[q] # Nothing
    BY MessageFields, NothingAssumption DEF TypeInv, Carrying
<1>3. row'[k] = message[q] /\ \A j \in Keys : j # k => row'[j] = row[j]
    BY <1>2 DEF TypeInv, TypeOK
<1>4. accepted[k] = 0 /\ k \notin unheard
    BY <1>2 DEF Stored, AcceptedOnce, UnheardStored, TypeInv, TypeOK
<1>5. InStep(q)'
    BY <1>1, <1>2, <1>3, <1>4 DEF InStep, Projected, Key
<1>6. AllInStep'
    BY <1>1, <1>3, <1>5, OthersKeep DEF AllInStep
<1>7. ASSUME NEW x \in Requests, phase[x] = "STORED"
      PROVE  /\ x # q /\ phase'[x] = "STORED" /\ message'[x] = message[x]
             /\ Key(message[x]) # k
    <2>1. row[Key(message[x])] = message[x] /\ message[x] # Nothing
        BY <1>7, NothingAssumption DEF Stored, AllInStep, InStep, TypeInv, Carrying
    <2>2. QED
        BY <1>7, <2>1 DEF OthersAlone
<1>8. ASSUME NEW x \in Requests, phase'[x] = "STORED", x # q
      PROVE  phase[x] = "STORED" /\ message'[x] = message[x]
    BY <1>8 DEF OthersAlone
<1>9. OneStored'
    BY <1>1, <1>7, <1>8 DEF Stored, OneStored, Key
<1>10. UnheardStored'
    BY <1>1, <1>2, <1>3 DEF Stored, UnheardStored, TypeInv, TypeOK
<1>11. AcceptedOnce'
    <2> SUFFICES ASSUME NEW j \in Keys
                 PROVE  /\ accepted[j] <= 1
                        /\ accepted[j] = 1 => row'[j] # Nothing /\ j \notin unheard
                        /\ row'[j] # Nothing /\ accepted[j] = 0 =>
                              \/ j \in unheard
                              \/ \E x \in Requests : phase'[x] = "STORED" /\ Key(message'[x]) = j
        BY <1>1 DEF AcceptedOnce, Key
    <2>1. CASE j = k
        BY <1>1, <1>4, <2>1
    <2>2. CASE j # k
        BY <1>3, <1>7, <2>2 DEF Stored, AcceptedOnce
    <2>3. QED
        BY <2>1, <2>2
<1>12. AcknowledgedIsKept' /\ WellAnswered'
    BY <1>1, <1>3, KeptStays DEF RowsStay
<1>13. QED
    BY <1>6, <1>9, <1>10, <1>11, <1>12 DEF Stored

LEMMA FoundKeeps ==
    ASSUME TypeInv, Stored, NEW q \in Requests, phase[q] \in {"RECEIVED", "MISSING"}, Found(q)
    PROVE  Stored'
<1>1. CASE ~areFieldsIdentical(message[q], row[Key(message[q])])
    BY <1>1, RefuseStored DEF Found
<1>2. CASE areFieldsIdentical(message[q], row[Key(message[q])])
    <2>1. row[Key(message[q])] = message[q]
        BY <1>2 DEF areFieldsIdentical
    <2>2. PICK step \in {"DUPLICATE", "REPEATED"} :
              /\ Continue(q, step) /\ UNCHANGED <<row, inserting, room>>
              /\ step = "REPEATED" => message[q].name # "series_end"
        BY <1>2 DEF Found
    <2>3. phase'[q] = step /\ message'[q] = message[q] /\ OthersAlone(q) /\ UNCHANGED histVars
        BY <2>2, ContinueEffect
    <2>4. InStep(q)'
        BY <2>1, <2>2, <2>3 DEF InStep, Projected, Key
    <2>5. QED
        BY <2>2, <2>3, <2>4, QuietStored DEF RoomsStay
<1>3. QED
    BY <1>1, <1>2

LEMMA LookUpKeeps ==
    ASSUME TypeInv, Stored, NEW q \in Requests, LookUp(q)
    PROVE  Stored'
<1>1. CASE Found(q)
    BY <1>1, FoundKeeps DEF LookUp
<1>2. CASE Continue(q, "MISSING") /\ UNCHANGED <<row, inserting, room>>
    <2>1. phase'[q] = "MISSING" /\ OthersAlone(q) /\ UNCHANGED histVars
        BY <1>2, ContinueEffect
    <2>2. InStep(q)'
        BY <2>1 DEF InStep
    <2>3. QED
        BY <1>2, <2>1, <2>2, QuietStored DEF LookUp, RoomsStay
<1>3. QED
    BY <1>1, <1>2 DEF LookUp

LEMMA InsertKeeps ==
    ASSUME TypeInv, Stored, NEW q \in Requests, Insert(q)
    PROVE  Stored'
<1> DEFINE k == Key(message[q])
<1>1. phase[q] = "MISSING" /\ message[q] \in Messages /\ k \in Keys /\ inserting[k] = Nothing
    BY MessageFields DEF Insert, TypeInv, Carrying
<1>2. CASE Found(q)
    BY <1>1, <1>2, FoundKeeps
<1>3. CASE /\ row[k] = Nothing
           /\ Continue(q, "INSERTED")
           /\ inserting' = [inserting EXCEPT ![k] = q]
           /\ UNCHANGED <<row, room>>
    <2>1. \A x \in Requests, j \in Keys : x # q /\ inserting[j] = x => inserting'[j] = x
        BY <1>1, <1>3, NothingAssumption DEF TypeInv, TypeOK
    <2>2. /\ phase'[q] = "INSERTED" /\ message'[q] = message[q] /\ OthersAlone(q)
          /\ UNCHANGED histVars
        BY <1>3, <2>1, ContinueEffect
    <2>3. inserting'[k] = q
        BY <1>1, <1>3 DEF TypeInv, TypeOK
    <2>4. InStep(q)'
        BY <1>3, <2>2, <2>3 DEF InStep, Key
    <2>5. QED
        BY <1>1, <1>3, <2>2, <2>4, QuietStored DEF RoomsStay
<1>4. CASE /\ row[k] = Nothing /\ message[q].name # "series_end"
           /\ Continue(q, "STORED")
           /\ row' = [row EXCEPT ![k] = message[q]]
           /\ UNCHANGED <<inserting, room>>
    BY <1>1, <1>4, ContinueEffect, StoreKeeps DEF RoomsStay
<1>5. QED
    BY <1>2, <1>3, <1>4 DEF Insert

LEMMA ProjectKeeps ==
    ASSUME TypeInv, Stored, NEW q \in Requests, Project(q)
    PROVE  Stored'
<1>1. CASE ~CanProject(message[q])
    BY <1>1, RefuseStored DEF Project
<1>2. CASE CanProject(message[q])
    <2>1. /\ phase[q] \in {"INSERTED", "DUPLICATE"}
          /\ room' = [room EXCEPT ![message[q].room] = IF @ = "JOINABLE" THEN "COMPLETED" ELSE @]
          /\ row'  = [row EXCEPT ![Key(message[q])] = message[q]]
          /\ Continue(q, IF phase[q] = "DUPLICATE" THEN "REPEATED" ELSE "STORED")
          /\ Release(q)
        BY <1>2 DEF Project
    <2>2. message[q] \in Messages /\ WellFormed(message[q])
        BY <2>1 DEF TypeInv, Carrying
    <2>3. message[q].name = "series_end" =>
              room'[message[q].room] = "COMPLETED" /\ EdgeOf[message[q].room] = message[q].source
        BY <1>2, <2>1, <2>2, MessageFields DEF CanProject, TypeInv, TypeOK
    <2>4. RoomsStay
        BY <2>1 DEF TypeInv, TypeOK, RoomsStay
    <2>5. \A x \in Requests, k \in Keys : x # q /\ inserting[k] = x => inserting'[k] = x
        BY <2>1 DEF Release
    <2>6. InStep(q)
        BY DEF Stored, AllInStep
    <2>7. CASE phase[q] = "DUPLICATE"
        <3>1. row[Key(message[q])] = message[q]
            BY <2>6, <2>7 DEF InStep
        <3>2. row' = row
            BY <2>1, <3>1 DEF TypeInv, TypeOK
        <3>3. /\ phase'[q] = "REPEATED" /\ message'[q] = message[q] /\ OthersAlone(q)
              /\ UNCHANGED histVars
            BY <2>1, <2>5, <2>7, ContinueEffect
        <3>4. InStep(q)'
            BY <2>3, <3>1, <3>2, <3>3 DEF InStep, Projected, Key
        <3>5. QED
            BY <2>4, <2>7, <3>2, <3>3, <3>4, QuietStored
    <2>8. CASE phase[q] = "INSERTED"
        <3>1. row[Key(message[q])] = Nothing /\ inserting[Key(message[q])] = q
            BY <2>6, <2>8 DEF InStep
        <3>2. Continue(q, "STORED") /\ OthersAlone(q)
            BY <2>1, <2>5, <2>8, ContinueEffect
        <3>3. QED
            BY <2>1, <2>3, <2>4, <2>8, <3>1, <3>2, StoreKeeps
    <2>9. QED
        BY <2>1, <2>7, <2>8
<1>3. QED
    BY <1>1, <1>2

(* The edge is told: the event is stored and projected, and if it is told    *)
(* "not a duplicate", nobody was told so before.                             *)
LEMMA AnswerKeeps ==
    ASSUME TypeInv, Stored, NEW q \in Requests, Answer(q)
    PROVE  Stored'
<1> DEFINE k == Key(message[q])
<1>1. /\ phase[q] \in {"STORED", "REPEATED"} /\ Finish(q)
      /\ answered' = answered \cup {message[q]}
      /\ row' = row /\ room' = room /\ unheard' = unheard
      /\ accepted' = IF phase[q] = "REPEATED" THEN accepted ELSE [accepted EXCEPT ![k] = @ + 1]
    BY DEF Answer
<1>2. message[q] \in Messages /\ WellFormed(message[q]) /\ k \in Keys /\ message[q] # Nothing
    BY <1>1, MessageFields, NothingAssumption DEF TypeInv, Carrying
<1>3. phase'[q] = "IDLE" /\ OthersAlone(q)
    BY <1>1, FinishEffect
<1>4. /\ row[k] = message[q] /\ Projected(message[q])
      /\ phase[q] = "STORED" => accepted[k] = 0 /\ k \notin unheard
    BY <1>1 DEF Stored, AllInStep, InStep
<1>5. /\ \A j \in Keys : j # k => accepted'[j] = accepted[j]
      /\ phase[q] = "REPEATED" => accepted' = accepted
      /\ phase[q] = "STORED" => accepted'[k] = 1
    BY <1>1, <1>2, <1>4 DEF TypeInv, TypeOK
<1>6. AllInStep'
    <2>1. InStep(q)'
        BY <1>3 DEF InStep
    <2>2. \A j \in Keys : accepted'[j] = accepted[j] \/ (phase[q] = "STORED" /\ j = k)
        BY <1>1, <1>5
    <2>3. QED
        BY <1>1, <1>3, <2>1, <2>2, OthersKeep DEF AllInStep, RoomsStay
<1>7. OneStored' /\ UnheardStored'
    BY <1>1, <1>3 DEF OthersAlone, Stored, OneStored, UnheardStored, Key
<1>8. AcceptedOnce'
    <2> SUFFICES ASSUME NEW j \in Keys
                 PROVE  /\ accepted'[j] <= 1
                        /\ accepted'[j] = 1 => row[j] # Nothing /\ j \notin unheard
                        /\ row[j] # Nothing /\ accepted'[j] = 0 =>
                              \/ j \in unheard
                              \/ \E x \in Requests : phase'[x] = "STORED" /\ Key(message'[x]) = j
        BY <1>1 DEF AcceptedOnce, Key
    <2>1. CASE phase[q] = "STORED" /\ j = k
        BY <1>2, <1>4, <1>5, <2>1
    <2>2. CASE ~(phase[q] = "STORED" /\ j = k)
        <3>1. accepted'[j] = accepted[j]
            BY <1>1, <1>5, <2>2
        <3>2. ASSUME NEW x \in Requests, phase[x] = "STORED", Key(message[x]) = j
              PROVE  phase'[x] = "STORED" /\ Key(message'[x]) = j
            BY <2>2, <1>3, <3>2 DEF OthersAlone
        <3>3. QED
            BY <3>1, <3>2 DEF Stored, AcceptedOnce
    <2>3. QED
        BY <2>1, <2>2
<1>9. AcknowledgedIsKept' /\ WellAnswered'
    BY <1>1, <1>2, <1>4 DEF Stored, AcknowledgedIsKept, WellAnswered, Projected, Key, WellFormed
<1>10. QED
    BY <1>6, <1>7, <1>8, <1>9 DEF Stored

(* Cut off after its commit, a request leaves a row that nobody is told of.  *)
LEMMA CrashKeeps ==
    ASSUME TypeInv, Stored, NEW q \in Requests, Crash(q)
    PROVE  Stored'
<1> DEFINE k == Key(message[q])
<1>1. /\ phase[q] # "IDLE" /\ Finish(q)
      /\ unheard' = unheard \cup (IF phase[q] = "STORED" THEN {k} ELSE {})
      /\ row' = row /\ room' = room /\ accepted' = accepted /\ answered' = answered
    BY DEF Crash
<1>2. k \in Keys /\ message[q] # Nothing
    BY <1>1, MessageFields, NothingAssumption DEF TypeInv, Carrying
<1>3. phase'[q] = "IDLE" /\ OthersAlone(q)
    BY <1>1, FinishEffect
<1>4. phase[q] = "STORED" => row[k] # Nothing /\ accepted[k] = 0
    BY <1>2 DEF Stored, AllInStep, InStep
<1>5. AllInStep'
    <2>1. InStep(q)'
        BY <1>3 DEF InStep
    <2>2. \A j \in Keys : (j \in unheard' => j \in unheard) \/ (phase[q] = "STORED" /\ j = k)
        BY <1>1
    <2>3. QED
        BY <1>1, <1>3, <2>1, <2>2, OthersKeep DEF AllInStep, RoomsStay
<1>6. OneStored'
    BY <1>3 DEF OthersAlone, Stored, OneStored, Key
<1>7. UnheardStored'
    BY <1>1, <1>4 DEF Stored, UnheardStored
<1>8. AcceptedOnce'
    <2> SUFFICES ASSUME NEW j \in Keys
                 PROVE  /\ accepted[j] <= 1
                        /\ accepted[j] = 1 => row[j] # Nothing /\ j \notin unheard'
                        /\ row[j] # Nothing /\ accepted[j] = 0 =>
                              \/ j \in unheard'
                              \/ \E x \in Requests : phase'[x] = "STORED" /\ Key(message'[x]) = j
        BY <1>1 DEF AcceptedOnce, Key
    <2>1. CASE phase[q] = "STORED" /\ j = k
        BY <1>1, <1>4, <2>1
    <2>2. CASE ~(phase[q] = "STORED" /\ j = k)
        <3>1. j \in unheard' <=> j \in unheard
            BY <1>1, <2>2
        <3>2. ASSUME NEW x \in Requests, phase[x] = "STORED", Key(message[x]) = j
              PROVE  phase'[x] = "STORED" /\ Key(message'[x]) = j
            BY <2>2, <1>3, <3>2 DEF OthersAlone
        <3>3. QED
            BY <3>1, <3>2 DEF Stored, AcceptedOnce
    <2>3. QED
        BY <2>1, <2>2
<1>9. AcknowledgedIsKept' /\ WellAnswered'
    BY <1>1, KeptStays DEF RowsStay, RoomsStay
<1>10. QED
    BY <1>5, <1>6, <1>7, <1>8, <1>9 DEF Stored

LEMMA StoredStep == TypeInv /\ Stored /\ [Next]_vars => Stored'
<1> SUFFICES ASSUME TypeInv, Stored, [Next]_vars PROVE Stored'
    OBVIOUS
<1>1. CASE UNCHANGED vars
    BY <1>1 DEF vars, histVars, Stored, AllInStep, InStep, Projected, OneStored, UnheardStored, WellAnswered,
       WellFormed, AcceptedOnce, AcknowledgedIsKept, Key
<1>2. ASSUME NEW q \in Requests, NEW m \in Messages, Receive(q, m) PROVE Stored'
    <2>1. /\ phase[q] = "IDLE" /\ phase'[q] = "RECEIVED" /\ OthersAlone(q)
          /\ UNCHANGED <<row, room, histVars>>
        BY <1>2 DEF Receive, OthersAlone, TypeInv, TypeOK
    <2>2. InStep(q)'
        BY <2>1 DEF InStep
    <2>3. QED
        BY <2>1, <2>2, QuietStored DEF RoomsStay
<1>3. ASSUME NEW r \in Rooms, FinalizePrepareMatchRoom(r) PROVE Stored'
    <2>1. /\ UNCHANGED <<row, inserting, phase, message, accepted, answered, unheard>>
          /\ RoomsStay
        BY <1>3 DEF FinalizePrepareMatchRoom, histVars, TypeInv, TypeOK, RoomsStay
    <2>2. OneStored' /\ UnheardStored' /\ AcceptedOnce'
        BY <2>1 DEF Stored, OneStored, UnheardStored, AcceptedOnce, Key
    <2>3. AcknowledgedIsKept' /\ WellAnswered'
        BY <2>1, KeptStays DEF RowsStay
    <2>4. ASSUME NEW q \in Requests PROVE InStep(q)'
        <3>1. InStep(q)
            BY DEF Stored, AllInStep
        <3>2. phase[q] # "IDLE" /\ message[q].name = "series_end" => message[q].room \in Rooms
            BY MessageFields DEF TypeInv, Carrying
        <3>3. phase[q] \in {"STORED", "REPEATED"} /\ message[q].name = "series_end" =>
                  room'[message[q].room] = "COMPLETED" /\ EdgeOf[message[q].room] = message[q].source
            BY <2>1, <3>1, <3>2 DEF InStep, Projected, RoomsStay
        <3>4. QED
            BY <2>1, <3>1, <3>3 DEF InStep, Projected, Key
    <2>5. QED
        BY <2>2, <2>3, <2>4 DEF Stored, AllInStep
<1>4. QED
    BY <1>1, <1>2, <1>3, LookUpKeeps, InsertKeeps, ProjectKeeps, AnswerKeeps, CrashKeeps DEF Next, Step

(* What an edge was told is kept stays in the table, unchanged, and a        *)
(* series_end it was told is kept has completed its room.                    *)
THEOREM AcknowledgedKept == Spec => []AcknowledgedIsKept
<1>1. Stored => AcknowledgedIsKept
    BY DEF Stored
<1>2. QED
    BY InitTyped, TypeStep, InitStored, StoredStep, <1>1, PTL DEF Spec

(* Of all the requests with one key, at most one is answered "not a          *)
(* duplicate", only with a row there, and none if that answer was lost.      *)
THEOREM AcceptedAtMostOnce == Spec => []AcceptedOnce
<1>1. Stored => AcceptedOnce
    BY DEF Stored
<1>2. QED
    BY InitTyped, TypeStep, InitStored, StoredStep, <1>1, PTL DEF Spec

=============================================================================
